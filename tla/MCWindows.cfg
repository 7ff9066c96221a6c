CONSTANTS
  Parts = {"editor", "session", "text", "handoff", "delivery", "pin", "capture", "screen", "stitch", "panel", "toolbar", "preview", "fixed"}
  MaxObjects = 2
  MaxText = 1
  Width = 2
  HistorySteps = 2
  HistoryBytes = 4
  EditorTools = {"Rect", "Text"}
  Captured <- MCCaptured
  MaxActs = 3
  MaxRevision = 2
  MaxVersion = 2
  MaxTickets = 3
  MaxTyped = 1
  ScreenWidth = 2
  MinSelection = 1
  OverlayTools = {"Pen", "Text"}
  Looks = {0}
  MaxPresses = 3
  PageRows = 8
  ViewRows = 3
  MinOverlap = 1
  MinShift = 2
  Interval = 3
  HistoryLen = 2
  KeyLimit = 3
  CanvasLimits = {5, 9}
  MaxViews = 4
  NameTries = 2
  FeedChunks = 1
  PinSizes = {4, 8}
  FloatAttempts = 2
  MaxPinActs = 2
  Outputs = {"a", "b"}
  Layouts <- MCLayouts
  Formats = {"argb", "other"}
  MaxFrames = 3
  MaxChanges = 1
  FixedRows = 10
  FixedColumns = 6
  Transitions <- MCTransitions
  WindowLen = 6
  ReadyAfter = 3
  ConsensusPercent = 80
  MostPercent = 45
  LeastRows = 4
  LeastColumns = 2
  PixelWidth = 20
  PictureSizes <- MCPictureSizes
  WindowSizes <- MCWindowSizes
  ViewPad = 1
  ScaleUnit = 2
  LeastScale = 1
  MostScale = 4
  TileRows = 2
  CacheLimit = 8
  MaxRevisions = 3
  PanelScreens <- MCPanelScreens
  PanelSizes <- MCPanelSizes
  PanelHint <- MCPanelHint
  PanelMargin = 1
  BarButtons <- MCBarButtons
  BarScreens <- MCBarScreens
  BarSelections <- MCBarSelections
  BarSpacing <- MCBarSpacing
  BarTightest <- MCBarTightest
  ButtonHeight = 4
  RowGap = 1
  EdgeMargin = 1
  BarMargin = 2
  BarPad = 2
SPECIFICATION Spec
INVARIANTS TypeOK PiecesFit ImageKept TextSound PinSound CaptureTrue
PROPERTIES HistoryIsTimeline CloseKeepsDrawn TypedTextKept
VIEW PartView
CHECK_DEADLOCK FALSE
