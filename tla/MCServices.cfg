CONSTANTS
  Parts = {"settings", "workbench", "picker", "tray", "shortcuts", "niri", "units", "recognition", "prepare"}
  Panels = {"p", "q"}
  ConfigFields = {"model"}
  PrefFields = {"save", "dir"}
  Toggles = {"save"}
  Values = {0, 1, 2}
  MaxEdits = 2
  ShortcutIds = {"region", "long"}
  MaxTokens = 3
  MaxSignals = 2
  OcrBudget = 3
  ApiBudget = 2
  LocalCap = 2
  ModelCount = 2
  MaxTime = 6
  FormValues = {0, 1}
  MaxFormEdits = 3
  MaxRequests = 3
  ModelNames = {1, 2, 3}
  ListAnswers <- MCListAnswers
  MaxPicks = 4
  DefaultShortcuts = {"region", "long"}
  MaxCommands = 2
  MaxHandEdits = 2
  UnitOrder <- MCUnitOrder
  MaxInterference = 1
  TrayProcesses = {"boot", "manual"}
  WatcherAttempts = 2
  MaxClicks = 2
  MaxLevel = 2
  MaxColumns = 5
  MaxHalf = 3
  ImageSide = 3
  Shades = {0, 1}
  KernelSizes = {3, 5}
  MaxCount = 3
SPECIFICATION Spec
INVARIANTS TypeOK ShownTrue CursorIsShown ShortcutsTrue ServicesSafe OneBudget PrepExact
PROPERTIES SavesKeepOthers
VIEW PartView
CHECK_DEADLOCK FALSE
