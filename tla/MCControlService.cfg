CONSTANTS
  Worker = {w1, w2}
  Main = Main
  Free = Free
  MaxChildren = 2
SPECIFICATION Spec
INVARIANTS NoOrphanSelector HeldPidUnreaped ExitReportedOnce
PROPERTIES EventsFollowNewestCapture ExclusiveScreen
SYMMETRY Symmetry
CHECK_DEADLOCK FALSE
