CONSTANTS
  Worker = {w1, w2}
  Main = Main
  Free = Free
  MaxChildren = 1
SPECIFICATION FairSpec
PROPERTIES ShutdownCompletes RequestsAnswered FinishedChildFreesSlot
CHECK_DEADLOCK FALSE
