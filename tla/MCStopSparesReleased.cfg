CONSTANTS
  Worker = {w1, w2}
  Main = Main
  Free = Free
  MaxChildren = 1
SPECIFICATION Spec
PROPERTIES StopSparesReleased
CHECK_DEADLOCK FALSE
