CONSTANTS
  Image = {i1, i2}
  Capacity = 1
  MaxGrabs = 2
SPECIFICATION FairSpec
INVARIANTS NoLostWakeup Controllable
PROPERTIES FinishKeepsFrames StitchedInOrder FinishHonoured FramesStitched RetryCleared
CHECK_DEADLOCK FALSE
