CONSTANTS
  Press = {p}
  Restart = {r}
  Tray = {r}
  Managed = {m}
  Dev = dev
  Legacy = legacy
  MaxDaemons = 2
SPECIFICATION ClientSpec
INVARIANTS RunsOnce SameBuildRuns ServingReachable RestartIsNew
CHECK_DEADLOCK FALSE
