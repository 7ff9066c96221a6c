CONSTANTS
  Press = {p}
  Restart = {r}
  Tray = {r}
  Managed = {m}
  Dev = dev
  Legacy = legacy
  MaxDaemons = 2
SPECIFICATION ClientSpec
PROPERTY SpawnStartsDaemon
CHECK_DEADLOCK FALSE
