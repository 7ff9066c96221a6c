CONSTANTS
  Release = {a, b}
  Legacy = {saved, kept}
  None = None
  Entry = {unit, login}
  Unit = unit
  Login = login
  MaxOperations = 2
  MaxEdits = 0
SPECIFICATION FairSpec
PROPERTIES InterruptedInstallEnds
CHECK_DEADLOCK FALSE
