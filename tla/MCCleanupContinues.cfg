CONSTANTS
  Release = {a}
  Legacy = {saved}
  None = None
  Entry = {unit, login}
  Unit = unit
  Login = login
  MaxOperations = 2
  MaxEdits = 0
SPECIFICATION FairSpec
PROPERTIES CleanupContinues
CHECK_DEADLOCK FALSE
