CONSTANTS
  Release = {a, b}
  Legacy = {saved}
  None = None
  Entry = {unit, login}
  Unit = unit
  Login = login
  MaxOperations = 3
  MaxEdits = 1
SPECIFICATION Spec
SYMMETRY Symmetry
INVARIANTS PointersAgree
PROPERTIES NothingOverwritten OneVersionLive
CHECK_DEADLOCK FALSE
