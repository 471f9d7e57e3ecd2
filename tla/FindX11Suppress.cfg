CONSTANTS
  Backends = {"x11"}
  MaxOps = 4
  None = None
SPECIFICATION Spec
PROPERTIES
  OnlyEchoesSuppressed
CHECK_DEADLOCK FALSE
