CONSTANTS
  Kinds = {"fd", "lookup", "focus", "create"}
  MaxCalls = 2
  MaxBus = 2
  MaxCommits = 1
  Capacity = 3
  ReadMax = 3
  Pipelines = FALSE
  SplitsFds = FALSE
SPECIFICATION Spec
INVARIANTS
  SenderSettles
PROPERTIES
  ImplementsLocalBus
  CallsArrive
CHECK_DEADLOCK FALSE
