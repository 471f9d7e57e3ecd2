CONSTANTS
  MaxConns = 2
  MaxSends = 2
  MaxWrites = 2
  Cap = 3
  Oversized = {2}
  None = None
SPECIFICATION FairSpec
INVARIANTS
  StreamsInOrder
  CommandsInOrder
PROPERTIES
  PendingArrives
  CommandsRun
CHECK_DEADLOCK FALSE
