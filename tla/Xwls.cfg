CONSTANTS
  XClients = {x1, x2, x3}
  MaxFaults = 2
SPECIFICATION FairSpec
INVARIANTS
  OneListener
  NoBusyLoop
PROPERTIES
  XClientsAnswered
CHECK_DEADLOCK FALSE
