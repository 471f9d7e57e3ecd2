CONSTANTS
  e1 = e1
  e2 = e2
  e3 = e3
  a1 = a1
  a2 = a2
  emacs = emacs
  app = app
  None = None
  Windows = {e1, e2, a1}
  Clients = {emacs, app}
  Owner <- MCOwner
  Views = {1}
  Verbs = {"set_geometry", "add_mirror", "remove_mirror", "promote_mirror", "switch_workspace"}
  MaxWs = 2
  MaxBatch = 1
SPECIFICATION FairSpec
INVARIANTS
  EmacsKnowsApps
PROPERTIES
  PendingResolves
  DeadFrameLeaves
CHECK_DEADLOCK FALSE
