CONSTANTS
  e1 = e1
  e2 = e2
  e3 = e3
  a1 = a1
  a2 = a2
  emacs = emacs
  app = app
  None = None
  Windows = {e1, e2, e3, a1}
  Clients = {emacs, app}
  Owner <- MCOwner
  Views = {}
  Verbs = {"set_geometry", "set_visibility", "switch_workspace"}
  MaxWs = 3
  MaxBatch = 2
SPECIFICATION Spec
SYMMETRY MCSymmetry
INVARIANTS
  AppsHaveWorkspace
  FrameInOwnSpace
  DeadNeverShown
  ActiveFrameAlive
CHECK_DEADLOCK FALSE
