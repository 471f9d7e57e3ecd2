CONSTANTS
  e1 = e1
  e2 = e2
  a1 = a1
  a2 = a2
  l1 = l1
  l2 = l2
  emacs = emacs
  app = app
  None = None
  Windows = {e1, e2, a1}
  Clients = {emacs, app}
  Owner <- MCOwner
  Views = {}
  Verbs = {"switch_workspace"}
  MaxWs = 2
  MaxBatch = 1
  Layers = {l1}
  Inputs = {"prefix", "click", "host", "layer"}
SPECIFICATION FSpec
SYMMETRY MCSymmetry
INVARIANTS
  ImeSuspendedOnlyInChord
  ChordKeysGoToEmacs
  NoForeignFrame
CHECK_DEADLOCK FALSE
