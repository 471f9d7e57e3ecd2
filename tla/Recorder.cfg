CONSTANTS
  Commands = {"toggle", "apply", "screenshot"}
  MaxCmds = 3
  MaxFrames = 2
  Interval = 2
  Depth = 1
SPECIFICATION FairSpec
INVARIANTS
  NoOrphan
  EmacsFollows
PROPERTIES
  RequestsServed
  CompositorThaws
CHECK_DEADLOCK FALSE
