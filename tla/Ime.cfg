CONSTANTS
  TipApps = {t1, t2}
  IcApps = {d}
  None = None
  Carets = {1}
  MaxMoves = 3
  MaxReports = 2
  MaxExits = 1
SPECIFICATION FairSpec
INVARIANTS
  CaretIsOwners
  OwnerSettles
  TextToKeyboard
PROPERTIES
  HostFollows
  TipOwns
CHECK_DEADLOCK FALSE
