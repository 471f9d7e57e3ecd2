CONSTANTS
  MaxWs = 3
  Titles = {"a"}
  MaxChanges = 3
  MaxClicks = 2
  MaxLayers = 3
  PillWidth <- MCPillWidth
  PillGap = 1
  BarPad = 1
  None = None
SPECIFICATION FairSpec
INVARIANTS
  EmacsFits
  FramesAreWhole
PROPERTIES
  ClickHitsSeen
  BarFollows
  ActivationsArrive
CHECK_DEADLOCK FALSE
