CONSTANTS
  KeyLife = 2
  RepeatWindow = 1
  MaxEntries = 1
  FlashTime = 1
  JellyTime = 1
  FadeTime = 1
  TrailTime = 1
  Labels = {"x"}
  Carets = {"c1", "c2"}
  Places = {"p1", "p2"}
  Regions = {"r"}
  MaxRegions = 1
  Buttons = {"left"}
  MaxMessages = 3
  MaxInputs = 2
  MaxFailures = 1
  None = None
SPECIFICATION FairSpec
INVARIANTS
  RestIsTrue
PROPERTIES
  LoopRests
  SplashGoes
CHECK_DEADLOCK FALSE
