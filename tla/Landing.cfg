SPECIFICATION LandingSpec
CONSTANTS
  r1 = r1
  r2 = r2
  Roots = {r1, r2}
  MaxOps = 2
  PushTimeout = 1
  MainFence = 2
  Worlds <- MCWorlds
INVARIANTS LandingTypeOK RecordsTellMain OneAtMain
PROPERTIES LandedOnce MainSettled
CHECK_DEADLOCK FALSE
