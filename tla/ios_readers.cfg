CONSTANTS
  PoolSize = 2
  MaxCalls = 4
  Most <- MostCalls
  OpenMayFail = TRUE
  MayOutlive = TRUE
SPECIFICATION FairSpec
INVARIANTS SnapshotsHold LifecycleIsHonest
PROPERTY EverythingSettles
CHECK_DEADLOCK FALSE
