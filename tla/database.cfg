CONSTANTS
  PoolSizes = {0, 1, 2}
  MaxWork = 3
  OpenMayFail = TRUE
  MayPump = FALSE
  LateCallbacks = FALSE
SPECIFICATION FairSpec
INVARIANTS NothingOutlivesInstance ReadersInsideWriter InitializedMeansOpen AnswersAreRight
PROPERTY EverythingSettles
CHECK_DEADLOCK FALSE
