CONSTANTS
  d1 = d1
  d2 = d2
  Dispatchers = {d1, d2}
  MaxDispatch = 4
SPECIFICATION FairQueueSpec
INVARIANTS NoneStranded CompletionsInOrder
PROPERTY EveryCompletionRuns
CHECK_DEADLOCK FALSE
