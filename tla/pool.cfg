CONSTANTS
  c1 = c1
  c2 = c2
  w1 = w1
  Workers = {w1}
  Clients = {c1, c2}
  NoClient = NoClient
  MaxIssued = 5
  MaxDepth = 2
SPECIFICATION FairSpec
INVARIANT OneAtATime
PROPERTIES ImplementsSerialExecutor EveryCallEnds
CHECK_DEADLOCK FALSE
