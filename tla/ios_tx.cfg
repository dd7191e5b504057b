CONSTANTS
  t1 = t1
  t2 = t2
  Txs = {t1, t2}
  CommitMayFail = FALSE
  MayOutlive = TRUE
  MaxStmts = 1
  MaxSpans = 1
  Span = Span
  Plain = Plain
  Sync = Sync
  Alone = Alone
  None = None
SPECIFICATION FairSpec
INVARIANTS SpanIsAirtight WaitsItsTurn WaitersAreServed
PROPERTY EveryTransactionSettles
CHECK_DEADLOCK FALSE
