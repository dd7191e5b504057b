CONSTANTS
  t1 = t1
  t2 = t2
  Txs = {t1, t2}
  CommitMayFail = TRUE
  MayOutlive = FALSE
  MaxStmts = 2
  MaxSpans = 0
  Span = Span
  Plain = Plain
  Sync = Sync
  Alone = Alone
  None = None
SPECIFICATION Spec
CHECK_DEADLOCK FALSE
INVARIANT StatementsStayHome
