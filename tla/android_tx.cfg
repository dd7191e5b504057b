CONSTANTS
  t1 = t1
  t2 = t2
  Txs = {t1, t2}
  MaxStmts = 2
  MaxSpans = 1
  Span = Span
  Plain = Plain
  Sync = Sync
  Alone = Alone
  None = None
SPECIFICATION FairSpec
INVARIANTS RegistryMatchesEngine StatementsStayHome SafeguardHolds SpanIsAirtight OutcomeIsHonest
PROPERTY EveryTransactionSettles
CHECK_DEADLOCK FALSE
