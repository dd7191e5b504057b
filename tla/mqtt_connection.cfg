CONSTANTS
  Sockets = {1, 2}
  Hosts = 2
  Revivers = {"client", "app", "both"}
  Fallback = TRUE
  Backlogs = {0, 2}
  MaxCalls = 3
  MaxOrphans = 1
SPECIFICATION FairSpec
INVARIANTS NeverStalled StateAgrees
PROPERTY AttemptsEnd
CHECK_DEADLOCK FALSE
