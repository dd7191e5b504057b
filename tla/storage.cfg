CONSTANTS
  Clients = {storage, other}
  Root = storage
  Calls = {c1, c2}
  Paths <- MCPaths
  Outcomes <- MCOutcomes
SYMMETRY MCSymmetry
SPECIFICATION Spec
INVARIANTS AnsweredAsChosen PathsAgree
CHECK_DEADLOCK FALSE
