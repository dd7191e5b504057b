CONSTANTS
  OptionSets <- MCOptionSets
  Statements = {"s1", "s2", "s3"}
  Params <- MCParams
  Columns <- MCColumns
  ColumnLists <- MCColumnLists
  MaxDepth = 4
  MaxStack = 6
  MaxNames = 4
  MaxRows = 3
SPECIFICATION SessionSpec
INVARIANTS OpenIsSound CallersErrorWins RowsAreWhole
PROPERTY ImplementsNestedTransactions
CHECK_DEADLOCK FALSE
