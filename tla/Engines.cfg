CONSTANTS
  Depth = 5
  Pnodes <- Everything
  Conditions <- Everything
  Families <- AllFamilies
  Tokens <- MCTokens
SPECIFICATION EnginesSpec
INVARIANTS ParseSound TreeDescribesMatch SubsetLongest ChildParsedOnce FailureOnlyFails
INVARIANTS CompleteAllOrNothing CompleteSound FirstWordFound ExpandStable
CHECK_DEADLOCK FALSE
