SPECIFICATION Spec
CONSTANTS
  Names <- MCNames
  Digits <- MCDigits
  Depth = 60
  Pnodes <- Everything
  Conditions <- Everything
  Families <- NoMatchOnly
  UintMax = 9
INVARIANT CondReturns
CHECK_DEADLOCK FALSE
