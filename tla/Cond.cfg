SPECIFICATION Spec
CONSTANTS
  Names <- MCNames
  Digits <- MCDigits
  Depth = 60
  Pnodes <- Everything
  Conditions <- Everything
  Families <- AllFamilies
  UintMax = 9
INVARIANTS CondDenotes CondHolds ResultsFreed CondExact
CHECK_DEADLOCK FALSE
