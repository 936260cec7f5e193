SPECIFICATION Spec
CONSTANTS
  Letters <- MCLetters
  Depth = 60
  Pnodes <- Everything
  Conditions <- Everything
  Families <- AllFamilies
  UintMax = 9
INVARIANTS CmdDenotes CalcDenotes CmdExact
CHECK_DEADLOCK FALSE
