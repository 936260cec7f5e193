SPECIFICATION Spec
CONSTANTS
  Families <- AllFamilies
  Number <- MCNumber
  Negative <- MCNegative
  Int64Max = 3
  UintMax = 6
INVARIANTS HeapExact ImportFaithful RoundTrip SchemaSafe CmpEquivalence
CHECK_DEADLOCK FALSE
