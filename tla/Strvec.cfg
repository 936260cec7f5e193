CONSTANTS
  Handles = {h1, h2, h3}
  Elts = {e1, e2, e3, e4}
  Strs = {1, 2}
  NoStr = NoStr
  Dicts = {d1, d2}
  NoDict = NoDict
  MaxLen = 3
SPECIFICATION Spec
SYMMETRY Symmetry
INVARIANTS RefcntExact DictsFreedOnce
PROPERTIES VectorsAreValues
CHECK_DEADLOCK FALSE
