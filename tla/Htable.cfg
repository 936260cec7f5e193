CONSTANTS
  h1 = h1
  h2 = h2
  k1 = k1
  k2 = k2
  k3 = k3
  Handles <- MCHandles
  Keys <- MCKeys
  Vals = {v1, v2, v3, v4}
  NoKey = NoKey
  Hash <- MCHash
  Grow = 2
SPECIFICATION Spec
SYMMETRY ValSymmetry
INVARIANTS ChainsMatchList RefcountExact FreedOnce
PROPERTIES FailedSetKeepsTable MapSpec
