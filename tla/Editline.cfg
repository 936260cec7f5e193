SPECIFICATION Spec
CONSTANTS
  Lines <- MCLines
  Files = {f1}
  NoFile = NoFile
  Grammars = {g1}
  Others = {n1}
  NoNode = NoNode
  Sizes = {1}
  DefaultSize = 1
  CutLine = CutLine
  MaxLeft = 24
  MaxEntered = 2
INVARIANT OwnedExact
CHECK_DEADLOCK FALSE
