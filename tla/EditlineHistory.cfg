SPECIFICATION HistorySpec
CONSTANTS
  Lines <- HistoryLines
  Files = {f1, f2}
  NoFile = NoFile
  Grammars = {g1}
  Others = {}
  NoNode = NoNode
  Sizes = {1, 2}
  DefaultSize = 2
  CutLine = CutLine
  MaxLeft = 0
  MaxEntered = 3
SYMMETRY SameFiles
INVARIANT HistoryKept
CHECK_DEADLOCK FALSE
