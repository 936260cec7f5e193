CONSTANTS
  Chars <- MCChars
  Class <- MCClass
  Newlines = {"nl"}
  NoChar = "none"
  Junk = "junk"
  BufSize = 4
  MaxLine = 6
SPECIFICATION Spec
CHECK_DEADLOCK FALSE
INVARIANTS SpansOrdered LexedByParts TrailingWord CompletionCloses
