------------------------------ MODULE MCShLex -------------------------------
(* One character of each class, and a newline, which is a space too. *)
EXTENDS ShLex

MCChars == {"sp", "nl", "sq", "dq", "bs", "pound", "a"}
MCClass == [c \in MCChars |->
  CASE c \in {"sp", "nl"} -> "SPACE"
    [] c = "sq" -> "SINGLE_QUOTE"
    [] c = "dq" -> "DOUBLE_QUOTE"
    [] c = "bs" -> "BACKSLASH"
    [] c = "pound" -> "POUND"
    [] c = "a" -> "OTHER"]
=============================================================================
