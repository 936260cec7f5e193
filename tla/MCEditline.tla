----------------------------- MODULE MCEditline -----------------------------
(***************************************************************************)
(* A grammar with the commands "hello alice", "hello albert" and, without  *)
(* callback, "stop"; the lines are one of each kind.  The history tells    *)
(* only repetitions apart: two names are enough where it is looked at, and *)
(* one where only the objects are.                                         *)
(***************************************************************************)
EXTENDS Editline

Line(name, words, matches, cb, hits, groups, items) ==
  [name |-> name, blank |-> FALSE, open |-> FALSE, words |-> words, matches |-> matches, cb |-> cb,
   hits |-> hits, groups |-> groups, items |-> items, append |-> FALSE, full |-> FALSE,
   right |-> [matches |-> FALSE, groups |-> 2]]

Hello(name) == Line(name, 2, TRUE, TRUE, {0, 1, 2}, 0, 0)  \* hello alice
ASpace == [Line("b", 0, FALSE, FALSE, {0}, 2, 2) EXCEPT !.blank = TRUE]

MCLines ==
  {Hello("a"),
   Line("a", 1, TRUE, FALSE, {0, 1}, 0, 0),  \* stop
   [Line("a", 2, FALSE, FALSE, {0, 1}, 2, 2) EXCEPT !.append = TRUE],  \* hello a
   [Line("a", 2, FALSE, FALSE, {0, 1}, 1, 1) EXCEPT !.append = TRUE, !.full = TRUE],  \* hello ali
   [Line("a", 1, FALSE, FALSE, {0}, 0, 0) EXCEPT !.right.groups = 1],  \* foo
   [Line("a", 0, FALSE, FALSE, {}, 0, 0) EXCEPT !.open = TRUE],  \* hello 'a
   [Line("a", 0, FALSE, FALSE, {0}, 0, 0) EXCEPT !.right.groups = 1],  \* # (a comment)
   ASpace}

\* hello alice, hello albert
HistoryLines == {Hello("a"), Hello("b")}

\* the prompt and completion have no part in the history
HistoryNext ==
  \/ Open \/ Close \/ SetHistory \/ SetNode \/ ParseLine
  \/ Interact \/ CheckExit \/ EndOfInput \/ GetLine \/ CallbackReturns \/ Crash \/ CrashInGets
HistorySpec == Init /\ [][HistoryNext]_vars
SameFiles == Permutations(Files)
=============================================================================
