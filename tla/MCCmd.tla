------------------------------- MODULE MCCmd -------------------------------
(***************************************************************************)
(* Cmd for TLC.  A family is a record with these fields:                   *)
(*   client       "cmd", or "calc" for the caller that builds trees        *)
(*   ops, opChars the operators of the expression, and their characters    *)
(*   pieces       what command strings are made of                         *)
(*   maxText      bound: number of pieces of a command string              *)
(*   user, given  the nodes of the caller, and those it gives              *)
(*   inputs       the string vectors given to what is built                *)
(*   initBudgets, initSites, budgets, sites  the allocations that may fail *)
(***************************************************************************)
EXTENDS Cmd, TLC

\* TLC's set of all values
Everything == Any

MCLetters == {"a", "b", "x"}

A == <<"a">>
B == <<"b">>
X == <<"x">>
Inputs == UNION {[1..n -> {A, B}] : n \in 0..3} \cup {<<<<"a", "b">>>>}

Chars(C) == {<<c>> : c \in C}
Group(op) == <<"(", "a", op, "b", ")">>

Base ==
  [client |-> "cmd", ops |-> CmdOps, opChars |-> CmdChars, pieces |-> {}, maxText |-> 5,
   user |-> <<>>, given |-> <<>>, inputs |-> Inputs, initBudgets |-> {Enough}, initSites |-> {},
   budgets |-> {Enough}, sites |-> {}]

\* each operator next to the others
Choice == [Base EXCEPT !.pieces = Chars({"a", "b", " ", "|", "*"})]
Repeat == [Base EXCEPT !.pieces = Chars({"a", "+", "[", "]"})]
Subset1 == [Base EXCEPT !.pieces = Chars({"a", "b", ",", "&"})]
Groups == [Base EXCEPT !.pieces = Chars({"a", "|", ",", "&", "*"}) \cup {Group(","), Group("&")},
                       !.maxText = 3, !.inputs = Inputs \cup {<<A, B, A, B>>, <<A, A, B, B>>, <<A, B, B, A>>}]

\* a node of the caller, which matches any string
User == [Base EXCEPT !.pieces = Chars({"a", "x", "|", " "}), !.maxText = 4,
                     !.user = <<NewNode("any", X)>>, !.given = <<1>>]

\* an allocation fails
Failing ==
  [Base EXCEPT !.pieces = Chars({"a", "|", "*", " "}), !.maxText = 3,
               !.sites = Sites, !.budgets = 0..30]
FailingNodes ==
  [Base EXCEPT !.pieces = Chars({"a", ",", "&", "[", "]"}), !.maxText = 4,
               !.sites = Sites, !.budgets = 0..20]
FailingUser == [User EXCEPT !.pieces = Chars({"a", "x", "|"}), !.maxText = 3, !.sites = Sites, !.budgets = 0..30]
Starting ==
  [Base EXCEPT !.ops = <<ValOp, StrOp("bin", "|"), StrOp("post", "*"), ParenOp("(", ")")>>,
               !.maxText = 0, !.initSites = Sites, !.initBudgets = 0..400]

Calculator ==
  [Base EXCEPT !.client = "calc", !.ops = CalcOps, !.opChars = {"*", "+", "!", "^", "(", ")"},
               !.pieces = Chars({"a", "*", "+", "!", "^"}) \cup {<<"(", "b">>, <<"b", ")">>}, !.maxText = 4]

AllFamilies == {FailingUser, Choice, Repeat, Subset1, Groups, User, Failing, FailingNodes, Starting, Calculator}
=============================================================================
