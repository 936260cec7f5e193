------------------------------- MODULE MCCond -------------------------------
(***************************************************************************)
(* Cond for TLC.  A family is a record with these fields:                  *)
(*   texts, others  the first conditions, and those given later            *)
(*   user           what made the nodes of the caller: the child           *)
(*   wraps          the nodes put around the node                          *)
(*   inputs         the string vectors parsed                              *)
(*   initBudgets, budgets, sites, parseBudgets  allocations that may fail  *)
(***************************************************************************)
EXTENDS Cond, TLC

\* TLC's set of all values
Everything == Any

MCNames == {"root", "current", "first_child", "find", "cmp", "count", "bool", "and", "or", "eq", "ne", "lt", "le",
            "gt", "ge", "a", "b"}
MCDigits == {"0", "1", "2", "9"}

X == <<"x">>
Y == <<"y">>
Inputs(n) == UNION {[1..k -> {X, Y}] : k \in 0..n}

\* many(or(str(id a, x), str(id b, y))), and its parts
OnlyA == Named(StrNode(EmptyHeap, X), "a")
OneOf == LET b == Named(StrNode(OnlyA.h, Y), "b") IN SeqOf(b.h, "or", <<OnlyA.val, b.val>>)
Repeated == ManyNode(OneOf.h, OneOf.val, 0, 0)

\* the text of a call
RECURSIVE Joined(_)
Joined(args) == IF Len(args) = 1 THEN args[1] ELSE args[1] \o <<",">> \o Joined(Tail(args))
F(f, args) == <<f, "(">> \o (IF args = <<>> THEN <<>> ELSE Joined(args)) \o <<")">>

Root == F("root", <<>>)
Current == F("current", <<>>)
Found(id) == F("find", <<Root, <<id>>>>)
Sets == {Root, Current, Found("a"), F("find", <<Current, <<"b">>>>), F("first_child", <<Current>>)}
Deep == {F("first_child", <<F("first_child", <<Current>>)>>), F("find", <<F("first_child", <<Current>>), <<"a">>>>)}
Tests == {F("cmp", <<<<op>>, F("count", <<s>>), <<"1">>>>) : op \in {"eq", "ne", "lt", "le", "gt", "ge"}, s \in Sets}
         \cup {F("bool", <<s>>) : s \in Deep} \cup {F("cmp", <<<<"ne">>, s, Current>>) : s \in Deep}
Mixed == {Found("a"), F("count", <<Found("b")>>), <<"0">>, <<"9">>, F("bool", <<Found("b")>>)}
Logic == {F(f, <<x, y>>) : f \in {"and", "or"}, x, y \in Mixed}
         \cup {F("or", <<x, <<"0">>, y>>) : x, y \in Mixed}
         \cup {F("cmp", <<<<op>>, x, y>>) : op \in {"eq", "ne"}, x, y \in Mixed \cup {<<"a">>}}
Wrong == {F(f, l) : f \in {"root", "first_child", "find", "cmp", "count", "bool", "and", "a"},
                    l \in {<<>>, <<Root>>, <<<<"a">>>>, <<Root, Root>>, <<<<"lt">>, Root, Root>>, <<<<"a">>, Root, Root>>}}

Base ==
  [texts |-> {}, others |-> {}, user |-> Repeated, wraps |-> {}, inputs |-> {}, initBudgets |-> {Enough},
   budgets |-> {Enough}, sites |-> {}, parseBudgets |-> {Enough}]

\* every short text
Texts == [Base EXCEPT !.texts = UNION {[1..k -> {"a", "(", ")", ",", "1", " "}] : k \in 0..5}]
\* the functions, on every short input
Functions == [Base EXCEPT !.texts = Tests \cup Logic \cup Wrong, !.inputs = Inputs(3)]
\* a condition is replaced
Replaced == [Base EXCEPT !.texts = {Found("a")}, !.others = {Found("b"), F("root", <<<<",">>>>), <<"(">>}, !.inputs = Inputs(2)]
\* the node is repeated, or comes after another one
Wrapped == [Base EXCEPT !.texts = Tests \cup {Found("b")}, !.user = OneOf, !.wraps = {"many", "seq"}, !.inputs = Inputs(4)]
\* an allocation fails
Starting == [Base EXCEPT !.initBudgets = 0..240]
Making == [Base EXCEPT !.texts = {Found("a"), <<"(">>}, !.others = {Current, <<"(">>},
                       !.sites = Sites, !.budgets = 0..12]
Evaluating == [Base EXCEPT !.texts = Tests \cup Logic, !.wraps = {"many"}, !.inputs = {<<X>>, <<X, Y>>}, !.parseBudgets = 0..30]

AllFamilies == {Texts, Functions, Replaced, Wrapped, Starting, Making, Evaluating}
NoMatchOnly == {[Base EXCEPT !.texts = {Found("b"), Found("a")}, !.user = OnlyA, !.inputs = Inputs(2)]}
=============================================================================
