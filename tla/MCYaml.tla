------------------------------- MODULE MCYaml -------------------------------
(***************************************************************************)
(* Yaml for TLC.  A family is a record with these fields:                  *)
(*   names        the pairs that each mapping of a document is made of     *)
(*   maxPairs     bound: number of pairs of a document                     *)
(*   roots        what is imported: the first mapping, or no document      *)
(*   export       whether the grammar is exported too                      *)
(*   heap, given  the nodes of the caller                                  *)
(*   maxConfigs, maxObjects  bounds: configurations the caller holds, and  *)
(*                objects they are made of                                 *)
(*   values, keys, schemas  what it makes configurations of                *)
(*   budgets, sites  the allocations that may fail                         *)
(***************************************************************************)
EXTENDS Yaml

MCNumber == ("" :> 0) @@ ("0" :> 0) @@ ("1" :> 1) @@ ("2" :> 2) @@ ("3" :> 3) @@ ("4" :> 4) @@ ("7" :> 7)
            @@ ("8" :> 8) @@ ("-0" :> 0) @@ ("-1" :> -1) @@ ("-4" :> -4) @@ ("-5" :> -5)
MCNegative == {"-0", "-1", "-4", "-5"}

S(t) == Y("scalar", t)
N(a) == Y("name", a)
List(s) == Y("sequence", s)
Map(s) == Y("mapping", s)
Type(t) == <<"type", S(t)>>
Kids(s) == <<"children", List([i \in DOMAIN s |-> N(s[i])])>>

Base ==
  [names |-> <<>>, maxPairs |-> 0, roots |-> {N(1)}, export |-> TRUE, heap |-> EmptyHeap, given |-> <<>>,
   maxConfigs |-> 0, maxObjects |-> 0, values |-> <<>>, keys |-> {}, schemas |-> {}, budgets |-> {0}, sites |-> {}]

\* loops and shared mappings
Graph ==
  [Base EXCEPT !.names = <<{Type("seq"), Kids(<<2, 2>>), Kids(<<2, 1>>), Kids(<<>>), <<"id", S("a")>>},
                           {Type("str"), Type("or"), Kids(<<1>>), <<"string", S("x")>>, <<"help", S("h")>>}>>,
               !.maxPairs = 5]

\* the keys of every node: missing, twice, or of another kind
Headers ==
  [Base EXCEPT !.names = <<{Type("str"), Type("zzz"), Type("empty"), <<"type", List(<<>>)>>, <<"id", S("a")>>,
                            <<"id", List(<<>>)>>, <<"help", S("h")>>, <<"help", Map(<<>>)>>,
                            <<"attrs", Map(<<<<"k", S("v")>>, <<"_help", S("w")>>>>)>>, <<"attrs", S("v")>>,
                            <<"string", S("x")>>, <<"string", S("y")>>, <<"unknown", S("x")>>}>>,
               !.maxPairs = 4, !.roots = {N(1), Y("none", <<>>)}]

\* numbers at their limits
Mins(T) == {<<"min", S(t)>> : t \in T}
Unsigned ==
  [Base EXCEPT !.names = <<{Type("many"), <<"child", N(2)>>, <<"max", S("2")>>}
                           \cup Mins({"", "-0", "-1", "5", "7", "8", "x"}), {Type("any")}>>, !.maxPairs = 5]
Signed ==
  [Base EXCEPT !.names = <<{Type("int"), <<"max", S("-1")>>, <<"max", S("2")>>}
                           \cup Mins({"", "-4", "-5", "3", "4", "x"})>>, !.maxPairs = 4]

\* lists of dictionaries, and booleans
Word == <<"pattern", S("w")>>
Lexer(k) == <<"patterns", List(<<Map(<<Word, <<"keep", S(k)>>>>)>>)>>
Patterned ==
  [Base EXCEPT !.names = <<{Type("re_lex"), <<"child", N(2)>>, Lexer("TRUE"), Lexer("no"),
                            <<"patterns", List(<<Map(<<Word>>)>>)>>, <<"patterns", N(2)>>,
                            <<"patterns", List(<<Map(<<Word, <<"keep", S("true")>>, <<"attr", S("a")>>>>),
                                                 Map(<<<<"keep", S("false")>>, Word>>)>>)>>},
                           {Type("bypass"), Type("re"), Word, <<"child", N(1)>>}>>,
               !.maxPairs = 5]

\* an allocation fails
Failing ==
  [Base EXCEPT !.names = <<{Type("seq"), Kids(<<2, 1>>), <<"help", S("h")>>, <<"attrs", Map(<<<<"k", S("v")>>>>)>>},
                           {Type("many"), <<"child", N(1)>>, <<"min", S("1")>>}>>,
               !.maxPairs = 5, !.budgets = 0..24, !.sites = Sites \cup {"attr"}, !.export = FALSE]

\* the document turns out to be wrong after a loop was made of nodes 2 and 3
Wrong ==
  [Base EXCEPT !.names = <<{Type("seq"), Kids(<<2, 4>>)},
                           {Type("seq"), Kids(<<3, 2>>)},
                           {Type("many"), <<"child", N(2)>>},
                           {Type("zzz"), Type("any")}>>,
               !.maxPairs = 7, !.export = FALSE]

\* configurations put together by the caller, for nodes seq and bypass
Flag == Elt("m", "bool", TRUE, {})
Api ==
  [Base EXCEPT !.heap = [EmptyHeap EXCEPT !.nodes = <<NewNode("seq", NoId), NewNode("bypass", NoId)>>],
               !.given = <<1, 2>>, !.maxConfigs = 3, !.maxObjects = 4,
               !.values = <<Cfg("bool", TRUE), EmptyList, EmptyDict>>, !.keys = {"children", "child", "m"},
               !.schemas = {SeqSchema, ChildSchema, <<NodeList, Flag>>, <<Elt("m", "dict", FALSE, {<<Flag>>})>>,
                            <<Elt("m", "list", FALSE, {})>>, <<Elt("m", "dict", TRUE, {})>>, <<Flag, Flag>>,
                            <<Elt("m", "list", FALSE, {<<Elt(NoKey, "dict", FALSE, {<<Flag>>})>>})>>},
               !.budgets = {0, 1, 2, 5}, !.sites = {"config", "table"}]

AllFamilies == {Graph, Wrong, Headers, Unsigned, Signed, Patterned, Failing, Api}
=============================================================================
