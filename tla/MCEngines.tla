----------------------------- MODULE MCEngines -----------------------------
(***************************************************************************)
(* The parse and the completion engine for TLC.  A family is of grammars   *)
(* that are parsed, over the words of Tokens, or of grammars that are      *)
(* completed or expanded, where a string may be empty too: it is what is   *)
(* completed after a space.                                                *)
(***************************************************************************)
EXTENDS Complete, TLC

\* TLC's set of all values
Everything == Any

\* two words, one a prefix of the other
WordA == <<"a">>
WordAB == <<"a", "b">>
TwoWords == <<Str(WordA), Str(WordAB)>>
MCTokens == {<<>>, WordA, WordAB}
NoFailure == {1000}

-----------------------------------------------------------------------------
\* Families that are parsed

\* the choices of an ordered grammar
Choices ==
  [leaves |-> TwoWords, types |-> {"seq", "or", "option", "many"}, arities |-> {2},
   bounds |-> {<<0, 2>>, <<2, 3>>}, maxNodes |-> 5, maxTokens |-> 3, budgets |-> NoFailure]

Onces ==
  [leaves |-> TwoWords, types |-> {"seq", "or", "many", "once", "bypass"}, arities |-> {2},
   bounds |-> {}, maxNodes |-> 5, maxTokens |-> 2, budgets |-> NoFailure]

\* leaves whose order matters to a subset node
Subsets ==
  [leaves |-> <<Str(WordA), Leaf("empty"), Leaf("any")>>, types |-> {"subset", "option"},
   arities |-> {3}, bounds |-> {<<2, 0>>}, maxNodes |-> 5, maxTokens |-> 2,
   budgets |-> NoFailure]

\* every type, and an allocation that fails anywhere
Failures ==
  [leaves |-> <<Str(WordA), Leaf("empty"), Leaf("none")>>,
   types |-> {"seq", "or", "option", "many", "once", "bypass", "subset"}, arities |-> {2},
   bounds |-> {<<1, 0>>}, maxNodes |-> 5, maxTokens |-> 2, budgets |-> 0..20 \cup {1000}]

-----------------------------------------------------------------------------
\* Families that are completed; expand holds the sets of types to expand

CompletedWords ==
  [leaves |-> TwoWords, types |-> {"seq", "or", "option", "many"}, arities |-> {2},
   bounds |-> {}, maxNodes |-> 5, maxTokens |-> 2, budgets |-> NoFailure,
   expand |-> {{CompFull}}]

CompletedSubsets ==
  [leaves |-> TwoWords, types |-> {"seq", "option", "many", "subset"}, arities |-> {2},
   bounds |-> {<<0, 2>>, <<1, 0>>}, maxNodes |-> 4, maxTokens |-> 3, budgets |-> NoFailure,
   expand |-> {}]

CompletedOnces ==
  [leaves |-> TwoWords, types |-> {"seq", "many", "once"}, arities |-> {2},
   bounds |-> {}, maxNodes |-> 5, maxTokens |-> 2, budgets |-> NoFailure, expand |-> {}]

CompletedFailures ==
  [leaves |-> <<Str(WordAB), Leaf("empty")>>,
   types |-> {"seq", "or", "option", "many", "once", "bypass", "subset"}, arities |-> {2},
   bounds |-> {<<0, 2>>}, maxNodes |-> 4, maxTokens |-> 2, budgets |-> 0..20 \cup {1000},
   expand |-> {{CompFull, CompUnknown}}]

AllFamilies ==
  {Choices, Onces, Subsets, Failures, CompletedWords, CompletedSubsets, CompletedOnces, CompletedFailures}

\* the family is completed
Completes == "expand" \in DOMAIN family

EnginesNext ==
  \/ Completes /\ CompleteNext
  \/ ~Completes /\ ParseNext /\ \A i \in DOMAIN input' : input'[i] # <<>>
EnginesSpec == GrammarInit /\ [][EnginesNext]_vars
=============================================================================
