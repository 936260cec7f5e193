------------------------------ MODULE Complete ------------------------------
(***************************************************************************)
(* The completion engine: src/complete.c and the complete callbacks of the *)
(* node types seq, or, many, option, once, bypass, subset, str and none;   *)
(* any and empty have none and fall back on ec_complete_unknown().         *)
(*                                                                         *)
(* A struct ec_comp, comp, is the state st of Parse (the spine ends in     *)
(* cur_pstate) with the items found so far.  Each leaf adds at most one    *)
(* item, in a group of its own: an item carries the pstate of its group, a *)
(* copy of the spine.  The counters of struct ec_comp are the numbers of   *)
(* items of each type: they differ only in a comp that an error frees.     *)
(* comp also tells whether the call that left it so returned an error, and *)
(* whether it is dirty: an assertion on the tree did not hold.             *)
(***************************************************************************)
EXTENDS Parse, TLC

\* A family has one more field: expand, the values of the type argument of
\* ec_complete_strvec_expand().

CompFull == "full"
CompUnknown == "unknown"

CompItems == [type : {CompFull, CompUnknown}, node : Nat, current : Strings, full : Strings, pstate : Seq(Pnodes)]
Comps == [st : States, items : Seq(CompItems), dirty : BOOLEAN, fails : BOOLEAN]

CompFails(c) == [c EXCEPT !.fails = TRUE]
CompOn(c, st) == [c EXCEPT !.st = st]
CompAllocFails(c) == CompFails(CompOn(c, Alloc(c.st)))

\* the last pnode is deleted, whatever was returned
Unlinked(c) == CompOn(c, DelLastChild(c.st))

\* ec_parse_child() of the engine of Parse, on the tree of a comp
ParseHere(n, st, v) == ParseChild(ParseTo[Depth], n, st, v)

\* ec_comp_add_item(): the item, then its group
AddItem(c, n, type, current, full) ==
  IF c.st.mem \in {0, 1} THEN CompFails([c EXCEPT !.st.mem = -1])
  ELSE [c EXCEPT !.st.mem = @ - 2,
                 !.items = Append(@, [type |-> type, node |-> n, current |-> current,
                                      full |-> full, pstate |-> c.st.spine])]

\* ec_complete_unknown()
CompleteUnknown(n, c, v) == IF Len(v) # 1 THEN c ELSE AddItem(c, n, CompUnknown, <<>>, <<>>)

\* ec_node_str_complete()
StrComplete(n, c, v) ==
  IF Len(v) # 1 \/ ~SE!IsPrefix(v[1], nodes[n].word) THEN c
  ELSE AddItem(c, n, CompFull, v[1], nodes[n].word)

\* The callbacks.  C[n][c][v] is what the one of node n gives: the operators that
\* follow are given the C of the calls one level deeper.

\* The pnode that ec_complete_child() pushed is popped without its children:
\* the code asserts that it has none.
Popped(c) ==
  LET left == Len(c.st.spine) > 1 /\ Pstate(c.st).kids # <<>>
  IN  [c EXCEPT !.st = Leave(@), !.dirty = @ \/ left]

CompleteChild(C, n, c, v) ==
  IF c.st.mem = 0 THEN CompAllocFails(c) ELSE Popped(C[n][CompOn(c, Enter(c.st, n))][v])

\* mutant: an error of the child is dropped
OptionCompleteHides(C, node, c, v) == [CompleteChild(C, node.kids[1], c, v) EXCEPT !.fails = FALSE]

\* ec_node_option_complete(), ec_node_bypass_complete(), ec_node_none_complete()
OptionComplete(C, node, c, v) == CompleteChild(C, node.kids[1], c, v)
BypassComplete(C, node, c, v) == CompleteChild(C, node.kids[1], c, v)
NoneComplete(c) == c

\* ec_node_once_complete()
OnceComplete(C, node, c, v) ==
  IF CountFromRoot(c.st, node.kids[1]) > 0 THEN c ELSE CompleteChild(C, node.kids[1], c, v)

\* mutant: the loop ends as soon as there is a proposal
EachChildFirst(C, k, c, v) == IF c.fails \/ c.items # <<>> THEN c ELSE CompleteChild(C, k, c, v)

\* ec_node_or_complete(), and the first loop of __ec_node_subset_complete()
EachChild(C, k, c, v) == IF c.fails THEN c ELSE CompleteChild(C, k, c, v)
CompleteEach(C, kids, c, v) ==
  Loop([i \in DOMAIN kids |-> [x \in Comps |-> EachChild(C, kids[i], x, v)]], c, Len(kids))

\* A child, parsed as p, matched the strings before v: these are completed by the
\* other children, Others, with the pnode of the match in the tree.
Continued(Others, c, p, v) ==
  IF p.st.mem = 0 THEN CompAllocFails(CompOn(c, DelLastChild(p.st)))
  ELSE Unlinked(Others[CompOn(c, Alloc(p.st))][v])

\* mutant: a match shorter than the strings it is given is enough
SeqMatchedShort(Others, c, v, i, p) ==
  CASE p.ret = Fail -> CompFails(CompOn(c, p.st))
    [] p.ret = NoMatch -> CompOn(c, p.st)
    [] OTHER -> Continued(Others, c, p, Rest(v, i))

\* iteration i of __ec_node_seq_complete(): complete with the other children if the
\* first one, parsed as p, matches exactly the first i strings
SeqMatched(Others, c, v, i, p) ==
  CASE p.ret = Fail -> CompFails(CompOn(c, p.st))
    [] p.ret = NoMatch -> CompOn(c, p.st)
    [] p.ret \notin {Fail, NoMatch, i} -> CompOn(c, DelLastChild(p.st))
    [] OTHER -> Continued(Others, c, p, Rest(v, i))

SeqTry(Others, k, c, v, i) ==
  IF c.fails THEN c
  ELSE IF c.st.mem = 0 THEN CompAllocFails(c)
  ELSE SeqMatched(Others, c, v, i, ParseHere(k, Alloc(c.st), SubSeq(v, 1, i)))

\* __ec_node_seq_complete() from child k on
SeqFrom(C, Others, k, c, v) ==
  Loop([i \in 1..Len(v) |-> [x \in Comps |-> SeqTry(Others, k, x, v, i - 1)]], CompleteChild(C, k, c, v), Len(v))
NothingElse == [c \in Comps |-> [v \in Vectors |-> c]]
SeqMore(C, Others, k) == [c \in Comps |-> [v \in Vectors |-> SeqFrom(C, Others, k, c, v)]]
SeqComplete(C, kids, c, v) ==
  LET from[k \in 0..Len(kids)] == IF k = 0 THEN NothingElse ELSE SeqMore(C, from[k - 1], kids[Len(kids) + 1 - k])
  IN  from[Len(kids)][c][v]

\* ec_node_many_complete(): how often the child matched, the strings these
\* matches consumed, and whether the loop is over
ManyComps == [c : Comps, children : Nat, used : Nat, over : BOOLEAN]
ManyMatched(node, m, c, p) ==
  CASE p.ret = Fail -> [m EXCEPT !.c = CompFails(CompOn(c, p.st)), !.over = TRUE]
    [] p.ret = NoMatch -> [m EXCEPT !.c = CompOn(c, p.st), !.over = TRUE]
    [] p.ret = 0 /\ node.max = 0 -> [m EXCEPT !.c = CompOn(c, p.st), !.children = @ + 1, !.over = TRUE]
    [] OTHER ->
         IF p.st.mem = 0 THEN [m EXCEPT !.c = CompAllocFails(CompOn(c, p.st)), !.children = @ + 1, !.over = TRUE]
         ELSE [m EXCEPT !.c = CompOn(c, Alloc(p.st)), !.children = @ + 1, !.used = @ + p.ret]

ManyCompleted(node, m, c, v) ==
  IF c.fails \/ m.children + 1 = node.max THEN [m EXCEPT !.c = c, !.over = TRUE]
  ELSE ManyMatched(node, m, c, ParseHere(node.kids[1], c.st, v))

ManyTry(C, node, m, v) ==
  IF m.over THEN m
  ELSE ManyCompleted(node, m, CompleteChild(C, node.kids[1], m.c, Rest(v, m.used)), Rest(v, m.used))

\* the end label deletes the pnodes of the matches
DelChildren(st, n) == OnPstate(st, SubSeq(Pstate(st).kids, 1, Len(Pstate(st).kids) - n))
ManyFrom(C, node, c, v) ==
  LET m == Loop([i \in 1..Rounds(node, v) |-> [m \in ManyComps |-> ManyTry(C, node, m, v)]],
                [c |-> c, children |-> 0, used |-> 0, over |-> FALSE], Rounds(node, v))
  IN  CompOn(m.c, DelChildren(m.c.st, m.children))
ManyComplete(C, node, c, v) ==
  IF c.st.mem = 0 THEN CompAllocFails(c) ELSE ManyFrom(C, node, CompOn(c, Alloc(c.st)), v)

\* the second loop of __ec_node_subset_complete(): where child i, parsed as p,
\* matches, complete the rest with the others
SubsetMatched(Others, table, i, c, v, p) ==
  CASE p.ret = Fail -> CompFails(CompOn(c, p.st))
    [] p.ret = NoMatch -> CompOn(c, p.st)
    [] OTHER -> Continued(Others[SE!RemoveAt(table, i)], c, p, Rest(v, p.ret))

SubsetTry(Others, table, i, c, v) ==
  IF c.fails THEN c ELSE SubsetMatched(Others, table, i, c, v, ParseHere(table[i], c.st, v))
SubsetFrom(C, Others, table, c, v) ==
  Loop([i \in DOMAIN table |-> [x \in Comps |-> SubsetTry(Others, table, i, x, v)]],
       CompleteEach(C, table, c, v), Len(table))

\* an entry set to NULL is removed from the table
NothingLeft == [table \in Seq(Nat) |-> NothingElse]
SubsetMore(C, Others) ==
  [table \in Seq(Nat) |-> [c \in Comps |-> [v \in Vectors |-> SubsetFrom(C, Others, table, c, v)]]]
SubsetComplete(C, table, c, v) ==
  LET of[d \in 0..Len(table)] == IF d = 0 THEN NothingLeft ELSE SubsetMore(C, of[d - 1])
  IN  of[Len(table)][table][c][v]

\* the complete callback of node n
CompleteNode(C, n, c, v) ==
  LET node == nodes[n] IN
  CASE node.type = "str" -> StrComplete(n, c, v)
    [] node.type \in {"any", "empty"} -> CompleteUnknown(n, c, v)
    [] node.type = "none" -> NoneComplete(c)
    [] node.type = "seq" -> SeqComplete(C, node.kids, c, v)
    [] node.type = "or" -> CompleteEach(C, node.kids, c, v)
    [] node.type = "many" -> ManyComplete(C, node, c, v)
    [] node.type = "once" -> OnceComplete(C, node, c, v)
    [] node.type = "option" -> OptionComplete(C, node, c, v)
    [] node.type = "bypass" -> BypassComplete(C, node, c, v)
    [] node.type = "subset" -> SubsetComplete(C, node.kids, c, v)

\* calls that nest d deep; as in Parse, more than Depth is an error
TooDeep == [n \in Nat |-> [c \in Comps |-> [v \in Vectors |-> CompFails(c)]]]
CompleteCallbacks(C) == [n \in Nat |-> [c \in Comps |-> [v \in Vectors |-> CompleteNode(C, n, c, v)]]]
CompleteTo[d \in 0..Depth] == IF d = 0 THEN TooDeep ELSE CompleteCallbacks(CompleteTo[d - 1])

\* ec_complete_strvec(): the comp is allocated first, and freed on error
CompleteStrvec(n, v, mem) ==
  LET comp == [st |-> [spine |-> <<>>, mem |-> mem, faults |-> {}], items |-> <<>>, dirty |-> FALSE, fails |-> FALSE]
  IN  IF mem = 0 THEN CompAllocFails(comp)
      ELSE CompleteChild(CompleteTo[Depth], n, CompOn(comp, Alloc(comp.st)), v)

\* mutant: the given strings are completed, not the expanded ones
ExpandedPrefixRaw(expanded, v, i) == SubSeq(v, 1, i)

\* the vector that step i of the expansion completes: the strings expanded so
\* far, and string i
ExpandedPrefix(expanded, v, i) == Append(expanded, v[i])

\* a string becomes its only completion of these types; an item of type unknown
\* has no string
Expansion(items, types, s) ==
  LET only == {i \in DOMAIN items : /\ items[i].type \in types \ {CompUnknown}
                                    /\ \A j \in DOMAIN items : items[j].type \in types => j = i}
  IN  IF only = {} THEN s ELSE items[CHOOSE i \in only : TRUE].full

\* ec_complete_strvec_expand(), with the strings expanded so far: string i, of
\* which c are the completions, becomes s, which takes memory if it is another one
Expansions == [ret : Int, vec : Vectors, mem : Int]
Unexpanded == [ret |-> Fail, vec |-> <<>>, mem |-> 0]
Replaced(x, c, s, by) ==
  IF c.fails \/ (by # s /\ c.st.mem = 0) THEN Unexpanded
  ELSE [x EXCEPT !.vec = Append(@, by), !.mem = IF by = s THEN c.st.mem ELSE c.st.mem - 1]
ExpandedWith(x, c, types, s) == Replaced(x, c, s, Expansion(c.items, types, s))
ExpandString(n, types, v, i, x) ==
  IF x.mem = 0 THEN Unexpanded
  ELSE ExpandedWith(x, CompleteStrvec(n, ExpandedPrefix(x.vec, v, i), x.mem - 1), types, v[i])

Expand(n, types, v, mem) ==
  IF mem = 0 THEN Unexpanded
  ELSE Loop([i \in 1..Len(v) |-> [x \in Expansions |-> IF x.ret = Fail THEN x ELSE ExpandString(n, types, v, i, x)]],
            [ret |-> 0, vec |-> <<>>, mem |-> mem - 1], Len(v))

\* what the caller gets
Completion(c) == [op |-> "complete", ret |-> IF c.fails THEN Fail ELSE 0, dirty |-> c.dirty,
                  items |-> IF c.fails THEN <<>> ELSE c.items]
Expanding(types, x) == [op |-> "expand", types |-> types, ret |-> x.ret, vec |-> x.vec]

\* the caller completes, or expands, its input
DoComplete(mem) ==
  /\ out = NoResult /\ Built
  /\ out' = Completion(CompleteStrvec(Root, input, mem))
  /\ UNCHANGED <<family, nodes, input>>

DoExpand(types, mem) ==
  /\ out = NoResult /\ Built
  /\ out' = Expanding(types, Expand(Root, types, input, mem))
  /\ UNCHANGED <<family, nodes, input>>

CompleteNext ==
  \/ GrammarNext
  \/ \E mem \in family.budgets : DoComplete(mem) \/ \E types \in family.expand : DoExpand(types, mem)

CompleteSpec == GrammarInit /\ [][CompleteNext]_vars

-----------------------------------------------------------------------------
\* What completion is compared with

\* the ways to cut s in two
Cuts(s) == {<<SubSeq(s, 1, i), Rest(s, i)>> : i \in 0..Len(s)}

DerivesAll(kids, s) == Len(s) \in Ends(Lengths, kids, s)

\* s is the beginning of a string vector that node n matches, where V says that of
\* its children; every node is supposed to match something
SomeViable(V, Others, kids, s) ==
  \/ s = <<>>
  \/ \E i \in DOMAIN kids :
       \/ V[kids[i]][s]
       \/ \E c \in Cuts(s) : Derives(kids[i], c[1]) /\ Others[SE!RemoveAt(kids, i)][c[2]]
ListViable(V, kids, s) ==
  LET of[d \in 0..Len(kids)] ==
        [t \in Seq(Nat) |-> [w \in Vectors |-> IF d = 0 THEN w = <<>> ELSE SomeViable(V, of[d - 1], t, w)]]
  IN  of[Len(kids)][kids][s]

NodeViable(V, n, s) ==
  LET node == nodes[n] IN
  CASE node.type \in {"str", "any", "empty"} -> s = <<>> \/ Derives(n, s)
    [] node.type = "none" -> FALSE
    [] node.type = "seq" ->
         \E i \in DOMAIN node.kids, c \in Cuts(s) :
           DerivesAll(SubSeq(node.kids, 1, i - 1), c[1]) /\ V[node.kids[i]][c[2]]
    [] node.type = "many" ->
         \E k \in 0..(IF node.max = 0 THEN Len(s) ELSE node.max - 1), c \in Cuts(s) :
           DerivesAll(Repeated(node.kids[1], k), c[1]) /\ V[node.kids[1]][c[2]]
    [] node.type = "subset" -> ListViable(V, node.kids, s)
    [] node.type \in {"or", "option", "once", "bypass"} ->
         \E i \in DOMAIN node.kids : V[node.kids[i]][s]

\* ... by trees that are d nodes deep at most
ViableTo[d \in 0..Depth] ==
  [n \in Nat |-> [s \in Vectors |-> IF d = 0 THEN FALSE ELSE NodeViable(ViableTo[d - 1], n, s)]]
Viable(n, s) == ViableTo[Depth][n][s]

Completed == out.op = "complete" /\ out.ret # Fail
Items == {out.items[i] : i \in DOMAIN out.items}

\* the input, with the string to complete replaced by s
With(s) == Append(SE!Front(input), s)

-----------------------------------------------------------------------------
\* Properties

\* An allocation that fails makes the call return NULL: a list of completions is
\* never shortened by it, nor is an expansion left half done.  And on every path
\* the complete callbacks unlink the pnodes that they link with ec_parse_child():
\* the assertion of ec_complete_child() holds.
CompleteAllOrNothing ==
  /\ out.op = "complete" => ~out.dirty
  /\ Completed => out.items = CompleteStrvec(Root, input, Unlimited).items
  /\ out.op = "expand" /\ out.ret # Fail => out.vec = Expand(Root, out.types, input, Unlimited).vec

\* Every string proposed leads somewhere: put in the place of the last string of
\* the input, it gives the beginning of a sentence of the grammar.  The parsing
\* tree "attached to each completion group" (complete.h) is made of the strings
\* before that one, and ends in the node that made the proposal.
CompleteSound ==
  Completed => \A item \in Items :
    /\ item.type = CompFull => Viable(Root, With(item.full))
    /\ SE!Last(item.pstate).node = item.node
    /\ SE!Front(input) =
         SE!FlattenSeq([k \in DOMAIN item.pstate |->
            SE!FlattenSeq([j \in DOMAIN item.pstate[k].kids |-> item.pstate[k].kids[j].vec])])

\* the vectors that may follow the string being completed (bound: two strings)
Followers == UNION {[1..k -> Tokens] : k \in 0..2}

\* Nothing is forgotten: if the engine accepts some vector that begins with the
\* word t, then t is among the completions of each prefix of t.
FirstWordFound ==
  Completed /\ Len(input) = 1 =>
    \A t \in Tokens, w \in Followers :
      SE!IsPrefix(input[1], t) /\ ParseStrvec(Root, <<t>> \o w, Unlimited).ret = Len(w) + 1 =>
        \E item \in Items : item.type = CompUnknown \/ item.full = t

Expanded == out.op = "expand" /\ out.ret # Fail

\* What is expanded needs no further expansion: the result is a fixed point.
ExpandStable == Expanded => Expand(Root, out.types, out.vec, Unlimited).vec = out.vec
=============================================================================
