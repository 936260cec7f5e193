------------------------------- MODULE Parse -------------------------------
(***************************************************************************)
(* The parse engine: src/parse.c and the parse callbacks of the node types *)
(* seq, or, many, option, once, bypass, subset, str, any, empty, none, re, *)
(* re_lex, expr, cmd and cond.                                             *)
(*                                                                         *)
(* A call returns the number of strings that matched, NoMatch or Fail, and *)
(* changes the parse tree under construction.  That tree is kept as its    *)
(* spine: the pnodes from the root to the one being parsed (pstate), each  *)
(* with the children parsed so far, so that callbacks can look at the      *)
(* whole tree (those of once and cond do).  One allocation may fail: mem   *)
(* counts down and it is the one made when mem is 0.  faults are what a    *)
(* callback did wrong.                                                     *)
(***************************************************************************)
EXTENDS Grammar

CONSTANTS Pnodes,     \* the pnodes of parse trees, see Trees
          Conditions  \* those of the conditions that cond nodes evaluate

Fail == -1
NoMatch == 2147483647

Pnode(n) == [node |-> n, matches |-> FALSE, vec |-> <<>>, kids |-> <<>>]

\* A pnode is a record whose children are pnodes: what the theorems suppose of
\* Pnodes.  TLC takes the set of all values.
Trees == Pnodes = [node : Nat, matches : BOOLEAN, vec : Vectors, kids : Seq(Pnodes)]

Faults == {"result", "unlink", "overflow"}
States == [spine : Seq(Pnodes), mem : Int, faults : SUBSET Faults]
Results == [ret : Int, st : States]

-----------------------------------------------------------------------------
\* Trees

Result(ret, st) == [ret |-> ret, st |-> st]
Fails(st) == Result(Fail, st)

Alloc(st) == [st EXCEPT !.mem = @ - 1]
AllocFails(st) == Fails(Alloc(st))

Pstate(st) == SE!Last(st.spine)
OnPstate(st, kids) == [st EXCEPT !.spine[Len(st.spine)].kids = kids]

\* ec_pnode_link_child(), ec_pnode_del_last_child(), ec_pnode_free_children()
LinkChild(st, p) == OnPstate(st, Append(Pstate(st).kids, p))
DelLastChild(st) ==
  IF Pstate(st).kids = <<>> THEN st ELSE OnPstate(st, SE!Front(Pstate(st).kids))
FreeChildren(st) == OnPstate(st, <<>>)

Enter(st, n) == [st EXCEPT !.spine = Append(@, Pnode(n)), !.mem = @ - 1]
Leave(st) == [st EXCEPT !.spine = SE!Front(@)]

\* count_node(): the pnodes of node n in a tree of height h at most, and in trees
Total(counts, pnodes, n) ==
  Loop([i \in DOMAIN pnodes |-> [sum \in Nat |-> sum + counts[pnodes[i]][n]]], 0, Len(pnodes))
NoCounts == [p \in Pnodes |-> [n \in Nat |-> 0]]
Counts(below) == [p \in Pnodes |-> [n \in Nat |-> (IF p.node = n THEN 1 ELSE 0) + Total(below, p.kids, n)]]
CountTo[h \in 0..(Depth + 1)] == IF h = 0 THEN NoCounts ELSE Counts(CountTo[h - 1])
CountNode(p, n) == CountTo[Depth + 1][p][n]

\* ... from the root of the tree
CountFromRoot(st, n) == Total(CountTo[Depth + 1], st.spine, n)

-----------------------------------------------------------------------------
\* The engine.  P[n][st][v] is what the callback of node n returns, on the pnode
\* at the end of the spine: the operators that follow are given the P of the
\* calls one level deeper.

\* mutant: the pnode stays linked when the node does not match
ReturnedKeeps(r, v) ==
  IF r.ret = Fail THEN Result(r.ret, Leave(r.st))
  ELSE Result(r.ret, LinkChild(Leave(r.st),
                               [Pstate(r.st) EXCEPT !.matches = r.ret # NoMatch,
                                  !.vec = SubSeq(v, 1, IF r.ret = NoMatch THEN 0 ELSE r.ret)]))

\* __ec_parse_child() for a child, once the callback of the type returned r: the
\* pnode is unlinked unless it matches; ec_strvec_ndup() refuses a match longer
\* than v
Returned(r, v) ==
  IF r.ret \in {Fail, NoMatch} THEN Result(r.ret, Leave(r.st))
  ELSE IF r.st.mem = 0 \/ r.ret > Len(v) THEN AllocFails(Leave(r.st))
  ELSE Result(r.ret, LinkChild(Alloc(Leave(r.st)),
                               [Pstate(r.st) EXCEPT !.matches = TRUE, !.vec = SubSeq(v, 1, r.ret)]))

\* __ec_parse_child(): link a pnode and call the node type
ParseChild(P, n, st, v) ==
  IF st.mem = 0 THEN AllocFails(st) ELSE Returned(P[n][Enter(st, n)][v], v)

\* ec_node_seq_parse(): r is its result so far, c that of the child it called
SeqCalled(r, c) ==
  CASE c.ret = Fail -> c
    [] c.ret = NoMatch -> Result(NoMatch, FreeChildren(c.st))
    [] OTHER -> Result(r.ret + c.ret, c.st)
SeqChild(P, k, r, v) ==
  IF r.ret \in {Fail, NoMatch} THEN r
  ELSE IF r.st.mem = 0 THEN AllocFails(r.st)
  ELSE SeqCalled(r, ParseChild(P, k, Alloc(r.st), Rest(v, r.ret)))
SeqParse(P, node, st, v) ==
  Loop([i \in DOMAIN node.kids |-> [r \in Results |-> SeqChild(P, node.kids[i], r, v)]],
       Result(0, st), Len(node.kids))

\* ec_node_or_parse()
OrChild(P, k, r, v) == IF r.ret = NoMatch THEN ParseChild(P, k, r.st, v) ELSE r
OrParse(P, node, st, v) ==
  Loop([i \in DOMAIN node.kids |-> [r \in Results |-> OrChild(P, node.kids[i], r, v)]],
       Result(NoMatch, st), Len(node.kids))

\* mutant: the minimum is one too low
ManyEndLow(node, r) ==
  IF r.count + 1 < node.min THEN Result(NoMatch, FreeChildren(r.st)) ELSE Result(r.ret, r.st)

\* the end of ec_node_many_parse()
ManyEnd(node, r) ==
  IF r.count < node.min THEN Result(NoMatch, FreeChildren(r.st)) ELSE Result(r.ret, r.st)

\* an iteration of ec_node_many_parse(); r is its result so far, with the number
\* of matches and whether the loop is over, c that of the child it called
Manys == [ret : Int, st : States, count : Nat, over : BOOLEAN]
ManyCalled(node, r, c) ==
  CASE c.ret = Fail -> [r EXCEPT !.ret = Fail, !.st = c.st, !.over = TRUE]
    [] c.ret = NoMatch -> [r EXCEPT !.st = c.st, !.over = TRUE]
    [] c.ret = 0 /\ node.max = 0 -> [r EXCEPT !.st = DelLastChild(c.st), !.over = TRUE]
    [] OTHER -> [r EXCEPT !.ret = @ + c.ret, !.st = c.st, !.count = @ + 1]
ManyChild(P, node, r, v) ==
  IF r.over THEN r
  ELSE IF r.st.mem = 0 THEN [r EXCEPT !.ret = Fail, !.st = Alloc(@), !.over = TRUE]
  ELSE ManyCalled(node, r, ParseChild(P, node.kids[1], Alloc(r.st), Rest(v, r.ret)))

\* without a maximum, each iteration but the last consumes a string
Rounds(node, v) == IF node.max # 0 THEN node.max ELSE Len(v) + 1
ManyParse(P, node, st, v) ==
  LET r == Loop([i \in 1..Rounds(node, v) |-> [r \in Manys |-> ManyChild(P, node, r, v)]],
                [ret |-> 0, st |-> st, count |-> 0, over |-> FALSE], Rounds(node, v))
  IN  IF r.ret = Fail THEN Fails(r.st) ELSE ManyEnd(node, r)

\* mutant: an error is taken for a mismatch
OptionParseHides(P, node, st, v) ==
  LET r == ParseChild(P, node.kids[1], st, v)
  IN  IF r.ret \in {Fail, NoMatch} THEN Result(0, r.st) ELSE r

\* ec_node_option_parse()
OptionParse(P, node, st, v) ==
  LET r == ParseChild(P, node.kids[1], st, v)
  IN  IF r.ret = NoMatch THEN Result(0, r.st) ELSE r

\* mutant: only the subtree is searched
OnceParseLocal(P, node, st, v) ==
  IF CountNode(Pstate(st), node.kids[1]) > 0 THEN Result(NoMatch, st)
  ELSE ParseChild(P, node.kids[1], st, v)

\* ec_node_once_parse()
OnceParse(P, node, st, v) ==
  IF CountFromRoot(st, node.kids[1]) > 0 THEN Result(NoMatch, st)
  ELSE ParseChild(P, node.kids[1], st, v)

\* The best list of __ec_node_subset_parse(): its number of nodes, the strings
\* it consumes and the one pnode that is unlinked with it.
Bests == [ret : Int, nodes : Nat, pnodes : Seq(Pnodes)]
NoBest == [ret |-> 0, nodes |-> 0, pnodes |-> <<>>]

\* mutant: off by one
BetterOffByOne(found, best) == found.nodes + 1 >= best.nodes

\* "if result is not the best, ignore": its list has at least one node more
Better(found, best) == found.nodes > best.nodes

\* __ec_node_subset_parse(): what it returns, with the best list
SubsetResults == [fails : BOOLEAN, st : States, best : Bests]
SubsetFails(st) == [fails |-> TRUE, st |-> st, best |-> NoBest]
SubsetFound(st, best) == [fails |-> FALSE, st |-> st, best |-> best]

\* the loop goes on once the other children returned sub, after the strings that
\* child consumed
SubsetTried(r, c, sub) ==
  LET found == [ret |-> c.ret + sub.best.ret, nodes |-> sub.best.nodes + 1,
                pnodes |-> <<SE!Last(Pstate(sub.st).kids)>>]
  IN  IF sub.fails THEN sub
      ELSE SubsetFound(DelLastChild(sub.st), IF Better(found, r.best) THEN found ELSE r.best)

\* ... with c the result of child i, and Others that of the rest of the table
SubsetCalled(Others, table, i, r, c, v) ==
  CASE c.ret = NoMatch -> SubsetFound(c.st, r.best)
    [] c.ret = Fail -> SubsetFails(c.st)
    [] c.ret \notin {Fail, NoMatch} /\ c.st.mem = 0 -> SubsetFails(Alloc(c.st))
    [] OTHER -> SubsetTried(r, c, Others[SE!RemoveAt(table, i)][Alloc(c.st)][Rest(v, c.ret)])

SubsetChild(P, Others, table, i, r, v) ==
  IF r.fails THEN r ELSE SubsetCalled(Others, table, i, r, ParseChild(P, table[i], r.st, v), v)

\* the best pnode is linked again at the end
SubsetEnd(r) ==
  IF r.fails THEN r ELSE [r EXCEPT !.st = OnPstate(@, Pstate(@).kids \o r.best.pnodes)]
SubsetLoop(P, Others, table, st, v) ==
  SubsetEnd(Loop([i \in DOMAIN table |-> [r \in SubsetResults |-> SubsetChild(P, Others, table, i, r, v)]],
                 SubsetFound(st, NoBest), Len(table)))
NoTable == [table \in Seq(Nat) |-> [st \in States |-> [v \in Vectors |-> SubsetFound(st, NoBest)]]]
SubsetTables(P, Others) ==
  [table \in Seq(Nat) |-> [st \in States |-> [v \in Vectors |->
     IF st.mem = 0 THEN SubsetFails(Alloc(st)) ELSE SubsetLoop(P, Others, table, Alloc(st), v)]]]
SubsetTable(P, table, st, v) ==
  LET to[d \in 0..Len(table)] == IF d = 0 THEN NoTable ELSE SubsetTables(P, to[d - 1])
  IN  to[Len(table)][table][st][v]

\* ec_node_subset_parse()
SubsetResult(node, r) ==
  CASE r.fails -> Fails(r.st)
    [] ~r.fails /\ r.best.nodes < node.min -> Result(NoMatch, r.st)
    [] OTHER -> Result(r.best.ret, r.st)
SubsetParse(P, node, st, v) ==
  SubsetResult(node, SubsetTable(P, node.kids, st, v))

\* the leaves: ec_node_str_parse(), ec_node_any_parse(), ec_node_empty_parse(),
\* ec_node_none_parse()
StrParse(node, st, v) == Result(IF v # <<>> /\ v[1] = node.word THEN 1 ELSE NoMatch, st)
AnyParse(st, v) == Result(IF v # <<>> THEN 1 ELSE NoMatch, st)
EmptyParse(st) == Result(0, st)
NoneParse(st) == Result(NoMatch, st)

\* The length of the match of a regular expression at the beginning of s: a
\* character of the class first, then as many of the class rest as there are.
MatchLen(re, s) ==
  IF s = <<>> \/ s[1] \notin re.first THEN 0
  ELSE SE!SelectInSeq(Append(Tail(s), ""), LAMBDA c : c \notin re.rest)

\* ec_node_re_parse() of a node that has its expression: the whole string matches
ReParse(node, st, v) ==
  Result(IF v # <<>> /\ v[1] # <<>> /\ MatchLen(node.word, v[1]) = Len(v[1]) THEN 1 ELSE NoMatch, st)

\* tokenize() of node_re_lex.c: the first pattern that matches gives the next
\* token, which is kept or dropped
Lexing == [ok : BOOLEAN, toks : Vectors, left : Strings]
NextToken(patterns, r, i) ==
  LET n == MatchLen(patterns[i].re, r.left)
  IN  IF i = 0 THEN [r EXCEPT !.ok = FALSE]
      ELSE [r EXCEPT !.left = Rest(@, n),
                     !.toks = IF patterns[i].keep THEN Append(@, SubSeq(r.left, 1, n)) ELSE @]
Tokenize(patterns, s) ==
  Loop([j \in DOMAIN s |-> [r \in Lexing |->
          IF r.left = <<>> \/ ~r.ok THEN r
          ELSE NextToken(patterns, r, SE!SelectInSeq(patterns, LAMBDA p : MatchLen(p.re, r.left) > 0))]],
       [ok |-> TRUE, toks |-> <<>>, left |-> s], Len(s))

\* ec_node_re_lex_parse() once the child returned r on the tokens toks
ReLexed(r, toks) ==
  CASE r.ret \in {Fail, NoMatch} -> r
    [] r.ret = Len(toks) -> Result(1, r.st)
    [] OTHER -> Result(NoMatch, DelLastChild(r.st))

ReLexParse(P, node, st, v) ==
  LET lexed == Tokenize(node.word, IF v = <<>> THEN <<>> ELSE v[1])
  IN  IF node.kids = <<>> \/ node.word = <<>> THEN Fails(st)
      ELSE IF st.mem = 0 THEN AllocFails(st)
      ELSE IF ~lexed.ok THEN Fails(Alloc(st))
      ELSE ReLexed(ParseChild(P, node.kids[1], Alloc(st), lexed.toks), lexed.toks)

\* ec_node_expr_parse(), ec_node_cmd_parse(): the grammar they built, if any
BuiltParse(P, node, st, v) ==
  IF node.kids = <<>> THEN Fails(st) ELSE ParseChild(P, node.kids[1], st, v)

\* The parse tree under construction, and the path of pstate in it
Whole(spine) ==
  Loop([i \in 1..(Len(spine) - 1) |-> [p \in Pnodes |->
          [spine[Len(spine) - i] EXCEPT !.kids = Append(@, p)]]],
       SE!Last(spine), Len(spine) - 1)
Path(spine) == [i \in 1..(Len(spine) - 1) |-> Len(spine[i].kids) + 1]

NodeId(n) == nodes[n].id
Eval == INSTANCE CondEval WITH IdOf <- NodeId

\* the evaluation e ended: results that it left in use, or freed twice, are faults
Evaluated(st, e) ==
  [st EXCEPT !.mem = e.mem, !.faults = @ \cup {x \in {"result"} : e.fault \/ e.live # {}}]

\* ec_node_cond_parse() once its child returned r and the condition the verdict
\* valid: the last child is unlinked, also when there is none
Judged(r, valid) ==
  CASE valid.ret < 0 -> Fails(Evaluated(r.st, valid.e))
    [] valid.ret = 0 /\ Pstate(r.st).kids = <<>> -> Result(NoMatch, [r.st EXCEPT !.faults = @ \cup {"unlink"}])
    [] valid.ret = 0 /\ Pstate(r.st).kids # <<>> -> Result(NoMatch, DelLastChild(Evaluated(r.st, valid.e)))
    [] OTHER -> Result(r.ret, Evaluated(r.st, valid.e))

\* mutant: the condition is evaluated before the child is parsed
ConditionEarly(node, r) ==
  Judged(r, Eval!ValidateCondition(node.word, [tree |-> Whole(FreeChildren(r.st).spine), cur |-> Path(r.st.spine)], r.st.mem))

\* the condition of the node, on the tree once its child returned r
Condition(node, r) ==
  Judged(r, Eval!ValidateCondition(node.word, [tree |-> Whole(r.st.spine), cur |-> Path(r.st.spine)], r.st.mem))

\* ec_node_cond_parse(); EC_PARSE_NOMATCH is positive
CondChecked(node, r) == IF r.ret <= 0 THEN r ELSE Condition(node, r)
CondParse(P, node, st, v) ==
  IF node.kids = <<>> THEN Fails(st) ELSE CondChecked(node, ParseChild(P, node.kids[1], st, v))

\* ec_node_bypass_parse()
BypassParse(P, node, st, v) == ParseChild(P, node.kids[1], st, v)

\* the parse callback of node n, called on the pnode at the end of the spine
ParseNode(P, n, st, v) ==
  LET node == nodes[n] IN
  CASE node.type = "str" -> StrParse(node, st, v)
    [] node.type = "any" -> AnyParse(st, v)
    [] node.type = "empty" -> EmptyParse(st)
    [] node.type = "none" -> NoneParse(st)
    [] node.type = "seq" -> SeqParse(P, node, st, v)
    [] node.type = "or" -> OrParse(P, node, st, v)
    [] node.type = "many" -> ManyParse(P, node, st, v)
    [] node.type = "option" -> OptionParse(P, node, st, v)
    [] node.type = "once" -> OnceParse(P, node, st, v)
    [] node.type = "bypass" -> BypassParse(P, node, st, v)
    [] node.type = "subset" -> SubsetParse(P, node, st, v)
    [] node.type = "re" -> ReParse(node, st, v)
    [] node.type = "re_lex" -> ReLexParse(P, node, st, v)
    [] node.type \in {"expr", "cmd"} -> BuiltParse(P, node, st, v)
    [] node.type = "cond" -> CondParse(P, node, st, v)

\* Calls that nest d deep.  The stack of the program is not bounded like that:
\* it overflows in a grammar that calls itself without consuming anything, and
\* then the program ends.
Overflow ==
  [n \in Nat |-> [st \in States |-> [v \in Vectors |-> Fails([st EXCEPT !.faults = @ \cup {"overflow"}])]]]
Callbacks(P) == [n \in Nat |-> [st \in States |-> [v \in Vectors |-> ParseNode(P, n, st, v)]]]
ParseTo[d \in 0..Depth] == IF d = 0 THEN Overflow ELSE Callbacks(ParseTo[d - 1])

\* ec_parse_strvec() once the callback of the root returned r: the tree, or NULL;
\* the program ends at a NULL pnode that is unlinked, and at a stack overflow
Parsing(r, v) ==
  IF {"unlink", "overflow"} \cap r.st.faults # {} THEN [op |-> "crash"]
  ELSE IF r.ret = Fail \/ (r.ret # NoMatch /\ (r.st.mem = 0 \/ r.ret > Len(v)))
  THEN [op |-> "parse", ret |-> Fail, faults |-> r.st.faults]
  ELSE [op |-> "parse", ret |-> r.ret, faults |-> r.st.faults,
        tree |-> IF r.ret = NoMatch THEN Pstate(r.st)
                 ELSE [Pstate(r.st) EXCEPT !.matches = TRUE, !.vec = SubSeq(v, 1, r.ret)]]

ParseStrvec(n, v, mem) ==
  IF mem = 0 THEN [op |-> "parse", ret |-> Fail, faults |-> {}]
  ELSE Parsing(ParseTo[Depth][n][Enter([spine |-> <<>>, mem |-> mem, faults |-> {}], n)][v], v)

\* the caller parses its input
DoParse(mem) ==
  /\ out = NoResult /\ Built
  /\ out' = ParseStrvec(Root, input, mem)
  /\ UNCHANGED <<family, nodes, input>>

ParseNext == GrammarNext \/ \E mem \in family.budgets : DoParse(mem)
ParseSpec == GrammarInit /\ [][ParseNext]_vars

-----------------------------------------------------------------------------
\* Properties

Parsed == out.op = "parse" /\ out.ret # Fail
Matched == Parsed /\ out.ret # NoMatch

\* What the engine accepts belongs to the language of the grammar: the greedy
\* choices of seq, or, many and subset never accept too much.
ParseSound == Matched => out.ret \in Lengths[Root][input]

\* the string vectors of pnodes, one after the other
Joined(pnodes) ==
  Loop([i \in DOMAIN pnodes |-> [v \in Vectors |-> v \o pnodes[i].vec]], <<>>, Len(pnodes))

IsLeaf(n) == nodes[n].type \in {"str", "any", "empty", "none"}
KidsOf(n) == {Kids(n)[k] : k \in DOMAIN Kids(n)}

\* p and its children, whose trees are consistent
Describes(p) ==
  /\ IsLeaf(p.node) => p.kids = <<>>
  /\ ~IsLeaf(p.node) => p.vec = Joined(p.kids)
  /\ \A i \in DOMAIN p.kids : p.kids[i].matches /\ p.kids[i].node \in KidsOf(p.node)
NoTrees == [p \in Pnodes |-> FALSE]
Consistent(below) == [p \in Pnodes |-> Describes(p) /\ \A i \in DOMAIN p.kids : below[p.kids[i]]]

\* ... in a tree of height h at most
ConsistentTo[h \in 0..Depth] == IF h = 0 THEN NoTrees ELSE Consistent(ConsistentTo[h - 1])

\* Subset nodes are apart: the pnodes of their abandoned attempts stay in the
\* tree.
NoSubset == \A n \in DOMAIN nodes : nodes[n].type # "subset"

\* The tree of a match "describes which part of the input matches which node"
\* (parse.h): the string vector of a pnode is made of those of its children,
\* each of them a match, in order.  Nothing of an abandoned attempt stays.
TreeDescribesMatch ==
  Matched /\ NoSubset =>
    /\ out.tree.node = Root /\ out.tree.matches /\ out.tree.vec = SubSeq(input, 1, out.ret)
    /\ ConsistentTo[Depth][out.tree]

\* A subset node of leaves finds "the longest list of nodes that matches"
\* (comment of __ec_node_subset_parse()), whatever order its children have, and
\* matches if that list is as long as its minimum.
SubsetLongest ==
  LET node == nodes[Root]
      lists == Lists(Lengths, node.kids, input)
      longest == {l \in lists : \A m \in lists : m[1] <= l[1]}
  IN  Parsed /\ node.type = "subset" /\ (\A k \in DOMAIN node.kids : node.kids[k] <= Len(family.leaves)) =>
        IF Matched THEN \E l \in longest : l[1] >= node.min /\ l[2] = out.ret
        ELSE \A l \in longest : l[1] < node.min

\* the matches of once nodes whose child is n, in a tree of height h at most
OnceCounts(below) ==
  [p \in Pnodes |-> [n \in Nat |->
     (IF nodes[p.node].type = "once" /\ Kids(p.node) = <<n>> THEN 1 ELSE 0) + Total(below, p.kids, n)]]
OncesTo[h \in 0..Depth] == IF h = 0 THEN NoCounts ELSE OnceCounts(OncesTo[h - 1])

\* A once node "prevents its child from being parsed more than once"
\* (node_once.h), wherever in the tree its matches are.
ChildParsedOnce ==
  Matched /\ NoSubset => \A n \in DOMAIN nodes : OncesTo[Depth][out.tree][n] <= 1

\* An allocation that fails makes the call fail, wherever it is: it never
\* changes a match into another result (an or node does not try its next
\* child, an option node does not match the empty vector).
FailureOnlyFails ==
  out.op = "parse" => out.ret = Fail \/ out = ParseStrvec(Root, input, Unlimited)
=============================================================================
