------------------------------ MODULE Grammar ------------------------------
(***************************************************************************)
(* Grammars and their input: what the parse and completion engines of      *)
(* src/parse.c and src/complete.c work on.                                 *)
(*                                                                         *)
(* A grammar is built by the constructors of the node types, children      *)
(* first; the last node built is the root.  Nodes may be shared but the    *)
(* graph has no loop here (loops are the subject of NodeFree).  A token is *)
(* a sequence of letters, so that completion has prefixes to work with.    *)
(***************************************************************************)
EXTENDS Loops, Sequences, FiniteSets

CONSTANTS Families,  \* the families of grammars that are explored, see below
          Tokens,    \* the tokens an input is made of
          Depth      \* bound: how deep calls nest, and trees and sentences are

\* A family is a record with these fields:
\*   leaves    the leaf nodes of every grammar, a sequence
\*   types     the types of the nodes built over them
\*   arities   the numbers of children of seq, or and subset nodes
\*   bounds    the pairs <<min, max>> given to many and subset nodes
\*   maxNodes  bound: number of nodes, leaves included
\*   maxTokens bound: length of an input
\*   budgets   the numbers of allocations that succeed before one fails

VARIABLES family, \* the family of grammars
          nodes,  \* the grammar: nodes[n] is a node, nodes[Len(nodes)] the root
          input,  \* the string vector
          out     \* what the last ec_parse_strvec() or ec_complete_strvec()
                  \* returned

vars == <<family, nodes, input, out>>

SE == INSTANCE SequencesExt

\* A node with its private data; kids are indices of nodes.
Node(type, kids, word, min, max) ==
  [type |-> type, kids |-> kids, word |-> word, min |-> min, max |-> max]

Str(w) == Node("str", <<>>, w, 0, 0)
Leaf(type) == Node(type, <<>>, <<>>, 0, 0)

Unary == {"option", "once", "bypass", "many"}
Nary == {"seq", "or", "subset"}
Bounded == {"many", "subset"}

Root == Len(nodes)
Kids(n) == nodes[n].kids

\* strings, and string vectors
Strings == Seq(STRING)
Vectors == Seq(Strings)

LeafNodes == [type : {"str", "any", "empty", "none"}, kids : {<<>>}, word : Strings, min : {0}, max : {0}]

\* The leaves are of the types that have no child, the length of an input is an
\* int other than EC_PARSE_NOMATCH, and one of the budgets is the largest.
ASSUME GrammarAssumption ==
  /\ Depth \in Nat
  /\ Tokens \subseteq Strings
  /\ \A f \in Families :
       /\ f.leaves \in Seq(LeafNodes)
       /\ f.maxTokens \in Nat /\ f.maxTokens < 2147483647
       /\ f.arities \subseteq Nat /\ f.bounds \subseteq Nat \X Nat /\ f.budgets \subseteq Nat
       /\ \E m \in f.budgets : \A k \in f.budgets : k <= m

\* the part of a string vector after its first k strings: ec_strvec_ndup()
Rest(v, k) == SubSeq(v, k + 1, Len(v))

NoResult == [op |-> "none"]

GrammarInit ==
  /\ family \in Families
  /\ nodes = family.leaves
  /\ input = <<>>
  /\ out = NoResult

\* there is a grammar to work on
Built == Len(nodes) > Len(family.leaves)

\* the budget that is never used up
Unlimited == CHOOSE m \in family.budgets : \A k \in family.budgets : k <= m

\* ec_node_option(), ec_node_many(), EC_NODE_SEQ(), EC_NODE_SUBSET()...
AddNode(type, kids, b) ==
  /\ input = <<>> /\ out = NoResult /\ Len(nodes) < family.maxNodes
  /\ type \in Bounded \/ b = <<0, 0>>
  /\ nodes' = Append(nodes, Node(type, kids, <<>>, b[1], b[2]))
  /\ UNCHANGED <<family, input, out>>

\* the caller extends its string vector
AddToken(t) ==
  /\ Built /\ Len(input) < family.maxTokens
  /\ input' = Append(input, t)
  /\ out' = NoResult
  /\ UNCHANGED <<family, nodes>>

GrammarNext ==
  \/ \E type \in family.types \cap Unary, k \in DOMAIN nodes, b \in family.bounds \cup {<<0, 0>>} :
       AddNode(type, <<k>>, b)
  \/ \E type \in family.types \cap Nary, a \in family.arities, b \in family.bounds \cup {<<0, 0>>} :
       \E kids \in [1..a -> DOMAIN nodes] : AddNode(type, kids, b)
  \/ \E t \in Tokens : AddToken(t)

-----------------------------------------------------------------------------
\* The language a grammar describes, whatever the engines do: the reference
\* the engines are compared with.  What a once node forbids is left out.
\*
\* A node matches a prefix of a string vector, often several: L[n][s] are the
\* lengths of those of s that node n matches.

\* the prefixes of s made of one match of each of the kids, in order
Ends(L, kids, s) ==
  Loop([i \in DOMAIN kids |-> [ends \in SUBSET Nat |->
          UNION {{h + k : k \in L[kids[i]][Rest(s, h)]} : h \in ends}]], {0}, Len(kids))

Repeated(k, times) == [i \in 1..times |-> k]

\* numbers of repetitions of a many node worth trying on s
Repeats(node, s) == node.min..(IF node.max # 0 THEN node.max ELSE node.min + Len(s))

\* the lists of distinct kids that match a prefix of s: how many they are, how
\* long it is; the empty list, and those that begin with child i and go on with a
\* list of the others
NoLists == [kids \in Seq(Nat) |-> [s \in Vectors |-> {<<0, 0>>}]]
Longer(L, Others, kids, s, i) ==
  UNION {{<<l[1] + 1, l[2] + k>> : l \in Others[SE!RemoveAt(kids, i)][Rest(s, k)]} : k \in L[kids[i]][s]}
MoreLists(L, Others) ==
  [kids \in Seq(Nat) |-> [s \in Vectors |->
     {<<0, 0>>} \cup UNION {Longer(L, Others, kids, s, i) : i \in DOMAIN kids}]]
Lists(L, kids, s) ==
  LET to[d \in 0..Len(kids)] == IF d = 0 THEN NoLists ELSE MoreLists(L, to[d - 1])
  IN  to[Len(kids)][kids][s]

\* ... of node n, whose children match what L says
NodeLengths(L, n, s) ==
  LET node == nodes[n] IN
  CASE node.type = "str" -> IF s # <<>> /\ s[1] = node.word THEN {1} ELSE {}
    [] node.type = "any" -> IF s # <<>> THEN {1} ELSE {}
    [] node.type = "empty" -> {0}
    [] node.type = "none" -> {}
    [] node.type = "seq" -> Ends(L, node.kids, s)
    [] node.type = "or" -> UNION {L[node.kids[i]][s] : i \in DOMAIN node.kids}
    [] node.type = "option" -> {0} \cup L[node.kids[1]][s]
    [] node.type = "many" -> UNION {Ends(L, Repeated(node.kids[1], k), s) : k \in Repeats(node, s)}
    [] node.type = "subset" -> {l[2] : l \in {x \in Lists(L, node.kids, s) : x[1] >= node.min}}
    [] node.type \in {"once", "bypass"} -> L[node.kids[1]][s]

\* ... by trees that are d nodes deep at most
NoLengths == [n \in Nat |-> [s \in Vectors |-> {}]]
Deeper(L) == [n \in Nat |-> [s \in Vectors |-> NodeLengths(L, n, s)]]
LengthsTo[d \in 0..Depth] == IF d = 0 THEN NoLengths ELSE Deeper(LengthsTo[d - 1])
Lengths == LengthsTo[Depth]

\* node n matches exactly the string vector s
Derives(n, s) == Len(s) \in Lengths[n][s]
=============================================================================
