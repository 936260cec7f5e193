------------------------------ MODULE NodeFree ------------------------------
(***************************************************************************)
(* Lifetime of grammar nodes (src/node.c): reference counts, the graph of  *)
(* children that a node type keeps, and ec_node_free(), which detects the  *)
(* loops of that graph by counting the references reachable from the node  *)
(* being freed.                                                            *)
(*                                                                         *)
(* Two families of node types are modelled.  The types that are built from *)
(* a configuration (seq, or, many, option...) reference each child twice,  *)
(* from their configuration and from their private table; the nodes of     *)
(* single (subset, sh_lex, expr) only have the private table.              *)
(*                                                                         *)
(* A call is executed step by step on an explicit stack of pending calls,  *)
(* the next one first.  Where a C loop calls a function for each child and *)
(* nothing can change the list of children meanwhile, its calls are pushed *)
(* at once.  There are no threads: the caller acts when the stack is empty.*)
(***************************************************************************)
EXTENDS Integers, Sequences, FiniteSets, Functions

CONSTANTS Nodes,      \* names of nodes
          Singles,    \* the values of single, see below
          MaxKids,    \* bound: children of a node
          MaxHeld,    \* bound: references to a node kept by the caller
          MaxRefs,    \* bound: references kept by the caller, when it clones one
          StackBound, \* bound: pending calls
          FailSites,  \* allocations of the ..._add() functions that may fail
          Reconfig,   \* may ec_node_set_config() replace children?
                      \*   "never", "acyclic" (node not on a loop), "any"
          Sharing     \* what the caller may release, see MayRelease():
                      \*   "none", "entries", "any"

ASSUME BoundsAssumption ==
  /\ IsFiniteSet(Nodes) /\ Singles \subseteq SUBSET Nodes
  /\ MaxKids \in Nat /\ MaxHeld \in Nat /\ MaxRefs \in Nat /\ StackBound \in Nat
  /\ FailSites \subseteq {"config", "table", "subset"}
  /\ Reconfig \in {"never", "acyclic", "any"}
  /\ Sharing \in {"none", "entries", "any"}

VARIABLES single,  \* the nodes whose type references a child once
          mem,     \* "none", "alive", "gutted" (free_priv() left a dangling
                   \* table) or "freed"
          refcnt,  \* node->refcnt
          state,   \* node->free.state
          frefs,   \* node->free.refcnt
          cfg,     \* children referenced by node->config
          tab,     \* children referenced by the private table
          held,    \* references the caller owns
          stack    \* pending calls

vars == <<single, mem, refcnt, state, frefs, cfg, tab, held, stack>>

States == {"NONE", "TRAVERSED", "FREEABLE", "NOT_FREEABLE", "FREEING"}

-----------------------------------------------------------------------------
\* The graph

\* mutant: every type reports two references
RefsOfTwo(n) == 2

\* mutant: every type reports one reference
RefsOfOne(n) == 1

\* the value of refs that get_child() reports
RefsOf(n) == IF n \in single THEN 1 ELSE 2

Times(s, n) == Cardinality({i \in DOMAIN s : s[i] = n})

Kids(S) == UNION {Range(tab[n]) : n \in S}

\* the nodes reachable from those of S
Reach(S) ==
  LET step[k \in 0..Cardinality(Nodes)] ==
        IF k = 0 THEN S ELSE step[k - 1] \cup Kids(step[k - 1])
  IN  step[Cardinality(Nodes)]

OnLoop(n) == n \in Reach(Kids({n}))

\* the nodes of n's loops that are children of a node outside these loops
Entries(n) ==
  LET loop == {x \in Reach(Kids({n})) : n \in Reach({x})}
  IN  loop \cap Kids(Nodes \ loop)

-----------------------------------------------------------------------------
\* Pending calls

Call(f, n) == [f |-> f, n |-> n]
FreeCall(n) == Call("free", n)
CountCall(n, r) == [f |-> "count", n |-> n, refs |-> r]
MarkCall(n, m) == [f |-> "mark", n |-> n, mark |-> m]
TableCall(n, new) == [f |-> "settab", n |-> n, new |-> new]

Frees(s) == [i \in DOMAIN s |-> FreeCall(s[i])]

Idle == stack = <<>>
Top == Head(stack)
Node == Top.n
Return == stack' = Tail(stack)
Replace(calls) == stack' = calls \o Tail(stack)

\* the top call is f; nothing is said of an execution that goes on after it
\* used a node that was freed
At(f) == stack # <<>> /\ Top.f = f /\ mem[Node] \in {"alive", "gutted"}

-----------------------------------------------------------------------------
Init ==
  /\ single \in Singles
  /\ mem = [n \in Nodes |-> "none"]
  /\ refcnt = [n \in Nodes |-> 0]
  /\ state = [n \in Nodes |-> "NONE"]
  /\ frefs = [n \in Nodes |-> 0]
  /\ cfg = [n \in Nodes |-> <<>>]
  /\ tab = [n \in Nodes |-> <<>>]
  /\ held = [n \in Nodes |-> 0]
  /\ stack = <<>>

\* ec_node_from_type(): an allocation failure leaves nothing behind
NewNode(n) ==
  /\ Idle /\ mem[n] = "none"
  /\ mem' = [mem EXCEPT ![n] = "alive"]
  /\ refcnt' = [refcnt EXCEPT ![n] = 1]
  /\ held' = [held EXCEPT ![n] = 1]
  /\ UNCHANGED <<state, frefs, cfg, tab, stack>>

\* ec_node_clone()
Clone(n) ==
  /\ Idle /\ held[n] \in 1..(MaxHeld - 1) /\ SumFunction(held) < MaxRefs
  /\ refcnt' = [refcnt EXCEPT ![n] = @ + 1]
  /\ held' = [held EXCEPT ![n] = @ + 1]
  /\ UNCHANGED <<mem, state, frefs, cfg, tab, stack>>

\* Environment assumption.  When a call drops references to the nodes of S and
\* loops are reachable from one of them, that node is the only way into the
\* graph reachable from it (unless Sharing = "any"), and each loop of that graph
\* is entered through one of its nodes only (if Sharing = "none").
MayRelease(S) ==
  \/ Sharing = "any"
  \/ \A n \in S : LET graph == Reach({n}) IN
       \/ \A x \in graph : ~OnLoop(x)
       \/ /\ \A x \in graph \ {n} : held[x] = 0
          /\ Kids(Nodes \ graph) \cap graph \subseteq {n}
          /\ Sharing = "none" => \A x \in graph : Cardinality(Entries(x)) <= 1

\* the caller may give a reference to c away and still hold n
MayGive(n, c) == held[c] > 0 /\ held[n] > IF n = c THEN 1 ELSE 0

\* ec_node_seq_add() and its like build a copy of the configuration with the
\* child appended, and hand it to ec_node_set_config(): the new private table
\* references each child, then the old table and the old configuration are
\* released, in that order
SeqAdd(n, c) ==
  /\ Idle /\ n \notin single /\ MayGive(n, c) /\ Len(tab[n]) < MaxKids
  /\ MayRelease(Range(tab[n]))
  /\ LET new == Append(cfg[n], c)
     IN  /\ refcnt' = [x \in Nodes |-> refcnt[x] + Times(new, x) + Times(cfg[n], x)]
         /\ stack' = Frees(tab[n]) \o <<TableCall(n, new)>>
  /\ held' = [held EXCEPT ![c] = @ - 1]
  /\ UNCHANGED <<mem, state, frefs, cfg, tab>>

\* the clones that ec_config_dup() made of the children s when it fails, in the
\* order in which it frees them: the one that found no memory is the first
Clones(s) ==
  {SubSeq(s, 1, m) : m \in 0..Len(s)} \cup {<<s[m]>> \o SubSeq(s, 1, m - 1) : m \in DOMAIN s}

\* ec_node_seq_add() fails.  "config": the configuration cannot be copied, or
\* the child cannot be added to the copy, which ec_config_node() then frees
\* first.  "table": ec_node_set_config() fails and frees the configuration,
\* which owns the child, then the label fail frees the child.
SeqAddFails(n, c, site) ==
  /\ Idle /\ n \notin single /\ MayGive(n, c)
  /\ MayRelease(Range(tab[n]) \cup {c})
  /\ \E released \in IF site = "config" THEN {<<c>> \o cfg[n]} \cup {Append(s, c) : s \in Clones(cfg[n])}
                     ELSE {cfg[n] \o <<c, c>>} :
       /\ stack' = Frees(released)
       /\ refcnt' = [x \in Nodes |-> refcnt[x] + Times(released, x) -
                                     (IF x # c THEN 0 ELSE IF site = "config" THEN 1 ELSE 2)]
  /\ held' = [held EXCEPT ![c] = @ - 1]
  /\ UNCHANGED <<mem, state, frefs, cfg, tab>>

\* ec_node_subset_add(): the child is appended to the private table, or freed
\* if the table cannot be enlarged
SubsetAdd(n, c) ==
  /\ Idle /\ n \in single /\ MayGive(n, c) /\ Len(tab[n]) < MaxKids
  /\ \/ tab' = [tab EXCEPT ![n] = Append(@, c)] /\ UNCHANGED stack
     \/ /\ "subset" \in FailSites /\ MayRelease({c})
        /\ stack' = <<FreeCall(c)>> /\ UNCHANGED tab
  /\ held' = [held EXCEPT ![c] = @ - 1]
  /\ UNCHANGED <<mem, refcnt, state, frefs, cfg>>

\* ec_node_set_config() by the caller, with a configuration that owns the
\* caller's references to the children new
SetConfig(n, new) ==
  /\ Idle /\ n \notin single /\ tab[n] # <<>>
  /\ Reconfig = "any" \/ (Reconfig = "acyclic" /\ ~OnLoop(n))
  /\ \A c \in Range(new) : MayGive(n, c)
  /\ MayRelease(Range(tab[n]))
  /\ refcnt' = [x \in Nodes |-> refcnt[x] + Times(new, x)]
  /\ held' = [x \in Nodes |-> held[x] - Times(new, x)]
  /\ stack' = Frees(tab[n]) \o <<TableCall(n, new)>>
  /\ UNCHANGED <<mem, state, frefs, cfg, tab>>

\* ec_node_free() by the caller
CallerFree(n) ==
  /\ Idle /\ held[n] > 0 /\ MayRelease({n})
  /\ held' = [held EXCEPT ![n] = @ - 1]
  /\ stack' = <<FreeCall(n)>>
  /\ UNCHANGED <<mem, refcnt, state, frefs, cfg, tab>>

-----------------------------------------------------------------------------
\* Steps of ec_node_free()

\* entry: a node referenced once is freed without looking for loops
Free ==
  /\ At("free")
  /\ IF state[Node] = "NONE" /\ refcnt[Node] # 1
     THEN Replace(<<CountCall(Node, 1), MarkCall(Node, "FREEABLE"),
                    Call("decide", Node)>>)
     ELSE Replace(<<Call("decide", Node)>>)
  /\ UNCHANGED <<mem, refcnt, state, frefs, cfg, tab, held>>

\* count_references()
Count ==
  /\ At("count")
  /\ IF state[Node] = "TRAVERSED"
     THEN /\ frefs' = [frefs EXCEPT ![Node] = @ + Top.refs]
          /\ Return
          /\ UNCHANGED state
     ELSE /\ frefs' = [frefs EXCEPT ![Node] = Top.refs]
          /\ state' = [state EXCEPT ![Node] = "TRAVERSED"]
          /\ Replace([i \in DOMAIN tab[Node] |->
                        CountCall(tab[Node][i], RefsOf(Node))])
  /\ UNCHANGED <<mem, refcnt, cfg, tab, held>>

\* mutant: the counters are not compared
NewMarkAlways(n, mark) == mark

\* the mark that mark_freeable() gives to a node
NewMark(n, mark) == IF refcnt[n] > frefs[n] THEN "NOT_FREEABLE" ELSE mark

\* mutant: no test for a node that has the mark already
MarkAgain ==
  /\ At("mark")
  /\ state' = [state EXCEPT ![Node] = NewMark(Node, Top.mark)]
  /\ Replace([i \in DOMAIN tab[Node] |->
                MarkCall(tab[Node][i], NewMark(Node, Top.mark))])
  /\ UNCHANGED <<mem, refcnt, frefs, cfg, tab, held>>

\* mark_freeable(); its assertion is on the counters
Mark ==
  /\ At("mark")
  /\ IF Top.mark = state[Node]
     THEN Return /\ UNCHANGED state
     ELSE LET m == NewMark(Node, Top.mark)
          IN  /\ state' = [state EXCEPT ![Node] = m]
              /\ Replace([i \in DOMAIN tab[Node] |-> MarkCall(tab[Node][i], m)])
  /\ UNCHANGED <<mem, refcnt, frefs, cfg, tab, held>>

\* reset_mark()
Reset ==
  /\ At("reset")
  /\ IF state[Node] = "NONE"
     THEN Return /\ UNCHANGED <<state, frefs>>
     ELSE /\ state' = [state EXCEPT ![Node] = "NONE"]
          /\ frefs' = [frefs EXCEPT ![Node] = 0]
          /\ Replace([i \in DOMAIN tab[Node] |-> Call("reset", tab[Node][i])])
  /\ UNCHANGED <<mem, refcnt, cfg, tab, held>>

\* ec_node_free() after the marking: keep the node, release its children
\* (configuration first, then free_priv()), or only drop the reference
Decide ==
  /\ At("decide")
  /\ \/ /\ state[Node] = "NOT_FREEABLE"
        /\ refcnt' = [refcnt EXCEPT ![Node] = @ - 1]
        /\ Replace(<<Call("reset", Node)>>)
        /\ UNCHANGED <<state, cfg>>
     \/ /\ state[Node] \notin {"NOT_FREEABLE", "FREEING"}
        /\ state' = [state EXCEPT ![Node] = "FREEING"]
        /\ cfg' = [cfg EXCEPT ![Node] = <<>>]
        /\ Replace(Frees(cfg[Node]) \o <<Call("free_priv", Node), Call("drop", Node)>>)
        /\ UNCHANGED refcnt
     \/ /\ state[Node] = "FREEING"
        /\ Replace(<<Call("drop", Node)>>)
        /\ UNCHANGED <<refcnt, state, cfg>>
  /\ UNCHANGED <<mem, frefs, tab, held>>

\* free_priv(): the table stays visible to get_child() until its end.  The
\* types built from a configuration then forget it; the others leave the
\* pointer and the length behind.
FreePriv ==
  /\ At("free_priv")
  /\ Replace(Frees(tab[Node]) \o <<Call("priv_freed", Node)>>)
  /\ UNCHANGED <<mem, refcnt, state, frefs, cfg, tab, held>>

PrivFreed ==
  /\ At("priv_freed")
  /\ tab' = [tab EXCEPT ![Node] = <<>>]
  /\ mem' = [mem EXCEPT ![Node] = IF Node \in single THEN "gutted" ELSE @]
  /\ Return
  /\ UNCHANGED <<refcnt, state, frefs, cfg, held>>

\* the last reference gives the memory back
Drop ==
  /\ At("drop")
  /\ refcnt' = [refcnt EXCEPT ![Node] = @ - 1]
  /\ IF refcnt[Node] = 1
     THEN /\ mem' = [mem EXCEPT ![Node] = "freed"]
          /\ state' = [state EXCEPT ![Node] = "NONE"]
          /\ frefs' = [frefs EXCEPT ![Node] = 0]
     ELSE UNCHANGED <<mem, state, frefs>>
  /\ Return
  /\ UNCHANGED <<cfg, tab, held>>

\* the end of a node type's set_config(), and of ec_node_set_config()
SetTable ==
  /\ At("settab")
  /\ tab' = [tab EXCEPT ![Node] = Top.new]
  /\ cfg' = [cfg EXCEPT ![Node] = Top.new]
  /\ Replace(Frees(cfg[Node]))
  /\ UNCHANGED <<mem, refcnt, state, frefs, held>>

Step ==
  /\ Len(stack) <= StackBound
  /\ \/ Free \/ Count \/ Mark \/ Reset \/ Decide
     \/ FreePriv \/ PrivFreed \/ Drop \/ SetTable
  /\ UNCHANGED single

Caller ==
  \/ \E n \in Nodes : NewNode(n) \/ Clone(n) \/ CallerFree(n)
  \/ \E n, c \in Nodes : SeqAdd(n, c) \/ SubsetAdd(n, c)
  \/ \E n, c \in Nodes, site \in FailSites \ {"subset"} : SeqAddFails(n, c, site)
  \/ \E n \in Nodes, new \in {<<>>} \cup {<<c>> : c \in Nodes} : SetConfig(n, new)

Next == (Caller /\ UNCHANGED single) \/ Step

\* a call that was started runs to its end
Spec == Init /\ [][Next]_vars /\ WF_vars(Step)

-----------------------------------------------------------------------------
\* Properties

CallType ==
  UNION {[f : {"free", "decide", "reset", "free_priv", "priv_freed", "drop"}, n : Nodes],
         [f : {"count"}, n : Nodes, refs : {1, 2}],
         [f : {"mark"}, n : Nodes, mark : {"FREEABLE", "NOT_FREEABLE"}]}

IsCall(c) ==
  \/ c \in CallType
  \/ c.f = "settab" /\ c.n \in Nodes /\ c.new \in Seq(Nodes)

Alive(n) == mem[n] = "alive"
Holders == {n \in Nodes : held[n] > 0}

\* the call reads the table of children of its node
Enumerates(c) ==
  \/ c.f = "count" /\ state[c.n] # "TRAVERSED"
  \/ c.f = "mark" /\ state[c.n] # c.mark
  \/ c.f = "reset" /\ state[c.n] # "NONE"

\* No call of the caller, and none of the nested calls it causes, touches a
\* node or a table that was freed, or breaks an assertion of ec_node_free() or
\* of mark_freeable().
NoFault ==
  stack # <<>> =>
    /\ mem[Node] \in {"alive", "gutted"}
    /\ Enumerates(Top) => mem[Node] = "alive"
    /\ Top.f = "free" => refcnt[Node] > 0
    /\ Top.f = "mark" /\ Enumerates(Top) => refcnt[Node] >= frefs[Node]

\* A node the caller can reach from a reference it owns is never taken apart:
\* "Any node reachable from an unfreeable node is also marked as unfreeable"
\* (comment in ec_node_free()).
HeldIntact == \A n \in Reach(Holders) : Alive(n) /\ state[n] # "FREEING"

\* the references to n in the configurations or tables of the nodes in memory
RefsIn(field, n) ==
  Cardinality({q \in Nodes \X (1..MaxKids) : Alive(q[1]) /\ q[2] \in DOMAIN field[q[1]] /\ field[q[1]][q[2]] = n})

\* Between calls no node is lost: what the caller cannot reach was freed,
\* loops included ("free a node, taking care of loops in the node graph"); what
\* stays has the count of the references that exist, and no mark of the loop
\* detection for the next ec_node_free() to misread.
Reclaimed ==
  Idle => \A n \in Nodes :
    /\ Alive(n) => n \in Reach(Holders) /\ refcnt[n] = held[n] + RefsIn(cfg, n) + RefsIn(tab, n)
    /\ state[n] = "NONE" /\ frefs[n] = 0

\* Every call returns: ec_node_free() "taking care of loops in the node graph"
\* (node.c:220) does not run for ever.  That is so if the loops below what a
\* call releases are entered through one node each and nothing else references
\* their nodes (MayRelease() with Sharing = "none"), and not beyond.
Returns == (stack # <<>>) ~> (stack = <<>>)
=============================================================================
