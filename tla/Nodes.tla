------------------------------- MODULE Nodes -------------------------------
(***************************************************************************)
(* Construction of grammar nodes: the constructors of src/node.c and of    *)
(* the node types str, seq, or, many, option and subset, over a heap of    *)
(* reference-counted nodes and of configurations.                          *)
(*                                                                         *)
(* Each operator takes the heap before the call and gives the heap after   *)
(* it.  One allocation may fail: mem counts down those made at one of the  *)
(* sites of the heap, and the one made when it is 0 fails.  Consecutive    *)
(* allocations with the same error path are one.  The sites are "node" (a  *)
(* node), "config" (a configuration or an entry of one), "array" (the      *)
(* table of a subset node or of an expression) and "table" (what a         *)
(* set_config() callback allocates).                                       *)
(***************************************************************************)
EXTENDS Config

CONSTANT UintMax  \* UINT_MAX, scaled down

ASSUME NodesAssumption == UintMax \in Nat \ {0}

Sites == {"node", "config", "array", "table"}

\* A node.  The fields type, kids, word, min and max are what the parse engine
\* reads: kids are the children in the private data, word the string of str.
\* own lists the other references of the private data, <<role, node>>; mark and
\* count are node->free, what ec_node_free() keeps while it looks for loops.
NewNode(type, id) ==
  [type |-> type, id |-> id, refs |-> 1, cfg |-> NullCfg, kids |-> <<>>,
   own |-> <<>>, word |-> <<>>, min |-> 0, max |-> 0, attrs |-> <<>>,
   mark |-> "NONE", count |-> 0]

Null == 0
NoId == <<>>

\* cfgs counts the configuration objects; ctx is the table of nodes that a call
\* refers to (the evaluation of a command, the import of a document).  fault says
\* that a freed node was used or an assertion failed, endless that a call of
\* ec_node_free() does not return, and twice that the code took an error path
\* that frees a node which the call that failed has freed.
EmptyHeap ==
  [mem |-> 0, sites |-> {}, nodes |-> <<>>, cfgs |-> 0, fault |-> FALSE, endless |-> FALSE, twice |-> FALSE,
   ctx |-> <<>>]
WithBudget(h, mem, sites) == [h EXCEPT !.mem = mem, !.sites = sites]

\* What a call gives: whether it succeeds, what it returns, the heap after it.
\* The one that fails returns NULL, or a negative number.
Got(val, h) == [ok |-> TRUE, val |-> val, h |-> h]
Ok(h) == Got(Null, h)
Failed(h) == [Ok(h) EXCEPT !.ok = FALSE]

\* the call r, then what follows if it fails and if it succeeds
Try(r, Fail(_), Then(_)) == IF r.ok THEN Then(r) ELSE Fail(r.h)

NoMem(h, site) == h.mem = 0 /\ site \in h.sites
Spend(h, site) == IF site \in h.sites THEN [h EXCEPT !.mem = @ - 1] ELSE h

\* an allocation at that site, then the call makes val of it
Allocate(h, site, Fail(_), Then(_)) ==
  IF NoMem(h, site) THEN Fail(Spend(h, site)) ELSE Then(Spend(h, site))

Times(s, n) == Cardinality({i \in DOMAIN s : s[i] = n})

-----------------------------------------------------------------------------
\* References

Alive(h) == {n \in DOMAIN h.nodes : h.nodes[n].refs > 0}

\* the references that the nodes of S hold
Owned(node) == [i \in DOMAIN node.own |-> node.own[i][2]]
Held(h, S) ==
  [m \in S |-> NodesOf(h.nodes[m].cfg) \o h.nodes[m].kids \o Owned(h.nodes[m])]

\* how many of them are to n
RefsFrom(held, n) ==
  Cardinality({x \in UNION {{m} \X DOMAIN held[m] : m \in DOMAIN held} : held[x[1]][x[2]] = n})

\* the nodes of S, and those that they lead to
RECURSIVE ReachFrom(_, _)
ReachFrom(held, S) ==
  IF \A m \in S : SE!ToSet(held[m]) \subseteq S THEN S
  ELSE ReachFrom(held, S \cup UNION {SE!ToSet(held[m]) : m \in S})

\* the configurations of the nodes of S
RECURSIVE SizeOf(_, _)
SizeOf(h, S) ==
  IF S = {} THEN 0 ELSE LET n == The(S) IN Size(h.nodes[n].cfg) + SizeOf(h, S \ {n})

\* how often a type says, in get_child(), that it references each child
RefsOf(type) == IF type \in {"subset", "sh_lex", "expr", "cmd", "cond"} THEN 1 ELSE 2

Unref(h, n) == [h EXCEPT !.nodes[n].refs = @ - 1]
Marks(h) == [i \in DOMAIN h.nodes |-> h.nodes[i].mark]

\* ec_node_free() visits a node in its search for loops: it is a fault if it was freed
Visited(h, n, m, count) ==
  [h EXCEPT !.nodes[n].mark = m, !.nodes[n].count = count, !.fault = @ \/ h.nodes[n].refs = 0]

RECURSIVE CountReferences(_, _, _), CountBelow(_, _, _), MarkFreeable(_, _, _, _), MarkBelow(_, _, _, _),
          ResetMark(_, _), ResetBelow(_, _), FreeNode(_, _), FreeNodes(_, _), Clones(_, _)

\* count_references(): refs more references to n were found
CountReferences(h, n, refs) ==
  IF h.nodes[n].mark = "TRAVERSED" THEN [h EXCEPT !.nodes[n].count = @ + refs]
  ELSE CountBelow(Visited(h, n, "TRAVERSED", refs), h.nodes[n].kids, RefsOf(h.nodes[n].type))
CountBelow(h, kids, refs) ==
  IF kids = <<>> THEN h ELSE CountBelow(CountReferences(h, Head(kids), refs), Tail(kids), refs)

\* The mark that mark_freeable() puts; an assertion fails if more references were
\* counted than there are.
MarkOf(node, m) == IF node.refs > node.count THEN "NOT_FREEABLE" ELSE m
Miscounted(h, n) == [h EXCEPT !.fault = @ \/ h.nodes[n].refs < h.nodes[n].count]

\* mark_freeable(), in the pending calls of path: the same call with the same
\* marks never returns
MarkFreeable(h, n, m, path) ==
  IF h.endless \/ h.nodes[n].mark = m THEN h
  ELSE IF <<n, m, Marks(h)>> \in path THEN [h EXCEPT !.endless = TRUE]
  ELSE MarkBelow(Visited(Miscounted(h, n), n, MarkOf(h.nodes[n], m), h.nodes[n].count), h.nodes[n].kids,
                 MarkOf(h.nodes[n], m), path \cup {<<n, m, Marks(h)>>})
MarkBelow(h, kids, m, path) ==
  IF kids = <<>> THEN h ELSE MarkBelow(MarkFreeable(h, Head(kids), m, path), Tail(kids), m, path)

\* reset_mark()
ResetMark(h, n) ==
  IF h.nodes[n].mark = "NONE" THEN h ELSE ResetBelow(Visited(h, n, "NONE", 0), h.nodes[n].kids)
ResetBelow(h, kids) ==
  IF kids = <<>> THEN h ELSE ResetBelow(ResetMark(h, Head(kids)), Tail(kids))

FreeNodes(h, s) == IF s = <<>> THEN h ELSE FreeNodes(FreeNode(h, Head(s)), Tail(s))

\* the search for loops in ec_node_free()
Searched(h, n) ==
  IF h.nodes[n].mark # "NONE" \/ h.nodes[n].refs = 1 THEN h
  ELSE MarkFreeable(CountReferences(h, n, 1), n, "FREEABLE", {})

\* The configuration of n is freed, then its private data.  get_child() finds the
\* children until the end, and after it unless free_priv() resets their table.
FreePriv(h, n) ==
  [FreeNodes([h EXCEPT !.nodes[n].mark = "FREEING", !.nodes[n].cfg = NullCfg, !.cfgs = @ - Size(h.nodes[n].cfg)],
             NodesOf(h.nodes[n].cfg) \o h.nodes[n].kids \o Owned(h.nodes[n])) EXCEPT
     !.nodes[n].kids = IF h.nodes[n].type \in {"seq", "or", "cmd"} THEN <<>> ELSE @, !.nodes[n].own = <<>>]

\* the end of ec_node_free()
Released(h, n) ==
  IF h.nodes[n].refs > 1 THEN Unref(h, n)
  ELSE [Unref(h, n) EXCEPT !.nodes[n].mark = "NONE", !.nodes[n].count = 0, !.nodes[n].kids = <<>>]

\* what ec_node_free() does once it searched
Decided(h, n) ==
  IF h.endless THEN h
  ELSE IF h.nodes[n].mark = "NOT_FREEABLE" THEN ResetMark(Unref(h, n), n)
  ELSE Released(IF h.nodes[n].mark = "FREEING" THEN h ELSE FreePriv(h, n), n)

\* ec_node_free(); it is a fault to free a node that was freed
FreeNode(h, n) ==
  IF n = Null \/ h.endless THEN h
  ELSE IF h.nodes[n].refs = 0 THEN [h EXCEPT !.fault = TRUE]
  ELSE Decided(Searched(h, n), n)

\* a node is freed by the caller of what freed it
FreeAgain(h, n) == FreeNode([h EXCEPT !.twice = TRUE], n)

\* ec_node_clone()
Clone(h, n) ==
  IF n = Null THEN h
  ELSE [h EXCEPT !.nodes[n].refs = @ + 1, !.fault = @ \/ h.nodes[n].refs = 0]

Clones(h, s) == IF s = <<>> THEN h ELSE Clones(Clone(h, Head(s)), Tail(s))

\* ec_node_from_type()
FromType(h, type, id) ==
  Allocate(h, "node", Failed, LAMBDA g :
    Got(Len(g.nodes) + 1, [g EXCEPT !.nodes = Append(@, NewNode(type, id))]))

-----------------------------------------------------------------------------
\* Configurations

\* ec_config_free()
CfgFree(h, c) == FreeNodes([h EXCEPT !.cfgs = @ - Size(c)], NodesOf(c))

\* ec_config_bool(), ec_config_i64(), ec_config_u64(), ec_config_string(),
\* ec_config_dict(), ec_config_list()
NewCfg(h, c) ==
  Allocate(h, "config", Failed, LAMBDA g : Got(c, [g EXCEPT !.cfgs = @ + 1]))

\* ec_config_node(): the node is consumed, or freed on error
ConfigNode(h, n) ==
  IF n = Null THEN Failed(h)
  ELSE Try(NewCfg(h, Cfg("node", n)), LAMBDA g : Failed(FreeNode(g, n)), LAMBDA r : r)

\* ec_config_dict_set(): the dictionary once key is set to what the call r made;
\* that is consumed
DictSet(r, d, key) ==
  IF ~r.ok THEN r
  ELSE IF d.type # "dict" THEN Failed(CfgFree(r.h, r.val))
  ELSE Allocate(r.h, "config", LAMBDA g : Failed(CfgFree(g, r.val)), LAMBDA g :
         Got(With(d, key, r.val), CfgFree(g, Get(d, key))))

\* ec_config_dict_del()
DictDel(h, d, key) ==
  IF key \notin Keys(d) THEN Failed(h)
  ELSE Got(Without(d, key), CfgFree(h, Get(d, key)))

\* mutant: the new element is put first
ListAddHead(r, list) ==
  IF ~r.ok THEN r
  ELSE IF list.type # "list" THEN Failed(CfgFree(r.h, r.val))
  ELSE Got([list EXCEPT !.val = <<r.val>> \o @], r.h)

\* ec_config_list_add(): the list with what the call r made, which is consumed
ListAdd(r, list) ==
  IF ~r.ok THEN r
  ELSE IF list.type # "list" THEN Failed(CfgFree(r.h, r.val))
  ELSE Got([list EXCEPT !.val = Append(@, r.val)], r.h)

\* ec_config_list_del()
ListDel(h, list, i) == Got([list EXCEPT !.val = SE!RemoveAt(@, i)], CfgFree(h, list.val[i]))

RECURSIVE CfgDup(_, _), ListDup(_, _, _), DictDup(_, _, _)

\* ec_config_list_dup(): list is what is left to copy to dup
ListDup(h, dup, list) ==
  IF list = <<>> THEN Got(dup, h)
  ELSE Try(ListAdd(CfgDup(h, Head(list)), dup), LAMBDA g : Failed(CfgFree(g, dup)), LAMBDA l :
         ListDup(l.h, l.val, Tail(list)))

\* ec_config_dict_dup()
DictDup(h, dup, entries) ==
  IF entries = <<>> THEN Got(dup, h)
  ELSE Try(DictSet(CfgDup(h, Head(entries)[2]), dup, Head(entries)[1]),
           LAMBDA g : Failed(CfgFree(g, dup)), LAMBDA d : DictDup(d.h, d.val, Tail(entries)))

\* ec_config_dup()
CfgDup(h, c) ==
  CASE c.type \in Scalars -> NewCfg(h, c)
    [] c.type = "node" -> ConfigNode(Clone(h, c.val), c.val)
    [] c.type = "list" -> Try(NewCfg(h, EmptyList), Failed, LAMBDA l : ListDup(l.h, l.val, c.val))
    [] c.type = "dict" -> Try(NewCfg(h, EmptyDict), Failed, LAMBDA d : DictDup(d.h, d.val, c.val))
    [] OTHER -> Failed(h)

-----------------------------------------------------------------------------
\* the reference counts of a heap are exact, given the nodes and the
\* configurations held outside, what is not referenced is freed, nothing was
\* freed twice and no mark is left on a node
Exact(h, refs, configs) ==
  LET held == Held(h, Alive(h))
      outside == refs \o NodesOfAll(configs)
  IN  /\ ~h.fault /\ ~h.endless
      /\ \A n \in Alive(h) : h.nodes[n].refs = RefsFrom(held, n) + Times(outside, n) /\ h.nodes[n].mark = "NONE"
      /\ Alive(h) = ReachFrom(held, SE!ToSet(outside))
      /\ h.cfgs = SizeOf(h, Alive(h)) + SizeAll(configs)
=============================================================================
