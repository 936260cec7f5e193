-------------------------------- MODULE Yaml --------------------------------
(***************************************************************************)
(* Import and export of grammars (src/yaml.c), and a caller that puts      *)
(* configurations together by itself (src/config.c).                       *)
(*                                                                         *)
(* A document is what libyaml loads.  A YAML node is a scalar, a sequence, *)
(* a mapping in the order of its pairs, or the name of a mapping: two      *)
(* places that have the same name share one mapping (an anchor and its     *)
(* aliases), and a mapping may contain its own name.  Every mapping that   *)
(* stands for a grammar node has a name.  Keys are scalars.                *)
(***************************************************************************)
EXTENDS NodeTypes, TLC

CONSTANTS Int64Max,  \* INT64_MAX, scaled down
          Number,    \* external: what strtoll() makes of a text, if it is a number
          Negative,  \* the texts that contain "-"
          Families   \* what is explored, see MCYaml

VARIABLES family,
          doc,     \* the document: the mapping of each name
          heap,
          refs,    \* the nodes that the caller owns
          configs, \* the configurations that the caller owns
          out      \* what the last call gave

vars == <<family, doc, heap, refs, configs, out>>

NoResult == [op |-> "none"]

Y(kind, val) == [kind |-> kind, val |-> val]
Deref(d, y) == IF y.kind = "name" THEN Y("mapping", d[y.val]) ELSE y

\* the values of a key in the pairs of a mapping
ValuesOf(pairs, key) ==
  LET s == SelectSeq(pairs, LAMBDA p : p[1] = key) IN [i \in DOMAIN s |-> s[i][2]]

-----------------------------------------------------------------------------
\* Import

\* parse_llint(): {} or {n}.  An empty text is the number 0, like strtoll().
ParseLL(t) ==
  {n \in {Number[x] : x \in {t} \cap DOMAIN Number} : -(Int64Max + 1) <= n /\ n <= Int64Max}

\* parse_ullint()
ParseULL(t) ==
  {n \in {Number[x] : x \in ({t} \cap DOMAIN Number) \ Negative} : n <= 2 * Int64Max + 1}

\* parse_bool(), in any case
ParseBool(t) == {b \in BOOLEAN : t \in IF b THEN {"true", "TRUE"} ELSE {"false", "FALSE"}}

\* the value of a scalar for that type
ScalarOf(type, y) ==
  CASE y.kind # "scalar" -> {}
    [] y.kind = "scalar" /\ type = "bool" -> ParseBool(y.val)
    [] y.kind = "scalar" /\ type = "int64" -> ParseLL(y.val)
    [] y.kind = "scalar" /\ type = "uint64" -> ParseULL(y.val)
    [] y.kind = "scalar" /\ type = "string" -> {y.val}

\* the node made of a name before, in the table of the import
InTable(h, y) == {i \in DOMAIN h.ctx : y.kind = "name" /\ h.ctx[i][1] = y.val}

\* add_in_table(): the new node n, freed on error
AddInTable(h, y, n) ==
  Allocate(h, "array", LAMBDA g : Failed(FreeNode(g, n)), LAMBDA g :
    Got(n, Clone([g EXCEPT !.ctx = Append(@, <<y.val, n>>)], n)))

\* free_table()
FreeTable(h) == FreeNodes([h EXCEPT !.ctx = <<>>], [i \in DOMAIN h.ctx |-> h.ctx[i][2]])

\* the first loop of parse_ec_node() finds each key once and of the right kind
Once(pairs, key, kind) ==
  Len(ValuesOf(pairs, key)) <= 1 /\ \A i \in DOMAIN ValuesOf(pairs, key) : ValuesOf(pairs, key)[i].kind = kind
KnownType(type) == HasSchema(type) \/ type \in {"empty", "none"}
Header(pairs) ==
  /\ Once(pairs, "type", "scalar") /\ Once(pairs, "id", "scalar") /\ Once(pairs, "help", "scalar")
  /\ Once(pairs, "attrs", "mapping")
  /\ \A i \in DOMAIN ValuesOf(pairs, "type") : KnownType(ValuesOf(pairs, "type")[i].val)

\* the id: a sequence of one text, or of none
IdOf(pairs) == LET s == ValuesOf(pairs, "id") IN IF s = <<>> \/ s[1].val = "" THEN NoId ELSE <<s[1].val>>

\* the attributes to set, the help first
AttrsOf(pairs) ==
  [i \in DOMAIN ValuesOf(pairs, "help") |-> <<"_help", ValuesOf(pairs, "help")[i].val>>]
  \o IF ValuesOf(pairs, "attrs") = <<>> THEN <<>>
     ELSE LET s == ValuesOf(pairs, "attrs")[1].val IN [i \in DOMAIN s |-> <<s[i][1], s[i][2].val>>]

RECURSIVE ParseEcConfig(_, _, _, _), ParseList(_, _, _, _, _), ParseDict(_, _, _, _, _), ParseEcNode(_, _, _),
          SetAttrs(_, _, _)

\* ec_dict_set() of each attribute of node n; it is freed on error
SetAttrs(h, n, attrs) ==
  IF attrs = <<>> THEN Got(n, h)
  ELSE Allocate(h, "attr", LAMBDA g : Failed(FreeNode(g, n)), LAMBDA g :
         SetAttrs([g EXCEPT !.nodes[n].attrs = With([val |-> @], attrs[1][1], attrs[1][2]).val], n, Tail(attrs)))

\* parse_ec_config(): the configuration that y gives to element e of a schema
ParseEcConfig(h, d, e, y) ==
  CASE e.type \in Scalars ->
         IF ScalarOf(e.type, y) = {} THEN Failed(h) ELSE NewCfg(h, Cfg(e.type, The(ScalarOf(e.type, y))))
    [] e.type = "node" -> Try(ParseEcNode(h, d, y), Failed, LAMBDA n : ConfigNode(n.h, n.val))
    [] e.type = "list" ->
         IF e.sub = {} \/ y.kind # "sequence" THEN Failed(h)
         ELSE Try(NewCfg(h, EmptyList), Failed, LAMBDA l : ParseList(l.h, d, The(e.sub)[1], y.val, l.val))
    [] e.type = "dict" ->
         IF e.sub = {} \/ Deref(d, y).kind # "mapping" THEN Failed(h)
         ELSE Try(NewCfg(h, EmptyDict), Failed, LAMBDA c : ParseDict(c.h, d, The(e.sub), Deref(d, y).val, c.val))

\* the loop of parse_ec_config_list()
ParseList(h, d, e, items, list) ==
  IF items = <<>> THEN Got(list, h)
  ELSE Try(ListAdd(ParseEcConfig(h, d, e, Head(items)), list), LAMBDA g : Failed(CfgFree(g, list)),
           LAMBDA l : ParseList(l.h, d, e, Tail(items), l.val))

\* the loop of parse_ec_config_dict(): reserved keys are skipped
ParseDict(h, d, schema, pairs, c) ==
  IF pairs = <<>> THEN Got(c, h)
  ELSE IF Reserved(pairs[1][1]) THEN ParseDict(h, d, schema, Tail(pairs), c)
  ELSE IF Lookup(schema, pairs[1][1]) = {} THEN Failed(CfgFree(h, c))
  ELSE Try(DictSet(ParseEcConfig(h, d, The(Lookup(schema, pairs[1][1])), pairs[1][2]), c, pairs[1][1]),
           LAMBDA g : Failed(CfgFree(g, c)), LAMBDA x : ParseDict(x.h, d, schema, Tail(pairs), x.val))

\* its new node n is in the table: the end of parse_ec_node()
ParseBody(h, d, type, pairs, n) ==
  IF ~HasSchema(type) THEN Failed(FreeNode(h, n))
  ELSE Try(Configured(Try(NewCfg(h, EmptyDict), Failed, LAMBDA c : ParseDict(c.h, d, Schemas[type], pairs, c.val)), n),
           Failed, LAMBDA r : SetAttrs(r.h, n, AttrsOf(pairs)))

\* ... and its beginning
NewEcNode(h, d, y, type, pairs) ==
  Try(FromType(h, type, IdOf(pairs)), Failed, LAMBDA n :
  Try(AddInTable(n.h, y, n.val), Failed, LAMBDA t : ParseBody(t.h, d, type, pairs, n.val)))

\* parse_ec_node() of a mapping that is not in the table: type stays NULL without
\* that key, and ec_node_from_type() reads it
ParsePairs(h, d, y, pairs) ==
  IF ~Header(pairs) THEN Failed(h)
  ELSE IF ValuesOf(pairs, "type") = <<>> THEN Failed([h EXCEPT !.fault = TRUE])
  ELSE NewEcNode(h, d, y, ValuesOf(pairs, "type")[1].val, pairs)

\* parse_ec_node(): a name that is in the table gives a clone
ParseEcNode(h, d, y) ==
  CASE y.kind # "name" -> Failed(h)
    [] InTable(h, y) # {} -> LET n == h.ctx[The(InTable(h, y))][2] IN Got(n, Clone(h, n))
    [] OTHER -> ParsePairs(h, d, y, d[y.val])

\* mutant: the table is not freed on error
ImportLeaks(h, d, root) ==
  IF root.kind = "none" THEN Failed(h)
  ELSE Try(ParseEcNode(h, d, root), LAMBDA g : Failed([g EXCEPT !.ctx = <<>>]),
           LAMBDA r : Got(r.val, FreeTable(r.h)))

\* ec_yaml_import(), with parse_document(); kind "none" is a file that libyaml
\* does not load, or an empty one
Import(h, d, root) ==
  IF root.kind = "none" THEN Failed(h)
  ELSE Try(ParseEcNode(h, d, root), LAMBDA g : Failed(FreeTable(g)), LAMBDA r : Got(r.val, FreeTable(r.h)))

-----------------------------------------------------------------------------
\* Export: the nested YAML node that libyaml makes of the text written.  A
\* sequence or a mapping without entries is written as nothing, which is an empty
\* scalar.

RECURSIVE ExportConfig(_, _, _), ExportNode(_, _)

OrNothing(kind, s) == IF s = <<>> THEN Y("scalar", "") ELSE Y(kind, s)

\* export_ec_config(), export_ec_config_list(), export_ec_config_dict()
ExportConfig(h, c, e) ==
  CASE c.type = "bool" -> Y("scalar", IF c.val THEN "true" ELSE "false")
    [] c.type \in {"int64", "uint64"} -> Y("scalar", ToString(c.val))
    [] c.type = "string" -> Y("scalar", c.val)
    [] c.type = "node" -> ExportNode(h, c.val)
    [] c.type = "list" -> OrNothing("sequence", [i \in DOMAIN c.val |-> ExportConfig(h, c.val[i], The(e.sub)[1])])
    [] c.type = "dict" ->
         LET s == SelectSeq(c.val, LAMBDA p : Lookup(The(e.sub), p[1]) # {})
         IN  OrNothing("mapping", [i \in DOMAIN s |->
               <<s[i][1], ExportConfig(h, s[i][2], The(Lookup(The(e.sub), s[i][1])))>>])

\* mutant: the help is not written
ExportHelpNot(node) == <<>>

\* of the attributes, only the help is written
ExportHelp(node) ==
  LET s == SelectSeq(node.attrs, LAMBDA p : p[1] = "_help") IN [i \in DOMAIN s |-> <<"help", Y("scalar", s[i][2])>>]
ExportId(node) == [i \in DOMAIN node.id |-> <<"id", Y("scalar", node.id[i])>>]

\* export_ec_node(), the configuration in the order of the schema
ExportNode(h, n) ==
  LET node == h.nodes[n]
      elts == IF ~HasSchema(node.type) THEN <<>>
              ELSE SelectSeq(Schemas[node.type], LAMBDA e : ~Reserved(e.key) /\ e.key \in Keys(node.cfg))
  IN  Y("mapping", <<<<"type", Y("scalar", node.type)>>>> \o ExportId(node) \o ExportHelp(node)
                   \o [i \in DOMAIN elts |-> <<elts[i].key, ExportConfig(h, Get(node.cfg, elts[i].key), elts[i])>>])

\* whether the recursion of export_ec_node() ends: the graph has no loop
Children(h, n) == SE!ToSet(h.nodes[n].kids)
RECURSIVE Loops(_, _, _)
Loops(h, n, above) == n \in above \/ \E k \in Children(h, n) : Loops(h, k, above \cup {n})

-----------------------------------------------------------------------------
\* libyaml (external) loads what was exported: mappings that stand for nodes get
\* names, here the path that leads to them
RECURSIVE Named(_, _), Mappings(_, _)

IsNode(y) == y.kind = "mapping" /\ ValuesOf(y.val, "type") # <<>>
Kid(y, i) == IF y.kind = "mapping" THEN y.val[i][2] ELSE y.val[i]
Named(y, path) ==
  CASE y.kind = "scalar" -> y
    [] y.kind = "sequence" ->
         Y("sequence", [i \in DOMAIN y.val |-> IF IsNode(y.val[i]) THEN Y("name", Append(path, i))
                                               ELSE Named(y.val[i], Append(path, i))])
    [] y.kind = "mapping" ->
         Y("mapping", [i \in DOMAIN y.val |->
           <<y.val[i][1], IF IsNode(y.val[i][2]) THEN Y("name", Append(path, i))
                          ELSE Named(y.val[i][2], Append(path, i))>>])
Mappings(y, path) ==
  (IF IsNode(y) THEN {<<path, Named(y, path).val>>} ELSE {})
  \cup IF y.kind = "scalar" THEN {} ELSE UNION {Mappings(Kid(y, i), Append(path, i)) : i \in DOMAIN y.val}
Loaded(y) ==
  LET maps == Mappings(y, <<0>>)
  IN  [p \in {m[1] : m \in maps} |-> (CHOOSE m \in maps : m[1] = p)[2]]

-----------------------------------------------------------------------------
Init ==
  /\ family \in Families
  /\ doc = [a \in DOMAIN family.names |-> <<>>]
  /\ heap = family.heap
  /\ refs = family.given
  /\ configs = <<>>
  /\ out = NoResult

\* the author of the document adds a pair to a mapping, one mapping after the other
Write(a, pair) ==
  /\ out = NoResult /\ Len(SE!FlattenSeq(doc)) < family.maxPairs
  /\ \A b \in (a + 1)..Len(doc) : doc[b] = <<>>
  /\ doc' = [doc EXCEPT ![a] = Append(@, pair)]
  /\ UNCHANGED <<family, heap, refs, configs, out>>

\* ec_yaml_import() of it, or of a file that libyaml does not load
DoImport(root, mem) ==
  /\ out = NoResult /\ doc # <<>> /\ (root.kind = "name" => doc[1] # <<>>)
  /\ \E r \in {Import(WithBudget(heap, mem, family.sites), doc, root)} :
       /\ heap' = r.h
       /\ refs' = IF r.ok THEN Append(refs, r.val) ELSE refs
       /\ out' = [op |-> "import", ok |-> r.ok, root |-> root]
  /\ UNCHANGED <<family, doc, configs>>

\* the grammar is exported, and what was written is imported
DoExport ==
  /\ out.op = "import" /\ out.ok /\ family.export
  /\ ~Loops(heap, SE!Last(refs), {})
  /\ \E r \in {Import(WithBudget(heap, 0, {}), Loaded(ExportNode(heap, SE!Last(refs))), Y("name", <<0>>))} :
       /\ heap' = r.h
       /\ refs' = IF r.ok THEN Append(refs, r.val) ELSE refs
       /\ out' = [op |-> "export", ok |-> r.ok]
  /\ UNCHANGED <<family, doc, configs>>

\* the caller releases what it owns
FreeAll ==
  /\ refs # <<>> /\ out # NoResult /\ configs = <<>>
  /\ heap' = FreeNodes(heap, refs)
  /\ refs' = <<>>
  /\ out' = [op |-> "free"]
  /\ UNCHANGED <<family, doc, configs>>

\* Calls of the configuration API: r is what the call gives, rest the
\* configurations that it does not take.
Ended(h, left) ==
  /\ heap' = WithBudget(h, 0, {})
  /\ configs' = left
  /\ out' = [op |-> "config"]
  /\ UNCHANGED <<family, doc, refs>>
Call(r, rest) == Ended(r.h, IF r.ok THEN Append(rest, r.val) ELSE rest)

Room(mem) == heap.cfgs < family.maxObjects /\ mem \in family.budgets
Budget(mem) == WithBudget(heap, mem, family.sites)
AllBut(i) == SE!RemoveAt(configs, i)
\* the configuration that is changed is put back when the call fails
Kept(r, c) == IF r.ok THEN r ELSE Got(c, r.h)
Two(i, j) == i \in DOMAIN configs /\ j \in DOMAIN configs /\ i # j
AllButTwo(i, j) ==
  LET s == SelectSeq([k \in DOMAIN configs |-> k], LAMBDA k : k \notin {i, j}) IN [k \in DOMAIN s |-> configs[s[k]]]

\* ec_config_bool(), ... ec_config_list()
NewConfig(c, mem) == Room(mem) /\ Len(configs) < family.maxConfigs /\ Call(NewCfg(Budget(mem), c), configs)

\* ec_config_node() of a clone of node n
NewNodeConfig(n, mem) ==
  Room(mem) /\ Len(configs) < family.maxConfigs /\ Call(ConfigNode(Clone(Budget(mem), n), n), configs)

\* ec_config_dict_set(), ec_config_list_add(): the value is consumed
CallDictSet(i, j, key, mem) ==
  /\ mem \in family.budgets /\ Two(i, j)
  /\ Call(Kept(DictSet(Got(configs[j], Budget(mem)), configs[i], key), configs[i]), AllButTwo(i, j))
CallListAdd(i, j) ==
  /\ Two(i, j)
  /\ Call(Kept(ListAdd(Got(configs[j], Budget(0)), configs[i]), configs[i]), AllButTwo(i, j))

\* ec_config_dict_del(), ec_config_list_del()
CallDictDel(i, key) ==
  /\ i \in DOMAIN configs /\ configs[i].type = "dict"
  /\ Call(Kept(DictDel(heap, configs[i], key), configs[i]), AllBut(i))
CallListDel(i, k) ==
  /\ i \in DOMAIN configs /\ configs[i].type = "list" /\ k \in DOMAIN configs[i].val
  /\ Call(ListDel(heap, configs[i], k), AllBut(i))

\* ec_config_dup(), ec_config_free()
CallDup(i, mem) ==
  /\ i \in DOMAIN configs /\ heap.cfgs + Size(configs[i]) <= family.maxObjects /\ mem \in family.budgets
  /\ Len(configs) < family.maxConfigs
  /\ Call(CfgDup(Budget(mem), configs[i]), configs)
CallFree(i) == i \in DOMAIN configs /\ Ended(CfgFree(heap, configs[i]), AllBut(i))

\* ec_node_set_config() of a node of the caller: the configuration is consumed
CallSetConfig(n, i, mem) ==
  /\ i \in DOMAIN configs /\ mem \in family.budgets
  /\ Ended(SetConfig(Budget(mem), n, configs[i]).h, AllBut(i))

Slots == 1..family.maxConfigs
Configure ==
  /\ family.maxConfigs > 0 /\ refs # <<>>
  /\ \/ \E i \in DOMAIN family.values, mem \in family.budgets : NewConfig(family.values[i], mem)
     \/ \E n \in SE!ToSet(refs), mem \in family.budgets : NewNodeConfig(n, mem)
     \/ \E i, j \in Slots, key \in family.keys, mem \in family.budgets : CallDictSet(i, j, key, mem)
     \/ \E i, j \in Slots : CallListAdd(i, j)
     \/ \E i \in Slots, key \in family.keys : CallDictDel(i, key)
     \/ \E i \in Slots : \E k \in 1..2 : CallListDel(i, k)
     \/ \E i \in Slots, mem \in family.budgets : CallDup(i, mem)
     \/ \E i \in Slots : CallFree(i)
     \/ \E n \in SE!ToSet(refs), i \in Slots, mem \in family.budgets : CallSetConfig(n, i, mem)

\* a call that does not return is the last one
Next == ~heap.endless /\
  \/ \E a \in DOMAIN doc : \E pair \in family.names[a] : Write(a, pair)
  \/ \E root \in family.roots, mem \in family.budgets : DoImport(root, mem)
  \/ DoExport
  \/ FreeAll
  \/ Configure

Spec == Init /\ [][Next]_vars

-----------------------------------------------------------------------------
\* What a document stands for, whatever the code does

RECURSIVE Stands(_, _), Rename(_, _), Pictured(_), Same(_, _), SameConfig(_, _), Conforms(_, _)

\* the configuration, in which nodes are names, that YAML node y is for element e
\* of a schema: none, or one
Stands(e, y) ==
  CASE e.type \in Scalars -> {Cfg(e.type, v) : v \in ScalarOf(e.type, y)}
    [] e.type = "node" -> {Cfg("node", y.val) : x \in {"name"} \cap {y.kind}}
    [] e.type = "list" ->
         IF y.kind = "sequence" /\ \A i \in DOMAIN y.val : Stands(The(e.sub)[1], y.val[i]) # {}
         THEN {Cfg("list", [i \in DOMAIN y.val |-> The(Stands(The(e.sub)[1], y.val[i]))])} ELSE {}
    [] e.type = "dict" ->
         LET m == Deref(doc, y)
             at(key) == The(Lookup(The(e.sub), key))
             pairs == IF m.kind = "mapping" THEN SelectSeq(m.val, LAMBDA p : ~Reserved(p[1])) ELSE <<>>
             last == SelectSeq([i \in DOMAIN pairs |-> i],
                               LAMBDA i : \A j \in (i + 1)..Len(pairs) : pairs[j][1] # pairs[i][1])
         IN  IF m.kind = "mapping" /\ \A i \in DOMAIN pairs :
                  Lookup(The(e.sub), pairs[i][1]) # {} /\ Stands(at(pairs[i][1]), pairs[i][2]) # {}
             THEN {Cfg("dict", [k \in DOMAIN last |->
                    <<pairs[last[k]][1], The(Stands(at(pairs[last[k]][1]), pairs[last[k]][2]))>>])}
             ELSE {}

TypeOf(a) == ValuesOf(doc[a], "type")[1].val
ConfigOf(a) == Stands(Elt("node", "dict", FALSE, {Schemas[TypeOf(a)]}), Y("name", a))

\* mapping a stands for a node by itself, that its type accepts
Good(a) ==
  /\ Header(doc[a]) /\ HasSchema(TypeOf(a))
  /\ \E c \in ConfigOf(a) : Accepts(TypeOf(a), c)

\* the mappings that the ones of S lead to, also by a key that is overwritten
Mentions(a) ==
  LET pairs == SelectSeq(doc[a], LAMBDA p : ~Reserved(p[1]))
  IN  UNION {SE!ToSet(NodesOf(The(Stands(The(Lookup(Schemas[TypeOf(a)], pairs[i][1])), pairs[i][2])))) : i \in DOMAIN pairs}
RECURSIVE Leads(_)
Leads(S) ==
  LET more == S \cup UNION {Mentions(a) : a \in {b \in S : Good(b)}}
  IN  IF more = S THEN S ELSE Leads(more)

Rename(c, f) ==
  CASE c.type = "node" -> Cfg("node", f[c.val])
    [] c.type = "list" -> Cfg("list", [i \in DOMAIN c.val |-> Rename(c.val[i], f)])
    [] c.type = "dict" -> Cfg("dict", [i \in DOMAIN c.val |-> <<c.val[i][1], Rename(c.val[i][2], f)>>])
    [] OTHER -> c

\* the pairs <<node, mapping>> that the ones of R lead to
Pictured(R) ==
  LET next(n, a) == LET s == NodesOf(heap.nodes[n].cfg)
                        t == NodesOf(The(ConfigOf(a)))
                    IN  {<<s[i], t[i]>> : i \in DOMAIN s \cap DOMAIN t}
      more == R \cup UNION {next(r[1], r[2]) : r \in R}
  IN  IF more = R THEN R ELSE Pictured(more)

LastValues(pairs) ==
  {p \in SE!ToSet(pairs) : \E i \in DOMAIN pairs : pairs[i] = p /\ \A j \in (i + 1)..Len(pairs) : pairs[j][1] # p[1]}

\* two nodes that match the same grammar and have the same id and help
SameConfig(c, e) ==
  /\ c.type = e.type
  /\ CASE c.type = "node" -> Same(c.val, e.val)
       [] c.type = "list" -> Len(c.val) = Len(e.val) /\ \A i \in DOMAIN c.val : SameConfig(c.val[i], e.val[i])
       [] c.type = "dict" -> Keys(c) = Keys(e) /\ \A k \in Keys(c) : SameConfig(Get(c, k), Get(e, k))
       [] OTHER -> c.val = e.val
Same(m, n) ==
  LET x == heap.nodes[m]
      y == heap.nodes[n]
  IN  x.type = y.type /\ x.id = y.id /\ x.attrs = y.attrs /\ SameConfig(x.cfg, y.cfg)

\* the value of an element of a schema
Conforms(c, e) ==
  /\ c.type = e.type
  /\ c.type = "list" => \A i \in DOMAIN c.val : Conforms(c.val[i], The(e.sub)[1])
  /\ c.type = "dict" =>
       /\ Keys(c) \subseteq {The(e.sub)[i].key : i \in DOMAIN The(e.sub)}
       /\ \A i \in DOMAIN The(e.sub) :
            LET x == The(e.sub)[i]
            IN  IF x.key \in Keys(c) THEN Conforms(Get(c, x.key), x) ELSE ~x.mandatory

-----------------------------------------------------------------------------
\* Properties

InLoop == LET held == Held(heap, Alive(heap)) IN \E n \in DOMAIN held : n \in ReachFrom(held, SE!ToSet(held[n]))
AllTyped == \A a \in DOMAIN doc : ValuesOf(doc[a], "type") # <<>>

\* After every call, be the document refused anywhere, or an allocation fail:
\* reference counts are exact, with loops and shared mappings too, nothing is
\* leaked and nothing freed twice.  A mapping without a type is apart (the import
\* reads the name of the type NULL, which is a fault).  Every call returns, but the
\* import that fails once it made nodes that refer to each other in a loop: it may
\* run in circles in mark_freeable(), as it frees one while it holds another.
HeapExact ==
  AllTyped => IF heap.endless THEN out.op = "import" /\ ~out.ok /\ InLoop ELSE Exact(heap, refs, configs)

\* A document is accepted if and only if every mapping it leads to stands for a
\* node, and the nodes then picture it: one node for each mapping, however many
\* aliases it has, with its id, its attributes and its configuration.
ImportFaithful ==
  out.op = "import" /\ out.root.kind = "name" /\ family.sites = {} /\ AllTyped =>
    /\ out.ok = \A a \in Leads({1}) : Good(a)
    /\ out.ok =>
         LET R == Pictured({<<SE!Last(refs), 1>>})
             names == {r[2] : r \in R}
             f == [a \in names |-> (CHOOSE r \in R : r[2] = a)[1]]
         IN  /\ Cardinality(R) = Cardinality(names) /\ Cardinality(R) = Cardinality({r[1] : r \in R})
             /\ \A a \in names :
                  LET n == heap.nodes[f[a]]
                  IN  /\ n.type = TypeOf(a) /\ n.id = IdOf(doc[a]) /\ n.cfg = Rename(The(ConfigOf(a)), f)
                      /\ SE!ToSet(n.attrs) = LastValues(AttrsOf(doc[a]))

\* What ec_yaml_export() does not write, or writes in a way that is not read back
RECURSIVE Dense(_)
Dense(c) ==
  c.type \in {"list", "dict"} => c.val # <<>> /\ \A i \in DOMAIN c.val : Dense(Parts(c)[i])
Written(n) ==
  /\ \A i \in DOMAIN heap.nodes[n].attrs : heap.nodes[n].attrs[i][1] = "_help"
  /\ \A i \in DOMAIN heap.nodes[n].cfg.val : Dense(Parts(heap.nodes[n].cfg)[i])

\* "export/import roundtrip" (test/yaml.c): a grammar without loops that is
\* exported and imported comes back the same; its attributes and empty lists are
\* not written.
RoundTrip ==
  out.op = "export" =>
    LET before == IF out.ok THEN refs[Len(refs) - 1] ELSE SE!Last(refs)
        held == Held(heap, Alive(heap))
    IN  (\A n \in ReachFrom(held, {before}) : Written(n)) => out.ok /\ Same(before, SE!Last(refs))

\* A configuration checked against a schema that ec_config_schema_validate()
\* accepts is never checked against a missing subschema, and it is accepted if
\* and only if it has the shape that the schema says.
SchemaSafe ==
  \A s \in family.schemas : SchemaValidate(s, "dict") =>
    \A i \in DOMAIN configs :
      LET verdict == ConfigValidate(configs[i], s)
      IN  verdict # "fault" /\ (verdict = "ok" <=> Conforms(configs[i], Elt(NoKey, "dict", FALSE, {s})))

\* ec_config_cmp() is the same in both directions, and configurations that
\* compare equal are interchangeable: a schema accepts both or none.
CmpEquivalence ==
  \A i, j \in DOMAIN configs : Cmp(configs[i], configs[j]) =>
    /\ Cmp(configs[j], configs[i])
    /\ \A s \in family.schemas : SchemaValidate(s, "dict") =>
         ConfigValidate(configs[i], s) = ConfigValidate(configs[j], s)

=============================================================================
