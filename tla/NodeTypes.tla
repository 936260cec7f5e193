----------------------------- MODULE NodeTypes -----------------------------
(***************************************************************************)
(* The configuration of each node type (its schema and its set_config()    *)
(* callback) and the constructors of nodes with children.                  *)
(***************************************************************************)
EXTENDS Nodes

Opt(key, type) == Elt(key, type, FALSE, {})
NodeList == Elt("children", "list", FALSE, {<<Opt(NoKey, "node")>>})

\* the schemas of the types; empty, none, subset, expr... have none
SeqSchema == <<NodeList>>
OrSchema == <<NodeList>>
ManySchema == <<Opt("child", "node"), Opt("min", "uint64"), Opt("max", "uint64")>>
ChildSchema == <<Opt("child", "node")>>
StrSchema == <<Opt("string", "string")>>
AnySchema == <<Opt("attr", "string")>>
IntSchema == <<Opt("min", "int64"), Opt("max", "int64"), Opt("base", "uint64")>>
ReSchema == <<Opt("pattern", "string")>>
Pattern == <<Opt("pattern", "string"), Opt("keep", "bool"), Opt("attr", "string")>>
ReLexSchema ==
  <<Elt("patterns", "list", FALSE, {<<Elt(NoKey, "dict", FALSE, {Pattern})>>}), Opt("child", "node")>>

Schemas ==
  [seq |-> SeqSchema, or |-> OrSchema, many |-> ManySchema, option |-> ChildSchema,
   once |-> ChildSchema, bypass |-> ChildSchema, str |-> StrSchema, any |-> AnySchema,
   int |-> IntSchema, re |-> ReSchema, re_lex |-> ReLexSchema]

HasSchema(type) == type \in DOMAIN Schemas

\* the value of key, or a default
ValOr(c, key, default) == IF key \in Keys(c) THEN Get(c, key).val ELSE default

\* the patterns of a re_lex node
Patterns(c) == ValOr(c, "patterns", <<>>)

\* what the set_config() callbacks check beyond the schema
ManyAccepts(c) ==
  "child" \in Keys(c) /\ ValOr(c, "min", 0) < UintMax /\ ValOr(c, "max", 0) < UintMax
IntAccepts(c) == {"min", "max"} \subseteq Keys(c) => Get(c, "min").val <= Get(c, "max").val
ReLexAccepts(c) ==
  /\ "child" \in Keys(c)
  /\ \A i \in DOMAIN Patterns(c) : {"pattern", "keep"} \subseteq Keys(Patterns(c)[i])

PrivAccepts(type, c) ==
  CASE type \in {"seq", "or"} -> "children" \in Keys(c)
    [] type \in {"option", "once", "bypass"} -> "child" \in Keys(c)
    [] type = "many" -> ManyAccepts(c)
    [] type = "str" -> "string" \in Keys(c)
    [] type = "re" -> "pattern" \in Keys(c)
    [] type = "re_lex" -> ReLexAccepts(c)
    [] type = "int" -> IntAccepts(c)
    [] type = "any" -> TRUE

\* the types whose set_config() allocates
Allocates(type) == type \in {"seq", "or", "str", "any", "re", "re_lex"}

\* the string of str, the expression of re, the patterns of re_lex
WordOf(type, c) ==
  CASE type = "str" -> ValOr(c, "string", <<>>)
    [] type = "re" -> ValOr(c, "pattern", <<>>)
    [] type = "re_lex" -> [i \in DOMAIN Patterns(c) |->
                             [re |-> Get(Patterns(c)[i], "pattern").val,
                              keep |-> Get(Patterns(c)[i], "keep").val]]
    [] OTHER -> <<>>

\* the private data that a set_config() callback makes of the configuration
Priv(node, c, kids) ==
  [node EXCEPT !.cfg = c, !.kids = kids, !.word = WordOf(node.type, c),
               !.min = ValOr(c, "min", 0), !.max = ValOr(c, "max", 0)]

\* the end of ec_node_set_config(): the references of the private data are
\* replaced by kids, which it already owns, then the configuration by c
Apply(h, n, c, kids) ==
  CfgFree(FreeNodes([h EXCEPT !.nodes[n] = Priv(@, c, kids)], h.nodes[n].kids), h.nodes[n].cfg)

\* the checks of ec_node_set_config() and of the callback pass
Accepts(type, c) ==
  /\ HasSchema(type)
  /\ ConfigValidate(c, Schemas[type]) = "ok"
  /\ PrivAccepts(type, c)

\* ec_node_set_config(): the configuration is consumed, freed on error
SetConfig(h, n, c) ==
  IF ~Accepts(h.nodes[n].type, c) THEN Failed(CfgFree(h, c))
  ELSE Allocate(h, IF Allocates(h.nodes[n].type) THEN "table" ELSE "none",
                LAMBDA g : Failed(CfgFree(g, c)),
                LAMBDA g : Ok(Apply(Clones(g, NodesOf(c)), n, c, NodesOf(c))))

\* a constructor configures its node with what the call r made, and frees it on
\* error
Configured(r, n) ==
  Try(r, LAMBDA g : Failed(FreeNode(g, n)), LAMBDA c :
  Try(SetConfig(c.h, n, c.val), LAMBDA g : Failed(FreeNode(g, n)), LAMBDA g : Got(n, g.h)))

\* the dictionary d with one more key, freed on error
Entry(r, d, key) == Try(DictSet(r, d, key), LAMBDA g : Failed(CfgFree(g, d)), LAMBDA x : x)

\* a dictionary of one key, whose value the call Value makes
OneKey(h, key, Value(_)) ==
  Try(NewCfg(h, EmptyDict), Failed, LAMBDA d : Entry(Value(d.h), d.val, key))

\* ... when that value is node n, which is consumed
NodeKey(h, key, n) ==
  Try(NewCfg(h, EmptyDict), LAMBDA g : Failed(FreeNode(g, n)), LAMBDA d :
    Entry(ConfigNode(d.h, n), d.val, key))

-----------------------------------------------------------------------------
\* the configuration of n, or an empty dictionary: what the ..._add() and
\* ..._set_child() functions start from
CopyConfig(h, n) ==
  IF IsNull(h.nodes[n].cfg) THEN NewCfg(h, EmptyDict) ELSE CfgDup(h, h.nodes[n].cfg)

\* A copy of the configuration of n, in which key is a list, empty if there was
\* none; everything is freed on error.
ConfigWithList(h, n, key) ==
  Try(CopyConfig(h, n), Failed, LAMBDA c :
    IF key \in Keys(c.val) THEN c ELSE Entry(NewCfg(c.h, EmptyList), c.val, key))

\* ec_node_seq_add(), ec_node_or_add(): the child is consumed.  When
\* ec_node_set_config() fails the child was freed with the configuration, and
\* is freed again.
SeqAdd(h, n, child) ==
  Try(ConfigWithList(h, n, "children"), LAMBDA g : Failed(FreeNode(g, child)), LAMBDA c :
  Try(ListAdd(ConfigNode(c.h, child), Get(c.val, "children")), LAMBDA g : Failed(CfgFree(g, c.val)), LAMBDA l :
  Try(SetConfig(l.h, n, With(c.val, "children", l.val)), LAMBDA g : Failed(FreeAgain(g, child)), LAMBDA r : r)))

RECURSIVE ListOf(_, _, _)

\* the children given to a constructor, moved to list; on error all are freed,
\* those of the list included
ListOf(h, list, kids) ==
  IF kids = <<>> THEN Got(list, h)
  ELSE Try(ListAdd(ConfigNode(h, Head(kids)), list),
           LAMBDA g : Failed(CfgFree(FreeNodes(g, Tail(kids)), list)),
           LAMBDA l : ListOf(l.h, l.val, Tail(kids)))

\* __ec_node_seq(), __ec_node_or(): the children are consumed, Null among them
\* stands for a constructor that failed
SeqOf(h, type, kids) ==
  Try(FromType(h, type, NoId), LAMBDA g : Failed(FreeNodes(g, kids)), LAMBDA n :
  Try(NewCfg(n.h, EmptyDict), LAMBDA g : Failed(FreeNode(FreeNodes(g, kids), n.val)), LAMBDA d :
  Try(NewCfg(d.h, EmptyList), LAMBDA g : Failed(CfgFree(FreeNode(FreeNodes(g, kids), n.val), d.val)), LAMBDA e :
    Configured(Entry(ListOf(e.h, e.val, kids), d.val, "children"), n.val))))

\* ec_node_str() and ec_node_re(), whose configuration has one string
StringNode(h, type, key, w) ==
  Try(FromType(h, type, NoId), Failed, LAMBDA n :
    Configured(OneKey(n.h, key, LAMBDA g : NewCfg(g, Cfg("string", w))), n.val))

StrNode(h, w) == StringNode(h, "str", "string", w)
ReNode(h, re) == StringNode(h, "re", "pattern", re)

\* ec_node_re_lex(), with ec_node_re_lex_set_child()
ReLexNode(h, child) ==
  IF child = Null THEN Failed(h)
  ELSE Try(FromType(h, "re_lex", NoId), LAMBDA g : Failed(FreeNode(g, child)), LAMBDA n :
         Configured(NodeKey(n.h, "child", child), n.val))

\* the dictionary that ec_node_re_lex_add() adds to the list of patterns, freed
\* on error
PatternElt(h, re, keep) ==
  Try(OneKey(h, "pattern", LAMBDA g : NewCfg(g, Cfg("string", re))), Failed, LAMBDA d :
    Entry(NewCfg(d.h, Cfg("bool", keep)), d.val, "keep"))

\* ec_node_re_lex_add()
ReLexAdd(h, n, re, keep) ==
  Try(PatternElt(h, re, keep), Failed, LAMBDA e :
  Try(ConfigWithList(e.h, n, "patterns"), LAMBDA g : Failed(CfgFree(g, e.val)), LAMBDA c :
    SetConfig(c.h, n, With(c.val, "patterns", ListAdd(Got(e.val, c.h), Get(c.val, "patterns")).val))))

\* ec_node_many(), with ec_node_many_set_params() on the new node
ManyNode(h, child, min, max) ==
  IF child = Null THEN Failed(h)
  ELSE Try(FromType(h, "many", NoId), LAMBDA g : Failed(FreeNode(g, child)), LAMBDA n :
         Configured(Try(NodeKey(n.h, "child", child), Failed, LAMBDA d :
                    Try(Entry(NewCfg(d.h, Cfg("uint64", min)), d.val, "min"), Failed, LAMBDA e :
                      Entry(NewCfg(e.h, Cfg("uint64", max)), e.val, "max"))), n.val))

\* ec_node_option(), with ec_node_option_set_child(): when the latter fails, it
\* has freed the child, which is freed again, and the node is leaked
OptionNode(h, child) ==
  IF child = Null THEN Failed(h)
  ELSE Try(FromType(h, "option", NoId), LAMBDA g : Failed(FreeNode(g, child)), LAMBDA n :
       Try(NodeKey(n.h, "child", child), LAMBDA g : Failed(FreeAgain(g, child)), LAMBDA d :
       Try(SetConfig(d.h, n.val, d.val), LAMBDA g : Failed(FreeAgain(g, child)), LAMBDA r : Got(n.val, r.h))))

\* ec_node_subset_add(): the child is consumed
SubsetAdd(h, n, child) ==
  IF child = Null THEN Failed(h)
  ELSE Allocate(h, "array", LAMBDA g : Failed(FreeNode(g, child)), LAMBDA g :
         Ok([g EXCEPT !.nodes[n].kids = Append(@, child)]))

\* ec_node_subset_set_min()
SubsetSetMin(h, n, min) == [h EXCEPT !.nodes[n].min = min]

\* the loop of __ec_node_subset(); a child that ec_node_subset_add() refuses was
\* freed already, and is freed again
AddEach(r, n, kids) ==
  SE!FoldLeft(LAMBDA acc, k : IF acc.ok THEN Try(SubsetAdd(acc.h, n, k), LAMBDA g : Failed(FreeAgain(g, k)), LAMBDA x : x)
                              ELSE Failed(FreeNode(acc.h, k)), r, kids)

\* __ec_node_subset()
SubsetOf(h, kids) ==
  Try(FromType(h, "subset", NoId), LAMBDA g : Failed(FreeNodes(g, kids)), LAMBDA n :
  Try(AddEach(n, n.val, kids), LAMBDA g : Failed(FreeNode(g, n.val)), LAMBDA r : Got(n.val, r.h)))
=============================================================================
