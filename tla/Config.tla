------------------------------- MODULE Config -------------------------------
(***************************************************************************)
(* Configurations and their schemas (src/config.c): validation of a schema,*)
(* validation of a configuration against it, and comparison.               *)
(*                                                                         *)
(* A configuration owns what it holds, so it is a value: a scalar, a       *)
(* reference to a node, a list, or a dictionary in the order of its        *)
(* insertions.  The memory it takes is accounted for in Nodes.             *)
(***************************************************************************)
EXTENDS Integers, Sequences, FiniteSets

SE == INSTANCE SequencesExt

Scalars == {"bool", "int64", "uint64", "string"}

\* a configuration; val is a sequence of configurations for a list, of pairs
\* <<key, configuration>> for a dictionary
Cfg(type, val) == [type |-> type, val |-> val]
NullCfg == Cfg("null", <<>>)
EmptyList == Cfg("list", <<>>)
EmptyDict == Cfg("dict", <<>>)
IsNull(c) == c.type = "null"

\* An element of a schema; sub is {} for a NULL subschema and {s} for s.  A
\* schema is a sequence of elements, its sentinel left out.
NoKey == ""
Elt(key, type, mandatory, sub) ==
  [key |-> key, type |-> type, mandatory |-> mandatory, sub |-> sub]

Reserved(key) == key \in {"id", "attrs", "help", "type"}

\* ec_config_dict_get(), ec_dict_get()
Keys(d) == {d.val[i][1] : i \in DOMAIN d.val}
Get(d, key) ==
  IF key \in Keys(d) THEN (CHOOSE p \in SE!ToSet(d.val) : p[1] = key)[2] ELSE NullCfg

\* what ec_dict_set() and ec_dict_del() do to the entries
Without(d, key) == [d EXCEPT !.val = SelectSeq(@, LAMBDA p : p[1] # key)]
With(d, key, c) == [d EXCEPT !.val = Append(Without(d, key).val, <<key, c>>)]

-----------------------------------------------------------------------------
\* mutant: the elements of a list need no schema
SubschemaOKNoList(e) ==
  CASE e.type = "list" -> TRUE
    [] e.type = "dict" -> e.sub # {} /\ \A s \in e.sub : s # <<>>
    [] OTHER -> e.sub = {}

\* scalars and nodes have no subschema, a list has one element, a dictionary
\* at least one
SubschemaOK(e) ==
  CASE e.type = "list" -> e.sub # {} /\ \A s \in e.sub : Len(s) = 1
    [] e.type = "dict" -> e.sub # {} /\ \A s \in e.sub : s # <<>>
    [] OTHER -> e.sub = {}

RECURSIVE SchemaValidate(_, _), ValidateValue(_, _), ListValidate(_, _), DictValidate(_, _), Cmp(_, _)

\* __ec_config_schema_validate()
SchemaValidate(schema, type) ==
  /\ \/ type = "list" /\ (schema = <<>> \/ schema[1].key = NoKey)
     \/ type = "dict" /\ \A i \in DOMAIN schema : schema[i].key # NoKey
  /\ \A i \in DOMAIN schema :
       /\ ~Reserved(schema[i].key)
       /\ \A j \in (i + 1)..Len(schema) : schema[i].key # schema[j].key
       /\ SubschemaOK(schema[i])
       /\ \A s \in schema[i].sub : SchemaValidate(s, schema[i].type)

\* ec_config_schema_lookup(): the element of that key
Lookup(schema, key) == {e \in SE!ToSet(schema) : e.key = key}

\* the first verdict that is not "ok"
Verdict(s) == LET bad == SelectSeq(s, LAMBDA r : r # "ok")
              IN  IF bad = <<>> THEN "ok" ELSE Head(bad)

The(S) == CHOOSE x \in S : TRUE

\* A value against the element of a schema: its type, then what it contains.
\* "fault" is the use of a NULL subschema.
ValidateValue(c, e) ==
  CASE c.type # e.type -> "bad"
    [] c.type = "list" /\ e.type = "list" -> ListValidate(c, e.sub)
    [] c.type = "dict" /\ e.type = "dict" ->
         IF e.sub = {} THEN "fault" ELSE DictValidate(c, The(e.sub))
    [] OTHER -> "ok"

\* ec_config_list_validate()
ListValidate(list, sub) ==
  Verdict([i \in DOMAIN list.val |->
             CASE sub = {} -> "fault"
               [] sub = {<<>>} -> "bad"
               [] OTHER -> ValidateValue(list.val[i], The(sub)[1])])

\* the loop of ec_config_dict_validate() over the schema: c is the value of the
\* element's key, if any
EltValidate(c, e) ==
  IF IsNull(c) THEN IF e.mandatory THEN "bad" ELSE "ok" ELSE ValidateValue(c, e)

\* its loop over the dictionary: strcmp() of a NULL key is a fault
KnownKey(schema, key) ==
  LET i == SE!SelectInSeq(schema, LAMBDA e : e.key \in {key, NoKey})
  IN  IF i = 0 THEN "bad" ELSE IF schema[i].key = NoKey THEN "fault" ELSE "ok"

\* ec_config_dict_validate()
DictValidate(d, schema) ==
  Verdict([i \in DOMAIN schema |-> EltValidate(Get(d, schema[i].key), schema[i])]
          \o [i \in DOMAIN d.val |-> KnownKey(schema, d.val[i][1])])

\* ec_config_validate()
ConfigValidate(c, schema) ==
  IF c.type # "dict" THEN "bad" ELSE DictValidate(c, schema)

\* mutant: the lengths of the dictionaries are not compared
DictCmpPrefix(c, d) == \A key \in Keys(c) : Cmp(Get(c, key), Get(d, key))

\* ec_config_dict_cmp()
DictCmp(c, d) ==
  /\ Len(c.val) = Len(d.val)
  /\ \A key \in Keys(c) : Cmp(Get(c, key), Get(d, key))

\* ec_config_cmp() = 0
Cmp(c, d) ==
  /\ ~IsNull(c) /\ ~IsNull(d) /\ c.type = d.type
  /\ CASE c.type = "list" -> /\ Len(c.val) = Len(d.val)
                             /\ \A i \in DOMAIN c.val : Cmp(c.val[i], d.val[i])
       [] c.type = "dict" -> DictCmp(c, d)
       [] OTHER -> c.val = d.val

-----------------------------------------------------------------------------
\* What a configuration is made of: the number of objects, and the nodes it
\* references in the order they are released

RECURSIVE Size(_), SizeAll(_), NodesOf(_), NodesOfAll(_)

\* the configurations of a list or of a dictionary
Parts(c) == IF c.type = "list" THEN c.val ELSE [i \in DOMAIN c.val |-> c.val[i][2]]

SizeAll(s) == IF s = <<>> THEN 0 ELSE Size(Head(s)) + SizeAll(Tail(s))
Size(c) ==
  IF IsNull(c) THEN 0 ELSE 1 + IF c.type \in {"list", "dict"} THEN SizeAll(Parts(c)) ELSE 0

NodesOfAll(s) == IF s = <<>> THEN <<>> ELSE NodesOf(Head(s)) \o NodesOfAll(Tail(s))
NodesOf(c) ==
  IF c.type = "node" THEN <<c.val>>
  ELSE IF c.type \in {"list", "dict"} THEN NodesOfAll(Parts(c)) ELSE <<>>
=============================================================================
