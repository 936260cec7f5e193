------------------------------ MODULE CondEval ------------------------------
(***************************************************************************)
(* Evaluation of a condition (eval_condition() in node_cond.c) on a parse  *)
(* tree, which may be under construction.                                  *)
(*                                                                         *)
(* The condition is itself a parse tree, of the grammar that Cond builds:  *)
(* its pnodes are [id, vec, kids].  A pnode of the tree it looks at is     *)
(* named by its path from the root.  An evaluation carries e: mem counts   *)
(* down the allocations, live are the results in use, and freeing one that *)
(* is not is a fault.                                                      *)
(***************************************************************************)
EXTENDS Loops, Sequences, FiniteSets, TLC

CONSTANTS IdOf(_),    \* ec_node_id() of a node
          Pnodes,     \* the pnodes of the tree
          Conditions  \* those of the condition

LOCAL INSTANCE SequencesExt

Int64Max == 3  \* INT64_MAX, scaled down

-----------------------------------------------------------------------------
\* Searches: ec_pnode_find(), ec_pnode_find_next()

At(tree, path) == FoldLeft(LAMBDA p, i : p.kids[i], tree, path)

\* the paths from a pnode, itself included, to those below it
Paths[p \in Pnodes, path \in Seq(Nat)] ==
  {path} \cup UNION {Paths[p.kids[i], Append(path, i)] : i \in DOMAIN p.kids}

\* the pnodes of a condition, in the order of ec_pnode_iter_next(), and those that
\* have that id
Preorder[p \in Conditions] ==
  Loop([i \in DOMAIN p.kids |-> [list \in Seq(Conditions) |-> list \o Preorder[p.kids[i]]]], <<p>>, Len(p.kids))
Find(p, id) == SelectSeq(Preorder[p], LAMBDA q : q.id = id)

\* mutant: the arguments of arguments are found too
ArgsNested(p) == Find(p, <<"id_arg">>)

\* the pnodes that have the id of an argument, without looking below them
ArgsBelow[p \in Conditions] ==
  IF p.id = <<"id_arg">> THEN <<p>>
  ELSE Loop([i \in DOMAIN p.kids |-> [list \in Seq(Conditions) |-> list \o ArgsBelow[p.kids[i]]]], <<>>, Len(p.kids))
Args(p) == ArgsBelow[p]

-----------------------------------------------------------------------------
\* Results

NewEval(mem) == [mem |-> mem, live |-> {}, next |-> 1, fault |-> FALSE]
Spent(e) == [e EXCEPT !.mem = @ - 1]

\* cond_result_free(), cond_result_table_free()
FreeResult(e, r) == [e EXCEPT !.live = @ \ {r.rid}, !.fault = @ \/ r.rid \notin e.live]
FreeTable(e, in) == FoldLeft(FreeResult, e, in)

Gives(e, r) == [ok |-> TRUE, res |-> r, e |-> e]
Refuses(e) == [ok |-> FALSE, res |-> [type |-> "none"], e |-> e]

\* a function that refuses its arguments frees them
Refused(e, in) == Refuses(FreeTable(e, in))

\* ... and one that makes a new result too
Made(e, in, type, val) ==
  IF e.mem = 0 THEN Refused(Spent(e), in)
  ELSE Gives(FreeTable([Spent(e) EXCEPT !.live = @ \cup {e.next}, !.next = @ + 1], in),
             [type |-> type, val |-> val, rid |-> e.next])

\* mutant: the argument that becomes the result is freed with the others
KeptFreed(e, in, i) == Gives(FreeTable(e, in), in[i])

\* ... and one that gives its argument i
Kept(e, in, i) == Gives(FreeTable(e, RemoveAt(in, i)), in[i])

BooleanValue(r) ==
  CASE r.type = "nodeset" -> r.val # {}
    [] r.type = "boolean" -> r.val
    [] r.type = "int" -> r.val # 0
    [] r.type = "str" -> r.val # <<>>

\* the first argument that is that boolean, or the last one
FirstIs(in, b) ==
  LET i == SelectInSeq(in, LAMBDA r : BooleanValue(r) = b) IN IF i = 0 THEN Len(in) ELSE i

-----------------------------------------------------------------------------
\* The functions; t is [tree, cur]: the root, and the path of pstate

EvalRoot(e, in, t) == IF in # <<>> THEN Refused(e, in) ELSE Made(e, in, "nodeset", {<<>>})
EvalCurrent(e, in, t) == IF in # <<>> THEN Refused(e, in) ELSE Made(e, in, "nodeset", {t.cur})
EvalBool(e, in, t) == IF Len(in) # 1 THEN Refused(e, in) ELSE Made(e, in, "boolean", BooleanValue(in[1]))
EvalOr(e, in, t) == IF Len(in) < 2 THEN Refused(e, in) ELSE Kept(e, in, FirstIs(in, TRUE))
EvalAnd(e, in, t) == IF Len(in) < 2 THEN Refused(e, in) ELSE Kept(e, in, FirstIs(in, FALSE))

EvalFirstChild(e, in, t) ==
  IF Len(in) # 1 \/ in[1].type # "nodeset" THEN Refused(e, in)
  ELSE Made(e, in, "nodeset", {Append(p, 1) : p \in {q \in in[1].val : At(t.tree, q).kids # <<>>}})

EvalFind(e, in, t) ==
  IF Len(in) # 2 \/ in[1].type # "nodeset" \/ in[2].type # "str" THEN Refused(e, in)
  ELSE Made(e, in, "nodeset",
            {q \in UNION {Paths[At(t.tree, p), p] : p \in in[1].val} : IdOf(At(t.tree, q).node) = in[2].val})

EvalCount(e, in, t) ==
  IF Len(in) # 1 \/ in[1].type # "nodeset" THEN Refused(e, in)
  ELSE Made(e, in, "int", Cardinality(in[1].val))

\* The values of a nodeset are NULL, so that ec_htable_get() finds none in it:
\* two nodesets compare equal if both are empty.
Equal(x, y) == IF x.type = "nodeset" THEN x.val = {} /\ y.val = {} ELSE x.val = y.val

Compare(op, x, y) ==
  CASE op = "eq" -> Equal(x, y)
    [] op = "ne" -> ~Equal(x, y)
    [] op = "lt" -> ~(x.val > y.val) /\ ~Equal(x, y)
    [] op = "gt" -> x.val > y.val /\ ~Equal(x, y)
    [] op = "le" -> ~(x.val > y.val) \/ Equal(x, y)
    [] op = "ge" -> x.val > y.val \/ Equal(x, y)

EvalCmp(e, in, t) ==
  IF Len(in) # 3 THEN Refused(e, in)
  ELSE IF in[1].type # "str" \/ in[2].type # in[3].type THEN Refused(e, in)
  ELSE IF in[1].val \notin {<<op>> : op \in {"eq", "ne", "gt", "lt", "ge", "le"}} THEN Refused(e, in)
  ELSE IF in[1].val \notin {<<"eq">>, <<"ne">>} /\ in[2].type # "int" THEN Refused(e, in)
  ELSE Made(e, in, "boolean", Compare(in[1].val[1], in[2], in[3]))

\* eval_func(): the functions of ec_node_cond_init_func()
EvalFunc(e, name, in, t) ==
  CASE name = <<"root">> -> EvalRoot(e, in, t)
    [] name = <<"current">> -> EvalCurrent(e, in, t)
    [] name = <<"bool">> -> EvalBool(e, in, t)
    [] name = <<"or">> -> EvalOr(e, in, t)
    [] name = <<"and">> -> EvalAnd(e, in, t)
    [] name = <<"first_child">> -> EvalFirstChild(e, in, t)
    [] name = <<"find">> -> EvalFind(e, in, t)
    [] name = <<"cmp">> -> EvalCmp(e, in, t)
    [] name = <<"count">> -> EvalCount(e, in, t)
    [] OTHER -> Refused(e, in)

-----------------------------------------------------------------------------
\* ec_str_parse_llint() of a word of digits: no number if it is too large
IntOf(word) == {n \in 0..Int64Max : word = <<ToString(n)>>}

\* the child of a function that has that id
Child(f, id) == f.kids[SelectInSeq(f.kids, LAMBDA k : k.id = id)]

EvalInt(e, word) ==
  CASE e.mem = 0 -> Refuses(Spent(e))
    [] e.mem # 0 /\ IntOf(word) = {} -> Refuses(Spent(e))
    [] OTHER -> Made(e, <<>>, "int", CHOOSE n \in IntOf(word) : TRUE)

\* the loop of eval_condition() over its arguments: results and in are those of
\* the ones evaluated, by Eval; then the call
EvalArg(Eval, r, arg, t) ==
  IF ~r.ok THEN r
  ELSE IF r.e.mem = 0 THEN [r EXCEPT !.ok = FALSE, !.e = Spent(@)]
  ELSE LET x == Eval[Spent(r.e), arg, t]
       IN  [ok |-> x.ok, e |-> x.e, in |-> IF x.ok THEN Append(r.in, x.res) ELSE r.in]
EvalArgs(Eval, e, args, name, t) ==
  LET r == FoldLeft(LAMBDA acc, arg : EvalArg(Eval, acc, arg, t), [ok |-> TRUE, e |-> e, in |-> <<>>], args)
  IN  IF r.ok THEN EvalFunc(r.e, name, r.in, t) ELSE Refused(r.e, r.in)

\* eval_condition()
Views == [tree : Pnodes, cur : Seq(Nat)]
Evals == [mem : Int, live : SUBSET Nat, next : Nat, fault : BOOLEAN]
EvalCondition[e \in Evals, c \in Conditions, t \in Views] ==
  CASE Find(c, <<"id_function">>) # <<>> ->
         LET f == Find(c, <<"id_function">>)[1]
         IN  EvalArgs(EvalCondition, e, Args(Child(f, <<"id_arg_list">>)), Child(f, <<"id_function_name">>).vec[1], t)
    [] Find(c, <<"id_value_str">>) # <<>> -> Made(e, <<>>, "str", Find(c, <<"id_value_str">>)[1].vec[1])
    [] Find(c, <<"id_value_int">>) # <<>> -> EvalInt(e, Find(c, <<"id_value_int">>)[1].vec[1])
    [] OTHER -> Refuses(e)

\* validate_condition(): -1, 0 or 1, and the evaluation at its end
Validated(r) ==
  IF ~r.ok THEN [ret |-> -1, e |-> r.e]
  ELSE [ret |-> IF BooleanValue(r.res) THEN 1 ELSE 0, e |-> FreeResult(r.e, r.res)]
ValidateCondition(c, t, mem) == Validated(EvalCondition[NewEval(mem), c, t])
=============================================================================
