-------------------------------- MODULE Expr --------------------------------
(***************************************************************************)
(* Expression nodes (src/node_expr.c): the operators a caller gives to the *)
(* node, and the grammar that ec_node_expr_build() makes of them, again    *)
(* after each.  The evaluation of a parsed expression is in ExprEval.      *)
(***************************************************************************)
EXTENDS NodeTypes

\* the nodes given to expression node e in a role, in order
OpsOf(h, e, role) ==
  LET s == SelectSeq(h.nodes[e].own, LAMBDA o : o[1] = role)
  IN  [i \in DOMAIN s |-> s[i][2]]

\* get_node_type(): the first of these roles that node n has
Roles == <<"val", "bin", "pre", "post", "open", "close">>
RoleOf(h, e, n) ==
  LET i == SE!SelectInSeq(Roles, LAMBDA r : n \in SE!ToSet(OpsOf(h, e, r)))
  IN  IF i = 0 THEN "none" ELSE Roles[i]

\* Local variables of ec_node_expr_build(), with the heap.  Once a call failed,
\* ok is FALSE and the next ones are not made.
Locals(h) == [h |-> h, ok |-> TRUE, ref |-> Null, pre |-> Null, postop |-> Null,
              post |-> Null, term |-> Null]

\* variable x gets the node that a constructor returned
Assign(b, x, r) == [b EXCEPT ![x] = r.val, !.h = r.h, !.ok = r.ok]
New(b, x, type) == IF b.ok THEN Assign(b, x, FromType(b.h, type, NoId)) ELSE b

Done(b, r) == [b EXCEPT !.h = r.h, !.ok = r.ok]

\* ec_node_or_add() or ec_node_seq_add() of the node that r returned, if any
AddTo(b, x, r) == Done(b, SeqAdd(r.h, b[x], r.val))
AddClone(b, x, n) == IF b.ok THEN AddTo(b, x, Got(n, Clone(b.h, n))) ELSE b

\* the alternatives "pre_op expr" and "( expr )" of post
AddSeq(b, kids) == IF b.ok THEN AddTo(b, "post", SeqOf(Clones(b.h, kids), "seq", kids)) ELSE b

\* first rest*, where the call r returned rest
FirstThen(first, many) == SeqOf(many.h, "seq", <<first, many.val>>)
FirstMany(first, r) == FirstThen(first, ManyNode(r.h, r.val, 0, 0))

\* term = post post_op*
Term(b) ==
  IF b.ok
  THEN Assign(b, "term", FirstMany(b.post, Got(b.postop, Clones(b.h, <<b.post, b.postop>>))))
  ELSE b

\* next replaces term
Replace(b, next) == Assign(b, "term", [next EXCEPT !.h = FreeNode(@, b.term)])

\* mutant: an operator binds as tight as the ones before it
NextTermFlat(b, op) ==
  IF b.ok
  THEN Replace(b, FirstMany(b.term, SeqOf(Clones(b.h, <<b.term, op, b.post>>), "seq", <<op, b.post>>)))
  ELSE b

\* term = term (op term)*: each binary operator binds less tight than the one
\* before it
NextTerm(b, op) ==
  IF b.ok
  THEN Replace(b, FirstMany(b.term, SeqOf(Clones(b.h, <<b.term, op, b.term>>), "seq", <<op, b.term>>)))
  ELSE b

\* the initial references are freed, then the reference of the grammar to itself
\* is set
Close(b) ==
  IF b.ok
  THEN AddClone([b EXCEPT !.h = FreeNodes(@, <<b.pre, b.postop, b.post>>),
                          !.pre = Null, !.postop = Null, !.post = Null], "ref", b.term)
  ELSE b

\* the label fail
Unwind(b) == FreeNodes(b.h, <<b.term, b.pre, b.postop, b.post, b.ref>>)

\* the steps of ec_node_expr_build(), on the operators of e
PreOps(b, e) ==
  SE!FoldLeft(LAMBDA c, n : AddClone(c, "pre", n), New(New(b, "ref", "seq"), "pre", "or"), OpsOf(b.h, e, "pre"))
PostOps(b, e) ==
  SE!FoldLeft(LAMBDA c, n : AddClone(c, "postop", n), New(b, "postop", "or"), OpsOf(b.h, e, "post"))
Post(b, e) == AddClone(New(b, "post", "or"), "post", OpsOf(b.h, e, "val")[1])
Parentheses(b, e) ==
  LET open == OpsOf(b.h, e, "open")
      close == OpsOf(b.h, e, "close")
  IN  SE!FoldLeft(LAMBDA c, i : AddSeq(c, <<open[i], c.ref, close[i]>>), AddSeq(b, <<b.pre, b.ref>>),
                  [i \in DOMAIN open |-> i])
Terms(b, e) == SE!FoldLeft(NextTerm, Term(b), OpsOf(b.h, e, "bin"))

Built(b, e) ==
  IF b.ok THEN FreeNode([b.h EXCEPT !.nodes[e].kids = <<b.term>>], b.ref) ELSE Unwind(b)

\* ec_node_expr_build()
Build(h, e) ==
  LET ops(role) == OpsOf(h, e, role)
      free == FreeNodes([h EXCEPT !.nodes[e].kids = <<>>], h.nodes[e].kids)
  IN  IF ops("val") = <<>> \/ ops("bin") \o ops("pre") \o ops("post") = <<>> THEN free
      ELSE Built(Close(Terms(Parentheses(Post(PostOps(PreOps(Locals(free), e), e), e), e), e)), e)

\* operators are added to those of e; what ec_node_expr_build() returns is ignored
Own(h, e, own) == Ok(Build([h EXCEPT !.nodes[e].own = @ \o own], e))

\* ec_node_expr_set_val_node()
SetValNode(h, e, v) ==
  IF v = Null THEN Failed(h)
  ELSE Own(FreeNodes([h EXCEPT !.nodes[e].own = SelectSeq(@, LAMBDA o : o[1] # "val")],
                     OpsOf(h, e, "val")), e, <<<<"val", v>>>>)

\* ec_node_expr_add_bin_op(), ec_node_expr_add_pre_op(),
\* ec_node_expr_add_post_op(), ec_node_expr_add_parenthesis(): the operators are
\* consumed
AddOps(h, e, own) ==
  LET ops == [i \in DOMAIN own |-> own[i][2]]
  IN  IF Null \in SE!ToSet(ops) THEN Failed(FreeNodes(h, ops))
      ELSE Allocate(h, "array", LAMBDA g : Failed(FreeNodes(g, ops)), LAMBDA g : Own(g, e, own))

-----------------------------------------------------------------------------
\* ec_node_str(), ec_node_re() or ec_node("empty"), given to the expression next
OpNode(h, op) ==
  CASE op.type = "str" -> StrNode(h, op.word)
    [] op.type = "re" -> ReNode(h, op.word)
    [] op.type = "empty" -> FromType(h, "empty", NoId)

\* one call of the caller on expression e, with what the calls r returned
Both(r, close) == [r EXCEPT !.h = close.h, !.val = <<<<"open", @>>, <<"close", close.val>>>>]
Give(r, e, op) ==
  CASE op.role = "val" -> SetValNode(r.h, e, r.val)
    [] op.role = "paren" -> LET both == Both(r, OpNode(r.h, op.close)) IN AddOps(both.h, e, both.val)
    [] OTHER -> AddOps(r.h, e, <<<<op.role, r.val>>>>)

\* a caller makes an expression of ops, and frees it if a call fails
NewExpr(h, ops) ==
  Try(FromType(h, "expr", NoId), Failed, LAMBDA e :
  Try(SE!FoldLeft(LAMBDA acc, op : IF acc.ok THEN Give(OpNode(acc.h, op), e.val, op) ELSE acc, e, ops),
      LAMBDA g : Failed(FreeNode(g, e.val)), LAMBDA r : Got(e.val, r.h)))
=============================================================================
