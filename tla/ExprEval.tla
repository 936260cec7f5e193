------------------------------ MODULE ExprEval ------------------------------
(***************************************************************************)
(* Evaluation of a parsed expression (eval_expression() in node_expr.c).   *)
(*                                                                         *)
(* The constants are the callbacks of the caller.  Each takes the state h  *)
(* of the caller first, and gives [ok, val, h]; on error the operands are  *)
(* still owned by the evaluation.  p is a pnode, with the fields node and  *)
(* kids.                                                                   *)
(***************************************************************************)
EXTENDS Integers, Sequences

CONSTANTS EvalVar(_, _), EvalPreOp(_, _, _), EvalPostOp(_, _, _), EvalBinOp(_, _, _, _),
          EvalParenthesis(_, _, _, _), EvalFree(_, _),
          RoleOf(_)  \* get_node_type() of a node

LOCAL INSTANCE SequencesExt

\* a struct result: a value and an operator, each or none
Nothing == [vals |-> <<>>, op |-> <<>>, type |-> "none"]
Value(v) == [Nothing EXCEPT !.vals = <<v>>]
Operator(p, role) == [Nothing EXCEPT !.op = <<p>>, !.type = role]

HasVal(x) == x.vals # <<>>
HasOp(x) == x.op # <<>>
Val(x) == x.vals[1]
Op(x) == x.op[1]

Done(x, h) == [ok |-> TRUE, res |-> x, h |-> h]

\* what a callback gave becomes the value of x
Called(x, r) == [ok |-> r.ok, res |-> IF r.ok THEN [x EXCEPT !.vals = <<r.val>>] ELSE x, h |-> r.h]

\* a binary operator with its right operand, y, is applied to the value of x
BinOp(h, x, y) == Called(x, EvalBinOp(h, Val(x), Op(y), Val(y)))

\* the operator of x is applied to the value of y
PreOp(r, x) == IF r.ok THEN Done(Value(r.val), r.h) ELSE Called(x, r)

\* merge_results(): y is merged into x; the last case is its assert(false)
MergeResults(h, x, y) ==
  CASE ~HasVal(y) /\ ~HasOp(y) -> Done(x, h)
    [] (HasVal(y) \/ HasOp(y)) /\ ~HasVal(x) /\ ~HasOp(x) -> Done(y, h)
    [] HasVal(x) /\ HasVal(y) /\ HasOp(y) /\ y.type = "bin" -> BinOp(h, x, y)
    [] ~HasVal(x) /\ HasOp(x) /\ x.type = "pre" /\ HasVal(y) /\ ~HasOp(y) ->
         PreOp(EvalPreOp(h, Val(y), Op(x)), x)
    [] ~HasVal(x) /\ HasOp(x) /\ x.type = "bin" /\ HasVal(y) /\ ~HasOp(y) ->
         Done([x EXCEPT !.vals = y.vals], h)
    [] HasVal(x) /\ ~HasOp(x) /\ ~HasVal(y) /\ HasOp(y) ->
         Called(x, EvalPostOp(h, Val(x), Op(y)))
    [] OTHER -> [ok |-> FALSE, res |-> x, h |-> [h EXCEPT !.fault = TRUE]]

FreeVal(h, x) == IF HasVal(x) THEN EvalFree(h, Val(x)) ELSE h
Stopped(h) == [ok |-> FALSE, res |-> Nothing, h |-> h]

\* mutant: the value of the child is leaked on error
FailKeeps(h, x, y) == Stopped(FreeVal(h, x))

\* the label fail of eval_expression(): the values of the result and of the child
\* are freed
Fail(h, x, y) == Stopped(FreeVal(FreeVal(h, x), y))

\* the children of p that are parentheses of that role
Parens(p, role) == SelectSeq(p.kids, LAMBDA k : RoleOf(k.node) = role)

\* the end of eval_expression(), with what eval_parenthesis() gave
Closed(x, r) == IF r.ok THEN Called(x, r) ELSE Fail(r.h, x, Nothing)
CloseParens(h, x, p) ==
  IF Parens(p, "open") = <<>> \/ Parens(p, "close") = <<>> THEN Done(x, h)
  ELSE Closed(x, EvalParenthesis(h, Last(Parens(p, "open")), Last(Parens(p, "close")), Val(x)))

RECURSIVE EvalExpression(_, _), EvalChildren(_, _, _, _), EvalNext(_, _, _, _)

\* the loop of eval_expression(), from the first of kids on
EvalChildren(h, x, p, kids) ==
  IF kids = <<>> THEN CloseParens(h, x, p)
  ELSE IF RoleOf(Head(kids).node) \in {"open", "close"} THEN EvalChildren(h, x, p, Tail(kids))
  ELSE EvalNext(EvalExpression(h, Head(kids)), x, p, Tail(kids))

\* ... once the first of them evaluated to c
Merged(m, x, y, p, kids) == IF m.ok THEN EvalChildren(m.h, m.res, p, kids) ELSE Fail(m.h, x, y)
EvalNext(c, x, p, kids) ==
  IF c.ok THEN Merged(MergeResults(c.h, x, c.res), x, c.res, p, kids) ELSE Fail(c.h, x, Nothing)

EvalValue(v, p) == IF v.ok THEN EvalChildren(v.h, Value(v.val), p, p.kids) ELSE Stopped(v.h)

EvalExpression(h, p) ==
  CASE RoleOf(p.node) = "val" -> EvalValue(EvalVar(h, p), p)
    [] RoleOf(p.node) \in {"pre", "post", "bin"} ->
         EvalChildren(h, Operator(p, RoleOf(p.node)), p, p.kids)
    [] OTHER -> EvalChildren(h, Nothing, p, p.kids)

\* ec_node_expr_eval() of a tree that matches, with its last two assertions
Evaluated(r) ==
  IF r.ok /\ HasVal(r.res) /\ ~HasOp(r.res) THEN [ok |-> TRUE, val |-> Val(r.res), h |-> r.h]
  ELSE [ok |-> FALSE, val |-> 0, h |-> [r.h EXCEPT !.fault = @ \/ r.ok]]
Eval(h, p) == Evaluated(EvalExpression(h, p))
=============================================================================
