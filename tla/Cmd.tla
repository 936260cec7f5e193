-------------------------------- MODULE Cmd --------------------------------
(***************************************************************************)
(* Command nodes (src/node_cmd.c): the parser of command strings that      *)
(* ec_init() makes once, of a lexer and an expression node, and the        *)
(* grammar that is built of a command string by evaluating what it parsed. *)
(* This composes Expr (the expression node and its grammar), Parse (the    *)
(* engine), ExprEval (the evaluation) and NodeTypes (the nodes built).     *)
(*                                                                         *)
(* Words are made of letters, so that a command string is a sequence of    *)
(* characters.  A second caller of expression nodes, which builds syntax   *)
(* trees of values, has prefix operators too.                              *)
(***************************************************************************)
EXTENDS Expr

CONSTANTS Letters,   \* the characters of words
          Families,  \* what is explored, see MCCmd
          Depth, Pnodes, Conditions  \* as in Parse

VARIABLES family,
          lib,   \* what ec_init() made: the heap, the expression and the parser
          heap,  \* the heap of the caller
          refs,  \* the references the caller owns
          text,  \* the command string, as the pieces the caller put together
          out    \* what the last call gave

vars == <<family, lib, heap, refs, text, out>>

NoResult == [op |-> "none"]
Source == SE!FlattenSeq(text)

-----------------------------------------------------------------------------
\* The library

Re(class, plus) == [first |-> class, rest |-> IF plus THEN class ELSE {}]
WordRe == Re(Letters, TRUE)

ValOp == [role |-> "val", type |-> "re", word |-> WordRe]
StrOp(role, c) == [role |-> role, type |-> "str", word |-> <<c>>]
EmptyOp(role) == [role |-> role, type |-> "empty"]
ParenOp(open, close) == [role |-> "paren", type |-> "str", word |-> <<open>>, close |-> StrOp("paren", close)]

\* ec_node_cmd_build_expr(): the operators, the ones that bind tightest first
CmdOps ==
  <<ValOp, StrOp("bin", "&"), StrOp("bin", ","), StrOp("bin", "|"), EmptyOp("bin"),
    StrOp("post", "+"), StrOp("post", "*"), ParenOp("[", "]"), ParenOp("(", ")")>>

\* the example in ec_node_expr_build(), used by the second caller
CalcOps ==
  <<ValOp, StrOp("bin", "*"), StrOp("bin", "+"), StrOp("pre", "!"), StrOp("post", "^"), ParenOp("(", ")")>>

\* ec_node_cmd_build_parser(): the patterns of the lexer, chars being the ones of
\* operators and parentheses; only spaces are dropped
CmdChars == {"*", "+", "|", ",", "&", "(", ")"}
Lexer(chars) ==
  <<[re |-> WordRe, keep |-> TRUE], [re |-> Re(chars, FALSE), keep |-> TRUE],
    [re |-> Re({"["}, FALSE), keep |-> TRUE], [re |-> Re({"]"}, FALSE), keep |-> TRUE],
    [re |-> Re({" "}, TRUE), keep |-> FALSE]>>

BuildParser(h, expr, chars) ==
  Try(ReLexNode(Clone(h, expr), expr), Failed, LAMBDA lex :
  Try(SE!FoldLeft(LAMBDA acc, p : IF acc.ok THEN ReLexAdd(acc.h, lex.val, p.re, p.keep) ELSE acc, lex, Lexer(chars)),
      LAMBDA g : Failed(FreeNode(g, lex.val)), LAMBDA r : Got(lex.val, r.h)))

NoLib == [up |-> FALSE, h |-> EmptyHeap, expr |-> Null, parser |-> Null]

\* ec_node_cmd_init_func()
InitFunc(h, ops, chars) ==
  Try(NewExpr(h, ops), LAMBDA g : [NoLib EXCEPT !.h = g], LAMBDA e :
  Try(BuildParser(e.h, e.val, chars), LAMBDA g : [NoLib EXCEPT !.h = FreeNode(g, e.val)],
      LAMBDA p : [up |-> TRUE, h |-> p.h, expr |-> e.val, parser |-> p.val]))

\* ec_node_cmd_exit_func()
ExitFunc(l) == [NoLib EXCEPT !.h = FreeNode(FreeNode(l.h, l.expr), l.parser)]

P == INSTANCE Parse WITH nodes <- lib.h.nodes, Families <- {}, Tokens <- {}, input <- <<>>

-----------------------------------------------------------------------------
\* The callbacks of ec_node_cmd_build().  Each takes the heap and gives the
\* result of its operands, which it frees; they are left alone on error.

\* the node that a constructor made of clones of the operands replaces them
Replaces(r, operands) ==
  Try(r, Failed, LAMBDA x : Got(x.val, FreeNodes(x.h, operands)))

\* ec_node_cmd_eval_var(): the node of the caller that has this id, or a string
CmdEvalVar(h, p) ==
  LET i == SE!SelectInSeq(h.ctx, LAMBDA n : h.nodes[n].id = p.vec[1])
  IN  IF Len(p.vec) # 1 THEN Failed(h)
      ELSE IF i # 0 THEN Got(h.ctx[i], Clone(h, h.ctx[i]))
      ELSE StrNode(h, p.vec[1])

\* ec_node_cmd_eval_pre_op(): there is no prefix operator
CmdEvalPreOp(h, v, op) == Failed(h)

\* ec_node_cmd_eval_post_op()
CmdEvalPostOp(h, v, op) ==
  CASE op.vec = <<<<"*">>>> -> Replaces(ManyNode(Clone(h, v), v, 0, 0), <<v>>)
    [] op.vec = <<<<"+">>>> -> Replaces(ManyNode(Clone(h, v), v, 1, 0), <<v>>)
    [] OTHER -> Failed(h)

\* operand b is added to the children of operand a
Extend(h, a, b) ==
  Try(IF h.nodes[a].type = "subset" THEN SubsetAdd(Clone(h, b), a, b) ELSE SeqAdd(Clone(h, b), a, b),
      Failed, LAMBDA r : Got(a, FreeNode(r.h, b)))

\* a new node has both operands as its children
Pair(h, type, a, b) ==
  Replaces(IF type = "subset" THEN SubsetOf(Clones(h, <<a, b>>), <<a, b>>)
           ELSE SeqOf(Clones(h, <<a, b>>), type, <<a, b>>), <<a, b>>)

\* ec_node_subset_set_min() of the result; "&" counts the children
MinSet(r, op) ==
  Try(r, Failed, LAMBDA x :
    Got(x.val, SubsetSetMin(x.h, x.val, IF op = "," THEN 1 ELSE Len(x.h.nodes[x.val].kids))))

\* mutant: a subset is extended whatever its minimum
SubsetLikeAny(node, op) == node.type = "subset"

\* an operand that is already the result of the same operator
SubsetLike(node, op) == node.type = "subset" /\ IF op = "," THEN node.min = 1 ELSE node.min > 1

\* the first of operands a and b that the operator extends gets the other one
Like(node, op) == IF op = "|" THEN node.type = "or" ELSE SubsetLike(node, op)
Combine(h, op, a, b) ==
  IF Like(h.nodes[a], op) THEN Extend(h, a, b)
  ELSE IF Like(h.nodes[b], op) THEN Extend(h, b, a)
  ELSE Pair(h, IF op = "|" THEN "or" ELSE "subset", a, b)

\* ec_node_cmd_eval_bin_op()
CmdEvalBinOp(h, a, op, b) ==
  CASE op.vec = <<>> -> IF h.nodes[a].type = "seq" THEN Extend(h, a, b) ELSE Pair(h, "seq", a, b)
    [] op.vec = <<<<"|">>>> -> Combine(h, "|", b, a)
    [] op.vec = <<<<",">>>> -> MinSet(Combine(h, ",", b, a), ",")
    [] op.vec = <<<<"&">>>> -> MinSet(Combine(h, "&", a, b), "&")
    [] OTHER -> Failed(h)

\* ec_node_cmd_eval_parenthesis()
CmdEvalParenthesis(h, open, close, v) ==
  CASE open.vec = <<<<"[">>>> -> Replaces(OptionNode(Clone(h, v), v), <<v>>)
    [] open.vec = <<<<"(">>>> -> Got(v, h)
    [] OTHER -> Failed(h)

\* ec_node_cmd_eval_free()
CmdEvalFree(h, v) == FreeNode(h, v)

LibRole(n) == RoleOf(lib.h, lib.expr, n)

CmdEval == INSTANCE ExprEval WITH
  EvalVar <- CmdEvalVar, EvalPreOp <- CmdEvalPreOp, EvalPostOp <- CmdEvalPostOp,
  EvalBinOp <- CmdEvalBinOp, EvalParenthesis <- CmdEvalParenthesis, EvalFree <- CmdEvalFree,
  RoleOf <- LibRole

\* Syntax trees, the values of the second caller and of the reference below
Ast(op, args) == [op |-> op, args |-> args]
CalcVar(h, p) == Got(Ast("val", p.vec[1]), h)
CalcUnary(h, v, op) == Got(Ast(op.vec[1][1], <<v>>), h)
CalcBinOp(h, a, op, b) == Got(Ast(op.vec[1][1], <<a, b>>), h)
CalcParenthesis(h, open, close, v) == Got(Ast("(", <<v>>), h)
CalcFree(h, v) == h

CalcEval == INSTANCE ExprEval WITH
  EvalVar <- CalcVar, EvalPreOp <- CalcUnary, EvalPostOp <- CalcUnary, EvalBinOp <- CalcBinOp,
  EvalParenthesis <- CalcParenthesis, EvalFree <- CalcFree, RoleOf <- LibRole

-----------------------------------------------------------------------------
\* The command node

Enough == 1000  \* allocations of a parse, which all succeed here

\* ec_parse() of the string with the library's parser
Parsed(s) == P!ParseStrvec(lib.parser, <<s>>, Enough)
Usable(p) == p.ret # P!Fail /\ p.ret # P!NoMatch

\* ec_node_cmd_build(): what a parsed string evaluates to
CmdBuild(h, p) ==
  IF Usable(p) THEN CmdEval!Eval(h, p.tree.kids[1]) ELSE Failed(h)

CmdSchema == <<Opt("expr", "string"), NodeList>>

\* the label fail of ec_node_cmd_set_config(), then of ec_node_set_config()
CmdRefused(h, c, table) == Failed(CfgFree(FreeNodes(h, table), c))

\* the grammar cmd and the table replace those of node n, then c its configuration
CmdStored(h, n, c, cmd, table) ==
  Ok(CfgFree(FreeNodes([h EXCEPT !.nodes[n].cfg = c, !.nodes[n].kids = <<cmd>>,
                                 !.nodes[n].own = [i \in DOMAIN table |-> <<"table", table[i]>>]],
                       h.nodes[n].kids \o Owned(h.nodes[n])), h.nodes[n].cfg))

\* ec_node_set_config() of a cmd node, with ec_node_cmd_set_config()
CmdSetConfig(h, n, c) ==
  IF ConfigValidate(c, CmdSchema) # "ok" \/ {"expr", "children"} \ Keys(c) # {}
  THEN Failed(CfgFree(h, c))
  ELSE Allocate(h, "table", LAMBDA g : CmdRefused(g, c, <<>>), LAMBDA g :
       Try(CmdBuild([Clones(g, NodesOf(c)) EXCEPT !.ctx = NodesOf(c)], Parsed(Get(c, "expr").val)),
           LAMBDA f : CmdRefused(f, c, NodesOf(c)),
           LAMBDA r : CmdStored(r.h, n, c, r.val, NodesOf(c))))

RECURSIVE FromVargs(_, _, _)

\* ec_node_config_node_list_from_vargs(): the child whose configuration could
\* not be made was freed, and is freed again
FromVargs(h, list, kids) ==
  IF kids = <<>> THEN Got(list, h)
  ELSE Try(ListAdd(ConfigNode(h, Head(kids)), list), LAMBDA g : Failed(CfgFree(FreeNodes(FreeAgain(g, Head(kids)), Tail(kids)), list)),
           LAMBDA l : FromVargs(l.h, l.val, Tail(kids)))

\* the label fail of __ec_node_cmd()
CmdUnwind(h, n, children, config) == Failed(CfgFree(CfgFree(FreeNode(h, n), children), config))

\* __ec_node_cmd(): the children are consumed
CmdNode(h, s, kids) ==
  Try(NewCfg(h, EmptyList), LAMBDA g : Failed(FreeNodes(g, kids)), LAMBDA e :
  Try(FromVargs(e.h, e.val, kids), Failed, LAMBDA l :
  Try(FromType(l.h, "cmd", NoId), LAMBDA g : Failed(CfgFree(g, l.val)), LAMBDA n :
  Try(NewCfg(n.h, EmptyDict), LAMBDA g : CmdUnwind(g, n.val, l.val, NullCfg), LAMBDA d :
  Try(DictSet(NewCfg(d.h, Cfg("string", s)), d.val, "expr"), LAMBDA g : CmdUnwind(g, n.val, l.val, d.val), LAMBDA t :
  Try(DictSet(Got(l.val, t.h), t.val, "children"), LAMBDA g : CmdUnwind(g, n.val, NullCfg, t.val), LAMBDA u :
  Try(CmdSetConfig(u.h, n.val, u.val), LAMBDA g : CmdUnwind(g, n.val, NullCfg, NullCfg), LAMBDA r :
    Got(n.val, r.h))))))))

-----------------------------------------------------------------------------
Init ==
  /\ family \in Families
  /\ lib = NoLib
  /\ heap = EmptyHeap
  /\ refs = <<>>
  /\ text = <<>>
  /\ out = NoResult

\* ec_init(), with an allocation that may fail
Start(mem) ==
  /\ ~lib.up /\ out = NoResult
  /\ lib' = InitFunc(WithBudget(EmptyHeap, mem, family.initSites), family.ops, family.opChars)
  /\ out' = [op |-> "init"]
  /\ UNCHANGED <<family, heap, refs, text>>

\* ec_exit()
Stop ==
  /\ lib.up /\ text = <<>> /\ out.op = "init"
  /\ lib' = ExitFunc(lib)
  /\ out' = [op |-> "exit"]
  /\ UNCHANGED <<family, heap, refs, text>>

\* the caller extends its command string
AddPiece(s) ==
  /\ lib.up /\ out.op = "init" /\ refs = <<>> /\ Len(text) < family.maxText
  /\ text' = Append(text, s)
  /\ UNCHANGED <<family, lib, heap, refs, out>>

\* the caller makes the nodes that it gives ids to
Create ==
  /\ lib.up /\ out.op = "init" /\ refs = <<>> /\ family.user # <<>>
  /\ heap' = [heap EXCEPT !.nodes = family.user]
  /\ refs' = family.given
  /\ UNCHANGED <<family, lib, text, out>>

\* the caller makes a command node; it keeps references to the nodes it gives
NewCmd(mem) ==
  /\ family.client = "cmd" /\ out.op = "init" /\ text # <<>> /\ refs = family.given
  /\ \E r \in {CmdNode(WithBudget(Clones(heap, refs), mem, family.sites), Source, refs)} :
       /\ heap' = r.h
       /\ refs' = IF r.ok THEN Append(refs, r.val) ELSE refs
       /\ out' = [op |-> "cmd", ok |-> r.ok, node |-> r.val]
  /\ UNCHANGED <<family, lib, text>>

\* the caller releases the command, then its nodes
FreeAll ==
  /\ out.op = "cmd"
  /\ heap' = FreeNodes(heap, SE!Reverse(refs))
  /\ refs' = <<>>
  /\ out' = [op |-> "free"]
  /\ UNCHANGED <<family, lib, text>>

\* the second caller evaluates a string
CalcResult(p) == IF Usable(p) THEN CalcEval!Eval(heap, p.tree.kids[1]) ELSE Failed(heap)
Calc ==
  /\ family.client = "calc" /\ out.op = "init" /\ text # <<>>
  /\ \E r \in {CalcResult(Parsed(Source))} :
       heap' = r.h /\ out' = [op |-> "calc", trees |-> IF r.ok THEN {r.val} ELSE {}]
  /\ UNCHANGED <<family, lib, refs, text>>

Next ==
  \/ \E mem \in family.initBudgets : Start(mem)
  \/ Stop
  \/ \E s \in family.pieces : AddPiece(s)
  \/ Create
  \/ \E mem \in family.budgets : NewCmd(mem)
  \/ FreeAll
  \/ Calc

Spec == Init /\ [][Next]_vars

-----------------------------------------------------------------------------
\* What a command string means, whatever the code does: its words, its syntax
\* tree, and the string vectors the tree stands for.

Letter(t, i) == i \in DOMAIN t /\ t[i] \in Letters
Starts(t) == {i \in DOMAIN t : t[i] # " " /\ ~(Letter(t, i) /\ Letter(t, i - 1))}
End(t, i) ==
  CHOOSE j \in i..Len(t) : (\A k \in (i + 1)..j : Letter(t, k)) /\ ~(Letter(t, j) /\ Letter(t, j + 1))
Words(t) ==
  LET s == SelectSeq([i \in DOMAIN t |-> i], LAMBDA i : i \in Starts(t)) IN [k \in DOMAIN s |-> SubSeq(t, s[k], End(t, s[k]))]

\* the operators of a role in the order they were given, "" for the empty one
OpsFor(role) ==
  LET s == SelectSeq(family.ops, LAMBDA op : op.role = role)
  IN  [i \in DOMAIN s |-> IF s[i].type = "empty" THEN "" ELSE s[i].word[1]]
IsWord(w) == w[1] \in Letters
IsOp(w, role) == \E i \in DOMAIN OpsFor(role) : w = <<OpsFor(role)[i]>>

\* a cut is only worth trying outside parentheses and before a term
Opens == {family.ops[i].word : i \in {j \in DOMAIN family.ops : family.ops[j].role = "paren"}}
Closes == {family.ops[i].close.word : i \in {j \in DOMAIN family.ops : family.ops[j].role = "paren"}}
Balanced(t) ==
  Cardinality({i \in DOMAIN t : t[i] \in Opens}) = Cardinality({i \in DOMAIN t : t[i] \in Closes})
StartsTerm(w) == IsWord(w) \/ w \in Opens \/ IsOp(w, "pre")

RECURSIVE Trailing(_), Asts(_, _), Flat(_, _, _), Means(_, _, _), SomeOf(_, _, _, _)

\* the operand of a prefix operator extends as far as it can
Trailing(a) == IsOp(<<a.op>>, "pre") \/ (Len(a.args) = 2 /\ a.op # "val" /\ Trailing(a.args[2]))

\* the syntax trees of the words t (one at most): with k = 0 those of terms, else
\* with the first k binary operators.  Binary operators group to the right.
Asts(t, k) ==
  IF t = <<>> THEN {}
  ELSE IF k = 0 THEN
         {Ast("val", t[1]) : x \in {y \in {1} : Len(t) = 1 /\ IsWord(t[1])}}
         \cup {Ast(t[1][1], <<a>>) : a \in {b \in Asts(Tail(t), Len(OpsFor("bin"))) : IsOp(t[1], "pre")}}
         \cup {Ast(SE!Last(t)[1], <<a>>) :
                 a \in IF IsOp(SE!Last(t), "post") THEN {b \in Asts(SE!Front(t), 0) : ~Trailing(b)} ELSE {}}
         \cup {Ast(t[1][1], <<a>>) :
                 a \in IF \E i \in DOMAIN family.ops : /\ family.ops[i].role = "paren"
                                                      /\ t[1] = family.ops[i].word
                                                      /\ SE!Last(t) = family.ops[i].close.word
                      THEN Asts(SubSeq(t, 2, Len(t) - 1), Len(OpsFor("bin"))) ELSE {}}
  ELSE Asts(t, k - 1) \cup
       LET op == OpsFor("bin")[k]
           width == IF op = "" THEN 0 ELSE 1
           cuts == {i \in 1..(Len(t) - 1 - width) : /\ op # "" => t[i + 1] = <<op>>
                                                   /\ Balanced(SubSeq(t, 1, i))
                                                   /\ StartsTerm(t[i + 1 + width])}
       IN  UNION {{Ast(op, <<a, b>>) :
                     a \in {c \in Asts(SubSeq(t, 1, i), k - 1) : ~Trailing(c)},
                     b \in Asts(SubSeq(t, i + 1 + width, Len(t)), k)} : i \in cuts}

Tree == Asts(Words(Source), Len(OpsFor("bin")))

\* the operands of a chain of op; deep looks into parentheses too
Flat(a, op, deep) ==
  IF a.op = op THEN Flat(a.args[1], op, deep) \o Flat(a.args[2], op, deep)
  ELSE IF deep /\ a.op = "(" /\ Len(Flat(a.args[1], op, deep)) > 1 THEN Flat(a.args[1], op, deep)
  ELSE <<a>>

Split(s) == {<<SubSeq(s, 1, i), SubSeq(s, i + 1, Len(s))>> : i \in 0..Len(s)}

\* at least min of the trees, in any order
SomeOf(as, min, s, deep) ==
  \/ min <= 0 /\ s = <<>>
  \/ \E i \in DOMAIN as, c \in Split(s) :
       Means(as[i], c[1], deep) /\ SomeOf(SE!RemoveAt(as, i), min - 1, c[2], deep)

\* the string vector s belongs to the language of tree a
Means(a, s, deep) ==
  CASE a.op = "val" -> IF \E i \in DOMAIN family.user : family.user[i].id = a.args
                       THEN family.user[CHOOSE i \in DOMAIN family.user : family.user[i].id = a.args].type = "any"
                            /\ Len(s) = 1
                       ELSE s = <<a.args>>
    [] a.op = "(" -> Means(a.args[1], s, deep)
    [] a.op = "[" -> s = <<>> \/ Means(a.args[1], s, deep)
    [] a.op = "*" -> s = <<>> \/ \E c \in Split(s) : c[1] # <<>> /\ Means(a.args[1], c[1], deep) /\ Means(a, c[2], deep)
    [] a.op = "+" -> \/ Means(a.args[1], s, deep)
                     \/ \E c \in Split(s) : c[1] # <<>> /\ Means(a.args[1], c[1], deep) /\ Means(a, c[2], deep)
    [] a.op = "" -> \E c \in Split(s) : Means(a.args[1], c[1], deep) /\ Means(a.args[2], c[2], deep)
    [] a.op = "|" -> Means(a.args[1], s, deep) \/ Means(a.args[2], s, deep)
    [] a.op = "," -> SomeOf(Flat(a, ",", deep), 1, s, deep)
    [] a.op = "&" -> LET as == Flat(a, "&", deep) IN SomeOf(as, Len(as), s, deep)

G == INSTANCE Grammar WITH nodes <- heap.nodes, Families <- {}, Tokens <- {}, input <- <<>>

\* A postfix operator follows another one: merge_results() then meets its
\* assert(false), which is a fault.
TwoPostfix ==
  LET w == Words(Source) IN \E i \in 1..(Len(w) - 1) : IsOp(w[i], "post") /\ IsOp(w[i + 1], "post")

-----------------------------------------------------------------------------
\* Properties

\* A command string is accepted if it has a syntax tree, and the nodes built of
\* it match what the tree means: ec_node_cmd_schema says what "|", ",", "&", "+",
\* "*", "[]" and "()" stand for.  Parentheses around a chain of "," or of "&"
\* may be dissolved in a longer chain, no more.
CmdDenotes ==
  out.op = "cmd" /\ family.budgets = {Enough} /\ ~TwoPostfix =>
    /\ out.ok = (Tree # {})
    /\ out.ok => \A a \in Tree, s \in family.inputs :
         LET built == G!Derives(heap.nodes[out.node].kids[1], s)
         IN  (Means(a, s, FALSE) => built) /\ (built => Means(a, s, TRUE))

\* An expression evaluates to its syntax tree: the operators bind in the order
\* they were given, a prefix operator takes all it can, and each callback gets
\* its operands in their order.
CalcDenotes ==
  out.op = "calc" /\ ~TwoPostfix => out.trees = Tree

\* No node or configuration is leaked or freed twice, in the grammar of commands,
\* which refers to itself, and in the nodes of a command: be the string refused
\* or any one allocation fail, while the grammar is made or in a callback, in the
\* middle of the evaluation.  Apart are the error paths that free again what was
\* freed (FreeAgain), on which it does not hold, and strings with two postfix
\* operators on a term, which stop at an assertion.
CmdExact ==
  /\ out.op \in {"init", "exit"} =>
       lib.h.twice \/ Exact(lib.h, IF lib.up THEN <<lib.expr, lib.parser>> ELSE <<>>, <<>>)
  /\ out.op \in {"cmd", "free"} => heap.twice \/ TwoPostfix \/ Exact(heap, refs, <<>>)
=============================================================================
