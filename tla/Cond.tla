-------------------------------- MODULE Cond --------------------------------
(***************************************************************************)
(* Conditional nodes (src/node_cond.c): the parser of conditions that      *)
(* ec_init() makes once, whose grammar refers to itself, the configuration *)
(* of a node with a condition that it parses, and the parsing of an input  *)
(* under that condition.  This composes NodeTypes (construction), Parse    *)
(* (the engine, for conditions and for inputs) and CondEval (through       *)
(* Parse).                                                                 *)
(*                                                                         *)
(* A condition is a sequence of characters.  Names and digits are          *)
(* "characters" too, such as "root" or "2": what is left of an identifier  *)
(* is how it ends, and that two of them next to each other are one.        *)
(***************************************************************************)
EXTENDS NodeTypes, TLC

CONSTANTS Names,    \* what identifiers are made of
          Digits,   \* what numbers are made of
          Families, \* what is explored, see MCCond
          Depth, Pnodes, Conditions  \* as in Parse

VARIABLES family,
          lib,    \* what ec_init() made: the heap and the parser
          heap,   \* the heap of the caller
          refs,   \* the reference the caller owns, if any
          text,   \* the condition of its node
          input,  \* the string vector it parses
          out     \* what the last call gave

vars == <<family, lib, heap, refs, text, input, out>>

NoResult == [op |-> "none"]
Enough == 1000  \* allocations that all succeed

-----------------------------------------------------------------------------
\* The library

IdentRe == [first |-> Names, rest |-> Names \cup Digits]
IntRe == [first |-> Digits, rest |-> Digits]
CharRe(c) == [first |-> {c}, rest |-> {}]

\* the id given to a constructor
Named(r, id) == Try(r, Failed, LAMBDA n : Got(n.val, [n.h EXCEPT !.nodes[n.val].id = <<id>>]))

\* ec_node_any() with an attribute: the lexer gave it to the tokens of one
\* pattern, so this is a node that matches that pattern
AnyNode(h, re) == ReNode(h, re)

\* an argument of a constructor, NULL if its own constructor failed
Arg(r, F(_, _)) == F(r.h, r.val)

\* EC_NODE_SEQ(expr, many(EC_NODE_SEQ(",", expr)))
ArgList(h, expr) ==
  Arg(StrNode(h, <<",">>), LAMBDA a, comma :
  Arg(SeqOf(Clone(a, expr), "seq", <<comma, expr>>), LAMBDA b, more :
  Arg(ManyNode(b, more, 0, 0), LAMBDA c, many :
    SeqOf(Clone(c, expr), "seq", <<expr, many>>))))

Function(h, expr) ==
  Arg(Named(AnyNode(h, IdentRe), "id_function_name"), LAMBDA a, name :
  Arg(AnyNode(a, CharRe("(")), LAMBDA b, open :
  Arg(ArgList(b, expr), LAMBDA c, args :
  Arg(Named(OptionNode(c, args), "id_arg_list"), LAMBDA d, list :
  Arg(AnyNode(d, CharRe(")")), LAMBDA e, close :
    Named(SeqOf(e, "seq", <<name, open, list, close>>), "id_function"))))))

\* ec_node_or_add() of what the call r made
OrAdd(r, expr) == SeqAdd(r.h, expr, r.val)
Alternatives(h, expr) ==
  Try(OrAdd(Function(h, expr), expr), Failed, LAMBDA f :
  Try(OrAdd(Named(AnyNode(f.h, IdentRe), "id_value_str"), expr), Failed, LAMBDA s :
    OrAdd(Named(AnyNode(s.h, IntRe), "id_value_int"), expr)))

Lexer ==
  <<[re |-> IdentRe, keep |-> TRUE], [re |-> IntRe, keep |-> TRUE], [re |-> CharRe("("), keep |-> TRUE],
    [re |-> CharRe(")"), keep |-> TRUE], [re |-> CharRe(","), keep |-> TRUE], [re |-> CharRe(" "), keep |-> FALSE]>>

\* the patterns are added to the lexer, which is freed on error
WithPatterns(h, lex) ==
  Try(SE!FoldLeft(LAMBDA acc, p : IF acc.ok THEN ReLexAdd(acc.h, lex, p.re, p.keep) ELSE acc, Ok(h), Lexer),
      LAMBDA g : Failed(FreeNode(g, lex)), LAMBDA r : Got(lex, r.h))

\* mutant: the reference to the expression is kept
LexOfKeeps(h, expr) ==
  Try(ReLexNode(Clone(h, expr), expr), LAMBDA g : Failed(FreeNode(g, expr)), LAMBDA lex :
    WithPatterns(lex.h, lex.val))

\* the lexer in front of the expression, of which it holds the only reference
LexOf(h, expr) ==
  Try(ReLexNode(Clone(h, expr), expr), LAMBDA g : Failed(FreeNode(g, expr)), LAMBDA lex :
    WithPatterns(FreeNode(lex.h, expr), lex.val))

\* ec_node_cond_build_parser()
BuildParser(h) ==
  Try(FromType(h, "or", <<"id_arg">>), Failed, LAMBDA expr :
  Try(Alternatives(expr.h, expr.val), LAMBDA g : Failed(FreeNode(g, expr.val)), LAMBDA r :
    LexOf(r.h, expr.val)))

NoLib == [up |-> FALSE, h |-> EmptyHeap, parser |-> Null]

\* ec_node_cond_init_func(), with the dictionary of functions
InitFunc(h) ==
  Try(BuildParser(h), LAMBDA g : [NoLib EXCEPT !.h = g], LAMBDA p :
    Allocate(p.h, "array", LAMBDA g : [NoLib EXCEPT !.h = FreeNode(g, p.val)],
             LAMBDA g : [up |-> TRUE, h |-> g, parser |-> p.val]))

\* ec_node_cond_exit_func()
ExitFunc(l) == [NoLib EXCEPT !.h = FreeNode(l.h, l.parser)]

-----------------------------------------------------------------------------
\* The node

L == INSTANCE Parse WITH nodes <- lib.h.nodes, Families <- {}, Tokens <- {}, input <- <<>>
P == INSTANCE Parse WITH nodes <- heap.nodes, Families <- {}, Tokens <- {}, input <- <<>>

\* the parse tree of a condition, as CondEval looks at it
RECURSIVE CondTree(_)
CondTree(p) ==
  [id |-> lib.h.nodes[p.node].id, vec |-> p.vec, kids |-> [i \in DOMAIN p.kids |-> CondTree(p.kids[i])]]

\* ec_node_cond_build(): the tree of a condition that the parser p accepts
CondBuild(p) == IF p.ret = L!Fail \/ p.ret = L!NoMatch THEN Failed(EmptyHeap) ELSE Got(CondTree(p.tree), EmptyHeap)

CondSchema == <<Opt("expr", "string"), Opt("child", "node")>>

\* the child and the condition replace those of node n, then c its configuration
CondStored(h, n, c, tree) == [Apply(Clones(h, NodesOf(c)), n, c, NodesOf(c)) EXCEPT !.nodes[n].word = tree]

\* ec_node_set_config() of a cond node, with ec_node_cond_set_config()
CondSetConfig(h, n, c) ==
  IF ConfigValidate(c, CondSchema) # "ok" \/ {"expr", "child"} \ Keys(c) # {} THEN Failed(CfgFree(h, c))
  ELSE Allocate(h, "table", LAMBDA g : Failed(CfgFree(g, c)), LAMBDA g :
       Try(CondBuild(L!ParseStrvec(lib.parser, <<Get(c, "expr").val>>, Enough)), LAMBDA f : Failed(CfgFree(g, c)),
           LAMBDA b : Ok(CondStored(g, n, c, b.val))))

CondConfig(h, t, child) ==
  Try(OneKey(h, "expr", LAMBDA g : NewCfg(g, Cfg("string", t))), LAMBDA g : Failed(FreeNode(g, child)), LAMBDA d :
    Entry(ConfigNode(d.h, child), d.val, "child"))

\* ec_node_cond(): the child is consumed
CondNode(h, t, child) ==
  Try(FromType(h, "cond", NoId), LAMBDA g : Failed(FreeNode(g, child)), LAMBDA n :
  Try(CondConfig(n.h, t, child), LAMBDA g : Failed(FreeNode(g, n.val)), LAMBDA c :
  Try(CondSetConfig(c.h, n.val, c.val), LAMBDA g : Failed(FreeNode(g, n.val)), LAMBDA r : Got(n.val, r.h))))

-----------------------------------------------------------------------------
Init ==
  /\ family \in Families
  /\ lib = NoLib
  /\ heap = family.user.h
  /\ refs = <<family.user.val>>
  /\ text = <<>> /\ input = <<>>
  /\ out = NoResult

\* ec_init(), with an allocation that may fail
Start(mem) ==
  /\ ~lib.up /\ out = NoResult
  /\ lib' = InitFunc(WithBudget(EmptyHeap, mem, Sites))
  /\ out' = [op |-> "init"]
  /\ UNCHANGED <<family, heap, refs, text, input>>

\* ec_exit()
Stop ==
  /\ lib.up /\ out.op = "init"
  /\ lib' = ExitFunc(lib)
  /\ out' = [op |-> "exit"]
  /\ UNCHANGED <<family, heap, refs, text, input>>

\* the caller puts its last node under the condition t
NewCond(t, mem) ==
  /\ lib.up /\ out.op = "init"
  /\ \E r \in {CondNode(WithBudget(heap, mem, family.sites), t, refs[1])} :
       /\ heap' = r.h
       /\ refs' = IF r.ok THEN <<r.val>> ELSE <<>>
       /\ out' = [op |-> "cond", ok |-> r.ok]
  /\ text' = t
  /\ UNCHANGED <<family, lib, input>>

\* it configures the node with another one; the former stays on error
Reconfigure(t, mem) ==
  /\ out.op = "cond" /\ out.ok
  /\ \E r \in {Try(CopyConfig(WithBudget(heap, mem, family.sites), refs[1]), Failed, LAMBDA c :
               Try(Entry(NewCfg(c.h, Cfg("string", t)), c.val, "expr"), Failed, LAMBDA d :
                 CondSetConfig(d.h, refs[1], d.val)))} :
       /\ heap' = r.h
       /\ text' = IF r.ok THEN t ELSE text
  /\ out' = [op |-> "set"]
  /\ UNCHANGED <<family, lib, refs, input>>

\* it repeats the node, or puts it after another one of its own
Wrap(type) ==
  /\ out.op = "cond" /\ out.ok
  /\ \E r \in {IF type = "many" THEN ManyNode(heap, refs[1], 0, 0)
               ELSE SeqOf(Clone(heap, 1), "seq", <<1, refs[1]>>)} :
       heap' = r.h /\ refs' = <<r.val>>
  /\ out' = [op |-> "wrap"]
  /\ UNCHANGED <<family, lib, text, input>>

\* the caller parses a vector
DoParse(v, mem) ==
  /\ out.op \in {"cond", "set", "wrap"} /\ refs # <<>>
  /\ input' = v
  /\ out' = P!ParseStrvec(refs[1], v, mem)
  /\ UNCHANGED <<family, lib, heap, refs, text>>

FreeAll ==
  /\ out.op \in {"cond", "set", "wrap"} /\ refs # <<>>
  /\ heap' = FreeNodes(heap, refs)
  /\ refs' = <<>>
  /\ out' = [op |-> "free"]
  /\ UNCHANGED <<family, lib, text, input>>

Next ==
  \/ \E mem \in family.initBudgets : Start(mem)
  \/ Stop
  \/ \E t \in family.texts, mem \in family.budgets : NewCond(t, mem)
  \/ \E t \in family.others, mem \in family.budgets : Reconfigure(t, mem)
  \/ \E type \in family.wraps : Wrap(type)
  \/ \E v \in family.inputs, mem \in family.parseBudgets : DoParse(v, mem)
  \/ FreeAll

Spec == Init /\ [][Next]_vars

-----------------------------------------------------------------------------
\* What a condition means, whatever the code does: its words, its term, and the
\* value of the term on a tree whose pnodes are named by their paths.

IsName(w) == w # <<>> /\ w[1] \in Names /\ \A i \in DOMAIN w : w[i] \in Names \cup Digits
IsInt(w) == w # <<>> /\ \A i \in DOMAIN w : w[i] \in Digits
IsWord(w) == IsName(w) \/ IsInt(w) \/ w \in {<<"(">>, <<")">>, <<",">>}

RECURSIVE Words(_), Terms(_), Lists(_), Value(_, _, _), Values(_, _, _), Upto(_, _), Subtree(_, _), PathsOf(_)

Words(t) ==
  IF t = <<>> THEN <<>>
  ELSE IF t[1] = " " THEN Words(Tail(t))
  ELSE LET k == CHOOSE j \in DOMAIN t : IsWord(SubSeq(t, 1, j)) /\ \A i \in (j + 1)..Len(t) : ~IsWord(SubSeq(t, 1, i))
       IN  <<SubSeq(t, 1, k)>> \o Words(SubSeq(t, k + 1, Len(t)))

Balanced(w) == Len(SelectSeq(w, LAMBDA x : x = <<"(">>)) = Len(SelectSeq(w, LAMBDA x : x = <<")">>))

\* the terms the words w stand for (one at most), and the lists of terms
Terms(w) ==
  IF w = <<>> THEN {}
  ELSE IF Len(w) = 1 THEN {[call |-> FALSE, name |-> x, args |-> <<>>] : x \in {y \in {w[1]} : IsName(y) \/ IsInt(y)}}
  ELSE IF IsName(w[1]) /\ w[2] = <<"(">> /\ SE!Last(w) = <<")">> /\ Len(w) > 2
       THEN {[call |-> TRUE, name |-> w[1], args |-> l] :
               l \in IF Len(w) = 3 THEN {<<>>} ELSE Lists(SubSeq(w, 3, Len(w) - 1))}
       ELSE {}
Lists(w) ==
  {<<a>> : a \in Terms(w)} \cup
  UNION {{<<a>> \o l : a \in Terms(SubSeq(w, 1, i - 1)), l \in Lists(SubSeq(w, i + 1, Len(w)))} :
           i \in {j \in DOMAIN w : w[j] = <<",">> /\ Balanced(SubSeq(w, 1, j))}}

Subtree(tree, path) == IF path = <<>> THEN tree ELSE Subtree(tree.kids[path[1]], Tail(path))
PathsOf(tree) == {<<>>} \cup UNION {{<<i>> \o p : p \in PathsOf(tree.kids[i])} : i \in DOMAIN tree.kids}

\* the tree as it was when the pnode at path was parsed
Upto(tree, path) ==
  IF path = <<>> THEN tree
  ELSE [tree EXCEPT !.kids = Append(SubSeq(@, 1, path[1] - 1), Upto(tree.kids[path[1]], Tail(path)))]

Val(type, v) == {[type |-> type, val |-> v]}
True(r) ==
  CASE r.type = "int" -> r.val # 0
    [] r.type = "nodeset" -> r.val # {}
    [] r.type = "boolean" -> r.val
    [] OTHER -> TRUE

\* the first of the arguments a that is true, if b, or false; the last by default
FirstTrue(a, b) ==
  {a[CHOOSE i \in DOMAIN a : /\ True(a[i]) = b \/ i = Len(a)
                             /\ \A j \in 1..(i - 1) : True(a[j]) # b]}

\* two sets of pnodes are equal if they are empty, no more: the code compares
\* NULL values
Same(x, y) == IF x.type = "nodeset" THEN x.val \cup y.val = {} ELSE x.val = y.val

Comparison(op, x, y) ==
  CASE op = "eq" -> Val("boolean", Same(x, y))
    [] op = "ne" -> Val("boolean", ~Same(x, y))
    [] op \in {"lt", "le", "gt", "ge"} /\ x.type = "int" ->
         Val("boolean", \/ x.val = y.val /\ op \in {"le", "ge"}
                        \/ x.val < y.val /\ op \in {"lt", "le"}
                        \/ x.val > y.val /\ op \in {"gt", "ge"})
    [] OTHER -> {}

\* the value of a call of f, none on error
Call(f, a, tree, cur) ==
  LET types == [i \in DOMAIN a |-> a[i].type] IN
  CASE f = "root" /\ a = <<>> -> Val("nodeset", {<<>>})
    [] f = "current" /\ a = <<>> -> Val("nodeset", {cur})
    [] f = "first_child" /\ types = <<"nodeset">> ->
         Val("nodeset", {p \in PathsOf(tree) : \E q \in a[1].val : p = Append(q, 1)})
    [] f = "find" /\ types = <<"nodeset", "str">> ->
         Val("nodeset", {p \in PathsOf(tree) : /\ \E q \in a[1].val : SE!IsPrefix(q, p)
                                               /\ heap.nodes[Subtree(tree, p).node].id = a[2].val})
    [] f = "count" /\ types = <<"nodeset">> -> Val("int", Cardinality(a[1].val))
    [] f = "bool" /\ Len(a) = 1 -> Val("boolean", True(a[1]))
    [] f \in {"or", "and"} /\ Len(a) >= 2 -> FirstTrue(a, f = "or")
    [] f = "cmp" /\ Len(a) = 3 ->
         IF types[1] = "str" /\ types[2] = types[3] /\ Len(a[1].val) = 1 THEN Comparison(a[1].val[1], a[2], a[3]) ELSE {}
    [] OTHER -> {}

Numbers == {n \in 0..L!Eval!Int64Max : ToString(n) \in Digits}

\* the value of a term, and of the terms args: none on error
Value(term, tree, cur) ==
  CASE ~term.call /\ IsName(term.name) -> Val("str", term.name)
    [] ~term.call /\ IsInt(term.name) -> UNION {Val("int", n) : n \in {m \in Numbers : <<ToString(m)>> = term.name}}
    [] OTHER -> IF Len(term.name) # 1 THEN {}
                ELSE UNION {Call(term.name[1], a, tree, cur) : a \in Values(term.args, tree, cur)}
Values(args, tree, cur) ==
  IF args = <<>> THEN {<<>>}
  ELSE {<<v>> \o a : v \in Value(Head(args), tree, cur), a \in Values(Tail(args), tree, cur)}

\* the values of the condition on a tree
Meaning(tree, cur) == UNION {Value(term, tree, cur) : term \in Terms(Words(text))}

-----------------------------------------------------------------------------
\* Properties

Parsed == out.op = "parse" /\ out.ret # P!Fail
Matched == Parsed /\ out.ret # P!NoMatch

\* what a condition node returns when its child returned ret on the same vector
Expected(ret, values) ==
  IF ret <= 0 THEN ret
  ELSE IF values = {} THEN P!Fail
  ELSE IF True(The(values)) THEN ret ELSE P!NoMatch

\* A text is accepted if it is a term, and the node, whatever was refused since,
\* matches what its child matches when the term is true of the tree in which
\* the child was parsed.  The condition is not looked at when the child matches
\* the empty vector.
CondDenotes ==
  /\ out.op = "cond" /\ family.budgets = {Enough} => out.ok = (Terms(Words(text)) # {})
  /\ out.op = "parse" /\ family.parseBudgets = {Enough} /\ heap.nodes[refs[1]].type = "cond" =>
       \E c \in {P!ParseStrvec(heap.nodes[refs[1]].kids[1], input, Enough)} :
         out.ret = Expected(c.ret, Meaning([node |-> refs[1], kids |-> IF c.ret = P!NoMatch THEN <<>> ELSE <<c.tree>>], <<>>))

\* What a condition was true of is in the tree: at each pnode of the node in the
\* tree of a match, the condition holds of the tree up to there, also when the
\* node was tried several times or when an allocation failed.
CondHolds ==
  Matched => \A p \in PathsOf(out.tree) :
    heap.nodes[Subtree(out.tree, p).node].type = "cond" /\ Subtree(out.tree, p).vec # <<>> =>
      \E v \in Meaning(Upto(out.tree, p), p) : True(v)

\* The results of an evaluation are freed once each, whatever it gives, whatever
\* function refuses its arguments and whatever allocation fails.
ResultsFreed == out.op = "parse" => out.faults = {}

\* No node or configuration is leaked or freed twice, in the grammar of
\* conditions, which refers to itself, and in the nodes of the caller: be the
\* condition refused, the first one or another, or any one allocation fail.
\* Apart are the error paths of the constructors that free again what was freed
\* (ec_node_option(), ec_node_or_add()), taken while the grammar is made.
CondExact ==
  /\ lib.h.twice \/ Exact(lib.h, IF lib.up THEN <<lib.parser>> ELSE <<>>, <<>>)
  /\ Exact(heap, refs, <<>>)

\* "If it is false, the node doesn't match anything" (node_cond.h), and a parse
\* returns: when the child does not match either, no pnode is there to unlink.
CondReturns == out.op # "crash"
=============================================================================
