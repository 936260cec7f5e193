# A verification project for libecoli

libecoli is a C library for building command line grammars.  A program builds a
graph of *nodes* (str, seq, or, many, ...), the library parses a vector of
strings against it, proposes completions for the last string, and glues this to
a line editor.  The library has no threads and no messages, and the only thing it
writes to disk is the history of the line editor: what is hard in it is the *sharing* of reference-counted objects (nodes, string
vector elements, hash table elements), *error paths* (every allocation may fail
half-way through an operation), *backtracking* (what a failed attempt leaves
behind), *loops* in the node graph, and *character automata* with state carried
from one character to the next.

Paths below are relative to the repository; line numbers are in
`PROJECT.json`.

## 1. Inventory

| Component | Source | State | Operations | Hard behaviour |
|---|---|---|---|---|
| hash table, dictionary | `src/htable.c`, `src/dict.c` | insertion list, array of chains, length, size; counted elements | set, del, dup, free, iterate | replacement before a resize that may fail, elements shared by copies, a copy that fails half-way |
| string vector | `src/strvec.c` | array of pointers to counted elements; an element has a string and an attribute dictionary | add, set, del_last, ndup, set_attrs, sort, free | copy on write of shared elements, ownership of the attributes on error paths |
| shell lexer | `src/strvec.c`, `src/node_sh_lex.c` | state, token buffer and position, quote, word start, trailing-space flag | one pass over a line, two flags | state carried over words, buffer limit, what is open at the end of the line |
| node lifetime | `src/node.c`, `src/node_helper.c`, `free_priv`/`get_child`/`set_config` of each type | `refcnt`, configuration, private table, marks of the loop detection | constructors, clone, add, set_config, free | loops and sharing, nested frees, recursion that must end, error paths that consume arguments |
| configuration | `src/config.c` | typed values, schemas | validate, dup, cmp, set, del, free | recursive ownership, schemas that are accepted but lead to a missing subschema |
| parse engine | `src/parse.c`, `src/node_*.c` | tree of pnodes under construction | parse_strvec, parse_child, one callback per node type | greedy choice, abandoned attempts, an error taken for a mismatch, once counting over the whole tree |
| completion engine | `src/complete.c`, `src/node_*.c` | items, groups, `cur_pstate`, counters | complete_strvec, complete_child, expand, one callback per type | pnodes linked for a prefix and unlinked on all paths, the state copied in a group |
| expression node | `src/node_expr.c` | operators, the grammar made of them (a loop) | set_val_node, add operators, build, eval | binding and order of operands, release of partial results, rebuilds that fail |
| command node | `src/node_cmd.c` | parser made at start-up, built graph, table of nodes | set_config, the evaluation callbacks | a chain is one node that grows, references of partially built graphs |
| conditional node | `src/node_cond.c` | parser made at start-up (a loop), parsed condition | set_config, parse, evaluate | a condition looks at a tree under construction, results consumed on all paths |
| leaves | `node_int.c`, `node_re.c`, `node_re_lex.c`, `node_file.c`, `node_space.c`, `node_dynamic.c`, `node_dynlist.c` | private parameters | parse, complete | integer limits, user callbacks |
| YAML | `src/yaml.c` | table of the nodes made so far, by YAML node | import, export | aliases and loops, refusal in the middle of nested values |
| editor glue | `src/editline.c`, `src/interact.c` | editor handle, history and its file, prompt, variables of the loop | open, close, set_history, set_prompt, set_node, gets, parse, complete, helps, error report, interact | variables reused for each line, callbacks that call the library again, a history that libedit also refers to, crashes |
| generic vector | `src/vec.c` | growing array | add, dup, free | free callback on partial copies |
| utilities | `src/string.c`, `src/log.c`, `src/init.c`, `src/murmurhash.c` | log settings | formatting | none |

How they interact: the editor glue lexes a line (shell lexer) into a string
vector and hands it to the parse or the completion engine; these walk the node
graph and call each type's callbacks, which call the engine back for their
children; a sh_lex node lexes again.  Completion calls the parse engine for the
strings before the cursor.  Pnodes keep partial copies of the string vector
(shared elements); elements, nodes and pnodes keep attributes in a dictionary
(hash table).  Nodes keep configurations, which own references to nodes.  A
command node lexes, parses and evaluates its string with an expression node, a
conditional node parses its condition with a grammar of its own and evaluates it
inside of the parse engine, and the YAML import makes configurations and nodes of
a document.

What makes each component correct: a counter equals the references that exist
and what it counts is freed exactly once; a call that fails leaves its object as
it was; copies are independent; what is parsed is in the language and the tree
says how; completions lead to sentences and none is forgotten; positions point
to where a word is; a text (command, condition, document) stands for the grammar
that its language says, or is refused; a line that was read is not lost.

## 2. Modules

| Module | Models | Composes |
|---|---|---|
| `Htable` | `htable.c`, `dict.c` | `OrderedMap` (abstract specification) |
| `HtableProofs` | theorems about `Htable` | |
| `Strvec` | vectors of `strvec.c` | `VectorValues` (abstract specification) |
| `StrvecProofs` | theorems about `Strvec` | |
| `ShLex` | lexer of `strvec.c`, quoting in `node_sh_lex.c` | |
| `ShLexProofs` | theorems about `ShLex`: positions; lines lexed a second time | `SetInduction` |
| `NodeFree` | reference counts and `ec_node_free()`, step by step | |
| `NodeFreeProofs` | theorems about `NodeFree` | `SetInduction` |
| `Config` | values and schemas of `config.c` | |
| `Nodes` | a heap of nodes and configurations, allocations that fail | `Config` |
| `NodeTypes` | schemas, `set_config()` and constructors of the node types | `Nodes` |
| `Loops` | the loops of the parse engine, as functions | |
| `Grammar` | grammars, inputs, the language they denote | `Loops` |
| `Parse` | `parse.c` and the parse callbacks of 16 node types | `Grammar`, `CondEval` |
| `ParseProofs` | theorems about `Parse` | `SetInduction` |
| `Complete` | `complete.c` and the complete callbacks | `Parse` |
| `CompleteProofs` | theorems about `Complete` | `ParseProofs` |
| `Expr` | the grammar that `node_expr.c` makes of its operators | `NodeTypes` |
| `ExprEval` | evaluation of a parsed expression, for any callbacks | |
| `Cmd` | `node_cmd.c`, and a second caller of expressions | `Expr`, `ExprEval`, `Parse`, `Grammar` |
| `CondEval` | evaluation of a condition on a parse tree | |
| `Cond` | `node_cond.c` | `NodeTypes`, `Parse` |
| `Yaml` | `yaml.c`, and a caller of `config.c` | `NodeTypes` |
| `Interact` | lists of `interact.c`, the completion key of `editline.c` | |
| `Editline` | `editline.c` | `Interact` |
| `EditlineProofs` | lemmas about `Interact`, theorems about `Editline` | `SetInduction` |
| `SetInduction` | induction over the naturals stated for sets, and recursively defined functions | |

`MCHtable`, `MCStrvec`, `MCShLex`, `MCEngines`, `MCCmd`, `MCCond`, `MCYaml`
and `MCEditline` give the constants their values; in those that have
`Families`, the module says what the fields of a family are.  A definition that
starts with a comment `mutant:` is a faulty variant of a definition that follows
it; no specification uses it.

### Htable

`tbl[h]` is `struct ec_htable`: `list` the TAILQ in insertion order, `bucket` the
array of chains (a chain is a set: its order is never observed), `len`, `size`.
An element is named by the value it carries; `refcount` and `key` are its fields.
Actions: `New`, `Del`, `SetOk`, `SetInvalid`, `SetNoMem` (each of the three
allocations of `ec_htable_set()`), `SetResizeFails`, `Free`, and
`ec_htable_dup()` as `DupBegin`, `DupElt` per element, `DupFail`, `DupEnd`.
`given`, `refused` and `freed` are history: the values that the library accepted,
those that an `ec_htable_set()` refused with EINVAL, and how often `free_cb()` ran
on each.  A refused value is not freed and stays with the caller (`RefusedKept`, a
part of `FreedOnce`), who may pass it again; the header says something else, see
section 5.  The growth factor is a constant (the code's is 8).
Keys are given hashes; `% size` is the code's mask for powers of two.

### Strvec

`vec[h]` is the array of element pointers, `refcnt[e]` and `cell[e]` the element.
Actions: `New`, `Add`, `Set`, `DelLast`, `Ndup`, `Free`, `Sort`, and
`ec_strvec_set_attrs()` as `SetAttrs` (element not shared), `SetAttrsCopy`
(shared: replaced by a copy first) and `SetAttrsFails`.  Other failures change
nothing and are stuttering steps.  Assumption on the caller: a dictionary is
passed once (a freed one stands for a new one).  `Sort` is for `strcmp()`, the
default; equal strings end in any order.

### ShLex

One `Read(c)` per iteration of the loop of `ec_strvec_sh_lex_str()`; `lex` holds
its local variables.  What the function returns if the line ended here is
`Errno`, `Elements` and `MissingQuote`, for each value of the flags, so that one
behaviour stands for all prefixes of a line.  The token buffer keeps its content
when its position returns to 0, and starts as `Junk` (not initialised).
`Completed` is the line after `ec_node_sh_lex_complete()` added the missing
quote to a completion and the user took it.

### NodeFree

Two families of types are modelled: those built from a configuration reference a
child from the configuration *and* from the private table; those of `single`
(subset, sh_lex, expr) from the private table only.  A call of the caller
(`NewNode`, `Clone`, `SeqAdd`, `SeqAddFails`, `SubsetAdd`, `SetConfig`,
`CallerFree`) pushes the calls it makes on `stack`; `Free`, `Count`
(`count_references()`), `Mark` (`mark_freeable()`), `Reset` (`reset_mark()`),
`Decide`, `FreePriv`, `PrivFreed`, `Drop` and `SetTable` execute them one at a
time, so that the nested `ec_node_free()` of children, in the middle of the
parent's, is explored as it happens.

`SeqAddFails` has one outcome for each place where `ec_node_seq_add()` gives up: the
configuration was copied up to some element, or whole, and what was copied is freed
in the order of the code (`Clones`).

Assumptions on the caller in the passing run (section 5 says what happens without
them; the run `NodeFreeShared` shows a case):

* `Sharing = "none"`: when references are dropped on a graph with loops, the
  node released is the only way into that graph, and each loop is entered
  through one of its nodes.  `"entries"` lifts the second part, `"any"` both.
* `Reconfig = "acyclic"`: a node that is on a loop gets its children by the add
  functions and is not reconfigured.
* `FailSites` without `"table"`: `ec_node_set_config()` does not fail inside the
  add functions.

### Grammar, Parse, Complete

TLC builds every grammar of a family (children first, so nodes can be shared but
there is no loop), then every input, then one call.  A callback takes a state (the
spine of the parse tree, i.e. the pnodes from the root to `pstate` with their
children, and the allocations left) and a string vector to a result and a new
state.  A budget `k` makes the `k+1`st allocation fail: exactly one fails.
`ParseTo[d]` is the engine with calls that nest `d` deep: its callbacks call those of
`ParseTo[d - 1]`, and at depth 0 the stack overflows, which ends the program
(`Overflow`).  The code has no such limit but the stack of the process (`parse.c:45`).
`Lengths` (Grammar) is the reference: the language a graph denotes, as the lengths of
the prefixes that a node matches, defined without order or greed; `Derives` says that
all of a vector is matched.  Loops are functions (`Loop`), so that the engine can be
reasoned about; `Pnodes`, the set of parse trees, is a constant for the same reason:
`Trees` says what it is, and TLC takes the set of all values.  `Viable` (Complete) is what begins a sentence.
In `Complete` the state has the list of items too, each with the copy of the
spine that its group keeps, and `dirty`, set if the assertion of `ec_complete_child()`
fails.  A callback of `Complete` is a function of the level below as well
(`CompleteTo[d]`); `SeqFrom` and `SubsetFrom`, which call themselves on the children
that are left, are functions of what they do on fewer (`Others`).

### Config, Nodes, NodeTypes

A configuration owns what it holds and is a value (`Config`).  The heap of `Nodes`
holds the nodes with their reference counts, counts the configuration objects, and
notes a use after free or a double free (`fault`).  Every operator takes the heap
before a call and gives the heap after it; `mem` makes one allocation fail, at one
of the `sites` of the run.  `FreeNode` is `ec_node_free()` with its search for loops,
one call being one step: `CountReferences`, `MarkFreeable`, `ResetMark`, then the
release of the configuration and of the private data, whose nodes are freed by calls
of `FreeNode`.  A call of `mark_freeable()` that calls itself with the same arguments
and the same marks never returns, which `endless` says.  `Exact` is what must hold
between calls: counts are exact, what is not referenced is freed, nothing is freed
twice, no mark is left.  `FreeAgain` is an error path that frees what the call that
failed has freed already, which `twice` says.
`NodeTypes` has the schema of each type, what its `set_config()` checks and
stores, and the constructors with their error labels.

### Expr, ExprEval, Cmd

`Build` is `ec_node_expr_build()`: the grammar, which refers to itself, is thrown
away and made again after each operator.  `ExprEval` is the walk of the parse tree
with `merge_results()`, parameterised by the callbacks.  `Cmd` starts the library
(`Start`, `Stop`: the parser of commands), lets the caller put a string together
(`AddPiece`), gives it to a command node with nodes of the caller (`Create`,
`NewCmd`, `FreeAll`), and has a second caller whose callbacks build syntax trees
(`Calc`), since commands have no prefix operator.  The string is lexed and parsed
by `Parse` with the grammar that `Build` made, evaluated by `ExprEval`, and what
comes out is compared with `Asts` and `Means`: a syntax tree by cutting the words
at operators, and the vectors a tree stands for.

### CondEval, Cond

`EvalCondition` evaluates a parsed condition on a tree under construction; results
are objects with one owner (`live`), and each function of the language consumes
its arguments.  `Parse` calls it in the parse callback of cond.  `Cond` makes the
parser (`Start`, `Stop`), puts a node under a condition (`NewCond`), changes the
condition (`Reconfigure`), repeats the node (`Wrap`), parses (`DoParse`) and frees.
The reference is `Terms` (the terms a text stands for) and `Value` (of a term, on a
finished tree cut at the pnode).

### Yaml

A document is what libyaml loads: a table of mappings, which may share and contain
each other.  TLC writes one pair at a time in any mapping (`Write`), then imports
(`DoImport`), exports and imports again (`DoExport`), frees; in the family `Api` a
caller puts configurations together (`Configure`: new value, dict_set, dict_del,
list_add, list_del, dup, free, and `ec_node_set_config()`).  The reference `Good`, `ConfigOf` and
`Stands` says which mappings stand for a node.  Numbers keep their limits, scaled
down.

### Interact, Editline

`p` is the process.  Every object that `editline.c` and `interact.c` allocate is an
element of `live`; `left` makes one call of libedit, of the allocator or of the
output fail.  Actions: `Open`, `Close`, `SetHistory`, `SetPrompt`, `SetNode`,
`ParseLine` for the functions of the interface, allowed outside of the loop and
from a command callback; `Interact`, `CheckExit`, `CompleteKey`, `GetLine`,
`EndOfInput`, `CallbackReturns` for `ec_editline_interact()`; `Crash` between steps,
and `CrashInGets` from the moment a line was read until its save is done.  What the
grammar says of a line (words, matches, groups, helps) is a record of the constant
`Lines`.  `disk` is the history files, `entered` the lines read while each file was
the history file.  libedit (history with a size and without repetitions, save,
load) is modelled from its use, with the failures that `editline.c` ignores: a line
may not be entered (H_ENTER), a load may stop at any line (`Loads`), and a save
truncates the file and writes it, so that after a failure, or a crash in it, the file
is what it was, or a beginning of the lines, the last one cut anywhere (`Written`,
`CutLine`).  `missing` and `partial` are history: whether a line may be missing in the
history in memory, and in each file.

## 3. Runs

| Run | Result | What it shows |
|---|---|---|
| `Htable` | pass | chains and list agree (`ChainsMatchList`); counters are exact, also in the middle of a copy (`RefcountExact`); values are freed exactly once (`FreedOnce`); a failed set leaves the table (`FailedSetKeepsTable`, an action property); refinement of the ordered map (`MapSpec`) |
| `Strvec` | pass | exact counters (`RefcntExact`); attributes are freed once (`DictsFreedOnce`); vectors that share elements are independent values (`VectorsAreValues`, a refinement) |
| `ShLex` | pass | positions are ordered and in the line (`SpansOrdered`); a line is split as its parts are: the text at the position of a word is split into that word, and strict mode accepts a line only if it is closed (`LexedByParts`); with TRAILSP the last element is the word the next character extends (`TrailingWord`); a completion closes the quote (`CompletionCloses`) |
| `NodeFree` | pass | no use of freed memory and no failed assertion (`NoFault`); nothing the caller reaches is taken apart (`HeldIntact`); when no call is pending, counters are exact, loops are reclaimed and no mark is left for the next call (`Reclaimed`); every call returns, if the loops released are entered through one node (`Returns`, liveness) |
| `NodeFreeShared` | violation | a loop the caller also holds through an inner node is freed under it |
| `Engines` | pass | of the families that are parsed: soundness against `Derives` (`ParseSound`); the tree describes the match (`TreeDescribesMatch`); subset finds the longest list (`SubsetLongest`); once (`ChildParsedOnce`); an error is never taken for a mismatch (`FailureOnlyFails`).  Of those that are completed: proposals lead to sentences, and their groups carry the state of the strings before the cursor (`CompleteSound`); no first word is missing (`FirstWordFound`); a failing allocation never shortens a list, and the assertion of `ec_complete_child()` holds on all paths (`CompleteAllOrNothing`); expansion is a fixed point (`ExpandStable`) |
| `Cmd` | pass | the grammar built of a command string matches what the string means, and exactly the strings that have a syntax tree are accepted (`CmdDenotes`); an expression evaluates to its syntax tree (`CalcDenotes`); nothing leaks or is freed twice when an allocation fails anywhere, in the grammar of commands and in what is built, but after an error path of a constructor that frees its child again, see section 5 (`CmdExact`) |
| `Cond` | pass | a condition is the term its text says and decides the match (`CondDenotes`); at each conditional pnode of a returned tree the condition holds of the tree up to there (`CondHolds`); results of evaluations are freed once (`ResultsFreed`); nodes and configurations are exact, but after the same error paths, taken while the library starts (`CondExact`) |
| `CondNoMatch` | violation | the condition is also evaluated when the child does not match; if it is false, a pnode that does not exist is unlinked |
| `Yaml` | pass | exact references after every refusal and every failing allocation; only a refused import that made a loop may not return (`HeapExact`); exactly the documents that stand for a grammar are accepted, as that grammar (`ImportFaithful`); export and import give back what is written (`RoundTrip`); validation is what the schema says and never uses a missing subschema (`SchemaSafe`); comparison is symmetric, and equal configurations are interchangeable (`CmpEquivalence`) |
| `Editline` | pass | every object has one owner and every pointer is NULL or in use, between any two calls (`OwnedExact`) |
| `EditlineHistory` | pass | a history file holds lines read for it, in order, and the newest of them after a save of a history that misses none, across changes of history, crashes, and failed or partial loads and saves (`HistoryKept`) |

Bounds, and why they are enough:

* `Htable`: 2 tables (a copy and its source), 3 keys of which two always collide
  and two collide at one size only, 4 values (one more than keys, for
  replacements), array sizes 0, 2, 4: both resizes happen, with and without a
  replacement.  Values are symmetric.
* `Strvec`: 3 vectors share 4 elements; 2 dictionaries; length 3.  An element
  shared by three vectors, a partial copy, a replacement at each position occur.
* `ShLex`: every line of up to 6 characters over one character per class and a
  newline; buffer of 4.  Two quoted words, or an escape after a quoted word, fit.
* `NodeFree`: 3 nodes with 2 children each: all loops of one to three nodes,
  diamonds, doubled edges, with or without one node of the other family.  The
  caller holds up to 4 references, one more than it has nodes: what it clones it
  gives away next, which is enough to build each of these graphs.
  `StackBound` (60) is never reached in the passing run.  What the assumption on the
  entries of a loop costs: with `Sharing = "entries"` and one node of the other family,
  TLC finds `Returns` violated; with three nodes of the first family, and one way into
  the graph that is released, every call returns; if a loop is also held through an
  inner node (`Sharing = "any"`), two nodes of the first are enough to violate it.
* `Engines`: all graphs of up to 3 inner nodes over 2 leaves (or 2 over
  3), inputs of up to 2 strings, 3 for the choices of an ordered grammar and for
  completion below subset nodes; a failing allocation at each of the first 20
  places, more than these instances make.  `Depth` (5) is more than the number of
  nodes of these grammars; in `Cmd` and `Cond`, whose grammars refer to themselves, it
  is 60, more than the texts of these runs make calls nest.
* `Cmd`: every string of up to 5 pieces (4 for the calculator and for the caller's
  nodes) over the characters of a family, so that each operator meets each other one on both sides and a chain meets
  parentheses; vectors of up to 3 strings (4 for groups).  `Starting` makes each of
  the allocations of the parser of a small operator table fail, `Failing` each of
  those of a command node.
* `Cond`: all texts of up to 5 characters over one of each class; all functions with
  right and wrong arguments, up to four calls deep, on all vectors of up to 3 strings; under
  many and after a node in a seq, with up to 4.  The integers of a condition go to 3.
* `Yaml`: two mappings and 5 pairs (loops of one and two nodes, doubled aliases);
  one mapping and 4 pairs out of 13 (missing, repeated and wrong keys); limits with
  `INT64_MAX` scaled to 3 and `UINT_MAX` to 6, so that a number lies on both sides
  of each; every allocation fails.  Configurations: 3 of up to 4 objects.
* `Editline`: one grammar, one other node, one file, a history of one line, 2 lines
  entered, and any of the first 25 calls failing, more than any function makes here.
  What a line says to the history does not matter here: all have one name.
  `EditlineHistory` has two files, histories of one and two lines, three lines entered
  and two names, since repetition is all that the history tells apart, and leaves out
  the prompt and the completion key (`HistorySpec`), which do not touch it.  Files are
  symmetric.  Both leave 0 out of `Sizes`: with it the freed history is used
  (section 5).

Deadlock: `CHECK_DEADLOCK FALSE` where the caller may simply have nothing more
to do (all names used, the line at its bound, the call made).

Fairness: only `NodeFree` states any, `WF_vars(Step)`: a call that was started
goes on executing.  There are no threads, so nothing can hold it up; the caller
is never obliged to call again.  In the other modules a call is one step, or (in
`Editline`) the loop ends only if the user ends it: these are safety only.

## 4. Proofs

Checked by TLAPS for all values of the constants.

**HtableProofs** (assumptions: `Hash` maps keys to naturals, `Grow > 1`, finitely
many handles, `NoKey` is not a key): `TypeCorrect`, `TableConsistent`
(`UniqueKeys`, `ChainsMatchList` and `LoadBound`), `RefcountCorrect`,
`ValuesFreedOnce`, `FailedSetKeeps`.  `ValuesFreedOnce` has two parts: an accepted value
is freed once, with the last table that has it, and a refused one is never freed and in no
table.  The invariant `IInv` adds to these: a table
is well formed as a value (no element twice in the list), values in a table were
accepted by the library, an unused name has no content, and during a copy the copy
is a prefix of its source.  The last is what makes a half-way failure of
`ec_htable_dup()` safe: the counters raised so far are exactly those of the
prefix.  The proof first shows that `Unlink`, `Resize`, `Link` and `Insert` keep
one table well formed, then what dropping and adding references does to counters,
then each action.  `ImplementsMap` is the refinement `Spec => MapSpec`: a table is
mapped to the sequence of the keys and values of its list; each call is a step of
`OrderedMap` on the table it is given, each step of a duplication extends the copy
alone, and whatever happens to the chains is a stutter.

**StrvecProofs** (assumptions: finitely many handles, strings are integers,
`NoStr` and `NoDict` are outside their sets): `TypeCorrect`, `RefcntCorrect`,
`AttrsFreedOnce` and `Refinement`, i.e. `Spec => VectorsAreValues`.  `IInv` adds:
no vector points twice to an element (so that one release per vector is one
decrement), free memory is blank, and attributes in memory were given.
The refinement maps a vector to the sequence of the contents of its elements;
the argument is that an action changes the content only of elements that no other
vector references, which is `RefcntExact` and the test of `refcnt` in
`ec_strvec_set_attrs()`.

**ShLexProofs** (assumptions: `Class` classifies each character, a buffer of at
least 2 bytes): `TypeCorrect`, which includes that the token buffer is never
overrun, and `SpansCorrect` (`SpansOrdered`) for lines of any length.  The
invariant `Positions` relates the start of the current word to the words before
it: not after it outside of a word, strictly before it inside.

**SetInduction**: the induction theorems of the library take a predicate, which the
provers cannot instantiate.  `Induction` says the same of a set of numbers, and
`Recursion` that a function on `0..n` defined by recursion exists: with these two,
what a recursive *function* computes can be proved by induction on its argument.

`ShLexProofs` goes on with `LexedByPartsCorrect`, `TrailingWordCorrect` and
`CompletionClosesCorrect`, for lines of any length.  These properties lex a second line, a part of the first, or the first with a completion.
The second run is a recursive function of the number of characters read; the
invariant relates its registers, after each character, to those that the first run
had at the same place of the line (the content of the buffer up to its position, the
words so far, shifted), by induction on that number.

**EditlineProofs** (assumption `EditlineAssumption`: the counts of
a line are naturals, and no line is `CutLine`): `OwnedExactCorrect` and
`HistoryKeptCorrect`.  The first part shows of each operator of `Interact` that, whichever
call fails, it leaves in use what was in use before and the objects of its result,
with no fault; the loops over groups, items and prefixes are recursive functions, by
induction.  `IInv` says that the objects in use are those of eight pointers, each with
one of its own (`Sound`); which pointers are NULL out of the loop, before a line is read
and without a structure (`Shape`); that the file the caller asked for is the one saved,
that the lines in memory are lines of the log of that file, and its end if none is
missing (`Saving`); and the same of each file (`KeptIn`).  Both parts are about how
a list of lines sits in a log.  The first is an increasing map of its places to those of
the log (`Within`), which is kept when a line is entered, when the beginning of a file is
loaded, and when a save is cut, of whatever that leaves.  The second is a window of the
log without repetitions: entering a line in a window of a log gives a window of the
longer log, and loading a whole file keeps it one.  The theorems are stated for history
sizes other than 0: section 5 says what the code does otherwise.  They hold whether or
not `ec_editline_set_history()` fails.  That the
history in libedit is never one that was ended is not claimed: it does not hold
(section 5).

**NodeFreeProofs** (assumptions: finitely many nodes; `"table"` is not in `FailSites`,
see section 5): `NoFaultCorrect`, `HeldIntactCorrect` and `ReclaimedCorrect`, i.e.
`Spec /\ []NoLoops => []P` for the three invariants of the run.  They are about graphs
without loops, `NoLoops`: any number of nodes, children and references, every `Sharing`
and every `Reconfig`, with children shared as they may be.  Graphs with loops are left to
the run: there what holds depends on how the loops are entered (section 5).  The
invariant `IInv` splits the stack of pending calls in three: the calls of a phase
(`count_references()`, `mark_freeable()` or `reset_mark()`), the calls that own
references or release tables, and the replacement of a table.  Of the last two, `BaseInv`
says that every counter is exact when the pending calls are counted as references
(`Balance`), that a node is in memory as long as it is referenced (`NodesInv`), that a node
being freed has one reference left, the pending call that drops it (`FreeingInv`), that a
table being released is followed by that call (`Paired`), and that the node whose table
is to be replaced is not below the nodes being released (`Ending`).  `PhaseInv` says what
the marks mean: during the count, the references counted and those left to count are the
references from marked nodes (`Counting`); without loops only the reference
being released is counted for the node itself, so it is found unfreeable when it has
another one, and so is all that it reaches (`Marking`); the marks that `reset_mark()` has
still to remove are found from its pending calls (`Resetting`).  One lemma for each
action, with a case for each phase; that nothing is lost between calls then follows from
the counters: a node that is not reached has a parent that is not, and without loops
this ends.

**ParseProofs** (assumptions: `GrammarAssumption`, i.e. leaves are nodes without
children, an input is shorter than `EC_PARSE_NOMATCH`, budgets are naturals; and
`Trees`, the definition of the set of parse trees, which `TreesExist` shows to be
satisfied by a set): `ParseSoundness`, `TreesDescribeMatches`, `ChildrenParsedOnce`,
`SubsetsAreLongest` and `FailuresAreErrors`, i.e. `ParseSpec => []ParseSound`,
`[]TreeDescribesMatch`, `[]ChildParsedOnce`, `[]SubsetLongest` and `[]FailureOnlyFails`:
all the properties of the run.  For every grammar that the constructors build of the
leaves of a family, shared nodes included, for every input and every failing
allocation, and for any `Depth`, what the engine returns as a match is the length of a
match of the language.  `Sound(P, L)` says of the callbacks `P` and lengths `L` that a
callback called on any tree under construction fails, does not match, or returns a
length of `L`, and leaves the tree as it was above its own pnode.  `ParseInv` says
that the nodes are leaves and nodes built over earlier ones, and that `out` is the
result of a call on this grammar and input.  One lemma for each node type shows that a
callback is sound if those of its children are: an invariant of the loop of seq (what was consumed is the end of a match
of the children so far), of or, of many (the end of as many matches as were counted,
and a last iteration that matches nothing ends the loop), and of subset, where the best
list is one of the lists of distinct children, by a second induction on the number of
children left.  The engine is then sound by induction on the nesting depth.

The other theorems are shown by the same induction, from `Sound` and one more
predicate on callbacks.  `Described(P, good)` says that a match makes of a pnode without
children a tree that satisfies `good`; one level of calls turns `good` into `Consistent(good)`
(`DeeperDescribed`), because the loops keep the string vectors of the children equal, one
after the other, to what was consumed so far (`Gathered`), and drop or free what they do not
count.  `Onced(P, O, C)` says how often a match has a node as the child of a once node
(`O`) and at all (`C`): the former is 0 or 1, it is 1 only where the latter is positive,
and it is 0 if the node is already `Present` in the tree under construction when the
callback is called.  The bound alone is not inductive: two children of a seq could each
have the node once, were it not that the matches of the first are in the tree while the
second is parsed, and that a once node does not parse a child it finds there
(`ChildOnced`).  A loop keeps the same of the list of its children (`Lone`).  A leaf that
returns tells the one length it matches (`LeafExact`), so that each child a subset tries
accounts for all the lists that begin with it (`SubsetChildLongest`), by the induction on
the children left that shows its soundness; that the leaves are where `SubsetLongest` looks for
them is an invariant of its own (`LeavesFirst`).  `Steady(P)` says that a call that does not fail makes the same, plus `d`
allocations left, of a state in which `d` more allocations succeed: each loop is run
twice, on corresponding states (`LoopAgrees`), until it ends or one of them fails, which
no iteration can undo.  Comparing the failing run with the one that never fails is then
the case `d = Unlimited - mem`.

**CompleteProofs** (the assumptions of ParseProofs): `CompletionsAllOrNothing`, i.e.
`CompleteSpec => []CompleteAllOrNothing`, for every grammar, input, failing allocation
and `Depth`.  `Unlinks(b, q, sp, d)` says of the result `b` of a complete callback called
on a tree with the spine `sp` that the spine is `sp` again, also when an allocation
failed on the way, that it is not `dirty`, and that, unless it failed, `q` is `b` with
`d` more allocations left.  One level of calls preserves it (`NodeUnlinks`, one lemma
for each type): seq, subset and many link the pnodes of a child with
`ec_parse_child()`, which links exactly one if the child matches and none otherwise
(`ParseHereLinks`, from the soundness and steadiness of the parse engine), go on with
what is left and unlink it (`PoppedUnlinks`); the recursions of seq and subset on the
children left, and the iterations of many, are inductions inside the one on depth
(`EngineUnlinks`).  With `q` the run in which nothing fails this is the property.  Expansion
is a loop over the strings of the input, run twice as in ParseProofs (`StrvecExpands`).
`CompleteInv`, the inductive invariant, says that `out` is the result of a call on the
grammar built.

`TypeOK` of the modules that have one and `LoadBound` of the hash table are theorems
and conjuncts of what these prove; the runs do not repeat them.

Only model-checked: `Returns` (liveness, out of the prover's reach), whose run has the
restriction on loops that is needed (section 5); `NodeFree` on graphs
with loops; the re, re_lex, expr, cmd and cond nodes of `Parse`, which the grammars of the
theorems do not have; `CompleteSound`, `FirstWordFound` and `ExpandStable`, which compare
completions with the language and were left to the run; and `Cmd`, `Cond` and `Yaml`, most
of whose operators are RECURSIVE because they walk trees: the prover does not handle these.

## 5. Divergences met while modelling

With a run (see `findings` in `PROJECT.json`):

* a loop that the caller also holds through an inner node is taken apart
  (`NodeFreeShared`);
* the condition of a conditional node is evaluated when its child did not match
  (`CondNoMatch`).

Without a run, noted from the source or met by TLC with another configuration.

Node lifetime and constructors:

* `mark_freeable()` recurses for ever (`node.c:185`) on a loop that is entered through
  two nodes: the configuration of `NodeFree` with `Nodes = {a, b, c}`, `Singles = {{c}}`
  and `Sharing = "entries"` violates `Returns`.  So it does on one that is held twice,
  as when a refused import frees one by one the nodes of a loop that it made
  (`yaml.c:139`): the run `Yaml` violates `HeapExact` without its case for `endless`;
* `ec_node_set_config()` fails in `ec_node_seq_add()` or `ec_node_or_add()`: the child is
  freed twice (`node_seq.c:293`); the configuration of `NodeFree` with `FailSites =
  {"table"}` violates `NoFault`.  `ec_node_option()` frees it again when its setter
  failed: without its case for `twice`, `CmdExact` meets a freed node in the run `Cmd`;
* a node on a loop is reconfigured (`Reconfig = "any"`): the assertion at
  `node.c:189` fails;
* `ec_node_once()` and `ec_node_bypass()` too free the child twice
  and leak the node when set_child fails; `__ec_node_subset()` and
  `ec_node_config_node_list_from_vargs()` free a child twice too.  Those that the runs
  `Cmd` and `Cond` call fail there as well; `CmdExact` and `CondExact` do not look at
  a heap on which such a path was taken (`twice`), and at every other one;
* `EC_CONFIG_F_MANDATORY` is checked, and set by no type.

Tables, vectors, lexer:

* `htable.h:97` and `dict.h:90` say that the value is freed on error; `ec_htable_set()`
  returns EINVAL without freeing it (`htable.c:190`), as `RefusedKept` states;
* `htable.c:44` reads the table before it tests it for NULL;
* an empty quoted word becomes the word before it (`strvec.c:396`); `LexedByParts`
  and the others are stated for words that are not empty.  A trailing `""` is dropped;
* a comment ended by a newline leaves the trailing-space flag down, and a quote or
  escape that was just opened adds no element, so completion then works on the word
  before; `TrailingWord` excludes these lines;
* `strvec.h:92` says the opening quote is stored; a quote opened in the middle of a
  word is not recorded (`CompletionCloses` requires the word to start with it).
  The attributes of the empty trailing element are one past the line.

Parse and completion:

* pnodes of abandoned attempts of a subset node stay in the tree (`node_subset.c:92`);
* `parse.h:125` speaks of the strings of the vector; the engine matches a prefix;
* `parse.h:129`: a subset with fewer matches than its minimum returns a tree with
  children and no match;
* a many node whose maximum is 0 does not count a child that matches nothing;
* re_lex on an empty vector whose child matches nothing returns 1, which its caller
  refuses as an error; `tokenize()` leaks the attributes on failure;
* `complete.h:48` describes EC_COMP_UNKNOWN as a valid token; empty proposes one;
* the counters of a comp are raised before the allocation of its group;
* `parse.c:45`: left-recursive grammars recurse without bound (the code says so).

Expressions and commands:

* two postfix operators in a row (`a+*`) reach the `assert(false)` of
  `merge_results()` (`node_expr.c:528`); the properties of `Cmd` exclude them;
* what `ec_node_expr_build()` returns is ignored, so that an expression may be left
  without its grammar; binary operators group to the right;
* a chain changes a node of the caller if its type is that of the chain;
  parentheses around a chain of `,` or `&` may dissolve; the alternatives of `|` come
  out in another order than written;
* a cmd node reports fewer references than its table holds.

Conditions:

* the condition is not looked at when the child matches the empty vector, nor by
  completion, although `node_cond.h:20` says "parsing/completing";
* an evaluation that fails because the child did not match is an error of the parse;
* `cmp(eq, ...)` of two equal sets of nodes that are not empty is false;
* an integer that does not fit is found when an input is parsed, not when the node is
  configured.

YAML:

* a mapping without a type reads a NULL type (`yaml.c:448`, `node.c:97`); the
  properties of `Yaml` exclude it;
* keys and attribute values that are not scalars are read as if they were;
* an empty scalar is the integer 0; an empty list is written as a null scalar;
* attributes are not written, though `yaml.h:33` says so; types without schema are
  written and then refused; the export of a grammar with a loop does not end.

Line editor:

* `ec_editline_set_history(e, 0, ...)` leaves the history that it ended in the structure
  and in libedit, and a failure of that function once it ended the old one leaves that,
  or the new one that it ended too, in libedit (`editline.c:232`, `editline.c:261`): the
  next line, or the release of the editor, uses it.  With 0 in `Sizes`, `OwnedExact` is
  violated; what libedit itself still refers to after a failure is external, and no
  property looks at it;
* the loop reads the node once (`editline.c:668`), its error report reads it again;
* the end of the input makes `ec_editline_interact()` return -1;
* errors of H_ENTER, H_LOAD and H_SAVE are ignored (`editline.c:254`, `editline.c:451`):
  after a load that failed or stopped, the next line truncates the file to what was
  loaded and itself; after a save that failed, or a crash in it, the file has a part of
  the lines.  `HistoryKept` allows this, and says what is left;
* a failed parse in `ec_interact_get_helps()` counts as no match;
* the error report of a line without a word asks for the attributes of element -1 and
  fails (`interact.c:402`).

## 6. Not modelled, and the plan

Not modelled: regular expressions beyond a first and a following set of characters,
directory listings, the parsing of integers by the C library and user callbacks of
dynamic nodes (leaves), dumps, logging and string formatting, the columns of the
lists that the editor prints, registration of node types and initialisation (once,
at start-up), the text of YAML documents (libyaml), grammars with loops as input of
the parse engine beyond the two that the library itself makes, several failing
allocations in one call, the generic vector (no state that outlives a call apart
from the array), the parse callback of sh_lex with its expansion and
`ec_comp_merge()`.

Done: hash table, string vectors, lexer, node lifetime and line editor with their
proofs; parse and completion engines; configurations and constructors; expressions,
commands, conditions; YAML.

Next, in this order:

1. theorems about `Cond` and `Yaml`, once the modules they use are written with
   recursive functions as `Parse` is: `ResultsFreed` and `HeapExact`, the ownership of
   what these allocate; `CompleteSound` from the soundness of the parse engine;
2. the parse callback of sh_lex composed with `ShLex`, `ec_comp_merge()`, dynlist and
   int;
3. the position of the error mark of `interact.c`, composed with `ShLex`.
