------------------------------ MODULE Interact ------------------------------
(***************************************************************************)
(* The lists of completions and of contextual helps that src/interact.c    *)
(* builds and the completion key of src/editline.c: what is allocated and  *)
(* released on each path.                                                  *)
(*                                                                         *)
(* An operator takes the process p before a call and gives it after the    *)
(* call.  live are the objects in use; freeing one that is not is a fault. *)
(* left counts down the calls that can fail (allocations, libedit, output) *)
(* and the one made when it is 0 fails.                                    *)
(***************************************************************************)
EXTENDS Integers, Sequences, FiniteSets

Null == 0
Least(S) == CHOOSE x \in S : \A y \in S : x <= y

\* a call that can fail
Call(p, Fail(_), Then(_)) ==
  IF p.left = 0 THEN Fail([p EXCEPT !.left = -1]) ELSE Then([p EXCEPT !.left = @ - 1])

\* an object at an address that is neither in use nor one of held
Unused(used) == Least((1..(Cardinality(used) + 1)) \ used)
AllocAt(p, o, Fail(_), Then(_, _)) == Call(p, Fail, LAMBDA q : Then([q EXCEPT !.live = @ \cup {o}], o))
New(p, held, Fail(_), Then(_, _)) == AllocAt(p, Unused(p.live \cup held), Fail, Then)
Alloc(p, Fail(_), Then(_, _)) == AllocAt(p, Unused(p.live), Fail, Then)

Free(p, o) ==
  IF o = Null THEN p ELSE [p EXCEPT !.live = @ \ {o}, !.fault = @ \/ o \notin p.live]
FreeAll(p, S) == [p EXCEPT !.live = @ \ S, !.fault = @ \/ ~(S \subseteq p.live)]

\* What a function has so far, and what it gives: whether it succeeds, the
\* objects it hands over and how many entries they make.
Gives(p, objs, n) == [ok |-> TRUE, p |-> p, objs |-> objs, n |-> n]
Fails(p) == [ok |-> FALSE, p |-> p, objs |-> {}, n |-> 0]

\* The function goes to its error label, which frees what it has, or returns.
FreeThenFail(p, objs) == Fails(FreeAll(p, objs))
Discarded(r) == IF r.ok THEN FreeThenFail(r.p, r.objs) ELSE r
Released(r) == IF r.ok THEN Gives(FreeAll(r.p, r.objs), {}, r.n) ELSE r

\* The function makes one more call, or allocates one more object, or goes to
\* its error label.
Try(r) ==
  IF r.ok THEN Call(r.p, LAMBDA q : FreeThenFail(q, r.objs), LAMBDA q : Gives(q, r.objs, r.n)) ELSE r
Take(r) ==
  IF r.ok THEN Alloc(r.p, LAMBDA q : FreeThenFail(q, r.objs), LAMBDA q, o : Gives(q, r.objs \cup {o}, r.n))
  ELSE r

-----------------------------------------------------------------------------
(***************************************************************************)
(* A line, as far as the grammar tells it apart: its number of words (none *)
(* if it is open, i.e. ends in a quote), whether it matches, the prefixes  *)
(* of it, counted in words, that match or complete (hits) and what the     *)
(* longest gives (right), the groups and items that completion gives,      *)
(* whether they have a common start that is not typed yet (append) and     *)
(* whether a single one is a whole word (full).                            *)
(***************************************************************************)

\* get_node_help(): the description of a node without one is made for it, and
\* freed at the end; both strings are copied before either copy is tested
WithoutDesc(r, tmp) == IF r.ok THEN Gives(Free(r.p, tmp), r.objs \ {tmp}, 1) ELSE r
GetNodeHelp(p) ==
  Alloc(p, Fails, LAMBDA q, tmp :
  Alloc(q, LAMBDA q1 : Discarded(Take(Gives(q1, {tmp}, 0))),
           LAMBDA q1, desc : WithoutDesc(Take(Gives(q1, {tmp, desc}, 0)), tmp)))

\* the loop over the groups: the array of r grows (realloc()), then one more help
AddHelp(r, s) == IF s.ok THEN Gives(s.p, r.objs \cup s.objs, r.n + 1) ELSE FreeThenFail(s.p, r.objs)
HelpNext(r) == IF r.ok THEN AddHelp(r, GetNodeHelp(r.p)) ELSE r
HelpEach(r, todo) ==
  LET f[k \in 0..todo] == IF k = 0 THEN r ELSE HelpNext(Try(f[k - 1]))
  IN  f[todo]

\* the entry "<return>" of a line that matches
ReturnHelp(r) == LET s == Take(Take(r)) IN [s EXCEPT !.n = IF s.ok THEN 1 ELSE 0]

\* ec_interact_get_helps(); a parse that fails counts as a line without match
HelpArray(p, matches) == LET r == Take(Gives(p, {}, 0)) IN IF matches THEN ReturnHelp(r) ELSE r
Releasing(r, objs) == [r EXCEPT !.p = FreeAll(@, objs)]
GetHelpsOf(p, matches, groups) ==
  Alloc(p, Fails, LAMBDA q, cmpl : Releasing(HelpEach(HelpArray(q, matches), groups), {cmpl}))
GetHelps(p, l) ==
  Alloc(p, LAMBDA q : GetHelpsOf(q, FALSE, l.groups),
           LAMBDA q, parse : GetHelpsOf(Free(q, parse), l.matches, l.groups))

-----------------------------------------------------------------------------
\* ec_interact_get_error_helps(): the longest prefix of i words that is right,
\* then the helps after it.  held are the line with a space and its words.

\* The position is that of the end of the last word, or of the start of the
\* word after the prefix; a line without word has neither.
NoPosition(l, i) == i = l.words /\ i = 0

\* a turn of the loop: the search goes on, or ends with a result
GoesOn(r) == [more |-> TRUE, r |-> r]
Ends(r) == [more |-> FALSE, r |-> r]
Helps(r, l) == Releasing(GetHelps(r.p, l.right), r.objs)

\* the partial vector, the empty word added to it, its parse and completion
TryPrefix(r, l, i) ==
  LET s == Take(Take(Try(Take(r)))) IN
  IF ~s.ok THEN Ends(s)
  ELSE IF i \notin l.hits THEN GoesOn(Gives(FreeAll(s.p, s.objs \ r.objs), r.objs, 0))
  ELSE Ends(IF NoPosition(l, i) THEN Discarded(s) ELSE Helps(s, l))
TryNext(x, l, i) == IF x.more THEN TryPrefix(x.r, l, i) ELSE x
Found(x) == IF x.more THEN Released(x.r) ELSE x.r
TryPrefixes(r, l) ==
  LET f[k \in 0..(l.words + 1)] == IF k = 0 THEN GoesOn(r) ELSE TryNext(f[k - 1], l, l.words + 1 - k)
  IN  Found(f[l.words + 1])

GetErrorHelps(p, l) ==
  LET copy == Take(Gives(p, {}, 0))
      vec == Take(copy)
  IN  IF l.open THEN Discarded(copy) ELSE IF vec.ok THEN TryPrefixes(vec, l) ELSE vec

-----------------------------------------------------------------------------
\* ec_interact_get_completions(): the array grows (the first realloc() makes
\* it), then one more string
MatchNext(r) == LET s == Take(IF r.objs = {} THEN Take(r) ELSE Try(r)) IN [s EXCEPT !.n = @ + IF s.ok THEN 1 ELSE 0]
MatchEach(p, todo) ==
  LET f[k \in 0..todo] == IF k = 0 THEN Gives(p, {}, 0) ELSE MatchNext(f[k - 1])
  IN  f[todo]

\* ec_interact_append_chars(): NULL if the copy of the first item fails
AppendChars(p) == Alloc(p, LAMBDA q : [p |-> q, chars |-> Null], LAMBDA q, o : [p |-> q, chars |-> o])

\* the print of a list of objects, which is released either way
Printed(r) == Released(Try(r))

\* the key '?': the helps, or where the line is wrong if there are none
PrintedAny(r) == IF r.ok /\ r.n = 0 THEN Released(r) ELSE Printed(r)
HelpOrError(r, l) ==
  IF r.ok /\ r.n = 0 THEN PrintedAny(GetErrorHelps(Released(r).p, l)) ELSE Printed(r)
HelpKey(p, l) == HelpOrError(GetHelps(p, l), l)

\* The other keys: the list of the items, unless they have a common start, or
\* there is one item, to insert; then a space if that one is complete.
Insert(r, wanted) == IF wanted THEN Try(r) ELSE r
TabKey(p, l, append) ==
  IF append = Null \/ (~l.append /\ l.items # 1) THEN Printed(MatchEach(p, l.items))
  ELSE Insert(Insert(Gives(p, {}, 0), l.append), l.items = 1 /\ l.full)

\* ec_editline_complete(), with the line up to the cursor from
\* ec_editline_curline(), when the client data has a node or not
Key(r, key, l) == Free(IF key = "?" THEN HelpKey(r.p, l).p ELSE TabKey(r.p, l, r.chars).p, r.chars)
Complete(p, key, l, hasNode) ==
  Alloc(p, LAMBDA q : q, LAMBDA q, line :
  IF ~hasNode THEN Free(q, line)
  ELSE Alloc(q, LAMBDA q1 : Free(q1, line), LAMBDA q1, cmpl :
       FreeAll(Key(AppendChars(q1), key, l), {cmpl, line})))
=============================================================================
