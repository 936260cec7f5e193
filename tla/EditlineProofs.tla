--------------------------- MODULE EditlineProofs ---------------------------
(***************************************************************************)
(* Proofs about the line editor glue, for any lines, files, nodes and      *)
(* history sizes and whatever call fails.  First, what the operators of    *)
(* Interact do with the objects of the process: whatever call fails on the *)
(* way, each leaves in use what was in use before, and what it hands over. *)
(***************************************************************************)
EXTENDS Editline, TLAPS, FiniteSetTheorems, SetInduction, SequenceTheorems

Eds == [self : Nat, el : Nat, history : Nat, file : Nat, path : Files \cup {NoFile}, prompt : Nat,
        node : Grammars \cup {NoNode}]
Loops == [pc : {"out", "check", "gets", "cb"}, node : Grammars \cup {NoNode}, line : Nat, vec : Nat, parse : Nat]
Names == {l.name : l \in Lines} \cup {CutLine}
Pasts == [size : Nat, lines : Seq(Names)]

\* A process.  The objects in use are finitely many, none at address NULL.
Procs == [live : SUBSET (Nat \ {Null}), left : Int, fault : BOOLEAN, ed : Eds, el_hist : Nat, past : Pasts,
          loop : Loops, asked : Files \cup {NoFile}]
IsProc(q) == q \in Procs /\ IsFiniteSet(q.live)

\* r is the process q with other objects in use, and with fewer calls to go
Calls(i, j) == i < 0 => j < 0
Same(q, r) ==
  /\ IsProc(r) /\ r.fault = q.fault /\ Calls(q.left, r.left)
  /\ r.ed = q.ed /\ r.el_hist = q.el_hist /\ r.past = q.past /\ r.loop = q.loop /\ r.asked = q.asked

\* The result r of a function that began when base was in use has in use base
\* and the objects it hands over.
Result(q, base, r) ==
  /\ r \in [ok : BOOLEAN, p : Procs, objs : SUBSET (Nat \ {Null}), n : Nat]
  /\ Same(q, r.p)
  /\ r.objs \cap base = {} /\ r.p.live = base \cup r.objs
  /\ ~r.ok => r.objs = {}
\* a result s that comes of r still has the objects of r
Keeps(r, s) == s.ok => r.ok /\ r.objs \subseteq s.objs

-----------------------------------------------------------------------------
\* the process after a call that failed, and after one that did not
Failed(q) == [q EXCEPT !.left = -1]
Passed(q) == [q EXCEPT !.left = @ - 1]
Got(q, o) == [Passed(q) EXCEPT !.live = @ \cup {o}]

\* An address that is not in use exists.
LEMMA UnusedIs ==
  ASSUME NEW used, IsFiniteSet(used)
  PROVE  Unused(used) \in Nat \ {Null} /\ Unused(used) \notin used
<1> DEFINE n == Cardinality(used)
           T == (1..(n + 1)) \ used
<1>1. n \in Nat
  BY FS_CardinalityType
<1>2. IsFiniteSet(1..(n + 1)) /\ Cardinality(1..(n + 1)) = n + 1
  <2>1. 1 \in Int /\ n + 1 \in Int /\ ~(1 > n + 1) /\ (n + 1) - 1 + 1 = n + 1
    BY <1>1
  <2> HIDE DEF n
  <2> QED
    BY <2>1, FS_Interval
<1>3. T # {}
  <2> SUFFICES ASSUME 1..(n + 1) \subseteq used PROVE FALSE
    OBVIOUS
  <2>1. Cardinality(1..(n + 1)) <= Cardinality(used)
    BY FS_Subset
  <2> QED
    BY <1>1, <1>2, <2>1
<1>4. T \in SUBSET Nat /\ \A x \in T : x # 0 /\ x \notin used
  BY <1>1
<1> HIDE DEF T, n
<1>5. \E x \in T : \A y \in T : x <= y
  BY <1>3, <1>4, LeastNat
<1>6. Least(T) \in T
  BY <1>5 DEF Least
<1>7. Unused(used) = Least(T)
  BY DEF Unused, T, n
<1> QED
  BY <1>4, <1>6, <1>7 DEF Null

LEMMA FailedIs ==
  ASSUME NEW q, IsProc(q)
  PROVE  Same(q, Failed(q)) /\ Failed(q).live = q.live /\ Failed(q).left < 0
BY DEF IsProc, Procs, Same, Failed, Calls

LEMMA PassedIs ==
  ASSUME NEW q, IsProc(q)
  PROVE  Same(q, Passed(q)) /\ Passed(q).live = q.live
BY DEF IsProc, Procs, Same, Passed, Calls

LEMMA GotIs ==
  ASSUME NEW q, IsProc(q), NEW o \in Nat \ {Null}
  PROVE  Same(q, Got(q, o)) /\ Got(q, o).live = q.live \cup {o}
<1>1. Same(q, Passed(q)) /\ Passed(q).live = q.live
  BY PassedIs
<1>2. PICK r : r = Passed(q)
  OBVIOUS
<1>3. IsFiniteSet(r.live \cup {o})
  BY <1>1, <1>2, FS_AddElement DEF Same, IsProc
<1>4. [r EXCEPT !.live = @ \cup {o}] \in Procs
  BY <1>1, <1>2 DEF Same, IsProc, Procs
<1>5. Got(q, o) = [r EXCEPT !.live = @ \cup {o}]
  BY <1>2 DEF Got
<1>6. Same(r, Got(q, o)) /\ Got(q, o).live = r.live \cup {o}
  BY <1>1, <1>2, <1>3, <1>4, <1>5 DEF Same, IsProc, Procs, Calls
<1> QED
  BY <1>1, <1>2, <1>6 DEF Same, Calls

\* What the operators of Interact on objects make of a process.
LEMMA FreeIs ==
  ASSUME NEW q, IsProc(q), NEW o \in q.live \cup {Null}
  PROVE  Same(q, Free(q, o)) /\ Free(q, o).live = q.live \ {o}
<1>1. IsFiniteSet(q.live \ {o})
  BY FS_RemoveElement DEF IsProc
<1>2. CASE o = Null
  BY <1>2 DEF Free, Same, IsProc, Procs, Calls
<1>3. CASE o # Null
  BY <1>1, <1>3 DEF Free, Same, IsProc, Procs, Calls
<1> QED
  BY <1>2, <1>3

LEMMA FreeAllIs ==
  ASSUME NEW q, IsProc(q), NEW S \in SUBSET q.live
  PROVE  Same(q, FreeAll(q, S)) /\ FreeAll(q, S).live = q.live \ S
<1>1. IsFiniteSet(q.live \ S)
  BY FS_Difference DEF IsProc
<1> QED
  BY <1>1 DEF FreeAll, Same, IsProc, Procs, Calls

LEMMA FreesRest ==
  ASSUME NEW x, NEW objs, NEW base, IsProc(x), objs \cap base = {}, x.live = base \cup objs
  PROVE  Same(x, FreeAll(x, objs)) /\ FreeAll(x, objs).live = base
<1>1. objs \in SUBSET x.live /\ x.live \ objs = base
  OBVIOUS
<1> QED
  BY <1>1, FreeAllIs

LEMMA SameTrans ==
  ASSUME NEW q, NEW r, NEW s, Same(q, r), Same(r, s)
  PROVE  Same(q, s)
BY DEF Same, Calls

LEMMA SameRefl ==
  ASSUME NEW q, IsProc(q)
  PROVE  Same(q, q)
BY DEF Same, Calls

-----------------------------------------------------------------------------
(***************************************************************************)
(* The chain of results.                                                   *)
(***************************************************************************)
LEMMA GivesIs ==
  ASSUME NEW q, NEW base, NEW x, NEW n \in Nat, NEW objs, Same(q, x),
         objs \cap base = {}, x.live = base \cup objs
  PROVE  Result(q, base, Gives(x, objs, n))
BY DEF Result, Gives, Same, IsProc, Procs

LEMMA FailsIs ==
  ASSUME NEW q, NEW x, Same(q, x)
  PROVE  Result(q, x.live, Fails(x))
BY DEF Result, Fails, Same, IsProc, Procs

LEMMA FreeThenFailIs ==
  ASSUME NEW q, NEW base, NEW x, NEW objs, Same(q, x),
         objs \cap base = {}, x.live = base \cup objs
  PROVE  Result(q, base, FreeThenFail(x, objs))
<1>1. PICK y : y = FreeAll(x, objs)
  OBVIOUS
<1>2. Same(x, y) /\ y.live = base
  <2>1. IsProc(x)
    BY DEF Same
  <2> QED
    BY <1>1, <2>1, FreesRest
<1>3. Same(q, y)
  BY <1>2, SameTrans
<1>4. Result(q, y.live, Fails(y))
  BY <1>3, FailsIs
<1> QED
  BY <1>1, <1>2, <1>4 DEF FreeThenFail

LEMMA TryIs ==
  ASSUME NEW q, NEW base, NEW r, Result(q, base, r)
  PROVE  Result(q, base, Try(r)) /\ Keeps(r, Try(r))
<1>1. CASE ~r.ok
  BY <1>1 DEF Try, Keeps
<1>2. CASE r.ok
  <2> DEFINE a == Failed(r.p)
             b == Passed(r.p)
  <2>1. Try(r) = IF r.p.left = 0 THEN FreeThenFail(a, r.objs) ELSE Gives(b, r.objs, r.n)
    BY <1>2 DEF Try, Call, Failed, Passed
  <2>2. Same(q, r.p) /\ IsProc(r.p) /\ r.n \in Nat
    BY DEF Result, Same
  <2>3. Same(q, a) /\ a.live = r.p.live /\ Same(q, b) /\ b.live = r.p.live
    BY <2>2, FailedIs, PassedIs, SameTrans
  <2> HIDE DEF a, b
  <2>4. r.objs \cap base = {} /\ r.p.live = base \cup r.objs
    BY DEF Result
  <2>5. Result(q, base, FreeThenFail(a, r.objs)) /\ Result(q, base, Gives(b, r.objs, r.n))
    BY <2>2, <2>3, <2>4, FreeThenFailIs, GivesIs
  <2>6. Keeps(r, FreeThenFail(a, r.objs)) /\ Keeps(r, Gives(b, r.objs, r.n))
    BY <1>2 DEF Keeps, FreeThenFail, Fails, Gives
  <2> QED
    BY <2>1, <2>5, <2>6
<1>3. r.ok \in BOOLEAN
  BY DEF Result
<1> QED
  BY <1>1, <1>2

LEMMA TakeIs ==
  ASSUME NEW q, NEW base, NEW r, Result(q, base, r)
  PROVE  Result(q, base, Take(r)) /\ Keeps(r, Take(r))
<1>1. CASE ~r.ok
  BY <1>1 DEF Take, Keeps
<1>2. CASE r.ok
  <2> DEFINE o == Unused(r.p.live)
             a == Failed(r.p)
             b == Got(r.p, o)
             objs == r.objs \cup {o}
  <2>1. Take(r) = IF r.p.left = 0 THEN FreeThenFail(a, r.objs) ELSE Gives(b, objs, r.n)
    BY <1>2 DEF Take, Alloc, AllocAt, Call, Failed, Passed, Got
  <2>2. Same(q, r.p) /\ IsProc(r.p) /\ r.n \in Nat
    BY DEF Result, Same
  <2>3. o \in Nat \ {Null} /\ o \notin r.p.live
    BY <2>2, UnusedIs DEF IsProc
  <2> HIDE DEF o
  <2>4. Same(q, a) /\ a.live = r.p.live /\ Same(q, b) /\ b.live = r.p.live \cup {o}
    BY <2>2, <2>3, FailedIs, GotIs, SameTrans
  <2> HIDE DEF a, b
  <2>5. r.objs \cap base = {} /\ r.p.live = base \cup r.objs
    BY DEF Result
  <2>6. objs \cap base = {} /\ b.live = base \cup objs
    BY <2>3, <2>4, <2>5
  <2>7. Result(q, base, FreeThenFail(a, r.objs))
    BY <2>2, <2>4, <2>5, FreeThenFailIs
  <2>8. Result(q, base, Gives(b, objs, r.n))
    <3> HIDE DEF objs
    <3> QED
      BY <2>2, <2>4, <2>6, GivesIs
  <2>9. Keeps(r, FreeThenFail(a, r.objs)) /\ Keeps(r, Gives(b, objs, r.n))
    BY <1>2 DEF Keeps, FreeThenFail, Fails, Gives
  <2> QED
    BY <2>1, <2>7, <2>8, <2>9
<1>3. r.ok \in BOOLEAN
  BY DEF Result
<1> QED
  BY <1>1, <1>2

LEMMA DiscardedIs ==
  ASSUME NEW q, NEW base, NEW r, Result(q, base, r)
  PROVE  Result(q, base, Discarded(r)) /\ ~Discarded(r).ok
<1>1. Same(q, r.p) /\ r.objs \cap base = {} /\ r.p.live = base \cup r.objs
  BY DEF Result
<1>2. Result(q, base, FreeThenFail(r.p, r.objs)) /\ ~FreeThenFail(r.p, r.objs).ok
  BY <1>1, FreeThenFailIs DEF FreeThenFail, Fails
<1>3. r.ok \in BOOLEAN
  BY DEF Result
<1> QED
  BY <1>2, <1>3 DEF Discarded

LEMMA ReleasedIs ==
  ASSUME NEW q, NEW base, NEW r, Result(q, base, r)
  PROVE  Result(q, base, Released(r)) /\ Released(r).objs = {}
<1>1. Same(q, r.p) /\ r.objs \cap base = {} /\ r.p.live = base \cup r.objs /\ r.n \in Nat /\ (~r.ok => r.objs = {})
  BY DEF Result
<1> DEFINE x == FreeAll(r.p, r.objs)
<1>2. Same(r.p, x) /\ x.live = base
  <2>1. IsProc(r.p)
    BY <1>1 DEF Same
  <2> QED
    BY <1>1, <2>1, FreesRest
<1>3. Same(q, x)
  BY <1>1, <1>2, SameTrans
<1> HIDE DEF x
<1>4. Result(q, base, Gives(x, {}, r.n)) /\ Gives(x, {}, r.n).objs = {}
  BY <1>1, <1>2, <1>3, GivesIs DEF Gives
<1> QED
  BY <1>1, <1>4 DEF Released, x

\* A result of the process of another result, when nothing was handed over
LEMMA ResultTrans ==
  ASSUME NEW q, NEW x, NEW base, NEW r, Same(q, x), Result(x, base, r)
  PROVE  Result(q, base, r)
BY SameTrans DEF Result

\* A function that begins with nothing
LEMMA Begins ==
  ASSUME NEW q, IsProc(q)
  PROVE  Result(q, q.live, Gives(q, {}, 0))
BY SameRefl, GivesIs

-----------------------------------------------------------------------------
(***************************************************************************)
(* The helps of a line.                                                    *)
(***************************************************************************)
LEMMA AllocIs ==
  ASSUME NEW q, IsProc(q), NEW o, o = Unused(q.live)
  PROVE  /\ o \in Nat \ {Null} /\ o \notin q.live
         /\ Same(q, Failed(q)) /\ Failed(q).live = q.live
         /\ Same(q, Got(q, o)) /\ Got(q, o).live = q.live \cup {o}
<1>1. o \in Nat \ {Null} /\ o \notin q.live
  BY UnusedIs DEF IsProc
<1> QED
  BY <1>1, FailedIs, GotIs

LEMMA WithoutDescIs ==
  ASSUME NEW q, NEW base, NEW r, NEW tmp, Result(q, base, r), r.ok => tmp \in r.objs
  PROVE  Result(q, base, WithoutDesc(r, tmp))
<1>1. CASE ~r.ok
  BY <1>1 DEF WithoutDesc
<1>2. CASE r.ok
  <2>1. Same(q, r.p) /\ IsProc(r.p) /\ tmp \in r.p.live /\ tmp \in r.objs
    BY <1>2 DEF Result, Same
  <2>2. PICK x : x = Free(r.p, tmp)
    OBVIOUS
  <2>3. Same(r.p, x) /\ x.live = r.p.live \ {tmp}
    BY <2>1, <2>2, FreeIs
  <2>4. Same(q, x)
    BY <2>1, <2>3, SameTrans
  <2>5. PICK objs : objs = r.objs \ {tmp}
    OBVIOUS
  <2>6. objs \cap base = {} /\ x.live = base \cup objs
    BY <2>1, <2>3, <2>5 DEF Result
  <2>7. Result(q, base, Gives(x, objs, 1))
    BY <2>4, <2>6, GivesIs
  <2> QED
    BY <1>2, <2>2, <2>5, <2>7 DEF WithoutDesc
<1>3. r.ok \in BOOLEAN
  BY DEF Result
<1> QED
  BY <1>1, <1>2

LEMMA GetNodeHelpIs ==
  ASSUME NEW q, IsProc(q)
  PROVE  Result(q, q.live, GetNodeHelp(q))
<1>1. PICK o : o = Unused(q.live)
  OBVIOUS
<1>2. PICK a : a = Failed(q)
  OBVIOUS
<1>3. PICK b : b = Got(q, o)
  OBVIOUS
<1>4. PICK d : d = Unused(b.live)
  OBVIOUS
<1>5. PICK c : c = Failed(b)
  OBVIOUS
<1>6. PICK e : e = Got(b, d)
  OBVIOUS
<1>7. PICK s : s = Gives(c, {o}, 0)
  OBVIOUS
<1>8. PICK t : t = Gives(e, {o, d}, 0)
  OBVIOUS
<1>9. GetNodeHelp(q) =
       IF q.left = 0 THEN Fails(a) ELSE IF b.left = 0 THEN Discarded(Take(s)) ELSE WithoutDesc(Take(t), o)
  BY <1>1, <1>2, <1>3, <1>4, <1>5, <1>6, <1>7, <1>8 DEF GetNodeHelp, Alloc, AllocAt, Call, Failed, Passed, Got
<1>10. o \notin q.live /\ Same(q, a) /\ a.live = q.live /\ Same(q, b) /\ b.live = q.live \cup {o} /\ IsProc(b)
  BY <1>1, <1>2, <1>3, AllocIs DEF Same
<1>11. d \notin b.live /\ Same(b, c) /\ c.live = b.live /\ Same(b, e) /\ e.live = b.live \cup {d}
  BY <1>4, <1>5, <1>6, <1>10, AllocIs
<1>12. Same(q, c) /\ Same(q, e)
  BY <1>10, <1>11, SameTrans
<1>13. Result(q, q.live, Fails(a))
  BY <1>10, FailsIs
<1>14. Result(q, q.live, Discarded(Take(s)))
  <2>1. Result(q, q.live, s)
    <3>1. {o} \cap q.live = {} /\ c.live = q.live \cup {o}
      BY <1>10, <1>11
    <3> QED
      BY <1>7, <1>12, <3>1, GivesIs
  <2> QED
    BY <2>1, TakeIs, DiscardedIs
<1>15. Result(q, q.live, WithoutDesc(Take(t), o))
  <2>1. Result(q, q.live, t)
    <3>1. {o, d} \cap q.live = {} /\ e.live = q.live \cup {o, d}
      BY <1>10, <1>11
    <3> QED
      BY <1>8, <1>12, <3>1, GivesIs
  <2>2. Result(q, q.live, Take(t)) /\ Keeps(t, Take(t))
    BY <2>1, TakeIs
  <2>3. Take(t).ok => o \in Take(t).objs
    BY <1>8, <2>2 DEF Keeps, Gives
  <2> QED
    BY <2>2, <2>3, WithoutDescIs
<1> QED
  BY <1>9, <1>13, <1>14, <1>15

\* A loop that begins with objects: what a turn adds
LEMMA AddHelpIs ==
  ASSUME NEW q, NEW base, NEW r, NEW s, Result(q, base, r), r.ok, Result(r.p, r.p.live, s)
  PROVE  Result(q, base, AddHelp(r, s))
<1>1. Same(q, r.p) /\ r.objs \cap base = {} /\ r.p.live = base \cup r.objs /\ r.n \in Nat
  BY DEF Result
<1>2. Same(r.p, s.p) /\ s.objs \cap r.p.live = {} /\ s.p.live = r.p.live \cup s.objs /\ (~s.ok => s.objs = {})
  BY DEF Result
<1>3. Same(q, s.p) /\ r.n + 1 \in Nat
  BY <1>1, <1>2, SameTrans
<1>4. PICK objs : objs = r.objs \cup s.objs
  OBVIOUS
<1>5. objs \cap base = {} /\ s.p.live = base \cup objs
  BY <1>1, <1>2, <1>4
<1>6. Result(q, base, Gives(s.p, objs, r.n + 1))
  BY <1>3, <1>5, GivesIs
<1>7. ~s.ok => Result(q, base, FreeThenFail(s.p, r.objs))
  BY <1>1, <1>2, <1>3, FreeThenFailIs
<1>8. s.ok \in BOOLEAN
  BY DEF Result
<1> QED
  BY <1>4, <1>6, <1>7, <1>8 DEF AddHelp

LEMMA HelpNextIs ==
  ASSUME NEW q, NEW base, NEW r, Result(q, base, r)
  PROVE  Result(q, base, HelpNext(r))
<1>1. r.ok \in BOOLEAN /\ IsProc(r.p)
  BY DEF Result, Same
<1>2. Result(r.p, r.p.live, GetNodeHelp(r.p))
  BY <1>1, GetNodeHelpIs
<1>3. r.ok => Result(q, base, AddHelp(r, GetNodeHelp(r.p)))
  BY <1>2, AddHelpIs
<1> QED
  BY <1>1, <1>3 DEF HelpNext

\* the array of helps, one more for each group
LEMMA HelpEachIs ==
  ASSUME NEW q, NEW base, NEW r, NEW todo \in Nat, Result(q, base, r)
  PROVE  Result(q, base, HelpEach(r, todo))
<1> DEFINE f[k \in 0..todo] == IF k = 0 THEN r ELSE HelpNext(Try(f[k - 1]))
           D == {x \in [ok : BOOLEAN, p : Procs, objs : SUBSET (Nat \ {Null}), n : Nat] : Result(q, base, x)}
<1>1. r \in D
  BY DEF Result
<1>2. \A x \in D : HelpNext(Try(x)) \in D
  <2> SUFFICES ASSUME NEW x \in D PROVE HelpNext(Try(x)) \in D
    OBVIOUS
  <2>1. PICK y : y = HelpNext(Try(x))
    OBVIOUS
  <2>2. Result(q, base, y)
    BY <2>1, TryIs, HelpNextIs
  <2>3. y \in [ok : BOOLEAN, p : Procs, objs : SUBSET (Nat \ {Null}), n : Nat]
    BY <2>2 DEF Result
  <2> QED
    BY <2>1, <2>2, <2>3
<1> HIDE DEF D
<1>3. PICK H : H = [k \in 1..todo |-> [x \in D |-> HelpNext(Try(x))]]
  OBVIOUS
<1>4. H \in [1..todo -> [D -> D]]
  BY <1>2, <1>3
<1>5. PICK g : Recursive(g, todo, D, r, H)
  BY <1>1, <1>4, Recursion
<1>6. g = [k \in 0..todo |-> IF k = 0 THEN r ELSE HelpNext(Try(g[k - 1]))]
  <2>1. ASSUME NEW k \in 1..todo PROVE g[k] = HelpNext(Try(g[k - 1]))
    <3>1. k - 1 \in 0..todo
      OBVIOUS
    <3>2. g[k - 1] \in D
      BY <1>5, <3>1 DEF Recursive
    <3> QED
      BY <1>3, <1>5, <3>2 DEF Recursive
  <2> QED
    BY <1>5, <2>1 DEF Recursive
<1>7. f = [k \in 0..todo |-> IF k = 0 THEN r ELSE HelpNext(Try(f[k - 1]))]
  BY <1>6 DEF f
<1>8. HelpEach(r, todo) = f[todo]
  BY DEF HelpEach
<1> HIDE DEF f
<1> DEFINE S == {k \in 0..todo : f[k] \in D}
<1>9. 0 \in S
  BY <1>1, <1>7
<1>10. ASSUME NEW k \in 0..(todo - 1), k \in S PROVE k + 1 \in S
  <2>1. k + 1 \in 0..todo /\ k + 1 # 0 /\ (k + 1) - 1 = k
    OBVIOUS
  <2>2. f[k + 1] = HelpNext(Try(f[k]))
    BY <1>7, <2>1
  <2> QED
    BY <1>2, <1>10, <2>1, <2>2
<1>11. 0..todo \subseteq S
  <2> HIDE DEF S
  <2> QED
    BY <1>9, <1>10, Induction
<1>12. f[todo] \in D
  BY <1>11
<1> QED
  BY <1>8, <1>12 DEF D

LEMMA CountIs ==
  ASSUME NEW q, NEW base, NEW r, Result(q, base, r), NEW n \in Nat
  PROVE  Result(q, base, [r EXCEPT !.n = n])
BY DEF Result

LEMMA ReleasingIs ==
  ASSUME NEW q, NEW base, NEW r, NEW objs, Result(q, base \cup objs, r), objs \cap base = {}
  PROVE  Result(q, base, Releasing(r, objs))
<1>1. Same(q, r.p) /\ IsProc(r.p)
  BY DEF Result, Same
<1>2. PICK x : x = FreeAll(r.p, objs)
  OBVIOUS
<1>3. PICK rest : rest = base \cup r.objs
  OBVIOUS
<1>4. objs \cap rest = {} /\ r.p.live = rest \cup objs
  BY <1>3 DEF Result
<1>5. Same(r.p, x) /\ x.live = rest
  BY <1>1, <1>2, <1>4, FreesRest
<1>6. Same(q, x) /\ x \in Procs
  BY <1>1, <1>5, SameTrans DEF Same, IsProc
<1>7. Releasing(r, objs) = [r EXCEPT !.p = x]
  BY <1>2 DEF Releasing
<1> QED
  BY <1>3, <1>5, <1>6, <1>7 DEF Result

LEMMA ReturnHelpIs ==
  ASSUME NEW q, NEW base, NEW r, Result(q, base, r)
  PROVE  Result(q, base, ReturnHelp(r))
<1>1. PICK s : s = Take(Take(r))
  OBVIOUS
<1>2. Result(q, base, s)
  BY <1>1, TakeIs
<1>3. PICK n \in Nat : n = IF s.ok THEN 1 ELSE 0
  OBVIOUS
<1>4. Result(q, base, [s EXCEPT !.n = n])
  BY <1>2, CountIs
<1> QED
  BY <1>1, <1>3, <1>4 DEF ReturnHelp

LEMMA HelpArrayIs ==
  ASSUME NEW q, IsProc(q), NEW matches
  PROVE  Result(q, q.live, HelpArray(q, matches))
<1>1. PICK r : r = Take(Gives(q, {}, 0))
  OBVIOUS
<1>2. Result(q, q.live, r)
  BY <1>1, Begins, TakeIs
<1>3. HelpArray(q, matches) = IF matches THEN ReturnHelp(r) ELSE r
  BY <1>1 DEF HelpArray
<1> QED
  BY <1>2, <1>3, ReturnHelpIs

LEMMA GetHelpsOfIs ==
  ASSUME NEW q, IsProc(q), NEW matches, NEW groups \in Nat
  PROVE  Result(q, q.live, GetHelpsOf(q, matches, groups))
<1>1. PICK o : o = Unused(q.live)
  OBVIOUS
<1>2. PICK a : a = Failed(q)
  OBVIOUS
<1>3. PICK b : b = Got(q, o)
  OBVIOUS
<1>4. PICK h : h = HelpEach(HelpArray(b, matches), groups)
  OBVIOUS
<1>5. GetHelpsOf(q, matches, groups) = IF q.left = 0 THEN Fails(a) ELSE Releasing(h, {o})
  BY <1>1, <1>2, <1>3, <1>4 DEF GetHelpsOf, Alloc, AllocAt, Call, Failed, Passed, Got
<1>6. o \notin q.live /\ Same(q, a) /\ a.live = q.live /\ Same(q, b) /\ b.live = q.live \cup {o} /\ IsProc(b)
  BY <1>1, <1>2, <1>3, AllocIs DEF Same
<1>7. Result(b, b.live, h)
  BY <1>4, <1>6, HelpArrayIs, HelpEachIs
<1>8. Result(q, q.live \cup {o}, h)
  BY <1>6, <1>7, ResultTrans
<1>9. Result(q, q.live, Releasing(h, {o}))
  <2>1. {o} \cap q.live = {}
    BY <1>6
  <2> QED
    BY <1>8, <2>1, ReleasingIs
<1>10. Result(q, q.live, Fails(a))
  BY <1>6, FailsIs
<1> QED
  BY <1>5, <1>9, <1>10

LEMMA GetHelpsIs ==
  ASSUME NEW q, IsProc(q), NEW l, l.groups \in Nat
  PROVE  Result(q, q.live, GetHelps(q, l))
<1>1. PICK o : o = Unused(q.live)
  OBVIOUS
<1>2. PICK a : a = Failed(q)
  OBVIOUS
<1>3. PICK b : b = Got(q, o)
  OBVIOUS
<1>4. PICK c : c = Free(b, o)
  OBVIOUS
<1>5. GetHelps(q, l) =
       IF q.left = 0 THEN GetHelpsOf(a, FALSE, l.groups) ELSE GetHelpsOf(c, l.matches, l.groups)
  BY <1>1, <1>2, <1>3, <1>4 DEF GetHelps, Alloc, AllocAt, Call, Failed, Passed, Got
<1>6. o \notin q.live /\ Same(q, a) /\ a.live = q.live /\ Same(q, b) /\ b.live = q.live \cup {o}
  BY <1>1, <1>2, <1>3, AllocIs
<1>7. Same(b, c) /\ c.live = q.live
  <2>1. IsProc(b) /\ o \in b.live \cup {Null} /\ b.live \ {o} = q.live
    BY <1>6 DEF Same
  <2> QED
    BY <1>4, <2>1, FreeIs
<1>8. Same(q, c) /\ IsProc(a) /\ IsProc(c)
  BY <1>6, <1>7, SameTrans DEF Same
<1>9. Result(a, q.live, GetHelpsOf(a, FALSE, l.groups)) /\ Result(c, q.live, GetHelpsOf(c, l.matches, l.groups))
  BY <1>6, <1>7, <1>8, GetHelpsOfIs
<1> QED
  BY <1>5, <1>6, <1>8, <1>9, ResultTrans

-----------------------------------------------------------------------------
(***************************************************************************)
(* The search for the longest prefix that is right.                        *)
(***************************************************************************)
Turn(q, base, x) ==
  /\ x \in [more : BOOLEAN, r : [ok : BOOLEAN, p : Procs, objs : SUBSET (Nat \ {Null}), n : Nat]]
  /\ Result(q, base, x.r)

LEMMA TurnIs ==
  ASSUME NEW q, NEW base, NEW r, Result(q, base, r)
  PROVE  Turn(q, base, GoesOn(r)) /\ Turn(q, base, Ends(r))
<1>1. r \in [ok : BOOLEAN, p : Procs, objs : SUBSET (Nat \ {Null}), n : Nat]
  BY DEF Result
<1> QED
  BY <1>1 DEF Turn, GoesOn, Ends

LEMMA HelpsIs ==
  ASSUME NEW q, NEW base, NEW r, Result(q, base, r), NEW l, l.right.groups \in Nat
  PROVE  Result(q, base, Helps(r, l))
<1>1. Same(q, r.p) /\ IsProc(r.p) /\ r.objs \cap base = {} /\ r.p.live = base \cup r.objs
  BY DEF Result, Same
<1>2. Result(r.p, r.p.live, GetHelps(r.p, l.right))
  BY <1>1, GetHelpsIs
<1>3. Result(q, base \cup r.objs, GetHelps(r.p, l.right))
  BY <1>1, <1>2, ResultTrans
<1> QED
  BY <1>1, <1>3, ReleasingIs DEF Helps

LEMMA TryPrefixIs ==
  ASSUME NEW q, NEW base, NEW r, Result(q, base, r), NEW l, l.right.groups \in Nat, NEW i
  PROVE  Turn(q, base, TryPrefix(r, l, i))
<1>1. PICK s : s = Take(Take(Try(Take(r))))
  OBVIOUS
<1>2. Result(q, base, s) /\ Keeps(r, s)
  <2>1. PICK t : t = Take(r)
    OBVIOUS
  <2>2. PICK u : u = Try(t)
    OBVIOUS
  <2>3. PICK v : v = Take(u)
    OBVIOUS
  <2>4. Result(q, base, t) /\ Keeps(r, t)
    BY <2>1, TakeIs
  <2>5. Result(q, base, u) /\ Keeps(t, u)
    BY <2>2, <2>4, TryIs
  <2>6. Result(q, base, v) /\ Keeps(u, v)
    BY <2>3, <2>5, TakeIs
  <2>7. Result(q, base, s) /\ Keeps(v, s)
    BY <1>1, <2>1, <2>2, <2>3, <2>6, TakeIs
  <2> QED
    BY <2>4, <2>5, <2>6, <2>7 DEF Keeps
<1>3. PICK x : x = FreeAll(s.p, s.objs \ r.objs)
  OBVIOUS
<1>4. TryPrefix(r, l, i) =
       IF ~s.ok THEN Ends(s)
       ELSE IF i \notin l.hits THEN GoesOn(Gives(x, r.objs, 0))
       ELSE Ends(IF NoPosition(l, i) THEN Discarded(s) ELSE Helps(s, l))
  BY <1>1, <1>3 DEF TryPrefix
<1>5. s.ok => Result(q, base, Gives(x, r.objs, 0))
  <2> SUFFICES ASSUME s.ok PROVE Result(q, base, Gives(x, r.objs, 0))
    OBVIOUS
  <2>1. Same(q, s.p) /\ IsProc(s.p) /\ s.objs \cap base = {} /\ s.p.live = base \cup s.objs /\ r.objs \subseteq s.objs
    BY <1>2 DEF Result, Same, Keeps
  <2>2. PICK rest : rest = base \cup r.objs
    OBVIOUS
  <2>3. (s.objs \ r.objs) \cap rest = {} /\ s.p.live = rest \cup (s.objs \ r.objs)
    BY <2>1, <2>2
  <2>4. Same(s.p, x) /\ x.live = rest
    BY <1>3, <2>1, <2>3, FreesRest
  <2>5. Same(q, x) /\ r.objs \cap base = {} /\ x.live = base \cup r.objs
    BY <2>1, <2>2, <2>4, SameTrans
  <2> QED
    BY <2>5, GivesIs
<1>6. Result(q, base, Discarded(s)) /\ Result(q, base, Helps(s, l))
  BY <1>2, DiscardedIs, HelpsIs
<1>7. Turn(q, base, Ends(s)) /\ (s.ok => Turn(q, base, GoesOn(Gives(x, r.objs, 0))))
  BY <1>2, <1>5, TurnIs
<1>8. Turn(q, base, Ends(Discarded(s))) /\ Turn(q, base, Ends(Helps(s, l)))
  BY <1>6, TurnIs
<1>9. CASE ~s.ok
  BY <1>4, <1>7, <1>9
<1>10. CASE s.ok
  BY <1>4, <1>7, <1>8, <1>10
<1>11. s.ok \in BOOLEAN
  BY <1>2 DEF Result
<1> QED
  BY <1>9, <1>10, <1>11

LEMMA TryNextIs ==
  ASSUME NEW q, NEW base, NEW x, Turn(q, base, x), NEW l, l.right.groups \in Nat, NEW i
  PROVE  Turn(q, base, TryNext(x, l, i))
<1>1. Turn(q, base, TryPrefix(x.r, l, i))
  BY TryPrefixIs DEF Turn
<1> QED
  BY <1>1 DEF TryNext

LEMMA FoundIs ==
  ASSUME NEW q, NEW base, NEW x, Turn(q, base, x)
  PROVE  Result(q, base, Found(x))
BY ReleasedIs DEF Found, Turn

LEMMA TryPrefixesIs ==
  ASSUME NEW q, NEW base, NEW r, Result(q, base, r), NEW l, l.words \in Nat, l.right.groups \in Nat
  PROVE  Result(q, base, TryPrefixes(r, l))
<1> DEFINE f[k \in 0..(l.words + 1)] == IF k = 0 THEN GoesOn(r) ELSE TryNext(f[k - 1], l, l.words + 1 - k)
           D == {x \in [more : BOOLEAN, r : [ok : BOOLEAN, p : Procs, objs : SUBSET (Nat \ {Null}), n : Nat]] :
                   Turn(q, base, x)}
<1>0. l.words + 1 \in Nat
  OBVIOUS
<1>1. GoesOn(r) \in D
  BY TurnIs DEF Turn
<1>2. \A i : \A x \in D : TryNext(x, l, i) \in D
  <2> SUFFICES ASSUME NEW x \in D, NEW i PROVE TryNext(x, l, i) \in D
    OBVIOUS
  <2>1. Turn(q, base, TryNext(x, l, i))
    BY TryNextIs
  <2> QED
    BY <2>1 DEF Turn
<1> HIDE DEF D
<1>3. PICK H : H = [k \in 1..(l.words + 1) |-> [x \in D |-> TryNext(x, l, l.words + 1 - k)]]
  OBVIOUS
<1>4. H \in [1..(l.words + 1) -> [D -> D]]
  BY <1>2, <1>3
<1>5. PICK g : Recursive(g, (l.words + 1), D, GoesOn(r), H)
  BY <1>0, <1>1, <1>4, Recursion
<1>6. g = [k \in 0..(l.words + 1) |-> IF k = 0 THEN GoesOn(r) ELSE TryNext(g[k - 1], l, l.words + 1 - k)]
  <2>1. ASSUME NEW k \in 1..(l.words + 1) PROVE g[k] = TryNext(g[k - 1], l, l.words + 1 - k)
    <3>1. k - 1 \in 0..(l.words + 1)
      BY <1>0
    <3>2. g[k - 1] \in D
      BY <1>5, <3>1 DEF Recursive
    <3> QED
      BY <1>3, <1>5, <3>2 DEF Recursive
  <2> QED
    BY <1>0, <1>5, <2>1 DEF Recursive
<1>7. f = [k \in 0..(l.words + 1) |-> IF k = 0 THEN GoesOn(r) ELSE TryNext(f[k - 1], l, l.words + 1 - k)]
  BY <1>6 DEF f
<1>8. TryPrefixes(r, l) = Found(f[l.words + 1])
  BY DEF TryPrefixes
<1> HIDE DEF f
<1> DEFINE S == {k \in 0..(l.words + 1) : f[k] \in D}
<1>9. 0 \in S
  BY <1>0, <1>1, <1>7
<1>10. ASSUME NEW k \in 0..((l.words + 1) - 1), k \in S PROVE k + 1 \in S
  <2>1. k + 1 \in 0..(l.words + 1) /\ k + 1 \in 1..(l.words + 1) /\ k + 1 # 0 /\ (k + 1) - 1 = k
    BY <1>0
  <2>2. f[k + 1] = TryNext(f[k], l, l.words + 1 - (k + 1))
    BY <1>7, <2>1
  <2> QED
    BY <1>2, <1>10, <2>1, <2>2
<1>11. 0..(l.words + 1) \subseteq S
  <2> HIDE DEF S
  <2> QED
    BY <1>0, <1>9, <1>10, Induction
<1>12. f[(l.words + 1)] \in D
  BY <1>0, <1>11
<1> QED
  BY <1>8, <1>12, FoundIs DEF D

LEMMA GetErrorHelpsIs ==
  ASSUME NEW q, IsProc(q), NEW l, l.words \in Nat, l.right.groups \in Nat
  PROVE  Result(q, q.live, GetErrorHelps(q, l))
<1>1. PICK copy : copy = Take(Gives(q, {}, 0))
  OBVIOUS
<1>2. PICK vec : vec = Take(copy)
  OBVIOUS
<1>3. Result(q, q.live, copy)
  BY <1>1, Begins, TakeIs
<1>4. Result(q, q.live, vec)
  BY <1>2, <1>3, TakeIs
<1>5. Result(q, q.live, Discarded(copy)) /\ Result(q, q.live, TryPrefixes(vec, l))
  BY <1>3, <1>4, DiscardedIs, TryPrefixesIs
<1>6. GetErrorHelps(q, l) = IF l.open THEN Discarded(copy) ELSE IF vec.ok THEN TryPrefixes(vec, l) ELSE vec
  BY <1>1, <1>2 DEF GetErrorHelps
<1> QED
  BY <1>4, <1>5, <1>6

-----------------------------------------------------------------------------
(***************************************************************************)
(* The completion key.                                                     *)
(***************************************************************************)
LEMMA MatchNextIs ==
  ASSUME NEW q, NEW base, NEW r, Result(q, base, r)
  PROVE  Result(q, base, MatchNext(r))
<1>1. PICK t : t = IF r.objs = {} THEN Take(r) ELSE Try(r)
  OBVIOUS
<1>2. PICK s : s = Take(t)
  OBVIOUS
<1>3. Result(q, base, t)
  BY <1>1, TakeIs, TryIs
<1>4. Result(q, base, s)
  BY <1>2, <1>3, TakeIs
<1>5. PICK n : n = s.n + IF s.ok THEN 1 ELSE 0
  OBVIOUS
<1>6. s.n \in Nat
  BY <1>4 DEF Result
<1>7. n \in Nat
  BY <1>5, <1>6
<1>8. Result(q, base, [s EXCEPT !.n = n])
  BY <1>4, <1>7, CountIs
<1>9. MatchNext(r) = [s EXCEPT !.n = @ + IF s.ok THEN 1 ELSE 0]
  BY <1>1, <1>2 DEF MatchNext
<1>10. MatchNext(r) = [s EXCEPT !.n = n]
  BY <1>5, <1>9
<1> QED
  BY <1>8, <1>10

LEMMA MatchEachIs ==
  ASSUME NEW q, IsProc(q), NEW todo \in Nat
  PROVE  Result(q, q.live, MatchEach(q, todo))
<1> DEFINE f[k \in 0..todo] == IF k = 0 THEN Gives(q, {}, 0) ELSE MatchNext(f[k - 1])
           D == {x \in [ok : BOOLEAN, p : Procs, objs : SUBSET (Nat \ {Null}), n : Nat] : Result(q, q.live, x)}
<1>0. todo \in Nat
  OBVIOUS
<1>1. Gives(q, {}, 0) \in D
  BY Begins DEF Result
<1>2. \A x \in D : MatchNext(x) \in D
  <2> SUFFICES ASSUME NEW x \in D PROVE MatchNext(x) \in D
    OBVIOUS
  <2>1. PICK y : y = MatchNext(x)
    OBVIOUS
  <2>2. Result(q, q.live, y)
    BY <2>1, MatchNextIs
  <2>3. y \in [ok : BOOLEAN, p : Procs, objs : SUBSET (Nat \ {Null}), n : Nat]
    BY <2>2 DEF Result
  <2> QED
    BY <2>1, <2>2, <2>3
<1> HIDE DEF D
<1>3. PICK H : H = [k \in 1..todo |-> [x \in D |-> MatchNext(x)]]
  OBVIOUS
<1>4. H \in [1..todo -> [D -> D]]
  BY <1>2, <1>3
<1>5. PICK g : Recursive(g, todo, D, Gives(q, {}, 0), H)
  BY <1>0, <1>1, <1>4, Recursion
<1>6. g = [k \in 0..todo |-> IF k = 0 THEN Gives(q, {}, 0) ELSE MatchNext(g[k - 1])]
  <2>1. ASSUME NEW k \in 1..todo PROVE g[k] = MatchNext(g[k - 1])
    <3>1. k - 1 \in 0..todo
      BY <1>0
    <3>2. g[k - 1] \in D
      BY <1>5, <3>1 DEF Recursive
    <3> QED
      BY <1>3, <1>5, <3>2 DEF Recursive
  <2> QED
    BY <1>0, <1>5, <2>1 DEF Recursive
<1>7. f = [k \in 0..todo |-> IF k = 0 THEN Gives(q, {}, 0) ELSE MatchNext(f[k - 1])]
  BY <1>6 DEF f
<1>8. MatchEach(q, todo) = f[todo]
  BY DEF MatchEach
<1> HIDE DEF f
<1> DEFINE S == {k \in 0..todo : f[k] \in D}
<1>9. 0 \in S
  BY <1>0, <1>1, <1>7
<1>10. ASSUME NEW k \in 0..(todo - 1), k \in S PROVE k + 1 \in S
  <2>1. k + 1 \in 0..todo /\ k + 1 \in 1..todo /\ k + 1 # 0 /\ (k + 1) - 1 = k
    BY <1>0
  <2>2. f[k + 1] = MatchNext(f[k])
    BY <1>7, <2>1
  <2> QED
    BY <1>2, <1>10, <2>1, <2>2
<1>11. 0..todo \subseteq S
  <2> HIDE DEF S
  <2> QED
    BY <1>0, <1>9, <1>10, Induction
<1>12. f[todo] \in D
  BY <1>0, <1>11
<1> QED
  BY <1>8, <1>12 DEF D

\* what Printed() and the other ends leave in use
Leaves(q, L, r) == Same(q, r) /\ r.live = L

LEMMA PrintedIs ==
  ASSUME NEW q, NEW base, NEW r, Result(q, base, r)
  PROVE  /\ Result(q, base, Printed(r)) /\ Leaves(q, base, Printed(r).p)
         /\ Result(q, base, Released(r)) /\ Leaves(q, base, Released(r).p)
<1>1. Result(q, base, Printed(r)) /\ Printed(r).objs = {}
  BY TryIs, ReleasedIs DEF Printed
<1>2. Result(q, base, Released(r)) /\ Released(r).objs = {}
  BY ReleasedIs
<1> QED
  BY <1>1, <1>2 DEF Result, Leaves

LEMMA HelpKeyIs ==
  ASSUME NEW q, IsProc(q), NEW l, l.words \in Nat, l.groups \in Nat, l.right.groups \in Nat
  PROVE  Leaves(q, q.live, HelpKey(q, l).p)
<1>1. PICK r : r = GetHelps(q, l)
  OBVIOUS
<1>2. Result(q, q.live, r)
  BY <1>1, GetHelpsIs
<1>3. PICK x : x = Released(r).p
  OBVIOUS
<1>4. Same(q, x) /\ x.live = q.live /\ IsProc(x)
  BY <1>2, <1>3, PrintedIs DEF Leaves, Same
<1>5. PICK s : s = GetErrorHelps(x, l)
  OBVIOUS
<1>6. Result(x, q.live, s)
  BY <1>4, <1>5, GetErrorHelpsIs
<1>7. Result(q, q.live, s)
  BY <1>4, <1>6, ResultTrans
<1>8. Leaves(q, q.live, PrintedAny(s).p)
  BY <1>7, PrintedIs DEF PrintedAny
<1>9. HelpKey(q, l) = IF r.ok /\ r.n = 0 THEN PrintedAny(s) ELSE Printed(r)
  BY <1>1, <1>3, <1>5 DEF HelpKey, HelpOrError
<1>10. Leaves(q, q.live, Printed(r).p)
  BY <1>2, PrintedIs
<1> QED
  BY <1>8, <1>9, <1>10

LEMMA InsertIs ==
  ASSUME NEW q, NEW base, NEW r, Result(q, base, r), r.objs = {}, NEW wanted
  PROVE  Result(q, base, Insert(r, wanted)) /\ Insert(r, wanted).objs = {}
<1>1. Result(q, base, Try(r))
  BY TryIs
<1>2. Try(r).objs = {}
  BY DEF Try, Call, FreeThenFail, Fails, Gives
<1> QED
  BY <1>1, <1>2 DEF Insert

LEMMA TabKeyIs ==
  ASSUME NEW q, IsProc(q), NEW l, l.items \in Nat, NEW chars
  PROVE  Leaves(q, q.live, TabKey(q, l, chars).p)
<1>1. Leaves(q, q.live, Printed(MatchEach(q, l.items)).p)
  BY MatchEachIs, PrintedIs
<1>2. PICK r : r = Insert(Gives(q, {}, 0), l.append)
  OBVIOUS
<1>3. Result(q, q.live, r) /\ r.objs = {}
  <2>1. Gives(q, {}, 0).objs = {}
    BY DEF Gives
  <2> QED
    BY <1>2, <2>1, Begins, InsertIs
<1>4. PICK s : s = Insert(r, l.items = 1 /\ l.full)
  OBVIOUS
<1>5. Result(q, q.live, s) /\ s.objs = {}
  BY <1>3, <1>4, InsertIs
<1>6. Leaves(q, q.live, s.p)
  BY <1>5 DEF Result, Leaves
<1>7. TabKey(q, l, chars) =
       IF chars = Null \/ (~l.append /\ l.items # 1) THEN Printed(MatchEach(q, l.items)) ELSE s
  BY <1>2, <1>4 DEF TabKey
<1> QED
  BY <1>1, <1>6, <1>7

LEMMA KeyIs ==
  ASSUME NEW q, IsProc(q), NEW l, {l.words, l.groups, l.items, l.right.groups} \subseteq Nat, NEW key,
         NEW chars \in q.live \cup {Null}
  PROVE  Leaves(q, q.live \ {chars}, Key([p |-> q, chars |-> chars], key, l))
<1>1. PICK x : x = IF key = "?" THEN HelpKey(q, l).p ELSE TabKey(q, l, chars).p
  OBVIOUS
<1>2. Leaves(q, q.live, x)
  BY <1>1, HelpKeyIs, TabKeyIs
<1>3. Key([p |-> q, chars |-> chars], key, l) = Free(x, chars)
  BY <1>1 DEF Key
<1>4. IsProc(x) /\ x.live = q.live /\ Same(q, x)
  BY <1>2 DEF Leaves, Same
<1>5. Same(x, Free(x, chars)) /\ Free(x, chars).live = x.live \ {chars}
  BY <1>4, FreeIs
<1>6. Same(q, Free(x, chars))
  BY <1>4, <1>5, SameTrans
<1> QED
  BY <1>3, <1>4, <1>5, <1>6 DEF Leaves

\* The completion key leaves in use what was in use, whatever fails.
LEMMA CompleteIs ==
  ASSUME NEW q, IsProc(q), NEW l, {l.words, l.groups, l.items, l.right.groups} \subseteq Nat, NEW key, NEW hasNode
  PROVE  Leaves(q, q.live, Complete(q, key, l, hasNode))
<1>1. PICK o : o = Unused(q.live)
  OBVIOUS
<1>2. PICK a : a = Failed(q)
  OBVIOUS
<1>3. PICK b : b = Got(q, o)
  OBVIOUS
<1>4. PICK d : d = Unused(b.live)
  OBVIOUS
<1>5. PICK c : c = Failed(b)
  OBVIOUS
<1>6. PICK e : e = Got(b, d)
  OBVIOUS
<1>7. PICK r : r = AppendChars(e)
  OBVIOUS
<1>8. PICK k : k = Key(r, key, l)
  OBVIOUS
<1>9. Complete(q, key, l, hasNode) =
       IF q.left = 0 THEN a ELSE IF ~hasNode THEN Free(b, o)
       ELSE IF b.left = 0 THEN Free(c, o) ELSE FreeAll(k, {d, o})
  <2>1. CASE q.left = 0
    BY <1>2, <2>1 DEF Complete, Alloc, AllocAt, Call, Failed
  <2>2. CASE q.left # 0 /\ ~hasNode
    BY <1>1, <1>3, <2>2 DEF Complete, Alloc, AllocAt, Call, Passed, Got
  <2>3. CASE q.left # 0 /\ hasNode /\ b.left = 0
    BY <1>1, <1>3, <1>5, <2>3 DEF Complete, Alloc, AllocAt, Call, Failed, Passed, Got
  <2>4. CASE q.left # 0 /\ hasNode /\ b.left # 0
    BY <1>1, <1>3, <1>4, <1>6, <1>7, <1>8, <2>4 DEF Complete, Alloc, AllocAt, Call, Passed, Got
  <2> QED
    BY <2>1, <2>2, <2>3, <2>4
<1>10. /\ o \notin q.live /\ Same(q, a) /\ a.live = q.live /\ Same(q, b) /\ b.live = q.live \cup {o}
       /\ IsProc(b) /\ IsProc(q)
  BY <1>1, <1>2, <1>3, AllocIs DEF Same
<1>11. d \notin b.live /\ Same(b, c) /\ c.live = b.live /\ Same(b, e) /\ e.live = b.live \cup {d} /\ IsProc(c) /\ IsProc(e)
  BY <1>4, <1>5, <1>6, <1>10, AllocIs DEF Same
<1>12. Same(q, c) /\ Same(q, e)
  BY <1>10, <1>11, SameTrans
<1>13. Leaves(q, q.live, a)
  BY <1>10 DEF Leaves
<1>14. Leaves(q, q.live, Free(b, o))
  <2>1. o \in b.live \cup {Null} /\ b.live \ {o} = q.live
    BY <1>10
  <2> QED
    BY <1>10, <2>1, FreeIs, SameTrans DEF Leaves
<1>15. Leaves(q, q.live, Free(c, o))
  <2>1. o \in c.live \cup {Null} /\ c.live \ {o} = q.live
    BY <1>10, <1>11
  <2> QED
    BY <1>11, <1>12, <2>1, FreeIs, SameTrans DEF Leaves
<1>16. Leaves(q, q.live, FreeAll(k, {d, o}))
  <2>1. PICK f : f = Unused(e.live)
    OBVIOUS
  <2>2. PICK g : g = Failed(e)
    OBVIOUS
  <2>3. PICK h : h = Got(e, f)
    OBVIOUS
  <2>4. r = IF e.left = 0 THEN [p |-> g, chars |-> Null] ELSE [p |-> h, chars |-> f]
    BY <1>7, <2>1, <2>2, <2>3 DEF AppendChars, Alloc, AllocAt, Call, Failed, Passed, Got
  <2>5. f \in Nat \ {Null} /\ f \notin e.live /\ Same(e, g) /\ g.live = e.live /\ Same(e, h) /\ h.live = e.live \cup {f}
    BY <1>11, <2>1, <2>2, <2>3, AllocIs
  <2>6. IsProc(g) /\ IsProc(h)
    BY <2>5 DEF Same
  <2>7. Null \notin g.live
    BY <2>6 DEF IsProc, Procs
  <2>8. Leaves(e, e.live, Key([p |-> g, chars |-> Null], key, l))
    <3>1. g.live \ {Null} = e.live
      BY <2>5, <2>7
    <3>2. Leaves(g, e.live, Key([p |-> g, chars |-> Null], key, l))
      BY <2>6, <3>1, KeyIs
    <3> QED
      BY <2>5, <3>2, SameTrans DEF Leaves
  <2>9. Leaves(e, e.live, Key([p |-> h, chars |-> f], key, l))
    <3>1. h.live \ {f} = e.live /\ f \in h.live \cup {Null}
      BY <2>5
    <3>2. Leaves(h, e.live, Key([p |-> h, chars |-> f], key, l))
      BY <2>6, <3>1, KeyIs
    <3> QED
      BY <2>5, <3>2, SameTrans DEF Leaves
  <2>10. Same(e, k) /\ k.live = e.live /\ IsProc(k)
    BY <1>8, <2>4, <2>8, <2>9 DEF Leaves, Same
  <2>11. {d, o} \cap q.live = {} /\ k.live = q.live \cup {d, o}
    BY <1>10, <1>11, <2>10
  <2>12. Same(k, FreeAll(k, {d, o})) /\ FreeAll(k, {d, o}).live = q.live
    BY <2>10, <2>11, FreesRest
  <2>13. Same(q, k)
    BY <1>12, <2>10, SameTrans
  <2>14. Same(q, FreeAll(k, {d, o}))
    BY <2>12, <2>13, SameTrans
  <2> QED
    BY <2>12, <2>14 DEF Leaves
<1> QED
  BY <1>9, <1>13, <1>14, <1>15, <1>16

-----------------------------------------------------------------------------
(***************************************************************************)
(* The lines of a history.                                                 *)
(***************************************************************************)

\* s are the last elements of t
EndOf(s, t) == Len(s) <= Len(t) /\ \A i \in 1..Len(s) : s[i] = t[Len(t) - Len(s) + i]

\* no line repeats the one before it
NoRepeat(s) == \A i \in 1..(Len(s) - 1) : s[i] # s[i + 1]

\* a line that comes after those of t, unless it repeats the last one
Join(t, s) == IF t # <<>> /\ Last(t) = s THEN t ELSE Append(t, s)

LEMMA EndOfIsSuffix ==
  ASSUME NEW S, NEW s \in Seq(S), NEW t \in Seq(S)
  PROVE  EndOf(s, t) => IsSuffix(s, t)
<1> SUFFICES ASSUME EndOf(s, t) PROVE IsSuffix(s, t)
  OBVIOUS
<1>0. Len(s) \in Nat /\ Len(t) \in Nat /\ Len(s) <= Len(t)
  BY DEF EndOf
<1>1. PICK a : a = Reverse(s)
  OBVIOUS
<1>2. PICK b : b = Reverse(t)
  OBVIOUS
<1>3. a \in Seq(S) /\ Len(a) = Len(s) /\ \A i \in 1..Len(s) : a[i] = s[Len(s) - i + 1]
  <2>1. \A i \in 1..Len(s) : Len(s) - i + 1 \in 1..Len(s)
    BY <1>0
  <2> QED
    BY <1>0, <1>1, <2>1 DEF Reverse
<1>4. b \in Seq(S) /\ Len(b) = Len(t) /\ \A i \in 1..Len(t) : b[i] = t[Len(t) - i + 1]
  <2>1. \A i \in 1..Len(t) : Len(t) - i + 1 \in 1..Len(t)
    BY <1>0
  <2> QED
    BY <1>0, <1>2, <2>1 DEF Reverse
<1>5. \A i \in 1..Len(s) : a[i] = b[i]
  <2> SUFFICES ASSUME NEW i \in 1..Len(s) PROVE a[i] = b[i]
    OBVIOUS
  <2>1. i \in 1..Len(t) /\ Len(s) - i + 1 \in 1..Len(s) /\ Len(t) - Len(s) + (Len(s) - i + 1) = Len(t) - i + 1
    BY <1>0
  <2>2. s[Len(s) - i + 1] = t[Len(t) - i + 1]
    BY <2>1 DEF EndOf
  <2> QED
    BY <1>3, <1>4, <2>1, <2>2
<1>6. SubSeq(a, 1, Len(a)) = SubSeq(b, 1, Len(a))
  <2>1. PICK c : c = SubSeq(a, 1, Len(a))
    OBVIOUS
  <2>2. PICK d : d = SubSeq(b, 1, Len(a))
    OBVIOUS
  <2>3. c \in Seq(S) /\ Len(c) = Len(s) /\ \A i \in 1..Len(s) : c[i] = a[i]
    <3>1. \A i \in 1..Len(s) : a[i] \in S /\ Len(s) - 1 + 1 = Len(s) /\ 1 + i - 1 = i
      BY <1>0, <1>3
    <3> QED
      BY <1>0, <1>3, <2>1, <3>1, SubSeqProperties
  <2>4. d \in Seq(S) /\ Len(d) = Len(s) /\ \A i \in 1..Len(s) : d[i] = b[i]
    <3>1. \A i \in 1..Len(s) : b[i] \in S /\ Len(s) - 1 + 1 = Len(s) /\ 1 + i - 1 = i
      BY <1>0, <1>4
    <3> QED
      BY <1>0, <1>3, <2>2, <3>1, SubSeqProperties
  <2>5. c = d
    BY <1>5, <2>3, <2>4, SeqEqual
  <2> QED
    BY <2>1, <2>2, <2>5
<1> QED
  BY <1>0, <1>1, <1>2, <1>3, <1>4, <1>6 DEF IsSuffix, IsPrefix

LEMMA EndOfTrans ==
  ASSUME NEW S, NEW s \in Seq(S), NEW t \in Seq(S), NEW u \in Seq(S), EndOf(s, t), EndOf(t, u)
  PROVE  EndOf(s, u)
<1>0. Len(s) \in Nat /\ Len(t) \in Nat /\ Len(u) \in Nat /\ Len(s) <= Len(t) /\ Len(t) <= Len(u)
  BY DEF EndOf
<1>1. ASSUME NEW i \in 1..Len(s) PROVE s[i] = u[Len(u) - Len(s) + i]
  <2>1. PICK n : n = Len(t) - Len(s) + i
    OBVIOUS
  <2>2. n \in 1..Len(t) /\ Len(u) - Len(t) + n = Len(u) - Len(s) + i
    BY <1>0, <2>1
  <2>3. s[i] = t[n]
    BY <2>1 DEF EndOf
  <2>4. t[n] = u[Len(u) - Len(t) + n]
    BY <2>2 DEF EndOf
  <2> QED
    BY <2>2, <2>3, <2>4
<1> QED
  BY <1>0, <1>1 DEF EndOf

LEMMA LastOfAppend ==
  ASSUME NEW S, NEW t \in Seq(S), NEW s \in S
  PROVE  /\ Append(t, s) \in Seq(S) /\ Append(t, s) # <<>> /\ Len(Append(t, s)) = Len(t) + 1 /\ Len(t) \in Nat
         /\ Last(Append(t, s)) = s /\ \A i \in 1..Len(t) : Append(t, s)[i] = t[i]
BY AppendProperties DEF Last

LEMMA JoinIs ==
  ASSUME NEW S, NEW t \in Seq(S), NEW s \in S
  PROVE  Join(t, s) \in Seq(S) /\ Join(t, s) # <<>> /\ Last(Join(t, s)) = s
BY LastOfAppend DEF Join

LEMMA JoinNoRepeat ==
  ASSUME NEW S, NEW t \in Seq(S), NEW s \in S, NoRepeat(t)
  PROVE  NoRepeat(Join(t, s))
<1>1. CASE t # <<>> /\ Last(t) = s
  BY <1>1 DEF Join
<1>2. CASE ~(t # <<>> /\ Last(t) = s)
  <2>1. PICK u : u = Append(t, s)
    OBVIOUS
  <2>2. Len(u) = Len(t) + 1 /\ Len(t) \in Nat /\ u[Len(t) + 1] = s /\ \A i \in 1..Len(t) : u[i] = t[i]
    BY <2>1, LastOfAppend DEF Last
  <2>3. ASSUME NEW i \in 1..(Len(u) - 1) PROVE u[i] # u[i + 1]
    <3>1. i \in 1..Len(t)
      BY <2>2
    <3>2. CASE i = Len(t)
      <4>1. t # <<>>
        BY <2>2, <3>1, <3>2
      <4> QED
        BY <1>2, <2>2, <3>1, <3>2, <4>1 DEF Last
    <3>3. CASE i # Len(t)
      <4>1. i \in 1..(Len(t) - 1) /\ i + 1 \in 1..Len(t)
        BY <2>2, <3>1, <3>3
      <4> QED
        BY <2>2, <3>1, <4>1 DEF NoRepeat
    <3> QED
      BY <3>2, <3>3
  <2> QED
    BY <1>2, <2>1, <2>3 DEF Join, NoRepeat
<1> QED
  BY <1>1, <1>2

LEMMA EndNoRepeat ==
  ASSUME NEW S, NEW s \in Seq(S), NEW t \in Seq(S), EndOf(s, t), NoRepeat(t)
  PROVE  NoRepeat(s)
<1> SUFFICES ASSUME NEW i \in 1..(Len(s) - 1) PROVE s[i] # s[i + 1]
  BY DEF NoRepeat
<1>1. Len(s) \in Nat /\ Len(t) \in Nat /\ Len(s) <= Len(t)
  BY DEF EndOf
<1>2. PICK k : k = Len(t) - Len(s) + i
  OBVIOUS
<1>3. k \in 1..(Len(t) - 1) /\ k + 1 = Len(t) - Len(s) + (i + 1) /\ i \in 1..Len(s) /\ i + 1 \in 1..Len(s)
  BY <1>1, <1>2
<1>4. s[i] = t[k] /\ s[i + 1] = t[k + 1]
  BY <1>2, <1>3 DEF EndOf
<1>5. t[k] # t[k + 1]
  BY <1>3 DEF NoRepeat
<1> QED
  BY <1>4, <1>5

\* The last n elements of a sequence
LEMMA NewestIs ==
  ASSUME NEW S, NEW t \in Seq(S), NEW n \in 0..Len(t)
  PROVE  LET u == SubSeq(t, Len(t) - n + 1, Len(t)) IN u \in Seq(S) /\ Len(u) = n /\ EndOf(u, t)
<1>1. Len(t) \in Nat /\ n \in Nat /\ n <= Len(t)
  OBVIOUS
<1>2. PICK m : m = Len(t) - n + 1
  OBVIOUS
<1>3. PICK u : u = SubSeq(t, m, Len(t))
  OBVIOUS
<1>4. m \in Int /\ m >= 1 /\ Len(t) - m + 1 = n /\ (m <= Len(t) <=> n # 0)
  BY <1>1, <1>2
<1>5. \A i \in m..Len(t) : t[i] \in S
  BY <1>1, <1>4
<1>6. u \in Seq(S) /\ Len(u) = n /\ \A i \in 1..n : u[i] = t[m + i - 1]
  BY <1>1, <1>3, <1>4, <1>5, SubSeqProperties
<1>7. EndOf(u, t)
  <2>1. ASSUME NEW i \in 1..Len(u) PROVE u[i] = t[Len(t) - Len(u) + i]
    <3>1. m + i - 1 = Len(t) - Len(u) + i
      BY <1>1, <1>2, <1>6
    <3> QED
      BY <1>6, <3>1
  <2> QED
    BY <1>1, <1>6, <2>1 DEF EndOf
<1> QED
  BY <1>2, <1>3, <1>6, <1>7

\* What libedit enters: lines that end those that it would have without limit.
LEMMA EnteredIs ==
  ASSUME NEW past, NEW s \in Names, past.lines \in Seq(Names), past.size \in Nat
  PROVE  /\ Entered(past, s) \in Seq(Names) /\ EndOf(Entered(past, s), Join(past.lines, s))
         /\ past.size # 0 => Entered(past, s) # <<>>
<1>1. PICK t \in Seq(Names) : t = past.lines
  OBVIOUS
<1>2. CASE t # <<>> /\ Last(t) = s
  <2>1. Entered(past, s) = t /\ Join(t, s) = t
    BY <1>1, <1>2 DEF Entered, Join
  <2>2. EndOf(t, t)
    <3>1. Len(t) \in Nat
      OBVIOUS
    <3> QED
      BY <3>1 DEF EndOf
  <2> QED
    BY <1>1, <1>2, <2>1, <2>2
<1>3. CASE ~(t # <<>> /\ Last(t) = s)
  <2>1. PICK all : all = Append(t, s)
    OBVIOUS
  <2>2. all \in Seq(Names) /\ Len(all) = Len(t) + 1 /\ Len(t) \in Nat
    BY <2>1, LastOfAppend
  <2>3. PICK n : n = IF Len(all) > past.size THEN past.size ELSE Len(all)
    OBVIOUS
  <2>4. n \in 0..Len(all) /\ (past.size # 0 => n # 0)
    BY <2>2, <2>3
  <2>5. PICK u : u = SubSeq(all, Len(all) - n + 1, Len(all))
    OBVIOUS
  <2>6. u \in Seq(Names) /\ Len(u) = n /\ EndOf(u, all)
    BY <2>2, <2>4, <2>5, NewestIs
  <2>7. Entered(past, s) = u
    BY <1>1, <1>3, <2>1, <2>3, <2>5 DEF Entered
  <2>8. Join(t, s) = all
    BY <1>3, <2>1 DEF Join
  <2>9. past.size # 0 => u # <<>>
    BY <2>4, <2>6
  <2> QED
    BY <1>1, <2>6, <2>7, <2>8, <2>9
<1> QED
  BY <1>2, <1>3

\* Entering a line keeps the history the end of the log.
LEMMA EnteredEnds ==
  ASSUME NEW past, NEW s \in Names, past.lines \in Seq(Names), past.size \in Nat,
         NEW t \in Seq(Names), EndOf(past.lines, t)
  PROVE  EndOf(Entered(past, s), Join(t, s))
<1>1. PICK l \in Seq(Names) : l = past.lines
  OBVIOUS
<1>2. PICK e : e = Entered(past, s)
  OBVIOUS
<1>3. PICK j : j = Join(l, s)
  OBVIOUS
<1>4. PICK k : k = Join(t, s)
  OBVIOUS
<1>5. e \in Seq(Names) /\ EndOf(e, j) /\ j \in Seq(Names) /\ k \in Seq(Names)
  BY <1>1, <1>2, <1>3, <1>4, EnteredIs, JoinIs
<1>6. EndOf(j, k)
  <2>0. Len(l) \in Nat /\ Len(t) \in Nat /\ Len(l) <= Len(t) /\ EndOf(l, t)
    <3>1. EndOf(l, t)
      BY <1>1
    <3> QED
      BY <3>1 DEF EndOf
  <2>1. CASE l = <<>>
    <3>1. j = Append(l, s) /\ Len(l) = 0
      BY <1>3, <2>1 DEF Join
    <3>2. Len(j) = 1 /\ j[1] = s
      <4>1. Len(j) = Len(l) + 1 /\ Last(j) = s
        BY <3>1, LastOfAppend
      <4>2. Len(j) = 1
        BY <3>1, <4>1
      <4> QED
        BY <4>1, <4>2 DEF Last
    <3>3. k # <<>> /\ Last(k) = s
      BY <1>4, JoinIs
    <3>4. Len(k) \in Nat /\ Len(k) # 0 /\ k[Len(k)] = s
      BY <1>5, <3>3 DEF Last
    <3>5. Len(k) - 1 + 1 = Len(k) /\ \A i \in 1..1 : i = 1
      BY <3>4
    <3>6. \A i \in 1..Len(j) : j[i] = k[Len(k) - Len(j) + i]
      BY <3>2, <3>4, <3>5
    <3>7. Len(j) <= Len(k)
      BY <3>2, <3>4
    <3> QED
      BY <3>6, <3>7 DEF EndOf
  <2>2. CASE l # <<>>
    <3>1. Len(l) # 0 /\ Len(t) # 0 /\ t # <<>>
      BY <2>0, <2>2
    <3>2. Last(l) = Last(t)
      <4>1. Len(l) \in 1..Len(l) /\ Len(t) - Len(l) + Len(l) = Len(t)
        BY <2>0, <3>1
      <4> QED
        BY <2>0, <4>1 DEF EndOf, Last
    <3>3. CASE Last(l) = s
      BY <1>3, <1>4, <2>0, <2>2, <3>1, <3>2, <3>3 DEF Join
    <3>4. CASE Last(l) # s
      <4>1. j = Append(l, s) /\ k = Append(t, s)
        BY <1>3, <1>4, <3>1, <3>2, <3>4 DEF Join
      <4>2. Len(j) = Len(l) + 1 /\ j[Len(l) + 1] = s /\ \A i \in 1..Len(l) : j[i] = l[i]
        BY <4>1, LastOfAppend DEF Last
      <4>3. Len(k) = Len(t) + 1 /\ k[Len(t) + 1] = s /\ \A i \in 1..Len(t) : k[i] = t[i]
        BY <4>1, LastOfAppend DEF Last
      <4>4. ASSUME NEW i \in 1..Len(j) PROVE j[i] = k[Len(k) - Len(j) + i]
        <5>1. Len(k) - Len(j) + i = Len(t) - Len(l) + i
          BY <2>0, <4>2, <4>3
        <5>2. CASE i = Len(l) + 1
          <6>1. Len(t) - Len(l) + i = Len(t) + 1
            BY <2>0, <5>2
          <6> QED
            BY <4>2, <4>3, <5>1, <5>2, <6>1
        <5>3. CASE i # Len(l) + 1
          <6>1. i \in 1..Len(l) /\ Len(t) - Len(l) + i \in 1..Len(t)
            BY <2>0, <4>2, <5>3
          <6> QED
            BY <2>0, <4>2, <4>3, <5>1, <6>1 DEF EndOf
        <5> QED
          BY <5>2, <5>3
      <4>5. Len(j) <= Len(k)
        BY <2>0, <4>2, <4>3
      <4> QED
        BY <4>4, <4>5 DEF EndOf
    <3> QED
      BY <3>3, <3>4
  <2> QED
    BY <2>1, <2>2
<1>7. EndOf(e, k)
  BY <1>5, <1>6, EndOfTrans
<1> QED
  BY <1>2, <1>4, <1>7

-----------------------------------------------------------------------------
(***************************************************************************)
(* The lines of a log without repetitions, and what is loaded from a file. *)
(***************************************************************************)

\* the lines so far, for each number of lines of the log
Squeezing(f, log) ==
  /\ f[0] = <<>>
  /\ \A k \in 1..Len(log) :
       f[k] = IF k > 1 /\ log[k] = log[k - 1] THEN f[k - 1] ELSE Append(f[k - 1], log[k])

LEMMA SqueezingExists ==
  ASSUME NEW log \in Seq(Names)
  PROVE  \E f : Squeezing(f, log) /\ Squeezed(log) = f[Len(log)]
<1> DEFINE n == Len(log)
           f[k \in 0..n] == IF k = 0 THEN <<>>
                            ELSE IF k > 1 /\ log[k] = log[k - 1] THEN f[k - 1] ELSE Append(f[k - 1], log[k])
           D == Seq(Names)
           G(k, x) == IF k > 1 /\ log[k] = log[k - 1] THEN x ELSE Append(x, log[k])
<1>0. n \in Nat
  OBVIOUS
<1>1. <<>> \in D
  OBVIOUS
<1>2. \A k \in 1..n : \A x \in D : G(k, x) \in D
  <2> SUFFICES ASSUME NEW k \in 1..n, NEW x \in D PROVE G(k, x) \in D
    OBVIOUS
  <2>1. log[k] \in Names
    BY ElementOfSeq
  <2>2. Append(x, log[k]) \in D
    BY <2>1, AppendProperties
  <2> QED
    BY <2>2
<1> HIDE DEF D
<1>3. PICK H : H = [k \in 1..n |-> [x \in D |-> G(k, x)]]
  OBVIOUS
<1>4. H \in [1..n -> [D -> D]]
  <2> HIDE DEF G, n
  <2> QED
    BY <1>2, <1>3
<1>5. PICK g : Recursive(g, n, D, <<>>, H)
  <2> HIDE DEF n
  <2> QED
    BY <1>0, <1>1, <1>4, Recursion
<1>6. g = [k \in 0..n |-> IF k = 0 THEN <<>> ELSE G(k, g[k - 1])]
  <2> HIDE DEF n, G
  <2>1. ASSUME NEW k \in 1..n PROVE g[k] = G(k, g[k - 1])
    <3>1. k - 1 \in 0..n
      BY <1>0
    <3>2. g[k - 1] \in D
      BY <1>5, <3>1 DEF Recursive
    <3> QED
      BY <1>3, <1>5, <3>2 DEF Recursive
  <2> QED
    BY <1>0, <1>5, <2>1 DEF Recursive
<1>7. f = [k \in 0..n |-> IF k = 0 THEN <<>> ELSE G(k, f[k - 1])]
  BY <1>6 DEF f
<1>8. Squeezed(log) = f[n]
  BY DEF Squeezed
<1> HIDE DEF f
<1>9. Squeezing(f, log)
  <2>1. f[0] = <<>>
    <3>1. 0 \in 0..n
      BY <1>0
    <3> HIDE DEF n, G
    <3> QED
      BY <1>7, <3>1
  <2>2. \A k \in 1..n : f[k] = G(k, f[k - 1])
    <3>1. \A k \in 1..n : k \in 0..n /\ k # 0
      BY <1>0
    <3> HIDE DEF n, G
    <3> QED
      BY <1>7, <3>1
  <2> QED
    BY <2>1, <2>2 DEF Squeezing
<1> QED
  BY <1>8, <1>9

\* Each turn joins a line.
LEMMA SqueezingJoins ==
  ASSUME NEW log \in Seq(Names), NEW f, Squeezing(f, log)
  PROVE  /\ \A k \in 0..Len(log) : f[k] \in Seq(Names) /\ NoRepeat(f[k])
         /\ \A k \in 1..Len(log) : f[k] = Join(f[k - 1], log[k]) /\ f[k] # <<>> /\ Last(f[k]) = log[k]
<1> DEFINE n == Len(log)
           Good(k) == /\ f[k] \in Seq(Names) /\ NoRepeat(f[k])
                      /\ k # 0 => f[k] = Join(f[k - 1], log[k]) /\ f[k] # <<>> /\ Last(f[k]) = log[k]
                      /\ k = 0 => f[k] = <<>>
           S == {k \in 0..n : Good(k)}
<1>0. n \in Nat /\ f[0] = <<>>
  BY DEF Squeezing
<1>1. 0 \in S
  <2>1. \A i \in 1..(Len(<<>>) - 1) : FALSE
    OBVIOUS
  <2>2. <<>> \in Seq(Names) /\ NoRepeat(<<>>)
    BY <2>1 DEF NoRepeat
  <2>3. Good(0) /\ 0 \in 0..n
    BY <1>0, <2>2
  <2> HIDE DEF Good, n
  <2> QED
    BY <2>3
<1>2. ASSUME NEW i \in 0..(n - 1), i \in S PROVE i + 1 \in S
  <2>1. PICK k : k = i + 1
    OBVIOUS
  <2>2. k \in 1..n /\ k \in 0..n /\ k - 1 = i /\ k # 0
    BY <1>0, <2>1
  <2>3. log[k] \in Names
    BY <2>2, ElementOfSeq
  <2>4. f[i] \in Seq(Names) /\ NoRepeat(f[i])
    BY <1>2
  <2>5. f[k] = IF k > 1 /\ log[k] = log[k - 1] THEN f[i] ELSE Append(f[i], log[k])
    BY <2>2 DEF Squeezing
  <2>6. k > 1 => i # 0 /\ f[i] # <<>> /\ Last(f[i]) = log[k - 1]
    BY <1>2, <2>2
  <2>7. ~(k > 1) => f[i] = <<>>
    BY <1>0, <2>2
  <2>8. f[k] = Join(f[i], log[k])
    BY <2>5, <2>6, <2>7 DEF Join
  <2>9. f[k] \in Seq(Names) /\ NoRepeat(f[k]) /\ f[k] # <<>> /\ Last(f[k]) = log[k]
    <3>1. PICK x \in Seq(Names) : x = f[i]
      BY <2>4
    <3>2. PICK s \in Names : s = log[k]
      BY <2>3
    <3>3. Join(x, s) \in Seq(Names) /\ NoRepeat(Join(x, s)) /\ Join(x, s) # <<>> /\ Last(Join(x, s)) = s
      BY <2>4, <3>1, JoinIs, JoinNoRepeat
    <3> QED
      BY <2>8, <3>1, <3>2, <3>3
  <2>10. Good(k)
    BY <2>2, <2>8, <2>9
  <2> HIDE DEF Good
  <2> QED
    BY <2>1, <2>2, <2>10
<1>3. 0..n \subseteq S
  <2> HIDE DEF S, n
  <2> QED
    BY <1>0, <1>1, <1>2, Induction
<1>4. \A k \in 0..n : Good(k)
  BY <1>3
<1> QED
  BY <1>0, <1>4

LEMMA SqueezedIs ==
  ASSUME NEW log \in Seq(Names)
  PROVE  Squeezed(log) \in Seq(Names) /\ NoRepeat(Squeezed(log)) /\ (log = <<>> => Squeezed(log) = <<>>)
<1>1. PICK f : Squeezing(f, log) /\ Squeezed(log) = f[Len(log)]
  BY SqueezingExists
<1>2. Len(log) \in 0..Len(log) /\ (log = <<>> => Len(log) = 0)
  OBVIOUS
<1>3. f[Len(log)] \in Seq(Names) /\ NoRepeat(f[Len(log)])
  BY <1>1, <1>2, SqueezingJoins
<1>4. log = <<>> => f[Len(log)] = <<>>
  BY <1>1, <1>2 DEF Squeezing
<1> QED
  BY <1>1, <1>3, <1>4

LEMMA SqueezedAppend ==
  ASSUME NEW log \in Seq(Names), NEW s \in Names
  PROVE  Squeezed(Append(log, s)) = Join(Squeezed(log), s)
<1>1. PICK new : new = Append(log, s)
  OBVIOUS
<1>2. PICK n : n = Len(log)
  OBVIOUS
<1>3. n \in Nat /\ new \in Seq(Names) /\ Len(new) = n + 1 /\ new[n + 1] = s /\ \A i \in 1..n : new[i] = log[i]
  <2>1. Last(new) = s /\ Len(new) = n + 1
    BY <1>1, <1>2, LastOfAppend
  <2>2. new[n + 1] = s
    BY <2>1 DEF Last
  <2> QED
    BY <1>1, <1>2, <2>1, <2>2, LastOfAppend
<1>4. PICK f : Squeezing(f, log) /\ Squeezed(log) = f[n]
  BY <1>2, SqueezingExists
<1>5. PICK g : Squeezing(g, new) /\ Squeezed(new) = g[n + 1]
  BY <1>3, SqueezingExists
<1> DEFINE S == {k \in 0..n : f[k] = g[k]}
<1>6. 0 \in S
  BY <1>3, <1>4, <1>5 DEF Squeezing
<1>7. ASSUME NEW i \in 0..(n - 1), i \in S PROVE i + 1 \in S
  <2>1. PICK k : k = i + 1
    OBVIOUS
  <2>2. k \in 1..n /\ k \in 1..(n + 1) /\ k \in 0..n /\ k - 1 = i /\ (k > 1 => k - 1 \in 1..n)
    BY <1>3, <2>1
  <2>3. f[k] = IF k > 1 /\ log[k] = log[k - 1] THEN f[i] ELSE Append(f[i], log[k])
    BY <1>2, <1>4, <2>2 DEF Squeezing
  <2>4. g[k] = IF k > 1 /\ new[k] = new[k - 1] THEN g[i] ELSE Append(g[i], new[k])
    BY <1>3, <1>5, <2>2 DEF Squeezing
  <2>5. f[i] = g[i] /\ new[k] = log[k] /\ (k > 1 => new[k - 1] = log[k - 1])
    BY <1>3, <1>7, <2>2
  <2>6. f[k] = g[k]
    BY <2>3, <2>4, <2>5
  <2> QED
    BY <2>1, <2>2, <2>6
<1>8. 0..n \subseteq S
  <2> HIDE DEF S
  <2> QED
    BY <1>3, <1>6, <1>7, Induction
<1>9. f[n] = g[n]
  BY <1>3, <1>8
<1>10. n + 1 \in 1..(n + 1) /\ n + 1 - 1 = n
  BY <1>3
<1>11. g[n + 1] = Join(g[n], new[n + 1])
  BY <1>3, <1>5, <1>10, SqueezingJoins
<1> QED
  BY <1>1, <1>3, <1>4, <1>5, <1>9, <1>11

LEMMA PrefixAppends ==
  ASSUME NEW S, NEW t \in Seq(S), NEW k \in 1..Len(t)
  PROVE  /\ SubSeq(t, 1, k) = Append(SubSeq(t, 1, k - 1), t[k]) /\ SubSeq(t, 1, k) \in Seq(S)
         /\ SubSeq(t, 1, k - 1) \in Seq(S) /\ Len(SubSeq(t, 1, k - 1)) = k - 1 /\ \A i \in 1..(k - 1) : SubSeq(t, 1, k - 1)[i] = t[i]
<1>0. Len(t) \in Nat /\ k \in Nat /\ k - 1 \in Nat /\ t[k] \in S
  BY ElementOfSeq
<1>1. PICK a : a = SubSeq(t, 1, k - 1)
  OBVIOUS
<1>2. PICK b : b = SubSeq(t, 1, k)
  OBVIOUS
<1>3. a \in Seq(S) /\ Len(a) = k - 1 /\ \A i \in 1..(k - 1) : a[i] = t[i]
  <2>1. \A i \in 1..(k - 1) : t[i] \in S /\ 1 + i - 1 = i
    BY <1>0
  <2>2. k - 1 - 1 + 1 = k - 1 /\ k - 1 \in Int
    BY <1>0
  <2> QED
    BY <1>0, <1>1, <2>1, <2>2, SubSeqProperties
<1>4. b \in Seq(S) /\ Len(b) = k /\ \A i \in 1..k : b[i] = t[i]
  <2>1. \A i \in 1..k : t[i] \in S /\ 1 + i - 1 = i
    BY <1>0
  <2>2. k - 1 + 1 = k /\ k \in Int
    BY <1>0
  <2> QED
    BY <1>0, <1>2, <2>1, <2>2, SubSeqProperties
<1>6. PICK c : c = Append(a, t[k])
  OBVIOUS
<1>7. c \in Seq(S) /\ Len(c) = (k - 1) + 1 /\ c[(k - 1) + 1] = t[k] /\ \A i \in 1..(k - 1) : c[i] = a[i]
  <2>1. Last(c) = t[k] /\ Len(c) = (k - 1) + 1
    BY <1>0, <1>3, <1>6, LastOfAppend
  <2>2. c[(k - 1) + 1] = t[k]
    BY <2>1 DEF Last
  <2> QED
    BY <1>0, <1>3, <1>6, <2>1, <2>2, LastOfAppend
<1>8. b = c
  <2>1. (k - 1) + 1 = k /\ Len(b) = Len(c)
    BY <1>0, <1>4, <1>7
  <2>2. ASSUME NEW i \in 1..Len(b) PROVE b[i] = c[i]
    <3>1. CASE i = k
      BY <1>4, <1>7, <2>1, <3>1
    <3>2. CASE i # k
      <4>1. i \in 1..(k - 1)
        BY <1>0, <1>4, <3>2
      <4> QED
        BY <1>3, <1>4, <1>7, <4>1
    <3> QED
      BY <3>1, <3>2
  <2> QED
    BY <1>4, <1>7, <2>1, <2>2, SeqEqual
<1> QED
  BY <1>1, <1>2, <1>3, <1>4, <1>6, <1>8

LEMMA PrefixJoins ==
  ASSUME NEW S, NEW t \in Seq(S), NoRepeat(t), NEW k \in 1..Len(t)
  PROVE  SubSeq(t, 1, k - 1) \in Seq(S) /\ SubSeq(t, 1, k) = Join(SubSeq(t, 1, k - 1), t[k])
<1>0. Len(t) \in Nat /\ k \in Nat /\ k - 1 \in Nat
  OBVIOUS
<1>1. PICK a : a = SubSeq(t, 1, k - 1)
  OBVIOUS
<1>3. a \in Seq(S) /\ Len(a) = k - 1 /\ SubSeq(t, 1, k) = Append(a, t[k]) /\ \A i \in 1..(k - 1) : a[i] = t[i]
  BY <1>1, PrefixAppends
<1>5. ~(a # <<>> /\ Last(a) = t[k])
  <2> SUFFICES ASSUME a # <<>> PROVE Last(a) # t[k]
    OBVIOUS
  <2>1. Len(a) # 0
    BY <1>3
  <2>2. k - 1 \in 1..(Len(t) - 1) /\ k - 1 \in 1..(k - 1) /\ (k - 1) + 1 = k
    BY <1>0, <1>3, <2>1
  <2>3. t[k - 1] # t[(k - 1) + 1]
    BY <2>2 DEF NoRepeat
  <2>4. Last(a) = t[k - 1]
    BY <1>3, <2>2 DEF Last
  <2> QED
    BY <2>2, <2>3, <2>4
<1> QED
  BY <1>1, <1>3, <1>5 DEF Join

-----------------------------------------------------------------------------
(***************************************************************************)
(* Lines that are within a log.                                            *)
(***************************************************************************)

\* at gives each line of s its place in t
Places(at, s, t) ==
  /\ at \in [1..Len(s) -> 1..Len(t)]
  /\ \A i, j \in 1..Len(s) : i < j => at[i] < at[j]
  /\ \A i \in 1..Len(s) : s[i] \in {t[at[i]], CutLine}

LEMMA WithinPlaces ==
  ASSUME NEW s, NEW t, NEW at, Places(at, s, t)
  PROVE  Within(s, t)
BY DEF Places, Within

LEMMA PlacesWithin ==
  ASSUME NEW s, NEW t, Within(s, t)
  PROVE  \E at : Places(at, s, t)
BY DEF Places, Within

LEMMA WithinTrans ==
  ASSUME NEW S, NEW s \in Seq(S), NEW t \in Seq(S), NEW u \in Seq(S), Within(s, t), Within(t, u)
  PROVE  Within(s, u)
<1>1. PICK a : Places(a, s, t)
  BY PlacesWithin
<1>2. PICK b : Places(b, t, u)
  BY PlacesWithin
<1>3. PICK c : c = [i \in 1..Len(s) |-> b[a[i]]]
  OBVIOUS
<1>4. Len(s) \in Nat /\ Len(t) \in Nat /\ Len(u) \in Nat
  OBVIOUS
<1>5. ASSUME NEW i \in 1..Len(s)
      PROVE  a[i] \in 1..Len(t) /\ c[i] = b[a[i]] /\ c[i] \in 1..Len(u) /\ s[i] \in {u[c[i]], CutLine}
  <2>1. a[i] \in 1..Len(t) /\ s[i] \in {t[a[i]], CutLine}
    BY <1>1 DEF Places
  <2>2. PICK k \in 1..Len(t) : k = a[i]
    BY <2>1
  <2>3. b[k] \in 1..Len(u) /\ t[k] \in {u[b[k]], CutLine}
    BY <1>2 DEF Places
  <2>4. c[i] = b[k]
    BY <1>3, <2>2
  <2> QED
    BY <2>1, <2>2, <2>3, <2>4
<1>6. ASSUME NEW i \in 1..Len(s), NEW j \in 1..Len(s), i < j PROVE c[i] < c[j]
  <2>1. a[i] < a[j]
    BY <1>1, <1>6 DEF Places
  <2>2. PICK k \in 1..Len(t) : k = a[i]
    BY <1>5
  <2>3. PICK n \in 1..Len(t) : n = a[j]
    BY <1>5
  <2>4. b[k] < b[n]
    BY <1>2, <2>1, <2>2, <2>3 DEF Places
  <2> QED
    BY <1>5, <2>2, <2>3, <2>4
<1>7. Places(c, s, u)
  BY <1>3, <1>5, <1>6 DEF Places
<1> QED
  BY <1>7, WithinPlaces

\* The beginning of a sequence, and its beginning with the last line cut
LEMMA BeginningIs ==
  ASSUME NEW S, NEW t \in Seq(S), NEW n \in 0..Len(t)
  PROVE  /\ SubSeq(t, 1, n) \in Seq(S) /\ Len(SubSeq(t, 1, n)) = n /\ \A i \in 1..n : SubSeq(t, 1, n)[i] = t[i]
<1>0. Len(t) \in Nat /\ n \in Nat /\ n <= Len(t) /\ \A i \in 1..n : i \in 1..Len(t)
  OBVIOUS
<1>1. \A i \in 1..n : t[i] \in S /\ 1 + i - 1 = i
  BY <1>0
<1>2. n - 1 + 1 = n /\ n \in Int
  BY <1>0
<1> QED
  BY <1>0, <1>1, <1>2, SubSeqProperties

LEMMA BeginningWithin ==
  ASSUME NEW S, NEW t \in Seq(S), NEW n \in 0..Len(t)
  PROVE  SubSeq(t, 1, n) \in Seq(S) /\ Within(SubSeq(t, 1, n), t)
<1>1. PICK s : s = SubSeq(t, 1, n)
  OBVIOUS
<1>2. s \in Seq(S) /\ Len(s) = n /\ \A i \in 1..n : s[i] = t[i]
  BY <1>1, BeginningIs
<1>3. PICK at : at = [i \in 1..Len(s) |-> i]
  OBVIOUS
<1>4. \A i \in 1..n : i \in 1..Len(t)
  OBVIOUS
<1>5. Places(at, s, t)
  BY <1>2, <1>3, <1>4 DEF Places
<1> QED
  BY <1>1, <1>2, <1>5, WithinPlaces

LEMMA CutWithin ==
  ASSUME NEW S, CutLine \in S, NEW t \in Seq(S), NEW n \in 1..Len(t)
  PROVE  LET s == Append(SubSeq(t, 1, n - 1), CutLine) IN s \in Seq(S) /\ Within(s, t)
<1>1. PICK b : b = SubSeq(t, 1, n - 1)
  OBVIOUS
<1>2. PICK s : s = Append(b, CutLine)
  OBVIOUS
<1>3. PICK m : m = n - 1
  OBVIOUS
<1>4. m \in 0..Len(t) /\ m \in Nat /\ n = m + 1 /\ Len(t) \in Nat /\ n <= Len(t)
  BY <1>3
<1>5. b \in Seq(S) /\ Len(b) = m /\ \A i \in 1..m : b[i] = t[i]
  BY <1>1, <1>3, <1>4, BeginningIs
<1>6. s \in Seq(S) /\ Len(s) = n /\ s[n] = CutLine /\ \A i \in 1..m : s[i] = b[i]
  <2>1. s \in Seq(S) /\ Len(s) = m + 1 /\ Last(s) = CutLine /\ \A i \in 1..m : s[i] = b[i]
    BY <1>2, <1>5, LastOfAppend
  <2> QED
    BY <1>4, <2>1 DEF Last
<1>7. PICK at : at = [i \in 1..Len(s) |-> i]
  OBVIOUS
<1>8. ASSUME NEW i \in 1..n PROVE i \in 1..Len(t) /\ s[i] \in {t[i], CutLine}
  <2>1. CASE i = n
    BY <1>4, <1>6, <2>1
  <2>2. CASE i # n
    <3>1. i \in 1..m
      BY <1>4, <2>2
    <3> QED
      BY <1>4, <1>5, <1>6, <3>1
  <2> QED
    BY <2>1, <2>2
<1>9. Places(at, s, t)
  BY <1>6, <1>7, <1>8 DEF Places
<1> QED
  BY <1>1, <1>2, <1>6, <1>9, WithinPlaces

\* What ends a sequence is within it.
LEMMA EndWithin ==
  ASSUME NEW S, NEW s \in Seq(S), NEW t \in Seq(S), EndOf(s, t)
  PROVE  Within(s, t)
<1>1. PICK d : d = Len(t) - Len(s)
  OBVIOUS
<1>2. Len(s) \in Nat /\ Len(t) \in Nat /\ Len(s) <= Len(t) /\ d \in Nat
  BY <1>1 DEF EndOf
<1>3. PICK at : at = [i \in 1..Len(s) |-> d + i]
  OBVIOUS
<1>4. ASSUME NEW i \in 1..Len(s) PROVE at[i] = d + i /\ d + i \in 1..Len(t) /\ s[i] = t[d + i]
  <2>1. at[i] = d + i /\ d + i \in 1..Len(t)
    BY <1>1, <1>2, <1>3
  <2>2. s[i] = t[d + i]
    BY <1>1 DEF EndOf
  <2> QED
    BY <2>1, <2>2
<1>5. \A i, j \in 1..Len(s) : i < j => d + i < d + j
  BY <1>2
<1>6. Places(at, s, t)
  BY <1>3, <1>4, <1>5 DEF Places
<1> QED
  BY <1>6, WithinPlaces

\* a log that goes on
LEMMA WithinLonger ==
  ASSUME NEW S, NEW s \in Seq(S), NEW t \in Seq(S), NEW x \in S, Within(s, t)
  PROVE  Within(s, Append(t, x))
<1>1. PICK u : u = Append(t, x)
  OBVIOUS
<1>2. u \in Seq(S) /\ Len(u) = Len(t) + 1 /\ Len(t) \in Nat /\ \A i \in 1..Len(t) : u[i] = t[i]
  BY <1>1, LastOfAppend
<1>3. PICK n : n = Len(t)
  OBVIOUS
<1>4. n \in 0..Len(u) /\ SubSeq(u, 1, n) \in Seq(S) /\ Len(SubSeq(u, 1, n)) = n /\ \A i \in 1..n : SubSeq(u, 1, n)[i] = u[i]
  <2>1. n \in 0..Len(u)
    BY <1>2, <1>3
  <2> QED
    BY <1>2, <2>1, BeginningIs
<1>5. SubSeq(u, 1, n) = t
  BY <1>2, <1>3, <1>4, SeqEqual
<1>6. Within(t, u)
  BY <1>2, <1>4, <1>5, BeginningWithin
<1> QED
  BY <1>1, <1>2, <1>6, WithinTrans

\* both go on with the same line
LEMMA WithinBothLonger ==
  ASSUME NEW S, NEW s \in Seq(S), NEW t \in Seq(S), NEW x \in S, Within(s, t)
  PROVE  Within(Append(s, x), Append(t, x))
<1>1. PICK r : r = Append(s, x)
  OBVIOUS
<1>2. PICK u : u = Append(t, x)
  OBVIOUS
<1>3. PICK m : m = Len(s)
  OBVIOUS
<1>4. PICK n : n = Len(t)
  OBVIOUS
<1>5. m \in Nat /\ Len(r) = m + 1 /\ r[m + 1] = x /\ \A i \in 1..m : r[i] = s[i]
  BY <1>1, <1>3, LastOfAppend DEF Last
<1>6. n \in Nat /\ Len(u) = n + 1 /\ u[n + 1] = x /\ \A i \in 1..n : u[i] = t[i]
  BY <1>2, <1>4, LastOfAppend DEF Last
<1>7. PICK a : Places(a, s, t)
  BY PlacesWithin
<1>8. PICK c : c = [i \in 1..(m + 1) |-> IF i = m + 1 THEN n + 1 ELSE a[i]]
  OBVIOUS
<1>9. ASSUME NEW i \in 1..m PROVE c[i] \in 1..n /\ r[i] \in {u[c[i]], CutLine} /\ c[i] = a[i]
  <2>1. a[i] \in 1..n /\ s[i] \in {t[a[i]], CutLine}
    BY <1>3, <1>4, <1>7 DEF Places
  <2>2. c[i] = a[i]
    BY <1>5, <1>8
  <2> QED
    BY <1>5, <1>6, <2>1, <2>2
<1>10. m + 1 \in 1..(m + 1) /\ c[m + 1] = n + 1 /\ n + 1 \in 1..(n + 1)
  BY <1>5, <1>6, <1>8
<1>11. ASSUME NEW i \in 1..(m + 1) PROVE c[i] \in 1..(n + 1) /\ r[i] \in {u[c[i]], CutLine} /\ (i # m + 1 => i \in 1..m)
  <2>1. CASE i = m + 1
    BY <1>5, <1>6, <1>10, <2>1
  <2>2. CASE i # m + 1
    <3>1. i \in 1..m
      BY <1>5, <2>2
    <3>2. \A k \in 1..n : k \in 1..(n + 1)
      BY <1>6
    <3> QED
      BY <1>9, <3>1, <3>2
  <2> QED
    BY <2>1, <2>2
<1>12. ASSUME NEW i \in 1..(m + 1), NEW j \in 1..(m + 1), i < j PROVE c[i] < c[j]
  <2>1. i # m + 1 /\ i \in 1..m
    BY <1>5, <1>12
  <2>2. CASE j = m + 1
    BY <1>6, <1>9, <1>10, <2>1, <2>2
  <2>3. CASE j # m + 1
    <3>1. j \in 1..m
      BY <1>5, <2>3
    <3>2. a[i] < a[j]
      BY <1>3, <1>7, <1>12, <2>1, <3>1 DEF Places
    <3> QED
      BY <1>9, <2>1, <3>1, <3>2
  <2> QED
    BY <2>2, <2>3
<1>13. Places(c, r, u)
  <2>1. c \in [1..Len(r) -> 1..Len(u)]
    BY <1>5, <1>6, <1>8, <1>11
  <2> QED
    BY <1>5, <1>11, <1>12, <2>1 DEF Places
<1> QED
  BY <1>1, <1>2, <1>13, WithinPlaces

\* Entering the line that the log goes on with
LEMMA EnteredWithin ==
  ASSUME NEW past, NEW s \in Names, past.lines \in Seq(Names), past.size \in Nat,
         NEW t \in Seq(Names), Within(past.lines, t)
  PROVE  Within(Entered(past, s), Append(t, s))
<1>1. PICK l \in Seq(Names) : l = past.lines
  OBVIOUS
<1>2. PICK e : e = Entered(past, s)
  OBVIOUS
<1>3. PICK j : j = Join(l, s)
  OBVIOUS
<1>4. PICK u : u = Append(t, s)
  OBVIOUS
<1>5. e \in Seq(Names) /\ EndOf(e, j) /\ j \in Seq(Names) /\ u \in Seq(Names)
  <2>1. e \in Seq(Names) /\ EndOf(e, j)
    BY <1>1, <1>2, <1>3, EnteredIs
  <2>2. j \in Seq(Names) /\ u \in Seq(Names)
    BY <1>3, <1>4, JoinIs, LastOfAppend
  <2> QED
    BY <2>1, <2>2
<1>6. Within(l, u) /\ Within(Append(l, s), u)
  <2>1. Within(l, t)
    BY <1>1
  <2> QED
    BY <1>4, <2>1, WithinLonger, WithinBothLonger
<1>7. Within(j, u)
  BY <1>3, <1>6 DEF Join
<1>8. Within(e, j)
  BY <1>5, EndWithin
<1>9. Within(e, u)
  BY <1>5, <1>7, <1>8, WithinTrans
<1> QED
  BY <1>2, <1>4, <1>9

\* What is loaded is within what was saved, and ends it.
LEMMA LoadedIs ==
  ASSUME NEW size \in Nat, NEW lines \in Seq(Names)
  PROVE  /\ Loaded(size, lines) \in Seq(Names) /\ Within(Loaded(size, lines), lines)
         /\ NoRepeat(lines) => EndOf(Loaded(size, lines), lines)
<1> DEFINE n == Len(lines)
           f[k \in 0..n] == IF k = 0 THEN <<>> ELSE Entered([size |-> size, lines |-> f[k - 1]], lines[k])
           D == Seq(Names)
           G(k, x) == Entered([size |-> size, lines |-> x], lines[k])
<1>0. n \in Nat
  OBVIOUS
<1>1. <<>> \in D
  OBVIOUS
<1>2. \A k \in 1..n : \A x \in D : G(k, x) \in D
  <2> SUFFICES ASSUME NEW k \in 1..n, NEW x \in D PROVE G(k, x) \in D
    OBVIOUS
  <2>1. lines[k] \in Names
    BY ElementOfSeq
  <2>2. PICK past : past = [size |-> size, lines |-> x]
    OBVIOUS
  <2>3. past.lines \in Seq(Names) /\ past.size \in Nat
    BY <2>2
  <2> QED
    BY <2>1, <2>2, <2>3, EnteredIs
<1> HIDE DEF D
<1>3. PICK H : H = [k \in 1..n |-> [x \in D |-> G(k, x)]]
  OBVIOUS
<1>4. H \in [1..n -> [D -> D]]
  <2> HIDE DEF G, n
  <2> QED
    BY <1>2, <1>3
<1>5. PICK g : Recursive(g, n, D, <<>>, H)
  <2> HIDE DEF n
  <2> QED
    BY <1>0, <1>1, <1>4, Recursion
<1>6. g = [k \in 0..n |-> IF k = 0 THEN <<>> ELSE G(k, g[k - 1])]
  <2> HIDE DEF n, G
  <2>1. ASSUME NEW k \in 1..n PROVE g[k] = G(k, g[k - 1])
    <3>1. k - 1 \in 0..n
      BY <1>0
    <3>2. g[k - 1] \in D
      BY <1>5, <3>1 DEF Recursive
    <3> QED
      BY <1>3, <1>5, <3>2 DEF Recursive
  <2> QED
    BY <1>0, <1>5, <2>1 DEF Recursive
<1>7. f = [k \in 0..n |-> IF k = 0 THEN <<>> ELSE G(k, f[k - 1])]
  BY <1>6 DEF f
<1>8. Loaded(size, lines) = f[n]
  BY DEF Loaded
<1> HIDE DEF f
<1> DEFINE S == {k \in 0..n : f[k] \in D /\ Within(f[k], SubSeq(lines, 1, k))
                            /\ (NoRepeat(lines) => EndOf(f[k], SubSeq(lines, 1, k)))}
<1>9. 0 \in S
  <2>1. f[0] = <<>> /\ 0 \in 0..n
    <3> HIDE DEF G, n
    <3> QED
      BY <1>0, <1>7
  <2>2. SubSeq(lines, 1, 0) = <<>>
    BY SubSeqEmpty
  <2>3. \A i \in 1..Len(<<>>) : FALSE
    OBVIOUS
  <2>4. EndOf(<<>>, <<>>)
    BY <2>3 DEF EndOf
  <2>5. Within(<<>>, <<>>)
    <3>1. <<>> \in Seq(Names)
      OBVIOUS
    <3> QED
      BY <2>4, <3>1, EndWithin
  <2> HIDE DEF n
  <2> QED
    BY <1>1, <2>1, <2>2, <2>4, <2>5
<1>10. ASSUME NEW i \in 0..(n - 1), i \in S PROVE i + 1 \in S
  <2>1. PICK k : k = i + 1
    OBVIOUS
  <2>2. k \in 1..n /\ k \in 0..n /\ k - 1 = i /\ k # 0
    BY <1>0, <2>1
  <2>3. f[k] = G(k, f[i])
    <3> HIDE DEF G, n
    <3> QED
      BY <1>7, <2>2
  <2>4. PICK x : x = f[i]
    OBVIOUS
  <2>5. x \in D /\ Within(x, SubSeq(lines, 1, i)) /\ (NoRepeat(lines) => EndOf(x, SubSeq(lines, 1, i)))
    BY <1>10, <2>4
  <2>6. G(k, x) \in D
    BY <1>2, <2>2, <2>5
  <2>7. ASSUME NoRepeat(lines) PROVE EndOf(G(k, x), SubSeq(lines, 1, k))
    <3>1. PICK t : t = SubSeq(lines, 1, i)
      OBVIOUS
    <3>2. t \in Seq(Names) /\ SubSeq(lines, 1, k) = Join(t, lines[k])
      BY <2>2, <2>7, <3>1, PrefixJoins
    <3>3. PICK past : past = [size |-> size, lines |-> x]
      OBVIOUS
    <3>4. past.lines \in Seq(Names) /\ past.size \in Nat /\ EndOf(past.lines, t)
      BY <2>5, <2>7, <3>1, <3>3 DEF D
    <3>5. lines[k] \in Names
      BY <2>2, ElementOfSeq
    <3>6. EndOf(Entered(past, lines[k]), Join(t, lines[k]))
      BY <3>2, <3>4, <3>5, EnteredEnds
    <3> QED
      BY <3>2, <3>3, <3>6
  <2>8. Within(G(k, x), SubSeq(lines, 1, k))
    <3>1. PICK t : t = SubSeq(lines, 1, i)
      OBVIOUS
    <3>2. t \in Seq(Names) /\ SubSeq(lines, 1, k) = Append(t, lines[k])
      BY <2>2, <3>1, PrefixAppends
    <3>3. PICK past : past = [size |-> size, lines |-> x]
      OBVIOUS
    <3>4. past.lines \in Seq(Names) /\ past.size \in Nat /\ Within(past.lines, t)
      BY <2>5, <3>1, <3>3 DEF D
    <3>5. lines[k] \in Names
      BY <2>2, ElementOfSeq
    <3>6. Within(Entered(past, lines[k]), Append(t, lines[k]))
      BY <3>2, <3>4, <3>5, EnteredWithin
    <3> QED
      BY <3>2, <3>3, <3>6
  <2> HIDE DEF G, n
  <2> QED
    BY <2>1, <2>2, <2>3, <2>4, <2>6, <2>7, <2>8
<1>11. 0..n \subseteq S
  <2> HIDE DEF S, n
  <2> QED
    BY <1>0, <1>9, <1>10, Induction
<1>12. n \in S
  <2> HIDE DEF S, n
  <2> QED
    BY <1>0, <1>11
<1>13. SubSeq(lines, 1, n) = lines
  BY SubSeqFull
<1> HIDE DEF n
<1> QED
  BY <1>8, <1>12, <1>13 DEF D

-----------------------------------------------------------------------------
(***************************************************************************)
(* The inductive invariant.                                                *)
(***************************************************************************)

\* The objects L in use are those of eight pointers, each with one of its own.
Apart(x, S) == x = Null \/ x \notin S
Owns(L, a, b, c, d, e, f, g, h) ==
  /\ L = {a, b, c, d, e, f, g, h} \ {Null}
  /\ Apart(a, {b, c, d, e, f, g, h}) /\ Apart(b, {c, d, e, f, g, h}) /\ Apart(c, {d, e, f, g, h})
  /\ Apart(d, {e, f, g, h}) /\ Apart(e, {f, g, h}) /\ Apart(f, {g, h}) /\ Apart(g, {h})

\* a new object takes the place of a NULL pointer
LEMMA OwnsOneMore ==
  ASSUME NEW L, NEW a, NEW b, NEW c, NEW e, NEW f, NEW g, NEW h, NEW o, o \notin L, o # Null,
         Owns(L, a, b, c, Null, e, f, g, h)
  PROVE  Owns(L \cup {o}, a, b, c, o, e, f, g, h)
<1>1. L = {a, b, c, Null, e, f, g, h} \ {Null}
  BY DEF Owns
<1>2. \A x \in {a, b, c, e, f, g, h} : x # o
  BY <1>1
<1>3. L \cup {o} = {a, b, c, o, e, f, g, h} \ {Null}
  BY <1>1
<1>4. /\ Apart(a, {b, c, o, e, f, g, h}) /\ Apart(b, {c, o, e, f, g, h}) /\ Apart(c, {o, e, f, g, h})
      /\ Apart(o, {e, f, g, h})
  BY <1>2 DEF Owns, Apart
<1> QED
  BY <1>3, <1>4 DEF Owns

\* no fault so far, and the objects in use are those of the process, its
\* history and its file name being h and f
OwnsWith(q, h, f) ==
  /\ IsProc(q) /\ ~q.fault
  /\ Owns(q.live, q.ed.self, q.ed.el, h, f, q.ed.prompt, q.loop.line, q.loop.vec, q.loop.parse)
Sound(q) == OwnsWith(q, q.ed.history, q.ed.file)

\* what there is out of the loop, before a line is read, and without a structure
LoopShape(q) ==
  /\ q.loop.pc = "out" => q.loop = NoLoop
  /\ q.loop.pc \in {"check", "gets"} => q.loop.line = Null /\ q.loop.vec = Null /\ q.loop.parse = Null
Shape(q) ==
  /\ LoopShape(q)
  /\ q.ed.self = Null =>
       q.ed = NoEditline /\ q.past = NoPast /\ q.asked = NoFile /\ q.loop = NoLoop

\* The file that the caller asked for is the one that is saved, and the history
\* is of what was read for it: the end of the log, if nothing is missing.
Saving(q, log, miss) ==
  /\ q.ed.history # Null => q.past.size # 0
  /\ q.asked = NoFile => q.ed.history = Null \/ q.ed.path = NoFile
  /\ q.asked # NoFile =>
       /\ q.ed.history # Null /\ q.ed.path = q.asked /\ Within(q.past.lines, log[q.asked])
       /\ ~miss => EndOf(q.past.lines, Squeezed(log[q.asked]))

Settled(q, log, miss) == Sound(q) /\ Shape(q) /\ Saving(q, log, miss)

KeptIn(d, log, part, f) ==
  /\ Within(d[f], log[f])
  /\ ~part[f] => EndOf(d[f], Squeezed(log[f])) /\ (log[f] # <<>> => d[f] # <<>>)

IInv ==
  /\ Settled(p, entered, missing) /\ missing \in BOOLEAN
  /\ disk \in [Files -> Seq(Names)] /\ entered \in [Files -> Seq(Names)] /\ partial \in [Files -> BOOLEAN]
  /\ \A f \in Files : KeptIn(disk, entered, partial, f)

-----------------------------------------------------------------------------
(***************************************************************************)
(* ec_editline_set_history() and ec_editline_free().                       *)
(***************************************************************************)

\* y is the process q but for its history: the rest is as it was
Around(q, y) ==
  /\ IsProc(y) /\ ~y.fault /\ Calls(q.left, y.left)
  /\ y.loop = q.loop /\ y.asked = q.asked
  /\ y.ed.self = q.ed.self /\ y.ed.el = q.ed.el /\ y.ed.prompt = q.ed.prompt /\ y.ed.node = q.ed.node

LEMMA AroundTrans ==
  ASSUME NEW q, NEW x, NEW y, Around(q, x), Around(x, y)
  PROVE  Around(q, y)
BY DEF Around, Calls

LEMMA SameAround ==
  ASSUME NEW q, NEW y, ~q.fault, Same(q, y)
  PROVE  Around(q, y)
BY DEF Around, Same

\* the types of the parts of a process
LEMMA PartsTyped ==
  ASSUME NEW q, IsProc(q)
  PROVE  /\ q \in Procs /\ q.ed \in Eds /\ q.loop \in Loops /\ q.past \in Pasts /\ q.el_hist \in Nat
         /\ {q.ed.self, q.ed.el, q.ed.history, q.ed.file, q.ed.prompt, q.loop.line, q.loop.vec, q.loop.parse} \subseteq Nat
         /\ q.past.size \in Nat /\ q.past.lines \in Seq(Names)
         /\ q.ed.path \in Files \cup {NoFile} /\ q.asked \in Files \cup {NoFile} /\ q.ed.node \in Grammars \cup {NoNode}
         /\ q.loop.node \in Grammars \cup {NoNode}
BY DEF IsProc, Procs, Eds, Loops, Pasts

\* one part of a process is set
LEMMA SetEd ==
  ASSUME NEW b, IsProc(b), NEW e \in Eds
  PROVE  LET y == [b EXCEPT !.ed = e] IN
         /\ IsProc(y) /\ y.ed = e /\ y.live = b.live /\ y.fault = b.fault /\ y.left = b.left /\ y.loop = b.loop
         /\ y.asked = b.asked /\ y.el_hist = b.el_hist /\ y.past = b.past
BY DEF IsProc, Procs

LEMMA SetPast ==
  ASSUME NEW b, IsProc(b), NEW past \in Pasts
  PROVE  LET y == [b EXCEPT !.past = past] IN
         /\ IsProc(y) /\ y.ed = b.ed /\ y.live = b.live /\ y.fault = b.fault /\ y.left = b.left /\ y.loop = b.loop
         /\ y.asked = b.asked /\ y.el_hist = b.el_hist /\ y.past = past
BY DEF IsProc, Procs

LEMMA SetElHist ==
  ASSUME NEW b, IsProc(b), NEW h \in Nat
  PROVE  LET y == [b EXCEPT !.el_hist = h] IN
         /\ IsProc(y) /\ y.ed = b.ed /\ y.live = b.live /\ y.fault = b.fault /\ y.left = b.left /\ y.loop = b.loop
         /\ y.asked = b.asked /\ y.el_hist = h /\ y.past = b.past
BY DEF IsProc, Procs

LEMMA SetLoop ==
  ASSUME NEW b, IsProc(b), NEW loop \in Loops
  PROVE  LET y == [b EXCEPT !.loop = loop] IN
         /\ IsProc(y) /\ y.ed = b.ed /\ y.live = b.live /\ y.fault = b.fault /\ y.left = b.left /\ y.loop = loop
         /\ y.asked = b.asked /\ y.el_hist = b.el_hist /\ y.past = b.past
BY DEF IsProc, Procs

LEMMA SetAsked ==
  ASSUME NEW b, IsProc(b), NEW file \in Files \cup {NoFile}
  PROVE  LET y == [b EXCEPT !.asked = file] IN
         /\ IsProc(y) /\ y.ed = b.ed /\ y.live = b.live /\ y.fault = b.fault /\ y.left = b.left /\ y.loop = b.loop
         /\ y.asked = file /\ y.el_hist = b.el_hist /\ y.past = b.past
BY DEF IsProc, Procs

LEMMA SetLeft ==
  ASSUME NEW b, IsProc(b), NEW k \in Int
  PROVE  LET y == [b EXCEPT !.left = k] IN
         /\ IsProc(y) /\ y.ed = b.ed /\ y.live = b.live /\ y.fault = b.fault /\ y.left = k /\ y.loop = b.loop
         /\ y.asked = b.asked /\ y.el_hist = b.el_hist /\ y.past = b.past
BY DEF IsProc, Procs

LEMMA DropHistoryIs ==
  ASSUME NEW q, Sound(q)
  PROVE  LET y == DropHistory(q) IN
         /\ Around(q, y) /\ OwnsWith(y, Null, Null) /\ y.ed.file = Null /\ y.ed.path = NoFile
         /\ y.past = NoPast /\ y.el_hist = q.el_hist /\ y.ed.history = q.ed.history
<1>0. IsProc(q) /\ ~q.fault
  BY DEF Sound, OwnsWith
<1>1. PICK h : h = q.ed.history
  OBVIOUS
<1>2. PICK f : f = q.ed.file
  OBVIOUS
<1>3. PICK a : a = Free(q, h)
  OBVIOUS
<1>4. PICK b : b = Free(a, f)
  OBVIOUS
<1>5. h \in q.live \cup {Null} /\ f \in (q.live \ {h}) \cup {Null}
  BY <1>1, <1>2 DEF Sound, OwnsWith, Owns, Apart
<1>6. Same(q, a) /\ a.live = q.live \ {h} /\ IsProc(a)
  BY <1>0, <1>3, <1>5, FreeIs DEF Same
<1>7. Same(a, b) /\ b.live = a.live \ {f}
  BY <1>4, <1>5, <1>6, FreeIs
<1>8. Same(q, b) /\ IsProc(b)
  BY <1>6, <1>7, SameTrans DEF Same
<1>9. PICK y : y = [b EXCEPT !.ed.file = Null, !.ed.path = NoFile, !.past = NoPast]
  OBVIOUS
<1>10. DropHistory(q) = y
  BY <1>1, <1>2, <1>3, <1>4, <1>9 DEF DropHistory
<1>11. /\ IsProc(y) /\ y.live = b.live /\ y.fault = b.fault /\ y.left = b.left /\ y.loop = b.loop /\ y.asked = b.asked
       /\ y.el_hist = b.el_hist /\ y.past = NoPast
       /\ y.ed.self = b.ed.self /\ y.ed.el = b.ed.el /\ y.ed.prompt = b.ed.prompt /\ y.ed.node = b.ed.node
       /\ y.ed.history = b.ed.history /\ y.ed.file = Null /\ y.ed.path = NoFile
  <2>1. PICK e : e = [b.ed EXCEPT !.file = Null]
    OBVIOUS
  <2>2. PICK c : c = [b EXCEPT !.ed = e]
    OBVIOUS
  <2>3. PICK g : g = [c.ed EXCEPT !.path = NoFile]
    OBVIOUS
  <2>4. PICK d : d = [c EXCEPT !.ed = g]
    OBVIOUS
  <2>5. y = [d EXCEPT !.past = NoPast]
    BY <1>9, <2>1, <2>2, <2>3, <2>4
  <2>6. e \in Eds /\ e.file = Null /\ e.self = b.ed.self /\ e.el = b.ed.el /\ e.history = b.ed.history
        /\ e.prompt = b.ed.prompt /\ e.node = b.ed.node
    BY <1>8, <2>1, PartsTyped DEF Eds, Null
  <2>7. IsProc(c) /\ c.ed = e /\ c.live = b.live /\ c.fault = b.fault /\ c.left = b.left /\ c.loop = b.loop /\ c.asked = b.asked /\ c.el_hist = b.el_hist /\ c.past = b.past
    BY <1>8, <2>2, <2>6, SetEd
  <2>8. g \in Eds /\ g.path = NoFile /\ g.self = e.self /\ g.el = e.el /\ g.history = e.history
        /\ g.prompt = e.prompt /\ g.node = e.node /\ g.file = e.file
    BY <2>3, <2>6, <2>7 DEF Eds
  <2>9. NoPast \in Pasts
    BY DEF NoPast, Pasts
  <2>10. IsProc(d) /\ d.ed = g /\ d.live = c.live /\ d.fault = c.fault /\ d.left = c.left /\ d.loop = c.loop /\ d.asked = c.asked /\ d.el_hist = c.el_hist /\ d.past = c.past
    BY <2>4, <2>7, <2>8, SetEd
  <2>11. IsProc(y) /\ y.past = NoPast /\ y.ed = d.ed /\ y.live = d.live /\ y.fault = d.fault /\ y.left = d.left /\ y.loop = d.loop /\ y.asked = d.asked /\ y.el_hist = d.el_hist
    BY <2>5, <2>9, <2>10, SetPast
  <2> QED
    BY <2>6, <2>7, <2>8, <2>10, <2>11
<1>12. Around(q, y)
  BY <1>0, <1>8, <1>11 DEF Around, Same
<1>13. OwnsWith(y, Null, Null)
  <2>1. y.live = (q.live \ {h}) \ {f}
    BY <1>6, <1>7, <1>11
  <2>2. y.loop = q.loop /\ y.ed.self = q.ed.self /\ y.ed.el = q.ed.el /\ y.ed.prompt = q.ed.prompt /\ ~y.fault
    BY <1>12 DEF Around
  <2>3. Owns(q.live, q.ed.self, q.ed.el, h, f, q.ed.prompt, q.loop.line, q.loop.vec, q.loop.parse)
    BY <1>1, <1>2 DEF Sound, OwnsWith
  <2>4. Owns(y.live, y.ed.self, y.ed.el, Null, Null, y.ed.prompt, y.loop.line, y.loop.vec, y.loop.parse)
    BY <2>1, <2>2, <2>3 DEF Owns, Apart
  <2> QED
    BY <1>11, <2>2, <2>4 DEF OwnsWith
<1> QED
  BY <1>8, <1>10, <1>11, <1>12, <1>13 DEF Same

LEMMA EndHistoryIs ==
  ASSUME NEW q, Sound(q)
  PROVE  LET y == EndHistory(q) IN
         /\ Around(q, y) /\ Sound(y) /\ y.ed.history = Null /\ y.past = NoPast /\ y.el_hist = q.el_hist
<1>0. IsProc(q) /\ ~q.fault
  BY DEF Sound, OwnsWith
<1>1. PICK h : h = q.ed.history
  OBVIOUS
<1>2. PICK b : b = Free(q, h)
  OBVIOUS
<1>3. h \in q.live \cup {Null}
  BY <1>1 DEF Sound, OwnsWith, Owns, Apart
<1>4. Same(q, b) /\ b.live = q.live \ {h} /\ IsProc(b)
  BY <1>0, <1>2, <1>3, FreeIs DEF Same
<1>5. PICK y : y = [b EXCEPT !.ed.history = Null, !.past = NoPast]
  OBVIOUS
<1>6. EndHistory(q) = y
  BY <1>1, <1>2, <1>5 DEF EndHistory
<1>7. /\ IsProc(y) /\ y.live = b.live /\ y.fault = b.fault /\ y.left = b.left /\ y.loop = b.loop /\ y.asked = b.asked
      /\ y.el_hist = b.el_hist /\ y.past = NoPast
      /\ y.ed.self = b.ed.self /\ y.ed.el = b.ed.el /\ y.ed.prompt = b.ed.prompt /\ y.ed.node = b.ed.node
      /\ y.ed.history = Null /\ y.ed.file = b.ed.file
  <2>1. PICK e : e = [b.ed EXCEPT !.history = Null]
    OBVIOUS
  <2>2. PICK c : c = [b EXCEPT !.ed = e]
    OBVIOUS
  <2>3. y = [c EXCEPT !.past = NoPast]
    BY <1>5, <2>1, <2>2
  <2>4. e \in Eds /\ e.history = Null /\ e.self = b.ed.self /\ e.el = b.ed.el /\ e.file = b.ed.file
        /\ e.prompt = b.ed.prompt /\ e.node = b.ed.node
    BY <1>4, <2>1, PartsTyped DEF Eds, Null
  <2>5. NoPast \in Pasts
    BY DEF NoPast, Pasts
  <2>6. IsProc(c) /\ c.ed = e /\ c.live = b.live /\ c.fault = b.fault /\ c.left = b.left /\ c.loop = b.loop /\ c.asked = b.asked /\ c.el_hist = b.el_hist /\ c.past = b.past
    BY <1>4, <2>2, <2>4, SetEd
  <2>7. IsProc(y) /\ y.past = NoPast /\ y.ed = c.ed /\ y.live = c.live /\ y.fault = c.fault /\ y.left = c.left /\ y.loop = c.loop /\ y.asked = c.asked /\ y.el_hist = c.el_hist
    BY <2>3, <2>5, <2>6, SetPast
  <2> QED
    BY <2>4, <2>6, <2>7
<1>8. Around(q, y)
  BY <1>0, <1>4, <1>7 DEF Around, Same
<1>9. Sound(y)
  <2>1. y.live = q.live \ {h}
    BY <1>4, <1>7
  <2>2. /\ y.loop = q.loop /\ y.ed.self = q.ed.self /\ y.ed.el = q.ed.el /\ y.ed.prompt = q.ed.prompt
        /\ y.ed.history = Null /\ y.ed.file = q.ed.file /\ ~y.fault
    BY <1>4, <1>7, <1>8 DEF Around, Same
  <2>3. Owns(q.live, q.ed.self, q.ed.el, h, q.ed.file, q.ed.prompt, q.loop.line, q.loop.vec, q.loop.parse)
    BY <1>1 DEF Sound, OwnsWith
  <2>4. Owns(y.live, y.ed.self, y.ed.el, y.ed.history, y.ed.file, y.ed.prompt, y.loop.line, y.loop.vec, y.loop.parse)
    BY <2>1, <2>2, <2>3 DEF Owns, Apart
  <2> QED
    BY <1>7, <2>2, <2>4 DEF Sound, OwnsWith
<1> QED
  BY <1>4, <1>6, <1>7, <1>8, <1>9 DEF Same

\* What ec_editline_set_history() has so far when it began with q: it goes on
\* with a new history of the size and the lines, for the file, or it failed and
\* there is no history.
Sized(q, r, size, file, lines) ==
  /\ r.ok \in BOOLEAN /\ Around(q, r.p) /\ Sound(r.p) /\ (q.left < 0 => r.ok)
  /\ r.ok => /\ r.p.ed.history # Null /\ r.p.ed.path = file /\ r.p.past = [size |-> size, lines |-> lines]
             /\ file = NoFile => r.p.ed.file = Null
  /\ ~r.ok => r.p.ed.history = Null /\ r.p.past = NoPast

LEMMA HistoryFailsIs ==
  ASSUME NEW q, NEW x, Around(q, x), Sound(x), ~(q.left < 0), NEW size, NEW file, NEW lines
  PROVE  Sized(q, HistoryFails(x), size, file, lines)
<1>1. PICK y : y = EndHistory(x)
  OBVIOUS
<1>2. Around(x, y) /\ Sound(y) /\ y.ed.history = Null /\ y.past = NoPast
  BY <1>1, EndHistoryIs
<1>3. Around(q, y)
  BY <1>2, AroundTrans
<1> QED
  BY <1>1, <1>2, <1>3 DEF Sized, HistoryFails

\* A process with other objects in use, none of them its own, is sound as well.
LEMMA SoundSame ==
  ASSUME NEW q, NEW y, Sound(q), Same(q, y), y.live = q.live
  PROVE  Sound(y)
BY DEF Sound, OwnsWith, Same

LEMMA HistorySettingIs ==
  ASSUME NEW q, NEW r, NEW size, NEW file, NEW lines, Sized(q, r, size, file, lines)
  PROVE  Sized(q, HistorySetting(r), size, file, lines)
<1>1. CASE ~r.ok
  BY <1>1 DEF HistorySetting
<1>2. CASE r.ok
  <2>1. PICK a : a = Failed(r.p)
    OBVIOUS
  <2>2. PICK b : b = Passed(r.p)
    OBVIOUS
  <2>3. HistorySetting(r) = IF r.p.left = 0 THEN HistoryFails(a) ELSE Sets(b)
    BY <1>2, <2>1, <2>2 DEF HistorySetting, Call, Failed, Passed
  <2>4. IsProc(r.p) /\ ~r.p.fault /\ Around(q, r.p) /\ Sound(r.p)
    BY DEF Sized, Sound, OwnsWith
  <2>5. Same(r.p, a) /\ a.live = r.p.live /\ Same(r.p, b) /\ b.live = r.p.live
    BY <2>1, <2>2, <2>4, FailedIs, PassedIs
  <2>6. Around(q, a) /\ Sound(a) /\ Around(q, b) /\ Sound(b)
    BY <2>4, <2>5, SameAround, AroundTrans, SoundSame
  <2>7. r.p.left = 0 => ~(q.left < 0)
    BY <2>4 DEF Around, Calls
  <2>8. r.p.left = 0 => Sized(q, HistoryFails(a), size, file, lines)
    BY <2>6, <2>7, HistoryFailsIs
  <2>9. Sized(q, Sets(b), size, file, lines)
    BY <1>2, <2>5, <2>6 DEF Sized, Sets, Same
  <2> QED
    BY <2>3, <2>8, <2>9
<1>3. r.ok \in BOOLEAN
  BY DEF Sized
<1> QED
  BY <1>1, <1>2, <1>3

\* history_init(): a new history, or none
LEMMA NewHistoryIs ==
  ASSUME NEW q0, NEW q, Around(q0, q), OwnsWith(q, Null, Null), q.ed.file = Null, q.ed.path = NoFile, q.past = NoPast,
         NEW size \in Nat
  PROVE  Sized(q0, NewHistory(q, size), size, NoFile, <<>>)
<1>0. IsProc(q) /\ ~q.fault
  BY DEF OwnsWith
<1>1. PICK used : used = q.live \cup ({q.ed.history, q.el_hist} \ {Null})
  OBVIOUS
<1>2. PICK o : o = Unused(used)
  OBVIOUS
<1>3. PICK a : a = Failed(q)
  OBVIOUS
<1>4. PICK b : b = Got(q, o)
  OBVIOUS
<1>5. PICK past : past = [size |-> size, lines |-> <<>>]
  OBVIOUS
<1>6. PICK x : x = [a EXCEPT !.ed.history = Null]
  OBVIOUS
<1>7. PICK y : y = [b EXCEPT !.ed.history = o, !.past = past]
  OBVIOUS
<1>8. NewHistory(q, size) = IF q.left = 0 THEN [ok |-> FALSE, p |-> x] ELSE Sets(y)
  BY <1>1, <1>2, <1>3, <1>4, <1>5, <1>6, <1>7 DEF NewHistory, New, AllocAt, Call, Failed, Passed, Got
<1>9. o \in Nat \ {Null} /\ o \notin q.live
  <2>1. IsFiniteSet({q.ed.history, q.el_hist} \ {Null})
    <3>1. IsFiniteSet({q.ed.history}) /\ IsFiniteSet({q.el_hist})
      BY FS_Singleton
    <3>2. IsFiniteSet({q.ed.history} \cup {q.el_hist})
      BY <3>1, FS_Union
    <3>3. {q.ed.history} \cup {q.el_hist} = {q.ed.history, q.el_hist}
      OBVIOUS
    <3> QED
      BY <3>2, <3>3, FS_Difference
  <2>2. IsFiniteSet(used)
    BY <1>0, <1>1, <2>1, FS_Union DEF IsProc
  <2> QED
    BY <1>1, <1>2, <2>2, UnusedIs
<1>10. /\ Same(q, a) /\ a.live = q.live /\ Same(q, b) /\ b.live = q.live \cup {o} /\ IsProc(a) /\ IsProc(b)
  BY <1>0, <1>3, <1>4, <1>9, FailedIs, GotIs DEF Same
<1>11. Owns(q.live, q.ed.self, q.ed.el, Null, Null, q.ed.prompt, q.loop.line, q.loop.vec, q.loop.parse)
  BY DEF OwnsWith
<1>12. Around(q0, x) /\ Sound(x) /\ x.ed.history = Null /\ x.past = NoPast
  <2>1. PICK e : e = [a.ed EXCEPT !.history = Null]
    OBVIOUS
  <2>2. /\ e \in Eds /\ e.history = Null /\ e.self = a.ed.self /\ e.el = a.ed.el /\ e.file = a.ed.file
        /\ e.path = a.ed.path /\ e.prompt = a.ed.prompt /\ e.node = a.ed.node
    BY <1>10, <2>1, PartsTyped DEF Eds, Null
  <2>3. IsProc(x) /\ x.ed = e /\ x.live = a.live /\ x.fault = a.fault /\ x.left = a.left /\ x.loop = a.loop /\ x.asked = a.asked /\ x.el_hist = a.el_hist /\ x.past = a.past
    BY <1>6, <1>10, <2>1, <2>2, SetEd
  <2>4. Around(q, x)
    BY <1>0, <1>10, <2>2, <2>3 DEF Around, Same
  <2>5. Around(q0, x)
    BY <2>4, AroundTrans
  <2>6. /\ x.live = q.live /\ x.loop = q.loop /\ x.past = q.past /\ x.ed.self = q.ed.self /\ x.ed.el = q.ed.el
        /\ x.ed.prompt = q.ed.prompt /\ x.ed.history = Null /\ x.ed.file = Null
    BY <1>10, <2>2, <2>3 DEF Same
  <2> QED
    BY <1>11, <2>4, <2>5, <2>6 DEF Sound, OwnsWith, Around
<1>13. Around(q0, y) /\ Sound(y) /\ y.ed.history = o /\ y.past = past /\ y.ed.path = NoFile /\ y.ed.file = Null
  <2>1. PICK e : e = [b.ed EXCEPT !.history = o]
    OBVIOUS
  <2>2. PICK c : c = [b EXCEPT !.ed = e]
    OBVIOUS
  <2>3. y = [c EXCEPT !.past = past]
    BY <1>7, <2>1, <2>2
  <2>4. /\ e \in Eds /\ e.history = o /\ e.self = b.ed.self /\ e.el = b.ed.el /\ e.file = b.ed.file
        /\ e.path = b.ed.path /\ e.prompt = b.ed.prompt /\ e.node = b.ed.node
    BY <1>9, <1>10, <2>1, PartsTyped DEF Eds
  <2>5. IsProc(c) /\ c.ed = e /\ c.live = b.live /\ c.fault = b.fault /\ c.left = b.left /\ c.loop = b.loop /\ c.asked = b.asked /\ c.el_hist = b.el_hist /\ c.past = b.past
    BY <1>10, <2>2, <2>4, SetEd
  <2>6. past \in Pasts
    BY <1>5 DEF Pasts
  <2>7. IsProc(y) /\ y.past = past /\ y.ed = c.ed /\ y.live = c.live /\ y.fault = c.fault /\ y.left = c.left /\ y.loop = c.loop /\ y.asked = c.asked /\ y.el_hist = c.el_hist
    BY <2>3, <2>5, <2>6, SetPast
  <2>8. Around(q, y)
    BY <1>0, <1>10, <2>4, <2>5, <2>7 DEF Around, Same
  <2>9. Around(q0, y)
    BY <2>8, AroundTrans
  <2>10. /\ y.live = q.live \cup {o} /\ y.loop = q.loop /\ y.ed.self = q.ed.self /\ y.ed.el = q.ed.el
         /\ y.ed.prompt = q.ed.prompt /\ y.ed.history = o /\ y.ed.file = Null /\ y.ed.path = NoFile
    BY <1>10, <2>4, <2>5, <2>7 DEF Same
  <2>11. Owns(y.live, y.ed.self, y.ed.el, o, Null, y.ed.prompt, y.loop.line, y.loop.vec, y.loop.parse)
    BY <1>9, <1>11, <2>10 DEF Owns, Apart
  <2> QED
    BY <2>7, <2>8, <2>9, <2>10, <2>11 DEF Sound, OwnsWith, Around
<1>14. q.left = 0 => ~(q0.left < 0)
  BY DEF Around, Calls
<1>15. CASE q.left = 0
  BY <1>8, <1>12, <1>14, <1>15 DEF Sized
<1>16. CASE q.left # 0
  BY <1>5, <1>8, <1>9, <1>13, <1>16 DEF Sized, Sets
<1> QED
  BY <1>15, <1>16

\* The file of the history, if there is one, is loaded.
LEMMA LoadHistoryIs ==
  ASSUME NEW q, NEW r, NEW size \in Nat, NEW file \in Files \cup {NoFile}, NEW lines \in Seq(Names),
         Sized(q, r, size, NoFile, <<>>), NEW loaded, loaded = IF file = NoFile THEN <<>> ELSE Loaded(size, lines)
  PROVE  Sized(q, LoadHistory(r, file, lines), size, file, loaded)
<1>1. CASE ~r.ok
  BY <1>1 DEF LoadHistory, Sized
<1>2. CASE r.ok /\ file = NoFile
  BY <1>2 DEF LoadHistory
<1>3. CASE r.ok /\ file # NoFile
  <2>0. IsProc(r.p) /\ ~r.p.fault /\ Around(q, r.p) /\ Sound(r.p) /\ r.p.ed.file = Null /\ r.p.past.size = size
    BY <1>3 DEF Sized, Sound, OwnsWith
  <2>1. PICK o : o = Unused(r.p.live)
    OBVIOUS
  <2>2. PICK a : a = Failed(r.p)
    OBVIOUS
  <2>3. PICK b : b = Got(r.p, o)
    OBVIOUS
  <2>4. PICK y : y = [b EXCEPT !.ed.file = o, !.ed.path = file, !.past.lines = Loaded(b.past.size, lines)]
    OBVIOUS
  <2>5. LoadHistory(r, file, lines) = IF r.p.left = 0 THEN HistoryFails(a) ELSE Sets(y)
    BY <1>3, <2>1, <2>2, <2>3, <2>4 DEF LoadHistory, Alloc, AllocAt, Call, Failed, Passed, Got
  <2>6. /\ o \in Nat \ {Null} /\ o \notin r.p.live
        /\ Same(r.p, a) /\ a.live = r.p.live /\ Same(r.p, b) /\ b.live = r.p.live \cup {o} /\ IsProc(b)
    BY <2>0, <2>1, <2>2, <2>3, AllocIs DEF Same
  <2>7. r.p.left = 0 => Sized(q, HistoryFails(a), size, file, loaded)
    <3>1. Around(q, a) /\ Sound(a)
      BY <2>0, <2>6, SameAround, AroundTrans, SoundSame
    <3>2. r.p.left = 0 => ~(q.left < 0)
      BY <2>0 DEF Around, Calls
    <3> QED
      BY <3>1, <3>2, HistoryFailsIs
  <2>8. Sized(q, Sets(y), size, file, loaded)
    <3>1. PICK e : e = [b.ed EXCEPT !.file = o]
      OBVIOUS
    <3>2. PICK c : c = [b EXCEPT !.ed = e]
      OBVIOUS
    <3>3. PICK g : g = [c.ed EXCEPT !.path = file]
      OBVIOUS
    <3>4. PICK d : d = [c EXCEPT !.ed = g]
      OBVIOUS
    <3>5. PICK past : past = [d.past EXCEPT !.lines = Loaded(b.past.size, lines)]
      OBVIOUS
    <3>6. y = [d EXCEPT !.past = past]
      BY <2>4, <3>1, <3>2, <3>3, <3>4, <3>5
    <3>7. /\ e \in Eds /\ e.file = o /\ e.self = b.ed.self /\ e.el = b.ed.el /\ e.history = b.ed.history
          /\ e.path = b.ed.path /\ e.prompt = b.ed.prompt /\ e.node = b.ed.node
      BY <2>6, <3>1, PartsTyped DEF Eds
    <3>8. IsProc(c) /\ c.ed = e /\ c.live = b.live /\ c.fault = b.fault /\ c.left = b.left /\ c.loop = b.loop /\ c.asked = b.asked /\ c.el_hist = b.el_hist /\ c.past = b.past
      BY <2>6, <3>2, <3>7, SetEd
    <3>9. /\ g \in Eds /\ g.path = file /\ g.self = e.self /\ g.el = e.el /\ g.history = e.history
          /\ g.file = e.file /\ g.prompt = e.prompt /\ g.node = e.node
      BY <3>3, <3>7, <3>8 DEF Eds
    <3>10. IsProc(d) /\ d.ed = g /\ d.live = c.live /\ d.fault = c.fault /\ d.left = c.left /\ d.loop = c.loop /\ d.asked = c.asked /\ d.el_hist = c.el_hist /\ d.past = c.past
      BY <3>4, <3>8, <3>9, SetEd
    <3>11. b.past = r.p.past /\ d.past = r.p.past /\ r.p.past = [size |-> size, lines |-> <<>>]
      BY <1>3, <2>6, <3>8, <3>10 DEF Same, Sized
    <3>12. Loaded(size, lines) \in Seq(Names) /\ loaded = Loaded(size, lines) /\ b.past.size = size
      BY <1>3, <3>11, LoadedIs
    <3>13. past = [size |-> size, lines |-> loaded]
      BY <3>5, <3>11, <3>12
    <3>14. past \in Pasts
      BY <3>12, <3>13 DEF Pasts
    <3>15. IsProc(y) /\ y.past = past /\ y.ed = d.ed /\ y.live = d.live /\ y.fault = d.fault /\ y.left = d.left /\ y.loop = d.loop /\ y.asked = d.asked /\ y.el_hist = d.el_hist
      BY <3>6, <3>10, <3>14, SetPast
    <3>16. /\ y.live = r.p.live \cup {o} /\ y.loop = r.p.loop /\ y.ed.self = r.p.ed.self /\ y.ed.el = r.p.ed.el
           /\ y.ed.prompt = r.p.ed.prompt /\ y.ed.node = r.p.ed.node /\ y.ed.history = r.p.ed.history /\ y.ed.file = o /\ y.ed.path = file
           /\ y.asked = r.p.asked /\ ~y.fault /\ Calls(r.p.left, y.left)
      BY <2>0, <2>6, <3>7, <3>8, <3>9, <3>10, <3>15 DEF Same
    <3>17. Around(r.p, y)
      BY <3>15, <3>16 DEF Around
    <3>18. Around(q, y)
      BY <2>0, <3>17, AroundTrans
    <3>19. Owns(r.p.live, r.p.ed.self, r.p.ed.el, r.p.ed.history, Null, r.p.ed.prompt, r.p.loop.line, r.p.loop.vec, r.p.loop.parse)
      BY <2>0 DEF Sound, OwnsWith
    <3>20. Owns(y.live, y.ed.self, y.ed.el, y.ed.history, o, y.ed.prompt, y.loop.line, y.loop.vec, y.loop.parse)
      BY <2>6, <3>16, <3>19, OwnsOneMore
    <3>21. Sound(y)
      BY <3>15, <3>16, <3>20 DEF Sound, OwnsWith
    <3>22. y.ed.history # Null
      BY <1>3, <3>16 DEF Sized
    <3> QED
      BY <1>3, <3>13, <3>15, <3>16, <3>18, <3>21, <3>22 DEF Sized, Sets
  <2> QED
    BY <2>5, <2>7, <2>8
<1>4. r.ok \in BOOLEAN
  BY DEF Sized
<1> QED
  BY <1>1, <1>2, <1>3, <1>4

\* el_set(EL_HIST): once it succeeds, libedit refers to the new history.
LEMMA AttachIs ==
  ASSUME NEW q, NEW r, NEW size, NEW file, NEW lines, Sized(q, r, size, file, lines)
  PROVE  Sized(q, Attach(r), size, file, lines)
<1>1. CASE ~r.ok
  BY <1>1 DEF Attach
<1>2. CASE r.ok
  <2>1. PICK a : a = Failed(r.p)
    OBVIOUS
  <2>2. PICK b : b = Passed(r.p)
    OBVIOUS
  <2>3. PICK y : y = [b EXCEPT !.el_hist = b.ed.history]
    OBVIOUS
  <2>4. Attach(r) = IF r.p.left = 0 THEN HistoryFails(a) ELSE Sets(y)
    BY <1>2, <2>1, <2>2, <2>3 DEF Attach, Call, Failed, Passed
  <2>5. IsProc(r.p) /\ ~r.p.fault /\ Around(q, r.p) /\ Sound(r.p)
    BY DEF Sized, Sound, OwnsWith
  <2>6. Same(r.p, a) /\ a.live = r.p.live /\ Same(r.p, b) /\ b.live = r.p.live /\ IsProc(b)
    BY <2>1, <2>2, <2>5, FailedIs, PassedIs DEF Same
  <2>7. Around(q, a) /\ Sound(a) /\ Around(q, b) /\ Sound(b)
    BY <2>5, <2>6, SameAround, AroundTrans, SoundSame
  <2>8. r.p.left = 0 => ~(q.left < 0)
    BY <2>5 DEF Around, Calls
  <2>9. r.p.left = 0 => Sized(q, HistoryFails(a), size, file, lines) /\ ~HistoryFails(a).ok
    BY <2>7, <2>8, HistoryFailsIs DEF HistoryFails
  <2>10. b.ed.history \in Nat
    BY <2>6, PartsTyped
  <2>11. IsProc(y) /\ y.el_hist = b.ed.history /\ y.ed = b.ed /\ y.live = b.live /\ y.fault = b.fault /\ y.left = b.left /\ y.loop = b.loop /\ y.asked = b.asked /\ y.past = b.past
    BY <2>3, <2>6, <2>10, SetElHist
  <2>12. Around(q, y)
    BY <2>7, <2>11 DEF Around
  <2>13. Sound(y)
    BY <2>7, <2>11 DEF Sound, OwnsWith
  <2>14. y.ed = r.p.ed /\ y.past = r.p.past
    BY <2>6, <2>11 DEF Same
  <2>15. Sized(q, Sets(y), size, file, lines)
    BY <1>2, <2>11, <2>12, <2>13, <2>14 DEF Sized, Sets
  <2> QED
    BY <2>4, <2>9, <2>15
<1>3. r.ok \in BOOLEAN
  BY DEF Sized
<1> QED
  BY <1>1, <1>2, <1>3

LEMMA SetHistoryOfIs ==
  ASSUME NEW q, Sound(q), NEW size \in Nat \ {0}, NEW file \in Files \cup {NoFile}, NEW lines \in Seq(Names)
  PROVE  Sized(q, SetHistoryOf(q, size, file, lines), size, file, IF file = NoFile THEN <<>> ELSE Loaded(size, lines))
<1>1. PICK d : d = DropHistory(q)
  OBVIOUS
<1>2. PICK n : n = NewHistory(d, size)
  OBVIOUS
<1>3. PICK s : s = HistorySetting(HistorySetting(n))
  OBVIOUS
<1>4. PICK l : l = LoadHistory(s, file, lines)
  OBVIOUS
<1>5. PICK loaded : loaded = IF file = NoFile THEN <<>> ELSE Loaded(size, lines)
  OBVIOUS
<1>6. SetHistoryOf(q, size, file, lines) = Attach(l)
  BY <1>1, <1>2, <1>3, <1>4 DEF SetHistoryOf
<1>7. Around(q, d) /\ OwnsWith(d, Null, Null) /\ d.ed.file = Null /\ d.ed.path = NoFile /\ d.past = NoPast
  BY <1>1, DropHistoryIs
<1>8. Sized(q, n, size, NoFile, <<>>)
  BY <1>2, <1>7, NewHistoryIs
<1>9. Sized(q, s, size, NoFile, <<>>)
  BY <1>3, <1>8, HistorySettingIs
<1>10. Sized(q, l, size, file, loaded)
  BY <1>4, <1>5, <1>9, LoadHistoryIs
<1> QED
  BY <1>5, <1>6, <1>10, AttachIs

\* ec_editline_free() leaves nothing of the structure.
LEMMA FreeEditlineIs ==
  ASSUME NEW q, Sound(q)
  PROVE  LET y == FreeEditline(q) IN
         /\ Sound(y) /\ y.ed = NoEditline /\ y.el_hist = Null /\ y.past = NoPast /\ y.asked = NoFile
         /\ y.loop = q.loop
<1>0. IsProc(q) /\ ~q.fault
  BY DEF Sound, OwnsWith
<1>1. PICK h : h = q.ed.history
  OBVIOUS
<1>2. PICK f : f = q.ed.file
  OBVIOUS
<1>3. PICK t : t = q.ed.prompt
  OBVIOUS
<1>4. PICK S : S = {q.ed.self, q.ed.el} \ {Null}
  OBVIOUS
<1>5. PICK a : a = Free(q, h)
  OBVIOUS
<1>6. PICK b : b = Free(a, f)
  OBVIOUS
<1>7. PICK c : c = Free(b, t)
  OBVIOUS
<1>8. PICK d : d = FreeAll(c, S)
  OBVIOUS
<1>9. PICK e : e = [d EXCEPT !.ed = NoEditline]
  OBVIOUS
<1>10. PICK g : g = [e EXCEPT !.el_hist = Null]
  OBVIOUS
<1>11. PICK k : k = [g EXCEPT !.past = NoPast]
  OBVIOUS
<1>12. PICK y : y = [k EXCEPT !.asked = NoFile]
  OBVIOUS
<1>13. Same(q, a) /\ Same(a, b)
  <2>1. h \in q.live \cup {Null}
    BY <1>1 DEF Sound, OwnsWith, Owns, Apart
  <2>2. Same(q, a) /\ a.live = q.live \ {h} /\ IsProc(a)
    BY <1>0, <1>5, <2>1, FreeIs DEF Same
  <2>3. f \in a.live \cup {Null}
    BY <1>1, <1>2, <2>2 DEF Sound, OwnsWith, Owns, Apart
  <2> QED
    BY <1>6, <2>2, <2>3, FreeIs
<1>14. a.live = q.live \ {h} /\ IsProc(a) /\ b.live = (q.live \ {h}) \ {f} /\ IsProc(b)
  <2>1. h \in q.live \cup {Null}
    BY <1>1 DEF Sound, OwnsWith, Owns, Apart
  <2>2. a.live = q.live \ {h} /\ IsProc(a)
    BY <1>0, <1>5, <2>1, FreeIs DEF Same
  <2>3. f \in a.live \cup {Null}
    BY <1>1, <1>2, <2>2 DEF Sound, OwnsWith, Owns, Apart
  <2>4. b.live = a.live \ {f} /\ IsProc(b)
    BY <1>6, <2>2, <2>3, FreeIs DEF Same
  <2> QED
    BY <2>2, <2>4
<1>15. t \in b.live \cup {Null}
  BY <1>1, <1>2, <1>3, <1>14 DEF Sound, OwnsWith, Owns, Apart
<1>16. Same(b, c) /\ c.live = ((q.live \ {h}) \ {f}) \ {t} /\ IsProc(c)
  BY <1>7, <1>14, <1>15, FreeIs DEF Same
<1>17. S \in SUBSET c.live
  BY <1>1, <1>2, <1>3, <1>4, <1>16 DEF Sound, OwnsWith, Owns, Apart
<1>18. Same(c, d) /\ d.live = (((q.live \ {h}) \ {f}) \ {t}) \ S /\ IsProc(d)
  BY <1>8, <1>16, <1>17, FreeAllIs DEF Same
<1>19. Same(q, d)
  BY <1>13, <1>16, <1>18, SameTrans
<1>20. NoEditline \in Eds /\ NoPast \in Pasts /\ Null \in Nat
  BY DEF NoEditline, NoPast, Eds, Pasts, Null
<1>21. IsProc(e) /\ e.ed = NoEditline /\ e.live = d.live /\ e.fault = d.fault /\ e.left = d.left /\ e.loop = d.loop /\ e.asked = d.asked /\ e.el_hist = d.el_hist /\ e.past = d.past
  BY <1>9, <1>18, <1>20, SetEd
<1>22. IsProc(g) /\ g.el_hist = Null /\ g.ed = e.ed /\ g.live = e.live /\ g.fault = e.fault /\ g.left = e.left /\ g.loop = e.loop /\ g.asked = e.asked /\ g.past = e.past
  BY <1>10, <1>20, <1>21, SetElHist
<1>23. IsProc(k) /\ k.past = NoPast /\ k.ed = g.ed /\ k.live = g.live /\ k.fault = g.fault /\ k.left = g.left /\ k.loop = g.loop /\ k.asked = g.asked /\ k.el_hist = g.el_hist
  BY <1>11, <1>20, <1>22, SetPast
<1>24. IsProc(y) /\ y.asked = NoFile /\ y.ed = k.ed /\ y.live = k.live /\ y.fault = k.fault /\ y.left = k.left /\ y.loop = k.loop /\ y.past = k.past /\ y.el_hist = k.el_hist
  BY <1>12, <1>23, SetAsked
<1>25. FreeEditline(q) = y
  BY <1>1, <1>2, <1>3, <1>4, <1>5, <1>6, <1>7, <1>8, <1>9, <1>10, <1>11, <1>12 DEF FreeEditline
<1>26. /\ y.live = (((q.live \ {h}) \ {f}) \ {t}) \ S /\ y.loop = q.loop /\ ~y.fault
       /\ y.ed = NoEditline /\ y.el_hist = Null /\ y.past = NoPast
  BY <1>0, <1>18, <1>19, <1>21, <1>22, <1>23, <1>24 DEF Same
<1>27. Owns(q.live, q.ed.self, q.ed.el, h, f, t, q.loop.line, q.loop.vec, q.loop.parse)
  BY <1>1, <1>2, <1>3 DEF Sound, OwnsWith
<1>28. Owns(y.live, Null, Null, Null, Null, Null, q.loop.line, q.loop.vec, q.loop.parse)
  BY <1>4, <1>26, <1>27 DEF Owns, Apart
<1>29. Sound(y)
  BY <1>24, <1>26, <1>28 DEF Sound, OwnsWith, NoEditline
<1> QED
  BY <1>24, <1>25, <1>26, <1>29

-----------------------------------------------------------------------------
(***************************************************************************)
(* ec_editline().                                                          *)
(***************************************************************************)

\* a new object for a pointer of the structure that has none
LEMMA NewSelfSet ==
  ASSUME NEW q, NEW b, NEW o \in Nat \ {Null}, Sound(q), q.ed.self = Null, o \notin q.live,
         Same(q, b), b.live = q.live \cup {o}
  PROVE  LET y == [b EXCEPT !.ed.self = o] IN
         /\ Sound(y) /\ y.ed.self = o /\ Calls(q.left, y.left)
         /\ y.loop = q.loop /\ y.asked = q.asked /\ y.el_hist = q.el_hist /\ y.past = q.past
         /\ y.ed.el = q.ed.el /\ y.ed.history = q.ed.history /\ y.ed.file = q.ed.file /\ y.ed.path = q.ed.path /\ y.ed.prompt = q.ed.prompt /\ y.ed.node = q.ed.node
<1>1. PICK e : e = [b.ed EXCEPT !.self = o]
  OBVIOUS
<1>2. PICK y : y = [b EXCEPT !.ed = e]
  OBVIOUS
<1>3. IsProc(b) /\ ~b.fault
  BY DEF Same, Sound, OwnsWith
<1>4. /\ e \in Eds /\ e.self = o
      /\ e.el = b.ed.el /\ e.history = b.ed.history /\ e.file = b.ed.file /\ e.path = b.ed.path /\ e.prompt = b.ed.prompt /\ e.node = b.ed.node
  BY <1>1, <1>3, PartsTyped DEF Eds
<1>5. IsProc(y) /\ y.ed = e /\ y.live = b.live /\ y.fault = b.fault /\ y.left = b.left /\ y.loop = b.loop /\ y.asked = b.asked /\ y.el_hist = b.el_hist /\ y.past = b.past
  BY <1>2, <1>3, <1>4, SetEd
<1>6. /\ y.loop = q.loop /\ y.asked = q.asked /\ y.el_hist = q.el_hist /\ y.past = q.past /\ Calls(q.left, y.left)
      /\ y.ed.el = q.ed.el /\ y.ed.history = q.ed.history /\ y.ed.file = q.ed.file /\ y.ed.path = q.ed.path /\ y.ed.prompt = q.ed.prompt /\ y.ed.node = q.ed.node
  BY <1>4, <1>5 DEF Same
<1>7. Owns(q.live, Null, q.ed.el, q.ed.history, q.ed.file, q.ed.prompt, q.loop.line, q.loop.vec, q.loop.parse)
  BY DEF Sound, OwnsWith
<1>8. Owns(y.live, o, y.ed.el, y.ed.history, y.ed.file, y.ed.prompt, y.loop.line, y.loop.vec, y.loop.parse)
  BY <1>5, <1>6, <1>7 DEF Owns, Apart
<1>9. Sound(y)
  BY <1>3, <1>4, <1>5, <1>8 DEF Sound, OwnsWith
<1> QED
  BY <1>1, <1>2, <1>4, <1>5, <1>6, <1>9

LEMMA NewElSet ==
  ASSUME NEW q, NEW b, NEW o \in Nat \ {Null}, Sound(q), q.ed.el = Null, o \notin q.live,
         Same(q, b), b.live = q.live \cup {o}
  PROVE  LET y == [b EXCEPT !.ed.el = o] IN
         /\ Sound(y) /\ y.ed.el = o /\ Calls(q.left, y.left)
         /\ y.loop = q.loop /\ y.asked = q.asked /\ y.el_hist = q.el_hist /\ y.past = q.past
         /\ y.ed.self = q.ed.self /\ y.ed.history = q.ed.history /\ y.ed.file = q.ed.file /\ y.ed.path = q.ed.path /\ y.ed.prompt = q.ed.prompt /\ y.ed.node = q.ed.node
<1>1. PICK e : e = [b.ed EXCEPT !.el = o]
  OBVIOUS
<1>2. PICK y : y = [b EXCEPT !.ed = e]
  OBVIOUS
<1>3. IsProc(b) /\ ~b.fault
  BY DEF Same, Sound, OwnsWith
<1>4. /\ e \in Eds /\ e.el = o
      /\ e.self = b.ed.self /\ e.history = b.ed.history /\ e.file = b.ed.file /\ e.path = b.ed.path /\ e.prompt = b.ed.prompt /\ e.node = b.ed.node
  BY <1>1, <1>3, PartsTyped DEF Eds
<1>5. IsProc(y) /\ y.ed = e /\ y.live = b.live /\ y.fault = b.fault /\ y.left = b.left /\ y.loop = b.loop /\ y.asked = b.asked /\ y.el_hist = b.el_hist /\ y.past = b.past
  BY <1>2, <1>3, <1>4, SetEd
<1>6. /\ y.loop = q.loop /\ y.asked = q.asked /\ y.el_hist = q.el_hist /\ y.past = q.past /\ Calls(q.left, y.left)
      /\ y.ed.self = q.ed.self /\ y.ed.history = q.ed.history /\ y.ed.file = q.ed.file /\ y.ed.path = q.ed.path /\ y.ed.prompt = q.ed.prompt /\ y.ed.node = q.ed.node
  BY <1>4, <1>5 DEF Same
<1>7. Owns(q.live, q.ed.self, Null, q.ed.history, q.ed.file, q.ed.prompt, q.loop.line, q.loop.vec, q.loop.parse)
  BY DEF Sound, OwnsWith
<1>8. Owns(y.live, y.ed.self, o, y.ed.history, y.ed.file, y.ed.prompt, y.loop.line, y.loop.vec, y.loop.parse)
  BY <1>5, <1>6, <1>7 DEF Owns, Apart
<1>9. Sound(y)
  BY <1>3, <1>4, <1>5, <1>8 DEF Sound, OwnsWith
<1> QED
  BY <1>1, <1>2, <1>4, <1>5, <1>6, <1>9

LEMMA NewPromptSet ==
  ASSUME NEW q, NEW b, NEW o \in Nat \ {Null}, Sound(q), q.ed.prompt = Null, o \notin q.live,
         Same(q, b), b.live = q.live \cup {o}
  PROVE  LET y == [b EXCEPT !.ed.prompt = o] IN
         /\ Sound(y) /\ y.ed.prompt = o /\ Calls(q.left, y.left)
         /\ y.loop = q.loop /\ y.asked = q.asked /\ y.el_hist = q.el_hist /\ y.past = q.past
         /\ y.ed.self = q.ed.self /\ y.ed.el = q.ed.el /\ y.ed.history = q.ed.history /\ y.ed.file = q.ed.file /\ y.ed.path = q.ed.path /\ y.ed.node = q.ed.node
<1>1. PICK e : e = [b.ed EXCEPT !.prompt = o]
  OBVIOUS
<1>2. PICK y : y = [b EXCEPT !.ed = e]
  OBVIOUS
<1>3. IsProc(b) /\ ~b.fault
  BY DEF Same, Sound, OwnsWith
<1>4. /\ e \in Eds /\ e.prompt = o
      /\ e.self = b.ed.self /\ e.el = b.ed.el /\ e.history = b.ed.history /\ e.file = b.ed.file /\ e.path = b.ed.path /\ e.node = b.ed.node
  BY <1>1, <1>3, PartsTyped DEF Eds
<1>5. IsProc(y) /\ y.ed = e /\ y.live = b.live /\ y.fault = b.fault /\ y.left = b.left /\ y.loop = b.loop /\ y.asked = b.asked /\ y.el_hist = b.el_hist /\ y.past = b.past
  BY <1>2, <1>3, <1>4, SetEd
<1>6. /\ y.loop = q.loop /\ y.asked = q.asked /\ y.el_hist = q.el_hist /\ y.past = q.past /\ Calls(q.left, y.left)
      /\ y.ed.self = q.ed.self /\ y.ed.el = q.ed.el /\ y.ed.history = q.ed.history /\ y.ed.file = q.ed.file /\ y.ed.path = q.ed.path /\ y.ed.node = q.ed.node
  BY <1>4, <1>5 DEF Same
<1>7. Owns(q.live, q.ed.self, q.ed.el, q.ed.history, q.ed.file, Null, q.loop.line, q.loop.vec, q.loop.parse)
  BY DEF Sound, OwnsWith
<1>8. Owns(y.live, y.ed.self, y.ed.el, y.ed.history, y.ed.file, o, y.loop.line, y.loop.vec, y.loop.parse)
  BY <1>5, <1>6, <1>7 DEF Owns, Apart
<1>9. Sound(y)
  BY <1>3, <1>4, <1>5, <1>8 DEF Sound, OwnsWith
<1> QED
  BY <1>1, <1>2, <1>4, <1>5, <1>6, <1>9

\* what ec_editline() has so far, when it began with q: a structure, or nothing
Opened(q, r) ==
  /\ Sound(r) /\ r.loop = q.loop /\ r.asked = NoFile /\ r.ed.path = NoFile
  /\ r.ed.history # Null => r.past.size # 0
  /\ r.ed.self = Null => r.ed = NoEditline /\ r.past = NoPast

LEMMA FreeOpened ==
  ASSUME NEW q, NEW x, Sound(x), x.loop = q.loop
  PROVE  Opened(q, FreeEditline(x)) /\ FreeEditline(x).ed = NoEditline
<1>1. PICK y : y = FreeEditline(x)
  OBVIOUS
<1>2. Sound(y) /\ y.ed = NoEditline /\ y.el_hist = Null /\ y.past = NoPast /\ y.asked = NoFile /\ y.loop = q.loop
  BY <1>1, FreeEditlineIs
<1>3. NoEditline.history = Null /\ NoEditline.path = NoFile
  BY DEF NoEditline
<1> QED
  BY <1>1, <1>2, <1>3 DEF Opened

LEMMA SettingsOpened ==
  ASSUME NEW q, NEW x, Opened(q, x)
  PROVE  /\ Opened(q, Settings(x))
         /\ x.ed.el = Null => Settings(x).ed.el = Null
         /\ x.ed.prompt = Null => Settings(x).ed.prompt = Null
<1>1. PICK a : a = Failed(x)
  OBVIOUS
<1>2. PICK b : b = Passed(x)
  OBVIOUS
<1>3. Settings(x) = IF Made(x) THEN IF x.left = 0 THEN FreeEditline(a) ELSE b ELSE x
  BY <1>1, <1>2 DEF Settings, Call, Failed, Passed
<1>4. Sound(x) /\ IsProc(x)
  BY DEF Opened, Sound, OwnsWith
<1>5. Same(x, a) /\ a.live = x.live /\ Same(x, b) /\ b.live = x.live
  BY <1>1, <1>2, <1>4, FailedIs, PassedIs
<1>6. Sound(a) /\ Sound(b)
  BY <1>4, <1>5, SoundSame
<1>7. Opened(q, b) /\ b.ed = x.ed
  BY <1>5, <1>6 DEF Opened, Same
<1>8. a.loop = q.loop
  BY <1>5 DEF Opened, Same
<1>9. Opened(q, FreeEditline(a)) /\ FreeEditline(a).ed = NoEditline
  BY <1>6, <1>8, FreeOpened
<1>10. NoEditline.el = Null /\ NoEditline.prompt = Null
  BY DEF NoEditline
<1> QED
  BY <1>3, <1>7, <1>9, <1>10

LEMMA NewSelfOpened ==
  ASSUME NEW q, Opened(q, q), q.ed = NoEditline
  PROVE  LET y == NewSelf(q) IN Opened(q, y) /\ y.ed.el = Null /\ y.ed.prompt = Null
<1>1. PICK o : o = Unused(q.live)
  OBVIOUS
<1>2. PICK a : a = Failed(q)
  OBVIOUS
<1>3. PICK b : b = Got(q, o)
  OBVIOUS
<1>4. PICK y : y = [b EXCEPT !.ed.self = o]
  OBVIOUS
<1>5. NewSelf(q) = IF q.left = 0 THEN a ELSE y
  BY <1>1, <1>2, <1>3, <1>4 DEF NewSelf, Alloc, AllocAt, Call, Failed, Passed, Got
<1>6. Sound(q) /\ IsProc(q)
  BY DEF Opened, Sound, OwnsWith
<1>7. /\ o \in Nat \ {Null} /\ o \notin q.live
      /\ Same(q, a) /\ a.live = q.live /\ Same(q, b) /\ b.live = q.live \cup {o}
  BY <1>1, <1>2, <1>3, <1>6, AllocIs
<1>8. q.ed.self = Null /\ q.ed.el = Null /\ q.ed.prompt = Null
  BY DEF NoEditline
<1>9. Sound(a)
  BY <1>6, <1>7, SoundSame
<1>10. Opened(q, a) /\ a.ed = q.ed
  BY <1>7, <1>9 DEF Opened, Same
<1>11. /\ Sound(y) /\ y.ed.self = o /\ y.loop = q.loop /\ y.asked = q.asked /\ y.el_hist = q.el_hist /\ y.past = q.past
       /\ y.ed.el = q.ed.el /\ y.ed.history = q.ed.history /\ y.ed.path = q.ed.path /\ y.ed.prompt = q.ed.prompt
  BY <1>4, <1>6, <1>7, <1>8, NewSelfSet
<1>12. Opened(q, y)
  BY <1>7, <1>11 DEF Opened
<1> QED
  BY <1>5, <1>8, <1>10, <1>11, <1>12

LEMMA NewElOpened ==
  ASSUME NEW q, NEW x, Opened(q, x), x.ed.el = Null, x.ed.prompt = Null
  PROVE  LET y == NewEl(x) IN Opened(q, y) /\ y.ed.prompt = Null
<1>1. PICK o : o = Unused(x.live)
  OBVIOUS
<1>2. PICK a : a = Failed(x)
  OBVIOUS
<1>3. PICK b : b = Got(x, o)
  OBVIOUS
<1>4. PICK y : y = [b EXCEPT !.ed.el = o]
  OBVIOUS
<1>5. NewEl(x) = IF Made(x) THEN IF x.left = 0 THEN FreeEditline(a) ELSE y ELSE x
  BY <1>1, <1>2, <1>3, <1>4 DEF NewEl, Alloc, AllocAt, Call, Failed, Passed, Got
<1>6. Sound(x) /\ IsProc(x)
  BY DEF Opened, Sound, OwnsWith
<1>7. /\ o \in Nat \ {Null} /\ o \notin x.live
      /\ Same(x, a) /\ a.live = x.live /\ Same(x, b) /\ b.live = x.live \cup {o}
  BY <1>1, <1>2, <1>3, <1>6, AllocIs
<1>8. Sound(a) /\ a.loop = q.loop
  BY <1>6, <1>7, SoundSame DEF Opened, Same
<1>9. Opened(q, FreeEditline(a)) /\ FreeEditline(a).ed = NoEditline
  BY <1>8, FreeOpened
<1>10. /\ Sound(y) /\ y.loop = x.loop /\ y.asked = x.asked /\ y.el_hist = x.el_hist /\ y.past = x.past
       /\ y.ed.self = x.ed.self /\ y.ed.history = x.ed.history /\ y.ed.path = x.ed.path /\ y.ed.prompt = x.ed.prompt
  BY <1>4, <1>6, <1>7, NewElSet
<1>11. Made(x) => Opened(q, y)
  BY <1>10 DEF Opened, Made
<1>12. NoEditline.prompt = Null
  BY DEF NoEditline
<1> QED
  BY <1>5, <1>9, <1>10, <1>11, <1>12

LEMMA NewPromptOpened ==
  ASSUME NEW q, NEW x, Opened(q, x), x.ed.prompt = Null
  PROVE  Opened(q, NewPrompt(x))
<1>1. PICK o : o = Unused(x.live)
  OBVIOUS
<1>2. PICK a : a = Failed(x)
  OBVIOUS
<1>3. PICK b : b = Got(x, o)
  OBVIOUS
<1>4. PICK y : y = [b EXCEPT !.ed.prompt = o]
  OBVIOUS
<1>5. NewPrompt(x) = IF Made(x) THEN IF x.left = 0 THEN FreeEditline(a) ELSE y ELSE x
  BY <1>1, <1>2, <1>3, <1>4 DEF NewPrompt, Alloc, AllocAt, Call, Failed, Passed, Got
<1>6. Sound(x) /\ IsProc(x)
  BY DEF Opened, Sound, OwnsWith
<1>7. /\ o \in Nat \ {Null} /\ o \notin x.live
      /\ Same(x, a) /\ a.live = x.live /\ Same(x, b) /\ b.live = x.live \cup {o}
  BY <1>1, <1>2, <1>3, <1>6, AllocIs
<1>8. Sound(a) /\ a.loop = q.loop
  BY <1>6, <1>7, SoundSame DEF Opened, Same
<1>9. Opened(q, FreeEditline(a))
  BY <1>8, FreeOpened
<1>10. /\ Sound(y) /\ y.loop = x.loop /\ y.asked = x.asked /\ y.el_hist = x.el_hist /\ y.past = x.past
       /\ y.ed.self = x.ed.self /\ y.ed.history = x.ed.history /\ y.ed.path = x.ed.path
  BY <1>4, <1>6, <1>7, NewPromptSet
<1>11. Made(x) => Opened(q, y)
  BY <1>10 DEF Opened, Made
<1> QED
  BY <1>5, <1>9, <1>11

LEMMA SetUpHistoryOpened ==
  ASSUME NEW q, NEW x, Opened(q, x), NEW history
  PROVE  Opened(q, SetUpHistory(x, history))
<1>1. PICK r : r = SetHistoryOf(x, DefaultSize, NoFile, <<>>)
  OBVIOUS
<1>2. SetUpHistory(x, history) = IF Made(x) /\ history THEN IF r.ok THEN r.p ELSE FreeEditline(r.p) ELSE x
  BY <1>1 DEF SetUpHistory, OrFree
<1>3. Sized(x, r, DefaultSize, NoFile, <<>>)
  <2>1. Sound(x) /\ DefaultSize \in Nat \ {0} /\ NoFile \in Files \cup {NoFile} /\ <<>> \in Seq(Names)
    BY EditlineAssumption DEF Opened
  <2> QED
    BY <1>1, <2>1, SetHistoryOfIs
<1>4. Sound(r.p) /\ r.p.loop = q.loop /\ r.p.asked = NoFile /\ r.p.ed.self = x.ed.self
  BY <1>3 DEF Sized, Around, Opened
<1>5. Opened(q, FreeEditline(r.p))
  BY <1>4, FreeOpened
<1>6. r.ok => r.p.past.size # 0
  BY <1>3, EditlineAssumption DEF Sized
<1>7. Made(x) /\ r.ok => Opened(q, r.p)
  BY <1>3, <1>4, <1>6 DEF Opened, Sized, Made
<1> QED
  BY <1>2, <1>5, <1>7

LEMMA NewEditlineOpened ==
  ASSUME NEW q, Opened(q, q), q.ed = NoEditline, NEW history, NEW completion
  PROVE  Opened(q, NewEditline(q, history, completion))
<1>1. PICK a : a = NewSelf(q)
  OBVIOUS
<1>2. PICK b : b = NewEl(a)
  OBVIOUS
<1>3. PICK c : c = Settings(b)
  OBVIOUS
<1>4. PICK d : d = Settings(NewPrompt(c))
  OBVIOUS
<1>5. PICK e : e = SetUpHistory(d, history)
  OBVIOUS
<1>6. Opened(q, a) /\ a.ed.el = Null /\ a.ed.prompt = Null
  BY <1>1, NewSelfOpened
<1>7. Opened(q, b) /\ b.ed.prompt = Null
  BY <1>2, <1>6, NewElOpened
<1>8. Opened(q, c) /\ c.ed.prompt = Null
  BY <1>3, <1>7, SettingsOpened
<1>9. Opened(q, d)
  BY <1>4, <1>8, NewPromptOpened, SettingsOpened
<1>10. Opened(q, e) /\ Opened(q, Settings(e))
  BY <1>5, <1>9, SetUpHistoryOpened, SettingsOpened
<1>11. NewEditline(q, history, completion) = IF completion THEN Settings(e) ELSE e
  BY <1>1, <1>2, <1>3, <1>4, <1>5 DEF NewEditline, SetUpCompletion
<1> QED
  BY <1>10, <1>11

-----------------------------------------------------------------------------
(***************************************************************************)
(* ec_editline_interact(): a line, from its end to the next turn.          *)
(***************************************************************************)

\* y is the process q with other variables of the loop
Beside(q, y) ==
  y.ed = q.ed /\ y.el_hist = q.el_hist /\ y.past = q.past /\ y.asked = q.asked

Turned(q, y) == Sound(y) /\ Beside(q, y) /\ LoopShape(y)

LEMMA BesideTrans ==
  ASSUME NEW q, NEW x, NEW y, Beside(q, x)
  PROVE  (Beside(x, y) => Beside(q, y)) /\ (Turned(x, y) => Turned(q, y))
BY DEF Beside, Turned

LEMMA SameBeside ==
  ASSUME NEW q, NEW y, Same(q, y)
  PROVE  Beside(q, y)
BY DEF Beside, Same

\* a new object for a variable of the loop that has none
LEMMA NewLineSet ==
  ASSUME NEW q, NEW b, NEW o \in Nat \ {Null}, Sound(q), q.loop.line = Null, o \notin q.live,
         Same(q, b), b.live = q.live \cup {o}
  PROVE  LET y == [b EXCEPT !.loop.line = o] IN
         Sound(y) /\ Beside(q, y) /\ y.loop.line = o /\ y.loop.pc = q.loop.pc /\ y.loop.node = q.loop.node /\ y.loop.vec = q.loop.vec /\ y.loop.parse = q.loop.parse
<1>1. PICK e : e = [b.loop EXCEPT !.line = o]
  OBVIOUS
<1>2. PICK y : y = [b EXCEPT !.loop = e]
  OBVIOUS
<1>3. IsProc(b) /\ ~b.fault
  BY DEF Same, Sound, OwnsWith
<1>4. e \in Loops /\ e.line = o /\ e.pc = b.loop.pc /\ e.node = b.loop.node /\ e.vec = b.loop.vec /\ e.parse = b.loop.parse
  BY <1>1, <1>3, PartsTyped DEF Loops
<1>5. IsProc(y) /\ y.loop = e /\ y.live = b.live /\ y.fault = b.fault /\ y.left = b.left /\ y.ed = b.ed /\ y.asked = b.asked /\ y.el_hist = b.el_hist /\ y.past = b.past
  BY <1>2, <1>3, <1>4, SetLoop
<1>6. Beside(q, y) /\ y.loop.pc = q.loop.pc /\ y.loop.node = q.loop.node /\ y.loop.vec = q.loop.vec /\ y.loop.parse = q.loop.parse
  BY <1>4, <1>5 DEF Same, Beside
<1>7. Owns(q.live, q.ed.self, q.ed.el, q.ed.history, q.ed.file, q.ed.prompt, Null, q.loop.vec, q.loop.parse)
  BY DEF Sound, OwnsWith
<1>8. Owns(y.live, y.ed.self, y.ed.el, y.ed.history, y.ed.file, y.ed.prompt, o, y.loop.vec, y.loop.parse)
  BY <1>5, <1>6, <1>7 DEF Owns, Apart, Beside
<1>9. Sound(y)
  BY <1>3, <1>4, <1>5, <1>8 DEF Sound, OwnsWith
<1> QED
  BY <1>1, <1>2, <1>4, <1>5, <1>6, <1>9

LEMMA NewVecSet ==
  ASSUME NEW q, NEW b, NEW o \in Nat \ {Null}, Sound(q), q.loop.vec = Null, o \notin q.live,
         Same(q, b), b.live = q.live \cup {o}
  PROVE  LET y == [b EXCEPT !.loop.vec = o] IN
         Sound(y) /\ Beside(q, y) /\ y.loop.vec = o /\ y.loop.pc = q.loop.pc /\ y.loop.node = q.loop.node /\ y.loop.line = q.loop.line /\ y.loop.parse = q.loop.parse
<1>1. PICK e : e = [b.loop EXCEPT !.vec = o]
  OBVIOUS
<1>2. PICK y : y = [b EXCEPT !.loop = e]
  OBVIOUS
<1>3. IsProc(b) /\ ~b.fault
  BY DEF Same, Sound, OwnsWith
<1>4. e \in Loops /\ e.vec = o /\ e.pc = b.loop.pc /\ e.node = b.loop.node /\ e.line = b.loop.line /\ e.parse = b.loop.parse
  BY <1>1, <1>3, PartsTyped DEF Loops
<1>5. IsProc(y) /\ y.loop = e /\ y.live = b.live /\ y.fault = b.fault /\ y.left = b.left /\ y.ed = b.ed /\ y.asked = b.asked /\ y.el_hist = b.el_hist /\ y.past = b.past
  BY <1>2, <1>3, <1>4, SetLoop
<1>6. Beside(q, y) /\ y.loop.pc = q.loop.pc /\ y.loop.node = q.loop.node /\ y.loop.line = q.loop.line /\ y.loop.parse = q.loop.parse
  BY <1>4, <1>5 DEF Same, Beside
<1>7. Owns(q.live, q.ed.self, q.ed.el, q.ed.history, q.ed.file, q.ed.prompt, q.loop.line, Null, q.loop.parse)
  BY DEF Sound, OwnsWith
<1>8. Owns(y.live, y.ed.self, y.ed.el, y.ed.history, y.ed.file, y.ed.prompt, y.loop.line, o, y.loop.parse)
  BY <1>5, <1>6, <1>7 DEF Owns, Apart, Beside
<1>9. Sound(y)
  BY <1>3, <1>4, <1>5, <1>8 DEF Sound, OwnsWith
<1> QED
  BY <1>1, <1>2, <1>4, <1>5, <1>6, <1>9

LEMMA NewParseSet ==
  ASSUME NEW q, NEW b, NEW o \in Nat \ {Null}, Sound(q), q.loop.parse = Null, o \notin q.live,
         Same(q, b), b.live = q.live \cup {o}
  PROVE  LET y == [b EXCEPT !.loop.parse = o] IN
         Sound(y) /\ Beside(q, y) /\ y.loop.parse = o /\ y.loop.pc = q.loop.pc /\ y.loop.node = q.loop.node /\ y.loop.line = q.loop.line /\ y.loop.vec = q.loop.vec
<1>1. PICK e : e = [b.loop EXCEPT !.parse = o]
  OBVIOUS
<1>2. PICK y : y = [b EXCEPT !.loop = e]
  OBVIOUS
<1>3. IsProc(b) /\ ~b.fault
  BY DEF Same, Sound, OwnsWith
<1>4. e \in Loops /\ e.parse = o /\ e.pc = b.loop.pc /\ e.node = b.loop.node /\ e.line = b.loop.line /\ e.vec = b.loop.vec
  BY <1>1, <1>3, PartsTyped DEF Loops
<1>5. IsProc(y) /\ y.loop = e /\ y.live = b.live /\ y.fault = b.fault /\ y.left = b.left /\ y.ed = b.ed /\ y.asked = b.asked /\ y.el_hist = b.el_hist /\ y.past = b.past
  BY <1>2, <1>3, <1>4, SetLoop
<1>6. Beside(q, y) /\ y.loop.pc = q.loop.pc /\ y.loop.node = q.loop.node /\ y.loop.line = q.loop.line /\ y.loop.vec = q.loop.vec
  BY <1>4, <1>5 DEF Same, Beside
<1>7. Owns(q.live, q.ed.self, q.ed.el, q.ed.history, q.ed.file, q.ed.prompt, q.loop.line, q.loop.vec, Null)
  BY DEF Sound, OwnsWith
<1>8. Owns(y.live, y.ed.self, y.ed.el, y.ed.history, y.ed.file, y.ed.prompt, y.loop.line, y.loop.vec, o)
  BY <1>5, <1>6, <1>7 DEF Owns, Apart, Beside
<1>9. Sound(y)
  BY <1>3, <1>4, <1>5, <1>8 DEF Sound, OwnsWith
<1> QED
  BY <1>1, <1>2, <1>4, <1>5, <1>6, <1>9

\* the labels again and fail free what the variables point to
LEMMA LoopFreed ==
  ASSUME NEW q, Sound(q), NEW loop \in Loops, loop.line = Null, loop.vec = Null, loop.parse = Null
  PROVE  LET y == [Free(Free(Free(q, q.loop.line), q.loop.parse), q.loop.vec) EXCEPT !.loop = loop] IN
         Sound(y) /\ Beside(q, y) /\ y.loop = loop
<1>0. IsProc(q) /\ ~q.fault
  BY DEF Sound, OwnsWith
<1>1. PICK h : h = q.loop.line
  OBVIOUS
<1>2. PICK f : f = q.loop.parse
  OBVIOUS
<1>3. PICK t : t = q.loop.vec
  OBVIOUS
<1>4. PICK a : a = Free(q, h)
  OBVIOUS
<1>5. PICK b : b = Free(a, f)
  OBVIOUS
<1>6. PICK c : c = Free(b, t)
  OBVIOUS
<1>7. PICK y : y = [c EXCEPT !.loop = loop]
  OBVIOUS
<1>8. Owns(q.live, q.ed.self, q.ed.el, q.ed.history, q.ed.file, q.ed.prompt, h, t, f)
  BY <1>1, <1>2, <1>3 DEF Sound, OwnsWith
<1>9. h \in q.live \cup {Null} /\ f \in (q.live \ {h}) \cup {Null} /\ t \in ((q.live \ {h}) \ {f}) \cup {Null}
  BY <1>8 DEF Owns, Apart
<1>10. Same(q, a) /\ a.live = q.live \ {h} /\ IsProc(a)
  BY <1>0, <1>4, <1>9, FreeIs DEF Same
<1>11. Same(a, b) /\ b.live = (q.live \ {h}) \ {f} /\ IsProc(b)
  BY <1>5, <1>9, <1>10, FreeIs DEF Same
<1>12. Same(b, c) /\ c.live = ((q.live \ {h}) \ {f}) \ {t} /\ IsProc(c)
  BY <1>6, <1>9, <1>11, FreeIs DEF Same
<1>13. Same(q, c)
  BY <1>10, <1>11, <1>12, SameTrans
<1>14. IsProc(y) /\ y.loop = loop /\ y.live = c.live /\ y.fault = c.fault /\ y.left = c.left /\ y.ed = c.ed /\ y.asked = c.asked /\ y.el_hist = c.el_hist /\ y.past = c.past
  BY <1>7, <1>12, SetLoop
<1>15. Beside(q, y) /\ ~y.fault
  BY <1>0, <1>13, <1>14 DEF Same, Beside
<1>16. y.live = ((q.live \ {h}) \ {f}) \ {t} /\ y.ed = q.ed
  BY <1>12, <1>14, <1>15 DEF Beside
<1>17. Owns(y.live, y.ed.self, y.ed.el, y.ed.history, y.ed.file, y.ed.prompt, Null, Null, Null)
  BY <1>8, <1>16 DEF Owns, Apart
<1>18. Sound(y)
  BY <1>14, <1>15, <1>17 DEF Sound, OwnsWith
<1> QED
  BY <1>1, <1>2, <1>3, <1>4, <1>5, <1>6, <1>7, <1>14, <1>15, <1>18

LEMMA AgainIs ==
  ASSUME NEW q, Sound(q)
  PROVE  Turned(q, Again(q)) /\ Turned(q, Leave(q))
<1>1. PICK loop : loop = [NoLoop EXCEPT !.pc = "check", !.node = q.loop.node]
  OBVIOUS
<1>2. q.loop.node \in Grammars \cup {NoNode}
  BY PartsTyped DEF Sound, OwnsWith
<1>3. loop \in Loops /\ loop.pc = "check" /\ loop.line = Null /\ loop.vec = Null /\ loop.parse = Null
  BY <1>1, <1>2 DEF NoLoop, Loops, Null
<1>4. PICK y : y = Again(q)
  OBVIOUS
<1>5. Sound(y) /\ Beside(q, y) /\ y.loop = loop
  BY <1>1, <1>3, <1>4, LoopFreed DEF Again
<1>6. Turned(q, y)
  BY <1>3, <1>5 DEF Turned, LoopShape
<1>7. NoLoop \in Loops /\ NoLoop.pc = "out" /\ NoLoop.line = Null /\ NoLoop.vec = Null /\ NoLoop.parse = Null
  BY DEF NoLoop, Loops, Null
<1>8. PICK z : z = Leave(q)
  OBVIOUS
<1>9. Sound(z) /\ Beside(q, z) /\ z.loop = NoLoop
  BY <1>7, <1>8, LoopFreed DEF Leave
<1>10. Turned(q, z)
  BY <1>7, <1>9 DEF Turned, LoopShape
<1> QED
  BY <1>4, <1>6, <1>8, <1>10

LEMMA LineTyped ==
  ASSUME NEW l \in Lines
  PROVE  {l.words, l.groups, l.items, l.right.groups} \subseteq Nat /\ l.name \in Names
BY EditlineAssumption DEF Names

LEMMA CallCommandIs ==
  ASSUME NEW q, Sound(q), NEW l \in Lines
  PROVE  Turned(q, CallCommand(q, l))
<1>0. IsProc(q)
  BY DEF Sound, OwnsWith
<1>1. PICK x : x = ErrorReport(q, l)
  OBVIOUS
<1>2. Same(q, x) /\ x.live = q.live
  <2>1. Leaves(q, q.live, Printed(GetErrorHelps(q, l)).p)
    BY <1>0, LineTyped, GetErrorHelpsIs, PrintedIs
  <2> QED
    BY <1>1, <2>1 DEF Leaves, ErrorReport
<1>3. Turned(q, Again(x))
  <2>1. Sound(x) /\ Beside(q, x)
    BY <1>2, SoundSame, SameBeside
  <2> QED
    BY <2>1, AgainIs, BesideTrans
<1>4. PICK loop : loop = [q.loop EXCEPT !.pc = "cb"]
  OBVIOUS
<1>5. PICK y : y = [q EXCEPT !.loop = loop]
  OBVIOUS
<1>6. loop \in Loops /\ loop.pc = "cb" /\ loop.line = q.loop.line /\ loop.vec = q.loop.vec /\ loop.parse = q.loop.parse
  BY <1>0, <1>4, PartsTyped DEF Loops
<1>7. IsProc(y) /\ y.loop = loop /\ y.live = q.live /\ y.fault = q.fault /\ y.left = q.left /\ y.ed = q.ed /\ y.asked = q.asked /\ y.el_hist = q.el_hist /\ y.past = q.past
  BY <1>0, <1>5, <1>6, SetLoop
<1>8. Turned(q, y)
  BY <1>6, <1>7 DEF Turned, Sound, OwnsWith, Beside, LoopShape
<1>9. CallCommand(q, l) = IF ~l.matches THEN Again(x) ELSE IF l.cb THEN y ELSE Leave(q)
  BY <1>1, <1>4, <1>5 DEF CallCommand
<1> QED
  BY <1>3, <1>8, <1>9, AgainIs

LEMMA ParseStepIs ==
  ASSUME NEW q, Sound(q), q.loop.parse = Null, NEW l \in Lines
  PROVE  Turned(q, ParseStep(q, l))
<1>1. PICK o : o = Unused(q.live)
  OBVIOUS
<1>2. PICK a : a = Failed(q)
  OBVIOUS
<1>3. PICK b : b = Got(q, o)
  OBVIOUS
<1>4. PICK y : y = [b EXCEPT !.loop.parse = o]
  OBVIOUS
<1>5. ParseStep(q, l) = IF q.left = 0 THEN Leave(a) ELSE CallCommand(y, l)
  BY <1>1, <1>2, <1>3, <1>4 DEF ParseStep, Alloc, AllocAt, Call, Failed, Passed, Got
<1>6. /\ o \in Nat \ {Null} /\ o \notin q.live
      /\ Same(q, a) /\ a.live = q.live /\ Same(q, b) /\ b.live = q.live \cup {o}
  BY <1>1, <1>2, <1>3, AllocIs DEF Sound, OwnsWith
<1>7. Sound(y) /\ Beside(q, y)
  BY <1>4, <1>6, NewParseSet
<1>8. Sound(a) /\ Beside(q, a)
  BY <1>6, SoundSame, SameBeside
<1> QED
  BY <1>5, <1>7, <1>8, AgainIs, CallCommandIs, BesideTrans

LEMMA LexStepIs ==
  ASSUME NEW q, Sound(q), q.loop.vec = Null, q.loop.parse = Null, NEW l \in Lines
  PROVE  Turned(q, LexStep(q, l))
<1>1. PICK o : o = Unused(q.live)
  OBVIOUS
<1>2. PICK a : a = Failed(q)
  OBVIOUS
<1>3. PICK b : b = Got(q, o)
  OBVIOUS
<1>4. PICK y : y = [b EXCEPT !.loop.vec = o]
  OBVIOUS
<1>5. LexStep(q, l) =
       IF l.open THEN Again(q)
       ELSE IF q.left = 0 THEN Leave(a) ELSE IF l.words = 0 THEN Again(y) ELSE ParseStep(y, l)
  BY <1>1, <1>2, <1>3, <1>4 DEF LexStep, Alloc, AllocAt, Call, Failed, Passed, Got
<1>6. /\ o \in Nat \ {Null} /\ o \notin q.live
      /\ Same(q, a) /\ a.live = q.live /\ Same(q, b) /\ b.live = q.live \cup {o}
  BY <1>1, <1>2, <1>3, AllocIs DEF Sound, OwnsWith
<1>7. Sound(y) /\ Beside(q, y) /\ y.loop.parse = Null
  BY <1>4, <1>6, NewVecSet
<1>8. Sound(a) /\ Beside(q, a)
  BY <1>6, SoundSame, SameBeside
<1>9. Turned(q, Again(q)) /\ Turned(q, Leave(a)) /\ Turned(q, Again(y)) /\ Turned(q, ParseStep(y, l))
  BY <1>7, <1>8, AgainIs, ParseStepIs, BesideTrans
<1> QED
  BY <1>5, <1>9

-----------------------------------------------------------------------------
(***************************************************************************)
(* The actions.                                                            *)
(***************************************************************************)
LEMMA LeftIs ==
  ASSUME NEW x, Sound(x), NEW k \in Int
  PROVE  LET y == [x EXCEPT !.left = k] IN Sound(y) /\ Beside(x, y) /\ y.loop = x.loop /\ y.left = k
<1>1. PICK y : y = [x EXCEPT !.left = k]
  OBVIOUS
<1>2. IsProc(y) /\ y.left = k /\ y.live = x.live /\ y.fault = x.fault /\ y.loop = x.loop /\ y.ed = x.ed /\ y.asked = x.asked /\ y.el_hist = x.el_hist /\ y.past = x.past
  BY <1>1, SetLeft DEF Sound, OwnsWith
<1> QED
  BY <1>1, <1>2 DEF Sound, OwnsWith, Beside

LEMMA BesideSettled ==
  ASSUME NEW q, NEW log, NEW miss, Settled(q, log, miss), NEW y, Sound(y), Beside(q, y), LoopShape(y), q.ed.self # Null
  PROVE  Settled(y, log, miss)
BY DEF Settled, Shape, Saving, Beside

\* the number of calls to go is not a part of the invariant
LEMMA LeftSettled ==
  ASSUME NEW q, NEW log, NEW miss, Settled(q, log, miss), NEW k \in Int
  PROVE  Settled([q EXCEPT !.left = k], log, miss)
<1>1. PICK y : y = [q EXCEPT !.left = k]
  OBVIOUS
<1>2. Sound(y) /\ Beside(q, y) /\ y.loop = q.loop
  BY <1>1, LeftIs DEF Settled
<1> QED
  BY <1>1, <1>2 DEF Settled, Shape, LoopShape, Saving, Beside

\* a step that neither reads a line nor writes a file
LEMMA OtherHistory ==
  ASSUME IInv, UNCHANGED <<disk, entered, partial>>, missing' \in BOOLEAN, Settled(p', entered, missing')
  PROVE  IInv'
BY DEF IInv

LEMMA QuietStep ==
  ASSUME IInv, UNCHANGED kept, Settled(p', entered, missing)
  PROVE  IInv'
<1>1. UNCHANGED <<disk, entered, partial>> /\ missing' = missing
  BY DEF kept
<1> QED
  BY <1>1 DEF IInv

LEMMA Counts ==
  ASSUME NEW k \in Budgets \cup Few \cup Several
  PROVE  k \in Int
BY EditlineAssumption DEF Budgets, Few, Several

LEMMA OpenStep ==
  ASSUME IInv, Open
  PROVE  IInv'
<1>1. p.ed.self = Null /\ UNCHANGED kept
  BY DEF Open, Up
<1>2. Settled(p, entered, missing)
  BY DEF IInv
<1>3. PICK k \in Budgets, history \in BOOLEAN, completion \in BOOLEAN :
        p' = Rest(NewEditline(WithLeft(k), history, completion))
  BY DEF Open
<1>4. PICK q : q = WithLeft(k)
  OBVIOUS
<1>5. PICK r : r = NewEditline(q, history, completion)
  OBVIOUS
<1>6. PICK y : y = Rest(r)
  OBVIOUS
<1>7. Sound(q) /\ Beside(p, q) /\ q.loop = p.loop
  BY <1>2, <1>4, Counts, LeftIs DEF Settled, WithLeft
<1>8. q.ed = NoEditline /\ q.past = NoPast /\ q.asked = NoFile /\ q.loop = NoLoop
  BY <1>1, <1>2, <1>7 DEF Settled, Shape, Beside
<1>9. NoEditline.history = Null /\ NoEditline.path = NoFile
  BY DEF NoEditline
<1>10. Opened(q, q)
  BY <1>7, <1>8, <1>9 DEF Opened
<1>11. Opened(q, r)
  BY <1>5, <1>8, <1>10, NewEditlineOpened
<1>12. Settled(r, entered, missing)
  <2>1. LoopShape(r)
    BY <1>8, <1>11 DEF Opened, LoopShape, NoLoop
  <2>2. Shape(r)
    BY <1>8, <1>9, <1>11, <2>1 DEF Shape, Opened
  <2> QED
    BY <1>11, <2>2 DEF Settled, Opened, Saving
<1>13. Settled(y, entered, missing)
  BY <1>6, <1>12, LeftSettled DEF Rest
<1> QED
  BY <1>1, <1>3, <1>4, <1>5, <1>6, <1>13, QuietStep

LEMMA CloseStep ==
  ASSUME IInv, Close
  PROVE  IInv'
<1>1. Sound(p) /\ p.loop = NoLoop /\ UNCHANGED <<disk, entered, partial>> /\ missing' = FALSE /\ p' = FreeEditline(p)
  BY DEF Close, IInv, Settled, Shape, LoopShape
<1>2. PICK y : y = FreeEditline(p)
  OBVIOUS
<1>3. Sound(y) /\ y.ed = NoEditline /\ y.el_hist = Null /\ y.past = NoPast /\ y.asked = NoFile /\ y.loop = NoLoop
  BY <1>1, <1>2, FreeEditlineIs
<1>4. Settled(y, entered, FALSE)
  BY <1>3 DEF Settled, Shape, LoopShape, Saving, NoEditline, NoLoop
<1> QED
  BY <1>1, <1>2, <1>4, OtherHistory

\* nothing is in use when the process starts
LEMMA NewProcessSettled ==
  ASSUME NEW log, NEW miss
  PROVE  Settled(NewProcess, log, miss)
<1>1. PICK y : y = NewProcess
  OBVIOUS
<1>2. NoEditline \in Eds /\ NoPast \in Pasts /\ NoLoop \in Loops
  BY DEF NoEditline, NoPast, NoLoop, Eds, Pasts, Loops, Null
<1>3. /\ y.live = {} /\ y.left = -1 /\ ~y.fault /\ y.ed = NoEditline /\ y.el_hist = Null
      /\ y.past = NoPast /\ y.loop = NoLoop /\ y.asked = NoFile
  BY <1>1 DEF NewProcess
<1>4. y \in Procs
  BY <1>1, <1>2 DEF NewProcess, Procs, Null
<1>5. IsProc(y)
  BY <1>3, <1>4, FS_EmptySet DEF IsProc
<1>6. Sound(y)
  BY <1>3, <1>5 DEF Sound, OwnsWith, Owns, Apart, NoEditline, NoLoop
<1>7. Settled(y, log, miss)
  BY <1>3, <1>6 DEF Settled, Shape, LoopShape, Saving, NoEditline, NoLoop
<1> QED
  BY <1>1, <1>7

LEMMA CrashStep ==
  ASSUME IInv, Crash
  PROVE  IInv'
<1>1. p' = NewProcess /\ UNCHANGED <<disk, entered, partial>> /\ missing' = FALSE
  BY DEF Crash
<1>2. Settled(NewProcess, entered, FALSE)
  BY NewProcessSettled
<1> QED
  BY <1>1, <1>2, OtherHistory

\* What is loaded is within the log, and ends it if nothing is missing.
LEMMA LoadedKept ==
  ASSUME IInv, NEW f \in Files, NEW lines \in Loads(f), NEW size \in Nat
  PROVE  /\ lines \in Seq(Names) /\ Within(Loaded(size, lines), entered[f])
         /\ lines = <<>> \/ (lines = disk[f] /\ ~partial[f]) => EndOf(Loaded(size, lines), Squeezed(entered[f]))
<1>1. PICK t : t = Squeezed(entered[f])
  OBVIOUS
<1>2. PICK d : d = disk[f]
  OBVIOUS
<1>3. PICK log : log = entered[f]
  OBVIOUS
<1>4. /\ d \in Seq(Names) /\ log \in Seq(Names) /\ Within(d, log)
      /\ ~partial[f] => EndOf(d, t)
  BY <1>1, <1>2, <1>3 DEF IInv, KeptIn
<1>5. t \in Seq(Names) /\ NoRepeat(t)
  BY <1>1, <1>3, <1>4, SqueezedIs
<1>6. lines \in Seq(Names) /\ Within(lines, d)
  <2>1. f # NoFile
    BY EditlineAssumption
  <2>2. PICK n \in 0..Len(d) : lines = SubSeq(d, 1, n)
    BY <1>2, <2>1 DEF Loads
  <2> QED
    BY <1>4, <2>2, BeginningWithin
<1>7. PICK l : l = Loaded(size, lines)
  OBVIOUS
<1>8. l \in Seq(Names) /\ Within(l, lines) /\ (NoRepeat(lines) => EndOf(l, lines))
  BY <1>6, <1>7, LoadedIs
<1>9. Within(l, log)
  <2>1. Within(l, d)
    BY <1>4, <1>6, <1>8, WithinTrans
  <2> QED
    BY <1>4, <1>8, <2>1, WithinTrans
<1>10. ASSUME lines = <<>> \/ (lines = d /\ ~partial[f]) PROVE EndOf(l, t)
  <2>1. EndOf(lines, t)
    <3>1. CASE lines = <<>>
      <4>1. \A i \in 1..Len(<<>>) : FALSE
        OBVIOUS
      <4>2. Len(t) \in Nat /\ Len(<<>>) = 0
        BY <1>5
      <4>3. EndOf(<<>>, t)
        BY <4>1, <4>2 DEF EndOf
      <4> QED
        BY <3>1, <4>3
    <3>2. CASE lines = d /\ ~partial[f]
      BY <1>4, <3>2
    <3> QED
      BY <1>10, <3>1, <3>2
  <2>2. NoRepeat(lines)
    BY <1>5, <1>6, <2>1, EndNoRepeat
  <2>3. EndOf(l, lines)
    BY <1>8, <2>2
  <2> QED
    BY <1>5, <1>6, <1>8, <2>1, <2>3, EndOfTrans
<1> QED
  BY <1>1, <1>2, <1>3, <1>6, <1>7, <1>9, <1>10

LEMMA SetHistoryStep ==
  ASSUME IInv, SetHistory, 0 \notin Sizes
  PROVE  IInv'
<1>1. p.ed.self # Null /\ UNCHANGED <<disk, entered, partial>>
  BY DEF SetHistory, CanCall, Up
<1>2. PICK size \in Sizes, file \in Files \cup {NoFile}, k \in Several :
        \E lines \in Loads(file) :
        \E r \in {SetHistoryOf(WithLeft(k), size, file, lines)} :
          /\ p' = [Rest(r.p) EXCEPT !.asked = IF r.ok /\ size > 0 THEN file ELSE NoFile]
          /\ missing' = (lines # <<>> /\ (lines # disk[file] \/ partial[file]))
  BY DEF SetHistory
<1>3. PICK lines \in Loads(file) :
        \E r \in {SetHistoryOf(WithLeft(k), size, file, lines)} :
          /\ p' = [Rest(r.p) EXCEPT !.asked = IF r.ok /\ size > 0 THEN file ELSE NoFile]
          /\ missing' = (lines # <<>> /\ (lines # disk[file] \/ partial[file]))
  BY <1>2
<1>4. PICK q : q = WithLeft(k)
  OBVIOUS
<1>5. PICK r : r = SetHistoryOf(q, size, file, lines)
  OBVIOUS
<1>6. PICK x : x = Rest(r.p)
  OBVIOUS
<1>7. PICK asked : asked = IF r.ok /\ size > 0 THEN file ELSE NoFile
  OBVIOUS
<1>8. PICK y : y = [x EXCEPT !.asked = asked]
  OBVIOUS
<1>9. p' = y
  BY <1>3, <1>4, <1>5, <1>6, <1>7, <1>8
<1>10. size \in Nat \ {0} /\ size > 0 /\ k \in Int
  BY Counts, EditlineAssumption
<1>11. Settled(p, entered, missing)
  BY DEF IInv
<1>12. Sound(q) /\ Beside(p, q) /\ q.loop = p.loop /\ q.left = k
  BY <1>4, <1>10, <1>11, LeftIs DEF Settled, WithLeft
<1>13. PICK loaded : loaded = IF file = NoFile THEN <<>> ELSE Loaded(size, lines)
  OBVIOUS
<1>14. /\ lines \in Seq(Names) /\ missing' \in BOOLEAN
       /\ file # NoFile => Within(loaded, entered[file]) /\ (~missing' => EndOf(loaded, Squeezed(entered[file])))
  <2>1. CASE file = NoFile
    <3>1. lines = <<>>
      BY <2>1 DEF Loads
    <3> QED
      BY <1>3, <2>1, <3>1
  <2>2. CASE file # NoFile
    <3>1. missing' \in BOOLEAN /\ (~missing' => lines = <<>> \/ (lines = disk[file] /\ ~partial[file]))
      BY <1>3
    <3>2. file \in Files /\ lines \in Loads(file)
      BY <2>2
    <3>3. /\ lines \in Seq(Names) /\ Within(Loaded(size, lines), entered[file])
          /\ lines = <<>> \/ (lines = disk[file] /\ ~partial[file]) => EndOf(Loaded(size, lines), Squeezed(entered[file]))
      BY <1>10, <3>2, LoadedKept
    <3> QED
      BY <1>13, <2>2, <3>1, <3>3
  <2> QED
    BY <2>1, <2>2
<1>15. Sized(q, r, size, file, loaded)
  BY ZenonT(60), <1>5, <1>10, <1>12, <1>13, <1>14, SetHistoryOfIs
<1>16. Sound(x) /\ Beside(r.p, x) /\ x.loop = r.p.loop
  <2>1. PICK z : z = r.p
    OBVIOUS
  <2>2. Sound(z) /\ x = [z EXCEPT !.left = -1] /\ -1 \in Int
    BY <1>6, <1>15, <2>1 DEF Sized, Rest
  <2> QED
    BY ZenonT(60), <2>1, <2>2, LeftIs
<1>17. asked \in Files \cup {NoFile}
  BY <1>7
<1>18. IsProc(y) /\ y.asked = asked /\ y.live = x.live /\ y.fault = x.fault /\ y.loop = x.loop /\ y.ed = x.ed /\ y.left = x.left /\ y.el_hist = x.el_hist /\ y.past = x.past
  BY <1>8, <1>16, <1>17, SetAsked DEF Sound, OwnsWith
<1>19. Sound(y)
  BY <1>16, <1>18 DEF Sound, OwnsWith
<1>20. y.loop = p.loop /\ y.ed = r.p.ed /\ y.el_hist = r.p.el_hist /\ y.past = r.p.past /\ y.ed.self = p.ed.self
  BY <1>12, <1>15, <1>16, <1>18 DEF Sized, Around, Beside
<1>21. Shape(y)
  BY <1>1, <1>11, <1>20 DEF Settled, Shape, LoopShape
<1>23. Saving(y, entered, missing')
  <2>1. CASE ~r.ok
    BY <1>7, <1>15, <1>18, <1>20, <2>1 DEF Saving, Sized
  <2>2. CASE r.ok
    <3>1. y.ed.history # Null /\ y.ed.path = file /\ y.past.size = size /\ y.past.lines = loaded /\ y.asked = file
      BY <1>7, <1>10, <1>15, <1>18, <1>20, <2>2 DEF Sized
    <3> QED
      BY <1>10, <1>14, <3>1 DEF Saving
  <2>3. r.ok \in BOOLEAN
    BY <1>15 DEF Sized
  <2> QED
    BY <2>1, <2>2, <2>3
<1>24. Settled(y, entered, missing')
  BY <1>19, <1>21, <1>23 DEF Settled
<1> QED
  BY <1>1, <1>9, <1>14, <1>24, OtherHistory

\* a new prompt, or the one that there was
LEMMA SetPromptOfIs ==
  ASSUME NEW q, NEW log, NEW miss, Settled(q, log, miss), q.ed.self # Null
  PROVE  Settled(SetPromptOf(q), log, miss)
<1>0. Sound(q) /\ IsProc(q)
  BY DEF Settled, Sound, OwnsWith
<1>1. PICK o : o = Unused(q.live)
  OBVIOUS
<1>2. PICK a : a = Failed(q)
  OBVIOUS
<1>3. PICK b : b = Got(q, o)
  OBVIOUS
<1>4. PICK c : c = Failed(b)
  OBVIOUS
<1>5. PICK d : d = Passed(b)
  OBVIOUS
<1>6. PICK x : x = Free(c, o)
  OBVIOUS
<1>7. PICK g : g = Free(d, b.ed.prompt)
  OBVIOUS
<1>8. PICK y : y = [g EXCEPT !.ed.prompt = o]
  OBVIOUS
<1>9. SetPromptOf(q) = IF q.left = 0 THEN a ELSE IF b.left = 0 THEN x ELSE y
  BY <1>1, <1>2, <1>3, <1>4, <1>5, <1>6, <1>7, <1>8 DEF SetPromptOf, Alloc, AllocAt, Call, Failed, Passed, Got
<1>10. /\ o \in Nat \ {Null} /\ o \notin q.live
       /\ Same(q, a) /\ a.live = q.live /\ Same(q, b) /\ b.live = q.live \cup {o} /\ IsProc(b)
  BY <1>0, <1>1, <1>2, <1>3, AllocIs DEF Same
<1>11. Same(b, c) /\ c.live = b.live /\ Same(b, d) /\ d.live = b.live /\ IsProc(c) /\ IsProc(d)
  BY <1>4, <1>5, <1>10, FailedIs, PassedIs DEF Same
<1>12. Same(q, d) /\ Same(q, c)
  BY <1>10, <1>11, SameTrans
<1>13. Same(q, x) /\ x.live = q.live
  <2>1. o \in c.live \cup {Null} /\ c.live \ {o} = q.live
    BY <1>10, <1>11
  <2> QED
    BY <1>6, <1>11, <1>12, <2>1, FreeIs, SameTrans
<1>14. Settled(a, log, miss) /\ Settled(x, log, miss)
  <2>1. Sound(a) /\ Beside(q, a) /\ Sound(x) /\ Beside(q, x)
    BY <1>0, <1>10, <1>13, SoundSame, SameBeside
  <2>2. LoopShape(a) /\ LoopShape(x)
    BY <1>10, <1>13 DEF Settled, Shape, LoopShape, Same
  <2> QED
    BY <2>1, <2>2, BesideSettled
<1>15. Owns(q.live, q.ed.self, q.ed.el, q.ed.history, q.ed.file, q.ed.prompt, q.loop.line, q.loop.vec, q.loop.parse)
  BY <1>0 DEF Sound, OwnsWith
<1>16. b.ed.prompt = q.ed.prompt /\ q.ed.prompt \in d.live \cup {Null} /\ d.live = q.live \cup {o}
  BY <1>10, <1>11, <1>15 DEF Same, Owns
<1>17. Same(d, g) /\ g.live = d.live \ {q.ed.prompt} /\ IsProc(g)
  BY <1>7, <1>11, <1>16, FreeIs DEF Same
<1>18. Same(q, g)
  BY <1>12, <1>17, SameTrans
<1>19. PICK e : e = [g.ed EXCEPT !.prompt = o]
  OBVIOUS
<1>20. /\ e \in Eds /\ e.prompt = o /\ e.self = g.ed.self /\ e.el = g.ed.el /\ e.history = g.ed.history
       /\ e.file = g.ed.file /\ e.path = g.ed.path /\ e.node = g.ed.node
  BY <1>10, <1>17, <1>19, PartsTyped DEF Eds
<1>21. IsProc(y) /\ y.ed = e /\ y.live = g.live /\ y.fault = g.fault /\ y.left = g.left /\ y.loop = g.loop /\ y.asked = g.asked /\ y.el_hist = g.el_hist /\ y.past = g.past
  BY <1>8, <1>17, <1>19, <1>20, SetEd
<1>22. /\ y.loop = q.loop /\ y.asked = q.asked /\ y.el_hist = q.el_hist /\ y.past = q.past /\ ~y.fault
       /\ y.ed.self = q.ed.self /\ y.ed.el = q.ed.el /\ y.ed.history = q.ed.history
       /\ y.ed.file = q.ed.file /\ y.ed.path = q.ed.path /\ y.ed.prompt = o
  BY <1>0, <1>18, <1>20, <1>21 DEF Same, Sound, OwnsWith
<1>23. y.live = (q.live \cup {o}) \ {q.ed.prompt}
  BY <1>16, <1>17, <1>21
<1>24. Owns(y.live, y.ed.self, y.ed.el, y.ed.history, y.ed.file, y.ed.prompt, y.loop.line, y.loop.vec, y.loop.parse)
  BY <1>10, <1>15, <1>22, <1>23 DEF Owns, Apart
<1>25. Sound(y)
  BY <1>21, <1>22, <1>24 DEF Sound, OwnsWith
<1>26. Settled(y, log, miss)
  BY <1>22, <1>25 DEF Settled, Shape, LoopShape, Saving
<1> QED
  BY <1>9, <1>14, <1>26

LEMMA SetPromptStep ==
  ASSUME IInv, SetPrompt
  PROVE  IInv'
<1>1. p.ed.self # Null /\ UNCHANGED kept
  BY DEF SetPrompt, CanCall, Up
<1>2. PICK k \in Few : p' = Rest(SetPromptOf(WithLeft(k)))
  BY DEF SetPrompt
<1>3. PICK q : q = WithLeft(k)
  OBVIOUS
<1>4. Settled(q, entered, missing) /\ q.ed.self # Null
  <2>1. Settled(p, entered, missing) /\ Sound(p) /\ k \in Int
    BY Counts DEF IInv, Settled
  <2> QED
    BY <1>1, <1>3, <2>1, LeftSettled, LeftIs DEF WithLeft, Beside
<1>5. Settled(SetPromptOf(q), entered, missing)
  BY <1>4, SetPromptOfIs
<1>6. Settled(Rest(SetPromptOf(q)), entered, missing)
  BY <1>5, LeftSettled DEF Rest
<1> QED
  BY <1>1, <1>2, <1>3, <1>6, QuietStep

LEMMA SetNodeStep ==
  ASSUME IInv, SetNode
  PROVE  IInv'
<1>1. p.ed.self # Null /\ UNCHANGED kept
  BY DEF SetNode, CanCall, Up
<1>2. PICK node \in Grammars \cup Others : p' = IF node \in Grammars THEN [p EXCEPT !.ed.node = node] ELSE p
  BY DEF SetNode
<1>3. Settled(p, entered, missing) /\ IsProc(p)
  BY DEF IInv, Settled, Sound, OwnsWith
<1>4. CASE node \notin Grammars
  BY <1>1, <1>2, <1>3, <1>4, QuietStep
<1>5. CASE node \in Grammars
  <2>1. PICK e : e = [p.ed EXCEPT !.node = node]
    OBVIOUS
  <2>2. PICK y : y = [p EXCEPT !.ed = e]
    OBVIOUS
  <2>3. /\ e \in Eds /\ e.self = p.ed.self /\ e.el = p.ed.el /\ e.history = p.ed.history
        /\ e.file = p.ed.file /\ e.path = p.ed.path /\ e.prompt = p.ed.prompt
    BY <1>3, <1>5, <2>1, PartsTyped DEF Eds
  <2>4. IsProc(y) /\ y.ed = e /\ y.live = p.live /\ y.fault = p.fault /\ y.left = p.left /\ y.loop = p.loop /\ y.asked = p.asked /\ y.el_hist = p.el_hist /\ y.past = p.past
    BY <1>3, <2>2, <2>3, SetEd
  <2>5. Sound(y)
    BY <1>3, <2>3, <2>4 DEF Settled, Sound, OwnsWith
  <2>6. Settled(y, entered, missing)
    BY <1>1, <1>3, <2>3, <2>4, <2>5 DEF Settled, Shape, LoopShape, Saving
  <2>7. p' = y
    BY <1>2, <1>5, <2>1, <2>2
  <2> QED
    BY <1>1, <2>6, <2>7, QuietStep
<1> QED
  BY <1>4, <1>5

\* The loop: its variables change and nothing else.
LEMMA LoopStep ==
  ASSUME IInv, p.ed.self # Null, UNCHANGED kept, NEW y, Turned(p, y), p' = y
  PROVE  IInv'
<1>1. Settled(y, entered, missing)
  BY BesideSettled DEF IInv, Turned
<1> QED
  BY <1>1, QuietStep

LEMMA LoopSet ==
  ASSUME NEW loop \in Loops, IInv, p.loop.line = Null, p.loop.vec = Null, p.loop.parse = Null,
         loop.line = Null, loop.vec = Null, loop.parse = Null, loop.pc = "out" => loop = NoLoop
  PROVE  Turned(p, [p EXCEPT !.loop = loop])
<1>1. PICK y : y = [p EXCEPT !.loop = loop]
  OBVIOUS
<1>2. Sound(p) /\ IsProc(p)
  BY DEF IInv, Settled, Sound, OwnsWith
<1>3. IsProc(y) /\ y.loop = loop /\ y.live = p.live /\ y.fault = p.fault /\ y.left = p.left /\ y.ed = p.ed /\ y.asked = p.asked /\ y.el_hist = p.el_hist /\ y.past = p.past
  BY <1>1, <1>2, SetLoop
<1>4. Turned(p, y)
  BY <1>2, <1>3 DEF Turned, Sound, OwnsWith, Beside, LoopShape
<1> QED
  BY <1>1, <1>4

LEMMA InLoop ==
  ASSUME IInv
  PROVE  /\ p.loop.pc # "out" => p.ed.self # Null
         /\ p.loop.pc \in {"out", "check", "gets"} => p.loop.line = Null /\ p.loop.vec = Null /\ p.loop.parse = Null
         /\ Sound(p) /\ IsProc(p) /\ p.loop \in Loops /\ p.ed.node \in Grammars \cup {NoNode}
<1>1. Sound(p) /\ IsProc(p) /\ Shape(p)
  BY DEF IInv, Settled, Sound, OwnsWith
<1>2. NoLoop.pc = "out" /\ NoLoop.line = Null /\ NoLoop.vec = Null /\ NoLoop.parse = Null
  BY DEF NoLoop
<1> QED
  BY <1>1, <1>2, PartsTyped DEF Shape, LoopShape

LEMMA InteractStep ==
  ASSUME IInv, Interact
  PROVE  IInv'
<1>1. PICK loop : loop = [NoLoop EXCEPT !.pc = "check", !.node = p.ed.node]
  OBVIOUS
<1>2. /\ p.ed.self # Null /\ p.loop.pc = "out" /\ UNCHANGED kept
      /\ p' = [p EXCEPT !.loop = loop]
  BY <1>1 DEF Interact, Up
<1>3. loop \in Loops /\ loop.pc = "check" /\ loop.line = Null /\ loop.vec = Null /\ loop.parse = Null
  BY <1>1, InLoop DEF NoLoop, Loops, Null
<1>4. Turned(p, [p EXCEPT !.loop = loop])
  BY <1>2, <1>3, InLoop, LoopSet
<1> QED
  BY <1>2, <1>4, LoopStep

LEMMA CheckExitStep ==
  ASSUME IInv, CheckExit
  PROVE  IInv'
<1>1. p.loop.pc = "check" /\ UNCHANGED kept
  BY DEF CheckExit
<1>2. PICK exit \in BOOLEAN : p' = [p EXCEPT !.loop = IF exit THEN NoLoop ELSE [@ EXCEPT !.pc = "gets"]]
  BY DEF CheckExit
<1>3. PICK loop : loop = IF exit THEN NoLoop ELSE [p.loop EXCEPT !.pc = "gets"]
  OBVIOUS
<1>4. NoLoop \in Loops /\ NoLoop.line = Null /\ NoLoop.vec = Null /\ NoLoop.parse = Null
  BY DEF NoLoop, Loops, Null
<1>5. /\ loop \in Loops /\ loop.line = Null /\ loop.vec = Null /\ loop.parse = Null
      /\ loop.pc = "out" => loop = NoLoop
  BY <1>1, <1>3, <1>4, InLoop DEF Loops
<1>6. Turned(p, [p EXCEPT !.loop = loop])
  BY <1>1, <1>5, InLoop, LoopSet
<1>7. p' = [p EXCEPT !.loop = loop] /\ p.ed.self # Null
  BY <1>1, <1>2, <1>3, InLoop
<1> QED
  BY <1>1, <1>6, <1>7, LoopStep

LEMMA CompleteKeyStep ==
  ASSUME IInv, CompleteKey
  PROVE  IInv'
<1>1. p.loop.pc = "gets" /\ UNCHANGED kept
  BY DEF CompleteKey
<1>2. PICK key \in {"?", "tab"}, l \in Lines, k \in Budgets :
        p' = Rest(Complete(WithLeft(k), key, l, p.ed.node # NoNode))
  BY DEF CompleteKey
<1>3. PICK q : q = WithLeft(k)
  OBVIOUS
<1>4. PICK x : x = Complete(q, key, l, p.ed.node # NoNode)
  OBVIOUS
<1>5. Sound(q) /\ Beside(p, q) /\ q.loop = p.loop /\ IsProc(q)
  BY <1>3, Counts, InLoop, LeftIs DEF WithLeft, Sound, OwnsWith
<1>6. Leaves(q, q.live, x)
  BY <1>4, <1>5, LineTyped, CompleteIs
<1>7. Sound(x) /\ Beside(q, x) /\ x.loop = q.loop
  BY <1>5, <1>6, SoundSame, SameBeside DEF Leaves, Same
<1>8. PICK y : y = Rest(x)
  OBVIOUS
<1>9. Sound(y) /\ Beside(x, y) /\ y.loop = x.loop
  BY <1>7, <1>8, LeftIs DEF Rest
<1>10. Beside(p, y) /\ y.loop = p.loop
  BY <1>5, <1>7, <1>9 DEF Beside
<1>11. Turned(p, y)
  BY <1>9, <1>10 DEF Turned, IInv, Settled, Shape, LoopShape
<1>12. p' = y /\ p.ed.self # Null
  BY <1>1, <1>2, <1>3, <1>4, <1>8, InLoop
<1> QED
  BY <1>1, <1>11, <1>12, LoopStep

LEMMA EndOfInputStep ==
  ASSUME IInv, EndOfInput
  PROVE  IInv'
<1>1. p.loop.pc = "gets" /\ UNCHANGED kept /\ p' = Leave(p)
  BY DEF EndOfInput
<1>2. Turned(p, Leave(p)) /\ p.ed.self # Null
  BY <1>1, InLoop, AgainIs
<1> QED
  BY <1>1, <1>2, LoopStep

LEMMA CallbackReturnsStep ==
  ASSUME IInv, CallbackReturns
  PROVE  IInv'
<1>1. p.loop.pc = "cb" /\ UNCHANGED kept /\ p' = Again(p)
  BY DEF CallbackReturns
<1>2. Turned(p, Again(p)) /\ p.ed.self # Null
  BY <1>1, InLoop, AgainIs
<1> QED
  BY <1>1, <1>2, LoopStep
-----------------------------------------------------------------------------
(***************************************************************************)
(* A line is read: ec_editline_gets() enters it in the history, and saves  *)
(* the history.                                                            *)
(***************************************************************************)

\* the history once the line l is read
Remembered(q, l, done) == [q.past EXCEPT !.lines = History(q, l, done)]

LEMMA RememberedIs ==
  ASSUME NEW q, IsProc(q), NEW l \in Lines, NEW done
  PROVE  /\ Remembered(q, l, done) \in Pasts /\ Remembered(q, l, done).size = q.past.size
         /\ Remembered(q, l, done).lines = History(q, l, done) /\ History(q, l, done) \in Seq(Names)
<1>1. PICK e : e = History(q, l, done)
  OBVIOUS
<1>2. q.past \in Pasts /\ q.past.size \in Nat /\ q.past.lines \in Seq(Names) /\ l.name \in Names
  BY PartsTyped, LineTyped
<1>3. Entered(q.past, l.name) \in Seq(Names)
  BY <1>2, EnteredIs
<1>4. e \in Seq(Names)
  BY <1>1, <1>2, <1>3 DEF History
<1> QED
  BY <1>1, <1>2, <1>4 DEF Remembered, Pasts

LEMMA RemembersIs ==
  ASSUME NEW q, IsProc(q), q.ed.history \in q.live \cup {Null}, NEW l \in Lines, NEW done
  PROVE  LET y == Remembers(q, l, done) IN
         /\ IsProc(y) /\ y.ed = q.ed /\ y.live = q.live /\ y.fault = q.fault /\ y.left = q.left /\ y.loop = q.loop
         /\ y.asked = q.asked /\ y.el_hist = q.el_hist /\ y.past = Remembered(q, l, done)
<1>1. PICK past : past = Remembered(q, l, done)
  OBVIOUS
<1>2. PICK y : y = [q EXCEPT !.past = past]
  OBVIOUS
<1>3. past \in Pasts
  BY <1>1, RememberedIs
<1>4. /\ IsProc(y) /\ y.ed = q.ed /\ y.live = q.live /\ y.fault = q.fault /\ y.left = q.left /\ y.loop = q.loop
      /\ y.asked = q.asked /\ y.el_hist = q.el_hist /\ y.past = past
  BY <1>2, <1>3, SetPast
<1>5. PICK e : e = History(q, l, done)
  OBVIOUS
<1>6. past = [q.past EXCEPT !.lines = e] /\ q.past \in Pasts /\ q \in Procs
  BY <1>1, <1>5, PartsTyped DEF Remembered
<1>7. Remembers(q, l, done) = y
  <2>1. CASE ~Enters(q, l)
    <3>1. e = q.past.lines
      BY <1>5, <2>1 DEF History
    <3>2. past = q.past
      BY <1>6, <3>1 DEF Pasts
    <3> QED
      BY <1>2, <1>6, <2>1, <3>2 DEF Remembers, Procs
  <2>2. CASE Enters(q, l)
    <3>1. q.ed.history \in q.live
      BY <2>2 DEF Enters
    <3>2. Remembers(q, l, done) = [q EXCEPT !.past.lines = e, !.fault = @ \/ q.ed.history \notin q.live]
      BY <1>5, <2>2 DEF Remembers
    <3>3. [q EXCEPT !.past.lines = e, !.fault = @ \/ q.ed.history \notin q.live] = y
      BY <1>2, <1>6, <3>1 DEF Procs
    <3> QED
      BY <3>2, <3>3
  <2> QED
    BY <2>1, <2>2
<1> QED
  BY <1>1, <1>4, <1>7

\* What a file holds after H_SAVE is within the log that its lines are within.
LEMMA WrittenWithin ==
  ASSUME NEW f \in Files, disk[f] \in Seq(Names), NEW e \in Seq(Names), NEW log \in Seq(Names),
         Within(disk[f], log), Within(e, log), NEW content \in Written(f, e)
  PROVE  content \in Seq(Names) /\ Within(content, log)
<1>1. CASE content = disk[f]
  BY <1>1
<1>2. CASE content \in Beginnings(e)
  <2>1. PICK n \in 0..Len(e) : content = SubSeq(e, 1, n)
    BY <1>2 DEF Beginnings
  <2>2. content \in Seq(Names) /\ Within(content, e)
    BY <2>1, BeginningWithin
  <2> QED
    BY <2>2, WithinTrans
<1>3. CASE content \in CutShort(e)
  <2>1. PICK n \in 1..Len(e) : content = Append(SubSeq(e, 1, n - 1), CutLine)
    BY <1>3 DEF CutShort
  <2>2. CutLine \in Names
    BY DEF Names
  <2>3. content \in Seq(Names) /\ Within(content, e)
    BY <2>1, <2>2, CutWithin
  <2> QED
    BY <2>3, WithinTrans
<1> QED
  BY <1>1, <1>2, <1>3 DEF Written

\* what is in the files and in the log
LEMMA LogKept ==
  ASSUME IInv, NEW l \in Lines, NEW done \in BOOLEAN, Logs(l), Saves(p, l, done),
         NEW y, y.ed = p.ed, y.asked = p.asked, y.past = Remembered(p, l, done)
  PROVE  /\ Saving(y, entered', missing') /\ missing' \in BOOLEAN
         /\ disk' \in [Files -> Seq(Names)] /\ entered' \in [Files -> Seq(Names)] /\ partial' \in [Files -> BOOLEAN]
         /\ \A f \in Files : KeptIn(disk', entered', partial', f)
<1>1. PICK a : a = p.asked
  OBVIOUS
<1>2. PICK s : s = l.name
  OBVIOUS
<1>3. PICK e : e = History(p, l, done)
  OBVIOUS
<1>4. IsProc(p) /\ Saving(p, entered, missing)
  BY DEF IInv, Settled, Sound, OwnsWith
<1>5. /\ a \in Files \cup {NoFile} /\ s \in Names /\ p.past.size \in Nat /\ p.past.lines \in Seq(Names)
      /\ NoFile \notin Files
  BY <1>1, <1>2, <1>4, PartsTyped, LineTyped, EditlineAssumption
<1>6. y.past.size = p.past.size /\ y.past.lines = e /\ e \in Seq(Names)
  BY <1>3, <1>4, RememberedIs
<1>7. /\ disk \in [Files -> Seq(Names)] /\ entered \in [Files -> Seq(Names)] /\ partial \in [Files -> BOOLEAN]
      /\ missing \in BOOLEAN /\ \A f \in Files : KeptIn(disk, entered, partial, f)
  BY DEF IInv
<1>8. missing' = (missing \/ (Enters(p, l) /\ ~done)) /\ missing' \in BOOLEAN
  BY <1>7 DEF Saves
<1>9. CASE a = NoFile
  <2>1. disk' = disk /\ partial' = partial /\ entered' = entered
    BY <1>1, <1>4, <1>9 DEF Logs, Saves, Enters, Saving
  <2>2. Saving(y, entered, missing')
    BY <1>1, <1>4, <1>6, <1>9 DEF Saving
  <2> QED
    BY <1>7, <1>8, <2>1, <2>2
<1>10. CASE a # NoFile /\ l.blank
  <2>1. ~Enters(p, l) /\ e = p.past.lines
    BY <1>3, <1>10 DEF Enters, History
  <2>2. disk' = disk /\ partial' = partial /\ entered' = entered /\ missing' = missing
    BY <1>1, <1>7, <1>8, <1>10, <2>1 DEF Logs, Saves
  <2>3. Saving(y, entered, missing)
    BY <1>4, <1>6, <2>1 DEF Saving
  <2> QED
    BY <1>7, <2>2, <2>3
<1>11. CASE a # NoFile /\ ~l.blank
  <2>1. a \in Files /\ p.ed.history # Null /\ p.ed.path = a /\ p.past.size # 0
    BY <1>1, <1>4, <1>5, <1>11 DEF Saving
  <2>2. Enters(p, l)
    BY <1>11, <2>1 DEF Enters
  <2>3. PICK log : log = entered[a]
    OBVIOUS
  <2>4. PICK new : new = Append(log, s)
    OBVIOUS
  <2>5. /\ log \in Seq(Names) /\ new \in Seq(Names) /\ Within(p.past.lines, log)
        /\ ~missing => EndOf(p.past.lines, Squeezed(log))
    BY <1>1, <1>4, <1>5, <1>7, <1>11, <2>1, <2>3, <2>4 DEF Saving
  <2>6. Within(e, new)
    <3>1. CASE done
      <4>1. e = Entered(p.past, s)
        BY <1>2, <1>3, <2>2, <3>1 DEF History
      <4> QED
        BY <1>5, <2>4, <2>5, <4>1, EnteredWithin
    <3>2. CASE ~done
      <4>1. e = p.past.lines
        BY <1>3, <3>2 DEF History
      <4> QED
        BY <1>5, <2>4, <2>5, <4>1, WithinLonger
    <3> QED
      BY <3>1, <3>2
  <2>7. ASSUME ~missing' PROVE EndOf(e, Squeezed(new)) /\ e # <<>>
    <3>1. done /\ ~missing
      BY <1>7, <1>8, <2>2, <2>7
    <3>2. e = Entered(p.past, s)
      BY <1>2, <1>3, <2>2, <3>1 DEF History
    <3>3. e # <<>>
      BY <1>5, <2>1, <3>2, EnteredIs
    <3>4. Squeezed(log) \in Seq(Names) /\ Squeezed(new) = Join(Squeezed(log), s)
      BY <1>5, <2>4, <2>5, SqueezedIs, SqueezedAppend
    <3>5. EndOf(p.past.lines, Squeezed(log))
      BY <2>5, <3>1
    <3>6. EndOf(e, Squeezed(new))
      BY <1>5, <3>2, <3>4, <3>5, EnteredEnds
    <3> QED
      BY <3>3, <3>6
  <2>8. PICK content \in Written(a, e) :
          disk' = [disk EXCEPT ![a] = content] /\ partial' = [partial EXCEPT ![a] = missing' \/ content # e]
    BY <1>3, <1>5, <2>1, <2>2 DEF Saves, Saved
  <2>9. entered' = [entered EXCEPT ![a] = new]
    BY <1>1, <1>2, <1>11, <2>3, <2>4 DEF Logs
  <2>10. /\ disk'[a] = content /\ entered'[a] = new /\ partial'[a] = (missing' \/ content # e)
         /\ \A f \in Files \ {a} : disk'[f] = disk[f] /\ entered'[f] = entered[f] /\ partial'[f] = partial[f]
    BY <1>7, <2>1, <2>8, <2>9
  <2>11. content \in Seq(Names) /\ Within(content, new)
    <3>1. disk[a] \in Seq(Names) /\ Within(disk[a], log)
      BY <1>7, <2>1, <2>3 DEF KeptIn
    <3>2. Within(disk[a], new)
      BY <1>5, <2>4, <2>5, <3>1, WithinLonger
    <3> QED
      BY <1>6, <2>1, <2>5, <2>6, <3>1, <3>2, WrittenWithin
  <2>12. Saving(y, entered', missing')
    BY <1>1, <1>6, <2>1, <2>6, <2>7, <2>10 DEF Saving
  <2>13. disk' \in [Files -> Seq(Names)] /\ entered' \in [Files -> Seq(Names)] /\ partial' \in [Files -> BOOLEAN]
    BY <1>7, <1>8, <2>1, <2>5, <2>8, <2>9, <2>11
  <2>14. ASSUME NEW f \in Files PROVE KeptIn(disk', entered', partial', f)
    <3>1. CASE f = a
      <4>1. ~partial'[a] => ~missing' /\ content = e
        BY <2>10
      <4> QED
        BY <2>7, <2>10, <2>11, <3>1, <4>1 DEF KeptIn
    <3>2. CASE f # a
      BY <1>7, <2>10, <3>2 DEF KeptIn
    <3> QED
      BY <3>1, <3>2
  <2> QED
    BY <1>8, <2>12, <2>13, <2>14
<1> QED
  BY <1>9, <1>10, <1>11

LEMMA LoggedStep ==
  ASSUME IInv, NEW l \in Lines, NEW done \in BOOLEAN, Logs(l), Saves(p, l, done), p.ed.self # Null,
         NEW y, Sound(y), LoopShape(y), p' = y,
         y.ed = p.ed, y.asked = p.asked, y.el_hist = p.el_hist, y.past = Remembered(p, l, done)
  PROVE  IInv'
<1>1. /\ Saving(y, entered', missing') /\ missing' \in BOOLEAN
      /\ disk' \in [Files -> Seq(Names)] /\ entered' \in [Files -> Seq(Names)] /\ partial' \in [Files -> BOOLEAN]
      /\ \A f \in Files : KeptIn(disk', entered', partial', f)
  BY LogKept
<1>2. Shape(y)
  BY DEF IInv, Settled, Shape
<1>3. Settled(y, entered', missing')
  BY <1>1, <1>2 DEF Settled
<1> QED
  BY <1>1, <1>3 DEF IInv

\* the process dies while it saves the line
LEMMA CrashInGetsStep ==
  ASSUME IInv, CrashInGets
  PROVE  IInv'
<1>1. PICK l \in Lines, done \in BOOLEAN : Logs(l) /\ Saves(p, l, done)
  BY DEF CrashInGets
<1>2. PICK past : past = Remembered(p, l, done)
  OBVIOUS
<1>3. PICK y : y = [p EXCEPT !.past = past]
  OBVIOUS
<1>4. IsProc(p)
  BY DEF IInv, Settled, Sound, OwnsWith
<1>5. past \in Pasts
  BY <1>2, <1>4, RememberedIs
<1>6. y.ed = p.ed /\ y.asked = p.asked /\ y.past = past
  BY <1>3, <1>4, <1>5, SetPast
<1>7. /\ missing' \in BOOLEAN
      /\ disk' \in [Files -> Seq(Names)] /\ entered' \in [Files -> Seq(Names)] /\ partial' \in [Files -> BOOLEAN]
      /\ \A f \in Files : KeptIn(disk', entered', partial', f)
  BY <1>1, <1>2, <1>6, LogKept
<1>8. Settled(NewProcess, entered', missing') /\ p' = NewProcess
  BY NewProcessSettled DEF CrashInGets
<1> QED
  BY <1>7, <1>8 DEF IInv

\* a line is read into a new object o, and entered
LEMMA ReadIs ==
  ASSUME NEW q, Sound(q), NEW l \in Lines, NEW done, NEW o, o = Unused(q.live), NEW b, b = Got(q, o)
  PROVE  LET c == Remembers(q, l, done)
             m == Remembers(b, l, done) IN
         /\ o \in Nat \ {Null} /\ o \notin q.live /\ Same(c, m) /\ m.live = c.live \cup {o} /\ c.live = q.live
         /\ Sound(c) /\ c.loop = q.loop
         /\ c.ed = q.ed /\ c.asked = q.asked /\ c.el_hist = q.el_hist /\ c.past = Remembered(q, l, done)
<1>1. IsProc(q) /\ ~q.fault /\ q.ed.history \in q.live \cup {Null}
  BY DEF Sound, OwnsWith, Owns
<1>2. o \in Nat \ {Null} /\ o \notin q.live /\ Same(q, b) /\ b.live = q.live \cup {o} /\ IsProc(b)
  BY <1>1, AllocIs DEF Same
<1>3. PICK c : c = Remembers(q, l, done)
  OBVIOUS
<1>4. PICK m : m = Remembers(b, l, done)
  OBVIOUS
<1>5. /\ IsProc(c) /\ c.ed = q.ed /\ c.live = q.live /\ c.fault = q.fault /\ c.left = q.left /\ c.loop = q.loop
      /\ c.asked = q.asked /\ c.el_hist = q.el_hist /\ c.past = Remembered(q, l, done)
  BY <1>1, <1>3, RemembersIs
<1>6. /\ IsProc(m) /\ m.ed = b.ed /\ m.live = b.live /\ m.fault = b.fault /\ m.left = b.left /\ m.loop = b.loop
      /\ m.asked = b.asked /\ m.el_hist = b.el_hist /\ m.past = Remembered(b, l, done)
  <2>1. b.ed.history \in b.live \cup {Null}
    BY <1>1, <1>2 DEF Same
  <2> QED
    BY <1>2, <1>4, <2>1, RemembersIs
<1>7. Remembered(b, l, done) = Remembered(q, l, done)
  BY <1>2 DEF Same, Remembered, History, Enters
<1>8. Same(c, m)
  BY <1>2, <1>5, <1>6, <1>7 DEF Same
<1>9. Sound(c)
  BY <1>1, <1>5 DEF Sound, OwnsWith
<1> QED
  BY <1>2, <1>3, <1>4, <1>5, <1>6, <1>8, <1>9

LEMMA GetLineStep ==
  ASSUME IInv, GetLine
  PROVE  IInv'
<1>1. p.loop.pc = "gets"
  BY DEF GetLine
<1>2. PICK l \in Lines, done \in BOOLEAN, k \in Budgets \ {0} :
        /\ p' = Rest(Alloc(WithLeft(k), Leave, LAMBDA q, line : LexStep([Remembers(q, l, done) EXCEPT !.loop.line = line], l)))
        /\ Logs(l) /\ Saves(p, l, done)
  BY DEF GetLine
<1>3. PICK q : q = WithLeft(k)
  OBVIOUS
<1>4. PICK o : o = Unused(q.live)
  OBVIOUS
<1>5. PICK b : b = Got(q, o)
  OBVIOUS
<1>6. PICK c : c = Remembers(q, l, done)
  OBVIOUS
<1>7. PICK m : m = Remembers(b, l, done)
  OBVIOUS
<1>8. PICK y : y = [m EXCEPT !.loop.line = o]
  OBVIOUS
<1>9. PICK x : x = LexStep(y, l)
  OBVIOUS
<1>10. PICK z : z = [x EXCEPT !.left = -1]
  OBVIOUS
<1>11. k \in Int
  BY Counts
<1>12. Sound(q) /\ Beside(p, q) /\ q.loop = p.loop /\ q.left = k
  BY <1>3, <1>11, InLoop, LeftIs DEF WithLeft
<1>13. q.left # 0
  BY <1>2, <1>12
<1>14. p' = z
  BY <1>2, <1>3, <1>4, <1>5, <1>7, <1>8, <1>9, <1>10, <1>13 DEF Alloc, AllocAt, Call, Passed, Got, Rest
<1>15. /\ o \in Nat \ {Null} /\ o \notin q.live /\ Same(c, m) /\ m.live = c.live \cup {o} /\ c.live = q.live
       /\ Sound(c) /\ c.loop = q.loop
       /\ c.ed = q.ed /\ c.asked = q.asked /\ c.el_hist = q.el_hist /\ c.past = Remembered(q, l, done)
  BY <1>4, <1>5, <1>6, <1>7, <1>12, ReadIs
<1>16. c.loop.line = Null /\ c.loop.vec = Null /\ c.loop.parse = Null
  BY <1>1, <1>12, <1>15, InLoop
<1>17. Sound(y) /\ Beside(c, y) /\ y.loop.vec = Null /\ y.loop.parse = Null
  BY <1>8, <1>15, <1>16, NewLineSet
<1>18. Turned(y, x)
  BY <1>9, <1>17, LexStepIs
<1>19. Sound(z) /\ Beside(x, z) /\ z.loop = x.loop
  BY <1>10, <1>18, LeftIs DEF Turned
<1>20. LoopShape(z) /\ z.ed = c.ed /\ z.asked = c.asked /\ z.el_hist = c.el_hist /\ z.past = c.past
  BY <1>17, <1>18, <1>19 DEF Turned, LoopShape, Beside
<1>21. Remembered(q, l, done) = Remembered(p, l, done)
  BY <1>12 DEF Beside, Remembered, History, Enters
<1>22. z.ed = p.ed /\ z.asked = p.asked /\ z.el_hist = p.el_hist /\ z.past = Remembered(p, l, done)
  BY <1>12, <1>15, <1>20, <1>21 DEF Beside
<1>23. p.ed.self # Null
  BY <1>1, InLoop
<1> QED
  BY <1>2, <1>14, <1>19, <1>20, <1>22, <1>23, LoggedStep

\* the line and the tree are freed: what is in use is as before
LEMMA ParsedIs ==
  ASSUME NEW c, Sound(c), NEW o \in Nat \ {Null}, o \notin c.live, NEW m, Same(c, m), m.live = c.live \cup {o}
  PROVE  Same(c, Parsed(m, o)) /\ Parsed(m, o).live = c.live
<1>1. IsProc(m)
  BY DEF Same
<1>2. PICK t : t = Unused(m.live)
  OBVIOUS
<1>3. PICK a : a = Failed(m)
  OBVIOUS
<1>4. PICK b : b = Got(m, t)
  OBVIOUS
<1>5. PICK x : x = Free(a, o)
  OBVIOUS
<1>6. PICK g : g = Free(b, o)
  OBVIOUS
<1>7. PICK y : y = Free(g, t)
  OBVIOUS
<1>8. Parsed(m, o) = IF m.left = 0 THEN x ELSE y
  BY <1>2, <1>3, <1>4, <1>5, <1>6, <1>7 DEF Parsed, Alloc, AllocAt, Call, Failed, Passed, Got
<1>9. /\ t \in Nat \ {Null} /\ t \notin m.live
      /\ Same(m, a) /\ a.live = m.live /\ Same(m, b) /\ b.live = m.live \cup {t}
  BY <1>1, <1>2, <1>3, <1>4, AllocIs
<1>10. IsProc(a) /\ IsProc(b) /\ o \in a.live /\ o \in b.live
  BY <1>9 DEF Same
<1>11. Same(a, x) /\ x.live = c.live
  <2>1. Same(a, x) /\ x.live = a.live \ {o}
    BY <1>5, <1>10, FreeIs
  <2>2. a.live \ {o} = c.live
    BY <1>9
  <2> QED
    BY <2>1, <2>2
<1>12. Same(b, g) /\ g.live = b.live \ {o} /\ IsProc(g)
  BY <1>6, <1>10, FreeIs DEF Same
<1>13. t \in g.live
  BY <1>9, <1>12
<1>14. Same(g, y) /\ y.live = g.live \ {t}
  BY <1>7, <1>12, <1>13, FreeIs
<1>15. y.live = c.live
  BY <1>9, <1>12, <1>14
<1>16. Same(c, x) /\ Same(c, y)
  BY <1>9, <1>11, <1>12, <1>14, SameTrans
<1> QED
  BY <1>8, <1>11, <1>15, <1>16

LEMMA ParseLineStep ==
  ASSUME IInv, ParseLine
  PROVE  IInv'
<1>1. p.ed.self # Null
  BY DEF ParseLine, CanCall, Up
<1>2. PICK l \in Lines, done \in BOOLEAN, k \in Few : \E r \in {ParseLineOf(WithLeft(k), l, done)} :
        /\ p' = Rest(r.p)
        /\ IF r.ok THEN Logs(l) /\ Saves(p, l, done) ELSE UNCHANGED kept
  BY DEF ParseLine
<1>3. PICK q : q = WithLeft(k)
  OBVIOUS
<1>4. PICK o : o = Unused(q.live)
  OBVIOUS
<1>5. PICK a : a = Failed(q)
  OBVIOUS
<1>6. PICK b : b = Got(q, o)
  OBVIOUS
<1>7. PICK c : c = Remembers(q, l, done)
  OBVIOUS
<1>8. PICK m : m = Remembers(b, l, done)
  OBVIOUS
<1>9. PICK x : x = Parsed(m, o)
  OBVIOUS
<1>10. k \in Int
  BY Counts
<1>11. Sound(q) /\ Beside(p, q) /\ q.loop = p.loop /\ q.left = k
  BY <1>3, <1>10, InLoop, LeftIs DEF WithLeft
<1>12. PICK r : r = ParseLineOf(q, l, done)
  OBVIOUS
<1>13. /\ p' = [r.p EXCEPT !.left = -1]
       /\ IF r.ok THEN Logs(l) /\ Saves(p, l, done) ELSE UNCHANGED kept
  BY <1>2, <1>3, <1>12 DEF Rest
<1>14. CASE q.left = 0
  <2>1. r = [ok |-> FALSE, p |-> a]
    BY <1>5, <1>12, <1>14 DEF ParseLineOf, Alloc, AllocAt, Call, Failed
  <2>2. Same(q, a) /\ a.live = q.live
    BY <1>4, <1>5, <1>11, AllocIs DEF Sound, OwnsWith
  <2>3. Sound(a) /\ Beside(q, a) /\ a.loop = q.loop
    BY <1>11, <2>2, SoundSame, SameBeside DEF Same
  <2>4. PICK z : z = [a EXCEPT !.left = -1]
    OBVIOUS
  <2>5. Sound(z) /\ Beside(a, z) /\ z.loop = a.loop
    BY <2>3, <2>4, LeftIs
  <2>6. Beside(p, z) /\ z.loop = p.loop
    BY <1>11, <2>3, <2>5 DEF Beside
  <2>7. LoopShape(z)
    BY <2>6 DEF IInv, Settled, Shape, LoopShape
  <2>8. Turned(p, z)
    BY <2>5, <2>6, <2>7 DEF Turned
  <2>9. p' = z /\ UNCHANGED kept
    BY <1>13, <2>1, <2>4
  <2> QED
    BY <1>1, <2>8, <2>9, LoopStep
<1>15. CASE q.left # 0
  <2>1. r = [ok |-> TRUE, p |-> x]
    BY <1>4, <1>6, <1>8, <1>9, <1>12, <1>15 DEF ParseLineOf, Alloc, AllocAt, Call, Passed, Got
  <2>2. /\ o \in Nat \ {Null} /\ o \notin q.live /\ Same(c, m) /\ m.live = c.live \cup {o} /\ c.live = q.live
        /\ Sound(c) /\ c.loop = q.loop
        /\ c.ed = q.ed /\ c.asked = q.asked /\ c.el_hist = q.el_hist /\ c.past = Remembered(q, l, done)
    BY <1>4, <1>6, <1>7, <1>8, <1>11, ReadIs
  <2>3. Same(c, x) /\ x.live = c.live
    BY <1>9, <2>2, ParsedIs
  <2>4. Sound(x) /\ Beside(c, x) /\ x.loop = c.loop
    BY <2>2, <2>3, SoundSame, SameBeside DEF Same
  <2>5. PICK z : z = [x EXCEPT !.left = -1]
    OBVIOUS
  <2>6. Sound(z) /\ Beside(x, z) /\ z.loop = x.loop
    BY <2>4, <2>5, LeftIs
  <2>7. Remembered(q, l, done) = Remembered(p, l, done)
    BY <1>11 DEF Beside, Remembered, History, Enters
  <2>8. z.loop = p.loop /\ z.ed = p.ed /\ z.asked = p.asked /\ z.el_hist = p.el_hist /\ z.past = Remembered(p, l, done)
    BY <1>11, <2>2, <2>4, <2>6, <2>7 DEF Beside
  <2>9. LoopShape(z)
    BY <2>8 DEF IInv, Settled, Shape, LoopShape
  <2>10. p' = z /\ Logs(l) /\ Saves(p, l, done)
    BY <1>13, <2>1, <2>5
  <2> QED
    BY <1>1, <2>6, <2>8, <2>9, <2>10, LoggedStep
<1> QED
  BY <1>14, <1>15

-----------------------------------------------------------------------------
(***************************************************************************)
(* The invariants.                                                         *)
(***************************************************************************)
LEMMA InitIs ==
  ASSUME Init
  PROVE  IInv
<1>1. p = NewProcess
  BY DEF Init
<1>2. Settled(p, entered, missing)
  BY <1>1, NewProcessSettled
<1>3. <<>> \in Seq(Names)
  OBVIOUS
<1>4. /\ disk \in [Files -> Seq(Names)] /\ entered \in [Files -> Seq(Names)] /\ partial \in [Files -> BOOLEAN]
      /\ missing \in BOOLEAN /\ \A f \in Files : disk[f] = <<>> /\ entered[f] = <<>>
  BY <1>3 DEF Init
<1>5. Squeezed(<<>>) = <<>>
  BY <1>3, SqueezedIs
<1>6. EndOf(<<>>, <<>>) /\ Within(<<>>, <<>>)
  <2>1. EndOf(<<>>, <<>>)
    BY DEF EndOf
  <2> QED
    BY <1>3, <2>1, EndWithin
<1>7. \A f \in Files : KeptIn(disk, entered, partial, f)
  BY <1>4, <1>5, <1>6 DEF KeptIn
<1> QED
  BY <1>2, <1>4, <1>7 DEF IInv

LEMMA StepKeeps ==
  ASSUME IInv, [Next]_vars, 0 \notin Sizes
  PROVE  IInv'
<1>1. CASE Open
  BY <1>1, OpenStep
<1>2. CASE Close
  BY <1>2, CloseStep
<1>3. CASE SetHistory
  BY <1>3, SetHistoryStep
<1>4. CASE SetPrompt
  BY <1>4, SetPromptStep
<1>5. CASE SetNode
  BY <1>5, SetNodeStep
<1>6. CASE ParseLine
  BY <1>6, ParseLineStep
<1>7. CASE Interact
  BY <1>7, InteractStep
<1>8. CASE CheckExit
  BY <1>8, CheckExitStep
<1>9. CASE CompleteKey
  BY <1>9, CompleteKeyStep
<1>10. CASE EndOfInput
  BY <1>10, EndOfInputStep
<1>11. CASE GetLine
  BY <1>11, GetLineStep
<1>12. CASE CallbackReturns
  BY <1>12, CallbackReturnsStep
<1>13. CASE Crash
  BY <1>13, CrashStep
<1>14. CASE CrashInGets
  BY <1>14, CrashInGetsStep
<1>15. CASE UNCHANGED vars
  <2>1. p' = p /\ UNCHANGED kept
    BY <1>15 DEF vars, kept
  <2>2. Settled(p', entered, missing)
    BY <2>1 DEF IInv
  <2> QED
    BY <2>1, <2>2, QuietStep
<1> QED
  BY <1>1, <1>2, <1>3, <1>4, <1>5, <1>6, <1>7, <1>8, <1>9, <1>10, <1>11, <1>12, <1>13, <1>14, <1>15 DEF Next

LEMMA Invariance ==
  ASSUME 0 \notin Sizes
  PROVE  Spec => []IInv
<1>1. Init => IInv
  BY InitIs
<1>2. IInv /\ [Next]_vars => IInv'
  BY StepKeeps
<1> QED
  BY <1>1, <1>2, PTL DEF Spec

\* eight pointers as a sequence
LEMMA EightPointers ==
  ASSUME NEW L, NEW s, s \in Seq(Nat), Len(s) = 8,
         Owns(L, s[1], s[2], s[3], s[4], s[5], s[6], s[7], s[8])
  PROVE  /\ L = Range(s) \ {Null}
         /\ \A i, j \in DOMAIN s : s[i] = s[j] => i = j \/ s[i] = Null
<1>1. DOMAIN s = {1, 2, 3, 4, 5, 6, 7, 8}
  OBVIOUS
<1>2. Range(s) = {s[1], s[2], s[3], s[4], s[5], s[6], s[7], s[8]}
  BY <1>1 DEF Range
<1>3. ASSUME NEW i \in DOMAIN s, NEW j \in DOMAIN s, s[i] = s[j], s[i] # Null PROVE i = j
  BY <1>1, <1>3 DEF Owns, Apart
<1> QED
  BY <1>2, <1>3 DEF Owns

LEMMA Owned ==
  ASSUME IInv
  PROVE  OwnedExact
<1>1. IsProc(p) /\ ~p.fault
      /\ Owns(p.live, p.ed.self, p.ed.el, p.ed.history, p.ed.file, p.ed.prompt, p.loop.line, p.loop.vec, p.loop.parse)
  BY DEF IInv, Settled, Sound, OwnsWith
<1>2. PICK s : s = Pointers
  OBVIOUS
<1>3. /\ s \in Seq(Nat) /\ Len(s) = 8
      /\ s[1] = p.ed.self /\ s[2] = p.ed.el /\ s[3] = p.ed.history /\ s[4] = p.ed.file
      /\ s[5] = p.ed.prompt /\ s[6] = p.loop.line /\ s[7] = p.loop.vec /\ s[8] = p.loop.parse
  BY <1>1, <1>2, PartsTyped DEF Pointers
<1>4. Owns(p.live, s[1], s[2], s[3], s[4], s[5], s[6], s[7], s[8])
  BY <1>1, <1>3
<1>5. /\ p.live = Range(s) \ {Null}
      /\ \A i, j \in DOMAIN s : s[i] = s[j] => i = j \/ s[i] = Null
  <2>1. PICK L : L = p.live
    OBVIOUS
  <2>2. s \in Seq(Nat) /\ Len(s) = 8 /\ Owns(L, s[1], s[2], s[3], s[4], s[5], s[6], s[7], s[8])
    BY <1>3, <1>4, <2>1
  <2>3. L = Range(s) \ {Null} /\ \A i, j \in DOMAIN s : s[i] = s[j] => i = j \/ s[i] = Null
    BY <2>2, EightPointers
  <2> QED
    BY <2>1, <2>3
<1> QED
  BY <1>1, <1>2, <1>5 DEF OwnedExact

LEMMA Kept ==
  ASSUME IInv
  PROVE  HistoryKept
<1> SUFFICES ASSUME NEW f \in Files
             PROVE  /\ Within(disk[f], entered[f])
                    /\ ~partial[f] =>
                         IsSuffix(disk[f], Squeezed(entered[f])) /\ (entered[f] # <<>> => disk[f] # <<>>)
  BY DEF HistoryKept
<1>1. KeptIn(disk, entered, partial, f) /\ disk[f] \in Seq(Names) /\ entered[f] \in Seq(Names)
  BY DEF IInv
<1>2. Squeezed(entered[f]) \in Seq(Names)
  BY <1>1, SqueezedIs
<1> QED
  BY <1>1, <1>2, EndOfIsSuffix DEF KeptIn

(***************************************************************************)
(* Whichever allocation or call of libedit fails, also from a callback of  *)
(* the loop, the objects in use are exactly those that a variable of       *)
(* ec_editline or of ec_editline_interact() points to, each pointed to     *)
(* once, and none is freed twice: for every grammar, line and history size *)
(* but 0, for which ec_editline_set_history() leaves the pointer to the    *)
(* history that it ended.                                                  *)
(***************************************************************************)
THEOREM OwnedExactCorrect ==
  ASSUME 0 \notin Sizes
  PROVE  Spec => []OwnedExact
<1>1. Spec => []IInv
  BY Invariance
<1>2. IInv => OwnedExact
  BY Owned
<1> QED
  BY <1>1, <1>2, PTL

(***************************************************************************)
(* Whatever fails, and wherever the process dies, also while it saves: a   *)
(* history file holds lines read while it was the history file, in their   *)
(* order, none twice for one reading, and ends cut off; and once a history *)
(* that misses nothing was saved, the newest of them: for every set of     *)
(* files and lines and every history size but 0.                           *)
(***************************************************************************)
THEOREM HistoryKeptCorrect ==
  ASSUME 0 \notin Sizes
  PROVE  Spec => []HistoryKept
<1>1. Spec => []IInv
  BY Invariance
<1>2. IInv => HistoryKept
  BY Kept
<1> QED
  BY <1>1, <1>2, PTL
=============================================================================
