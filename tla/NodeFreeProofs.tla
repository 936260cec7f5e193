--------------------------- MODULE NodeFreeProofs ---------------------------
(***************************************************************************)
(* Proofs about the lifetime of nodes, for graphs without loops: any       *)
(* number of nodes and children, any sharing, and any node of either       *)
(* family.                                                                 *)
(***************************************************************************)
EXTENDS NodeFree, TLAPS, FiniteSetTheorems, SequenceTheorems, SetInduction

\* No node is below itself in the tables.
NoLoops == \A n \in Nodes : ~OnLoop(n)

\* the nodes with that state, and those that ec_node_free() marked
With(st) == {x \in Nodes : state[x] = st}
Marked == With("TRAVERSED") \cup With("FREEABLE") \cup With("NOT_FREEABLE")

-----------------------------------------------------------------------------
(***************************************************************************)
(* The inductive invariant: references.                                    *)
(*                                                                         *)
(* The stack is a \o (w \o e): a has the calls of a phase of               *)
(* ec_node_free() (count_references(), mark_freeable() or reset_mark()), w *)
(* the other calls it is made of, and e the call that replaces a table, if *)
(* there is one.                                                           *)
(***************************************************************************)

PlainCalls == [f : {"free", "free_priv", "priv_freed", "drop"}, n : Nodes]
WorkCalls == [f : {"free", "decide", "free_priv", "priv_freed", "drop"}, n : Nodes]
CountCalls == [f : {"count"}, n : Nodes, refs : {1, 2}]
MarkCalls == [f : {"mark"}, n : Nodes, mark : {"FREEABLE", "NOT_FREEABLE"}]
ResetCalls == [f : {"reset"}, n : Nodes]
TableCalls == [f : {"settab"}, n : Nodes, new : Seq(Nodes)]
Calls == WorkCalls \cup CountCalls \cup MarkCalls \cup ResetCalls \cup TableCalls

Ends == {<<>>} \cup {<<c>> : c \in TableCalls}

NodesOf(s) == {c.n : c \in Range(s)}

\* how often s has an element of C
Occ(s, C) == Cardinality({i \in DOMAIN s : s[i] \in C})

\* the calls that own a reference to x
RefCalls(x) == {Call("free", x), Call("decide", x), Call("drop", x)}

\* the references to x in the fields of the nodes of T
ChildRefs(field, T, x) ==
  {q \in T \X (1..MaxKids) : q[2] \in DOMAIN field[q[1]] /\ field[q[1]][q[2]] = x}
InField(field, T, x) == Cardinality(ChildRefs(field, T, x))

\* the nodes whose table is being released: its references are pending calls
Opened(w, e) == {n \in Nodes : Call("priv_freed", n) \in Range(w) \/ n \in NodesOf(e)}

\* the references of the new configuration and of the new table of e
NewRefs(e, x) == IF e = <<>> THEN 0 ELSE 2 * Times(e[1].new, x)

\* Every counter is the number of references that exist.
Balance(w, e) ==
  \A x \in Nodes :
    refcnt[x] = held[x] + InField(cfg, Nodes, x) + InField(tab, Nodes \ Opened(w, e), x)
                + Occ(w, RefCalls(x)) + NewRefs(e, x)

\* the lists of children of the nodes
IsField(field) == field \in [Nodes -> Seq(Nodes)] /\ \A x \in Nodes : Len(field[x]) <= MaxKids

TypeInv ==
  /\ single \in SUBSET Nodes
  /\ mem \in [Nodes -> {"none", "alive", "gutted", "freed"}]
  /\ refcnt \in [Nodes -> Nat] /\ frefs \in [Nodes -> Nat] /\ held \in [Nodes -> Nat]
  /\ state \in [Nodes -> States]
  /\ IsField(cfg) /\ IsField(tab)

\* A node is in memory as long as it is referenced; what it has.
InMemory(x) == mem[x] \in {"alive", "gutted"}
NodeInv(x) ==
  /\ refcnt[x] > 0 <=> InMemory(x)
  /\ mem[x] # "alive" => cfg[x] = <<>> /\ tab[x] = <<>>
  /\ mem[x] = "gutted" => state[x] = "FREEING"
  /\ ~InMemory(x) => state[x] = "NONE"
  /\ state[x] = "NONE" => frefs[x] = 0
  /\ x \in single => cfg[x] = <<>>
  /\ x \notin single /\ state[x] # "FREEING" => cfg[x] = tab[x]
NodesInv == \A x \in Nodes : NodeInv(x)

\* the calls that release the table of x
OpenCalls(x) == {Call("free_priv", x), Call("priv_freed", x)}

\* a node being freed has one reference, the call that drops it
FreeingInv(w) ==
  \A x \in With("FREEING") :
    /\ refcnt[x] = 1 /\ cfg[x] = <<>> /\ frefs[x] = 0
    /\ Call("drop", x) \in Range(w)
    /\ tab[x] # <<>> => OpenCalls(x) \cap Range(w) # {}

Paired(w) ==
  \A i \in DOMAIN w : w[i].f \in {"free_priv", "priv_freed"} =>
    i + 1 \in DOMAIN w /\ w[i + 1] = Call("drop", w[i].n)
Dropping(w) == \A c \in Range(w) : c.f = "drop" => state[c.n] = "FREEING"

\* A table that is to be replaced is that of a node that stays: it is not below
\* the nodes of the other calls.
Apart(n, S) == \E D \in SUBSET Nodes : n \notin D /\ Kids(D) \subseteq D /\ S \subseteq D
Ending(w, e) ==
  \A c \in Range(e) :
    /\ c.n \notin single /\ Alive(c.n) /\ state[c.n] # "FREEING" /\ Len(c.new) <= MaxKids
    /\ Apart(c.n, NodesOf(w))

BaseInv(w, e) ==
  /\ TypeInv /\ Balance(w, e) /\ NodesInv /\ FreeingInv(w)
  /\ Paired(w) /\ Dropping(w) /\ Ending(w, e)

-----------------------------------------------------------------------------
(***************************************************************************)
(* The inductive invariant: the phases of ec_node_free().                  *)
(***************************************************************************)

\* The nodes of M are found from those of R, by way of nodes of M.
Found(R, M) == \A S \in SUBSET Nodes : R \subseteq S /\ Kids(S \cap M) \subseteq S => M \subseteq S

One(b) == IF b THEN 1 ELSE 0

\* reset_mark() is at work, or nothing is marked
Resetting(a, w, e) ==
  /\ a \in Seq(ResetCalls) /\ w \in Seq(PlainCalls)
  /\ Marked \cap Opened(w, e) = {}
  /\ Found(NodesOf(a), Marked)
  /\ \A x \in NodesOf(a) : Alive(x) /\ state[x] # "FREEING"

\* the decision to free a node without marks
Deciding(a, r) == a = <<>> /\ Marked = {} /\ refcnt[r] = 1

\* the references counted so far, and those to count
Counted(s, r, M, x) ==
  frefs[x] + Occ(s, {CountCall(x, 1)}) + 2 * Occ(s, {CountCall(x, 2)})
    = One(x = r) + InField(cfg, M, x) + InField(tab, M, x)

\* count_references() is at work, from the node r
Counting(a, r, w, e, s) ==
  /\ a = s \o <<MarkCall(r, "FREEABLE")>> /\ refcnt[r] > 1
  /\ Marked = With("TRAVERSED") /\ Marked \cap Opened(w, e) = {}
  /\ r \in Marked \cup NodesOf(s) /\ Kids(Marked) \subseteq Marked \cup NodesOf(s)
  /\ NodesOf(s) \subseteq {r} \cup Kids(Marked) /\ Found({r}, Marked)
  /\ \A x \in Nodes : Counted(s, r, Marked, x)
  /\ Apart(r, Kids({r}))

\* mark_freeable() is at work, or has marked what r reaches: without loops, a
\* node referenced twice is never freeable
Marking(a, r, w, e) ==
  /\ a \in Seq(MarkCalls) /\ \A c \in Range(a) : c.mark = "NOT_FREEABLE"
  /\ refcnt[r] > 1 /\ state[r] = "NOT_FREEABLE"
  /\ Marked \cap Opened(w, e) = {}
  /\ NodesOf(a) \subseteq Marked /\ Kids(Marked) \subseteq Marked /\ Found({r}, Marked)
  /\ \A x \in Marked : frefs[x] <= refcnt[x]

DecideFirst(w, r) == \E t \in Seq(PlainCalls) : w = <<Call("decide", r)>> \o t

PhaseInv(a, w, e) ==
  \/ Resetting(a, w, e)
  \/ \E r \in Nodes :
       /\ DecideFirst(w, r)
       /\ \/ Deciding(a, r)
          \/ \E s \in Seq(CountCalls) : Counting(a, r, w, e, s)
          \/ Marking(a, r, w, e)

StackInv(a, w, e) == stack = a \o (w \o e) /\ BaseInv(w, e) /\ PhaseInv(a, w, e)

IInv == \E a \in Seq(Calls), w \in Seq(WorkCalls), e \in Ends : StackInv(a, w, e)
-----------------------------------------------------------------------------
(***************************************************************************)
(* Sequences of calls.                                                     *)
(***************************************************************************)

LEMMA ConsIs ==
  ASSUME NEW S, NEW c \in S, NEW t \in Seq(S)
  PROVE  /\ <<c>> \in Seq(S) /\ <<c>> \o t \in Seq(S) /\ <<c>> \o t # <<>>
         /\ Head(<<c>> \o t) = c /\ Tail(<<c>> \o t) = t
         /\ Range(<<c>> \o t) = {c} \cup Range(t)
         /\ Len(<<c>> \o t) = Len(t) + 1 /\ (<<c>> \o t)[1] = c
         /\ \A i \in 1..Len(t) : (<<c>> \o t)[i + 1] = t[i]
<1>1. PICK u : u = <<c>>
  OBVIOUS
<1>2. u \in Seq(S) /\ Len(u) = 1 /\ u[1] = c /\ u # <<>> /\ Range(u) = {c}
  BY <1>1 DEF Range
<1>3. PICK v : v = u \o t
  OBVIOUS
<1>4. Len(t) \in Nat
  BY LenProperties
<1>5. /\ v \in Seq(S) /\ Len(v) = 1 + Len(t) /\ Range(v) = {c} \cup Range(t)
      /\ \A i \in 1..(1 + Len(t)) : v[i] = IF i <= 1 THEN u[i] ELSE t[i - 1]
  <2>1. /\ v \in Seq(S) /\ Len(v) = Len(u) + Len(t)
        /\ \A i \in 1..(Len(u) + Len(t)) : v[i] = IF i <= Len(u) THEN u[i] ELSE t[i - Len(u)]
    BY <1>2, <1>3, ConcatProperties
  <2>2. Range(v) = Range(u) \cup Range(t)
    BY <1>2, <1>3, RangeConcatenation
  <2> QED
    BY <1>2, <2>1, <2>2
<1>6. v[1] = c /\ \A i \in 1..Len(t) : v[i + 1] = t[i]
  <2>1. v[1] = c
    BY <1>2, <1>4, <1>5
  <2>2. ASSUME NEW i \in 1..Len(t) PROVE v[i + 1] = t[i]
    <3>1. i \in Nat /\ i + 1 \in 1..(1 + Len(t)) /\ ~(i + 1 <= 1) /\ (i + 1) - 1 = i
      BY <1>4
    <3> QED
      BY <1>5, <3>1
  <2> QED
    BY <2>1, <2>2
<1>7. v # <<>> /\ Head(v) = c
  BY <1>4, <1>5, <1>6
<1>8. Tail(v) = t
  <2>1. Tail(v) \in Seq(S) /\ Len(Tail(v)) = Len(t) /\ \A i \in 1..Len(t) : Tail(v)[i] = v[i + 1]
    BY <1>4, <1>5, <1>7, HeadTailProperties
  <2>2. \A i \in 1..Len(t) : Tail(v)[i] = t[i]
    BY <1>6, <2>1
  <2> QED
    BY <2>1, <2>2, SeqEqual
<1>9. <<c>> \o t = v
  BY <1>1, <1>3
<1>10. <<c>> \in Seq(S)
  BY <1>1, <1>2
<1> DEFINE Is(x) == /\ x \in Seq(S) /\ x # <<>> /\ Head(x) = c /\ Tail(x) = t
                    /\ Range(x) = {c} \cup Range(t) /\ Len(x) = Len(t) + 1 /\ x[1] = c
                    /\ \A i \in 1..Len(t) : x[i + 1] = t[i]
<1>11. Is(v)
  BY <1>4, <1>5, <1>6, <1>7, <1>8
<1> HIDE DEF Is
<1>12. Is(<<c>> \o t)
  BY <1>9, <1>11
<1> USE DEF Is
<1> QED
  BY <1>10, <1>12

LEMMA Uncons ==
  ASSUME NEW S, NEW s \in Seq(S), s # <<>>
  PROVE  \E c \in S, t \in Seq(S) : s = <<c>> \o t
<1>1. PICK c, t : c = Head(s) /\ t = Tail(s)
  OBVIOUS
<1>2. c \in S /\ t \in Seq(S) /\ Len(t) = Len(s) - 1 /\ (\A i \in 1..Len(t) : t[i] = s[i + 1]) /\ c = s[1]
  BY <1>1, HeadTailProperties
<1>3. Len(s) \in Nat /\ Len(s) # 0
  BY EmptySeq
<1>4. PICK u : u = <<c>> \o t
  OBVIOUS
<1>5. u \in Seq(S) /\ Len(u) = Len(t) + 1 /\ u[1] = c /\ \A i \in 1..Len(t) : u[i + 1] = t[i]
  BY <1>2, <1>4, ConsIs
<1>6. ASSUME NEW i \in 1..Len(s) PROVE s[i] = u[i]
  <2>1. CASE i = 1
    BY <1>2, <1>5, <2>1
  <2>2. CASE i # 1
    <3>1. i \in Int /\ i - 1 \in 1..Len(t) /\ (i - 1) + 1 = i
      BY <1>2, <1>3, <2>2
    <3> QED
      BY <1>2, <1>5, <3>1
  <2> QED
    BY <2>1, <2>2
<1>7. Len(u) = Len(s)
  BY <1>2, <1>3, <1>5
<1>8. s = u
  BY <1>5, <1>6, <1>7, SeqEqual
<1> QED
  BY <1>2, <1>4, <1>8

LEMMA NoCalls == Range(<<>>) = {} /\ NodesOf(<<>>) = {}
BY DEF Range, NodesOf

LEMMA NodesOfConcat ==
  ASSUME NEW S, NEW s \in Seq(S), NEW t \in Seq(S)
  PROVE  NodesOf(s \o t) = NodesOf(s) \cup NodesOf(t)
BY RangeConcatenation DEF NodesOf

LEMMA NodesOfCons ==
  ASSUME NEW S, NEW c \in S, NEW t \in Seq(S)
  PROVE  NodesOf(<<c>> \o t) = {c.n} \cup NodesOf(t)
<1>1. Range(<<c>> \o t) = {c} \cup Range(t)
  BY ConsIs
<1> QED
  BY <1>1 DEF NodesOf

-----------------------------------------------------------------------------
(***************************************************************************)
(* Counting.                                                               *)
(***************************************************************************)

LEMMA OccFinite ==
  ASSUME NEW S, NEW s \in Seq(S), NEW C
  PROVE  IsFiniteSet({i \in DOMAIN s : s[i] \in C}) /\ Occ(s, C) \in Nat
<1>1. DOMAIN s = 1..Len(s) /\ Len(s) \in Nat
  BY LenProperties
<1>2. IsFiniteSet(1..Len(s))
  BY <1>1, FS_Interval
<1>3. IsFiniteSet({i \in DOMAIN s : s[i] \in C})
  BY <1>1, <1>2, FS_Subset
<1> QED
  BY <1>3, FS_CardinalityType DEF Occ

LEMMA OccPositive ==
  ASSUME NEW S, NEW s \in Seq(S), NEW C
  PROVE  Occ(s, C) > 0 <=> Range(s) \cap C # {}
<1>1. PICK I : I = {i \in DOMAIN s : s[i] \in C}
  OBVIOUS
<1>2. IsFiniteSet(I) /\ Occ(s, C) = Cardinality(I)
  BY <1>1, OccFinite DEF Occ
<1>3. Cardinality(I) \in Nat /\ (Cardinality(I) = 0 <=> I = {})
  BY <1>2, FS_EmptySet, FS_CardinalityType
<1>4. I = {} <=> Range(s) \cap C = {}
  BY <1>1 DEF Range
<1> QED
  BY <1>2, <1>3, <1>4

LEMMA OccSame ==
  ASSUME NEW s, NEW t, NEW C, NEW E, DOMAIN s = DOMAIN t, \A i \in DOMAIN s : s[i] \in C <=> t[i] \in E
  PROVE  Occ(s, C) = Occ(t, E)
<1>1. {i \in DOMAIN s : s[i] \in C} = {i \in DOMAIN t : t[i] \in E}
  OBVIOUS
<1> QED
  BY <1>1 DEF Occ

LEMMA OccEmpty == \A C : Occ(<<>>, C) = 0
<1>1. \A C : {i \in DOMAIN <<>> : <<>>[i] \in C} = {}
  OBVIOUS
<1> QED
  BY <1>1, FS_EmptySet DEF Occ

\* the indices of t, as those of the end of s \o t
LEMMA ShiftCardinality ==
  ASSUME NEW J \in SUBSET Nat, IsFiniteSet(J), NEW m \in Nat
  PROVE  LET K == {i \in Nat : i >= m /\ i - m \in J} IN IsFiniteSet(K) /\ Cardinality(K) = Cardinality(J)
<1>1. PICK K : K = {i \in Nat : i >= m /\ i - m \in J}
  OBVIOUS
<1>2. PICK f : f = [j \in J |-> j + m]
  OBVIOUS
<1>3. \A j \in J : j \in Nat /\ f[j] = j + m /\ f[j] \in K
  <2>1. ASSUME NEW j \in J PROVE j \in Nat /\ f[j] = j + m /\ f[j] \in K
    <3>1. j \in Nat /\ j + m \in Nat /\ j + m >= m /\ (j + m) - m = j
      OBVIOUS
    <3> QED
      BY <1>1, <1>2, <3>1
  <2> QED
    BY <2>1
<1>4. f \in [J -> K]
  BY <1>2, <1>3
<1>5. ASSUME NEW i \in J, NEW j \in J, f[i] = f[j] PROVE i = j
  BY <1>3, <1>5
<1>6. ASSUME NEW k \in K PROVE \E j \in J : f[j] = k
  <2>1. k \in Nat /\ k >= m /\ k - m \in J /\ (k - m) + m = k
    BY <1>1
  <2>2. f[k - m] = k
    BY <1>3, <2>1
  <2> QED
    BY <2>1, <2>2
<1>7. f \in Bijection(J, K)
  BY <1>4, <1>5, <1>6 DEF Bijection, Injection, Surjection, IsInjective
<1>8. ExistsBijection(J, K)
  BY <1>7 DEF ExistsBijection
<1> QED
  BY <1>1, <1>8, FS_Bijection

LEMMA OccConcat ==
  ASSUME NEW S, NEW s \in Seq(S), NEW t \in Seq(S), NEW C
  PROVE  Occ(s \o t, C) = Occ(s, C) + Occ(t, C)
<1>1. PICK u : u = s \o t
  OBVIOUS
<1>2. PICK m, n : m = Len(s) /\ n = Len(t)
  OBVIOUS
<1>3. /\ m \in Nat /\ n \in Nat /\ DOMAIN s = 1..m /\ DOMAIN t = 1..n
      /\ u \in Seq(S) /\ Len(u) = m + n /\ DOMAIN u = 1..(m + n)
      /\ \A i \in 1..(m + n) : u[i] = IF i <= m THEN s[i] ELSE t[i - m]
  BY <1>1, <1>2, ConcatProperties, LenProperties
<1>4. PICK I, J, K : /\ I = {i \in DOMAIN s : s[i] \in C} /\ J = {i \in DOMAIN t : t[i] \in C}
                     /\ K = {i \in Nat : i >= m /\ i - m \in J}
  OBVIOUS
<1>5. IsFiniteSet(I) /\ IsFiniteSet(J) /\ Occ(s, C) = Cardinality(I) /\ Occ(t, C) = Cardinality(J)
  BY <1>4, OccFinite DEF Occ
<1>6. IsFiniteSet(K) /\ Cardinality(K) = Cardinality(J)
  <2>1. J \in SUBSET Nat
    BY <1>3, <1>4
  <2> QED
    BY <1>3, <1>4, <1>5, <2>1, ShiftCardinality
<1>7. ASSUME NEW i \in 1..(m + n) PROVE u[i] \in C <=> i \in I \cup K
  <2>1. i \in Nat
    BY <1>3
  <2>2. CASE i <= m
    <3>1. i \in 1..m /\ ~(i - m \in 1..n) /\ u[i] = s[i]
      BY <1>3, <2>1, <2>2
    <3> QED
      BY <1>3, <1>4, <3>1
  <2>3. CASE ~(i <= m)
    <3>1. i \notin 1..m /\ i - m \in 1..n /\ i >= m /\ u[i] = t[i - m]
      BY <1>3, <2>1, <2>3
    <3> QED
      BY <1>3, <1>4, <2>1, <3>1
  <2> QED
    BY <2>2, <2>3
<1>8. I \cup K \subseteq 1..(m + n)
  <2>1. I \subseteq 1..(m + n)
    BY <1>3, <1>4
  <2>2. ASSUME NEW i \in K PROVE i \in 1..(m + n)
    BY <1>3, <1>4
  <2> QED
    BY <2>1, <2>2
<1>9. {i \in DOMAIN u : u[i] \in C} = I \cup K
  BY <1>3, <1>7, <1>8
<1>10. I \cap K = {}
  <2>1. ASSUME NEW i \in I, i \in K PROVE FALSE
    BY <1>3, <1>4, <2>1
  <2> QED
    BY <2>1
<1>11. Cardinality(I \cup K) = Cardinality(I) + Cardinality(K) - 0
  BY <1>5, <1>6, <1>10, FS_Union, FS_EmptySet
<1>12. Cardinality(I) \in Nat /\ Cardinality(K) \in Nat
  BY <1>5, <1>6, FS_CardinalityType
<1>13. Occ(u, C) = Cardinality(I \cup K)
  BY <1>9 DEF Occ
<1> QED
  BY <1>1, <1>5, <1>6, <1>11, <1>12, <1>13

LEMMA OneIs == \A b \in BOOLEAN : One(b) \in Nat /\ (b => One(b) = 1) /\ (~b => One(b) = 0)
BY DEF One

LEMMA OccCons ==
  ASSUME NEW S, NEW c \in S, NEW t \in Seq(S), NEW C
  PROVE  Occ(<<c>> \o t, C) = One(c \in C) + Occ(t, C)
<1>1. PICK u : u = <<c>>
  OBVIOUS
<1>2. u \in Seq(S) /\ DOMAIN u = {1} /\ u[1] = c
  BY <1>1
<1>3. Occ(u \o t, C) = Occ(u, C) + Occ(t, C)
  BY <1>2, OccConcat
<1>4. Occ(u, C) = One(c \in C)
  <2>1. CASE c \in C
    <3>1. {i \in DOMAIN u : u[i] \in C} = {1}
      BY <1>2, <2>1
    <3> QED
      BY <2>1, <3>1, FS_Singleton DEF Occ, One
  <2>2. CASE c \notin C
    <3>1. {i \in DOMAIN u : u[i] \in C} = {}
      BY <1>2, <2>2
    <3> QED
      BY <2>2, <3>1, FS_EmptySet DEF Occ, One
  <2> QED
    BY <2>1, <2>2
<1> QED
  BY <1>1, <1>3, <1>4


LEMMA TimesIs ==
  ASSUME NEW S, NEW s \in Seq(S), NEW x
  PROVE  /\ Times(s, x) \in Nat /\ (Times(s, x) > 0 <=> x \in Range(s))
         /\ Times(s, x) = Occ(s, {x})
<1>1. Times(s, x) = Occ(s, {x})
  <2>1. {i \in DOMAIN s : s[i] = x} = {i \in DOMAIN s : s[i] \in {x}}
    OBVIOUS
  <2> QED
    BY <2>1 DEF Times, Occ
<1>2. Occ(s, {x}) \in Nat /\ (Occ(s, {x}) > 0 <=> Range(s) \cap {x} # {})
  BY OccFinite, OccPositive
<1> QED
  BY <1>1, <1>2

LEMMA TimesEmpty == \A x : Times(<<>>, x) = 0
<1>1. \A x : {i \in DOMAIN <<>> : <<>>[i] = x} = {}
  OBVIOUS
<1> QED
  BY <1>1, FS_EmptySet DEF Times

LEMMA TimesAppend ==
  ASSUME NEW S, NEW s \in Seq(S), NEW c \in S, NEW x
  PROVE  /\ Times(Append(s, c), x) = Times(s, x) + One(c = x)
         /\ Append(s, c) \in Seq(S) /\ Len(Append(s, c)) = Len(s) + 1
         /\ Range(Append(s, c)) = Range(s) \cup {c}
<1>1. PICK u : u = <<c>>
  OBVIOUS
<1>2. u \in Seq(S) /\ DOMAIN u = {1} /\ u[1] = c /\ Range(u) = {c}
  BY <1>1 DEF Range
<1>3. PICK v : v = Append(s, c)
  OBVIOUS
<1>4. v = s \o u /\ v \in Seq(S) /\ Len(v) = Len(s) + 1
  BY <1>1, <1>3, AppendIsConcat, AppendProperties
<1>5. Occ(v, {x}) = Occ(s, {x}) + Occ(u, {x}) /\ Range(v) = Range(s) \cup Range(u)
  BY <1>2, <1>4, OccConcat, RangeConcatenation
<1>6. Times(v, x) = Occ(v, {x}) /\ Times(s, x) = Occ(s, {x})
  BY <1>4, TimesIs
<1>7. Occ(u, {x}) = One(c = x)
  <2>1. CASE c = x
    <3>1. {i \in DOMAIN u : u[i] \in {x}} = {1}
      BY <1>2, <2>1
    <3> QED
      BY <2>1, <3>1, FS_Singleton DEF Occ, One
  <2>2. CASE c # x
    <3>1. {i \in DOMAIN u : u[i] \in {x}} = {}
      BY <1>2, <2>2
    <3> QED
      BY <2>2, <3>1, FS_EmptySet DEF Occ, One
  <2> QED
    BY <2>1, <2>2
<1> QED
  BY <1>2, <1>3, <1>4, <1>5, <1>6, <1>7

\* the call of a function for each child
LEMMA MapNodes ==
  ASSUME NEW s, NEW u, DOMAIN u = DOMAIN s, \A i \in DOMAIN s : u[i].n = s[i]
  PROVE  NodesOf(u) = Range(s)
<1>1. \A i \in DOMAIN s : s[i] \in Range(s) /\ u[i] \in Range(u)
  BY DEF Range
<1>2. \A c \in Range(u) : c.n \in Range(s)
  BY DEF Range
<1>3. \A x \in Range(s) : \E c \in Range(u) : c.n = x
  BY DEF Range
<1> QED
  BY <1>2, <1>3 DEF NodesOf

LEMMA FreesIs ==
  ASSUME NEW s \in Seq(Nodes)
  PROVE  /\ Frees(s) \in Seq(PlainCalls) /\ NodesOf(Frees(s)) = Range(s)
         /\ Range(Frees(s)) = {FreeCall(x) : x \in Range(s)}
         /\ \A x \in Nodes : Occ(Frees(s), RefCalls(x)) = Times(s, x)
<1>1. PICK u : u = Frees(s)
  OBVIOUS
<1>2. DOMAIN s = 1..Len(s) /\ Len(s) \in Nat /\ \A i \in 1..Len(s) : s[i] \in Nodes
  BY LenProperties, ElementOfSeq
<1>3. u = [i \in 1..Len(s) |-> FreeCall(s[i])]
  BY <1>1, <1>2 DEF Frees
<1>4. \A i \in 1..Len(s) : u[i] \in PlainCalls
  BY <1>2, <1>3 DEF FreeCall, Call, PlainCalls
<1>5. u \in Seq(PlainCalls)
  BY <1>2, <1>3, <1>4
<1>6. Range(u) = {FreeCall(x) : x \in Range(s)}
  BY <1>2, <1>3 DEF Range
<1>7. NodesOf(u) = Range(s)
  <2>1. DOMAIN u = DOMAIN s /\ \A i \in DOMAIN s : u[i].n = s[i]
    BY <1>2, <1>3 DEF FreeCall, Call
  <2> QED
    BY <2>1, MapNodes
<1>8. ASSUME NEW x \in Nodes PROVE Occ(u, RefCalls(x)) = Times(s, x)
  <2>1. DOMAIN u = DOMAIN s
    BY <1>2, <1>3
  <2>2. \A i \in DOMAIN u : u[i] \in RefCalls(x) <=> s[i] \in {x}
    BY <1>2, <1>3 DEF RefCalls, FreeCall, Call
  <2>3. Occ(u, RefCalls(x)) = Occ(s, {x})
    BY <2>1, <2>2, OccSame
  <2> QED
    BY <2>3, TimesIs
<1> QED
  BY <1>1, <1>5, <1>6, <1>7, <1>8

CountsOf(s, k) == [i \in DOMAIN s |-> CountCall(s[i], k)]
MarksOf(s, m) == [i \in DOMAIN s |-> MarkCall(s[i], m)]
ResetsOf(s) == [i \in DOMAIN s |-> Call("reset", s[i])]

AreCounts(u, s, k) ==
  /\ u \in Seq(CountCalls) /\ NodesOf(u) = Range(s)
  /\ \A x \in Nodes : Occ(u, {CountCall(x, k)}) = Times(s, x)
  /\ \A x \in Nodes, j \in {1, 2} \ {k} : Occ(u, {CountCall(x, j)}) = 0

LEMMA CountsIs ==
  ASSUME NEW s \in Seq(Nodes), NEW k \in {1, 2}
  PROVE  AreCounts(CountsOf(s, k), s, k)
<1>1. PICK u : u = CountsOf(s, k)
  OBVIOUS
<1>2. DOMAIN s = 1..Len(s) /\ Len(s) \in Nat /\ \A i \in 1..Len(s) : s[i] \in Nodes
  BY LenProperties, ElementOfSeq
<1>3. u = [i \in 1..Len(s) |-> CountCall(s[i], k)]
  BY <1>1, <1>2 DEF CountsOf
<1>4. \A i \in 1..Len(s) : u[i] \in CountCalls
  BY <1>2, <1>3 DEF CountCall, CountCalls
<1>5. u \in Seq(CountCalls)
  BY <1>2, <1>3, <1>4
<1>6. Range(u) = {CountCall(x, k) : x \in Range(s)}
  BY <1>2, <1>3 DEF Range
<1>7. NodesOf(u) = Range(s)
  <2>1. DOMAIN u = DOMAIN s /\ \A i \in DOMAIN s : u[i].n = s[i]
    BY <1>2, <1>3 DEF CountCall
  <2> QED
    BY <2>1, MapNodes
<1>8. ASSUME NEW x \in Nodes PROVE Occ(u, {CountCall(x, k)}) = Times(s, x)
  <2>1. DOMAIN u = DOMAIN s
    BY <1>2, <1>3
  <2>2. \A i \in DOMAIN u : u[i] \in {CountCall(x, k)} <=> s[i] \in {x}
    BY <1>2, <1>3 DEF CountCall
  <2>3. Occ(u, {CountCall(x, k)}) = Occ(s, {x})
    BY <2>1, <2>2, OccSame
  <2> QED
    BY <2>3, TimesIs
<1>9. ASSUME NEW x \in Nodes, NEW j \in {1, 2} \ {k} PROVE Occ(u, {CountCall(x, j)}) = 0
  <2>1. Range(u) \cap {CountCall(x, j)} = {}
    BY <1>6 DEF CountCall
  <2>2. Occ(u, {CountCall(x, j)}) \in Nat /\ ~(Occ(u, {CountCall(x, j)}) > 0)
    BY <1>5, <2>1, OccFinite, OccPositive
  <2> QED
    BY <2>2
<1> QED
  BY <1>1, <1>5, <1>7, <1>8, <1>9 DEF AreCounts

LEMMA MarksIs ==
  ASSUME NEW s \in Seq(Nodes), NEW u, u = MarksOf(s, "NOT_FREEABLE")
  PROVE  u \in Seq(MarkCalls) /\ NodesOf(u) = Range(s) /\ \A c \in Range(u) : c.mark = "NOT_FREEABLE"
<1>2. DOMAIN s = 1..Len(s) /\ Len(s) \in Nat /\ \A i \in 1..Len(s) : s[i] \in Nodes
  BY LenProperties, ElementOfSeq
<1>3. u = [i \in 1..Len(s) |-> MarkCall(s[i], "NOT_FREEABLE")]
  BY <1>2 DEF MarksOf
<1>4. \A i \in 1..Len(s) : u[i] \in MarkCalls
  BY <1>2, <1>3 DEF MarkCall, MarkCalls
<1>5. u \in Seq(MarkCalls)
  BY <1>2, <1>3, <1>4
<1>6. Range(u) = {MarkCall(x, "NOT_FREEABLE") : x \in Range(s)}
  BY <1>2, <1>3 DEF Range
<1>7. NodesOf(u) = Range(s)
  <2>1. DOMAIN u = DOMAIN s /\ \A i \in DOMAIN s : u[i].n = s[i]
    BY <1>2, <1>3 DEF MarkCall
  <2> QED
    BY <2>1, MapNodes
<1> QED
  BY <1>5, <1>6, <1>7 DEF MarkCall

LEMMA ResetsIs ==
  ASSUME NEW s \in Seq(Nodes), NEW u, u = ResetsOf(s)
  PROVE  u \in Seq(ResetCalls) /\ NodesOf(u) = Range(s)
<1>2. DOMAIN s = 1..Len(s) /\ Len(s) \in Nat /\ \A i \in 1..Len(s) : s[i] \in Nodes
  BY LenProperties, ElementOfSeq
<1>3. u = [i \in 1..Len(s) |-> Call("reset", s[i])]
  BY <1>2 DEF ResetsOf
<1>4. \A i \in 1..Len(s) : u[i] \in ResetCalls
  BY <1>2, <1>3 DEF Call, ResetCalls
<1>5. u \in Seq(ResetCalls)
  BY <1>2, <1>3, <1>4
<1>6. Range(u) = {Call("reset", x) : x \in Range(s)}
  BY <1>2, <1>3 DEF Range
<1>7. NodesOf(u) = Range(s)
  <2>1. DOMAIN u = DOMAIN s /\ \A i \in DOMAIN s : u[i].n = s[i]
    BY <1>2, <1>3 DEF Call
  <2> QED
    BY <2>1, MapNodes
<1> QED
  BY <1>5, <1>7

LEMMA ChildRefsFinite ==
  ASSUME NEW field, NEW T \in SUBSET Nodes, NEW x
  PROVE  IsFiniteSet(ChildRefs(field, T, x)) /\ InField(field, T, x) \in Nat
<1>1. IsFiniteSet(Nodes) /\ MaxKids \in Nat
  BY BoundsAssumption
<1>2. IsFiniteSet(T)
  BY <1>1, FS_Subset
<1>3. IsFiniteSet(1..MaxKids)
  BY <1>1, FS_Interval
<1>4. IsFiniteSet(T \X (1..MaxKids))
  BY <1>2, <1>3, FS_Product
<1>5. ChildRefs(field, T, x) \in SUBSET (T \X (1..MaxKids))
  BY DEF ChildRefs
<1>6. IsFiniteSet(ChildRefs(field, T, x))
  BY <1>4, <1>5, FS_Subset
<1> QED
  BY <1>6, FS_CardinalityType DEF InField

LEMMA InFieldSame ==
  ASSUME NEW f, NEW g, NEW T, \A p \in T : f[p] = g[p], NEW x
  PROVE  InField(f, T, x) = InField(g, T, x)
<1>1. \A q \in T \X (1..MaxKids) : q[1] \in T
  OBVIOUS
<1>2. ChildRefs(f, T, x) = ChildRefs(g, T, x)
  BY <1>1 DEF ChildRefs
<1> QED
  BY <1>2 DEF InField

LEMMA InFieldMono ==
  ASSUME NEW field, NEW U \in SUBSET Nodes, NEW T \in SUBSET U, NEW x
  PROVE  InField(field, T, x) <= InField(field, U, x)
<1>1. ChildRefs(field, T, x) \in SUBSET ChildRefs(field, U, x)
  BY DEF ChildRefs
<1> QED
  BY <1>1, ChildRefsFinite, FS_Subset DEF InField

LEMMA InFieldPositive ==
  ASSUME NEW field, IsField(field), NEW T \in SUBSET Nodes, NEW x
  PROVE  InField(field, T, x) > 0 <=> \E p \in T : x \in Range(field[p])
<1>1. IsFiniteSet(ChildRefs(field, T, x)) /\ InField(field, T, x) \in Nat
  BY ChildRefsFinite
<1>2. InField(field, T, x) = 0 <=> ChildRefs(field, T, x) = {}
  BY <1>1, FS_EmptySet DEF InField
<1>3. ASSUME ChildRefs(field, T, x) # {} PROVE \E p \in T : x \in Range(field[p])
  <2>1. PICK q \in ChildRefs(field, T, x) : TRUE
    BY <1>3
  <2>2. q[1] \in T /\ q[2] \in DOMAIN field[q[1]] /\ field[q[1]][q[2]] = x
    BY <2>1 DEF ChildRefs
  <2> QED
    BY <2>2 DEF Range
<1>4. ASSUME NEW p \in T, x \in Range(field[p]) PROVE ChildRefs(field, T, x) # {}
  <2>1. PICK s : s = field[p]
    OBVIOUS
  <2>2. s \in Seq(Nodes) /\ Len(s) <= MaxKids
    BY <2>1 DEF IsField
  <2>3. DOMAIN s = 1..Len(s) /\ Len(s) \in Nat /\ MaxKids \in Nat
    BY <2>2, LenProperties, BoundsAssumption
  <2>4. PICK i \in DOMAIN s : s[i] = x
    BY <1>4, <2>1 DEF Range
  <2>5. i \in 1..MaxKids
    BY <2>2, <2>3, <2>4
  <2>6. PICK q : q = <<p, i>>
    OBVIOUS
  <2>7. q \in T \X (1..MaxKids) /\ q[1] = p /\ q[2] = i
    BY <2>5, <2>6
  <2>8. q \in ChildRefs(field, T, x)
    BY <2>1, <2>4, <2>7 DEF ChildRefs
  <2> QED
    BY <2>8
<1> QED
  BY <1>1, <1>2, <1>3, <1>4

LEMMA InFieldOne ==
  ASSUME NEW field, IsField(field), NEW n \in Nodes, NEW x
  PROVE  InField(field, {n}, x) = Times(field[n], x)
<1>1. PICK s : s = field[n]
  OBVIOUS
<1>2. s \in Seq(Nodes) /\ Len(s) <= MaxKids
  BY <1>1 DEF IsField
<1>3. DOMAIN s = 1..Len(s) /\ Len(s) \in Nat /\ MaxKids \in Nat
  BY <1>2, LenProperties, BoundsAssumption
<1>4. PICK J, K : J = {i \in DOMAIN s : s[i] = x} /\ K = ChildRefs(field, {n}, x)
  OBVIOUS
<1>5. K = {q \in {n} \X (1..MaxKids) : q[2] \in DOMAIN s /\ s[q[2]] = x}
  <2>1. \A q \in {n} \X (1..MaxKids) : q[1] = n
    OBVIOUS
  <2> QED
    BY <1>1, <1>4, <2>1 DEF ChildRefs
<1>6. PICK f : f = [j \in J |-> <<n, j>>]
  OBVIOUS
<1>7. ASSUME NEW j \in J PROVE f[j] = <<n, j>> /\ f[j] \in K
  <2>1. j \in DOMAIN s /\ s[j] = x /\ j \in 1..MaxKids
    BY <1>2, <1>3, <1>4
  <2>2. PICK q : q = <<n, j>>
    OBVIOUS
  <2>3. q \in {n} \X (1..MaxKids) /\ q[2] = j
    BY <2>1, <2>2
  <2>4. q \in K
    BY <1>5, <2>1, <2>3
  <2> QED
    BY <1>6, <2>2, <2>4
<1>8. f \in [J -> K]
  BY <1>6, <1>7
<1>9. ASSUME NEW i \in J, NEW j \in J, f[i] = f[j] PROVE i = j
  BY <1>7, <1>9
<1>10. ASSUME NEW k \in K PROVE \E j \in J : f[j] = k
  <2>1. k \in {n} \X (1..MaxKids) /\ k[2] \in DOMAIN s /\ s[k[2]] = x
    BY <1>5
  <2>2. k = <<n, k[2]>> /\ k[2] \in J
    BY <1>4, <2>1
  <2>3. f[k[2]] = k
    BY <1>7, <2>2
  <2> QED
    BY <2>2, <2>3
<1>11. f \in Bijection(J, K)
  BY <1>8, <1>9, <1>10 DEF Bijection, Injection, Surjection, IsInjective
<1>12. ExistsBijection(J, K)
  BY <1>11 DEF ExistsBijection
<1>13. IsFiniteSet(J)
  <2>1. IsFiniteSet(1..Len(s))
    BY <1>3, FS_Interval
  <2>2. J \in SUBSET (1..Len(s))
    BY <1>3, <1>4
  <2> QED
    BY <2>1, <2>2, FS_Subset
<1>14. Cardinality(K) = Cardinality(J)
  BY <1>12, <1>13, FS_Bijection
<1> QED
  BY <1>1, <1>4, <1>14 DEF InField, Times

LEMMA InFieldAdd ==
  ASSUME NEW field, IsField(field), NEW T \in SUBSET Nodes, NEW n \in Nodes \ T, NEW x
  PROVE  InField(field, T \cup {n}, x) = InField(field, T, x) + Times(field[n], x)
<1>1. PICK A, B : A = ChildRefs(field, T, x) /\ B = ChildRefs(field, {n}, x)
  OBVIOUS
<1>2. ChildRefs(field, T \cup {n}, x) = A \cup B
  BY <1>1 DEF ChildRefs
<1>3. A \cap B = {}
  <2>1. \A q \in A : q[1] \in T
    BY <1>1 DEF ChildRefs
  <2>2. \A q \in B : q[1] = n
    BY <1>1 DEF ChildRefs
  <2> QED
    BY <2>1, <2>2
<1>4. {n} \in SUBSET Nodes
  OBVIOUS
<1>5. IsFiniteSet(A) /\ IsFiniteSet(B) /\ Cardinality(A) \in Nat /\ Cardinality(B) \in Nat
  BY <1>1, <1>4, ChildRefsFinite DEF InField
<1>6. Cardinality(A \cup B) = Cardinality(A) + Cardinality(B) - 0
  BY <1>3, <1>5, FS_Union, FS_EmptySet
<1>7. Cardinality(B) = Times(field[n], x)
  BY <1>1, InFieldOne DEF InField
<1>8. InField(field, T \cup {n}, x) = Cardinality(A \cup B) /\ InField(field, T, x) = Cardinality(A)
  BY <1>1, <1>2 DEF InField
<1> QED
  BY <1>5, <1>6, <1>7, <1>8

LEMMA InFieldWithout ==
  ASSUME NEW field, IsField(field), NEW n \in Nodes, NEW x
  PROVE  InField(field, Nodes, x) = InField(field, Nodes \ {n}, x) + Times(field[n], x)
<1>1. PICK U : U = Nodes \ {n}
  OBVIOUS
<1>2. U \in SUBSET Nodes /\ n \in Nodes \ U
  BY <1>1
<1>3. InField(field, U \cup {n}, x) = InField(field, U, x) + Times(field[n], x)
  BY <1>2, InFieldAdd
<1>4. U \cup {n} = Nodes
  BY <1>1
<1> QED
  BY <1>1, <1>3, <1>4

\* a field of which the list of one node was changed
LEMMA InFieldChange ==
  ASSUME NEW f, IsField(f), NEW g, IsField(g), NEW T \in SUBSET Nodes, NEW n \in T,
         \A p \in T \ {n} : f[p] = g[p], NEW x
  PROVE  InField(f, T, x) + Times(g[n], x) = InField(g, T, x) + Times(f[n], x)
<1>1. PICK U : U = T \ {n}
  OBVIOUS
<1>2. U \in SUBSET Nodes /\ n \in Nodes \ U /\ T = U \cup {n}
  BY <1>1
<1>3. InField(f, T, x) = InField(f, U, x) + Times(f[n], x)
  BY <1>2, InFieldAdd
<1>4. InField(g, T, x) = InField(g, U, x) + Times(g[n], x)
  BY <1>2, InFieldAdd
<1>5. InField(f, U, x) = InField(g, U, x)
  BY <1>1, InFieldSame
<1>6. InField(f, U, x) \in Nat
  BY <1>2, ChildRefsFinite
<1>7. Times(f[n], x) \in Nat /\ Times(g[n], x) \in Nat
  BY <1>2, TimesIs DEF IsField
<1> QED
  BY <1>3, <1>4, <1>5, <1>6, <1>7

-----------------------------------------------------------------------------
(***************************************************************************)
(* The graph: Reach(S) is the least set above S that the tables do not     *)
(* leave.                                                                  *)
(***************************************************************************)

LEMMA KidsIs ==
  ASSUME NEW S
  PROVE  /\ \A x : x \in Kids(S) <=> \E p \in S : x \in Range(tab[p])
         /\ S \subseteq Nodes /\ IsField(tab) => Kids(S) \subseteq Nodes
<1>1. \A x : x \in Kids(S) <=> \E p \in S : x \in Range(tab[p])
  BY DEF Kids
<1>2. ASSUME S \subseteq Nodes, IsField(tab), NEW p \in S PROVE Range(tab[p]) \subseteq Nodes
  <2>1. tab[p] \in Seq(Nodes)
    BY <1>2 DEF IsField
  <2> QED
    BY <2>1, RangeOfSeq
<1> QED
  BY <1>1, <1>2

LEMMA KidsOf ==
  /\ \A n : Kids({n}) = Range(tab[n])
  /\ \A S, T : Kids(S \cup T) = Kids(S) \cup Kids(T)
  /\ \A S, T : S \subseteq T => Kids(S) \subseteq Kids(T)
  /\ Kids({}) = {}
<1>1. \A n : Kids({n}) = Range(tab[n])
  BY KidsIs
<1>2. \A S, T : Kids(S \cup T) = Kids(S) \cup Kids(T)
  BY KidsIs
<1>3. \A S, T : S \subseteq T => Kids(S) \subseteq Kids(T)
  BY KidsIs
<1>4. Kids({}) = {}
  BY KidsIs
<1> QED
  BY <1>1, <1>2, <1>3, <1>4

\* the sets found after each number of steps
Steps(f, S) ==
  /\ f[0] = S
  /\ \A k \in 1..Cardinality(Nodes) : f[k] = f[k - 1] \cup Kids(f[k - 1])

LEMMA StepsExist ==
  ASSUME NEW S \in SUBSET Nodes, IsField(tab)
  PROVE  \E f : Steps(f, S) /\ Reach(S) = f[Cardinality(Nodes)]
<1> DEFINE n == Cardinality(Nodes)
           f[k \in 0..n] == IF k = 0 THEN S ELSE f[k - 1] \cup Kids(f[k - 1])
           D == SUBSET Nodes
<1>0. n \in Nat
  BY BoundsAssumption, FS_CardinalityType
<1>1. S \in D
  OBVIOUS
<1>2. \A x \in D : x \cup Kids(x) \in D
  BY KidsIs
<1> HIDE DEF D
<1>3. PICK H : H = [k \in 1..n |-> [x \in D |-> x \cup Kids(x)]]
  OBVIOUS
<1>4. H \in [1..n -> [D -> D]]
  <2> HIDE DEF n
  <2> QED
    BY <1>2, <1>3
<1>5. PICK g : Recursive(g, n, D, S, H)
  <2> HIDE DEF n
  <2> QED
    BY <1>0, <1>1, <1>4, Recursion
<1>6. g = [k \in 0..n |-> IF k = 0 THEN S ELSE g[k - 1] \cup Kids(g[k - 1])]
  <2> HIDE DEF n
  <2>1. ASSUME NEW k \in 1..n PROVE g[k] = g[k - 1] \cup Kids(g[k - 1])
    <3>1. k - 1 \in 0..n
      BY <1>0
    <3>2. g[k - 1] \in D
      BY <1>5, <3>1 DEF Recursive
    <3> QED
      BY <1>3, <1>5, <3>2 DEF Recursive
  <2> QED
    BY <1>0, <1>5, <2>1 DEF Recursive
<1>7. f = [k \in 0..n |-> IF k = 0 THEN S ELSE f[k - 1] \cup Kids(f[k - 1])]
  BY <1>6 DEF f
<1>8. Reach(S) = f[n]
  BY DEF Reach
<1> HIDE DEF f
<1>9. Steps(f, S)
  <2>1. f[0] = S
    <3>1. 0 \in 0..n
      BY <1>0
    <3> HIDE DEF n
    <3> QED
      BY <1>7, <3>1
  <2>2. \A k \in 1..n : f[k] = f[k - 1] \cup Kids(f[k - 1])
    <3>1. \A k \in 1..n : k \in 0..n /\ k # 0
      BY <1>0
    <3> HIDE DEF n
    <3> QED
      BY <1>7, <3>1
  <2> QED
    BY <2>1, <2>2 DEF Steps
<1> QED
  BY <1>8, <1>9

LEMMA ReachIs ==
  ASSUME NEW S \in SUBSET Nodes, IsField(tab)
  PROVE  /\ Reach(S) \in SUBSET Nodes /\ S \subseteq Reach(S) /\ Kids(Reach(S)) \subseteq Reach(S)
         /\ \A T : S \subseteq T /\ Kids(T) \subseteq T => Reach(S) \subseteq T
<1>1. PICK f : Steps(f, S) /\ Reach(S) = f[Cardinality(Nodes)]
  BY StepsExist
<1>2. PICK n : n = Cardinality(Nodes)
  OBVIOUS
<1>3. n \in Nat /\ IsFiniteSet(Nodes)
  BY <1>2, BoundsAssumption, FS_CardinalityType
<1>4. f[0] = S /\ \A k \in 0..(n - 1) : f[k + 1] = f[k] \cup Kids(f[k])
  <2>1. ASSUME NEW k \in 0..(n - 1) PROVE f[k + 1] = f[k] \cup Kids(f[k])
    <3>1. k + 1 \in 1..n /\ (k + 1) - 1 = k
      BY <1>3
    <3> QED
      BY <1>1, <1>2, <3>1 DEF Steps
  <2> QED
    BY <1>1, <2>1 DEF Steps
<1>5. ASSUME NEW T, S \subseteq T, Kids(T) \subseteq T PROVE f[n] \subseteq T
  <2>1. PICK G : G = {k \in 0..n : f[k] \subseteq T}
    OBVIOUS
  <2>2. 0 \in G
    BY <1>3, <1>4, <1>5, <2>1
  <2>3. ASSUME NEW k \in 0..(n - 1), k \in G PROVE k + 1 \in G
    <3>1. f[k] \subseteq T /\ f[k + 1] = f[k] \cup Kids(f[k]) /\ k + 1 \in 0..n
      BY <1>3, <1>4, <2>1, <2>3
    <3>2. Kids(f[k]) \subseteq Kids(T)
      BY <3>1, KidsOf
    <3> QED
      BY <1>5, <2>1, <3>1, <3>2
  <2>4. 0..n \subseteq G
    BY <1>3, <2>2, <2>3, Induction
  <2>5. n \in 0..n
    BY <1>3
  <2> QED
    BY <2>1, <2>4, <2>5
<1>6. PICK G : G = {k \in 0..n : /\ f[k] \in SUBSET Nodes /\ S \subseteq f[k]
                                 /\ Kids(f[k]) \subseteq f[k] \/ Cardinality(f[k]) >= k}
  OBVIOUS
<1>7. 0 \in G
  <2>1. Cardinality(S) \in Nat
    BY <1>3, FS_Subset, FS_CardinalityType
  <2> QED
    BY <1>3, <1>4, <1>6, <2>1
<1>8. ASSUME NEW k \in 0..(n - 1), k \in G PROVE k + 1 \in G
  <2>1. PICK A : A = f[k]
    OBVIOUS
  <2>2. PICK B : B = f[k + 1]
    OBVIOUS
  <2>3. /\ A \in SUBSET Nodes /\ S \subseteq A /\ (Kids(A) \subseteq A \/ Cardinality(A) >= k)
        /\ B = A \cup Kids(A) /\ k \in Nat /\ k + 1 \in 0..n
    BY <1>3, <1>4, <1>6, <1>8, <2>1, <2>2
  <2>4. B \in SUBSET Nodes
    BY <2>3, KidsIs
  <2>5. Kids(B) \subseteq B \/ Cardinality(B) >= k + 1
    <3>1. CASE Kids(A) \subseteq A
      <4>1. B = A
        BY <2>3, <3>1
      <4> QED
        BY <3>1, <4>1
    <3>2. CASE ~(Kids(A) \subseteq A)
      <4>1. A \in SUBSET B /\ A # B /\ IsFiniteSet(B)
        BY <1>3, <2>3, <2>4, <3>2, FS_Subset
      <4>2. Cardinality(A) <= Cardinality(B) /\ Cardinality(A) # Cardinality(B) /\ IsFiniteSet(A)
        BY <4>1, FS_Subset
      <4>3. Cardinality(A) \in Nat /\ Cardinality(B) \in Nat
        BY <4>1, <4>2, FS_CardinalityType
      <4> QED
        BY <2>3, <3>2, <4>2, <4>3
    <3> QED
      BY <3>1, <3>2
  <2> QED
    BY <1>6, <2>2, <2>3, <2>4, <2>5
<1>9. n \in G
  <2>1. 0..n \subseteq G
    BY <1>3, <1>7, <1>8, Induction
  <2>2. n \in 0..n
    BY <1>3
  <2> QED
    BY <2>1, <2>2
<1>10. PICK R : R = f[n]
  OBVIOUS
<1>11. R \in SUBSET Nodes /\ S \subseteq R /\ (Kids(R) \subseteq R \/ Cardinality(R) >= n)
  BY <1>6, <1>9, <1>10
<1>12. Kids(R) \subseteq R
  <2>1. CASE Cardinality(R) >= n
    <3>1. Cardinality(R) <= Cardinality(Nodes) /\ (Cardinality(Nodes) = Cardinality(R) => Nodes = R) /\ IsFiniteSet(R)
      BY <1>3, <1>11, FS_Subset
    <3>2. Cardinality(R) \in Nat
      BY <3>1, FS_CardinalityType
    <3>3. R = Nodes
      BY <1>2, <1>3, <2>1, <3>1, <3>2
    <3> QED
      BY <3>3, KidsIs
  <2> QED
    BY <1>11, <2>1
<1> QED
  BY <1>1, <1>2, <1>5, <1>10, <1>11, <1>12

LEMMA ReachMono ==
  ASSUME NEW S \in SUBSET Nodes, NEW T \in SUBSET Nodes, S \subseteq Reach(T), IsField(tab)
  PROVE  Reach(S) \subseteq Reach(T)
BY ReachIs

\* without loops, a node is not below its children
LEMMA NotBelow ==
  ASSUME IsField(tab), NoLoops, NEW n \in Nodes
  PROVE  Apart(n, Kids({n})) /\ n \notin Kids({n})
<1>1. PICK K : K = Kids({n})
  OBVIOUS
<1>2. K \in SUBSET Nodes
  BY <1>1, KidsIs
<1>3. PICK D : D = Reach(K)
  OBVIOUS
<1>4. D \in SUBSET Nodes /\ K \subseteq D /\ Kids(D) \subseteq D
  BY <1>2, <1>3, ReachIs
<1>5. n \notin D
  BY <1>1, <1>3 DEF NoLoops, OnLoop
<1> QED
  BY <1>1, <1>4, <1>5 DEF Apart

-----------------------------------------------------------------------------
(***************************************************************************)
(* What the references say.                                                *)
(***************************************************************************)

LEMMA CallIs ==
  /\ \A c \in WorkCalls : c = Call(c.f, c.n) /\ c.n \in Nodes
                          /\ c.f \in {"free", "decide", "free_priv", "priv_freed", "drop"}
  /\ \A c \in PlainCalls : c \in WorkCalls /\ c.f # "decide"
  /\ \A n \in Nodes : /\ \A f \in {"free", "free_priv", "priv_freed", "drop"} : Call(f, n) \in PlainCalls
                      /\ Call("decide", n) \in WorkCalls
  /\ \A f, n : Call(f, n).f = f /\ Call(f, n).n = n
<1>1. \A c \in WorkCalls : c = Call(c.f, c.n) /\ c.n \in Nodes
                           /\ c.f \in {"free", "decide", "free_priv", "priv_freed", "drop"}
  BY DEF WorkCalls, Call
<1>2. \A c \in PlainCalls : c \in WorkCalls /\ c.f # "decide"
  BY DEF WorkCalls, PlainCalls
<1>3. \A n \in Nodes : /\ \A f \in {"free", "free_priv", "priv_freed", "drop"} : Call(f, n) \in PlainCalls
                       /\ Call("decide", n) \in WorkCalls
  BY DEF WorkCalls, PlainCalls, Call
<1>4. \A f, n : Call(f, n).f = f /\ Call(f, n).n = n
  BY DEF Call
<1> QED
  BY <1>1, <1>2, <1>3, <1>4

LEMMA PlainIsWork == \A w \in Seq(PlainCalls) : w \in Seq(WorkCalls)
<1>1. PlainCalls \subseteq WorkCalls
  BY CallIs
<1> QED
  BY <1>1, SeqMonotonic

LEMMA EndsIs ==
  ASSUME NEW e \in Ends
  PROVE  \/ e = <<>>
         \/ \E c \in TableCalls : /\ e = <<c>> /\ e # <<>> /\ Range(e) = {c} /\ NodesOf(e) = {c.n}
                                  /\ c.n \in Nodes /\ c.new \in Seq(Nodes)
                                  /\ c = TableCall(c.n, c.new) /\ e[1] = c /\ c.f = "settab"
<1>1. CASE e # <<>>
  <2>1. PICK c \in TableCalls : e = <<c>>
    BY <1>1 DEF Ends
  <2>2. Range(e) = {c} /\ e[1] = c
    BY <2>1 DEF Range
  <2>3. NodesOf(e) = {c.n}
    BY <2>2 DEF NodesOf
  <2>4. c.n \in Nodes /\ c.new \in Seq(Nodes) /\ c = TableCall(c.n, c.new) /\ c.f = "settab"
    BY DEF TableCalls, TableCall
  <2> QED
    BY <1>1, <2>1, <2>2, <2>3, <2>4
<1> QED
  BY <1>1

LEMMA NewRefsNat ==
  ASSUME NEW e \in Ends, NEW x
  PROVE  NewRefs(e, x) \in Nat
<1>1. CASE e = <<>>
  BY <1>1 DEF NewRefs
<1>2. CASE e # <<>>
  <2>1. PICK c \in TableCalls : e[1] = c /\ c.new \in Seq(Nodes)
    BY <1>2, EndsIs
  <2>2. Times(c.new, x) \in Nat
    BY <2>1, TimesIs
  <2> QED
    BY <1>2, <2>1, <2>2 DEF NewRefs
<1> QED
  BY <1>1, <1>2

\* the terms of Balance
Terms(w, e, x, r, h, c, t, o, n) ==
  /\ r = refcnt[x] /\ h = held[x] /\ c = InField(cfg, Nodes, x)
  /\ t = InField(tab, Nodes \ Opened(w, e), x) /\ o = Occ(w, RefCalls(x)) /\ n = NewRefs(e, x)
  /\ r = h + c + t + o + n

LEMMA TermsNat ==
  ASSUME NEW w \in Seq(WorkCalls), NEW e \in Ends, BaseInv(w, e), NEW x \in Nodes
  PROVE  \E r, h, c, t, o, n \in Nat : Terms(w, e, x, r, h, c, t, o, n)
<1>1. refcnt[x] \in Nat /\ held[x] \in Nat
  BY DEF BaseInv, TypeInv
<1>2. InField(cfg, Nodes, x) \in Nat /\ InField(tab, Nodes \ Opened(w, e), x) \in Nat
  BY ChildRefsFinite
<1>3. Occ(w, RefCalls(x)) \in Nat /\ NewRefs(e, x) \in Nat
  BY OccFinite, NewRefsNat
<1>4. PICK r, h, c, t, o, n : /\ r = refcnt[x] /\ h = held[x] /\ c = InField(cfg, Nodes, x)
                              /\ t = InField(tab, Nodes \ Opened(w, e), x) /\ o = Occ(w, RefCalls(x)) /\ n = NewRefs(e, x)
  OBVIOUS
<1>5. r \in Nat /\ h \in Nat /\ c \in Nat /\ t \in Nat /\ o \in Nat /\ n \in Nat
  BY <1>1, <1>2, <1>3, <1>4
<1>6. r = h + c + t + o + n
  BY <1>4 DEF BaseInv, Balance
<1>7. Terms(w, e, x, r, h, c, t, o, n)
  BY <1>4, <1>6 DEF Terms
<1> QED
  BY <1>5, <1>7

LEMMA Referenced ==
  ASSUME NEW w \in Seq(WorkCalls), NEW e \in Ends, BaseInv(w, e), NEW x \in Nodes,
         \/ held[x] > 0
         \/ \E p \in Nodes : x \in Range(cfg[p])
         \/ \E p \in Nodes \ Opened(w, e) : x \in Range(tab[p])
         \/ Range(w) \cap RefCalls(x) # {}
  PROVE  refcnt[x] > 0 /\ InMemory(x)
<1>1. IsField(cfg) /\ IsField(tab) /\ NodeInv(x)
  BY DEF BaseInv, TypeInv, NodesInv
<1>2. \/ held[x] > 0 \/ InField(cfg, Nodes, x) > 0 \/ InField(tab, Nodes \ Opened(w, e), x) > 0
      \/ Occ(w, RefCalls(x)) > 0
  BY <1>1, InFieldPositive, OccPositive
<1>3. refcnt[x] > 0
  <2>1. PICK r, h, c, t, o, n \in Nat : Terms(w, e, x, r, h, c, t, o, n)
    BY TermsNat
  <2> QED
    BY SMTT(40), <1>2, <2>1 DEF Terms
<1> QED
  BY <1>1, <1>3 DEF NodeInv

\* a node being freed is referenced once
LEMMA OnlyDrop ==
  ASSUME NEW w \in Seq(WorkCalls), NEW e \in Ends, BaseInv(w, e), NEW x \in With("FREEING")
  PROVE  /\ x \in Nodes /\ held[x] = 0 /\ Occ(w, RefCalls(x)) = 1 /\ refcnt[x] = 1
         /\ \A p \in Nodes : x \notin Range(cfg[p])
         /\ \A p \in Nodes \ Opened(w, e) : x \notin Range(tab[p])
<1>1. x \in Nodes /\ refcnt[x] = 1 /\ Call("drop", x) \in Range(w)
  BY DEF BaseInv, FreeingInv, With
<1>2. Call("drop", x) \in RefCalls(x)
  BY DEF RefCalls
<1>3. Occ(w, RefCalls(x)) > 0
  BY <1>1, <1>2, OccPositive
<1>4. /\ held[x] = 0 /\ Occ(w, RefCalls(x)) = 1
      /\ ~(InField(cfg, Nodes, x) > 0) /\ ~(InField(tab, Nodes \ Opened(w, e), x) > 0)
  <2>1. PICK r, h, c, t, o, n \in Nat : Terms(w, e, x, r, h, c, t, o, n)
    BY <1>1, TermsNat
  <2>2. o > 0 /\ r = 1
    BY <1>1, <1>3, <2>1 DEF Terms
  <2>3. h = 0 /\ c = 0 /\ t = 0 /\ o = 1
    BY <2>1, <2>2 DEF Terms
  <2> QED
    BY <1>1, <2>1, <2>3 DEF Terms
<1>5. IsField(cfg) /\ IsField(tab)
  BY DEF BaseInv, TypeInv
<1> QED
  BY <1>1, <1>4, <1>5, InFieldPositive

LEMMA StaysAlive ==
  ASSUME NEW w \in Seq(WorkCalls), NEW e \in Ends, BaseInv(w, e), NEW x \in Nodes,
         InMemory(x), state[x] # "FREEING"
  PROVE  Alive(x) /\ Range(cfg[x]) \subseteq Range(tab[x])
<1>1. NodeInv(x)
  BY DEF BaseInv, NodesInv
<1>2. Alive(x)
  BY <1>1 DEF NodeInv, InMemory, Alive
<1>3. cfg[x] = tab[x] \/ cfg[x] = <<>>
  BY <1>1 DEF NodeInv
<1>4. Range(<<>>) = {}
  BY NoCalls
<1> QED
  BY <1>2, <1>3, <1>4

LEMMA Holding ==
  ASSUME NEW w \in Seq(WorkCalls), NEW e \in Ends, BaseInv(w, e), NEW x \in Nodes, held[x] > 0
  PROVE  refcnt[x] > 0 /\ Alive(x) /\ state[x] # "FREEING"
<1>1. refcnt[x] > 0 /\ InMemory(x)
  BY Referenced
<1>2. state[x] # "FREEING"
  <2>1. ASSUME state[x] = "FREEING" PROVE FALSE
    <3>1. x \in With("FREEING")
      BY <2>1 DEF With
    <3>2. held[x] = 0
      BY <3>1, OnlyDrop
    <3> QED
      BY <3>2
  <2> QED
    BY <2>1
<1> QED
  BY <1>1, <1>2, StaysAlive

LEMMA OpenIsFreeing ==
  ASSUME NEW w \in Seq(WorkCalls), Paired(w), Dropping(w), NEW x \in Nodes, OpenCalls(x) \cap Range(w) # {}
  PROVE  Call("drop", x) \in Range(w) /\ x \in With("FREEING")
<1>1. PICK i \in DOMAIN w : w[i] \in OpenCalls(x)
  BY DEF Range
<1>2. w[i].f \in {"free_priv", "priv_freed"} /\ w[i].n = x
  BY <1>1 DEF OpenCalls, Call
<1>3. i + 1 \in DOMAIN w /\ w[i + 1] = Call("drop", x)
  BY <1>2 DEF Paired
<1>4. Call("drop", x) \in Range(w)
  BY <1>3 DEF Range
<1>5. state[x] = "FREEING"
  BY <1>4, CallIs DEF Dropping
<1> QED
  BY <1>4, <1>5 DEF With

\* A child of a node that is not being freed stays.
LEMMA KidsStay ==
  ASSUME NEW w \in Seq(WorkCalls), NEW e \in Ends, BaseInv(w, e), NEW p \in Nodes, state[p] # "FREEING",
         NEW x \in Range(tab[p])
  PROVE  x \in Nodes /\ refcnt[x] > 0 /\ Alive(x) /\ state[x] # "FREEING"
<1>1. IsField(tab) /\ IsField(cfg) /\ NodeInv(p) /\ Paired(w) /\ Dropping(w) /\ Ending(w, e)
  BY DEF BaseInv, TypeInv, NodesInv
<1>2. x \in Nodes
  BY <1>1, RangeOfSeq DEF IsField
<1>3. Call("priv_freed", p) \notin Range(w)
  <2>1. Call("priv_freed", p) \in OpenCalls(p)
    BY DEF OpenCalls
  <2>2. p \notin With("FREEING")
    BY DEF With
  <2> QED
    BY <1>1, <2>1, <2>2, OpenIsFreeing
<1>4. p \notin Opened(w, e) \/ x \in Range(cfg[p])
  <2>1. CASE p \in NodesOf(e)
    <3>1. PICK c \in Range(e) : c.n = p
      BY <2>1 DEF NodesOf
    <3>2. p \notin single
      BY <1>1, <3>1 DEF Ending
    <3>3. cfg[p] = tab[p]
      BY <1>1, <3>2 DEF NodeInv
    <3> QED
      BY <3>3
  <2>2. CASE p \notin NodesOf(e)
    BY <1>3, <2>2 DEF Opened
  <2> QED
    BY <2>1, <2>2
<1>5. refcnt[x] > 0 /\ InMemory(x)
  BY <1>2, <1>4, Referenced
<1>6. state[x] # "FREEING"
  <2>1. ASSUME state[x] = "FREEING" PROVE FALSE
    <3>1. x \in With("FREEING")
      BY <1>2, <2>1 DEF With
    <3> QED
      BY <1>4, <3>1, OnlyDrop
  <2> QED
    BY <2>1
<1> QED
  BY <1>2, <1>5, <1>6, StaysAlive

\* what count_references() may count
LEMMA CountedAtMost ==
  ASSUME NEW w \in Seq(WorkCalls), NEW e \in Ends, BaseInv(w, e), NEW x \in Nodes,
         NEW M \in SUBSET Nodes, M \cap Opened(w, e) = {}
  PROVE  /\ InField(cfg, M, x) \in Nat /\ InField(tab, M, x) \in Nat
         /\ InField(cfg, M, x) + InField(tab, M, x) + Occ(w, RefCalls(x)) <= refcnt[x]
<1>1. InField(cfg, M, x) <= InField(cfg, Nodes, x)
  BY InFieldMono
<1>2. PICK U : U = Nodes \ Opened(w, e)
  OBVIOUS
<1>3. U \in SUBSET Nodes /\ M \in SUBSET U
  BY <1>2
<1>4. InField(tab, M, x) <= InField(tab, U, x)
  BY <1>3, InFieldMono
<1>5. InField(cfg, M, x) \in Nat /\ InField(tab, M, x) \in Nat
  BY ChildRefsFinite
<1>6. PICK r, h, c, t, o, n \in Nat : Terms(w, e, x, r, h, c, t, o, n)
  BY TermsNat
<1>7. PICK i, j \in Nat : i = InField(cfg, M, x) /\ j = InField(tab, M, x)
  BY <1>5
<1>8. i <= c /\ j <= t
  BY <1>1, <1>2, <1>4, <1>6, <1>7 DEF Terms
<1>9. i + j + o <= r
  <2>1. r = h + c + t + o + n
    BY <1>6 DEF Terms
  <2>2. \A a, b, d, f, g, y, z \in Nat : y <= b /\ z <= d => y + z + f <= a + b + d + f + g
    OBVIOUS
  <2>3. h \in Nat /\ c \in Nat /\ t \in Nat /\ o \in Nat /\ n \in Nat /\ i \in Nat /\ j \in Nat
    BY <1>6, <1>7
  <2> QED
    BY <1>8, <2>1, <2>2, <2>3
<1> QED
  BY <1>6, <1>7, <1>9 DEF Terms

-----------------------------------------------------------------------------
(***************************************************************************)
(* The call at the top of the stack and the phase it belongs to.           *)
(***************************************************************************)

LEMMA CallsTyped ==
  /\ \A s \in Seq(CountCalls) \cup Seq(MarkCalls) \cup Seq(ResetCalls) \cup Seq(WorkCalls) \cup Seq(PlainCalls) :
       s \in Seq(Calls)
  /\ \A e \in Ends : e \in Seq(Calls)
<1>1. /\ CountCalls \subseteq Calls /\ MarkCalls \subseteq Calls /\ ResetCalls \subseteq Calls
      /\ WorkCalls \subseteq Calls /\ TableCalls \subseteq Calls /\ PlainCalls \subseteq Calls
  BY CallIs DEF Calls
<1>2. \A s \in Seq(CountCalls) \cup Seq(MarkCalls) \cup Seq(ResetCalls) \cup Seq(WorkCalls) \cup Seq(PlainCalls) :
        s \in Seq(Calls)
  BY <1>1, SeqMonotonic
<1>3. ASSUME NEW e \in Ends PROVE e \in Seq(Calls)
  <2>1. CASE e = <<>>
    BY <2>1
  <2>2. CASE e # <<>>
    <3>1. PICK c \in TableCalls : e = <<c>>
      BY <2>2 DEF Ends
    <3>2. c \in Calls
      BY <1>1
    <3> QED
      BY <3>1, <3>2
  <2> QED
    BY <2>1, <2>2
<1> QED
  BY <1>2, <1>3

LEMMA Assoc ==
  ASSUME NEW s \in Seq(Calls), NEW t \in Seq(Calls), NEW u \in Seq(Calls)
  PROVE  s \o (t \o u) = (s \o t) \o u
BY ConcatAssociative

LEMMA PairIs ==
  ASSUME NEW S, NEW c \in S, NEW d \in S
  PROVE  <<c, d>> = <<c>> \o <<d>>
<1>1. PICK t, u, v : t = <<d>> /\ u = <<c>> \o t /\ v = <<c, d>>
  OBVIOUS
<1>2. t \in Seq(S) /\ Len(t) = 1 /\ t[1] = d
  BY <1>1
<1>3. u \in Seq(S) /\ Len(u) = 2 /\ u[1] = c /\ u[1 + 1] = d
  BY <1>1, <1>2, ConsIs
<1>4. v \in Seq(S) /\ Len(v) = 2 /\ v[1] = c /\ v[2] = d
  BY <1>1
<1>5. \A i \in 1..2 : u[i] = v[i]
  BY <1>3, <1>4
<1>6. u = v
  BY <1>3, <1>4, <1>5, SeqEqual
<1> QED
  BY <1>1, <1>6

LEMMA TripleIs ==
  ASSUME NEW S, NEW c \in S, NEW d \in S, NEW b \in S
  PROVE  <<c, d, b>> = <<c, d>> \o <<b>>
<1>1. PICK a, y : a = <<c, d>> /\ y = <<b>>
  OBVIOUS
<1>2. a \in Seq(S) /\ Len(a) = 2 /\ a[1] = c /\ a[2] = d /\ y \in Seq(S) /\ Len(y) = 1 /\ y[1] = b
  BY <1>1
<1>3. PICK z : z = a \o y
  OBVIOUS
<1>4. z \in Seq(S) /\ Len(z) = 2 + 1 /\ \A i \in 1..(2 + 1) : z[i] = IF i <= 2 THEN a[i] ELSE y[i - 2]
  <2>1. PICK m, n : m = Len(a) /\ n = Len(y)
    OBVIOUS
  <2>2. z \in Seq(S) /\ Len(z) = m + n /\ \A i \in 1..(m + n) : z[i] = IF i <= m THEN a[i] ELSE y[i - m]
    BY <1>2, <1>3, <2>1, ConcatProperties
  <2>3. m = 2 /\ n = 1
    BY <1>2, <2>1
  <2> QED
    BY <2>2, <2>3
<1>5. z[1] = a[1] /\ z[2] = a[2] /\ z[3] = y[1]
  <2>1. /\ 1 \in 1..(2 + 1) /\ 2 \in 1..(2 + 1) /\ 3 \in 1..(2 + 1) /\ 1 <= 2 /\ 2 <= 2 /\ ~(3 <= 2)
        /\ 3 - 2 = 1
    OBVIOUS
  <2> QED
    BY <1>4, <2>1
<1>6. PICK x : x = <<c, d, b>>
  OBVIOUS
<1>7. x \in Seq(S) /\ Len(x) = 3 /\ x[1] = c /\ x[2] = d /\ x[3] = b
  BY <1>6
<1>8. \A i \in 1..3 : x[i] = z[i]
  BY <1>2, <1>5, <1>7
<1>9. x = z
  BY <1>4, <1>7, <1>8, SeqEqual
<1> QED
  BY <1>1, <1>3, <1>6, <1>9

LEMMA EmptyFirst == \A s \in Seq(Calls) : <<>> \o s = s /\ s \o <<>> = s
BY ConcatEmptySeq

\* the top call is the first of the sequence c, s that starts the stack
LEMMA TopIs ==
  ASSUME NEW c \in Calls, NEW s \in Seq(Calls), NEW u \in Seq(Calls), stack = (<<c>> \o s) \o u
  PROVE  stack # <<>> /\ Top = c /\ Tail(stack) = s \o u
<1>1. <<c>> \in Seq(Calls)
  BY ConsIs
<1>2. stack = <<c>> \o (s \o u)
  BY <1>1, ConcatAssociative
<1>3. s \o u \in Seq(Calls)
  BY ConcatProperties
<1> QED
  BY <1>2, <1>3, ConsIs DEF Top

CountTop(w, e, r, c, s) ==
  /\ BaseInv(w, e) /\ DecideFirst(w, r)
  /\ Counting((<<c>> \o s) \o <<MarkCall(r, "FREEABLE")>>, r, w, e, <<c>> \o s)
  /\ Top = c /\ Tail(stack) = (s \o <<MarkCall(r, "FREEABLE")>>) \o (w \o e)
FirstMarkTop(w, e, r) ==
  /\ BaseInv(w, e) /\ DecideFirst(w, r) /\ Counting(<<MarkCall(r, "FREEABLE")>>, r, w, e, <<>>)
  /\ Top = MarkCall(r, "FREEABLE") /\ Tail(stack) = w \o e
MarkTop(w, e, r, c, s) ==
  /\ BaseInv(w, e) /\ DecideFirst(w, r) /\ Marking(<<c>> \o s, r, w, e)
  /\ Top = c /\ Tail(stack) = s \o (w \o e)
ResetTop(w, e, c, s) ==
  /\ BaseInv(w, e) /\ Resetting(<<c>> \o s, w, e)
  /\ Top = c /\ Tail(stack) = s \o (w \o e)
DecideTop(w, e, r, t) ==
  /\ w = <<Call("decide", r)>> \o t /\ w \in Seq(WorkCalls) /\ BaseInv(w, e)
  /\ Deciding(<<>>, r) \/ Marking(<<>>, r, w, e)
  /\ Top = Call("decide", r) /\ Tail(stack) = t \o e
PlainTop(w, e, c, t) ==
  /\ w = <<c>> \o t /\ w \in Seq(WorkCalls) /\ BaseInv(w, e) /\ Marked = {}
  /\ Top = c /\ Tail(stack) = t \o e
TableTop(c) ==
  /\ BaseInv(<<>>, <<c>>) /\ Marked = {} /\ Top = c /\ Tail(stack) = <<>>
NoTop == stack = <<>> /\ BaseInv(<<>>, <<>>) /\ Marked = {}

TopInv ==
  \/ \E w \in Seq(WorkCalls), e \in Ends, r \in Nodes :
       \/ \E c \in CountCalls, s \in Seq(CountCalls) : CountTop(w, e, r, c, s)
       \/ FirstMarkTop(w, e, r)
       \/ \E c \in MarkCalls, s \in Seq(MarkCalls) : MarkTop(w, e, r, c, s)
       \/ \E t \in Seq(PlainCalls) : DecideTop(w, e, r, t)
  \/ \E w \in Seq(WorkCalls), e \in Ends, c \in ResetCalls, s \in Seq(ResetCalls) : ResetTop(w, e, c, s)
  \/ \E w \in Seq(WorkCalls), e \in Ends, c \in PlainCalls, t \in Seq(PlainCalls) : PlainTop(w, e, c, t)
  \/ \E c \in TableCalls : TableTop(c)
  \/ NoTop

LEMMA NothingMarked ==
  ASSUME NEW w, NEW e, Resetting(<<>>, w, e)
  PROVE  Marked = {}
<1>1. Found({}, Marked)
  BY NoCalls DEF Resetting
<1>2. {} \in SUBSET Nodes /\ Kids({} \cap Marked) \subseteq {}
  BY KidsOf
<1> QED
  BY <1>1, <1>2 DEF Found

LEMMA StackHasTop == IInv => TopInv
<1> SUFFICES ASSUME IInv PROVE TopInv
  OBVIOUS
<1>1. PICK a \in Seq(Calls), w \in Seq(WorkCalls), e \in Ends : StackInv(a, w, e)
  BY DEF IInv
<1>2. stack = a \o (w \o e) /\ BaseInv(w, e) /\ PhaseInv(a, w, e)
  BY <1>1 DEF StackInv
<1>3. w \in Seq(Calls) /\ e \in Seq(Calls)
  BY CallsTyped
<1>4. w \o e \in Seq(Calls)
  BY <1>3, ConcatProperties
<1>5. CASE Resetting(a, w, e)
  <2>1. a \in Seq(ResetCalls) /\ w \in Seq(PlainCalls)
    BY <1>5 DEF Resetting
  <2>2. CASE a # <<>>
    <3>1. PICK c \in ResetCalls, s \in Seq(ResetCalls) : a = <<c>> \o s
      BY <2>1, <2>2, Uncons
    <3>2. c \in Calls /\ s \in Seq(Calls)
      BY CallsTyped DEF Calls
    <3>3. Top = c /\ Tail(stack) = s \o (w \o e)
      BY <1>2, <1>4, <3>1, <3>2, TopIs
    <3>4. ResetTop(w, e, c, s)
      BY <1>2, <1>5, <3>1, <3>3 DEF ResetTop
    <3> QED
      BY <3>4 DEF TopInv
  <2>3. CASE a = <<>>
    <3>1. stack = w \o e /\ Marked = {}
      BY <1>2, <1>4, <1>5, <2>3, EmptyFirst, NothingMarked
    <3>2. CASE w # <<>>
      <4>1. PICK c \in PlainCalls, t \in Seq(PlainCalls) : w = <<c>> \o t
        BY <2>1, <3>2, Uncons
      <4>2. c \in Calls /\ t \in Seq(Calls)
        BY CallsTyped, CallIs DEF Calls
      <4>3. Top = c /\ Tail(stack) = t \o e
        BY <1>3, <3>1, <4>1, <4>2, TopIs
      <4>4. PlainTop(w, e, c, t)
        BY <1>2, <3>1, <4>1, <4>3 DEF PlainTop
      <4> QED
        BY <4>4 DEF TopInv
    <3>3. CASE w = <<>>
      <4>1. stack = e
        BY <1>3, <3>1, <3>3, EmptyFirst
      <4>2. CASE e = <<>>
        <5>1. NoTop
          BY <1>2, <3>1, <3>3, <4>1, <4>2 DEF NoTop
        <5> QED
          BY <5>1 DEF TopInv
      <4>3. CASE e # <<>>
        <5>1. PICK c \in TableCalls : e = <<c>>
          BY <4>3 DEF Ends
        <5>2. Top = c /\ Tail(stack) = <<>>
          <6>1. c \in Calls /\ <<>> \in Seq(Calls)
            BY DEF Calls
          <6>2. stack = <<c>> \o <<>>
            BY <4>1, <5>1, <6>1, EmptyFirst
          <6> QED
            BY <6>1, <6>2, ConsIs DEF Top
        <5>3. TableTop(c)
          BY <1>2, <3>1, <3>3, <5>1, <5>2 DEF TableTop
        <5> QED
          BY <5>3 DEF TopInv
      <4> QED
        BY <4>2, <4>3
    <3> QED
      BY <3>2, <3>3
  <2> QED
    BY <2>2, <2>3
<1>6. ASSUME NEW r \in Nodes, DecideFirst(w, r),
             Deciding(a, r) \/ (\E s \in Seq(CountCalls) : Counting(a, r, w, e, s)) \/ Marking(a, r, w, e)
      PROVE  TopInv
  <2>1. PICK t \in Seq(PlainCalls) : w = <<Call("decide", r)>> \o t
    BY <1>6 DEF DecideFirst
  <2>2. Call("decide", r) \in Calls /\ t \in Seq(Calls)
    BY CallIs, CallsTyped DEF Calls
  <2>3. CASE a = <<>> /\ (Deciding(a, r) \/ Marking(a, r, w, e))
    <3>1. stack = w \o e
      BY <1>2, <1>4, <2>3, EmptyFirst
    <3>2. Top = Call("decide", r) /\ Tail(stack) = t \o e
      BY <1>3, <2>1, <2>2, <3>1, TopIs
    <3>3. DecideTop(w, e, r, t)
      BY <1>2, <2>1, <2>3, <3>2 DEF DecideTop
    <3> QED
      BY <3>3 DEF TopInv
  <2>4. CASE a # <<>> /\ Marking(a, r, w, e)
    <3>0. a \in Seq(MarkCalls)
      BY <2>4 DEF Marking
    <3>1. PICK c \in MarkCalls, s \in Seq(MarkCalls) : a = <<c>> \o s
      BY <2>4, <3>0, Uncons
    <3>2. c \in Calls /\ s \in Seq(Calls)
      BY CallsTyped DEF Calls
    <3>3. Top = c /\ Tail(stack) = s \o (w \o e)
      BY <1>2, <1>4, <3>1, <3>2, TopIs
    <3>4. MarkTop(w, e, r, c, s)
      BY <1>2, <1>6, <2>4, <3>1, <3>3 DEF MarkTop
    <3> QED
      BY <3>4 DEF TopInv
  <2>5. ASSUME NEW s \in Seq(CountCalls), Counting(a, r, w, e, s) PROVE TopInv
    <3>1. PICK m : m = MarkCall(r, "FREEABLE")
      OBVIOUS
    <3>2. a = s \o <<m>> /\ m \in Calls
      BY <2>5, <3>1 DEF Counting, MarkCall, MarkCalls, Calls
    <3>3. <<m>> \in Seq(Calls)
      BY <3>2
    <3>4. CASE s = <<>>
      <4>1. a = <<m>>
        BY <3>2, <3>3, <3>4, EmptyFirst
      <4>2. a = <<m>> \o <<>> /\ <<>> \in Seq(Calls)
        BY <3>3, <4>1, EmptyFirst
      <4>3. Top = m /\ Tail(stack) = <<>> \o (w \o e)
        BY <1>2, <1>4, <3>2, <4>2, TopIs
      <4>4. Tail(stack) = w \o e
        BY <1>4, <4>3, EmptyFirst
      <4>5. FirstMarkTop(w, e, r)
        BY <1>2, <1>6, <2>5, <3>1, <3>4, <4>1, <4>3, <4>4 DEF FirstMarkTop
      <4> QED
        BY <4>5 DEF TopInv
    <3>5. CASE s # <<>>
      <4>1. PICK c \in CountCalls, s2 \in Seq(CountCalls) : s = <<c>> \o s2
        BY <3>5, Uncons
      <4>2. c \in Calls /\ s2 \in Seq(Calls) /\ <<c>> \in Seq(Calls)
        BY CallsTyped DEF Calls
      <4>3. a = <<c>> \o (s2 \o <<m>>)
        BY <3>2, <3>3, <4>1, <4>2, ConcatAssociative
      <4>4. s2 \o <<m>> \in Seq(Calls)
        BY <3>3, <4>2, ConcatProperties
      <4>5. Top = c /\ Tail(stack) = (s2 \o <<m>>) \o (w \o e)
        BY <1>2, <1>4, <4>2, <4>3, <4>4, TopIs
      <4>6. CountTop(w, e, r, c, s2)
        BY <1>2, <1>6, <2>5, <3>1, <3>2, <4>1, <4>5 DEF CountTop
      <4> QED
        BY <4>6 DEF TopInv
    <3> QED
      BY <3>4, <3>5
  <2>6. Deciding(a, r) => a = <<>>
    BY DEF Deciding
  <2> QED
    BY <1>6, <2>3, <2>4, <2>5, <2>6
<1> QED
  BY <1>2, <1>5, <1>6 DEF PhaseInv

-----------------------------------------------------------------------------
(***************************************************************************)
(* The steps of the phases change states, counters and pending calls only. *)
(***************************************************************************)

LEMMA MarkedTyped ==
  /\ Marked \in SUBSET Nodes
  /\ \A x \in Nodes : x \in Marked <=> state[x] \in {"TRAVERSED", "FREEABLE", "NOT_FREEABLE"}
BY DEF Marked, With

LEMMA MarkedChange ==
  ASSUME state \in [Nodes -> States], NEW x \in Nodes, NEW v \in States, state' = [state EXCEPT ![x] = v]
  PROVE  /\ state' \in [Nodes -> States] /\ state'[x] = v /\ \A y \in Nodes \ {x} : state'[y] = state[y]
         /\ v \in {"TRAVERSED", "FREEABLE", "NOT_FREEABLE"} => Marked' = Marked \cup {x}
         /\ v \in {"NONE", "FREEING"} => Marked' = Marked \ {x}
         /\ v = "TRAVERSED" => With("TRAVERSED")' = With("TRAVERSED") \cup {x}
<1>1. state' \in [Nodes -> States] /\ state'[x] = v /\ \A y \in Nodes \ {x} : state'[y] = state[y]
  OBVIOUS
<1>2. v \in {"TRAVERSED", "FREEABLE", "NOT_FREEABLE"} => Marked' = Marked \cup {x}
  BY <1>1 DEF Marked, With
<1>3. v \in {"NONE", "FREEING"} => Marked' = Marked \ {x}
  BY <1>1 DEF Marked, With
<1>4. v = "TRAVERSED" => With("TRAVERSED")' = With("TRAVERSED") \cup {x}
  BY <1>1 DEF With
<1> QED
  BY <1>1, <1>2, <1>3, <1>4

LEMMA MarkedIsThere ==
  ASSUME NEW w \in Seq(WorkCalls), NEW e \in Ends, BaseInv(w, e), NEW x \in Marked
  PROVE  x \in Nodes /\ Alive(x) /\ state[x] # "FREEING" /\ state[x] # "NONE" /\ refcnt[x] > 0
<1>1. x \in Nodes /\ state[x] \in {"TRAVERSED", "FREEABLE", "NOT_FREEABLE"}
  BY MarkedTyped
<1>2. NodeInv(x) /\ mem[x] \in {"none", "alive", "gutted", "freed"}
  BY <1>1 DEF BaseInv, NodesInv, TypeInv
<1>3. InMemory(x)
  BY <1>1, <1>2 DEF NodeInv, InMemory
<1>4. Alive(x)
  BY <1>1, <1>3, StaysAlive
<1> QED
  BY <1>1, <1>2, <1>3, <1>4 DEF NodeInv

LEMMA PhaseKeepsBase ==
  ASSUME NEW w \in Seq(WorkCalls), NEW e \in Ends, BaseInv(w, e),
         UNCHANGED <<single, mem, refcnt, cfg, tab, held>>,
         state' \in [Nodes -> States], frefs' \in [Nodes -> Nat],
         \A x \in Nodes : /\ state[x] = "FREEING" <=> state'[x] = "FREEING"
                          /\ state[x] = "FREEING" => frefs'[x] = frefs[x]
                          /\ state'[x] = "NONE" => frefs'[x] = 0
                          /\ ~InMemory(x) => state'[x] = "NONE"
  PROVE  BaseInv(w, e)'
<1>1. TypeInv'
  BY DEF BaseInv, TypeInv, IsField
<1>2. Balance(w, e)'
  BY DEF BaseInv, Balance, InField, ChildRefs
<1>3. NodesInv'
  <2> SUFFICES ASSUME NEW x \in Nodes PROVE NodeInv(x)'
    BY DEF NodesInv
  <2>1. NodeInv(x)
    BY DEF BaseInv, NodesInv
  <2> QED
    BY <2>1 DEF NodeInv, InMemory
<1>4. FreeingInv(w)'
  <2>1. With("FREEING")' = With("FREEING")
    BY DEF With
  <2>2. FreeingInv(w)
    BY DEF BaseInv
  <2>3. \A x \in With("FREEING") : frefs'[x] = frefs[x]
    BY DEF With
  <2> QED
    BY <2>1, <2>2, <2>3 DEF FreeingInv
<1>5. Paired(w)'
  BY DEF BaseInv, Paired
<1>6. Dropping(w)'
  <2> SUFFICES ASSUME NEW c \in Range(w), c.f = "drop" PROVE state'[c.n] = "FREEING"
    BY DEF Dropping
  <2>1. c \in WorkCalls
    BY RangeOfSeq
  <2>2. c.n \in Nodes /\ state[c.n] = "FREEING"
    BY <2>1, CallIs DEF BaseInv, Dropping
  <2> QED
    BY <2>2
<1>7. Ending(w, e)'
  <2> SUFFICES ASSUME NEW c \in Range(e)
               PROVE  /\ c.n \notin single /\ Alive(c.n) /\ state'[c.n] # "FREEING" /\ Len(c.new) <= MaxKids
                      /\ Apart(c.n, NodesOf(w))
    BY SMTT(40) DEF Ending, Alive, Apart, Kids
  <2>1. c.n \in Nodes
    BY EndsIs, NoCalls
  <2>2. /\ c.n \notin single /\ Alive(c.n) /\ state[c.n] # "FREEING" /\ Len(c.new) <= MaxKids
        /\ Apart(c.n, NodesOf(w))
    BY DEF BaseInv, Ending
  <2> QED
    BY <2>1, <2>2
<1> QED
  BY <1>1, <1>2, <1>3, <1>4, <1>5, <1>6, <1>7 DEF BaseInv

LEMMA SameApart ==
  ASSUME tab' = tab, NEW n, NEW r, Apart(n, Kids({r}))
  PROVE  Apart(n, Kids({r}))'
<1>1. Apart(n, Kids({r}))' = Apart(n, Kids({r}))
  BY DEF Apart, Kids
<1> QED
  BY <1>1

LEMMA SameFound ==
  ASSUME tab' = tab, NEW R, NEW M, Marked' = M, Found(R, M)
  PROVE  Found(R, Marked)' /\ Kids(Marked)' = Kids(M)
<1>1. Kids(Marked)' = Kids(M)
  BY DEF Kids
<1>2. Found(R, M)' = Found(R, M)
  BY DEF Found, Kids
<1>3. Found(R, M)'
  BY <1>2
<1>4. Found(R, Marked)'
  BY <1>3 DEF Found, Kids
<1> QED
  BY <1>1, <1>4

LEMMA FoundUp ==
  ASSUME NEW r, NEW M \in SUBSET Nodes, Found({r}, M), NEW x \in {r} \cup Kids(M)
  PROVE  Found({r}, M \cup {x})
<1> SUFFICES ASSUME NEW S \in SUBSET Nodes, r \in S, Kids(S \cap (M \cup {x})) \subseteq S
             PROVE  M \cup {x} \subseteq S
  BY DEF Found
<1>1. Kids(S \cap M) \subseteq Kids(S \cap (M \cup {x}))
  BY KidsOf
<1>2. M \subseteq S
  BY <1>1 DEF Found
<1>3. S \cap M = M
  BY <1>2
<1>4. Kids(M) \subseteq S
  BY <1>1, <1>3
<1> QED
  BY <1>2, <1>4

LEMMA FoundSkip ==
  ASSUME NEW R, NEW M, NEW x \in Nodes \ M, Found({x} \cup R, M)
  PROVE  Found(R, M)
<1> SUFFICES ASSUME NEW S \in SUBSET Nodes, R \subseteq S, Kids(S \cap M) \subseteq S
             PROVE  M \subseteq S
  BY DEF Found
<1>1. PICK U : U = S \cup {x}
  OBVIOUS
<1>2. U \in SUBSET Nodes /\ {x} \cup R \subseteq U /\ U \cap M = S \cap M /\ S \subseteq U
  BY <1>1
<1>3. M \subseteq U
  BY <1>2 DEF Found
<1> QED
  BY <1>1, <1>3

LEMMA FoundDown ==
  ASSUME NEW R, NEW M, NEW x \in Nodes, Found({x} \cup R, M)
  PROVE  Found(Kids({x}) \cup R, M \ {x})
<1> SUFFICES ASSUME NEW S \in SUBSET Nodes, Kids({x}) \cup R \subseteq S, Kids(S \cap (M \ {x})) \subseteq S
             PROVE  M \ {x} \subseteq S
  BY DEF Found
<1>1. PICK U : U = S \cup {x}
  OBVIOUS
<1>2. U \in SUBSET Nodes /\ {x} \cup R \subseteq U /\ U \cap M \subseteq {x} \cup (S \cap (M \ {x}))
  BY <1>1
<1>3. Kids(U \cap M) \subseteq Kids({x}) \cup Kids(S \cap (M \ {x}))
  <2>1. PICK B : B = S \cap (M \ {x})
    OBVIOUS
  <2>2. PICK A : A = {x} \cup B
    OBVIOUS
  <2>3. U \cap M \subseteq A
    BY <1>2, <2>1, <2>2
  <2>4. Kids(U \cap M) \subseteq Kids(A) /\ Kids(A) = Kids({x}) \cup Kids(B)
    BY <2>2, <2>3, KidsOf
  <2> QED
    BY <2>1, <2>4
<1>4. M \subseteq U
  BY <1>1, <1>2, <1>3 DEF Found
<1> QED
  BY <1>1, <1>4

-----------------------------------------------------------------------------
(***************************************************************************)
(* count_references()                                                      *)
(***************************************************************************)

\* what is counted and to be counted grows with the references that are found
LEMMA CountedNext ==
  ASSUME NEW y \in Nodes, NEW r, NEW M \in SUBSET Nodes, NEW M2 \in SUBSET Nodes, NEW c \in CountCalls, NEW s \in Seq(CountCalls),
         NEW u \in Seq(CountCalls), Counted(<<c>> \o s, r, M, y), frefs[y] \in Nat,
         NEW more \in Nat, Occ(u, {CountCall(y, 1)}) + 2 * Occ(u, {CountCall(y, 2)}) = more,
         InField(cfg, M2, y) + InField(tab, M2, y) = InField(cfg, M, y) + InField(tab, M, y) + more,
         UNCHANGED <<cfg, tab>>, frefs'[y] = frefs[y] + IF y = c.n THEN c.refs ELSE 0
  PROVE  Counted(u \o s, r, M2, y)'
<1>1. PICK A, B : A = {CountCall(y, 1)} /\ B = {CountCall(y, 2)}
  OBVIOUS
<1>2. PICK a, b : a = Occ(s, A) /\ b = Occ(s, B)
  OBVIOUS
<1>3. PICK k, l : k = One(c \in A) /\ l = One(c \in B)
  OBVIOUS
<1>4. PICK i, j : i = Occ(u, A) /\ j = Occ(u, B)
  OBVIOUS
<1>5. a \in Nat /\ b \in Nat /\ i \in Nat /\ j \in Nat
  BY <1>2, <1>4, OccFinite
<1>6. k \in Nat /\ l \in Nat /\ k + 2 * l = IF y = c.n THEN c.refs ELSE 0
  <2>1. c.refs \in {1, 2} /\ c.f = "count" /\ c = CountCall(c.n, c.refs)
    BY DEF CountCalls, CountCall
  <2>2. c \in A <=> y = c.n /\ c.refs = 1
    BY <1>1, <2>1 DEF CountCall
  <2>3. c \in B <=> y = c.n /\ c.refs = 2
    BY <1>1, <2>1 DEF CountCall
  <2>4. k = IF c \in A THEN 1 ELSE 0
    BY <1>3 DEF One
  <2>5. l = IF c \in B THEN 1 ELSE 0
    BY <1>3 DEF One
  <2> QED
    BY <2>1, <2>2, <2>3, <2>4, <2>5
<1>7. Occ(<<c>> \o s, A) = k + a /\ Occ(<<c>> \o s, B) = l + b
  BY <1>2, <1>3, OccCons
<1>8. Occ(u \o s, A) = i + a /\ Occ(u \o s, B) = j + b
  BY <1>2, <1>4, OccConcat
<1>9. PICK f, o, m, n : f = frefs[y] /\ o = One(y = r) /\ m = InField(cfg, M, y) + InField(tab, M, y)
                        /\ n = InField(cfg, M2, y) + InField(tab, M2, y)
  OBVIOUS
<1>0. /\ InField(cfg, M, y) \in Nat /\ InField(tab, M, y) \in Nat
      /\ InField(cfg, M2, y) \in Nat /\ InField(tab, M2, y) \in Nat
  BY ChildRefsFinite
<1>10. f \in Nat /\ o \in Nat /\ m \in Nat /\ n = m + more
  <2>1. o = IF y = r THEN 1 ELSE 0
    BY <1>9 DEF One
  <2>2. o \in Nat
    BY <2>1
  <2> QED
    BY SMTT(40), <1>0, <1>9, <2>2
<1>11. i + 2 * j = more
  BY <1>1, <1>4
<1>12. f + (k + a) + 2 * (l + b) = o + m
  <2>1. f + Occ(<<c>> \o s, A) + 2 * Occ(<<c>> \o s, B) = o + InField(cfg, M, y) + InField(tab, M, y)
    BY <1>1, <1>9 DEF Counted
  <2>2. f + (k + a) + 2 * (l + b) = o + InField(cfg, M, y) + InField(tab, M, y)
    BY <1>7, <2>1
  <2>3. PICK p, q : p = InField(cfg, M, y) /\ q = InField(tab, M, y)
    OBVIOUS
  <2>4. p \in Nat /\ q \in Nat /\ m = p + q /\ f + (k + a) + 2 * (l + b) = o + p + q
    BY <1>0, <1>9, <2>2, <2>3
  <2> QED
    BY <1>10, <2>4
<1>13. frefs'[y] = f + (k + 2 * l)
  BY <1>6, <1>9
<1>14. frefs'[y] + (i + a) + 2 * (j + b) = o + n
  BY <1>5, <1>6, <1>10, <1>11, <1>12, <1>13
<1>15. frefs'[y] + Occ(u \o s, A) + 2 * Occ(u \o s, B) = One(y = r) + InField(cfg, M2, y) + InField(tab, M2, y)
  <2>1. PICK p, q : p = InField(cfg, M2, y) /\ q = InField(tab, M2, y)
    OBVIOUS
  <2>2. p \in Nat /\ q \in Nat /\ n = p + q
    BY <1>0, <1>9, <2>1
  <2>3. o + n = o + p + q
    BY <1>10, <2>2
  <2> QED
    BY <1>8, <1>9, <1>14, <2>1, <2>3
<1>16. InField(cfg, M2, y)' = InField(cfg, M2, y) /\ InField(tab, M2, y)' = InField(tab, M2, y)
  BY DEF InField, ChildRefs
<1> QED
  BY <1>1, <1>15, <1>16 DEF Counted

LEMMA TopIsOf ==
  ASSUME TopInv, stack # <<>>
  PROVE  /\ Top.f = "count" => \E w \in Seq(WorkCalls), e \in Ends, r \in Nodes, c \in CountCalls, s \in Seq(CountCalls) :
                                 CountTop(w, e, r, c, s)
         /\ Top.f = "mark" => \E w \in Seq(WorkCalls), e \in Ends, r \in Nodes :
                                 FirstMarkTop(w, e, r) \/ \E c \in MarkCalls, s \in Seq(MarkCalls) : MarkTop(w, e, r, c, s)
         /\ Top.f = "decide" => \E w \in Seq(WorkCalls), e \in Ends, r \in Nodes, t \in Seq(PlainCalls) : DecideTop(w, e, r, t)
         /\ Top.f = "reset" => \E w \in Seq(WorkCalls), e \in Ends, c \in ResetCalls, s \in Seq(ResetCalls) : ResetTop(w, e, c, s)
         /\ Top.f = "settab" => \E c \in TableCalls : TableTop(c)
         /\ Top.f \in {"free", "free_priv", "priv_freed", "drop"} =>
              \E w \in Seq(WorkCalls), e \in Ends, c \in PlainCalls, t \in Seq(PlainCalls) : PlainTop(w, e, c, t)
         /\ Top.f \in {"count", "mark", "decide", "reset", "settab", "free", "free_priv", "priv_freed", "drop"}
<1>1. /\ \A w, e, r, c, s : CountTop(w, e, r, c, s) => Top = c
      /\ \A w, e, r : FirstMarkTop(w, e, r) => Top = MarkCall(r, "FREEABLE")
      /\ \A w, e, r, c, s : MarkTop(w, e, r, c, s) => Top = c
      /\ \A w, e, r, t : DecideTop(w, e, r, t) => Top = Call("decide", r)
      /\ \A w, e, c, s : ResetTop(w, e, c, s) => Top = c
      /\ \A w, e, c, t : PlainTop(w, e, c, t) => Top = c
      /\ \A c : TableTop(c) => Top = c
      /\ ~NoTop
  BY DEF CountTop, FirstMarkTop, MarkTop, DecideTop, ResetTop, PlainTop, TableTop, NoTop
<1>2. /\ \A c \in CountCalls : c.f = "count"
      /\ \A r : MarkCall(r, "FREEABLE").f = "mark" /\ Call("decide", r).f = "decide"
      /\ \A c \in MarkCalls : c.f = "mark"
      /\ \A c \in ResetCalls : c.f = "reset"
      /\ \A c \in PlainCalls : c.f \in {"free", "free_priv", "priv_freed", "drop"}
      /\ \A c \in TableCalls : c.f = "settab"
  BY DEF CountCalls, MarkCall, Call, MarkCalls, ResetCalls, PlainCalls, TableCalls
<1>3. CASE \E w \in Seq(WorkCalls), e \in Ends, r \in Nodes, c \in CountCalls, s \in Seq(CountCalls) : CountTop(w, e, r, c, s)
  BY <1>1, <1>2, <1>3
<1>4. CASE \E w \in Seq(WorkCalls), e \in Ends, r \in Nodes : FirstMarkTop(w, e, r)
  BY <1>1, <1>2, <1>4
<1>5. CASE \E w \in Seq(WorkCalls), e \in Ends, r \in Nodes, c \in MarkCalls, s \in Seq(MarkCalls) : MarkTop(w, e, r, c, s)
  BY <1>1, <1>2, <1>5
<1>6. CASE \E w \in Seq(WorkCalls), e \in Ends, r \in Nodes, t \in Seq(PlainCalls) : DecideTop(w, e, r, t)
  BY <1>1, <1>2, <1>6
<1>7. CASE \E w \in Seq(WorkCalls), e \in Ends, c \in ResetCalls, s \in Seq(ResetCalls) : ResetTop(w, e, c, s)
  BY <1>1, <1>2, <1>7
<1>8. CASE \E w \in Seq(WorkCalls), e \in Ends, c \in PlainCalls, t \in Seq(PlainCalls) : PlainTop(w, e, c, t)
  BY <1>1, <1>2, <1>8
<1>9. CASE \E c \in TableCalls : TableTop(c)
  BY <1>1, <1>2, <1>9
<1> QED
  BY <1>1, <1>3, <1>4, <1>5, <1>6, <1>7, <1>8, <1>9 DEF TopInv

LEMMA CountingStep ==
  ASSUME NEW w \in Seq(WorkCalls), NEW e \in Ends, NEW r \in Nodes, NEW s \in Seq(CountCalls),
         stack' = (s \o <<MarkCall(r, "FREEABLE")>>) \o (w \o e), BaseInv(w, e)', DecideFirst(w, r),
         Counting(s \o <<MarkCall(r, "FREEABLE")>>, r, w, e, s)'
  PROVE  IInv'
<1>1. PICK a : a = s \o <<MarkCall(r, "FREEABLE")>>
  OBVIOUS
<1>2. MarkCall(r, "FREEABLE") \in Calls
  BY DEF MarkCall, MarkCalls, Calls
<1>3. a \in Seq(Calls)
  <2>1. s \in Seq(Calls) /\ <<MarkCall(r, "FREEABLE")>> \in Seq(Calls)
    BY <1>2, CallsTyped
  <2> QED
    BY <1>1, <2>1, ConcatProperties
<1>4. PhaseInv(a, w, e)'
  BY <1>1 DEF PhaseInv, DecideFirst
<1>5. StackInv(a, w, e)'
  BY <1>1, <1>4 DEF StackInv
<1> QED
  BY <1>3, <1>5 DEF IInv

LEMMA CountStep == IInv /\ Count /\ UNCHANGED single => IInv'
<1> SUFFICES ASSUME IInv, Count, UNCHANGED single PROVE IInv'
  OBVIOUS
<1>1. stack # <<>> /\ Top.f = "count"
  BY DEF Count, At
<1>2. PICK w \in Seq(WorkCalls), e \in Ends, r \in Nodes, c \in CountCalls, s \in Seq(CountCalls) : CountTop(w, e, r, c, s)
  BY <1>1, StackHasTop, TopIsOf
<1>3. PICK m, x, k, M : m = MarkCall(r, "FREEABLE") /\ x = c.n /\ k = c.refs /\ M = Marked
  OBVIOUS
<1>4. x \in Nodes /\ k \in {1, 2} /\ Node = x /\ Top.refs = k /\ k \in Nat
  BY <1>2, <1>3 DEF CountTop, Node, CountCalls
<1>5. /\ BaseInv(w, e) /\ DecideFirst(w, r) /\ refcnt[r] > 1 /\ M = With("TRAVERSED")
      /\ M \cap Opened(w, e) = {} /\ Found({r}, M) /\ Apart(r, Kids({r}))
      /\ \A y \in Nodes : Counted(<<c>> \o s, r, M, y)
      /\ Tail(stack) = (s \o <<m>>) \o (w \o e)
  BY <1>2, <1>3 DEF CountTop, Counting
<1>6. NodesOf(<<c>> \o s) = {x} \cup NodesOf(s)
  BY <1>3, NodesOfCons
<1>7. /\ r \in M \cup {x} \cup NodesOf(s) /\ Kids(M) \subseteq M \cup {x} \cup NodesOf(s)
      /\ x \in {r} \cup Kids(M) /\ NodesOf(s) \subseteq {r} \cup Kids(M)
  <2>1. /\ r \in M \cup NodesOf(<<c>> \o s) /\ Kids(M) \subseteq M \cup NodesOf(<<c>> \o s)
        /\ NodesOf(<<c>> \o s) \subseteq {r} \cup Kids(M)
    BY <1>2, <1>3 DEF CountTop, Counting
  <2> QED
    BY <1>6, <2>1
<1>8. /\ state \in [Nodes -> States] /\ frefs \in [Nodes -> Nat] /\ refcnt \in [Nodes -> Nat] /\ IsField(cfg) /\ IsField(tab)
      /\ \A y \in Nodes : NodeInv(y)
  BY <1>5 DEF BaseInv, TypeInv, NodesInv
<1>9. /\ mem' = mem /\ refcnt' = refcnt /\ cfg' = cfg /\ tab' = tab /\ held' = held /\ single' = single
  BY DEF Count
<1>10. M \in SUBSET Nodes /\ \A y \in Nodes : y \in M <=> state[y] = "TRAVERSED"
  BY <1>5 DEF With
<1>11. ASSUME state[x] = "TRAVERSED" PROVE IInv'
  <2>1. frefs' = [frefs EXCEPT ![x] = frefs[x] + k] /\ state' = state /\ stack' = (s \o <<m>>) \o (w \o e)
    BY <1>4, <1>5, <1>11 DEF Count, Return
  <2>2. frefs' \in [Nodes -> Nat] /\ \A y \in Nodes : frefs'[y] = frefs[y] + IF y = x THEN k ELSE 0
    BY <1>4, <1>8, <2>1
  <2>3. \A y \in Nodes \ {x} : frefs'[y] = frefs[y]
    BY <2>1, <1>8
  <2>4. BaseInv(w, e)'
    <3>1. ASSUME NEW y \in Nodes
          PROVE  /\ state[y] = "FREEING" <=> state'[y] = "FREEING"
                 /\ state[y] = "FREEING" => frefs'[y] = frefs[y]
                 /\ state'[y] = "NONE" => frefs'[y] = 0
                 /\ ~InMemory(y) => state'[y] = "NONE"
      BY <1>8, <1>11, <2>1, <2>3 DEF NodeInv
    <3> QED
      BY <1>5, <1>8, <1>9, <2>1, <2>2, <3>1, PhaseKeepsBase
  <2>5. ASSUME NEW y \in Nodes PROVE Counted(s, r, M, y)'
    <3>1. <<>> \in Seq(CountCalls) /\ <<>> \o s = s
      BY ConcatEmptySeq
    <3>2. Occ(<<>>, {CountCall(y, 1)}) + 2 * Occ(<<>>, {CountCall(y, 2)}) = 0
      BY OccEmpty
    <3>3. InField(cfg, M, y) \in Nat /\ InField(tab, M, y) \in Nat
      BY <1>10, ChildRefsFinite
    <3>4. InField(cfg, M, y) + InField(tab, M, y) = InField(cfg, M, y) + InField(tab, M, y) + 0
      BY <3>3
    <3>5. frefs'[y] = frefs[y] + IF y = c.n THEN c.refs ELSE 0
      BY <1>3, <2>2
    <3>6. frefs[y] \in Nat /\ Counted(<<c>> \o s, r, M, y) /\ 0 \in Nat /\ UNCHANGED <<cfg, tab>>
      BY <1>5, <1>8, <1>9
    <3>7. Counted(<<>> \o s, r, M, y)'
      BY <1>10, <3>1, <3>2, <3>4, <3>5, <3>6, CountedNext
    <3> QED
      BY <3>1, <3>7
  <2>6. Marked' = M /\ With("TRAVERSED")' = M
    BY <1>3, <1>5, <2>1 DEF Marked, With
  <2>7. x \in M
    BY <1>4, <1>10, <1>11
  <2>8. Counting(s \o <<m>>, r, w, e, s)'
    <3>1. /\ s \o <<m>> = s \o <<MarkCall(r, "FREEABLE")>> /\ refcnt'[r] > 1
          /\ Marked' = With("TRAVERSED")' /\ Marked' \cap Opened(w, e) = {}
      BY <1>3, <1>5, <1>9, <2>6
    <3>2. /\ r \in M \cup NodesOf(s) /\ Kids(M) \subseteq M \cup NodesOf(s) /\ NodesOf(s) \subseteq {r} \cup Kids(M)
      BY <1>7, <2>7
    <3>3. Kids(Marked)' = Kids(M) /\ Found({r}, Marked)' /\ Apart(r, Kids({r}))'
      BY <1>5, <1>9, <2>6, SameFound, SameApart
    <3>4. \A y \in Nodes : Counted(s, r, Marked, y)'
      BY <2>5, <2>6 DEF Counted, InField, ChildRefs
    <3> QED
      BY <2>6, <3>1, <3>2, <3>3, <3>4 DEF Counting
  <2> QED
    BY <1>3, <1>5, <2>1, <2>4, <2>8, CountingStep
<1>12. ASSUME state[x] # "TRAVERSED" PROVE IInv'
  <2>1. refcnt[x] > 0 /\ InMemory(x) /\ state[x] # "FREEING"
    <3>1. CASE x = r
      <4>1. state[x] # "FREEING"
        BY <1>4, <1>5, <3>1 DEF BaseInv, FreeingInv, With
      <4>2. NodeInv(x) /\ refcnt[x] > 0
        BY <1>4, <1>5, <1>8, <3>1
      <4> QED
        BY <4>1, <4>2 DEF NodeInv
    <3>2. CASE x \in Kids(M)
      <4>1. PICK p \in M : x \in Range(tab[p])
        BY <3>2, KidsIs
      <4>2. p \in Nodes /\ state[p] # "FREEING"
        BY <1>10, <4>1
      <4>3. refcnt[x] > 0 /\ Alive(x) /\ state[x] # "FREEING"
        BY <1>5, <4>1, <4>2, KidsStay
      <4> QED
        BY <4>3 DEF Alive, InMemory
    <3> QED
      BY <1>7, <3>1, <3>2
  <2>2. x \notin M /\ state[x] = "NONE" /\ frefs[x] = 0
    <3>1. x \notin M
      BY <1>4, <1>10, <1>12
    <3>2. state[x] \notin {"TRAVERSED", "FREEABLE", "NOT_FREEABLE"}
      BY <1>3, <1>4, <3>1, MarkedTyped
    <3>3. state[x] = "NONE"
      BY <1>4, <1>8, <2>1, <3>2 DEF States
    <3> QED
      BY <1>4, <1>8, <3>1, <3>3 DEF NodeInv
  <2>3. PICK kids, refs : kids = tab[x] /\ refs = RefsOf(x)
    OBVIOUS
  <2>4. kids \in Seq(Nodes) /\ cfg[x] \in Seq(Nodes) /\ refs = IF x \in single THEN 1 ELSE 2
    BY <1>4, <1>8, <2>3 DEF IsField, RefsOf
  <2>5. refs \in {1, 2}
    BY <2>4
  <2>6. PICK u : u = CountsOf(kids, refs)
    OBVIOUS
  <2>7. /\ u \in Seq(CountCalls) /\ NodesOf(u) = Range(kids)
        /\ \A y \in Nodes : Occ(u, {CountCall(y, refs)}) = Times(kids, y)
        /\ \A y \in Nodes, j \in {1, 2} \ {refs} : Occ(u, {CountCall(y, j)}) = 0
    <3>1. AreCounts(u, kids, refs)
      BY <2>4, <2>5, <2>6, CountsIs
    <3> QED
      BY <3>1 DEF AreCounts
  <2>8. /\ frefs' = [frefs EXCEPT ![x] = k] /\ state' = [state EXCEPT ![x] = "TRAVERSED"]
        /\ stack' = u \o ((s \o <<m>>) \o (w \o e))
    BY <1>4, <1>5, <1>12, <2>3, <2>6 DEF Count, Replace, CountsOf
  <2>9. stack' = ((u \o s) \o <<m>>) \o (w \o e) /\ u \o s \in Seq(CountCalls)
    <3>1. <<m>> \in Seq(Calls)
      BY <1>3 DEF MarkCall, MarkCalls, Calls
    <3>2. u \in Seq(Calls) /\ s \in Seq(Calls) /\ w \in Seq(Calls) /\ e \in Seq(Calls)
      BY <2>7, CallsTyped
    <3>3. w \o e \in Seq(Calls) /\ s \o <<m>> \in Seq(Calls)
      BY <3>1, <3>2, ConcatProperties
    <3>4. u \o ((s \o <<m>>) \o (w \o e)) = (u \o (s \o <<m>>)) \o (w \o e)
      BY SMTT(40), <3>2, <3>3, Assoc
    <3>5. u \o (s \o <<m>>) = (u \o s) \o <<m>>
      BY <3>1, <3>2, ConcatAssociative
    <3>6. u \o s \in Seq(CountCalls)
      BY <2>7, ConcatProperties
    <3> QED
      BY <2>8, <3>4, <3>5, <3>6
  <2>10. /\ frefs' \in [Nodes -> Nat] /\ state' \in [Nodes -> States] /\ state'[x] = "TRAVERSED" /\ frefs'[x] = k
         /\ \A y \in Nodes \ {x} : frefs'[y] = frefs[y] /\ state'[y] = state[y]
    BY <1>4, <1>8, <2>8 DEF States
  <2>11. BaseInv(w, e)'
    <3>1. ASSUME NEW y \in Nodes
          PROVE  /\ state[y] = "FREEING" <=> state'[y] = "FREEING"
                 /\ state[y] = "FREEING" => frefs'[y] = frefs[y]
                 /\ state'[y] = "NONE" => frefs'[y] = 0
                 /\ ~InMemory(y) => state'[y] = "NONE"
      BY <1>8, <2>1, <2>10 DEF NodeInv
    <3> QED
      BY <1>5, <1>9, <2>10, <3>1, PhaseKeepsBase
  <2>12. PICK M2 : M2 = M \cup {x}
    OBVIOUS
  <2>13. Marked' = M2 /\ With("TRAVERSED")' = M2 /\ M2 \in SUBSET Nodes
    BY ZenonT(60), <1>3, <1>4, <1>5, <1>8, <1>10, <2>8, <2>12, MarkedChange DEF States
  <2>14. ASSUME NEW y \in Nodes PROVE Counted(u \o s, r, M2, y)'
    <3>1. PICK more : more = Times(cfg[x], y) + Times(kids, y)
      OBVIOUS
    <3>2. Times(cfg[x], y) \in Nat /\ Times(kids, y) \in Nat
      BY <2>4, TimesIs
    <3>3. Occ(u, {CountCall(y, 1)}) + 2 * Occ(u, {CountCall(y, 2)}) = more
      <4>1. CASE x \in single
        <5>1. cfg[x] = <<>> /\ refs = 1
          BY <1>4, <1>8, <2>4, <4>1 DEF NodeInv
        <5>2. Times(cfg[x], y) = 0 /\ Occ(u, {CountCall(y, 1)}) = Times(kids, y) /\ Occ(u, {CountCall(y, 2)}) = 0
          BY <2>7, <5>1, TimesEmpty
        <5> QED
          BY <3>1, <3>2, <5>2
      <4>2. CASE x \notin single
        <5>1. cfg[x] = kids /\ refs = 2
          BY <1>4, <1>8, <2>1, <2>3, <2>4, <4>2 DEF NodeInv
        <5>2. Times(cfg[x], y) = Times(kids, y) /\ Occ(u, {CountCall(y, 2)}) = Times(kids, y) /\ Occ(u, {CountCall(y, 1)}) = 0
          BY <2>7, <5>1
        <5> QED
          BY <3>1, <3>2, <5>2
      <4> QED
        BY <4>1, <4>2
    <3>4. InField(cfg, M2, y) = InField(cfg, M, y) + Times(cfg[x], y)
      BY <1>4, <1>8, <1>10, <2>2, <2>12, InFieldAdd
    <3>5. InField(tab, M2, y) = InField(tab, M, y) + Times(kids, y)
      <4>1. InField(tab, M2, y) = InField(tab, M, y) + Times(tab[x], y)
        BY <1>4, <1>8, <1>10, <2>2, <2>12, InFieldAdd
      <4> QED
        BY <2>3, <4>1
    <3>6. InField(cfg, M, y) \in Nat /\ InField(tab, M, y) \in Nat
      BY <1>10, ChildRefsFinite
    <3>7. InField(cfg, M2, y) + InField(tab, M2, y) = InField(cfg, M, y) + InField(tab, M, y) + more
      BY <3>1, <3>2, <3>4, <3>5, <3>6
    <3>8. frefs'[y] = frefs[y] + IF y = c.n THEN c.refs ELSE 0
      <4>1. CASE y = x
        BY <1>3, <1>4, <2>2, <2>10, <4>1
      <4>2. CASE y # x
        BY <1>3, <1>8, <2>10, <4>2
      <4> QED
        BY <4>1, <4>2
    <3>9. frefs[y] \in Nat /\ Counted(<<c>> \o s, r, M, y) /\ more \in Nat /\ UNCHANGED <<cfg, tab>>
      <4>1. more \in Nat
        BY <3>1, <3>2
      <4> QED
        BY <1>5, <1>8, <1>9, <4>1
    <3> QED
      BY <1>10, <2>7, <2>13, <3>3, <3>7, <3>8, <3>9, CountedNext
  <2>15. x \notin Opened(w, e)
    <3>1. Call("priv_freed", x) \notin Range(w)
      <4>1. Paired(w) /\ Dropping(w)
        BY <1>5 DEF BaseInv
      <4>2. Call("priv_freed", x) \in OpenCalls(x) /\ x \notin With("FREEING")
        BY <2>1 DEF OpenCalls, With
      <4> QED
        BY <1>4, <4>1, <4>2, OpenIsFreeing
    <3>2. ASSUME NEW d \in Range(e), d.n = x PROVE FALSE
      <4>1. PICK D \in SUBSET Nodes : x \notin D /\ Kids(D) \subseteq D /\ NodesOf(w) \subseteq D
        BY <1>5, <3>2 DEF BaseInv, Ending, Apart
      <4>2. PICK t \in Seq(PlainCalls) : w = <<Call("decide", r)>> \o t
        BY <1>5 DEF DecideFirst
      <4>3. t \in Seq(WorkCalls) /\ Call("decide", r) \in WorkCalls /\ Call("decide", r).n = r
        BY PlainIsWork, CallIs
      <4>4. r \in NodesOf(w)
        BY <4>2, <4>3, NodesOfCons
      <4>5. Kids(D \cap M) \subseteq D
        BY <4>1, KidsOf
      <4>6. M \subseteq D
        BY <1>5, <4>1, <4>4, <4>5 DEF Found
      <4>7. Kids(M) \subseteq D
        BY <4>1, <4>6, KidsOf
      <4> QED
        BY <1>7, <4>1, <4>4, <4>7
    <3> QED
      BY <3>1, <3>2 DEF Opened, NodesOf
  <2>16. Counting((u \o s) \o <<m>>, r, w, e, u \o s)'
    <3>1. /\ (u \o s) \o <<m>> = (u \o s) \o <<MarkCall(r, "FREEABLE")>> /\ refcnt'[r] > 1
          /\ Marked' = With("TRAVERSED")' /\ Marked' \cap Opened(w, e) = {}
      BY <1>3, <1>5, <1>9, <2>12, <2>13, <2>15
    <3>2. NodesOf(u \o s) = Range(kids) \cup NodesOf(s) /\ Kids(M2) = Kids(M) \cup Range(kids)
      <4>1. NodesOf(u \o s) = NodesOf(u) \cup NodesOf(s)
        BY <2>7, NodesOfConcat
      <4>2. Kids(M \cup {x}) = Kids(M) \cup Kids({x}) /\ Kids({x}) = Range(tab[x])
        BY KidsOf
      <4> QED
        BY <2>3, <2>7, <2>12, <4>1, <4>2
    <3>3. r \in M2 \cup NodesOf(u \o s) /\ Kids(M2) \subseteq M2 \cup NodesOf(u \o s) /\ NodesOf(u \o s) \subseteq {r} \cup Kids(M2)
      BY <1>7, <2>12, <3>2
    <3>4. Found({r}, M2)
      BY <1>5, <1>7, <1>10, <2>12, FoundUp
    <3>5. Kids(Marked)' = Kids(M2) /\ Found({r}, Marked)' /\ Apart(r, Kids({r}))'
      BY <1>5, <1>9, <2>13, <3>4, SameFound, SameApart
    <3>6. \A y \in Nodes : Counted(u \o s, r, Marked, y)'
      BY <2>13, <2>14 DEF Counted, InField, ChildRefs
    <3> QED
      BY <2>13, <3>1, <3>3, <3>5, <3>6 DEF Counting
  <2> QED
    BY <1>3, <1>5, <2>9, <2>11, <2>16, CountingStep
<1> QED
  BY <1>11, <1>12

-----------------------------------------------------------------------------
(***************************************************************************)
(* mark_freeable()                                                         *)
(***************************************************************************)

LEMMA MarkingStep ==
  ASSUME NEW w \in Seq(WorkCalls), NEW e \in Ends, NEW r \in Nodes, NEW a \in Seq(MarkCalls),
         stack' = a \o (w \o e), BaseInv(w, e)', DecideFirst(w, r), Marking(a, r, w, e)'
  PROVE  IInv'
<1>1. a \in Seq(Calls)
  BY CallsTyped
<1>2. PhaseInv(a, w, e)'
  BY DEF PhaseInv, DecideFirst
<1>3. StackInv(a, w, e)'
  BY <1>2 DEF StackInv
<1> QED
  BY <1>1, <1>3 DEF IInv

\* a state that changes from a mark to another
LEMMA MarkKeepsBase ==
  ASSUME NEW w \in Seq(WorkCalls), NEW e \in Ends, BaseInv(w, e),
         UNCHANGED <<single, mem, refcnt, frefs, cfg, tab, held>>,
         NEW x \in Marked, NEW v \in {"TRAVERSED", "FREEABLE", "NOT_FREEABLE"}, state' = [state EXCEPT ![x] = v]
  PROVE  BaseInv(w, e)' /\ Marked' = Marked
<1>1. /\ state \in [Nodes -> States] /\ frefs \in [Nodes -> Nat] /\ \A y \in Nodes : NodeInv(y)
  BY DEF BaseInv, TypeInv, NodesInv
<1>2. x \in Nodes /\ Alive(x) /\ state[x] # "FREEING" /\ v \in States
  BY MarkedIsThere DEF States
<1>3. /\ state' \in [Nodes -> States] /\ state'[x] = v /\ (\A y \in Nodes \ {x} : state'[y] = state[y])
      /\ Marked' = Marked \cup {x}
  BY <1>1, <1>2, MarkedChange
<1>4. ASSUME NEW y \in Nodes
      PROVE  /\ state[y] = "FREEING" <=> state'[y] = "FREEING"
             /\ state[y] = "FREEING" => frefs'[y] = frefs[y]
             /\ state'[y] = "NONE" => frefs'[y] = 0
             /\ ~InMemory(y) => state'[y] = "NONE"
  BY <1>1, <1>2, <1>3 DEF NodeInv, InMemory, Alive
<1>5. frefs' \in [Nodes -> Nat]
  BY <1>1
<1> QED
  BY <1>3, <1>4, <1>5, PhaseKeepsBase

\* Without loops, ec_node_free() is called on a node with a reference from
\* outside of what it reaches.
LEMMA RootNotBelow ==
  ASSUME NEW w \in Seq(WorkCalls), NEW e \in Ends, BaseInv(w, e), NEW r \in Nodes,
         Found({r}, Marked), Apart(r, Kids({r}))
  PROVE  InField(cfg, Marked, r) = 0 /\ InField(tab, Marked, r) = 0
<1>1. PICK M : M = Marked
  OBVIOUS
<1>2. M \in SUBSET Nodes
  BY <1>1, MarkedTyped
<1>3. PICK D \in SUBSET Nodes : r \notin D /\ Kids(D) \subseteq D /\ Kids({r}) \subseteq D
  BY DEF Apart
<1>4. PICK S : S = {r} \cup D
  OBVIOUS
<1>5. Kids(S) \subseteq D
  BY <1>3, <1>4, KidsOf
<1>6. S \in SUBSET Nodes /\ {r} \subseteq S /\ Kids(S \cap M) \subseteq S
  <2>1. S \cap M \subseteq S
    OBVIOUS
  <2>2. Kids(S \cap M) \subseteq Kids(S)
    BY <2>1, KidsOf
  <2> QED
    BY <1>4, <1>5, <2>2
<1>7. M \subseteq S
  BY <1>1, <1>6 DEF Found
<1>8. Kids(M) \subseteq D
  BY <1>5, <1>7, KidsOf
<1>9. ASSUME NEW p \in M PROVE r \notin Range(tab[p]) /\ r \notin Range(cfg[p])
  <2>1. r \notin Range(tab[p])
    BY <1>3, <1>8, KidsIs
  <2>2. p \in Nodes /\ Alive(p) /\ state[p] # "FREEING"
    BY <1>1, MarkedIsThere
  <2>3. Range(cfg[p]) \subseteq Range(tab[p])
    BY <2>2, StaysAlive DEF Alive, InMemory
  <2> QED
    BY <2>1, <2>3
<1>10. IsField(cfg) /\ IsField(tab)
  BY DEF BaseInv, TypeInv
<1>11. ~(InField(cfg, M, r) > 0) /\ ~(InField(tab, M, r) > 0)
  BY <1>2, <1>9, <1>10, InFieldPositive
<1>12. InField(cfg, M, r) \in Nat /\ InField(tab, M, r) \in Nat
  BY <1>2, ChildRefsFinite
<1> QED
  BY <1>1, <1>11, <1>12

LEMMA FirstMarkStep ==
  ASSUME Mark, UNCHANGED single, NEW w \in Seq(WorkCalls), NEW e \in Ends, NEW r \in Nodes, FirstMarkTop(w, e, r)
  PROVE  IInv'
<1>1. PICK M : M = Marked
  OBVIOUS
<1>2. /\ BaseInv(w, e) /\ DecideFirst(w, r) /\ refcnt[r] > 1 /\ M = With("TRAVERSED")
      /\ M \cap Opened(w, e) = {} /\ Found({r}, M) /\ Apart(r, Kids({r}))
      /\ r \in M /\ Kids(M) \subseteq M
      /\ \A y \in Nodes : Counted(<<>>, r, M, y)
      /\ Top = MarkCall(r, "FREEABLE") /\ Tail(stack) = w \o e
  BY <1>1, NoCalls DEF FirstMarkTop, Counting
<1>3. M \in SUBSET Nodes /\ state[r] = "TRAVERSED"
  BY <1>1, <1>2, MarkedTyped DEF With
<1>4. Node = r /\ Top.mark = "FREEABLE"
  BY <1>2 DEF Node, MarkCall
<1>5. /\ state \in [Nodes -> States] /\ frefs \in [Nodes -> Nat] /\ refcnt \in [Nodes -> Nat] /\ IsField(tab)
  BY <1>2 DEF BaseInv, TypeInv
<1>6. ASSUME NEW y \in Nodes
      PROVE  frefs[y] = (IF y = r THEN 1 ELSE 0) + (InField(cfg, M, y) + InField(tab, M, y))
  <2>1. PICK f, i, j : f = frefs[y] /\ i = InField(cfg, M, y) /\ j = InField(tab, M, y)
    OBVIOUS
  <2>2. f \in Nat /\ i \in Nat /\ j \in Nat
    BY <1>3, <1>5, <2>1, ChildRefsFinite
  <2>3. PICK o : o = One(y = r)
    OBVIOUS
  <2>4. o = IF y = r THEN 1 ELSE 0
    BY <2>3 DEF One
  <2>5. f + 0 + 2 * 0 = o + i + j
    <3>1. Counted(<<>>, r, M, y)
      BY <1>2
    <3>2. f + Occ(<<>>, {CountCall(y, 1)}) + 2 * Occ(<<>>, {CountCall(y, 2)}) = o + i + j
      BY <2>1, <2>3, <3>1 DEF Counted
    <3>3. Occ(<<>>, {CountCall(y, 1)}) = 0 /\ Occ(<<>>, {CountCall(y, 2)}) = 0
      BY OccEmpty
    <3> QED
      BY <3>2, <3>3
  <2>6. f = o + (i + j)
    BY <2>2, <2>4, <2>5
  <2> QED
    BY <2>1, <2>4, <2>6
<1>7. frefs[r] = 1
  <2>1. InField(cfg, M, r) = 0 /\ InField(tab, M, r) = 0
    BY <1>1, <1>2, RootNotBelow
  <2> QED
    BY <1>6, <2>1
<1>8. NewMark(r, "FREEABLE") = "NOT_FREEABLE"
  BY <1>2, <1>7 DEF NewMark
<1>9. PICK a : a = MarksOf(tab[r], "NOT_FREEABLE")
  OBVIOUS
<1>10. /\ state' = [state EXCEPT ![r] = "NOT_FREEABLE"] /\ stack' = a \o (w \o e)
       /\ mem' = mem /\ refcnt' = refcnt /\ frefs' = frefs /\ cfg' = cfg /\ tab' = tab /\ held' = held /\ single' = single
  BY <1>2, <1>3, <1>4, <1>8, <1>9 DEF Mark, Replace, MarksOf
<1>11. a \in Seq(MarkCalls) /\ NodesOf(a) = Range(tab[r]) /\ \A c \in Range(a) : c.mark = "NOT_FREEABLE"
  <2>1. tab[r] \in Seq(Nodes)
    BY <1>5 DEF IsField
  <2> QED
    BY <1>9, <2>1, MarksIs
<1>12. BaseInv(w, e)' /\ Marked' = M
  BY <1>1, <1>2, <1>10, MarkKeepsBase
<1>13. ASSUME NEW y \in M PROVE frefs[y] <= refcnt[y]
  <2>0. y \in Nodes
    BY <1>3
  <2>1. PICK f, i, j, o, k : f = frefs[y] /\ i = InField(cfg, M, y) /\ j = InField(tab, M, y)
                             /\ o = Occ(w, RefCalls(y)) /\ k = refcnt[y]
    OBVIOUS
  <2>2. i \in Nat /\ j \in Nat /\ i + j + o <= k
    BY <1>2, <1>3, <2>0, <2>1, CountedAtMost
  <2>3. o \in Nat /\ k \in Nat
    BY <1>5, <2>0, <2>1, OccFinite
  <2>4. f = (IF y = r THEN 1 ELSE 0) + (i + j)
    BY <1>6, <2>0, <2>1
  <2>5. y = r => o > 0
    <3>1. PICK t \in Seq(PlainCalls) : w = <<Call("decide", r)>> \o t
      BY <1>2 DEF DecideFirst
    <3>2. t \in Seq(WorkCalls) /\ Call("decide", r) \in WorkCalls
      BY PlainIsWork, CallIs
    <3>3. Call("decide", r) \in Range(w)
      BY <3>1, <3>2, ConsIs
    <3>4. Range(w) \cap RefCalls(r) # {}
      BY <3>3 DEF RefCalls
    <3> QED
      BY <2>1, <3>4, OccPositive
  <2>6. f <= k
    BY <2>2, <2>3, <2>4, <2>5
  <2> QED
    BY <2>1, <2>6
<1>14. Marking(a, r, w, e)'
  <2>1. state'[r] = "NOT_FREEABLE"
    BY <1>5, <1>10
  <2>2. NodesOf(a) \subseteq M
    <3>1. {r} \subseteq M
      BY <1>2
    <3>2. Kids({r}) \subseteq Kids(M) /\ Kids({r}) = Range(tab[r])
      BY <3>1, KidsOf
    <3> QED
      BY <1>2, <1>11, <3>2
  <2>3. Found({r}, Marked)' /\ Kids(Marked)' = Kids(M)
    BY <1>2, <1>10, <1>12, SameFound
  <2>4. \A y \in Marked' : frefs'[y] <= refcnt'[y]
    BY <1>10, <1>12, <1>13
  <2> QED
    BY <1>2, <1>10, <1>11, <1>12, <2>1, <2>2, <2>3, <2>4 DEF Marking
<1> QED
  BY <1>2, <1>10, <1>11, <1>12, <1>14, MarkingStep

LEMMA MarkAgainStep ==
  ASSUME Mark, UNCHANGED single, NEW w \in Seq(WorkCalls), NEW e \in Ends, NEW r \in Nodes,
         NEW c \in MarkCalls, NEW s \in Seq(MarkCalls), MarkTop(w, e, r, c, s)
  PROVE  IInv'
<1>1. PICK M, x : M = Marked /\ x = c.n
  OBVIOUS
<1>2. /\ BaseInv(w, e) /\ DecideFirst(w, r) /\ Marking(<<c>> \o s, r, w, e)
      /\ Top = c /\ Tail(stack) = s \o (w \o e)
  BY DEF MarkTop
<1>3. /\ Range(<<c>> \o s) = {c} \cup Range(s) /\ NodesOf(<<c>> \o s) = {x} \cup NodesOf(s)
  BY <1>1, ConsIs, NodesOfCons
<1>4. /\ c.mark = "NOT_FREEABLE" /\ \A d \in Range(s) : d.mark = "NOT_FREEABLE"
      /\ refcnt[r] > 1 /\ state[r] = "NOT_FREEABLE" /\ M \cap Opened(w, e) = {}
      /\ x \in M /\ NodesOf(s) \subseteq M /\ Kids(M) \subseteq M /\ Found({r}, M)
      /\ \A y \in M : frefs[y] <= refcnt[y]
  BY <1>1, <1>2, <1>3 DEF Marking
<1>5. /\ state \in [Nodes -> States] /\ IsField(tab) /\ x \in Nodes
      /\ mem' = mem /\ refcnt' = refcnt /\ frefs' = frefs /\ cfg' = cfg /\ tab' = tab /\ held' = held /\ single' = single
  BY <1>1, <1>2 DEF BaseInv, TypeInv, MarkCalls, Mark
<1>6. Node = x /\ Top.mark = "NOT_FREEABLE"
  BY <1>1, <1>2, <1>4 DEF Node
<1>7. ASSUME NEW a \in Seq(MarkCalls), \A d \in Range(a) : d.mark = "NOT_FREEABLE", NodesOf(a) \subseteq M,
             stack' = a \o (w \o e), BaseInv(w, e)', Marked' = M, state'[r] = "NOT_FREEABLE"
      PROVE  IInv'
  <2>1. Found({r}, Marked)' /\ Kids(Marked)' = Kids(M)
    BY <1>4, <1>5, <1>7, SameFound
  <2>2. \A y \in Marked' : frefs'[y] <= refcnt'[y]
    BY <1>4, <1>5, <1>7
  <2>3. Marking(a, r, w, e)'
    BY <1>4, <1>5, <1>7, <2>1, <2>2 DEF Marking
  <2> QED
    BY <1>2, <1>7, <2>3, MarkingStep
<1>8. CASE state[x] = "NOT_FREEABLE"
  <2>1. stack' = s \o (w \o e) /\ state' = state
    BY <1>2, <1>6, <1>8 DEF Mark, Return
  <2>2. state' = [state EXCEPT ![x] = "NOT_FREEABLE"]
    BY <1>5, <1>8, <2>1
  <2>3. BaseInv(w, e)' /\ Marked' = M
    BY <1>1, <1>2, <1>4, <1>5, <2>2, MarkKeepsBase
  <2> QED
    BY <1>4, <1>7, <2>1, <2>3
<1>9. CASE state[x] # "NOT_FREEABLE"
  <2>1. NewMark(x, "NOT_FREEABLE") = "NOT_FREEABLE"
    BY DEF NewMark
  <2>2. PICK u : u = MarksOf(tab[x], "NOT_FREEABLE")
    OBVIOUS
  <2>3. state' = [state EXCEPT ![x] = "NOT_FREEABLE"] /\ stack' = u \o (s \o (w \o e))
    BY ZenonT(60), <1>2, <1>6, <1>9, <2>1, <2>2 DEF Mark, Replace, MarksOf
  <2>4. u \in Seq(MarkCalls) /\ NodesOf(u) = Range(tab[x]) /\ \A d \in Range(u) : d.mark = "NOT_FREEABLE"
    <3>1. tab[x] \in Seq(Nodes)
      BY <1>5 DEF IsField
    <3> QED
      BY <2>2, <3>1, MarksIs
  <2>5. PICK a : a = u \o s
    OBVIOUS
  <2>6. a \in Seq(MarkCalls) /\ Range(a) = Range(u) \cup Range(s) /\ NodesOf(a) = NodesOf(u) \cup NodesOf(s)
    BY <2>4, <2>5, ConcatProperties, RangeConcatenation, NodesOfConcat
  <2>7. stack' = a \o (w \o e)
    <3>1. u \in Seq(Calls) /\ s \in Seq(Calls) /\ w \in Seq(Calls) /\ e \in Seq(Calls)
      BY <2>4, CallsTyped
    <3>2. w \o e \in Seq(Calls)
      BY <3>1, ConcatProperties
    <3> QED
      BY SMTT(40), <2>3, <2>5, <3>1, <3>2, Assoc
  <2>8. NodesOf(a) \subseteq M
    <3>1. {x} \subseteq M
      BY <1>4
    <3>2. Kids({x}) \subseteq Kids(M) /\ Kids({x}) = Range(tab[x])
      BY <3>1, KidsOf
    <3> QED
      BY <1>4, <2>4, <2>6, <3>2
  <2>9. BaseInv(w, e)' /\ Marked' = M
    BY <1>1, <1>2, <1>4, <1>5, <2>3, MarkKeepsBase
  <2>10. state'[r] = "NOT_FREEABLE"
    BY <1>4, <1>5, <2>3
  <2> QED
    BY <1>4, <1>7, <2>4, <2>6, <2>7, <2>8, <2>9, <2>10
<1> QED
  BY <1>8, <1>9

-----------------------------------------------------------------------------
(***************************************************************************)
(* reset_mark()                                                            *)
(***************************************************************************)

LEMMA ResettingStep ==
  ASSUME NEW w \in Seq(PlainCalls), NEW e \in Ends, NEW a \in Seq(ResetCalls),
         stack' = a \o (w \o e), BaseInv(w, e)', Resetting(a, w, e)'
  PROVE  IInv'
<1>1. a \in Seq(Calls) /\ w \in Seq(WorkCalls)
  BY CallsTyped, PlainIsWork
<1>2. StackInv(a, w, e)'
  BY DEF StackInv, PhaseInv
<1> QED
  BY <1>1, <1>2 DEF IInv

LEMMA ResetStep ==
  ASSUME Reset, UNCHANGED single, NEW w \in Seq(WorkCalls), NEW e \in Ends,
         NEW c \in ResetCalls, NEW s \in Seq(ResetCalls), ResetTop(w, e, c, s)
  PROVE  IInv'
<1>1. PICK M, x, R : M = Marked /\ x = c.n /\ R = NodesOf(s)
  OBVIOUS
<1>2. /\ BaseInv(w, e) /\ Resetting(<<c>> \o s, w, e) /\ Top = c /\ Tail(stack) = s \o (w \o e)
  BY DEF ResetTop
<1>3. NodesOf(<<c>> \o s) = {x} \cup R
  BY <1>1, NodesOfCons
<1>4. /\ w \in Seq(PlainCalls) /\ M \cap Opened(w, e) = {} /\ Found({x} \cup R, M)
      /\ \A y \in {x} \cup R : Alive(y) /\ state[y] # "FREEING"
  BY <1>1, <1>2, <1>3 DEF Resetting
<1>5. /\ state \in [Nodes -> States] /\ frefs \in [Nodes -> Nat] /\ IsField(tab) /\ x \in Nodes /\ Node = x
      /\ mem' = mem /\ refcnt' = refcnt /\ cfg' = cfg /\ tab' = tab /\ held' = held /\ single' = single
      /\ M \in SUBSET Nodes
  BY <1>1, <1>2, MarkedTyped DEF BaseInv, TypeInv, ResetCalls, Reset, Node
<1>6. CASE state[x] = "NONE"
  <2>1. stack' = s \o (w \o e) /\ state' = state /\ frefs' = frefs
    BY <1>2, <1>5, <1>6 DEF Reset, Return
  <2>2. BaseInv(w, e)'
    <3>1. \A y \in Nodes : NodeInv(y)
      BY <1>2 DEF BaseInv, NodesInv
    <3>2. state' \in [Nodes -> States] /\ frefs' \in [Nodes -> Nat]
      BY <1>5, <2>1
    <3> QED
      BY <1>2, <1>5, <2>1, <3>1, <3>2, PhaseKeepsBase DEF NodeInv
  <2>3. x \notin M
    BY <1>1, <1>5, <1>6, MarkedTyped
  <2>4. Found(R, M)
    BY <1>4, <1>5, <2>3, FoundSkip
  <2>5. Marked' = M
    BY <1>1, <2>1 DEF Marked, With
  <2>6. Found(R, Marked)'
    BY <1>5, <2>4, <2>5, SameFound
  <2>7. Resetting(s, w, e)'
    BY <1>1, <1>4, <1>5, <2>1, <2>5, <2>6 DEF Resetting, Alive
  <2> QED
    BY <1>4, <2>1, <2>2, <2>7, ResettingStep
<1>7. CASE state[x] # "NONE"
  <2>1. PICK u : u = ResetsOf(tab[x])
    OBVIOUS
  <2>2. /\ state' = [state EXCEPT ![x] = "NONE"] /\ frefs' = [frefs EXCEPT ![x] = 0]
        /\ stack' = u \o (s \o (w \o e))
    BY <1>2, <1>5, <1>7, <2>1 DEF Reset, Replace, ResetsOf
  <2>3. u \in Seq(ResetCalls) /\ NodesOf(u) = Range(tab[x])
    <3>1. tab[x] \in Seq(Nodes)
      BY <1>5 DEF IsField
    <3> QED
      BY <2>1, <3>1, ResetsIs
  <2>4. PICK a : a = u \o s
    OBVIOUS
  <2>5. a \in Seq(ResetCalls) /\ NodesOf(a) = Kids({x}) \cup R
    <3>1. a \in Seq(ResetCalls) /\ NodesOf(a) = NodesOf(u) \cup NodesOf(s)
      BY <2>3, <2>4, ConcatProperties, NodesOfConcat
    <3> QED
      BY <1>1, <2>3, <3>1, KidsOf
  <2>6. stack' = a \o (w \o e)
    <3>1. u \in Seq(Calls) /\ s \in Seq(Calls) /\ w \in Seq(Calls) /\ e \in Seq(Calls)
      BY <2>3, CallsTyped
    <3>2. w \o e \in Seq(Calls)
      BY <3>1, ConcatProperties
    <3> QED
      BY <2>2, <2>4, <3>1, <3>2, Assoc
  <2>7. /\ state' \in [Nodes -> States] /\ state'[x] = "NONE" /\ (\A y \in Nodes \ {x} : state'[y] = state[y])
        /\ Marked' = M \ {x} /\ frefs' \in [Nodes -> Nat] /\ frefs'[x] = 0
        /\ (\A y \in Nodes \ {x} : frefs'[y] = frefs[y])
    <3>1. "NONE" \in States
      BY DEF States
    <3>2. /\ state' \in [Nodes -> States] /\ state'[x] = "NONE" /\ (\A y \in Nodes \ {x} : state'[y] = state[y])
          /\ Marked' = Marked \ {x}
      BY <1>5, <2>2, <3>1, MarkedChange
    <3> QED
      BY <1>1, <1>5, <2>2, <3>2
  <2>8. BaseInv(w, e)'
    <3>1. \A y \in Nodes : NodeInv(y)
      BY <1>2 DEF BaseInv, NodesInv
    <3>2. ASSUME NEW y \in Nodes
          PROVE  /\ state[y] = "FREEING" <=> state'[y] = "FREEING"
                 /\ state[y] = "FREEING" => frefs'[y] = frefs[y]
                 /\ state'[y] = "NONE" => frefs'[y] = 0
                 /\ ~InMemory(y) => state'[y] = "NONE"
      <4>1. CASE y = x
        BY <1>4, <2>7, <4>1
      <4>2. CASE y # x
        BY <2>7, <3>1, <4>2 DEF NodeInv
      <4> QED
        BY <4>1, <4>2
    <3> QED
      BY <1>2, <1>5, <2>7, <3>2, PhaseKeepsBase
  <2>9. Found(NodesOf(a), M \ {x})
    <3>1. Found(Kids({x}) \cup R, M \ {x})
      BY <1>4, <1>5, FoundDown
    <3> QED
      BY <2>5, <3>1
  <2>10. Found(NodesOf(a), Marked)'
    BY <1>5, <2>7, <2>9, SameFound
  <2>11. ASSUME NEW y \in NodesOf(a) PROVE Alive(y)' /\ state'[y] # "FREEING"
    <3>1. y \in Nodes /\ Alive(y) /\ state[y] # "FREEING"
      <4>1. CASE y \in Range(tab[x])
        BY <1>2, <1>4, <1>5, <4>1, KidsStay
      <4>2. CASE y \in R
        <5>1. y \in Nodes
          <6>1. s \in Seq(ResetCalls) /\ \A d \in ResetCalls : d.n \in Nodes
            BY DEF ResetCalls
          <6> QED
            BY <1>1, <4>2, <6>1, RangeOfSeq DEF NodesOf
        <5> QED
          BY <1>4, <4>2, <5>1
      <4> QED
        BY <2>5, <4>1, <4>2, KidsOf
    <3> QED
      BY <1>5, <2>7, <3>1 DEF Alive
  <2>12. Resetting(a, w, e)'
    BY <1>4, <2>5, <2>7, <2>10, <2>11 DEF Resetting
  <2> QED
    BY <1>4, <2>5, <2>6, <2>8, <2>12, ResettingStep
<1> QED
  BY <1>6, <1>7

-----------------------------------------------------------------------------
(***************************************************************************)
(* The calls that release a node: the drop of the reference follows the    *)
(* release of the table.                                                   *)
(***************************************************************************)

Releases == {"free_priv", "priv_freed"}

LEMMA PairedAt ==
  ASSUME NEW w \in Seq(WorkCalls)
  PROVE  Paired(w) <=> \A i \in 1..Len(w) : w[i].f \in Releases => i + 1 \in 1..Len(w) /\ w[i + 1] = Call("drop", w[i].n)
<1>1. DOMAIN w = 1..Len(w)
  BY LenProperties
<1> QED
  BY <1>1 DEF Paired, Releases

LEMMA PairedTail ==
  ASSUME NEW c \in WorkCalls, NEW t \in Seq(WorkCalls), Paired(<<c>> \o t)
  PROVE  Paired(t)
<1>1. PICK w : w = <<c>> \o t
  OBVIOUS
<1>2. w \in Seq(WorkCalls) /\ Len(w) = Len(t) + 1 /\ (\A i \in 1..Len(t) : w[i + 1] = t[i]) /\ Paired(w)
  BY <1>1, ConsIs
<1>3. Len(t) \in Nat
  BY LenProperties
<1> SUFFICES ASSUME NEW i \in 1..Len(t), t[i].f \in Releases
             PROVE  i + 1 \in 1..Len(t) /\ t[i + 1] = Call("drop", t[i].n)
  BY PairedAt
<1>4. PICK j : j = i + 1
  OBVIOUS
<1>5. i \in Nat /\ j \in 1..Len(w) /\ w[j] = t[i]
  BY <1>2, <1>3, <1>4
<1>6. j + 1 \in 1..Len(w) /\ w[j + 1] = Call("drop", t[i].n)
  BY <1>2, <1>5, PairedAt
<1>7. j \in 1..Len(t)
  BY <1>2, <1>3, <1>4, <1>5, <1>6
<1> QED
  BY <1>2, <1>4, <1>6, <1>7

LEMMA PairedCons ==
  ASSUME NEW c \in WorkCalls, NEW t \in Seq(WorkCalls), Paired(t),
         \/ c.f \notin Releases
         \/ t # <<>> /\ t[1] = Call("drop", c.n)
  PROVE  Paired(<<c>> \o t)
<1>1. PICK w : w = <<c>> \o t
  OBVIOUS
<1>2. w \in Seq(WorkCalls) /\ Len(w) = Len(t) + 1 /\ (\A i \in 1..Len(t) : w[i + 1] = t[i]) /\ w[1] = c
  BY <1>1, ConsIs
<1>3. Len(t) \in Nat /\ (t # <<>> => Len(t) # 0)
  BY LenProperties, EmptySeq
<1>4. ASSUME NEW j \in 1..Len(w), w[j].f \in Releases
      PROVE  j + 1 \in 1..Len(w) /\ w[j + 1] = Call("drop", w[j].n)
  <2>1. CASE j = 1
    <3>1. t # <<>> /\ t[1] = Call("drop", c.n)
      BY <1>2, <1>4, <2>1
    <3>2. 1 \in 1..Len(t) /\ 2 \in 1..Len(w) /\ 1 + 1 = 2
      BY <1>2, <1>3, <3>1
    <3>3. w[2] = t[1]
      BY <1>2, <3>2
    <3> QED
      BY <1>2, <2>1, <3>1, <3>2, <3>3
  <2>2. CASE j # 1
    <3>1. PICK i : i = j - 1
      OBVIOUS
    <3>2. i \in 1..Len(t) /\ j = i + 1 /\ w[j] = t[i]
      BY <1>2, <1>3, <2>2, <3>1
    <3>3. i + 1 \in 1..Len(t) /\ t[i + 1] = Call("drop", t[i].n)
      BY <1>4, <3>2, PairedAt
    <3>4. j \in 1..Len(t) /\ t[j] = Call("drop", w[j].n)
      BY <3>2, <3>3
    <3>5. j + 1 \in 1..Len(w) /\ w[j + 1] = t[j]
      BY <1>2, <1>3, <3>4
    <3> QED
      BY <3>4, <3>5
  <2> QED
    BY <2>1, <2>2
<1> QED
  BY <1>1, <1>2, <1>4, PairedAt

LEMMA PairedFrees ==
  ASSUME NEW u \in Seq(WorkCalls), \A c \in Range(u) : c.f \notin Releases, NEW t \in Seq(WorkCalls), Paired(t)
  PROVE  Paired(u \o t)
<1>1. PICK w, m, n : w = u \o t /\ m = Len(u) /\ n = Len(t)
  OBVIOUS
<1>2. /\ m \in Nat /\ n \in Nat /\ DOMAIN u = 1..m /\ w \in Seq(WorkCalls) /\ Len(w) = m + n
      /\ \A i \in 1..(m + n) : w[i] = IF i <= m THEN u[i] ELSE t[i - m]
  BY <1>1, ConcatProperties, LenProperties
<1>3. ASSUME NEW j \in 1..Len(w), w[j].f \in Releases
      PROVE  j + 1 \in 1..Len(w) /\ w[j + 1] = Call("drop", w[j].n)
  <2>1. ~(j <= m)
    <3> SUFFICES ASSUME j <= m PROVE FALSE
      OBVIOUS
    <3>1. j \in DOMAIN u /\ w[j] = u[j]
      BY <1>2
    <3> QED
      BY <1>3, <3>1 DEF Range
  <2>2. PICK i : i = j - m
    OBVIOUS
  <2>3. i \in 1..n /\ w[j] = t[i]
    BY <1>2, <2>1, <2>2
  <2>4. i + 1 \in 1..n /\ t[i + 1] = Call("drop", w[j].n)
    BY <1>1, <1>3, <2>3, PairedAt
  <2>5. j + 1 \in 1..(m + n) /\ ~(j + 1 <= m) /\ (j + 1) - m = i + 1
    BY <1>2, <2>1, <2>2, <2>3, <2>4
  <2>6. w[j + 1] = t[i + 1]
    BY <1>2, <2>5
  <2> QED
    BY <1>2, <2>4, <2>5, <2>6
<1> QED
  BY <1>1, <1>2, <1>3, PairedAt

LEMMA PairedStart ==
  ASSUME NEW f \in Releases, NEW n \in Nodes, NEW t \in Seq(PlainCalls), Paired(<<Call(f, n)>> \o t)
  PROVE  \E t2 \in Seq(PlainCalls) : t = <<Call("drop", n)>> \o t2
<1>1. PICK c, w : c = Call(f, n) /\ w = <<c>> \o t
  OBVIOUS
<1>2. c \in WorkCalls /\ c.f \in Releases /\ c.n = n /\ t \in Seq(WorkCalls)
  BY <1>1, CallIs, PlainIsWork DEF Releases
<1>3. w \in Seq(WorkCalls) /\ Len(w) = Len(t) + 1 /\ (\A i \in 1..Len(t) : w[i + 1] = t[i]) /\ w[1] = c /\ Paired(w)
  BY <1>1, <1>2, ConsIs
<1>4. Len(t) \in Nat
  BY LenProperties
<1>5. 1 \in 1..Len(w)
  BY <1>3, <1>4
<1>6. 1 + 1 \in 1..Len(w) /\ w[1 + 1] = Call("drop", n)
  BY <1>2, <1>3, <1>5, PairedAt
<1>7. 1 \in 1..Len(t)
  BY <1>3, <1>4, <1>6
<1>8. t[1] = Call("drop", n)
  BY <1>3, <1>6, <1>7
<1>9. t # <<>>
  BY <1>7
<1>10. PICK d \in PlainCalls, t2 \in Seq(PlainCalls) : t = <<d>> \o t2
  BY <1>9, Uncons
<1>11. d = t[1]
  BY <1>10, ConsIs
<1> QED
  BY <1>8, <1>10, <1>11

\* the calls go on, with the children of their nodes
LEMMA EndingStep ==
  ASSUME NEW w, NEW w2, NEW e \in Ends, Ending(w, e), single' = single,
         NodesOf(w2) \subseteq NodesOf(w) \cup Kids(NodesOf(w)),
         \A x \in Nodes : Range(tab'[x]) \subseteq Range(tab[x]),
         \A x \in Nodes : Alive(x) /\ state[x] # "FREEING" /\ x \in NodesOf(e) => Alive(x)' /\ state'[x] # "FREEING"
  PROVE  Ending(w2, e)'
<1> SUFFICES ASSUME NEW c \in Range(e)
             PROVE  /\ c.n \notin single' /\ Alive(c.n)' /\ state'[c.n] # "FREEING" /\ Len(c.new) <= MaxKids
                    /\ Apart(c.n, NodesOf(w2))'
  BY DEF Ending, Alive, Apart, Kids
<1>1. c.n \in Nodes /\ c.n \in NodesOf(e)
  BY EndsIs, NoCalls DEF NodesOf
<1>2. /\ c.n \notin single /\ Alive(c.n) /\ state[c.n] # "FREEING" /\ Len(c.new) <= MaxKids
      /\ Apart(c.n, NodesOf(w))
  BY DEF Ending
<1>3. PICK D \in SUBSET Nodes : c.n \notin D /\ Kids(D) \subseteq D /\ NodesOf(w) \subseteq D
  BY <1>2 DEF Apart
<1>4. Kids(D)' \subseteq Kids(D)
  BY DEF Kids
<1>5. NodesOf(w2) \subseteq D
  BY <1>3, KidsOf
<1>6. Apart(c.n, NodesOf(w2))'
  BY <1>3, <1>4, <1>5 DEF Apart
<1> QED
  BY <1>1, <1>2, <1>6

\* the reference that a call owns
RefBy(c, x) == IF c.f \notin Releases /\ c.n = x THEN 1 ELSE 0

LEMMA RangeCons ==
  ASSUME NEW c \in WorkCalls, NEW t \in Seq(WorkCalls), NEW w, w = <<c>> \o t
  PROVE  Range(w) = {c} \cup Range(t) /\ NodesOf(w) = {c.n} \cup NodesOf(t) /\ w \in Seq(WorkCalls)
BY ConsIs, NodesOfCons

LEMMA RefsCons ==
  ASSUME NEW c \in WorkCalls, NEW t \in Seq(WorkCalls), NEW w, w = <<c>> \o t, NEW x \in Nodes
  PROVE  Occ(w, RefCalls(x)) = Occ(t, RefCalls(x)) + RefBy(c, x)
<1>1. c = Call(c.f, c.n) /\ c.f \in {"free", "decide", "free_priv", "priv_freed", "drop"}
  BY CallIs
<1>2. c \in RefCalls(x) <=> c.f \notin Releases /\ c.n = x
  BY <1>1, CallIs DEF RefCalls, Releases
<1>3. PICK o : o = One(c \in RefCalls(x))
  OBVIOUS
<1>4. o = IF c.f \notin Releases /\ c.n = x THEN 1 ELSE 0
  BY <1>2, <1>3 DEF One
<1>5. Occ(w, RefCalls(x)) = o + Occ(t, RefCalls(x)) /\ Occ(t, RefCalls(x)) \in Nat
  BY <1>3, OccCons, OccFinite
<1> QED
  BY <1>4, <1>5 DEF RefBy

LEMMA OpenedFrees ==
  ASSUME NEW s \in Seq(Nodes), NEW t \in Seq(WorkCalls), NEW e
  PROVE  /\ Frees(s) \o t \in Seq(WorkCalls)
         /\ Range(Frees(s) \o t) = {FreeCall(x) : x \in Range(s)} \cup Range(t)
         /\ NodesOf(Frees(s) \o t) = Range(s) \cup NodesOf(t)
         /\ Opened(Frees(s) \o t, e) = Opened(t, e)
         /\ Paired(t) => Paired(Frees(s) \o t)
<1>1. PICK u : u = Frees(s)
  OBVIOUS
<1>2. /\ u \in Seq(PlainCalls) /\ NodesOf(u) = Range(s) /\ Range(u) = {FreeCall(x) : x \in Range(s)}
      /\ \A x \in Nodes : Occ(u, RefCalls(x)) = Times(s, x)
  BY <1>1, FreesIs
<1>3. u \in Seq(WorkCalls)
  BY <1>2, PlainIsWork
<1>4. /\ u \o t \in Seq(WorkCalls) /\ Range(u \o t) = Range(u) \cup Range(t)
      /\ NodesOf(u \o t) = Range(s) \cup NodesOf(t)
  BY <1>2, <1>3, ConcatProperties, RangeConcatenation, NodesOfConcat
<1>5. \A c \in Range(u) : c.f = "free"
  BY <1>2, CallIs DEF FreeCall
<1>6. Opened(u \o t, e) = Opened(t, e)
  <2>1. \A n \in Nodes : Call("priv_freed", n) \notin Range(u)
    BY <1>5, CallIs
  <2> QED
    BY <1>4, <2>1 DEF Opened
<1>8. Paired(t) => Paired(u \o t)
  <2>1. \A c \in Range(u) : c.f \notin Releases
    BY <1>5 DEF Releases
  <2> QED
    BY <1>3, <2>1, PairedFrees
<1> QED
  BY <1>1, <1>2, <1>4, <1>6, <1>8

LEMMA RefsFrees ==
  ASSUME NEW s \in Seq(Nodes), NEW t \in Seq(WorkCalls), NEW x \in Nodes
  PROVE  Occ(Frees(s) \o t, RefCalls(x)) = Times(s, x) + Occ(t, RefCalls(x))
<1>1. PICK u : u = Frees(s)
  OBVIOUS
<1>2. u \in Seq(WorkCalls) /\ Occ(u, RefCalls(x)) = Times(s, x)
  BY <1>1, FreesIs, PlainIsWork
<1>3. Occ(u \o t, RefCalls(x)) = Occ(u, RefCalls(x)) + Occ(t, RefCalls(x))
  BY <1>2, OccConcat
<1> QED
  BY <1>1, <1>2, <1>3

\* The drop of a node being freed is the only reference to it.
LEMMA LastRef ==
  ASSUME NEW c \in WorkCalls, NEW t \in Seq(WorkCalls), NEW e \in Ends, BaseInv(<<c>> \o t, e),
         c.f \notin Releases, c.n \in With("FREEING")
  PROVE  c = Call("drop", c.n) /\ Range(t) \cap RefCalls(c.n) = {} /\ Range(t) \cap OpenCalls(c.n) = {}
<1>1. PICK n : n = c.n
  OBVIOUS
<1>2. PICK w : w = <<c>> \o t
  OBVIOUS
<1>3. /\ w \in Seq(WorkCalls) /\ BaseInv(w, e) /\ n \in Nodes /\ n \in With("FREEING") /\ Range(w) = {c} \cup Range(t)
      /\ Occ(w, RefCalls(n)) = Occ(t, RefCalls(n)) + 1
  <2>1. w \in Seq(WorkCalls)
    BY <1>2, ConsIs
  <2>2. n \in Nodes
    BY <1>1 DEF With
  <2>3. Occ(w, RefCalls(n)) = Occ(t, RefCalls(n)) + RefBy(c, n)
    BY <1>2, <2>2, RefsCons
  <2>4. RefBy(c, n) = 1
    BY <1>1 DEF RefBy
  <2> QED
    BY <1>1, <1>2, <2>1, <2>2, <2>3, <2>4, RangeCons
<1>4. Occ(w, RefCalls(n)) = 1 /\ Occ(t, RefCalls(n)) \in Nat
  BY <1>3, OnlyDrop, OccFinite
<1>5. Range(t) \cap RefCalls(n) = {}
  <2>1. ~(Occ(t, RefCalls(n)) > 0)
    BY <1>3, <1>4
  <2> QED
    BY <2>1, OccPositive
<1>6. c = Call("drop", n)
  <2>1. Call("drop", n) \in Range(w) /\ Call("drop", n) \in RefCalls(n)
    BY <1>3 DEF BaseInv, FreeingInv, RefCalls
  <2> QED
    BY <1>3, <1>5, <2>1
<1>7. Range(t) \cap OpenCalls(n) = {}
  <2>1. Paired(t)
    BY <1>2, <1>3, PairedTail DEF BaseInv
  <2>2. Dropping(t)
    BY <1>3 DEF BaseInv, Dropping
  <2>3. Call("drop", n) \notin Range(t)
    BY <1>5 DEF RefCalls
  <2> QED
    BY <1>3, <2>1, <2>2, <2>3, OpenIsFreeing
<1> QED
  BY <1>1, <1>5, <1>6, <1>7

\* The table of a node is released once.
LEMMA LastOpen ==
  ASSUME NEW f \in Releases, NEW n \in Nodes, NEW t \in Seq(PlainCalls), NEW e \in Ends,
         BaseInv(<<Call(f, n)>> \o t, e)
  PROVE  /\ n \in With("FREEING") /\ n \notin NodesOf(e) /\ Range(t) \cap OpenCalls(n) = {}
         /\ \E t2 \in Seq(PlainCalls) : t = <<Call("drop", n)>> \o t2
<1>1. PICK c, w : c = Call(f, n) /\ w = <<c>> \o t
  OBVIOUS
<1>2. c \in WorkCalls /\ c.f = f /\ c.n = n /\ t \in Seq(WorkCalls)
  BY <1>1, CallIs, PlainIsWork DEF Releases
<1>3. w \in Seq(WorkCalls) /\ Range(w) = {c} \cup Range(t) /\ BaseInv(w, e) /\ Paired(w) /\ Dropping(w)
  BY <1>1, <1>2, ConsIs DEF BaseInv
<1>4. n \in With("FREEING")
  <2>1. OpenCalls(n) \cap Range(w) # {}
    BY <1>1, <1>3 DEF OpenCalls, Releases
  <2> QED
    BY <1>3, <2>1, OpenIsFreeing
<1>5. PICK t2 \in Seq(PlainCalls) : t = <<Call("drop", n)>> \o t2
  BY <1>1, <1>3, PairedStart
<1>6. PICK d : d = Call("drop", n)
  OBVIOUS
<1>7. d \in WorkCalls /\ d.f = "drop" /\ d.n = n /\ t2 \in Seq(WorkCalls) /\ t = <<d>> \o t2
  BY <1>5, <1>6, CallIs, PlainIsWork
<1>8. Range(t) = {d} \cup Range(t2) /\ Occ(t, RefCalls(n)) = Occ(t2, RefCalls(n)) + 1
  <2>1. Occ(t, RefCalls(n)) = Occ(t2, RefCalls(n)) + RefBy(d, n)
    BY <1>7, RefsCons
  <2>2. RefBy(d, n) = 1
    BY <1>7 DEF Releases, RefBy
  <2> QED
    BY <1>7, <2>1, <2>2, RangeCons
<1>9. Occ(w, RefCalls(n)) = Occ(t, RefCalls(n)) + 0
  <2>1. Occ(w, RefCalls(n)) = Occ(t, RefCalls(n)) + RefBy(c, n)
    BY <1>1, <1>2, RefsCons
  <2>2. RefBy(c, n) = 0
    BY <1>2 DEF RefBy
  <2> QED
    BY <2>1, <2>2
<1>10. Occ(w, RefCalls(n)) = 1 /\ Occ(t2, RefCalls(n)) \in Nat
  BY <1>3, <1>4, <1>7, OnlyDrop, OccFinite
<1>11. d \notin Range(t2)
  <2>1. ~(Occ(t2, RefCalls(n)) > 0) /\ d \in RefCalls(n)
    BY <1>6, <1>8, <1>9, <1>10 DEF RefCalls
  <2> QED
    BY <1>7, <2>1, OccPositive
<1>12. Range(t2) \cap OpenCalls(n) = {}
  <2>1. Paired(t)
    BY <1>1, <1>2, <1>3, PairedTail
  <2>2. Paired(t2)
    BY <1>7, <2>1, PairedTail
  <2>3. Dropping(t2)
    BY <1>3, <1>8 DEF Dropping
  <2> QED
    BY <1>6, <1>7, <1>11, <2>2, <2>3, OpenIsFreeing
<1>13. d \notin OpenCalls(n)
  BY <1>7, CallIs DEF OpenCalls
<1>14. n \notin NodesOf(e)
  BY <1>3, <1>4 DEF BaseInv, Ending, NodesOf, With
<1> QED
  BY <1>4, <1>5, <1>8, <1>12, <1>13, <1>14

\* w starts with the call c
Joined(w, c, t) == w = <<c>> \o t

LEMMA JoinedIs ==
  ASSUME NEW c \in WorkCalls, NEW t \in Seq(WorkCalls), NEW w, Joined(w, c, t)
  PROVE  Range(w) = {c} \cup Range(t) /\ NodesOf(w) = {c.n} \cup NodesOf(t) /\ w \in Seq(WorkCalls) /\ w # <<>> /\ w[1] = c
<1>1. <<c>> \o t # <<>> /\ (<<c>> \o t)[1] = c
  BY ConsIs
<1>2. w = <<c>> \o t
  BY DEF Joined
<1>3. Range(w) = {c} \cup Range(t) /\ NodesOf(w) = {c.n} \cup NodesOf(t) /\ w \in Seq(WorkCalls)
  BY <1>2, RangeCons
<1> QED
  BY <1>1, <1>2, <1>3

LEMMA JoinedOpened ==
  ASSUME NEW c \in WorkCalls, NEW t \in Seq(WorkCalls), NEW w, Joined(w, c, t), NEW e, c.f # "priv_freed"
  PROVE  Opened(w, e) = Opened(t, e)
<1>1. Range(w) = {c} \cup Range(t)
  BY JoinedIs
<1>2. \A n \in Nodes : c # Call("priv_freed", n)
  BY CallIs
<1> QED
  BY <1>1, <1>2 DEF Opened

LEMMA JoinedClosed ==
  ASSUME NEW c \in WorkCalls, NEW t \in Seq(WorkCalls), NEW w, Joined(w, c, t), NEW e, c.f = "priv_freed"
  PROVE  Opened(w, e) = Opened(t, e) \cup {c.n}
<1>1. Range(w) = {c} \cup Range(t)
  BY JoinedIs
<1>2. c = Call("priv_freed", c.n) /\ c.n \in Nodes
  BY CallIs
<1>3. \A n \in Nodes : c = Call("priv_freed", n) <=> n = c.n
  BY <1>2, CallIs
<1> QED
  BY <1>1, <1>2, <1>3 DEF Opened

LEMMA JoinedRefs ==
  ASSUME NEW c \in WorkCalls, NEW t \in Seq(WorkCalls), NEW w, Joined(w, c, t), NEW x \in Nodes
  PROVE  Occ(w, RefCalls(x)) = Occ(t, RefCalls(x)) + RefBy(c, x)
<1>1. w = <<c>> \o t
  BY DEF Joined
<1> QED
  BY <1>1, RefsCons

LEMMA TailPaired ==
  ASSUME NEW c \in WorkCalls, NEW t \in Seq(WorkCalls), NEW w, Joined(w, c, t), Paired(w)
  PROVE  Paired(t)
<1>1. Paired(<<c>> \o t)
  BY DEF Joined
<1> QED
  BY <1>1, PairedTail

LEMMA JoinedPaired ==
  ASSUME NEW c \in WorkCalls, NEW d \in WorkCalls, NEW t \in Seq(WorkCalls), NEW w, NEW w2,
         Joined(w, c, t), Paired(w), Joined(w2, d, t), d.f \notin Releases \/ (t # <<>> /\ t[1] = Call("drop", d.n))
  PROVE  Paired(w2)
<1>1. Paired(t)
  BY TailPaired
<1>2. Paired(<<d>> \o t)
  BY <1>1, PairedCons
<1> QED
  BY <1>2 DEF Joined

LEMMA RestingStep ==
  ASSUME NEW w \in Seq(PlainCalls), NEW e \in Ends, stack' = w \o e, BaseInv(w, e)', Marked' = {}
  PROVE  IInv'
<1>1. <<>> \in Seq(ResetCalls) /\ w \o e \in Seq(Calls)
  BY CallsTyped, ConcatProperties
<1>2. stack' = <<>> \o (w \o e)
  BY <1>1, EmptyFirst
<1>3. Resetting(<<>>, w, e)'
  BY <1>1, NoCalls DEF Resetting, Found
<1> QED
  BY <1>1, <1>2, <1>3, ResettingStep

-----------------------------------------------------------------------------
(***************************************************************************)
(* The decision                                                            *)
(***************************************************************************)

\* ec_node_free() only drops a reference
LEMMA KeepStep ==
  ASSUME Decide, UNCHANGED single, NEW w \in Seq(WorkCalls), NEW e \in Ends, NEW r \in Nodes,
         NEW t \in Seq(PlainCalls), DecideTop(w, e, r, t), Marking(<<>>, r, w, e)
  PROVE  IInv'
<1>1. PICK c : c = Call("decide", r)
  OBVIOUS
<1>2. /\ w = <<c>> \o t /\ BaseInv(w, e) /\ Top = c /\ Tail(stack) = t \o e
      /\ refcnt[r] > 1 /\ state[r] = "NOT_FREEABLE" /\ Marked \cap Opened(w, e) = {} /\ Found({r}, Marked)
  BY <1>1 DEF DecideTop, Marking
<1>3. c \in WorkCalls /\ c.f = "decide" /\ c.n = r /\ t \in Seq(WorkCalls) /\ c.f \notin Releases
  BY <1>1, CallIs, PlainIsWork DEF Releases
<1>4. Node = r
  BY <1>2, <1>3 DEF Node
<1>5. PICK d : d = Call("reset", r)
  OBVIOUS
<1>6. /\ refcnt' = [refcnt EXCEPT ![r] = @ - 1] /\ stack' = <<d>> \o (t \o e)
      /\ mem' = mem /\ state' = state /\ frefs' = frefs /\ cfg' = cfg /\ tab' = tab /\ held' = held /\ single' = single
  BY <1>2, <1>4, <1>5 DEF Decide, Replace
<1>7. /\ refcnt \in [Nodes -> Nat] /\ TypeInv /\ NodesInv /\ FreeingInv(w) /\ Paired(w) /\ Dropping(w) /\ Ending(w, e)
  BY <1>2 DEF BaseInv, TypeInv
<1>8. refcnt'[r] = refcnt[r] - 1 /\ refcnt'[r] \in Nat /\ refcnt'[r] > 0 /\ \A x \in Nodes \ {r} : refcnt'[x] = refcnt[x]
  BY <1>2, <1>6, <1>7
<1>9. /\ Range(w) = {c} \cup Range(t) /\ NodesOf(w) = {r} \cup NodesOf(t) /\ Opened(w, e) = Opened(t, e)
      /\ \A x \in Nodes : Occ(w, RefCalls(x)) = Occ(t, RefCalls(x)) + RefBy(c, x)
  <2>1. w = <<c>> \o t /\ c \in WorkCalls /\ t \in Seq(WorkCalls)
    BY <1>2, <1>3
  <2>2. Range(w) = {c} \cup Range(t) /\ NodesOf(w) = {r} \cup NodesOf(t)
    BY <1>3, <2>1, RangeCons
  <2>3. Opened(w, e) = Opened(t, e)
    <3>1. Joined(w, c, t)
      BY <2>1 DEF Joined
    <3>2. c \in WorkCalls /\ t \in Seq(WorkCalls) /\ c.f # "priv_freed"
      BY <1>3, <2>1
    <3> QED
      BY <3>1, <3>2, JoinedOpened
  <2>4. \A x \in Nodes : Occ(w, RefCalls(x)) = Occ(t, RefCalls(x)) + RefBy(c, x)
    BY <2>1, RefsCons
  <2> QED
    BY <2>2, <2>3, <2>4
<1>10. TypeInv'
  <2>1. refcnt' \in [Nodes -> Nat]
    BY <1>6, <1>7, <1>8
  <2> QED
    BY <1>6, <1>7, <2>1 DEF TypeInv, IsField
<1>11. Balance(t, e)'
  <2> SUFFICES ASSUME NEW x \in Nodes
               PROVE  refcnt'[x] = held[x] + InField(cfg, Nodes, x) + InField(tab, Nodes \ Opened(t, e), x)
                                   + Occ(t, RefCalls(x)) + NewRefs(e, x)
    BY <1>6 DEF Balance, InField, ChildRefs
  <2>1. PICK p, h, i, j, o, n \in Nat : Terms(w, e, x, p, h, i, j, o, n)
    BY <1>2, <1>3, TermsNat DEF DecideTop
  <2>2. PICK q : q = Occ(t, RefCalls(x))
    OBVIOUS
  <2>3. q \in Nat /\ o = q + IF r = x THEN 1 ELSE 0
    <3>1. RefBy(c, x) = IF r = x THEN 1 ELSE 0
      BY <1>3 DEF RefBy
    <3>2. o = q + RefBy(c, x)
      BY <1>9, <2>1, <2>2 DEF Terms
    <3> QED
      BY <1>3, <2>2, <3>1, <3>2, OccFinite
  <2>4. /\ p = refcnt[x] /\ h = held[x] /\ i = InField(cfg, Nodes, x)
        /\ j = InField(tab, Nodes \ Opened(t, e), x) /\ n = NewRefs(e, x) /\ p = h + i + j + o + n
    BY <1>9, <2>1 DEF Terms
  <2>5. refcnt'[x] = p - IF r = x THEN 1 ELSE 0
    <3>1. CASE x = r
      BY <1>8, <2>4, <3>1
    <3>2. CASE x # r
      <4>1. refcnt'[x] = refcnt[x]
        BY <1>8, <3>2
      <4>2. p \in Nat /\ p = refcnt[x]
        BY <2>4
      <4> QED
        BY <3>2, <4>1, <4>2
    <3> QED
      BY <3>1, <3>2
  <2>6. p - (IF r = x THEN 1 ELSE 0) = h + i + j + q + n
    <3>1. PICK b : b = IF r = x THEN 1 ELSE 0
      OBVIOUS
    <3>2. b \in Nat /\ q \in Nat /\ o = q + b
      BY <2>3, <3>1
    <3>3. p = h + i + j + o + n
      BY <2>4
    <3>4. p - b = h + i + j + q + n
      BY <3>2, <3>3
    <3> QED
      BY <3>1, <3>4
  <2> QED
    BY <2>2, <2>4, <2>5, <2>6
<1>12. NodesInv'
  <2> SUFFICES ASSUME NEW x \in Nodes PROVE NodeInv(x)'
    BY DEF NodesInv
  <2>1. NodeInv(x) /\ (refcnt'[x] > 0 <=> refcnt[x] > 0)
    BY <1>2, <1>7, <1>8 DEF NodesInv
  <2> QED
    BY <1>6, <2>1 DEF NodeInv, InMemory
<1>13. FreeingInv(t)'
  <2> SUFFICES ASSUME NEW x \in With("FREEING")
               PROVE  /\ refcnt'[x] = 1 /\ cfg[x] = <<>> /\ frefs[x] = 0
                      /\ Call("drop", x) \in Range(t)
                      /\ tab[x] # <<>> => OpenCalls(x) \cap Range(t) # {}
    BY <1>6 DEF FreeingInv, With
  <2>1. x \in Nodes /\ x # r
    BY <1>2 DEF With
  <2>2. Call("drop", x) # c /\ c \notin OpenCalls(x)
    BY <1>3, CallIs DEF OpenCalls
  <2>3. /\ refcnt[x] = 1 /\ cfg[x] = <<>> /\ frefs[x] = 0
        /\ Call("drop", x) \in Range(w)
        /\ tab[x] # <<>> => OpenCalls(x) \cap Range(w) # {}
    BY <1>7 DEF FreeingInv
  <2> QED
    BY <1>8, <1>9, <2>1, <2>2, <2>3
<1>14. Paired(t)' /\ Dropping(t)'
  <2>1. Paired(t)
    BY <1>2, <1>3, <1>7, PairedTail
  <2> QED
    BY <1>6, <1>7, <1>9, <2>1 DEF Paired, Dropping
<1>15. Ending(t, e)'
  <2>1. \A x \in Nodes : Range(tab'[x]) \subseteq Range(tab[x])
    BY <1>6
  <2> QED
    BY <1>6, <1>7, <1>9, <2>1, EndingStep DEF Alive
<1>16. BaseInv(t, e)'
  BY <1>10, <1>11, <1>12, <1>13, <1>14, <1>15 DEF BaseInv
<1>17. PICK a : a = <<d>>
  OBVIOUS
<1>18. a \in Seq(ResetCalls) /\ NodesOf(a) = {r}
  <2>1. d \in ResetCalls /\ d.n = r /\ <<>> \in Seq(ResetCalls)
    BY <1>5 DEF ResetCalls, Call
  <2>2. Range(a) = {d} /\ a \in Seq(ResetCalls)
    BY <1>17, <2>1 DEF Range
  <2> QED
    BY <2>1, <2>2 DEF NodesOf
<1>19. Resetting(a, t, e)'
  <2>1. Marked' = Marked
    BY <1>6 DEF Marked, With
  <2>2. Found({r}, Marked)'
    BY <1>2, <1>6, <2>1, SameFound
  <2>3. Alive(r) /\ state[r] # "FREEING"
    <3>1. InMemory(r)
      BY <1>2, <1>7 DEF NodesInv, NodeInv
    <3> QED
      BY <1>2, <3>1, StaysAlive DEF DecideTop
  <2> QED
    BY <1>2, <1>6, <1>9, <1>18, <2>1, <2>2, <2>3 DEF Resetting, Alive
<1> QED
  BY <1>6, <1>16, <1>17, <1>18, <1>19, ResettingStep

\* ec_node_free() starts to release a node
LEMMA TakeApartStep ==
  ASSUME Decide, UNCHANGED single, NEW w \in Seq(WorkCalls), NEW e \in Ends, NEW r \in Nodes,
         NEW t \in Seq(PlainCalls), DecideTop(w, e, r, t), Deciding(<<>>, r)
  PROVE  IInv'
<1>1. PICK c : c = Call("decide", r)
  OBVIOUS
<1>2. /\ w = <<c>> \o t /\ BaseInv(w, e) /\ Top = c /\ Tail(stack) = t \o e
      /\ refcnt[r] = 1 /\ Marked = {}
  BY <1>1 DEF DecideTop, Deciding
<1>3. c \in WorkCalls /\ c.f = "decide" /\ c.n = r /\ t \in Seq(WorkCalls) /\ c.f \notin Releases
  BY <1>1, CallIs, PlainIsWork DEF Releases
<1>4. Node = r
  BY <1>2, <1>3 DEF Node
<1>5. /\ TypeInv /\ NodesInv /\ FreeingInv(w) /\ Paired(w) /\ Dropping(w) /\ Ending(w, e)
      /\ state \in [Nodes -> States] /\ IsField(cfg) /\ IsField(tab) /\ cfg \in [Nodes -> Seq(Nodes)]
  BY <1>2 DEF BaseInv, TypeInv, IsField
<1>6. state[r] = "NONE" /\ NodeInv(r) /\ frefs[r] = 0
  <2>1. state[r] # "FREEING"
    <3> SUFFICES ASSUME state[r] = "FREEING" PROVE FALSE
      OBVIOUS
    <3>1. c = Call("drop", r)
      BY <1>2, <1>3, LastRef DEF With
    <3> QED
      BY <1>3, <3>1, CallIs
  <2>2. state[r] \in {"NONE", "FREEING"}
    BY <1>2, <1>5, MarkedTyped DEF States
  <2> QED
    BY <1>5, <2>1, <2>2 DEF NodesInv, NodeInv
<1>7. Alive(r) /\ Range(cfg[r]) \subseteq Range(tab[r])
  <2>1. InMemory(r)
    BY <1>2, <1>6 DEF NodeInv
  <2> QED
    BY <1>2, <1>6, <2>1, StaysAlive DEF DecideTop
<1>8. PICK s, p, d : s = cfg[r] /\ p = Call("free_priv", r) /\ d = Call("drop", r)
  OBVIOUS
<1>9. PICK td, tp, w2 : td = <<d>> \o t /\ tp = <<p>> \o td /\ w2 = Frees(s) \o tp
  OBVIOUS
<1>10. /\ s \in Seq(Nodes) /\ d \in PlainCalls /\ p \in PlainCalls /\ d \in WorkCalls /\ p \in WorkCalls
       /\ d.f = "drop" /\ d.n = r /\ p.f = "free_priv" /\ p.n = r
  BY <1>5, <1>8, CallIs
<1>11. td \in Seq(WorkCalls) /\ tp \in Seq(WorkCalls) /\ td # <<>> /\ td[1] = d
  BY <1>3, <1>9, <1>10, ConsIs
<1>12. w2 \in Seq(PlainCalls)
  BY <1>9, <1>10, ConsIs, FreesIs, ConcatProperties
<1>13. /\ state' = [state EXCEPT ![r] = "FREEING"] /\ cfg' = [cfg EXCEPT ![r] = <<>>]
       /\ stack' = (Frees(s) \o <<p, d>>) \o (t \o e)
       /\ mem' = mem /\ refcnt' = refcnt /\ frefs' = frefs /\ tab' = tab /\ held' = held /\ single' = single
  BY <1>2, <1>4, <1>6, <1>8 DEF Decide, Replace
<1>14. stack' = w2 \o e
  <2>1. PICK u, pd : u = Frees(s) /\ pd = <<p>> \o <<d>>
    OBVIOUS
  <2>2. u \in Seq(Calls) /\ <<p>> \in Seq(Calls) /\ <<d>> \in Seq(Calls) /\ t \in Seq(Calls) /\ e \in Seq(Calls) /\ td \in Seq(Calls)
    BY <1>10, <1>11, <2>1, FreesIs, CallsTyped DEF Calls
  <2>3. <<p, d>> = pd /\ pd \in Seq(Calls)
    <3>1. p \in WorkCalls /\ d \in WorkCalls
      BY <1>10
    <3>2. <<p, d>> = <<p>> \o <<d>>
      BY <3>1, PairIs
    <3> QED
      BY <2>1, <2>2, <3>2, ConcatProperties
  <2>4. pd \o t = tp
    BY <1>9, <2>1, <2>2, Assoc
  <2>5. PICK x : x = u \o pd
    OBVIOUS
  <2>6. x \in Seq(Calls)
    BY <2>2, <2>3, <2>5, ConcatProperties
  <2>7. x \o (t \o e) = (x \o t) \o e
    BY <2>2, <2>6, Assoc
  <2>8. x \o t = w2
    <3>1. x \o t = u \o (pd \o t)
      BY SMTT(40), <2>2, <2>3, <2>5, Assoc
    <3> QED
      BY <1>9, <2>1, <2>4, <3>1
  <2> QED
    BY <1>13, <2>1, <2>3, <2>5, <2>7, <2>8
<1>15. /\ state' \in [Nodes -> States] /\ state'[r] = "FREEING" /\ (\A y \in Nodes \ {r} : state'[y] = state[y])
       /\ Marked' = {} /\ With("FREEING")' = With("FREEING") \cup {r}
  <2>1. "FREEING" \in States
    BY DEF States
  <2>2. /\ state' \in [Nodes -> States] /\ state'[r] = "FREEING" /\ (\A y \in Nodes \ {r} : state'[y] = state[y])
        /\ Marked' = Marked \ {r}
    BY <1>5, <1>13, <2>1, MarkedChange
  <2> QED
    BY <1>2, <2>2 DEF With
<1>16. cfg'[r] = <<>> /\ (\A y \in Nodes \ {r} : cfg'[y] = cfg[y]) /\ IsField(cfg')
  <2>1. cfg'[r] = <<>> /\ (\A y \in Nodes \ {r} : cfg'[y] = cfg[y]) /\ cfg' \in [Nodes -> Seq(Nodes)]
    BY <1>5, <1>13
  <2>2. Len(<<>>) <= MaxKids
    BY BoundsAssumption
  <2> QED
    BY <1>5, <2>1, <2>2 DEF IsField
<1>17. /\ Range(w) = {c} \cup Range(t) /\ NodesOf(w) = {r} \cup NodesOf(t) /\ Opened(w, e) = Opened(t, e)
       /\ Range(w2) = {FreeCall(x) : x \in Range(s)} \cup ({p} \cup ({d} \cup Range(t)))
       /\ NodesOf(w2) = Range(s) \cup ({r} \cup NodesOf(t)) /\ Opened(w2, e) = Opened(t, e)
  <2>1. Range(w) = {c} \cup Range(t) /\ NodesOf(w) = {r} \cup NodesOf(t) /\ Opened(w, e) = Opened(t, e)
    <3>1. w = <<c>> \o t /\ c \in WorkCalls /\ t \in Seq(WorkCalls) /\ c.n = r /\ c.f # "priv_freed"
      BY <1>2, <1>3
    <3>2. Range(w) = {c} \cup Range(t) /\ NodesOf(w) = {r} \cup NodesOf(t)
      BY <3>1, RangeCons
    <3>3. Opened(w, e) = Opened(t, e)
      <4>1. Joined(w, c, t)
        BY <3>1 DEF Joined
      <4>2. c \in WorkCalls /\ t \in Seq(WorkCalls) /\ c.f # "priv_freed"
        BY <3>1
      <4> QED
        BY <4>1, <4>2, JoinedOpened
    <3> QED
      BY <3>2, <3>3
  <2>2. Range(td) = {d} \cup Range(t) /\ NodesOf(td) = {r} \cup NodesOf(t) /\ Opened(td, e) = Opened(t, e)
    <3>1. td = <<d>> \o t /\ d \in WorkCalls /\ t \in Seq(WorkCalls) /\ d.n = r /\ d.f # "priv_freed"
      BY <1>3, <1>9, <1>10
    <3>2. Range(td) = {d} \cup Range(t) /\ NodesOf(td) = {r} \cup NodesOf(t)
      BY <3>1, RangeCons
    <3>3. Opened(td, e) = Opened(t, e)
      <4>1. Joined(td, d, t)
        BY <3>1 DEF Joined
      <4>2. d \in WorkCalls /\ t \in Seq(WorkCalls) /\ d.f # "priv_freed"
        BY <3>1
      <4> QED
        BY <4>1, <4>2, JoinedOpened
    <3> QED
      BY <3>2, <3>3
  <2>3. Range(tp) = {p} \cup Range(td) /\ NodesOf(tp) = {r} \cup NodesOf(td) /\ Opened(tp, e) = Opened(td, e)
    <3>1. tp = <<p>> \o td /\ p \in WorkCalls /\ td \in Seq(WorkCalls) /\ p.n = r /\ p.f # "priv_freed"
      BY <1>9, <1>10, <1>11
    <3>2. Range(tp) = {p} \cup Range(td) /\ NodesOf(tp) = {r} \cup NodesOf(td)
      BY <3>1, RangeCons
    <3>3. Opened(tp, e) = Opened(td, e)
      <4>1. Joined(tp, p, td)
        BY <3>1 DEF Joined
      <4>2. p \in WorkCalls /\ td \in Seq(WorkCalls) /\ p.f # "priv_freed"
        BY <3>1
      <4> QED
        BY <4>1, <4>2, JoinedOpened
    <3> QED
      BY <3>2, <3>3
  <2>4. /\ Range(w2) = {FreeCall(x) : x \in Range(s)} \cup Range(tp) /\ NodesOf(w2) = Range(s) \cup NodesOf(tp)
        /\ Opened(w2, e) = Opened(tp, e)
    BY <1>9, <1>10, <1>11, OpenedFrees
  <2> QED
    BY <2>1, <2>2, <2>3, <2>4
<1>18. ASSUME NEW x \in Nodes
       PROVE  Occ(w2, RefCalls(x)) = Times(s, x) + Occ(w, RefCalls(x))
  <2>1. PICK q : q = Occ(t, RefCalls(x))
    OBVIOUS
  <2>2. q \in Nat
    BY <1>3, <2>1, OccFinite
  <2>3. Occ(w, RefCalls(x)) = q + RefBy(c, x)
    <3>1. w = <<c>> \o t
      BY <1>2
    <3>2. c \in WorkCalls /\ t \in Seq(WorkCalls)
      BY <1>3
    <3> QED
      BY <2>1, <3>1, <3>2, RefsCons
  <2>4. Occ(td, RefCalls(x)) = q + RefBy(d, x)
    <3>1. td = <<d>> \o t /\ t \in Seq(WorkCalls)
      BY <1>3, <1>9
    <3>2. d \in WorkCalls
      BY <1>10
    <3> QED
      BY <2>1, <3>1, <3>2, RefsCons
  <2>5. Occ(tp, RefCalls(x)) = Occ(td, RefCalls(x)) + RefBy(p, x)
    <3>1. tp = <<p>> \o td /\ p \in WorkCalls
      BY <1>9, <1>10
    <3> QED
      BY <1>11, <3>1, RefsCons
  <2>6. Occ(w2, RefCalls(x)) = Times(s, x) + Occ(tp, RefCalls(x))
    BY <1>9, <1>10, <1>11, RefsFrees
  <2>7. RefBy(d, x) = RefBy(c, x) /\ RefBy(p, x) = 0 /\ RefBy(c, x) \in Nat
    BY <1>3, <1>10 DEF Releases, RefBy
  <2>8. Occ(tp, RefCalls(x)) = Occ(w, RefCalls(x))
    BY <2>2, <2>3, <2>4, <2>5, <2>7
  <2> QED
    BY <2>6, <2>8
<1>19. TypeInv'
  BY <1>5, <1>13, <1>15, <1>16 DEF TypeInv, IsField
<1>20. Balance(w2, e)'
  <2> SUFFICES ASSUME NEW x \in Nodes
               PROVE  refcnt[x] = held[x] + InField(cfg', Nodes, x) + InField(tab, Nodes \ Opened(w2, e), x)
                                   + Occ(w2, RefCalls(x)) + NewRefs(e, x)
    BY <1>13 DEF Balance, InField, ChildRefs
  <2>1. PICK m, h, i, j, o, n \in Nat : Terms(w, e, x, m, h, i, j, o, n)
    BY <1>2, <1>3, TermsNat DEF DecideTop
  <2>2. PICK i2, o2, k : i2 = InField(cfg', Nodes, x) /\ o2 = Occ(w2, RefCalls(x)) /\ k = Times(s, x)
    OBVIOUS
  <2>3. /\ m = refcnt[x] /\ h = held[x] /\ i = InField(cfg, Nodes, x)
        /\ j = InField(tab, Nodes \ Opened(w2, e), x) /\ n = NewRefs(e, x) /\ m = h + i + j + o + n
        /\ o2 = k + o /\ k \in Nat
    BY <1>10, <1>17, <1>18, <2>1, <2>2, TimesIs DEF Terms
  <2>4. i2 = i - k /\ i2 \in Nat
    <3>1. InField(cfg, Nodes, x) + Times(cfg'[r], x) = InField(cfg', Nodes, x) + Times(cfg[r], x)
      BY <1>5, <1>16, InFieldChange
    <3>2. Times(cfg'[r], x) = 0
      BY <1>16, TimesEmpty
    <3>3. Nodes \in SUBSET Nodes
      OBVIOUS
    <3>4. InField(cfg', Nodes, x) \in Nat
      BY <3>3, ChildRefsFinite
    <3>5. i + 0 = i2 + k /\ i2 \in Nat
      BY <1>8, <2>2, <2>3, <3>1, <3>2, <3>4
    <3> QED
      BY <2>1, <2>3, <3>5
  <2>5. m = h + i2 + j + o2 + n
    <3>1. o2 = k + o /\ k \in Nat /\ m = h + i + j + o + n
      BY <2>3
    <3> QED
      BY <2>1, <2>4, <3>1
  <2> QED
    BY <2>2, <2>3, <2>5
<1>21. NodesInv'
  <2> SUFFICES ASSUME NEW x \in Nodes PROVE NodeInv(x)'
    BY DEF NodesInv
  <2>1. NodeInv(x)
    BY <1>5 DEF NodesInv
  <2>2. CASE x = r
    <3>1. InMemory(x) /\ Alive(x) /\ refcnt[x] > 0
      BY <1>2, <1>7, <2>2 DEF Alive, InMemory
    <3> QED
      BY <1>13, <1>15, <1>16, <2>2, <3>1 DEF NodeInv, InMemory, Alive
  <2>3. CASE x # r
    BY <1>13, <1>15, <1>16, <2>1, <2>3 DEF NodeInv, InMemory
  <2> QED
    BY <2>2, <2>3
<1>22. FreeingInv(w2)'
  <2> SUFFICES ASSUME NEW x \in With("FREEING") \cup {r}
               PROVE  /\ refcnt[x] = 1 /\ cfg'[x] = <<>> /\ frefs[x] = 0
                      /\ Call("drop", x) \in Range(w2)
                      /\ tab[x] # <<>> => OpenCalls(x) \cap Range(w2) # {}
    BY <1>13, <1>15 DEF FreeingInv
  <2>1. CASE x = r
    <3>1. d \in Range(w2) /\ p \in Range(w2) /\ p \in OpenCalls(r)
      BY <1>8, <1>17 DEF OpenCalls
    <3> QED
      BY <1>2, <1>6, <1>8, <1>16, <2>1, <3>1
  <2>2. CASE x # r
    <3>1. x \in Nodes
      BY <2>2 DEF With
    <3>2. Call("drop", x) # c /\ c \notin OpenCalls(x)
      BY <1>3, CallIs DEF OpenCalls
    <3>3. /\ refcnt[x] = 1 /\ cfg[x] = <<>> /\ frefs[x] = 0
          /\ Call("drop", x) \in Range(w)
          /\ tab[x] # <<>> => OpenCalls(x) \cap Range(w) # {}
      BY <1>5, <2>2 DEF FreeingInv
    <3> QED
      BY <1>16, <1>17, <2>2, <3>1, <3>2, <3>3
  <2> QED
    BY <2>1, <2>2
<1>23. Paired(w2)'
  <2>1. Paired(t)
    BY <1>2, <1>3, <1>5, PairedTail
  <2>2. d.f \notin Releases
    BY <1>10 DEF Releases
  <2>3. Paired(td)
    BY <1>3, <1>9, <1>10, <2>1, <2>2, PairedCons
  <2>4. Paired(tp)
    BY <1>8, <1>9, <1>10, <1>11, <2>3, PairedCons
  <2>5. Paired(w2)
    BY <1>9, <1>10, <1>11, <2>4, OpenedFrees
  <2> QED
    BY <2>5 DEF Paired
<1>24. Dropping(w2)'
  <2> SUFFICES ASSUME NEW b \in Range(w2), b.f = "drop" PROVE state'[b.n] = "FREEING"
    BY DEF Dropping
  <2>1. CASE b \in Range(t)
    <3>1. b \in WorkCalls
      BY <1>3, <2>1, RangeOfSeq
    <3>2. b.n \in Nodes /\ state[b.n] = "FREEING"
      BY <1>5, <1>17, <2>1, <3>1, CallIs DEF Dropping
    <3> QED
      BY <1>15, <3>2
  <2>2. CASE b \notin Range(t)
    <3>1. b = d
      BY <1>10, <1>17, <2>2, CallIs DEF FreeCall
    <3> QED
      BY <1>10, <1>15, <3>1
  <2> QED
    BY <2>1, <2>2
<1>25. Ending(w2, e)'
  <2>1. \A x \in Nodes : Range(tab'[x]) \subseteq Range(tab[x])
    BY <1>13
  <2>2. {r} \subseteq NodesOf(w)
    BY <1>17
  <2>3. Kids({r}) \subseteq Kids(NodesOf(w)) /\ Kids({r}) = Range(tab[r])
    BY <2>2, KidsOf
  <2>4. NodesOf(w2) \subseteq NodesOf(w) \cup Kids(NodesOf(w))
    BY ZenonT(60), <1>7, <1>8, <1>17, <2>3
  <2>5. ASSUME NEW x \in NodesOf(e) PROVE x # r
    <3>1. PICK b \in Range(e) : b.n = x
      BY DEF NodesOf
    <3>2. Apart(x, NodesOf(w))
      BY <1>5, <3>1 DEF Ending
    <3> QED
      BY <1>17, <3>2 DEF Apart
  <2>6. \A x \in Nodes : Alive(x) /\ state[x] # "FREEING" /\ x \in NodesOf(e) => Alive(x)' /\ state'[x] # "FREEING"
    BY <1>13, <1>15, <2>5 DEF Alive
  <2>7. single' = single
    BY <1>13
  <2> QED
    BY <1>5, <2>1, <2>4, <2>6, <2>7, EndingStep
<1>26. BaseInv(w2, e)'
  BY <1>19, <1>20, <1>21, <1>22, <1>23, <1>24, <1>25 DEF BaseInv
<1> QED
  BY <1>12, <1>14, <1>15, <1>26, RestingStep

-----------------------------------------------------------------------------
(***************************************************************************)
(* The entry of ec_node_free()                                             *)
(***************************************************************************)

\* the entry of a call owns the same reference as its decision
LEMMA EntryKeepsBase ==
  ASSUME NEW w \in Seq(WorkCalls), NEW e \in Ends, NEW n \in Nodes, NEW t \in Seq(WorkCalls), BaseInv(w, e),
         NEW c \in WorkCalls, c.f = "free", c.n = n, Joined(w, c, t),
         NEW d \in WorkCalls, d.f = "decide", d.n = n, NEW w2, Joined(w2, d, t),
         UNCHANGED <<single, mem, refcnt, state, frefs, cfg, tab, held>>
  PROVE  w2 \in Seq(WorkCalls) /\ BaseInv(w2, e)'
<1>3. c.f # "priv_freed" /\ d.f # "priv_freed" /\ c.f \notin Releases /\ d.f \notin Releases
  BY DEF Releases
<1>4. /\ Range(w) = {c} \cup Range(t) /\ NodesOf(w) = {n} \cup NodesOf(t)
      /\ Range(w2) = {d} \cup Range(t) /\ NodesOf(w2) = {n} \cup NodesOf(t) /\ w2 \in Seq(WorkCalls)
  <2>1. Range(w) = {c} \cup Range(t) /\ NodesOf(w) = {n} \cup NodesOf(t)
    BY JoinedIs
  <2>2. Range(w2) = {d} \cup Range(t) /\ NodesOf(w2) = {n} \cup NodesOf(t) /\ w2 \in Seq(WorkCalls)
    BY JoinedIs
  <2> QED
    BY <2>1, <2>2
<1>5. Opened(w2, e) = Opened(w, e)
  <2>1. Opened(w, e) = Opened(t, e)
    BY <1>3, JoinedOpened
  <2>2. Opened(w2, e) = Opened(t, e)
    BY <1>3, JoinedOpened
  <2> QED
    BY <2>1, <2>2
<1>6. ASSUME NEW x \in Nodes PROVE Occ(w2, RefCalls(x)) = Occ(w, RefCalls(x))
  <2>1. Occ(w, RefCalls(x)) = Occ(t, RefCalls(x)) + RefBy(c, x)
    BY JoinedRefs
  <2>2. Occ(w2, RefCalls(x)) = Occ(t, RefCalls(x)) + RefBy(d, x)
    BY JoinedRefs
  <2>3. RefBy(c, x) = RefBy(d, x)
    BY <1>3 DEF RefBy
  <2> QED
    BY <2>1, <2>2, <2>3
<1>7. Balance(w2, e)
  <2> SUFFICES ASSUME NEW x \in Nodes
               PROVE  refcnt[x] = held[x] + InField(cfg, Nodes, x) + InField(tab, Nodes \ Opened(w2, e), x)
                                   + Occ(w2, RefCalls(x)) + NewRefs(e, x)
    BY DEF Balance
  <2>1. refcnt[x] = held[x] + InField(cfg, Nodes, x) + InField(tab, Nodes \ Opened(w, e), x)
                    + Occ(w, RefCalls(x)) + NewRefs(e, x)
    BY DEF BaseInv, Balance
  <2> QED
    BY <1>5, <1>6, <2>1
<1>8. FreeingInv(w2)
  <2> SUFFICES ASSUME NEW x \in With("FREEING")
               PROVE  /\ refcnt[x] = 1 /\ cfg[x] = <<>> /\ frefs[x] = 0
                      /\ Call("drop", x) \in Range(w2)
                      /\ tab[x] # <<>> => OpenCalls(x) \cap Range(w2) # {}
    BY DEF FreeingInv
  <2>1. Call("drop", x) # c /\ c \notin OpenCalls(x)
    BY CallIs DEF OpenCalls
  <2>2. /\ refcnt[x] = 1 /\ cfg[x] = <<>> /\ frefs[x] = 0
        /\ Call("drop", x) \in Range(w)
        /\ tab[x] # <<>> => OpenCalls(x) \cap Range(w) # {}
    BY DEF BaseInv, FreeingInv
  <2> QED
    BY <1>4, <2>1, <2>2
<1>9. Paired(w2)
  <2>1. Paired(w)
    BY DEF BaseInv
  <2> QED
    BY <1>3, <2>1, JoinedPaired
<1>10. Dropping(w2)
  BY <1>4 DEF BaseInv, Dropping
<1>11. Ending(w2, e)
  <2>1. NodesOf(w2) = NodesOf(w)
    BY <1>4
  <2> QED
    BY <2>1 DEF BaseInv, Ending
<1>12. BaseInv(w2, e)
  BY <1>7, <1>8, <1>9, <1>10, <1>11 DEF BaseInv
<1>13. state' \in [Nodes -> States] /\ frefs' \in [Nodes -> Nat] /\ \A x \in Nodes : NodeInv(x)
  BY DEF BaseInv, TypeInv, NodesInv
<1>14. BaseInv(w2, e)'
  BY <1>4, <1>12, <1>13, PhaseKeepsBase DEF NodeInv
<1> QED
  BY <1>4, <1>14

LEMMA FreeStep ==
  ASSUME NoLoops, Free, UNCHANGED single, NEW w \in Seq(WorkCalls), NEW e \in Ends, NEW c \in PlainCalls,
         NEW t \in Seq(PlainCalls), PlainTop(w, e, c, t)
  PROVE  IInv'
<1>1. PICK n : n = c.n
  OBVIOUS
<1>2. /\ w = <<c>> \o t /\ BaseInv(w, e) /\ Marked = {} /\ Top = c /\ Tail(stack) = t \o e
      /\ t \in Seq(WorkCalls)
  BY PlainIsWork DEF PlainTop
<1>3. c.f = "free" /\ Node = n /\ n \in Nodes /\ c \in WorkCalls /\ c = Call("free", n)
  BY <1>1, <1>2, CallIs DEF Free, At, Node
<1>4. PICK d, w2 : d = Call("decide", n) /\ w2 = <<d>> \o t
  OBVIOUS
<1>5. d \in WorkCalls
  BY <1>3, <1>4, CallIs
<1>6. /\ mem' = mem /\ refcnt' = refcnt /\ state' = state /\ frefs' = frefs /\ cfg' = cfg /\ tab' = tab
      /\ held' = held /\ single' = single
  BY DEF Free
<1>7. w2 \in Seq(WorkCalls) /\ BaseInv(w2, e)'
  <2>1. Joined(w, c, t) /\ Joined(w2, d, t)
    BY <1>2, <1>4 DEF Joined
  <2>2. d.f = "decide" /\ d.n = n
    BY <1>4, CallIs
  <2>3. UNCHANGED <<single, mem, refcnt, state, frefs, cfg, tab, held>> /\ c.n = n /\ BaseInv(w, e)
    BY <1>1, <1>2, <1>6
  <2>4. w \in Seq(WorkCalls) /\ t \in Seq(WorkCalls) /\ c \in WorkCalls /\ n \in Nodes
    BY <1>2, <1>3
  <2> QED
    BY <1>3, <1>5, <2>1, <2>2, <2>3, <2>4, EntryKeepsBase
<1>8. DecideFirst(w2, n)
  BY <1>4 DEF DecideFirst
<1>9. /\ TypeInv /\ IsField(tab) /\ IsField(cfg) /\ state \in [Nodes -> States] /\ refcnt[n] \in Nat
      /\ NodesInv /\ FreeingInv(w)
  BY <1>2, <1>3 DEF BaseInv, TypeInv
<1>10. Marked' = {} /\ With("TRAVERSED")' = {}
  BY <1>2, <1>6 DEF Marked, With
<1>11. d \in Calls /\ t \in Seq(Calls) /\ e \in Seq(Calls) /\ <<d>> \in Seq(Calls)
  <2>1. d \in Calls
    BY <1>5 DEF Calls
  <2> QED
    BY <1>2, <2>1, CallsTyped
<1>12. <<d>> \o (t \o e) = w2 \o e
  BY <1>4, <1>11, Assoc
<1>13. CASE state[n] = "NONE" /\ refcnt[n] # 1
  <2>1. PICK k, m, s : k = CountCall(n, 1) /\ m = MarkCall(n, "FREEABLE") /\ s = <<k>>
    OBVIOUS
  <2>2. k \in CountCalls /\ k.n = n /\ m \in Calls /\ k \in Calls
    BY <1>3, <2>1 DEF CountCall, CountCalls, MarkCall, MarkCalls, Calls
  <2>3. s \in Seq(CountCalls) /\ NodesOf(s) = {n}
    <3>1. s \in Seq(CountCalls) /\ Range(s) = {k}
      BY <2>1, <2>2 DEF Range
    <3> QED
      BY <2>2, <3>1 DEF NodesOf
  <2>4. stack' = <<k, m, d>> \o (t \o e)
    BY <1>2, <1>3, <1>4, <1>13, <2>1 DEF Free, Replace
  <2>5. PICK a : a = s \o <<m>>
    OBVIOUS
  <2>6. a \in Seq(Calls) /\ <<k, m, d>> = a \o <<d>>
    <3>1. a = <<k, m>>
      BY <2>1, <2>2, <2>5, PairIs
    <3>2. a \in Seq(Calls)
      BY <2>2, <3>1
    <3>3. <<k, m, d>> = <<k, m>> \o <<d>>
      BY <1>11, <2>2, TripleIs
    <3> QED
      BY <3>1, <3>2, <3>3
  <2>7. stack' = a \o (w2 \o e)
    <3>1. PICK y : y = t \o e
      OBVIOUS
    <3>2. y \in Seq(Calls)
      BY <1>11, <3>1, ConcatProperties
    <3>3. a \o (<<d>> \o y) = (a \o <<d>>) \o y
      BY <1>11, <2>6, <3>2, Assoc
    <3> QED
      BY <1>12, <2>4, <2>6, <3>1, <3>3
  <2>8. refcnt[n] > 1
    <3>1. Range(w) = {c} \cup Range(t)
      BY <1>2, <1>3, RangeCons
    <3>2. Range(w) \cap RefCalls(n) # {}
      BY <1>3, <3>1 DEF RefCalls
    <3>3. refcnt[n] > 0
      BY <1>2, <1>3, <3>2, Referenced
    <3> QED
      BY <1>9, <1>13, <3>3
  <2>9. ASSUME NEW y \in Nodes PROVE Counted(s, n, {}, y)
    <3>1. frefs[y] = 0
      <4>1. state[y] \in {"NONE", "FREEING"}
        BY <1>2, <1>9, MarkedTyped DEF States
      <4>2. CASE state[y] = "NONE"
        BY <1>9, <4>2 DEF NodesInv, NodeInv
      <4>3. CASE state[y] = "FREEING"
        BY <1>9, <4>3 DEF FreeingInv, With
      <4> QED
        BY <4>1, <4>2, <4>3
    <3>2. InField(cfg, {}, y) = 0 /\ InField(tab, {}, y) = 0
      <4>1. ~(InField(cfg, {}, y) > 0) /\ ~(InField(tab, {}, y) > 0)
        BY <1>9, InFieldPositive
      <4>2. InField(cfg, {}, y) \in Nat /\ InField(tab, {}, y) \in Nat
        BY ChildRefsFinite
      <4> QED
        BY <4>1, <4>2
    <3>3. ASSUME NEW C PROVE Occ(s, C) = One(k \in C)
      <4>1. s \o <<>> = s /\ <<>> \in Seq(CountCalls)
        BY <2>3, CallsTyped, EmptyFirst
      <4>2. Occ(<<k>> \o <<>>, C) = One(k \in C) + Occ(<<>>, C)
        BY ZenonT(60), <2>2, <4>1, OccCons
      <4>3. Occ(<<>>, C) = 0
        BY OccEmpty
      <4>4. PICK o : o = One(k \in C)
        OBVIOUS
      <4>5. o \in Nat
        BY <4>4 DEF One
      <4>6. Occ(<<k>> \o <<>>, C) = o
        BY <4>2, <4>3, <4>4, <4>5
      <4> QED
        BY <2>1, <4>1, <4>4, <4>6
    <3>4. Occ(s, {CountCall(y, 2)}) = 0
      <4>1. k \notin {CountCall(y, 2)}
        BY <2>1 DEF CountCall
      <4> QED
        BY <3>3, <4>1 DEF One
    <3>5. Occ(s, {CountCall(y, 1)}) = One(y = n)
      <4>1. k \in {CountCall(y, 1)} <=> y = n
        BY <2>1 DEF CountCall
      <4>2. Occ(s, {CountCall(y, 1)}) = One(k \in {CountCall(y, 1)})
        BY <3>3
      <4> QED
        BY <4>1, <4>2 DEF One
    <3>6. PICK o : o = One(y = n)
      OBVIOUS
    <3>7. o \in Nat
      BY <3>6 DEF One
    <3>8. 0 + o + 2 * 0 = o + 0 + 0
      BY <3>7
    <3> QED
      BY <3>1, <3>2, <3>4, <3>5, <3>6, <3>8 DEF Counted
  <2>10. Found({n}, Marked)' /\ Kids(Marked)' = {}
    <3>1. Found({n}, {}) /\ Kids({}) = {}
      BY KidsOf DEF Found
    <3> QED
      BY <1>6, <1>10, <3>1, SameFound
  <2>11. Apart(n, Kids({n}))'
    <3>1. Apart(n, Kids({n}))
      BY <1>3, <1>9, NotBelow
    <3> QED
      BY <1>6, <3>1, SameApart
  <2>12. \A y \in Nodes : Counted(s, n, Marked, y)'
    BY <1>6, <1>10, <2>9 DEF Counted, InField, ChildRefs
  <2>13. Counting(a, n, w2, e, s)'
    BY <1>6, <1>10, <2>1, <2>3, <2>5, <2>8, <2>10, <2>11, <2>12 DEF Counting
  <2> QED
    BY <1>3, <1>7, <1>8, <2>3, <2>5, <2>1, <2>7, <2>13, CountingStep
<1>14. CASE ~(state[n] = "NONE" /\ refcnt[n] # 1)
  <2>1. stack' = <<d>> \o (t \o e)
    BY <1>2, <1>3, <1>4, <1>14 DEF Free, Replace
  <2>2. refcnt[n] = 1
    <3>1. state[n] \in {"NONE", "FREEING"}
      BY <1>2, <1>3, <1>9, MarkedTyped DEF States
    <3> QED
      BY <1>3, <1>9, <1>14, <3>1 DEF FreeingInv, With
  <2>3. Deciding(<<>>, n)'
    BY <1>6, <1>10, <2>2 DEF Deciding
  <2>4. PhaseInv(<<>>, w2, e)'
    BY <1>3, <1>8, <2>3 DEF PhaseInv, DecideFirst
  <2>5. stack' = <<>> \o (w2 \o e) /\ <<>> \in Seq(Calls)
    <3>1. w2 \o e \in Seq(Calls)
      BY <1>7, <1>11, CallsTyped, ConcatProperties
    <3> QED
      BY SMTT(40), <1>12, <2>1, <3>1, EmptyFirst
  <2>6. StackInv(<<>>, w2, e)'
    BY <1>7, <2>4, <2>5 DEF StackInv
  <2> QED
    BY <1>7, <2>5, <2>6 DEF IInv
<1> QED
  BY <1>13, <1>14

-----------------------------------------------------------------------------
(***************************************************************************)
(* free_priv() and the drop of the reference                               *)
(***************************************************************************)

LEMMA OpenJoined ==
  ASSUME NEW c \in WorkCalls, c.f \in Releases, NEW t \in Seq(PlainCalls), NEW e \in Ends, NEW w, Joined(w, c, t),
         BaseInv(w, e)
  PROVE  /\ c.n \in With("FREEING") /\ c.n \notin NodesOf(e) /\ Range(t) \cap OpenCalls(c.n) = {}
         /\ t # <<>> /\ t[1] = Call("drop", c.n) /\ Call("drop", c.n) \in Range(t)
<1>1. PICK f, n, d : f = c.f /\ n = c.n /\ d = Call("drop", n)
  OBVIOUS
<1>2. f \in Releases /\ n \in Nodes /\ c = Call(f, n) /\ d \in PlainCalls
  BY <1>1, CallIs
<1>3. BaseInv(<<Call(f, n)>> \o t, e)
  BY <1>2 DEF Joined
<1>4. /\ n \in With("FREEING") /\ n \notin NodesOf(e) /\ Range(t) \cap OpenCalls(n) = {}
      /\ \E t2 \in Seq(PlainCalls) : t = <<Call("drop", n)>> \o t2
  <2>1. n \in With("FREEING")
    BY ZenonT(60), <1>2, <1>3, LastOpen
  <2>2. n \notin NodesOf(e)
    BY ZenonT(60), <1>2, <1>3, LastOpen
  <2>3. Range(t) \cap OpenCalls(n) = {}
    BY ZenonT(60), <1>2, <1>3, LastOpen
  <2>4. \E t2 \in Seq(PlainCalls) : t = <<Call("drop", n)>> \o t2
    BY ZenonT(60), <1>2, <1>3, LastOpen
  <2> QED
    BY <2>1, <2>2, <2>3, <2>4
<1>5. PICK t2 \in Seq(PlainCalls) : t = <<d>> \o t2
  BY <1>1, <1>4
<1>6. t # <<>> /\ t[1] = d /\ Range(t) = {d} \cup Range(t2)
  BY <1>2, <1>5, ConsIs
<1> QED
  BY <1>1, <1>4, <1>6

LEMMA FreePrivStep ==
  ASSUME FreePriv, UNCHANGED single, NEW w \in Seq(WorkCalls), NEW e \in Ends, NEW c \in PlainCalls,
         NEW t \in Seq(PlainCalls), PlainTop(w, e, c, t)
  PROVE  IInv'
<1>1. PICK n : n = c.n
  OBVIOUS
<1>2. /\ Joined(w, c, t) /\ BaseInv(w, e) /\ Marked = {} /\ Top = c /\ Tail(stack) = t \o e
      /\ t \in Seq(WorkCalls)
  BY PlainIsWork DEF PlainTop, Joined
<1>3. c.f = "free_priv" /\ Node = n /\ n \in Nodes /\ c \in WorkCalls /\ c = Call("free_priv", n)
  BY <1>1, <1>2, CallIs DEF FreePriv, At, Node
<1>4. /\ n \in With("FREEING") /\ n \notin NodesOf(e) /\ Range(t) \cap OpenCalls(n) = {}
      /\ t # <<>> /\ t[1] = Call("drop", n) /\ Call("drop", n) \in Range(t)
  <2>1. c.f \in Releases
    BY <1>3 DEF Releases
  <2> QED
    BY <1>1, <1>2, <1>3, <2>1, OpenJoined
<1>6. /\ mem' = mem /\ refcnt' = refcnt /\ state' = state /\ frefs' = frefs /\ cfg' = cfg /\ tab' = tab
      /\ held' = held /\ single' = single
  BY DEF FreePriv
<1>7. /\ TypeInv /\ IsField(tab) /\ state \in [Nodes -> States] /\ frefs \in [Nodes -> Nat] /\ tab[n] \in Seq(Nodes)
      /\ NodesInv /\ FreeingInv(w) /\ Paired(w) /\ Dropping(w) /\ Ending(w, e) /\ Balance(w, e)
  BY <1>2, <1>3 DEF BaseInv, TypeInv, IsField
<1>8. PICK s, p, tp, w2 : s = tab[n] /\ p = Call("priv_freed", n) /\ Joined(tp, p, t) /\ w2 = Frees(s) \o tp
  BY DEF Joined
<1>9. s \in Seq(Nodes) /\ p \in PlainCalls /\ p \in WorkCalls /\ p.f = "priv_freed" /\ p.n = n
  BY <1>3, <1>7, <1>8, CallIs
<1>10. /\ Range(w) = {c} \cup Range(t) /\ NodesOf(w) = {n} \cup NodesOf(t)
       /\ Range(tp) = {p} \cup Range(t) /\ NodesOf(tp) = {n} \cup NodesOf(t) /\ tp \in Seq(WorkCalls)
  <2>1. Range(w) = {c} \cup Range(t) /\ NodesOf(w) = {n} \cup NodesOf(t)
    BY <1>1, <1>2, <1>3, JoinedIs
  <2>2. Range(tp) = {p} \cup Range(t) /\ NodesOf(tp) = {n} \cup NodesOf(t) /\ tp \in Seq(WorkCalls)
    BY <1>2, <1>8, <1>9, JoinedIs
  <2> QED
    BY <2>1, <2>2
<1>11. /\ Range(w2) = {FreeCall(x) : x \in Range(s)} \cup Range(tp) /\ NodesOf(w2) = Range(s) \cup NodesOf(tp)
       /\ Opened(w2, e) = Opened(tp, e) /\ w2 \in Seq(WorkCalls) /\ (Paired(tp) => Paired(w2))
  BY <1>8, <1>9, <1>10, OpenedFrees
<1>12. w2 \in Seq(PlainCalls) /\ stack' = w2 \o e
  <2>1. PICK u : u = Frees(s)
    OBVIOUS
  <2>2. u \in Seq(PlainCalls) /\ tp = <<p>> \o t
    BY <1>8, <1>9, <2>1, FreesIs DEF Joined
  <2>3. tp \in Seq(PlainCalls)
    BY <1>9, <2>2, ConsIs
  <2>4. w2 \in Seq(PlainCalls)
    BY <1>8, <2>1, <2>2, <2>3, ConcatProperties
  <2>5. u \in Seq(Calls) /\ t \in Seq(Calls) /\ e \in Seq(Calls) /\ <<p>> \in Seq(Calls)
    <3>1. p \in Calls
      BY <1>9 DEF Calls
    <3> QED
      BY <2>2, <3>1, CallsTyped
  <2>6. stack' = (u \o <<p>>) \o (t \o e)
    BY <1>2, <1>3, <1>8, <2>1 DEF FreePriv, Replace
  <2>7. PICK x : x = u \o <<p>>
    OBVIOUS
  <2>8. x \in Seq(Calls)
    BY <2>5, <2>7, ConcatProperties
  <2>9. x \o (t \o e) = (x \o t) \o e
    BY <2>5, <2>8, Assoc
  <2>10. x \o t = w2
    <3>1. x \o t = u \o (<<p>> \o t)
      BY <2>5, <2>7, Assoc
    <3> QED
      BY <1>8, <2>1, <2>2, <3>1
  <2> QED
    BY <2>4, <2>6, <2>7, <2>9, <2>10
<1>13. Opened(w, e) = Opened(t, e) /\ Opened(w2, e) = Opened(t, e) \cup {n} /\ n \notin Opened(t, e)
  <2>1. Opened(w, e) = Opened(t, e)
    BY <1>2, <1>3, JoinedOpened
  <2>2. Opened(tp, e) = Opened(t, e) \cup {n}
    BY <1>2, <1>8, <1>9, JoinedClosed
  <2>3. n \notin Opened(t, e)
    BY <1>4 DEF Opened, OpenCalls
  <2> QED
    BY <1>11, <2>1, <2>2, <2>3
<1>14. ASSUME NEW x \in Nodes
       PROVE  refcnt[x] = held[x] + InField(cfg, Nodes, x) + InField(tab, Nodes \ Opened(w2, e), x)
                          + Occ(w2, RefCalls(x)) + NewRefs(e, x)
  <2>1. PICK m, h, i, j, o, k \in Nat : Terms(w, e, x, m, h, i, j, o, k)
    BY <1>2, TermsNat DEF PlainTop
  <2>2. PICK j2, o2, q : j2 = InField(tab, Nodes \ Opened(w2, e), x) /\ o2 = Occ(w2, RefCalls(x)) /\ q = Times(s, x)
    OBVIOUS
  <2>3. /\ m = refcnt[x] /\ h = held[x] /\ i = InField(cfg, Nodes, x) /\ j = InField(tab, Nodes \ Opened(w, e), x)
        /\ o = Occ(w, RefCalls(x)) /\ k = NewRefs(e, x) /\ m = h + i + j + o + k
    BY <2>1 DEF Terms
  <2>4. q \in Nat
    BY <1>9, <2>2, TimesIs
  <2>5. j = j2 + q /\ j2 \in Nat
    <3>1. PICK U : U = Nodes \ Opened(w2, e)
      OBVIOUS
    <3>2. U \in SUBSET Nodes /\ n \in Nodes \ U /\ Nodes \ Opened(w, e) = U \cup {n}
      BY <1>3, <1>13, <3>1
    <3>3. InField(tab, U \cup {n}, x) = InField(tab, U, x) + Times(tab[n], x)
      BY SMTT(40), <1>7, <3>2, InFieldAdd
    <3>4. InField(tab, U, x) \in Nat
      BY <3>2, ChildRefsFinite
    <3> QED
      BY <1>8, <2>2, <2>3, <3>1, <3>2, <3>3, <3>4
  <2>6. o2 = q + o
    <3>1. Occ(w, RefCalls(x)) = Occ(t, RefCalls(x)) + RefBy(c, x)
      BY <1>2, <1>3, JoinedRefs
    <3>2. Occ(tp, RefCalls(x)) = Occ(t, RefCalls(x)) + RefBy(p, x)
      BY <1>2, <1>8, <1>9, JoinedRefs
    <3>3. RefBy(c, x) = RefBy(p, x)
      BY <1>3, <1>9 DEF RefBy, Releases
    <3>4. o2 = q + Occ(tp, RefCalls(x))
      BY <1>8, <1>9, <1>10, <2>2, RefsFrees
    <3> QED
      BY <2>3, <3>1, <3>2, <3>3, <3>4
  <2>7. m = h + i + j2 + o2 + k
    <3>1. m = h + i + j + o + k
      BY <2>3
    <3> QED
      BY <2>1, <2>4, <2>5, <2>6, <3>1
  <2> QED
    BY <2>2, <2>3, <2>7
<1>15. FreeingInv(w2)
  <2> SUFFICES ASSUME NEW x \in With("FREEING")
               PROVE  /\ refcnt[x] = 1 /\ cfg[x] = <<>> /\ frefs[x] = 0
                      /\ Call("drop", x) \in Range(w2)
                      /\ tab[x] # <<>> => OpenCalls(x) \cap Range(w2) # {}
    BY DEF FreeingInv
  <2>1. /\ refcnt[x] = 1 /\ cfg[x] = <<>> /\ frefs[x] = 0
        /\ Call("drop", x) \in Range(w)
        /\ tab[x] # <<>> => OpenCalls(x) \cap Range(w) # {}
    BY <1>7 DEF FreeingInv
  <2>2. CASE x = n
    <3>1. p \in Range(w2) /\ p \in OpenCalls(n)
      BY <1>8, <1>10, <1>11 DEF OpenCalls
    <3> QED
      BY <1>4, <1>10, <1>11, <2>1, <2>2, <3>1
  <2>3. CASE x # n
    <3>1. Call("drop", x) # c /\ c \notin OpenCalls(x)
      BY <1>1, <1>3, <2>3, CallIs DEF OpenCalls
    <3> QED
      BY <1>10, <1>11, <2>1, <3>1
  <2> QED
    BY <2>2, <2>3
<1>16. Paired(w2)
  <2>1. Paired(tp)
    BY <1>2, <1>3, <1>4, <1>7, <1>8, <1>9, JoinedPaired
  <2> QED
    BY <1>11, <2>1
<1>17. Dropping(w2)
  <2> SUFFICES ASSUME NEW b \in Range(w2), b.f = "drop" PROVE state[b.n] = "FREEING"
    BY DEF Dropping
  <2>1. b \in Range(w)
    BY <1>9, <1>10, <1>11, CallIs DEF FreeCall
  <2> QED
    BY <1>7, <2>1 DEF Dropping
<1>18. Ending(w2, e)
  <2> SUFFICES ASSUME NEW b \in Range(e) PROVE Apart(b.n, NodesOf(w2))
    BY <1>7 DEF Ending
  <2>1. PICK D \in SUBSET Nodes : b.n \notin D /\ Kids(D) \subseteq D /\ NodesOf(w) \subseteq D
    BY <1>7 DEF Ending, Apart
  <2>2. {n} \subseteq D
    BY <1>10, <2>1
  <2>3. Range(s) \subseteq D
    <3>1. Kids({n}) \subseteq Kids(D) /\ Kids({n}) = Range(tab[n])
      BY <2>2, KidsOf
    <3> QED
      BY <1>8, <2>1, <3>1
  <2>4. NodesOf(w2) \subseteq D
    BY <1>10, <1>11, <2>1, <2>3
  <2> QED
    BY <2>1, <2>4 DEF Apart
<1>19. BaseInv(w2, e)
  BY <1>7, <1>14, <1>15, <1>16, <1>17, <1>18 DEF BaseInv, Balance
<1>20. BaseInv(w2, e)'
  <2>1. \A x \in Nodes : NodeInv(x)
    BY <1>7 DEF NodesInv
  <2> QED
    BY <1>6, <1>7, <1>11, <1>19, <2>1, PhaseKeepsBase DEF NodeInv
<1>21. Marked' = {}
  BY <1>2, <1>6 DEF Marked, With
<1> QED
  BY <1>12, <1>20, <1>21, RestingStep

LEMMA PrivFreedStep ==
  ASSUME PrivFreed, UNCHANGED single, NEW w \in Seq(WorkCalls), NEW e \in Ends, NEW c \in PlainCalls,
         NEW t \in Seq(PlainCalls), PlainTop(w, e, c, t)
  PROVE  IInv'
<1>1. PICK n : n = c.n
  OBVIOUS
<1>2. /\ Joined(w, c, t) /\ BaseInv(w, e) /\ Marked = {} /\ Top = c /\ Tail(stack) = t \o e
      /\ t \in Seq(WorkCalls)
  BY PlainIsWork DEF PlainTop, Joined
<1>3. c.f = "priv_freed" /\ Node = n /\ n \in Nodes /\ c \in WorkCalls /\ c = Call("priv_freed", n)
  BY <1>1, <1>2, CallIs DEF PrivFreed, At, Node
<1>4. /\ n \in With("FREEING") /\ n \notin NodesOf(e) /\ Range(t) \cap OpenCalls(n) = {}
      /\ Call("drop", n) \in Range(t)
  <2>1. c.f \in Releases
    BY <1>3 DEF Releases
  <2> QED
    BY <1>1, <1>2, <1>3, <2>1, OpenJoined
<1>5. /\ TypeInv /\ IsField(tab) /\ mem \in [Nodes -> {"none", "alive", "gutted", "freed"}] /\ tab \in [Nodes -> Seq(Nodes)]
      /\ NodesInv /\ FreeingInv(w) /\ Paired(w) /\ Dropping(w) /\ Ending(w, e) /\ Balance(w, e)
  BY <1>2 DEF BaseInv, TypeInv, IsField
<1>6. /\ refcnt' = refcnt /\ state' = state /\ frefs' = frefs /\ cfg' = cfg /\ held' = held /\ single' = single
      /\ tab' = [tab EXCEPT ![n] = <<>>] /\ stack' = t \o e
      /\ mem' = [mem EXCEPT ![n] = IF n \in single THEN "gutted" ELSE @]
  BY <1>2, <1>3 DEF PrivFreed, Return
<1>7. /\ tab'[n] = <<>> /\ (\A x \in Nodes \ {n} : tab'[x] = tab[x]) /\ tab' \in [Nodes -> Seq(Nodes)] /\ IsField(tab')
  <2>1. tab'[n] = <<>> /\ (\A x \in Nodes \ {n} : tab'[x] = tab[x]) /\ tab' \in [Nodes -> Seq(Nodes)]
    BY <1>3, <1>5, <1>6
  <2>2. Len(<<>>) <= MaxKids
    BY BoundsAssumption
  <2> QED
    BY <1>5, <2>1, <2>2 DEF IsField
<1>8. /\ mem' \in [Nodes -> {"none", "alive", "gutted", "freed"}] /\ mem'[n] \in {mem[n], "gutted"}
      /\ \A x \in Nodes \ {n} : mem'[x] = mem[x]
  BY <1>3, <1>5, <1>6
<1>9. Range(w) = {c} \cup Range(t) /\ NodesOf(w) = {n} \cup NodesOf(t)
  BY <1>1, <1>2, <1>3, JoinedIs
<1>10. Opened(w, e) = Opened(t, e) \cup {n} /\ n \notin Opened(t, e)
  <2>1. Opened(w, e) = Opened(t, e) \cup {n}
    BY <1>1, <1>2, <1>3, JoinedClosed
  <2>2. n \notin Opened(t, e)
    BY <1>4 DEF Opened, OpenCalls
  <2> QED
    BY <2>1, <2>2
<1>11. TypeInv'
  BY <1>5, <1>6, <1>7, <1>8 DEF TypeInv, IsField
<1>12. Balance(t, e)'
  <2> SUFFICES ASSUME NEW x \in Nodes
               PROVE  refcnt[x] = held[x] + InField(cfg, Nodes, x) + InField(tab', Nodes \ Opened(t, e), x)
                                   + Occ(t, RefCalls(x)) + NewRefs(e, x)
    BY <1>6 DEF Balance, InField, ChildRefs
  <2>1. refcnt[x] = held[x] + InField(cfg, Nodes, x) + InField(tab, Nodes \ Opened(w, e), x)
                    + Occ(w, RefCalls(x)) + NewRefs(e, x)
    BY <1>5 DEF Balance
  <2>2. Occ(w, RefCalls(x)) = Occ(t, RefCalls(x))
    <3>1. Occ(w, RefCalls(x)) = Occ(t, RefCalls(x)) + RefBy(c, x)
      BY <1>2, <1>3, JoinedRefs
    <3>2. RefBy(c, x) = 0 /\ Occ(t, RefCalls(x)) \in Nat
      BY <1>2, <1>3, OccFinite DEF RefBy, Releases
    <3> QED
      BY <3>1, <3>2
  <2>3. InField(tab', Nodes \ Opened(t, e), x) = InField(tab, Nodes \ Opened(w, e), x)
    <3>1. PICK U : U = Nodes \ Opened(w, e)
      OBVIOUS
    <3>2. U \in SUBSET Nodes /\ n \in Nodes \ U /\ Nodes \ Opened(t, e) = U \cup {n}
      BY <1>3, <1>10, <3>1
    <3>3. InField(tab', U \cup {n}, x) = InField(tab', U, x) + Times(tab'[n], x)
      BY <1>7, <3>2, InFieldAdd
    <3>4. InField(tab', U, x) \in Nat /\ Times(tab'[n], x) = 0
      BY <1>7, <3>2, ChildRefsFinite, TimesEmpty
    <3>5. InField(tab', U, x) = InField(tab, U, x)
      <4>1. \A y \in U : tab'[y] = tab[y]
        BY <1>7, <3>2
      <4> QED
        BY <4>1, InFieldSame
    <3>6. PICK v, d : v = InField(tab', U, x) /\ d = Times(tab'[n], x)
      OBVIOUS
    <3>7. v \in Nat /\ d = 0 /\ v + d = v
      BY <3>4, <3>6
    <3>8. InField(tab', U \cup {n}, x) = v
      BY <3>3, <3>6, <3>7
    <3> QED
      BY <3>1, <3>2, <3>5, <3>6, <3>8
  <2> QED
    BY <2>1, <2>2, <2>3
<1>13. NodesInv'
  <2> SUFFICES ASSUME NEW x \in Nodes PROVE NodeInv(x)'
    BY DEF NodesInv
  <2>1. NodeInv(x)
    BY <1>5 DEF NodesInv
  <2>2. CASE x = n
    <3>1. state[x] = "FREEING" /\ refcnt[x] = 1 /\ cfg[x] = <<>>
      BY <1>4, <1>5, <2>2 DEF With, FreeingInv
    <3>2. mem'[x] \in {"alive", "gutted"}
      BY <1>8, <2>1, <2>2, <3>1 DEF NodeInv, InMemory
    <3> QED
      BY <1>6, <1>7, <2>2, <3>1, <3>2 DEF NodeInv, InMemory
  <2>3. CASE x # n
    BY <1>6, <1>7, <1>8, <2>1, <2>3 DEF NodeInv, InMemory
  <2> QED
    BY <2>2, <2>3
<1>14. FreeingInv(t)'
  <2> SUFFICES ASSUME NEW x \in With("FREEING")
               PROVE  /\ refcnt[x] = 1 /\ cfg[x] = <<>> /\ frefs[x] = 0
                      /\ Call("drop", x) \in Range(t)
                      /\ tab'[x] # <<>> => OpenCalls(x) \cap Range(t) # {}
    BY <1>6 DEF FreeingInv, With
  <2>1. /\ refcnt[x] = 1 /\ cfg[x] = <<>> /\ frefs[x] = 0
        /\ Call("drop", x) \in Range(w)
        /\ tab[x] # <<>> => OpenCalls(x) \cap Range(w) # {}
    BY <1>5 DEF FreeingInv
  <2>2. CASE x = n
    BY <1>4, <1>7, <2>1, <2>2
  <2>3. CASE x # n
    <3>1. Call("drop", x) # c /\ c \notin OpenCalls(x)
      BY <1>1, <1>3, <2>3, CallIs DEF OpenCalls
    <3>2. x \in Nodes
      BY DEF With
    <3> QED
      BY <1>7, <1>9, <2>1, <2>3, <3>1, <3>2
  <2> QED
    BY <2>2, <2>3
<1>15. Paired(t)' /\ Dropping(t)'
  <2>1. Paired(t)
    BY <1>2, <1>3, <1>5, TailPaired
  <2> QED
    BY <1>5, <1>6, <1>9, <2>1 DEF Paired, Dropping
<1>16. Ending(t, e)'
  <2>1. Range(tab'[n]) \subseteq Range(tab[n])
    BY <1>7, NoCalls
  <2>2. \A x \in Nodes : Range(tab'[x]) \subseteq Range(tab[x])
    BY <1>7, <2>1
  <2>3. \A x \in Nodes : Alive(x) /\ state[x] # "FREEING" /\ x \in NodesOf(e) => Alive(x)' /\ state'[x] # "FREEING"
    BY <1>4, <1>6, <1>8 DEF Alive
  <2>4. NodesOf(t) \subseteq NodesOf(w) \cup Kids(NodesOf(w))
    BY <1>9
  <2> QED
    BY <1>5, <1>6, <2>2, <2>3, <2>4, EndingStep
<1>17. BaseInv(t, e)'
  BY <1>11, <1>12, <1>13, <1>14, <1>15, <1>16 DEF BaseInv
<1>18. Marked' = {}
  BY <1>2, <1>6 DEF Marked, With
<1> QED
  BY <1>6, <1>17, <1>18, RestingStep

LEMMA DropStep ==
  ASSUME Drop, UNCHANGED single, NEW w \in Seq(WorkCalls), NEW e \in Ends, NEW c \in PlainCalls,
         NEW t \in Seq(PlainCalls), PlainTop(w, e, c, t)
  PROVE  IInv'
<1>1. PICK n : n = c.n
  OBVIOUS
<1>2. /\ Joined(w, c, t) /\ BaseInv(w, e) /\ Marked = {} /\ Top = c /\ Tail(stack) = t \o e
      /\ t \in Seq(WorkCalls) /\ BaseInv(<<c>> \o t, e)
  BY PlainIsWork DEF PlainTop, Joined
<1>3. c.f = "drop" /\ Node = n /\ n \in Nodes /\ c \in WorkCalls /\ c = Call("drop", n)
  BY <1>1, <1>2, CallIs DEF Drop, At, Node
<1>4. /\ TypeInv /\ IsField(tab) /\ mem \in [Nodes -> {"none", "alive", "gutted", "freed"}] /\ refcnt \in [Nodes -> Nat]
      /\ state \in [Nodes -> States] /\ frefs \in [Nodes -> Nat]
      /\ NodesInv /\ FreeingInv(w) /\ Paired(w) /\ Dropping(w) /\ Ending(w, e) /\ Balance(w, e)
  BY <1>2 DEF BaseInv, TypeInv
<1>5. Range(w) = {c} \cup Range(t) /\ NodesOf(w) = {n} \cup NodesOf(t)
  BY <1>1, <1>2, <1>3, JoinedIs
<1>6. n \in With("FREEING") /\ state[n] = "FREEING"
  BY <1>1, <1>3, <1>4, <1>5 DEF Dropping, With
<1>7. Range(t) \cap RefCalls(n) = {} /\ Range(t) \cap OpenCalls(n) = {}
  <2>1. c.f \notin Releases /\ c.n \in With("FREEING")
    BY <1>1, <1>3, <1>6 DEF Releases
  <2> QED
    BY <1>1, <1>2, <1>3, <2>1, LastRef
<1>8. refcnt[n] = 1 /\ cfg[n] = <<>> /\ tab[n] = <<>>
  <2>1. refcnt[n] = 1 /\ cfg[n] = <<>> /\ (tab[n] # <<>> => OpenCalls(n) \cap Range(w) # {})
    BY <1>4, <1>6 DEF FreeingInv
  <2>2. c \notin OpenCalls(n)
    BY <1>3, CallIs DEF OpenCalls
  <2> QED
    BY <1>5, <1>7, <2>1, <2>2
<1>9. /\ cfg' = cfg /\ tab' = tab /\ held' = held /\ single' = single /\ stack' = t \o e
      /\ refcnt' = [refcnt EXCEPT ![n] = @ - 1] /\ mem' = [mem EXCEPT ![n] = "freed"]
      /\ state' = [state EXCEPT ![n] = "NONE"] /\ frefs' = [frefs EXCEPT ![n] = 0]
  BY <1>2, <1>3, <1>8 DEF Drop, Return
<1>10. /\ refcnt' \in [Nodes -> Nat] /\ refcnt'[n] = 0 /\ (\A x \in Nodes \ {n} : refcnt'[x] = refcnt[x])
       /\ frefs' \in [Nodes -> Nat] /\ frefs'[n] = 0 /\ (\A x \in Nodes \ {n} : frefs'[x] = frefs[x])
       /\ mem' \in [Nodes -> {"none", "alive", "gutted", "freed"}] /\ mem'[n] = "freed"
       /\ (\A x \in Nodes \ {n} : mem'[x] = mem[x])
  BY <1>3, <1>4, <1>8, <1>9
<1>11. /\ state' \in [Nodes -> States] /\ state'[n] = "NONE" /\ (\A x \in Nodes \ {n} : state'[x] = state[x])
       /\ Marked' = {}
  <2>1. "NONE" \in States
    BY DEF States
  <2>2. /\ state' \in [Nodes -> States] /\ state'[n] = "NONE" /\ (\A x \in Nodes \ {n} : state'[x] = state[x])
        /\ Marked' = Marked \ {n}
    BY <1>3, <1>4, <1>9, <2>1, MarkedChange
  <2> QED
    BY <1>2, <2>2
<1>12. Opened(w, e) = Opened(t, e)
  BY <1>2, <1>3, JoinedOpened
<1>13. TypeInv'
  BY <1>4, <1>9, <1>10, <1>11 DEF TypeInv, IsField
<1>14. Balance(t, e)'
  <2> SUFFICES ASSUME NEW x \in Nodes
               PROVE  refcnt'[x] = held[x] + InField(cfg, Nodes, x) + InField(tab, Nodes \ Opened(t, e), x)
                                   + Occ(t, RefCalls(x)) + NewRefs(e, x)
    BY <1>9 DEF Balance, InField, ChildRefs
  <2>1. PICK m, h, i, j, o, k \in Nat : Terms(w, e, x, m, h, i, j, o, k)
    BY <1>2, TermsNat DEF PlainTop
  <2>2. PICK o2, b : o2 = Occ(t, RefCalls(x)) /\ b = RefBy(c, x)
    OBVIOUS
  <2>3. /\ m = refcnt[x] /\ h = held[x] /\ i = InField(cfg, Nodes, x) /\ j = InField(tab, Nodes \ Opened(t, e), x)
        /\ o = Occ(w, RefCalls(x)) /\ k = NewRefs(e, x) /\ m = h + i + j + o + k
    BY <1>12, <2>1 DEF Terms
  <2>4. o = o2 + b /\ o2 \in Nat
    <3>1. Occ(w, RefCalls(x)) = Occ(t, RefCalls(x)) + RefBy(c, x)
      BY <1>2, <1>3, JoinedRefs
    <3> QED
      BY <1>2, <2>2, <2>3, <3>1, OccFinite
  <2>5. b = (IF x = n THEN 1 ELSE 0) /\ refcnt'[x] = m - (IF x = n THEN 1 ELSE 0)
    <3>1. b = IF x = n THEN 1 ELSE 0
      BY <1>1, <1>3, <2>2 DEF RefBy, Releases
    <3>2. m = refcnt[x]
      BY <2>3
    <3>3. CASE x = n
      <4>1. m = 1 /\ refcnt'[x] = 0
        BY <1>8, <1>10, <3>2, <3>3
      <4> QED
        BY <3>1, <3>3, <4>1
    <3>4. CASE x # n
      <4>1. refcnt'[x] = m /\ m \in Nat
        BY <1>10, <3>2, <3>4
      <4> QED
        BY <3>1, <3>4, <4>1
    <3> QED
      BY <3>3, <3>4
  <2>6. m - (IF x = n THEN 1 ELSE 0) = h + i + j + o2 + k
    <3>1. m = h + i + j + o + k
      BY <2>3
    <3> QED
      BY <2>1, <2>4, <2>5, <3>1
  <2> QED
    BY <2>2, <2>3, <2>5, <2>6
<1>15. NodesInv'
  <2> SUFFICES ASSUME NEW x \in Nodes PROVE NodeInv(x)'
    BY DEF NodesInv
  <2>1. NodeInv(x)
    BY <1>4 DEF NodesInv
  <2>2. CASE x = n
    BY <1>8, <1>9, <1>10, <1>11, <2>2 DEF NodeInv, InMemory
  <2>3. CASE x # n
    BY <1>9, <1>10, <1>11, <2>1, <2>3 DEF NodeInv, InMemory
  <2> QED
    BY <2>2, <2>3
<1>16. FreeingInv(t)'
  <2> SUFFICES ASSUME NEW x \in With("FREEING") \ {n}
               PROVE  /\ refcnt'[x] = 1 /\ cfg[x] = <<>> /\ frefs'[x] = 0
                      /\ Call("drop", x) \in Range(t)
                      /\ tab[x] # <<>> => OpenCalls(x) \cap Range(t) # {}
    BY <1>9, <1>11 DEF FreeingInv, With
  <2>1. /\ refcnt[x] = 1 /\ cfg[x] = <<>> /\ frefs[x] = 0
        /\ Call("drop", x) \in Range(w)
        /\ tab[x] # <<>> => OpenCalls(x) \cap Range(w) # {}
    BY <1>4 DEF FreeingInv
  <2>2. Call("drop", x) # c /\ c \notin OpenCalls(x)
    BY <1>1, <1>3, CallIs DEF OpenCalls
  <2>3. x \in Nodes
    BY DEF With
  <2> QED
    BY <1>5, <1>10, <2>1, <2>2, <2>3
<1>17. Paired(t)' /\ Dropping(t)'
  <2>1. Paired(t)
    BY <1>2, <1>3, <1>4, TailPaired
  <2>2. ASSUME NEW b \in Range(t), b.f = "drop" PROVE state'[b.n] = "FREEING"
    <3>1. b \in WorkCalls
      BY <1>2, RangeOfSeq
    <3>2. b = Call("drop", b.n) /\ b.n \in Nodes /\ state[b.n] = "FREEING"
      BY <1>4, <1>5, <2>2, <3>1, CallIs DEF Dropping
    <3>3. b.n # n
      BY <1>7, <3>2 DEF RefCalls
    <3> QED
      BY <1>11, <3>2, <3>3
  <2> QED
    BY <2>1, <2>2 DEF Paired, Dropping
<1>18. Ending(t, e)'
  <2>1. \A x \in Nodes : Range(tab'[x]) \subseteq Range(tab[x])
    BY <1>9
  <2>2. \A x \in Nodes : Alive(x) /\ state[x] # "FREEING" /\ x \in NodesOf(e) => Alive(x)' /\ state'[x] # "FREEING"
    BY <1>6, <1>10, <1>11 DEF Alive
  <2>3. NodesOf(t) \subseteq NodesOf(w) \cup Kids(NodesOf(w))
    BY <1>5
  <2> QED
    BY <1>4, <1>9, <2>1, <2>2, <2>3, EndingStep
<1>19. BaseInv(t, e)'
  BY <1>13, <1>14, <1>15, <1>16, <1>17, <1>18 DEF BaseInv
<1> QED
  BY <1>9, <1>11, <1>19, RestingStep

-----------------------------------------------------------------------------
(***************************************************************************)
(* Between calls of the caller, and at the end of ec_node_set_config(): no *)
(* node is marked or being freed.                                          *)
(***************************************************************************)

LEMMA QuietIs ==
  ASSUME NEW e \in Ends, BaseInv(<<>>, e), Marked = {}
  PROVE  /\ TypeInv /\ IsField(cfg) /\ IsField(tab) /\ Ending(<<>>, e)
         /\ refcnt \in [Nodes -> Nat] /\ held \in [Nodes -> Nat]
         /\ \A x \in Nodes : state[x] = "NONE" /\ frefs[x] = 0 /\ NodeInv(x)
<1>1. /\ TypeInv /\ IsField(cfg) /\ IsField(tab) /\ Ending(<<>>, e) /\ state \in [Nodes -> States]
      /\ refcnt \in [Nodes -> Nat] /\ held \in [Nodes -> Nat] /\ NodesInv /\ FreeingInv(<<>>)
  BY DEF BaseInv, TypeInv
<1>2. ASSUME NEW x \in Nodes PROVE state[x] = "NONE" /\ frefs[x] = 0 /\ NodeInv(x)
  <2>1. state[x] \in {"NONE", "FREEING"}
    BY <1>1, MarkedTyped DEF States
  <2>2. state[x] # "FREEING"
    BY <1>1, NoCalls DEF FreeingInv, With
  <2>3. NodeInv(x)
    BY <1>1 DEF NodesInv
  <2> QED
    BY <2>1, <2>2, <2>3 DEF NodeInv
<1> QED
  BY <1>1, <1>2

\* the terms of Balance in such a state
QuietTerms(e, x, r, h, c, t, n) ==
  /\ r = refcnt[x] /\ h = held[x] /\ c = InField(cfg, Nodes, x)
  /\ t = InField(tab, Nodes \ NodesOf(e), x) /\ n = NewRefs(e, x)
  /\ r = h + c + t + n

LEMMA QuietTermsNat ==
  ASSUME NEW e \in Ends, BaseInv(<<>>, e), NEW x \in Nodes
  PROVE  \E r, h, c, t, n \in Nat : QuietTerms(e, x, r, h, c, t, n)
<1>1. <<>> \in Seq(WorkCalls)
  OBVIOUS
<1>2. PICK r, h, c, t, o, n \in Nat : Terms(<<>>, e, x, r, h, c, t, o, n)
  BY <1>1, TermsNat
<1>3. Opened(<<>>, e) = NodesOf(e)
  <2>1. NodesOf(e) \subseteq Nodes
    BY EndsIs, NoCalls
  <2> QED
    BY <2>1, NoCalls DEF Opened
<1>4. o = 0
  BY <1>2, OccEmpty DEF Terms
<1>5. r = h + c + t + n
  BY <1>2, <1>4 DEF Terms
<1>6. QuietTerms(e, x, r, h, c, t, n)
  BY <1>2, <1>3, <1>5 DEF Terms, QuietTerms
<1> QED
  BY <1>6

LEMMA NoEnd == <<>> \in Ends /\ NodesOf(<<>>) = {} /\ \A x : NewRefs(<<>>, x) = 0
BY NoCalls DEF Ends, NewRefs

\* the references in a state that is followed by the calls Frees(s), e
Balanced(s, e, x) ==
  refcnt[x] = held[x] + InField(cfg, Nodes, x) + InField(tab, Nodes \ NodesOf(e), x)
              + Times(s, x) + NewRefs(e, x)

LEMMA QuietStep ==
  ASSUME NEW s \in Seq(Nodes), NEW e \in Ends, stack' = Frees(s) \o e,
         TypeInv', \A x \in Nodes : state'[x] = "NONE" /\ NodeInv(x)' /\ Balanced(s, e, x)',
         Ending(Frees(s), e)'
  PROVE  IInv'
<1>1. PICK w : w = Frees(s)
  OBVIOUS
<1>2. /\ w \in Seq(PlainCalls) /\ Range(w) = {FreeCall(x) : x \in Range(s)}
      /\ \A x \in Nodes : Occ(w, RefCalls(x)) = Times(s, x)
  BY <1>1, FreesIs
<1>3. w \in Seq(WorkCalls) /\ \A c \in Range(w) : c.f = "free"
  BY <1>2, PlainIsWork, CallIs DEF FreeCall
<1>4. Opened(w, e) = NodesOf(e)
  <2>1. NodesOf(e) \subseteq Nodes
    BY EndsIs, NoCalls
  <2>2. \A n \in Nodes : Call("priv_freed", n) \notin Range(w)
    BY <1>3, CallIs
  <2> QED
    BY <2>1, <2>2 DEF Opened
<1>5. Balance(w, e)'
  <2> SUFFICES ASSUME NEW x \in Nodes
               PROVE  refcnt'[x] = held'[x] + InField(cfg', Nodes, x) + InField(tab', Nodes \ Opened(w, e), x)
                                   + Occ(w, RefCalls(x)) + NewRefs(e, x)
    BY DEF Balance, InField, ChildRefs
  <2>1. refcnt'[x] = held'[x] + InField(cfg', Nodes, x) + InField(tab', Nodes \ NodesOf(e), x)
                     + Times(s, x) + NewRefs(e, x)
    BY DEF Balanced, InField, ChildRefs
  <2>2. Occ(w, RefCalls(x)) = Times(s, x)
    BY <1>2
  <2> QED
    BY <1>4, <2>1, <2>2
<1>6. NodesInv'
  BY DEF NodesInv
<1>7. FreeingInv(w)' /\ Marked' = {}
  BY DEF FreeingInv, Marked, With
<1>8. Paired(w)' /\ Dropping(w)'
  <2>1. \A i \in DOMAIN w : w[i].f = "free"
    BY <1>3 DEF Range
  <2> QED
    BY <1>3, <2>1 DEF Paired, Dropping
<1>9. Ending(w, e)'
  BY <1>1 DEF Ending, Alive, Apart, Kids
<1>10. BaseInv(w, e)'
  BY <1>5, <1>6, <1>7, <1>8, <1>9 DEF BaseInv
<1>11. stack' = w \o e
  BY <1>1
<1> QED
  BY <1>2, <1>7, <1>10, <1>11, RestingStep

LEMMA FreesEmpty == Frees(<<>>) = <<>> /\ <<>> \in Seq(Nodes) /\ Frees(<<>>) \o <<>> = <<>>
<1>1. Frees(<<>>) = <<>>
  BY DEF Frees
<1> QED
  BY <1>1, EmptyFirst

LEMMA FreesOne ==
  ASSUME NEW n \in Nodes
  PROVE  /\ <<n>> \in Seq(Nodes) /\ <<FreeCall(n)>> = Frees(<<n>>) \o <<>>
         /\ \A x : Times(<<n>>, x) = IF n = x THEN 1 ELSE 0
<1>1. <<n>> = Append(<<>>, n) /\ <<n>> \in Seq(Nodes)
  OBVIOUS
<1>2. ASSUME NEW x PROVE Times(<<n>>, x) = IF n = x THEN 1 ELSE 0
  <2>1. PICK s, u, o : s = <<>> /\ u = Append(s, n) /\ o = One(n = x)
    OBVIOUS
  <2>2. s \in Seq(Nodes) /\ u = <<n>>
    BY <1>1, <2>1
  <2>3. Times(u, x) = Times(s, x) + o
    <3>1. s \in Seq(Nodes)
      BY <2>2
    <3>2. Times(Append(s, n), x) = Times(s, x) + One(n = x)
      BY <3>1, TimesAppend
    <3>3. u = Append(s, n) /\ o = One(n = x)
      BY <2>1
    <3> QED
      BY <3>2, <3>3
  <2>4. Times(s, x) = 0
    BY <2>1, TimesEmpty
  <2>5. o = (IF n = x THEN 1 ELSE 0) /\ 0 + o = o
    BY <2>1 DEF One
  <2> QED
    BY <2>2, <2>3, <2>4, <2>5
<1>3. Frees(<<n>>) = <<FreeCall(n)>>
  BY DEF Frees
<1>4. <<FreeCall(n)>> \in Seq(Calls)
  <2>1. FreeCall(n) \in Calls
    BY CallIs DEF FreeCall, Calls
  <2> QED
    BY <2>1
<1> QED
  BY <1>1, <1>2, <1>3, <1>4, EmptyFirst

LEMMA NoEnding == \A w : Ending(w, <<>>)'
BY NoCalls DEF Ending

-----------------------------------------------------------------------------
(***************************************************************************)
(* The actions of the caller.                                              *)
(***************************************************************************)

\* what is known when no call is pending
LEMMA IdleIs ==
  ASSUME NoTop
  PROVE  /\ stack = <<>> /\ BaseInv(<<>>, <<>>) /\ Marked = {}
         /\ TypeInv /\ IsField(cfg) /\ IsField(tab)
         /\ refcnt \in [Nodes -> Nat] /\ held \in [Nodes -> Nat]
         /\ \A x \in Nodes : state[x] = "NONE" /\ frefs[x] = 0 /\ NodeInv(x)
<1>1. stack = <<>> /\ BaseInv(<<>>, <<>>) /\ Marked = {}
  BY DEF NoTop
<1> QED
  BY <1>1, NoEnd, QuietIs

\* the counters then, and the numbers of references that they count
Idly(x, r, h, c, t) ==
  r = refcnt[x] /\ h = held[x] /\ c = InField(cfg, Nodes, x) /\ t = InField(tab, Nodes, x) /\ r = h + c + t

LEMMA IdleTerms ==
  ASSUME NoTop, NEW x \in Nodes
  PROVE  \E r, h, c, t \in Nat : Idly(x, r, h, c, t)
<1>1. PICK e : e = <<>>
  OBVIOUS
<1>2. e \in Ends /\ BaseInv(<<>>, e) /\ NodesOf(e) = {} /\ NewRefs(e, x) = 0
  BY <1>1, NoEnd DEF NoTop
<1>3. PICK r, h, c, t, n \in Nat : QuietTerms(e, x, r, h, c, t, n)
  BY <1>2, QuietTermsNat
<1>4. Nodes \ NodesOf(e) = Nodes
  BY <1>2
<1>5. n = 0 /\ r = h + c + t
  BY <1>2, <1>3 DEF QuietTerms
<1>6. Idly(x, r, h, c, t)
  BY <1>3, <1>4, <1>5 DEF QuietTerms, Idly
<1> QED
  BY <1>6

\* a node that the caller holds
LEMMA IdleHeld ==
  ASSUME NoTop, NEW n \in Nodes, held[n] > 0
  PROVE  Alive(n) /\ refcnt[n] > 0
<1>1. PICK e, w : e = <<>> /\ w = <<>>
  OBVIOUS
<1>2. e \in Ends /\ w \in Seq(WorkCalls) /\ BaseInv(w, e)
  BY <1>1, NoEnd DEF NoTop
<1> QED
  BY <1>2, Holding

\* the child of a node
LEMMA IdleChild ==
  ASSUME NoTop, NEW n \in Nodes, NEW x \in Range(tab[n])
  PROVE  x \in Nodes /\ Alive(x) /\ refcnt[x] > 0
<1>1. PICK e, w : e = <<>> /\ w = <<>>
  OBVIOUS
<1>2. e \in Ends /\ w \in Seq(WorkCalls) /\ BaseInv(w, e)
  BY <1>1, NoEnd DEF NoTop
<1>3. state[n] # "FREEING"
  BY IdleIs
<1> QED
  BY <1>2, <1>3, KidsStay

\* A reference of the caller becomes that of a call to ec_node_free(), or is
\* freed at once.
LEMMA GiveBackStep ==
  ASSUME NoTop, NEW n \in Nodes, held[n] > 0, held' = [held EXCEPT ![n] = @ - 1], stack' = <<FreeCall(n)>>,
         UNCHANGED <<single, mem, refcnt, state, frefs, cfg, tab>>
  PROVE  IInv'
<1>1. PICK s, e : s = <<n>> /\ e = <<>>
  OBVIOUS
<1>2. /\ s \in Seq(Nodes) /\ stack' = Frees(s) \o e /\ (\A x : Times(s, x) = IF n = x THEN 1 ELSE 0)
      /\ e \in Ends /\ NodesOf(e) = {} /\ \A x : NewRefs(e, x) = 0
  BY <1>1, FreesOne, NoEnd
<1>3. /\ TypeInv /\ held \in [Nodes -> Nat]
      /\ \A x \in Nodes : state[x] = "NONE" /\ NodeInv(x)
  BY IdleIs
<1>4. held' \in [Nodes -> Nat] /\ \A x \in Nodes : held'[x] = held[x] - IF n = x THEN 1 ELSE 0
  BY <1>3
<1>5. TypeInv'
  BY <1>3, <1>4 DEF TypeInv, IsField
<1>6. ASSUME NEW x \in Nodes PROVE Balanced(s, e, x)'
  <2>1. PICK r, h, c, t \in Nat : Idly(x, r, h, c, t)
    BY IdleTerms
  <2>2. PICK d : d = IF n = x THEN 1 ELSE 0
    OBVIOUS
  <2>3. d \in Nat /\ Times(s, x) = d /\ NewRefs(e, x) = 0 /\ Nodes \ NodesOf(e) = Nodes
    BY <1>2, <2>2
  <2>4. held'[x] = h - d
    BY <1>4, <2>1, <2>2 DEF Idly
  <2>5. r = h + c + t
    BY <2>1 DEF Idly
  <2>6. r = (h - d) + c + t + d + 0
    BY <2>1, <2>3, <2>5
  <2>7. r = refcnt[x] /\ c = InField(cfg, Nodes, x) /\ t = InField(tab, Nodes \ NodesOf(e), x)
    BY <2>1, <2>3 DEF Idly
  <2>8. refcnt[x] = held'[x] + InField(cfg, Nodes, x) + InField(tab, Nodes \ NodesOf(e), x) + Times(s, x) + NewRefs(e, x)
    BY <2>3, <2>4, <2>6, <2>7
  <2> QED
    BY <2>8 DEF Balanced, InField, ChildRefs
<1>7. \A x \in Nodes : state'[x] = "NONE" /\ NodeInv(x)'
  BY <1>3 DEF NodeInv, InMemory
<1>8. Ending(Frees(s), e)'
  BY <1>1, NoEnding
<1> QED
  BY <1>2, <1>5, <1>6, <1>7, <1>8, QuietStep

LEMMA NewNodeStep ==
  ASSUME NoTop, NEW n \in Nodes, NewNode(n), UNCHANGED single
  PROVE  IInv'
<1>1. PICK s, e : s = <<>> /\ e = <<>>
  OBVIOUS
<1>2. /\ s \in Seq(Nodes) /\ stack' = Frees(s) \o e /\ (\A x : Times(s, x) = 0)
      /\ e \in Ends /\ NodesOf(e) = {} /\ \A x : NewRefs(e, x) = 0
  <2>1. stack' = <<>>
    BY IdleIs DEF NewNode
  <2> QED
    BY <1>1, <2>1, FreesEmpty, TimesEmpty, NoEnd
<1>3. /\ TypeInv /\ held \in [Nodes -> Nat] /\ refcnt \in [Nodes -> Nat]
      /\ mem \in [Nodes -> {"none", "alive", "gutted", "freed"}]
      /\ \A x \in Nodes : state[x] = "NONE" /\ NodeInv(x)
  BY IdleIs DEF TypeInv
<1>4. /\ held' \in [Nodes -> Nat] /\ refcnt' \in [Nodes -> Nat] /\ mem' \in [Nodes -> {"none", "alive", "gutted", "freed"}]
      /\ held'[n] = 1 /\ refcnt'[n] = 1 /\ mem'[n] = "alive" /\ mem[n] = "none"
      /\ \A x \in Nodes \ {n} : held'[x] = held[x] /\ refcnt'[x] = refcnt[x] /\ mem'[x] = mem[x]
      /\ UNCHANGED <<state, frefs, cfg, tab>>
  BY <1>3 DEF NewNode
<1>5. TypeInv'
  BY <1>3, <1>4 DEF TypeInv, IsField
<1>6. refcnt[n] = 0 /\ cfg[n] = <<>> /\ tab[n] = <<>>
  BY <1>3, <1>4 DEF NodeInv, InMemory
<1>7. ASSUME NEW x \in Nodes PROVE Balanced(s, e, x)'
  <2>1. PICK r, h, c, t \in Nat : Idly(x, r, h, c, t)
    BY IdleTerms
  <2>2. r = h + c + t
    BY <2>1 DEF Idly
  <2>3. refcnt'[x] = held'[x] + c + t + 0 + 0
    <3>1. CASE x = n
      <4>1. r = 0 /\ refcnt'[x] = 1 /\ held'[x] = 1
        BY <1>4, <1>6, <2>1, <3>1 DEF Idly
      <4>2. c = 0 /\ t = 0
        BY <2>1, <2>2, <4>1
      <4> QED
        BY <4>1, <4>2
    <3>2. CASE x # n
      <4>1. refcnt'[x] = r /\ held'[x] = h
        BY <1>4, <2>1, <3>2 DEF Idly
      <4> QED
        BY <2>2, <4>1
    <3> QED
      BY <3>1, <3>2
  <2>4. Times(s, x) = 0 /\ NewRefs(e, x) = 0 /\ Nodes \ NodesOf(e) = Nodes
    BY <1>2
  <2>5. c = InField(cfg, Nodes, x) /\ t = InField(tab, Nodes \ NodesOf(e), x)
    BY <2>1, <2>4 DEF Idly
  <2>6. refcnt'[x] = held'[x] + InField(cfg, Nodes, x) + InField(tab, Nodes \ NodesOf(e), x) + Times(s, x) + NewRefs(e, x)
    BY <2>3, <2>4, <2>5
  <2> QED
    BY <1>4, <2>6 DEF Balanced, InField, ChildRefs
<1>8. ASSUME NEW x \in Nodes PROVE state'[x] = "NONE" /\ NodeInv(x)'
  <2>1. state[x] = "NONE" /\ NodeInv(x)
    BY <1>3
  <2> QED
    BY <1>4, <1>6, <2>1 DEF NodeInv, InMemory, NewNode
<1>9. Ending(Frees(s), e)'
  BY <1>1, NoEnding
<1> QED
  BY <1>2, <1>5, <1>7, <1>8, <1>9, QuietStep

LEMMA CloneStep ==
  ASSUME NoTop, NEW n \in Nodes, Clone(n), UNCHANGED single
  PROVE  IInv'
<1>1. PICK s, e : s = <<>> /\ e = <<>>
  OBVIOUS
<1>2. /\ s \in Seq(Nodes) /\ stack' = Frees(s) \o e /\ (\A x : Times(s, x) = 0)
      /\ e \in Ends /\ NodesOf(e) = {} /\ \A x : NewRefs(e, x) = 0
  <2>1. stack' = <<>>
    BY IdleIs DEF Clone
  <2> QED
    BY <1>1, <2>1, FreesEmpty, TimesEmpty, NoEnd
<1>3. /\ TypeInv /\ held \in [Nodes -> Nat] /\ refcnt \in [Nodes -> Nat]
      /\ \A x \in Nodes : state[x] = "NONE" /\ NodeInv(x)
  BY IdleIs DEF TypeInv
<1>4. held[n] > 0
  BY <1>3 DEF Clone
<1>5. Alive(n) /\ refcnt[n] > 0
  BY <1>4, IdleHeld
<1>6. /\ held' \in [Nodes -> Nat] /\ refcnt' \in [Nodes -> Nat]
      /\ held'[n] = held[n] + 1 /\ refcnt'[n] = refcnt[n] + 1
      /\ \A x \in Nodes \ {n} : held'[x] = held[x] /\ refcnt'[x] = refcnt[x]
      /\ UNCHANGED <<mem, state, frefs, cfg, tab>>
  BY <1>3 DEF Clone
<1>7. TypeInv'
  BY <1>3, <1>6 DEF TypeInv, IsField
<1>8. ASSUME NEW x \in Nodes PROVE Balanced(s, e, x)'
  <2>1. PICK r, h, c, t \in Nat : Idly(x, r, h, c, t)
    BY IdleTerms
  <2>2. r = h + c + t
    BY <2>1 DEF Idly
  <2>3. refcnt'[x] = held'[x] + c + t + 0 + 0
    <3>1. CASE x = n
      <4>1. refcnt'[x] = r + 1 /\ held'[x] = h + 1
        BY <1>6, <2>1, <3>1 DEF Idly
      <4> QED
        BY <2>1, <2>2, <4>1
    <3>2. CASE x # n
      <4>1. refcnt'[x] = r /\ held'[x] = h
        BY <1>6, <2>1, <3>2 DEF Idly
      <4> QED
        BY <2>2, <4>1
    <3> QED
      BY <3>1, <3>2
  <2>4. Times(s, x) = 0 /\ NewRefs(e, x) = 0 /\ Nodes \ NodesOf(e) = Nodes
    BY <1>2
  <2>5. c = InField(cfg, Nodes, x) /\ t = InField(tab, Nodes \ NodesOf(e), x)
    BY <2>1, <2>4 DEF Idly
  <2>6. refcnt'[x] = held'[x] + InField(cfg, Nodes, x) + InField(tab, Nodes \ NodesOf(e), x) + Times(s, x) + NewRefs(e, x)
    BY <2>3, <2>4, <2>5
  <2> QED
    BY <1>6, <2>6 DEF Balanced, InField, ChildRefs
<1>9. ASSUME NEW x \in Nodes PROVE state'[x] = "NONE" /\ NodeInv(x)'
  <2>1. state[x] = "NONE" /\ NodeInv(x)
    BY <1>3
  <2>2. refcnt'[x] > 0 <=> refcnt[x] > 0
    BY <1>3, <1>5, <1>6
  <2> QED
    BY <1>6, <2>1, <2>2 DEF NodeInv, InMemory
<1>10. Ending(Frees(s), e)'
  BY <1>1, NoEnding
<1> QED
  BY <1>2, <1>7, <1>8, <1>9, <1>10, QuietStep

\* ec_node_set_config() starts: the references of the new configuration and of
\* the new table are taken, the old ones are to be released.
LEMMA ReplaceStep ==
  ASSUME NoTop, NoLoops, NEW n \in Nodes, n \notin single, Alive(n), NEW new \in Seq(Nodes), Len(new) <= MaxKids,
         stack' = Frees(tab[n]) \o <<TableCall(n, new)>>, UNCHANGED <<single, mem, state, frefs, cfg, tab>>,
         refcnt' \in [Nodes -> Nat], held' \in [Nodes -> Nat],
         \A x \in Nodes : /\ refcnt'[x] + held[x] = refcnt[x] + held'[x] + 2 * Times(new, x)
                          /\ refcnt'[x] > 0 <=> refcnt[x] > 0
  PROVE  IInv'
<1>1. PICK s, d, e : s = tab[n] /\ d = TableCall(n, new) /\ e = <<d>>
  OBVIOUS
<1>2. /\ TypeInv /\ IsField(tab) /\ tab \in [Nodes -> Seq(Nodes)]
      /\ \A x \in Nodes : state[x] = "NONE" /\ NodeInv(x)
  BY IdleIs DEF IsField
<1>3. s \in Seq(Nodes) /\ stack' = Frees(s) \o e
  BY <1>1, <1>2
<1>4. d \in TableCalls /\ d.n = n /\ d.new = new
  BY <1>1 DEF TableCall, TableCalls
<1>5. e \in Ends /\ Range(e) = {d} /\ NodesOf(e) = {n} /\ e # <<>> /\ e[1] = d
  BY <1>1, <1>4 DEF Ends, Range, NodesOf
<1>6. \A x : NewRefs(e, x) = 2 * Times(new, x)
  BY <1>4, <1>5 DEF NewRefs
<1>7. TypeInv'
  BY <1>2 DEF TypeInv, IsField
<1>8. ASSUME NEW x \in Nodes PROVE Balanced(s, e, x)'
  <2>1. PICK r, h, c, t \in Nat : Idly(x, r, h, c, t)
    BY IdleTerms
  <2>2. PICK U : U = Nodes \ {n}
    OBVIOUS
  <2>3. U \in SUBSET Nodes /\ n \in Nodes \ U /\ Nodes = U \cup {n} /\ Nodes \ NodesOf(e) = U
    BY <1>5, <2>2
  <2>4. PICK u, v, k : u = InField(tab, U, x) /\ v = Times(s, x) /\ k = Times(new, x)
    OBVIOUS
  <2>5. u \in Nat /\ v \in Nat /\ k \in Nat
    <3>1. InField(tab, U, x) \in Nat
      BY <2>3, ChildRefsFinite
    <3>2. Times(s, x) \in Nat /\ Times(new, x) \in Nat
      BY <1>3, TimesIs
    <3> QED
      BY <2>4, <3>1, <3>2
  <2>6. t = u + v
    <3>1. InField(tab, Nodes, x) = InField(tab, U, x) + Times(tab[n], x)
      BY <1>2, <2>2, InFieldWithout
    <3> QED
      BY <1>1, <2>1, <2>4, <3>1 DEF Idly
  <2>7. r = h + c + t
    BY <2>1 DEF Idly
  <2>8. refcnt'[x] \in Nat /\ held'[x] \in Nat /\ refcnt'[x] + h = r + held'[x] + 2 * k
    BY <2>1, <2>4 DEF Idly
  <2>9. refcnt'[x] = held'[x] + c + u + v + 2 * k
    <3>1. PICK p, q : p = refcnt'[x] /\ q = held'[x]
      OBVIOUS
    <3>2. p \in Nat /\ q \in Nat /\ p + h = r + q + 2 * k
      BY <2>8, <3>1
    <3>3. p = q + c + u + v + 2 * k
      BY <2>5, <2>6, <2>7, <3>2
    <3> QED
      BY <3>1, <3>3
  <2>10. c = InField(cfg, Nodes, x) /\ u = InField(tab, Nodes \ NodesOf(e), x) /\ NewRefs(e, x) = 2 * k
    BY <1>6, <2>1, <2>3, <2>4 DEF Idly
  <2>11. refcnt'[x] = held'[x] + InField(cfg, Nodes, x) + InField(tab, Nodes \ NodesOf(e), x) + Times(s, x) + NewRefs(e, x)
    BY <2>4, <2>9, <2>10
  <2> QED
    BY <2>11 DEF Balanced, InField, ChildRefs
<1>9. ASSUME NEW x \in Nodes PROVE state'[x] = "NONE" /\ NodeInv(x)'
  <2>1. state[x] = "NONE" /\ NodeInv(x) /\ (refcnt'[x] > 0 <=> refcnt[x] > 0)
    BY <1>2
  <2> QED
    BY <2>1 DEF NodeInv, InMemory
<1>10. Ending(Frees(s), e)'
  <2>1. NodesOf(Frees(s)) = Range(s)
    BY <1>3, FreesIs
  <2>2. Apart(n, Kids({n}))
    BY <1>2, NotBelow
  <2>3. Kids({n}) = Range(s)
    BY <1>1, KidsOf
  <2>4. Apart(n, NodesOf(Frees(s)))
    BY <2>1, <2>2, <2>3
  <2>5. n \notin single /\ Alive(n) /\ state[n] # "FREEING" /\ Len(new) <= MaxKids
    BY <1>2
  <2>6. Ending(Frees(s), e)
    BY <1>4, <1>5, <2>4, <2>5 DEF Ending
  <2> QED
    BY <2>6 DEF Ending, Apart, Alive, Kids
<1> QED
  BY <1>3, <1>5, <1>7, <1>8, <1>9, <1>10, QuietStep

LEMMA SeqAddStep ==
  ASSUME NoTop, NoLoops, NEW n \in Nodes, NEW c \in Nodes, SeqAdd(n, c), UNCHANGED single
  PROVE  IInv'
<1>1. PICK s, new : s = cfg[n] /\ new = Append(s, c)
  OBVIOUS
<1>2. /\ IsField(cfg) /\ cfg \in [Nodes -> Seq(Nodes)] /\ refcnt \in [Nodes -> Nat] /\ held \in [Nodes -> Nat]
      /\ \A x \in Nodes : state[x] = "NONE" /\ NodeInv(x)
  BY IdleIs DEF IsField
<1>3. /\ n \notin single /\ held[c] > 0 /\ held[n] > 0 /\ Len(tab[n]) < MaxKids
      /\ refcnt' = [x \in Nodes |-> refcnt[x] + Times(new, x) + Times(s, x)]
      /\ stack' = Frees(tab[n]) \o <<TableCall(n, new)>>
      /\ held' = [held EXCEPT ![c] = @ - 1]
      /\ UNCHANGED <<mem, state, frefs, cfg, tab>>
  <2>1. MayGive(n, c) /\ held[n] \in Nat
    BY <1>2 DEF SeqAdd
  <2>2. held[c] > 0 /\ held[n] > 0
    BY <2>1 DEF MayGive
  <2> QED
    BY <1>1, <2>2 DEF SeqAdd
<1>4. s \in Seq(Nodes)
  BY <1>1, <1>2
<1>5. /\ new \in Seq(Nodes) /\ Len(new) = Len(s) + 1
      /\ \A x : Times(new, x) = Times(s, x) + One(c = x)
  BY <1>1, <1>4, TimesAppend
<1>6. Alive(n) /\ refcnt[c] > 0
  BY <1>3, IdleHeld
<1>7. Len(new) <= MaxKids
  <2>1. cfg[n] = tab[n]
    BY <1>2, <1>3 DEF NodeInv
  <2>2. Len(s) < MaxKids /\ Len(s) \in Nat /\ MaxKids \in Nat
    BY <1>1, <1>3, <1>4, <2>1, LenProperties, BoundsAssumption
  <2> QED
    BY <1>5, <2>2
<1>8. held' \in [Nodes -> Nat] /\ \A x \in Nodes : held'[x] = held[x] - IF c = x THEN 1 ELSE 0
  BY <1>2, <1>3
<1>9. ASSUME NEW x \in Nodes
      PROVE  /\ Times(new, x) \in Nat /\ Times(s, x) \in Nat
             /\ refcnt'[x] = refcnt[x] + Times(new, x) + Times(s, x)
             /\ refcnt'[x] + held[x] = refcnt[x] + held'[x] + 2 * Times(new, x)
             /\ refcnt'[x] > 0 <=> refcnt[x] > 0
  <2>1. PICK i, j, o : i = Times(new, x) /\ j = Times(s, x) /\ o = IF c = x THEN 1 ELSE 0
    OBVIOUS
  <2>2. i \in Nat /\ j \in Nat /\ (x \notin Range(s) => j = 0)
    <3>1. Times(new, x) \in Nat
      BY <1>5, TimesIs
    <3>2. Times(s, x) \in Nat /\ (Times(s, x) > 0 <=> x \in Range(s))
      BY <1>4, TimesIs
    <3> QED
      BY <2>1, <3>1, <3>2
  <2>3. One(c = x) = o /\ o \in {0, 1} /\ (o = 1 => c = x)
    BY <2>1 DEF One
  <2>4. i = j + o
    BY <1>5, <2>1, <2>3
  <2>5. refcnt'[x] = refcnt[x] + i + j /\ held'[x] = held[x] - o
    BY <1>3, <1>8, <2>1
  <2>6. refcnt[x] \in Nat /\ held[x] \in Nat
    BY <1>2
  <2>7. refcnt'[x] + held[x] = refcnt[x] + held'[x] + 2 * i
    BY <2>2, <2>3, <2>4, <2>5, <2>6
  <2>8. refcnt'[x] > 0 <=> refcnt[x] > 0
    <3>1. CASE x \in Range(s)
      <4>1. Range(s) \subseteq Range(tab[n])
        BY <1>1, <1>2, <1>3 DEF NodeInv
      <4>2. refcnt[x] > 0
        BY <3>1, <4>1, IdleChild
      <4> QED
        BY <2>2, <2>5, <2>6, <4>2
    <3>2. CASE x \notin Range(s)
      <4>1. j = 0
        BY <2>2, <3>2
      <4>2. CASE o = 1
        <5>1. refcnt[x] > 0
          BY <1>6, <2>3, <4>2
        <5> QED
          BY <2>2, <2>5, <2>6, <5>1
      <4>3. CASE o = 0
        BY <2>4, <2>5, <2>6, <4>1, <4>3
      <4> QED
        BY <2>3, <4>2, <4>3
    <3> QED
      BY <3>1, <3>2
  <2> QED
    BY <2>1, <2>2, <2>5, <2>7, <2>8
<1>10. refcnt' \in [Nodes -> Nat]
  <2>1. ASSUME NEW x \in Nodes PROVE refcnt[x] + Times(new, x) + Times(s, x) \in Nat
    <3>1. PICK i, j, r : i = Times(new, x) /\ j = Times(s, x) /\ r = refcnt[x]
      OBVIOUS
    <3>2. i \in Nat /\ j \in Nat /\ r \in Nat
      BY <1>2, <1>9, <3>1
    <3>3. r + i + j \in Nat
      BY <3>2
    <3> QED
      BY <3>1, <3>3
  <2> QED
    BY <1>3, <2>1
<1> QED
  BY <1>3, <1>5, <1>6, <1>7, <1>8, <1>9, <1>10, ReplaceStep

LEMMA SetConfigStep ==
  ASSUME NoTop, NoLoops, NEW n \in Nodes, NEW new \in {<<>>} \cup {<<c>> : c \in Nodes}, SetConfig(n, new),
         UNCHANGED single
  PROVE  IInv'
<1>1. /\ IsField(tab) /\ tab \in [Nodes -> Seq(Nodes)] /\ refcnt \in [Nodes -> Nat] /\ held \in [Nodes -> Nat]
      /\ mem \in [Nodes -> {"none", "alive", "gutted", "freed"}]
      /\ \A x \in Nodes : state[x] = "NONE" /\ NodeInv(x)
  BY IdleIs DEF IsField, TypeInv
<1>2. /\ n \notin single /\ tab[n] # <<>> /\ (\A c \in Range(new) : held[c] > 0)
      /\ refcnt' = [x \in Nodes |-> refcnt[x] + Times(new, x)]
      /\ held' = [x \in Nodes |-> held[x] - Times(new, x)]
      /\ stack' = Frees(tab[n]) \o <<TableCall(n, new)>>
      /\ UNCHANGED <<mem, state, frefs, cfg, tab>>
  BY DEF SetConfig, MayGive
<1>3. Alive(n)
  BY <1>1, <1>2 DEF NodeInv, Alive
<1>4. 1 <= MaxKids
  <2>1. Len(tab[n]) \in Nat /\ Len(tab[n]) # 0 /\ Len(tab[n]) <= MaxKids /\ MaxKids \in Nat
    BY <1>1, <1>2, EmptySeq, LenProperties, BoundsAssumption DEF IsField
  <2> QED
    BY <2>1
<1>5. /\ new \in Seq(Nodes) /\ Len(new) <= MaxKids
      /\ \A x \in Nodes : Times(new, x) \in {0, 1} /\ (Times(new, x) = 1 => x \in Range(new))
  <2>1. CASE new = <<>>
    <3>1. new \in Seq(Nodes) /\ Len(new) = 0
      BY <2>1
    <3>2. \A x : Times(new, x) = 0
      BY <2>1, TimesEmpty
    <3> QED
      BY <1>4, <3>1, <3>2, BoundsAssumption
  <2>2. CASE new # <<>>
    <3>1. PICK c \in Nodes : new = <<c>>
      BY <2>2
    <3>2. new \in Seq(Nodes) /\ Len(new) = 1 /\ c \in Range(new)
      BY <3>1 DEF Range
    <3>3. \A x : Times(new, x) = IF c = x THEN 1 ELSE 0
      BY <3>1, FreesOne
    <3> QED
      BY <1>4, <3>2, <3>3
  <2> QED
    BY <2>1, <2>2
<1>6. ASSUME NEW x \in Nodes
      PROVE  /\ refcnt'[x] \in Nat /\ held'[x] \in Nat
             /\ refcnt'[x] + held[x] = refcnt[x] + held'[x] + 2 * Times(new, x)
             /\ refcnt'[x] > 0 <=> refcnt[x] > 0
  <2>1. PICK i : i = Times(new, x)
    OBVIOUS
  <2>2. i \in {0, 1} /\ (i = 1 => held[x] > 0) /\ refcnt[x] \in Nat /\ held[x] \in Nat
    BY <1>1, <1>2, <1>5, <2>1
  <2>3. i = 1 => refcnt[x] > 0
    BY <2>2, IdleHeld
  <2>4. refcnt'[x] = refcnt[x] + i /\ held'[x] = held[x] - i
    BY <1>2, <2>1
  <2>5. refcnt'[x] + held[x] = refcnt[x] + held'[x] + 2 * i
    BY <2>2, <2>4
  <2>6. refcnt[x] + i \in Nat /\ held[x] - i \in Nat /\ (refcnt[x] + i > 0 <=> refcnt[x] > 0)
    BY <2>2, <2>3
  <2> QED
    BY <2>1, <2>4, <2>5, <2>6
<1>7. refcnt' \in [Nodes -> Nat] /\ held' \in [Nodes -> Nat]
  <2>1. /\ \A x \in Nodes : refcnt'[x] = refcnt[x] + Times(new, x) /\ held'[x] = held[x] - Times(new, x)
        /\ DOMAIN refcnt' = Nodes /\ DOMAIN held' = Nodes
    BY <1>2
  <2>2. \A x \in Nodes : refcnt[x] + Times(new, x) \in Nat /\ held[x] - Times(new, x) \in Nat
    BY <1>6, <2>1
  <2> QED
    BY <1>2, <2>2
<1> QED
  BY <1>2, <1>3, <1>5, <1>6, <1>7, ReplaceStep

LEMMA CallerFreeStep ==
  ASSUME NoTop, NEW n \in Nodes, CallerFree(n), UNCHANGED single
  PROVE  IInv'
BY GiveBackStep DEF CallerFree

LEMMA PrependIs ==
  ASSUME NEW v \in Seq(Nodes), NEW d \in Nodes
  PROVE  <<d>> \o v \in Seq(Nodes) /\ Range(<<d>> \o v) = Range(v) \cup {d}
<1>1. PICK u : u = <<d>> \o v
  OBVIOUS
<1>2. /\ u \in Seq(Nodes) /\ DOMAIN u = 1..(Len(v) + 1) /\ Len(v) \in Nat /\ DOMAIN v = 1..Len(v)
      /\ u[1] = d /\ \A i \in 1..Len(v) : u[i + 1] = v[i]
  BY <1>1
<1>3. Range(v) \cup {d} \subseteq Range(u)
  BY <1>2 DEF Range
<1>4. ASSUME NEW i \in DOMAIN u PROVE u[i] \in Range(v) \cup {d}
  <2>1. CASE i = 1
    BY <1>2, <2>1
  <2>2. CASE i # 1
    <3>1. i - 1 \in DOMAIN v /\ u[i] = v[i - 1]
      BY <1>2, <2>2
    <3> QED
      BY <3>1 DEF Range
  <2> QED
    BY <2>1, <2>2
<1>5. Range(u) = Range(v) \cup {d}
  BY <1>3, <1>4 DEF Range
<1> QED
  BY <1>1, <1>2, <1>5

\* the calls that an ec_node_seq_add() which finds no memory makes
LEMMA ReleasedIs ==
  ASSUME NEW s \in Seq(Nodes), NEW c \in Nodes,
         NEW t \in {<<c>> \o s} \cup {Append(u, c) : u \in Clones(s)}
  PROVE  t \in Seq(Nodes) /\ c \in Range(t) /\ Range(t) \subseteq Range(s) \cup {c}
<1>1. CASE t = <<c>> \o s
  BY <1>1, PrependIs
<1>2. CASE t # <<c>> \o s
  <2>1. PICK u \in Clones(s) : t = Append(u, c)
    BY <1>2
  <2>2. u \in Seq(Nodes) /\ Range(u) \subseteq Range(s)
    <3>1. ASSUME NEW m \in 0..Len(s)
          PROVE  SubSeq(s, 1, m) \in Seq(Nodes) /\ Range(SubSeq(s, 1, m)) \subseteq Range(s)
      <4>1. /\ SubSeq(s, 1, m) \in Seq(Nodes) /\ Len(SubSeq(s, 1, m)) = m
            /\ \A i \in 1..m : SubSeq(s, 1, m)[i] = s[i]
        OBVIOUS
      <4> QED
        BY <4>1 DEF Range
    <3>2. CASE \E m \in 0..Len(s) : u = SubSeq(s, 1, m)
      BY <3>1, <3>2
    <3>3. CASE \E m \in DOMAIN s : u = <<s[m]>> \o SubSeq(s, 1, m - 1)
      <4>1. PICK m \in DOMAIN s : u = <<s[m]>> \o SubSeq(s, 1, m - 1)
        BY <3>3
      <4>2. PICK v : v = SubSeq(s, 1, m - 1)
        OBVIOUS
      <4>3. m \in 1..Len(s) /\ s[m] \in Nodes /\ s[m] \in Range(s) /\ m - 1 \in 0..Len(s)
        BY <4>1 DEF Range
      <4>4. v \in Seq(Nodes) /\ Range(v) \subseteq Range(s)
        BY <3>1, <4>2, <4>3
      <4>5. u \in Seq(Nodes) /\ Range(u) = Range(v) \cup {s[m]}
        BY <4>1, <4>2, <4>3, <4>4, PrependIs
      <4> QED
        BY <4>3, <4>4, <4>5
    <3> QED
      BY <2>1, <3>2, <3>3 DEF Clones
  <2>3. Append(u, c) \in Seq(Nodes) /\ Range(Append(u, c)) = Range(u) \cup {c}
    BY <2>2, TimesAppend
  <2> QED
    BY <2>1, <2>2, <2>3
<1> QED
  BY <1>1, <1>2

LEMMA SeqAddFailsStep ==
  ASSUME NoTop, "table" \notin FailSites, NEW n \in Nodes, NEW c \in Nodes, NEW site \in FailSites \ {"subset"},
         SeqAddFails(n, c, site), UNCHANGED single
  PROVE  IInv'
<1>1. site = "config"
  BY BoundsAssumption
<1>2. /\ IsField(cfg) /\ cfg \in [Nodes -> Seq(Nodes)] /\ refcnt \in [Nodes -> Nat] /\ held \in [Nodes -> Nat]
      /\ TypeInv /\ \A x \in Nodes : state[x] = "NONE" /\ NodeInv(x)
  BY IdleIs DEF IsField
<1>3. /\ held[c] > 0 /\ n \notin single
      /\ held' = [held EXCEPT ![c] = @ - 1]
      /\ UNCHANGED <<mem, state, frefs, cfg, tab>>
  BY <1>2 DEF SeqAddFails, MayGive
<1>4. PICK s \in {<<c>> \o cfg[n]} \cup {Append(u, c) : u \in Clones(cfg[n])} :
        /\ stack' = Frees(s)
        /\ refcnt' = [x \in Nodes |-> refcnt[x] + Times(s, x) - (IF x # c THEN 0 ELSE 1)]
  BY <1>1 DEF SeqAddFails
<1>5. s \in Seq(Nodes) /\ c \in Range(s) /\ Range(s) \subseteq Range(cfg[n]) \cup {c}
  BY <1>2, <1>4, ReleasedIs
<1>6. PICK e : e = <<>>
  OBVIOUS
<1>7. e \in Ends /\ NodesOf(e) = {} /\ (\A x : NewRefs(e, x) = 0) /\ stack' = Frees(s) \o e
  <2>1. Frees(s) \in Seq(PlainCalls)
    BY <1>5, FreesIs
  <2>2. Frees(s) \o <<>> = Frees(s)
    BY <2>1
  <2> QED
    BY <1>4, <1>6, <2>2, NoEnd
<1>8. held' \in [Nodes -> Nat] /\ \A x \in Nodes : held'[x] = held[x] - (IF x # c THEN 0 ELSE 1)
  BY <1>2, <1>3
<1>9. ASSUME NEW x \in Nodes
      PROVE  /\ refcnt'[x] \in Nat /\ (refcnt'[x] > 0 <=> refcnt[x] > 0)
             /\ refcnt'[x] + held[x] = refcnt[x] + held'[x] + Times(s, x)
  <2>1. PICK k, o : k = Times(s, x) /\ o = IF x # c THEN 0 ELSE 1
    OBVIOUS
  <2>2. k \in Nat /\ (k > 0 <=> x \in Range(s)) /\ o \in {0, 1} /\ (o = 1 => x = c)
    <3>1. Times(s, x) \in Nat /\ (Times(s, x) > 0 <=> x \in Range(s))
      BY <1>5, TimesIs
    <3> QED
      BY <2>1, <3>1
  <2>3. refcnt[x] \in Nat /\ held[x] \in Nat /\ refcnt'[x] = refcnt[x] + k - o /\ held'[x] = held[x] - o
    BY <1>2, <1>4, <1>8, <2>1
  <2>4. x \in Range(s) => refcnt[x] > 0
    <3>1. cfg[n] = tab[n]
      BY <1>2, <1>3 DEF NodeInv
    <3>2. x \in Range(tab[n]) => refcnt[x] > 0
      BY IdleChild
    <3>3. refcnt[c] > 0
      BY <1>3, IdleHeld
    <3> QED
      BY <1>5, <3>1, <3>2, <3>3
  <2>5. o = 1 => k > 0
    BY <1>5, <2>2
  <2>6. refcnt[x] + k - o \in Nat /\ (refcnt[x] + k - o > 0 <=> refcnt[x] > 0)
    BY <2>2, <2>3, <2>4, <2>5
  <2> QED
    BY <2>1, <2>2, <2>3, <2>6
<1>10. refcnt' \in [Nodes -> Nat]
  <2>1. refcnt' = [x \in Nodes |-> refcnt'[x]]
    BY <1>4
  <2> QED
    BY <1>9, <2>1
<1>11. TypeInv'
  BY <1>2, <1>3, <1>8, <1>10 DEF TypeInv, IsField
<1>12. ASSUME NEW x \in Nodes PROVE Balanced(s, e, x)'
  <2>1. PICK r, h, d, t \in Nat : Idly(x, r, h, d, t)
    BY IdleTerms
  <2>2. PICK k, p, q : k = Times(s, x) /\ p = refcnt'[x] /\ q = held'[x]
    OBVIOUS
  <2>3. k \in Nat /\ p \in Nat /\ q \in Nat
    <3>1. Times(s, x) \in Nat
      BY <1>5, TimesIs
    <3> QED
      BY <1>8, <1>9, <2>2, <3>1
  <2>4. p + h = r + q + k /\ r = h + d + t
    BY <1>9, <2>1, <2>2 DEF Idly
  <2>5. p = q + d + t + k + 0
    BY <2>1, <2>3, <2>4
  <2>6. d = InField(cfg, Nodes, x) /\ t = InField(tab, Nodes \ NodesOf(e), x) /\ NewRefs(e, x) = 0
    BY <1>7, <2>1 DEF Idly
  <2>7. refcnt'[x] = held'[x] + InField(cfg, Nodes, x) + InField(tab, Nodes \ NodesOf(e), x) + Times(s, x) + NewRefs(e, x)
    BY <2>2, <2>5, <2>6
  <2> QED
    BY <1>3, <2>7 DEF Balanced, InField, ChildRefs
<1>13. ASSUME NEW x \in Nodes PROVE state'[x] = "NONE" /\ NodeInv(x)'
  <2>1. state[x] = "NONE" /\ NodeInv(x) /\ (refcnt'[x] > 0 <=> refcnt[x] > 0)
    BY <1>2, <1>9
  <2> QED
    BY <1>3, <2>1 DEF NodeInv, InMemory
<1>14. Ending(Frees(s), e)'
  BY <1>6, NoEnding
<1> QED
  BY <1>5, <1>7, <1>11, <1>12, <1>13, <1>14, QuietStep

LEMMA SubsetAddStep ==
  ASSUME NoTop, NEW n \in Nodes, NEW c \in Nodes, SubsetAdd(n, c), UNCHANGED single
  PROVE  IInv'
<1>1. /\ TypeInv /\ IsField(tab) /\ tab \in [Nodes -> Seq(Nodes)] /\ held \in [Nodes -> Nat]
      /\ \A x \in Nodes : state[x] = "NONE" /\ NodeInv(x)
  BY IdleIs DEF IsField
<1>2. /\ n \in single /\ held[c] > 0 /\ held[n] > 0 /\ Len(tab[n]) < MaxKids
      /\ held' = [held EXCEPT ![c] = @ - 1] /\ UNCHANGED <<mem, refcnt, state, frefs, cfg>>
  <2>1. MayGive(n, c) /\ held[n] \in Nat
    BY <1>1 DEF SubsetAdd
  <2>2. held[c] > 0 /\ held[n] > 0
    BY <2>1 DEF MayGive
  <2> QED
    BY <2>2 DEF SubsetAdd
<1>3. CASE stack' = <<FreeCall(c)>> /\ UNCHANGED tab
  BY <1>2, <1>3, GiveBackStep
<1>4. CASE tab' = [tab EXCEPT ![n] = Append(@, c)] /\ UNCHANGED stack
  <2>1. PICK s, e, l : s = <<>> /\ e = <<>> /\ l = tab[n]
    OBVIOUS
  <2>2. /\ s \in Seq(Nodes) /\ stack' = Frees(s) \o e /\ (\A x : Times(s, x) = 0)
        /\ e \in Ends /\ NodesOf(e) = {} /\ \A x : NewRefs(e, x) = 0
    <3>1. stack' = <<>>
      BY <1>4, IdleIs
    <3> QED
      BY <2>1, <3>1, FreesEmpty, TimesEmpty, NoEnd
  <2>3. PICK k : k = Append(l, c)
    OBVIOUS
  <2>4. l \in Seq(Nodes)
    BY <1>1, <2>1
  <2>5. /\ k \in Seq(Nodes) /\ Len(k) = Len(l) + 1
        /\ \A x : Times(k, x) = Times(l, x) + One(c = x)
    BY <2>3, <2>4, TimesAppend
  <2>6. /\ tab' \in [Nodes -> Seq(Nodes)] /\ tab'[n] = k /\ (\A x \in Nodes \ {n} : tab'[x] = tab[x])
    BY <1>1, <1>4, <2>1, <2>3, <2>5
  <2>7. IsField(tab')
    <3>1. Len(l) \in Nat /\ Len(l) < MaxKids /\ MaxKids \in Nat
      BY <1>2, <2>1, <2>4, LenProperties, BoundsAssumption
    <3>2. Len(k) <= MaxKids
      BY <2>5, <3>1
    <3> QED
      BY <1>1, <2>6, <3>2 DEF IsField
  <2>8. held' \in [Nodes -> Nat] /\ \A x \in Nodes : held'[x] = held[x] - IF c = x THEN 1 ELSE 0
    BY <1>1, <1>2
  <2>9. TypeInv'
    BY <1>1, <1>2, <2>7, <2>8 DEF TypeInv, IsField
  <2>10. ASSUME NEW x \in Nodes PROVE Balanced(s, e, x)'
    <3>1. PICK r, h, d, t \in Nat : Idly(x, r, h, d, t)
      BY IdleTerms
    <3>2. PICK i, j, u, o : i = Times(l, x) /\ j = Times(k, x) /\ u = InField(tab', Nodes, x) /\ o = IF c = x THEN 1 ELSE 0
      OBVIOUS
    <3>3. i \in Nat /\ u \in Nat /\ o \in Nat
      <4>1. Times(l, x) \in Nat
        BY <2>4, TimesIs
      <4>2. InField(tab', Nodes, x) \in Nat
        BY ChildRefsFinite
      <4> QED
        BY <3>2, <4>1, <4>2
    <3>4. j = i + o
      BY <2>5, <3>2 DEF One
    <3>5. t + j = u + i
      <4>1. InField(tab, Nodes, x) + Times(tab'[n], x) = InField(tab', Nodes, x) + Times(tab[n], x)
        <5>1. IsField(tab) /\ IsField(tab') /\ \A p \in Nodes \ {n} : tab[p] = tab'[p]
          BY <1>1, <2>6, <2>7
        <5> QED
          BY <5>1, InFieldChange
      <4>2. t = InField(tab, Nodes, x)
        BY <3>1 DEF Idly
      <4> QED
        BY <2>1, <2>6, <3>2, <4>1, <4>2
    <3>6. r = h + d + t
      BY <3>1 DEF Idly
    <3>7. r = (h - o) + d + u + 0 + 0
      BY <3>1, <3>3, <3>4, <3>5, <3>6
    <3>8. Times(s, x) = 0 /\ NewRefs(e, x) = 0 /\ Nodes \ NodesOf(e) = Nodes
      BY <2>2
    <3>9. r = refcnt[x] /\ h - o = held'[x] /\ d = InField(cfg, Nodes, x) /\ u = InField(tab', Nodes \ NodesOf(e), x)
      BY <2>8, <3>1, <3>2, <3>8 DEF Idly
    <3>10. refcnt[x] = held'[x] + InField(cfg, Nodes, x) + InField(tab', Nodes \ NodesOf(e), x) + Times(s, x) + NewRefs(e, x)
      BY <3>7, <3>8, <3>9
    <3> QED
      BY <1>2, <3>10 DEF Balanced, InField, ChildRefs
  <2>11. Alive(n)
    BY <1>2, IdleHeld
  <2>12. ASSUME NEW x \in Nodes PROVE state'[x] = "NONE" /\ NodeInv(x)'
    <3>1. state[x] = "NONE" /\ NodeInv(x)
      BY <1>1
    <3>2. CASE x = n
      BY <1>2, <2>11, <3>1, <3>2 DEF NodeInv, InMemory, Alive
    <3>3. CASE x # n
      BY <1>2, <2>6, <3>1, <3>3 DEF NodeInv, InMemory
    <3> QED
      BY <3>2, <3>3
  <2>13. Ending(Frees(s), e)'
    BY <2>1, NoEnding
  <2> QED
    BY <2>2, <2>9, <2>10, <2>12, <2>13, QuietStep
<1> QED
  BY <1>3, <1>4 DEF SubsetAdd

-----------------------------------------------------------------------------
(***************************************************************************)
(* The end of ec_node_set_config()                                         *)
(***************************************************************************)

LEMMA SetTableStep ==
  ASSUME SetTable, UNCHANGED single, NEW c \in TableCalls, TableTop(c)
  PROVE  IInv'
<1>1. PICK e, n, new, s, e2 : e = <<c>> /\ n = c.n /\ new = c.new /\ s = cfg[n] /\ e2 = <<>>
  OBVIOUS
<1>2. BaseInv(<<>>, e) /\ Marked = {} /\ Top = c /\ Tail(stack) = <<>>
  BY <1>1 DEF TableTop
<1>3. /\ e \in Ends /\ Range(e) = {c} /\ NodesOf(e) = {n} /\ e # <<>> /\ e[1] = c
      /\ n \in Nodes /\ new \in Seq(Nodes)
  BY <1>1 DEF Ends, Range, NodesOf, TableCalls
<1>4. /\ TypeInv /\ IsField(cfg) /\ IsField(tab) /\ Ending(<<>>, e)
      /\ \A x \in Nodes : state[x] = "NONE" /\ NodeInv(x)
  BY <1>2, <1>3, QuietIs
<1>5. n \notin single /\ Alive(n) /\ Len(new) <= MaxKids
  BY <1>1, <1>3, <1>4 DEF Ending
<1>6. s \in Seq(Nodes)
  BY <1>1, <1>3, <1>4 DEF IsField
<1>7. /\ e2 \in Ends /\ NodesOf(e2) = {} /\ (\A x : NewRefs(e2, x) = 0)
      /\ \A x : NewRefs(e, x) = 2 * Times(new, x)
  BY <1>1, <1>3, NoEnd DEF NewRefs
<1>8. /\ tab' = [tab EXCEPT ![n] = new] /\ cfg' = [cfg EXCEPT ![n] = new] /\ stack' = Frees(s) \o e2
      /\ UNCHANGED <<single, mem, refcnt, state, frefs, held>>
  BY <1>1, <1>2 DEF SetTable, Node, Replace
<1>9. /\ tab'[n] = new /\ cfg'[n] = new /\ IsField(tab') /\ IsField(cfg')
      /\ \A x \in Nodes \ {n} : tab'[x] = tab[x] /\ cfg'[x] = cfg[x]
  BY <1>3, <1>4, <1>5, <1>8 DEF IsField
<1>10. TypeInv'
  BY <1>4, <1>8, <1>9 DEF TypeInv, IsField
<1>11. ASSUME NEW x \in Nodes PROVE Balanced(s, e2, x)'
  <2>1. PICK r, h, d, t, m \in Nat : QuietTerms(e, x, r, h, d, t, m)
    BY <1>2, <1>3, QuietTermsNat
  <2>2. PICK i, j, u, v : /\ i = Times(s, x) /\ j = Times(new, x)
                          /\ u = InField(cfg', Nodes, x) /\ v = InField(tab', Nodes, x)
    OBVIOUS
  <2>3. i \in Nat /\ j \in Nat /\ u \in Nat /\ v \in Nat
    <3>1. Times(s, x) \in Nat
      BY <1>6, TimesIs
    <3>2. Times(new, x) \in Nat
      BY <1>3, TimesIs
    <3>3. InField(cfg', Nodes, x) \in Nat /\ InField(tab', Nodes, x) \in Nat
      BY ChildRefsFinite
    <3> QED
      BY <2>2, <3>1, <3>2, <3>3
  <2>4. d + j = u + i
    <3>1. InField(cfg, Nodes, x) + Times(cfg'[n], x) = InField(cfg', Nodes, x) + Times(cfg[n], x)
      BY <1>3, <1>4, <1>9, InFieldChange
    <3>2. d = InField(cfg, Nodes, x)
      BY <2>1 DEF QuietTerms
    <3> QED
      BY <1>1, <1>9, <2>2, <3>1, <3>2
  <2>5. v = t + j
    <3>1. InField(tab', Nodes, x) = InField(tab', Nodes \ {n}, x) + Times(tab'[n], x)
      BY <1>3, <1>9, InFieldWithout
    <3>2. InField(tab', Nodes \ {n}, x) = InField(tab, Nodes \ {n}, x)
      BY <1>9, InFieldSame
    <3>3. t = InField(tab, Nodes \ {n}, x)
      BY <1>3, <2>1 DEF QuietTerms
    <3> QED
      BY <1>9, <2>2, <3>1, <3>2, <3>3
  <2>6. r = h + d + t + m /\ m = 2 * j
    BY <1>7, <2>1, <2>2 DEF QuietTerms
  <2>7. r = h + u + v + i + 0
    BY <2>1, <2>3, <2>4, <2>5, <2>6
  <2>8. NewRefs(e2, x) = 0 /\ Nodes \ NodesOf(e2) = Nodes
    BY <1>7
  <2>9. r = refcnt[x] /\ h = held[x]
    BY <2>1 DEF QuietTerms
  <2>10. refcnt[x] = held[x] + InField(cfg', Nodes, x) + InField(tab', Nodes \ NodesOf(e2), x) + Times(s, x) + NewRefs(e2, x)
    BY <2>2, <2>7, <2>8, <2>9
  <2> QED
    BY <1>8, <2>10 DEF Balanced, InField, ChildRefs
<1>12. ASSUME NEW x \in Nodes PROVE state'[x] = "NONE" /\ NodeInv(x)'
  <2>1. state[x] = "NONE" /\ NodeInv(x)
    BY <1>4
  <2>2. CASE x = n
    BY <1>5, <1>8, <1>9, <2>1, <2>2 DEF NodeInv, InMemory, Alive
  <2>3. CASE x # n
    BY <1>8, <1>9, <2>1, <2>3 DEF NodeInv, InMemory
  <2> QED
    BY <2>2, <2>3
<1>13. Ending(Frees(s), e2)'
  BY <1>1, NoEnding
<1> QED
  BY <1>6, <1>7, <1>8, <1>10, <1>11, <1>12, <1>13, QuietStep

-----------------------------------------------------------------------------
(***************************************************************************)
(* The inductive invariant holds.                                          *)
(***************************************************************************)

LEMMA FirstState == Init => IInv
<1> SUFFICES ASSUME Init PROVE IInv
  OBVIOUS
<1>1. PICK e : e = <<>>
  OBVIOUS
<1>2. /\ e \in Ends /\ NodesOf(e) = {} /\ Range(e) = {} /\ (\A x : NewRefs(e, x) = 0)
      /\ e \in Seq(WorkCalls) /\ e \in Seq(Calls) /\ e \in Seq(PlainCalls) /\ e \in Seq(ResetCalls)
      /\ (\A C : Occ(e, C) = 0) /\ DOMAIN e = {} /\ stack = e
  BY <1>1, NoEnd, NoCalls, OccEmpty DEF Init
<1>3. /\ single \in SUBSET Nodes /\ IsField(cfg) /\ IsField(tab)
      /\ \A x \in Nodes : /\ mem[x] = "none" /\ refcnt[x] = 0 /\ frefs[x] = 0 /\ held[x] = 0 /\ state[x] = "NONE"
                          /\ cfg[x] = <<>> /\ tab[x] = <<>>
  <2>1. /\ cfg \in [Nodes -> Seq(Nodes)] /\ tab \in [Nodes -> Seq(Nodes)]
        /\ \A x \in Nodes : cfg[x] = <<>> /\ tab[x] = <<>>
    BY DEF Init
  <2>2. Len(<<>>) = 0 /\ 0 <= MaxKids
    BY BoundsAssumption
  <2>3. IsField(cfg) /\ IsField(tab)
    BY <2>1, <2>2 DEF IsField
  <2> QED
    BY <2>1, <2>3, BoundsAssumption DEF Init
<1>4. TypeInv
  BY <1>3 DEF TypeInv, States, Init
<1>5. Balance(e, e)
  <2> SUFFICES ASSUME NEW x \in Nodes
               PROVE  refcnt[x] = held[x] + InField(cfg, Nodes, x) + InField(tab, Nodes \ Opened(e, e), x)
                                  + Occ(e, RefCalls(x)) + NewRefs(e, x)
    BY DEF Balance
  <2>1. Opened(e, e) = {}
    BY <1>2 DEF Opened
  <2>2. PICK c, t : c = InField(cfg, Nodes, x) /\ t = InField(tab, Nodes \ Opened(e, e), x)
    OBVIOUS
  <2>3. c \in Nat /\ ~(c > 0)
    <3>1. InField(cfg, Nodes, x) \in Nat
      BY ChildRefsFinite
    <3>2. InField(cfg, Nodes, x) > 0 <=> \E p \in Nodes : x \in Range(cfg[p])
      BY <1>3, InFieldPositive
    <3>3. \A p \in Nodes : x \notin Range(cfg[p])
      BY <1>3, NoCalls
    <3> QED
      BY <2>2, <3>1, <3>2, <3>3
  <2>4. t \in Nat /\ ~(t > 0)
    <3>1. Nodes \ Opened(e, e) = Nodes
      BY <2>1
    <3>2. InField(tab, Nodes, x) \in Nat
      BY ChildRefsFinite
    <3>3. InField(tab, Nodes, x) > 0 <=> \E p \in Nodes : x \in Range(tab[p])
      BY <1>3, InFieldPositive
    <3>4. \A p \in Nodes : x \notin Range(tab[p])
      BY <1>3, NoCalls
    <3> QED
      BY <2>2, <3>1, <3>2, <3>3, <3>4
  <2>5. c = 0 /\ t = 0
    BY <2>3, <2>4
  <2>6. refcnt[x] = 0 /\ held[x] = 0 /\ Occ(e, RefCalls(x)) = 0 /\ NewRefs(e, x) = 0
    BY <1>2, <1>3
  <2> QED
    BY <2>2, <2>5, <2>6
<1>6. NodesInv
  <2> SUFFICES ASSUME NEW x \in Nodes PROVE NodeInv(x)
    BY DEF NodesInv
  <2> QED
    BY <1>3 DEF NodeInv, InMemory
<1>7. FreeingInv(e) /\ Paired(e) /\ Dropping(e) /\ Ending(e, e) /\ Marked = {}
  BY <1>2, <1>3 DEF FreeingInv, Paired, Dropping, Ending, Marked, With
<1>8. BaseInv(e, e)
  BY <1>4, <1>5, <1>6, <1>7 DEF BaseInv
<1>9. Resetting(e, e, e)
  BY <1>2, <1>7 DEF Resetting, Found
<1>10. stack = e \o (e \o e)
  BY <1>1, <1>2, EmptyFirst
<1>11. StackInv(e, e, e)
  BY <1>8, <1>9, <1>10 DEF StackInv, PhaseInv
<1> QED
  BY <1>2, <1>11 DEF IInv

LEMMA EmptyConcat ==
  ASSUME NEW S, NEW s \in Seq(S), NEW t \in Seq(S), s \o t = <<>>
  PROVE  s = <<>> /\ t = <<>>
<1>1. Len(s \o t) = Len(s) + Len(t) /\ Len(s) \in Nat /\ Len(t) \in Nat
  BY ConcatProperties, LenProperties
<1>2. Len(s) = 0 /\ Len(t) = 0
  BY <1>1
<1> QED
  BY <1>2, EmptySeq

LEMMA IdleTop ==
  ASSUME IInv, stack = <<>>
  PROVE  NoTop
<1>1. PICK a \in Seq(Calls), w \in Seq(WorkCalls), e \in Ends : StackInv(a, w, e)
  BY DEF IInv
<1>2. stack = a \o (w \o e) /\ BaseInv(w, e) /\ PhaseInv(a, w, e)
  BY <1>1 DEF StackInv
<1>3. w \in Seq(Calls) /\ e \in Seq(Calls) /\ w \o e \in Seq(Calls)
  BY CallsTyped, ConcatProperties
<1>4. a = <<>> /\ w \o e = <<>>
  <2>1. a \o (w \o e) = <<>>
    BY <1>2
  <2> QED
    BY <1>3, <2>1, EmptyConcat
<1>5. w = <<>> /\ e = <<>>
  BY <1>3, <1>4, EmptyConcat
<1>6. Resetting(a, w, e)
  <2>1. ASSUME NEW r \in Nodes, DecideFirst(w, r) PROVE FALSE
    <3>1. PICK t \in Seq(PlainCalls) : w = <<Call("decide", r)>> \o t
      BY <2>1 DEF DecideFirst
    <3>2. Call("decide", r) \in WorkCalls /\ t \in Seq(WorkCalls)
      BY CallIs, PlainIsWork
    <3>3. <<Call("decide", r)>> \o t # <<>>
      BY <3>2, ConsIs
    <3> QED
      BY <1>5, <3>1, <3>3
  <2> QED
    BY <1>2, <2>1 DEF PhaseInv
<1>7. Marked = {}
  BY <1>4, <1>6, NothingMarked
<1> QED
  BY <1>2, <1>5, <1>7 DEF NoTop

\* a step of the execution of a call
LEMMA AnyStep ==
  ASSUME NoLoops, IInv, Step
  PROVE  IInv'
<1>1. UNCHANGED single /\ TopInv
  BY StackHasTop DEF Step
<1>2. CASE Free
  <2>1. stack # <<>> /\ Top.f = "free"
    BY <1>2 DEF Free, At
  <2>2. PICK w \in Seq(WorkCalls), e \in Ends, c \in PlainCalls, t \in Seq(PlainCalls) : PlainTop(w, e, c, t)
    BY <1>1, <2>1, TopIsOf
  <2> QED
    BY <1>1, <1>2, <2>2, FreeStep
<1>3. CASE Count
  BY <1>1, <1>3, CountStep
<1>4. CASE Mark
  <2>1. stack # <<>> /\ Top.f = "mark"
    BY <1>4 DEF Mark, At
  <2>2. PICK w \in Seq(WorkCalls), e \in Ends, r \in Nodes :
          FirstMarkTop(w, e, r) \/ \E c \in MarkCalls, s \in Seq(MarkCalls) : MarkTop(w, e, r, c, s)
    BY <1>1, <2>1, TopIsOf
  <2>3. CASE FirstMarkTop(w, e, r)
    BY <1>1, <1>4, <2>3, FirstMarkStep
  <2>4. CASE \E c \in MarkCalls, s \in Seq(MarkCalls) : MarkTop(w, e, r, c, s)
    BY <1>1, <1>4, <2>4, MarkAgainStep
  <2> QED
    BY <2>2, <2>3, <2>4
<1>5. CASE Reset
  <2>1. stack # <<>> /\ Top.f = "reset"
    BY <1>5 DEF Reset, At
  <2>2. PICK w \in Seq(WorkCalls), e \in Ends, c \in ResetCalls, s \in Seq(ResetCalls) : ResetTop(w, e, c, s)
    BY <1>1, <2>1, TopIsOf
  <2> QED
    BY <1>1, <1>5, <2>2, ResetStep
<1>6. CASE Decide
  <2>1. stack # <<>> /\ Top.f = "decide"
    BY <1>6 DEF Decide, At
  <2>2. PICK w \in Seq(WorkCalls), e \in Ends, r \in Nodes, t \in Seq(PlainCalls) : DecideTop(w, e, r, t)
    BY <1>1, <2>1, TopIsOf
  <2>3. CASE Deciding(<<>>, r)
    BY <1>1, <1>6, <2>2, <2>3, TakeApartStep
  <2>4. CASE Marking(<<>>, r, w, e)
    BY <1>1, <1>6, <2>2, <2>4, KeepStep
  <2> QED
    BY <2>2, <2>3, <2>4 DEF DecideTop
<1>7. CASE FreePriv
  <2>1. stack # <<>> /\ Top.f = "free_priv"
    BY <1>7 DEF FreePriv, At
  <2>2. PICK w \in Seq(WorkCalls), e \in Ends, c \in PlainCalls, t \in Seq(PlainCalls) : PlainTop(w, e, c, t)
    BY <1>1, <2>1, TopIsOf
  <2> QED
    BY <1>1, <1>7, <2>2, FreePrivStep
<1>8. CASE PrivFreed
  <2>1. stack # <<>> /\ Top.f = "priv_freed"
    BY <1>8 DEF PrivFreed, At
  <2>2. PICK w \in Seq(WorkCalls), e \in Ends, c \in PlainCalls, t \in Seq(PlainCalls) : PlainTop(w, e, c, t)
    BY <1>1, <2>1, TopIsOf
  <2> QED
    BY <1>1, <1>8, <2>2, PrivFreedStep
<1>9. CASE Drop
  <2>1. stack # <<>> /\ Top.f = "drop"
    BY <1>9 DEF Drop, At
  <2>2. PICK w \in Seq(WorkCalls), e \in Ends, c \in PlainCalls, t \in Seq(PlainCalls) : PlainTop(w, e, c, t)
    BY <1>1, <2>1, TopIsOf
  <2> QED
    BY <1>1, <1>9, <2>2, DropStep
<1>10. CASE SetTable
  <2>1. stack # <<>> /\ Top.f = "settab"
    BY <1>10 DEF SetTable, At
  <2>2. PICK c \in TableCalls : TableTop(c)
    BY <1>1, <2>1, TopIsOf
  <2> QED
    BY <1>1, <1>10, <2>2, SetTableStep
<1> QED
  BY <1>2, <1>3, <1>4, <1>5, <1>6, <1>7, <1>8, <1>9, <1>10 DEF Step

\* an action of the caller
LEMMA CallerStep ==
  ASSUME "table" \notin FailSites, NoLoops, IInv, Caller, UNCHANGED single
  PROVE  IInv'
<1>1. Idle
  BY DEF Caller, NewNode, Clone, CallerFree, SeqAdd, SubsetAdd, SeqAddFails, SetConfig
<1>2. NoTop
  BY <1>1, IdleTop DEF Idle
<1>3. CASE \E n \in Nodes : NewNode(n)
  BY <1>2, <1>3, NewNodeStep
<1>4. CASE \E n \in Nodes : Clone(n)
  BY <1>2, <1>4, CloneStep
<1>5. CASE \E n \in Nodes : CallerFree(n)
  BY <1>2, <1>5, CallerFreeStep
<1>6. CASE \E n, c \in Nodes : SeqAdd(n, c)
  BY <1>2, <1>6, SeqAddStep
<1>7. CASE \E n, c \in Nodes : SubsetAdd(n, c)
  BY <1>2, <1>7, SubsetAddStep
<1>8. CASE \E n, c \in Nodes, site \in FailSites \ {"subset"} : SeqAddFails(n, c, site)
  BY <1>2, <1>8, SeqAddFailsStep
<1>9. CASE \E n \in Nodes, new \in {<<>>} \cup {<<c>> : c \in Nodes} : SetConfig(n, new)
  BY <1>2, <1>9, SetConfigStep
<1> QED
  BY <1>3, <1>4, <1>5, <1>6, <1>7, <1>8, <1>9 DEF Caller

LEMMA SameState == IInv /\ UNCHANGED vars => IInv'
<1> SUFFICES ASSUME IInv, UNCHANGED vars PROVE IInv'
  OBVIOUS
<1>1. PICK a \in Seq(Calls), w \in Seq(WorkCalls), e \in Ends : StackInv(a, w, e)
  BY DEF IInv
<1>2. stack = a \o (w \o e) /\ BaseInv(w, e) /\ PhaseInv(a, w, e)
  BY <1>1 DEF StackInv
<1>3. /\ single' = single /\ mem' = mem /\ refcnt' = refcnt /\ state' = state /\ frefs' = frefs
      /\ cfg' = cfg /\ tab' = tab /\ held' = held /\ stack' = stack
  BY DEF vars
<1>4. BaseInv(w, e)'
  <2>1. (Balance(w, e) <=> Balance(w, e)') /\ (FreeingInv(w) <=> FreeingInv(w)') /\ (Dropping(w) <=> Dropping(w)')
    BY <1>3 DEF Balance, InField, ChildRefs, FreeingInv, With, Dropping
  <2>2. (TypeInv <=> TypeInv') /\ (NodesInv <=> NodesInv')
    BY <1>3 DEF TypeInv, IsField, NodesInv, NodeInv, InMemory
  <2>3. Ending(w, e) <=> Ending(w, e)'
    BY <1>3 DEF Ending, Alive, Apart, Kids
  <2> QED
    BY <1>2, <2>1, <2>2, <2>3 DEF BaseInv, Paired
<1>5. PhaseInv(a, w, e)'
  <2>1. Marked' = Marked /\ With("TRAVERSED")' = With("TRAVERSED")
    BY <1>3 DEF Marked, With
  <2>2. CASE Resetting(a, w, e)
    <3>1. Resetting(a, w, e)'
      BY <1>3, <2>1, <2>2 DEF Resetting, Found, Kids, Alive
    <3> QED
      BY <3>1 DEF PhaseInv
  <2>3. ASSUME NEW r \in Nodes, DecideFirst(w, r), Deciding(a, r) PROVE PhaseInv(a, w, e)'
    <3>1. Deciding(a, r)'
      BY <1>3, <2>1, <2>3 DEF Deciding
    <3> QED
      BY <2>3, <3>1 DEF PhaseInv, DecideFirst
  <2>4. ASSUME NEW r \in Nodes, DecideFirst(w, r), NEW s \in Seq(CountCalls), Counting(a, r, w, e, s)
        PROVE  PhaseInv(a, w, e)'
    <3>1. Found({r}, Marked)' /\ Kids(Marked)' = Kids(Marked) /\ Apart(r, Kids({r}))'
      <4>1. Found({r}, Marked) /\ Apart(r, Kids({r}))
        BY <2>4 DEF Counting
      <4>2. Kids(Marked)' = Kids(Marked)
        BY <1>3, <2>1 DEF Kids
      <4>3. Found({r}, Marked)'
        BY <1>3, <2>1, <4>1 DEF Found, Kids
      <4> QED
        BY <1>3, <4>1, <4>2, <4>3, SameApart
    <3>2. ASSUME NEW x \in Nodes PROVE Counted(s, r, Marked, x)'
      <4>1. Counted(s, r, Marked, x)
        BY <2>4 DEF Counting
      <4> QED
        BY <1>3, <2>1, <4>1 DEF Counted, InField, ChildRefs
    <3>3. Counting(a, r, w, e, s)'
      BY <1>3, <2>1, <2>4, <3>1, <3>2 DEF Counting
    <3> QED
      BY <2>4, <3>3 DEF PhaseInv, DecideFirst
  <2>5. ASSUME NEW r \in Nodes, DecideFirst(w, r), Marking(a, r, w, e) PROVE PhaseInv(a, w, e)'
    <3>1. Marking(a, r, w, e)'
      BY <1>3, <2>1, <2>5 DEF Marking, Found, Kids
    <3> QED
      BY <2>5, <3>1 DEF PhaseInv, DecideFirst
  <2> QED
    BY <1>2, <2>2, <2>3, <2>4, <2>5 DEF PhaseInv
<1>6. StackInv(a, w, e)'
  BY <1>2, <1>3, <1>4, <1>5 DEF StackInv
<1> QED
  BY <1>6 DEF IInv

LEMMA Invariance ==
  ASSUME "table" \notin FailSites
  PROVE  Spec /\ []NoLoops => []IInv
<1>1. Init => IInv
  BY FirstState
<1>2. IInv /\ NoLoops /\ [Next]_vars => IInv'
  <2> SUFFICES ASSUME IInv, NoLoops, [Next]_vars PROVE IInv'
    OBVIOUS
  <2>1. CASE Caller /\ UNCHANGED single
    BY <2>1, CallerStep
  <2>2. CASE Step
    BY <2>2, AnyStep
  <2>3. CASE UNCHANGED vars
    BY <2>3, SameState
  <2> QED
    BY <2>1, <2>2, <2>3 DEF Next
<1> QED
  BY <1>1, <1>2, PTL DEF Spec

-----------------------------------------------------------------------------
(***************************************************************************)
(* What the invariant says of the calls.                                   *)
(***************************************************************************)

\* the root of a phase
LEMMA RootStays ==
  ASSUME NEW w \in Seq(WorkCalls), NEW e \in Ends, BaseInv(w, e), NEW r \in Nodes, DecideFirst(w, r)
  PROVE  /\ InMemory(r) /\ Occ(w, RefCalls(r)) \in Nat /\ Occ(w, RefCalls(r)) > 0
         /\ refcnt[r] > 1 => Alive(r) /\ state[r] # "FREEING"
<1>1. PICK t \in Seq(PlainCalls) : w = <<Call("decide", r)>> \o t
  BY DEF DecideFirst
<1>2. Call("decide", r) \in Range(w)
  <2>1. Call("decide", r) \in WorkCalls /\ t \in Seq(WorkCalls)
    BY CallIs, PlainIsWork
  <2>2. Range(<<Call("decide", r)>> \o t) = {Call("decide", r)} \cup Range(t)
    BY <2>1, ConsIs
  <2> QED
    BY <1>1, <2>2
<1>3. Range(w) \cap RefCalls(r) # {}
  BY <1>2 DEF RefCalls
<1>4. InMemory(r)
  BY <1>3, Referenced
<1>5. Occ(w, RefCalls(r)) \in Nat /\ Occ(w, RefCalls(r)) > 0
  BY <1>3, OccPositive, OccFinite
<1>6. ASSUME refcnt[r] > 1 PROVE Alive(r) /\ state[r] # "FREEING"
  <2>1. state[r] # "FREEING"
    <3>1. ASSUME state[r] = "FREEING" PROVE FALSE
      <4>1. r \in With("FREEING")
        BY <3>1 DEF With
      <4>2. refcnt[r] = 1
        BY <4>1, OnlyDrop
      <4> QED
        BY <1>6, <4>2
    <3> QED
      BY <3>1
  <2> QED
    BY <1>4, <2>1, StaysAlive
<1> QED
  BY <1>4, <1>5, <1>6

\* count_references() does not meet a node that is gone
LEMMA CountIsSafe ==
  ASSUME NEW w \in Seq(WorkCalls), NEW e \in Ends, NEW r \in Nodes, NEW c \in CountCalls, NEW s \in Seq(CountCalls),
         CountTop(w, e, r, c, s)
  PROVE  NoFault
<1>1. PICK n, u : n = c.n /\ u = <<c>> \o s
  OBVIOUS
<1>2. c.f = "count" /\ n \in NodesOf(u)
  <2>1. NodesOf(<<c>> \o s) = {c.n} \cup NodesOf(s)
    BY NodesOfCons
  <2>2. c.f = "count"
    BY DEF CountCalls
  <2> QED
    BY <1>1, <2>1, <2>2
<1>3. /\ BaseInv(w, e) /\ DecideFirst(w, r) /\ refcnt[r] > 1 /\ Top = c
      /\ NodesOf(u) \subseteq {r} \cup Kids(Marked)
  BY <1>1 DEF CountTop, Counting
<1>4. Alive(n)
  <2>1. CASE n = r
    BY <1>3, <2>1, RootStays
  <2>2. CASE n \in Kids(Marked)
    <3>1. PICK p \in Marked : n \in Range(tab[p])
      BY <2>2, KidsIs
    <3>2. p \in Nodes /\ state[p] # "FREEING"
      BY <1>3, MarkedIsThere
    <3> QED
      BY <1>3, <3>1, <3>2, KidsStay
  <2> QED
    BY <1>2, <1>3, <2>1, <2>2
<1> QED
  BY <1>1, <1>2, <1>3, <1>4 DEF NoFault, Node, Alive

\* mark_freeable() does not find more references than the counter says
LEMMA MarkIsSafe ==
  ASSUME NEW w \in Seq(WorkCalls), NEW e \in Ends, NEW r \in Nodes,
         FirstMarkTop(w, e, r) \/ \E c \in MarkCalls, s \in Seq(MarkCalls) : MarkTop(w, e, r, c, s)
  PROVE  NoFault
<1>1. CASE FirstMarkTop(w, e, r)
  <2>1. PICK c, M : c = MarkCall(r, "FREEABLE") /\ M = Marked
    OBVIOUS
  <2>2. c.f = "mark" /\ c.n = r
    BY <2>1 DEF MarkCall
  <2>3. /\ BaseInv(w, e) /\ DecideFirst(w, r) /\ refcnt[r] > 1 /\ Top = c
        /\ M \cap Opened(w, e) = {} /\ Counted(<<>>, r, M, r)
    BY <1>1, <2>1 DEF FirstMarkTop, Counting
  <2>4. Alive(r) /\ Occ(w, RefCalls(r)) \in Nat /\ Occ(w, RefCalls(r)) > 0
    BY <2>3, RootStays
  <2>5. refcnt[r] \in Nat /\ frefs[r] \in Nat
    BY <2>3 DEF BaseInv, TypeInv
  <2>6. frefs[r] <= refcnt[r]
    <3>1. PICK i, j, o, f, m : /\ i = InField(cfg, M, r) /\ j = InField(tab, M, r) /\ o = Occ(w, RefCalls(r))
                               /\ f = frefs[r] /\ m = refcnt[r]
      OBVIOUS
    <3>2. M \in SUBSET Nodes
      BY <2>1, MarkedTyped
    <3>3. i \in Nat /\ j \in Nat /\ i + j + o <= m
      BY <2>3, <3>1, <3>2, CountedAtMost
    <3>4. f + 0 + 2 * 0 = 1 + i + j
      <4>1. Occ(<<>>, {CountCall(r, 1)}) = 0 /\ Occ(<<>>, {CountCall(r, 2)}) = 0 /\ One(r = r) = 1
        BY OccEmpty DEF One
      <4>2. f + Occ(<<>>, {CountCall(r, 1)}) + 2 * Occ(<<>>, {CountCall(r, 2)}) = One(r = r) + i + j
        BY <2>3, <3>1 DEF Counted
      <4> QED
        BY <4>1, <4>2
    <3>5. o \in Nat /\ o > 0 /\ f \in Nat /\ m \in Nat
      BY <2>4, <2>5, <3>1
    <3>6. f <= m
      BY <3>3, <3>4, <3>5
    <3> QED
      BY <3>1, <3>6
  <2>7. refcnt[r] >= frefs[r]
    BY <2>5, <2>6
  <2> QED
    BY <2>2, <2>3, <2>4, <2>7 DEF NoFault, Node, Alive
<1>2. ASSUME NEW c \in MarkCalls, NEW s \in Seq(MarkCalls), MarkTop(w, e, r, c, s) PROVE NoFault
  <2>1. PICK n, u : n = c.n /\ u = <<c>> \o s
    OBVIOUS
  <2>2. c.f = "mark" /\ n \in NodesOf(u)
    <3>1. NodesOf(<<c>> \o s) = {c.n} \cup NodesOf(s)
      BY NodesOfCons
    <3>2. c.f = "mark"
      BY DEF MarkCalls
    <3> QED
      BY <2>1, <3>1, <3>2
  <2>3. /\ BaseInv(w, e) /\ Top = c /\ NodesOf(u) \subseteq Marked
        /\ \A x \in Marked : frefs[x] <= refcnt[x]
    BY <1>2, <2>1 DEF MarkTop, Marking
  <2>4. n \in Nodes /\ Alive(n) /\ frefs[n] <= refcnt[n]
    BY <2>2, <2>3, MarkedIsThere
  <2>5. refcnt[n] \in Nat /\ frefs[n] \in Nat
    BY <2>3, <2>4 DEF BaseInv, TypeInv
  <2>6. refcnt[n] >= frefs[n]
    BY <2>4, <2>5
  <2> QED
    BY <2>1, <2>2, <2>3, <2>4, <2>6 DEF NoFault, Node, Alive
<1> QED
  BY <1>1, <1>2

LEMMA PlainIsSafe ==
  ASSUME NEW w \in Seq(WorkCalls), NEW e \in Ends, NEW c \in PlainCalls, NEW t \in Seq(PlainCalls), PlainTop(w, e, c, t)
  PROVE  NoFault
<1>1. PICK n, f : n = c.n /\ f = c.f
  OBVIOUS
<1>2. /\ Joined(w, c, t) /\ BaseInv(w, e) /\ Top = c /\ t \in Seq(WorkCalls)
  BY PlainIsWork DEF PlainTop, Joined
<1>3. c \in WorkCalls /\ c = Call(f, n) /\ n \in Nodes /\ f \in {"free", "free_priv", "priv_freed", "drop"}
  BY <1>1, CallIs DEF PlainCalls
<1>4. c \in Range(w)
  BY <1>2, <1>3, JoinedIs
<1>5. CASE f \in {"free", "drop"}
  <2>1. c \in RefCalls(n)
    BY <1>3, <1>5 DEF RefCalls
  <2>2. refcnt[n] > 0 /\ InMemory(n)
    BY <1>2, <1>3, <1>4, <2>1, Referenced
  <2> QED
    BY <1>1, <1>2, <1>5, <2>2 DEF NoFault, Node, Enumerates, InMemory
<1>6. CASE f \in {"free_priv", "priv_freed"}
  <2>1. n \in With("FREEING")
    BY <1>1, <1>2, <1>3, <1>6, OpenJoined DEF Releases
  <2>2. refcnt[n] = 1 /\ NodeInv(n)
    BY <1>2, <1>3, <2>1 DEF BaseInv, FreeingInv, NodesInv
  <2>3. InMemory(n)
    BY <2>2 DEF NodeInv
  <2> QED
    BY <1>1, <1>2, <1>6, <2>3 DEF NoFault, Node, Enumerates, InMemory
<1> QED
  BY <1>3, <1>5, <1>6

LEMMA IsSafe == IInv => NoFault
<1> SUFFICES ASSUME IInv, stack # <<>> PROVE NoFault
  BY DEF NoFault
<1>1. TopInv
  BY StackHasTop
<1>2. CASE Top.f = "count"
  BY <1>1, <1>2, TopIsOf, CountIsSafe
<1>3. CASE Top.f = "mark"
  BY <1>1, <1>3, TopIsOf, MarkIsSafe
<1>4. CASE Top.f = "reset"
  <2>1. PICK w \in Seq(WorkCalls), e \in Ends, c \in ResetCalls, s \in Seq(ResetCalls) : ResetTop(w, e, c, s)
    BY <1>1, <1>4, TopIsOf
  <2>2. c.n \in NodesOf(<<c>> \o s) /\ c.f = "reset"
    <3>1. NodesOf(<<c>> \o s) = {c.n} \cup NodesOf(s)
      BY NodesOfCons
    <3>2. c.f = "reset"
      BY DEF ResetCalls
    <3> QED
      BY <3>1, <3>2
  <2>3. Top = c /\ Alive(c.n)
    BY <2>1, <2>2 DEF ResetTop, Resetting
  <2> QED
    BY <2>2, <2>3 DEF NoFault, Node, Alive
<1>5. CASE Top.f = "decide"
  <2>1. PICK w \in Seq(WorkCalls), e \in Ends, r \in Nodes, t \in Seq(PlainCalls) : DecideTop(w, e, r, t)
    BY <1>1, <1>5, TopIsOf
  <2>2. BaseInv(w, e) /\ DecideFirst(w, r) /\ Top = Call("decide", r)
    BY <2>1 DEF DecideTop, DecideFirst
  <2>3. InMemory(r)
    BY <2>2, RootStays
  <2>4. Top.n = r
    BY <2>2, CallIs
  <2> QED
    BY <1>5, <2>3, <2>4 DEF NoFault, Node, Enumerates, InMemory
<1>6. CASE Top.f = "settab"
  <2>1. PICK c \in TableCalls : TableTop(c)
    BY <1>1, <1>6, TopIsOf
  <2>2. Top = c /\ Ending(<<>>, <<c>>)
    BY <2>1 DEF TableTop, BaseInv
  <2>3. Alive(c.n)
    <3>1. c \in Range(<<c>>)
      BY DEF Range
    <3> QED
      BY <2>2, <3>1 DEF Ending
  <2> QED
    BY <1>6, <2>2, <2>3 DEF NoFault, Node, Enumerates, Alive
<1>7. CASE Top.f \in {"free", "free_priv", "priv_freed", "drop"}
  BY <1>1, <1>7, TopIsOf, PlainIsSafe
<1>8. Top.f \in {"count", "mark", "decide", "reset", "settab", "free", "free_priv", "priv_freed", "drop"}
  BY <1>1, TopIsOf
<1> QED
  BY <1>2, <1>3, <1>4, <1>5, <1>6, <1>7, <1>8

\* In graphs without loops, whatever they share, no call touches a node or a
\* table that was freed, or breaks an assertion of ec_node_free().
THEOREM NoFaultCorrect ==
  ASSUME "table" \notin FailSites
  PROVE  Spec /\ []NoLoops => []NoFault
<1>1. Spec /\ []NoLoops => []IInv
  BY Invariance
<1>2. IInv => NoFault
  BY IsSafe
<1> QED
  BY <1>1, <1>2, PTL

-----------------------------------------------------------------------------
(***************************************************************************)
(* What the caller holds                                                   *)
(***************************************************************************)

LEMMA HoldersStay == IInv => HeldIntact
<1> SUFFICES ASSUME IInv PROVE HeldIntact
  OBVIOUS
<1>1. PICK a \in Seq(Calls), w \in Seq(WorkCalls), e \in Ends : StackInv(a, w, e)
  BY DEF IInv
<1>2. BaseInv(w, e)
  BY <1>1 DEF StackInv
<1>3. IsField(tab) /\ held \in [Nodes -> Nat]
  BY <1>2 DEF BaseInv, TypeInv
<1>4. PICK H, S : H = Holders /\ S = {n \in Nodes : Alive(n) /\ state[n] # "FREEING"}
  OBVIOUS
<1>5. H \in SUBSET Nodes /\ H \subseteq S
  BY <1>2, <1>4, Holding DEF Holders
<1>6. Kids(S) \subseteq S
  <2>1. ASSUME NEW p \in S, NEW x \in Range(tab[p]) PROVE x \in S
    BY <1>2, <1>4, KidsStay
  <2> QED
    BY <2>1, KidsIs
<1>7. Reach(H) \subseteq S
  BY <1>3, <1>5, <1>6, ReachIs
<1> QED
  BY <1>4, <1>7 DEF HeldIntact

\* In graphs without loops, whatever they share, what the caller can reach from
\* a reference it owns is never taken apart.
THEOREM HeldIntactCorrect ==
  ASSUME "table" \notin FailSites
  PROVE  Spec /\ []NoLoops => []HeldIntact
<1>1. Spec /\ []NoLoops => []IInv
  BY Invariance
<1>2. IInv => HeldIntact
  BY HoldersStay
<1> QED
  BY <1>1, <1>2, PTL

-----------------------------------------------------------------------------
(***************************************************************************)
(* What is left between calls                                              *)
(***************************************************************************)

LEMMA RefsAre ==
  ASSUME NEW field, \A p \in Nodes : ~Alive(p) => field[p] = <<>>, NEW n
  PROVE  RefsIn(field, n) = InField(field, Nodes, n)
<1>1. PICK P, Q : /\ Q = ChildRefs(field, Nodes, n)
                  /\ P = {q \in Nodes \X (1..MaxKids) : Alive(q[1]) /\ q[2] \in DOMAIN field[q[1]] /\ field[q[1]][q[2]] = n}
  OBVIOUS
<1>2. DOMAIN <<>> = {}
  OBVIOUS
<1>3. ASSUME NEW q \in Nodes \X (1..MaxKids), q[2] \in DOMAIN field[q[1]] PROVE Alive(q[1])
  BY <1>2, <1>3
<1>4. P = Q
  BY <1>1, <1>3 DEF ChildRefs
<1> QED
  BY <1>1, <1>4 DEF RefsIn, InField

\* the graph below a parent is larger
LEMMA ParentIsLarger ==
  ASSUME IsField(tab), NoLoops, NEW p \in Nodes, NEW x \in Range(tab[p])
  PROVE  x \in Nodes /\ Cardinality(Nodes \ Reach({p})) \in Nat
         /\ Cardinality(Nodes \ Reach({p})) < Cardinality(Nodes \ Reach({x}))
<1>1. x \in Nodes
  BY RangeOfSeq DEF IsField
<1>2. PICK R, S : R = Reach({p}) /\ S = Reach({x})
  OBVIOUS
<1>3. {p} \in SUBSET Nodes /\ {x} \in SUBSET Nodes
  BY <1>1
<1>4. R \in SUBSET Nodes /\ p \in R /\ Kids(R) \subseteq R
  <2>1. Reach({p}) \in SUBSET Nodes /\ {p} \subseteq Reach({p}) /\ Kids(Reach({p})) \subseteq Reach({p})
    BY <1>3, ReachIs
  <2> QED
    BY <1>2, <2>1
<1>5. x \in R
  <2>1. x \in Kids(R)
    BY <1>4, KidsIs
  <2> QED
    BY <1>4, <2>1
<1>6. S \subseteq R
  <2>1. {x} \subseteq R
    BY <1>5
  <2> QED
    BY <1>2, <1>3, <1>4, <2>1, ReachIs
<1>7. p \notin S
  <2>1. PICK D \in SUBSET Nodes : p \notin D /\ Kids(D) \subseteq D /\ Kids({p}) \subseteq D
    BY NotBelow DEF Apart
  <2>2. x \in D
    BY <2>1, KidsIs
  <2>3. {x} \subseteq D
    BY <2>2
  <2>4. S \subseteq D
    BY <1>2, <1>3, <2>1, <2>3, ReachIs
  <2> QED
    BY <2>1, <2>4
<1>8. PICK A, B : A = Nodes \ R /\ B = Nodes \ S
  OBVIOUS
<1>9. IsFiniteSet(B) /\ A \in SUBSET B /\ A # B
  <2>1. IsFiniteSet(B)
    BY <1>8, BoundsAssumption, FS_Difference
  <2>2. A \in SUBSET B
    BY <1>6, <1>8
  <2>3. p \in B /\ p \notin A
    BY <1>4, <1>7, <1>8
  <2> QED
    BY <2>1, <2>2, <2>3
<1>10. Cardinality(A) \in Nat /\ Cardinality(B) \in Nat /\ Cardinality(A) <= Cardinality(B) /\ Cardinality(A) # Cardinality(B)
  BY <1>9, FS_Subset, FS_CardinalityType
<1>11. Cardinality(A) < Cardinality(B)
  BY <1>10
<1> QED
  BY <1>1, <1>2, <1>8, <1>10, <1>11

\* A node that is not held has a parent.
LEMMA HasParent ==
  ASSUME NoTop, NEW x \in Nodes, Alive(x), held[x] = 0
  PROVE  \E p \in Nodes : Alive(p) /\ x \in Range(tab[p])
<1>1. /\ IsField(cfg) /\ IsField(tab) /\ \A p \in Nodes : NodeInv(p) /\ state[p] = "NONE"
  BY IdleIs
<1>2. PICK r, h, c, t \in Nat : Idly(x, r, h, c, t)
  BY IdleTerms
<1>3. r > 0
  <2>1. refcnt[x] > 0
    BY <1>1 DEF NodeInv, InMemory, Alive
  <2> QED
    BY <1>2, <2>1 DEF Idly
<1>4. r = h + c + t /\ h = 0
  BY <1>2 DEF Idly
<1>5. c > 0 \/ t > 0
  BY <1>2, <1>3, <1>4
<1>6. \E p \in Nodes : x \in Range(tab[p])
  <2>1. CASE t > 0
    <3>1. InField(tab, Nodes, x) > 0
      BY <1>2, <2>1 DEF Idly
    <3>2. InField(tab, Nodes, x) > 0 <=> \E p \in Nodes : x \in Range(tab[p])
      BY <1>1, InFieldPositive
    <3> QED
      BY <3>1, <3>2
  <2>2. CASE c > 0
    <3>1. InField(cfg, Nodes, x) > 0
      BY <1>2, <2>2 DEF Idly
    <3>2. InField(cfg, Nodes, x) > 0 <=> \E p \in Nodes : x \in Range(cfg[p])
      BY <1>1, InFieldPositive
    <3>3. PICK p \in Nodes : x \in Range(cfg[p])
      BY <3>1, <3>2
    <3>4. cfg[p] # <<>>
      BY <3>3, NoCalls
    <3>5. cfg[p] = tab[p]
      BY <1>1, <3>4 DEF NodeInv
    <3> QED
      BY <3>3, <3>5
  <2> QED
    BY <1>5, <2>1, <2>2
<1>7. PICK p \in Nodes : x \in Range(tab[p])
  BY <1>6
<1>8. tab[p] # <<>>
  BY <1>7, NoCalls
<1>9. Alive(p)
  BY <1>1, <1>8 DEF NodeInv, Alive
<1> QED
  BY <1>7, <1>9

LEMMA NothingLost ==
  ASSUME NoTop, NoLoops, NEW n \in Nodes, Alive(n)
  PROVE  n \in Reach(Holders)
<1>1. IsField(tab) /\ held \in [Nodes -> Nat]
  BY IdleIs
<1>2. PICK H, R, L : H = Holders /\ R = Reach(H) /\ L = {x \in Nodes : Alive(x) /\ x \notin R}
  OBVIOUS
<1>3. H \in SUBSET Nodes /\ H \subseteq R /\ Kids(R) \subseteq R
  <2>1. H \in SUBSET Nodes
    BY <1>2 DEF Holders
  <2> QED
    BY <1>1, <1>2, <2>1, ReachIs
<1>4. ASSUME NEW x \in L PROVE \E p \in L : x \in Range(tab[p])
  <2>1. x \in Nodes /\ Alive(x) /\ x \notin R
    BY <1>2
  <2>2. held[x] = 0
    <3>1. ~(held[x] > 0) /\ held[x] \in Nat
      BY <1>1, <1>2, <1>3, <2>1 DEF Holders
    <3> QED
      BY <3>1
  <2>3. PICK p \in Nodes : Alive(p) /\ x \in Range(tab[p])
    BY <2>1, <2>2, HasParent
  <2>4. p \notin R
    <3>1. ASSUME p \in R PROVE FALSE
      <4>1. x \in Kids(R)
        BY <2>3, <3>1, KidsIs
      <4> QED
        BY <1>3, <2>1, <4>1
    <3> QED
      BY <3>1
  <2> QED
    BY <1>2, <2>3, <2>4
<1>5. ASSUME n \notin R PROVE FALSE
  <2>1. PICK T : T = {Cardinality(Nodes \ Reach({x})) : x \in L}
    OBVIOUS
  <2>2. n \in L
    BY <1>2, <1>5
  <2>3. T \in SUBSET Nat
    <3>1. ASSUME NEW x \in L PROVE Cardinality(Nodes \ Reach({x})) \in Nat
      <4>1. IsFiniteSet(Nodes \ Reach({x}))
        BY BoundsAssumption, FS_Difference
      <4> QED
        BY <4>1, FS_CardinalityType
    <3> QED
      BY <2>1, <3>1
  <2>4. T # {}
    BY <2>1, <2>2
  <2>5. PICK k \in T : \A j \in T : k <= j
    BY <2>3, <2>4, LeastNat
  <2>6. PICK x \in L : k = Cardinality(Nodes \ Reach({x}))
    BY <2>1
  <2>7. PICK p \in L : x \in Range(tab[p])
    BY <1>4
  <2>8. PICK j : j = Cardinality(Nodes \ Reach({p}))
    OBVIOUS
  <2>9. j \in T
    BY <2>1, <2>8
  <2>10. j \in Nat /\ k \in Nat /\ k <= j
    BY <2>3, <2>5, <2>9
  <2>11. j < k
    <3>1. p \in Nodes
      BY <1>2
    <3> QED
      BY <1>1, <2>6, <2>7, <2>8, <3>1, ParentIsLarger
  <2> QED
    BY <2>10, <2>11
<1> QED
  BY <1>2, <1>5

LEMMA NothingLeft == IInv /\ NoLoops => Reclaimed
<1> SUFFICES ASSUME IInv, NoLoops, stack = <<>>, NEW n \in Nodes
             PROVE  /\ Alive(n) => n \in Reach(Holders) /\ refcnt[n] = held[n] + RefsIn(cfg, n) + RefsIn(tab, n)
                    /\ state[n] = "NONE" /\ frefs[n] = 0
  BY DEF Reclaimed, Idle
<1>1. NoTop
  BY IdleTop
<1>2. \A x \in Nodes : state[x] = "NONE" /\ frefs[x] = 0 /\ NodeInv(x)
  BY <1>1, IdleIs
<1>3. \A x \in Nodes : ~Alive(x) => cfg[x] = <<>> /\ tab[x] = <<>>
  BY <1>2 DEF NodeInv, Alive
<1>4. RefsIn(cfg, n) = InField(cfg, Nodes, n) /\ RefsIn(tab, n) = InField(tab, Nodes, n)
  BY <1>3, RefsAre
<1>5. refcnt[n] = held[n] + RefsIn(cfg, n) + RefsIn(tab, n)
  <2>1. PICK r, h, c, t \in Nat : Idly(n, r, h, c, t)
    BY <1>1, IdleTerms
  <2> QED
    BY <1>4, <2>1 DEF Idly
<1>6. Alive(n) => n \in Reach(Holders)
  BY <1>1, NothingLost
<1> QED
  BY <1>2, <1>5, <1>6

\* In graphs without loops, whatever they share, what the caller cannot reach
\* was freed between calls, the counters are the numbers of references that
\* exist, and no mark is left.
THEOREM ReclaimedCorrect ==
  ASSUME "table" \notin FailSites
  PROVE  Spec /\ []NoLoops => []Reclaimed
<1>1. Spec /\ []NoLoops => []IInv
  BY Invariance
<1>2. IInv /\ NoLoops => Reclaimed
  BY NothingLeft
<1> QED
  BY <1>1, <1>2, PTL
=============================================================================
