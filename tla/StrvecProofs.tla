---------------------------- MODULE StrvecProofs ----------------------------
(***************************************************************************)
(* Proofs about the string vectors of src/strvec.c, for any number of      *)
(* vectors, elements, strings and dictionaries and any length.             *)
(*                                                                         *)
(* First what releasing references does to the counters, the contents and  *)
(* the dictionaries, then the inductive invariant IInv, action by action,  *)
(* then that vectors behave as independent values.                         *)
(***************************************************************************)
EXTENDS Strvec, TLAPS, SequenceTheorems, FiniteSetTheorems

-----------------------------------------------------------------------------
(***************************************************************************)
(* The inductive invariant.                                                *)
(***************************************************************************)

\* no vector has an element twice: releasing it drops each reference once
Injective ==
  \A h \in Handles : \A i, j \in DOMAIN vec[h] : vec[h][i] = vec[h][j] => i = j

\* elements in use have a string, free memory has no content
Content ==
  \A e \in Elts : IF refcnt[e] = 0 THEN cell[e] = Blank ELSE cell[e].str \in Strs

\* the attributes of an element were passed to ec_strvec_set_attrs()
Owned == \A e \in Elts : cell[e].attrs \in given \cup {NoDict}

IInv ==
  /\ TypeOK
  /\ Injective
  /\ RefcntExact
  /\ Content
  /\ Owned
  /\ DictsFreedOnce

\* DictsFreedOnce for one dictionary and given contents and counters
Accounted(d, r, c, f) ==
  \/ f[d] = 1 /\ \A e \in Elts : c[e].attrs # d
  \/ f[d] = 0 /\ \E e \in Elts : /\ r[e] > 0 /\ c[e].attrs = d
                                 /\ \A x \in Elts : c[x].attrs = d => x = e

\* Only finitely many vectors reference an element.
LEMMA HoldersFinite ==
  ASSUME NEW e
  PROVE  /\ IsFiniteSet(Holders(e))
         /\ Cardinality(Holders(e)) \in Nat
         /\ Cardinality(Holders(e)) = 0 <=> Holders(e) = {}
BY ConstantsAssumption, FS_Subset, FS_CardinalityType, FS_EmptySet DEF Holders

\* An element without references is in no vector, the holder of an element that
\* has one reference is alone.
LEMMA HoldersOf ==
  ASSUME TypeOK, RefcntExact, NEW e \in Elts
  PROVE  /\ refcnt[e] \in Nat
         /\ refcnt[e] = 0 <=> \A h \in Handles : e \notin Range(vec[h])
         /\ refcnt[e] = 1 => \A g, h \in Handles :
              e \in Range(vec[g]) /\ e \in Range(vec[h]) => g = h
<1>1. refcnt[e] \in Nat /\ refcnt[e] = Cardinality(Holders(e))
  BY DEF TypeOK, RefcntExact
<1>2. refcnt[e] = 0 <=> Holders(e) = {}
  BY <1>1, HoldersFinite
<1>3. refcnt[e] = 0 <=> \A h \in Handles : e \notin Range(vec[h])
  BY <1>2 DEF Holders
<1>4. ASSUME refcnt[e] = 1, NEW g \in Handles, NEW h \in Handles,
             e \in Range(vec[g]), e \in Range(vec[h])
      PROVE  g = h
  <2>1. g \in Holders(e) /\ h \in Holders(e)
    BY <1>4 DEF Holders
  <2>2. PICK x : Holders(e) = {x}
    BY <1>1, <1>4, HoldersFinite, FS_Singleton
  <2> QED
    BY <2>1, <2>2
<1> QED
  BY <1>1, <1>3, <1>4

\* A vector h drops one reference to each element of S: the counters stay exact
\* for every element that h gained no reference to.
LEMMA DropRefs ==
  ASSUME TypeOK, RefcntExact,
         NEW h \in Handles, NEW S \in SUBSET Range(vec[h]), NEW e \in Elts,
         e \in Range(vec'[h]) <=> e \in Range(vec[h]) \ S,
         \A g \in Handles \ {h} : vec'[g] = vec[g]
  PROVE  /\ RefsAfter(S)[e] \in Nat
         /\ RefsAfter(S)[e] = Cardinality(Holders(e)')
<1>1. refcnt[e] = Cardinality(Holders(e)) /\ refcnt[e] \in Nat
  BY DEF RefcntExact, TypeOK
<1>2. IsFiniteSet(Holders(e)) /\ (Cardinality(Holders(e)) = 0 <=> Holders(e) = {})
  BY HoldersFinite
<1>3. CASE e \in S
  <2>1. h \in Holders(e) /\ Holders(e)' = Holders(e) \ {h}
    BY <1>3 DEF Holders
  <2>2. Cardinality(Holders(e)') = Cardinality(Holders(e)) - 1 /\ IsFiniteSet(Holders(e)')
    BY <1>2, <2>1, FS_RemoveElement
  <2>3. Cardinality(Holders(e)') \in Nat
    BY <2>2, FS_CardinalityType
  <2> QED
    BY <1>1, <1>3, <2>2, <2>3 DEF RefsAfter
<1>4. CASE e \notin S
  <2>1. Holders(e)' = Holders(e)
    BY <1>4 DEF Holders
  <2> QED
    BY <1>1, <1>4, <2>1 DEF RefsAfter
<1> QED
  BY <1>3, <1>4

\* A vector h gains a reference to an element e that was free or that it did not
\* have.
LEMMA AddRef ==
  ASSUME TypeOK, RefcntExact,
         NEW h \in Handles, NEW e \in Elts,
         e \notin Range(vec[h]), e \in Range(vec'[h]),
         \A g \in Handles \ {h} : vec'[g] = vec[g]
  PROVE  Cardinality(Holders(e)') = refcnt[e] + 1
<1>1. refcnt[e] = Cardinality(Holders(e)) /\ IsFiniteSet(Holders(e))
  BY HoldersFinite DEF RefcntExact
<1>2. h \notin Holders(e) /\ Holders(e)' = Holders(e) \cup {h}
  BY DEF Holders
<1> QED
  BY <1>1, <1>2, FS_AddElement

\* Releasing the elements of S frees the dictionary of each element that is not
\* used any more, and blanks it.
LEMMA DropDicts ==
  ASSUME IInv, NEW S \in SUBSET Elts, \A e \in S : refcnt[e] > 0
  PROVE  /\ CellsAfter(S) \in [Elts -> [str : Strs \cup {NoStr}, attrs : Dicts \cup {NoDict}]]
         /\ FreedAfter(S) \in [Dicts -> Nat]
         /\ \A e \in Elts : IF RefsAfter(S)[e] = 0 THEN CellsAfter(S)[e] = Blank
                                                   ELSE CellsAfter(S)[e].str \in Strs
         /\ \A e \in Elts : CellsAfter(S)[e].attrs \in given \cup {NoDict}
         /\ \A d \in given : Accounted(d, RefsAfter(S), CellsAfter(S), FreedAfter(S))
<1> USE DEF IInv, TypeOK
<1>1. /\ Blank \in [str : Strs \cup {NoStr}, attrs : Dicts \cup {NoDict}]
      /\ Blank.attrs = NoDict
  BY DEF Blank, Cell
<1>2. CellsAfter(S) \in [Elts -> [str : Strs \cup {NoStr}, attrs : Dicts \cup {NoDict}]]
  BY <1>1 DEF CellsAfter
<1>3. FreedAfter(S) \in [Dicts -> Nat]
  BY DEF FreedAfter
<1>4. \A e \in Elts : IF RefsAfter(S)[e] = 0 THEN CellsAfter(S)[e] = Blank
                                             ELSE CellsAfter(S)[e].str \in Strs
  BY DEF RefsAfter, CellsAfter, Dropped, Content
<1>5. \A e \in Elts : CellsAfter(S)[e].attrs \in given \cup {NoDict}
  BY <1>1 DEF CellsAfter, Owned
<1>6. ASSUME NEW d \in given
      PROVE  Accounted(d, RefsAfter(S), CellsAfter(S), FreedAfter(S))
  <2>1. d \in Dicts /\ d # NoDict
    BY ConstantsAssumption
  <2>2. CASE freed[d] = 1 /\ \A e \in Elts : cell[e].attrs # d
    <3>1. FreedAfter(S)[d] = 1
      BY <2>1, <2>2 DEF FreedAfter, Dropped
    <3>2. \A e \in Elts : CellsAfter(S)[e].attrs # d
      BY <2>1, <2>2, <1>1 DEF CellsAfter
    <3> QED
      BY <3>1, <3>2 DEF Accounted
  <2>3. ASSUME NEW o \in Elts, freed[d] = 0, refcnt[o] > 0, cell[o].attrs = d,
               \A x \in Elts : cell[x].attrs = d => x = o
        PROVE  Accounted(d, RefsAfter(S), CellsAfter(S), FreedAfter(S))
    <3>1. CASE o \in Dropped(S)
      <4>1. FreedAfter(S)[d] = 1
        BY <2>1, <2>3, <3>1 DEF FreedAfter
      <4>2. \A e \in Elts : CellsAfter(S)[e].attrs # d
        BY <2>1, <2>3, <3>1, <1>1 DEF CellsAfter
      <4> QED
        BY <4>1, <4>2 DEF Accounted
    <3>2. CASE o \notin Dropped(S)
      <4>1. FreedAfter(S)[d] = 0
        BY <2>1, <2>3, <3>2 DEF FreedAfter, Dropped
      <4>2. CellsAfter(S)[o].attrs = d /\ \A x \in Elts : CellsAfter(S)[x].attrs = d => x = o
        BY <2>1, <2>3, <3>2, <1>1 DEF CellsAfter
      <4>3. RefsAfter(S)[o] > 0
        BY <2>3, <3>2 DEF RefsAfter, Dropped
      <4> QED
        BY <4>1, <4>2, <4>3 DEF Accounted
    <3> QED
      BY <3>1, <3>2
  <2> QED
    BY <2>2, <2>3 DEF DictsFreedOnce
<1> QED
  BY <1>2, <1>3, <1>4, <1>5, <1>6

-----------------------------------------------------------------------------
(***************************************************************************)
(* Facts about sequences of elements.                                      *)
(***************************************************************************)

\* The positions of a vector, and what it points to.
LEMMA VecType ==
  ASSUME TypeOK, NEW h \in Handles
  PROVE  /\ vec[h] \in Seq(Elts)
         /\ DOMAIN vec[h] = 1..Len(vec[h])
         /\ Len(vec[h]) \in 0..MaxLen
         /\ Range(vec[h]) \subseteq Elts
         /\ \A i \in DOMAIN vec[h] : vec[h][i] \in Range(vec[h])
BY ConstantsAssumption DEF TypeOK, Range

\* vec[i] = elt
LEMMA PutAt ==
  ASSUME NEW s \in Seq(Elts), NEW i \in DOMAIN s, NEW e \in Elts, e \notin Range(s),
         \A j, k \in DOMAIN s : s[j] = s[k] => j = k
  PROVE  LET t == [s EXCEPT ![i] = e]
         IN  /\ t \in Seq(Elts) /\ Len(t) = Len(s) /\ DOMAIN t = DOMAIN s
             /\ \A j, k \in DOMAIN t : t[j] = t[k] => j = k
             /\ Range(t) = (Range(s) \ {s[i]}) \cup {e}
<1> DEFINE t == [s EXCEPT ![i] = e]
<1>1. DOMAIN t = DOMAIN s /\ \A j \in DOMAIN s : t[j] = IF j = i THEN e ELSE s[j]
  OBVIOUS
<1>2. t \in Seq(Elts) /\ Len(t) = Len(s)
  OBVIOUS
<1>3. \A j, k \in DOMAIN t : t[j] = t[k] => j = k
  BY <1>1 DEF Range
<1>4. Range(t) = (Range(s) \ {s[i]}) \cup {e}
  BY <1>1 DEF Range
<1> QED
  BY <1>1, <1>2, <1>3, <1>4

\* vec[len++] = elt
LEMMA PutLast ==
  ASSUME NEW s \in Seq(Elts), NEW e \in Elts, e \notin Range(s),
         \A j, k \in DOMAIN s : s[j] = s[k] => j = k
  PROVE  LET t == Append(s, e)
         IN  /\ t \in Seq(Elts) /\ Len(t) = Len(s) + 1
             /\ \A j, k \in DOMAIN t : t[j] = t[k] => j = k
             /\ Range(t) = Range(s) \cup {e}
<1> DEFINE t == Append(s, e)
<1>1. /\ t \in Seq(Elts) /\ Len(t) = Len(s) + 1
      /\ DOMAIN t = 1..(Len(s) + 1) /\ DOMAIN s = 1..Len(s) /\ Len(s) \in Nat
      /\ \A j \in 1..Len(s) : t[j] = s[j]
      /\ t[Len(s) + 1] = e
  OBVIOUS
<1> HIDE DEF t
<1>2. \A j, k \in DOMAIN t : t[j] = t[k] => j = k
  BY <1>1 DEF Range
<1>3. Range(t) = Range(s) \cup {e}
  <2>1. ASSUME NEW x \in Range(t) PROVE x \in Range(s) \cup {e}
    BY <1>1 DEF Range
  <2>2. ASSUME NEW x \in Range(s) PROVE x \in Range(t)
    BY <1>1 DEF Range
  <2>3. e \in Range(t)
    BY <1>1 DEF Range
  <2> QED
    BY <2>1, <2>2, <2>3
<1> QED
  BY <1>1, <1>2, <1>3 DEF t

\* len--
LEMMA CutLast ==
  ASSUME NEW s \in Seq(Elts), s # <<>>, \A j, k \in DOMAIN s : s[j] = s[k] => j = k
  PROVE  LET t == SubSeq(s, 1, Len(s) - 1)
         IN  /\ t \in Seq(Elts) /\ Len(t) = Len(s) - 1
             /\ s[Len(s)] \in Range(s)
             /\ \A j, k \in DOMAIN t : t[j] = t[k] => j = k
             /\ Range(t) = Range(s) \ {s[Len(s)]}
<1> DEFINE t == SubSeq(s, 1, Len(s) - 1)
<1>0. Len(s) \in Nat \ {0}
  BY EmptySeq
<1>1. /\ t \in Seq(Elts) /\ Len(t) = Len(s) - 1 /\ Len(s) \in Nat \ {0}
      /\ DOMAIN t = 1..(Len(s) - 1) /\ DOMAIN s = 1..Len(s)
      /\ \A j \in 1..(Len(s) - 1) : t[j] = s[j]
  <2>1. PICK n \in Nat : n = Len(s) - 1
    BY <1>0
  <2>2. n <= Len(s) /\ Len(s) \in Nat /\ t = SubSeq(s, 1, n)
    BY <1>0, <2>1
  <2>3. /\ SubSeq(s, 1, n) \in Seq(Elts) /\ Len(SubSeq(s, 1, n)) = n
        /\ DOMAIN SubSeq(s, 1, n) = 1..n /\ DOMAIN s = 1..Len(s)
        /\ \A j \in 1..n : SubSeq(s, 1, n)[j] = s[j]
    BY <2>2
  <2> QED
    BY <1>0, <2>1, <2>2, <2>3
<1> HIDE DEF t
<1>2. \A j, k \in DOMAIN t : t[j] = t[k] => j = k
  BY <1>1
<1>3. s[Len(s)] \in Range(s)
  BY <1>1 DEF Range
<1>4. Range(t) = Range(s) \ {s[Len(s)]}
  <2>1. ASSUME NEW x \in Range(t) PROVE x \in Range(s) \ {s[Len(s)]}
    <3>1. PICK j \in 1..(Len(s) - 1) : x = s[j]
      BY <1>1 DEF Range
    <3>2. j \in DOMAIN s /\ Len(s) \in DOMAIN s /\ j # Len(s)
      BY <1>1
    <3> QED
      BY <3>1, <3>2 DEF Range
  <2>2. ASSUME NEW x \in Range(s), x # s[Len(s)] PROVE x \in Range(t)
    <3>1. PICK j \in 1..Len(s) : x = s[j]
      BY <1>1 DEF Range
    <3>2. j \in 1..(Len(s) - 1)
      BY <1>1, <2>2, <3>1
    <3> QED
      BY <1>1, <3>1, <3>2 DEF Range
  <2> QED
    BY <2>1, <2>2
<1> QED
  BY <1>1, <1>2, <1>3, <1>4 DEF t

\* the part that ec_strvec_ndup() copies
LEMMA Part ==
  ASSUME NEW s \in Seq(Elts), NEW off \in Nat, NEW len \in Nat, off + len <= Len(s),
         \A j, k \in DOMAIN s : s[j] = s[k] => j = k
  PROVE  LET t == SubSeq(s, off + 1, off + len)
         IN  /\ t \in Seq(Elts) /\ Len(t) = len
             /\ \A j \in 1..len : t[j] = s[off + j]
             /\ \A j, k \in DOMAIN t : t[j] = t[k] => j = k
             /\ Range(t) \subseteq Range(s)
<1> DEFINE t == SubSeq(s, off + 1, off + len)
<1>1. /\ t \in Seq(Elts) /\ Len(t) = len
      /\ DOMAIN t = 1..len /\ DOMAIN s = 1..Len(s)
      /\ \A j \in 1..len : t[j] = s[off + j]
  OBVIOUS
<1> HIDE DEF t
<1>2. \A j \in 1..len : off + j \in DOMAIN s
  BY <1>1
<1>3. \A j, k \in DOMAIN t : t[j] = t[k] => j = k
  BY SMTT(40), <1>1, <1>2
<1>4. Range(t) \subseteq Range(s)
  BY SMTT(40), <1>1, <1>2 DEF Range
<1> QED
  BY <1>1, <1>3, <1>4 DEF t

-----------------------------------------------------------------------------
(***************************************************************************)
(* Each action keeps the invariant.                                        *)
(***************************************************************************)

CellType == [str : Strs \cup {NoStr}, attrs : Dicts \cup {NoDict}]

\* The inductive invariant holds initially.
LEMMA InitIInv == Init => IInv
<1> SUFFICES ASSUME Init PROVE IInv
  OBVIOUS
<1> USE DEF Init
<1>1. \A h \in Handles : vec[h] = <<>> /\ Range(vec[h]) = {} /\ vec[h] \in Seq(Elts) /\ Len(vec[h]) = 0
  BY DEF Range
<1>2. \A e \in Elts : Holders(e) = {}
  BY <1>1 DEF Holders
<1>3. RefcntExact
  BY <1>2, HoldersFinite DEF RefcntExact
<1>4. TypeOK
  BY <1>1, ConstantsAssumption DEF TypeOK, Blank, Cell
<1>5. Injective
  BY <1>1 DEF Injective
<1>6. Content /\ Owned /\ DictsFreedOnce
  BY DEF Content, Owned, DictsFreedOnce, Blank, Cell
<1> QED
  BY <1>3, <1>4, <1>5, <1>6 DEF IInv

\* A step that replaces the elements of one vector h by t, an injective
\* sequence, keeps the shape of the vectors.
LEMMA OneVector ==
  ASSUME IInv, NEW h \in Handles, NEW t \in Seq(Elts),
         Len(t) <= MaxLen, live' \subseteq Handles, live \ {h} \subseteq live',
         h \in live' \/ t = <<>>,
         \A j, k \in DOMAIN t : t[j] = t[k] => j = k,
         vec' = [vec EXCEPT ![h] = t]
  PROVE  /\ vec'[h] = t
         /\ \A g \in Handles \ {h} : vec'[g] = vec[g]
         /\ vec' \in [Handles -> Seq(Elts)]
         /\ \A g \in Handles : Len(vec'[g]) <= MaxLen /\ (g \notin live' => vec'[g] = <<>>)
         /\ Injective'
<1>1. vec \in [Handles -> Seq(Elts)]
  BY DEF IInv, TypeOK
<1>2. vec'[h] = t /\ \A g \in Handles \ {h} : vec'[g] = vec[g]
  BY <1>1
<1>3. vec' \in [Handles -> Seq(Elts)]
  BY <1>1
<1>4. ASSUME NEW g \in Handles
      PROVE  Len(vec'[g]) <= MaxLen /\ (g \notin live' => vec'[g] = <<>>)
  BY <1>2 DEF IInv, TypeOK
<1>5. Injective'
  BY <1>2 DEF IInv, Injective
<1> QED
  BY <1>2, <1>3, <1>4, <1>5

\* A step by which one vector h gives up the elements of S, and only that.
LEMMA Release ==
  ASSUME IInv, NEW h \in Handles, NEW S \in SUBSET Range(vec[h]), NEW t \in Seq(Elts),
         Len(t) <= MaxLen, live' \subseteq Handles, live \ {h} \subseteq live',
         h \in live' \/ t = <<>>,
         \A j, k \in DOMAIN t : t[j] = t[k] => j = k,
         vec' = [vec EXCEPT ![h] = t],
         Range(t) = Range(vec[h]) \ S,
         refcnt' = RefsAfter(S), cell' = CellsAfter(S), freed' = FreedAfter(S), given' = given
  PROVE  IInv'
<1>1. /\ vec'[h] = t
      /\ \A g \in Handles \ {h} : vec'[g] = vec[g]
      /\ vec' \in [Handles -> Seq(Elts)]
      /\ \A g \in Handles : Len(vec'[g]) <= MaxLen /\ (g \notin live' => vec'[g] = <<>>)
      /\ Injective'
  BY OneVector
<1>2. S \subseteq Elts /\ \A e \in S : refcnt[e] > 0
  <2>1. S \subseteq Elts
    BY VecType DEF IInv
  <2>2. ASSUME NEW e \in S PROVE refcnt[e] > 0
    BY <2>1, HoldersOf DEF IInv
  <2> QED
    BY <2>1, <2>2
<1>3. \A e \in Elts : refcnt'[e] \in Nat /\ refcnt'[e] = Cardinality(Holders(e)')
  BY <1>1, DropRefs DEF IInv
<1>4. /\ cell' \in [Elts -> CellType]
      /\ freed' \in [Dicts -> Nat]
      /\ \A e \in Elts : IF refcnt'[e] = 0 THEN cell'[e] = Blank ELSE cell'[e].str \in Strs
      /\ \A e \in Elts : cell'[e].attrs \in given' \cup {NoDict}
      /\ \A d \in given' : Accounted(d, refcnt', cell', freed')
  BY <1>2, DropDicts DEF CellType
<1>5. refcnt' \in [Elts -> Nat]
  BY <1>3 DEF RefsAfter
<1>6. TypeOK'
  BY <1>1, <1>4, <1>5 DEF TypeOK, IInv, CellType
<1>7. RefcntExact'
  BY <1>3 DEF RefcntExact
<1>8. DictsFreedOnce'
  BY <1>4 DEF DictsFreedOnce, Accounted
<1>9. Content' /\ Owned'
  BY <1>4 DEF Content, Owned
<1> QED
  BY <1>1, <1>6, <1>7, <1>8, <1>9 DEF IInv

LEMMA NewKeeps ==
  ASSUME IInv, NEW h \in Handles, New(h)
  PROVE  IInv'
<1> USE DEF New
<1>1. TypeOK'
  BY DEF IInv, TypeOK
<1>2. \A e \in Elts : Holders(e)' = Holders(e)
  BY DEF Holders
<1>3. RefcntExact'
  BY <1>2 DEF IInv, RefcntExact
<1> QED
  BY <1>1, <1>3 DEF IInv, Injective, Content, Owned, DictsFreedOnce

LEMMA DelLastKeeps ==
  ASSUME IInv, NEW h \in Handles, DelLast(h)
  PROVE  IInv'
<1> DEFINE t == SubSeq(vec[h], 1, Len(vec[h]) - 1)
           S == {vec[h][Len(vec[h])]}
<1>1. vec[h] \in Seq(Elts) /\ Len(vec[h]) \in 0..MaxLen
  BY VecType DEF IInv
<1>2. \A j, k \in DOMAIN vec[h] : vec[h][j] = vec[h][k] => j = k
  BY DEF IInv, Injective
<1>3. /\ t \in Seq(Elts) /\ Len(t) = Len(vec[h]) - 1
      /\ S \subseteq Range(vec[h])
      /\ \A j, k \in DOMAIN t : t[j] = t[k] => j = k
      /\ Range(t) = Range(vec[h]) \ S
  BY <1>1, <1>2, CutLast DEF DelLast
<1>4. /\ Len(t) <= MaxLen /\ h \in live' /\ live' = live /\ live \subseteq Handles
      /\ vec' = [vec EXCEPT ![h] = t]
      /\ refcnt' = RefsAfter(S) /\ cell' = CellsAfter(S) /\ freed' = FreedAfter(S)
      /\ given' = given
  BY <1>1, <1>3, ConstantsAssumption DEF DelLast, IInv, TypeOK
<1> HIDE DEF t, S
<1> QED
  BY <1>3, <1>4, Release

LEMMA FreeKeeps ==
  ASSUME IInv, NEW h \in Handles, Free(h)
  PROVE  IInv'
<1>1. /\ <<>> \in Seq(Elts) /\ Len(<<>>) <= MaxLen /\ Range(<<>>) = Range(vec[h]) \ Range(vec[h])
      /\ \A j, k \in DOMAIN <<>> : <<>>[j] = <<>>[k] => j = k
  BY ConstantsAssumption DEF Range
<1>2. /\ live' \subseteq Handles /\ live \ {h} \subseteq live'
      /\ vec' = [vec EXCEPT ![h] = <<>>]
      /\ refcnt' = RefsAfter(Range(vec[h])) /\ cell' = CellsAfter(Range(vec[h]))
      /\ freed' = FreedAfter(Range(vec[h])) /\ given' = given
  BY DEF Free, IInv, TypeOK
<1> QED
  BY <1>1, <1>2, Release

\* What a free element is: nothing points to it, it has no content.
LEMMA FreshElement ==
  ASSUME IInv, NEW e \in Elts, Fresh(e)
  PROVE  /\ cell[e] = Blank /\ cell[e].attrs = NoDict
         /\ \A g \in Handles : e \notin Range(vec[g])
<1>1. cell[e] = Blank /\ cell[e].attrs = NoDict
  BY DEF IInv, Content, Fresh, Blank, Cell
<1>2. \A g \in Handles : e \notin Range(vec[g])
  BY HoldersOf DEF IInv, Fresh
<1> QED
  BY <1>1, <1>2

LEMMA AddKeeps ==
  ASSUME IInv, NEW h \in Handles, NEW e \in Elts, NEW s \in Strs, Add(h, e, s)
  PROVE  IInv'
<1> DEFINE t == Append(vec[h], e)
<1>1. /\ vec[h] \in Seq(Elts) /\ Len(vec[h]) \in 0..MaxLen /\ Len(vec[h]) < MaxLen
      /\ \A j, k \in DOMAIN vec[h] : vec[h][j] = vec[h][k] => j = k
  BY VecType DEF IInv, Injective, Add
<1>2. /\ cell[e] = Blank /\ cell[e].attrs = NoDict
      /\ \A g \in Handles : e \notin Range(vec[g])
  BY FreshElement DEF Add
<1>3. /\ t \in Seq(Elts) /\ Len(t) = Len(vec[h]) + 1
      /\ \A j, k \in DOMAIN t : t[j] = t[k] => j = k
      /\ Range(t) = Range(vec[h]) \cup {e}
  BY <1>1, <1>2, PutLast
<1>4. /\ Len(t) <= MaxLen /\ h \in live' /\ live' = live /\ live \subseteq Handles
      /\ vec' = [vec EXCEPT ![h] = t]
  BY <1>1, <1>3, ConstantsAssumption DEF Add, IInv, TypeOK
<1> HIDE DEF t
<1>5. /\ vec'[h] = t
      /\ \A g \in Handles \ {h} : vec'[g] = vec[g]
      /\ vec' \in [Handles -> Seq(Elts)]
      /\ \A g \in Handles : Len(vec'[g]) <= MaxLen /\ (g \notin live' => vec'[g] = <<>>)
      /\ Injective'
  BY <1>3, <1>4, OneVector
<1>6. /\ refcnt \in [Elts -> Nat] /\ cell \in [Elts -> CellType]
      /\ given' = given /\ freed' = freed
      /\ refcnt' = [refcnt EXCEPT ![e] = 1] /\ cell' = [cell EXCEPT ![e] = Cell(s, NoDict)]
      /\ refcnt[e] = 0
  BY DEF IInv, TypeOK, CellType, Add, Fresh
<1>7. Cell(s, NoDict) \in CellType /\ Cell(s, NoDict).str = s /\ Cell(s, NoDict).attrs = NoDict
  BY DEF Cell, CellType
<1>8. RefcntExact'
  <2>1. Cardinality(Holders(e)') = 1
    BY <1>2, <1>3, <1>5, <1>6, AddRef DEF IInv
  <2>2. ASSUME NEW x \in Elts, x # e PROVE Holders(x)' = Holders(x)
    BY <1>3, <1>5, <2>2 DEF Holders
  <2> QED
    BY <1>6, <2>1, <2>2 DEF RefcntExact, IInv
<1>9. TypeOK'
  BY <1>4, <1>5, <1>6, <1>7 DEF TypeOK, IInv, CellType
<1>10. Content' /\ Owned'
  BY <1>6, <1>7 DEF IInv, Content, Owned
<1>11. \A x \in Elts : cell'[x].attrs = cell[x].attrs
  BY <1>2, <1>6, <1>7
<1>12. \A x \in Elts : refcnt[x] > 0 => refcnt'[x] > 0
  BY <1>6
<1>13. DictsFreedOnce'
  BY <1>6, <1>11, <1>12 DEF DictsFreedOnce, IInv
<1> QED
  BY <1>5, <1>8, <1>9, <1>10, <1>13 DEF IInv

Replaces(h, i, e) ==
  /\ h \in live /\ i \in DOMAIN vec[h] /\ Fresh(e)
  /\ vec' = [vec EXCEPT ![h][i] = e]
  /\ refcnt' = [RefsAfter({vec[h][i]}) EXCEPT ![e] = 1]

Replaced(h, i, e) ==
  /\ vec[h][i] \in Elts /\ vec[h][i] # e /\ refcnt[vec[h][i]] > 0
  /\ vec'[h] = [vec[h] EXCEPT ![i] = e]
  /\ \A g \in Handles \ {h} : vec'[g] = vec[g]
  /\ vec' \in [Handles -> Seq(Elts)]
  /\ \A g \in Handles : Len(vec'[g]) <= MaxLen /\ (g \notin live => vec'[g] = <<>>)
  /\ \A g \in Handles : \A j, k \in DOMAIN vec'[g] : vec'[g][j] = vec'[g][k] => j = k
  /\ refcnt' \in [Elts -> Nat]
  /\ RefcntExact'

\* ec_strvec_set() and the copy that ec_strvec_set_attrs() makes of a shared
\* element: position i gets a new element, the old one is released.
LEMMA Replace ==
  ASSUME IInv, NEW h \in Handles, NEW i, NEW e \in Elts, Replaces(h, i, e)
  PROVE  Replaced(h, i, e)
<1> DEFINE t == [vec[h] EXCEPT ![i] = e]
           old == vec[h][i]
<1> USE DEF Replaces
<1>1. /\ vec[h] \in Seq(Elts) /\ Len(vec[h]) \in 0..MaxLen /\ old \in Elts
      /\ old \in Range(vec[h])
      /\ \A j, k \in DOMAIN vec[h] : vec[h][j] = vec[h][k] => j = k
  BY VecType DEF IInv, Injective
<1>2. \A g \in Handles : e \notin Range(vec[g])
  BY FreshElement
<1>3. old # e /\ refcnt[old] > 0
  BY <1>1, <1>2, HoldersOf DEF IInv
<1>4. /\ t \in Seq(Elts) /\ Len(t) = Len(vec[h])
      /\ \A j, k \in DOMAIN t : t[j] = t[k] => j = k
      /\ Range(t) = (Range(vec[h]) \ {old}) \cup {e}
  BY <1>1, <1>2, PutAt
<1>5. vec \in [Handles -> Seq(Elts)] /\ refcnt \in [Elts -> Nat] /\ refcnt[e] = 0
  BY DEF IInv, TypeOK, Fresh
<1>6. vec' = [vec EXCEPT ![h] = t]
  BY <1>5
<1> HIDE DEF t, old
<1>7. vec'[h] = t /\ \A g \in Handles \ {h} : vec'[g] = vec[g]
  BY <1>5, <1>6
<1>8. vec' \in [Handles -> Seq(Elts)]
  BY <1>4, <1>5, <1>6
<1>9. \A g \in Handles : Len(vec'[g]) <= MaxLen /\ (g \notin live => vec'[g] = <<>>)
  BY <1>1, <1>4, <1>7, ConstantsAssumption DEF IInv, TypeOK
<1>10. \A g \in Handles : \A j, k \in DOMAIN vec'[g] : vec'[g][j] = vec'[g][k] => j = k
  BY <1>4, <1>7 DEF IInv, Injective
<1>11. Cardinality(Holders(e)') = 1
  <2>1. TypeOK /\ RefcntExact /\ e \notin Range(vec[h]) /\ e \in Range(vec'[h])
    BY <1>2, <1>4, <1>7 DEF IInv
  <2>2. Cardinality(Holders(e)') = refcnt[e] + 1
    BY <1>7, <2>1, AddRef
  <2> QED
    BY <1>5, <2>2
<1>12. ASSUME NEW x \in Elts, x # e
       PROVE  refcnt'[x] \in Nat /\ refcnt'[x] = Cardinality(Holders(x)')
  <2>1. x \in Range(vec'[h]) <=> x \in Range(vec[h]) \ {old}
    BY <1>4, <1>7, <1>12
  <2>4. TypeOK /\ RefcntExact /\ {old} \in SUBSET Range(vec[h])
    BY <1>1 DEF IInv
  <2>2. RefsAfter({old})[x] \in Nat /\ RefsAfter({old})[x] = Cardinality(Holders(x)')
    BY <1>7, <2>1, <2>4, DropRefs
  <2>3. refcnt'[x] = RefsAfter({old})[x]
    BY <1>12 DEF RefsAfter, old
  <2> QED
    BY <2>2, <2>3
<1>13. refcnt'[e] = 1 /\ DOMAIN refcnt' = Elts
  BY DEF RefsAfter
<1>14. refcnt' \in [Elts -> Nat]
  <2>1. \A x \in Elts : refcnt'[x] \in Nat
    BY <1>12, <1>13
  <2>2. refcnt' = [x \in Elts |-> refcnt'[x]]
    BY DEF RefsAfter
  <2> QED
    BY <2>1, <2>2
<1>15. RefcntExact'
  BY <1>11, <1>12, <1>13 DEF RefcntExact
<1> QED
  BY <1>1, <1>3, <1>7, <1>8, <1>9, <1>10, <1>14, <1>15 DEF t, old, Replaced

LEMMA SetKeeps ==
  ASSUME IInv, NEW h \in Handles, NEW i, NEW e \in Elts, NEW s \in Strs, Set(h, i, e, s)
  PROVE  IInv'
<1> DEFINE old == vec[h][i]
           S == {old}
<1>1. /\ i \in DOMAIN vec[h] /\ Fresh(e) /\ h \in live
      /\ vec' = [vec EXCEPT ![h][i] = e]
      /\ refcnt' = [RefsAfter(S) EXCEPT ![e] = 1]
      /\ cell' = [CellsAfter(S) EXCEPT ![e] = Cell(s, NoDict)]
      /\ freed' = FreedAfter(S) /\ given' = given /\ live' = live
  BY DEF Set
<1>2. /\ old \in Elts /\ old # e /\ refcnt[old] > 0
      /\ vec' \in [Handles -> Seq(Elts)]
      /\ \A g \in Handles : Len(vec'[g]) <= MaxLen /\ (g \notin live => vec'[g] = <<>>)
      /\ \A g \in Handles : \A j, k \in DOMAIN vec'[g] : vec'[g][j] = vec'[g][k] => j = k
      /\ refcnt' \in [Elts -> Nat]
      /\ RefcntExact'
  <2>1. Replaces(h, i, e)
    BY DEF Replaces, Set
  <2>2. Replaced(h, i, e)
    BY <2>1, Replace
  <2> QED
    BY <2>2 DEF Replaced
<1>3. cell[e] = Blank /\ cell[e].attrs = NoDict
  BY <1>1, FreshElement
<1>4. S \in SUBSET Elts /\ \A x \in S : refcnt[x] > 0
  BY <1>2
<1> HIDE DEF S, old
<1>5. /\ CellsAfter(S) \in [Elts -> CellType]
      /\ FreedAfter(S) \in [Dicts -> Nat]
      /\ \A x \in Elts : IF RefsAfter(S)[x] = 0 THEN CellsAfter(S)[x] = Blank
                                                ELSE CellsAfter(S)[x].str \in Strs
      /\ \A x \in Elts : CellsAfter(S)[x].attrs \in given \cup {NoDict}
      /\ \A d \in given : Accounted(d, RefsAfter(S), CellsAfter(S), FreedAfter(S))
  BY <1>4, DropDicts DEF CellType
<1>6. Cell(s, NoDict) \in CellType /\ Cell(s, NoDict).str = s /\ Cell(s, NoDict).attrs = NoDict
  BY DEF Cell, CellType
<1>7. CellsAfter(S)[e].attrs = NoDict /\ e \notin S
  BY <1>2, <1>3 DEF CellsAfter, Dropped, S
<1>8. RefsAfter(S)[e] = 0 /\ \A x \in Elts : refcnt'[x] = IF x = e THEN 1 ELSE RefsAfter(S)[x]
  BY <1>1, <1>7 DEF RefsAfter, Fresh
<1>9. \A x \in Elts : cell'[x] = IF x = e THEN Cell(s, NoDict) ELSE CellsAfter(S)[x]
  BY <1>1, <1>5
<1>10. TypeOK'
  <2>1. cell' \in [Elts -> CellType]
    BY <1>1, <1>5, <1>6
  <2> QED
    BY <1>1, <1>2, <1>5, <2>1 DEF TypeOK, IInv, CellType
<1>11. Content'
  BY <1>5, <1>6, <1>8, <1>9 DEF Content
<1>12. \A x \in Elts : cell'[x].attrs = CellsAfter(S)[x].attrs
  BY <1>6, <1>7, <1>9
<1>13. Owned'
  BY <1>1, <1>5, <1>12 DEF Owned
<1>14. \A x \in Elts : RefsAfter(S)[x] > 0 => refcnt'[x] > 0
  BY <1>8
<1>15. DictsFreedOnce'
  BY <1>1, <1>5, <1>12, <1>14 DEF DictsFreedOnce, Accounted
<1>16. Injective'
  BY <1>2 DEF Injective
<1> QED
  BY <1>2, <1>10, <1>11, <1>13, <1>15, <1>16 DEF IInv

\* A dictionary that the caller may pass is in no element.
LEMMA AvailableUnowned ==
  ASSUME IInv, NEW d \in Dicts, Available(d)
  PROVE  \A e \in Elts : cell[e].attrs # d
<1>1. CASE d \notin given
  BY <1>1, ConstantsAssumption DEF IInv, Owned
<1>2. CASE d \in given
  BY <1>2 DEF Available, IInv, DictsFreedOnce
<1> QED
  BY <1>1, <1>2

LEMMA SetAttrsCopyKeeps ==
  ASSUME IInv, NEW h \in Handles, NEW i, NEW e \in Elts, NEW d \in Dicts \cup {NoDict},
         SetAttrsCopy(h, i, e, d)
  PROVE  IInv'
<1> DEFINE old == vec[h][i]
<1>1. /\ i \in DOMAIN vec[h] /\ Fresh(e) /\ h \in live /\ Available(d) /\ refcnt[old] > 1
      /\ vec' = [vec EXCEPT ![h][i] = e]
      /\ refcnt' = [RefsAfter({old}) EXCEPT ![e] = 1]
      /\ cell' = [cell EXCEPT ![e] = Cell(cell[old].str, d)]
      /\ freed' = Passed(d, freed) /\ given' = (given \cup {d}) \ {NoDict} /\ live' = live
  BY DEF SetAttrsCopy, Shared
<1>2. /\ old \in Elts /\ old # e /\ refcnt[old] > 0
      /\ vec' \in [Handles -> Seq(Elts)]
      /\ \A g \in Handles : Len(vec'[g]) <= MaxLen /\ (g \notin live => vec'[g] = <<>>)
      /\ \A g \in Handles : \A j, k \in DOMAIN vec'[g] : vec'[g][j] = vec'[g][k] => j = k
      /\ refcnt' \in [Elts -> Nat]
      /\ RefcntExact'
  <2>1. Replaces(h, i, e)
    BY DEF Replaces, SetAttrsCopy
  <2>2. Replaced(h, i, e)
    BY <2>1, Replace
  <2> QED
    BY <2>2 DEF Replaced
<1>3. cell[e] = Blank /\ cell[e].attrs = NoDict
  BY <1>1, FreshElement
<1> HIDE DEF old
<1>4. /\ cell \in [Elts -> CellType] /\ refcnt \in [Elts -> Nat] /\ freed \in [Dicts -> Nat]
      /\ given \subseteq Dicts /\ cell[old].str \in Strs
  BY <1>2 DEF IInv, TypeOK, CellType, Content
<1>5. /\ Cell(cell[old].str, d) \in CellType
      /\ Cell(cell[old].str, d).str \in Strs /\ Cell(cell[old].str, d).attrs = d
  BY <1>4 DEF Cell, CellType
<1>6. \A x \in Elts : cell'[x] = IF x = e THEN Cell(cell[old].str, d) ELSE cell[x]
  BY <1>1, <1>4
<1>7. \A x \in Elts : refcnt'[x] = IF x = e THEN 1 ELSE IF x = old THEN refcnt[x] - 1 ELSE refcnt[x]
  BY <1>1 DEF RefsAfter
<1>8. \A x \in Elts : refcnt'[x] = 0 <=> (x # e /\ refcnt[x] = 0)
  <2>1. refcnt[old] > 1 /\ \A x \in Elts : refcnt[x] \in Nat
    BY <1>1, <1>4
  <2> QED
    BY <1>7, <2>1
<1>9. freed' \in [Dicts -> Nat] /\ \A x \in Dicts : freed'[x] = IF x = d THEN 0 ELSE freed[x]
  BY <1>1, <1>4 DEF Passed
<1>10. TypeOK'
  <2>1. cell' \in [Elts -> CellType]
    BY <1>1, <1>4, <1>5
  <2>2. given' \subseteq Dicts
    BY <1>1, <1>4
  <2> QED
    BY <1>1, <1>2, <1>9, <2>1, <2>2 DEF TypeOK, IInv, CellType
<1>11. Content'
  BY <1>5, <1>6, <1>8 DEF Content, IInv
<1>12. Owned'
  BY <1>1, <1>5, <1>6 DEF Owned, IInv
<1>13. DictsFreedOnce'
  <2> SUFFICES ASSUME NEW x \in given' PROVE Accounted(x, refcnt', cell', freed')
    BY DEF DictsFreedOnce, Accounted
  <2>1. x \in Dicts /\ x # NoDict /\ (x = d \/ x \in given)
    BY <1>1, <1>4
  <2>2. CASE x = d
    <3>1. \A y \in Elts : cell[y].attrs # x
      BY <1>1, <2>1, <2>2, AvailableUnowned
    <3>2. \A y \in Elts : cell'[y].attrs = x => y = e
      BY <1>6, <3>1
    <3>3. freed'[x] = 0 /\ refcnt'[e] > 0 /\ cell'[e].attrs = x
      BY <1>5, <1>6, <1>7, <1>9, <2>1, <2>2
    <3> QED
      BY <3>2, <3>3 DEF Accounted
  <2>3. CASE x # d
    <3>1. freed'[x] = freed[x] /\ x \in given
      BY <1>9, <2>1, <2>3
    <3>2. \A y \in Elts : cell'[y].attrs = x <=> cell[y].attrs = x
      BY <1>3, <1>5, <1>6, <2>1, <2>3
    <3>3. \A y \in Elts : refcnt[y] > 0 => refcnt'[y] > 0
      BY <1>2, <1>4, <1>8
    <3> QED
      BY <3>1, <3>2, <3>3 DEF Accounted, DictsFreedOnce, IInv
  <2> QED
    BY <2>2, <2>3
<1>14. Injective'
  BY <1>2 DEF Injective
<1> QED
  BY <1>2, <1>10, <1>11, <1>12, <1>13, <1>14 DEF IInv

LEMMA SetAttrsKeeps ==
  ASSUME IInv, NEW h \in Handles, NEW i, NEW d \in Dicts \cup {NoDict}, SetAttrs(h, i, d)
  PROVE  IInv'
<1> DEFINE elt == vec[h][i]
           c == cell[elt].attrs
<1>1. /\ i \in DOMAIN vec[h] /\ h \in live /\ Available(d)
      /\ vec' = vec /\ live' = live /\ refcnt' = refcnt
      /\ cell' = [cell EXCEPT ![elt] = Cell(@.str, d)]
      /\ freed' = Passed(d, [x \in Dicts |-> IF x = c THEN freed[x] + 1 ELSE freed[x]])
      /\ given' = (given \cup {d}) \ {NoDict}
  BY DEF SetAttrs
<1>2. elt \in Elts /\ elt \in Range(vec[h])
  BY <1>1, VecType DEF IInv
<1>3. refcnt[elt] > 0
  BY <1>2, HoldersOf DEF IInv
<1> HIDE DEF elt
<1>4. /\ cell \in [Elts -> CellType] /\ refcnt \in [Elts -> Nat] /\ freed \in [Dicts -> Nat]
      /\ given \subseteq Dicts /\ cell[elt].str \in Strs /\ c \in Dicts \cup {NoDict}
  BY <1>2, <1>3 DEF IInv, TypeOK, CellType, Content
<1> HIDE DEF c
<1>5. /\ Cell(cell[elt].str, d) \in CellType
      /\ Cell(cell[elt].str, d).str \in Strs /\ Cell(cell[elt].str, d).attrs = d
  BY <1>4 DEF Cell, CellType
<1>6. \A x \in Elts : cell'[x] = IF x = elt THEN Cell(cell[elt].str, d) ELSE cell[x]
  BY <1>1, <1>4
<1>7. /\ freed' \in [Dicts -> Nat]
      /\ \A x \in Dicts : freed'[x] = IF x = d THEN 0 ELSE IF x = c THEN freed[x] + 1 ELSE freed[x]
  BY <1>1, <1>4 DEF Passed
<1>8. TypeOK'
  <2>1. cell' \in [Elts -> CellType]
    BY <1>1, <1>2, <1>4, <1>5
  <2>2. given' \subseteq Dicts
    BY <1>1, <1>4
  <2> QED
    BY <1>1, <1>7, <2>1, <2>2 DEF TypeOK, IInv, CellType
<1>9. Content'
  BY <1>1, <1>3, <1>5, <1>6 DEF Content, IInv
<1>10. Owned'
  BY <1>1, <1>5, <1>6 DEF Owned, IInv
<1>11. DictsFreedOnce'
  <2> SUFFICES ASSUME NEW x \in given' PROVE Accounted(x, refcnt', cell', freed')
    BY DEF DictsFreedOnce, Accounted
  <2>1. x \in Dicts /\ x # NoDict /\ (x = d \/ x \in given)
    BY <1>1, <1>4
  <2>2. CASE x = d
    <3>1. \A y \in Elts : cell[y].attrs # x
      BY <1>1, <2>1, <2>2, AvailableUnowned
    <3>2. \A y \in Elts : cell'[y].attrs = x => y = elt
      BY <1>6, <3>1
    <3>3. freed'[x] = 0 /\ refcnt'[elt] > 0 /\ cell'[elt].attrs = x
      BY <1>1, <1>2, <1>3, <1>5, <1>6, <1>7, <2>1, <2>2
    <3> QED
      BY <1>2, <3>2, <3>3 DEF Accounted
  <2>3. CASE x # d /\ x = c
    <3>1. cell[elt].attrs = x /\ x \in given
      BY <2>1, <2>3 DEF c
    <3>2. freed[x] = 0 /\ \A y \in Elts : cell[y].attrs = x => y = elt
      BY <1>2, <3>1 DEF DictsFreedOnce, IInv
    <3>3. freed'[x] = 1 /\ \A y \in Elts : cell'[y].attrs # x
      BY <1>5, <1>6, <1>7, <2>1, <2>3, <3>2
    <3> QED
      BY <3>3 DEF Accounted
  <2>4. CASE x # d /\ x # c
    <3>1. freed'[x] = freed[x] /\ x \in given
      BY <1>7, <2>1, <2>4
    <3>2. \A y \in Elts : cell'[y].attrs = x <=> cell[y].attrs = x
      BY <1>2, <1>5, <1>6, <2>4 DEF c
    <3> QED
      BY <1>1, <3>1, <3>2 DEF Accounted, DictsFreedOnce, IInv
  <2> QED
    BY <2>2, <2>3, <2>4
<1>12. RefcntExact' /\ Injective'
  BY <1>1 DEF RefcntExact, Injective, Holders, IInv
<1> QED
  BY <1>8, <1>9, <1>10, <1>11, <1>12 DEF IInv

LEMMA SetAttrsFailsKeeps ==
  ASSUME IInv, NEW d \in Dicts, SetAttrsFails(d)
  PROVE  IInv'
<1>1. /\ Available(d) /\ vec' = vec /\ live' = live /\ refcnt' = refcnt /\ cell' = cell
      /\ freed' = [freed EXCEPT ![d] = 1] /\ given' = given \cup {d}
  BY DEF SetAttrsFails
<1>2. \A e \in Elts : cell[e].attrs # d
  BY <1>1, AvailableUnowned
<1>3. \A x \in Dicts : freed'[x] = IF x = d THEN 1 ELSE freed[x]
  BY <1>1 DEF IInv, TypeOK
<1>4. TypeOK'
  BY <1>1 DEF IInv, TypeOK
<1>5. Content' /\ Owned' /\ RefcntExact' /\ Injective'
  BY <1>1 DEF IInv, Content, Owned, RefcntExact, Injective, Holders
<1>6. DictsFreedOnce'
  BY <1>1, <1>2, <1>3 DEF IInv, TypeOK, DictsFreedOnce
<1> QED
  BY <1>4, <1>5, <1>6 DEF IInv

LEMMA NdupKeeps ==
  ASSUME IInv, NEW src \in Handles, NEW dst \in Handles, NEW off \in 0..MaxLen, NEW len \in 0..MaxLen,
         Ndup(src, dst, off, len)
  PROVE  IInv'
<1> DEFINE t == SubSeq(vec[src], off + 1, off + len)
<1>1. /\ src \in live /\ dst \notin live /\ off + len <= Len(vec[src])
      /\ vec' = [vec EXCEPT ![dst] = t] /\ refcnt' = RefsPlus(t) /\ live' = live \cup {dst}
      /\ cell' = cell /\ given' = given /\ freed' = freed
  BY DEF Ndup
<1>2. /\ vec[src] \in Seq(Elts) /\ Len(vec[src]) \in 0..MaxLen
      /\ \A j, k \in DOMAIN vec[src] : vec[src][j] = vec[src][k] => j = k
      /\ off \in Nat /\ len \in Nat
  BY VecType, ConstantsAssumption DEF IInv, Injective
<1>3. /\ t \in Seq(Elts) /\ Len(t) = len
      /\ \A j, k \in DOMAIN t : t[j] = t[k] => j = k
      /\ Range(t) \subseteq Range(vec[src])
  <2>1. off + len <= Len(vec[src])
    BY <1>1
  <2>2. PICK v \in Seq(Elts) : v = vec[src]
    BY <1>2
  <2>3. off + len <= Len(v) /\ \A j, k \in DOMAIN v : v[j] = v[k] => j = k
    BY <1>2, <2>1, <2>2
  <2> HIDE DEF t
  <2>4. LET w == SubSeq(v, off + 1, off + len)
        IN  /\ w \in Seq(Elts) /\ Len(w) = len
            /\ \A j, k \in DOMAIN w : w[j] = w[k] => j = k
            /\ Range(w) \subseteq Range(v)
    BY SMTT(40), <1>2, <2>3, Part
  <2> QED
    BY <2>2, <2>4 DEF t
<1> HIDE DEF t
<1>4. Len(t) <= MaxLen /\ live' \subseteq Handles /\ live \ {dst} \subseteq live' /\ dst \in live'
  BY <1>1, <1>3, ConstantsAssumption DEF IInv, TypeOK
<1>5. /\ vec'[dst] = t
      /\ \A g \in Handles \ {dst} : vec'[g] = vec[g]
      /\ vec' \in [Handles -> Seq(Elts)]
      /\ \A g \in Handles : Len(vec'[g]) <= MaxLen /\ (g \notin live' => vec'[g] = <<>>)
      /\ Injective'
  BY <1>1, <1>3, <1>4, OneVector
<1>6. Range(vec[dst]) = {}
  BY <1>1 DEF IInv, TypeOK, Range
<1>7. ASSUME NEW e \in Elts
      PROVE  /\ refcnt'[e] \in Nat /\ refcnt'[e] = Cardinality(Holders(e)')
             /\ refcnt'[e] = 0 <=> refcnt[e] = 0
             /\ refcnt[e] > 0 => refcnt'[e] > 0
  <2>1. refcnt[e] \in Nat /\ refcnt'[e] = IF e \in Range(t) THEN refcnt[e] + 1 ELSE refcnt[e]
    BY <1>1 DEF IInv, TypeOK, RefsPlus
  <2>2. CASE e \in Range(t)
    <3>1. Cardinality(Holders(e)') = refcnt[e] + 1
      BY <1>5, <1>6, <2>2, AddRef DEF IInv
    <3>2. refcnt[e] > 0
      BY <1>3, <2>1, <2>2, HoldersOf DEF IInv
    <3> QED
      BY <2>1, <2>2, <3>1, <3>2
  <2>3. CASE e \notin Range(t)
    <3>1. Holders(e)' = Holders(e)
      BY <1>5, <1>6, <2>3 DEF Holders
    <3> QED
      BY <2>1, <2>3, <3>1 DEF IInv, RefcntExact
  <2> QED
    BY <2>2, <2>3
<1>8. refcnt' \in [Elts -> Nat]
  BY <1>1, <1>7 DEF RefsPlus
<1>9. TypeOK'
  BY <1>1, <1>4, <1>5, <1>8 DEF IInv, TypeOK
<1>10. RefcntExact'
  BY <1>7 DEF RefcntExact
<1>11. Content'
  BY <1>1, <1>7 DEF IInv, Content
<1>12. Owned'
  BY <1>1 DEF IInv, Owned
<1>13. DictsFreedOnce'
  BY <1>1, <1>7 DEF IInv, DictsFreedOnce
<1> QED
  BY <1>5, <1>9, <1>10, <1>11, <1>12, <1>13 DEF IInv

LEMMA SortKeeps ==
  ASSUME IInv, NEW h \in Handles, Sort(h)
  PROVE  IInv'
<1>1. PICK p \in [DOMAIN vec[h] -> DOMAIN vec[h]] :
        /\ \A i, j \in DOMAIN p : p[i] = p[j] => i = j
        /\ \A j \in DOMAIN p : \E i \in DOMAIN p : p[i] = j
        /\ vec' = [vec EXCEPT ![h] = [i \in DOMAIN p |-> @[p[i]]]]
  BY DEF Sort
<1> DEFINE t == [i \in DOMAIN p |-> vec[h][p[i]]]
<1>2. /\ h \in live /\ live' = live /\ refcnt' = refcnt /\ cell' = cell
      /\ given' = given /\ freed' = freed /\ live \subseteq Handles
  BY DEF Sort, IInv, TypeOK
<1>3. /\ vec[h] \in Seq(Elts) /\ Len(vec[h]) \in 0..MaxLen /\ DOMAIN vec[h] = 1..Len(vec[h])
      /\ \A j, k \in DOMAIN vec[h] : vec[h][j] = vec[h][k] => j = k
      /\ \A j \in DOMAIN vec[h] : vec[h][j] \in Elts
  BY VecType DEF IInv, Injective
<1>4. DOMAIN t = 1..Len(vec[h]) /\ \A i \in DOMAIN t : p[i] \in DOMAIN vec[h] /\ t[i] = vec[h][p[i]]
  BY <1>3
<1>5. t \in Seq(Elts) /\ Len(t) = Len(vec[h])
  BY <1>3
<1>6. vec' = [vec EXCEPT ![h] = t]
  BY <1>1
<1>7. DOMAIN t = DOMAIN p
  OBVIOUS
<1> HIDE DEF t
<1>8. \A j, k \in DOMAIN t : t[j] = t[k] => j = k
  BY ZenonT(60), <1>1, <1>3, <1>4, <1>7
<1>9. Range(t) = Range(vec[h])
  <2>1. \A x \in Range(t) : x \in Range(vec[h])
    BY <1>4 DEF Range
  <2>2. ASSUME NEW x \in Range(vec[h]) PROVE x \in Range(t)
    <3>1. PICK j \in DOMAIN vec[h] : x = vec[h][j]
      BY DEF Range
    <3>2. PICK i \in DOMAIN p : p[i] = j
      BY <1>1
    <3> QED
      BY <1>4, <1>7, <3>1, <3>2 DEF Range
  <2> QED
    BY <2>1, <2>2
<1>10. Len(t) <= MaxLen
  BY <1>3, <1>5, ConstantsAssumption
<1>11. /\ vec'[h] = t
       /\ \A g \in Handles \ {h} : vec'[g] = vec[g]
       /\ vec' \in [Handles -> Seq(Elts)]
       /\ \A g \in Handles : Len(vec'[g]) <= MaxLen /\ (g \notin live' => vec'[g] = <<>>)
       /\ Injective'
  BY <1>2, <1>5, <1>6, <1>8, <1>10, OneVector
<1>12. \A e \in Elts : Holders(e)' = Holders(e)
  BY <1>9, <1>11 DEF Holders
<1>13. TypeOK'
  BY <1>2, <1>11 DEF IInv, TypeOK
<1>14. RefcntExact'
  BY <1>2, <1>12 DEF IInv, RefcntExact
<1>15. Content' /\ Owned' /\ DictsFreedOnce'
  BY <1>2 DEF IInv, Content, Owned, DictsFreedOnce
<1> QED
  BY <1>11, <1>13, <1>14, <1>15 DEF IInv

\* Every step keeps the inductive invariant.
LEMMA NextIInv == IInv /\ [Next]_vars => IInv'
<1> SUFFICES ASSUME IInv, [Next]_vars PROVE IInv'
  OBVIOUS
<1>1. CASE UNCHANGED vars
  BY <1>1 DEF vars, IInv, TypeOK, Injective, RefcntExact, Holders, Content, Owned, DictsFreedOnce
<1>2. ASSUME NEW h \in Handles, New(h) \/ DelLast(h) \/ Free(h) \/ Sort(h) PROVE IInv'
  BY <1>2, NewKeeps, DelLastKeeps, FreeKeeps, SortKeeps
<1>3. ASSUME NEW h \in Handles, NEW e \in Elts, NEW s \in Strs, Add(h, e, s) PROVE IInv'
  BY <1>3, AddKeeps
<1>4. ASSUME NEW h \in Handles, NEW i \in 1..MaxLen, NEW e \in Elts, NEW s \in Strs, Set(h, i, e, s)
      PROVE  IInv'
  BY <1>4, SetKeeps
<1>5. ASSUME NEW src \in Handles, NEW dst \in Handles, NEW off \in 0..MaxLen, NEW len \in 0..MaxLen,
             Ndup(src, dst, off, len)
      PROVE  IInv'
  BY <1>5, NdupKeeps
<1>6. ASSUME NEW h \in Handles, NEW i \in 1..MaxLen, NEW d \in Dicts \cup {NoDict}, SetAttrs(h, i, d)
      PROVE  IInv'
  BY <1>6, SetAttrsKeeps
<1>7. ASSUME NEW h \in Handles, NEW i \in 1..MaxLen, NEW e \in Elts, NEW d \in Dicts \cup {NoDict},
             SetAttrsCopy(h, i, e, d)
      PROVE  IInv'
  BY <1>7, SetAttrsCopyKeeps
<1>8. ASSUME NEW d \in Dicts, SetAttrsFails(d) PROVE IInv'
  BY <1>8, SetAttrsFailsKeeps
<1> QED
  BY <1>1, <1>2, <1>3, <1>4, <1>5, <1>6, <1>7, <1>8 DEF Next

-----------------------------------------------------------------------------
(***************************************************************************)
(* The theorems.                                                           *)
(***************************************************************************)

\* The inductive invariant holds in every reachable state.
THEOREM Invariance == Spec => []IInv
BY InitIInv, NextIInv, PTL DEF Spec

\* Vectors, elements, counters and dictionaries keep their types, and a vector
\* that was freed points to nothing.
THEOREM TypeCorrect == Spec => []TypeOK
<1>1. IInv => TypeOK
  BY DEF IInv
<1> QED
  BY <1>1, Invariance, PTL

\* elt->refcnt is the number of vectors that point to the element.
THEOREM RefcntCorrect == Spec => []RefcntExact
<1>1. IInv => RefcntExact
  BY DEF IInv
<1> QED
  BY <1>1, Invariance, PTL

\* A dictionary passed to ec_strvec_set_attrs() is in one element in use, or was
\* freed exactly once.
THEOREM AttrsFreedOnce == Spec => []DictsFreedOnce
<1>1. IInv => DictsFreedOnce
  BY DEF IInv
<1> QED
  BY <1>1, Invariance, PTL

-----------------------------------------------------------------------------
(***************************************************************************)
(* Vectors are values: the step of Values that each action implements.     *)
(***************************************************************************)

\* The value of a vector, position by position.
LEMMA ValueType ==
  ASSUME TypeOK, NEW h \in Handles
  PROVE  /\ ValueOf[h] \in Seq(CellType) /\ Len(ValueOf[h]) = Len(vec[h])
         /\ DOMAIN ValueOf[h] = DOMAIN vec[h] /\ DOMAIN vec[h] = 1..Len(vec[h])
         /\ Len(vec[h]) \in Nat
         /\ \A i \in 1..Len(vec[h]) : /\ ValueOf[h][i] = cell[vec[h][i]]
                                      /\ vec[h][i] \in Elts /\ vec[h][i] \in Range(vec[h])
                                      /\ cell[vec[h][i]] \in CellType
<1>1. vec[h] \in Seq(Elts) /\ cell \in [Elts -> CellType]
  BY DEF TypeOK, CellType
<1>2. /\ DOMAIN vec[h] = 1..Len(vec[h]) /\ Len(vec[h]) \in Nat
      /\ \A i \in 1..Len(vec[h]) : vec[h][i] \in Elts
  BY <1>1
<1>3. ValueOf[h] = [i \in 1..Len(vec[h]) |-> cell[vec[h][i]]]
  BY <1>2 DEF ValueOf
<1>4. \A i \in 1..Len(vec[h]) : cell[vec[h][i]] \in CellType /\ vec[h][i] \in Range(vec[h])
  BY <1>1, <1>2 DEF Range
<1>5. ValueOf[h] \in Seq(CellType) /\ Len(ValueOf[h]) = Len(vec[h])
  BY <1>2, <1>3, <1>4
<1> QED
  BY <1>2, <1>3, <1>4, <1>5

\* A step that gives h the value c and changes neither the elements of another
\* vector nor their contents.
LEMMA OneValue ==
  ASSUME TypeOK, TypeOK', NEW h \in Handles, NEW c \in Seq(CellType),
         Len(c) = Len(vec'[h]),
         \A i \in 1..Len(c) : c[i] = cell'[vec'[h][i]],
         \A g \in Handles \ {h} :
           /\ vec'[g] = vec[g]
           /\ \A x \in Range(vec[g]) : cell'[x] = cell[x]
  PROVE  ValueOf' = [ValueOf EXCEPT ![h] = c]
<1>1. \A g \in Handles \ {h} : ValueOf'[g] = ValueOf[g]
  BY DEF ValueOf, Range
<1>2. ValueOf'[h] = c
  <2>1. vec'[h] \in Seq(Elts)
    BY DEF TypeOK
  <2>2. DOMAIN vec'[h] = 1..Len(c) /\ DOMAIN c = 1..Len(c)
    BY <2>1
  <2>3. ValueOf'[h] = [i \in 1..Len(c) |-> cell'[vec'[h][i]]]
    BY <2>2 DEF ValueOf
  <2>4. c = [i \in 1..Len(c) |-> c[i]]
    BY <2>2
  <2> QED
    BY <2>3, <2>4
<1> QED
  BY <1>1, <1>2 DEF ValueOf

\* Elements released by h that another vector has keep their content.
LEMMA OthersKeep ==
  ASSUME IInv, NEW h \in Handles, NEW S \in SUBSET Range(vec[h]),
         NEW g \in Handles \ {h}, NEW x \in Range(vec[g])
  PROVE  CellsAfter(S)[x] = cell[x]
<1>1. x \in Elts
  BY VecType DEF IInv
<1>2. x \notin Dropped(S)
  BY <1>1, HoldersOf DEF IInv, Dropped
<1> QED
  BY <1>1, <1>2 DEF CellsAfter

\* Elements that h keeps have their content kept too.
LEMMA OwnKeep ==
  ASSUME IInv, NEW S, NEW x \in Elts, x \notin S
  PROVE  CellsAfter(S)[x] = cell[x]
BY DEF CellsAfter, Dropped

LEMMA AddValue ==
  ASSUME IInv, IInv', NEW h \in Handles, NEW e \in Elts, NEW s \in Strs, Add(h, e, s)
  PROVE  ValueOf' = [ValueOf EXCEPT ![h] = Append(ValueOf[h], Cell(s, NoDict))]
<1> DEFINE c == Append(ValueOf[h], Cell(s, NoDict))
           n == Len(vec[h])
<1>1. TypeOK /\ TypeOK' /\ vec \in [Handles -> Seq(Elts)] /\ cell \in [Elts -> CellType]
  BY DEF IInv, TypeOK, CellType
<1>2. /\ vec' = [vec EXCEPT ![h] = Append(vec[h], e)]
      /\ cell' = [cell EXCEPT ![e] = Cell(s, NoDict)]
  BY DEF Add
<1>3. \A g \in Handles : e \notin Range(vec[g])
  BY FreshElement DEF Add
<1>4. /\ ValueOf[h] \in Seq(CellType) /\ Len(ValueOf[h]) = n /\ n \in Nat
      /\ vec[h] \in Seq(Elts)
      /\ \A i \in 1..n : /\ ValueOf[h][i] = cell[vec[h][i]]
                         /\ vec[h][i] \in Elts /\ vec[h][i] \in Range(vec[h])
  BY <1>1, ValueType
<1>5. Cell(s, NoDict) \in CellType
  BY DEF Cell, CellType
<1>6. /\ c \in Seq(CellType) /\ Len(c) = n + 1 /\ c[n + 1] = Cell(s, NoDict)
      /\ \A i \in 1..n : c[i] = ValueOf[h][i]
  BY <1>4, <1>5
<1>7. /\ vec'[h] = Append(vec[h], e) /\ Len(vec'[h]) = n + 1 /\ vec'[h][n + 1] = e
      /\ \A i \in 1..n : vec'[h][i] = vec[h][i]
  BY <1>1, <1>2, <1>4
<1>8. cell'[e] = Cell(s, NoDict) /\ \A x \in Elts : x # e => cell'[x] = cell[x]
  BY <1>1, <1>2
<1> HIDE DEF c
<1>9. \A i \in 1..Len(c) : c[i] = cell'[vec'[h][i]]
  BY <1>3, <1>4, <1>6, <1>7, <1>8
<1>10. ASSUME NEW g \in Handles \ {h}
       PROVE  vec'[g] = vec[g] /\ \A x \in Range(vec[g]) : cell'[x] = cell[x]
  <2>1. Range(vec[g]) \subseteq Elts
    BY <1>1, VecType
  <2> QED
    BY <1>1, <1>2, <1>3, <1>8, <2>1
<1>11. Len(c) = Len(vec'[h])
  BY <1>6, <1>7
<1> QED
  BY <1>1, <1>6, <1>9, <1>10, <1>11, OneValue DEF c

LEMMA DelLastValue ==
  ASSUME IInv, IInv', NEW h \in Handles, DelLast(h)
  PROVE  ValueOf' = [ValueOf EXCEPT ![h] = SubSeq(ValueOf[h], 1, Len(ValueOf[h]) - 1)]
<1>1. TypeOK /\ TypeOK' /\ vec \in [Handles -> Seq(Elts)]
  BY DEF IInv, TypeOK
<1>2. /\ vec' = [vec EXCEPT ![h] = SubSeq(vec[h], 1, Len(vec[h]) - 1)]
      /\ cell' = CellsAfter({vec[h][Len(vec[h])]})
      /\ vec[h] # <<>>
  BY DEF DelLast
<1>3. /\ ValueOf[h] \in Seq(CellType) /\ Len(ValueOf[h]) = Len(vec[h]) /\ vec[h] \in Seq(Elts)
      /\ \A i \in 1..Len(vec[h]) : /\ ValueOf[h][i] = cell[vec[h][i]]
                                   /\ vec[h][i] \in Elts /\ vec[h][i] \in Range(vec[h])
  BY <1>1, ValueType
<1>4. PICK n \in Nat : n + 1 = Len(vec[h])
  <2>1. Len(vec[h]) \in Nat \ {0}
    BY <1>2, <1>3, EmptySeq
  <2>2. Len(vec[h]) - 1 \in Nat /\ (Len(vec[h]) - 1) + 1 = Len(vec[h])
    BY <2>1
  <2> QED
    BY <2>2
<1> DEFINE c == SubSeq(ValueOf[h], 1, n)
<1>5. Len(vec[h]) - 1 = n /\ Len(ValueOf[h]) - 1 = n
  BY <1>3, <1>4
<1>6. c \in Seq(CellType) /\ Len(c) = n /\ \A i \in 1..n : c[i] = ValueOf[h][i]
  BY <1>3, <1>4
<1>7. /\ vec'[h] = SubSeq(vec[h], 1, n) /\ Len(vec'[h]) = n
      /\ \A i \in 1..n : vec'[h][i] = vec[h][i]
  <2>1. vec'[h] = SubSeq(vec[h], 1, n)
    BY <1>1, <1>2, <1>5
  <2>2. Len(SubSeq(vec[h], 1, n)) = n /\ \A i \in 1..n : SubSeq(vec[h], 1, n)[i] = vec[h][i]
    BY <1>3, <1>4
  <2> QED
    BY <2>1, <2>2
<1> HIDE DEF c
<1>8. \A i \in 1..Len(c) : c[i] = cell'[vec'[h][i]]
  <2> SUFFICES ASSUME NEW i \in 1..n PROVE cell[vec[h][i]] = cell'[vec[h][i]]
    BY <1>3, <1>4, <1>6, <1>7
  <2>1. i \in DOMAIN vec[h] /\ n + 1 \in DOMAIN vec[h] /\ i # n + 1 /\ vec[h][i] \in Elts
    BY <1>3, <1>4
  <2>2. vec[h][i] # vec[h][n + 1]
    BY <2>1 DEF IInv, Injective
  <2> QED
    BY <1>2, <1>4, <2>1, <2>2, OwnKeep
<1>9. ASSUME NEW g \in Handles \ {h}
      PROVE  vec'[g] = vec[g] /\ \A x \in Range(vec[g]) : cell'[x] = cell[x]
  <2>1. {vec[h][Len(vec[h])]} \in SUBSET Range(vec[h])
    BY <1>3, <1>4
  <2>2. \A x \in Range(vec[g]) : cell'[x] = cell[x]
    BY <1>2, <2>1, OthersKeep
  <2> QED
    BY <1>1, <1>2, <2>2
<1>10. Len(c) = Len(vec'[h])
  BY <1>6, <1>7
<1>11. ValueOf' = [ValueOf EXCEPT ![h] = c]
  BY <1>1, <1>6, <1>8, <1>9, <1>10, OneValue
<1> QED
  BY <1>5, <1>11 DEF c

LEMMA FreeValue ==
  ASSUME IInv, IInv', NEW h \in Handles, Free(h)
  PROVE  ValueOf' = [ValueOf EXCEPT ![h] = <<>>]
<1>1. TypeOK /\ TypeOK' /\ vec \in [Handles -> Seq(Elts)]
  BY DEF IInv, TypeOK
<1>2. vec' = [vec EXCEPT ![h] = <<>>] /\ cell' = CellsAfter(Range(vec[h]))
  BY DEF Free
<1>3. ASSUME NEW g \in Handles \ {h}
      PROVE  vec'[g] = vec[g] /\ \A x \in Range(vec[g]) : cell'[x] = cell[x]
  BY <1>1, <1>2, OthersKeep
<1>4. PICK c \in Seq(CellType) : c = <<>>
  BY EmptySeq
<1>5. vec'[h] = c /\ Len(c) = 0
  BY <1>1, <1>2, <1>4
<1>6. Len(c) = Len(vec'[h]) /\ \A i \in 1..Len(c) : c[i] = cell'[vec'[h][i]]
  BY <1>5
<1>7. ValueOf' = [ValueOf EXCEPT ![h] = c]
  BY <1>1, <1>3, <1>6, OneValue
<1> QED
  BY <1>4, <1>7

\* ec_strvec_set(), and ec_strvec_set_attrs() on a shared element: C is what the
\* new element holds.
LEMMA ReplaceValue ==
  ASSUME IInv, IInv', NEW h \in Handles, NEW i, NEW e \in Elts, Replaces(h, i, e),
         NEW C \in CellType, cell'[e] = C,
         \A x \in Elts : x # e /\ x # vec[h][i] => cell'[x] = cell[x],
         \A g \in Handles \ {h} : \A x \in Range(vec[g]) : x # e => cell'[x] = cell[x]
  PROVE  ValueOf' = [ValueOf EXCEPT ![h] = [ValueOf[h] EXCEPT ![i] = C]]
<1> DEFINE c == [ValueOf[h] EXCEPT ![i] = C]
           n == Len(vec[h])
<1>1. TypeOK /\ TypeOK'
  BY DEF IInv
<1>2. Replaced(h, i, e) /\ i \in DOMAIN vec[h] /\ Fresh(e)
  BY Replace DEF Replaces
<1>3. \A g \in Handles : e \notin Range(vec[g])
  BY <1>2, FreshElement
<1>4. /\ ValueOf[h] \in Seq(CellType) /\ Len(ValueOf[h]) = n /\ vec[h] \in Seq(Elts)
      /\ DOMAIN ValueOf[h] = 1..n /\ DOMAIN vec[h] = 1..n
      /\ \A j \in 1..n : /\ ValueOf[h][j] = cell[vec[h][j]]
                         /\ vec[h][j] \in Elts /\ vec[h][j] \in Range(vec[h])
  BY <1>1, ValueType DEF TypeOK
<1>5. c \in Seq(CellType) /\ Len(c) = n /\ \A j \in 1..n : c[j] = IF j = i THEN C ELSE ValueOf[h][j]
  <2>1. i \in 1..Len(ValueOf[h]) /\ ValueOf[h] \in Seq(CellType)
    BY <1>2, <1>4
  <2> QED
    BY <1>4, <2>1, ExceptSeq
<1>6. vec'[h] = [vec[h] EXCEPT ![i] = e] /\ \A g \in Handles \ {h} : vec'[g] = vec[g]
  BY <1>2 DEF Replaced
<1>7. Len(vec'[h]) = n /\ \A j \in 1..n : vec'[h][j] = IF j = i THEN e ELSE vec[h][j]
  BY <1>4, <1>6
<1> HIDE DEF c
<1>8. ASSUME NEW j \in 1..n PROVE c[j] = cell'[vec'[h][j]]
  <2>1. CASE j = i
    BY <1>5, <1>7, <2>1
  <2>2. CASE j # i
    <3>1. vec[h][j] # vec[h][i] /\ vec[h][j] # e
      BY <1>2, <1>3, <1>4, <2>2 DEF IInv, Injective
    <3> QED
      BY <1>4, <1>5, <1>7, <2>2, <3>1
  <2> QED
    BY <2>1, <2>2
<1>9. ASSUME NEW g \in Handles \ {h}
      PROVE  vec'[g] = vec[g] /\ \A x \in Range(vec[g]) : cell'[x] = cell[x]
  BY <1>3, <1>6
<1>10. Len(c) = Len(vec'[h]) /\ \A j \in 1..Len(c) : c[j] = cell'[vec'[h][j]]
  BY <1>5, <1>7, <1>8
<1>11. ValueOf' = [ValueOf EXCEPT ![h] = c]
  BY <1>1, <1>5, <1>9, <1>10, OneValue
<1> QED
  BY <1>11 DEF c

LEMMA SetValue ==
  ASSUME IInv, IInv', NEW h \in Handles, NEW i, NEW e \in Elts, NEW s \in Strs, Set(h, i, e, s)
  PROVE  ValueOf' = [ValueOf EXCEPT ![h] = [ValueOf[h] EXCEPT ![i] = Cell(s, NoDict)]]
<1>1. Replaces(h, i, e)
  BY DEF Replaces, Set
<1>2. vec[h][i] \in Range(vec[h]) /\ vec[h][i] \in Elts
  BY VecType DEF IInv, Set
<1>3. cell' = [CellsAfter({vec[h][i]}) EXCEPT ![e] = Cell(s, NoDict)]
  BY DEF Set
<1>4. /\ cell'[e] = Cell(s, NoDict)
      /\ \A x : x \in Elts /\ x # e => cell'[x] = CellsAfter({vec[h][i]})[x]
  BY <1>3 DEF CellsAfter
<1>5. \A x \in Elts : x # e /\ x # vec[h][i] => cell'[x] = cell[x]
  BY <1>4, OwnKeep
<1>6. ASSUME NEW g \in Handles \ {h}, NEW x \in Range(vec[g]), x # e PROVE cell'[x] = cell[x]
  <2>1. x \in Elts /\ {vec[h][i]} \in SUBSET Range(vec[h])
    BY <1>2, VecType DEF IInv
  <2> QED
    BY <1>4, <1>6, <2>1, OthersKeep
<1>7. PICK C \in CellType : C = Cell(s, NoDict)
  BY DEF Cell, CellType
<1>8. ValueOf' = [ValueOf EXCEPT ![h] = [ValueOf[h] EXCEPT ![i] = C]]
  BY <1>1, <1>4, <1>5, <1>6, <1>7, ReplaceValue
<1> QED
  BY <1>7, <1>8

LEMMA SetAttrsCopyValue ==
  ASSUME IInv, IInv', NEW h \in Handles, NEW i, NEW e \in Elts, NEW d \in Dicts \cup {NoDict},
         SetAttrsCopy(h, i, e, d)
  PROVE  ValueOf' = [ValueOf EXCEPT ![h] = [ValueOf[h] EXCEPT ![i] = Cell(ValueOf[h][i].str, d)]]
<1>1. Replaces(h, i, e)
  BY DEF Replaces, SetAttrsCopy
<1>2. vec[h][i] \in Elts /\ cell \in [Elts -> CellType] /\ ValueOf[h][i] = cell[vec[h][i]]
  BY ValueType DEF IInv, TypeOK, CellType, SetAttrsCopy
<1>3. cell' = [cell EXCEPT ![e] = Cell(cell[vec[h][i]].str, d)]
  BY DEF SetAttrsCopy
<1>4. PICK C \in CellType : C = Cell(cell[vec[h][i]].str, d)
  BY <1>2 DEF Cell, CellType
<1>5. cell'[e] = C /\ \A x : x \in Elts /\ x # e => cell'[x] = cell[x]
  BY <1>2, <1>3, <1>4
<1>6. ASSUME NEW g \in Handles \ {h}, NEW x \in Range(vec[g]), x # e PROVE cell'[x] = cell[x]
  <2>1. x \in Elts
    BY VecType DEF IInv
  <2> QED
    BY <1>5, <1>6, <2>1
<1>7. ValueOf' = [ValueOf EXCEPT ![h] = [ValueOf[h] EXCEPT ![i] = C]]
  BY <1>1, <1>5, <1>6, ReplaceValue
<1> QED
  BY <1>2, <1>4, <1>7

LEMMA SetAttrsValue ==
  ASSUME IInv, IInv', NEW h \in Handles, NEW i, NEW d \in Dicts \cup {NoDict}, SetAttrs(h, i, d)
  PROVE  ValueOf' = [ValueOf EXCEPT ![h] = [ValueOf[h] EXCEPT ![i] = Cell(ValueOf[h][i].str, d)]]
<1> DEFINE n == Len(vec[h])
           elt == vec[h][i]
<1>1. /\ TypeOK /\ TypeOK' /\ cell \in [Elts -> CellType]
      /\ i \in DOMAIN vec[h] /\ vec' = vec /\ ~(refcnt[elt] > 1)
      /\ cell' = [cell EXCEPT ![elt] = Cell(cell[elt].str, d)]
  BY DEF IInv, TypeOK, CellType, SetAttrs, Shared
<1>2. /\ ValueOf[h] \in Seq(CellType) /\ Len(ValueOf[h]) = n /\ vec[h] \in Seq(Elts)
      /\ DOMAIN ValueOf[h] = 1..n /\ DOMAIN vec[h] = 1..n
      /\ \A j \in 1..n : /\ ValueOf[h][j] = cell[vec[h][j]]
                         /\ vec[h][j] \in Elts /\ vec[h][j] \in Range(vec[h])
  BY <1>1, ValueType DEF TypeOK
<1>3. elt \in Elts /\ elt \in Range(vec[h]) /\ ValueOf[h][i] = cell[elt]
  BY <1>1, <1>2
<1>4. PICK C \in CellType : C = Cell(cell[elt].str, d)
  BY <1>1, <1>3 DEF Cell, CellType
<1>5. \A x \in Elts : cell'[x] = IF x = elt THEN C ELSE cell[x]
  BY <1>1, <1>4
<1> DEFINE c == [ValueOf[h] EXCEPT ![i] = C]
<1>6. c \in Seq(CellType) /\ Len(c) = n /\ \A j \in 1..n : c[j] = IF j = i THEN C ELSE ValueOf[h][j]
  <2>1. i \in 1..Len(ValueOf[h]) /\ ValueOf[h] \in Seq(CellType)
    BY <1>1, <1>2
  <2> QED
    BY <1>2, <2>1, ExceptSeq
<1> HIDE DEF c
<1>7. \A j \in 1..n : c[j] = cell'[vec[h][j]]
  <2>1. \A j \in 1..n : j # i => vec[h][j] # elt
    BY <1>1, <1>2 DEF IInv, Injective
  <2> QED
    BY <1>2, <1>5, <1>6, <2>1
<1>8. ASSUME NEW g \in Handles \ {h}
      PROVE  vec'[g] = vec[g] /\ \A x \in Range(vec[g]) : cell'[x] = cell[x]
  <2>1. Range(vec[g]) \subseteq Elts
    BY <1>1, VecType
  <2>2. refcnt[elt] = 1
    <3>1. refcnt[elt] \in Nat /\ refcnt[elt] # 0
      BY <1>3, HoldersOf DEF IInv
    <3> QED
      BY <1>1, <3>1
  <2>3. elt \notin Range(vec[g])
    BY <1>3, <2>2, HoldersOf DEF IInv
  <2> QED
    BY <1>1, <1>5, <2>1, <2>3
<1>9. Len(c) = Len(vec'[h]) /\ \A j \in 1..Len(c) : c[j] = cell'[vec'[h][j]]
  BY <1>1, <1>6, <1>7
<1>10. ValueOf' = [ValueOf EXCEPT ![h] = c]
  BY <1>1, <1>6, <1>8, <1>9, OneValue
<1> QED
  BY <1>3, <1>4, <1>10 DEF c

LEMMA NdupValue ==
  ASSUME IInv, IInv', NEW src \in Handles, NEW dst \in Handles,
         NEW off \in 0..MaxLen, NEW len \in 0..MaxLen, Ndup(src, dst, off, len)
  PROVE  ValueOf' = [ValueOf EXCEPT ![dst] = SubSeq(ValueOf[src], off + 1, off + len)]
<1> DEFINE n == Len(vec[src])
           c == SubSeq(ValueOf[src], off + 1, off + len)
<1>1. /\ TypeOK /\ TypeOK' /\ vec \in [Handles -> Seq(Elts)]
      /\ vec' = [vec EXCEPT ![dst] = SubSeq(vec[src], off + 1, off + len)] /\ cell' = cell
      /\ off \in Nat /\ len \in Nat
  BY ConstantsAssumption DEF IInv, TypeOK, Ndup
<1>2. /\ ValueOf[src] \in Seq(CellType) /\ Len(ValueOf[src]) = n /\ vec[src] \in Seq(Elts)
      /\ n \in Nat
      /\ \A j \in 1..n : ValueOf[src][j] = cell[vec[src][j]]
  BY <1>1, ValueType DEF TypeOK
<1>3. off + len <= n /\ off \in Nat /\ len \in Nat
  BY <1>1 DEF Ndup
<1>4. c \in Seq(CellType) /\ Len(c) = len /\ \A j \in 1..len : c[j] = ValueOf[src][off + j]
  BY <1>2, <1>3
<1>5. /\ Len(SubSeq(vec[src], off + 1, off + len)) = len
      /\ \A j \in 1..len : SubSeq(vec[src], off + 1, off + len)[j] = vec[src][off + j]
  BY <1>2, <1>3
<1>6. vec'[dst] = SubSeq(vec[src], off + 1, off + len) /\ \A g \in Handles \ {dst} : vec'[g] = vec[g]
  BY <1>1
<1> HIDE DEF c
<1>7. Len(c) = Len(vec'[dst]) /\ \A j \in 1..Len(c) : c[j] = cell'[vec'[dst][j]]
  <2>1. \A j \in 1..len : off + j \in 1..n
    BY <1>2, <1>3
  <2>2. cell' = cell
    BY <1>1
  <2> QED
    BY SMTT(40), <1>2, <1>4, <1>5, <1>6, <2>1, <2>2
<1>8. ValueOf' = [ValueOf EXCEPT ![dst] = c]
  BY <1>1, <1>4, <1>6, <1>7, OneValue
<1> QED
  BY <1>8 DEF c

LEMMA SortValue ==
  ASSUME IInv, IInv', NEW h \in Handles, Sort(h)
  PROVE  Values!Sort(h)
<1> DEFINE n == Len(vec[h])
<1>1. /\ TypeOK /\ TypeOK' /\ vec \in [Handles -> Seq(Elts)] /\ cell' = cell
  BY DEF IInv, TypeOK, Sort
<1>2. /\ ValueOf[h] \in Seq(CellType) /\ Len(ValueOf[h]) = n /\ vec[h] \in Seq(Elts)
      /\ n \in Nat /\ DOMAIN ValueOf[h] = 1..n /\ DOMAIN vec[h] = 1..n
      /\ \A j \in 1..n : ValueOf[h][j] = cell[vec[h][j]] /\ ValueOf[h][j] \in CellType
  BY <1>1, ValueType DEF TypeOK
<1>3. PICK p \in [1..n -> 1..n] :
        /\ \A i, j \in DOMAIN p : p[i] = p[j] => i = j
        /\ \A j \in DOMAIN p : \E i \in DOMAIN p : p[i] = j
        /\ \A i, j \in DOMAIN p : i < j => cell[vec[h][p[i]]].str <= cell[vec[h][p[j]]].str
        /\ vec' = [vec EXCEPT ![h] = [i \in DOMAIN p |-> vec[h][p[i]]]]
  BY <1>2 DEF Sort
<1> DEFINE c == [i \in DOMAIN ValueOf[h] |-> ValueOf[h][p[i]]]
<1>4. DOMAIN p = 1..n /\ \A i \in 1..n : p[i] \in 1..n
  OBVIOUS
<1>5. c = [i \in 1..n |-> ValueOf[h][p[i]]]
  BY <1>2
<1>6. c \in Seq(CellType) /\ Len(c) = n /\ \A i \in 1..n : c[i] = ValueOf[h][p[i]]
  BY <1>2, <1>4, <1>5
<1>7. /\ vec'[h] = [i \in 1..n |-> vec[h][p[i]]] /\ \A g \in Handles \ {h} : vec'[g] = vec[g]
  BY <1>1, <1>3, <1>4
<1>8. Len(vec'[h]) = n /\ \A i \in 1..n : vec'[h][i] = vec[h][p[i]]
  BY <1>2, <1>7
<1>9. DOMAIN c = 1..n
  BY <1>5
<1> HIDE DEF c
<1>10. \A i \in 1..n : c[i] = cell[vec[h][p[i]]]
  BY <1>2, <1>4, <1>6
<1>11. Values!Sorted(c)
  <2>1. \A i, j \in 1..n : i < j => cell[vec[h][p[i]]].str <= cell[vec[h][p[j]]].str
    BY <1>3, <1>4
  <2> QED
    BY <1>9, <1>10, <2>1 DEF Values!Sorted
<1>12. Len(c) = Len(vec'[h]) /\ \A i \in 1..Len(c) : c[i] = cell'[vec'[h][i]]
  BY <1>1, <1>6, <1>8, <1>10
<1>13. ValueOf' = [ValueOf EXCEPT ![h] = c]
  BY <1>1, <1>6, <1>7, <1>12, OneValue
<1>14. Values!Becomes(h, c)
  BY <1>13 DEF Values!Becomes, Sort
<1>15. /\ p \in [DOMAIN ValueOf[h] -> DOMAIN ValueOf[h]]
       /\ \A i, j \in DOMAIN p : p[i] = p[j] => i = j
       /\ \A j \in DOMAIN p : \E i \in DOMAIN p : p[i] = j
  BY <1>2, <1>3
<1> QED
  BY <1>11, <1>14, <1>15 DEF c, Values!Sort

\* The initial vectors are the initial values.
LEMMA InitValues == Init => Values!Init
BY DEF Init, Values!Init, ValueOf

\* Every step of the vectors is a step of the values, or changes none.
LEMMA NextValues == IInv /\ IInv' /\ [Next]_vars => [Values!Next]_(Values!valueVars)
<1> SUFFICES ASSUME IInv, IInv', [Next]_vars PROVE Values!Next \/ UNCHANGED Values!valueVars
  OBVIOUS
<1>1. CASE UNCHANGED vars
  BY <1>1 DEF vars, Values!valueVars, ValueOf
<1>2. ASSUME NEW h \in Handles, New(h) PROVE Values!Next
  <2>1. Values!Create(h)
    BY <1>2 DEF New, Values!Create, ValueOf
  <2> QED
    BY <2>1 DEF Values!Next
<1>3. ASSUME NEW h \in Handles, DelLast(h) PROVE Values!Next
  <2>1. Values!Pop(h)
    BY <1>3, DelLastValue DEF DelLast, Values!Pop, Values!Becomes
  <2>2. h \in live
    BY <1>3 DEF DelLast
  <2> QED
    BY <2>1, <2>2 DEF Values!Next
<1>4. ASSUME NEW h \in Handles, Free(h) PROVE Values!Next
  <2>1. Values!Destroy(h)
    BY <1>4, FreeValue DEF Free, Values!Destroy
  <2>2. h \in live
    BY <1>4 DEF Free
  <2> QED
    BY <2>1, <2>2 DEF Values!Next
<1>5. ASSUME NEW h \in Handles, Sort(h) PROVE Values!Next
  <2>1. live' = live /\ h \in live
    BY <1>5 DEF Sort
  <2>2. Values!Sort(h)
    BY <1>5, SortValue
  <2> QED
    BY <2>1, <2>2 DEF Values!Next
<1>6. ASSUME NEW h \in Handles, NEW e \in Elts, NEW s \in Strs, Add(h, e, s) PROVE Values!Next
  <2>1. live' = live /\ h \in live
    BY <1>6 DEF Add
  <2>2. Values!Push(h, s)
    BY <1>6, <2>1, AddValue DEF Values!Push, Values!Becomes, Values!Cell, Cell
  <2> QED
    BY <2>1, <2>2 DEF Values!Next
<1>7. \A h \in Handles : DOMAIN ValueOf[h] = DOMAIN vec[h]
  BY DEF ValueOf
<1>8. ASSUME NEW h \in Handles, NEW i \in 1..MaxLen, NEW e \in Elts, NEW s \in Strs, Set(h, i, e, s)
      PROVE  Values!Next
  <2>1. live' = live /\ h \in live /\ i \in DOMAIN ValueOf[h]
    BY <1>7, <1>8 DEF Set
  <2>2. Values!Put(h, i, s)
    BY <1>8, <2>1, SetValue DEF Values!Put, Values!Becomes, Values!Cell, Cell
  <2> QED
    BY <2>1, <2>2 DEF Values!Next
<1>9. ASSUME NEW h \in Handles, NEW i \in 1..MaxLen, NEW d \in Dicts \cup {NoDict}, SetAttrs(h, i, d)
      PROVE  Values!Next
  <2>1. live' = live /\ h \in live /\ i \in DOMAIN ValueOf[h]
    BY <1>7, <1>9 DEF SetAttrs
  <2>2. Values!Annotate(h, i, d)
    BY <1>9, <2>1, SetAttrsValue DEF Values!Annotate, Values!Becomes, Values!Cell, Cell
  <2> QED
    BY <2>1, <2>2 DEF Values!Next
<1>10. ASSUME NEW h \in Handles, NEW i \in 1..MaxLen, NEW e \in Elts, NEW d \in Dicts \cup {NoDict},
              SetAttrsCopy(h, i, e, d)
       PROVE  Values!Next
  <2>1. live' = live /\ h \in live /\ i \in DOMAIN ValueOf[h]
    BY <1>7, <1>10 DEF SetAttrsCopy
  <2>2. Values!Annotate(h, i, d)
    BY <1>10, <2>1, SetAttrsCopyValue DEF Values!Annotate, Values!Becomes, Values!Cell, Cell
  <2> QED
    BY <2>1, <2>2 DEF Values!Next
<1>11. ASSUME NEW src \in Handles, NEW dst \in Handles, NEW off \in 0..MaxLen, NEW len \in 0..MaxLen,
              Ndup(src, dst, off, len)
       PROVE  Values!Next
  <2>1. src \in live /\ dst \notin live /\ live' = live \cup {dst} /\ off + len <= Len(vec[src])
    BY <1>11 DEF Ndup
  <2>2. Values!Slice(src, dst, off, len)
    BY <1>11, <2>1, NdupValue DEF Values!Slice
  <2>3. Len(ValueOf[src]) = Len(vec[src]) /\ Len(vec[src]) \in Nat /\ off \in Nat /\ len \in Nat
    BY ValueType, ConstantsAssumption DEF IInv
  <2>4. /\ off \in 0..Len(ValueOf[src]) /\ len \in 0..Len(ValueOf[src])
        /\ off + len <= Len(ValueOf[src])
    BY <2>1, <2>3
  <2> QED
    BY <2>1, <2>2, <2>4 DEF Values!Next
<1>12. ASSUME NEW d \in Dicts, SetAttrsFails(d) PROVE UNCHANGED Values!valueVars
  BY <1>12 DEF SetAttrsFails, Values!valueVars, ValueOf
<1> QED
  BY <1>1, <1>2, <1>3, <1>4, <1>5, <1>6, <1>8, <1>9, <1>10, <1>11, <1>12 DEF Next

\* Vectors behave as independent values: a call changes the vector it is given
\* and no other, although copies share their elements.
THEOREM Refinement == Spec => VectorsAreValues
BY InitValues, NextValues, Invariance, PTL DEF Spec, VectorsAreValues, Values!Spec
=============================================================================
