------------------------------- MODULE Strvec -------------------------------
(***************************************************************************)
(* String vectors (src/strvec.c): vectors of pointers to elements that a   *)
(* vector shares with the copies made of it.  An element is counted by the *)
(* vectors that point to it and must not be modified while it is shared:   *)
(* ec_strvec_set_attrs() gives the vector an element of its own first.     *)
(*                                                                         *)
(* A dictionary of attributes belongs to the element it is given to, which *)
(* frees it.  The caller passes one at a time and a new one each time: a   *)
(* dictionary that was freed stands for a new one.                         *)
(*                                                                         *)
(* A call that refuses its arguments or lacks memory changes nothing, but  *)
(* for ec_strvec_set_attrs(): it is a stuttering step (the array that a    *)
(* failing ec_strvec_add() enlarged is no longer for its user).            *)
(***************************************************************************)
EXTENDS Integers, Sequences, FiniteSets, Functions

CONSTANTS Handles,  \* names of vectors
          Elts,     \* memory for elements
          Strs,     \* the strings, as numbers: strcmp() is <=
          NoStr,    \* content of free memory
          Dicts,    \* dictionaries of attributes
          NoDict,   \* NULL
          MaxLen    \* bound: length of a vector

ASSUME ConstantsAssumption ==
  /\ IsFiniteSet(Handles)
  /\ Strs \subseteq Int
  /\ NoStr \notin Strs
  /\ NoDict \notin Dicts
  /\ MaxLen \in Nat

VARIABLES live,    \* vectors that exist
          vec,     \* strvec->vec: the elements of each vector
          refcnt,  \* elt->refcnt, 0 for free memory
          cell,    \* elt->str and elt->attrs
          given,   \* dictionaries passed to ec_strvec_set_attrs()
          freed    \* how often ec_dict_free() ran on each since it was passed

vars == <<live, vec, refcnt, cell, given, freed>>

Cell(s, d) == [str |-> s, attrs |-> d]
Blank == Cell(NoStr, NoDict)

Available(d) == d \in given => freed[d] > 0

\* __ec_strvec_elt(): memory for a new element
Fresh(e) == refcnt[e] = 0

\* __ec_strvec_elt_free() on each element of S
Dropped(S) == {e \in S : refcnt[e] = 1}

RefsAfter(S) == [e \in Elts |-> IF e \in S THEN refcnt[e] - 1 ELSE refcnt[e]]
CellsAfter(S) == [e \in Elts |-> IF e \in Dropped(S) THEN Blank ELSE cell[e]]
FreedAfter(S) ==
  [d \in Dicts |-> IF \E e \in Dropped(S) : cell[e].attrs = d THEN freed[d] + 1 ELSE freed[d]]

-----------------------------------------------------------------------------
Init ==
  /\ live = {}
  /\ vec = [h \in Handles |-> <<>>]
  /\ refcnt = [e \in Elts |-> 0]
  /\ cell = [e \in Elts |-> Blank]
  /\ given = {}
  /\ freed = [d \in Dicts |-> 0]

\* ec_strvec()
New(h) ==
  /\ h \notin live
  /\ live' = live \cup {h}
  /\ UNCHANGED <<vec, refcnt, cell, given, freed>>

\* ec_strvec_add()
Add(h, e, s) ==
  /\ h \in live /\ Fresh(e) /\ Len(vec[h]) < MaxLen
  /\ vec' = [vec EXCEPT ![h] = Append(@, e)]
  /\ refcnt' = [refcnt EXCEPT ![e] = 1]
  /\ cell' = [cell EXCEPT ![e] = Cell(s, NoDict)]
  /\ UNCHANGED <<live, given, freed>>

\* mutant: the element that is replaced keeps its reference
SetKeepsRef(h, i, e, s) ==
  /\ h \in live /\ i \in DOMAIN vec[h] /\ Fresh(e)
  /\ vec' = [vec EXCEPT ![h][i] = e]
  /\ refcnt' = [refcnt EXCEPT ![e] = 1]
  /\ cell' = [cell EXCEPT ![e] = Cell(s, NoDict)]
  /\ UNCHANGED <<live, given, freed>>

\* ec_strvec_set(): the new element is made before the old one is released
Set(h, i, e, s) ==
  /\ h \in live /\ i \in DOMAIN vec[h] /\ Fresh(e)
  /\ vec' = [vec EXCEPT ![h][i] = e]
  /\ refcnt' = [RefsAfter({vec[h][i]}) EXCEPT ![e] = 1]
  /\ cell' = [CellsAfter({vec[h][i]}) EXCEPT ![e] = Cell(s, NoDict)]
  /\ freed' = FreedAfter({vec[h][i]})
  /\ UNCHANGED <<live, given>>

\* ec_strvec_del_last()
DelLast(h) ==
  /\ h \in live /\ vec[h] # <<>>
  /\ LET last == {vec[h][Len(vec[h])]}
     IN  /\ refcnt' = RefsAfter(last)
         /\ cell' = CellsAfter(last)
         /\ freed' = FreedAfter(last)
  /\ vec' = [vec EXCEPT ![h] = SubSeq(@, 1, Len(@) - 1)]
  /\ UNCHANGED <<live, given>>

\* mutant: only the first element of the part is counted
RefsPlusFirst(s) == [e \in Elts |-> IF s # <<>> /\ e = s[1] THEN refcnt[e] + 1 ELSE refcnt[e]]

\* each element copied is referenced once more
RefsPlus(s) == [e \in Elts |-> IF e \in Range(s) THEN refcnt[e] + 1 ELSE refcnt[e]]

\* ec_strvec_ndup(), ec_strvec_dup()
Ndup(src, dst, off, len) ==
  /\ src \in live /\ dst \notin live /\ off + len <= Len(vec[src])
  /\ LET part == SubSeq(vec[src], off + 1, off + len)
     IN  /\ vec' = [vec EXCEPT ![dst] = part]
         /\ refcnt' = RefsPlus(part)
  /\ live' = live \cup {dst}
  /\ UNCHANGED <<cell, given, freed>>

\* ec_strvec_free()
Free(h) ==
  /\ h \in live
  /\ live' = live \ {h}
  /\ vec' = [vec EXCEPT ![h] = <<>>]
  /\ refcnt' = RefsAfter(Range(vec[h]))
  /\ cell' = CellsAfter(Range(vec[h]))
  /\ freed' = FreedAfter(Range(vec[h]))
  /\ UNCHANGED given

\* mutant: shared elements are written to
SharedNever(e) == FALSE

Shared(e) == refcnt[e] > 1

\* the counters of the dictionaries when d is passed
Passed(d, fr) == [x \in Dicts |-> IF x = d THEN 0 ELSE fr[x]]

\* mutant: the dictionary that is replaced is forgotten
SetAttrsLeaks(h, i, d) ==
  /\ h \in live /\ i \in DOMAIN vec[h] /\ Available(d)
  /\ ~Shared(vec[h][i])
  /\ cell' = [cell EXCEPT ![vec[h][i]] = Cell(@.str, d)]
  /\ freed' = Passed(d, freed)
  /\ given' = (given \cup {d}) \ {NoDict}
  /\ UNCHANGED <<live, vec, refcnt>>

\* ec_strvec_set_attrs() on an element of this vector only: its dictionary is
\* freed and replaced
SetAttrs(h, i, d) ==
  /\ h \in live /\ i \in DOMAIN vec[h] /\ Available(d)
  /\ ~Shared(vec[h][i])
  /\ cell' = [cell EXCEPT ![vec[h][i]] = Cell(@.str, d)]
  /\ freed' = Passed(d, [x \in Dicts |->
                IF x = cell[vec[h][i]].attrs THEN freed[x] + 1 ELSE freed[x]])
  /\ given' = (given \cup {d}) \ {NoDict}
  /\ UNCHANGED <<live, vec, refcnt>>

\* ec_strvec_set_attrs() on a shared element: ec_strvec_set() puts a copy in its
\* place, which has no attributes
SetAttrsCopy(h, i, e, d) ==
  /\ h \in live /\ i \in DOMAIN vec[h] /\ Available(d)
  /\ Shared(vec[h][i]) /\ Fresh(e)
  /\ vec' = [vec EXCEPT ![h][i] = e]
  /\ refcnt' = [RefsAfter({vec[h][i]}) EXCEPT ![e] = 1]
  /\ cell' = [cell EXCEPT ![e] = Cell(cell[vec[h][i]].str, d)]
  /\ freed' = Passed(d, freed)
  /\ given' = (given \cup {d}) \ {NoDict}
  /\ UNCHANGED live

\* ec_strvec_set_attrs() refuses its arguments, or cannot copy a shared element:
\* the dictionary is freed
SetAttrsFails(d) ==
  /\ Available(d)
  /\ freed' = [freed EXCEPT ![d] = 1]
  /\ given' = given \cup {d}
  /\ UNCHANGED <<live, vec, refcnt, cell>>

\* ec_strvec_sort() with strcmp(): qsort_r() leaves equal strings in any order
Sort(h) ==
  /\ h \in live
  /\ \E p \in [DOMAIN vec[h] -> DOMAIN vec[h]] :
       /\ \A i, j \in DOMAIN p : p[i] = p[j] => i = j
       /\ \A j \in DOMAIN p : \E i \in DOMAIN p : p[i] = j
       /\ \A i, j \in DOMAIN p : i < j => cell[vec[h][p[i]]].str <= cell[vec[h][p[j]]].str
       /\ vec' = [vec EXCEPT ![h] = [i \in DOMAIN p |-> @[p[i]]]]
  /\ UNCHANGED <<live, refcnt, cell, given, freed>>

Next ==
  \/ \E h \in Handles : New(h) \/ DelLast(h) \/ Free(h) \/ Sort(h)
  \/ \E h \in Handles, e \in Elts, s \in Strs : Add(h, e, s)
  \/ \E h \in Handles, i \in 1..MaxLen, e \in Elts, s \in Strs : Set(h, i, e, s)
  \/ \E src, dst \in Handles, off, len \in 0..MaxLen : Ndup(src, dst, off, len)
  \/ \E h \in Handles, i \in 1..MaxLen, d \in Dicts \cup {NoDict} : SetAttrs(h, i, d)
  \/ \E h \in Handles, i \in 1..MaxLen, e \in Elts, d \in Dicts \cup {NoDict} :
       SetAttrsCopy(h, i, e, d)
  \/ \E d \in Dicts : SetAttrsFails(d)

Spec == Init /\ [][Next]_vars

-----------------------------------------------------------------------------
\* Properties

Holders(e) == {h \in Handles : e \in Range(vec[h])}

\* Type correctness.
TypeOK ==
  /\ live \subseteq Handles
  /\ vec \in [Handles -> Seq(Elts)]
  /\ \A h \in Handles : Len(vec[h]) <= MaxLen /\ (h \notin live => vec[h] = <<>>)
  /\ refcnt \in [Elts -> Nat]
  /\ cell \in [Elts -> [str : Strs \cup {NoStr}, attrs : Dicts \cup {NoDict}]]
  /\ given \subseteq Dicts
  /\ freed \in [Dicts -> Nat]

\* refcnt is the number of vectors that point to the element: no element is freed
\* while a vector uses it, and none is lost.
RefcntExact == \A e \in Elts : refcnt[e] = Cardinality(Holders(e))

\* A dictionary passed to ec_strvec_set_attrs() has one owner, an element in use,
\* or was freed exactly once, on every path.
DictsFreedOnce ==
  \A d \in given :
    \/ freed[d] = 1 /\ \A e \in Elts : cell[e].attrs # d
    \/ freed[d] = 0 /\ \E e \in Elts : /\ refcnt[e] > 0 /\ cell[e].attrs = d
                                      /\ \A x \in Elts : cell[x].attrs = d => x = e

\* what a user of the vectors sees
ValueOf == [h \in Handles |-> [i \in DOMAIN vec[h] |-> cell[vec[h][i]]]]

Values == INSTANCE VectorValues WITH content <- ValueOf

\* Vectors are independent values although they share elements: a call changes
\* no other vector than the one it is given.
VectorsAreValues == Values!Spec
=============================================================================
