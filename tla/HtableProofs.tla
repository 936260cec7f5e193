---------------------------- MODULE HtableProofs ----------------------------
(***************************************************************************)
(* Proofs about the hash table of src/htable.c, for every set of keys,     *)
(* values and handles, every hash function and every growth factor.        *)
(*                                                                         *)
(* First the operations on one table as a value (Unlink, Resize, Link,     *)
(* Insert) are shown to keep it well formed, then the elements' counters   *)
(* are related to the tables that list them, then each action is shown to  *)
(* keep the inductive invariant IInv.                                      *)
(***************************************************************************)
EXTENDS Htable, TLAPS, SequenceTheorems, FiniteSetTheorems

\* The low bits of a hash index the array of chains.
LEMMA IdxInArray ==
  ASSUME NEW k \in Keys, NEW n \in Nat \ {0}
  PROVE  Idx(k, n) \in 0..(n - 1)
BY HashAssumption DEF Idx

\* TAILQ_REMOVE on the list: what is left, position by position.
LEMMA RemoveAtProps ==
  ASSUME NEW S, NEW s \in Seq(S), NEW i \in 1..Len(s)
  PROVE  /\ SE!RemoveAt(s, i) \in Seq(S)
         /\ Len(SE!RemoveAt(s, i)) = Len(s) - 1
         /\ \A j \in 1..(Len(s) - 1) :
              SE!RemoveAt(s, i)[j] = IF j < i THEN s[j] ELSE s[j + 1]
<1> DEFINE a == SubSeq(s, 1, i - 1)
           b == SubSeq(s, i + 1, Len(s))
<1>1. a \in Seq(S) /\ Len(a) = i - 1 /\ \A j \in 1..(i - 1) : a[j] = s[j]
  OBVIOUS
<1>2. /\ b \in Seq(S)
      /\ Len(b) = Len(s) - i
      /\ \A j \in 1..(Len(s) - i) : b[j] = s[i + j]
  OBVIOUS
<1> HIDE DEF a, b
<1>3. /\ a \o b \in Seq(S)
      /\ Len(a \o b) = Len(s) - 1
      /\ \A j \in 1..(Len(s) - 1) :
           (a \o b)[j] = IF j < i THEN s[j] ELSE s[j + 1]
  <2>1. /\ a \o b \in Seq(S)
        /\ Len(a \o b) = Len(a) + Len(b)
        /\ \A j \in 1..(Len(a) + Len(b)) :
             (a \o b)[j] = IF j <= Len(a) THEN a[j] ELSE b[j - Len(a)]
    BY <1>1, <1>2, ConcatProperties
  <2>2. Len(a) + Len(b) = Len(s) - 1
    BY <1>1, <1>2
  <2>3. ASSUME NEW j \in 1..(Len(s) - 1), j < i
        PROVE  (a \o b)[j] = s[j]
    BY <2>1, <2>2, <2>3, <1>1
  <2>4. ASSUME NEW j \in 1..(Len(s) - 1), ~(j < i)
        PROVE  (a \o b)[j] = s[j + 1]
    <3>1. j - Len(a) \in 1..(Len(s) - i) /\ ~(j <= Len(a))
      BY <2>4, <1>1
    <3>2. (a \o b)[j] = b[j - Len(a)]
      BY <2>1, <2>2, <3>1
    <3>3. b[j - Len(a)] = s[i + (j - Len(a))] /\ i + (j - Len(a)) = j + 1
      BY <1>1, <1>2, <3>1
    <3> QED
      BY <3>2, <3>3
  <2> QED
    BY <2>1, <2>2, <2>3, <2>4
<1>4. SE!RemoveAt(s, i) = a \o b
  BY DEF SE!RemoveAt, a, b
<1> QED
  BY <1>3, <1>4

\* Removing position i of a sequence without repetition removes s[i] from its
\* range and nothing else.
LEMMA RemoveAtRange ==
  ASSUME NEW S, NEW s \in Seq(S), NEW i \in 1..Len(s),
         \A j \in 1..Len(s) : s[j] = s[i] => j = i
  PROVE  Range(SE!RemoveAt(s, i)) = Range(s) \ {s[i]}
<1> DEFINE r == SE!RemoveAt(s, i)
<1>1. /\ r \in Seq(S)
      /\ Len(r) = Len(s) - 1
      /\ \A j \in 1..(Len(s) - 1) : r[j] = IF j < i THEN s[j] ELSE s[j + 1]
  BY RemoveAtProps
<1> HIDE DEF r
<1>2. ASSUME NEW x \in Range(r) PROVE x \in Range(s) \ {s[i]}
  <2>1. PICK j \in 1..(Len(s) - 1) : x = r[j]
    BY <1>1 DEF Range
  <2>2. CASE j < i
    <3>1. j \in 1..Len(s) /\ j # i /\ x = s[j]
      BY <1>1, <2>1, <2>2
    <3> QED
      BY <3>1 DEF Range
  <2>3. CASE ~(j < i)
    <3>1. j + 1 \in 1..Len(s) /\ j + 1 # i /\ x = s[j + 1]
      BY <1>1, <2>1, <2>3
    <3> QED
      BY <3>1 DEF Range
  <2> QED
    BY <2>2, <2>3
<1>3. ASSUME NEW x \in Range(s) \ {s[i]} PROVE x \in Range(r)
  <2>1. PICK j \in 1..Len(s) : x = s[j] /\ j # i
    BY DEF Range
  <2>2. CASE j < i
    BY <1>1, <2>1, <2>2 DEF Range
  <2>3. CASE j > i
    <3>1. j - 1 \in 1..(Len(s) - 1) /\ ~(j - 1 < i) /\ (j - 1) + 1 = j
      BY <2>3
    <3>2. r[j - 1] = s[j]
      BY <1>1, <3>1
    <3> QED
      BY <1>1, <2>1, <3>1, <3>2 DEF Range
  <2> QED
    BY <2>1, <2>2, <2>3
<1> QED
  BY <1>2, <1>3 DEF r

-----------------------------------------------------------------------------
(***************************************************************************)
(* A well-formed table, under an assignment K of keys to elements.         *)
(***************************************************************************)

WellFormed(T, K) ==
  /\ TableType(T)
  /\ \A i, j \in DOMAIN T.list : K[T.list[i]] = K[T.list[j]] => i = j
  /\ \A e \in Range(T.list) : K[e] \in Keys
  /\ \A i \in 0..(T.size - 1) :
       T.bucket[i] = {e \in Range(T.list) : Idx(K[e], T.size) = i}
  /\ T.len = Len(T.list)
  /\ T.len <= T.size

\* The empty table is well formed.
LEMMA EmptyWellFormed ==
  ASSUME NEW K PROVE WellFormed(EmptyTable, K)
<1>1. TableType(EmptyTable)
  BY DEF TableType, EmptyTable
<1> QED
  BY <1>1 DEF WellFormed, EmptyTable, Range

\* Well-formedness only depends on the keys of the elements of the table.
LEMMA KeyChange ==
  ASSUME NEW T, NEW K, NEW L, WellFormed(T, K),
         \A e \in Range(T.list) : L[e] = K[e]
  PROVE  WellFormed(T, L)
<1>1. \A i \in DOMAIN T.list : T.list[i] \in Range(T.list)
  BY DEF Range
<1> QED
  BY <1>1 DEF WellFormed

\* ec_htable_lookup() finds exactly the elements of the list with that key.
LEMMA LookupFinds ==
  ASSUME NEW T, WellFormed(T, key), NEW k \in Keys
  PROVE  Lookup(T, k) = {e \in Range(T.list) : key[e] = k}
<1>1. CASE T.size = 0
  <2>1. T.list = <<>>
    BY <1>1 DEF WellFormed, TableType
  <2> QED
    BY <1>1, <2>1 DEF Lookup, Range
<1>2. CASE T.size # 0
  <2>1. Idx(k, T.size) \in 0..(T.size - 1)
    BY <1>2, IdxInArray DEF WellFormed, TableType
  <2> QED
    BY <1>2, <2>1 DEF Lookup, WellFormed
<1> QED
  BY <1>1, <1>2

\* Unlink() removes one element and keeps the table well formed.
LEMMA UnlinkWellFormed ==
  ASSUME NEW T, WellFormed(T, key), NEW e \in Range(T.list)
  PROVE  /\ WellFormed(Unlink(T, e), key)
         /\ Range(Unlink(T, e).list) = Range(T.list) \ {e}
         /\ Unlink(T, e).len = T.len - 1
         /\ Unlink(T, e).size = T.size
<1> DEFINE i == IndexOf(T.list, e)
           r == SE!RemoveAt(T.list, i)
           U == Unlink(T, e)
<1>1. T.list \in Seq(Vals) /\ DOMAIN T.list = 1..Len(T.list)
  BY DEF WellFormed, TableType
<1>2. i \in 1..Len(T.list) /\ T.list[i] = e
  BY <1>1 DEF IndexOf, Range
<1>3. /\ U.list = r
      /\ U.len = T.len - 1
      /\ U.size = T.size
      /\ U.bucket = [T.bucket EXCEPT ![Idx(key[e], T.size)] = @ \ {e}]
      /\ DOMAIN U = {"list", "len", "size", "bucket"}
  BY DEF Unlink
<1> HIDE DEF i, U
<1>4. \A j \in 1..Len(T.list) : T.list[j] = T.list[i] => j = i
  BY <1>1, <1>2 DEF WellFormed
<1>5. /\ r \in Seq(Vals)
      /\ Len(r) = Len(T.list) - 1
      /\ \A j \in 1..(Len(T.list) - 1) :
           r[j] = IF j < i THEN T.list[j] ELSE T.list[j + 1]
  BY <1>1, <1>2, RemoveAtProps
<1>6. Range(r) = Range(T.list) \ {e}
  BY <1>1, <1>2, <1>4, RemoveAtRange
<1> HIDE DEF r
<1>7. TableType(U)
  <2>1. T.bucket \in [0..(T.size - 1) -> SUBSET Vals]
    BY DEF WellFormed, TableType
  <2>2. U.bucket \in [0..(U.size - 1) -> SUBSET Vals]
    BY <1>3, <2>1
  <2>3. U.len \in Nat
    BY <1>1, <1>2, <1>3 DEF WellFormed, TableType
  <2> QED
    BY <1>3, <1>5, <2>2, <2>3 DEF TableType, WellFormed
<1>8. \A j, k \in DOMAIN r : key[r[j]] = key[r[k]] => j = k
  <2> SUFFICES ASSUME NEW j \in 1..(Len(T.list) - 1),
                      NEW k \in 1..(Len(T.list) - 1),
                      key[r[j]] = key[r[k]]
               PROVE  j = k
    BY <1>1, <1>5
  <2> DEFINE f(x) == IF x < i THEN x ELSE x + 1
  <2>1. \A x \in 1..(Len(T.list) - 1) : f(x) \in 1..Len(T.list) /\ r[x] = T.list[f(x)]
    BY <1>1, <1>5
  <2>2. f(j) = f(k)
    BY <1>1, <2>1 DEF WellFormed
  <2> QED
    BY <1>1, <1>2, <2>2
<1>9. \A x \in Range(U.list) : key[x] \in Keys
  BY <1>3, <1>6 DEF WellFormed
<1>10. ASSUME NEW n \in 0..(U.size - 1)
       PROVE  U.bucket[n] = {x \in Range(U.list) : Idx(key[x], U.size) = n}
  <2>1. /\ T.bucket[n] = {x \in Range(T.list) : Idx(key[x], T.size) = n}
        /\ T.bucket \in [0..(T.size - 1) -> SUBSET Vals]
    BY <1>3 DEF WellFormed, TableType
  <2>2. CASE n = Idx(key[e], T.size)
    <3>1. U.bucket[n] = T.bucket[n] \ {e}
      BY <1>3, <2>1, <2>2
    <3> QED
      BY <1>3, <1>6, <2>1, <3>1
  <2>3. CASE n # Idx(key[e], T.size)
    <3>1. U.bucket[n] = T.bucket[n]
      BY <1>3, <2>1, <2>3
    <3> QED
      BY <1>3, <1>6, <2>1, <2>3, <3>1
  <2> QED
    BY <2>2, <2>3
<1>11. U.len = Len(U.list) /\ U.len <= U.size
  BY <1>3, <1>5, <1>1 DEF WellFormed, TableType
<1>12. WellFormed(U, key)
  BY <1>3, <1>7, <1>8, <1>9, <1>10, <1>11 DEF WellFormed
<1> QED
  BY <1>3, <1>6, <1>12 DEF U

\* WithoutKey() removes the elements with that key, and leaves a free slot in
\* the array whenever there was one to remove.
LEMMA WithoutKeyWellFormed ==
  ASSUME NEW T, WellFormed(T, key), NEW k \in Keys
  PROVE  /\ WellFormed(WithoutKey(T, k), key)
         /\ Range(WithoutKey(T, k).list) = Range(T.list) \ Lookup(T, k)
         /\ \A e \in Range(WithoutKey(T, k).list) : key[e] # k
         /\ Lookup(T, k) = {} => WithoutKey(T, k) = T
         /\ Lookup(T, k) # {} => ~MustGrow(WithoutKey(T, k))
<1>1. Lookup(T, k) = {e \in Range(T.list) : key[e] = k}
  BY LookupFinds
<1>2. CASE Lookup(T, k) = {}
  BY <1>1, <1>2 DEF WithoutKey
<1>3. CASE Lookup(T, k) # {}
  <2> DEFINE e == CHOOSE x \in Lookup(T, k) : TRUE
  <2>1. e \in Lookup(T, k)
    BY <1>3
  <2>2. WithoutKey(T, k) = Unlink(T, e)
    BY <1>3 DEF WithoutKey
  <2> HIDE DEF e
  <2>3. e \in Range(T.list) /\ key[e] = k
    BY <1>1, <2>1
  <2>4. Lookup(T, k) = {e}
    <3>1. \A x \in Range(T.list) : key[x] = k => x = e
      BY <2>3 DEF WellFormed, Range
    <3> QED
      BY <1>1, <2>3, <3>1
  <2>5. /\ WellFormed(Unlink(T, e), key)
        /\ Range(Unlink(T, e).list) = Range(T.list) \ {e}
        /\ Unlink(T, e).len = T.len - 1
        /\ Unlink(T, e).size = T.size
    BY <2>3, UnlinkWellFormed
  <2>6. ~MustGrow(Unlink(T, e))
    BY <2>5 DEF MustGrow, WellFormed, TableType
  <2> QED
    BY <1>1, <1>3, <2>2, <2>4, <2>5, <2>6
<1> QED
  BY <1>2, <1>3

\* Resize() redistributes the elements over a larger array.
LEMMA ResizeWellFormed ==
  ASSUME NEW T, WellFormed(T, key), NEW n \in Nat, n >= T.size
  PROVE  /\ WellFormed(Resize(T, n), key)
         /\ Resize(T, n).list = T.list
         /\ Resize(T, n).len = T.len
         /\ Resize(T, n).size = n
<1> DEFINE R == Resize(T, n)
<1>1. /\ R.list = T.list
      /\ R.len = T.len
      /\ R.size = n
      /\ R.bucket = [i \in 0..(n - 1) |->
                       {e \in Range(T.list) : Idx(key[e], n) = i}]
      /\ DOMAIN R = {"list", "len", "size", "bucket"}
  BY DEF Resize
<1> HIDE DEF R
<1>2. Range(T.list) \subseteq Vals
  BY DEF WellFormed, TableType, Range
<1>3. TableType(R)
  <2>1. R.bucket \in [0..(n - 1) -> SUBSET Vals]
    BY <1>1, <1>2
  <2> QED
    BY <1>1, <2>1 DEF TableType, WellFormed
<1>4. R.len <= R.size
  BY <1>1 DEF WellFormed, TableType
<1>5. WellFormed(R, key)
  BY <1>1, <1>3, <1>4 DEF WellFormed
<1> QED
  BY <1>1, <1>5 DEF R

\* Link() adds an element whose key the table does not have.
LEMMA LinkWellFormed ==
  ASSUME NEW T, NEW K, WellFormed(T, K), NEW e \in Vals, NEW k \in Keys,
         K[e] = k, \A x \in Range(T.list) : K[x] # k, T.len < T.size
  PROVE  /\ WellFormed(Link(T, e, k), K)
         /\ Range(Link(T, e, k).list) = Range(T.list) \cup {e}
         /\ Link(T, e, k).list = Append(T.list, e)
<1> DEFINE L == Link(T, e, k)
<1>1. /\ L.list = Append(T.list, e)
      /\ L.len = T.len + 1
      /\ L.size = T.size
      /\ L.bucket = [T.bucket EXCEPT ![Idx(k, T.size)] = @ \cup {e}]
      /\ DOMAIN L = {"list", "len", "size", "bucket"}
  BY DEF Link
<1> HIDE DEF L
<1>2. /\ T.list \in Seq(Vals)
      /\ T.bucket \in [0..(T.size - 1) -> SUBSET Vals]
      /\ T.size \in Nat /\ T.len \in Nat /\ T.len = Len(T.list)
  BY DEF WellFormed, TableType
<1>3. /\ L.list \in Seq(Vals)
      /\ DOMAIN L.list = 1..(Len(T.list) + 1)
      /\ Len(L.list) = Len(T.list) + 1
      /\ \A i \in 1..Len(T.list) : L.list[i] = T.list[i]
      /\ L.list[Len(T.list) + 1] = e
  BY <1>1, <1>2
<1>4. Range(L.list) = Range(T.list) \cup {e}
  <2>1. ASSUME NEW x \in Range(L.list) PROVE x \in Range(T.list) \cup {e}
    <3>1. PICK i \in 1..(Len(T.list) + 1) : x = L.list[i]
      BY <1>3 DEF Range
    <3>2. CASE i = Len(T.list) + 1
      BY <1>3, <3>1, <3>2
    <3>3. CASE i # Len(T.list) + 1
      <4>1. i \in 1..Len(T.list) /\ x = T.list[i]
        BY <1>2, <1>3, <3>1, <3>3
      <4> QED
        BY <1>2, <4>1 DEF Range
    <3> QED
      BY <3>2, <3>3
  <2>2. ASSUME NEW x \in Range(T.list) PROVE x \in Range(L.list)
    <3>1. PICK i \in 1..Len(T.list) : x = T.list[i]
      BY <1>2 DEF Range
    <3>2. i \in DOMAIN L.list /\ x = L.list[i]
      BY <1>2, <1>3, <3>1
    <3> QED
      BY <3>2 DEF Range
  <2>3. e \in Range(L.list)
    <3>1. Len(T.list) + 1 \in DOMAIN L.list
      BY <1>2, <1>3
    <3> QED
      BY <1>3, <3>1 DEF Range
  <2> QED
    BY <2>1, <2>2, <2>3
<1>5. Idx(k, T.size) \in 0..(T.size - 1)
  BY <1>2, IdxInArray
<1>6. TableType(L)
  <2>1. L.bucket \in [0..(T.size - 1) -> SUBSET Vals]
    BY <1>1, <1>2, <1>5
  <2> QED
    BY <1>1, <1>2, <1>3, <2>1 DEF TableType
<1>7. \A i, j \in DOMAIN L.list : K[L.list[i]] = K[L.list[j]] => i = j
  <2> SUFFICES ASSUME NEW i \in 1..(Len(T.list) + 1),
                      NEW j \in 1..(Len(T.list) + 1),
                      K[L.list[i]] = K[L.list[j]], i < j
               PROVE  FALSE
    BY <1>2, <1>3
  <2>1. i \in 1..Len(T.list) /\ L.list[i] = T.list[i]
    BY <1>2, <1>3
  <2>2. K[L.list[i]] # k
    BY <1>2, <2>1 DEF Range
  <2>3. CASE j = Len(T.list) + 1
    BY <1>3, <2>2, <2>3
  <2>4. CASE j # Len(T.list) + 1
    <3>1. j \in 1..Len(T.list) /\ L.list[j] = T.list[j]
      BY <1>2, <1>3, <2>4
    <3> QED
      BY <1>2, <2>1, <3>1 DEF WellFormed
  <2> QED
    BY <2>3, <2>4
<1>8. \A x \in Range(L.list) : K[x] \in Keys
  BY <1>4 DEF WellFormed
<1>9. ASSUME NEW n \in 0..(L.size - 1)
      PROVE  L.bucket[n] = {x \in Range(L.list) : Idx(K[x], L.size) = n}
  <2>1. T.bucket[n] = {x \in Range(T.list) : Idx(K[x], T.size) = n}
    BY <1>1 DEF WellFormed
  <2>2. CASE n = Idx(k, T.size)
    <3>1. L.bucket[n] = T.bucket[n] \cup {e}
      BY <1>1, <1>2, <1>5, <2>2
    <3> QED
      BY <1>1, <1>4, <2>1, <2>2, <3>1
  <2>3. CASE n # Idx(k, T.size)
    <3>1. L.bucket[n] = T.bucket[n]
      BY <1>1, <1>2, <2>3
    <3> QED
      BY <1>1, <1>4, <2>1, <2>3, <3>1
  <2> QED
    BY <2>2, <2>3
<1>10. L.len = Len(L.list) /\ L.len <= L.size
  BY <1>1, <1>2, <1>3
<1>11. WellFormed(L, K)
  BY <1>6, <1>7, <1>8, <1>9, <1>10 DEF WellFormed
<1> QED
  BY <1>1, <1>4, <1>11 DEF L

\* __ec_htable_set() stores an element that the table does not hold under a
\* key k, when K is the assignment of keys after the call.
LEMMA InsertWellFormed ==
  ASSUME NEW T, WellFormed(T, key), NEW e \in Vals, NEW k \in Keys, NEW K,
         K[e] = k, \A x \in Range(T.list) \ Lookup(T, k) : K[x] = key[x]
  PROVE  /\ WellFormed(Insert(T, e, k), K)
         /\ Range(Insert(T, e, k).list) = (Range(T.list) \ Lookup(T, k)) \cup {e}
         /\ Insert(T, e, k).list = Append(WithoutKey(T, k).list, e)
<1> DEFINE T1 == WithoutKey(T, k)
           T2 == IF MustGrow(T1) THEN Resize(T1, NewSize(T1)) ELSE T1
<1>1. /\ WellFormed(T1, key)
      /\ Range(T1.list) = Range(T.list) \ Lookup(T, k)
      /\ \A x \in Range(T1.list) : key[x] # k
  BY WithoutKeyWellFormed
<1>2. Insert(T, e, k) = Link(T2, e, k)
  BY DEF Insert
<1> HIDE DEF T1
<1>3. /\ WellFormed(T2, key)
      /\ T2.list = T1.list
      /\ T2.len < T2.size
  <2>1. T1.size \in Nat /\ T1.len \in Nat /\ T1.len <= T1.size
    BY <1>1 DEF WellFormed, TableType
  <2>2. CASE MustGrow(T1)
    <3>1. NewSize(T1) \in Nat /\ NewSize(T1) > T1.size
      <4>1. T1.size # 0 => T1.size * Grow \in Nat /\ T1.size * Grow > T1.size
        BY <2>1, GrowAssumption
      <4> QED
        BY <2>1, <4>1, GrowAssumption DEF NewSize
    <3>2. T2 = Resize(T1, NewSize(T1))
      BY <2>2
    <3>3. /\ WellFormed(T2, key)
          /\ T2.list = T1.list
          /\ T2.len = T1.len
          /\ T2.size = NewSize(T1)
      BY <1>1, <2>1, <3>1, <3>2, ResizeWellFormed
    <3> QED
      BY <2>1, <3>1, <3>3
  <2>3. CASE ~MustGrow(T1)
    BY <1>1, <2>1, <2>3 DEF MustGrow
  <2> QED
    BY <2>2, <2>3
<1> HIDE DEF T2
<1>4. WellFormed(T2, K)
  BY <1>1, <1>3, KeyChange
<1>5. \A x \in Range(T2.list) : K[x] # k
  BY <1>1, <1>3
<1>6. /\ WellFormed(Link(T2, e, k), K)
      /\ Range(Link(T2, e, k).list) = Range(T2.list) \cup {e}
      /\ Link(T2, e, k).list = Append(T2.list, e)
  BY <1>3, <1>4, <1>5, LinkWellFormed
<1> QED
  BY <1>1, <1>2, <1>3, <1>6 DEF T1

-----------------------------------------------------------------------------
(***************************************************************************)
(* Counting references.                                                    *)
(***************************************************************************)

\* Only finitely many tables reference an element.
LEMMA HoldersFinite ==
  ASSUME NEW v
  PROVE  /\ IsFiniteSet(Holders(v))
         /\ Cardinality(Holders(v)) \in Nat
         /\ Cardinality(Holders(v)) = 0 <=> Holders(v) = {}
BY FiniteAssumption, FS_Subset, FS_CardinalityType, FS_EmptySet DEF Holders

\* A table h drops one reference to each element of S: the counters stay
\* exact for every element w that h gained no reference to, and the values
\* that nothing references any more are the ones free_cb() was called on.
LEMMA DropRefs ==
  ASSUME TypeOK, RefcountExact, GivenFreed,
         NEW h \in Handles, NEW S \in SUBSET Range(tbl[h].list), NEW w \in Vals,
         w \in Range(tbl'[h].list) <=> w \in Range(tbl[h].list) \ S,
         \A g \in Handles \ {h} : tbl'[g] = tbl[g]
  PROVE  /\ RefsAfter(S)[w] \in Nat
         /\ FreedAfter(S)[w] \in Nat
         /\ RefsAfter(S)[w] = Cardinality(Holders(w)')
         /\ w \in given => FreedAfter(S)[w] = IF Holders(w)' = {} THEN 1 ELSE 0
         /\ Holders(w)' # {} => KeyAfter(S)[w] = key[w]
<1>1. refcount[w] = Cardinality(Holders(w)) /\ refcount[w] \in Nat /\ freed[w] \in Nat
  BY DEF RefcountExact, TypeOK
<1>2. /\ IsFiniteSet(Holders(w))
      /\ Cardinality(Holders(w)) = 0 <=> Holders(w) = {}
  BY HoldersFinite
<1>3. CASE w \in S
  <2>1. h \in Holders(w) /\ Holders(w)' = Holders(w) \ {h}
    BY <1>3 DEF Holders
  <2>2. /\ Cardinality(Holders(w)') = Cardinality(Holders(w)) - 1
        /\ IsFiniteSet(Holders(w)')
    BY <1>2, <2>1, FS_RemoveElement
  <2>3. Cardinality(Holders(w)') \in Nat /\ (Cardinality(Holders(w)') = 0 <=> Holders(w)' = {})
    BY <2>2, FS_CardinalityType, FS_EmptySet
  <2>4. w \in given => freed[w] = 0
    BY <2>1 DEF GivenFreed
  <2> QED
    BY <1>1, <1>3, <2>2, <2>3, <2>4 DEF RefsAfter, FreedAfter, KeyAfter
<1>4. CASE w \notin S
  <2>1. Holders(w)' = Holders(w)
    BY <1>4 DEF Holders
  <2> QED
    BY <1>1, <1>4, <2>1 DEF RefsAfter, FreedAfter, KeyAfter, GivenFreed
<1> QED
  BY <1>3, <1>4

-----------------------------------------------------------------------------
(***************************************************************************)
(* The inductive invariant.                                                *)
(***************************************************************************)

\* the library owns the values of the elements it references
Owned == \A h \in Handles : Range(tbl[h].list) \subseteq given

\* a name that holds no table is free for a new one
Unused ==
  \A h \in Handles \ live : tbl[h] = EmptyTable \/ (dup.active /\ dup.dst = h)

\* the copy holds what ec_htable_dup() already went through
CopyIsPrefix ==
  dup.active =>
    /\ ret.op = "dup"
    /\ Len(tbl[dup.dst].list) = dup.pos - 1
    /\ \A i \in 1..(dup.pos - 1) : tbl[dup.dst].list[i] = tbl[dup.src].list[i]

IInv ==
  /\ TypeOK
  /\ \A h \in Handles : WellFormed(tbl[h], key)
  /\ RefcountExact
  /\ GivenFreed
  /\ Owned
  /\ Unused
  /\ CopyIsPrefix

\* The inductive invariant holds initially.
LEMMA InitIInv == Init => IInv
<1> SUFFICES ASSUME Init PROVE IInv
  OBVIOUS
<1> USE DEF Init
<1>1. \A h \in Handles : tbl[h] = EmptyTable /\ WellFormed(tbl[h], key)
  BY EmptyWellFormed
<1>2. \A h \in Handles : TableType(tbl[h]) /\ Range(tbl[h].list) = {}
  BY <1>1 DEF WellFormed, EmptyTable, Range
<1>3. \A v \in Vals : Holders(v) = {}
  BY <1>2 DEF Holders
<1>4. RefcountExact
  BY <1>3, HoldersFinite DEF RefcountExact
<1>5. TypeOK
  BY <1>2 DEF TypeOK, DupType, NoDup, Calls
<1> QED
  BY <1>1, <1>2, <1>4, <1>5 DEF IInv, GivenFreed, Owned, Unused, CopyIsPrefix, NoDup

\* the part of the invariant that does not speak of calls in progress
Store ==
  /\ tbl = [h \in Handles |-> tbl[h]]
  /\ \A h \in Handles : WellFormed(tbl[h], key)
  /\ key \in [Vals -> Keys \cup {NoKey}]
  /\ refcount \in [Vals -> Nat]
  /\ freed \in [Vals -> Nat]
  /\ RefcountExact
  /\ GivenFreed
  /\ Owned

\* The part of the invariant that speaks of tables and counters.
LEMMA IInvStore == IInv => Store
BY DEF IInv, Store, TypeOK

\* A step in which table h becomes T by dropping the elements S keeps Store.
LEMMA DropStep ==
  ASSUME IInv, NEW h \in Handles, NEW S \in SUBSET Range(tbl[h].list), NEW T,
         WellFormed(T, key), Range(T.list) = Range(tbl[h].list) \ S,
         tbl' = [tbl EXCEPT ![h] = T], key' = KeyAfter(S),
         refcount' = RefsAfter(S), freed' = FreedAfter(S), given' = given
  PROVE  Store'
<1>1. DOMAIN tbl' = Handles /\ tbl'[h] = T /\ \A g \in Handles \ {h} : tbl'[g] = tbl[g]
  BY DEF IInv, TypeOK
<1>2. ASSUME NEW w \in Vals
      PROVE  /\ RefsAfter(S)[w] \in Nat
             /\ FreedAfter(S)[w] \in Nat
             /\ RefsAfter(S)[w] = Cardinality(Holders(w)')
             /\ w \in given => FreedAfter(S)[w] = IF Holders(w)' = {} THEN 1 ELSE 0
             /\ Holders(w)' # {} => KeyAfter(S)[w] = key[w]
  BY <1>1, DropRefs DEF IInv
<1>3. refcount' \in [Vals -> Nat] /\ freed' \in [Vals -> Nat]
  BY <1>2 DEF RefsAfter, FreedAfter
<1>4. key' \in [Vals -> Keys \cup {NoKey}]
  BY DEF KeyAfter, IInv, TypeOK
<1>5. RefcountExact' /\ GivenFreed'
  BY <1>2 DEF RefcountExact, GivenFreed, IInv, TypeOK
<1>6. ASSUME NEW g \in Handles PROVE WellFormed(tbl'[g], key')
  <2>1. WellFormed(tbl'[g], key)
    BY <1>1 DEF IInv
  <2>2. ASSUME NEW e \in Range(tbl'[g].list) PROVE key'[e] = key[e]
    <3>1. e \in Vals
      BY <2>1 DEF WellFormed, TableType, Range
    <3>2. g \in Holders(e)'
      BY <2>2 DEF Holders
    <3> QED
      BY <1>2, <3>1, <3>2
  <2> QED
    BY <2>1, <2>2, KeyChange
<1>7. Owned'
  BY <1>1 DEF Owned, IInv
<1>8. tbl' = [g \in Handles |-> tbl'[g]]
  BY DEF IInv, TypeOK
<1> QED
  BY <1>3, <1>4, <1>5, <1>6, <1>7, <1>8 DEF Store

\* A step of ec_htable_set() that stores v under k in table h keeps Store.
LEMMA SetStep ==
  ASSUME IInv, NEW h \in Handles, NEW k \in Keys, NEW v \in Vals, SetOk(h, k, v)
  PROVE  Store'
<1> DEFINE T == tbl[h]
           old == Lookup(T, k)
<1>1. WellFormed(T, key) /\ old = {e \in Range(T.list) : key[e] = k}
  BY LookupFinds DEF IInv
<1>2. Holders(v) = {}
  BY DEF SetOk, Available, IInv, GivenFreed, Owned, Holders
<1>3. v \notin Range(T.list)
  BY <1>2 DEF Holders
<1>4. /\ key' = [KeyAfter(old) EXCEPT ![v] = k]
      /\ refcount' = [RefsAfter(old) EXCEPT ![v] = 1]
      /\ freed' = [FreedAfter(old) EXCEPT ![v] = 0]
      /\ given' = given \cup {v}
      /\ tbl' = [tbl EXCEPT ![h] = Insert(T, v, k)]
  BY DEF SetOk
<1> HIDE DEF T, old
<1>5. key'[v] = k /\ refcount'[v] = 1 /\ freed'[v] = 0
  BY <1>4 DEF KeyAfter, RefsAfter, FreedAfter
<1>6. ASSUME NEW w \in Vals \ {v}
      PROVE  /\ key'[w] = KeyAfter(old)[w]
             /\ refcount'[w] = RefsAfter(old)[w]
             /\ freed'[w] = FreedAfter(old)[w]
  BY <1>4 DEF KeyAfter, RefsAfter, FreedAfter
<1>7. ASSUME NEW x \in Range(T.list) \ old PROVE key'[x] = key[x]
  <2>1. x \in Vals \ {v}
    BY <1>1, <1>3 DEF WellFormed, TableType, Range
  <2> QED
    BY <1>6, <2>1 DEF KeyAfter
<1>8. /\ WellFormed(Insert(T, v, k), key')
      /\ Range(Insert(T, v, k).list) = (Range(T.list) \ old) \cup {v}
  BY <1>1, <1>5, <1>7, InsertWellFormed DEF old
<1>9. /\ DOMAIN tbl' = Handles
      /\ tbl'[h] = Insert(T, v, k)
      /\ \A g \in Handles \ {h} : tbl'[g] = tbl[g]
  BY <1>4 DEF IInv, TypeOK
<1>10. ASSUME NEW w \in Vals \ {v}
       PROVE  /\ RefsAfter(old)[w] \in Nat
              /\ FreedAfter(old)[w] \in Nat
              /\ RefsAfter(old)[w] = Cardinality(Holders(w)')
              /\ w \in given =>
                   FreedAfter(old)[w] = IF Holders(w)' = {} THEN 1 ELSE 0
              /\ Holders(w)' # {} => KeyAfter(old)[w] = key[w]
  <2>1. w \in Range(tbl'[h].list) <=> w \in Range(tbl[h].list) \ old
    BY <1>8, <1>9 DEF T
  <2>2. old \in SUBSET Range(tbl[h].list)
    BY <1>1 DEF T
  <2> QED
    BY <1>9, <2>1, <2>2, DropRefs DEF IInv
<1>11. Holders(v)' = {h}
  BY <1>2, <1>8, <1>9 DEF Holders
<1>12. RefcountExact' /\ GivenFreed'
  <2>1. Cardinality(Holders(v)') = 1
    BY <1>11, FS_Singleton
  <2>2. \A w \in Vals : refcount'[w] = Cardinality(Holders(w)')
    BY <1>5, <1>6, <1>10, <2>1
  <2>3. \A w \in given' : freed'[w] = IF Holders(w)' = {} THEN 1 ELSE 0
    BY <1>4, <1>5, <1>6, <1>10, <1>11 DEF IInv, TypeOK
  <2> QED
    BY <2>2, <2>3 DEF RefcountExact, GivenFreed
<1>13. refcount' \in [Vals -> Nat] /\ freed' \in [Vals -> Nat]
  <2>1. refcount' = [w \in Vals |-> refcount'[w]] /\ freed' = [w \in Vals |-> freed'[w]]
    BY <1>4 DEF RefsAfter, FreedAfter
  <2>2. \A w \in Vals : refcount'[w] \in Nat /\ freed'[w] \in Nat
    BY <1>5, <1>6, <1>10
  <2> QED
    BY <2>1, <2>2
<1>14. key' \in [Vals -> Keys \cup {NoKey}]
  BY <1>4 DEF KeyAfter, IInv, TypeOK
<1>15. ASSUME NEW g \in Handles PROVE WellFormed(tbl'[g], key')
  <2>1. CASE g = h
    BY <1>8, <1>9, <2>1
  <2>2. CASE g # h
    <3>1. WellFormed(tbl'[g], key)
      BY <1>9, <2>2 DEF IInv
    <3>2. ASSUME NEW e \in Range(tbl'[g].list) PROVE key'[e] = key[e]
      <4>1. g \in Holders(e)' /\ g \in Holders(e)
        BY <1>9, <2>2, <3>2 DEF Holders
      <4>2. e \in Vals \ {v}
        BY <1>2, <3>1, <4>1 DEF WellFormed, TableType, Range
      <4> QED
        BY <1>6, <1>10, <4>1, <4>2
    <3> QED
      BY <3>1, <3>2, KeyChange
  <2> QED
    BY <2>1, <2>2
<1>16. Owned'
  BY <1>4, <1>8, <1>9 DEF Owned, IInv, T
<1>17. tbl' = [g \in Handles |-> tbl'[g]]
  BY <1>4 DEF IInv, TypeOK
<1> QED
  BY <1>12, <1>13, <1>14, <1>15, <1>16, <1>17 DEF Store

\* A value that may be passed to ec_htable_set() is in no table.
LEMMA AvailableUnheld ==
  ASSUME IInv, NEW v \in Vals, Available(v)
  PROVE  Holders(v) = {} /\ refcount[v] = 0
<1>1. Holders(v) = {}
  BY DEF Available, IInv, GivenFreed, Owned, Holders
<1> QED
  BY <1>1, HoldersFinite DEF IInv, RefcountExact

\* A step that changes no table, and only the ownership of a value that no
\* table references, keeps Store.
LEMMA OwnershipStep ==
  ASSUME IInv, NEW v \in Vals, Available(v), NEW n \in {0, 1},
         tbl' = tbl, key' = key, refcount' = refcount,
         freed' = [freed EXCEPT ![v] = n],
         \/ n = 0 /\ given' = given \ {v}
         \/ n = 1 /\ given' = given \cup {v}
  PROVE  Store'
<1>1. Holders(v) = {}
  BY AvailableUnheld
<1>2. \A w : Holders(w)' = Holders(w)
  BY DEF Holders
<1>3. GivenFreed'
  BY <1>1, <1>2 DEF IInv, GivenFreed, TypeOK
<1>4. Owned'
  BY <1>1 DEF IInv, Owned, Holders
<1>5. RefcountExact'
  BY <1>2 DEF IInv, RefcountExact
<1>6. freed' \in [Vals -> Nat]
  BY DEF IInv, TypeOK
<1> QED
  BY <1>3, <1>4, <1>5, <1>6 DEF Store, IInv, TypeOK

\* The resize in ec_htable_set() can only fail when there was no previous
\* entry to remove, so the failing call changes no table.
LEMMA ResizeFailKeeps ==
  ASSUME IInv, NEW h \in Handles, NEW k \in Keys, NEW v \in Vals,
         SetResizeFails(h, k, v)
  PROVE  /\ tbl' = tbl /\ key' = key /\ refcount' = refcount
         /\ freed' = [freed EXCEPT ![v] = 1]
<1>1. Lookup(tbl[h], k) = {} /\ WithoutKey(tbl[h], k) = tbl[h]
  BY WithoutKeyWellFormed DEF SetResizeFails, IInv
<1>2. refcount[v] = 0
  BY AvailableUnheld DEF SetResizeFails
<1>3. RefsAfter({}) = refcount /\ FreedAfter({}) = freed /\ KeyAfter({}) = key
  BY DEF RefsAfter, FreedAfter, KeyAfter, IInv, TypeOK
<1>4. tbl' = tbl
  BY <1>1 DEF SetResizeFails, IInv, TypeOK
<1>5. key' = key
  BY <1>1, <1>3 DEF SetResizeFails
<1>6. refcount' = refcount
  BY <1>1, <1>2, <1>3 DEF SetResizeFails, IInv, TypeOK
<1>7. freed' = [freed EXCEPT ![v] = 1]
  BY <1>1, <1>3 DEF SetResizeFails, CallbacksOnFail
<1> QED
  BY <1>4, <1>5, <1>6, <1>7

\* One iteration of ec_htable_dup() adds one reference to one element.
LEMMA CopyStep ==
  ASSUME IInv, DupCopy
  PROVE  /\ Store'
         /\ CopyIsPrefix'
         /\ tbl'[dup.src] = tbl[dup.src]
<1> DEFINE src == tbl[dup.src]
           dst == tbl[dup.dst]
<1>1. /\ dup \in [active : {TRUE}, src : live, dst : Handles \ live, pos : Nat]
      /\ dup.pos \in 1..Len(src.list)
      /\ live \subseteq Handles
  <2>1. dup \in [active : {TRUE}, src : live, dst : Handles \ live, pos : Nat]
        /\ dup.pos \in 1..(Len(src.list) + 1)
    <3>1. dup.active /\ ~NoDup.active
      BY DEF DupCopy, NoDup
    <3>2. dup # NoDup
      BY <3>1, Zenon
    <3> QED
      BY <3>2 DEF IInv, TypeOK, DupType
  <2>2. live \subseteq Handles
    BY DEF IInv, TypeOK
  <2>3. src.list \in Seq(Vals)
    BY <2>1, <2>2 DEF IInv, TypeOK, TableType
  <2>4. dup.pos <= Len(src.list) /\ Len(src.list) \in Nat
    BY <2>3 DEF DupCopy
  <2>5. dup.pos \in 1..Len(src.list)
    BY <2>1, <2>4
  <2> QED
    BY <2>1, <2>2, <2>5, Zenon
<1>2. dup.src \in Handles /\ dup.dst \in Handles /\ dup.src # dup.dst
  BY <1>1
<1>3. WellFormed(src, key) /\ WellFormed(dst, key)
  BY <1>2 DEF IInv
<1>a. DupElt \in Vals /\ DupElt \in Range(src.list)
  BY <1>1, <1>3 DEF DupElt, WellFormed, TableType, Range
<1>b. PICK e \in Vals : e = DupElt
  BY <1>a
<1> DEFINE k == key[e]
<1>4. e \in Range(src.list) /\ e = src.list[dup.pos] /\ e \in Vals /\ k \in Keys
  BY <1>1, <1>3, <1>a, <1>b DEF DupElt, WellFormed
<1>5. /\ Len(dst.list) = dup.pos - 1
      /\ \A i \in 1..(dup.pos - 1) : dst.list[i] = src.list[i]
  BY DEF IInv, CopyIsPrefix, DupCopy
<1> HIDE DEF src, dst, k
<1>6. ASSUME NEW x \in Range(dst.list) PROVE key[x] # k
  <2>a. DOMAIN dst.list = 1..(dup.pos - 1)
    BY <1>3, <1>5 DEF WellFormed, TableType
  <2>1. PICK i \in 1..(dup.pos - 1) : x = src.list[i]
    BY <1>5, <2>a DEF Range
  <2>2. i \in DOMAIN src.list /\ dup.pos \in DOMAIN src.list /\ i # dup.pos
    BY <1>1, <1>3 DEF WellFormed, TableType
  <2> QED
    BY <1>3, <1>4, <2>1, <2>2 DEF WellFormed, k
<1>7. Lookup(dst, k) = {}
  BY <1>3, <1>4, <1>6, LookupFinds
<1>8. RefsAfter({}) = refcount /\ FreedAfter({}) = freed /\ KeyAfter({}) = key
  BY DEF RefsAfter, FreedAfter, KeyAfter, IInv, TypeOK
<1>9. /\ tbl' = [tbl EXCEPT ![dup.dst] = Insert(dst, e, k)]
      /\ key' = key
      /\ refcount' = [refcount EXCEPT ![e] = @ + 1]
      /\ freed' = freed
      /\ given' = given
      /\ dup' = [dup EXCEPT !.pos = @ + 1]
  BY <1>7, <1>8, <1>b DEF DupCopy, dst, k
<1>10. WithoutKey(dst, k) = dst
  BY <1>7 DEF WithoutKey
<1>11. /\ WellFormed(Insert(dst, e, k), key)
       /\ Range(Insert(dst, e, k).list) = Range(dst.list) \cup {e}
       /\ Insert(dst, e, k).list = Append(dst.list, e)
  <2> DEFINE K == key
  <2>1. K[e] = k /\ \A x \in Range(dst.list) \ Lookup(dst, k) : K[x] = key[x]
    BY DEF k
  <2> HIDE DEF K
  <2>a. WellFormed(dst, key)
    BY <1>3
  <2>b. K[e] = k /\ k \in Keys
    BY <1>4, <2>1
  <2>c. \A x \in Range(dst.list) \ Lookup(dst, k) : K[x] = key[x]
    BY <2>1
  <2>2. /\ WellFormed(Insert(dst, e, k), K)
        /\ Range(Insert(dst, e, k).list) = (Range(dst.list) \ Lookup(dst, k)) \cup {e}
        /\ Insert(dst, e, k).list = Append(WithoutKey(dst, k).list, e)
    BY <2>a, <2>b, <2>c, InsertWellFormed, SMTT(20)
  <2> QED
    BY <1>7, <1>10, <2>2 DEF K
<1>12. /\ tbl' = [g \in Handles |-> tbl'[g]]
       /\ tbl'[dup.dst] = Insert(dst, e, k)
       /\ \A g \in Handles \ {dup.dst} : tbl'[g] = tbl[g]
  BY <1>2, <1>9 DEF IInv, TypeOK
<1>13. dup.dst \notin Holders(e) /\ dup.src \in Holders(e)
  BY <1>2, <1>4, <1>6 DEF Holders, dst, src, k
<1>14. /\ Holders(e)' = Holders(e) \cup {dup.dst}
       /\ \A w \in Vals \ {e} : Holders(w)' = Holders(w)
  BY <1>2, <1>11, <1>12 DEF Holders, dst
<1>15. Cardinality(Holders(e)') = Cardinality(Holders(e)) + 1
  BY <1>13, <1>14, HoldersFinite, FS_AddElement
<1>16. RefcountExact'
  BY <1>4, <1>9, <1>14, <1>15 DEF RefcountExact, IInv, TypeOK
<1>17. GivenFreed'
  BY <1>4, <1>9, <1>13, <1>14 DEF GivenFreed, IInv, TypeOK
<1>18. Owned'
  BY <1>2, <1>4, <1>9, <1>11, <1>12 DEF Owned, IInv, dst, src
<1>19. refcount' \in [Vals -> Nat]
  BY <1>9 DEF IInv, TypeOK
<1>20. Store'
  BY <1>2, <1>9, <1>11, <1>12, <1>16, <1>17, <1>18, <1>19 DEF Store, IInv, TypeOK
<1>21. tbl'[dup.src] = src
  BY <1>2, <1>12 DEF src
<1>22. CopyIsPrefix'
  <2>1. /\ dup'.dst = dup.dst /\ dup'.src = dup.src
        /\ dup'.pos = dup.pos + 1 /\ dup.pos \in Nat
    BY <1>1, <1>9
  <2>a. ret'.op = "dup"
    BY DEF DupCopy, IInv, CopyIsPrefix
  <2>2. tbl'[dup.dst].list = Append(dst.list, e) /\ dst.list \in Seq(Vals)
    BY <1>3, <1>11, <1>12 DEF WellFormed, TableType
  <2>3. Len(tbl'[dup.dst].list) = dup.pos
    BY <1>5, <2>1, <2>2
  <2>4. \A i \in 1..dup.pos : tbl'[dup.dst].list[i] = src.list[i]
    BY <1>1, <1>4, <1>5, <2>1, <2>2
  <2> QED
    BY <1>21, <2>1, <2>3, <2>4, <2>a DEF CopyIsPrefix
<1> QED
  BY <1>20, <1>21, <1>22 DEF src

\* When no ec_htable_dup() runs, dup is NoDup.
LEMMA IdleNoDup == ASSUME IInv, Idle PROVE dup = NoDup /\ ~NoDup.active
<1>1. dup.active \/ dup = NoDup
  BY DEF IInv, TypeOK, DupType
<1> QED
  BY <1>1, Zenon DEF Idle, NoDup

\* A step taken while no ec_htable_dup() runs keeps the invariant if it keeps
\* Store, the types of live, given and ret, and the names that are not live.
LEMMA IdleStep ==
  ASSUME IInv, Idle, dup' = dup, Store', live' \subseteq Handles,
         given' \subseteq Vals, refused' \subseteq Vals, ret' \in [op : Calls, rc : {"ok", "running"} \cup Errors],
         \A h \in Handles \ live' : tbl'[h] = EmptyTable
  PROVE  IInv'
<1>1. dup' = NoDup /\ ~dup'.active
  BY IdleNoDup
<1>2. \A h \in Handles : TableType(tbl'[h])
  BY DEF Store, WellFormed
<1>3. TypeOK'
  BY <1>1, <1>2 DEF TypeOK, Store, DupType, NoDup
<1> QED
  BY <1>1, <1>3 DEF IInv, Store, Unused, CopyIsPrefix

LEMMA RefusedVals == IInv /\ [Next]_vars => refused' \subseteq Vals
<1> USE DEF IInv, TypeOK
<1> QED
  BY DEF Next, vars, New, Free, Del, SetInvalid, SetNoMem, SetOk, SetResizeFails, DupBegin,
    DupCopy, DupFail, DupEnd

\* Every step keeps the inductive invariant.
LEMMA NextIInv == IInv /\ [Next]_vars => IInv'
<1> SUFFICES ASSUME IInv, [Next]_vars PROVE IInv'
  OBVIOUS
<1>0. /\ live \subseteq Handles /\ given \subseteq Vals /\ refused' \subseteq Vals
      /\ tbl = [h \in Handles |-> tbl[h]]
      /\ Idle => \A h \in Handles \ live : tbl[h] = EmptyTable
  BY IdleNoDup, RefusedVals DEF IInv, TypeOK, Unused
<1>1. ASSUME NEW h \in Handles, New(h) PROVE IInv'
  <2>1. Store'
    BY <1>1, IInvStore DEF New, Store, WellFormed, RefcountExact, GivenFreed, Owned, Holders,
      TableType
  <2> QED
    BY <1>0, <1>1, <2>1, IdleStep DEF New, Return, Calls, Errors
<1>2. ASSUME NEW h \in Handles, Free(h) PROVE IInv'
  <2> DEFINE S == Range(tbl[h].list)
  <2>1. WellFormed(EmptyTable, key) /\ Range(EmptyTable.list) = S \ S
    BY EmptyWellFormed DEF EmptyTable, Range
  <2>2. Store'
    BY <1>2, <2>1, DropStep DEF Free
  <2>3. \A g \in Handles \ live' : tbl'[g] = EmptyTable
    BY <1>0, <1>2 DEF Free
  <2> QED
    BY <1>0, <1>2, <2>2, <2>3, IdleStep DEF Free, Return, Calls, Errors
<1>3. ASSUME NEW h \in Handles, NEW k \in Keys \cup {NoKey}, Del(h, k) PROVE IInv'
  <2> DEFINE old == IF k = NoKey THEN {} ELSE Lookup(tbl[h], k)
  <2>1. CASE old = {}
    <3>1. UNCHANGED <<tbl, key, refcount, freed, live, given, dup>> /\ Idle
      BY <1>3, <2>1 DEF Del
    <3>2. Store'
      BY <3>1, IInvStore DEF Store, WellFormed, RefcountExact, GivenFreed, Owned, Holders,
        TableType
    <3>3. ret' \in [op : Calls, rc : {"ok", "running"} \cup Errors]
      BY <1>3, <2>1 DEF Del, Return, Calls, Errors
    <3> QED
      BY <1>0, <3>1, <3>2, <3>3, IdleStep
  <2>2. CASE old # {}
    <3>1. k \in Keys /\ old = Lookup(tbl[h], k)
      BY <2>2
    <3> HIDE DEF old
    <3>2. /\ Idle /\ h \in live /\ live' = live /\ given' = given /\ dup' = dup
          /\ tbl' = [tbl EXCEPT ![h] = WithoutKey(tbl[h], k)]
          /\ key' = KeyAfter(old) /\ refcount' = RefsAfter(old)
          /\ freed' = FreedAfter(old)
          /\ ret' = [op |-> "del", rc |-> "ok"]
      BY <1>3, <2>2 DEF Del, old, Return
    <3>3. /\ WellFormed(WithoutKey(tbl[h], k), key)
          /\ Range(WithoutKey(tbl[h], k).list) = Range(tbl[h].list) \ old
      BY <3>1, WithoutKeyWellFormed DEF IInv
    <3>4. old \in SUBSET Range(tbl[h].list)
      BY <3>1, LookupFinds DEF IInv
    <3>5. Store'
      BY <3>2, <3>3, <3>4, DropStep
    <3>6. \A g \in Handles \ live' : tbl'[g] = EmptyTable
      BY <1>0, <3>2
    <3> QED
      BY <1>0, <3>2, <3>5, <3>6, IdleStep DEF Calls
  <2> QED
    BY <2>1, <2>2
<1>4. ASSUME NEW h \in Handles, NEW v \in Vals, SetInvalid(h, v) PROVE IInv'
  <2>1. Store'
    BY <1>4, OwnershipStep DEF SetInvalid
  <2> QED
    BY <1>0, <1>4, <2>1, IdleStep DEF SetInvalid, Return, Calls, Errors
<1>5. ASSUME NEW h \in Handles, NEW v \in Vals, NEW site \in Sites,
             SetNoMem(h, v, site)
      PROVE  IInv'
  <2>1. CallbacksOnFail(site) = 1
    BY DEF CallbacksOnFail, Sites
  <2>2. Store'
    BY <1>5, <2>1, OwnershipStep DEF SetNoMem
  <2> QED
    BY <1>0, <1>5, <2>2, IdleStep DEF SetNoMem, Return, Calls, Errors
<1>6. ASSUME NEW h \in Handles, NEW k \in Keys, NEW v \in Vals, SetOk(h, k, v)
      PROVE  IInv'
  <2>1. Store'
    BY <1>6, SetStep
  <2>2. \A g \in Handles \ live' : tbl'[g] = EmptyTable
    BY <1>0, <1>6 DEF SetOk
  <2> QED
    BY <1>0, <1>6, <2>1, <2>2, IdleStep DEF SetOk, Return, Calls, Errors
<1>7. ASSUME NEW h \in Handles, NEW k \in Keys, NEW v \in Vals,
             SetResizeFails(h, k, v)
      PROVE  IInv'
  <2>1. Store'
    BY <1>7, ResizeFailKeeps, OwnershipStep DEF SetResizeFails
  <2>2. tbl' = tbl
    BY <1>7, ResizeFailKeeps
  <2> QED
    BY <1>0, <1>7, <2>1, <2>2, IdleStep DEF SetResizeFails, Return, Calls, Errors
<1>8. ASSUME NEW src \in Handles, NEW dst \in Handles, DupBegin(src, dst)
      PROVE  IInv'
  <2>1. Store'
    BY <1>8, IInvStore DEF DupBegin, Store, WellFormed, RefcountExact, GivenFreed, Owned,
      Holders, TableType
  <2>2. CASE dup' = dup
    <3>1. ret' \in [op : Calls, rc : {"ok", "running"} \cup Errors]
      BY <1>8 DEF DupBegin, Return, Calls, Errors
    <3> QED
      BY <1>0, <1>8, <2>1, <2>2, <3>1, IdleStep DEF DupBegin
  <2>3. CASE dup' = [active |-> TRUE, src |-> src, dst |-> dst, pos |-> 1]
    <3>1. /\ src \in live /\ dst \in Handles \ live /\ tbl' = tbl /\ live' = live
          /\ given' = given
          /\ ret' \in [op : Calls, rc : {"ok", "running"} \cup Errors]
          /\ ret'.op = "dup"
      BY <1>8 DEF DupBegin, Return, Calls, Errors
    <3>2. tbl[dst] = EmptyTable
      BY <1>0, <1>8, <3>1 DEF DupBegin
    <3>3. Len(tbl[src].list) \in Nat
      BY DEF IInv, WellFormed, TableType
    <3>4. TypeOK'
      BY <1>0, <2>1, <2>3, <3>1, <3>3 DEF TypeOK, Store, WellFormed, DupType
    <3>5. CopyIsPrefix'
      BY <2>3, <3>1, <3>2 DEF CopyIsPrefix, EmptyTable
    <3>6. Unused'
      BY <1>0, <1>8, <3>1 DEF Unused, DupBegin
    <3> QED
      BY <2>1, <3>4, <3>5, <3>6 DEF IInv, Store
  <2> QED
    BY <1>8, <2>2, <2>3 DEF DupBegin
<1>d. ASSUME dup.active
      PROVE  /\ dup \in [active : {TRUE}, src : live, dst : Handles \ live, pos : Nat]
             /\ dup.pos \in 1..(Len(tbl[dup.src].list) + 1)
             /\ dup.src \in Handles /\ dup.dst \in Handles
             /\ Len(tbl[dup.src].list) \in Nat
             /\ \A h \in Handles \ live : tbl[h] = EmptyTable \/ dup.dst = h
  <2>1. dup # NoDup
    <3>1. ~NoDup.active
      BY DEF NoDup
    <3> QED
      BY <1>d, <3>1, Zenon
  <2>2. DupType /\ live \subseteq Handles
    BY DEF IInv, TypeOK
  <2>3. /\ dup \in [active : {TRUE}, src : live, dst : Handles \ live, pos : Nat]
        /\ dup.pos \in 1..(Len(tbl[dup.src].list) + 1)
    BY <2>1, <2>2 DEF DupType
  <2>4. dup.src \in Handles /\ dup.dst \in Handles
    BY <2>2, <2>3
  <2>5. Len(tbl[dup.src].list) \in Nat
    BY <2>4 DEF IInv, WellFormed, TableType
  <2>6. \A h \in Handles \ live : tbl[h] = EmptyTable \/ dup.dst = h
    BY DEF IInv, Unused
  <2> QED
    BY <2>3, <2>4, <2>5, <2>6, Zenon
<1>9. ASSUME DupCopy PROVE IInv'
  <2>1. Store' /\ CopyIsPrefix' /\ tbl'[dup.src] = tbl[dup.src]
    BY <1>9, CopyStep
  <2>2. /\ dup.active /\ dup.pos <= Len(tbl[dup.src].list)
        /\ dup' = [dup EXCEPT !.pos = @ + 1]
        /\ live' = live /\ given' = given /\ ret' = ret
        /\ \A h \in Handles \ {dup.dst} : tbl'[h] = tbl[h]
    BY <1>0, <1>9 DEF DupCopy
  <2>3. /\ dup' \in [active : {TRUE}, src : live', dst : Handles \ live', pos : Nat]
        /\ dup'.src = dup.src /\ dup'.dst = dup.dst /\ dup'.pos = dup.pos + 1
    <3>1. dup \in [active : {TRUE}, src : live, dst : Handles \ live, pos : Nat]
      BY <1>d, <2>2
    <3>2. dup' = [dup EXCEPT !.pos = @ + 1] /\ live' = live
      BY <2>2
    <3>3. /\ dup' = [active |-> TRUE, src |-> dup.src, dst |-> dup.dst, pos |-> dup.pos + 1]
          /\ dup.pos \in Nat /\ dup.src \in live /\ dup.dst \in Handles \ live
      BY <3>1, <3>2
    <3>4. dup' \in [active : {TRUE}, src : live, dst : Handles \ live, pos : Nat]
      BY <3>3
    <3>5. dup'.src = dup.src /\ dup'.dst = dup.dst /\ dup'.pos = dup.pos + 1
      BY <3>3
    <3> QED
      BY <3>2, <3>4, <3>5
  <2>4. dup'.pos \in 1..(Len(tbl'[dup'.src].list) + 1)
    <3>1. dup.pos \in Nat /\ Len(tbl[dup.src].list) \in Nat
      BY <1>d, <2>2
    <3> QED
      BY <2>1, <2>2, <2>3, <3>1
  <2>5. TypeOK'
    BY <1>0, <2>1, <2>2, <2>3, <2>4 DEF TypeOK, Store, WellFormed, DupType, IInv
  <2>6. Unused'
    BY <1>d, <2>2, <2>3 DEF Unused
  <2> QED
    BY <2>1, <2>5, <2>6 DEF IInv, Store
<1>10. ASSUME DupFail PROVE IInv'
  <2> DEFINE S == Range(tbl[dup.dst].list)
  <2>1. dup.active /\ dup' = NoDup /\ live' = live /\ given' = given
    BY <1>10 DEF DupFail
  <2>2. WellFormed(EmptyTable, key) /\ Range(EmptyTable.list) = S \ S
    BY EmptyWellFormed DEF EmptyTable, Range
  <2>3. PICK h \in Handles : h = dup.dst
    BY <1>d, <2>1
  <2>4. /\ tbl' = [tbl EXCEPT ![h] = EmptyTable]
        /\ key' = KeyAfter(S) /\ refcount' = RefsAfter(S) /\ freed' = FreedAfter(S)
    BY <1>10, <2>3 DEF DupFail
  <2>5. Store'
    BY <2>1, <2>2, <2>3, <2>4, DropStep
  <2>6. \A g \in Handles \ live' : tbl'[g] = EmptyTable
    BY <1>0, <1>d, <2>1, <2>3, <2>4
  <2>7. ret' \in [op : Calls, rc : {"ok", "running"} \cup Errors]
    BY <1>10 DEF DupFail, Return, Calls, Errors
  <2>8. TypeOK'
    BY <1>0, <2>1, <2>5, <2>7 DEF TypeOK, Store, WellFormed, DupType
  <2>9. CopyIsPrefix' /\ Unused'
    BY <2>1, <2>6 DEF CopyIsPrefix, Unused, NoDup
  <2> QED
    BY <2>5, <2>8, <2>9 DEF IInv, Store
<1>11. ASSUME DupEnd PROVE IInv'
  <2>1. /\ dup.active /\ dup' = NoDup /\ live' = live \cup {dup.dst}
        /\ UNCHANGED <<tbl, key, refcount, given, freed>>
    BY <1>11 DEF DupEnd
  <2>2. Store'
    BY <2>1, IInvStore DEF Store, WellFormed, RefcountExact, GivenFreed, Owned, Holders,
      TableType
  <2>3. ret' \in [op : Calls, rc : {"ok", "running"} \cup Errors]
    BY <1>11 DEF DupEnd, Return, Calls
  <2>4. TypeOK'
    BY <1>0, <1>d, <2>1, <2>2, <2>3 DEF TypeOK, Store, WellFormed, DupType
  <2>5. CopyIsPrefix' /\ Unused'
    BY <1>d, <2>1 DEF CopyIsPrefix, Unused, NoDup
  <2> QED
    BY <2>2, <2>4, <2>5 DEF IInv, Store
<1>12. CASE UNCHANGED vars
  <2>1. TypeOK'
    BY <1>12 DEF vars, IInv, TypeOK, TableType, DupType
  <2>2. Store'
    BY <1>12, IInvStore DEF vars, Store, WellFormed, RefcountExact, GivenFreed, Owned,
      Holders, TableType
  <2>3. Unused' /\ CopyIsPrefix'
    BY <1>12 DEF vars, IInv, Unused, CopyIsPrefix
  <2> QED
    BY <2>1, <2>2, <2>3 DEF IInv, Store
<1> QED
  BY <1>1, <1>2, <1>3, <1>4, <1>5, <1>6, <1>7, <1>8, <1>9, <1>10, <1>11, <1>12 DEF Next

-----------------------------------------------------------------------------
\* The inductive invariant holds in every reachable state.
THEOREM Invariance == Spec => []IInv
BY InitIInv, NextIInv, PTL DEF Spec

\* Type correctness of the hash table, for every set of handles, keys and
\* values, every hash function and every growth factor.
THEOREM TypeCorrect == Spec => []TypeOK
<1>1. IInv => TypeOK
  BY DEF IInv
<1> QED
  BY <1>1, Invariance, PTL

\* ec_htable_lookup() finds exactly what iteration shows, keys are unique, and
\* the array always has room for the elements.
THEOREM TableConsistent == Spec => [](UniqueKeys /\ ChainsMatchList /\ LoadBound)
<1>1. IInv => UniqueKeys /\ ChainsMatchList /\ LoadBound
  BY DEF IInv, UniqueKeys, ChainsMatchList, LoadBound, WellFormed, TableType
<1> QED
  BY <1>1, Invariance, PTL

\* The reference counter of an element is the number of tables that list it,
\* on every success and error path.
THEOREM RefcountCorrect == Spec => []RefcountExact
<1>1. IInv => RefcountExact
  BY DEF IInv
<1> QED
  BY <1>1, Invariance, PTL

-----------------------------------------------------------------------------
(***************************************************************************)
(* A value that ec_htable_set() refused is not owned and was not freed.    *)
(***************************************************************************)
NotOwned == refused \cap given = {} /\ \A v \in refused : freed[v] = 0

\* A reference that is dropped is one to an element of a table, and the values
\* of those are owned.
LEMMA DropKeepsRefused ==
  ASSUME IInv, NotOwned, NEW h \in Handles, NEW S \in SUBSET Range(tbl[h].list),
         NEW v \in refused
  PROVE  FreedAfter(S)[v] = 0
<1>1. v \in Vals /\ v \notin S /\ freed[v] = 0
  BY DEF IInv, TypeOK, Owned, NotOwned
<1> QED
  BY <1>1 DEF FreedAfter

\* What ec_htable_del() looks up is in the table.
LEMMA LookupListed ==
  ASSUME NEW T, WellFormed(T, key), NEW k \in Keys
  PROVE  Lookup(T, k) \subseteq Range(T.list)
BY LookupFinds

\* The tables of an ec_htable_dup() in progress, and the key of its element.
LEMMA DupFacts ==
  ASSUME IInv, dup.active
  PROVE  /\ dup.dst \in Handles
         /\ dup.pos <= Len(tbl[dup.src].list) => key[DupElt] \in Keys
<1>1. dup # NoDup
  <2>1. ~NoDup.active
    BY DEF NoDup
  <2> QED
    BY <2>1, Zenon
<1>2. /\ dup \in [active : {TRUE}, src : live, dst : Handles \ live, pos : Nat]
      /\ dup.pos \in 1..(Len(tbl[dup.src].list) + 1)
      /\ live \subseteq Handles
  BY <1>1 DEF IInv, TypeOK, DupType
<1>3. dup.src \in Handles /\ dup.dst \in Handles
  BY <1>2
<1>4. WellFormed(tbl[dup.src], key)
  BY <1>3 DEF IInv
<1>5. ASSUME dup.pos <= Len(tbl[dup.src].list) PROVE key[DupElt] \in Keys
  <2>1. tbl[dup.src].list \in Seq(Vals)
    BY <1>4 DEF WellFormed, TableType
  <2>2. dup.pos \in 1..Len(tbl[dup.src].list)
    BY <1>2, <1>5, <2>1
  <2>3. DupElt \in Range(tbl[dup.src].list)
    BY <2>1, <2>2 DEF DupElt, Range
  <2> QED
    BY <1>4, <2>3 DEF WellFormed
<1> QED
  BY <1>3, <1>5

LEMMA NextNotOwned == IInv /\ NotOwned /\ [Next]_vars => NotOwned'
<1> SUFFICES ASSUME IInv, NotOwned, [Next]_vars PROVE NotOwned'
  OBVIOUS
<1>0. freed \in [Vals -> Nat] /\ refused \subseteq Vals
  BY DEF IInv, TypeOK
<1>1. ASSUME NEW h \in Handles, New(h) \/ Free(h) PROVE NotOwned'
  <2>1. \A v \in refused : FreedAfter(Range(tbl[h].list))[v] = 0
    BY DropKeepsRefused
  <2> QED
    BY <1>1, <2>1 DEF New, Free, NotOwned
<1>2. ASSUME NEW h \in Handles, NEW k \in Keys \cup {NoKey}, Del(h, k) PROVE NotOwned'
  <2> DEFINE old == IF k = NoKey THEN {} ELSE Lookup(tbl[h], k)
  <2>1. old \subseteq Range(tbl[h].list)
    <3>1. CASE k = NoKey
      BY <3>1
    <3>2. CASE k # NoKey
      BY <3>2, LookupListed DEF IInv
    <3> QED
      BY <3>1, <3>2
  <2>2. \A v \in refused : FreedAfter(old)[v] = 0
    BY <2>1, DropKeepsRefused
  <2>3. given' = given /\ refused' = refused /\ freed' \in {freed, FreedAfter(old)}
    BY <1>2 DEF Del
  <2> QED
    BY <2>2, <2>3 DEF NotOwned
<1>3. ASSUME NEW h \in Handles, NEW v \in Vals, SetInvalid(h, v) PROVE NotOwned'
  BY <1>0, <1>3 DEF SetInvalid, NotOwned
<1>4. ASSUME NEW h \in Handles, NEW v \in Vals, NEW site \in Sites, SetNoMem(h, v, site)
      PROVE  NotOwned'
  BY <1>0, <1>4 DEF SetNoMem, NotOwned
<1>5. ASSUME NEW h \in Handles, NEW k \in Keys, NEW v \in Vals,
             SetOk(h, k, v) \/ SetResizeFails(h, k, v)
      PROVE  NotOwned'
  <2>1. \A w \in refused : FreedAfter(Lookup(tbl[h], k))[w] = 0
    BY LookupListed, DropKeepsRefused DEF IInv
  <2>2. /\ refused' = refused \ {v} /\ given' = given \cup {v}
        /\ \A w \in Vals \ {v} : freed'[w] = FreedAfter(Lookup(tbl[h], k))[w]
    BY <1>5 DEF SetOk, SetResizeFails, FreedAfter
  <2> QED
    BY <1>0, <2>1, <2>2 DEF NotOwned
<1>6. ASSUME NEW src \in Handles, NEW dst \in Handles, DupBegin(src, dst) PROVE NotOwned'
  BY <1>6 DEF DupBegin, NotOwned
<1>7. CASE DupCopy \/ DupFail
  <2>1. dup.active /\ dup.dst \in Handles /\ key[DupElt] \in Keys
    BY <1>7, DupFacts DEF DupCopy, DupFail
  <2>2. Lookup(tbl[dup.dst], key[DupElt]) \subseteq Range(tbl[dup.dst].list)
    BY <2>1, LookupListed DEF IInv
  <2>3. /\ \A v \in refused : FreedAfter(Lookup(tbl[dup.dst], key[DupElt]))[v] = 0
        /\ \A v \in refused : FreedAfter(Range(tbl[dup.dst].list))[v] = 0
    BY <2>1, <2>2, DropKeepsRefused
  <2> QED
    BY <1>7, <2>3 DEF DupCopy, DupFail, NotOwned
<1>8. CASE DupEnd
  BY <1>8 DEF DupEnd, NotOwned
<1>9. CASE UNCHANGED vars
  BY <1>9 DEF vars, NotOwned
<1> QED
  BY <1>1, <1>2, <1>3, <1>4, <1>5, <1>6, <1>7, <1>8, <1>9 DEF Next

\* A value that the library accepted is destroyed exactly once, when the last
\* table lets go of it; one refused with EINVAL never is.
THEOREM ValuesFreedOnce == Spec => []FreedOnce
<1>1. Init => NotOwned
  BY DEF Init, NotOwned
<1>2. IInv /\ NotOwned => FreedOnce
  BY DEF IInv, NotOwned, FreedOnce, GivenFreed, RefusedKept, Owned, Holders
<1> QED
  BY <1>1, <1>2, NextNotOwned, Invariance, PTL DEF Spec

\* ec_htable_set() that fails changes no table, although the previous entry is
\* removed before the resize is attempted.
THEOREM FailedSetKeeps == Spec => FailedSetKeepsTable
<1>1. IInv /\ [Next]_vars => [ret'.op = "set" /\ ret'.rc \in Errors => tbl' = tbl]_vars
  <2> SUFFICES ASSUME IInv, Next, ret'.op = "set", ret'.rc \in Errors
               PROVE  tbl' = tbl
    BY DEF vars
  <2>1. ASSUME NEW h \in Handles, NEW k \in Keys, NEW v \in Vals, SetOk(h, k, v)
        PROVE  FALSE
    BY <2>1 DEF SetOk, Return, Errors
  <2>2. ASSUME NEW h \in Handles, NEW k \in Keys, NEW v \in Vals,
               SetResizeFails(h, k, v)
        PROVE  tbl' = tbl
    BY <2>2, ResizeFailKeeps
  <2>3. ASSUME NEW h \in Handles, NEW k \in Keys \cup {NoKey}, Del(h, k) PROVE FALSE
    BY <2>3 DEF Del, Return
  <2>4. ASSUME NEW h \in Handles, Free(h) PROVE FALSE
    BY <2>4 DEF Free, Return
  <2>5. ASSUME DupCopy PROVE FALSE
    BY <2>5 DEF DupCopy, IInv, CopyIsPrefix
  <2>6. ASSUME DupFail \/ DupEnd PROVE FALSE
    BY <2>6 DEF DupFail, DupEnd, Return
  <2> QED
    BY <2>1, <2>2, <2>3, <2>4, <2>5, <2>6 DEF Next, New, SetInvalid, SetNoMem, DupBegin
<1> QED
  BY <1>1, Invariance, PTL DEF Spec, FailedSetKeepsTable

-----------------------------------------------------------------------------
(***************************************************************************)
(* The hash table implements the ordered map.  A table's content is its    *)
(* list with the keys looked up; a value is owned while a table the caller *)
(* holds maps to it, because the copy an ec_htable_dup() is building only  *)
(* holds elements of its source.                                           *)
(***************************************************************************)

Content == [h \in Handles |-> IF h \in live THEN Entries(tbl[h]) ELSE <<>>]
Values == {v \in given : freed[v] = 0}

\* the entries of a list under an assignment K of keys to elements
Pairs(s, K) == [i \in DOMAIN s |-> <<K[s[i]], s[i]>>]

\* The library owns exactly the values that the caller's tables map to: a
\* value the unfinished copy holds is also in the table being copied.
LEMMA OwnedIsHeld == IInv => Values = Map!InSome(Content)
<1> SUFFICES ASSUME IInv PROVE Values = Map!InSome(Content)
  OBVIOUS
<1>1. ASSUME NEW v \in Values PROVE v \in Map!InSome(Content)
  <2>1. PICK h \in Handles : v \in Range(tbl[h].list)
    BY DEF Values, IInv, GivenFreed, Holders
  <2>2. PICK g \in live : g \in Handles /\ v \in Range(tbl[g].list)
    <3>1. CASE h \in live
      BY <2>1, <3>1
    <3>2. CASE h \notin live
      <4>1. tbl[h] # EmptyTable
        BY <2>1 DEF EmptyTable, Range
      <4>2. dup.active /\ dup.dst = h
        BY <3>2, <4>1 DEF IInv, Unused
      <4>3. dup # NoDup
        <5>1. ~NoDup.active
          BY DEF NoDup
        <5> QED
          BY <4>2, <5>1, Zenon
      <4>4. /\ dup.src \in live /\ live \subseteq Handles
            /\ dup.pos \in 1..(Len(tbl[dup.src].list) + 1)
        BY <4>3 DEF IInv, TypeOK, DupType
      <4>5. /\ tbl[h].list \in Seq(Vals)
            /\ tbl[dup.src].list \in Seq(Vals)
        BY <4>4 DEF IInv, WellFormed, TableType
      <4>6. PICK i \in 1..(dup.pos - 1) : v = tbl[dup.src].list[i]
        BY <2>1, <4>2, <4>5 DEF IInv, CopyIsPrefix, Range
      <4>7. i \in DOMAIN tbl[dup.src].list
        BY <4>4, <4>5
      <4> QED
        BY <4>4, <4>6, <4>7 DEF Range
    <3> QED
      BY <3>1, <3>2
  <2>3. PICK i \in DOMAIN tbl[g].list : v = tbl[g].list[i]
    BY <2>2 DEF Range
  <2>4. DOMAIN Content[g] = DOMAIN tbl[g].list /\ Content[g][i][2] = v
    BY <2>2, <2>3 DEF Content, Entries
  <2> QED
    BY <2>2, <2>3, <2>4 DEF Map!InSome
<1>2. ASSUME NEW v \in Map!InSome(Content) PROVE v \in Values
  <2>1. PICK h \in Handles : \E i \in DOMAIN Content[h] : v = Content[h][i][2]
    BY DEF Map!InSome
  <2>2. PICK i \in DOMAIN Content[h] : v = Content[h][i][2]
    BY <2>1
  <2>3. h \in live
    BY <2>2 DEF Content
  <2>4. v \in Range(tbl[h].list)
    BY <2>2, <2>3 DEF Content, Entries, Range
  <2>5. v \in given
    BY <2>4 DEF IInv, Owned
  <2> QED
    BY <2>4, <2>5 DEF Values, IInv, GivenFreed, Holders
<1> QED
  BY <1>1, <1>2

\* The same after a step.
LEMMA OwnedIsHeldNext ==
  ASSUME IInv' PROVE Values' = Map!InSome(Content')
<1>1. (Values = Map!InSome(Content))'
  BY OwnedIsHeld, PTL
<1> QED
  BY <1>1 DEF Map!InSome

\* Removing a position of the list removes that position of the content.
LEMMA PairsRemoveAt ==
  ASSUME NEW s \in Seq(Vals), NEW i \in 1..Len(s), NEW K, NEW L,
         \A e \in Range(SE!RemoveAt(s, i)) : L[e] = K[e]
  PROVE  Pairs(SE!RemoveAt(s, i), L) = Map!SE!RemoveAt(Pairs(s, K), i)
<1> DEFINE r == SE!RemoveAt(s, i)
           P == Pairs(s, K)
           V == {<<K[e], e>> : e \in Vals}
<1>1. /\ r \in Seq(Vals)
      /\ Len(r) = Len(s) - 1
      /\ \A j \in 1..(Len(s) - 1) : r[j] = IF j < i THEN s[j] ELSE s[j + 1]
  BY RemoveAtProps
<1>2. P \in Seq(V) /\ Len(P) = Len(s) /\ \A j \in 1..Len(s) : P[j] = <<K[s[j]], s[j]>>
  BY DEF Pairs
<1> HIDE DEF P, V
<1>3. /\ SE!RemoveAt(P, i) \in Seq(V)
      /\ Len(SE!RemoveAt(P, i)) = Len(s) - 1
      /\ \A j \in 1..(Len(s) - 1) :
           SE!RemoveAt(P, i)[j] = IF j < i THEN P[j] ELSE P[j + 1]
  BY <1>2, RemoveAtProps
<1>4. Map!SE!RemoveAt(P, i) = SE!RemoveAt(P, i)
  BY DEF Map!SE!RemoveAt, SE!RemoveAt
<1> HIDE DEF r
<1>5. Pairs(r, L) = [j \in 1..(Len(s) - 1) |-> <<L[r[j]], r[j]>>]
  BY <1>1 DEF Pairs
<1>6. SE!RemoveAt(P, i) = [j \in 1..(Len(s) - 1) |-> SE!RemoveAt(P, i)[j]]
  BY <1>3
<1>7. ASSUME NEW j \in 1..(Len(s) - 1)
      PROVE  SE!RemoveAt(P, i)[j] = <<L[r[j]], r[j]>>
  <2>1. r[j] \in Range(r)
    BY <1>1 DEF Range
  <2>2. L[r[j]] = K[r[j]]
    BY <2>1 DEF r
  <2>3. j \in 1..Len(s) /\ j + 1 \in 1..Len(s)
    OBVIOUS
  <2>4. P[j] = <<K[s[j]], s[j]>> /\ P[j + 1] = <<K[s[j + 1]], s[j + 1]>>
    BY <1>2, <2>3
  <2> QED
    BY <1>1, <1>3, <2>2, <2>4
<1> QED
  BY <1>4, <1>5, <1>6, <1>7 DEF P, r

\* Appending an element appends its entry.
LEMMA PairsAppend ==
  ASSUME NEW s \in Seq(Vals), NEW e \in Vals, NEW K
  PROVE  Pairs(Append(s, e), K) = Append(Pairs(s, K), <<K[e], e>>)
<1>1. Append(s, e) \in Seq(Vals) /\ Len(Append(s, e)) = Len(s) + 1
  OBVIOUS
<1> DEFINE P == Pairs(s, K)
           V == {<<K[x], x>> : x \in Vals}
<1>2. P \in Seq(V) /\ Len(P) = Len(s) /\ \A j \in 1..Len(s) : P[j] = <<K[s[j]], s[j]>>
  BY DEF Pairs
<1> HIDE DEF P
<1>3. <<K[e], e>> \in V
  OBVIOUS
<1> HIDE DEF V
<1>4. /\ Append(P, <<K[e], e>>) \in Seq(V)
      /\ Len(Append(P, <<K[e], e>>)) = Len(s) + 1
  BY <1>2, <1>3
<1>5. ASSUME NEW j \in 1..(Len(s) + 1)
      PROVE  <<K[Append(s, e)[j]], Append(s, e)[j]>> = Append(P, <<K[e], e>>)[j]
  BY <1>2, <1>3
<1>6. Pairs(Append(s, e), K)
        = [j \in 1..(Len(s) + 1) |-> <<K[Append(s, e)[j]], Append(s, e)[j]>>]
  BY <1>1 DEF Pairs
<1>7. Append(P, <<K[e], e>>) = [j \in 1..(Len(s) + 1) |-> Append(P, <<K[e], e>>)[j]]
  BY <1>4
<1> QED
  BY <1>5, <1>6, <1>7 DEF P

\* Where the element that WithoutKey() unlinks was.
LEMMA WithoutKeyList ==
  ASSUME NEW T, WellFormed(T, key), NEW k \in Keys, Lookup(T, k) # {}
  PROVE  \E i \in 1..Len(T.list) :
           /\ key[T.list[i]] = k
           /\ Lookup(T, k) = {T.list[i]}
           /\ WithoutKey(T, k).list = SE!RemoveAt(T.list, i)
<1> DEFINE e == CHOOSE x \in Lookup(T, k) : TRUE
           i == IndexOf(T.list, e)
<1>1. e \in Lookup(T, k) /\ WithoutKey(T, k) = Unlink(T, e)
  BY DEF WithoutKey
<1> HIDE DEF e
<1>2. e \in Range(T.list) /\ key[e] = k
  BY <1>1, LookupFinds
<1>3. i \in 1..Len(T.list) /\ T.list[i] = e
  BY <1>2 DEF IndexOf, Range, WellFormed, TableType
<1>4. WithoutKey(T, k).list = SE!RemoveAt(T.list, i)
  BY <1>1 DEF Unlink
<1> HIDE DEF i
<1>5. Lookup(T, k) = {e}
  <2>1. \A x \in Range(T.list) : key[x] = k => x = e
    BY <1>2 DEF WellFormed, Range
  <2> QED
    BY <1>1, <2>1, LookupFinds
<1> QED
  BY <1>2, <1>3, <1>4, <1>5

\* The content of the tables, entry by entry.
LEMMA ContentAt ==
  /\ \A h \in live : h \in Handles => Content[h] = Pairs(tbl[h].list, key)
  /\ \A h \in Handles \ live : Content[h] = <<>>
  /\ Content = [h \in Handles |-> Content[h]]
BY DEF Content, Entries, Pairs

\* The same after a step.
LEMMA ContentAtNext ==
  /\ \A h \in live' : h \in Handles => Content'[h] = Pairs(tbl'[h].list, key')
  /\ \A h \in Handles \ live' : Content'[h] = <<>>
  /\ Content' = [h \in Handles |-> Content'[h]]
BY DEF Content, Entries, Pairs

\* A table whose list and keys do not change keeps its content.
LEMMA ContentKept ==
  ASSUME NEW h \in Handles, h \in live' <=> h \in live,
         h \in live => tbl'[h].list = tbl[h].list,
         h \in live => \A e \in Range(tbl[h].list) : key'[e] = key[e]
  PROVE  Content'[h] = Content[h]
<1>1. CASE h \in live
  <2>1. \A i \in DOMAIN tbl[h].list : tbl[h].list[i] \in Range(tbl[h].list)
    BY DEF Range
  <2>2. Pairs(tbl'[h].list, key') = Pairs(tbl[h].list, key)
    BY <1>1, <2>1 DEF Pairs
  <2> QED
    BY <1>1, <2>2, ContentAt, ContentAtNext
<1>2. CASE h \notin live
  BY <1>2, ContentAt, ContentAtNext
<1> QED
  BY <1>1, <1>2

\* A step that changes neither the caller's tables nor their content is no
\* step of the map.
LEMMA MapStutters ==
  ASSUME IInv, IInv', live' = live, Content' = Content
  PROVE  UNCHANGED Map!mapVars
<1>1. Values = Map!InSome(Content)
  BY OwnedIsHeld
<1>2. Values' = Map!InSome(Content')
  BY OwnedIsHeldNext
<1> QED
  BY <1>1, <1>2 DEF Map!mapVars, Content, Values

\* ec_htable_set() that succeeds adds an entry to the map or replaces one.
LEMMA SetIsMapStep ==
  ASSUME IInv, IInv', NEW h \in Handles, NEW k \in Keys, NEW v \in Vals, SetOk(h, k, v)
  PROVE  Map!Add(h, k, v) \/ Map!Replace(h, k, v)
<1> DEFINE T == tbl[h]
           old == Lookup(T, k)
<1>1. /\ WellFormed(T, key)
      /\ old = {e \in Range(T.list) : key[e] = k}
      /\ h \in live /\ live' = live
      /\ key' = [KeyAfter(old) EXCEPT ![v] = k]
      /\ tbl' = [tbl EXCEPT ![h] = Insert(T, v, k)]
  BY LookupFinds DEF IInv, SetOk
<1>2. Holders(v) = {} /\ v \notin Values
  <2>1. Holders(v) = {}
    BY AvailableUnheld DEF SetOk
  <2> QED
    BY <2>1 DEF Values, IInv, GivenFreed
<1>3. Insert(T, v, k).list = Append(WithoutKey(T, k).list, v)
  <2> DEFINE K == [e \in Vals |-> IF e = v THEN k ELSE key[e]]
  <2>1. K[v] = k /\ \A x \in Range(T.list) \ Lookup(T, k) : K[x] = key[x]
    BY <1>1, <1>2 DEF Holders, WellFormed, TableType, Range
  <2> HIDE DEF K
  <2> QED
    BY <1>1, <2>1, InsertWellFormed
<1>4. tbl'[h].list = Append(WithoutKey(T, k).list, v)
      /\ \A g \in Handles \ {h} : tbl'[g] = tbl[g]
  BY <1>1, <1>3 DEF IInv, TypeOK
<1> HIDE DEF T, old
<1>5. ASSUME NEW e, e # v, e \notin old, e \in Vals PROVE key'[e] = key[e]
  BY <1>1, <1>5 DEF KeyAfter
<1>6. key'[v] = k
  BY <1>1 DEF KeyAfter
\* the other tables keep the element the call drops a reference to: its
\* counter was not 1
<1>7. ASSUME NEW g \in Handles \ {h} PROVE Content'[g] = Content[g]
  <2>1. ASSUME NEW e \in Range(tbl[g].list) PROVE key'[e] = key[e]
    <3>1. e \in Vals /\ e # v /\ g \in Holders(e)
      BY <1>2 DEF Holders, IInv, WellFormed, TableType, Range
    <3>2. CASE e \notin old
      BY <1>5, <3>1, <3>2
    <3>3. CASE e \in old
      <4>1. h \in Holders(e)
        BY <1>1, <3>3 DEF Holders, T
      <4>2. Cardinality(Holders(e)) # 1
        BY <3>1, <4>1, HoldersFinite, FS_Singleton
      <4>3. refcount[e] # 1
        BY <3>1, <4>2 DEF IInv, RefcountExact
      <4> QED
        BY <1>1, <3>1, <4>3 DEF KeyAfter
    <3> QED
      BY <3>2, <3>3
  <2> QED
    BY <1>1, <1>4, <2>1, ContentKept
<1>8. Content[h] = Pairs(T.list, key) /\ Content'[h] = Pairs(tbl'[h].list, key')
  BY <1>1, ContentAt, ContentAtNext DEF T
<1>9. Values' = Map!InSome(Content')
  BY OwnedIsHeldNext
<1>10. T.list \in Seq(Vals)
  BY <1>1 DEF WellFormed, TableType
<1>11. CASE old = {}
  <2>1. WithoutKey(T, k).list = T.list
    BY <1>11 DEF WithoutKey, old
  <2>2. \A e \in Range(T.list) : key'[e] = key[e] /\ key[e] # k
    BY SMTT(40), <1>1, <1>2, <1>5, <1>10, <1>11 DEF Holders, Range, T
  <2>3. Pairs(T.list, key') = Pairs(T.list, key)
    BY <2>2 DEF Pairs, Range
  <2>4. Content'[h] = Append(Content[h], <<k, v>>)
    BY <1>4, <1>6, <1>8, <1>10, <2>1, <2>3, PairsAppend
  <2>5. \A i \in DOMAIN Content[h] : Content[h][i][1] # k
    BY <1>8, <2>2 DEF Pairs, Range
  <2>6. Content' = [Content EXCEPT ![h] = Append(@, <<k, v>>)]
    BY <1>7, <2>4, ContentAt, ContentAtNext
  <2> QED
    BY <1>1, <1>2, <1>9, <2>5, <2>6 DEF Map!Add, Map!Become, Content, Values
<1>12. CASE old # {}
  <2>0. WellFormed(T, key) /\ Lookup(T, k) # {} /\ k \in Keys
    BY <1>1, <1>12 DEF old
  <2>1. PICK i \in 1..Len(T.list) : /\ key[T.list[i]] = k
                                   /\ old = {T.list[i]}
                                   /\ WithoutKey(T, k).list = SE!RemoveAt(T.list, i)
    <3> HIDE DEF T
    <3>1. \E i \in 1..Len(T.list) : /\ key[T.list[i]] = k
                                   /\ Lookup(T, k) = {T.list[i]}
                                   /\ WithoutKey(T, k).list = SE!RemoveAt(T.list, i)
      BY <2>0, WithoutKeyList
    <3> QED
      BY <3>1 DEF old
  <2> DEFINE r == SE!RemoveAt(T.list, i)
  <2>2. r \in Seq(Vals) /\ Range(r) = Range(T.list) \ {T.list[i]}
    <3>1. \A j \in 1..Len(T.list) : T.list[j] = T.list[i] => j = i
      BY <1>1, <1>10 DEF WellFormed
    <3> QED
      BY <1>10, <3>1, RemoveAtProps, RemoveAtRange
  <2> HIDE DEF r
  <2>3. \A e \in Range(r) : key'[e] = key[e]
    <3>1. v \notin Range(T.list)
      BY <1>1, <1>2 DEF Holders, T
    <3>2. Range(T.list) \subseteq Vals
      BY <1>10 DEF Range
    <3> QED
      BY <1>5, <2>1, <2>2, <3>1, <3>2
  <2>4. Pairs(r, key') = Map!SE!RemoveAt(Content[h], i)
    BY <1>8, <1>10, <2>3, PairsRemoveAt DEF r
  <2>5. Content'[h] = Append(Map!SE!RemoveAt(Content[h], i), <<k, v>>)
    BY <1>4, <1>6, <1>8, <2>1, <2>2, <2>4, PairsAppend DEF r
  <2>6. i \in DOMAIN Content[h] /\ Content[h][i][1] = k
    BY <1>8, <1>10, <2>1 DEF Pairs
  <2>7. Content' = [Content EXCEPT ![h] = Append(Map!SE!RemoveAt(@, i), <<k, v>>)]
    BY <1>7, <2>5, ContentAt, ContentAtNext
  <2> QED
    BY <1>1, <1>2, <1>9, <2>6, <2>7 DEF Map!Replace, Map!Become, Content, Values
<1> QED
  BY <1>11, <1>12

\* A step that makes table h drop its references to S changes no other
\* table's content.
LEMMA DropKeepsOthers ==
  ASSUME IInv, NEW h \in Handles, NEW S \in SUBSET Range(tbl[h].list),
         key' = KeyAfter(S), NEW g \in Handles \ {h}, tbl'[g] = tbl[g],
         g \in live' <=> g \in live
  PROVE  Content'[g] = Content[g]
<1>1. ASSUME NEW e \in Range(tbl[g].list) PROVE key'[e] = key[e]
  <2>1. e \in Vals /\ g \in Holders(e)
    BY DEF Holders, IInv, WellFormed, TableType, Range
  <2>2. CASE e \notin S
    BY <2>1, <2>2 DEF KeyAfter
  <2>3. CASE e \in S
    <3>1. h \in Holders(e)
      BY <2>3 DEF Holders
    <3>2. Cardinality(Holders(e)) # 1
      BY <2>1, <3>1, HoldersFinite, FS_Singleton
    <3>3. refcount[e] # 1
      BY <2>1, <3>2 DEF IInv, RefcountExact
    <3> QED
      BY <2>1, <3>3 DEF KeyAfter
  <2> QED
    BY <2>2, <2>3
<1> QED
  BY <1>1, ContentKept

\* ec_htable_del() removes the entry of the key or changes nothing.
LEMMA DelIsMapStep ==
  ASSUME IInv, IInv', NEW h \in Handles, NEW k \in Keys \cup {NoKey}, Del(h, k)
  PROVE  Map!Remove(h) \/ UNCHANGED Map!mapVars
<1> DEFINE T == tbl[h]
           old == IF k = NoKey THEN {} ELSE Lookup(T, k)
<1>1. h \in live /\ live' = live /\ WellFormed(T, key)
  BY DEF Del, IInv
<1>2. CASE UNCHANGED <<tbl, key>>
  <2>1. Content' = Content
    BY <1>1, <1>2 DEF Content, Entries
  <2> QED
    BY <1>1, <2>1, MapStutters
<1>3. CASE /\ old # {}
           /\ tbl' = [tbl EXCEPT ![h] = WithoutKey(T, k)]
           /\ key' = KeyAfter(old)
  <2>1. k \in Keys /\ old = Lookup(T, k) /\ Lookup(T, k) # {}
    BY <1>3
  <2>2. PICK i \in 1..Len(T.list) : /\ key[T.list[i]] = k
                                    /\ Lookup(T, k) = {T.list[i]}
                                    /\ WithoutKey(T, k).list = SE!RemoveAt(T.list, i)
    BY <1>1, <2>1, WithoutKeyList
  <2> DEFINE r == SE!RemoveAt(T.list, i)
  <2>3. T.list \in Seq(Vals)
    BY <1>1 DEF WellFormed, TableType
  <2>4. Range(r) = Range(T.list) \ {T.list[i]}
    <3>1. \A j \in 1..Len(T.list) : T.list[j] = T.list[i] => j = i
      BY <1>1, <2>3 DEF WellFormed
    <3> QED
      BY <2>3, <3>1, RemoveAtRange
  <2> HIDE DEF r
  <2>5. \A e \in Range(r) : key'[e] = key[e]
    BY <1>3, <2>1, <2>2, <2>3, <2>4 DEF KeyAfter, Range
  <2>6. Pairs(r, key') = Map!SE!RemoveAt(Pairs(T.list, key), i)
    BY <2>3, <2>5, PairsRemoveAt DEF r
  <2>7. /\ tbl'[h].list = r
        /\ \A g \in Handles \ {h} : tbl'[g] = tbl[g]
    BY <1>3, <2>2 DEF IInv, TypeOK, r
  <2>8. Content[h] = Pairs(T.list, key) /\ Content'[h] = Pairs(r, key')
    BY <1>1, <2>7, ContentAt, ContentAtNext
  <2>9. ASSUME NEW g \in Handles \ {h} PROVE Content'[g] = Content[g]
    <3>1. old \in SUBSET Range(tbl[h].list)
      BY <2>1, <2>2, <2>3 DEF Range
    <3> QED
      BY <1>1, <1>3, <2>7, <3>1, DropKeepsOthers
  <2>10. Content' = [Content EXCEPT ![h] = Map!SE!RemoveAt(@, i)]
    BY <2>6, <2>8, <2>9, ContentAt, ContentAtNext
  <2>11. i \in DOMAIN Content[h]
    BY <2>3, <2>8 DEF Pairs
  <2>12. Values' = Map!InSome(Content')
    BY OwnedIsHeldNext
  <2> QED
    BY <1>1, <2>10, <2>11, <2>12 DEF Map!Remove, Map!Become, Content, Values
<1> QED
  BY <1>2, <1>3 DEF Del

\* ec_htable_free() destroys the table and the values only it maps to.
LEMMA FreeIsMapStep ==
  ASSUME IInv, IInv', NEW h \in Handles, Free(h)
  PROVE  Map!Destroy(h)
<1>1. /\ h \in live /\ live' = live \ {h}
      /\ tbl' = [tbl EXCEPT ![h] = EmptyTable]
      /\ key' = KeyAfter(Range(tbl[h].list))
  BY DEF Free
<1>2. ASSUME NEW g \in Handles \ {h} PROVE Content'[g] = Content[g]
  <2>1. tbl'[g] = tbl[g] /\ (g \in live' <=> g \in live)
    BY <1>1 DEF IInv, TypeOK
  <2> QED
    BY <1>1, <2>1, DropKeepsOthers
<1>3. Content'[h] = <<>>
  BY <1>1, ContentAtNext
<1>4. Content' = [Content EXCEPT ![h] = <<>>]
  BY <1>2, <1>3, ContentAt, ContentAtNext
<1>5. Values' = Map!InSome(Content')
  BY OwnedIsHeldNext
<1> QED
  BY <1>1, <1>4, <1>5 DEF Map!Destroy, Map!Become, Content, Values

\* The last iteration of ec_htable_dup() publishes a copy of the source: its
\* list is as long as the source's and agrees with it.
LEMMA DupIsMapStep ==
  ASSUME IInv, IInv', DupEnd
  PROVE  \E s, d \in Handles : Map!Copy(s, d)
<1> DEFINE src == tbl[dup.src].list
           dst == tbl[dup.dst].list
<1>1. /\ dup.active /\ dup.pos > Len(src) /\ live' = live \cup {dup.dst}
      /\ UNCHANGED <<tbl, key, given, freed>>
  BY DEF DupEnd
<1>2. dup # NoDup
  <2>1. ~NoDup.active
    BY DEF NoDup
  <2> QED
    BY <1>1, <2>1, Zenon
<1>3. /\ dup.src \in live /\ dup.dst \in Handles \ live /\ live \subseteq Handles
      /\ dup.pos \in 1..(Len(src) + 1)
  BY <1>2 DEF IInv, TypeOK, DupType
<1>4. src \in Seq(Vals) /\ dst \in Seq(Vals)
  BY <1>3 DEF IInv, WellFormed, TableType
<1>5. Len(dst) = dup.pos - 1 /\ \A i \in 1..(dup.pos - 1) : dst[i] = src[i]
  BY <1>1 DEF IInv, CopyIsPrefix
<1> HIDE DEF src, dst
<1>6. dup.pos = Len(src) + 1 /\ Len(src) \in Nat
  BY <1>1, <1>3, <1>4
<1>7. dst = src
  BY <1>4, <1>5, <1>6
<1>8. Content'[dup.dst] = Content[dup.src]
  <2>1. Content'[dup.dst] = Pairs(tbl'[dup.dst].list, key')
    BY <1>1, <1>3, ContentAtNext
  <2>2. Content[dup.src] = Pairs(tbl[dup.src].list, key)
    BY <1>3, ContentAt
  <2> QED
    BY <1>1, <1>7, <2>1, <2>2 DEF src, dst
<1>9. \A g \in Handles \ {dup.dst} : Content'[g] = Content[g]
  BY <1>1, ContentKept
<1>10. Content' = [Content EXCEPT ![dup.dst] = Content[dup.src]]
  BY <1>8, <1>9, ContentAt, ContentAtNext
<1>11. Values' = Values
  BY <1>1 DEF Values
<1>12. PICK s, d \in Handles : s = dup.src /\ d = dup.dst
  BY <1>3
<1>13. Map!Copy(s, d)
  BY <1>1, <1>3, <1>10, <1>11, <1>12 DEF Map!Copy, Content, Values
<1> QED
  BY <1>13


\* The other iterations of ec_htable_dup(), and its failure, are invisible:
\* they touch a table the caller does not have yet.
LEMMA DupStutters ==
  ASSUME IInv, IInv', DupCopy \/ DupFail
  PROVE  UNCHANGED Map!mapVars
<1>1. dup.active /\ dup.pos <= Len(tbl[dup.src].list) /\ live' = live
  BY DEF DupCopy, DupFail
<1>2. dup # NoDup
  <2>1. ~NoDup.active
    BY DEF NoDup
  <2> QED
    BY <1>1, <2>1, Zenon
<1>3. /\ dup.src \in live /\ dup.dst \in Handles \ live /\ live \subseteq Handles
      /\ dup.pos \in 1..(Len(tbl[dup.src].list) + 1)
  BY <1>2 DEF IInv, TypeOK, DupType
<1>4. PICK h \in Handles : h = dup.dst
  BY <1>3
<1>5. PICK S \in SUBSET Range(tbl[h].list) : key' = KeyAfter(S)
  <2>1. CASE DupCopy
    <3>1. WellFormed(tbl[dup.src], key) /\ WellFormed(tbl[h], key)
      BY <1>3 DEF IInv
    <3>2. DupElt \in Range(tbl[dup.src].list)
      BY <1>1, <1>3, <3>1 DEF DupElt, WellFormed, TableType, Range
    <3>3. key[DupElt] \in Keys
      BY <3>1, <3>2 DEF WellFormed
    <3>4. Lookup(tbl[h], key[DupElt]) \subseteq Range(tbl[h].list)
      BY <3>1, <3>3, LookupFinds
    <3>5. key' = KeyAfter(Lookup(tbl[h], key[DupElt]))
      BY <1>4, <2>1 DEF DupCopy
    <3> QED
      BY <3>4, <3>5
  <2>2. CASE DupFail
    BY <1>4, <2>2 DEF DupFail
  <2> QED
    BY <2>1, <2>2
<1>6. \A g \in Handles \ {h} : tbl'[g] = tbl[g]
  BY <1>4 DEF DupCopy, DupFail, IInv, TypeOK
<1>7. \A g \in Handles \ {h} : Content'[g] = Content[g]
  BY <1>1, <1>5, <1>6, DropKeepsOthers
<1>8. Content'[h] = Content[h]
  BY <1>1, <1>3, <1>4, ContentKept
<1>9. Content' = Content
  BY <1>7, <1>8, ContentAt, ContentAtNext
<1> QED
  BY <1>1, <1>9, MapStutters

\* Every step of the hash table is a step of the ordered map or a stutter.
LEMMA NextMap == IInv /\ IInv' /\ [Next]_vars => [Map!Next]_(Map!mapVars)
<1> SUFFICES ASSUME IInv, IInv', [Next]_vars
             PROVE  Map!Next \/ UNCHANGED Map!mapVars
  OBVIOUS
<1>1. ASSUME live' = live, tbl' = tbl, key' = key PROVE UNCHANGED Map!mapVars
  <2>1. Content' = Content
    BY <1>1 DEF Content, Entries
  <2> QED
    BY <1>1, <2>1, MapStutters
<1>2. ASSUME NEW h \in Handles, New(h) PROVE Map!Create(h) \/ UNCHANGED Map!mapVars
  <2>1. CASE live' = live
    BY <1>1, <1>2, <2>1 DEF New
  <2>2. CASE live' = live \cup {h}
    <3>1. h \notin live /\ Idle /\ UNCHANGED <<tbl, key, given, freed>>
      BY <1>2 DEF New
    <3>2. tbl[h] = EmptyTable
      BY <3>1, IdleNoDup DEF IInv, Unused
    <3>3. \A g \in Handles \ {h} : Content'[g] = Content[g]
      BY <2>2, <3>1, ContentKept
    <3>4. Content'[h] = <<>> /\ Content[h] = <<>>
      <4>1. Content'[h] = Pairs(tbl'[h].list, key') /\ tbl'[h].list = <<>>
        BY <2>2, <3>1, <3>2, ContentAtNext DEF EmptyTable
      <4>2. Content[h] = <<>>
        BY <3>1, ContentAt
      <4> QED
        BY <4>1, <4>2 DEF Pairs
    <3>5. Content' = Content
      BY <3>3, <3>4, ContentAt, ContentAtNext
    <3>6. Values' = Values
      BY <3>1 DEF Values
    <3> QED
      BY <2>2, <3>1, <3>5, <3>6 DEF Map!Create, Content, Values
  <2> QED
    BY <1>2, <2>1, <2>2 DEF New
<1>3. ASSUME NEW h \in Handles, NEW k \in Keys, NEW v \in Vals, SetResizeFails(h, k, v)
      PROVE  UNCHANGED Map!mapVars
  <2>1. tbl' = tbl /\ key' = key /\ live' = live
    BY <1>3, ResizeFailKeeps DEF SetResizeFails
  <2> QED
    BY <1>1, <2>1
<1>4. ASSUME NEW h \in Handles, Free(h) PROVE Map!Next
  BY <1>4, FreeIsMapStep DEF Map!Next
<1>5. ASSUME NEW h \in Handles, NEW k \in Keys \cup {NoKey}, Del(h, k)
      PROVE  Map!Next \/ UNCHANGED Map!mapVars
  BY <1>5, DelIsMapStep DEF Map!Next
<1>6. ASSUME NEW h \in Handles, NEW k \in Keys, NEW v \in Vals, SetOk(h, k, v)
      PROVE  Map!Next
  BY <1>6, SetIsMapStep DEF Map!Next
<1>7. ASSUME DupEnd PROVE Map!Next
  BY <1>7, DupIsMapStep DEF Map!Next
<1>8. ASSUME NEW h \in Handles, NEW v \in Vals,
             SetInvalid(h, v) \/ \E site \in Sites : SetNoMem(h, v, site)
      PROVE  UNCHANGED Map!mapVars
  BY <1>1, <1>8 DEF SetInvalid, SetNoMem
<1>9. ASSUME NEW src \in Handles, NEW dst \in Handles, DupBegin(src, dst)
      PROVE  UNCHANGED Map!mapVars
  BY <1>1, <1>9 DEF DupBegin
<1>10. CASE UNCHANGED vars
  BY <1>1, <1>10 DEF vars
<1>11. ASSUME NEW h \in Handles, New(h) PROVE Map!Next \/ UNCHANGED Map!mapVars
  BY <1>2, <1>11 DEF Map!Next
<1> QED
  BY <1>3, <1>4, <1>5, <1>6, <1>7, <1>8, <1>9, <1>10, <1>11, DupStutters DEF Next

\* The empty state maps to the empty map.
LEMMA InitMap == Init => Map!Init
<1> SUFFICES ASSUME Init PROVE Map!Init
  OBVIOUS
<1>1. Content = [h \in Handles |-> <<>>] /\ Values = {}
  BY DEF Init, Content, Values
<1> QED
  BY <1>1 DEF Init, Map!Init, Content, Values

\* The hash table implements the ordered map of htable.h: every call is one
\* step of the map or none, the loop of ec_htable_dup() and all the error
\* paths included, and a value is destroyed with the last entry that names it.
THEOREM ImplementsMap == Spec => MapSpec
<1>1. Init => Map!Init
  BY InitMap
<1>2. IInv /\ IInv' /\ [Next]_vars => [Map!Next]_(Map!mapVars)
  BY NextMap
<1> QED
  BY <1>1, <1>2, Invariance, PTL DEF Spec, MapSpec, Map!Spec

=============================================================================
