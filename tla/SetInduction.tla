---------------------------- MODULE SetInduction ----------------------------
(***************************************************************************)
(* Induction over the natural numbers with a set in place of a predicate:  *)
(* the induction hypothesis is the membership in a set of numbers, which a *)
(* first-order prover can instantiate.  Both lemmas follow from the well   *)
(* foundedness of < on Nat.                                                *)
(***************************************************************************)
EXTENDS Integers, TLAPS, WellFoundedInduction

\* A nonempty set of natural numbers has a least element.
LEMMA LeastNat ==
  ASSUME NEW T \in SUBSET Nat, T # {}
  PROVE  \E x \in T : \A y \in T : x <= y
<1> DEFINE R == OpToRel(<, Nat)
<1>1. IsWellFoundedOn(R, Nat)
  BY NatLessThanWellFounded
<1>2. \A x, y \in Nat : y < x => <<y, x>> \in R
  BY DEF OpToRel
<1> HIDE DEF R
<1>3. PICK x \in T : \A y \in T : ~(<<y, x>> \in R)
  BY <1>1, WFMin
<1>4. \A y \in T : ~(y < x)
  BY <1>2, <1>3
<1>5. \A y \in T : x <= y
  <2> SUFFICES ASSUME NEW y \in T PROVE x <= y
    OBVIOUS
  <2> QED
    BY <1>4
<1> QED
  BY <1>5

\* A set with 0 that is closed under successor up to n has all of 0..n.
LEMMA Induction ==
  ASSUME NEW n \in Nat, NEW S, 0 \in S,
         \A i \in 0..(n - 1) : i \in S => i + 1 \in S
  PROVE  0..n \subseteq S
<1> SUFFICES ASSUME (0..n) \ S # {} PROVE FALSE
  OBVIOUS
<1> DEFINE T == (0..n) \ S
<1>0. T \in SUBSET Nat /\ T # {}
  OBVIOUS
<1> HIDE DEF T
<1>1. PICK x \in T : \A y \in T : x <= y
  BY <1>0, LeastNat
<1> USE DEF T
<1>2. x # 0 /\ x - 1 \in 0..(n - 1) /\ ~(x <= x - 1)
  BY <1>1
<1>3. x - 1 \in S
  BY <1>1, <1>2
<1>4. (x - 1) + 1 \in S
  BY <1>2, <1>3
<1> QED
  BY <1>1, <1>4

\* A function that gives each number of 0..n a value of D from the value of the
\* number before (H) exists.
Recursive(f, n, D, r, H) == f \in [0..n -> D] /\ f[0] = r /\ \A k \in 1..n : f[k] = H[k][f[k - 1]]
LEMMA Recursion ==
  ASSUME NEW n \in Nat, NEW D, NEW r \in D, NEW H \in [1..n -> [D -> D]]
  PROVE  \E f : Recursive(f, n, D, r, H)
<1> DEFINE Upto(f, m) == f \in [0..m -> D] /\ f[0] = r /\ \A k \in 1..m : f[k] = H[k][f[k - 1]]
           S == {m \in 0..n : \E f : Upto(f, m)}
<1>1. 0 \in S
  <2>1. \A k \in 1..0 : FALSE
    OBVIOUS
  <2>2. [k \in 0..0 |-> r] \in [0..0 -> D] /\ [k \in 0..0 |-> r][0] = r
    OBVIOUS
  <2>3. Upto([k \in 0..0 |-> r], 0)
    BY <2>1, <2>2
  <2>4. \E f : Upto(f, 0)
    BY <2>3
  <2> HIDE DEF Upto
  <2> QED
    BY <2>4
<1>2. ASSUME NEW i \in 0..(n - 1), i \in S PROVE i + 1 \in S
  <2>1. PICK f : Upto(f, i)
    BY <1>2
  <2>2. i \in Nat /\ i + 1 \in 1..n /\ i + 1 \in 0..n /\ i + 1 - 1 = i
    OBVIOUS
  <2> DEFINE g == [k \in 0..(i + 1) |-> IF k \in 0..i THEN f[k] ELSE H[i + 1][f[i]]]
  <2>3. g \in [0..(i + 1) -> D]
    BY <2>1, <2>2
  <2>4. g[0] = r
    BY <2>1, <2>2
  <2>5. ASSUME NEW k \in 1..(i + 1) PROVE g[k] = H[k][g[k - 1]]
    <3>1. k \in 0..(i + 1) /\ k - 1 \in 0..i /\ k - 1 \in 0..(i + 1)
      BY <2>2
    <3>2. g[k - 1] = f[k - 1]
      BY <3>1
    <3>3. CASE k \in 1..i
      BY <2>1, <3>1, <3>2, <3>3
    <3>4. CASE k = i + 1
      <4>1. ~(k \in 0..i) /\ k - 1 = i
        BY <2>2, <3>4
      <4>2. g[k] = H[i + 1][f[i]]
        BY <3>1, <4>1
      <4> HIDE DEF g
      <4> QED
        BY <3>2, <3>4, <4>1, <4>2
    <3> QED
      BY <2>2, <3>3, <3>4
  <2> HIDE DEF g
  <2> QED
    BY <2>2, <2>3, <2>4, <2>5
<1>3. 0..n \subseteq S
  <2> HIDE DEF S
  <2> QED
    BY <1>1, <1>2, Induction
<1> QED
  BY <1>3 DEF Recursive
=============================================================================
