---------------------------- MODULE ParseProofs ----------------------------
(***************************************************************************)
(* What the parse engine promises, for any families of grammars, tokens,   *)
(* inputs, nesting depth and failing allocation: what it accepts belongs   *)
(* to the language of the grammar (ParseSoundness), the tree it returns    *)
(* describes the match (TreesDescribeMatches) and has one match at most of *)
(* the child of a once node (ChildrenParsedOnce), a subset of leaves is as *)
(* long as it can be (SubsetsAreLongest), and an allocation that fails     *)
(* makes the call fail and changes nothing else (FailuresAreErrors).       *)
(*                                                                         *)
(* Sound(P, L) says of the callbacks P of the nodes that each, called with *)
(* a new pnode on a string vector, fails, does not match, or returns one   *)
(* of the lengths that L gives the node there, and leaves the pnodes above *)
(* its own as they were.  One level of calls preserves it (NodeSound, by   *)
(* an invariant of the loop of each type), so that by induction on how     *)
(* deep calls nest it holds of the engine (EnginesSound).  The other       *)
(* theorems are shown in the same way: Described(P, good) says that the    *)
(* tree of a match is good, Onced(P, O, C) that no once child is twice in  *)
(* it, nor in it when the tree being built has it already, Steady(P) that  *)
(* a call that does not fail makes the same of a state in which more       *)
(* allocations succeed, and Longest(q, lists) of the result q of a subset  *)
(* that no list has more nodes.                                            *)
(***************************************************************************)
EXTENDS Parse, SetInduction, SequenceTheorems

-----------------------------------------------------------------------------
\* Loops

\* The function that a loop goes through exists, and the loop gives its value
\* at n.
Goes(after, step, first, n) ==
  after = [i \in 0..n |-> IF i = 0 THEN first ELSE step[i][after[i - 1]]]

LEMMA LoopExists ==
  ASSUME NEW n \in Nat, NEW step, NEW first
  PROVE  \E after : Goes(after, step, first, n)
<1> DEFINE S == {m \in 0..n : \E g : Goes(g, step, first, m)}
<1>1. 0 \in S
  <2> DEFINE g == [i \in 0..0 |-> first]
  <2>1. g = [i \in 0..0 |-> IF i = 0 THEN first ELSE step[i][g[i - 1]]]
    OBVIOUS
  <2> HIDE DEF g
  <2>2. Goes(g, step, first, 0)
    BY <2>1 DEF Goes
  <2> QED
    BY <2>2
<1>2. ASSUME NEW m \in 0..(n - 1), m \in S PROVE m + 1 \in S
  <2>1. PICK g : Goes(g, step, first, m)
    BY <1>2
  <2> DEFINE h == [i \in 0..(m + 1) |-> IF i = m + 1 THEN step[i][g[m]] ELSE g[i]]
  <2>2. ASSUME NEW i \in 0..(m + 1)
        PROVE  h[i] = IF i = 0 THEN first ELSE step[i][h[i - 1]]
    <3>1. CASE i = m + 1
      <4>1. h[i] = step[i][g[m]] /\ h[m] = g[m] /\ i - 1 = m /\ i # 0
        BY <3>1
      <4> QED
        BY <4>1
    <3>2. CASE i # m + 1
      <4>1. i \in 0..m /\ h[i] = g[i]
        BY <3>2
      <4>2. i # 0 => i - 1 \in 0..m /\ h[i - 1] = g[i - 1]
        BY <3>2
      <4>3. g[i] = IF i = 0 THEN first ELSE step[i][g[i - 1]]
        BY <2>1, <4>1 DEF Goes
      <4> HIDE DEF h
      <4> QED
        BY <4>1, <4>2, <4>3
    <3> QED
      BY <3>1, <3>2
  <2>3. h = [i \in 0..(m + 1) |-> h[i]]
    OBVIOUS
  <2> HIDE DEF h
  <2>4. h = [i \in 0..(m + 1) |-> IF i = 0 THEN first ELSE step[i][h[i - 1]]]
    BY <2>2, <2>3
  <2>5. Goes(h, step, first, m + 1)
    BY <2>4 DEF Goes
  <2> QED
    BY <2>5
<1>3. 0..n \subseteq S
  <2> HIDE DEF S
  <2> QED
    BY <1>1, <1>2, Induction
<1> QED
  BY <1>3

LEMMA LoopGoes ==
  ASSUME NEW n \in Nat, NEW step, NEW first
  PROVE  \E after : Goes(after, step, first, n) /\ Loop(step, first, n) = after[n]
<1>1. PICK g : Goes(g, step, first, n)
  BY LoopExists
<1> DEFINE after == CHOOSE g1 : g1 = [i \in 0..n |-> IF i = 0 THEN first ELSE step[i][g1[i - 1]]]
<1>2. after = [i \in 0..n |-> IF i = 0 THEN first ELSE step[i][after[i - 1]]]
  BY <1>1 DEF Goes
<1>3. Loop(step, first, n) = after[n]
  BY DEF Loop
<1> HIDE DEF after
<1> QED
  BY <1>2, <1>3 DEF Goes

\* What every iteration keeps holds at the end: at[i] are the values that
\* iteration i may give.
LEMMA LoopInvariant ==
  ASSUME NEW n \in Nat, NEW step, NEW first, NEW at, first \in at[0],
         \A i \in 1..n : \A x \in at[i - 1] : step[i][x] \in at[i]
  PROVE  Loop(step, first, n) \in at[n]
<1>1. PICK after : Goes(after, step, first, n) /\ Loop(step, first, n) = after[n]
  BY LoopGoes
<1> DEFINE S == {i \in 0..n : after[i] \in at[i]}
<1>2. \A i \in 0..n : after[i] = IF i = 0 THEN first ELSE step[i][after[i - 1]]
  BY <1>1 DEF Goes
<1>3. 0 \in S
  BY <1>2
<1>4. ASSUME NEW i \in 0..(n - 1), i \in S PROVE i + 1 \in S
  <2>1. i + 1 \in 1..n /\ i + 1 \in 0..n /\ (i + 1) - 1 = i /\ i + 1 # 0
    OBVIOUS
  <2>2. after[i + 1] = step[i + 1][after[i]]
    BY <1>2, <2>1
  <2>3. after[i] \in at[i]
    BY <1>4
  <2>4. \A x \in at[i] : step[i + 1][x] \in at[i + 1]
    BY <2>1
  <2> QED
    BY <2>1, <2>2, <2>3, <2>4
<1>5. 0..n \subseteq S
  <2> HIDE DEF S
  <2> QED
    BY <1>3, <1>4, Induction
<1> QED
  BY <1>1, <1>5

\* The first rounds of a loop are a loop.
LEMMA LoopRounds ==
  ASSUME NEW n \in Nat, NEW step, NEW first
  PROVE  /\ Loop(step, first, 0) = first
         /\ Loop(step, first, n + 1) = step[n + 1][Loop(step, first, n)]
<1>1. PICK a : Goes(a, step, first, 0) /\ Loop(step, first, 0) = a[0]
  BY LoopGoes
<1>2. PICK g : Goes(g, step, first, n) /\ Loop(step, first, n) = g[n]
  BY LoopGoes
<1>3. PICK h : Goes(h, step, first, n + 1) /\ Loop(step, first, n + 1) = h[n + 1]
  BY LoopGoes
<1>4. a[0] = first
  BY <1>1 DEF Goes
<1>5. /\ \A i \in 0..n : g[i] = IF i = 0 THEN first ELSE step[i][g[i - 1]]
      /\ \A i \in 0..(n + 1) : h[i] = IF i = 0 THEN first ELSE step[i][h[i - 1]]
  BY <1>2, <1>3 DEF Goes
<1> DEFINE S == {i \in 0..n : g[i] = h[i]}
<1>6. 0 \in S
  BY <1>5
<1>7. ASSUME NEW i \in 0..(n - 1), i \in S PROVE i + 1 \in S
  <2>1. i + 1 \in 0..n /\ i + 1 \in 0..(n + 1) /\ (i + 1) - 1 = i /\ i + 1 # 0
    OBVIOUS
  <2>2. g[i + 1] = step[i + 1][g[i]] /\ h[i + 1] = step[i + 1][h[i]]
    BY <1>5, <2>1
  <2> QED
    BY <1>7, <2>1, <2>2
<1>8. 0..n \subseteq S
  <2> HIDE DEF S
  <2> QED
    BY <1>6, <1>7, Induction
<1>9. h[n + 1] = step[n + 1][h[n]] /\ n \in 0..n
  BY <1>5
<1>10. g[n] = h[n]
  BY <1>8, <1>9
<1> QED
  BY <1>1, <1>2, <1>3, <1>4, <1>9, <1>10
\* A loop depends on the iterations it makes only.
LEMMA LoopSame ==
  ASSUME NEW n \in Nat, NEW step, NEW other, NEW first, \A i \in 1..n : step[i] = other[i]
  PROVE  Loop(step, first, n) = Loop(other, first, n)
<1> DEFINE S == {i \in 0..n : Loop(step, first, i) = Loop(other, first, i)}
<1>1. 0 \in S
  BY LoopRounds
<1>2. ASSUME NEW i \in 0..(n - 1), i \in S PROVE i + 1 \in S
  <2>1. i \in Nat /\ i + 1 \in 1..n /\ i + 1 \in 0..n
    OBVIOUS
  <2>2. Loop(step, first, i + 1) = step[i + 1][Loop(step, first, i)]
        /\ Loop(other, first, i + 1) = other[i + 1][Loop(other, first, i)]
    BY <2>1, LoopRounds
  <2> QED
    BY <1>2, <2>1, <2>2
<1> HIDE DEF S
<1>3. 0..n \subseteq S
  BY <1>1, <1>2, Induction
<1> QED
  BY <1>3 DEF S

-----------------------------------------------------------------------------
\* The set of parse trees

\* the pnodes whose children are in T
TreesOver(T) == [node : Nat, matches : BOOLEAN, vec : Vectors, kids : Seq(T)]

\* g[i] are the trees of height i at most
Levels(g, n) == g = [i \in 0..n |-> IF i = 0 THEN {} ELSE TreesOver(g[i - 1])]
Level(n) == (CHOOSE g : Levels(g, n))[n]

LEMMA LevelsFields ==
  ASSUME NEW n \in Nat, NEW g, Levels(g, n)
  PROVE  g[0] = {} /\ \A i \in 1..n : g[i] = TreesOver(g[i - 1])
<1>1. \A i \in 0..n : g[i] = IF i = 0 THEN {} ELSE TreesOver(g[i - 1])
  BY DEF Levels
<1> QED
  BY <1>1

LEMMA LevelsExist ==
  ASSUME NEW n \in Nat
  PROVE  \E g : Levels(g, n)
<1> DEFINE S == {m \in 0..n : \E g : Levels(g, m)}
<1>1. 0 \in S
  <2> DEFINE g == [i \in 0..0 |-> {}]
  <2>1. g = [i \in 0..0 |-> IF i = 0 THEN {} ELSE TreesOver(g[i - 1])]
    OBVIOUS
  <2> HIDE DEF g
  <2>2. Levels(g, 0)
    BY <2>1 DEF Levels
  <2> QED
    BY <2>2
<1>2. ASSUME NEW m \in 0..(n - 1), m \in S PROVE m + 1 \in S
  <2>1. PICK g : Levels(g, m)
    BY <1>2
  <2> DEFINE h == [i \in 0..(m + 1) |-> IF i = m + 1 THEN TreesOver(g[m]) ELSE g[i]]
  <2>2. ASSUME NEW i \in 0..(m + 1)
        PROVE  h[i] = IF i = 0 THEN {} ELSE TreesOver(h[i - 1])
    <3>1. CASE i = m + 1
      <4>1. h[i] = TreesOver(g[m]) /\ h[m] = g[m] /\ i - 1 = m /\ i # 0
        BY <3>1
      <4> QED
        BY <4>1
    <3>2. CASE i # m + 1
      <4>1. i \in 0..m /\ h[i] = g[i]
        BY <3>2
      <4>2. i # 0 => i \in 1..m /\ h[i - 1] = g[i - 1]
        BY <3>2
      <4> HIDE DEF h
      <4> QED
        BY <2>1, <4>1, <4>2, LevelsFields
    <3> QED
      BY <3>1, <3>2
  <2>3. h = [i \in 0..(m + 1) |-> h[i]]
    OBVIOUS
  <2> HIDE DEF h
  <2>4. Levels(h, m + 1)
    BY <2>2, <2>3 DEF Levels
  <2> QED
    BY <2>4
<1>3. 0..n \subseteq S
  <2> HIDE DEF S
  <2> QED
    BY <1>1, <1>2, Induction
<1> QED
  BY <1>3

LEMMA LevelFacts ==
  /\ Level(0) = {}
  /\ \A n \in Nat : Level(n + 1) = TreesOver(Level(n))
<1>1. \A n \in Nat : Levels(CHOOSE g : Levels(g, n), n)
  BY LevelsExist
<1>2. Level(0) = {}
  BY <1>1, LevelsFields DEF Level
<1>3. ASSUME NEW n \in Nat PROVE Level(n + 1) = TreesOver(Level(n))
  <2> DEFINE g == CHOOSE x : Levels(x, n)
             h == CHOOSE x : Levels(x, n + 1)
  <2>1. Levels(g, n) /\ Levels(h, n + 1) /\ Level(n) = g[n] /\ Level(n + 1) = h[n + 1]
    BY <1>1 DEF Level
  <2> HIDE DEF g, h
  <2>2. g[0] = {} /\ \A i \in 1..n : g[i] = TreesOver(g[i - 1])
    BY <2>1, LevelsFields
  <2>3. h[0] = {} /\ \A i \in 1..(n + 1) : h[i] = TreesOver(h[i - 1])
    BY <2>1, LevelsFields
  <2> DEFINE S == {i \in 0..n : g[i] = h[i]}
  <2>4. 0 \in S
    BY <2>2, <2>3
  <2>5. ASSUME NEW i \in 0..(n - 1), i \in S PROVE i + 1 \in S
    <3>1. i + 1 \in 1..n /\ i + 1 \in 1..(n + 1) /\ (i + 1) - 1 = i
      OBVIOUS
    <3>2. g[i + 1] = TreesOver(g[i]) /\ h[i + 1] = TreesOver(h[i])
      BY <2>2, <2>3, <3>1
    <3> QED
      BY <2>5, <3>1, <3>2
  <2>6. 0..n \subseteq S
    <3> HIDE DEF S
    <3> QED
      BY <2>4, <2>5, Induction
  <2>7. g[n] = h[n]
    BY <2>6
  <2>8. n + 1 \in 1..(n + 1) /\ (n + 1) - 1 = n
    OBVIOUS
  <2> QED
    BY <2>1, <2>3, <2>7, <2>8
<1> QED
  BY <1>2, <1>3

LEMMA TreesMonotone ==
  ASSUME NEW S, NEW T, S \subseteq T
  PROVE  TreesOver(S) \subseteq TreesOver(T)
<1>1. \A x \in Seq(S) : x \in Seq(T)
  OBVIOUS
<1> QED
  BY <1>1 DEF TreesOver

LEMMA LevelGrows ==
  ASSUME NEW m \in Nat, NEW n \in 0..m
  PROVE  Level(n) \subseteq Level(m)
<1>1. \A k \in Nat : Level(k) \subseteq Level(k + 1)
  <2> SUFFICES ASSUME NEW k \in Nat PROVE Level(k) \subseteq Level(k + 1)
    OBVIOUS
  <2> DEFINE S == {i \in Nat : Level(i) \subseteq Level(i + 1)}
  <2>1. 0 \in S
    BY LevelFacts
  <2>2. ASSUME NEW i \in 0..(k - 1), i \in S PROVE i + 1 \in S
    <3>1. i + 1 \in Nat /\ Level(i) \subseteq Level(i + 1)
      BY <2>2
    <3>2. Level(i + 1) = TreesOver(Level(i)) /\ Level((i + 1) + 1) = TreesOver(Level(i + 1))
      BY <3>1, LevelFacts
    <3> QED
      BY <3>1, <3>2, TreesMonotone
  <2>3. 0..k \subseteq S
    <3> HIDE DEF S
    <3> QED
      BY <2>1, <2>2, Induction
  <2> QED
    BY <2>3
<1> DEFINE S == {i \in Nat : i < n \/ Level(n) \subseteq Level(i)}
<1>2. 0 \in S
  OBVIOUS
<1>3. ASSUME NEW i \in 0..(m - 1), i \in S PROVE i + 1 \in S
  BY <1>1, <1>3
<1>4. 0..m \subseteq S
  <2> HIDE DEF S
  <2> QED
    BY <1>2, <1>3, Induction
<1> QED
  BY <1>4

\* Trees, the hypothesis of the theorems, is true of a set.
LEMMA TreesExist == \E T : T = [node : Nat, matches : BOOLEAN, vec : Vectors, kids : Seq(T)]
<1> DEFINE T == UNION {Level(n) : n \in Nat}
<1>1. ASSUME NEW p \in T PROVE p \in TreesOver(T)
  <2>1. PICK n \in Nat : p \in Level(n)
    OBVIOUS
  <2>2. n # 0
    BY <2>1, LevelFacts
  <2>3. n - 1 \in Nat /\ (n - 1) + 1 = n
    BY <2>2
  <2>4. p \in TreesOver(Level(n - 1))
    BY <2>1, <2>3, LevelFacts
  <2>6. Level(n - 1) \subseteq T
    BY <2>3
  <2> HIDE DEF T
  <2> QED
    BY <2>4, <2>6, TreesMonotone
<1>2. ASSUME NEW p \in TreesOver(T) PROVE p \in T
  <2>1. p.kids \in Seq(T) /\ Len(p.kids) \in Nat
    BY DEF TreesOver
  <2> DEFINE S == {j \in 0..Len(p.kids) : \E n \in Nat : \A i \in 1..j : p.kids[i] \in Level(n)}
  <2>2. 0 \in S
    BY <2>1
  <2>3. ASSUME NEW j \in 0..(Len(p.kids) - 1), j \in S PROVE j + 1 \in S
    <3>1. PICK n \in Nat : \A i \in 1..j : p.kids[i] \in Level(n)
      BY <2>3
    <3>2. j + 1 \in 1..Len(p.kids)
      BY <2>1
    <3>3. p.kids[j + 1] \in T
      BY <2>1, <3>2
    <3>4. PICK m \in Nat : p.kids[j + 1] \in Level(m)
      BY <3>3
    <3> DEFINE b == IF m < n THEN n ELSE m
    <3>5. b \in Nat /\ n \in 0..b /\ m \in 0..b
      OBVIOUS
    <3> HIDE DEF b
    <3>6. Level(n) \subseteq Level(b) /\ Level(m) \subseteq Level(b)
      BY <3>5, LevelGrows
    <3>7. \A i \in 1..(j + 1) : i = j + 1 \/ i \in 1..j
      OBVIOUS
    <3>8. \A i \in 1..(j + 1) : p.kids[i] \in Level(b)
      BY <3>1, <3>4, <3>6, <3>7
    <3>9. j + 1 \in 0..Len(p.kids)
      BY <2>1
    <3> QED
      BY <3>5, <3>8, <3>9
  <2>4. 0..Len(p.kids) \subseteq S
    <3> HIDE DEF S
    <3> QED
      BY <2>1, <2>2, <2>3, Induction
  <2>5. Len(p.kids) \in S
    <3> HIDE DEF S, T
    <3> QED
      BY <2>1, <2>4
  <2>6. PICK n \in Nat : \A i \in 1..Len(p.kids) : p.kids[i] \in Level(n)
    BY <2>5
  <2>7. p.kids \in Seq(Level(n))
    <3> HIDE DEF T
    <3> QED
      BY <2>1, <2>6
  <2>8. p \in TreesOver(Level(n))
    <3> HIDE DEF T
    <3> QED
      BY <2>7 DEF TreesOver
  <2>9. p \in Level(n + 1) /\ n + 1 \in Nat
    BY <2>8, LevelFacts
  <2> QED
    BY <2>9
<1> HIDE DEF T
<1> QED
  BY <1>1, <1>2 DEF TreesOver

-----------------------------------------------------------------------------
\* The tree under construction

\* a spine that has a last pnode, and the states that differ from st in nothing
\* but the children of its last pnode, the allocations and the faults
Started == {st \in States : st.spine # <<>>}
Below(st) ==
  {x \in States : \E kids \in Seq(Pnodes) : x.spine = [st.spine EXCEPT ![Len(st.spine)].kids = kids]}

LEMMA PnodeFields ==
  ASSUME Trees, NEW p \in Pnodes
  PROVE  /\ p.node \in Nat /\ p.matches \in BOOLEAN /\ p.vec \in Vectors /\ p.kids \in Seq(Pnodes)
         /\ p = [node |-> p.node, matches |-> p.matches, vec |-> p.vec, kids |-> p.kids]
         /\ \A kids \in Seq(Pnodes) :
              /\ [p EXCEPT !.kids = kids] \in Pnodes
              /\ [p EXCEPT !.kids = kids] =
                   [node |-> p.node, matches |-> p.matches, vec |-> p.vec, kids |-> kids]
<1>1. p \in [node : Nat, matches : BOOLEAN, vec : Vectors, kids : Seq(Pnodes)]
  BY DEF Trees
<1>2. ASSUME NEW kids \in Seq(Pnodes)
      PROVE  /\ [p EXCEPT !.kids = kids] \in Pnodes
             /\ [p EXCEPT !.kids = kids] =
                  [node |-> p.node, matches |-> p.matches, vec |-> p.vec, kids |-> kids]
  <2>1. [p EXCEPT !.kids = kids] \in [node : Nat, matches : BOOLEAN, vec : Vectors, kids : Seq(Pnodes)]
    BY <1>1
  <2>2. [p EXCEPT !.kids = kids] = [node |-> p.node, matches |-> p.matches, vec |-> p.vec, kids |-> kids]
    BY <1>1
  <2> QED
    BY <2>1, <2>2 DEF Trees
<1>3. /\ p.node \in Nat /\ p.matches \in BOOLEAN /\ p.vec \in Vectors /\ p.kids \in Seq(Pnodes)
      /\ p = [node |-> p.node, matches |-> p.matches, vec |-> p.vec, kids |-> p.kids]
  BY <1>1
<1> QED
  BY <1>2, <1>3

LEMMA EmptyVector == <<>> \in Vectors
BY DEF Vectors

LEMMA NewPnode ==
  ASSUME Trees, NEW n \in Nat
  PROVE  Pnode(n) \in Pnodes
<1>1. Pnode(n) \in [node : Nat, matches : BOOLEAN, vec : Vectors, kids : Seq(Pnodes)]
  BY EmptyVector DEF Pnode
<1> QED
  BY <1>1 DEF Trees

LEMMA PstateTyped ==
  ASSUME Trees, NEW st \in Started
  PROVE  /\ st.spine \in Seq(Pnodes) /\ Len(st.spine) \in Nat \ {0} /\ st.mem \in Int
         /\ Pstate(st) = st.spine[Len(st.spine)]
         /\ Pstate(st) \in Pnodes /\ Pstate(st).kids \in Seq(Pnodes)
<1>1. st.spine \in Seq(Pnodes) /\ st.spine # <<>> /\ st.mem \in Int
  BY DEF Started, States
<1>2. Len(st.spine) \in Nat \ {0}
  BY <1>1
<1>3. Pstate(st) = st.spine[Len(st.spine)] /\ Pstate(st) \in Pnodes
  BY <1>1, <1>2 DEF Pstate, SE!Last
<1> QED
  BY <1>1, <1>2, <1>3, PnodeFields

LEMMA BelowStates ==
  ASSUME NEW st, NEW x \in Below(st)
  PROVE  x \in States
BY DEF Below

LEMMA BelowSelf ==
  ASSUME Trees, NEW st \in Started
  PROVE  st \in Below(st)
<1>1. st.spine \in Seq(Pnodes) /\ Len(st.spine) \in Nat \ {0} /\ Pstate(st) = st.spine[Len(st.spine)]
      /\ Pstate(st) \in Pnodes /\ Pstate(st).kids \in Seq(Pnodes)
  BY PstateTyped
<1>2. [Pstate(st) EXCEPT !.kids = Pstate(st).kids] = Pstate(st)
  BY <1>1, PnodeFields
<1>3. st.spine = [st.spine EXCEPT ![Len(st.spine)].kids = Pstate(st).kids]
  BY <1>1, <1>2
<1> QED
  BY <1>1, <1>3 DEF Below, Started

\* writing the children of the last pnode
LEMMA OnTyped ==
  ASSUME Trees, NEW st \in Started, NEW kids \in Seq(Pnodes)
  PROVE  /\ OnPstate(st, kids) \in Below(st)
         /\ OnPstate(st, kids).spine = [st.spine EXCEPT ![Len(st.spine)].kids = kids]
         /\ OnPstate(st, kids).mem = st.mem
         /\ OnPstate(st, kids).faults = st.faults
<1>1. st.spine \in Seq(Pnodes) /\ Len(st.spine) \in Nat \ {0} /\ Pstate(st) = st.spine[Len(st.spine)]
      /\ Pstate(st) \in Pnodes
  BY PstateTyped
<1>2. [st.spine[Len(st.spine)] EXCEPT !.kids = kids] \in Pnodes
  BY <1>1, PnodeFields
<1>3. [st.spine EXCEPT ![Len(st.spine)].kids = kids] \in Seq(Pnodes)
  BY <1>1, <1>2
<1>4. st \in [spine : Seq(Pnodes), mem : Int, faults : SUBSET Faults]
  BY DEF Started, States
<1>5. /\ OnPstate(st, kids).spine = [st.spine EXCEPT ![Len(st.spine)].kids = kids]
      /\ OnPstate(st, kids).mem = st.mem /\ OnPstate(st, kids).faults = st.faults
  BY <1>4 DEF OnPstate
<1>6. OnPstate(st, kids) \in States
  <2> DEFINE spine == [st.spine EXCEPT ![Len(st.spine)].kids = kids]
  <2>1. OnPstate(st, kids) = [st EXCEPT !.spine = spine]
    BY DEF OnPstate
  <2>2. spine \in Seq(Pnodes)
    BY <1>3
  <2> HIDE DEF spine
  <2> QED
    BY <1>4, <2>1, <2>2 DEF States
<1> QED
  BY <1>5, <1>6 DEF Below

LEMMA BelowStarted ==
  ASSUME Trees, NEW st \in Started, NEW x \in Below(st)
  PROVE  /\ x \in Started /\ Len(x.spine) = Len(st.spine)
         /\ \A i \in 1..(Len(st.spine) - 1) : x.spine[i] = st.spine[i]
         /\ Pstate(x) = [Pstate(st) EXCEPT !.kids = Pstate(x).kids]
<1>1. st.spine \in Seq(Pnodes) /\ Len(st.spine) \in Nat \ {0} /\ Pstate(st) = st.spine[Len(st.spine)]
      /\ Pstate(st) \in Pnodes
  BY PstateTyped
<1>2. PICK kids \in Seq(Pnodes) : x.spine = [st.spine EXCEPT ![Len(st.spine)].kids = kids]
  BY DEF Below
<1>3. Len(x.spine) = Len(st.spine) /\ x.spine # <<>> /\ \A i \in 1..(Len(st.spine) - 1) : x.spine[i] = st.spine[i]
  BY <1>1, <1>2
<1>4. x \in Started
  BY <1>3 DEF Started, Below
<1>5. x.spine[Len(st.spine)] = [st.spine[Len(st.spine)] EXCEPT !.kids = kids]
  BY <1>1, <1>2
<1>6. Pstate(x) = [Pstate(st) EXCEPT !.kids = kids]
  BY <1>1, <1>3, <1>4, <1>5, PstateTyped
<1>7. Pstate(x).kids = kids
  BY <1>1, <1>6, PnodeFields
<1> QED
  BY <1>3, <1>4, <1>6, <1>7

LEMMA BelowTrans ==
  ASSUME Trees, NEW st \in Started, NEW x \in Below(st), NEW y \in Below(x)
  PROVE  y \in Below(st)
<1>1. st.spine \in Seq(Pnodes) /\ Len(st.spine) \in Nat \ {0} /\ st.spine[Len(st.spine)] \in Pnodes
  BY PstateTyped
<1>2. PICK k1 \in Seq(Pnodes) : x.spine = [st.spine EXCEPT ![Len(st.spine)].kids = k1]
  BY DEF Below
<1>3. PICK k2 \in Seq(Pnodes) : y.spine = [x.spine EXCEPT ![Len(x.spine)].kids = k2]
  BY DEF Below
<1> DEFINE p == st.spine[Len(st.spine)]
<1>4. [[p EXCEPT !.kids = k1] EXCEPT !.kids = k2] = [p EXCEPT !.kids = k2]
  <2>1. [p EXCEPT !.kids = k1] = [node |-> p.node, matches |-> p.matches, vec |-> p.vec, kids |-> k1]
        /\ [p EXCEPT !.kids = k2] = [node |-> p.node, matches |-> p.matches, vec |-> p.vec, kids |-> k2]
    BY <1>1, PnodeFields
  <2> QED
    BY <2>1
<1>5. Len(x.spine) = Len(st.spine) /\ x.spine[Len(st.spine)] = [p EXCEPT !.kids = k1]
  BY <1>1, <1>2
<1>6. y.spine = [st.spine EXCEPT ![Len(st.spine)].kids = k2]
  <2>1. DOMAIN y.spine = DOMAIN st.spine /\ DOMAIN x.spine = DOMAIN st.spine
    BY <1>1, <1>2, <1>3, <1>5
  <2>2. ASSUME NEW i \in DOMAIN st.spine PROVE y.spine[i] = [st.spine EXCEPT ![Len(st.spine)].kids = k2][i]
    <3>1. CASE i = Len(st.spine)
      <4>1. y.spine[i] = [x.spine[i] EXCEPT !.kids = k2]
        BY <1>3, <1>5, <2>1, <3>1
      <4>2. y.spine[i] = [p EXCEPT !.kids = k2]
        BY <4>1, <1>4, <1>5, <3>1
      <4>3. [st.spine EXCEPT ![Len(st.spine)].kids = k2][i] = [p EXCEPT !.kids = k2]
        BY <3>1
      <4> QED
        BY <4>2, <4>3
    <3>2. CASE i # Len(st.spine)
      BY <1>2, <1>3, <1>5, <2>1, <3>2
    <3> QED
      BY <3>1, <3>2
  <2>3. y.spine = [i \in DOMAIN y.spine |-> y.spine[i]]
    BY <1>3, <1>2
  <2> QED
    BY <2>1, <2>2, <2>3
<1> QED
  BY <1>6 DEF Below

LEMMA AllocTyped ==
  ASSUME Trees, NEW st \in Started, NEW x \in Below(st)
  PROVE  /\ Alloc(x) \in Below(st) /\ Alloc(x).spine = x.spine
         /\ Alloc(x).mem = x.mem - 1 /\ Alloc(x).faults = x.faults
<1>1. x \in [spine : Seq(Pnodes), mem : Int, faults : SUBSET Faults]
  BY DEF Below, States
<1>2. Alloc(x).spine = x.spine /\ Alloc(x).mem = x.mem - 1 /\ Alloc(x).faults = x.faults
  BY <1>1 DEF Alloc
<1>3. Alloc(x) \in States
  BY <1>1 DEF Alloc, States
<1> QED
  BY <1>2, <1>3 DEF Below

\* ec_pnode_del_last_child(), ec_pnode_free_children(), ec_pnode_link_child()
LEMMA DelTyped ==
  ASSUME Trees, NEW st \in Started, NEW x \in Below(st)
  PROVE  DelLastChild(x) \in Below(st) /\ DelLastChild(x).mem = x.mem /\ DelLastChild(x).faults = x.faults
<1>1. x \in Started
  BY BelowStarted
<1>2. CASE Pstate(x).kids = <<>>
  BY <1>2 DEF DelLastChild
<1>3. CASE Pstate(x).kids # <<>>
  <2>1. SE!Front(Pstate(x).kids) \in Seq(Pnodes)
    BY <1>1, <1>3, PstateTyped DEF SE!Front
  <2>2. DelLastChild(x) = OnPstate(x, SE!Front(Pstate(x).kids))
    BY <1>3 DEF DelLastChild
  <2> DEFINE y == OnPstate(x, SE!Front(Pstate(x).kids))
  <2>3. y \in Below(x) /\ y.mem = x.mem /\ y.faults = x.faults
    <3> HIDE DEF y
    <3>1. \A kids \in Seq(Pnodes) : LET z == OnPstate(x, kids) IN z \in Below(x) /\ z.mem = x.mem /\ z.faults = x.faults
      BY <1>1, OnTyped
    <3> QED
      BY <2>1, <3>1 DEF y
  <2> HIDE DEF y
  <2>4. y \in Below(st)
    BY <2>3, BelowTrans
  <2>5. DelLastChild(x) = y
    BY <2>2 DEF y
  <2> QED
    BY <2>3, <2>4, <2>5
<1> QED
  BY <1>2, <1>3

LEMMA FreeTyped ==
  ASSUME Trees, NEW st \in Started, NEW x \in Below(st)
  PROVE  FreeChildren(x) \in Below(st) /\ FreeChildren(x).mem = x.mem /\ FreeChildren(x).faults = x.faults
<1>1. x \in Started
  BY BelowStarted
<1>2. <<>> \in Seq(Pnodes)
  OBVIOUS
<1> QED
  BY <1>1, <1>2, OnTyped, BelowTrans DEF FreeChildren

LEMMA LinkTyped ==
  ASSUME Trees, NEW st \in Started, NEW x \in Below(st), NEW p \in Pnodes
  PROVE  /\ LinkChild(x, p) \in Below(st)
         /\ LinkChild(x, p).mem = x.mem /\ LinkChild(x, p).faults = x.faults
         /\ LinkChild(x, p) = OnPstate(x, Append(Pstate(x).kids, p))
         /\ Append(Pstate(x).kids, p) \in Seq(Pnodes)
<1>1. x \in Started
  BY BelowStarted
<1>2. Append(Pstate(x).kids, p) \in Seq(Pnodes)
  BY <1>1, PstateTyped
<1> QED
  BY <1>1, <1>2, OnTyped, BelowTrans DEF LinkChild

LEMMA EnterTyped ==
  ASSUME Trees, NEW x \in States, NEW n \in Nat
  PROVE  /\ Enter(x, n) \in Started
         /\ Enter(x, n).spine = Append(x.spine, Pnode(n))
         /\ Enter(x, n).mem = x.mem - 1 /\ Enter(x, n).faults = x.faults
         /\ Pstate(Enter(x, n)) = Pnode(n)
<1>1. x \in [spine : Seq(Pnodes), mem : Int, faults : SUBSET Faults]
  BY DEF States
<1> DEFINE s == Append(x.spine, Pnode(n))
<1>2. s \in Seq(Pnodes) /\ Len(s) = Len(x.spine) + 1 /\ s[Len(s)] = Pnode(n) /\ s # <<>>
  BY <1>1, NewPnode
<1>3. Enter(x, n) = [x EXCEPT !.spine = s, !.mem = x.mem - 1]
  BY DEF Enter
<1> HIDE DEF s
<1>4. /\ Enter(x, n).spine = s /\ Enter(x, n).mem = x.mem - 1 /\ Enter(x, n).faults = x.faults
      /\ Enter(x, n) \in [spine : Seq(Pnodes), mem : Int, faults : SUBSET Faults]
  <2> DEFINE y == [spine |-> s, mem |-> x.mem - 1, faults |-> x.faults]
  <2>1. y \in [spine : Seq(Pnodes), mem : Int, faults : SUBSET Faults]
    BY <1>1, <1>2
  <2>2. Enter(x, n) = y
    BY <1>1, <1>3
  <2> QED
    BY <2>1, <2>2
<1>5. Enter(x, n) \in Started
  BY <1>2, <1>4 DEF Started, States
<1>6. Pstate(Enter(x, n)) = Pnode(n)
  BY <1>2, <1>4, <1>5, PstateTyped
<1> QED
  BY <1>4, <1>5, <1>6 DEF s

LEMMA LeaveTyped ==
  ASSUME Trees, NEW x \in Started, NEW n \in Nat, NEW y \in Below(Enter(x, n))
  PROVE  /\ Leave(y) \in Below(x) /\ Leave(y).spine = x.spine
         /\ Leave(y).mem = y.mem /\ Leave(y).faults = y.faults
         /\ Pstate(y) = [Pnode(n) EXCEPT !.kids = Pstate(y).kids]
<1>0. x \in States /\ Enter(x, n) \in Started
  BY EnterTyped DEF Started
<1>1. y \in [spine : Seq(Pnodes), mem : Int, faults : SUBSET Faults] /\ x.spine \in Seq(Pnodes)
  BY <1>0 DEF Below, States
<1>2. /\ Len(y.spine) = Len(Enter(x, n).spine)
      /\ \A i \in 1..(Len(Enter(x, n).spine) - 1) : y.spine[i] = Enter(x, n).spine[i]
      /\ Pstate(y) = [Pnode(n) EXCEPT !.kids = Pstate(y).kids]
  BY <1>0, BelowStarted, EnterTyped
<1>3. Enter(x, n).spine = Append(x.spine, Pnode(n))
  BY <1>0, EnterTyped
<1>4. SE!Front(y.spine) = x.spine
  <2> DEFINE f == SubSeq(y.spine, 1, Len(y.spine) - 1)
  <2>1. Len(y.spine) = Len(x.spine) + 1 /\ \A i \in 1..Len(x.spine) : y.spine[i] = x.spine[i]
    BY <1>1, <1>2, <1>3
  <2>2. f \in Seq(Pnodes) /\ Len(f) = Len(x.spine) /\ \A i \in 1..Len(x.spine) : f[i] = y.spine[i]
    BY <1>1, <2>1
  <2>3. SE!Front(y.spine) = f
    BY <1>1 DEF SE!Front
  <2> HIDE DEF f
  <2>4. f = x.spine
    BY <1>1, <2>1, <2>2, SeqEqual
  <2> QED
    BY <2>3, <2>4
<1>5. Leave(y) = [y EXCEPT !.spine = x.spine]
  BY <1>4 DEF Leave
<1>6. /\ Leave(y).spine = x.spine /\ Leave(y).mem = y.mem /\ Leave(y).faults = y.faults
      /\ Leave(y) \in [spine : Seq(Pnodes), mem : Int, faults : SUBSET Faults]
  BY <1>1, <1>5
<1>7. PICK kids \in Seq(Pnodes) : x.spine = [x.spine EXCEPT ![Len(x.spine)].kids = kids]
  BY BelowSelf DEF Below
<1>8. Leave(y) \in Below(x)
  BY <1>6, <1>7 DEF Below, States
<1> QED
  BY <1>2, <1>6, <1>8

-----------------------------------------------------------------------------
\* Calls

LEMMA ResultFields ==
  ASSUME NEW ret, NEW st
  PROVE  /\ Result(ret, st).ret = ret /\ Result(ret, st).st = st
         /\ ret \in Int /\ st \in States => Result(ret, st) \in Results
BY DEF Result, Results

LEMMA ResultsFields ==
  ASSUME NEW r \in Results
  PROVE  r.ret \in Int /\ r.st \in States /\ r = Result(r.ret, r.st)
BY DEF Result, Results

LEMMA FailInt == Fail \in Int
BY DEF Fail

LEMMA FailsTyped ==
  ASSUME NEW st \in States
  PROVE  Fails(st) \in Results /\ Fails(st).ret = Fail /\ Fails(st).st = st
BY DEF Fails, Fail, Result, Results

LEMMA VectorLen ==
  ASSUME NEW v \in Vectors
  PROVE  Len(v) \in Nat
BY DEF Vectors

LEMMA RestTyped ==
  ASSUME NEW v \in Vectors, NEW k \in Nat
  PROVE  /\ Rest(v, k) \in Vectors
         /\ k <= Len(v) =>
              Len(Rest(v, k)) = Len(v) - k /\ SubSeq(v, 1, k) \in Vectors /\ Len(SubSeq(v, 1, k)) = k
<1>0. v \in Seq(Strings) /\ Len(v) \in Nat
  BY DEF Vectors
<1>1. CASE k <= Len(v)
  <2>1. Rest(v, k) \in Seq(Strings) /\ Len(Rest(v, k)) = Len(v) - k
    BY <1>0, <1>1 DEF Rest
  <2>2. SubSeq(v, 1, k) \in Seq(Strings) /\ Len(SubSeq(v, 1, k)) = k
    BY <1>0, <1>1
  <2> QED
    BY <2>1, <2>2 DEF Vectors
<1>2. CASE ~(k <= Len(v))
  <2>1. Rest(v, k) = <<>>
    BY <1>0, <1>2 DEF Rest
  <2> QED
    BY <1>2, <2>1 DEF Vectors
<1> QED
  BY <1>1, <1>2

\* the pnode of a match
MatchOf(y, v, ret) == [Pstate(y) EXCEPT !.matches = TRUE, !.vec = SubSeq(v, 1, ret)]

LEMMA MatchFields ==
  ASSUME NEW V, NEW K, NEW p \in [node : Nat, matches : BOOLEAN, vec : V, kids : K], NEW w
  PROVE  [p EXCEPT !.matches = TRUE, !.vec = w] =
           [node |-> p.node, matches |-> TRUE, vec |-> w, kids |-> p.kids]
<1> DEFINE q == [p EXCEPT !.matches = TRUE]
<1>1. q \in [node : Nat, matches : BOOLEAN, vec : V, kids : K]
  OBVIOUS
<1>2. q.node = p.node /\ q.kids = p.kids
  OBVIOUS
<1>3. q.matches /\ q.matches \in BOOLEAN
  BY <1>1
<1>4. q.matches = TRUE
  BY <1>3
<1> HIDE DEF q
<1>5. [q EXCEPT !.vec = w] = [node |-> q.node, matches |-> q.matches, vec |-> w, kids |-> q.kids]
  BY <1>1
<1>6. [q EXCEPT !.vec = w] = [node |-> p.node, matches |-> TRUE, vec |-> w, kids |-> p.kids]
  BY <1>2, <1>4, <1>5
<1> QED
  BY <1>6 DEF q

LEMMA MatchTyped ==
  ASSUME Trees, NEW x \in States, NEW n \in Nat, NEW y \in Below(Enter(x, n)),
         NEW v \in Vectors, NEW k \in 0..Len(v)
  PROVE  /\ MatchOf(y, v, k) \in Pnodes
         /\ MatchOf(y, v, k) = [node |-> n, matches |-> TRUE, vec |-> SubSeq(v, 1, k), kids |-> Pstate(y).kids]
<1>1. Enter(x, n) \in Started /\ Pstate(Enter(x, n)) = Pnode(n)
  BY EnterTyped
<1>2. y \in Started /\ Pstate(y) = [Pstate(Enter(x, n)) EXCEPT !.kids = Pstate(y).kids]
  BY <1>1, BelowStarted
<1>3. Pstate(y) \in Pnodes /\ Pstate(y).kids \in Seq(Pnodes) /\ Pnode(n) \in Pnodes
  BY <1>2, PstateTyped, NewPnode
<1>4. Pstate(y) = [Pnode(n) EXCEPT !.kids = Pstate(y).kids]
  BY <1>1, <1>2
<1>5. Pstate(y) = [node |-> n, matches |-> FALSE, vec |-> <<>>, kids |-> Pstate(y).kids]
  <2>1. Pnode(n) = [node |-> n, matches |-> FALSE, vec |-> <<>>, kids |-> <<>>]
    BY DEF Pnode
  <2> QED
    BY <1>4, <2>1
<1>6. MatchOf(y, v, k) = [node |-> n, matches |-> TRUE, vec |-> SubSeq(v, 1, k), kids |-> Pstate(y).kids]
  <2>1. Pstate(y) \in [node : Nat, matches : BOOLEAN, vec : Vectors, kids : Seq(Pnodes)]
    BY <1>3 DEF Trees
  <2>2. Pstate(y).node = n
    BY <1>5
  <2> QED
    BY <2>1, <2>2, MatchFields DEF MatchOf
<1>7. SubSeq(v, 1, k) \in Vectors
  BY RestTyped
<1>8. MatchOf(y, v, k) \in [node : Nat, matches : BOOLEAN, vec : Vectors, kids : Seq(Pnodes)]
  BY <1>3, <1>6, <1>7
<1> QED
  BY <1>6, <1>8 DEF Trees

\* ec_parse_child() returns what the callback returned, with its pnode linked if
\* it matches, or fails.
LEMMA ReturnedTyped ==
  ASSUME Trees, NEW x \in Started, NEW n \in Nat, NEW v \in Vectors,
         NEW r \in Results, r.st \in Below(Enter(x, n)), r.ret \in Nat \cup {Fail},
         NEW c, c = Returned(r, v)
  PROVE  /\ c \in Results /\ c.st \in Below(x) /\ c.ret \in {Fail, r.ret}
         /\ c.ret = NoMatch => c.st = Leave(r.st)
         /\ c.ret \notin {Fail, NoMatch} =>
              /\ c.ret \in 0..Len(v) /\ r.st.mem # 0
              /\ c.st = LinkChild(Alloc(Leave(r.st)), MatchOf(r.st, v, r.ret))
         /\ c.ret = Fail => r.ret = Fail \/ r.st.mem = 0 \/ r.ret > Len(v)
<1>1. Leave(r.st) \in Below(x) /\ Leave(r.st) \in States
  <2> DEFINE y == r.st
  <2>1. y \in Below(Enter(x, n))
    OBVIOUS
  <2> HIDE DEF y
  <2>2. Leave(y) \in Below(x)
    BY <2>1, LeaveTyped
  <2>3. Leave(y) \in States
    BY <2>2, BelowStates
  <2> QED
    BY <2>2, <2>3 DEF y
<1>2. Alloc(Leave(r.st)) \in Below(x) /\ Alloc(Leave(r.st)) \in States
  BY <1>1, AllocTyped DEF Below
<1>3. CASE r.ret \in {Fail, NoMatch}
  <2>1. c = Result(r.ret, Leave(r.st))
    BY <1>3 DEF Returned
  <2> QED
    BY <1>1, <1>3, <2>1, ResultFields, ResultsFields DEF Fail, NoMatch
<1>4. CASE r.ret \notin {Fail, NoMatch} /\ (r.st.mem = 0 \/ r.ret > Len(v))
  <2>1. c = Fails(Alloc(Leave(r.st)))
    BY <1>4 DEF Returned, AllocFails
  <2> QED
    BY <1>2, <1>4, <2>1, FailsTyped DEF Fail, NoMatch
<1>5. CASE r.ret \notin {Fail, NoMatch} /\ r.st.mem # 0 /\ ~(r.ret > Len(v))
  <2>1. c = Result(r.ret, LinkChild(Alloc(Leave(r.st)), MatchOf(r.st, v, r.ret)))
    BY <1>5 DEF Returned, MatchOf
  <2>2. r.ret \in 0..Len(v) /\ r.ret \in Nat
    BY <1>5, VectorLen DEF Fail
  <2>3. MatchOf(r.st, v, r.ret) \in Pnodes
    <3>1. x \in States
      BY DEF Started
    <3> QED
      BY <2>2, <3>1, MatchTyped
  <2>4. LinkChild(Alloc(Leave(r.st)), MatchOf(r.st, v, r.ret)) \in Below(x)
    BY <1>2, <2>3, LinkTyped
  <2>5. LinkChild(Alloc(Leave(r.st)), MatchOf(r.st, v, r.ret)) \in States
    BY <2>4 DEF Below
  <2>6. c.ret = r.ret /\ c.st = LinkChild(Alloc(Leave(r.st)), MatchOf(r.st, v, r.ret)) /\ c \in Results
    BY <2>1, <2>2, <2>5, ResultFields
  <2> QED
    BY <1>5, <2>2, <2>4, <2>6
<1> QED
  BY <1>3, <1>4, <1>5

-----------------------------------------------------------------------------
\* What the callbacks return: a length that the language of their node has.
\* P is the calls one level deeper, L the lengths of their nodes.

\* a grammar of nodes of the types of the families
GrammarNodes ==
  [type : {"str", "any", "empty", "none"} \cup Unary \cup Nary, kids : Seq(Nat), word : Strings,
   min : Nat, max : Nat]
GrammarOk ==
  /\ nodes \in Seq(GrammarNodes)
  /\ \A n \in DOMAIN nodes :
       /\ \A i \in DOMAIN Kids(n) : Kids(n)[i] \in 1..(n - 1)
       /\ IsLeaf(n) => Kids(n) = <<>>
       /\ nodes[n].type \in Unary => Len(Kids(n)) = 1

Sounds(st, lengths) ==
  {r \in Results : r.st \in Below(st) /\ r.ret \in {Fail, NoMatch} \cup lengths}
Sound(P, L) ==
  \A n \in DOMAIN nodes : \A st \in Started : \A v \in Vectors :
    P[n][st][v] \in Sounds(st, L[n][v])
Natural(L) == \A n \in DOMAIN nodes : \A v \in Vectors : L[n][v] \in SUBSET Nat

LEMMA NodeTyped ==
  ASSUME GrammarOk, NEW n \in DOMAIN nodes
  PROVE  /\ n \in Nat \ {0} /\ nodes[n] \in GrammarNodes /\ Kids(n) = nodes[n].kids
         /\ nodes[n].kids \in Seq(Nat) /\ nodes[n].min \in Nat /\ nodes[n].max \in Nat
         /\ nodes[n].word \in Strings
         /\ \A i \in DOMAIN nodes[n].kids :
              /\ nodes[n].kids[i] \in DOMAIN nodes /\ nodes[n].kids[i] \in Nat
              /\ nodes[n].kids[i] < n
<1>1. nodes \in Seq(GrammarNodes) /\ DOMAIN nodes = 1..Len(nodes) /\ Len(nodes) \in Nat
  BY DEF GrammarOk
<1>2. nodes[n] \in GrammarNodes /\ n \in 1..Len(nodes)
  BY <1>1
<1>3. \A i \in DOMAIN Kids(n) : Kids(n)[i] \in 1..(n - 1)
  BY DEF GrammarOk
<1>4. Kids(n) = nodes[n].kids
  BY DEF Kids
<1>5. nodes[n].kids \in Seq(Nat) /\ nodes[n].min \in Nat /\ nodes[n].max \in Nat /\ nodes[n].word \in Strings
  BY <1>2 DEF GrammarNodes
<1> QED
  BY <1>1, <1>2, <1>3, <1>4, <1>5

\* a call of ec_parse_child()
LEMMA ChildSound ==
  ASSUME Trees, GrammarOk, NEW P, NEW L, Sound(P, L), Natural(L),
         NEW n \in DOMAIN nodes, NEW st \in Started, NEW x \in Below(st), NEW v \in Vectors,
         NEW c, c = ParseChild(P, n, x, v)
  PROVE  /\ c \in Sounds(st, L[n][v]) /\ c.st \in Below(st) /\ c.st \in Started /\ c \in Results
         /\ c.ret \in {Fail, NoMatch} \/ c.ret \in L[n][v] \cap (0..Len(v))
<1>1. x \in Started /\ x \in States /\ n \in Nat
  BY BelowStarted, NodeTyped DEF Below
<1>2. CASE x.mem = 0
  <2>1. c = Fails(Alloc(x)) /\ Alloc(x) \in Below(st) /\ Alloc(x) \in States
    BY <1>2, AllocTyped DEF ParseChild, AllocFails, Below
  <2>2. c \in Results /\ c.ret = Fail /\ c.st = Alloc(x)
    BY <2>1, FailsTyped
  <2> QED
    BY <2>1, <2>2, BelowStarted DEF Sounds
<1>3. CASE x.mem # 0
  <2> DEFINE r == P[n][Enter(x, n)][v]
  <2>1. c = Returned(r, v)
    BY <1>3 DEF ParseChild
  <2>2. r \in Sounds(Enter(x, n), L[n][v])
    BY <1>1, EnterTyped DEF Sound
  <2>3. L[n][v] \in SUBSET Nat
    BY DEF Natural
  <2> HIDE DEF r
  <2>4. r \in Results /\ r.st \in Below(Enter(x, n)) /\ r.ret \in {Fail, NoMatch} \cup L[n][v]
    BY <2>2 DEF Sounds
  <2>5. r.ret \in Nat \cup {Fail}
    BY <2>3, <2>4 DEF NoMatch
  <2>6. /\ c \in Results /\ c.st \in Below(x) /\ c.ret \in {Fail, r.ret}
        /\ c.ret \notin {Fail, NoMatch} => c.ret \in 0..Len(v)
    BY <1>1, <2>1, <2>4, <2>5, ReturnedTyped
  <2>7. c.st \in Below(st) /\ c.st \in Started
    BY <2>6, BelowTrans, BelowStarted
  <2> QED
    BY <2>4, <2>6, <2>7 DEF Sounds
<1> QED
  BY <1>2, <1>3

\* results no longer than the string vector
Within(st, lengths, v) ==
  {r \in Results : r.st \in Below(st) /\ (r.ret \in {Fail, NoMatch} \/ r.ret \in lengths \cap (0..Len(v)))}

LEMMA WithinSounds ==
  ASSUME NEW st, NEW lengths, NEW v, NEW r \in Within(st, lengths, v)
  PROVE  r \in Sounds(st, lengths)
BY DEF Within, Sounds

LEMMA WithinBuilt ==
  ASSUME Trees, NEW st \in Started, NEW x \in Below(st), NEW lengths, NEW v, NEW ret \in Int,
         ret \in {Fail, NoMatch} \/ ret \in lengths \cap (0..Len(v))
  PROVE  Result(ret, x) \in Within(st, lengths, v)
<1>1. x \in States
  BY DEF Below
<1> QED
  BY <1>1, ResultFields DEF Within

LEMMA SoundsBuilt ==
  ASSUME Trees, NEW st \in Started, NEW x \in Below(st), NEW lengths, NEW ret \in Int,
         ret \in {Fail, NoMatch} \cup lengths
  PROVE  Result(ret, x) \in Sounds(st, lengths)
<1>1. x \in States
  BY DEF Below
<1> QED
  BY <1>1, ResultFields DEF Sounds

\* a callee that fails for want of memory
LEMMA AllocFailsSound ==
  ASSUME Trees, NEW st \in Started, NEW x \in Below(st), NEW lengths, NEW v
  PROVE  AllocFails(x) \in Within(st, lengths, v)
<1>1. Alloc(x) \in Below(st)
  BY AllocTyped
<1>2. Result(Fail, Alloc(x)) \in Within(st, lengths, v)
  BY <1>1, WithinBuilt DEF Fail
<1> QED
  BY <1>2 DEF AllocFails, Fails

LEMMA LeafSound ==
  ASSUME Trees, GrammarOk, NEW P, NEW L, NEW n \in DOMAIN nodes, NEW st \in Started, NEW v \in Vectors,
         nodes[n].type \in {"str", "any", "empty", "none"}
  PROVE  ParseNode(P, n, st, v) \in Sounds(st, NodeLengths(L, n, v))
<1>0. st \in Below(st)
  BY BelowSelf
<1>1. CASE nodes[n].type = "str"
  <2>1. ParseNode(P, n, st, v) = StrParse(nodes[n], st, v)
    BY <1>1 DEF ParseNode
  <2>2. NodeLengths(L, n, v) = IF v # <<>> /\ v[1] = nodes[n].word THEN {1} ELSE {}
    BY <1>1 DEF NodeLengths
  <2> QED
    BY <1>0, <2>1, <2>2, SoundsBuilt DEF StrParse, NoMatch
<1>2. CASE nodes[n].type = "any"
  <2>1. ParseNode(P, n, st, v) = AnyParse(st, v)
    BY <1>2 DEF ParseNode
  <2>2. NodeLengths(L, n, v) = IF v # <<>> THEN {1} ELSE {}
    BY <1>2 DEF NodeLengths
  <2> QED
    BY <1>0, <2>1, <2>2, SoundsBuilt DEF AnyParse, NoMatch
<1>3. CASE nodes[n].type = "empty"
  <2>1. ParseNode(P, n, st, v) = EmptyParse(st)
    BY <1>3 DEF ParseNode
  <2>2. NodeLengths(L, n, v) = {0}
    BY <1>3 DEF NodeLengths
  <2> QED
    BY <1>0, <2>1, <2>2, SoundsBuilt DEF EmptyParse
<1>4. CASE nodes[n].type = "none"
  <2>1. ParseNode(P, n, st, v) = NoneParse(st)
    BY <1>4 DEF ParseNode
  <2> QED
    BY <1>0, <2>1, SoundsBuilt DEF NoneParse, NoMatch
<1> QED
  BY <1>1, <1>2, <1>3, <1>4

-----------------------------------------------------------------------------
\* ec_node_seq_parse()

EndsStep(L, kids, s) ==
  [i \in DOMAIN kids |-> [ends \in SUBSET Nat |->
     UNION {{h + k : k \in L[kids[i]][Rest(s, h)]} : h \in ends}]]
EndsTo(L, kids, s, i) == Loop(EndsStep(L, kids, s), {0}, i)

\* nodes that exist
Existing(kids) == kids \in Seq(Nat) /\ \A i \in DOMAIN kids : kids[i] \in DOMAIN nodes

LEMMA EndsRound ==
  ASSUME NEW L, Natural(L), NEW kids, Existing(kids), NEW s \in Vectors
  PROVE  /\ EndsTo(L, kids, s, 0) = {0}
         /\ \A i \in 0..Len(kids) : EndsTo(L, kids, s, i) \in SUBSET Nat
         /\ \A i \in 0..(Len(kids) - 1) : \A h \in EndsTo(L, kids, s, i) :
              \A k \in L[kids[i + 1]][Rest(s, h)] : h + k \in EndsTo(L, kids, s, i + 1)
         /\ Ends(L, kids, s) = EndsTo(L, kids, s, Len(kids))
<1> DEFINE step == EndsStep(L, kids, s)
           E(i) == EndsTo(L, kids, s, i)
<1>0. Len(kids) \in Nat /\ DOMAIN kids = 1..Len(kids)
  BY DEF Existing
<1>1. E(0) = {0}
  BY LoopRounds DEF EndsTo
<1>2. ASSUME NEW i \in 0..(Len(kids) - 1), E(i) \in SUBSET Nat
      PROVE  E(i + 1) = UNION {{h + k : k \in L[kids[i + 1]][Rest(s, h)]} : h \in E(i)}
  <2>1. E(i + 1) = step[i + 1][E(i)]
    BY <1>0, LoopRounds DEF EndsTo
  <2>2. i + 1 \in DOMAIN kids
    BY <1>0
  <2> QED
    BY <1>2, <2>1, <2>2 DEF EndsStep
<1>3. ASSUME NEW i \in 0..(Len(kids) - 1), E(i) \in SUBSET Nat
      PROVE  E(i + 1) \in SUBSET Nat
  <2>1. kids[i + 1] \in DOMAIN nodes
    BY <1>0 DEF Existing
  <2>2. ASSUME NEW h \in E(i), NEW k \in L[kids[i + 1]][Rest(s, h)] PROVE h + k \in Nat
    <3>1. h \in Nat /\ Rest(s, h) \in Vectors
      BY <1>3, RestTyped
    <3>2. k \in Nat
      BY <2>1, <3>1 DEF Natural
    <3> QED
      BY <3>1, <3>2
  <2> HIDE DEF E
  <2> QED
    BY <1>2, <1>3, <2>2
<1>4. 0..Len(kids) \subseteq {i \in 0..Len(kids) : E(i) \in SUBSET Nat}
  <2> DEFINE S == {i \in 0..Len(kids) : E(i) \in SUBSET Nat}
  <2>1. 0 \in S
    BY <1>0, <1>1
  <2>2. ASSUME NEW i \in 0..(Len(kids) - 1), i \in S PROVE i + 1 \in S
    BY <1>0, <1>3, <2>2
  <2> HIDE DEF S
  <2>3. 0..Len(kids) \subseteq S
    BY <1>0, <2>1, <2>2, Induction
  <2> QED
    BY <2>3 DEF S
<1>5. ASSUME NEW i \in 0..(Len(kids) - 1), NEW h \in E(i), NEW k \in L[kids[i + 1]][Rest(s, h)]
      PROVE  h + k \in E(i + 1)
  <2>1. i \in 0..Len(kids)
    BY <1>0
  <2> HIDE DEF E
  <2>2. E(i) \in SUBSET Nat
    BY <1>4, <2>1
  <2>3. E(i + 1) = UNION {{h1 + k1 : k1 \in L[kids[i + 1]][Rest(s, h1)]} : h1 \in E(i)}
    BY <1>2, <2>2
  <2> QED
    BY <2>3
<1>6. Ends(L, kids, s) = E(Len(kids))
  BY DEF Ends, EndsTo, EndsStep
<1> QED
  BY <1>1, <1>4, <1>5, <1>6

\* an iteration: h is in the ends of the kids before, what it makes is in those
\* that follow a match of k
LEMMA SeqStep ==
  ASSUME Trees, GrammarOk, NEW P, NEW L, Sound(P, L), Natural(L),
         NEW st \in Started, NEW v \in Vectors, NEW k \in DOMAIN nodes,
         NEW before \in SUBSET Nat, NEW after,
         \A h \in before : \A l \in L[k][Rest(v, h)] : h + l \in after,
         NEW r \in Within(st, before, v)
  PROVE  SeqChild(P, k, r, v) \in Within(st, after, v)
<1>1. r \in Results /\ r.st \in Below(st) /\ r.st \in States
  BY DEF Within, Below
<1>2. CASE r.ret \in {Fail, NoMatch}
  BY <1>1, <1>2 DEF SeqChild, Within
<1>3. CASE r.ret \notin {Fail, NoMatch} /\ r.st.mem = 0
  BY <1>1, <1>3, AllocFailsSound DEF SeqChild
<1>4. CASE r.ret \notin {Fail, NoMatch} /\ r.st.mem # 0
  <2> DEFINE h == r.ret
             c == ParseChild(P, k, Alloc(r.st), Rest(v, h))
  <2>1. h \in before /\ h \in 0..Len(v) /\ h \in Nat /\ h <= Len(v)
    BY <1>4, VectorLen DEF Within
  <2>2. Rest(v, h) \in Vectors /\ Len(Rest(v, h)) = Len(v) - h
    BY <2>1, RestTyped
  <2>3. Alloc(r.st) \in Below(st)
    BY <1>1, AllocTyped
  <2>4. /\ c.st \in Below(st) /\ c \in Results
        /\ c.ret \in {Fail, NoMatch} \/ c.ret \in L[k][Rest(v, h)] \cap (0..Len(Rest(v, h)))
    BY <2>2, <2>3, ChildSound
  <2>5. SeqChild(P, k, r, v) = SeqCalled(r, c)
    BY <1>4 DEF SeqChild
  <2> HIDE DEF c
  <2>6. CASE c.ret = Fail
    <3>1. SeqCalled(r, c) = c
      BY <2>6 DEF SeqCalled, Fail, NoMatch
    <3> QED
      BY <2>4, <2>5, <2>6, <3>1 DEF Within
  <2>7. CASE c.ret = NoMatch
    <3>1. SeqCalled(r, c) = Result(NoMatch, FreeChildren(c.st))
      BY <2>7 DEF SeqCalled, Fail, NoMatch
    <3>2. FreeChildren(c.st) \in Below(st)
      BY <2>4, FreeTyped
    <3> QED
      BY <2>5, <3>1, <3>2, WithinBuilt DEF NoMatch
  <2>8. CASE c.ret \notin {Fail, NoMatch}
    <3>1. SeqCalled(r, c) = Result(h + c.ret, c.st)
      BY <2>8 DEF SeqCalled
    <3>2. c.ret \in L[k][Rest(v, h)] /\ c.ret \in 0..(Len(v) - h)
      BY <2>2, <2>4, <2>8
    <3>3. h + c.ret \in after /\ h + c.ret \in 0..Len(v) /\ h + c.ret \in Int
      BY <2>1, <3>2, VectorLen
    <3> QED
      BY <2>4, <2>5, <3>1, <3>3, WithinBuilt
  <2> QED
    BY <2>6, <2>7, <2>8
<1> QED
  BY <1>2, <1>3, <1>4

LEMMA SeqSound ==
  ASSUME Trees, GrammarOk, NEW P, NEW L, Sound(P, L), Natural(L),
         NEW node, Existing(node.kids), NEW st \in Started, NEW v \in Vectors
  PROVE  SeqParse(P, node, st, v) \in Sounds(st, Ends(L, node.kids, v))
<1> DEFINE kids == node.kids
           m == Len(kids)
           step == [i \in DOMAIN kids |-> [r \in Results |-> SeqChild(P, kids[i], r, v)]]
           at == [i \in 0..m |-> Within(st, EndsTo(L, kids, v, i), v)]
<1>0. m \in Nat /\ DOMAIN kids = 1..m
  BY DEF Existing
<1>1. Result(0, st) \in at[0]
  <2>1. 0 \in EndsTo(L, kids, v, 0)
    BY EndsRound
  <2>2. st \in Below(st) /\ 0 \in 0..Len(v)
    BY BelowSelf, VectorLen
  <2> QED
    BY <1>0, <2>1, <2>2, WithinBuilt
<1>2. ASSUME NEW i \in 1..m, NEW x \in at[i - 1] PROVE step[i][x] \in at[i]
  <2>1. i \in 0..m /\ i - 1 \in 0..m /\ i - 1 \in 0..(m - 1) /\ (i - 1) + 1 = i /\ i \in DOMAIN kids
    BY <1>0
  <2>2. x \in Within(st, EndsTo(L, kids, v, i - 1), v) /\ x \in Results
    BY <2>1 DEF Within
  <2>3. EndsTo(L, kids, v, i - 1) \in SUBSET Nat
    BY <2>1, EndsRound
  <2>4. \A h \in EndsTo(L, kids, v, i - 1) : \A l \in L[kids[i]][Rest(v, h)] : h + l \in EndsTo(L, kids, v, i)
    BY <2>1, EndsRound
  <2>5. kids[i] \in DOMAIN nodes
    BY <2>1 DEF Existing
  <2>6. SeqChild(P, kids[i], x, v) \in Within(st, EndsTo(L, kids, v, i), v)
    BY <2>2, <2>3, <2>4, <2>5, SeqStep
  <2> QED
    BY <2>1, <2>2, <2>6
<1>3. SeqParse(P, node, st, v) = Loop(step, Result(0, st), m)
  BY DEF SeqParse
<1>4. at[m] = Within(st, Ends(L, kids, v), v)
  BY <1>0, EndsRound
<1> HIDE DEF step, at, m
<1>5. Loop(step, Result(0, st), m) \in at[m]
  BY <1>0, <1>1, <1>2, LoopInvariant
<1> QED
  BY <1>3, <1>4, <1>5, WithinSounds

-----------------------------------------------------------------------------
\* ec_node_or_parse()

LEMMA OrSound ==
  ASSUME Trees, GrammarOk, NEW P, NEW L, Sound(P, L), Natural(L),
         NEW node, Existing(node.kids), NEW st \in Started, NEW v \in Vectors
  PROVE  OrParse(P, node, st, v) \in Sounds(st, UNION {L[node.kids[i]][v] : i \in DOMAIN node.kids})
<1> DEFINE kids == node.kids
           m == Len(kids)
           lengths == UNION {L[kids[i]][v] : i \in DOMAIN kids}
           step == [i \in DOMAIN kids |-> [r \in Results |-> OrChild(P, kids[i], r, v)]]
           at == [i \in 0..m |-> Within(st, lengths, v)]
<1>0. m \in Nat /\ DOMAIN kids = 1..m
  BY DEF Existing
<1>1. Result(NoMatch, st) \in at[0]
  BY <1>0, BelowSelf, WithinBuilt DEF NoMatch
<1>2. ASSUME NEW i \in 1..m, NEW x \in at[i - 1] PROVE step[i][x] \in at[i]
  <2>1. i \in 0..m /\ i - 1 \in 0..m /\ i \in DOMAIN kids /\ kids[i] \in DOMAIN nodes
    BY <1>0 DEF Existing
  <2>2. x \in Within(st, lengths, v) /\ x \in Results /\ x.st \in Below(st)
    BY <2>1 DEF Within
  <2>3. CASE x.ret = NoMatch
    <3> DEFINE c == ParseChild(P, kids[i], x.st, v)
    <3>1. /\ c.st \in Below(st) /\ c \in Results
          /\ c.ret \in {Fail, NoMatch} \/ c.ret \in L[kids[i]][v] \cap (0..Len(v))
      BY <2>1, <2>2, ChildSound
    <3>2. L[kids[i]][v] \subseteq lengths
      BY <2>1
    <3>3. step[i][x] = c
      BY <2>1, <2>2, <2>3 DEF OrChild
    <3> HIDE DEF c, step, lengths
    <3>4. c \in Within(st, lengths, v)
      BY <3>1, <3>2 DEF Within
    <3> QED
      BY <2>1, <3>3, <3>4
  <2>4. CASE x.ret # NoMatch
    BY <2>1, <2>2, <2>4 DEF OrChild
  <2> QED
    BY <2>3, <2>4
<1>3. OrParse(P, node, st, v) = Loop(step, Result(NoMatch, st), m)
  BY DEF OrParse
<1>4. at[m] = Within(st, lengths, v)
  BY <1>0
<1> HIDE DEF step, at, m, lengths
<1>5. Loop(step, Result(NoMatch, st), m) \in at[m]
  BY <1>0, <1>1, <1>2, LoopInvariant
<1>6. OrParse(P, node, st, v) \in Sounds(st, lengths)
  BY <1>3, <1>4, <1>5, WithinSounds
<1> QED
  BY <1>6 DEF lengths

-----------------------------------------------------------------------------
\* ec_node_option_parse(), ec_node_once_parse(), ec_node_bypass_parse()

LEMMA OptionSound ==
  ASSUME Trees, GrammarOk, NEW P, NEW L, Sound(P, L), Natural(L),
         NEW node, node.kids[1] \in DOMAIN nodes, NEW st \in Started, NEW v \in Vectors
  PROVE  OptionParse(P, node, st, v) \in Sounds(st, {0} \cup L[node.kids[1]][v])
<1> DEFINE c == ParseChild(P, node.kids[1], st, v)
<1>1. c \in Sounds(st, L[node.kids[1]][v]) /\ c.st \in Below(st)
  BY BelowSelf, ChildSound
<1>2. OptionParse(P, node, st, v) = IF c.ret = NoMatch THEN Result(0, c.st) ELSE c
  BY DEF OptionParse
<1> HIDE DEF c
<1>3. CASE c.ret = NoMatch
  BY <1>1, <1>2, <1>3, SoundsBuilt
<1>4. CASE c.ret # NoMatch
  BY <1>1, <1>2, <1>4 DEF Sounds
<1> QED
  BY <1>3, <1>4

LEMMA OnceSound ==
  ASSUME Trees, GrammarOk, NEW P, NEW L, Sound(P, L), Natural(L),
         NEW node, node.kids[1] \in DOMAIN nodes, NEW st \in Started, NEW v \in Vectors
  PROVE  OnceParse(P, node, st, v) \in Sounds(st, L[node.kids[1]][v])
<1>1. ParseChild(P, node.kids[1], st, v) \in Sounds(st, L[node.kids[1]][v])
  BY BelowSelf, ChildSound
<1>2. Result(NoMatch, st) \in Sounds(st, L[node.kids[1]][v])
  BY BelowSelf, SoundsBuilt DEF NoMatch
<1> QED
  BY <1>1, <1>2 DEF OnceParse

LEMMA BypassSound ==
  ASSUME Trees, GrammarOk, NEW P, NEW L, Sound(P, L), Natural(L),
         NEW node, node.kids[1] \in DOMAIN nodes, NEW st \in Started, NEW v \in Vectors
  PROVE  BypassParse(P, node, st, v) \in Sounds(st, L[node.kids[1]][v])
BY BelowSelf, ChildSound DEF BypassParse

-----------------------------------------------------------------------------
\* ec_node_many_parse()

LEMMA RepeatedTyped ==
  ASSUME GrammarOk, NEW k \in DOMAIN nodes, NEW i \in Nat
  PROVE  /\ Existing(Repeated(k, i)) /\ Len(Repeated(k, i)) = i
         /\ \A j \in 1..i : Repeated(k, i)[j] = k
<1>1. k \in Nat
  BY NodeTyped
<1>2. Repeated(k, i) \in [1..i -> Nat] /\ DOMAIN Repeated(k, i) = 1..i
  BY <1>1 DEF Repeated
<1>3. Repeated(k, i) \in Seq(Nat) /\ Len(Repeated(k, i)) = i
  BY <1>2
<1> QED
  BY <1>2, <1>3 DEF Repeated, Existing

LEMMA RepeatedEnds ==
  ASSUME GrammarOk, NEW L, Natural(L), NEW k \in DOMAIN nodes, NEW i \in Nat, NEW v \in Vectors
  PROVE  /\ Ends(L, Repeated(k, 0), v) = {0}
         /\ Ends(L, Repeated(k, i), v) \in SUBSET Nat
         /\ \A h \in Ends(L, Repeated(k, i), v) : \A l \in L[k][Rest(v, h)] :
              h + l \in Ends(L, Repeated(k, i + 1), v)
<1>1. Existing(Repeated(k, 0)) /\ Len(Repeated(k, 0)) = 0
  BY RepeatedTyped
<1>2. Ends(L, Repeated(k, 0), v) = {0}
  BY <1>1, EndsRound
<1> DEFINE a == Repeated(k, i)
           b == Repeated(k, i + 1)
<1>3. /\ Existing(a) /\ Len(a) = i /\ DOMAIN a = 1..i /\ \A j \in 1..i : a[j] = k
      /\ Existing(b) /\ Len(b) = i + 1 /\ DOMAIN b = 1..(i + 1) /\ \A j \in 1..(i + 1) : b[j] = k
  BY RepeatedTyped DEF Repeated
<1> HIDE DEF a, b
<1>4. Ends(L, a, v) \in SUBSET Nat /\ Ends(L, a, v) = EndsTo(L, a, v, i)
  BY <1>3, EndsRound
<1>5. EndsTo(L, a, v, i) = EndsTo(L, b, v, i)
  <2>1. ASSUME NEW j \in 1..i PROVE EndsStep(L, a, v)[j] = EndsStep(L, b, v)[j]
    <3>1. j \in DOMAIN a /\ j \in DOMAIN b /\ a[j] = k /\ b[j] = k
      BY <1>3
    <3> QED
      BY <3>1 DEF EndsStep
  <2> QED
    BY <2>1, LoopSame DEF EndsTo
<1>6. ASSUME NEW h \in Ends(L, a, v), NEW l \in L[k][Rest(v, h)]
      PROVE  h + l \in Ends(L, b, v)
  <2>1. i \in 0..(Len(b) - 1) /\ b[i + 1] = k
    BY <1>3
  <2>2. h \in EndsTo(L, b, v, i)
    BY <1>4, <1>5
  <2>3. h + l \in EndsTo(L, b, v, i + 1)
    BY <1>3, <2>1, <2>2, EndsRound
  <2>4. Ends(L, b, v) = EndsTo(L, b, v, i + 1)
    BY <1>3, EndsRound
  <2> QED
    BY <2>3, <2>4
<1> QED
  BY <1>2, <1>4, <1>6 DEF a, b

\* the results of the first i iterations
ManyIn(L, node, st, v, i) ==
  {r \in Manys :
     /\ r.st \in Below(st)
     /\ r.ret = Fail => r.over
     /\ r.ret # Fail =>
          /\ r.ret \in Ends(L, Repeated(node.kids[1], r.count), v) \cap (0..Len(v))
          /\ r.count <= i /\ (node.max = 0 => r.count <= r.ret)}

LEMMA ManyStep ==
  ASSUME Trees, GrammarOk, NEW P, NEW L, Sound(P, L), Natural(L),
         NEW node, node.kids[1] \in DOMAIN nodes, NEW st \in Started, NEW v \in Vectors,
         NEW i \in Nat, NEW r \in ManyIn(L, node, st, v, i)
  PROVE  ManyChild(P, node, r, v) \in ManyIn(L, node, st, v, i + 1)
<1> DEFINE k == node.kids[1]
<1>0. r \in Manys /\ r.st \in Below(st) /\ r.ret \in Int /\ r.st \in States /\ r.count \in Nat
  BY DEF ManyIn, Manys
<1>1. CASE r.over
  <2>1. ManyChild(P, node, r, v) = r
    BY <1>1 DEF ManyChild
  <2> QED
    BY <1>0, <2>1 DEF ManyIn
<1>2. CASE ~r.over /\ r.st.mem = 0
  <2> DEFINE q == [r EXCEPT !.ret = Fail, !.st = Alloc(r.st), !.over = TRUE]
  <2>1. ManyChild(P, node, r, v) = q
    BY <1>2 DEF ManyChild
  <2>2. Alloc(r.st) \in Below(st) /\ Fail \in Int
    BY <1>0, AllocTyped DEF Fail
  <2>4. Alloc(r.st) \in States
    BY <2>2, BelowStates
  <2>3. q \in Manys /\ q.ret = Fail /\ q.st = Alloc(r.st) /\ q.over
    BY <1>0, <2>2, <2>4 DEF Manys
  <2> HIDE DEF q
  <2> QED
    BY <2>1, <2>2, <2>3 DEF ManyIn
<1>3. CASE ~r.over /\ r.st.mem # 0
  <2> DEFINE h == r.ret
             c == ParseChild(P, k, Alloc(r.st), Rest(v, h))
  <2>1. h \in Ends(L, Repeated(k, r.count), v) /\ h \in 0..Len(v) /\ h \in Nat /\ h <= Len(v)
        /\ r.count <= i /\ (node.max = 0 => r.count <= h)
    BY <1>3, VectorLen DEF ManyIn
  <2>2. Rest(v, h) \in Vectors /\ Len(Rest(v, h)) = Len(v) - h
    BY <2>1, RestTyped
  <2>3. Alloc(r.st) \in Below(st)
    BY <1>0, AllocTyped
  <2>4. /\ c.st \in Below(st) /\ c \in Results
        /\ c.ret \in {Fail, NoMatch} \/ c.ret \in L[k][Rest(v, h)] \cap (0..Len(Rest(v, h)))
    BY <2>2, <2>3, ChildSound
  <2>5. ManyChild(P, node, r, v) = ManyCalled(node, r, c)
    BY <1>3 DEF ManyChild
  <2> HIDE DEF c
  <2>6. c.st \in States /\ c.ret \in Int
    BY <2>4, ResultsFields
  <2>7. CASE c.ret = Fail
    <3> DEFINE q == [r EXCEPT !.ret = Fail, !.st = c.st, !.over = TRUE]
    <3>1. ManyCalled(node, r, c) = q
      BY <2>7 DEF ManyCalled, Fail, NoMatch
    <3>2. q \in Manys /\ q.ret = Fail /\ q.st = c.st /\ q.over
      BY <1>0, <2>6, FailInt DEF Manys
    <3> HIDE DEF q
    <3> QED
      BY <2>4, <2>5, <3>1, <3>2 DEF ManyIn
  <2>8. CASE c.ret = NoMatch
    <3> DEFINE q == [r EXCEPT !.st = c.st, !.over = TRUE]
    <3>1. ManyCalled(node, r, c) = q
      BY <2>8 DEF ManyCalled, Fail, NoMatch
    <3>2. q \in Manys /\ q.ret = h /\ q.st = c.st /\ q.over /\ q.count = r.count
      BY <1>0, <2>6 DEF Manys
    <3> HIDE DEF q
    <3> QED
      BY <1>0, <2>1, <2>4, <2>5, <3>1, <3>2 DEF ManyIn
  <2>9. CASE c.ret = 0 /\ node.max = 0
    <3> DEFINE q == [r EXCEPT !.st = DelLastChild(c.st), !.over = TRUE]
    <3>1. ManyCalled(node, r, c) = q
      BY <2>9 DEF ManyCalled, Fail, NoMatch
    <3>2. DelLastChild(c.st) \in Below(st) /\ DelLastChild(c.st) \in States
      BY <2>4, DelTyped, BelowStates
    <3>3. q \in Manys /\ q.ret = h /\ q.st = DelLastChild(c.st) /\ q.over /\ q.count = r.count
      BY <1>0, <3>2 DEF Manys
    <3> HIDE DEF q
    <3> QED
      BY <1>0, <2>1, <2>5, <3>1, <3>2, <3>3 DEF ManyIn
  <2>10. CASE c.ret \notin {Fail, NoMatch} /\ ~(c.ret = 0 /\ node.max = 0)
    <3> DEFINE q == [r EXCEPT !.ret = h + c.ret, !.st = c.st, !.count = r.count + 1]
    <3>1. ManyCalled(node, r, c) = q
      BY <2>10 DEF ManyCalled
    <3>2. c.ret \in L[k][Rest(v, h)] /\ c.ret \in 0..(Len(v) - h)
      BY <2>2, <2>4, <2>10
    <3>3. h + c.ret \in Int /\ h + c.ret \in 0..Len(v) /\ h + c.ret # Fail
      BY <2>1, <3>2, VectorLen DEF Fail
    <3>4. h + c.ret \in Ends(L, Repeated(k, r.count + 1), v)
      BY <1>0, <2>1, <3>2, RepeatedEnds
    <3>5. q \in Manys /\ q.ret = h + c.ret /\ q.st = c.st /\ q.count = r.count + 1
      <4> DEFINE ret == h + c.ret
                 count == r.count + 1
      <4>1. ret \in Int /\ count \in Nat
        BY <1>0, <3>3
      <4>2. q = [r EXCEPT !.ret = ret, !.st = c.st, !.count = count]
        OBVIOUS
      <4> HIDE DEF ret, count, q
      <4>3. q \in Manys /\ q.ret = ret /\ q.st = c.st /\ q.count = count
        BY <1>0, <2>6, <4>1, <4>2 DEF Manys
      <4> QED
        BY <4>3 DEF ret, count
    <3>6. r.count + 1 <= i + 1 /\ (node.max = 0 => r.count + 1 <= h + c.ret)
      BY <1>0, <2>1, <2>10, <3>2, VectorLen
    <3> HIDE DEF q
    <3> QED
      BY <2>4, <2>5, <3>1, <3>3, <3>4, <3>5, <3>6 DEF ManyIn
  <2> QED
    BY <2>7, <2>8, <2>9, <2>10
<1> QED
  BY <1>1, <1>2, <1>3

LEMMA ManySound ==
  ASSUME Trees, GrammarOk, NEW P, NEW L, Sound(P, L), Natural(L),
         NEW node, node.kids[1] \in DOMAIN nodes, node.min \in Nat, node.max \in Nat,
         NEW st \in Started, NEW v \in Vectors
  PROVE  ManyParse(P, node, st, v) \in
           Sounds(st, UNION {Ends(L, Repeated(node.kids[1], k), v) : k \in Repeats(node, v)})
<1> DEFINE m == Rounds(node, v)
           step == [i \in 1..m |-> [r \in Manys |-> ManyChild(P, node, r, v)]]
           at == [i \in 0..m |-> ManyIn(L, node, st, v, i)]
           first == [ret |-> 0, st |-> st, count |-> 0, over |-> FALSE]
           lengths == UNION {Ends(L, Repeated(node.kids[1], k), v) : k \in Repeats(node, v)}
<1>0. m \in Nat /\ Len(v) \in Nat
  BY VectorLen DEF Rounds
<1>1. first \in at[0]
  <2>1. 0 \in Ends(L, Repeated(node.kids[1], 0), v)
    BY RepeatedEnds
  <2>2. st \in Below(st) /\ st \in States
    BY BelowSelf, BelowStates
  <2>3. first \in Manys /\ first.ret = 0 /\ first.st = st /\ first.count = 0
    BY <2>2 DEF Manys
  <2>4. 0 \in 0..Len(v) /\ 0 # Fail
    BY <1>0 DEF Fail
  <2> HIDE DEF first
  <2>5. first \in ManyIn(L, node, st, v, 0)
    BY <2>1, <2>2, <2>3, <2>4 DEF ManyIn
  <2> QED
    BY <1>0, <2>5
<1>2. ASSUME NEW i \in 1..m, NEW x \in at[i - 1] PROVE step[i][x] \in at[i]
  <2>1. i \in 0..m /\ i - 1 \in 0..m /\ i - 1 \in Nat /\ (i - 1) + 1 = i
    BY <1>0
  <2>2. x \in ManyIn(L, node, st, v, i - 1) /\ x \in Manys
    BY <2>1 DEF ManyIn
  <2>3. ManyChild(P, node, x, v) \in ManyIn(L, node, st, v, i)
    BY <2>1, <2>2, ManyStep
  <2> QED
    BY <2>1, <2>2, <2>3
<1> DEFINE r == Loop(step, first, m)
<1>3. ManyParse(P, node, st, v) = IF r.ret = Fail THEN Fails(r.st) ELSE ManyEnd(node, r)
  BY DEF ManyParse
<1>4. r \in ManyIn(L, node, st, v, m)
  <2> HIDE DEF step, m, first
  <2>1. at[m] = ManyIn(L, node, st, v, m)
    BY <1>0
  <2> HIDE DEF at
  <2> QED
    BY <1>0, <1>1, <1>2, <2>1, LoopInvariant
<1> HIDE DEF r
<1>5. r.st \in Below(st) /\ r.count \in Nat /\ r.ret \in Int
  BY <1>4 DEF ManyIn, Manys
<1>6. CASE r.ret = Fail
  <2>1. Result(Fail, r.st) \in Sounds(st, lengths)
    BY <1>5, SoundsBuilt DEF Fail
  <2> QED
    BY <1>3, <1>6, <2>1 DEF Fails
<1>7. CASE r.ret # Fail /\ r.count < node.min
  <2>1. FreeChildren(r.st) \in Below(st)
    BY <1>5, FreeTyped
  <2>2. Result(NoMatch, FreeChildren(r.st)) \in Sounds(st, lengths)
    BY <2>1, SoundsBuilt DEF NoMatch
  <2> QED
    BY <1>3, <1>7, <2>2 DEF ManyEnd
<1>8. CASE r.ret # Fail /\ ~(r.count < node.min)
  <2>1. /\ r.ret \in Ends(L, Repeated(node.kids[1], r.count), v) /\ r.ret \in 0..Len(v)
        /\ r.count <= m /\ (node.max = 0 => r.count <= r.ret)
    BY <1>4, <1>8 DEF ManyIn
  <2>2. r.count \in Repeats(node, v)
    BY <1>0, <1>5, <1>8, <2>1 DEF Repeats, Rounds
  <2>3. r.ret \in lengths
    BY <2>1, <2>2
  <2> HIDE DEF lengths
  <2>4. Result(r.ret, r.st) \in Sounds(st, lengths)
    BY <1>5, <2>3, SoundsBuilt
  <2> QED
    BY <1>3, <1>8, <2>4 DEF ManyEnd, lengths
<1> QED
  BY <1>6, <1>7, <1>8

-----------------------------------------------------------------------------
\* What a call does to the children of the pnode it is made on

LEMMA OnKids ==
  ASSUME Trees, NEW x \in Started, NEW kids \in Seq(Pnodes)
  PROVE  Pstate(OnPstate(x, kids)).kids = kids
<1>1. x.spine \in Seq(Pnodes) /\ Len(x.spine) \in Nat \ {0} /\ x.spine[Len(x.spine)] \in Pnodes
  BY PstateTyped
<1> DEFINE y == OnPstate(x, kids)
<1>2. y \in Below(x) /\ y.spine = [x.spine EXCEPT ![Len(x.spine)].kids = kids]
  BY OnTyped
<1>3. y \in Started /\ Len(y.spine) = Len(x.spine)
  BY <1>2, BelowStarted
<1> HIDE DEF y
<1>4. Pstate(y) = y.spine[Len(x.spine)]
  BY <1>3, PstateTyped
<1>5. y.spine[Len(x.spine)] = [x.spine[Len(x.spine)] EXCEPT !.kids = kids]
  BY <1>1, <1>2
<1>6. [x.spine[Len(x.spine)] EXCEPT !.kids = kids].kids = kids
  BY <1>1, PnodeFields
<1> QED
  BY <1>4, <1>5, <1>6 DEF y

\* the last pnode depends on the spine only
LEMMA SameSpine ==
  ASSUME NEW x, NEW y, x.spine = y.spine
  PROVE  Pstate(x) = Pstate(y)
BY DEF Pstate

\* the pnode of a match, of which r is what the callback returned
Matching(n, v, r) ==
  [node |-> n, matches |-> TRUE, vec |-> SubSeq(v, 1, r.ret), kids |-> Pstate(r.st).kids]

LEMMA ChildReturns ==
  ASSUME Trees, NEW P, NEW n \in Nat, NEW x \in Started, NEW v \in Vectors,
         NEW r, r = P[n][Enter(x, n)][v], r \in Results, r.st \in Below(Enter(x, n)), r.ret \in Nat \cup {Fail},
         NEW c, c = ParseChild(P, n, x, v)
  PROVE  /\ c.ret = NoMatch => r.ret = NoMatch /\ x.mem # 0 /\ Pstate(c.st).kids = Pstate(x).kids
         /\ c.ret \notin {Fail, NoMatch} =>
              /\ c.ret = r.ret /\ x.mem # 0 /\ Matching(n, v, r) \in Pnodes
              /\ Pstate(c.st).kids = Append(Pstate(x).kids, Matching(n, v, r))
<1> DEFINE p == Matching(n, v, r)
<1>0. x \in States
  BY DEF Started
<1>1. CASE x.mem = 0
  <2>1. c.ret = Fail
    BY <1>1 DEF ParseChild, AllocFails, Fails, Result
  <2> QED
    BY <2>1 DEF Fail, NoMatch
<1>2. CASE x.mem # 0
  <2>1. c = Returned(r, v)
    BY <1>2 DEF ParseChild
  <2>2. /\ c \in Results /\ c.ret \in {Fail, r.ret}
        /\ c.ret = NoMatch => c.st = Leave(r.st)
        /\ c.ret \notin {Fail, NoMatch} =>
             c.ret \in 0..Len(v) /\ c.st = LinkChild(Alloc(Leave(r.st)), MatchOf(r.st, v, r.ret))
    BY <2>1, ReturnedTyped
  <2>3. Leave(r.st) \in Below(x) /\ Leave(r.st).spine = x.spine
    BY LeaveTyped
  <2>4. Pstate(Leave(r.st)) = Pstate(x)
    BY <2>3, SameSpine
  <2>5. ASSUME c.ret = NoMatch PROVE r.ret = NoMatch /\ Pstate(c.st).kids = Pstate(x).kids
    BY <2>2, <2>4, <2>5 DEF Fail, NoMatch
  <2>6. ASSUME c.ret \notin {Fail, NoMatch}
        PROVE  c.ret = r.ret /\ Matching(n, v, r) \in Pnodes /\ Pstate(c.st).kids = Append(Pstate(x).kids, Matching(n, v, r))
    <3> DEFINE y == Alloc(Leave(r.st))
    <3>1. r.ret \in 0..Len(v) /\ c.ret = r.ret
      BY <2>2, <2>6
    <3>2. MatchOf(r.st, v, r.ret) \in Pnodes /\ MatchOf(r.st, v, r.ret) = p
      BY <1>0, <3>1, MatchTyped DEF Matching
    <3> HIDE DEF p
    <3>3. y \in Below(x) /\ y.spine = x.spine
      BY <2>3, AllocTyped
    <3>4. y \in Started /\ Pstate(y) = Pstate(x)
      BY <3>3, BelowStarted, SameSpine
    <3>5. c.st = LinkChild(y, p)
      BY <2>2, <2>6, <3>2
    <3> HIDE DEF y
    <3>6. LinkChild(y, p) = OnPstate(y, Append(Pstate(y).kids, p)) /\ Append(Pstate(y).kids, p) \in Seq(Pnodes)
      BY <3>2, <3>3, LinkTyped
    <3>7. Pstate(c.st).kids = Append(Pstate(y).kids, p)
      BY <3>4, <3>5, <3>6, OnKids
    <3> QED
      BY <3>1, <3>2, <3>4, <3>7 DEF p
  <2> QED
    BY <1>2, <2>5, <2>6
<1> QED
  BY <1>1, <1>2

\* ... in a sound engine
LEMMA ChildLinks ==
  ASSUME Trees, GrammarOk, NEW P, NEW L, Sound(P, L), Natural(L),
         NEW n \in DOMAIN nodes, NEW x \in Started, NEW v \in Vectors,
         NEW c, c = ParseChild(P, n, x, v)
  PROVE  /\ c.ret = NoMatch => Pstate(c.st).kids = Pstate(x).kids
         /\ c.ret \notin {Fail, NoMatch} => \E p \in Pnodes : Pstate(c.st).kids = Append(Pstate(x).kids, p)
<1> DEFINE r == P[n][Enter(x, n)][v]
<1>1. n \in Nat /\ x \in States
  BY NodeTyped DEF Started
<1>2. r \in Sounds(Enter(x, n), L[n][v])
  BY <1>1, EnterTyped DEF Sound
<1>3. L[n][v] \in SUBSET Nat
  BY DEF Natural
<1> HIDE DEF r
<1>4. r \in Results /\ r.st \in Below(Enter(x, n)) /\ r.ret \in Nat \cup {Fail}
  BY <1>2, <1>3 DEF Sounds, NoMatch
<1>5. r = P[n][Enter(x, n)][v]
  BY DEF r
<1>6. /\ c.ret = NoMatch => Pstate(c.st).kids = Pstate(x).kids
      /\ c.ret \notin {Fail, NoMatch} => Matching(n, v, r) \in Pnodes /\ Pstate(c.st).kids = Append(Pstate(x).kids, Matching(n, v, r))
  BY <1>1, <1>4, <1>5, ChildReturns
<1> QED
  BY <1>6

-----------------------------------------------------------------------------
\* ec_node_subset_parse()

ListsGo(to, L, n) == to = [d \in 0..n |-> IF d = 0 THEN NoLists ELSE MoreLists(L, to[d - 1])]
TablesGo(to, P, n) == to = [d \in 0..n |-> IF d = 0 THEN NoTable ELSE SubsetTables(P, to[d - 1])]

\* The functions they go through exist.
LEMMA ListsExist ==
  ASSUME NEW n \in Nat, NEW L
  PROVE  \E to : ListsGo(to, L, n)
<1> DEFINE S == {m \in 0..n : \E g : ListsGo(g, L, m)}
<1>1. 0 \in S
  <2> DEFINE g == [d \in 0..0 |-> NoLists]
  <2>1. g = [d \in 0..0 |-> IF d = 0 THEN NoLists ELSE MoreLists(L, g[d - 1])]
    OBVIOUS
  <2> HIDE DEF g
  <2>2. ListsGo(g, L, 0)
    BY <2>1 DEF ListsGo
  <2> QED
    BY <2>2
<1>2. ASSUME NEW m \in 0..(n - 1), m \in S PROVE m + 1 \in S
  <2>1. PICK g : ListsGo(g, L, m)
    BY <1>2
  <2> DEFINE h == [d \in 0..(m + 1) |-> IF d = m + 1 THEN MoreLists(L, g[m]) ELSE g[d]]
  <2>2. ASSUME NEW d \in 0..(m + 1)
        PROVE  h[d] = IF d = 0 THEN NoLists ELSE MoreLists(L, h[d - 1])
    <3>1. CASE d = m + 1
      <4>1. h[d] = MoreLists(L, g[m]) /\ h[m] = g[m] /\ d - 1 = m /\ d # 0
        BY <3>1
      <4> HIDE DEF h
      <4> QED
        BY <4>1
    <3>2. CASE d # m + 1
      <4>1. d \in 0..m /\ h[d] = g[d]
        BY <3>2
      <4>2. d # 0 => d - 1 \in 0..m /\ h[d - 1] = g[d - 1]
        BY <3>2
      <4>3. g[d] = IF d = 0 THEN NoLists ELSE MoreLists(L, g[d - 1])
        BY <2>1, <4>1 DEF ListsGo
      <4> HIDE DEF h
      <4> QED
        BY <4>1, <4>2, <4>3
    <3> QED
      BY <3>1, <3>2
  <2>3. h = [d \in 0..(m + 1) |-> h[d]]
    OBVIOUS
  <2> HIDE DEF h
  <2>4. h = [d \in 0..(m + 1) |-> IF d = 0 THEN NoLists ELSE MoreLists(L, h[d - 1])]
    BY <2>2, <2>3
  <2>5. ListsGo(h, L, m + 1)
    BY <2>4 DEF ListsGo
  <2> QED
    BY <2>5
<1> HIDE DEF S
<1>3. n \in S
  BY <1>1, <1>2, Induction
<1> QED
  BY <1>3 DEF S

LEMMA TablesExist ==
  ASSUME NEW n \in Nat, NEW P
  PROVE  \E to : TablesGo(to, P, n)
<1> DEFINE S == {m \in 0..n : \E g : TablesGo(g, P, m)}
<1>1. 0 \in S
  <2> DEFINE g == [d \in 0..0 |-> NoTable]
  <2>1. g = [d \in 0..0 |-> IF d = 0 THEN NoTable ELSE SubsetTables(P, g[d - 1])]
    OBVIOUS
  <2> HIDE DEF g
  <2>2. TablesGo(g, P, 0)
    BY <2>1 DEF TablesGo
  <2> QED
    BY <2>2
<1>2. ASSUME NEW m \in 0..(n - 1), m \in S PROVE m + 1 \in S
  <2>1. PICK g : TablesGo(g, P, m)
    BY <1>2
  <2> DEFINE h == [d \in 0..(m + 1) |-> IF d = m + 1 THEN SubsetTables(P, g[m]) ELSE g[d]]
  <2>2. ASSUME NEW d \in 0..(m + 1)
        PROVE  h[d] = IF d = 0 THEN NoTable ELSE SubsetTables(P, h[d - 1])
    <3>1. CASE d = m + 1
      <4>1. h[d] = SubsetTables(P, g[m]) /\ h[m] = g[m] /\ d - 1 = m /\ d # 0
        BY <3>1
      <4> HIDE DEF h
      <4> QED
        BY <4>1
    <3>2. CASE d # m + 1
      <4>1. d \in 0..m /\ h[d] = g[d]
        BY <3>2
      <4>2. d # 0 => d - 1 \in 0..m /\ h[d - 1] = g[d - 1]
        BY <3>2
      <4>3. g[d] = IF d = 0 THEN NoTable ELSE SubsetTables(P, g[d - 1])
        BY <2>1, <4>1 DEF TablesGo
      <4> HIDE DEF h
      <4> QED
        BY <4>1, <4>2, <4>3
    <3> QED
      BY <3>1, <3>2
  <2>3. h = [d \in 0..(m + 1) |-> h[d]]
    OBVIOUS
  <2> HIDE DEF h
  <2>4. h = [d \in 0..(m + 1) |-> IF d = 0 THEN NoTable ELSE SubsetTables(P, h[d - 1])]
    BY <2>2, <2>3
  <2>5. TablesGo(h, P, m + 1)
    BY <2>4 DEF TablesGo
  <2> QED
    BY <2>5
<1> HIDE DEF S
<1>3. n \in S
  BY <1>1, <1>2, Induction
<1> QED
  BY <1>3 DEF S

\* tables of nodes of E
TableIn(table, E) == table \in Seq(Nat) /\ \A i \in DOMAIN table : table[i] \in E

LEMMA RemoveWithin ==
  ASSUME NEW E, NEW table, TableIn(table, E), NEW i \in DOMAIN table
  PROVE  TableIn(SE!RemoveAt(table, i), E)
<1> DEFINE a == SubSeq(table, 1, i - 1)
           b == SubSeq(table, i + 1, Len(table))
           F == {k \in Nat : k \in E}
<1>1. table \in Seq(Nat) /\ i \in 1..Len(table) /\ Len(table) \in Nat
  BY DEF TableIn
<1>2. a \in Seq(F) /\ b \in Seq(F)
  <2>1. \A j \in 1..Len(table) : table[j] \in F
    BY <1>1 DEF TableIn
  <2>2. \A j \in 1..(i - 1) : table[j] \in F
    BY <1>1, <2>1
  <2>3. \A j \in (i + 1)..Len(table) : table[j] \in F
    BY <1>1, <2>1
  <2>4. i - 1 \in Int /\ i + 1 \in Int /\ Len(table) \in Int /\ 1 \in Int
    BY <1>1
  <2> HIDE DEF F
  <2>5. a \in Seq(F)
    BY <2>2, <2>4, SubSeqProperties
  <2>6. b \in Seq(F)
    BY <2>3, <2>4, SubSeqProperties
  <2> QED
    BY <2>5, <2>6
<1>3. SE!RemoveAt(table, i) = a \o b
  BY DEF SE!RemoveAt
<1> HIDE DEF a, b
<1>4. a \o b \in Seq(F)
  BY <1>2
<1>5. a \o b \in Seq(Nat) /\ \A j \in DOMAIN (a \o b) : (a \o b)[j] \in E
  BY <1>4
<1> QED
  BY <1>3, <1>5 DEF TableIn

LEMMA RemoveExisting ==
  ASSUME NEW table, Existing(table), NEW i \in DOMAIN table
  PROVE  Existing(SE!RemoveAt(table, i))
<1>1. TableIn(table, DOMAIN nodes)
  BY DEF Existing, TableIn
<1>2. TableIn(SE!RemoveAt(table, i), DOMAIN nodes)
  BY <1>1, RemoveWithin
<1> QED
  BY <1>2 DEF Existing, TableIn

\* What __ec_node_subset_parse() returns, called on the state x: its best list
\* is one of those of the language, and the pnodes that x has are still there.
SubsetIn(x, lists, v) ==
  {q \in SubsetResults :
     /\ q.st \in Below(x)
     /\ ~q.fails =>
          /\ <<q.best.nodes, q.best.ret>> \in lists /\ q.best.ret \in 0..Len(v)
          /\ Len(Pstate(x).kids) <= Len(Pstate(q.st).kids)}
SubsetsSound(T, Ls) ==
  \A table : Existing(table) => \A x \in Started : \A v \in Vectors :
    T[table][x][v] \in SubsetIn(x, Ls[table][v], v)

LEMMA FoundTyped ==
  ASSUME NEW st \in States, NEW best \in Bests
  PROVE  /\ SubsetFound(st, best) \in SubsetResults /\ SubsetFound(st, best).st = st
         /\ ~SubsetFound(st, best).fails /\ SubsetFound(st, best).best = best
BY DEF SubsetFound, SubsetResults

LEMMA NoBestTyped == NoBest \in Bests /\ NoBest.nodes = 0 /\ NoBest.ret = 0
BY DEF NoBest, Bests

LEMMA SubsetFailsTyped ==
  ASSUME NEW x, NEW st \in Below(x), NEW lists, NEW v
  PROVE  SubsetFails(st) \in SubsetIn(x, lists, v)
<1>1. st \in States
  BY BelowStates
<1>2. SubsetFails(st) \in SubsetResults /\ SubsetFails(st).st = st /\ SubsetFails(st).fails
  BY <1>1, NoBestTyped DEF SubsetFails, SubsetResults
<1> QED
  BY <1>2 DEF SubsetIn

LEMMA DelKids ==
  ASSUME Trees, NEW x \in Started
  PROVE  /\ Len(Pstate(x).kids) \in Nat
         /\ Pstate(x).kids # <<>> => Pstate(DelLastChild(x)).kids = SE!Front(Pstate(x).kids)
                                     /\ Len(Pstate(DelLastChild(x)).kids) = Len(Pstate(x).kids) - 1
<1>1. Pstate(x).kids \in Seq(Pnodes)
  BY PstateTyped
<1>2. CASE Pstate(x).kids # <<>>
  <2>1. SE!Front(Pstate(x).kids) \in Seq(Pnodes) /\ Len(SE!Front(Pstate(x).kids)) = Len(Pstate(x).kids) - 1
    BY <1>1, <1>2 DEF SE!Front
  <2>2. DelLastChild(x) = OnPstate(x, SE!Front(Pstate(x).kids))
    BY <1>2 DEF DelLastChild
  <2>3. Pstate(DelLastChild(x)).kids = SE!Front(Pstate(x).kids)
    BY <2>1, <2>2, OnKids
  <2> QED
    BY <1>1, <2>1, <2>3
<1> QED
  BY <1>1, <1>2

\* the best list found so far, and the list that begins with a match of child i
LEMMA SubsetTriedSound ==
  ASSUME Trees, NEW x \in Started, NEW v \in Vectors, NEW lists,
         NEW r \in SubsetIn(x, lists, v), ~r.fails,
         NEW c \in Results, c.ret \in 0..Len(v), NEW y \in Below(x),
         Len(Pstate(x).kids) < Len(Pstate(y).kids),
         NEW sublists, NEW sub \in SubsetIn(y, sublists, Rest(v, c.ret)),
         \A l \in sublists : <<l[1] + 1, l[2] + c.ret>> \in lists
  PROVE  SubsetTried(r, c, sub) \in SubsetIn(x, lists, v)
<1>1. sub \in SubsetResults /\ sub.st \in Below(y) /\ sub.st \in Below(x) /\ sub.st \in States
  BY BelowStarted, BelowTrans, BelowStates DEF SubsetIn
<1>2. CASE sub.fails
  <2>1. SubsetTried(r, c, sub) = sub
    BY <1>2 DEF SubsetTried
  <2> QED
    BY <1>1, <1>2, <2>1 DEF SubsetIn
<1>3. CASE ~sub.fails
  <2> DEFINE found == [ret |-> c.ret + sub.best.ret, nodes |-> sub.best.nodes + 1,
                       pnodes |-> <<SE!Last(Pstate(sub.st).kids)>>]
             best == IF Better(found, r.best) THEN found ELSE r.best
             z == DelLastChild(sub.st)
  <2>1. SubsetTried(r, c, sub) = SubsetFound(z, best)
    BY <1>3 DEF SubsetTried
  <2>2. /\ <<sub.best.nodes, sub.best.ret>> \in sublists /\ sub.best.ret \in 0..Len(Rest(v, c.ret))
        /\ Len(Pstate(y).kids) <= Len(Pstate(sub.st).kids)
        /\ sub.best \in Bests /\ sub.best.nodes \in Nat
    BY <1>1, <1>3 DEF SubsetIn, SubsetResults, Bests
  <2>3. c.ret \in Nat /\ Len(Rest(v, c.ret)) = Len(v) - c.ret /\ Len(v) \in Nat
    <3>1. Len(v) \in Nat
      BY VectorLen
    <3>2. c.ret \in Nat /\ c.ret <= Len(v)
      BY <3>1
    <3> QED
      BY <3>1, <3>2, RestTyped
  <2>4. sub.st \in Started /\ x \in Started /\ y \in Started
    BY <1>1, BelowStarted
  <2>5. /\ Len(Pstate(sub.st).kids) \in Nat /\ Len(Pstate(y).kids) \in Nat /\ Len(Pstate(x).kids) \in Nat
        /\ Pstate(sub.st).kids \in Seq(Pnodes)
    BY <2>4, DelKids, PstateTyped
  <2>6. Pstate(sub.st).kids # <<>> /\ Len(Pstate(x).kids) <= Len(Pstate(sub.st).kids) - 1
    BY <2>2, <2>5
  <2>7. z \in Below(x) /\ z \in States /\ Len(Pstate(x).kids) <= Len(Pstate(z).kids)
    BY <1>1, <2>4, <2>6, DelTyped, DelKids, BelowStates
  <2>8. SE!Last(Pstate(sub.st).kids) \in Pnodes
    BY <2>5, <2>6 DEF SE!Last
  <2>9. found \in Bests /\ found.nodes = sub.best.nodes + 1 /\ found.ret = c.ret + sub.best.ret
    <3> DEFINE pnodes == <<SE!Last(Pstate(sub.st).kids)>>
               ret == c.ret + sub.best.ret
               count == sub.best.nodes + 1
    <3>1. pnodes \in Seq(Pnodes)
      BY <2>8
    <3>2. ret \in Int /\ count \in Nat
      BY <2>2, <2>3
    <3> HIDE DEF pnodes, ret, count
    <3>3. [ret |-> ret, nodes |-> count, pnodes |-> pnodes] \in Bests
      BY <3>1, <3>2 DEF Bests
    <3> QED
      BY <3>3 DEF pnodes, ret, count
  <2>10. found.ret \in 0..Len(v) /\ <<found.nodes, found.ret>> \in lists
    <3>1. <<sub.best.nodes, sub.best.ret>>[1] = sub.best.nodes /\ <<sub.best.nodes, sub.best.ret>>[2] = sub.best.ret
      OBVIOUS
    <3>2. <<sub.best.nodes + 1, sub.best.ret + c.ret>> \in lists
      BY <2>2, <3>1
    <3>3. sub.best.ret + c.ret = c.ret + sub.best.ret
      BY <2>2, <2>3
    <3> HIDE DEF found
    <3>4. <<found.nodes, found.ret>> \in lists
      BY <2>9, <3>2, <3>3
    <3>5. found.ret \in 0..Len(v)
      BY <2>2, <2>3, <2>9
    <3> QED
      BY <3>4, <3>5
  <2>11. r.best \in Bests /\ r.best.ret \in 0..Len(v) /\ <<r.best.nodes, r.best.ret>> \in lists
    BY DEF SubsetIn, SubsetResults
  <2> HIDE DEF found, z
  <2>12. best \in Bests /\ best.ret \in 0..Len(v) /\ <<best.nodes, best.ret>> \in lists
    BY <2>9, <2>10, <2>11
  <2> HIDE DEF best
  <2>13. SubsetFound(z, best) \in SubsetIn(x, lists, v)
    BY <2>7, <2>12, FoundTyped DEF SubsetIn
  <2> QED
    BY <2>1, <2>13
<1> QED
  BY <1>2, <1>3

LEMMA SubsetChildSound ==
  ASSUME Trees, GrammarOk, NEW P, NEW L, Sound(P, L), Natural(L),
         NEW T, NEW Ls, SubsetsSound(T, Ls),
         NEW table, Existing(table), NEW i \in DOMAIN table, NEW x \in Started, NEW v \in Vectors, NEW lists,
         \A k \in L[table[i]][v] : \A l \in Ls[SE!RemoveAt(table, i)][Rest(v, k)] : <<l[1] + 1, l[2] + k>> \in lists,
         NEW r \in SubsetIn(x, lists, v)
  PROVE  SubsetChild(P, T, table, i, r, v) \in SubsetIn(x, lists, v)
<1>1. CASE r.fails
  BY <1>1 DEF SubsetChild
<1>2. CASE ~r.fails
  <2> DEFINE c == ParseChild(P, table[i], r.st, v)
             others == SE!RemoveAt(table, i)
             q == SubsetCalled(T, table, i, r, c, v)
  <2>0. table[i] \in DOMAIN nodes /\ Existing(others)
    BY RemoveExisting DEF Existing
  <2>1. /\ r \in SubsetResults /\ r.st \in Below(x) /\ r.best \in Bests
        /\ <<r.best.nodes, r.best.ret>> \in lists /\ r.best.ret \in 0..Len(v)
        /\ Len(Pstate(x).kids) <= Len(Pstate(r.st).kids)
    BY <1>2 DEF SubsetIn, SubsetResults
  <2>2. /\ c \in Results /\ c.st \in Below(x) /\ c.st \in Started
        /\ c.ret \in {Fail, NoMatch} \/ c.ret \in L[table[i]][v] \cap (0..Len(v))
    BY <2>0, <2>1, ChildSound
  <2>3. r.st \in Started /\ x \in Started
    BY <2>1, BelowStarted
  <2>4. /\ c.ret = NoMatch => Pstate(c.st).kids = Pstate(r.st).kids
        /\ c.ret \notin {Fail, NoMatch} => \E p \in Pnodes : Pstate(c.st).kids = Append(Pstate(r.st).kids, p)
    BY <2>0, <2>3, ChildLinks
  <2>5. SubsetChild(P, T, table, i, r, v) = q
    BY <1>2 DEF SubsetChild
  <2>6. c.st \in States
    BY <2>2, BelowStates
  <2> HIDE DEF c, others
  <2>7. CASE c.ret = NoMatch
    <3>1. q = SubsetFound(c.st, r.best)
      BY <2>7 DEF SubsetCalled, Fail, NoMatch
    <3> HIDE DEF q
    <3>2. Len(Pstate(x).kids) <= Len(Pstate(c.st).kids)
      BY <2>1, <2>4, <2>7
    <3>3. /\ q \in SubsetResults /\ q.st = c.st /\ ~q.fails /\ q.best = r.best
      BY <2>1, <2>6, <3>1, FoundTyped
    <3>4. q \in SubsetIn(x, lists, v)
      BY <2>1, <2>2, <3>2, <3>3 DEF SubsetIn
    <3> QED
      BY <2>5, <3>4
  <2>8. CASE c.ret = Fail
    <3>1. q = SubsetFails(c.st)
      BY <2>8 DEF SubsetCalled, Fail, NoMatch
    <3> HIDE DEF q
    <3> QED
      BY <2>2, <2>5, <3>1, SubsetFailsTyped
  <2>9. CASE c.ret \notin {Fail, NoMatch} /\ c.st.mem = 0
    <3>1. q = SubsetFails(Alloc(c.st))
      BY <2>9 DEF SubsetCalled
    <3> HIDE DEF q
    <3> QED
      BY <2>2, <2>5, <3>1, AllocTyped, SubsetFailsTyped
  <2>10. CASE c.ret \notin {Fail, NoMatch} /\ c.st.mem # 0
    <3> DEFINE y == Alloc(c.st)
               sub == T[others][y][Rest(v, c.ret)]
               sublists == Ls[others][Rest(v, c.ret)]
    <3>1. q = SubsetTried(r, c, sub)
      BY <2>10 DEF SubsetCalled, others
    <3>2. c.ret \in L[table[i]][v] /\ c.ret \in 0..Len(v) /\ c.ret \in Nat
      BY <2>2, <2>10, VectorLen
    <3>3. Rest(v, c.ret) \in Vectors
      BY <3>2, RestTyped
    <3>4. y \in Below(x) /\ y.spine = c.st.spine
      BY <2>2, AllocTyped
    <3>5. y \in Started /\ Pstate(y) = Pstate(c.st)
      BY <3>4, BelowStarted, SameSpine
    <3>6. Len(Pstate(x).kids) < Len(Pstate(y).kids)
      <4>1. PICK p \in Pnodes : Pstate(c.st).kids = Append(Pstate(r.st).kids, p)
        BY <2>4, <2>10
      <4>2. Pstate(r.st).kids \in Seq(Pnodes) /\ Pstate(x).kids \in Seq(Pnodes)
        BY <2>3, PstateTyped
      <4>3. Len(Append(Pstate(r.st).kids, p)) = Len(Pstate(r.st).kids) + 1
        BY <4>2
      <4>4. Len(Pstate(y).kids) = Len(Pstate(r.st).kids) + 1
        BY <3>5, <4>1, <4>3
      <4> QED
        BY <2>1, <4>2, <4>4
    <3>7. sub \in SubsetIn(y, sublists, Rest(v, c.ret))
      BY <2>0, <3>3, <3>5 DEF SubsetsSound
    <3>8. \A l \in sublists : <<l[1] + 1, l[2] + c.ret>> \in lists
      BY <3>2 DEF others
    <3> HIDE DEF q, y, sub, sublists
    <3>9. SubsetTried(r, c, sub) \in SubsetIn(x, lists, v)
      BY <1>2, <2>2, <3>2, <3>4, <3>6, <3>7, <3>8, SubsetTriedSound
    <3> QED
      BY <2>5, <3>1, <3>9
  <2> QED
    BY <2>7, <2>8, <2>9, <2>10
<1> QED
  BY <1>1, <1>2

LEMMA SubsetEndSound ==
  ASSUME Trees, NEW x \in Started, NEW v, NEW lists, NEW r \in SubsetIn(x, lists, v)
  PROVE  SubsetEnd(r) \in SubsetIn(x, lists, v)
<1>1. r \in SubsetResults /\ r.st \in Below(x)
  BY DEF SubsetIn
<1>2. CASE r.fails
  BY <1>2 DEF SubsetEnd
<1>3. CASE ~r.fails
  <2> DEFINE kids == Pstate(r.st).kids \o r.best.pnodes
             y == OnPstate(r.st, kids)
             q == [r EXCEPT !.st = y]
  <2>1. r.st \in Started /\ Pstate(r.st).kids \in Seq(Pnodes) /\ Pstate(x).kids \in Seq(Pnodes)
    BY <1>1, BelowStarted, PstateTyped
  <2>2. r.best.pnodes \in Seq(Pnodes)
    BY <1>1 DEF SubsetResults, Bests
  <2>3. kids \in Seq(Pnodes) /\ Len(kids) >= Len(Pstate(r.st).kids)
    <3> DEFINE a == Pstate(r.st).kids
               b == r.best.pnodes
    <3> HIDE DEF a, b
    <3>1. a \in Seq(Pnodes) /\ b \in Seq(Pnodes)
      BY <2>1, <2>2 DEF a, b
    <3>2. a \o b \in Seq(Pnodes) /\ Len(a \o b) = Len(a) + Len(b) /\ Len(a) \in Nat /\ Len(b) \in Nat
      BY <3>1, ConcatProperties
    <3>3. Len(a \o b) >= Len(a)
      BY <3>2
    <3> QED
      BY <3>2, <3>3 DEF a, b
  <2> HIDE DEF kids
  <2>4. y \in Below(r.st) /\ Pstate(y).kids = kids
    BY <2>1, <2>3, OnTyped, OnKids
  <2>5. SubsetEnd(r) = q
    BY <1>3 DEF SubsetEnd, kids
  <2> HIDE DEF y
  <2>6. y \in Below(x) /\ y \in States
    BY <1>1, <2>4, BelowTrans, BelowStates
  <2>7. q \in SubsetResults /\ q.st = y /\ q.best = r.best /\ (q.fails <=> r.fails)
    BY <1>1, <2>6 DEF SubsetResults
  <2> HIDE DEF q
  <2>8. Len(Pstate(x).kids) <= Len(Pstate(y).kids)
    <3>1. Len(Pstate(x).kids) <= Len(Pstate(r.st).kids)
      BY <1>3 DEF SubsetIn
    <3> QED
      BY <2>1, <2>3, <2>4, <3>1
  <2> QED
    BY <1>3, <2>5, <2>6, <2>7, <2>8 DEF SubsetIn
<1> QED
  BY <1>2, <1>3

LEMMA SubsetRoundSound ==
  ASSUME Trees, GrammarOk, NEW P, NEW L, Sound(P, L), Natural(L), NEW T, NEW Ls, SubsetsSound(T, Ls),
         NEW table, Existing(table), NEW i \in DOMAIN table, NEW x \in Started, NEW v \in Vectors,
         NEW r \in SubsetIn(x, MoreLists(L, Ls)[table][v], v)
  PROVE  SubsetChild(P, T, table, i, r, v) \in SubsetIn(x, MoreLists(L, Ls)[table][v], v)
<1> DEFINE lists == MoreLists(L, Ls)[table][v]
<1>1. lists = {<<0, 0>>} \cup UNION {Longer(L, Ls, table, v, j) : j \in DOMAIN table}
  BY DEF MoreLists, Existing
<1>2. ASSUME NEW k \in L[table[i]][v], NEW l \in Ls[SE!RemoveAt(table, i)][Rest(v, k)]
      PROVE  <<l[1] + 1, l[2] + k>> \in lists
  <2>1. <<l[1] + 1, l[2] + k>> \in Longer(L, Ls, table, v, i)
    BY DEF Longer
  <2> QED
    BY <1>1, <2>1
<1> HIDE DEF lists
<1>3. r \in SubsetIn(x, lists, v)
  BY DEF lists
<1>4. SubsetChild(P, T, table, i, r, v) \in SubsetIn(x, lists, v)
  BY <1>2, <1>3, SubsetChildSound
<1> QED
  BY <1>4 DEF lists

LEMMA SubsetLoopSound ==
  ASSUME Trees, GrammarOk, NEW P, NEW L, Sound(P, L), Natural(L),
         NEW T, NEW Ls, SubsetsSound(T, Ls),
         NEW table, Existing(table), NEW x \in Started, NEW v \in Vectors
  PROVE  SubsetLoop(P, T, table, x, v) \in SubsetIn(x, MoreLists(L, Ls)[table][v], v)
<1> DEFINE lists == MoreLists(L, Ls)[table][v]
           m == Len(table)
           step == [i \in DOMAIN table |-> [r \in SubsetResults |-> SubsetChild(P, T, table, i, r, v)]]
           at == [i \in 0..m |-> SubsetIn(x, lists, v)]
           first == SubsetFound(x, NoBest)
<1>0. m \in Nat /\ DOMAIN table = 1..m /\ table \in Seq(Nat)
  BY DEF Existing
<1>1. lists = {<<0, 0>>} \cup UNION {Longer(L, Ls, table, v, i) : i \in DOMAIN table}
  BY <1>0 DEF MoreLists
<1>2. first \in at[0]
  <2>1. x \in States /\ x \in Below(x)
    BY BelowSelf, BelowStates
  <2>2. first \in SubsetResults /\ first.st = x /\ ~first.fails /\ first.best = NoBest
    BY <2>1, NoBestTyped, FoundTyped
  <2>3. Len(Pstate(x).kids) \in Nat /\ Len(v) \in Nat
    BY DelKids, VectorLen
  <2> HIDE DEF first
  <2>4. <<first.best.nodes, first.best.ret>> \in lists /\ first.best.ret \in 0..Len(v)
    BY <1>1, <2>2, <2>3, NoBestTyped
  <2> HIDE DEF lists
  <2>5. first \in SubsetIn(x, lists, v)
    BY <2>1, <2>2, <2>3, <2>4 DEF SubsetIn
  <2> QED
    BY <1>0, <2>5
<1>3. ASSUME NEW i \in 1..m, NEW r \in at[i - 1] PROVE step[i][r] \in at[i]
  <2>1. i \in 0..m /\ i - 1 \in 0..m /\ i \in DOMAIN table
    BY <1>0
  <2>2. r \in SubsetIn(x, lists, v) /\ r \in SubsetResults
    BY <2>1 DEF SubsetIn
  <2>3. SubsetChild(P, T, table, i, r, v) \in SubsetIn(x, lists, v)
    BY <2>1, <2>2, SubsetRoundSound
  <2> QED
    BY <2>1, <2>2, <2>3
<1> DEFINE r == Loop(step, first, m)
<1>4. SubsetLoop(P, T, table, x, v) = SubsetEnd(r)
  BY DEF SubsetLoop
<1>5. r \in SubsetIn(x, lists, v)
  <2>1. at[m] = SubsetIn(x, lists, v)
    BY <1>0
  <2> HIDE DEF step, m, first, at, lists
  <2> QED
    BY <1>0, <1>2, <1>3, <2>1, LoopInvariant
<1> HIDE DEF r, lists
<1>6. SubsetEnd(r) \in SubsetIn(x, lists, v)
  BY <1>5, SubsetEndSound
<1> QED
  BY <1>4, <1>6 DEF lists

LEMMA SubsetStep ==
  ASSUME Trees, GrammarOk, NEW P, NEW L, Sound(P, L), Natural(L), NEW T, NEW Ls, SubsetsSound(T, Ls)
  PROVE  SubsetsSound(SubsetTables(P, T), MoreLists(L, Ls))
<1> SUFFICES ASSUME NEW table, Existing(table), NEW x \in Started, NEW v \in Vectors
             PROVE  SubsetTables(P, T)[table][x][v] \in SubsetIn(x, MoreLists(L, Ls)[table][v], v)
  BY DEF SubsetsSound
<1> DEFINE lists == MoreLists(L, Ls)[table][v]
           q == SubsetTables(P, T)[table][x][v]
<1>1. table \in Seq(Nat) /\ x \in States
  BY DEF Existing, Started
<1>2. q = IF x.mem = 0 THEN SubsetFails(Alloc(x)) ELSE SubsetLoop(P, T, table, Alloc(x), v)
  BY <1>1 DEF SubsetTables
<1>3. Alloc(x) \in Below(x) /\ Alloc(x).spine = x.spine
  BY BelowSelf, AllocTyped
<1>4. Alloc(x) \in Started /\ Pstate(Alloc(x)) = Pstate(x)
  BY <1>3, BelowStarted, SameSpine
<1>5. SubsetLoop(P, T, table, Alloc(x), v) \in SubsetIn(Alloc(x), lists, v)
  BY <1>4, SubsetLoopSound
<1>6. ASSUME NEW y \in SubsetIn(Alloc(x), lists, v) PROVE y \in SubsetIn(x, lists, v)
  <2>1. y.st \in Below(x)
    BY <1>3, BelowTrans DEF SubsetIn
  <2> QED
    BY <1>4, <2>1 DEF SubsetIn
<1>7. SubsetFails(Alloc(x)) \in SubsetIn(x, lists, v)
  BY <1>3, SubsetFailsTyped
<1> HIDE DEF q, lists
<1>8. q \in SubsetIn(x, lists, v)
  BY <1>2, <1>5, <1>6, <1>7
<1> QED
  BY <1>8 DEF q, lists

LEMMA NoTableSound ==
  ASSUME Trees
  PROVE  SubsetsSound(NoTable, NoLists)
<1> SUFFICES ASSUME NEW table, Existing(table), NEW x \in Started, NEW v \in Vectors
             PROVE  NoTable[table][x][v] \in SubsetIn(x, NoLists[table][v], v)
  BY DEF SubsetsSound
<1>1. table \in Seq(Nat) /\ x \in States /\ x \in Below(x)
  BY BelowSelf DEF Existing, Started
<1>2. NoTable[table][x][v] = SubsetFound(x, NoBest) /\ NoLists[table][v] = {<<0, 0>>}
  BY <1>1 DEF NoTable, NoLists
<1> DEFINE q == SubsetFound(x, NoBest)
<1>3. q \in SubsetResults /\ q.st = x /\ ~q.fails /\ q.best = NoBest
  BY <1>1, NoBestTyped, FoundTyped
<1>4. Len(Pstate(x).kids) \in Nat /\ Len(v) \in Nat
  BY DelKids, VectorLen
<1> HIDE DEF q
<1>5. q.best.nodes = 0 /\ q.best.ret = 0
  BY <1>3, NoBestTyped
<1>6. q \in SubsetIn(x, {<<0, 0>>}, v)
  BY <1>1, <1>3, <1>4, <1>5 DEF SubsetIn
<1> QED
  BY <1>2, <1>6 DEF q

\* the lists of nodes, and their lengths, are numbers
ListsNatural(Ls) ==
  \A table : Existing(table) => \A v \in Vectors : Ls[table][v] \in SUBSET (Nat \X Nat)

LEMMA ListsNaturalStep ==
  ASSUME NEW L, Natural(L), NEW Ls, ListsNatural(Ls)
  PROVE  ListsNatural(MoreLists(L, Ls))
<1> SUFFICES ASSUME NEW table, Existing(table), NEW v \in Vectors
             PROVE  MoreLists(L, Ls)[table][v] \in SUBSET (Nat \X Nat)
  BY DEF ListsNatural
<1>1. table \in Seq(Nat)
  BY DEF Existing
<1>2. MoreLists(L, Ls)[table][v] = {<<0, 0>>} \cup UNION {Longer(L, Ls, table, v, i) : i \in DOMAIN table}
  BY <1>1 DEF MoreLists
<1>3. ASSUME NEW i \in DOMAIN table PROVE Longer(L, Ls, table, v, i) \in SUBSET (Nat \X Nat)
  <2> DEFINE others == SE!RemoveAt(table, i)
  <2>1. Existing(others) /\ table[i] \in DOMAIN nodes
    BY RemoveExisting DEF Existing
  <2>2. ASSUME NEW k \in L[table[i]][v], NEW l \in Ls[others][Rest(v, k)]
        PROVE  <<l[1] + 1, l[2] + k>> \in Nat \X Nat
    <3>1. k \in Nat
      BY <2>1 DEF Natural
    <3>2. Rest(v, k) \in Vectors
      BY <3>1, RestTyped
    <3> HIDE DEF others
    <3>3. l \in Nat \X Nat
      BY <2>1, <3>2 DEF ListsNatural
    <3> QED
      BY <3>1, <3>3
  <2> QED
    BY <2>2 DEF Longer
<1> QED
  BY <1>2, <1>3

\* Lists is what MoreLists makes in as many steps as there are kids, and so is
\* SubsetTable with SubsetTables.
LEMMA ListsSound ==
  ASSUME Trees, GrammarOk, NEW P, NEW L, Sound(P, L), Natural(L),
         NEW kids, Existing(kids), NEW x \in Started, NEW v \in Vectors
  PROVE  /\ SubsetTable(P, kids, x, v) \in SubsetIn(x, Lists(L, kids, v), v)
         /\ Lists(L, kids, v) \in SUBSET (Nat \X Nat)
<1> DEFINE n == Len(kids)
           Ls == CHOOSE to : to = [d \in 0..n |-> IF d = 0 THEN NoLists ELSE MoreLists(L, to[d - 1])]
           T == CHOOSE to : to = [d \in 0..n |-> IF d = 0 THEN NoTable ELSE SubsetTables(P, to[d - 1])]
<1>0. n \in Nat
  BY DEF Existing
<1>1. Lists(L, kids, v) = Ls[n][kids][v] /\ SubsetTable(P, kids, x, v) = T[n][kids][x][v]
  BY DEF Lists, SubsetTable
<1> HIDE DEF n
<1>2. Ls = [d \in 0..n |-> IF d = 0 THEN NoLists ELSE MoreLists(L, Ls[d - 1])]
  BY <1>0, ListsExist DEF ListsGo
<1>3. T = [d \in 0..n |-> IF d = 0 THEN NoTable ELSE SubsetTables(P, T[d - 1])]
  BY <1>0, TablesExist DEF TablesGo
<1> HIDE DEF Ls, T
<1> DEFINE S == {d \in 0..n : SubsetsSound(T[d], Ls[d]) /\ ListsNatural(Ls[d])}
<1>4. 0 \in S
  <2>1. Ls[0] = NoLists /\ T[0] = NoTable
    BY <1>0, <1>2, <1>3
  <2>2. ListsNatural(NoLists)
    BY DEF ListsNatural, NoLists, Existing
  <2> QED
    BY <1>0, <2>1, <2>2, NoTableSound
<1>5. ASSUME NEW d \in 0..(n - 1), d \in S PROVE d + 1 \in S
  <2>1. d + 1 \in 0..n /\ d + 1 # 0 /\ (d + 1) - 1 = d
    BY <1>0
  <2>2. Ls[d + 1] = MoreLists(L, Ls[d]) /\ T[d + 1] = SubsetTables(P, T[d])
    BY <1>2, <1>3, <2>1
  <2>3. SubsetsSound(T[d], Ls[d]) /\ ListsNatural(Ls[d])
    BY <1>5
  <2>4. SubsetsSound(T[d + 1], Ls[d + 1])
    BY <2>2, <2>3, SubsetStep
  <2>5. ListsNatural(Ls[d + 1])
    BY <2>2, <2>3, ListsNaturalStep
  <2> QED
    BY <2>1, <2>4, <2>5
<1> HIDE DEF S
<1>6. n \in S
  BY <1>0, <1>4, <1>5, Induction
<1>7. SubsetsSound(T[n], Ls[n]) /\ ListsNatural(Ls[n])
  BY <1>6 DEF S
<1> QED
  BY <1>1, <1>7 DEF SubsetsSound, ListsNatural

LEMMA SubsetSound ==
  ASSUME Trees, GrammarOk, NEW P, NEW L, Sound(P, L), Natural(L),
         NEW node, Existing(node.kids), node.min \in Nat, NEW st \in Started, NEW v \in Vectors
  PROVE  SubsetParse(P, node, st, v) \in
           Sounds(st, {l[2] : l \in {x \in Lists(L, node.kids, v) : x[1] >= node.min}})
<1> DEFINE lists == Lists(L, node.kids, v)
           lengths == {l[2] : l \in {x \in lists : x[1] >= node.min}}
           r == SubsetTable(P, node.kids, st, v)
<1>1. r \in SubsetIn(st, lists, v)
  BY ListsSound
<1>2. SubsetParse(P, node, st, v) = SubsetResult(node, r)
  BY DEF SubsetParse
<1> HIDE DEF r, lists
<1>3. r \in SubsetResults /\ r.st \in Below(st) /\ r.best.nodes \in Nat /\ r.best.ret \in Int
  BY <1>1 DEF SubsetIn, SubsetResults, Bests
<1>4. CASE r.fails
  <2>1. SubsetResult(node, r) = Result(Fail, r.st)
    BY <1>4 DEF SubsetResult, Fails
  <2> QED
    BY <1>2, <1>3, <2>1, SoundsBuilt, FailInt DEF lists
<1>5. CASE ~r.fails /\ r.best.nodes < node.min
  <2>1. SubsetResult(node, r) = Result(NoMatch, r.st)
    BY <1>5 DEF SubsetResult
  <2> QED
    BY <1>2, <1>3, <2>1, SoundsBuilt DEF lists, NoMatch
<1>6. CASE ~r.fails /\ ~(r.best.nodes < node.min)
  <2>1. SubsetResult(node, r) = Result(r.best.ret, r.st)
    BY <1>6 DEF SubsetResult
  <2> DEFINE l == <<r.best.nodes, r.best.ret>>
  <2>2. l \in lists
    BY <1>1, <1>6 DEF SubsetIn
  <2>3. l[1] = r.best.nodes /\ l[2] = r.best.ret /\ r.best.nodes >= node.min
    BY <1>3, <1>6
  <2> HIDE DEF l
  <2>4. r.best.ret \in lengths
    BY <2>2, <2>3
  <2> HIDE DEF lengths
  <2>5. Result(r.best.ret, r.st) \in Sounds(st, lengths)
    BY <1>3, <2>4, SoundsBuilt
  <2> QED
    BY <1>2, <2>1, <2>5 DEF lengths, lists
<1> QED
  BY <1>4, <1>5, <1>6

-----------------------------------------------------------------------------
\* Every node type, and calls that nest any number of times

LEMMA NodeSound ==
  ASSUME Trees, GrammarOk, NEW P, NEW L, Sound(P, L), Natural(L),
         NEW n \in DOMAIN nodes, NEW st \in Started, NEW v \in Vectors
  PROVE  /\ ParseNode(P, n, st, v) \in Sounds(st, NodeLengths(L, n, v))
         /\ NodeLengths(L, n, v) \in SUBSET Nat
<1> DEFINE node == nodes[n]
<1>1. /\ nodes[n] \in GrammarNodes /\ Kids(n) = nodes[n].kids /\ Existing(nodes[n].kids)
      /\ nodes[n].min \in Nat /\ nodes[n].max \in Nat
  BY NodeTyped DEF Existing
<1>2. nodes[n].type \in {"str", "any", "empty", "none"} \cup Unary \cup Nary
  BY <1>1 DEF GrammarNodes
<1>3. CASE nodes[n].type \in {"str", "any", "empty", "none"}
  <2>1. NodeLengths(L, n, v) \in SUBSET Nat
    BY <1>3 DEF NodeLengths
  <2> QED
    BY <1>3, <2>1, LeafSound
<1>4. CASE nodes[n].type \in Unary
  <2>1. nodes[n].kids[1] \in DOMAIN nodes
    <3>1. Len(nodes[n].kids) = 1
      BY <1>1, <1>4 DEF GrammarOk
    <3>2. 1 \in DOMAIN nodes[n].kids
      BY <1>1, <3>1 DEF Existing
    <3> QED
      BY <1>1, <3>2 DEF Existing
  <2>2. L[nodes[n].kids[1]][v] \in SUBSET Nat
    BY <2>1 DEF Natural
  <2>3. CASE nodes[n].type = "option"
    <3>1. ParseNode(P, n, st, v) = OptionParse(P, nodes[n], st, v)
          /\ NodeLengths(L, n, v) = {0} \cup L[nodes[n].kids[1]][v]
      BY <2>3 DEF ParseNode, NodeLengths
    <3> QED
      BY <2>1, <2>2, <3>1, OptionSound
  <2>4. CASE nodes[n].type = "once"
    <3>1. ParseNode(P, n, st, v) = OnceParse(P, nodes[n], st, v)
          /\ NodeLengths(L, n, v) = L[nodes[n].kids[1]][v]
      BY <2>4 DEF ParseNode, NodeLengths
    <3> QED
      BY <2>1, <2>2, <3>1, OnceSound
  <2>5. CASE nodes[n].type = "bypass"
    <3>1. ParseNode(P, n, st, v) = BypassParse(P, nodes[n], st, v)
          /\ NodeLengths(L, n, v) = L[nodes[n].kids[1]][v]
      BY <2>5 DEF ParseNode, NodeLengths
    <3> QED
      BY <2>1, <2>2, <3>1, BypassSound
  <2>6. CASE nodes[n].type = "many"
    <3>1. ParseNode(P, n, st, v) = ManyParse(P, nodes[n], st, v)
          /\ NodeLengths(L, n, v) = UNION {Ends(L, Repeated(nodes[n].kids[1], k), v) : k \in Repeats(nodes[n], v)}
      BY <2>6 DEF ParseNode, NodeLengths
    <3>2. ASSUME NEW k \in Repeats(nodes[n], v) PROVE Ends(L, Repeated(nodes[n].kids[1], k), v) \in SUBSET Nat
      <4>1. k \in Nat
        BY <1>1, VectorLen DEF Repeats
      <4> QED
        BY <2>1, <4>1, RepeatedEnds
    <3>3. ParseNode(P, n, st, v) \in Sounds(st, NodeLengths(L, n, v))
      BY <1>1, <2>1, <3>1, ManySound
    <3> QED
      BY <3>1, <3>2, <3>3
  <2> QED
    BY <1>4, <2>3, <2>4, <2>5, <2>6 DEF Unary
<1>5. CASE nodes[n].type = "seq"
  <2>1. ParseNode(P, n, st, v) = SeqParse(P, nodes[n], st, v) /\ NodeLengths(L, n, v) = Ends(L, nodes[n].kids, v)
    BY <1>5 DEF ParseNode, NodeLengths
  <2>2. Len(nodes[n].kids) \in Nat
    BY <1>1 DEF Existing
  <2>3. Ends(L, nodes[n].kids, v) \in SUBSET Nat
    BY <1>1, <2>2, EndsRound
  <2> QED
    BY <1>1, <2>1, <2>3, SeqSound
<1>6. CASE nodes[n].type = "or"
  <2>1. ParseNode(P, n, st, v) = OrParse(P, nodes[n], st, v)
        /\ NodeLengths(L, n, v) = UNION {L[nodes[n].kids[i]][v] : i \in DOMAIN nodes[n].kids}
    BY <1>6 DEF ParseNode, NodeLengths
  <2>2. \A i \in DOMAIN nodes[n].kids : L[nodes[n].kids[i]][v] \in SUBSET Nat
    BY <1>1 DEF Existing, Natural
  <2>3. ParseNode(P, n, st, v) \in Sounds(st, NodeLengths(L, n, v))
    BY <1>1, <2>1, OrSound
  <2> QED
    BY <2>1, <2>2, <2>3
<1>7. CASE nodes[n].type = "subset"
  <2>1. ParseNode(P, n, st, v) = SubsetParse(P, nodes[n], st, v)
        /\ NodeLengths(L, n, v) = {l[2] : l \in {x \in Lists(L, nodes[n].kids, v) : x[1] >= nodes[n].min}}
    BY <1>7 DEF ParseNode, NodeLengths
  <2>2. Lists(L, nodes[n].kids, v) \in SUBSET (Nat \X Nat)
    BY <1>1, ListsSound
  <2>3. ParseNode(P, n, st, v) \in Sounds(st, NodeLengths(L, n, v))
    BY <1>1, <2>1, SubsetSound
  <2> QED
    BY <2>1, <2>2, <2>3
<1> QED
  BY <1>2, <1>3, <1>4, <1>5, <1>6, <1>7 DEF Nary

LEMMA StartedExists ==
  ASSUME Trees
  PROVE  \E st : st \in Started
<1> DEFINE x == [spine |-> <<>>, mem |-> 0, faults |-> {}]
<1>1. x \in States
  BY DEF States
<1>2. Enter(x, 0) \in Started
  BY <1>1, EnterTyped
<1> QED
  BY <1>2

LEMMA DeeperSound ==
  ASSUME Trees, GrammarOk, NEW P, NEW L, Sound(P, L), Natural(L)
  PROVE  Sound(Callbacks(P), Deeper(L)) /\ Natural(Deeper(L))
<1>1. ASSUME NEW n \in DOMAIN nodes, NEW st \in Started, NEW v \in Vectors
      PROVE  Callbacks(P)[n][st][v] \in Sounds(st, Deeper(L)[n][v])
  <2>1. n \in Nat /\ st \in States
    BY NodeTyped DEF Started
  <2>2. Callbacks(P)[n][st][v] = ParseNode(P, n, st, v) /\ Deeper(L)[n][v] = NodeLengths(L, n, v)
    BY <2>1 DEF Callbacks, Deeper
  <2> QED
    BY <2>2, NodeSound
<1>2. ASSUME NEW n \in DOMAIN nodes, NEW v \in Vectors PROVE Deeper(L)[n][v] \in SUBSET Nat
  <2>1. n \in Nat
    BY NodeTyped
  <2>2. Deeper(L)[n][v] = NodeLengths(L, n, v)
    BY <2>1 DEF Deeper
  <2>3. PICK st : st \in Started
    BY StartedExists
  <2> QED
    BY <2>2, <2>3, NodeSound
<1> QED
  BY <1>1, <1>2 DEF Sound, Natural

LEMMA OverflowSound ==
  ASSUME Trees, GrammarOk
  PROVE  Sound(Overflow, NoLengths) /\ Natural(NoLengths)
<1>1. ASSUME NEW n \in DOMAIN nodes, NEW st \in Started, NEW v \in Vectors
      PROVE  Overflow[n][st][v] \in Sounds(st, NoLengths[n][v])
  <2> DEFINE y == [st EXCEPT !.faults = st.faults \cup {"overflow"}]
  <2>1. n \in Nat /\ st \in States
    BY NodeTyped DEF Started
  <2>2. Overflow[n][st][v] = Fails(y)
    BY <2>1 DEF Overflow
  <2>3. y \in States /\ y.spine = st.spine
    <3> DEFINE faults == st.faults \cup {"overflow"}
    <3>1. faults \in SUBSET Faults
      BY <2>1 DEF States, Faults
    <3>2. y = [st EXCEPT !.faults = faults]
      OBVIOUS
    <3> HIDE DEF faults, y
    <3> QED
      BY <2>1, <3>1, <3>2 DEF States
  <2> HIDE DEF y
  <2>4. y \in Below(st)
    BY <2>3, BelowSelf DEF Below
  <2> QED
    BY <2>2, <2>4, SoundsBuilt, FailInt DEF Fails
<1>2. Natural(NoLengths)
  BY NodeTyped DEF Natural, NoLengths
<1> QED
  BY <1>1, <1>2 DEF Sound

EnginesGo(to, n) == to = [d \in 0..n |-> IF d = 0 THEN Overflow ELSE Callbacks(to[d - 1])]
LengthsGo(to, n) == to = [d \in 0..n |-> IF d = 0 THEN NoLengths ELSE Deeper(to[d - 1])]

\* The functions they go through exist.
LEMMA EnginesExist ==
  ASSUME NEW n \in Nat
  PROVE  \E to : EnginesGo(to, n)
<1> DEFINE S == {m \in 0..n : \E g : EnginesGo(g, m)}
<1>1. 0 \in S
  <2> DEFINE g == [d \in 0..0 |-> Overflow]
  <2>1. g = [d \in 0..0 |-> IF d = 0 THEN Overflow ELSE Callbacks(g[d - 1])]
    OBVIOUS
  <2> HIDE DEF g
  <2>2. EnginesGo(g, 0)
    BY <2>1 DEF EnginesGo
  <2> QED
    BY <2>2
<1>2. ASSUME NEW m \in 0..(n - 1), m \in S PROVE m + 1 \in S
  <2>1. PICK g : EnginesGo(g, m)
    BY <1>2
  <2> DEFINE h == [d \in 0..(m + 1) |-> IF d = m + 1 THEN Callbacks(g[m]) ELSE g[d]]
  <2>2. ASSUME NEW d \in 0..(m + 1)
        PROVE  h[d] = IF d = 0 THEN Overflow ELSE Callbacks(h[d - 1])
    <3>1. CASE d = m + 1
      <4>1. h[d] = Callbacks(g[m]) /\ h[m] = g[m] /\ d - 1 = m /\ d # 0
        BY <3>1
      <4> HIDE DEF h
      <4> QED
        BY <4>1
    <3>2. CASE d # m + 1
      <4>1. d \in 0..m /\ h[d] = g[d]
        BY <3>2
      <4>2. d # 0 => d - 1 \in 0..m /\ h[d - 1] = g[d - 1]
        BY <3>2
      <4>3. g[d] = IF d = 0 THEN Overflow ELSE Callbacks(g[d - 1])
        BY <2>1, <4>1 DEF EnginesGo
      <4> HIDE DEF h
      <4> QED
        BY <4>1, <4>2, <4>3
    <3> QED
      BY <3>1, <3>2
  <2>3. h = [d \in 0..(m + 1) |-> h[d]]
    OBVIOUS
  <2> HIDE DEF h
  <2>4. h = [d \in 0..(m + 1) |-> IF d = 0 THEN Overflow ELSE Callbacks(h[d - 1])]
    BY <2>2, <2>3
  <2>5. EnginesGo(h, m + 1)
    BY <2>4 DEF EnginesGo
  <2> QED
    BY <2>5
<1> HIDE DEF S
<1>3. n \in S
  BY <1>1, <1>2, Induction
<1> QED
  BY <1>3 DEF S

LEMMA LengthsExist ==
  ASSUME NEW n \in Nat
  PROVE  \E to : LengthsGo(to, n)
<1> DEFINE S == {m \in 0..n : \E g : LengthsGo(g, m)}
<1>1. 0 \in S
  <2> DEFINE g == [d \in 0..0 |-> NoLengths]
  <2>1. g = [d \in 0..0 |-> IF d = 0 THEN NoLengths ELSE Deeper(g[d - 1])]
    OBVIOUS
  <2> HIDE DEF g
  <2>2. LengthsGo(g, 0)
    BY <2>1 DEF LengthsGo
  <2> QED
    BY <2>2
<1>2. ASSUME NEW m \in 0..(n - 1), m \in S PROVE m + 1 \in S
  <2>1. PICK g : LengthsGo(g, m)
    BY <1>2
  <2> DEFINE h == [d \in 0..(m + 1) |-> IF d = m + 1 THEN Deeper(g[m]) ELSE g[d]]
  <2>2. ASSUME NEW d \in 0..(m + 1)
        PROVE  h[d] = IF d = 0 THEN NoLengths ELSE Deeper(h[d - 1])
    <3>1. CASE d = m + 1
      <4>1. h[d] = Deeper(g[m]) /\ h[m] = g[m] /\ d - 1 = m /\ d # 0
        BY <3>1
      <4> HIDE DEF h
      <4> QED
        BY <4>1
    <3>2. CASE d # m + 1
      <4>1. d \in 0..m /\ h[d] = g[d]
        BY <3>2
      <4>2. d # 0 => d - 1 \in 0..m /\ h[d - 1] = g[d - 1]
        BY <3>2
      <4>3. g[d] = IF d = 0 THEN NoLengths ELSE Deeper(g[d - 1])
        BY <2>1, <4>1 DEF LengthsGo
      <4> HIDE DEF h
      <4> QED
        BY <4>1, <4>2, <4>3
    <3> QED
      BY <3>1, <3>2
  <2>3. h = [d \in 0..(m + 1) |-> h[d]]
    OBVIOUS
  <2> HIDE DEF h
  <2>4. h = [d \in 0..(m + 1) |-> IF d = 0 THEN NoLengths ELSE Deeper(h[d - 1])]
    BY <2>2, <2>3
  <2>5. LengthsGo(h, m + 1)
    BY <2>4 DEF LengthsGo
  <2> QED
    BY <2>5
<1> HIDE DEF S
<1>3. n \in S
  BY <1>1, <1>2, Induction
<1> QED
  BY <1>3 DEF S

LEMMA ParseToSteps ==
  /\ ParseTo[0] = Overflow /\ LengthsTo[0] = NoLengths
  /\ \A d \in 1..Depth : ParseTo[d] = Callbacks(ParseTo[d - 1]) /\ LengthsTo[d] = Deeper(LengthsTo[d - 1])
<1>1. Depth \in Nat
  BY GrammarAssumption
<1>2. ParseTo = [d \in 0..Depth |-> IF d = 0 THEN Overflow ELSE Callbacks(ParseTo[d - 1])]
  BY <1>1, EnginesExist DEF EnginesGo, ParseTo
<1>3. LengthsTo = [d \in 0..Depth |-> IF d = 0 THEN NoLengths ELSE Deeper(LengthsTo[d - 1])]
  BY <1>1, LengthsExist DEF LengthsGo, LengthsTo
<1> QED
  BY <1>1, <1>2, <1>3

\* The engine accepts prefixes that the language of the grammar has, and nothing
\* else, however deep calls nest and whichever allocation fails.
LEMMA EnginesSound ==
  ASSUME Trees, GrammarOk, NEW n \in 0..Depth
  PROVE  Sound(ParseTo[n], LengthsTo[n]) /\ Natural(LengthsTo[n])
<1> DEFINE S == {d \in 0..Depth : Sound(ParseTo[d], LengthsTo[d]) /\ Natural(LengthsTo[d])}
<1>0. Depth \in Nat
  BY GrammarAssumption
<1>1. 0 \in S
  BY <1>0, ParseToSteps, OverflowSound
<1>2. ASSUME NEW d \in 0..(Depth - 1), d \in S PROVE d + 1 \in S
  <2>1. d + 1 \in 1..Depth /\ (d + 1) - 1 = d /\ d + 1 \in 0..Depth
    BY <1>0
  <2>2. ParseTo[d + 1] = Callbacks(ParseTo[d]) /\ LengthsTo[d + 1] = Deeper(LengthsTo[d])
    BY <2>1, ParseToSteps
  <2>3. Sound(ParseTo[d], LengthsTo[d]) /\ Natural(LengthsTo[d])
    BY <1>2
  <2> QED
    BY <2>1, <2>2, <2>3, DeeperSound
<1> HIDE DEF S
<1>3. n \in S
  BY <1>0, <1>1, <1>2, Induction
<1> QED
  BY <1>3 DEF S

LEMMA EngineSound ==
  ASSUME Trees, GrammarOk
  PROVE  Sound(ParseTo[Depth], Lengths) /\ Natural(Lengths)
<1>1. Depth \in 0..Depth
  BY GrammarAssumption
<1> QED
  BY <1>1, EnginesSound DEF Lengths

-----------------------------------------------------------------------------
\* The specification

\* what every state has: a grammar and its input...
GrammarInv ==
  /\ family \in Families
  /\ GrammarOk
  /\ input \in Seq(Tokens) /\ Len(input) <= family.maxTokens

\* ... and what the engine returns of them
ParseInv ==
  /\ GrammarInv
  /\ out = NoResult \/ (Built /\ \E mem \in family.budgets : out = ParseStrvec(Root, input, mem))

LEMMA FamilyFields ==
  ASSUME family \in Families
  PROVE  /\ family.leaves \in Seq(LeafNodes) /\ family.maxTokens \in Nat /\ family.maxTokens < 2147483647
         /\ family.arities \subseteq Nat /\ family.bounds \subseteq Nat \X Nat /\ family.budgets \subseteq Nat
         /\ \E m \in family.budgets : \A k \in family.budgets : k <= m
BY GrammarAssumption

LEMMA GrammarInitInv ==
  ASSUME GrammarInit
  PROVE  GrammarInv /\ out = NoResult
<1>1. family \in Families /\ nodes = family.leaves /\ input = <<>> /\ out = NoResult
  BY DEF GrammarInit
<1>2. nodes \in Seq(LeafNodes) /\ family.maxTokens \in Nat
  BY <1>1, FamilyFields
<1>3. ASSUME NEW x \in LeafNodes
      PROVE  x \in GrammarNodes /\ x.type \in {"str", "any", "empty", "none"} /\ x.kids = <<>>
  <2>1. x = [type |-> x.type, kids |-> x.kids, word |-> x.word, min |-> x.min, max |-> x.max]
        /\ x.type \in {"str", "any", "empty", "none"} /\ x.kids = <<>> /\ x.word \in Strings
        /\ x.min = 0 /\ x.max = 0
    BY DEF LeafNodes
  <2>2. x.kids \in Seq(Nat) /\ x.min \in Nat /\ x.max \in Nat
    BY <2>1
  <2> QED
    BY <2>1, <2>2 DEF GrammarNodes
<1>4. nodes \in Seq(GrammarNodes)
  BY <1>2, <1>3
<1>5. ASSUME NEW n \in DOMAIN nodes
      PROVE  /\ \A i \in DOMAIN Kids(n) : Kids(n)[i] \in 1..(n - 1)
             /\ IsLeaf(n) => Kids(n) = <<>>
             /\ nodes[n].type \in Unary => Len(Kids(n)) = 1
  <2>1. nodes[n] \in LeafNodes
    BY <1>2
  <2>2. Kids(n) = <<>> /\ nodes[n].type \notin Unary
    BY <1>3, <2>1 DEF Kids, Unary
  <2> QED
    BY <2>2
<1>6. GrammarOk
  BY <1>4, <1>5 DEF GrammarOk
<1> QED
  BY <1>1, <1>2, <1>6 DEF GrammarInv

LEMMA AddNodeOk ==
  ASSUME GrammarOk, NEW type \in Unary \cup Nary, NEW kids \in Seq(Nat),
         \A i \in DOMAIN kids : kids[i] \in DOMAIN nodes, type \in Unary => Len(kids) = 1,
         NEW b \in Nat \X Nat, nodes' = Append(nodes, Node(type, kids, <<>>, b[1], b[2]))
  PROVE  GrammarOk'
<1> DEFINE x == Node(type, kids, <<>>, b[1], b[2])
<1>1. /\ x.type = type /\ x.kids = kids /\ x \in GrammarNodes
  <2>1. <<>> \in Strings /\ b[1] \in Nat /\ b[2] \in Nat
    BY DEF Strings
  <2> QED
    BY <2>1 DEF Node, GrammarNodes
<1> HIDE DEF x
<1>2. nodes \in Seq(GrammarNodes) /\ Len(nodes) \in Nat /\ DOMAIN nodes = 1..Len(nodes)
  BY DEF GrammarOk
<1>3. nodes' = Append(nodes, x)
  BY DEF x
<1>4. /\ nodes' \in Seq(GrammarNodes) /\ Len(nodes') = Len(nodes) + 1 /\ DOMAIN nodes' = 1..(Len(nodes) + 1)
      /\ nodes'[Len(nodes) + 1] = x /\ \A n \in 1..Len(nodes) : nodes'[n] = nodes[n]
  BY <1>1, <1>2, <1>3
<1>5. ASSUME NEW n \in DOMAIN nodes'
      PROVE  /\ \A i \in DOMAIN nodes'[n].kids : nodes'[n].kids[i] \in 1..(n - 1)
             /\ nodes'[n].type \in {"str", "any", "empty", "none"} => nodes'[n].kids = <<>>
             /\ nodes'[n].type \in Unary => Len(nodes'[n].kids) = 1
  <2>1. CASE n \in 1..Len(nodes)
    BY <1>2, <1>4, <2>1 DEF GrammarOk, Kids, IsLeaf
  <2>2. CASE n = Len(nodes) + 1
    <3>1. nodes'[n].type = type /\ nodes'[n].kids = kids
      BY <1>1, <1>4, <2>2
    <3>2. type \notin {"str", "any", "empty", "none"}
      BY DEF Unary, Nary
    <3>3. \A i \in DOMAIN kids : kids[i] \in 1..(n - 1)
      BY <1>2, <2>2
    <3> QED
      BY <3>1, <3>2, <3>3
  <2> QED
    BY <1>2, <1>4, <2>1, <2>2
<1> QED
  BY <1>4, <1>5 DEF GrammarOk, Kids, IsLeaf

\* a step of the caller that builds a grammar or an input
LEMMA GrammarNextInv ==
  ASSUME GrammarInv, GrammarNext
  PROVE  GrammarInv' /\ out' = NoResult
<1>0. family \in Families /\ GrammarOk /\ input \in Seq(Tokens) /\ Len(input) <= family.maxTokens
  BY DEF GrammarInv
<1>1. nodes \in Seq(GrammarNodes) /\ DOMAIN nodes = 1..Len(nodes)
  BY <1>0 DEF GrammarOk
<1>2. ASSUME NEW type \in Unary \cup Nary, NEW kids \in Seq(Nat), NEW b \in family.bounds \cup {<<0, 0>>},
             \A i \in DOMAIN kids : kids[i] \in DOMAIN nodes, type \in Unary => Len(kids) = 1,
             AddNode(type, kids, b)
      PROVE  GrammarInv' /\ out' = NoResult
  <2>1. b \in Nat \X Nat
    BY <1>0, FamilyFields
  <2>2. nodes' = Append(nodes, Node(type, kids, <<>>, b[1], b[2]))
        /\ family' = family /\ input' = input /\ out' = out /\ out = NoResult
    BY <1>2 DEF AddNode
  <2>3. GrammarOk'
    BY <1>0, <1>2, <2>1, <2>2, AddNodeOk
  <2> QED
    BY <1>0, <2>2, <2>3 DEF GrammarInv
<1>3. CASE \E type \in family.types \cap Unary, k \in DOMAIN nodes, b \in family.bounds \cup {<<0, 0>>} :
             AddNode(type, <<k>>, b)
  <2>1. PICK type \in family.types \cap Unary, k \in DOMAIN nodes, b \in family.bounds \cup {<<0, 0>>} :
          AddNode(type, <<k>>, b)
    BY <1>3
  <2>2. <<k>> \in Seq(Nat) /\ Len(<<k>>) = 1 /\ DOMAIN <<k>> = {1} /\ <<k>>[1] = k
    BY <1>1
  <2>3. \A i \in DOMAIN <<k>> : <<k>>[i] \in DOMAIN nodes
    BY <2>2
  <2> QED
    BY <1>2, <2>1, <2>2, <2>3
<1>4. CASE \E type \in family.types \cap Nary, a \in family.arities, b \in family.bounds \cup {<<0, 0>>} :
             \E kids \in [1..a -> DOMAIN nodes] : AddNode(type, kids, b)
  <2>1. PICK type \in family.types \cap Nary, a \in family.arities, b \in family.bounds \cup {<<0, 0>>} :
          \E kids \in [1..a -> DOMAIN nodes] : AddNode(type, kids, b)
    BY <1>4
  <2>2. PICK kids \in [1..a -> DOMAIN nodes] : AddNode(type, kids, b)
    BY <2>1
  <2>3. a \in Nat
    BY <1>0, FamilyFields
  <2>4. kids \in Seq(Nat) /\ \A i \in DOMAIN kids : kids[i] \in DOMAIN nodes
    BY <1>1, <2>3
  <2>5. type \notin Unary
    BY DEF Unary, Nary
  <2> QED
    BY <1>2, <2>1, <2>2, <2>4, <2>5
<1>5. CASE \E t \in Tokens : AddToken(t)
  <2>1. PICK t \in Tokens : AddToken(t)
    BY <1>5
  <2>2. /\ Len(input) < family.maxTokens /\ input' = Append(input, t) /\ out' = NoResult
        /\ family' = family /\ nodes' = nodes
    BY <2>1 DEF AddToken
  <2>3. family.maxTokens \in Nat
    BY <1>0, FamilyFields
  <2>4. input' \in Seq(Tokens) /\ Len(input') <= family'.maxTokens
    BY <1>0, <2>2, <2>3
  <2>5. GrammarOk'
    BY <1>0, <2>2 DEF GrammarOk, Kids, IsLeaf
  <2> QED
    BY <1>0, <2>2, <2>4, <2>5 DEF GrammarInv
<1> QED
  BY <1>3, <1>4, <1>5 DEF GrammarNext

LEMMA GrammarStays ==
  ASSUME GrammarInv, UNCHANGED <<family, nodes, input>>
  PROVE  GrammarInv' /\ (Built => Built') /\ Root' = Root
<1>1. family' = family /\ nodes' = nodes /\ input' = input
  OBVIOUS
<1>2. GrammarOk'
  BY <1>1 DEF GrammarInv, GrammarOk, Kids, IsLeaf
<1> QED
  BY <1>1, <1>2 DEF GrammarInv, Built, Root

\* the engine is a function of the grammar
LEMMA EngineSame ==
  ASSUME nodes' = nodes, input' = input, NEW mem
  PROVE  (ParseStrvec(Root, input, mem))' = ParseStrvec(Root, input, mem)
<1>1. ParseTo' = ParseTo
  BY DEF ParseTo, Callbacks, ParseNode
<1> QED
  BY <1>1 DEF ParseStrvec, Root

LEMMA ParseNextInv ==
  ASSUME ParseInv, [ParseNext]_vars
  PROVE  ParseInv'
<1>1. GrammarInv
  BY DEF ParseInv
<1>2. CASE GrammarNext
  BY <1>1, <1>2, GrammarNextInv DEF ParseInv, NoResult
<1>3. CASE \E mem \in family.budgets : DoParse(mem)
  <2>1. PICK mem \in family.budgets : DoParse(mem)
    BY <1>3
  <2>2. Built /\ out' = ParseStrvec(Root, input, mem) /\ family' = family /\ nodes' = nodes /\ input' = input
    BY <2>1 DEF DoParse
  <2>3. (ParseStrvec(Root, input, mem))' = ParseStrvec(Root, input, mem)
    BY <2>2, EngineSame
  <2>4. GrammarInv' /\ Built'
    BY <1>1, <2>2, GrammarStays
  <2> QED
    BY <2>1, <2>2, <2>3, <2>4 DEF ParseInv
<1>4. CASE UNCHANGED vars
  <2>1. family' = family /\ nodes' = nodes /\ input' = input /\ out' = out
    BY <1>4 DEF vars
  <2>2. \A mem : (ParseStrvec(Root, input, mem))' = ParseStrvec(Root, input, mem)
    BY <2>1, EngineSame
  <2>3. GrammarInv' /\ (Built => Built')
    BY <1>1, <2>1, GrammarStays
  <2> QED
    BY <2>1, <2>2, <2>3 DEF ParseInv, NoResult
<1> QED
  BY <1>2, <1>3, <1>4 DEF ParseNext

\* In every reachable state the nodes are leaves of the family and nodes built over
\* earlier ones, and a result is that of ec_parse_strvec() on the grammar and the
\* input as they are now.
THEOREM ParseInvariant == ParseSpec => []ParseInv
<1>1. GrammarInit => ParseInv
  BY GrammarInitInv DEF ParseInv
<1>2. ParseInv /\ [ParseNext]_vars => ParseInv'
  BY ParseNextInv
<1> QED
  BY <1>1, <1>2, PTL DEF ParseSpec

LEMMA InputVector ==
  ASSUME GrammarInv
  PROVE  input \in Vectors /\ Len(input) < NoMatch
<1>1. Tokens \subseteq Strings
  BY GrammarAssumption
<1>2. input \in Seq(Strings)
  BY <1>1 DEF GrammarInv
<1>3. Len(input) <= family.maxTokens /\ family.maxTokens \in Nat /\ family.maxTokens < 2147483647
  BY FamilyFields DEF GrammarInv
<1>4. Len(input) \in Nat
  BY <1>2
<1> QED
  BY <1>2, <1>3, <1>4 DEF Vectors, NoMatch

LEMMA RootNode ==
  ASSUME GrammarInv, Built
  PROVE  Root \in DOMAIN nodes /\ Root \in Nat
<1>1. nodes \in Seq(GrammarNodes) /\ family.leaves \in Seq(LeafNodes)
  BY FamilyFields DEF GrammarInv, GrammarOk
<1>2. Len(nodes) > 0
  BY <1>1 DEF Built
<1> QED
  BY <1>1, <1>2 DEF Root

\* ec_parse_strvec()
LEMMA StrvecSound ==
  ASSUME Trees, ParseInv, Built, NEW mem \in Nat,
         NEW result, result = ParseStrvec(Root, input, mem),
         result.op = "parse", result.ret # Fail, result.ret # NoMatch
  PROVE  result.ret \in Lengths[Root][input]
<1> DEFINE x == [spine |-> <<>>, mem |-> mem, faults |-> {}]
           r == ParseTo[Depth][Root][Enter(x, Root)][input]
<1>1. mem # 0
  <2>1. CASE mem = 0
    <3>1. result = [op |-> "parse", ret |-> Fail, faults |-> {}]
      BY <2>1 DEF ParseStrvec
    <3> QED
      BY <3>1
  <2> QED
    BY <2>1
<1>2. result = Parsing(r, input)
  BY <1>1 DEF ParseStrvec
<1>3. x \in States
  BY DEF States
<1>4. Root \in DOMAIN nodes /\ Root \in Nat /\ input \in Vectors
  BY RootNode, InputVector DEF ParseInv, GrammarInv
<1>5. Enter(x, Root) \in Started
  BY <1>3, <1>4, EnterTyped
<1>6. r \in Sounds(Enter(x, Root), Lengths[Root][input])
  BY <1>4, <1>5, EngineSound DEF Sound, ParseInv, GrammarInv
<1> HIDE DEF r
<1>7. r.ret \in {Fail, NoMatch} \cup Lengths[Root][input]
  BY <1>6 DEF Sounds
<1>8. CASE {"unlink", "overflow"} \cap r.st.faults # {}
  <2>1. result = [op |-> "crash"]
    BY <1>2, <1>8 DEF Parsing
  <2> QED
    BY <2>1
<1>9. CASE {"unlink", "overflow"} \cap r.st.faults = {}
  <2>1. result.ret = Fail \/ result.ret = r.ret
    BY <1>2, <1>9 DEF Parsing
  <2> QED
    BY <1>7, <2>1
<1> QED
  BY <1>8, <1>9

\* What the engine accepts belongs to the language of the grammar, in every
\* grammar, for every input and whichever allocation fails.
THEOREM ParseSoundness == ASSUME Trees PROVE ParseSpec => []ParseSound
<1>1. ASSUME ParseInv PROVE ParseSound
  <2> SUFFICES ASSUME Matched PROVE out.ret \in Lengths[Root][input]
    BY DEF ParseSound
  <2>1. out.op = "parse" /\ out.ret # Fail /\ out.ret # NoMatch
    BY DEF Matched, Parsed
  <2>2. out # NoResult
    BY <2>1 DEF NoResult
  <2>3. PICK mem \in family.budgets : out = ParseStrvec(Root, input, mem)
    BY <1>1, <2>2 DEF ParseInv, GrammarInv
  <2>4. mem \in Nat /\ Built
    BY <1>1, <2>2, FamilyFields DEF ParseInv, GrammarInv
  <2> QED
    BY <1>1, <2>1, <2>3, <2>4, StrvecSound
<1> QED
  BY <1>1, ParseInvariant, PTL

-----------------------------------------------------------------------------
\* What callbacks leave on their pnode.

\* nothing has been parsed below the last pnode
Fresh == {st \in Started : Pstate(st).kids = <<>>}

\* G has the children that calls of ec_parse_child() may leave on the pnode of node
\* n, each with the number of strings they consumed
Grows(P, G, n, st, v) ==
  /\ <<<<>>, 0>> \in G
  /\ \A k \in KidsOf(n) : \A x \in Below(st) : \A h \in 0..Len(v) :
       LET c == ParseChild(P, k, x, Rest(v, h))
       IN  <<Pstate(x).kids, h>> \in G /\ c.ret \notin {Fail, NoMatch} => <<Pstate(c.st).kids, h + c.ret>> \in G

LEMMA RestAll ==
  ASSUME NEW v \in Vectors
  PROVE  Rest(v, 0) = v
<1>1. v \in Seq(Strings) /\ Len(v) \in Nat
  BY DEF Vectors
<1>2. Rest(v, 0) \in Seq(Strings) /\ Len(Rest(v, 0)) = Len(v) /\ \A i \in 1..Len(v) : Rest(v, 0)[i] = v[i]
  BY <1>1 DEF Rest
<1> QED
  BY <1>1, <1>2, SeqEqual

\* ... on a pnode whose children, made of the first h strings, are in G
LEMMA ChildGathers ==
  ASSUME Trees, GrammarOk, NEW P, NEW L, Sound(P, L), Natural(L),
         NEW n, NEW k \in KidsOf(n), k \in DOMAIN nodes, NEW st \in Started, NEW v \in Vectors,
         NEW G, Grows(P, G, n, st, v), NEW x \in Below(st), NEW h \in 0..Len(v), <<Pstate(x).kids, h>> \in G,
         NEW c, c = ParseChild(P, k, x, Rest(v, h))
  PROVE  /\ c \in Results /\ c.st \in Below(st) /\ c.st \in States /\ c.ret \in Int
         /\ c.ret = NoMatch => Pstate(c.st).kids = Pstate(x).kids
         /\ c.ret \notin {Fail, NoMatch} =>
              /\ c.ret \in 0..(Len(v) - h)
              /\ <<Pstate(c.st).kids, h + c.ret>> \in G
<1> DEFINE w == Rest(v, h)
<1>1. w \in Vectors /\ Len(w) = Len(v) - h /\ c = ParseChild(P, k, x, w)
  BY RestTyped, VectorLen
<1>2. c.ret \notin {Fail, NoMatch} => <<Pstate(c.st).kids, h + c.ret>> \in G
  BY DEF Grows
<1> HIDE DEF w
<1>3. x \in Started
  BY BelowStarted
<1>4. c \in Results /\ c.st \in Below(st) /\ c.ret \in {Fail, NoMatch} \cup (0..Len(w))
  BY <1>1, ChildSound
<1>5. c.st \in States /\ c.ret \in Int
  BY <1>4, ResultsFields
<1>6. c.ret = NoMatch => Pstate(c.st).kids = Pstate(x).kids
  BY <1>1, <1>3, ChildLinks
<1> QED
  BY <1>1, <1>2, <1>4, <1>5, <1>6

\* results, with the children of their match
Gathers(st, G, v) ==
  {r \in Results :
     /\ r.st \in Below(st)
     /\ r.ret \notin {Fail, NoMatch} =>
          r.ret \in 0..Len(v) /\ <<Pstate(r.st).kids, r.ret>> \in G}

LEMMA GathersBuilt ==
  ASSUME NEW st, NEW G, NEW v, NEW x \in Below(st), NEW ret \in Int,
         ret \notin {Fail, NoMatch} => ret \in 0..Len(v) /\ <<Pstate(x).kids, ret>> \in G
  PROVE  Result(ret, x) \in Gathers(st, G, v)
<1>1. x \in States
  BY BelowStates
<1> DEFINE r == Result(ret, x)
<1>2. r \in Results /\ r.ret = ret /\ r.st = x
  BY <1>1, ResultFields
<1> HIDE DEF r
<1>3. r \in Gathers(st, G, v)
  BY <1>2 DEF Gathers
<1> QED
  BY <1>3 DEF r

\* the nodes that may be on the other end of a link
LEMMA KidsExist ==
  ASSUME GrammarOk, NEW n \in DOMAIN nodes
  PROVE  /\ Existing(nodes[n].kids)
         /\ \A i \in DOMAIN nodes[n].kids : nodes[n].kids[i] \in KidsOf(n) /\ nodes[n].kids[i] \in DOMAIN nodes
BY NodeTyped DEF Existing, KidsOf, Kids

LEMMA KidsNodes ==
  ASSUME GrammarOk, NEW n \in DOMAIN nodes, NEW k \in KidsOf(n)
  PROVE  k \in DOMAIN nodes
BY NodeTyped DEF KidsOf, Kids

LEMMA SeqGathersStep ==
  ASSUME Trees, GrammarOk, NEW P, NEW L, Sound(P, L), Natural(L),
         NEW n, NEW k \in KidsOf(n), k \in DOMAIN nodes, NEW st \in Started, NEW v \in Vectors,
         NEW G, Grows(P, G, n, st, v),
         NEW r \in Gathers(st, G, v)
  PROVE  SeqChild(P, k, r, v) \in Gathers(st, G, v)
<1>1. r \in Results /\ r.st \in Below(st)
  BY DEF Gathers
<1>2. CASE r.ret \in {Fail, NoMatch}
  BY <1>2 DEF SeqChild
<1>3. CASE r.ret \notin {Fail, NoMatch} /\ r.st.mem = 0
  <2>1. SeqChild(P, k, r, v) = Result(Fail, Alloc(r.st))
    BY <1>3 DEF SeqChild, AllocFails, Fails
  <2>2. Alloc(r.st) \in Below(st)
    BY <1>1, AllocTyped
  <2> QED
    BY <2>1, <2>2, GathersBuilt, FailInt
<1>4. CASE r.ret \notin {Fail, NoMatch} /\ r.st.mem # 0
  <2> DEFINE h == r.ret
             c == ParseChild(P, k, Alloc(r.st), Rest(v, h))
  <2>1. h \in 0..Len(v) /\ <<Pstate(r.st).kids, h>> \in G
    BY <1>4 DEF Gathers
  <2>2. Alloc(r.st) \in Below(st) /\ Pstate(Alloc(r.st)) = Pstate(r.st)
    BY <1>1, AllocTyped, SameSpine
  <2>3. /\ c \in Results /\ c.st \in Below(st) /\ c.ret \in Int
        /\ c.ret \notin {Fail, NoMatch} =>
             c.ret \in 0..(Len(v) - h) /\ <<Pstate(c.st).kids, h + c.ret>> \in G
    BY <2>1, <2>2, ChildGathers
  <2>4. SeqChild(P, k, r, v) = SeqCalled(r, c)
    BY <1>4 DEF SeqChild
  <2> HIDE DEF c
  <2>5. CASE c.ret = Fail
    <3>1. SeqCalled(r, c) = c
      BY <2>5 DEF SeqCalled, Fail, NoMatch
    <3> QED
      BY <2>3, <2>4, <2>5, <3>1 DEF Gathers
  <2>6. CASE c.ret = NoMatch
    <3>1. SeqCalled(r, c) = Result(NoMatch, FreeChildren(c.st))
      BY <2>6 DEF SeqCalled, Fail, NoMatch
    <3>2. FreeChildren(c.st) \in Below(st) /\ NoMatch \in Int
      BY <2>3, FreeTyped DEF NoMatch
    <3> QED
      BY <2>4, <3>1, <3>2, GathersBuilt
  <2>7. CASE c.ret \notin {Fail, NoMatch}
    <3> DEFINE ret == h + c.ret
    <3>1. SeqCalled(r, c) = Result(ret, c.st)
      BY <2>7 DEF SeqCalled
    <3>2. ret \in 0..Len(v) /\ ret \in Int
      BY <2>1, <2>3, <2>7, VectorLen
    <3>3. <<Pstate(c.st).kids, ret>> \in G
      BY <2>3, <2>7
    <3> HIDE DEF ret
    <3> QED
      BY <2>3, <2>4, <3>1, <3>2, <3>3, GathersBuilt
  <2> QED
    BY <2>5, <2>6, <2>7
<1> QED
  BY <1>2, <1>3, <1>4

LEMMA FreshKids ==
  ASSUME Trees, NEW st \in Fresh, NEW v \in Vectors
  PROVE  /\ st \in Started /\ st \in Below(st) /\ Pstate(st).kids = <<>>
         /\ 0 \in 0..Len(v) /\ Rest(v, 0) = v
<1>1. st \in Started /\ Pstate(st).kids = <<>>
  BY DEF Fresh
<1> QED
  BY <1>1, BelowSelf, VectorLen, RestAll

LEMMA NothingGathered ==
  ASSUME NEW P, NEW n, NEW st, NEW v, NEW G, Grows(P, G, n, st, v)
  PROVE  <<<<>>, 0>> \in G
BY DEF Grows

LEMMA SeqGathers ==
  ASSUME Trees, GrammarOk, NEW P, NEW L, Sound(P, L), Natural(L),
         NEW n \in DOMAIN nodes, NEW st \in Fresh, NEW v \in Vectors, NEW G, Grows(P, G, n, st, v)
  PROVE  SeqParse(P, nodes[n], st, v) \in Gathers(st, G, v)
<1> DEFINE kids == nodes[n].kids
           m == Len(kids)
           step == [i \in DOMAIN kids |-> [r \in Results |-> SeqChild(P, kids[i], r, v)]]
           at == [i \in 0..m |-> Gathers(st, G, v)]
<1>0. m \in Nat /\ DOMAIN kids = 1..m
  BY KidsExist DEF Existing
<1>1. st \in Started /\ Result(0, st) \in at[0]
  <2>1. st \in Started /\ st \in Below(st) /\ Pstate(st).kids = <<>> /\ 0 \in 0..Len(v)
    BY FreshKids
  <2>2. <<Pstate(st).kids, 0>> \in G
    BY <2>1, NothingGathered
  <2>3. Result(0, st) \in Gathers(st, G, v)
    BY <2>1, <2>2, GathersBuilt
  <2> QED
    BY <1>0, <2>1, <2>3
<1>2. ASSUME NEW i \in 1..m, NEW x \in at[i - 1] PROVE step[i][x] \in at[i]
  <2>1. i \in 0..m /\ i - 1 \in 0..m /\ i \in DOMAIN kids
    BY <1>0
  <2>2. x \in Gathers(st, G, v) /\ x \in Results
    BY <2>1 DEF Gathers
  <2>3. kids[i] \in KidsOf(n) /\ kids[i] \in DOMAIN nodes
    BY <2>1, KidsExist
  <2>4. SeqChild(P, kids[i], x, v) \in Gathers(st, G, v)
    BY <1>1, <2>2, <2>3, SeqGathersStep
  <2> QED
    BY <2>1, <2>2, <2>4
<1>3. SeqParse(P, nodes[n], st, v) = Loop(step, Result(0, st), m)
  BY DEF SeqParse
<1>4. at[m] = Gathers(st, G, v)
  BY <1>0
<1> HIDE DEF step, at, m
<1>5. Loop(step, Result(0, st), m) \in at[m]
  BY <1>0, <1>1, <1>2, LoopInvariant
<1> QED
  BY <1>3, <1>4, <1>5

\* a call on a new pnode
LEMMA FirstChild ==
  ASSUME Trees, GrammarOk, NEW P, NEW L, Sound(P, L), Natural(L),
         NEW n, NEW k \in KidsOf(n), k \in DOMAIN nodes, NEW st \in Fresh, NEW v \in Vectors,
         NEW G, Grows(P, G, n, st, v),
         NEW x \in Below(st), Pstate(x).kids = <<>>,
         NEW c, c = ParseChild(P, k, x, v)
  PROVE  /\ c \in Gathers(st, G, v)
         /\ c \in Results /\ c.st \in Below(st) /\ c.ret \in Int
         /\ c.ret = NoMatch => Pstate(c.st).kids = <<>>
<1>1. st \in Started /\ 0 \in 0..Len(v) /\ Rest(v, 0) = v
      /\ <<Pstate(x).kids, 0>> \in G
  BY FreshKids, NothingGathered
<1>2. /\ c \in Results /\ c.st \in Below(st) /\ c.ret \in Int
      /\ c.ret = NoMatch => Pstate(c.st).kids = Pstate(x).kids
      /\ c.ret \notin {Fail, NoMatch} =>
           c.ret \in 0..(Len(v) - 0) /\ <<Pstate(c.st).kids, 0 + c.ret>> \in G
  BY <1>1, ChildGathers
<1>3. ASSUME c.ret \notin {Fail, NoMatch}
      PROVE  c.ret \in 0..Len(v) /\ <<Pstate(c.st).kids, c.ret>> \in G
  <2>1. 0 + c.ret = c.ret /\ Len(v) - 0 = Len(v)
    BY <1>2, VectorLen
  <2> QED
    BY <1>2, <1>3, <2>1
<1> QED
  BY <1>2, <1>3 DEF Gathers

LEMMA OrGathers ==
  ASSUME Trees, GrammarOk, NEW P, NEW L, Sound(P, L), Natural(L),
         NEW n \in DOMAIN nodes, NEW st \in Fresh, NEW v \in Vectors, NEW G, Grows(P, G, n, st, v)
  PROVE  OrParse(P, nodes[n], st, v) \in Gathers(st, G, v)
<1> DEFINE kids == nodes[n].kids
           m == Len(kids)
           step == [i \in DOMAIN kids |-> [r \in Results |-> OrChild(P, kids[i], r, v)]]
           ors == {r \in Gathers(st, G, v) : r.ret = NoMatch => Pstate(r.st).kids = <<>>}
           at == [i \in 0..m |-> ors]
<1>0. m \in Nat /\ DOMAIN kids = 1..m
  BY KidsExist DEF Existing
<1>1. Result(NoMatch, st) \in at[0]
  <2>1. st \in Below(st) /\ Pstate(st).kids = <<>> /\ NoMatch \in Int
    BY FreshKids DEF NoMatch
  <2>2. Result(NoMatch, st) \in Gathers(st, G, v) /\ Result(NoMatch, st).st = st
    BY <2>1, GathersBuilt, ResultFields
  <2> QED
    BY <1>0, <2>1, <2>2
<1>2. ASSUME NEW i \in 1..m, NEW x \in at[i - 1] PROVE step[i][x] \in at[i]
  <2>1. i \in 0..m /\ i - 1 \in 0..m /\ i \in DOMAIN kids
    BY <1>0
  <2>2. x \in ors /\ x \in Results /\ x.st \in Below(st)
    BY <2>1 DEF Gathers
  <2>3. kids[i] \in KidsOf(n) /\ kids[i] \in DOMAIN nodes
    BY <2>1, KidsExist
  <2>4. step[i][x] = OrChild(P, kids[i], x, v) /\ at[i] = ors
    BY <2>1, <2>2
  <2>5. CASE x.ret = NoMatch
    <3> DEFINE c == ParseChild(P, kids[i], x.st, v)
    <3>1. /\ c \in Gathers(st, G, v)
          /\ c.ret = NoMatch => Pstate(c.st).kids = <<>>
      BY <2>2, <2>3, <2>5, FirstChild
    <3>2. OrChild(P, kids[i], x, v) = c
      BY <2>5 DEF OrChild
    <3> HIDE DEF c, step, at
    <3> QED
      BY <2>4, <3>1, <3>2
  <2>6. CASE x.ret # NoMatch
    <3>1. OrChild(P, kids[i], x, v) = x
      BY <2>6 DEF OrChild
    <3> HIDE DEF step, at, ors
    <3> QED
      BY <2>2, <2>4, <3>1
  <2> QED
    BY <2>5, <2>6
<1>3. OrParse(P, nodes[n], st, v) = Loop(step, Result(NoMatch, st), m)
  BY DEF OrParse
<1>4. at[m] \subseteq Gathers(st, G, v)
  BY <1>0
<1> HIDE DEF step, at, m, ors
<1>5. Loop(step, Result(NoMatch, st), m) \in at[m]
  BY <1>0, <1>1, <1>2, LoopInvariant
<1> QED
  BY <1>3, <1>4, <1>5

LEMMA FrontAppend ==
  ASSUME NEW S, NEW s \in Seq(S), NEW p \in S, NEW t, t = Append(s, p)
  PROVE  t # <<>> /\ SE!Front(t) = s
<1>1. t \in Seq(S) /\ Len(t) = Len(s) + 1 /\ Len(s) \in Nat /\ \A i \in 1..Len(s) : t[i] = s[i]
  OBVIOUS
<1> DEFINE f == SubSeq(t, 1, Len(t) - 1)
<1>2. SE!Front(t) = f
  BY DEF SE!Front
<1>3. f \in Seq(S) /\ Len(f) = Len(s) /\ \A i \in 1..Len(s) : f[i] = t[i]
  BY <1>1
<1> HIDE DEF f
<1>4. f = s
  BY <1>1, <1>3, SeqEqual
<1> QED
  BY <1>1, <1>2, <1>4

\* option, once and bypass nodes
LEMMA UnaryGathers ==
  ASSUME Trees, GrammarOk, NEW P, NEW L, Sound(P, L), Natural(L),
         NEW n \in DOMAIN nodes, nodes[n].kids[1] \in KidsOf(n), nodes[n].kids[1] \in DOMAIN nodes,
         NEW st \in Fresh, NEW v \in Vectors, NEW G, Grows(P, G, n, st, v)
  PROVE  /\ OptionParse(P, nodes[n], st, v) \in Gathers(st, G, v)
         /\ OnceParse(P, nodes[n], st, v) \in Gathers(st, G, v)
         /\ BypassParse(P, nodes[n], st, v) \in Gathers(st, G, v)
<1> DEFINE c == ParseChild(P, nodes[n].kids[1], st, v)
<1>0. NoMatch \in Int
  BY DEF NoMatch
<1>1. st \in Below(st) /\ Pstate(st).kids = <<>> /\ 0 \in 0..Len(v)
  BY FreshKids
<1>2. /\ c \in Gathers(st, G, v) /\ c \in Results /\ c.st \in Below(st)
      /\ c.ret = NoMatch => Pstate(c.st).kids = <<>>
  BY <1>1, FirstChild
<1>3. Result(NoMatch, st) \in Gathers(st, G, v)
  BY <1>0, <1>1, GathersBuilt
<1>4. OptionParse(P, nodes[n], st, v) = IF c.ret = NoMatch THEN Result(0, c.st) ELSE c
  BY DEF OptionParse
<1>5. OnceParse(P, nodes[n], st, v) \in {Result(NoMatch, st), c}
  BY DEF OnceParse
<1>6. BypassParse(P, nodes[n], st, v) = c
  BY DEF BypassParse
<1> HIDE DEF c
<1>7. ASSUME c.ret = NoMatch PROVE Result(0, c.st) \in Gathers(st, G, v)
  <2>1. <<Pstate(c.st).kids, 0>> \in G
    BY <1>2, <1>7 DEF Grows
  <2> QED
    BY <1>1, <1>2, <2>1, GathersBuilt
<1> QED
  BY <1>2, <1>3, <1>4, <1>5, <1>6, <1>7

\* the results of the iterations of a many node
ManyGathers(st, G, v) ==
  {r \in Manys :
     /\ r.st \in Below(st)
     /\ r.ret = Fail => r.over
     /\ r.ret # Fail => r.ret \in 0..Len(v) /\ <<Pstate(r.st).kids, r.ret>> \in G}

LEMMA ManyGathersStep ==
  ASSUME Trees, GrammarOk, NEW P, NEW L, Sound(P, L), Natural(L),
         NEW n, nodes[n].kids[1] \in KidsOf(n), nodes[n].kids[1] \in DOMAIN nodes,
         NEW st \in Started, NEW v \in Vectors, NEW G, Grows(P, G, n, st, v),
         NEW r \in ManyGathers(st, G, v)
  PROVE  ManyChild(P, nodes[n], r, v) \in ManyGathers(st, G, v)
<1> DEFINE node == nodes[n]
           k == node.kids[1]
<1>0. r \in Manys /\ r.st \in Below(st) /\ r.ret \in Int /\ r.st \in States /\ r.count \in Nat
  BY DEF ManyGathers, Manys
<1>1. CASE r.over
  <2>1. ManyChild(P, node, r, v) = r
    BY <1>1 DEF ManyChild
  <2> QED
    BY <2>1
<1>2. CASE ~r.over /\ r.st.mem = 0
  <2> DEFINE q == [r EXCEPT !.ret = Fail, !.st = Alloc(r.st), !.over = TRUE]
  <2>1. ManyChild(P, node, r, v) = q
    BY <1>2 DEF ManyChild
  <2>2. Alloc(r.st) \in Below(st) /\ Alloc(r.st) \in States
    BY <1>0, AllocTyped, BelowStates
  <2>3. q \in Manys /\ q.ret = Fail /\ q.st = Alloc(r.st) /\ q.over
    BY <1>0, <2>2, FailInt DEF Manys
  <2> HIDE DEF q
  <2> QED
    BY <2>1, <2>2, <2>3 DEF ManyGathers
<1>3. CASE ~r.over /\ r.st.mem # 0
  <2> DEFINE h == r.ret
             x == Alloc(r.st)
             c == ParseChild(P, k, x, Rest(v, h))
  <2>1. h \in 0..Len(v) /\ <<Pstate(r.st).kids, h>> \in G
    BY <1>3 DEF ManyGathers
  <2>2. x \in Below(st) /\ Pstate(x) = Pstate(r.st)
    BY <1>0, AllocTyped, SameSpine
  <2>3. /\ c \in Results /\ c.st \in Below(st) /\ c.st \in States /\ c.ret \in Int
        /\ c.ret = NoMatch => Pstate(c.st).kids = Pstate(r.st).kids
        /\ c.ret \notin {Fail, NoMatch} =>
             c.ret \in 0..(Len(v) - h) /\ <<Pstate(c.st).kids, h + c.ret>> \in G
    BY <2>1, <2>2, ChildGathers
  <2>4. c.ret = 0 => \E p \in Pnodes : Pstate(c.st).kids = Append(Pstate(r.st).kids, p)
    <3>1. x \in Started /\ Rest(v, h) \in Vectors
      BY <2>1, <2>2, BelowStarted, RestTyped
    <3>2. c.ret \notin {Fail, NoMatch} => \E p \in Pnodes : Pstate(c.st).kids = Append(Pstate(x).kids, p)
      BY <3>1, ChildLinks
    <3> QED
      BY <2>2, <3>2 DEF Fail, NoMatch
  <2>5. ManyChild(P, node, r, v) = ManyCalled(node, r, c)
    BY <1>3 DEF ManyChild
  <2> HIDE DEF c, x
  <2>6. CASE c.ret = Fail
    <3> DEFINE q == [r EXCEPT !.ret = Fail, !.st = c.st, !.over = TRUE]
    <3>1. ManyCalled(node, r, c) = q
      BY <2>6 DEF ManyCalled, Fail, NoMatch
    <3>2. q \in Manys /\ q.ret = Fail /\ q.st = c.st /\ q.over
      BY <1>0, <2>3, FailInt DEF Manys
    <3> HIDE DEF q
    <3> QED
      BY <2>3, <2>5, <3>1, <3>2 DEF ManyGathers
  <2>7. CASE c.ret = NoMatch
    <3> DEFINE q == [r EXCEPT !.st = c.st, !.over = TRUE]
    <3>1. ManyCalled(node, r, c) = q
      BY <2>7 DEF ManyCalled, Fail, NoMatch
    <3>2. q \in Manys /\ q.ret = h /\ q.st = c.st /\ q.over
      BY <1>0, <2>3 DEF Manys
    <3> HIDE DEF q
    <3> QED
      BY <2>1, <2>3, <2>5, <2>7, <3>1, <3>2 DEF ManyGathers
  <2>8. CASE c.ret = 0 /\ node.max = 0
    <3> DEFINE q == [r EXCEPT !.st = DelLastChild(c.st), !.over = TRUE]
    <3>1. ManyCalled(node, r, c) = q
      BY <2>8 DEF ManyCalled, Fail, NoMatch
    <3>2. DelLastChild(c.st) \in Below(st) /\ DelLastChild(c.st) \in States
      BY <2>3, DelTyped, BelowStates
    <3>3. q \in Manys /\ q.ret = h /\ q.st = DelLastChild(c.st) /\ q.over
      BY <1>0, <3>2 DEF Manys
    <3>4. Pstate(DelLastChild(c.st)).kids = Pstate(r.st).kids
      <4>1. PICK p \in Pnodes : Pstate(c.st).kids = Append(Pstate(r.st).kids, p)
        BY <2>4, <2>8
      <4>2. c.st \in Started /\ r.st \in Started
        BY <1>0, <2>3, BelowStarted
      <4>3. Pstate(r.st).kids \in Seq(Pnodes) /\ Pstate(c.st).kids \in Seq(Pnodes)
        BY <4>2, PstateTyped
      <4>4. Pstate(c.st).kids # <<>> /\ SE!Front(Pstate(c.st).kids) = Pstate(r.st).kids
        BY ZenonT(40), <4>1, <4>3, FrontAppend
      <4> QED
        BY <4>2, <4>4, DelKids
    <3> HIDE DEF q
    <3> QED
      BY <2>1, <2>5, <3>1, <3>2, <3>3, <3>4 DEF ManyGathers
  <2>9. CASE c.ret \notin {Fail, NoMatch} /\ ~(c.ret = 0 /\ node.max = 0)
    <3> DEFINE ret == h + c.ret
               count == r.count + 1
               q == [r EXCEPT !.ret = ret, !.st = c.st, !.count = count]
    <3>1. ManyCalled(node, r, c) = q
      BY <2>9 DEF ManyCalled
    <3>5. c.ret \in 0..(Len(v) - h) /\ Len(v) \in Nat
      BY <2>3, <2>9, VectorLen
    <3>2. ret \in 0..Len(v) /\ ret \in Int /\ count \in Nat /\ ret # Fail
      <4>1. ret \in 0..Len(v) /\ ret \in Int /\ ret # Fail
        BY <2>1, <3>5 DEF Fail
      <4>2. count \in Nat
        BY <1>0
      <4> QED
        BY <4>1, <4>2
    <3>3. <<Pstate(c.st).kids, ret>> \in G
      BY <2>3, <2>9
    <3> HIDE DEF ret, count
    <3>4. q \in Manys /\ q.ret = ret /\ q.st = c.st
      BY <1>0, <2>3, <3>2 DEF Manys
    <3> HIDE DEF q
    <3> QED
      BY <2>3, <2>5, <3>1, <3>2, <3>3, <3>4 DEF ManyGathers
  <2> QED
    BY <2>6, <2>7, <2>8, <2>9
<1> QED
  BY <1>1, <1>2, <1>3

LEMMA ManyGathered ==
  ASSUME Trees, GrammarOk, NEW P, NEW L, Sound(P, L), Natural(L),
         NEW n \in DOMAIN nodes, nodes[n].kids[1] \in KidsOf(n), nodes[n].kids[1] \in DOMAIN nodes,
         NEW st \in Fresh, NEW v \in Vectors, NEW G, Grows(P, G, n, st, v)
  PROVE  ManyParse(P, nodes[n], st, v) \in Gathers(st, G, v)
<1> DEFINE node == nodes[n]
           m == Rounds(node, v)
           step == [i \in 1..m |-> [r \in Manys |-> ManyChild(P, node, r, v)]]
           at == [i \in 0..m |-> ManyGathers(st, G, v)]
           first == [ret |-> 0, st |-> st, count |-> 0, over |-> FALSE]
<1>0. m \in Nat
  BY VectorLen, NodeTyped DEF Rounds
<1>1. first \in at[0]
  <2>1. /\ st \in Started /\ st \in Below(st) /\ 0 \in 0..Len(v)
        /\ <<Pstate(st).kids, 0>> \in G
    BY FreshKids, NothingGathered
  <2>2. st \in States
    BY <2>1, BelowStates
  <2>3. first \in Manys /\ first.ret = 0 /\ first.st = st /\ 0 # Fail
    BY <2>2 DEF Manys, Fail
  <2> HIDE DEF first
  <2>4. first \in ManyGathers(st, G, v)
    BY <2>1, <2>3 DEF ManyGathers
  <2> QED
    BY <1>0, <2>4
<1>2. ASSUME NEW i \in 1..m, NEW x \in at[i - 1] PROVE step[i][x] \in at[i]
  <2>1. i \in 0..m /\ i - 1 \in 0..m
    BY <1>0
  <2>2. x \in ManyGathers(st, G, v) /\ x \in Manys
    BY <2>1 DEF ManyGathers
  <2>3. ManyChild(P, node, x, v) \in ManyGathers(st, G, v)
    BY <2>2, ManyGathersStep, FreshKids
  <2> QED
    BY <2>1, <2>2, <2>3
<1> DEFINE r == Loop(step, first, m)
<1>3. ManyParse(P, node, st, v) = IF r.ret = Fail THEN Fails(r.st) ELSE ManyEnd(node, r)
  BY DEF ManyParse
<1>4. r \in ManyGathers(st, G, v)
  <2> HIDE DEF step, m, first
  <2>1. at[m] = ManyGathers(st, G, v)
    BY <1>0
  <2> HIDE DEF at
  <2> QED
    BY <1>0, <1>1, <1>2, <2>1, LoopInvariant
<1> HIDE DEF r
<1>5. r.st \in Below(st) /\ r.count \in Nat /\ r.ret \in Int /\ st \in Started
  BY <1>4, FreshKids DEF ManyGathers, Manys
<1>6. CASE r.ret = Fail
  <2>1. Result(Fail, r.st) \in Gathers(st, G, v)
    BY <1>5, GathersBuilt, FailInt
  <2> QED
    BY <1>3, <1>6, <2>1 DEF Fails
<1>7. CASE r.ret # Fail /\ r.count < node.min
  <2>1. FreeChildren(r.st) \in Below(st) /\ NoMatch \in Int
    BY <1>5, FreeTyped DEF NoMatch
  <2>2. Result(NoMatch, FreeChildren(r.st)) \in Gathers(st, G, v)
    BY <2>1, GathersBuilt
  <2> QED
    BY <1>3, <1>7, <2>2 DEF ManyEnd
<1>8. CASE r.ret # Fail /\ ~(r.count < node.min)
  <2>1. r.ret \in 0..Len(v) /\ <<Pstate(r.st).kids, r.ret>> \in G
    BY <1>4, <1>8 DEF ManyGathers
  <2>2. Result(r.ret, r.st) \in Gathers(st, G, v)
    BY <1>5, <2>1, GathersBuilt
  <2> QED
    BY <1>3, <1>8, <2>2 DEF ManyEnd
<1> QED
  BY <1>6, <1>7, <1>8

\* What a match leaves on its pnode: nothing on that of a leaf, and the matches of
\* its children on the others.
LEMMA NodeGathers ==
  ASSUME Trees, GrammarOk, NoSubset, NEW P, NEW L, Sound(P, L), Natural(L),
         NEW n \in DOMAIN nodes, NEW st \in Fresh, NEW v \in Vectors, NEW G, Grows(P, G, n, st, v),
         NEW r, r = ParseNode(P, n, st, v), r.ret \in (0..Len(v)) \ {NoMatch}
  PROVE  /\ r \in Results /\ r.st \in Below(st)
         /\ IsLeaf(n) => Pstate(r.st).kids = <<>>
         /\ ~IsLeaf(n) => <<Pstate(r.st).kids, r.ret>> \in G
<1>1. st \in Started /\ st \in Below(st) /\ Pstate(st).kids = <<>>
  BY FreshKids
<1>2. r \in Results /\ r.st \in Below(st)
  BY <1>1, NodeSound DEF Sounds
<1>3. r.ret \notin {Fail, NoMatch}
  BY VectorLen DEF Fail
<1>4. nodes[n] \in GrammarNodes /\ nodes[n].type # "subset"
  BY NodeTyped DEF NoSubset
<1>5. nodes[n].type \in {"str", "any", "empty", "none"} \cup Unary \cup Nary
  BY <1>4 DEF GrammarNodes
<1>6. CASE nodes[n].type \in {"str", "any", "empty", "none"}
  <2>1. r.st = st
    <3>1. \A ret : Result(ret, st).st = st
      BY ResultFields
    <3>2. r \in {StrParse(nodes[n], st, v), AnyParse(st, v), EmptyParse(st), NoneParse(st)}
      BY <1>6 DEF ParseNode
    <3> QED
      BY <3>1, <3>2 DEF StrParse, AnyParse, EmptyParse, NoneParse
  <2> QED
    BY <1>1, <1>2, <1>6, <2>1 DEF IsLeaf
<1>7. ASSUME r \in Gathers(st, G, v), ~IsLeaf(n)
      PROVE  <<Pstate(r.st).kids, r.ret>> \in G
  BY <1>3, <1>7 DEF Gathers
<1>8. CASE nodes[n].type \in Unary
  <2>1. nodes[n].kids[1] \in KidsOf(n) /\ nodes[n].kids[1] \in DOMAIN nodes
    <3>1. Len(nodes[n].kids) = 1 /\ nodes[n].kids \in Seq(Nat)
      BY <1>8, NodeTyped DEF GrammarOk
    <3>2. 1 \in DOMAIN nodes[n].kids
      BY <3>1
    <3> QED
      BY <3>2, KidsExist
  <2>2. r \in {OptionParse(P, nodes[n], st, v), OnceParse(P, nodes[n], st, v),
               BypassParse(P, nodes[n], st, v), ManyParse(P, nodes[n], st, v)}
    BY <1>8 DEF ParseNode, Unary
  <2>3. r \in Gathers(st, G, v)
    BY <2>1, <2>2, UnaryGathers, ManyGathered
  <2>4. ~IsLeaf(n)
    BY <1>8 DEF IsLeaf, Unary
  <2> QED
    BY <1>2, <1>7, <2>3, <2>4
<1>9. CASE nodes[n].type \in {"seq", "or"}
  <2>1. r \in {SeqParse(P, nodes[n], st, v), OrParse(P, nodes[n], st, v)}
    BY <1>9 DEF ParseNode
  <2>2. r \in Gathers(st, G, v)
    BY <2>1, SeqGathers, OrGathers
  <2>3. ~IsLeaf(n)
    BY <1>9 DEF IsLeaf
  <2> QED
    BY <1>2, <1>7, <2>2, <2>3
<1> QED
  BY <1>4, <1>5, <1>6, <1>8, <1>9 DEF Nary

-----------------------------------------------------------------------------
\* The string vectors of pnodes, one after the other

JoinedStep(pnodes) == [i \in DOMAIN pnodes |-> [v \in Vectors |-> v \o pnodes[i].vec]]

LEMMA JoinedTyped ==
  ASSUME Trees, NEW kids \in Seq(Pnodes)
  PROVE  Joined(kids) \in Vectors
<1> DEFINE n == Len(kids)
           step == JoinedStep(kids)
           at == [i \in 0..n |-> Vectors]
<1>0. n \in Nat /\ DOMAIN kids = 1..n
  OBVIOUS
<1>1. <<>> \in at[0]
  BY <1>0, EmptyVector
<1>2. ASSUME NEW i \in 1..n, NEW x \in at[i - 1] PROVE step[i][x] \in at[i]
  <2>1. i \in 0..n /\ i - 1 \in 0..n
    BY <1>0
  <2>2. x \in Vectors
    BY <2>1
  <2>3. kids[i].vec \in Vectors
    BY <1>0, PnodeFields
  <2>4. step[i][x] = x \o kids[i].vec
    BY <1>0, <2>2 DEF JoinedStep
  <2>5. x \o kids[i].vec \in Vectors
    BY <2>2, <2>3 DEF Vectors
  <2> QED
    BY <2>1, <2>4, <2>5
<1>3. Joined(kids) = Loop(step, <<>>, n)
  BY DEF Joined, JoinedStep
<1>4. at[n] = Vectors
  BY <1>0
<1> HIDE DEF n, step, at
<1> QED
  BY <1>0, <1>1, <1>2, <1>3, <1>4, LoopInvariant

LEMMA JoinedNone == Joined(<<>>) = <<>>
<1>1. Len(<<>>) = 0
  OBVIOUS
<1> QED
  BY <1>1, LoopRounds DEF Joined

LEMMA JoinedMore ==
  ASSUME Trees, NEW kids \in Seq(Pnodes), NEW p \in Pnodes
  PROVE  Joined(Append(kids, p)) = Joined(kids) \o p.vec
<1> DEFINE n == Len(kids)
           more == Append(kids, p)
<1>0. n \in Nat /\ DOMAIN kids = 1..n /\ DOMAIN more = 1..(n + 1) /\ Len(more) = n + 1
      /\ more[n + 1] = p /\ \A i \in 1..n : more[i] = kids[i]
  OBVIOUS
<1>1. Joined(more) = Loop(JoinedStep(more), <<>>, n + 1) /\ Joined(kids) = Loop(JoinedStep(kids), <<>>, n)
  BY <1>0 DEF Joined, JoinedStep
<1> HIDE DEF n, more
<1>2. Loop(JoinedStep(more), <<>>, n + 1) = JoinedStep(more)[n + 1][Loop(JoinedStep(more), <<>>, n)]
  BY <1>0, LoopRounds
<1>3. Loop(JoinedStep(more), <<>>, n) = Loop(JoinedStep(kids), <<>>, n)
  <2>1. ASSUME NEW i \in 1..n PROVE JoinedStep(more)[i] = JoinedStep(kids)[i]
    <3>1. i \in DOMAIN more /\ i \in DOMAIN kids /\ more[i] = kids[i]
      BY <1>0
    <3> QED
      BY <3>1 DEF JoinedStep
  <2> QED
    BY <1>0, <2>1, LoopSame
<1>4. Joined(kids) \in Vectors /\ n + 1 \in DOMAIN more
  BY <1>0, JoinedTyped
<1>5. JoinedStep(more)[n + 1][Joined(kids)] = Joined(kids) \o p.vec
  BY <1>0, <1>4 DEF JoinedStep
<1> QED
  BY <1>1, <1>2, <1>3, <1>5 DEF more

\* the first h strings of v, then the first k of the rest
LEMMA SplitVector ==
  ASSUME NEW v \in Vectors, NEW h \in 0..Len(v), NEW k \in 0..(Len(v) - h)
  PROVE  SubSeq(v, 1, h) \o SubSeq(Rest(v, h), 1, k) = SubSeq(v, 1, h + k)
<1> DEFINE a == SubSeq(v, 1, h)
           r == Rest(v, h)
           b == SubSeq(r, 1, k)
           c == SubSeq(v, 1, h + k)
<1>0. v \in Seq(Strings) /\ Len(v) \in Nat /\ h \in Nat /\ k \in Nat /\ h + k <= Len(v)
  BY VectorLen DEF Vectors
<1>1. a \in Seq(Strings) /\ Len(a) = h /\ \A i \in 1..h : a[i] = v[i]
  BY <1>0
<1>2. r \in Seq(Strings) /\ Len(r) = Len(v) - h /\ \A i \in 1..(Len(v) - h) : r[i] = v[h + i]
  BY <1>0 DEF Rest
<1>3. c \in Seq(Strings) /\ Len(c) = h + k /\ \A i \in 1..(h + k) : c[i] = v[i]
  BY <1>0
<1> HIDE DEF r
<1>4. b \in Seq(Strings) /\ Len(b) = k /\ \A i \in 1..k : b[i] = r[i]
  BY <1>0, <1>2
<1> HIDE DEF a, b, c
<1>5. a \o b \in Seq(Strings) /\ Len(a \o b) = h + k
  BY <1>0, <1>1, <1>4
<1>6. ASSUME NEW i \in 1..(h + k) PROVE (a \o b)[i] = c[i]
  <2>0. i <= h \/ i > h
    BY <1>0
  <2>1. CASE i <= h
    BY <1>0, <1>1, <1>3, <1>4, <2>1
  <2>2. CASE i > h
    <3>1. i - h \in 1..k /\ i - h \in 1..(Len(v) - h) /\ h + (i - h) = i
      BY <1>0, <2>2
    <3>2. (a \o b)[i] = b[i - h]
      BY <1>0, <1>1, <1>4, <2>2
    <3> QED
      BY <1>2, <1>3, <1>4, <3>1, <3>2
  <2> QED
    BY <2>0, <2>1, <2>2
<1>7. a \o b = c
  BY <1>3, <1>5, <1>6, SeqEqual
<1> QED
  BY <1>7 DEF a, b, c, r

-----------------------------------------------------------------------------
\* The trees of matches.  good is what is known of the trees one level below.

\* the pnode of a match: its string vector is no longer than what was parsed
Described(P, good) ==
  \A n \in DOMAIN nodes : \A st \in Fresh : \A v \in Vectors :
    P[n][st][v].ret \in (0..Len(v)) \ {NoMatch} => good[Matching(n, v, P[n][st][v])]

\* the pnodes are good matches of children of node n, which make up w
Gathered(kids, n, good, w) ==
  /\ kids \in Seq(Pnodes) /\ Joined(kids) = w
  /\ \A i \in DOMAIN kids : kids[i].matches /\ kids[i].node \in KidsOf(n) /\ good[kids[i]]

LEMMA GatheredNone ==
  ASSUME NEW n, NEW good, NEW v \in Vectors
  PROVE  Gathered(<<>>, n, good, SubSeq(v, 1, 0))
<1>1. v \in Seq(Strings) /\ Len(v) \in Nat
  BY DEF Vectors
<1>2. SubSeq(v, 1, 0) = <<>>
  BY <1>1
<1>3. <<>> \in Seq(Pnodes) /\ DOMAIN <<>> = {}
  OBVIOUS
<1>4. Gathered(<<>>, n, good, <<>>)
  BY <1>3, JoinedNone DEF Gathered
<1> QED
  BY <1>2, <1>4

LEMMA GatheredMore ==
  ASSUME Trees, NEW n, NEW good, NEW w, NEW kids, Gathered(kids, n, good, w),
         NEW p \in Pnodes, p.matches, p.node \in KidsOf(n), good[p]
  PROVE  Gathered(Append(kids, p), n, good, w \o p.vec)
<1>1. kids \in Seq(Pnodes) /\ Joined(kids) = w
      /\ \A i \in DOMAIN kids : kids[i].matches /\ kids[i].node \in KidsOf(n) /\ good[kids[i]]
  BY DEF Gathered
<1> DEFINE more == Append(kids, p)
<1>2. Joined(more) = w \o p.vec
  BY <1>1, JoinedMore
<1>3. more \in Seq(Pnodes) /\ DOMAIN more = 1..(Len(kids) + 1) /\ DOMAIN kids = 1..Len(kids)
      /\ Len(kids) \in Nat /\ more[Len(kids) + 1] = p /\ \A i \in 1..Len(kids) : more[i] = kids[i]
  BY <1>1
<1> HIDE DEF more
<1>4. ASSUME NEW i \in DOMAIN more PROVE more[i].matches /\ more[i].node \in KidsOf(n) /\ good[more[i]]
  <2>1. i \in 1..Len(kids) \/ i = Len(kids) + 1
    BY <1>3
  <2> QED
    BY <1>1, <1>3, <2>1
<1>5. Gathered(more, n, good, w \o p.vec)
  BY <1>2, <1>3, <1>4 DEF Gathered
<1> QED
  BY <1>5 DEF more

\* y has one child more than x: a good match of node n, of w
Linked(x, y, n, w, good) ==
  \E p \in Pnodes :
    /\ Pstate(y).kids = Append(Pstate(x).kids, p)
    /\ p.node = n /\ p.matches /\ p.vec = w /\ good[p]

\* a call of ec_parse_child() links the pnode of a match, and nothing else
LEMMA ChildDescribed ==
  ASSUME Trees, GrammarOk, NEW P, NEW L, Sound(P, L), Natural(L), NEW good, Described(P, good),
         NEW n \in DOMAIN nodes, NEW x \in Started, NEW v \in Vectors,
         NEW c, c = ParseChild(P, n, x, v)
  PROVE  /\ c.ret = NoMatch => Pstate(c.st).kids = Pstate(x).kids
         /\ c.ret \notin {Fail, NoMatch} =>
              c.ret \in 0..Len(v) /\ Linked(x, c.st, n, SubSeq(v, 1, c.ret), good)
<1> DEFINE r == P[n][Enter(x, n)][v]
<1>1. n \in Nat /\ x \in States
  BY NodeTyped DEF Started
<1>2. r \in Sounds(Enter(x, n), L[n][v])
  BY <1>1, EnterTyped DEF Sound
<1>3. L[n][v] \in SUBSET Nat
  BY DEF Natural
<1>4. Enter(x, n) \in Fresh
  <2>1. Enter(x, n) \in Started /\ Pstate(Enter(x, n)) = Pnode(n)
    BY <1>1, EnterTyped
  <2> QED
    BY <2>1 DEF Fresh, Pnode
<1>5. r.ret \in (0..Len(v)) \ {NoMatch} => good[Matching(n, v, r)]
  BY <1>4 DEF Described
<1> HIDE DEF r
<1>6. r \in Results /\ r.st \in Below(Enter(x, n)) /\ r.ret \in Nat \cup {Fail}
  BY <1>2, <1>3 DEF Sounds, NoMatch
<1>7. r = P[n][Enter(x, n)][v]
  BY DEF r
<1>8. /\ c.ret = NoMatch => Pstate(c.st).kids = Pstate(x).kids
      /\ c.ret \notin {Fail, NoMatch} =>
           /\ c.ret = r.ret /\ Matching(n, v, r) \in Pnodes
           /\ Pstate(c.st).kids = Append(Pstate(x).kids, Matching(n, v, r))
  BY <1>1, <1>6, <1>7, ChildReturns
<1>9. ASSUME c.ret \notin {Fail, NoMatch} PROVE c.ret \in 0..Len(v)
  <2>1. x \in Below(x)
    BY BelowSelf
  <2> QED
    BY <1>9, <2>1, ChildSound
<1> DEFINE p == Matching(n, v, r)
<1>10. p.node = n /\ p.matches /\ p.vec = SubSeq(v, 1, r.ret)
  BY DEF Matching
<1>11. r.ret \in (0..Len(v)) \ {NoMatch} => good[p]
  BY <1>5
<1>12. c.ret \notin {Fail, NoMatch} => c.ret = r.ret /\ p \in Pnodes /\ Pstate(c.st).kids = Append(Pstate(x).kids, p)
  BY <1>8
<1> HIDE DEF p
<1>13. c.ret \notin {Fail, NoMatch} =>
         /\ c.ret \in 0..Len(v) /\ p \in Pnodes /\ Pstate(c.st).kids = Append(Pstate(x).kids, p)
         /\ p.node = n /\ p.matches /\ p.vec = SubSeq(v, 1, c.ret) /\ good[p]
  BY <1>9, <1>10, <1>11, <1>12
<1>14. c.ret = NoMatch => Pstate(c.st).kids = Pstate(x).kids
  BY <1>8
<1>15. c.ret \notin {Fail, NoMatch} => c.ret \in 0..Len(v) /\ Linked(x, c.st, n, SubSeq(v, 1, c.ret), good)
  BY <1>13 DEF Linked
<1> QED
  BY <1>14, <1>15

\* ... on a pnode with the children of a match of the first h strings of v
GatheredIn(n, good, v) ==
  {g \in Seq(Pnodes) \X Nat : Gathered(g[1], n, good, SubSeq(v, 1, g[2]))}

LEMMA GatheredPair ==
  ASSUME NEW n, NEW good, NEW v, NEW kids, NEW h
  PROVE  <<kids, h>> \in GatheredIn(n, good, v) <=>
           kids \in Seq(Pnodes) /\ h \in Nat /\ Gathered(kids, n, good, SubSeq(v, 1, h))
<1> DEFINE g == <<kids, h>>
<1>1. g[1] = kids /\ g[2] = h
  OBVIOUS
<1>2. g \in Seq(Pnodes) \X Nat <=> kids \in Seq(Pnodes) /\ h \in Nat
  OBVIOUS
<1> HIDE DEF g
<1>3. g \in GatheredIn(n, good, v) <=>
        kids \in Seq(Pnodes) /\ h \in Nat /\ Gathered(kids, n, good, SubSeq(v, 1, h))
  BY <1>1, <1>2 DEF GatheredIn
<1> QED
  BY <1>3 DEF g

LEMMA DescribedGrows ==
  ASSUME Trees, GrammarOk, NEW P, NEW L, Sound(P, L), Natural(L), NEW good, Described(P, good),
         NEW n \in DOMAIN nodes, NEW st \in Fresh, NEW v \in Vectors
  PROVE  Grows(P, GatheredIn(n, good, v), n, st, v)
<1> DEFINE G == GatheredIn(n, good, v)
<1>1. <<<<>>, 0>> \in G
  <2>1. Gathered(<<>>, n, good, SubSeq(v, 1, 0)) /\ <<>> \in Seq(Pnodes)
    BY GatheredNone
  <2> QED
    BY <2>1, GatheredPair
<1>2. ASSUME NEW k \in KidsOf(n), NEW x \in Below(st), NEW h \in 0..Len(v), <<Pstate(x).kids, h>> \in G,
             NEW c, c = ParseChild(P, k, x, Rest(v, h)), c.ret \notin {Fail, NoMatch}
      PROVE  <<Pstate(c.st).kids, h + c.ret>> \in G
  <2> DEFINE w == Rest(v, h)
  <2>0. w = Rest(v, h)
    OBVIOUS
  <2>1. w \in Vectors /\ Len(w) = Len(v) - h /\ c = ParseChild(P, k, x, w) /\ Len(v) \in Nat
    BY <1>2, RestTyped, VectorLen
  <2> HIDE DEF w
  <2>2. st \in Started /\ x \in Started /\ k \in DOMAIN nodes
    <3>1. st \in Started
      BY DEF Fresh
    <3> QED
      BY <3>1, BelowStarted, KidsNodes
  <2>3. c.ret \in 0..Len(w) /\ Linked(x, c.st, k, SubSeq(w, 1, c.ret), good)
    BY <1>2, <2>1, <2>2, ChildDescribed
  <2>4. PICK p \in Pnodes :
          /\ Pstate(c.st).kids = Append(Pstate(x).kids, p)
          /\ p.node = k /\ p.matches /\ p.vec = SubSeq(w, 1, c.ret) /\ good[p]
    BY <2>3 DEF Linked
  <2>5. Gathered(Pstate(x).kids, n, good, SubSeq(v, 1, h))
    BY <1>2, GatheredPair
  <2>6. Gathered(Append(Pstate(x).kids, p), n, good, SubSeq(v, 1, h) \o p.vec)
    BY <2>4, <2>5, GatheredMore
  <2>7. c.ret \in 0..(Len(v) - h)
    BY <2>1, <2>3
  <2>8. SubSeq(v, 1, h) \o p.vec = SubSeq(v, 1, h + c.ret)
    <3>1. SubSeq(v, 1, h) \o SubSeq(Rest(v, h), 1, c.ret) = SubSeq(v, 1, h + c.ret)
      BY <2>7, SplitVector
    <3> QED
      BY <2>0, <2>4, <3>1
  <2> DEFINE g == Pstate(c.st).kids
             to == h + c.ret
  <2>9. Gathered(g, n, good, SubSeq(v, 1, to)) /\ to \in Nat
    <3>1. to \in Nat
      BY <2>1, <2>7
    <3>2. g = Append(Pstate(x).kids, p) /\ SubSeq(v, 1, h) \o p.vec = SubSeq(v, 1, to)
      BY <2>4, <2>8
    <3> HIDE DEF g, to
    <3> QED
      BY <2>6, <3>1, <3>2
  <2> HIDE DEF g, to
  <2>10. g \in Seq(Pnodes)
    BY <2>9 DEF Gathered
  <2> QED
    BY <2>9, <2>10, GatheredPair DEF g, to
<1> QED
  BY <1>1, <1>2 DEF Grows

LEMMA DeeperDescribed ==
  ASSUME Trees, GrammarOk, NoSubset, NEW P, NEW L, Sound(P, L), Natural(L),
         NEW good, Described(P, good)
  PROVE  Described(Callbacks(P), Consistent(good))
<1> SUFFICES ASSUME NEW n \in DOMAIN nodes, NEW st \in Fresh, NEW v \in Vectors,
                    Callbacks(P)[n][st][v].ret \in (0..Len(v)) \ {NoMatch}
             PROVE  Consistent(good)[Matching(n, v, Callbacks(P)[n][st][v])]
  BY DEF Described
<1> DEFINE r == Callbacks(P)[n][st][v]
           p == Matching(n, v, r)
<1>1. n \in Nat /\ st \in States /\ st \in Started
  BY NodeTyped DEF Fresh, Started
<1>2. r = ParseNode(P, n, st, v)
  BY <1>1 DEF Callbacks
<1>0. r.ret \in (0..Len(v)) \ {NoMatch}
  OBVIOUS
<1> HIDE DEF r
<1>3. /\ r.st \in Below(st)
      /\ IsLeaf(n) => Pstate(r.st).kids = <<>>
      /\ ~IsLeaf(n) => Gathered(Pstate(r.st).kids, n, good, SubSeq(v, 1, r.ret))
  <2> DEFINE G == GatheredIn(n, good, v)
  <2>1. Grows(P, G, n, st, v)
    BY DescribedGrows
  <2> HIDE DEF G
  <2>2. /\ r.st \in Below(st)
        /\ IsLeaf(n) => Pstate(r.st).kids = <<>>
        /\ ~IsLeaf(n) => <<Pstate(r.st).kids, r.ret>> \in G
    BY <1>0, <1>2, <2>1, NodeGathers
  <2> QED
    BY <2>2, GatheredPair DEF G
<1>4. Pstate(r.st).kids \in Seq(Pnodes) /\ SubSeq(v, 1, r.ret) \in Vectors
  <2>1. r.st \in Started
    BY <1>1, <1>3, BelowStarted
  <2>2. r.ret \in Nat /\ r.ret <= Len(v)
    BY <1>0, VectorLen
  <2> QED
    BY <2>1, <2>2, PstateTyped, RestTyped
<1>5. p \in Pnodes
  <2>1. p \in [node : Nat, matches : BOOLEAN, vec : Vectors, kids : Seq(Pnodes)]
    BY <1>1, <1>4 DEF Matching
  <2> QED
    BY <2>1 DEF Trees
<1>6. p.node = n /\ p.vec = SubSeq(v, 1, r.ret) /\ p.kids = Pstate(r.st).kids
  BY DEF Matching
<1> HIDE DEF p
<1>7. Describes(p) /\ \A i \in DOMAIN p.kids : good[p.kids[i]]
  <2>1. CASE IsLeaf(n)
    <3>1. p.kids = <<>> /\ DOMAIN p.kids = {}
      BY <1>3, <1>6, <2>1
    <3> QED
      BY <1>6, <2>1, <3>1 DEF Describes
  <2>2. CASE ~IsLeaf(n)
    <3>1. Gathered(p.kids, n, good, p.vec)
      BY <1>3, <1>6, <2>2
    <3> QED
      BY <1>6, <2>2, <3>1 DEF Describes, Gathered
  <2> QED
    BY <2>1, <2>2
<1>8. Consistent(good)[p]
  BY <1>5, <1>7 DEF Consistent
<1> QED
  BY <1>8 DEF p, r

LEMMA OverflowDescribed ==
  ASSUME GrammarOk
  PROVE  Described(Overflow, NoTrees)
<1> SUFFICES ASSUME NEW n \in DOMAIN nodes, NEW st \in Fresh, NEW v \in Vectors
             PROVE  Overflow[n][st][v].ret \notin 0..Len(v)
  BY DEF Described
<1>1. n \in Nat /\ st \in States
  BY NodeTyped DEF Fresh, Started
<1>2. Overflow[n][st][v] = Fails([st EXCEPT !.faults = @ \cup {"overflow"}])
  BY <1>1 DEF Overflow
<1>3. Overflow[n][st][v].ret = Fail
  BY <1>2, ResultFields DEF Fails
<1> QED
  BY <1>3, VectorLen DEF Fail

TreesGo(to, n) == to = [d \in 0..n |-> IF d = 0 THEN NoTrees ELSE Consistent(to[d - 1])]

\* The function it goes through exists.
LEMMA ConsistentExists ==
  ASSUME NEW n \in Nat
  PROVE  \E to : TreesGo(to, n)
<1> DEFINE S == {m \in 0..n : \E g : TreesGo(g, m)}
<1>1. 0 \in S
  <2> DEFINE g == [d \in 0..0 |-> NoTrees]
  <2>1. g = [d \in 0..0 |-> IF d = 0 THEN NoTrees ELSE Consistent(g[d - 1])]
    OBVIOUS
  <2> HIDE DEF g
  <2>2. TreesGo(g, 0)
    BY <2>1 DEF TreesGo
  <2> QED
    BY <2>2
<1>2. ASSUME NEW m \in 0..(n - 1), m \in S PROVE m + 1 \in S
  <2>1. PICK g : TreesGo(g, m)
    BY <1>2
  <2> DEFINE h == [d \in 0..(m + 1) |-> IF d = m + 1 THEN Consistent(g[m]) ELSE g[d]]
  <2>2. ASSUME NEW d \in 0..(m + 1)
        PROVE  h[d] = IF d = 0 THEN NoTrees ELSE Consistent(h[d - 1])
    <3>1. CASE d = m + 1
      <4>1. h[d] = Consistent(g[m]) /\ h[m] = g[m] /\ d - 1 = m /\ d # 0
        BY <3>1
      <4> HIDE DEF h
      <4> QED
        BY <4>1
    <3>2. CASE d # m + 1
      <4>1. d \in 0..m /\ h[d] = g[d]
        BY <3>2
      <4>2. d # 0 => d - 1 \in 0..m /\ h[d - 1] = g[d - 1]
        BY <3>2
      <4>3. g[d] = IF d = 0 THEN NoTrees ELSE Consistent(g[d - 1])
        BY <2>1, <4>1 DEF TreesGo
      <4> HIDE DEF h
      <4> QED
        BY <4>1, <4>2, <4>3
    <3> QED
      BY <3>1, <3>2
  <2>3. h = [d \in 0..(m + 1) |-> h[d]]
    OBVIOUS
  <2> HIDE DEF h
  <2>4. h = [d \in 0..(m + 1) |-> IF d = 0 THEN NoTrees ELSE Consistent(h[d - 1])]
    BY <2>2, <2>3
  <2>5. TreesGo(h, m + 1)
    BY <2>4 DEF TreesGo
  <2> QED
    BY <2>5
<1> HIDE DEF S
<1>3. n \in S
  BY <1>1, <1>2, Induction
<1> QED
  BY <1>3 DEF S

LEMMA ConsistentToSteps ==
  ConsistentTo[0] = NoTrees /\ \A d \in 1..Depth : ConsistentTo[d] = Consistent(ConsistentTo[d - 1])
<1>1. Depth \in Nat
  BY GrammarAssumption
<1>2. ConsistentTo = [d \in 0..Depth |-> IF d = 0 THEN NoTrees ELSE Consistent(ConsistentTo[d - 1])]
  BY <1>1, ConsistentExists DEF TreesGo, ConsistentTo
<1> QED
  BY <1>1, <1>2

LEMMA EngineDescribes ==
  ASSUME Trees, GrammarOk, NoSubset
  PROVE  Described(ParseTo[Depth], ConsistentTo[Depth])
<1> DEFINE S == {d \in 0..Depth : /\ Sound(ParseTo[d], LengthsTo[d]) /\ Natural(LengthsTo[d])
                                  /\ Described(ParseTo[d], ConsistentTo[d])}
<1>0. Depth \in Nat
  BY GrammarAssumption
<1>1. 0 \in S
  BY <1>0, ParseToSteps, ConsistentToSteps, OverflowSound, OverflowDescribed
<1>2. ASSUME NEW d \in 0..(Depth - 1), d \in S PROVE d + 1 \in S
  <2>1. d + 1 \in 1..Depth /\ (d + 1) - 1 = d /\ d + 1 \in 0..Depth
    BY <1>0
  <2>2. ParseTo[d + 1] = Callbacks(ParseTo[d]) /\ LengthsTo[d + 1] = Deeper(LengthsTo[d])
    BY <2>1, ParseToSteps
  <2>3. ConsistentTo[d + 1] = Consistent(ConsistentTo[d])
    BY <2>1, ConsistentToSteps
  <2>4. Sound(ParseTo[d], LengthsTo[d]) /\ Natural(LengthsTo[d]) /\ Described(ParseTo[d], ConsistentTo[d])
    BY <1>2
  <2>5. Sound(ParseTo[d + 1], LengthsTo[d + 1]) /\ Natural(LengthsTo[d + 1])
    BY <2>2, <2>4, DeeperSound
  <2>6. Described(ParseTo[d + 1], ConsistentTo[d + 1])
    BY <2>2, <2>3, <2>4, DeeperDescribed
  <2> QED
    BY <2>1, <2>5, <2>6
<1> HIDE DEF S
<1>3. Depth \in S
  BY <1>0, <1>1, <1>2, Induction
<1> QED
  BY <1>3 DEF S

\* ec_parse_strvec()
\* a call returns what the root returns from a state of its own
LEMMA StrvecMatching ==
  ASSUME Trees, ParseInv, Built, NEW mem \in Nat,
         NEW result, result = ParseStrvec(Root, input, mem),
         result.op = "parse", result.ret # Fail
  PROVE  \E st \in Fresh :
           LET r == ParseTo[Depth][Root][st][input]
           IN  /\ result.ret = r.ret
               /\ r.ret # NoMatch => r.ret \in 0..Len(input) /\ result.tree = Matching(Root, input, r)
<1> DEFINE x == [spine |-> <<>>, mem |-> mem, faults |-> {}]
           e == Enter(x, Root)
           r == ParseTo[Depth][Root][e][input]
           p == Matching(Root, input, r)
<1>1. mem # 0
  <2>1. CASE mem = 0
    <3>1. result = [op |-> "parse", ret |-> Fail, faults |-> {}]
      BY <2>1 DEF ParseStrvec
    <3> QED
      BY <3>1
  <2> QED
    BY <2>1
<1>2. result = Parsing(r, input)
  BY <1>1 DEF ParseStrvec
<1>3. x \in States
  BY DEF States
<1>4. Root \in DOMAIN nodes /\ Root \in Nat /\ input \in Vectors /\ GrammarOk
  BY RootNode, InputVector DEF ParseInv, GrammarInv
<1> HIDE DEF x
<1>5. e \in Started /\ e \in Fresh
  <2>1. e \in Started /\ Pstate(e) = Pnode(Root)
    BY <1>3, <1>4, EnterTyped
  <2> QED
    BY <2>1 DEF Fresh, Pnode
<1>6. r \in Sounds(e, Lengths[Root][input]) /\ Lengths[Root][input] \in SUBSET Nat
  BY <1>4, <1>5, EngineSound DEF Sound, Natural
<1>8. p = [node |-> Root, matches |-> TRUE, vec |-> SubSeq(input, 1, r.ret), kids |-> Pstate(r.st).kids]
  BY DEF Matching
<1> HIDE DEF p, r
<1>9. {"unlink", "overflow"} \cap r.st.faults = {}
  <2>1. CASE {"unlink", "overflow"} \cap r.st.faults # {}
    <3>1. result = [op |-> "crash"]
      BY <1>2, <2>1 DEF Parsing
    <3> QED
      BY <3>1
  <2> QED
    BY <2>1
<1>10. ~(r.ret = Fail \/ (r.ret # NoMatch /\ (r.st.mem = 0 \/ r.ret > Len(input))))
  <2>1. CASE r.ret = Fail \/ (r.ret # NoMatch /\ (r.st.mem = 0 \/ r.ret > Len(input)))
    <3>1. result = [op |-> "parse", ret |-> Fail, faults |-> r.st.faults]
      BY <1>2, <1>9, <2>1 DEF Parsing
    <3> QED
      BY <3>1
  <2> QED
    BY <2>1
<1> DEFINE tree == IF r.ret = NoMatch THEN Pstate(r.st) ELSE MatchOf(r.st, input, r.ret)
<1>11. result = [op |-> "parse", ret |-> r.ret, faults |-> r.st.faults, tree |-> tree]
  BY <1>2, <1>9, <1>10 DEF Parsing, MatchOf
<1> HIDE DEF tree
<1>12. result.ret = r.ret /\ result.tree = tree
  BY <1>11
<1>13. r.ret # NoMatch => r.ret \in 0..Len(input)
  BY <1>4, <1>6, <1>10, <1>12, VectorLen DEF Sounds
<1>14. ASSUME r.ret # NoMatch PROVE tree = p
  <2>1. r.st \in Below(e)
    BY <1>6 DEF Sounds
  <2>2. MatchOf(r.st, input, r.ret) = p
    BY <1>3, <1>4, <1>8, <1>13, <1>14, <2>1, MatchTyped DEF e
  <2> QED
    BY <1>14, <2>2 DEF tree
<1>15. /\ result.ret = r.ret
       /\ r.ret # NoMatch => r.ret \in 0..Len(input) /\ result.tree = p
  BY <1>12, <1>13, <1>14
<1> QED
  BY <1>5, <1>15 DEF r, p

LEMMA StrvecDescribes ==
  ASSUME Trees, ParseInv, NoSubset, Built, NEW mem \in Nat,
         NEW result, result = ParseStrvec(Root, input, mem),
         result.op = "parse", result.ret # Fail, result.ret # NoMatch
  PROVE  /\ result.tree.node = Root /\ result.tree.matches
         /\ result.tree.vec = SubSeq(input, 1, result.ret)
         /\ ConsistentTo[Depth][result.tree]
<1>1. Root \in DOMAIN nodes /\ input \in Vectors /\ GrammarOk
  BY RootNode, InputVector DEF ParseInv, GrammarInv
<1>2. PICK st \in Fresh :
        LET r == ParseTo[Depth][Root][st][input]
        IN  /\ result.ret = r.ret
            /\ r.ret # NoMatch => r.ret \in 0..Len(input) /\ result.tree = Matching(Root, input, r)
  BY StrvecMatching
<1> DEFINE r == ParseTo[Depth][Root][st][input]
<1>3. r.ret \in (0..Len(input)) \ {NoMatch} /\ result.ret = r.ret /\ result.tree = Matching(Root, input, r)
  BY <1>2
<1>4. ConsistentTo[Depth][Matching(Root, input, r)]
  BY <1>1, <1>3, EngineDescribes DEF Described
<1> QED
  BY <1>3, <1>4 DEF Matching

\* The tree of a match describes which part of the input matches which node, in
\* every grammar without subset nodes, for every input and whichever allocation
\* fails: nothing of an abandoned attempt stays in it.
THEOREM TreesDescribeMatches == ASSUME Trees PROVE ParseSpec => []TreeDescribesMatch
<1>1. ASSUME ParseInv PROVE TreeDescribesMatch
  <2> SUFFICES ASSUME Matched, NoSubset
               PROVE  /\ out.tree.node = Root /\ out.tree.matches
                      /\ out.tree.vec = SubSeq(input, 1, out.ret)
                      /\ ConsistentTo[Depth][out.tree]
    BY DEF TreeDescribesMatch
  <2>1. out.op = "parse" /\ out.ret # Fail /\ out.ret # NoMatch
    BY DEF Matched, Parsed
  <2>2. out # NoResult
    BY <2>1 DEF NoResult
  <2>3. PICK mem \in family.budgets : out = ParseStrvec(Root, input, mem)
    BY <1>1, <2>2 DEF ParseInv, GrammarInv
  <2>4. mem \in Nat /\ Built
    BY <1>1, <2>2, FamilyFields DEF ParseInv, GrammarInv
  <2> QED
    BY <1>1, <2>1, <2>3, <2>4, StrvecDescribes
<1> QED
  BY <1>1, ParseInvariant, PTL

-----------------------------------------------------------------------------
\* The allocation that fails.  A call that does not fail makes the same thing of a
\* state in which d more allocations succeed.

Shift(st, d) == [st EXCEPT !.mem = @ + d]
Agrees(r, q, d) == r.ret # Fail => r.st.mem \in Nat /\ q = Result(r.ret, Shift(r.st, d))
Steady(P) ==
  \A n \in DOMAIN nodes : \A st \in Started : \A v \in Vectors : \A d \in Nat :
    st.mem \in Nat => Agrees(P[n][st][v], P[n][Shift(st, d)][v], d)

LEMMA StateEqual ==
  ASSUME NEW x \in States, NEW y \in States, x.spine = y.spine, x.mem = y.mem, x.faults = y.faults
  PROVE  x = y
BY DEF States

LEMMA ShiftTyped ==
  ASSUME NEW st \in States, NEW d \in Nat
  PROVE  /\ Shift(st, d) \in States
         /\ Shift(st, d).spine = st.spine /\ Shift(st, d).faults = st.faults
         /\ Shift(st, d).mem = st.mem + d /\ st.mem \in Int
         /\ Pstate(Shift(st, d)) = Pstate(st)
         /\ st \in Started => Shift(st, d) \in Started
<1>1. st \in [spine : Seq(Pnodes), mem : Int, faults : SUBSET Faults]
  BY DEF States
<1> DEFINE m == st.mem + d
<1>2. m \in Int /\ Shift(st, d) = [st EXCEPT !.mem = m]
  BY <1>1 DEF Shift
<1>0. m = st.mem + d
  OBVIOUS
<1> HIDE DEF m
<1> DEFINE y == [st EXCEPT !.mem = m]
<1>3. y \in States /\ y.spine = st.spine /\ y.faults = st.faults /\ y.mem = m
  BY <1>1, <1>2 DEF States
<1> HIDE DEF y
<1>4. Shift(st, d) = y
  BY <1>2 DEF y
<1>5. Pstate(y) = Pstate(st)
  BY <1>3, SameSpine
<1>6. st \in Started => y \in Started
  BY <1>3 DEF Started
<1> QED
  BY <1>0, <1>1, <1>3, <1>4, <1>5, <1>6

\* what changes the tree does not look at mem
LEMMA ShiftAlloc ==
  ASSUME Trees, NEW st \in Started, NEW d \in Nat
  PROVE  Alloc(Shift(st, d)) = Shift(Alloc(st), d)
<1>1. st \in States /\ Shift(st, d) \in Started /\ Shift(st, d).mem = st.mem + d
      /\ Shift(st, d).spine = st.spine /\ Shift(st, d).faults = st.faults /\ st.mem \in Int
  BY ShiftTyped DEF Started
<1> DEFINE s == Shift(st, d)
           x == Alloc(s)
           a == Alloc(st)
           y == Shift(a, d)
<1>2. x \in Below(s) /\ x.spine = s.spine /\ x.mem = s.mem - 1 /\ x.faults = s.faults
  BY <1>1, BelowSelf, AllocTyped
<1>3. a \in Below(st) /\ a.spine = st.spine /\ a.mem = st.mem - 1 /\ a.faults = st.faults
  BY BelowSelf, AllocTyped
<1>4. a \in States /\ x \in States
  BY <1>2, <1>3, BelowStates
<1> HIDE DEF a, x
<1>5. y \in States /\ y.spine = a.spine /\ y.faults = a.faults /\ y.mem = a.mem + d
  BY <1>4, ShiftTyped
<1>6. x.mem = y.mem
  BY <1>1, <1>2, <1>3, <1>5
<1> HIDE DEF s, y
<1>7. x = y
  BY <1>1, <1>2, <1>3, <1>4, <1>5, <1>6, StateEqual DEF s
<1> QED
  BY <1>7 DEF x, y, a, s

LEMMA ShiftOn ==
  ASSUME Trees, NEW st \in Started, NEW d \in Nat, NEW kids \in Seq(Pnodes)
  PROVE  OnPstate(Shift(st, d), kids) = Shift(OnPstate(st, kids), d)
<1>1. st \in States /\ Shift(st, d) \in Started /\ Shift(st, d).mem = st.mem + d
      /\ Shift(st, d).spine = st.spine /\ Shift(st, d).faults = st.faults
  BY ShiftTyped DEF Started
<1> DEFINE s == Shift(st, d)
           x == OnPstate(s, kids)
           a == OnPstate(st, kids)
           y == Shift(a, d)
<1>2. x \in Below(s) /\ x.spine = [s.spine EXCEPT ![Len(s.spine)].kids = kids]
      /\ x.mem = s.mem /\ x.faults = s.faults
  BY <1>1, OnTyped
<1>3. a \in Below(st) /\ a.spine = [st.spine EXCEPT ![Len(st.spine)].kids = kids]
      /\ a.mem = st.mem /\ a.faults = st.faults
  BY OnTyped
<1>4. a \in States /\ x \in States
  BY <1>2, <1>3, BelowStates
<1> HIDE DEF a, x
<1>5. y \in States /\ y.spine = a.spine /\ y.faults = a.faults /\ y.mem = a.mem + d
  BY <1>4, ShiftTyped
<1> HIDE DEF s, y
<1>6. s.spine = st.spine /\ s.faults = st.faults /\ s.mem = st.mem + d
  BY <1>1 DEF s
<1>7. x = y
  BY <1>2, <1>3, <1>4, <1>5, <1>6, StateEqual
<1> QED
  BY <1>7 DEF x, y, a, s

LEMMA ShiftTree ==
  ASSUME Trees, NEW st \in Started, NEW d \in Nat
  PROVE  /\ DelLastChild(Shift(st, d)) = Shift(DelLastChild(st), d)
         /\ FreeChildren(Shift(st, d)) = Shift(FreeChildren(st), d)
         /\ \A p \in Pnodes : LinkChild(Shift(st, d), p) = Shift(LinkChild(st, p), d)
<1>1. st \in States /\ Pstate(Shift(st, d)) = Pstate(st) /\ Pstate(st).kids \in Seq(Pnodes)
  BY ShiftTyped, PstateTyped DEF Started
<1>2. <<>> \in Seq(Pnodes) /\ \A p \in Pnodes : Append(Pstate(st).kids, p) \in Seq(Pnodes)
  BY <1>1
<1>3. Pstate(st).kids # <<>> => SE!Front(Pstate(st).kids) \in Seq(Pnodes)
  BY <1>1 DEF SE!Front
<1>4. DelLastChild(Shift(st, d)) = Shift(DelLastChild(st), d)
  <2>1. CASE Pstate(st).kids = <<>>
    BY <1>1, <2>1 DEF DelLastChild
  <2>2. CASE Pstate(st).kids # <<>>
    <3>1. DelLastChild(Shift(st, d)) = OnPstate(Shift(st, d), SE!Front(Pstate(st).kids))
      BY <1>1, <2>2 DEF DelLastChild
    <3>2. DelLastChild(st) = OnPstate(st, SE!Front(Pstate(st).kids))
      BY <2>2 DEF DelLastChild
    <3>3. SE!Front(Pstate(st).kids) \in Seq(Pnodes)
      BY <1>3, <2>2
    <3> QED
      BY <3>1, <3>2, <3>3, ShiftOn
  <2> QED
    BY <2>1, <2>2
<1>5. FreeChildren(Shift(st, d)) = Shift(FreeChildren(st), d)
  BY <1>2, ShiftOn DEF FreeChildren
<1>6. ASSUME NEW p \in Pnodes PROVE LinkChild(Shift(st, d), p) = Shift(LinkChild(st, p), d)
  BY <1>1, <1>2, ShiftOn DEF LinkChild
<1> QED
  BY <1>4, <1>5, <1>6

LEMMA ShiftEnter ==
  ASSUME Trees, NEW st \in States, NEW d \in Nat, NEW n \in Nat
  PROVE  Enter(Shift(st, d), n) = Shift(Enter(st, n), d)
<1>1. Shift(st, d) \in States /\ Shift(st, d).mem = st.mem + d
      /\ Shift(st, d).spine = st.spine /\ Shift(st, d).faults = st.faults /\ st.mem \in Int
  BY ShiftTyped
<1> DEFINE s == Shift(st, d)
           x == Enter(s, n)
           a == Enter(st, n)
           y == Shift(a, d)
<1>2. x \in Started /\ x.spine = Append(s.spine, Pnode(n)) /\ x.mem = s.mem - 1 /\ x.faults = s.faults
  BY <1>1, EnterTyped
<1>3. a \in Started /\ a.spine = Append(st.spine, Pnode(n)) /\ a.mem = st.mem - 1 /\ a.faults = st.faults
  BY EnterTyped
<1>4. a \in States /\ x \in States
  BY <1>2, <1>3 DEF Started
<1> HIDE DEF a, x
<1>5. y \in States /\ y.spine = a.spine /\ y.faults = a.faults /\ y.mem = a.mem + d
  BY <1>4, ShiftTyped
<1> HIDE DEF s, y
<1>6. s.spine = st.spine /\ s.faults = st.faults /\ s.mem = st.mem + d
  BY <1>1 DEF s
<1>7. x.mem = y.mem
  BY <1>1, <1>2, <1>3, <1>5, <1>6
<1>8. x = y
  BY SMTT(30), <1>2, <1>3, <1>4, <1>5, <1>6, <1>7, StateEqual
<1> QED
  BY <1>8 DEF x, y, a, s

LEMMA ShiftLeave ==
  ASSUME Trees, NEW x \in Started, NEW n \in Nat, NEW y \in Below(Enter(x, n)), NEW d \in Nat
  PROVE  Leave(Shift(y, d)) = Shift(Leave(y), d)
<1>1. y \in States /\ Shift(y, d) \in States /\ Shift(y, d).spine = y.spine
      /\ Shift(y, d).faults = y.faults /\ Shift(y, d).mem = y.mem + d /\ y.mem \in Int
  BY BelowStates, ShiftTyped
<1>2. y \in [spine : Seq(Pnodes), mem : Int, faults : SUBSET Faults]
  BY <1>1 DEF States
<1> DEFINE f == SE!Front(y.spine)
<1>3. Leave(y) = [y EXCEPT !.spine = f] /\ Leave(Shift(y, d)) = [Shift(y, d) EXCEPT !.spine = f]
  BY <1>1 DEF Leave
<1> HIDE DEF f
<1> DEFINE m == y.mem + d
<1>4. Shift(y, d) = [y EXCEPT !.mem = m]
  BY DEF Shift
<1>5. Shift(Leave(y), d) = [[y EXCEPT !.spine = f] EXCEPT !.mem = m]
  BY <1>2, <1>3 DEF Shift
<1>6. Leave(Shift(y, d)) = [[y EXCEPT !.mem = m] EXCEPT !.spine = f]
  BY <1>3, <1>4
<1> HIDE DEF m
<1> QED
  BY <1>2, <1>5, <1>6

\* A loop whose iterations agree, or fail for good, agrees or fails: shift[x] is
\* what corresponds to x.
Corresponds(step, n, X, failed, shift) ==
  /\ \A i \in 1..n : \A x \in X :
       step[i][x] \in failed \/ (step[i][x] \in X /\ step[i][shift[x]] = shift[step[i][x]])
  /\ \A i \in 1..n : \A x \in failed : step[i][x] \in failed

LEMMA LoopAgrees ==
  ASSUME NEW n \in Nat, NEW step, NEW first, NEW X, NEW failed, NEW shift, first \in X,
         Corresponds(step, n, X, failed, shift)
  PROVE  \/ Loop(step, first, n) \in failed
         \/ Loop(step, first, n) \in X /\ Loop(step, shift[first], n) = shift[Loop(step, first, n)]
<1> DEFINE A(i) == Loop(step, first, i)
           B(i) == Loop(step, shift[first], i)
           S == {i \in 0..n : A(i) \in failed \/ (A(i) \in X /\ B(i) = shift[A(i)])}
<1>1. 0 \in S
  BY LoopRounds
<1>2. ASSUME NEW i \in 0..(n - 1), i \in S PROVE i + 1 \in S
  <2>1. i \in Nat /\ i + 1 \in 1..n /\ i + 1 \in 0..n
    OBVIOUS
  <2>2. A(i + 1) = step[i + 1][A(i)] /\ B(i + 1) = step[i + 1][B(i)]
    BY <2>1, LoopRounds
  <2>3. A(i) \in failed \/ (A(i) \in X /\ B(i) = shift[A(i)])
    BY <1>2
  <2> HIDE DEF A, B
  <2>4. A(i + 1) \in failed \/ (A(i + 1) \in X /\ B(i + 1) = shift[A(i + 1)])
    BY <2>1, <2>2, <2>3 DEF Corresponds
  <2> QED
    BY <2>1, <2>4
<1> HIDE DEF S
<1>3. n \in S
  BY <1>1, <1>2, Induction
<1> QED
  BY <1>3 DEF S

LEMMA AgreesBuilt ==
  ASSUME NEW ret \in Int, NEW st \in States, st.mem \in Nat, NEW d \in Nat
  PROVE  Agrees(Result(ret, st), Result(ret, Shift(st, d)), d)
BY ResultFields DEF Agrees

LEMMA ReturnedSteady ==
  ASSUME Trees, NEW x \in Started, NEW n \in Nat, NEW v \in Vectors, NEW d \in Nat,
         NEW r \in Results, r.st \in Below(Enter(x, n)), r.ret \in Nat \cup {Fail},
         NEW q, Agrees(r, q, d)
  PROVE  Agrees(Returned(r, v), Returned(q, v), d)
<1> DEFINE a == Leave(r.st)
           b == Leave(q.st)
<1>1. a \in Below(x) /\ a \in States /\ a \in Started /\ a.mem = r.st.mem
  <2> DEFINE y == r.st
  <2>1. y \in Below(Enter(x, n))
    OBVIOUS
  <2> HIDE DEF y
  <2>2. Leave(y) \in Below(x) /\ Leave(y).mem = y.mem
    BY <2>1, LeaveTyped
  <2>3. Leave(y) \in States /\ Leave(y) \in Started
    BY <2>2, BelowStates, BelowStarted
  <2> QED
    BY <2>2, <2>3 DEF y
<1>2. CASE r.ret = Fail
  <2>1. Returned(r, v) = Result(Fail, a)
    BY <1>2 DEF Returned
  <2> QED
    BY <2>1, ResultFields DEF Agrees
<1>3. ASSUME r.ret # Fail
      PROVE  /\ r.st.mem \in Nat /\ q.ret = r.ret /\ q.st = Shift(r.st, d) /\ b = Shift(a, d)
             /\ q.st.mem = r.st.mem + d
  <2>1. r.st.mem \in Nat /\ q = Result(r.ret, Shift(r.st, d))
    BY <1>3 DEF Agrees
  <2>2. q.ret = r.ret /\ q.st = Shift(r.st, d)
    BY <2>1, ResultFields
  <2>3. r.st \in States
    BY BelowStates
  <2>4. Leave(Shift(r.st, d)) = Shift(Leave(r.st), d)
    BY ShiftLeave
  <2> QED
    BY <2>1, <2>2, <2>3, <2>4, ShiftTyped
<1>4. CASE r.ret = NoMatch
  <2>1. r.ret # Fail
    BY <1>4 DEF Fail, NoMatch
  <2>2. Returned(r, v) = Result(NoMatch, a) /\ Returned(q, v) = Result(NoMatch, Shift(a, d))
    BY <1>3, <1>4, <2>1 DEF Returned
  <2>3. a.mem \in Nat /\ NoMatch \in Int
    BY <1>1, <1>3, <2>1 DEF NoMatch
  <2> HIDE DEF a
  <2> QED
    BY <1>1, <2>2, <2>3, AgreesBuilt
<1>5. CASE r.ret \notin {Fail, NoMatch} /\ (r.st.mem = 0 \/ r.ret > Len(v))
  <2>1. Returned(r, v) = Result(Fail, Alloc(a))
    BY <1>5 DEF Returned, AllocFails, Fails
  <2> QED
    BY <2>1, ResultFields DEF Agrees
<1>6. CASE r.ret \notin {Fail, NoMatch} /\ ~(r.st.mem = 0 \/ r.ret > Len(v))
  <2> DEFINE p == MatchOf(r.st, v, r.ret)
             y == LinkChild(Alloc(a), p)
  <2>1. /\ r.st.mem \in Nat /\ q.ret = r.ret /\ q.st = Shift(r.st, d) /\ b = Shift(a, d)
        /\ q.st.mem = r.st.mem + d
    BY <1>3, <1>6
  <2>2. r.st \in States
    BY BelowStates
  <2>3. MatchOf(q.st, v, q.ret) = p
    <3>1. Pstate(q.st) = Pstate(r.st)
      BY <2>1, <2>2, ShiftTyped
    <3> QED
      BY <2>1, <3>1 DEF MatchOf
  <2>4. r.st.mem # 0 /\ q.st.mem # 0 /\ r.st.mem - 1 \in Nat
    BY <1>6, <2>1
  <2>5. Returned(r, v) = Result(r.ret, y)
    BY <1>6 DEF Returned, MatchOf
  <2>6. Returned(q, v) = Result(r.ret, LinkChild(Alloc(b), p))
    BY <1>6, <2>1, <2>3, <2>4 DEF Returned, MatchOf
  <2>7. p \in Pnodes
    <3>1. r.ret \in 0..Len(v) /\ x \in States
      BY <1>6, VectorLen DEF Fail, Started
    <3> QED
      BY <3>1, MatchTyped
  <2> HIDE DEF a, b, p
  <2>8. Alloc(a) \in Below(x) /\ Alloc(a).mem = r.st.mem - 1 /\ Alloc(a) \in Started
    BY <1>1, AllocTyped, BelowStarted
  <2>9. y \in Below(x) /\ y.mem = r.st.mem - 1
    BY <2>7, <2>8, LinkTyped
  <2>10. y \in States
    BY <2>9, BelowStates
  <2>11. LinkChild(Alloc(b), p) = Shift(y, d)
    <3>1. Alloc(b) = Shift(Alloc(a), d)
      BY <1>1, <2>1, ShiftAlloc
    <3> QED
      BY <2>7, <2>8, <3>1, ShiftTree
  <2> HIDE DEF y
  <2>12. y.mem \in Nat /\ r.ret \in Int
    BY <2>4, <2>9, ResultsFields
  <2>13. Agrees(Result(r.ret, y), Result(r.ret, Shift(y, d)), d)
    BY <2>10, <2>12, AgreesBuilt
  <2> QED
    BY <2>5, <2>6, <2>11, <2>13
<1> QED
  BY <1>2, <1>4, <1>5, <1>6

LEMMA ChildSteady ==
  ASSUME Trees, GrammarOk, NEW P, NEW L, Sound(P, L), Natural(L), Steady(P),
         NEW n \in DOMAIN nodes, NEW x \in Started, x.mem \in Nat, NEW v \in Vectors, NEW d \in Nat
  PROVE  Agrees(ParseChild(P, n, x, v), ParseChild(P, n, Shift(x, d), v), d)
<1>1. n \in Nat /\ x \in States
  BY NodeTyped DEF Started
<1>2. CASE x.mem = 0
  <2>1. ParseChild(P, n, x, v) = Result(Fail, Alloc(x))
    BY <1>2 DEF ParseChild, AllocFails, Fails
  <2> QED
    BY <2>1, ResultFields DEF Agrees
<1>3. CASE x.mem # 0
  <2> DEFINE e == Enter(x, n)
             r == P[n][e][v]
             q == P[n][Shift(e, d)][v]
  <2>1. e \in Started /\ e.mem = x.mem - 1 /\ e.mem \in Nat
    BY <1>1, <1>3, EnterTyped
  <2>2. Enter(Shift(x, d), n) = Shift(e, d) /\ Shift(x, d).mem # 0
    <3>1. Enter(Shift(x, d), n) = Shift(e, d)
      BY <1>1, ShiftEnter
    <3>2. Shift(x, d).mem = x.mem + d
      BY <1>1, ShiftTyped
    <3>3. x.mem + d # 0
      BY <1>3
    <3> QED
      BY <3>1, <3>2, <3>3
  <2>3. ParseChild(P, n, x, v) = Returned(r, v) /\ ParseChild(P, n, Shift(x, d), v) = Returned(q, v)
    BY <1>3, <2>2 DEF ParseChild
  <2>4. Agrees(r, q, d)
    BY <2>1 DEF Steady
  <2>5. r \in Sounds(e, L[n][v])
    BY <2>1 DEF Sound
  <2>6. L[n][v] \in SUBSET Nat
    BY DEF Natural
  <2> HIDE DEF r, q
  <2>7. r \in Results /\ r.st \in Below(Enter(x, n)) /\ r.ret \in Nat \cup {Fail}
    BY <2>5, <2>6 DEF Sounds, NoMatch
  <2> QED
    BY <1>1, <2>3, <2>4, <2>7, ReturnedSteady
<1> QED
  BY <1>2, <1>3

\* Results that did not fail, and how a result is related to the one of the
\* shifted state.
Alive(st) == {r \in Results : r.st \in Below(st) /\ r.st.mem \in Nat /\ r.ret \in Nat}
Failed == {r \in Results : r.ret = Fail}
Shifted(r, d) == Result(r.ret, Shift(r.st, d))
Keeps(r, q, st, d) == r \in Failed \/ (r \in Alive(st) /\ q = Shifted(r, d))

LEMMA KeepsBuilt ==
  ASSUME Trees, NEW st \in Started, NEW x \in Below(st), NEW d \in Nat
  PROVE  /\ Result(Fail, x) \in Failed
         /\ x.mem \in Nat => \A ret \in Nat : Keeps(Result(ret, x), Result(ret, Shift(x, d)), st, d)
<1>1. x \in States
  BY BelowStates
<1>2. ASSUME x.mem \in Nat, NEW ret \in Nat PROVE Keeps(Result(ret, x), Result(ret, Shift(x, d)), st, d)
  <2> DEFINE r == Result(ret, x)
  <2>1. r \in Results /\ r.ret = ret /\ r.st = x
    BY <1>1, ResultFields
  <2> HIDE DEF r
  <2>2. r \in Alive(st)
    BY <1>2, <2>1 DEF Alive
  <2>3. Result(ret, Shift(x, d)) = Shifted(r, d)
    BY <2>1 DEF Shifted
  <2> QED
    BY <2>2, <2>3 DEF Keeps, r
<1>3. Result(Fail, x) \in Failed
  BY <1>1, ResultFields, FailInt DEF Failed
<1> QED
  BY <1>2, <1>3

LEMMA AliveFields ==
  ASSUME Trees, NEW st \in Started, NEW r \in Alive(st), NEW d \in Nat
  PROVE  /\ r \in Results /\ r.st \in Below(st) /\ r.st.mem \in Nat /\ r.ret \in Nat /\ r.st \in Started
         /\ r.st \in States /\ r.ret # Fail
         /\ Shifted(r, d) \in Results /\ Shifted(r, d).ret = r.ret /\ Shifted(r, d).st = Shift(r.st, d)
         /\ Shift(r.st, d).mem = r.st.mem + d
<1>1. r \in Results /\ r.st \in Below(st) /\ r.st.mem \in Nat /\ r.ret \in Nat /\ r.ret # Fail
  BY DEF Alive, Fail
<1>2. r.st \in Started /\ r.st \in States
  BY <1>1, BelowStarted, BelowStates
<1> DEFINE y == r.st
<1>3. y \in States
  BY <1>2
<1> HIDE DEF y
<1>4. Shift(y, d) \in States /\ Shift(y, d).mem = y.mem + d
  BY <1>3, ShiftTyped
<1>5. r.ret \in Int
  BY <1>1
<1>6. /\ Shifted(r, d) \in Results /\ Shifted(r, d).ret = r.ret
      /\ Shifted(r, d).st = Shift(y, d)
  BY <1>4, <1>5, ResultFields DEF Shifted, y
<1> QED
  BY <1>1, <1>2, <1>4, <1>6 DEF y

LEMMA KeepsAgrees ==
  ASSUME NEW st, NEW r, NEW q, NEW d, Keeps(r, q, st, d)
  PROVE  Agrees(r, q, d)
BY DEF Keeps, Agrees, Alive, Failed, Shifted

LEMMA ChildKeeps ==
  ASSUME Trees, GrammarOk, NEW P, NEW L, Sound(P, L), Natural(L), Steady(P),
         NEW n \in DOMAIN nodes, NEW st \in Started, NEW x \in Below(st), x.mem \in Nat,
         NEW v \in Vectors, NEW d \in Nat
  PROVE  /\ ParseChild(P, n, x, v) \in Results /\ ParseChild(P, n, x, v).st \in Below(st)
         /\ Keeps(ParseChild(P, n, x, v), ParseChild(P, n, Shift(x, d), v), st, d)
<1> DEFINE c == ParseChild(P, n, x, v)
           q == ParseChild(P, n, Shift(x, d), v)
<1>1. x \in Started
  BY BelowStarted
<1>2. /\ c.st \in Below(st) /\ c \in Results
      /\ c.ret \in {Fail, NoMatch} \/ c.ret \in L[n][v] \cap (0..Len(v))
  BY ChildSound
<1>3. Agrees(c, q, d)
  BY <1>1, ChildSteady
<1>4. L[n][v] \in SUBSET Nat
  BY DEF Natural
<1> HIDE DEF c, q
<1>5. c.ret # Fail => c.ret \in Nat
  BY <1>2, <1>4 DEF NoMatch
<1>6. Keeps(c, q, st, d)
  BY <1>2, <1>3, <1>5 DEF Keeps, Agrees, Alive, Failed, Shifted
<1> QED
  BY <1>2, <1>6 DEF c, q

LEMMA FirstAlive ==
  ASSUME Trees, NEW st \in Started, st.mem \in Nat, NEW d \in Nat, NEW ret \in Nat
  PROVE  Result(ret, st) \in Alive(st) /\ Shifted(Result(ret, st), d) = Result(ret, Shift(st, d))
<1>1. st \in Below(st) /\ st \in States
  BY BelowSelf DEF Started
<1> DEFINE r == Result(ret, st)
<1>2. r \in Results /\ r.ret = ret /\ r.st = st
  BY <1>1, ResultFields
<1> HIDE DEF r
<1>3. r \in Alive(st) /\ Shifted(r, d) = Result(ret, Shift(st, d))
  BY <1>1, <1>2 DEF Alive, Shifted
<1> QED
  BY <1>3 DEF r

\* ec_node_seq_parse()
LEMMA SeqKeepsStep ==
  ASSUME Trees, GrammarOk, NEW P, NEW L, Sound(P, L), Natural(L), Steady(P),
         NEW k \in DOMAIN nodes, NEW st \in Started, NEW v \in Vectors, NEW d \in Nat,
         NEW r \in Alive(st)
  PROVE  Keeps(SeqChild(P, k, r, v), SeqChild(P, k, Shifted(r, d), v), st, d)
<1> DEFINE q == Shifted(r, d)
<1>1. /\ r \in Results /\ r.st \in Below(st) /\ r.st.mem \in Nat /\ r.ret \in Nat /\ r.st \in Started
      /\ r.ret # Fail /\ q.ret = r.ret /\ q.st = Shift(r.st, d) /\ q.st.mem = r.st.mem + d
  BY AliveFields
<1> HIDE DEF q
<1>2. CASE r.ret = NoMatch
  <2>1. SeqChild(P, k, r, v) = r /\ SeqChild(P, k, q, v) = q
    BY <1>1, <1>2 DEF SeqChild
  <2> QED
    BY <2>1 DEF Keeps, q
<1>3. CASE r.ret # NoMatch /\ r.st.mem = 0
  <2>1. SeqChild(P, k, r, v) = Result(Fail, Alloc(r.st))
    BY <1>1, <1>3 DEF SeqChild, AllocFails, Fails
  <2>2. Alloc(r.st) \in Below(st)
    BY <1>1, AllocTyped
  <2> QED
    BY <2>1, <2>2, KeepsBuilt DEF Keeps
<1>4. CASE r.ret # NoMatch /\ r.st.mem # 0
  <2> DEFINE x == Alloc(r.st)
             w == Rest(v, r.ret)
             c == ParseChild(P, k, x, w)
             e == ParseChild(P, k, Shift(x, d), w)
  <2>1. w \in Vectors
    BY <1>1, RestTyped
  <2>2. x \in Below(st) /\ x.mem \in Nat
    <3>1. x \in Below(st) /\ x.mem = r.st.mem - 1
      BY <1>1, AllocTyped
    <3> QED
      BY <1>1, <1>4, <3>1
  <2>3. Alloc(q.st) = Shift(x, d) /\ q.st.mem # 0
    BY <1>1, <1>4, ShiftAlloc
  <2>4. SeqChild(P, k, r, v) = SeqCalled(r, c) /\ SeqChild(P, k, q, v) = SeqCalled(q, e)
    BY <1>1, <1>4, <2>3 DEF SeqChild
  <2>5. c \in Results /\ c.st \in Below(st) /\ Keeps(c, e, st, d)
    BY <2>1, <2>2, ChildKeeps
  <2> HIDE DEF c, e
  <2>6. CASE c \in Failed
    <3>1. SeqCalled(r, c) = c
      BY <2>6 DEF SeqCalled, Failed, Fail, NoMatch
    <3> QED
      BY <2>4, <2>6, <3>1 DEF Keeps, q
  <2>7. CASE c \notin Failed
    <3>1. c \in Alive(st) /\ e = Shifted(c, d)
      BY <2>5, <2>7 DEF Keeps
    <3>2. /\ c.st \in Below(st) /\ c.st.mem \in Nat /\ c.ret \in Nat /\ c.st \in Started
          /\ c.ret # Fail /\ e.ret = c.ret /\ e.st = Shift(c.st, d)
      BY <3>1, AliveFields
    <3>3. CASE c.ret = NoMatch
      <4> DEFINE y == FreeChildren(c.st)
      <4>1. SeqCalled(r, c) = Result(NoMatch, y) /\ SeqCalled(q, e) = Result(NoMatch, Shift(y, d))
        BY <3>2, <3>3, ShiftTree DEF SeqCalled, Fail, NoMatch
      <4>2. y \in Below(st) /\ y.mem = c.st.mem /\ NoMatch \in Nat
        BY <3>2, FreeTyped DEF NoMatch
      <4> HIDE DEF y
      <4> QED
        BY <2>4, <3>2, <4>1, <4>2, KeepsBuilt DEF q
    <3>4. CASE c.ret # NoMatch
      <4>1. SeqCalled(r, c) = Result(r.ret + c.ret, c.st)
            /\ SeqCalled(q, e) = Result(r.ret + c.ret, Shift(c.st, d))
        BY <1>1, <3>2, <3>4 DEF SeqCalled
      <4>2. r.ret + c.ret \in Nat
        BY <1>1, <3>2
      <4> QED
        BY <2>4, <3>2, <4>1, <4>2, KeepsBuilt DEF q
    <3> QED
      BY <3>3, <3>4
  <2> QED
    BY <2>6, <2>7
<1> QED
  BY <1>2, <1>3, <1>4

\* Loops over the children, on results
LEMMA KeepsLoop ==
  ASSUME Trees, NEW st \in Started, NEW d \in Nat, NEW n \in Nat, NEW step, NEW first \in Alive(st),
         \A i \in 1..n : \A r \in Alive(st) : Keeps(step[i][r], step[i][Shifted(r, d)], st, d),
         \A i \in 1..n : \A r \in Failed : step[i][r] \in Failed
  PROVE  Keeps(Loop(step, first, n), Loop(step, Shifted(first, d), n), st, d)
<1> DEFINE shift == [r \in Alive(st) |-> Shifted(r, d)]
           X == Alive(st)
           F == Failed
           a == Loop(step, first, n)
           b == Loop(step, shift[first], n)
<1>1. a \in F \/ (a \in X /\ b = shift[a])
  <2>1. first \in X
    OBVIOUS
  <2>2. ASSUME NEW i \in 1..n, NEW r \in Alive(st)
        PROVE  step[i][r] \in Failed \/ (step[i][r] \in Alive(st) /\ step[i][shift[r]] = shift[step[i][r]])
    BY DEF Keeps
  <2>3. Corresponds(step, n, X, F, shift)
    <3> HIDE DEF shift
    <3> QED
      BY <2>2 DEF Corresponds
  <2> HIDE DEF shift, X, F
  <2> QED
    BY <2>1, <2>3, LoopAgrees
<1> HIDE DEF a
<1>2. a \in Failed \/ (a \in Alive(st) /\ b = Shifted(a, d))
  BY <1>1
<1> QED
  BY <1>2 DEF Keeps, a

LEMMA SeqSteady ==
  ASSUME Trees, GrammarOk, NEW P, NEW L, Sound(P, L), Natural(L), Steady(P),
         NEW node, Existing(node.kids), NEW st \in Started, st.mem \in Nat, NEW v \in Vectors, NEW d \in Nat
  PROVE  Agrees(SeqParse(P, node, st, v), SeqParse(P, node, Shift(st, d), v), d)
<1> DEFINE kids == node.kids
           m == Len(kids)
           step == [i \in DOMAIN kids |-> [r \in Results |-> SeqChild(P, kids[i], r, v)]]
           first == Result(0, st)
<1>0. m \in Nat /\ DOMAIN kids = 1..m
  BY DEF Existing
<1>1. first \in Alive(st) /\ Shifted(first, d) = Result(0, Shift(st, d))
  BY FirstAlive
<1>2. ASSUME NEW i \in 1..m, NEW r \in Alive(st) PROVE Keeps(step[i][r], step[i][Shifted(r, d)], st, d)
  <2>1. i \in DOMAIN kids /\ kids[i] \in DOMAIN nodes
    BY <1>0 DEF Existing
  <2>2. r \in Results /\ Shifted(r, d) \in Results
    BY AliveFields
  <2>3. step[i][r] = SeqChild(P, kids[i], r, v) /\ step[i][Shifted(r, d)] = SeqChild(P, kids[i], Shifted(r, d), v)
    BY <2>1, <2>2
  <2> HIDE DEF step
  <2> QED
    BY <2>1, <2>3, SeqKeepsStep
<1>3. ASSUME NEW i \in 1..m, NEW r \in Failed PROVE step[i][r] \in Failed
  BY <1>0 DEF Failed, SeqChild
<1>4. SeqParse(P, node, st, v) = Loop(step, first, m)
      /\ SeqParse(P, node, Shift(st, d), v) = Loop(step, Shifted(first, d), m)
  BY <1>1 DEF SeqParse
<1> HIDE DEF step, first, m
<1>5. Keeps(SeqParse(P, node, st, v), SeqParse(P, node, Shift(st, d), v), st, d)
  BY <1>0, <1>1, <1>2, <1>3, <1>4, KeepsLoop
<1> QED
  BY <1>5, KeepsAgrees

\* ec_node_or_parse()
LEMMA OrSteady ==
  ASSUME Trees, GrammarOk, NEW P, NEW L, Sound(P, L), Natural(L), Steady(P),
         NEW node, Existing(node.kids), NEW st \in Started, st.mem \in Nat, NEW v \in Vectors, NEW d \in Nat
  PROVE  Agrees(OrParse(P, node, st, v), OrParse(P, node, Shift(st, d), v), d)
<1> DEFINE kids == node.kids
           m == Len(kids)
           step == [i \in DOMAIN kids |-> [r \in Results |-> OrChild(P, kids[i], r, v)]]
           first == Result(NoMatch, st)
<1>0. m \in Nat /\ DOMAIN kids = 1..m
  BY DEF Existing
<1>1. first \in Alive(st) /\ Shifted(first, d) = Result(NoMatch, Shift(st, d))
  <2>1. NoMatch \in Nat
    BY DEF NoMatch
  <2> QED
    BY <2>1, FirstAlive
<1>2. ASSUME NEW i \in 1..m, NEW r \in Alive(st) PROVE Keeps(step[i][r], step[i][Shifted(r, d)], st, d)
  <2>1. i \in DOMAIN kids /\ kids[i] \in DOMAIN nodes
    BY <1>0 DEF Existing
  <2> DEFINE q == Shifted(r, d)
  <2>2. /\ r \in Results /\ q \in Results /\ q.ret = r.ret /\ q.st = Shift(r.st, d)
        /\ r.st \in Below(st) /\ r.st.mem \in Nat
    BY AliveFields
  <2>3. step[i][r] = OrChild(P, kids[i], r, v) /\ step[i][q] = OrChild(P, kids[i], q, v)
    BY <2>1, <2>2
  <2> HIDE DEF step, q
  <2>4. CASE r.ret = NoMatch
    <3>1. OrChild(P, kids[i], r, v) = ParseChild(P, kids[i], r.st, v)
          /\ OrChild(P, kids[i], q, v) = ParseChild(P, kids[i], Shift(r.st, d), v)
      BY <2>2, <2>4 DEF OrChild
    <3>2. Keeps(ParseChild(P, kids[i], r.st, v), ParseChild(P, kids[i], Shift(r.st, d), v), st, d)
      BY <2>1, <2>2, ChildKeeps
    <3> QED
      BY <2>3, <3>1, <3>2 DEF q
  <2>5. CASE r.ret # NoMatch
    <3>1. OrChild(P, kids[i], r, v) = r /\ OrChild(P, kids[i], q, v) = q
      BY <2>2, <2>5 DEF OrChild
    <3> QED
      BY <2>3, <3>1 DEF Keeps, q
  <2> QED
    BY <2>4, <2>5
<1>3. ASSUME NEW i \in 1..m, NEW r \in Failed PROVE step[i][r] \in Failed
  BY <1>0 DEF Failed, OrChild, Fail, NoMatch
<1>4. OrParse(P, node, st, v) = Loop(step, first, m)
      /\ OrParse(P, node, Shift(st, d), v) = Loop(step, Shifted(first, d), m)
  BY <1>1 DEF OrParse
<1> HIDE DEF step, first, m
<1>5. Keeps(OrParse(P, node, st, v), OrParse(P, node, Shift(st, d), v), st, d)
  BY <1>0, <1>1, <1>2, <1>3, <1>4, KeepsLoop
<1> QED
  BY <1>5, KeepsAgrees

\* option, once and bypass nodes
LEMMA UnarySteady ==
  ASSUME Trees, GrammarOk, NEW P, NEW L, Sound(P, L), Natural(L), Steady(P),
         NEW node, node.kids[1] \in DOMAIN nodes, NEW st \in Started, st.mem \in Nat,
         NEW v \in Vectors, NEW d \in Nat
  PROVE  /\ Agrees(OptionParse(P, node, st, v), OptionParse(P, node, Shift(st, d), v), d)
         /\ Agrees(OnceParse(P, node, st, v), OnceParse(P, node, Shift(st, d), v), d)
         /\ Agrees(BypassParse(P, node, st, v), BypassParse(P, node, Shift(st, d), v), d)
<1> DEFINE c == ParseChild(P, node.kids[1], st, v)
           e == ParseChild(P, node.kids[1], Shift(st, d), v)
<1>1. Keeps(c, e, st, d)
  BY BelowSelf, ChildKeeps
<1>2. Agrees(c, e, d)
  BY <1>1, KeepsAgrees
<1>3. Shift(st, d).spine = st.spine /\ st \in States
  BY ShiftTyped DEF Started
<1>4. /\ OptionParse(P, node, st, v) = IF c.ret = NoMatch THEN Result(0, c.st) ELSE c
      /\ OptionParse(P, node, Shift(st, d), v) = IF e.ret = NoMatch THEN Result(0, e.st) ELSE e
  BY DEF OptionParse
<1> DEFINE Once == Agrees(OnceParse(P, node, st, v), OnceParse(P, node, Shift(st, d), v), d)
<1>5. ASSUME CountFromRoot(st, node.kids[1]) > 0 PROVE Once
  <2>1. CountFromRoot(Shift(st, d), node.kids[1]) > 0
    BY <1>3, <1>5 DEF CountFromRoot
  <2>2. OnceParse(P, node, st, v) = Result(NoMatch, st)
        /\ OnceParse(P, node, Shift(st, d), v) = Result(NoMatch, Shift(st, d))
    BY <1>5, <2>1 DEF OnceParse
  <2> QED
    BY <1>3, <2>2, AgreesBuilt DEF NoMatch
<1>6. ASSUME ~(CountFromRoot(st, node.kids[1]) > 0) PROVE Once
  <2>1. ~(CountFromRoot(Shift(st, d), node.kids[1]) > 0)
    BY <1>3, <1>6 DEF CountFromRoot
  <2>2. OnceParse(P, node, st, v) = c /\ OnceParse(P, node, Shift(st, d), v) = e
    BY <1>6, <2>1 DEF OnceParse
  <2> QED
    BY <1>2, <2>2
<1>7. BypassParse(P, node, st, v) = c /\ BypassParse(P, node, Shift(st, d), v) = e
  BY DEF BypassParse
<1> HIDE DEF c, e
<1>8. Agrees(OptionParse(P, node, st, v), OptionParse(P, node, Shift(st, d), v), d)
  <2>1. CASE c \in Failed
    <3>1. OptionParse(P, node, st, v) = c
      BY <1>4, <2>1 DEF Failed, Fail, NoMatch
    <3> QED
      BY <2>1, <3>1 DEF Failed, Agrees
  <2>2. CASE c \notin Failed
    <3>1. c \in Alive(st) /\ e = Shifted(c, d)
      BY <1>1, <2>2 DEF Keeps
    <3>2. c.st \in States /\ c.st.mem \in Nat /\ e.ret = c.ret /\ e.st = Shift(c.st, d)
      BY <3>1, AliveFields
    <3>3. Agrees(Result(0, c.st), Result(0, Shift(c.st, d)), d)
      BY <3>2, AgreesBuilt
    <3> QED
      BY <1>2, <1>4, <3>2, <3>3
  <2> QED
    BY <2>1, <2>2
<1> QED
  BY <1>2, <1>5, <1>6, <1>7, <1>8

\* ec_node_many_parse()
Many(ret, st, count, over) == [ret |-> ret, st |-> st, count |-> count, over |-> over]
ManyAlive(st) == {r \in Manys : r.st \in Below(st) /\ r.st.mem \in Nat /\ r.ret \in Nat}
ManyFailed == {r \in Manys : r.ret = Fail /\ r.over}
ManyShifted(r, d) == Many(r.ret, Shift(r.st, d), r.count, r.over)
ManyKeeps(r, q, st, d) == r \in ManyFailed \/ (r \in ManyAlive(st) /\ q = ManyShifted(r, d))

LEMMA ManyFields ==
  ASSUME NEW ret \in Int, NEW st \in States, NEW count \in Nat, NEW over \in BOOLEAN
  PROVE  /\ Many(ret, st, count, over) \in Manys /\ Many(ret, st, count, over).ret = ret
         /\ Many(ret, st, count, over).st = st /\ Many(ret, st, count, over).count = count
         /\ Many(ret, st, count, over).over = over
BY DEF Many, Manys

LEMMA ManyEqual ==
  ASSUME NEW x \in Manys, NEW y \in Manys,
         x.ret = y.ret, x.st = y.st, x.count = y.count, x.over = y.over
  PROVE  x = y
BY DEF Manys

LEMMA ManyForms ==
  ASSUME NEW r \in Manys, NEW ret \in Int, NEW st \in States, NEW count \in Nat
  PROVE  /\ [r EXCEPT !.ret = ret, !.st = st, !.over = TRUE] = Many(ret, st, r.count, TRUE)
         /\ [r EXCEPT !.st = st, !.over = TRUE] = Many(r.ret, st, r.count, TRUE)
         /\ [r EXCEPT !.ret = ret, !.st = st, !.count = count] = Many(ret, st, count, r.over)
<1>1. r.ret \in Int /\ r.count \in Nat /\ r.over \in BOOLEAN
  BY DEF Manys
<1>2. [r EXCEPT !.ret = ret, !.st = st, !.over = TRUE] = Many(ret, st, r.count, TRUE)
  <2> DEFINE x == [r EXCEPT !.ret = ret, !.st = st, !.over = TRUE]
             y == Many(ret, st, r.count, TRUE)
  <2>1. x \in Manys /\ x.ret = ret /\ x.st = st /\ x.count = r.count /\ x.over = TRUE
    BY DEF Manys
  <2>2. y \in Manys /\ y.ret = ret /\ y.st = st /\ y.count = r.count /\ y.over = TRUE
    BY <1>1 DEF Many, Manys
  <2> HIDE DEF x, y
  <2>3. x = y
    BY <2>1, <2>2, ManyEqual
  <2> QED
    BY <2>3 DEF x, y
<1>3. [r EXCEPT !.st = st, !.over = TRUE] = Many(r.ret, st, r.count, TRUE)
  <2> DEFINE x == [r EXCEPT !.st = st, !.over = TRUE]
             y == Many(r.ret, st, r.count, TRUE)
  <2>1. x \in Manys /\ x.ret = r.ret /\ x.st = st /\ x.count = r.count /\ x.over = TRUE
    BY DEF Manys
  <2>2. y \in Manys /\ y.ret = r.ret /\ y.st = st /\ y.count = r.count /\ y.over = TRUE
    BY <1>1 DEF Many, Manys
  <2> HIDE DEF x, y
  <2>3. x = y
    BY <2>1, <2>2, ManyEqual
  <2> QED
    BY <2>3 DEF x, y
<1>4. [r EXCEPT !.ret = ret, !.st = st, !.count = count] = Many(ret, st, count, r.over)
  <2> DEFINE x == [r EXCEPT !.ret = ret, !.st = st, !.count = count]
             y == Many(ret, st, count, r.over)
  <2>1. x \in Manys /\ x.ret = ret /\ x.st = st /\ x.count = count /\ x.over = r.over
    BY DEF Manys
  <2>2. y \in Manys /\ y.ret = ret /\ y.st = st /\ y.count = count /\ y.over = r.over
    BY <1>1, ManyFields
  <2> HIDE DEF x, y
  <2>3. x = y
    BY <2>1, <2>2, ManyEqual
  <2> QED
    BY <2>3 DEF x, y
<1> QED
  BY <1>2, <1>3, <1>4

LEMMA ManyCases ==
  ASSUME NEW r \in Manys, NEW node, NEW c, c.ret \in Int, c.st \in States
  PROVE  /\ c.ret = Fail => ManyCalled(node, r, c) = Many(Fail, c.st, r.count, TRUE)
         /\ c.ret = NoMatch => ManyCalled(node, r, c) = Many(r.ret, c.st, r.count, TRUE)
         /\ c.ret = 0 /\ node.max = 0 /\ DelLastChild(c.st) \in States =>
              ManyCalled(node, r, c) = Many(r.ret, DelLastChild(c.st), r.count, TRUE)
         /\ c.ret \notin {Fail, NoMatch} /\ ~(c.ret = 0 /\ node.max = 0) =>
              ManyCalled(node, r, c) = Many(r.ret + c.ret, c.st, r.count + 1, r.over)
<1>0. r.ret \in Int /\ r.count \in Nat
  BY DEF Manys
<1> DEFINE s == c.st
<1>1. ASSUME c.ret = Fail PROVE ManyCalled(node, r, c) = Many(Fail, c.st, r.count, TRUE)
  <2>1. ManyCalled(node, r, c) = [r EXCEPT !.ret = Fail, !.st = s, !.over = TRUE]
    BY <1>1 DEF ManyCalled, Fail, NoMatch
  <2> HIDE DEF s
  <2>2. ManyCalled(node, r, c) = Many(Fail, s, r.count, TRUE)
    BY <1>0, <2>1, ManyForms, FailInt DEF s
  <2> QED
    BY <2>2 DEF s
<1>2. ASSUME c.ret = NoMatch PROVE ManyCalled(node, r, c) = Many(r.ret, c.st, r.count, TRUE)
  <2>1. ManyCalled(node, r, c) = [r EXCEPT !.st = s, !.over = TRUE]
    BY <1>2 DEF ManyCalled, Fail, NoMatch
  <2> HIDE DEF s
  <2>2. s \in States
    BY DEF s
  <2>3. ManyCalled(node, r, c) = Many(r.ret, s, r.count, TRUE)
    BY <1>0, <2>1, <2>2, ManyForms
  <2> QED
    BY <2>3 DEF s
<1>3. ASSUME c.ret = 0, node.max = 0, DelLastChild(c.st) \in States
      PROVE  ManyCalled(node, r, c) = Many(r.ret, DelLastChild(c.st), r.count, TRUE)
  <2> DEFINE y == DelLastChild(c.st)
  <2>1. ManyCalled(node, r, c) = [r EXCEPT !.st = y, !.over = TRUE]
    BY <1>3 DEF ManyCalled, Fail, NoMatch
  <2>2. y \in States
    BY <1>3
  <2> HIDE DEF y
  <2>3. ManyCalled(node, r, c) = Many(r.ret, y, r.count, TRUE)
    BY <1>0, <2>1, <2>2, ManyForms
  <2> QED
    BY <2>3 DEF y
<1>4. ASSUME c.ret \notin {Fail, NoMatch}, ~(c.ret = 0 /\ node.max = 0)
      PROVE  ManyCalled(node, r, c) = Many(r.ret + c.ret, c.st, r.count + 1, r.over)
  <2> DEFINE ret == r.ret + c.ret
             count == r.count + 1
  <2>1. ManyCalled(node, r, c) = [r EXCEPT !.ret = ret, !.st = s, !.count = count]
    BY <1>4 DEF ManyCalled
  <2>2. ret \in Int /\ count \in Nat /\ s \in States
    BY <1>0
  <2> HIDE DEF ret, count, s
  <2>3. ManyCalled(node, r, c) = Many(ret, s, count, r.over)
    BY ZenonT(40), <2>1, <2>2, ManyForms
  <2> QED
    BY <2>3 DEF ret, count, s
<1> QED
  BY <1>1, <1>2, <1>3, <1>4

LEMMA ManyAliveFields ==
  ASSUME Trees, NEW st \in Started, NEW r \in ManyAlive(st), NEW d \in Nat
  PROVE  /\ r \in Manys /\ r.st \in Below(st) /\ r.st.mem \in Nat /\ r.ret \in Nat /\ r.st \in Started
         /\ r.st \in States /\ r.ret # Fail /\ r.count \in Nat /\ r.over \in BOOLEAN
         /\ ManyShifted(r, d) \in Manys /\ ManyShifted(r, d).ret = r.ret
         /\ ManyShifted(r, d).st = Shift(r.st, d)
         /\ ManyShifted(r, d).count = r.count /\ ManyShifted(r, d).over = r.over
         /\ Shift(r.st, d).mem = r.st.mem + d
<1>1. r \in Manys /\ r.st \in Below(st) /\ r.st.mem \in Nat /\ r.ret \in Nat /\ r.ret # Fail
  BY DEF ManyAlive, Fail
<1>2. r.st \in Started /\ r.st \in States
  BY <1>1, BelowStarted, BelowStates
<1> DEFINE y == r.st
<1>3. y \in States
  BY <1>2
<1> HIDE DEF y
<1>4. Shift(y, d) \in States /\ Shift(y, d).mem = y.mem + d
  BY <1>3, ShiftTyped
<1>5. r.count \in Nat /\ r.over \in BOOLEAN /\ r.ret \in Int
  BY <1>1 DEF Manys
<1>6. ManyShifted(r, d) = Many(r.ret, Shift(y, d), r.count, r.over)
  BY DEF ManyShifted, y
<1>7. /\ ManyShifted(r, d) \in Manys /\ ManyShifted(r, d).ret = r.ret
      /\ ManyShifted(r, d).st = Shift(y, d)
      /\ ManyShifted(r, d).count = r.count /\ ManyShifted(r, d).over = r.over
  BY <1>4, <1>5, <1>6, ManyFields
<1> QED
  BY <1>1, <1>2, <1>4, <1>5, <1>7 DEF y

LEMMA ManyKeepsBuilt ==
  ASSUME Trees, NEW st \in Started, NEW x \in Below(st), NEW d \in Nat, NEW count \in Nat
  PROVE  /\ Many(Fail, x, count, TRUE) \in ManyFailed
         /\ x.mem \in Nat =>
              \A ret \in Nat : \A over \in BOOLEAN :
                ManyKeeps(Many(ret, x, count, over), Many(ret, Shift(x, d), count, over), st, d)
<1>1. x \in States
  BY BelowStates
<1>2. ASSUME x.mem \in Nat, NEW ret \in Nat, NEW over \in BOOLEAN
      PROVE  ManyKeeps(Many(ret, x, count, over), Many(ret, Shift(x, d), count, over), st, d)
  <2> DEFINE r == Many(ret, x, count, over)
  <2>1. r \in Manys /\ r.ret = ret /\ r.st = x /\ r.count = count /\ r.over = over
    BY <1>1, ManyFields
  <2> HIDE DEF r
  <2>2. r \in ManyAlive(st)
    BY <1>2, <2>1 DEF ManyAlive
  <2>3. Many(ret, Shift(x, d), count, over) = ManyShifted(r, d)
    BY <2>1 DEF ManyShifted
  <2> QED
    BY <2>2, <2>3 DEF ManyKeeps, r
<1>3. Many(Fail, x, count, TRUE) \in ManyFailed
  BY <1>1, ManyFields, FailInt DEF ManyFailed
<1> QED
  BY <1>2, <1>3

LEMMA ManyKeepsStep ==
  ASSUME Trees, GrammarOk, NEW P, NEW L, Sound(P, L), Natural(L), Steady(P),
         NEW node, node.kids[1] \in DOMAIN nodes, NEW st \in Started, NEW v \in Vectors, NEW d \in Nat,
         NEW r \in ManyAlive(st)
  PROVE  ManyKeeps(ManyChild(P, node, r, v), ManyChild(P, node, ManyShifted(r, d), v), st, d)
<1> DEFINE q == ManyShifted(r, d)
           k == node.kids[1]
<1>1. /\ r \in Manys /\ r.st \in Below(st) /\ r.st.mem \in Nat /\ r.ret \in Nat /\ r.st \in Started
      /\ r.count \in Nat /\ r.over \in BOOLEAN
      /\ q \in Manys /\ q.ret = r.ret /\ q.st = Shift(r.st, d) /\ q.count = r.count /\ q.over = r.over
      /\ Shift(r.st, d).mem = r.st.mem + d
  BY ManyAliveFields
<1> HIDE DEF q
<1>2. CASE r.over
  <2>1. ManyChild(P, node, r, v) = r /\ ManyChild(P, node, q, v) = q
    BY <1>1, <1>2 DEF ManyChild
  <2> QED
    BY <2>1 DEF ManyKeeps, q
<1>3. CASE ~r.over /\ r.st.mem = 0
  <2> DEFINE y == Alloc(r.st)
  <2>1. ManyChild(P, node, r, v) = [r EXCEPT !.ret = Fail, !.st = y, !.over = TRUE]
    BY <1>3 DEF ManyChild
  <2>2. y \in Below(st)
    BY <1>1, AllocTyped
  <2> HIDE DEF y
  <2>4. ManyChild(P, node, r, v) = Many(Fail, y, r.count, TRUE)
    BY ZenonT(40), <1>1, <2>1, <2>2, ManyForms, FailInt, BelowStates
  <2>3. ManyChild(P, node, r, v) \in ManyFailed
    BY <1>1, <2>2, <2>4, ManyKeepsBuilt
  <2> QED
    BY <2>3 DEF ManyKeeps
<1>4. CASE ~r.over /\ r.st.mem # 0
  <2> DEFINE x == Alloc(r.st)
             w == Rest(v, r.ret)
             c == ParseChild(P, k, x, w)
             e == ParseChild(P, k, Shift(x, d), w)
  <2>1. w \in Vectors
    BY <1>1, RestTyped
  <2>2. x \in Below(st) /\ x.mem \in Nat
    <3>1. x \in Below(st) /\ x.mem = r.st.mem - 1
      BY <1>1, AllocTyped
    <3> QED
      BY <1>1, <1>4, <3>1
  <2>3. Alloc(q.st) = Shift(x, d) /\ q.st.mem # 0
    BY <1>1, <1>4, ShiftAlloc
  <2>4. ManyChild(P, node, r, v) = ManyCalled(node, r, c) /\ ManyChild(P, node, q, v) = ManyCalled(node, q, e)
    BY <1>1, <1>4, <2>3 DEF ManyChild
  <2>5. c \in Results /\ c.st \in Below(st) /\ Keeps(c, e, st, d)
    BY <2>1, <2>2, ChildKeeps
  <2> HIDE DEF c, e
  <2>6. CASE c \in Failed
    <3>1. ManyCalled(node, r, c) = Many(Fail, c.st, r.count, TRUE)
      BY <1>1, <2>5, <2>6, ManyCases, ResultsFields DEF Failed
    <3>2. Many(Fail, c.st, r.count, TRUE) \in ManyFailed
      BY <1>1, <2>5, ManyKeepsBuilt
    <3> QED
      BY <2>4, <3>1, <3>2 DEF ManyKeeps
  <2>7. CASE c \notin Failed
    <3>1. c \in Alive(st) /\ e = Shifted(c, d)
      BY <2>5, <2>7 DEF Keeps
    <3>2. /\ c.st \in Below(st) /\ c.st.mem \in Nat /\ c.ret \in Nat /\ c.st \in Started
          /\ c.ret # Fail /\ e.ret = c.ret /\ e.st = Shift(c.st, d)
      BY <3>1, AliveFields
    <3>6. c.ret \in Int /\ c.st \in States /\ e.ret \in Int /\ e.st \in States
      BY <2>5, <3>1, AliveFields, ResultsFields
    <3>3. CASE c.ret = NoMatch
      <4>1. ManyCalled(node, r, c) = Many(r.ret, c.st, r.count, TRUE)
            /\ ManyCalled(node, q, e) = Many(r.ret, Shift(c.st, d), r.count, TRUE)
        BY <1>1, <3>2, <3>3, <3>6, ManyCases
      <4> QED
        BY <1>1, <2>4, <3>2, <4>1, ManyKeepsBuilt DEF q
    <3>4. CASE c.ret = 0 /\ node.max = 0
      <4> DEFINE y == DelLastChild(c.st)
      <4>1. ManyCalled(node, r, c) = Many(r.ret, y, r.count, TRUE)
            /\ ManyCalled(node, q, e) = Many(r.ret, Shift(y, d), r.count, TRUE)
        <5>1. DelLastChild(e.st) = Shift(y, d)
          BY <3>2, ShiftTree
        <5>2. y \in States /\ e.st \in Started
          <6>1. y \in States
            BY <3>2, DelTyped, BelowStates
          <6>2. e.st \in Started
            BY <3>2, <3>6, ShiftTyped
          <6> QED
            BY <6>1, <6>2
        <5>3. DelLastChild(e.st) \in States
          BY <5>2, BelowSelf, DelTyped, BelowStates
        <5> QED
          BY ZenonT(40), <1>1, <3>2, <3>4, <3>6, <5>1, <5>2, <5>3, ManyCases
      <4>2. y \in Below(st) /\ y.mem = c.st.mem
        BY <3>2, DelTyped
      <4> HIDE DEF y
      <4> QED
        BY <1>1, <2>4, <3>2, <4>1, <4>2, ManyKeepsBuilt DEF q
    <3>5. CASE c.ret # NoMatch /\ ~(c.ret = 0 /\ node.max = 0)
      <4> DEFINE ret == r.ret + c.ret
                 count == r.count + 1
      <4>1. ManyCalled(node, r, c) = Many(ret, c.st, count, r.over)
            /\ ManyCalled(node, q, e) = Many(ret, Shift(c.st, d), count, r.over)
        BY ZenonT(40), <1>1, <3>2, <3>5, <3>6, ManyCases
      <4>2. ret \in Nat /\ count \in Nat
        BY <1>1, <3>2
      <4> HIDE DEF ret, count
      <4> QED
        BY ZenonT(40), <1>1, <2>4, <3>2, <4>1, <4>2, ManyKeepsBuilt DEF q
    <3> QED
      BY <3>3, <3>4, <3>5
  <2> QED
    BY <2>6, <2>7
<1> QED
  BY <1>2, <1>3, <1>4

LEMMA ManySteady ==
  ASSUME Trees, GrammarOk, NEW P, NEW L, Sound(P, L), Natural(L), Steady(P),
         NEW node, node.kids[1] \in DOMAIN nodes, node.max \in Nat, NEW st \in Started, st.mem \in Nat,
         NEW v \in Vectors, NEW d \in Nat
  PROVE  Agrees(ManyParse(P, node, st, v), ManyParse(P, node, Shift(st, d), v), d)
<1> DEFINE m == Rounds(node, v)
           step == [i \in 1..m |-> [r \in Manys |-> ManyChild(P, node, r, v)]]
           first == Many(0, st, 0, FALSE)
           other == Many(0, Shift(st, d), 0, FALSE)
           shift == [r \in ManyAlive(st) |-> ManyShifted(r, d)]
           X == ManyAlive(st)
           F == ManyFailed
           a == Loop(step, first, m)
           b == Loop(step, other, m)
<1>0. m \in Nat
  BY VectorLen DEF Rounds
<1>1. first \in X /\ shift[first] = other
  <2>1. st \in Below(st)
    BY BelowSelf
  <2>2. ManyKeeps(first, other, st, d)
    BY <2>1, ManyKeepsBuilt
  <2>3. first.ret = 0 /\ 0 # Fail
    BY DEF Many, Fail
  <2> HIDE DEF first, other
  <2> QED
    BY <2>2, <2>3 DEF ManyKeeps, ManyFailed
<1>2. Corresponds(step, m, X, F, shift)
  <2>1. ASSUME NEW i \in 1..m, NEW r \in X
        PROVE  step[i][r] \in F \/ (step[i][r] \in X /\ step[i][shift[r]] = shift[step[i][r]])
    <3>1. r \in Manys /\ ManyShifted(r, d) \in Manys /\ shift[r] = ManyShifted(r, d)
      BY ManyAliveFields
    <3>2. step[i][r] = ManyChild(P, node, r, v) /\ step[i][shift[r]] = ManyChild(P, node, ManyShifted(r, d), v)
      BY <3>1
    <3>3. ManyKeeps(ManyChild(P, node, r, v), ManyChild(P, node, ManyShifted(r, d), v), st, d)
      BY ManyKeepsStep
    <3> HIDE DEF step
    <3> QED
      BY <3>2, <3>3 DEF ManyKeeps
  <2>2. ASSUME NEW i \in 1..m, NEW r \in F PROVE step[i][r] \in F
    BY DEF ManyFailed, ManyChild
  <2> HIDE DEF step, shift, X, F
  <2> QED
    BY <2>1, <2>2 DEF Corresponds
<1>3. /\ ManyParse(P, node, st, v) = IF a.ret = Fail THEN Fails(a.st) ELSE ManyEnd(node, a)
      /\ ManyParse(P, node, Shift(st, d), v) = IF b.ret = Fail THEN Fails(b.st) ELSE ManyEnd(node, b)
  BY DEF ManyParse, Many
<1>4. ManyKeeps(a, b, st, d)
  <2> HIDE DEF step, m, first, other
  <2>1. a \in F \/ (a \in X /\ Loop(step, shift[first], m) = shift[a])
    <3> HIDE DEF shift, X, F
    <3> QED
      BY <1>0, <1>1, <1>2, LoopAgrees
  <2>2. a \in F \/ (a \in X /\ b = shift[a])
    BY <1>1, <2>1
  <2> HIDE DEF a, b
  <2> QED
    BY <2>2 DEF ManyKeeps
<1> HIDE DEF a, b
<1>5. CASE a \in ManyFailed
  <2>1. ManyParse(P, node, st, v) = Result(Fail, a.st)
    BY <1>3, <1>5 DEF ManyFailed, Fails
  <2> QED
    BY <2>1, ResultFields DEF Agrees
<1>6. CASE a \notin ManyFailed
  <2>1. a \in ManyAlive(st) /\ b = ManyShifted(a, d)
    BY <1>4, <1>6 DEF ManyKeeps
  <2>2. /\ a.st \in Below(st) /\ a.st.mem \in Nat /\ a.ret \in Nat /\ a.ret # Fail /\ a.st \in Started
        /\ a.count \in Nat /\ b.ret = a.ret /\ b.st = Shift(a.st, d) /\ b.count = a.count
    BY <2>1, ManyAliveFields
  <2>3. CASE a.count < node.min
    <3> DEFINE y == FreeChildren(a.st)
    <3>1. ManyParse(P, node, st, v) = Result(NoMatch, y) /\ ManyParse(P, node, Shift(st, d), v) = Result(NoMatch, Shift(y, d))
      BY <1>3, <2>2, <2>3, ShiftTree DEF ManyEnd
    <3>2. y \in States /\ y.mem \in Nat /\ NoMatch \in Int
      BY <2>2, FreeTyped, BelowStates DEF NoMatch
    <3> HIDE DEF y
    <3> QED
      BY <3>1, <3>2, AgreesBuilt
  <2>4. CASE ~(a.count < node.min)
    <3>1. ManyParse(P, node, st, v) = Result(a.ret, a.st)
          /\ ManyParse(P, node, Shift(st, d), v) = Result(a.ret, Shift(a.st, d))
      BY <1>3, <2>2, <2>4 DEF ManyEnd
    <3>2. a.st \in States /\ a.ret \in Int
      BY <2>2, BelowStates
    <3> QED
      BY <2>2, <3>1, <3>2, AgreesBuilt
  <2> QED
    BY <2>3, <2>4
<1> QED
  BY <1>5, <1>6

\* ec_node_subset_parse()
SubsetShifted(r, d) == SubsetFound(Shift(r.st, d), r.best)
SubsetKeeps(r, q, d) == r.fails \/ (r.st.mem \in Nat /\ q = SubsetShifted(r, d))
SubsetsSteady(T) ==
  \A table : Existing(table) => \A x \in Started : \A v \in Vectors : \A d \in Nat :
    x.mem \in Nat => SubsetKeeps(T[table][x][v], T[table][Shift(x, d)][v], d)

LEMMA SubsetBuilt ==
  ASSUME NEW st \in States, NEW best \in Bests, NEW d \in Nat
  PROVE  /\ SubsetFails(st).fails
         /\ st.mem \in Nat => SubsetKeeps(SubsetFound(st, best), SubsetFound(Shift(st, d), best), d)
<1>1. SubsetFails(st).fails
  BY DEF SubsetFails
<1> DEFINE r == SubsetFound(st, best)
<1>2. r.st = st /\ r.best = best
  BY FoundTyped
<1> HIDE DEF r
<1>3. SubsetShifted(r, d) = SubsetFound(Shift(st, d), best)
  BY <1>2 DEF SubsetShifted
<1>4. st.mem \in Nat => SubsetKeeps(r, SubsetFound(Shift(st, d), best), d)
  BY <1>2, <1>3 DEF SubsetKeeps
<1> QED
  BY <1>1, <1>4 DEF r

LEMMA SubsetFields ==
  ASSUME Trees, NEW x \in Started, NEW lists, NEW v, NEW r \in SubsetIn(x, lists, v), NEW d \in Nat
  PROVE  /\ r \in SubsetResults /\ r.st \in Below(x) /\ r.st \in Started /\ r.st \in States
         /\ r.best \in Bests /\ r.best.pnodes \in Seq(Pnodes)
         /\ r.best.ret \in Int /\ r.best.nodes \in Nat
         /\ SubsetShifted(r, d) \in SubsetResults /\ ~SubsetShifted(r, d).fails
         /\ SubsetShifted(r, d).st = Shift(r.st, d) /\ SubsetShifted(r, d).best = r.best
<1>1. r \in SubsetResults /\ r.st \in Below(x)
  BY DEF SubsetIn
<1>2. r.best \in Bests
  BY <1>1 DEF SubsetResults
<1>3. r.best.pnodes \in Seq(Pnodes) /\ r.best.ret \in Int /\ r.best.nodes \in Nat
  BY <1>2 DEF Bests
<1> DEFINE y == r.st
           z == Shift(y, d)
<1>4. y \in Started /\ y \in States
  BY <1>1, BelowStarted, BelowStates
<1> HIDE DEF y
<1>5. z \in States
  BY <1>4, ShiftTyped
<1>6. SubsetShifted(r, d) = SubsetFound(z, r.best)
  BY DEF SubsetShifted, y
<1> HIDE DEF z
<1>7. /\ SubsetShifted(r, d) \in SubsetResults /\ ~SubsetShifted(r, d).fails
      /\ SubsetShifted(r, d).st = z /\ SubsetShifted(r, d).best = r.best
  BY <1>2, <1>5, <1>6, FoundTyped
<1> QED
  BY <1>1, <1>2, <1>3, <1>4, <1>7 DEF y, z

LEMMA SubsetTriedSteady ==
  ASSUME Trees, NEW r, r.best \in Bests, NEW q, q.best = r.best,
         NEW c, c.ret \in Nat, NEW e, e.ret = c.ret,
         NEW y \in Started, NEW lists, NEW v, NEW sub \in SubsetIn(y, lists, v),
         NEW d \in Nat, NEW other, SubsetKeeps(sub, other, d),
         ~sub.fails => Pstate(sub.st).kids # <<>>
  PROVE  SubsetKeeps(SubsetTried(r, c, sub), SubsetTried(q, e, other), d)
<1>1. CASE sub.fails
  <2>1. SubsetTried(r, c, sub) = sub
    BY <1>1 DEF SubsetTried
  <2> QED
    BY <1>1, <2>1 DEF SubsetKeeps
<1>2. CASE ~sub.fails
  <2> DEFINE pnode == SE!Last(Pstate(sub.st).kids)
             ret == c.ret + sub.best.ret
             count == sub.best.nodes + 1
             found == [ret |-> ret, nodes |-> count, pnodes |-> <<pnode>>]
             best == IF Better(found, r.best) THEN found ELSE r.best
             z == DelLastChild(sub.st)
  <2>1. /\ sub.st \in Below(y) /\ sub.st \in Started /\ sub.st \in States
        /\ sub.best.ret \in Int /\ sub.best.nodes \in Nat
        /\ SubsetShifted(sub, d).st = Shift(sub.st, d) /\ SubsetShifted(sub, d).best = sub.best
        /\ ~SubsetShifted(sub, d).fails
    BY SubsetFields
  <2>2. sub.st.mem \in Nat /\ other = SubsetShifted(sub, d)
    BY <1>2 DEF SubsetKeeps
  <2>3. Pstate(Shift(sub.st, d)) = Pstate(sub.st) /\ DelLastChild(Shift(sub.st, d)) = Shift(z, d)
    BY <2>1, ShiftTyped, ShiftTree
  <2>4. z \in States /\ z.mem \in Nat
    BY <2>1, <2>2, DelTyped, BelowStates
  <2>5. best \in Bests
    <3>1. Pstate(sub.st).kids \in Seq(Pnodes)
      BY <2>1, PstateTyped
    <3>2. pnode \in Pnodes
      BY <1>2, <3>1 DEF SE!Last
    <3>3. ret \in Int /\ count \in Nat
      BY <2>1
    <3> HIDE DEF pnode, ret, count
    <3>4. <<pnode>> \in Seq(Pnodes)
      BY <3>2
    <3>5. found \in Bests
      BY <3>3, <3>4 DEF Bests
    <3> HIDE DEF found
    <3> QED
      BY <3>5
  <2>6. SubsetTried(r, c, sub) = SubsetFound(z, best)
    BY <1>2 DEF SubsetTried
  <2>7. SubsetTried(q, e, other) = SubsetFound(Shift(z, d), best)
    BY <2>1, <2>2, <2>3 DEF SubsetTried
  <2> HIDE DEF z, best
  <2> QED
    BY <2>4, <2>5, <2>6, <2>7, SubsetBuilt
<1> QED
  BY <1>1, <1>2

LEMMA WithState ==
  ASSUME NEW r \in SubsetResults, ~r.fails, NEW st \in States
  PROVE  [r EXCEPT !.st = st] = SubsetFound(st, r.best)
<1> DEFINE x == [r EXCEPT !.st = st]
           y == SubsetFound(st, r.best)
<1>1. r.best \in Bests
  BY DEF SubsetResults
<1>2. x \in SubsetResults /\ x.st = st /\ x.best = r.best /\ ~x.fails
  BY DEF SubsetResults
<1>3. y \in SubsetResults /\ y.st = st /\ y.best = r.best /\ ~y.fails
  BY <1>1, FoundTyped
<1> HIDE DEF x, y
<1>4. x = y
  BY <1>2, <1>3 DEF SubsetResults
<1> QED
  BY <1>4 DEF x, y

LEMMA SubsetChildSteady ==
  ASSUME Trees, GrammarOk, NEW P, NEW L, Sound(P, L), Natural(L), Steady(P),
         NEW T, NEW Ls, SubsetsSound(T, Ls), SubsetsSteady(T),
         NEW table, Existing(table), NEW i \in DOMAIN table, NEW x \in Started, NEW v \in Vectors,
         NEW lists, NEW r \in SubsetIn(x, lists, v), ~r.fails, r.st.mem \in Nat, NEW d \in Nat
  PROVE  SubsetKeeps(SubsetChild(P, T, table, i, r, v),
                     SubsetChild(P, T, table, i, SubsetShifted(r, d), v), d)
<1> DEFINE q == SubsetShifted(r, d)
           c == ParseChild(P, table[i], r.st, v)
           e == ParseChild(P, table[i], Shift(r.st, d), v)
           others == SE!RemoveAt(table, i)
<1>0. table[i] \in DOMAIN nodes /\ Existing(others)
  BY RemoveExisting DEF Existing
<1>1. /\ r.st \in Below(x) /\ r.st \in Started /\ r.best \in Bests
      /\ ~q.fails /\ q.st = Shift(r.st, d) /\ q.best = r.best
  BY SubsetFields
<1>2. c \in Results /\ c.st \in Below(x) /\ Keeps(c, e, x, d)
  BY <1>0, <1>1, ChildKeeps
<1>3. c.ret \notin {Fail, NoMatch} => \E p \in Pnodes : Pstate(c.st).kids = Append(Pstate(r.st).kids, p)
  BY <1>0, <1>1, ChildLinks
<1>4. SubsetChild(P, T, table, i, r, v) = SubsetCalled(T, table, i, r, c, v)
  BY DEF SubsetChild
<1>5. SubsetChild(P, T, table, i, q, v) = SubsetCalled(T, table, i, q, e, v)
  <2> HIDE DEF q
  <2> QED
    BY <1>1 DEF SubsetChild
<1>6. c.st \in States /\ Alloc(c.st) \in Below(x) /\ Alloc(c.st).mem = c.st.mem - 1 /\ Alloc(c.st) \in States
      /\ Alloc(c.st).spine = c.st.spine
  BY <1>2, AllocTyped, BelowStates
<1> HIDE DEF q, c, e, others
<1>7. CASE c \in Failed
  <2>1. SubsetCalled(T, table, i, r, c, v) = SubsetFails(c.st)
    BY <1>7 DEF SubsetCalled, Failed, Fail, NoMatch
  <2> QED
    BY <1>1, <1>4, <1>6, <2>1, SubsetBuilt DEF SubsetKeeps
<1>8. CASE c \notin Failed
  <2>1. c \in Alive(x) /\ e = Shifted(c, d)
    BY <1>2, <1>8 DEF Keeps
  <2>2. /\ c.st \in Below(x) /\ c.st.mem \in Nat /\ c.ret \in Nat /\ c.st \in Started
        /\ c.ret # Fail /\ e.ret = c.ret /\ e.st = Shift(c.st, d) /\ e.st.mem = c.st.mem + d
    BY <2>1, AliveFields
  <2>3. CASE c.ret = NoMatch
    <3>1. SubsetCalled(T, table, i, r, c, v) = SubsetFound(c.st, r.best)
          /\ SubsetCalled(T, table, i, q, e, v) = SubsetFound(Shift(c.st, d), r.best)
      BY <1>1, <2>2, <2>3 DEF SubsetCalled
    <3> QED
      BY <1>1, <1>4, <1>5, <1>6, <2>2, <3>1, SubsetBuilt DEF q
  <2>4. CASE c.ret # NoMatch /\ c.st.mem = 0
    <3>1. SubsetCalled(T, table, i, r, c, v) = SubsetFails(Alloc(c.st))
      BY <2>2, <2>4 DEF SubsetCalled
    <3> QED
      BY <1>1, <1>4, <1>6, <3>1, SubsetBuilt DEF SubsetKeeps
  <2>5. CASE c.ret # NoMatch /\ c.st.mem # 0
    <3> DEFINE y == Alloc(c.st)
               w == Rest(v, c.ret)
               sub == T[others][y][w]
               other == T[others][Shift(y, d)][w]
    <3>1. w \in Vectors
      BY <2>2, RestTyped
    <3>2. y \in Started /\ y.mem \in Nat /\ Pstate(y) = Pstate(c.st)
      <4>1. y \in Started
        BY <1>6, BelowStarted
      <4>2. y.mem \in Nat
        BY <1>6, <2>2, <2>5
      <4> QED
        BY <1>6, <4>1, <4>2, SameSpine
    <3>3. Alloc(e.st) = Shift(y, d) /\ e.st.mem # 0
      BY <2>2, <2>5, ShiftAlloc
    <3>4. SubsetCalled(T, table, i, r, c, v) = SubsetTried(r, c, sub)
      BY <2>2, <2>5 DEF SubsetCalled, others
    <3>5. SubsetCalled(T, table, i, q, e, v) = SubsetTried(q, e, other)
      BY <2>2, <2>5, <3>3 DEF SubsetCalled, others
    <3>6. sub \in SubsetIn(y, Ls[others][w], w)
      BY <1>0, <3>1, <3>2 DEF SubsetsSound
    <3>7. SubsetKeeps(sub, other, d)
      BY <1>0, <3>1, <3>2 DEF SubsetsSteady
    <3> HIDE DEF y, w, sub, other
    <3>8. ~sub.fails => Pstate(sub.st).kids # <<>>
      <4> SUFFICES ASSUME ~sub.fails PROVE Pstate(sub.st).kids # <<>>
        OBVIOUS
      <4>1. PICK p \in Pnodes : Pstate(y).kids = Append(Pstate(r.st).kids, p)
        BY <1>3, <2>2, <2>5, <3>2
      <4>2. Pstate(r.st).kids \in Seq(Pnodes)
        BY <1>1, PstateTyped
      <4>3. Len(Append(Pstate(r.st).kids, p)) = Len(Pstate(r.st).kids) + 1 /\ Len(Pstate(r.st).kids) \in Nat
        BY <4>2
      <4>4. Len(Pstate(y).kids) <= Len(Pstate(sub.st).kids)
        BY <3>6 DEF SubsetIn
      <4>5. Len(<<>>) = 0
        OBVIOUS
      <4> QED
        BY <4>1, <4>3, <4>4, <4>5
    <3>9. SubsetKeeps(SubsetTried(r, c, sub), SubsetTried(q, e, other), d)
      BY <1>1, <2>2, <3>2, <3>6, <3>7, <3>8, SubsetTriedSteady
    <3> QED
      BY <1>4, <1>5, <3>4, <3>5, <3>9 DEF q
  <2> QED
    BY <2>3, <2>4, <2>5
<1> QED
  BY <1>7, <1>8

LEMMA SubsetEndSteady ==
  ASSUME Trees, NEW x \in Started, NEW lists, NEW v, NEW r \in SubsetIn(x, lists, v), NEW d \in Nat,
         NEW q, SubsetKeeps(r, q, d)
  PROVE  SubsetKeeps(SubsetEnd(r), SubsetEnd(q), d)
<1>1. CASE r.fails
  BY <1>1 DEF SubsetEnd, SubsetKeeps
<1>2. CASE ~r.fails
  <2>1. /\ r.st \in Started /\ r.st \in States /\ r.best \in Bests /\ r.best.pnodes \in Seq(Pnodes)
        /\ r \in SubsetResults
        /\ ~SubsetShifted(r, d).fails /\ SubsetShifted(r, d).st = Shift(r.st, d)
        /\ SubsetShifted(r, d).best = r.best /\ SubsetShifted(r, d) \in SubsetResults
    BY SubsetFields
  <2>2. r.st.mem \in Nat /\ q = SubsetShifted(r, d)
    BY <1>2 DEF SubsetKeeps
  <2> DEFINE kids == Pstate(r.st).kids \o r.best.pnodes
             y == OnPstate(r.st, kids)
  <2>3. kids \in Seq(Pnodes)
    <3> DEFINE a == Pstate(r.st).kids
               b == r.best.pnodes
    <3>1. a \in Seq(Pnodes) /\ b \in Seq(Pnodes)
      BY <2>1, PstateTyped
    <3> HIDE DEF a, b
    <3>2. a \o b \in Seq(Pnodes)
      BY <3>1, ConcatProperties
    <3> QED
      BY <3>2 DEF a, b
  <2>4. Pstate(Shift(r.st, d)) = Pstate(r.st)
    BY <2>1, ShiftTyped
  <2>5. SubsetEnd(r) = [r EXCEPT !.st = y]
    BY <1>2 DEF SubsetEnd
  <2>6. SubsetEnd(q) = [q EXCEPT !.st = OnPstate(Shift(r.st, d), kids)]
    BY <2>1, <2>2, <2>4 DEF SubsetEnd
  <2> HIDE DEF kids
  <2>7. OnPstate(Shift(r.st, d), kids) = Shift(y, d)
    BY <2>1, <2>3, ShiftOn
  <2>8. y \in States /\ y.mem = r.st.mem
    BY <2>1, <2>3, OnTyped, BelowStates
  <2> HIDE DEF y
  <2>9. Shift(y, d) \in States
    BY <2>8, ShiftTyped
  <2>10. [r EXCEPT !.st = y] = SubsetFound(y, r.best)
    BY <1>2, <2>1, <2>8, WithState
  <2>11. [q EXCEPT !.st = Shift(y, d)] = SubsetFound(Shift(y, d), r.best)
    BY <2>1, <2>2, <2>9, WithState
  <2> QED
    BY <2>1, <2>2, <2>5, <2>6, <2>7, <2>8, <2>10, <2>11, SubsetBuilt
<1> QED
  BY <1>1, <1>2

LEMMA SubsetLoopSteady ==
  ASSUME Trees, GrammarOk, NEW P, NEW L, Sound(P, L), Natural(L), Steady(P),
         NEW T, NEW Ls, SubsetsSound(T, Ls), SubsetsSteady(T),
         NEW table, Existing(table), NEW x \in Started, x.mem \in Nat, NEW v \in Vectors, NEW d \in Nat
  PROVE  SubsetKeeps(SubsetLoop(P, T, table, x, v), SubsetLoop(P, T, table, Shift(x, d), v), d)
<1> DEFINE lists == MoreLists(L, Ls)[table][v]
           in == SubsetIn(x, lists, v)
           m == Len(table)
           step == [i \in DOMAIN table |-> [r \in SubsetResults |-> SubsetChild(P, T, table, i, r, v)]]
           first == SubsetFound(x, NoBest)
           other == SubsetFound(Shift(x, d), NoBest)
           X == {r \in in : ~r.fails /\ r.st.mem \in Nat}
           F == {r \in in : r.fails}
           shift == [r \in X |-> SubsetShifted(r, d)]
           a == Loop(step, first, m)
           b == Loop(step, other, m)
<1>0. m \in Nat /\ DOMAIN table = 1..m
  BY DEF Existing
<1>1. first \in X /\ shift[first] = other
  <2>1. x \in States /\ x \in Below(x) /\ Len(Pstate(x).kids) \in Nat /\ Len(v) \in Nat
    BY BelowSelf, BelowStates, DelKids, VectorLen
  <2>2. first \in SubsetResults /\ first.st = x /\ ~first.fails /\ first.best = NoBest
    BY <2>1, NoBestTyped, FoundTyped
  <2>3. SubsetShifted(first, d) = other
    BY <2>2 DEF SubsetShifted
  <2>4. <<0, 0>> \in lists
    BY DEF MoreLists, Existing
  <2> HIDE DEF first, lists, other
  <2>5. <<first.best.nodes, first.best.ret>> \in lists /\ first.best.ret \in 0..Len(v)
    BY <2>1, <2>2, <2>4, NoBestTyped
  <2>6. first \in in
    BY <2>1, <2>2, <2>5 DEF SubsetIn
  <2> QED
    BY <2>2, <2>3, <2>6
<1>2. Corresponds(step, m, X, F, shift)
  <2>1. ASSUME NEW i \in 1..m, NEW r \in in
        PROVE  step[i][r] = SubsetChild(P, T, table, i, r, v) /\ step[i][r] \in in
    <3>1. i \in DOMAIN table /\ r \in SubsetResults
      BY <1>0 DEF SubsetIn
    <3>2. SubsetChild(P, T, table, i, r, v) \in in
      BY <3>1, SubsetRoundSound
    <3>3. step[i][r] = SubsetChild(P, T, table, i, r, v)
      BY <3>1
    <3> HIDE DEF step, in
    <3> QED
      BY <3>2, <3>3
  <2>2. ASSUME NEW i \in 1..m, NEW r \in X
        PROVE  step[i][r] \in F \/ (step[i][r] \in X /\ step[i][shift[r]] = shift[step[i][r]])
    <3>1. i \in DOMAIN table /\ r \in in /\ ~r.fails /\ r.st.mem \in Nat
      BY <1>0
    <3>2. SubsetShifted(r, d) \in SubsetResults /\ shift[r] = SubsetShifted(r, d)
      BY <3>1, SubsetFields
    <3>3. step[i][shift[r]] = SubsetChild(P, T, table, i, SubsetShifted(r, d), v)
      BY <3>1, <3>2
    <3>4. SubsetKeeps(SubsetChild(P, T, table, i, r, v), SubsetChild(P, T, table, i, SubsetShifted(r, d), v), d)
      BY <3>1, SubsetChildSteady
    <3> DEFINE s == step[i][r]
    <3>5. s \in in /\ SubsetKeeps(s, step[i][shift[r]], d)
      <4>1. s = SubsetChild(P, T, table, i, r, v) /\ s \in in
        BY <2>1, <3>1
      <4> HIDE DEF step, s, in
      <4> QED
        BY <3>3, <3>4, <4>1
    <3> HIDE DEF step, s, in
    <3>6. s \in F \/ (s \in X /\ step[i][shift[r]] = shift[s])
      BY <3>5 DEF SubsetKeeps
    <3> QED
      BY <3>6 DEF s
  <2>3. ASSUME NEW i \in 1..m, NEW r \in F PROVE step[i][r] \in F
    <3>1. r \in in /\ r.fails
      OBVIOUS
    <3>2. SubsetChild(P, T, table, i, r, v) = r
      BY <3>1 DEF SubsetChild
    <3>3. step[i][r] = r
      BY <2>1, <3>1, <3>2
    <3> HIDE DEF step
    <3> QED
      BY <3>3
  <2> HIDE DEF step, shift, X, F
  <2> QED
    BY <2>2, <2>3 DEF Corresponds
<1>3. SubsetLoop(P, T, table, x, v) = SubsetEnd(a) /\ SubsetLoop(P, T, table, Shift(x, d), v) = SubsetEnd(b)
  BY DEF SubsetLoop
<1>4. a \in in /\ SubsetKeeps(a, b, d)
  <2> HIDE DEF step, m, first, other
  <2>1. a \in F \/ (a \in X /\ Loop(step, shift[first], m) = shift[a])
    <3> HIDE DEF shift, X, F
    <3> QED
      BY <1>0, <1>1, <1>2, LoopAgrees
  <2>2. a \in F \/ (a \in X /\ b = shift[a])
    <3> HIDE DEF shift, X, F
    <3> QED
      BY <1>1, <2>1
  <2> HIDE DEF a, b, in
  <2> QED
    BY <2>2 DEF SubsetKeeps
<1> HIDE DEF a, b
<1>5. SubsetKeeps(SubsetEnd(a), SubsetEnd(b), d)
  BY <1>4, SubsetEndSteady
<1> QED
  BY <1>3, <1>5

LEMMA SubsetTablesSteady ==
  ASSUME Trees, GrammarOk, NEW P, NEW L, Sound(P, L), Natural(L), Steady(P),
         NEW T, NEW Ls, SubsetsSound(T, Ls), SubsetsSteady(T)
  PROVE  SubsetsSteady(SubsetTables(P, T))
<1> SUFFICES ASSUME NEW table, Existing(table), NEW x \in Started, NEW v \in Vectors, NEW d \in Nat,
                    x.mem \in Nat
             PROVE  SubsetKeeps(SubsetTables(P, T)[table][x][v], SubsetTables(P, T)[table][Shift(x, d)][v], d)
  BY DEF SubsetsSteady
<1> DEFINE q == SubsetTables(P, T)[table][x][v]
           s == SubsetTables(P, T)[table][Shift(x, d)][v]
<1>1. table \in Seq(Nat) /\ x \in States /\ Shift(x, d) \in States /\ Shift(x, d).mem = x.mem + d
  BY ShiftTyped DEF Existing, Started
<1>2. q = IF x.mem = 0 THEN SubsetFails(Alloc(x)) ELSE SubsetLoop(P, T, table, Alloc(x), v)
  BY <1>1 DEF SubsetTables
<1>3. s = IF Shift(x, d).mem = 0 THEN SubsetFails(Alloc(Shift(x, d)))
          ELSE SubsetLoop(P, T, table, Alloc(Shift(x, d)), v)
  BY <1>1 DEF SubsetTables
<1> HIDE DEF q, s
<1>4. CASE x.mem = 0
  <2>1. q.fails
    BY <1>2, <1>4 DEF SubsetFails
  <2> QED
    BY <2>1 DEF SubsetKeeps, q
<1>5. CASE x.mem # 0
  <2>1. Alloc(x) \in Started /\ Alloc(x).mem \in Nat
    <3>1. Alloc(x) \in Below(x) /\ Alloc(x).mem = x.mem - 1
      BY BelowSelf, AllocTyped
    <3> QED
      BY <1>5, <3>1, BelowStarted
  <2>2. Alloc(Shift(x, d)) = Shift(Alloc(x), d) /\ Shift(x, d).mem # 0
    BY <1>1, <1>5, ShiftAlloc
  <2>3. SubsetKeeps(SubsetLoop(P, T, table, Alloc(x), v), SubsetLoop(P, T, table, Shift(Alloc(x), d), v), d)
    BY <2>1, SubsetLoopSteady
  <2> QED
    BY <1>2, <1>3, <1>5, <2>2, <2>3 DEF q, s
<1> QED
  BY <1>4, <1>5

LEMMA SubsetSteady ==
  ASSUME Trees, GrammarOk, NEW P, NEW L, Sound(P, L), Natural(L), Steady(P),
         NEW node, Existing(node.kids), NEW st \in Started, st.mem \in Nat, NEW v \in Vectors, NEW d \in Nat
  PROVE  Agrees(SubsetParse(P, node, st, v), SubsetParse(P, node, Shift(st, d), v), d)
<1> DEFINE kids == node.kids
           n == Len(kids)
           Ls == CHOOSE to : to = [h \in 0..n |-> IF h = 0 THEN NoLists ELSE MoreLists(L, to[h - 1])]
           T == CHOOSE to : to = [h \in 0..n |-> IF h = 0 THEN NoTable ELSE SubsetTables(P, to[h - 1])]
           r == T[n][kids][st][v]
           q == T[n][kids][Shift(st, d)][v]
<1>0. n \in Nat
  BY DEF Existing
<1>1. SubsetTable(P, kids, st, v) = r /\ SubsetTable(P, kids, Shift(st, d), v) = q
  BY DEF SubsetTable
<1> HIDE DEF n
<1>2. Ls = [h \in 0..n |-> IF h = 0 THEN NoLists ELSE MoreLists(L, Ls[h - 1])]
  BY <1>0, ListsExist DEF ListsGo
<1>3. T = [h \in 0..n |-> IF h = 0 THEN NoTable ELSE SubsetTables(P, T[h - 1])]
  BY <1>0, TablesExist DEF TablesGo
<1> HIDE DEF Ls, T
<1> DEFINE S == {h \in 0..n : SubsetsSound(T[h], Ls[h]) /\ SubsetsSteady(T[h])}
<1>4. 0 \in S
  <2>1. Ls[0] = NoLists /\ T[0] = NoTable
    BY <1>0, <1>2, <1>3
  <2>2. SubsetsSteady(NoTable)
    <3> SUFFICES ASSUME NEW table, Existing(table), NEW x \in Started, NEW w \in Vectors, NEW k \in Nat,
                        x.mem \in Nat
                 PROVE  SubsetKeeps(NoTable[table][x][w], NoTable[table][Shift(x, k)][w], k)
      BY DEF SubsetsSteady
    <3>1. table \in Seq(Nat) /\ x \in States /\ Shift(x, k) \in States
      BY ShiftTyped DEF Existing, Started
    <3>2. NoTable[table][x][w] = SubsetFound(x, NoBest)
          /\ NoTable[table][Shift(x, k)][w] = SubsetFound(Shift(x, k), NoBest)
      BY <3>1 DEF NoTable
    <3> QED
      BY <3>1, <3>2, SubsetBuilt, NoBestTyped
  <2> QED
    BY <1>0, <2>1, <2>2, NoTableSound
<1>5. ASSUME NEW h \in 0..(n - 1), h \in S PROVE h + 1 \in S
  <2>1. h + 1 \in 0..n /\ h + 1 # 0 /\ (h + 1) - 1 = h
    BY <1>0
  <2>2. Ls[h + 1] = MoreLists(L, Ls[h]) /\ T[h + 1] = SubsetTables(P, T[h])
    BY <1>2, <1>3, <2>1
  <2>3. SubsetsSound(T[h], Ls[h]) /\ SubsetsSteady(T[h])
    BY <1>5
  <2>4. SubsetsSound(T[h + 1], Ls[h + 1])
    BY <2>2, <2>3, SubsetStep
  <2>5. SubsetsSteady(T[h + 1])
    BY <2>2, <2>3, SubsetTablesSteady
  <2> QED
    BY <2>1, <2>4, <2>5
<1> HIDE DEF S
<1>6. n \in S
  BY SMTT(30), <1>0, <1>4, <1>5, Induction
<1>7. SubsetsSound(T[n], Ls[n]) /\ SubsetsSteady(T[n])
  BY <1>6 DEF S
<1>8. r \in SubsetIn(st, Ls[n][kids][v], v) /\ SubsetKeeps(r, q, d)
  BY <1>7 DEF SubsetsSound, SubsetsSteady
<1>9. SubsetParse(P, node, st, v) = SubsetResult(node, r)
      /\ SubsetParse(P, node, Shift(st, d), v) = SubsetResult(node, q)
  BY <1>1 DEF SubsetParse
<1> HIDE DEF r, q
<1>10. CASE r.fails
  <2>1. SubsetResult(node, r) = Result(Fail, r.st)
    BY <1>10 DEF SubsetResult, Fails
  <2> QED
    BY <1>9, <2>1, ResultFields DEF Agrees
<1>11. CASE ~r.fails
  <2>1. /\ r.st \in States /\ r.best.ret \in Int /\ r.best.nodes \in Nat
        /\ ~SubsetShifted(r, d).fails /\ SubsetShifted(r, d).st = Shift(r.st, d)
        /\ SubsetShifted(r, d).best = r.best
    BY <1>8, SubsetFields
  <2>2. r.st.mem \in Nat /\ q = SubsetShifted(r, d)
    BY <1>8, <1>11 DEF SubsetKeeps
  <2>3. CASE r.best.nodes < node.min
    <3>1. SubsetResult(node, r) = Result(NoMatch, r.st) /\ SubsetResult(node, q) = Result(NoMatch, Shift(r.st, d))
      BY <1>11, <2>1, <2>2, <2>3 DEF SubsetResult
    <3> QED
      BY <1>9, <2>1, <2>2, <3>1, AgreesBuilt DEF NoMatch
  <2>4. CASE ~(r.best.nodes < node.min)
    <3>1. SubsetResult(node, r) = Result(r.best.ret, r.st)
          /\ SubsetResult(node, q) = Result(r.best.ret, Shift(r.st, d))
      BY <1>11, <2>1, <2>2, <2>4 DEF SubsetResult
    <3> QED
      BY <1>9, <2>1, <2>2, <3>1, AgreesBuilt
  <2> QED
    BY <2>3, <2>4
<1> QED
  BY <1>10, <1>11

LEMMA LeafSteady ==
  ASSUME Trees, NEW P, NEW n \in DOMAIN nodes, nodes[n].type \in {"str", "any", "empty", "none"},
         NEW st \in Started, st.mem \in Nat, NEW v, NEW d \in Nat
  PROVE  Agrees(ParseNode(P, n, st, v), ParseNode(P, n, Shift(st, d), v), d)
<1>1. st \in States
  BY DEF Started
<1>2. ASSUME NEW ret \in {0, 1, NoMatch} PROVE Agrees(Result(ret, st), Result(ret, Shift(st, d)), d)
  BY <1>1, AgreesBuilt DEF NoMatch
<1>3. CASE nodes[n].type = "str"
  <2>1. ParseNode(P, n, st, v) = StrParse(nodes[n], st, v)
        /\ ParseNode(P, n, Shift(st, d), v) = StrParse(nodes[n], Shift(st, d), v)
    BY <1>3 DEF ParseNode
  <2> QED
    BY <1>2, <2>1 DEF StrParse
<1>4. CASE nodes[n].type = "any"
  <2>1. ParseNode(P, n, st, v) = AnyParse(st, v) /\ ParseNode(P, n, Shift(st, d), v) = AnyParse(Shift(st, d), v)
    BY <1>4 DEF ParseNode
  <2> QED
    BY <1>2, <2>1 DEF AnyParse
<1>5. CASE nodes[n].type = "empty"
  <2>1. ParseNode(P, n, st, v) = EmptyParse(st) /\ ParseNode(P, n, Shift(st, d), v) = EmptyParse(Shift(st, d))
    BY <1>5 DEF ParseNode
  <2> QED
    BY <1>2, <2>1 DEF EmptyParse
<1>6. CASE nodes[n].type = "none"
  <2>1. ParseNode(P, n, st, v) = NoneParse(st) /\ ParseNode(P, n, Shift(st, d), v) = NoneParse(Shift(st, d))
    BY <1>6 DEF ParseNode
  <2> QED
    BY <1>2, <2>1 DEF NoneParse
<1> QED
  BY <1>3, <1>4, <1>5, <1>6

LEMMA NodeSteady ==
  ASSUME Trees, GrammarOk, NEW P, NEW L, Sound(P, L), Natural(L), Steady(P),
         NEW n \in DOMAIN nodes, NEW st \in Started, st.mem \in Nat, NEW v \in Vectors, NEW d \in Nat
  PROVE  Agrees(ParseNode(P, n, st, v), ParseNode(P, n, Shift(st, d), v), d)
<1> DEFINE a == ParseNode(P, n, st, v)
           b == ParseNode(P, n, Shift(st, d), v)
<1>1. /\ nodes[n] \in GrammarNodes /\ Existing(nodes[n].kids) /\ nodes[n].max \in Nat
      /\ Kids(n) = nodes[n].kids
  BY NodeTyped DEF Existing
<1>2. nodes[n].type \in {"str", "any", "empty", "none"} \cup Unary \cup Nary
  BY <1>1 DEF GrammarNodes
<1>3. CASE nodes[n].type \in Unary
  <2>1. nodes[n].kids[1] \in DOMAIN nodes
    <3>1. Len(nodes[n].kids) = 1
      BY <1>1, <1>3 DEF GrammarOk
    <3>2. 1 \in DOMAIN nodes[n].kids
      BY <1>1, <3>1 DEF Existing
    <3> QED
      BY <1>1, <3>2 DEF Existing
  <2>2. /\ nodes[n].type = "option" =>
             a = OptionParse(P, nodes[n], st, v) /\ b = OptionParse(P, nodes[n], Shift(st, d), v)
        /\ nodes[n].type = "once" =>
             a = OnceParse(P, nodes[n], st, v) /\ b = OnceParse(P, nodes[n], Shift(st, d), v)
        /\ nodes[n].type = "bypass" =>
             a = BypassParse(P, nodes[n], st, v) /\ b = BypassParse(P, nodes[n], Shift(st, d), v)
        /\ nodes[n].type = "many" =>
             a = ManyParse(P, nodes[n], st, v) /\ b = ManyParse(P, nodes[n], Shift(st, d), v)
    BY DEF ParseNode
  <2> HIDE DEF a, b
  <2>3. nodes[n].type \in {"option", "once", "bypass"} => Agrees(a, b, d)
    BY <2>1, <2>2, UnarySteady
  <2>4. nodes[n].type = "many" => Agrees(a, b, d)
    BY <1>1, <2>1, <2>2, ManySteady
  <2>5. Agrees(a, b, d)
    BY <1>3, <2>3, <2>4 DEF Unary
  <2> QED
    BY <2>5 DEF a, b
<1>4. CASE nodes[n].type \in Nary
  <2>1. /\ nodes[n].type = "seq" =>
             a = SeqParse(P, nodes[n], st, v) /\ b = SeqParse(P, nodes[n], Shift(st, d), v)
        /\ nodes[n].type = "or" =>
             a = OrParse(P, nodes[n], st, v) /\ b = OrParse(P, nodes[n], Shift(st, d), v)
        /\ nodes[n].type = "subset" =>
             a = SubsetParse(P, nodes[n], st, v) /\ b = SubsetParse(P, nodes[n], Shift(st, d), v)
    BY DEF ParseNode
  <2> HIDE DEF a, b
  <2>2. nodes[n].type = "seq" => Agrees(a, b, d)
    BY <1>1, <2>1, SeqSteady
  <2>3. nodes[n].type = "or" => Agrees(a, b, d)
    BY <1>1, <2>1, OrSteady
  <2>4. nodes[n].type = "subset" => Agrees(a, b, d)
    BY <1>1, <2>1, SubsetSteady
  <2>5. Agrees(a, b, d)
    BY <1>4, <2>2, <2>3, <2>4 DEF Nary
  <2> QED
    BY <2>5 DEF a, b
<1> QED
  BY <1>2, <1>3, <1>4, LeafSteady

LEMMA DeeperSteady ==
  ASSUME Trees, GrammarOk, NEW P, NEW L, Sound(P, L), Natural(L), Steady(P)
  PROVE  Steady(Callbacks(P))
<1> SUFFICES ASSUME NEW n \in DOMAIN nodes, NEW st \in Started, NEW v \in Vectors, NEW d \in Nat, st.mem \in Nat
             PROVE  Agrees(Callbacks(P)[n][st][v], Callbacks(P)[n][Shift(st, d)][v], d)
  BY DEF Steady
<1>1. n \in Nat /\ st \in States /\ Shift(st, d) \in States
  BY NodeTyped, ShiftTyped DEF Started
<1>2. Callbacks(P)[n][st][v] = ParseNode(P, n, st, v)
      /\ Callbacks(P)[n][Shift(st, d)][v] = ParseNode(P, n, Shift(st, d), v)
  BY <1>1 DEF Callbacks
<1> QED
  BY <1>2, NodeSteady

LEMMA OverflowSteady ==
  ASSUME GrammarOk
  PROVE  Steady(Overflow)
<1> SUFFICES ASSUME NEW n \in DOMAIN nodes, NEW st \in Started, NEW v \in Vectors
             PROVE  Overflow[n][st][v].ret = Fail
  BY DEF Steady, Agrees
<1>1. n \in Nat /\ st \in States
  BY NodeTyped DEF Started
<1>2. Overflow[n][st][v] = Fails([st EXCEPT !.faults = @ \cup {"overflow"}])
  BY <1>1 DEF Overflow
<1> QED
  BY <1>2, ResultFields DEF Fails

LEMMA EngineSteady ==
  ASSUME Trees, GrammarOk
  PROVE  Steady(ParseTo[Depth])
<1> DEFINE S == {d \in 0..Depth : /\ Sound(ParseTo[d], LengthsTo[d]) /\ Natural(LengthsTo[d])
                                  /\ Steady(ParseTo[d])}
<1>0. Depth \in Nat
  BY GrammarAssumption
<1>1. 0 \in S
  BY <1>0, ParseToSteps, OverflowSound, OverflowSteady
<1>2. ASSUME NEW d \in 0..(Depth - 1), d \in S PROVE d + 1 \in S
  <2>1. d + 1 \in 1..Depth /\ (d + 1) - 1 = d /\ d + 1 \in 0..Depth
    BY <1>0
  <2>2. ParseTo[d + 1] = Callbacks(ParseTo[d]) /\ LengthsTo[d + 1] = Deeper(LengthsTo[d])
    BY <2>1, ParseToSteps
  <2>3. Sound(ParseTo[d], LengthsTo[d]) /\ Natural(LengthsTo[d]) /\ Steady(ParseTo[d])
    BY <1>2
  <2>4. Sound(ParseTo[d + 1], LengthsTo[d + 1]) /\ Natural(LengthsTo[d + 1])
    BY <2>2, <2>3, DeeperSound
  <2>5. Steady(ParseTo[d + 1])
    BY <2>2, <2>3, DeeperSteady
  <2> QED
    BY <2>1, <2>4, <2>5
<1> HIDE DEF S
<1>3. Depth \in S
  BY <1>0, <1>1, <1>2, Induction
<1> QED
  BY <1>3 DEF S

\* ec_parse_strvec(), with d more allocations that succeed
LEMMA StrvecSteady ==
  ASSUME Trees, ParseInv, Built, NEW mem \in Nat, NEW d \in Nat,
         NEW result, result = ParseStrvec(Root, input, mem), result.op = "parse", result.ret # Fail
  PROVE  result = ParseStrvec(Root, input, mem + d)
<1> DEFINE start(m) == [spine |-> <<>>, mem |-> m, faults |-> {}]
           x == start(mem)
           e == Enter(x, Root)
           r == ParseTo[Depth][Root][e][input]
           q == ParseTo[Depth][Root][Shift(e, d)][input]
<1>1. mem # 0
  <2>1. CASE mem = 0
    <3>1. result = [op |-> "parse", ret |-> Fail, faults |-> {}]
      BY <2>1 DEF ParseStrvec
    <3> QED
      BY <3>1
  <2> QED
    BY <2>1
<1>2. Root \in DOMAIN nodes /\ Root \in Nat /\ input \in Vectors /\ GrammarOk
  BY RootNode, InputVector DEF ParseInv, GrammarInv
<1>3. x \in States /\ start(mem + d) = Shift(x, d) /\ x.mem = mem
  <2> DEFINE y == start(mem + d)
  <2>1. x \in States /\ x.spine = <<>> /\ x.mem = mem /\ x.faults = {}
    BY DEF States
  <2>2. y \in States /\ y.spine = <<>> /\ y.mem = mem + d /\ y.faults = {}
    BY DEF States
  <2> HIDE DEF x, y
  <2>3. /\ Shift(x, d) \in States /\ Shift(x, d).spine = x.spine /\ Shift(x, d).faults = x.faults
        /\ Shift(x, d).mem = x.mem + d
    BY <2>1, ShiftTyped
  <2>4. y = Shift(x, d)
    BY <2>1, <2>2, <2>3, StateEqual
  <2> QED
    BY <2>1, <2>4 DEF y
<1>4. Enter(start(mem + d), Root) = Shift(e, d)
  <2> HIDE DEF x, start
  <2> QED
    BY <1>2, <1>3, ShiftEnter
<1>5. result = Parsing(r, input)
  BY <1>1 DEF ParseStrvec
<1>6. ParseStrvec(Root, input, mem + d) = Parsing(q, input)
  <2>1. mem + d # 0
    BY <1>1
  <2> QED
    BY <1>4, <2>1 DEF ParseStrvec
<1> HIDE DEF x, start
<1>7. e \in Started /\ e.mem \in Nat
  <2>1. e \in Started /\ e.mem = x.mem - 1
    BY <1>2, <1>3, EnterTyped
  <2> QED
    BY <1>1, <1>3, <2>1
<1>8. r \in Sounds(e, Lengths[Root][input])
  BY <1>2, <1>7, EngineSound DEF Sound
<1>9. Agrees(r, q, d)
  BY <1>2, <1>7, EngineSteady DEF Steady
<1> HIDE DEF r, q, e
<1>10. r.st \in States
  BY <1>8, BelowStates DEF Sounds
<1>11. {"unlink", "overflow"} \cap r.st.faults = {}
  <2>1. CASE {"unlink", "overflow"} \cap r.st.faults # {}
    <3>1. result = [op |-> "crash"]
      BY <1>5, <2>1 DEF Parsing
    <3> QED
      BY <3>1
  <2> QED
    BY <2>1
<1>12. ~(r.ret = Fail \/ (r.ret # NoMatch /\ (r.st.mem = 0 \/ r.ret > Len(input))))
  <2>1. CASE r.ret = Fail \/ (r.ret # NoMatch /\ (r.st.mem = 0 \/ r.ret > Len(input)))
    <3>1. result = [op |-> "parse", ret |-> Fail, faults |-> r.st.faults]
      BY <1>5, <1>11, <2>1 DEF Parsing
    <3> QED
      BY <3>1
  <2> QED
    BY <2>1
<1>13. r.st.mem \in Nat /\ q = Result(r.ret, Shift(r.st, d))
  BY <1>9, <1>12 DEF Agrees
<1>14. /\ q.ret = r.ret /\ q.st.faults = r.st.faults /\ q.st.mem = r.st.mem + d
       /\ Pstate(q.st) = Pstate(r.st)
  <2>1. q.ret = r.ret /\ q.st = Shift(r.st, d)
    BY <1>13, ResultFields
  <2> DEFINE y == r.st
  <2>2. y \in States
    BY <1>10
  <2> HIDE DEF y
  <2>3. Shift(y, d).faults = y.faults /\ Shift(y, d).mem = y.mem + d /\ Pstate(Shift(y, d)) = Pstate(y)
    BY <2>2, ShiftTyped
  <2> QED
    BY <2>1, <2>3 DEF y
<1>15. ~(q.ret = Fail \/ (q.ret # NoMatch /\ (q.st.mem = 0 \/ q.ret > Len(input))))
  BY <1>12, <1>13, <1>14
<1>16. {"unlink", "overflow"} \cap q.st.faults = {}
  BY <1>11, <1>14
<1> DEFINE Tree(s) == IF r.ret = NoMatch THEN Pstate(s) ELSE MatchOf(s, input, r.ret)
<1>17. Parsing(r, input) = [op |-> "parse", ret |-> r.ret, faults |-> r.st.faults, tree |-> Tree(r.st)]
  BY <1>11, <1>12 DEF Parsing, MatchOf
<1>18. Parsing(q, input) = [op |-> "parse", ret |-> q.ret, faults |-> q.st.faults, tree |-> Tree(q.st)]
  BY <1>14, <1>15, <1>16 DEF Parsing, MatchOf
<1>19. Tree(q.st) = Tree(r.st)
  BY <1>14 DEF MatchOf
<1> HIDE DEF Tree
<1> QED
  BY <1>5, <1>6, <1>14, <1>17, <1>18, <1>19

\* An allocation that fails makes the call fail, wherever it is, and changes no
\* other result, in every grammar and for every input: an or node does not try its
\* next child for it, an option node does not match the empty vector, a subset node
\* does not go on with a shorter list.
THEOREM FailuresAreErrors == ASSUME Trees PROVE ParseSpec => []FailureOnlyFails
<1>1. ASSUME ParseInv PROVE FailureOnlyFails
  <2> SUFFICES ASSUME out.op = "parse", out.ret # Fail
               PROVE  out = ParseStrvec(Root, input, Unlimited)
    BY DEF FailureOnlyFails
  <2>1. out # NoResult
    BY DEF NoResult
  <2>2. PICK mem \in family.budgets : out = ParseStrvec(Root, input, mem)
    BY <1>1, <2>1 DEF ParseInv, GrammarInv
  <2>3. Built /\ family.budgets \subseteq Nat
    BY <1>1, <2>1, FamilyFields DEF ParseInv, GrammarInv
  <2>4. Unlimited \in family.budgets /\ mem <= Unlimited
    BY <1>1, FamilyFields DEF ParseInv, GrammarInv, Unlimited
  <2> DEFINE d == Unlimited - mem
  <2>5. mem \in Nat /\ d \in Nat /\ mem + d = Unlimited
    BY <2>3, <2>4
  <2> HIDE DEF d
  <2> QED
    BY <1>1, <2>2, <2>3, <2>5, StrvecSteady
<1> QED
  BY <1>1, ParseInvariant, PTL

-----------------------------------------------------------------------------
\* The pnodes of a node in trees

CountSets == [Pnodes -> [Nat -> Nat]]
TotalStep(counts, pnodes, n) == [i \in DOMAIN pnodes |-> [sum \in Nat |-> sum + counts[pnodes[i]][n]]]

LEMMA TotalTyped ==
  ASSUME NEW counts \in CountSets, NEW kids \in Seq(Pnodes), NEW n \in Nat
  PROVE  Total(counts, kids, n) \in Nat
<1> DEFINE m == Len(kids)
           step == TotalStep(counts, kids, n)
           at == [i \in 0..m |-> Nat]
<1>0. m \in Nat /\ DOMAIN kids = 1..m
  OBVIOUS
<1>1. 0 \in at[0]
  BY <1>0
<1>2. ASSUME NEW i \in 1..m, NEW x \in at[i - 1] PROVE step[i][x] \in at[i]
  <2>1. i \in 0..m /\ i - 1 \in 0..m /\ i \in DOMAIN kids
    BY <1>0
  <2>2. x \in Nat /\ at[i] = Nat
    BY <2>1
  <2>3. counts[kids[i]][n] \in Nat
    BY <2>1 DEF CountSets
  <2>4. step[i][x] = x + counts[kids[i]][n]
    BY <2>1, <2>2 DEF TotalStep
  <2> QED
    BY <2>2, <2>3, <2>4
<1>3. Total(counts, kids, n) = Loop(step, 0, m)
  BY DEF Total, TotalStep
<1>4. at[m] = Nat
  BY <1>0
<1> HIDE DEF m, step, at
<1> QED
  BY <1>0, <1>1, <1>2, <1>3, <1>4, LoopInvariant

LEMMA TotalNone ==
  ASSUME NEW counts, NEW n
  PROVE  Total(counts, <<>>, n) = 0
<1>1. Len(<<>>) = 0
  OBVIOUS
<1> QED
  BY <1>1, LoopRounds DEF Total

LEMMA TotalMore ==
  ASSUME NEW counts \in CountSets, NEW kids \in Seq(Pnodes), NEW p \in Pnodes, NEW n \in Nat
  PROVE  Total(counts, Append(kids, p), n) = Total(counts, kids, n) + counts[p][n]
<1> DEFINE m == Len(kids)
           more == Append(kids, p)
<1>0. m \in Nat /\ DOMAIN kids = 1..m /\ DOMAIN more = 1..(m + 1) /\ Len(more) = m + 1
      /\ more[m + 1] = p /\ \A i \in 1..m : more[i] = kids[i]
  OBVIOUS
<1>1. Total(counts, more, n) = Loop(TotalStep(counts, more, n), 0, m + 1)
      /\ Total(counts, kids, n) = Loop(TotalStep(counts, kids, n), 0, m)
  BY <1>0 DEF Total, TotalStep
<1> HIDE DEF m, more
<1>2. Loop(TotalStep(counts, more, n), 0, m + 1)
        = TotalStep(counts, more, n)[m + 1][Loop(TotalStep(counts, more, n), 0, m)]
  BY <1>0, LoopRounds
<1>3. Loop(TotalStep(counts, more, n), 0, m) = Loop(TotalStep(counts, kids, n), 0, m)
  <2>1. ASSUME NEW i \in 1..m PROVE TotalStep(counts, more, n)[i] = TotalStep(counts, kids, n)[i]
    <3>1. i \in DOMAIN more /\ i \in DOMAIN kids /\ more[i] = kids[i]
      BY <1>0
    <3> QED
      BY <3>1 DEF TotalStep
  <2> QED
    BY <1>0, <2>1, LoopSame
<1>4. Total(counts, kids, n) \in Nat /\ m + 1 \in DOMAIN more
  BY <1>0, TotalTyped
<1>5. TotalStep(counts, more, n)[m + 1][Total(counts, kids, n)] = Total(counts, kids, n) + counts[p][n]
  BY <1>0, <1>4 DEF TotalStep
<1> QED
  BY <1>1, <1>2, <1>3, <1>5 DEF more

\* A total is positive when one of its terms is.
LEMMA TotalPositive ==
  ASSUME NEW counts \in CountSets, NEW kids \in Seq(Pnodes), NEW n \in Nat
  PROVE  Total(counts, kids, n) > 0 <=> \E i \in DOMAIN kids : counts[kids[i]][n] > 0
<1> DEFINE m == Len(kids)
           step == TotalStep(counts, kids, n)
           found(i) == \E j \in 1..i : counts[kids[j]][n] > 0
           at == [i \in 0..m |-> {x \in Nat : x > 0 <=> found(i)}]
<1>0. m \in Nat /\ DOMAIN kids = 1..m
  OBVIOUS
<1>1. 0 \in at[0]
  BY <1>0
<1>2. ASSUME NEW i \in 1..m, NEW x \in at[i - 1] PROVE step[i][x] \in at[i]
  <2>1. i \in 0..m /\ i - 1 \in 0..m /\ i \in DOMAIN kids
    BY <1>0
  <2>2. x \in Nat /\ (x > 0 <=> found(i - 1))
    BY <2>1
  <2>3. counts[kids[i]][n] \in Nat
    BY <2>1 DEF CountSets
  <2>4. step[i][x] = x + counts[kids[i]][n]
    BY <2>1, <2>2 DEF TotalStep
  <2>5. found(i) <=> found(i - 1) \/ counts[kids[i]][n] > 0
    BY <2>1
  <2> DEFINE y == x + counts[kids[i]][n]
  <2>6. y \in Nat /\ (y > 0 <=> x > 0 \/ counts[kids[i]][n] > 0)
    BY <2>2, <2>3
  <2>7. at[i] = {z \in Nat : z > 0 <=> found(i)}
    BY <2>1
  <2> HIDE DEF y, found, at, step
  <2>8. y \in at[i]
    BY <2>2, <2>5, <2>6, <2>7
  <2> QED
    BY <2>4, <2>8 DEF y
<1>3. Total(counts, kids, n) = Loop(step, 0, m)
  BY DEF Total, TotalStep
<1>4. at[m] = {x \in Nat : x > 0 <=> found(m)}
  BY <1>0
<1> HIDE DEF step, at, found
<1>5. Total(counts, kids, n) \in at[m]
  BY <1>0, <1>1, <1>2, <1>3, LoopInvariant
<1>6. Total(counts, kids, n) > 0 <=> found(m)
  BY <1>4, <1>5
<1> QED
  BY <1>0, <1>6 DEF found

LEMMA CountsTyped ==
  ASSUME Trees, NEW below \in CountSets
  PROVE  /\ Counts(below) \in CountSets /\ OnceCounts(below) \in CountSets /\ NoCounts \in CountSets
         /\ \A p \in Pnodes : \A n \in Nat :
              /\ Counts(below)[p][n] = (IF p.node = n THEN 1 ELSE 0) + Total(below, p.kids, n)
              /\ OnceCounts(below)[p][n] =
                   (IF nodes[p.node].type = "once" /\ Kids(p.node) = <<n>> THEN 1 ELSE 0) + Total(below, p.kids, n)
              /\ Total(below, p.kids, n) \in Nat
              /\ NoCounts[p][n] = 0
<1>1. ASSUME NEW p \in Pnodes, NEW n \in Nat PROVE Total(below, p.kids, n) \in Nat
  BY PnodeFields, TotalTyped
<1>2. Counts(below) \in CountSets
  BY <1>1 DEF Counts, CountSets
<1>3. OnceCounts(below) \in CountSets
  BY <1>1 DEF OnceCounts, CountSets
<1>4. NoCounts \in CountSets
  BY DEF NoCounts, CountSets
<1>5. \A p \in Pnodes : \A n \in Nat :
        /\ Counts(below)[p][n] = (IF p.node = n THEN 1 ELSE 0) + Total(below, p.kids, n)
        /\ OnceCounts(below)[p][n] =
             (IF nodes[p.node].type = "once" /\ Kids(p.node) = <<n>> THEN 1 ELSE 0) + Total(below, p.kids, n)
        /\ NoCounts[p][n] = 0
  BY DEF Counts, OnceCounts, NoCounts
<1> QED
  BY <1>1, <1>2, <1>3, <1>4, <1>5

\* the values of a recursive function: those of a loop whose steps are the same
Recurs(to, f, first, m, X) ==
  to = [h \in 0..m |-> IF h = 0 THEN first ELSE f[to[h - 1]]] /\ \A h \in 0..m : to[h] \in X

LEMMA RecursionExists ==
  ASSUME NEW m \in Nat, NEW X, NEW f \in [X -> X], NEW first \in X
  PROVE  \E to : Recurs(to, f, first, m, X)
<1> DEFINE step == [i \in 1..m |-> f]
<1>1. PICK to : Goes(to, step, first, m)
  BY LoopExists
<1>2. to = [h \in 0..m |-> IF h = 0 THEN first ELSE step[h][to[h - 1]]]
  BY <1>1 DEF Goes
<1>3. to = [h \in 0..m |-> IF h = 0 THEN first ELSE f[to[h - 1]]]
  BY <1>2
<1> DEFINE S == {h \in 0..m : to[h] \in X}
<1>4. 0 \in S
  BY <1>3
<1>5. ASSUME NEW h \in 0..(m - 1), h \in S PROVE h + 1 \in S
  <2>1. h + 1 \in 0..m /\ h + 1 # 0 /\ (h + 1) - 1 = h /\ to[h] \in X
    BY <1>5
  <2>2. to[h + 1] = f[to[h]]
    BY <1>3, <2>1
  <2> QED
    BY <2>1, <2>2
<1> HIDE DEF S, step
<1>6. 0..m \subseteq S
  BY <1>4, <1>5, Induction
<1>7. \A h \in 0..m : to[h] \in X
  BY <1>6 DEF S
<1> QED
  BY <1>3, <1>7 DEF Recurs

LEMMA CountToSteps ==
  ASSUME Trees
  PROVE  /\ CountTo[0] = NoCounts /\ \A h \in 1..(Depth + 1) : CountTo[h] = Counts(CountTo[h - 1])
         /\ \A h \in 0..(Depth + 1) : CountTo[h] \in CountSets
<1>0. Depth \in Nat /\ Depth + 1 \in Nat
  BY GrammarAssumption
<1> DEFINE f == [below \in CountSets |-> Counts(below)]
           m == Depth + 1
           X == CountSets
<1>1. f \in [X -> X] /\ \A below \in X : f[below] = Counts(below)
  BY CountsTyped
<1>2. NoCounts \in X
  BY DEF NoCounts, CountSets
<1> HIDE DEF f, X
<1>3. PICK to : Recurs(to, f, NoCounts, m, X)
  BY <1>0, <1>1, <1>2, RecursionExists
<1>4. ASSUME NEW h \in 0..m PROVE to[h] = IF h = 0 THEN NoCounts ELSE Counts(to[h - 1])
  <2>1. to[h] = IF h = 0 THEN NoCounts ELSE f[to[h - 1]]
    BY <1>3 DEF Recurs
  <2>2. h # 0 => h - 1 \in 0..m
    BY <1>0
  <2>3. h # 0 => to[h - 1] \in X
    BY <1>3, <2>2 DEF Recurs
  <2> QED
    BY <1>1, <2>1, <2>3
<1>5. \E g : g = [h \in 0..(Depth + 1) |-> IF h = 0 THEN NoCounts ELSE Counts(g[h - 1])]
  <2>1. to = [h \in 0..m |-> to[h]]
    BY <1>3 DEF Recurs
  <2>2. to = [h \in 0..m |-> IF h = 0 THEN NoCounts ELSE Counts(to[h - 1])]
    BY <1>4, <2>1
  <2> QED
    BY <2>2
<1>6. CountTo = [h \in 0..(Depth + 1) |-> IF h = 0 THEN NoCounts ELSE Counts(CountTo[h - 1])]
  BY <1>5 DEF CountTo
<1>7. CountTo[0] = NoCounts /\ \A h \in 1..m : CountTo[h] = Counts(CountTo[h - 1])
  BY <1>0, <1>6
<1> DEFINE S == {h \in 0..m : CountTo[h] \in CountSets}
<1>8. 0 \in S
  BY <1>0, <1>2, <1>7 DEF X
<1>9. ASSUME NEW h \in 0..(m - 1), h \in S PROVE h + 1 \in S
  <2>1. h + 1 \in 1..m /\ h + 1 \in 0..m /\ (h + 1) - 1 = h /\ CountTo[h] \in CountSets
    BY <1>0, <1>9
  <2>2. CountTo[h + 1] = Counts(CountTo[h])
    BY <1>7, <2>1
  <2> QED
    BY <2>1, <2>2, CountsTyped
<1> HIDE DEF S
<1>10. 0..m \subseteq S
  BY <1>0, <1>8, <1>9, Induction
<1> QED
  BY <1>7, <1>10 DEF S

LEMMA OncesToSteps ==
  ASSUME Trees
  PROVE  /\ OncesTo[0] = NoCounts /\ \A h \in 1..Depth : OncesTo[h] = OnceCounts(OncesTo[h - 1])
         /\ \A h \in 0..Depth : OncesTo[h] \in CountSets
<1>0. Depth \in Nat
  BY GrammarAssumption
<1> DEFINE f == [below \in CountSets |-> OnceCounts(below)]
           X == CountSets
<1>1. f \in [X -> X] /\ \A below \in X : f[below] = OnceCounts(below)
  BY CountsTyped
<1>2. NoCounts \in X
  BY DEF NoCounts, CountSets
<1> HIDE DEF f, X
<1>3. PICK to : Recurs(to, f, NoCounts, Depth, X)
  BY <1>0, <1>1, <1>2, RecursionExists
<1>4. ASSUME NEW h \in 0..Depth PROVE to[h] = IF h = 0 THEN NoCounts ELSE OnceCounts(to[h - 1])
  <2>1. to[h] = IF h = 0 THEN NoCounts ELSE f[to[h - 1]]
    BY <1>3 DEF Recurs
  <2>2. h # 0 => h - 1 \in 0..Depth
    BY <1>0
  <2>3. h # 0 => to[h - 1] \in X
    BY <1>3, <2>2 DEF Recurs
  <2> QED
    BY <1>1, <2>1, <2>3
<1>5. \E g : g = [h \in 0..Depth |-> IF h = 0 THEN NoCounts ELSE OnceCounts(g[h - 1])]
  <2>1. to = [h \in 0..Depth |-> to[h]]
    BY <1>3 DEF Recurs
  <2>2. to = [h \in 0..Depth |-> IF h = 0 THEN NoCounts ELSE OnceCounts(to[h - 1])]
    BY <1>4, <2>1
  <2> QED
    BY <2>2
<1>6. OncesTo = [h \in 0..Depth |-> IF h = 0 THEN NoCounts ELSE OnceCounts(OncesTo[h - 1])]
  BY <1>5 DEF OncesTo
<1>7. OncesTo[0] = NoCounts /\ \A h \in 1..Depth : OncesTo[h] = OnceCounts(OncesTo[h - 1])
  BY <1>0, <1>6
<1> DEFINE S == {h \in 0..Depth : OncesTo[h] \in CountSets}
<1>8. 0 \in S
  BY <1>0, <1>2, <1>7 DEF X
<1>9. ASSUME NEW h \in 0..(Depth - 1), h \in S PROVE h + 1 \in S
  <2>1. h + 1 \in 1..Depth /\ h + 1 \in 0..Depth /\ (h + 1) - 1 = h /\ OncesTo[h] \in CountSets
    BY <1>0, <1>9
  <2>2. OncesTo[h + 1] = OnceCounts(OncesTo[h])
    BY <1>7, <2>1
  <2> QED
    BY <2>1, <2>2, CountsTyped
<1> HIDE DEF S
<1>10. 0..Depth \subseteq S
  BY <1>0, <1>8, <1>9, Induction
<1> QED
  BY <1>7, <1>10 DEF S

\* what the higher of two counts finds in trees that the lower one finds it in
Covers(C, D) == \A p \in Pnodes : \A n \in Nat : C[p][n] > 0 => D[p][n] > 0

LEMMA TotalCovered ==
  ASSUME NEW C \in CountSets, NEW D \in CountSets, Covers(C, D), NEW kids \in Seq(Pnodes), NEW n \in Nat
  PROVE  Total(C, kids, n) > 0 => Total(D, kids, n) > 0
<1>1. ASSUME NEW i \in DOMAIN kids, C[kids[i]][n] > 0 PROVE D[kids[i]][n] > 0
  <2>1. kids[i] \in Pnodes
    OBVIOUS
  <2> QED
    BY <1>1, <2>1 DEF Covers
<1> QED
  BY <1>1, TotalPositive

LEMMA CoversStep ==
  ASSUME Trees, NEW C \in CountSets, NEW D \in CountSets, Covers(C, D)
  PROVE  Covers(Counts(C), Counts(D))
<1> SUFFICES ASSUME NEW p \in Pnodes, NEW n \in Nat, Counts(C)[p][n] > 0
             PROVE  Counts(D)[p][n] > 0
  BY DEF Covers
<1>1. p.kids \in Seq(Pnodes)
  BY PnodeFields
<1>2. Total(C, p.kids, n) > 0 => Total(D, p.kids, n) > 0
  BY <1>1, TotalCovered
<1>3. /\ Counts(C)[p][n] = (IF p.node = n THEN 1 ELSE 0) + Total(C, p.kids, n)
      /\ Counts(D)[p][n] = (IF p.node = n THEN 1 ELSE 0) + Total(D, p.kids, n)
      /\ Total(C, p.kids, n) \in Nat /\ Total(D, p.kids, n) \in Nat
  BY CountsTyped
<1>4. CASE p.node = n
  BY <1>3, <1>4
<1>5. CASE p.node # n
  BY <1>2, <1>3, <1>5
<1> QED
  BY <1>4, <1>5

LEMMA CoversAll ==
  ASSUME Trees
  PROVE  \A h \in 0..Depth : Covers(CountTo[h], CountTo[Depth])
<1> DEFINE S == {d \in 0..Depth : \A e \in 0..d : Covers(CountTo[e], CountTo[d])}
<1>0. Depth \in Nat
  BY GrammarAssumption
<1>1. ASSUME NEW d \in 0..Depth PROVE Covers(CountTo[0], CountTo[d])
  BY CountToSteps, CountsTyped DEF Covers, NoCounts
<1>2. 0 \in S
  BY <1>0, <1>1
<1>3. ASSUME NEW d \in 0..(Depth - 1), d \in S PROVE d + 1 \in S
  <2>1. d + 1 \in 0..Depth /\ d + 1 \in 1..(Depth + 1) /\ (d + 1) - 1 = d /\ d \in 0..(Depth + 1)
    BY <1>0
  <2>2. ASSUME NEW e \in 0..(d + 1), e # 0 PROVE Covers(CountTo[e], CountTo[d + 1])
    <3>1. e \in 1..(Depth + 1) /\ e - 1 \in 0..d /\ e - 1 \in 0..(Depth + 1)
      BY <1>0, <2>2
    <3>2. Covers(CountTo[e - 1], CountTo[d])
      BY <1>3, <3>1
    <3>3. CountTo[e - 1] \in CountSets /\ CountTo[d] \in CountSets
      BY <2>1, <3>1, CountToSteps
    <3>4. CountTo[e] = Counts(CountTo[e - 1]) /\ CountTo[d + 1] = Counts(CountTo[d])
      BY <2>1, <3>1, CountToSteps
    <3> QED
      BY <3>2, <3>3, <3>4, CoversStep
  <2>3. \A e \in 0..(d + 1) : Covers(CountTo[e], CountTo[d + 1])
    BY <1>1, <2>1, <2>2
  <2> QED
    BY <2>1, <2>3
<1> HIDE DEF S
<1>4. Depth \in S
  BY <1>0, <1>2, <1>3, Induction
<1> QED
  BY <1>4 DEF S

-----------------------------------------------------------------------------
\* The nodes that the tree under construction has pnodes of, as once nodes see it

Present(st, n) == CountFromRoot(st, n) > 0

\* in the tree of pnode p
Holds(p, n) == p.node = n \/ Total(CountTo[Depth], p.kids, n) > 0

LEMMA PresentHolds ==
  ASSUME Trees, NEW st \in Started, NEW n \in Nat
  PROVE  Present(st, n) <=> \E i \in 1..Len(st.spine) : Holds(st.spine[i], n)
<1> DEFINE T == CountTo[Depth + 1]
<1>0. Depth \in Nat /\ Depth + 1 \in 1..(Depth + 1) /\ Depth + 1 \in 0..(Depth + 1)
      /\ (Depth + 1) - 1 = Depth /\ Depth \in 0..(Depth + 1)
  BY GrammarAssumption
<1>1. T = Counts(CountTo[Depth]) /\ T \in CountSets /\ CountTo[Depth] \in CountSets
  BY <1>0, CountToSteps
<1>2. st.spine \in Seq(Pnodes) /\ DOMAIN st.spine = 1..Len(st.spine)
  BY PstateTyped
<1>3. ASSUME NEW p \in Pnodes PROVE T[p][n] > 0 <=> Holds(p, n)
  <2>1. T[p][n] = (IF p.node = n THEN 1 ELSE 0) + Total(CountTo[Depth], p.kids, n)
        /\ Total(CountTo[Depth], p.kids, n) \in Nat
    BY <1>1, CountsTyped
  <2>2. CASE p.node = n
    BY <2>1, <2>2 DEF Holds
  <2>3. CASE p.node # n
    BY <2>1, <2>3 DEF Holds
  <2> QED
    BY <2>2, <2>3
<1>4. Present(st, n) <=> \E i \in DOMAIN st.spine : T[st.spine[i]][n] > 0
  BY <1>1, <1>2, TotalPositive DEF Present, CountFromRoot
<1> HIDE DEF T
<1> QED
  BY <1>2, <1>3, <1>4

\* a call of ec_parse_child() adds the pnode it is made on
LEMMA EnterPresent ==
  ASSUME Trees, NEW x \in Started, NEW k \in Nat
  PROVE  /\ Enter(x, k) \in Fresh /\ Present(Enter(x, k), k)
         /\ \A n \in Nat : Present(x, n) => Present(Enter(x, k), n)
<1> DEFINE y == Enter(x, k)
           m == Len(x.spine)
<1>1. x \in States
  BY DEF Started
<1>2. y \in Started /\ y.spine = Append(x.spine, Pnode(k)) /\ Pstate(y) = Pnode(k)
  BY <1>1, EnterTyped
<1> HIDE DEF y
<1>3. x.spine \in Seq(Pnodes) /\ m \in Nat
  BY PstateTyped
<1>4. Len(y.spine) = m + 1 /\ y.spine[m + 1] = Pnode(k) /\ \A i \in 1..m : y.spine[i] = x.spine[i]
  BY <1>2, <1>3
<1> HIDE DEF m
<1>5. Pnode(k).kids = <<>> /\ Pnode(k).node = k
  BY DEF Pnode
<1>6. y \in Fresh
  BY <1>2, <1>5 DEF Fresh
<1>7. Present(y, k)
  <2>1. Holds(y.spine[m + 1], k) /\ m + 1 \in 1..Len(y.spine)
    BY <1>3, <1>4, <1>5 DEF Holds
  <2> QED
    BY <1>2, <2>1, PresentHolds
<1>8. ASSUME NEW n \in Nat, Present(x, n) PROVE Present(y, n)
  <2>1. PICK i \in 1..m : Holds(x.spine[i], n)
    BY <1>8, PresentHolds DEF m
  <2>2. i \in 1..Len(y.spine) /\ Holds(y.spine[i], n)
    BY <1>3, <1>4, <2>1
  <2> QED
    BY <1>2, <2>2, PresentHolds
<1> QED
  BY <1>6, <1>7, <1>8 DEF y

\* what has been parsed below the last pnode adds to it
LEMMA BelowPresent ==
  ASSUME Trees, NEW st \in Fresh, NEW x \in Below(st), NEW n \in Nat
  PROVE  /\ Present(st, n) => Present(x, n)
         /\ \A h \in 0..Depth : Total(CountTo[h], Pstate(x).kids, n) > 0 => Present(x, n)
<1>1. st \in Started /\ Pstate(st).kids = <<>>
  BY DEF Fresh
<1>2. /\ x \in Started /\ Len(x.spine) = Len(st.spine)
      /\ \A i \in 1..(Len(st.spine) - 1) : x.spine[i] = st.spine[i]
      /\ Pstate(x) = [Pstate(st) EXCEPT !.kids = Pstate(x).kids]
  BY <1>1, BelowStarted
<1>3. Len(st.spine) \in Nat \ {0} /\ Pstate(st) = st.spine[Len(st.spine)] /\ Pstate(st) \in Pnodes
      /\ Pstate(x) = x.spine[Len(x.spine)] /\ Pstate(x).kids \in Seq(Pnodes)
  BY <1>1, <1>2, PstateTyped
<1> DEFINE l == Len(st.spine)
           p == Pstate(x)
<1>4. l \in 1..Len(x.spine) /\ x.spine[l] = p /\ p.node = Pstate(st).node
  <2> DEFINE q == [Pstate(st) EXCEPT !.kids = p.kids]
  <2>1. q.node = Pstate(st).node
    BY <1>3, PnodeFields
  <2>2. p = q
    BY <1>2
  <2>3. l \in 1..Len(x.spine) /\ x.spine[l] = p
    BY <1>2, <1>3
  <2> HIDE DEF q, l, p
  <2> QED
    BY <2>1, <2>2, <2>3
<1>5. ASSUME Present(st, n) PROVE Present(x, n)
  <2>1. PICK i \in 1..l : Holds(st.spine[i], n)
    BY <1>1, <1>5, PresentHolds
  <2>2. CASE i # l
    <3>1. i \in 1..Len(x.spine) /\ x.spine[i] = st.spine[i]
      BY <1>2, <1>3, <2>2
    <3> QED
      BY <1>2, <2>1, <3>1, PresentHolds
  <2>3. CASE i = l
    <3>1. Pstate(st).node = n
      <4>1. Total(CountTo[Depth], <<>>, n) = 0
        BY TotalNone
      <4>2. Holds(Pstate(st), n)
        BY <1>3, <2>1, <2>3
      <4> QED
        BY <1>1, <4>1, <4>2 DEF Holds
    <3>2. Holds(x.spine[l], n)
      BY <1>4, <3>1 DEF Holds
    <3> QED
      BY <1>2, <1>4, <3>2, PresentHolds
  <2> QED
    BY <2>2, <2>3
<1>6. ASSUME NEW h \in 0..Depth, Total(CountTo[h], p.kids, n) > 0 PROVE Present(x, n)
  <2>0. h \in 0..(Depth + 1) /\ Depth \in 0..(Depth + 1)
    BY GrammarAssumption
  <2>1. CountTo[h] \in CountSets /\ CountTo[Depth] \in CountSets /\ Covers(CountTo[h], CountTo[Depth])
    BY <2>0, CountToSteps, CoversAll
  <2>2. Total(CountTo[Depth], p.kids, n) > 0
    BY <1>3, <1>6, <2>1, TotalCovered
  <2>3. Holds(x.spine[l], n)
    BY <1>4, <2>2 DEF Holds
  <2> QED
    BY <1>2, <1>4, <2>3, PresentHolds
<1> QED
  BY <1>5, <1>6

-----------------------------------------------------------------------------
\* The children of once nodes.  O and C are the counts of their matches, and of
\* pnodes, in the trees one level below.

\* the pnodes have one match of a once node at most whose child is n, and none when
\* n is in the tree that they are added to
Lone(st, kids, O, C) ==
  /\ kids \in Seq(Pnodes)
  /\ \A n \in DOMAIN nodes :
       /\ Total(O, kids, n) \in {0, 1}
       /\ Total(O, kids, n) = 1 => Total(C, kids, n) > 0
       /\ Present(st, n) => Total(O, kids, n) = 0

\* ... and so has the tree of p, of which C counts the root
Single(st, p, O, C) ==
  /\ C[p][p.node] > 0
  /\ \A n \in DOMAIN nodes :
       /\ O[p][n] \in {0, 1}
       /\ O[p][n] = 1 => C[p][n] > 0
       /\ Present(st, n) => O[p][n] = 0

Onced(P, O, C) ==
  \A n \in DOMAIN nodes : \A st \in Fresh : \A v \in Vectors :
    P[n][st][v].ret \in (0..Len(v)) \ {NoMatch} => Single(st, Matching(n, v, P[n][st][v]), O, C)

LEMMA LoneNone ==
  ASSUME NEW st, NEW O, NEW C
  PROVE  Lone(st, <<>>, O, C)
BY TotalNone DEF Lone

\* a match is added to the children of x, which have the same property
LEMMA LoneMore ==
  ASSUME Trees, GrammarOk, NEW st, NEW kids, NEW O \in CountSets, NEW C \in CountSets, Lone(st, kids, O, C),
         NEW y, NEW p \in Pnodes, Single(y, p, O, C),
         \A n \in DOMAIN nodes : Present(st, n) \/ Total(C, kids, n) > 0 => Present(y, n)
  PROVE  Lone(st, Append(kids, p), O, C)
<1> DEFINE more == Append(kids, p)
<1>1. kids \in Seq(Pnodes) /\ more \in Seq(Pnodes)
  BY DEF Lone
<1>2. ASSUME NEW n \in DOMAIN nodes
      PROVE  /\ Total(O, more, n) \in {0, 1}
             /\ Total(O, more, n) = 1 => Total(C, more, n) > 0
             /\ Present(st, n) => Total(O, more, n) = 0
  <2>1. n \in Nat
    BY NodeTyped
  <2>2. /\ Total(O, more, n) = Total(O, kids, n) + O[p][n]
        /\ Total(C, more, n) = Total(C, kids, n) + C[p][n]
        /\ Total(C, kids, n) \in Nat /\ C[p][n] \in Nat
    BY <1>1, <2>1, TotalMore, TotalTyped DEF CountSets
  <2>3. /\ Total(O, kids, n) \in {0, 1}
        /\ Total(O, kids, n) = 1 => Total(C, kids, n) > 0
        /\ Present(st, n) => Total(O, kids, n) = 0
    BY DEF Lone
  <2>4. /\ O[p][n] \in {0, 1}
        /\ O[p][n] = 1 => C[p][n] > 0
        /\ Present(y, n) => O[p][n] = 0
    BY DEF Single
  <2>5. Present(st, n) \/ Total(C, kids, n) > 0 => Present(y, n)
    OBVIOUS
  <2> HIDE DEF more
  <2> QED
    BY <2>2, <2>3, <2>4, <2>5
<1> QED
  BY <1>1, <1>2 DEF Lone

\* a call of ec_parse_child() on a pnode
LEMMA ChildOnced ==
  ASSUME Trees, GrammarOk, NEW P, NEW L, Sound(P, L), Natural(L),
         NEW h \in 0..Depth, NEW O \in CountSets, NEW C, C = CountTo[h], Onced(P, O, C),
         NEW st \in Fresh, NEW x \in Below(st), Lone(st, Pstate(x).kids, O, C),
         NEW k \in DOMAIN nodes, NEW v \in Vectors,
         NEW c, c = ParseChild(P, k, x, v), c.ret \notin {Fail, NoMatch}
  PROVE  /\ Lone(st, Pstate(c.st).kids, O, C)
         /\ \E p \in Pnodes : /\ Pstate(c.st).kids = Append(Pstate(x).kids, p)
                              /\ p.node = k /\ Single(Enter(x, k), p, O, C)
<1> DEFINE r == P[k][Enter(x, k)][v]
           p == Matching(k, v, r)
<1>1. st \in Started /\ x \in Started /\ k \in Nat
  BY BelowStarted, NodeTyped DEF Fresh
<1>2. Enter(x, k) \in Fresh /\ Enter(x, k) \in Started
  BY <1>1, EnterPresent DEF Fresh
<1>3. r \in Sounds(Enter(x, k), L[k][v]) /\ L[k][v] \in SUBSET Nat
  BY <1>2 DEF Sound, Natural
<1>4. r.ret \in (0..Len(v)) \ {NoMatch} => Single(Enter(x, k), p, O, C)
  BY <1>2 DEF Onced
<1>5. p.node = k
  BY DEF Matching
<1>6. r = P[k][Enter(x, k)][v] /\ p = Matching(k, v, r)
  OBVIOUS
<1> HIDE DEF r, p
<1>7. r \in Results /\ r.st \in Below(Enter(x, k)) /\ r.ret \in Nat \cup {Fail}
  BY <1>3 DEF Sounds, NoMatch
<1>8. c.ret = r.ret /\ p \in Pnodes /\ Pstate(c.st).kids = Append(Pstate(x).kids, p)
  BY <1>1, <1>6, <1>7, ChildReturns
<1>9. c.ret \in 0..Len(v)
  BY <1>1, ChildSound
<1>10. Single(Enter(x, k), p, O, C)
  BY <1>4, <1>8, <1>9
<1>11. ASSUME NEW n \in DOMAIN nodes, Present(st, n) \/ Total(C, Pstate(x).kids, n) > 0
       PROVE  Present(Enter(x, k), n)
  <2>1. n \in Nat
    BY NodeTyped
  <2>2. Present(x, n)
    BY <1>11, <2>1, BelowPresent
  <2> QED
    BY <1>1, <2>1, <2>2, EnterPresent
<1>12. C \in CountSets
  BY CountToSteps, GrammarAssumption
<1>13. Lone(st, Append(Pstate(x).kids, p), O, C)
  BY <1>8, <1>10, <1>11, <1>12, LoneMore
<1> QED
  BY <1>5, <1>8, <1>10, <1>13

\* what the children of pnodes below st are
LoneIn(st, O, C) == {g \in Seq(Pnodes) \X Nat : Lone(st, g[1], O, C)}

LEMMA LonePair ==
  ASSUME NEW st, NEW O, NEW C, NEW kids, NEW h
  PROVE  <<kids, h>> \in LoneIn(st, O, C) <=> h \in Nat /\ Lone(st, kids, O, C)
<1> DEFINE g == <<kids, h>>
<1>1. g[1] = kids /\ g[2] = h
  OBVIOUS
<1>2. g \in Seq(Pnodes) \X Nat <=> kids \in Seq(Pnodes) /\ h \in Nat
  OBVIOUS
<1>3. Lone(st, kids, O, C) => kids \in Seq(Pnodes)
  BY DEF Lone
<1> HIDE DEF g
<1>4. g \in LoneIn(st, O, C) <=> h \in Nat /\ Lone(st, kids, O, C)
  BY <1>1, <1>2, <1>3 DEF LoneIn
<1> QED
  BY <1>4 DEF g

LEMMA OncedGrows ==
  ASSUME Trees, GrammarOk, NEW P, NEW L, Sound(P, L), Natural(L),
         NEW d \in 0..Depth, NEW O \in CountSets, NEW C, C = CountTo[d], Onced(P, O, C),
         NEW n \in DOMAIN nodes, NEW st \in Fresh, NEW v \in Vectors
  PROVE  Grows(P, LoneIn(st, O, C), n, st, v)
<1> DEFINE G == LoneIn(st, O, C)
<1>1. <<<<>>, 0>> \in G
  BY LoneNone, LonePair
<1>2. ASSUME NEW k \in KidsOf(n), NEW x \in Below(st), NEW h \in 0..Len(v), <<Pstate(x).kids, h>> \in G,
             NEW c, c = ParseChild(P, k, x, Rest(v, h)), c.ret \notin {Fail, NoMatch}
      PROVE  <<Pstate(c.st).kids, h + c.ret>> \in G
  <2>1. Rest(v, h) \in Vectors /\ Len(Rest(v, h)) = Len(v) - h /\ Len(v) \in Nat
    BY RestTyped, VectorLen
  <2>2. k \in DOMAIN nodes /\ st \in Started
    BY KidsNodes DEF Fresh
  <2>3. Lone(st, Pstate(x).kids, O, C)
    BY <1>2, LonePair
  <2>4. Lone(st, Pstate(c.st).kids, O, C)
    BY <1>2, <2>1, <2>2, <2>3, ChildOnced
  <2>5. c.ret \in 0..Len(Rest(v, h))
    BY <1>2, <2>1, <2>2, ChildSound
  <2>6. h + c.ret \in Nat
    BY <2>1, <2>5
  <2> QED
    BY <2>4, <2>6, LonePair
<1> QED
  BY <1>1, <1>2 DEF Grows

\* the match of a once node: its child was not in the tree before
LEMMA OnceOnced ==
  ASSUME Trees, GrammarOk, NEW P, NEW L, Sound(P, L), Natural(L),
         NEW d \in 0..Depth, NEW O \in CountSets, NEW C, C = CountTo[d], Onced(P, O, C),
         NEW n \in DOMAIN nodes, nodes[n].type = "once", NEW m \in DOMAIN nodes, Kids(n) = <<m>>,
         NEW st \in Fresh, NEW v \in Vectors,
         NEW r, r = ParseNode(P, n, st, v), r.ret \in (0..Len(v)) \ {NoMatch}
  PROVE  /\ ~Present(st, m)
         /\ Total(O, Pstate(r.st).kids, m) = 0 /\ Total(C, Pstate(r.st).kids, m) > 0
<1>1. nodes[n].kids[1] = m /\ m \in Nat
  BY NodeTyped DEF Kids
<1>2. r = IF Present(st, m) THEN Result(NoMatch, st) ELSE ParseChild(P, m, st, v)
  <2>1. r = OnceParse(P, nodes[n], st, v)
    BY DEF ParseNode
  <2> QED
    BY <1>1, <2>1 DEF OnceParse, Present
<1>3. ~Present(st, m)
  <2>1. Result(NoMatch, st).ret = NoMatch
    BY ResultFields
  <2> QED
    BY <1>2, <2>1
<1>4. st \in Started /\ st \in Below(st) /\ Pstate(st).kids = <<>>
  BY FreshKids
<1>5. Lone(st, Pstate(st).kids, O, C)
  BY <1>4, LoneNone
<1>6. r.ret \notin {Fail, NoMatch} /\ r = ParseChild(P, m, st, v)
  BY <1>2, <1>3, VectorLen DEF Fail
<1>7. PICK q \in Pnodes : /\ Pstate(r.st).kids = Append(Pstate(st).kids, q)
                          /\ q.node = m /\ Single(Enter(st, m), q, O, C)
  BY <1>4, <1>5, <1>6, ChildOnced
<1>8. C \in CountSets
  BY CountToSteps, GrammarAssumption
<1> DEFINE none == Pstate(st).kids
<1>9. none \in Seq(Pnodes) /\ Pstate(r.st).kids = Append(none, q) /\ none = <<>>
  BY <1>4, <1>7
<1> HIDE DEF none
<1>10. /\ Total(O, Pstate(r.st).kids, m) = Total(O, none, m) + O[q][m]
       /\ Total(C, Pstate(r.st).kids, m) = Total(C, none, m) + C[q][m]
  <2>1. Total(O, Append(none, q), m) = Total(O, none, m) + O[q][m]
    BY <1>1, <1>9, TotalMore
  <2>2. Total(C, Append(none, q), m) = Total(C, none, m) + C[q][m]
    BY <1>1, <1>8, <1>9, TotalMore
  <2> QED
    BY <1>9, <2>1, <2>2
<1>11. Total(O, none, m) = 0 /\ Total(C, none, m) = 0
  BY <1>9, TotalNone
<1>12. Present(Enter(st, m), m)
  BY <1>1, <1>4, EnterPresent
<1>13. O[q][m] = 0 /\ C[q][m] > 0 /\ C[q][m] \in Nat
  BY <1>1, <1>7, <1>8, <1>12 DEF Single, CountSets
<1> QED
  BY <1>3, <1>10, <1>11, <1>13

LEMMA DeeperOnced ==
  ASSUME Trees, GrammarOk, NoSubset, NEW P, NEW L, Sound(P, L), Natural(L),
         NEW d \in 0..Depth, NEW O \in CountSets, NEW C, C = CountTo[d], Onced(P, O, C)
  PROVE  Onced(Callbacks(P), OnceCounts(O), Counts(C))
<1> SUFFICES ASSUME NEW n \in DOMAIN nodes, NEW st \in Fresh, NEW v \in Vectors,
                    Callbacks(P)[n][st][v].ret \in (0..Len(v)) \ {NoMatch}
             PROVE  Single(st, Matching(n, v, Callbacks(P)[n][st][v]), OnceCounts(O), Counts(C))
  BY DEF Onced
<1> DEFINE r == Callbacks(P)[n][st][v]
           p == Matching(n, v, r)
<1>1. n \in Nat /\ st \in States /\ st \in Started
  BY NodeTyped DEF Fresh, Started
<1>2. r = ParseNode(P, n, st, v)
  BY <1>1 DEF Callbacks
<1>3. r.ret \in (0..Len(v)) \ {NoMatch}
  OBVIOUS
<1> HIDE DEF r
<1>4. r.st \in Below(st) /\ Lone(st, Pstate(r.st).kids, O, C)
  <2> DEFINE G == LoneIn(st, O, C)
  <2>1. Grows(P, G, n, st, v)
    BY OncedGrows
  <2> HIDE DEF G
  <2>2. /\ r.st \in Below(st)
        /\ IsLeaf(n) => Pstate(r.st).kids = <<>>
        /\ ~IsLeaf(n) => <<Pstate(r.st).kids, r.ret>> \in G
    BY <1>2, <1>3, <2>1, NodeGathers
  <2>3. IsLeaf(n) => Lone(st, Pstate(r.st).kids, O, C)
    BY <2>2, LoneNone
  <2>4. ~IsLeaf(n) => Lone(st, Pstate(r.st).kids, O, C)
    BY <2>2, LonePair DEF G
  <2> QED
    BY <2>2, <2>3, <2>4
<1>5. Pstate(r.st).kids \in Seq(Pnodes) /\ SubSeq(v, 1, r.ret) \in Vectors
  <2>1. r.st \in Started
    BY <1>1, <1>4, BelowStarted
  <2>2. r.ret \in Nat /\ r.ret <= Len(v)
    BY <1>3, VectorLen
  <2> QED
    BY <2>1, <2>2, PstateTyped, RestTyped
<1>6. p \in Pnodes
  <2>1. p \in [node : Nat, matches : BOOLEAN, vec : Vectors, kids : Seq(Pnodes)]
    BY <1>1, <1>5 DEF Matching
  <2> QED
    BY <2>1 DEF Trees
<1>7. p.node = n /\ p.kids = Pstate(r.st).kids
  BY DEF Matching
<1> HIDE DEF p
<1>8. C \in CountSets
  BY CountToSteps, GrammarAssumption
<1>9. ASSUME NEW m \in Nat
      PROVE  /\ n = m \/ Total(C, p.kids, m) > 0 => Counts(C)[p][m] > 0
             /\ nodes[n].type = "once" /\ Kids(n) = <<m>> => OnceCounts(O)[p][m] = 1 + Total(O, p.kids, m)
             /\ ~(nodes[n].type = "once" /\ Kids(n) = <<m>>) => OnceCounts(O)[p][m] = Total(O, p.kids, m)
  <2>1. /\ Counts(C)[p][m] = (IF p.node = m THEN 1 ELSE 0) + Total(C, p.kids, m)
        /\ Total(C, p.kids, m) \in Nat
    BY <1>6, <1>8, CountsTyped
  <2>2. /\ OnceCounts(O)[p][m] =
             (IF nodes[p.node].type = "once" /\ Kids(p.node) = <<m>> THEN 1 ELSE 0) + Total(O, p.kids, m)
        /\ Total(O, p.kids, m) \in Nat
    BY <1>6, CountsTyped
  <2>3. n = m \/ Total(C, p.kids, m) > 0 => Counts(C)[p][m] > 0
    BY <1>7, <2>1
  <2>4. nodes[n].type = "once" /\ Kids(n) = <<m>> => OnceCounts(O)[p][m] = 1 + Total(O, p.kids, m)
    BY <1>7, <2>2
  <2>5. ~(nodes[n].type = "once" /\ Kids(n) = <<m>>) => OnceCounts(O)[p][m] = Total(O, p.kids, m)
    BY <1>7, <2>2
  <2> QED
    BY <2>3, <2>4, <2>5
<1>10. Counts(C)[p][p.node] > 0
  BY <1>1, <1>7, <1>9
<1>11. ASSUME NEW m \in DOMAIN nodes
       PROVE  /\ OnceCounts(O)[p][m] \in {0, 1}
              /\ OnceCounts(O)[p][m] = 1 => Counts(C)[p][m] > 0
              /\ Present(st, m) => OnceCounts(O)[p][m] = 0
  <2>1. m \in Nat
    BY NodeTyped
  <2>2. Total(C, p.kids, m) > 0 => Counts(C)[p][m] > 0
    BY <1>9, <2>1
  <2>3. CASE nodes[n].type = "once" /\ Kids(n) = <<m>>
    <3>1. ~Present(st, m) /\ Total(O, p.kids, m) = 0 /\ Total(C, p.kids, m) > 0
      BY <1>2, <1>3, <1>7, <2>3, OnceOnced
    <3>2. OnceCounts(O)[p][m] = 1 + Total(O, p.kids, m)
      BY <1>9, <2>1, <2>3
    <3> QED
      BY <2>2, <3>1, <3>2
  <2>4. CASE ~(nodes[n].type = "once" /\ Kids(n) = <<m>>)
    <3>1. OnceCounts(O)[p][m] = Total(O, p.kids, m)
      BY <1>9, <2>1, <2>4
    <3>2. /\ Total(O, p.kids, m) \in {0, 1}
          /\ Total(O, p.kids, m) = 1 => Total(C, p.kids, m) > 0
          /\ Present(st, m) => Total(O, p.kids, m) = 0
      BY <1>4, <1>7 DEF Lone
    <3> QED
      BY <2>2, <3>1, <3>2
  <2> QED
    BY <2>3, <2>4
<1>12. Single(st, p, OnceCounts(O), Counts(C))
  BY <1>10, <1>11 DEF Single
<1> QED
  BY <1>12 DEF p, r

LEMMA OverflowOnced ==
  ASSUME GrammarOk, NEW O, NEW C
  PROVE  Onced(Overflow, O, C)
<1> SUFFICES ASSUME NEW n \in DOMAIN nodes, NEW st \in Fresh, NEW v \in Vectors
             PROVE  Overflow[n][st][v].ret \notin 0..Len(v)
  BY DEF Onced
<1>1. n \in Nat /\ st \in States
  BY NodeTyped DEF Fresh, Started
<1>2. Overflow[n][st][v] = Fails([st EXCEPT !.faults = @ \cup {"overflow"}])
  BY <1>1 DEF Overflow
<1>3. Overflow[n][st][v].ret = Fail
  BY <1>2, ResultFields DEF Fails
<1> QED
  BY <1>3, VectorLen DEF Fail

LEMMA EngineOnced ==
  ASSUME Trees, GrammarOk, NoSubset
  PROVE  Onced(ParseTo[Depth], OncesTo[Depth], CountTo[Depth])
<1> DEFINE S == {d \in 0..Depth : /\ Sound(ParseTo[d], LengthsTo[d]) /\ Natural(LengthsTo[d])
                                  /\ Onced(ParseTo[d], OncesTo[d], CountTo[d])}
<1>0. Depth \in Nat
  BY GrammarAssumption
<1>1. 0 \in S
  BY <1>0, ParseToSteps, OverflowSound, OverflowOnced
<1>2. ASSUME NEW d \in 0..(Depth - 1), d \in S PROVE d + 1 \in S
  <2>1. d + 1 \in 1..Depth /\ (d + 1) - 1 = d /\ d + 1 \in 0..Depth /\ d \in 0..Depth /\ d + 1 \in 1..(Depth + 1)
    BY <1>0
  <2>2. ParseTo[d + 1] = Callbacks(ParseTo[d]) /\ LengthsTo[d + 1] = Deeper(LengthsTo[d])
    BY <2>1, ParseToSteps
  <2>3. OncesTo[d + 1] = OnceCounts(OncesTo[d]) /\ OncesTo[d] \in CountSets
        /\ CountTo[d + 1] = Counts(CountTo[d])
    BY <2>1, OncesToSteps, CountToSteps
  <2>4. /\ Sound(ParseTo[d], LengthsTo[d]) /\ Natural(LengthsTo[d])
        /\ Onced(ParseTo[d], OncesTo[d], CountTo[d])
    BY <1>2
  <2>5. Sound(ParseTo[d + 1], LengthsTo[d + 1]) /\ Natural(LengthsTo[d + 1])
    BY <2>2, <2>4, DeeperSound
  <2>6. Onced(ParseTo[d + 1], OncesTo[d + 1], CountTo[d + 1])
    BY <2>1, <2>2, <2>3, <2>4, DeeperOnced
  <2> QED
    BY <2>1, <2>5, <2>6
<1> HIDE DEF S
<1>3. Depth \in S
  BY <1>0, <1>1, <1>2, Induction
<1> QED
  BY <1>3 DEF S

LEMMA StrvecOnced ==
  ASSUME Trees, ParseInv, NoSubset, Built, NEW mem \in Nat,
         NEW result, result = ParseStrvec(Root, input, mem),
         result.op = "parse", result.ret # Fail, result.ret # NoMatch
  PROVE  \A n \in DOMAIN nodes : OncesTo[Depth][result.tree][n] <= 1
<1>1. Root \in DOMAIN nodes /\ input \in Vectors /\ GrammarOk
  BY RootNode, InputVector DEF ParseInv, GrammarInv
<1>2. PICK st \in Fresh :
        LET r == ParseTo[Depth][Root][st][input]
        IN  /\ result.ret = r.ret
            /\ r.ret # NoMatch => r.ret \in 0..Len(input) /\ result.tree = Matching(Root, input, r)
  BY StrvecMatching
<1> DEFINE r == ParseTo[Depth][Root][st][input]
<1>3. r.ret \in (0..Len(input)) \ {NoMatch} /\ result.ret = r.ret /\ result.tree = Matching(Root, input, r)
  BY <1>2
<1>4. Single(st, result.tree, OncesTo[Depth], CountTo[Depth])
  BY <1>1, <1>3, EngineOnced DEF Onced
<1>5. ASSUME NEW n \in DOMAIN nodes PROVE OncesTo[Depth][result.tree][n] <= 1
  <2>1. OncesTo[Depth][result.tree][n] \in {0, 1}
    BY <1>4 DEF Single
  <2> QED
    BY <2>1
<1> QED
  BY <1>5

\* A once node prevents its child from being parsed more than once: of the matches
\* in the tree, wherever they are, one at most is a child that a once node guards,
\* in every grammar without subset nodes, for every input and whichever
\* allocation fails.
THEOREM ChildrenParsedOnce == ASSUME Trees PROVE ParseSpec => []ChildParsedOnce
<1>1. ASSUME ParseInv PROVE ChildParsedOnce
  <2> SUFFICES ASSUME Matched, NoSubset
               PROVE  \A n \in DOMAIN nodes : OncesTo[Depth][out.tree][n] <= 1
    BY DEF ChildParsedOnce
  <2>1. out.op = "parse" /\ out.ret # Fail /\ out.ret # NoMatch
    BY DEF Matched, Parsed
  <2>2. out # NoResult
    BY <2>1 DEF NoResult
  <2>3. PICK mem \in family.budgets : out = ParseStrvec(Root, input, mem)
    BY <1>1, <2>2 DEF ParseInv, GrammarInv
  <2>4. mem \in Nat /\ Built
    BY <1>1, <2>2, FamilyFields DEF ParseInv, GrammarInv
  <2> QED
    BY <1>1, <2>1, <2>3, <2>4, StrvecOnced
<1> QED
  BY <1>1, ParseInvariant, PTL

-----------------------------------------------------------------------------
\* The longest list.  A subset node whose children each match one length at most, as
\* leaves do, finds a list of as many nodes as there can be.

\* Lists and SubsetTable are made in as many steps as there are kids.
ListsMade(Ls, L, n) ==
  /\ Ls[0] = NoLists /\ \A d \in 0..(n - 1) : Ls[d + 1] = MoreLists(L, Ls[d])
  /\ \A kids, v : Len(kids) = n => Lists(L, kids, v) = Ls[n][kids][v]
TablesMade(T, P, n) ==
  /\ T[0] = NoTable /\ \A d \in 0..(n - 1) : T[d + 1] = SubsetTables(P, T[d])
  /\ \A kids, x, v : Len(kids) = n => SubsetTable(P, kids, x, v) = T[n][kids][x][v]

LEMMA ListsSteps ==
  ASSUME NEW L, NEW n \in Nat
  PROVE  \E Ls : ListsMade(Ls, L, n)
<1> DEFINE Ls == CHOOSE to : to = [d \in 0..n |-> IF d = 0 THEN NoLists ELSE MoreLists(L, to[d - 1])]
<1>1. ASSUME NEW kids, NEW v, Len(kids) = n PROVE Lists(L, kids, v) = Ls[n][kids][v]
  BY <1>1 DEF Lists
<1>2. Ls = [d \in 0..n |-> IF d = 0 THEN NoLists ELSE MoreLists(L, Ls[d - 1])]
  BY ListsExist DEF ListsGo
<1> HIDE DEF Ls
<1>3. Ls[0] = NoLists
  BY <1>2
<1>4. ASSUME NEW d \in 0..(n - 1) PROVE Ls[d + 1] = MoreLists(L, Ls[d])
  <2>1. d + 1 \in 0..n /\ d + 1 # 0 /\ (d + 1) - 1 = d
    OBVIOUS
  <2> QED
    BY <1>2, <2>1
<1>5. ListsMade(Ls, L, n)
  BY <1>1, <1>3, <1>4 DEF ListsMade
<1> QED
  BY <1>5

LEMMA TablesSteps ==
  ASSUME NEW P, NEW n \in Nat
  PROVE  \E T : TablesMade(T, P, n)
<1> DEFINE T == CHOOSE to : to = [d \in 0..n |-> IF d = 0 THEN NoTable ELSE SubsetTables(P, to[d - 1])]
<1>1. ASSUME NEW kids, NEW x, NEW v, Len(kids) = n PROVE SubsetTable(P, kids, x, v) = T[n][kids][x][v]
  BY <1>1 DEF SubsetTable
<1>2. T = [d \in 0..n |-> IF d = 0 THEN NoTable ELSE SubsetTables(P, T[d - 1])]
  BY TablesExist DEF TablesGo
<1> HIDE DEF T
<1>3. T[0] = NoTable
  BY <1>2
<1>4. ASSUME NEW d \in 0..(n - 1) PROVE T[d + 1] = SubsetTables(P, T[d])
  <2>1. d + 1 \in 0..n /\ d + 1 # 0 /\ (d + 1) - 1 = d
    OBVIOUS
  <2> QED
    BY <1>2, <2>1
<1>5. TablesMade(T, P, n)
  BY <1>1, <1>3, <1>4 DEF TablesMade
<1> QED
  BY <1>5

\* The lists depend on what the nodes of the table match.
SameLists(Ls, Ms, E) == \A table : TableIn(table, E) => \A v \in Vectors : Ls[table][v] = Ms[table][v]

LEMMA MoreSame ==
  ASSUME NEW L, NEW K, NEW E, \A n \in E : \A v \in Vectors : L[n][v] = K[n][v] /\ K[n][v] \in SUBSET Nat,
         NEW Ls, NEW Ms, SameLists(Ls, Ms, E)
  PROVE  SameLists(MoreLists(L, Ls), MoreLists(K, Ms), E)
<1> SUFFICES ASSUME NEW table, TableIn(table, E), NEW v \in Vectors
             PROVE  MoreLists(L, Ls)[table][v] = MoreLists(K, Ms)[table][v]
  BY DEF SameLists
<1>1. table \in Seq(Nat)
  BY DEF TableIn
<1>2. /\ MoreLists(L, Ls)[table][v] = {<<0, 0>>} \cup UNION {Longer(L, Ls, table, v, i) : i \in DOMAIN table}
      /\ MoreLists(K, Ms)[table][v] = {<<0, 0>>} \cup UNION {Longer(K, Ms, table, v, i) : i \in DOMAIN table}
  BY <1>1 DEF MoreLists
<1>3. ASSUME NEW i \in DOMAIN table PROVE Longer(L, Ls, table, v, i) = Longer(K, Ms, table, v, i)
  <2> DEFINE others == SE!RemoveAt(table, i)
  <2>1. TableIn(others, E) /\ table[i] \in E
    BY RemoveWithin DEF TableIn
  <2>2. L[table[i]][v] = K[table[i]][v] /\ K[table[i]][v] \in SUBSET Nat
    BY <2>1
  <2>3. ASSUME NEW k \in K[table[i]][v] PROVE Ls[others][Rest(v, k)] = Ms[others][Rest(v, k)]
    <3>1. Rest(v, k) \in Vectors
      BY <2>2, RestTyped
    <3> HIDE DEF others
    <3> QED
      BY <2>1, <3>1 DEF SameLists
  <2> HIDE DEF others
  <2>4. /\ Longer(L, Ls, table, v, i) =
             UNION {{<<l[1] + 1, l[2] + k>> : l \in Ls[others][Rest(v, k)]} : k \in L[table[i]][v]}
        /\ Longer(K, Ms, table, v, i) =
             UNION {{<<l[1] + 1, l[2] + k>> : l \in Ms[others][Rest(v, k)]} : k \in K[table[i]][v]}
    BY DEF Longer, others
  <2> QED
    BY <2>2, <2>3, <2>4
<1> QED
  BY <1>2, <1>3

LEMMA ListsSame ==
  ASSUME NEW L, NEW K, NEW E, \A n \in E : \A v \in Vectors : L[n][v] = K[n][v] /\ K[n][v] \in SUBSET Nat,
         NEW kids, TableIn(kids, E), NEW v \in Vectors
  PROVE  Lists(L, kids, v) = Lists(K, kids, v)
<1> DEFINE n == Len(kids)
<1>0. n \in Nat /\ Len(kids) = n
  BY DEF TableIn
<1> HIDE DEF n
<1>1. PICK Ls : ListsMade(Ls, L, n)
  BY <1>0, ListsSteps
<1>2. PICK Ms : ListsMade(Ms, K, n)
  BY <1>0, ListsSteps
<1> DEFINE S == {d \in 0..n : SameLists(Ls[d], Ms[d], E)}
<1>3. 0 \in S
  BY <1>0, <1>1, <1>2 DEF SameLists, ListsMade
<1>4. ASSUME NEW d \in 0..(n - 1), d \in S PROVE d + 1 \in S
  <2>1. d + 1 \in 0..n
    BY <1>0
  <2>2. SameLists(MoreLists(L, Ls[d]), MoreLists(K, Ms[d]), E)
    BY <1>4, MoreSame
  <2> QED
    BY <1>1, <1>2, <2>1, <2>2 DEF ListsMade
<1> HIDE DEF S
<1>5. n \in S
  <2>1. n \in Nat
    BY <1>0
  <2>2. 0..n \subseteq S
    BY <1>3, <1>4, <2>1, Induction
  <2> QED
    BY <2>1, <2>2
<1>6. Ls[n][kids][v] = Ms[n][kids][v]
  BY <1>5 DEF S, SameLists
<1> QED
  BY <1>0, <1>1, <1>2, <1>6 DEF ListsMade

\* A call on a node of E that returns tells what the node matches.
Exact(P, L, E) ==
  \A n \in E : \A st \in Started : \A v \in Vectors :
    /\ P[n][st][v].ret = NoMatch => L[n][v] = {}
    /\ P[n][st][v].ret \notin {Fail, NoMatch} => L[n][v] = {P[n][st][v].ret}

LEMMA ChildExact ==
  ASSUME Trees, GrammarOk, NEW P, NEW L, Sound(P, L), Natural(L),
         NEW E \in SUBSET DOMAIN nodes, Exact(P, L, E),
         NEW n \in E, NEW x \in Started, NEW v \in Vectors, NEW c, c = ParseChild(P, n, x, v)
  PROVE  /\ c.ret = NoMatch => L[n][v] = {}
         /\ c.ret \notin {Fail, NoMatch} => L[n][v] = {c.ret}
<1> DEFINE r == P[n][Enter(x, n)][v]
<1>1. n \in DOMAIN nodes /\ n \in Nat /\ x \in States
  BY NodeTyped DEF Started
<1>2. Enter(x, n) \in Started
  BY <1>1, EnterTyped
<1>3. r \in Sounds(Enter(x, n), L[n][v]) /\ L[n][v] \in SUBSET Nat
  BY <1>1, <1>2 DEF Sound, Natural
<1>4. /\ r.ret = NoMatch => L[n][v] = {}
      /\ r.ret \notin {Fail, NoMatch} => L[n][v] = {r.ret}
  BY <1>2 DEF Exact
<1> HIDE DEF r
<1>5. r \in Results /\ r.st \in Below(Enter(x, n)) /\ r.ret \in Nat \cup {Fail}
  BY <1>3 DEF Sounds, NoMatch
<1>6. r = P[n][Enter(x, n)][v]
  BY DEF r
<1>7. /\ c.ret = NoMatch => r.ret = NoMatch
      /\ c.ret \notin {Fail, NoMatch} => c.ret = r.ret
  BY <1>1, <1>5, <1>6, ChildReturns
<1> QED
  BY <1>4, <1>7

\* no list has more nodes than the best list of q
Longest(q, lists) == ~q.fails => \A l \in lists : l[1] <= q.best.nodes
SubsetsLongest(T, Ls, E) ==
  \A table : TableIn(table, E) => \A x \in Started : \A v \in Vectors :
    Longest(T[table][x][v], Ls[table][v])

LEMMA WithinExisting ==
  ASSUME NEW E \in SUBSET DOMAIN nodes, NEW table, TableIn(table, E)
  PROVE  Existing(table)
BY DEF TableIn, Existing

\* the best list found so far, and the lists that begin with child i
LEMMA SubsetChildLongest ==
  ASSUME Trees, GrammarOk, NEW P, NEW L, Sound(P, L), Natural(L),
         NEW E \in SUBSET DOMAIN nodes, Exact(P, L, E),
         NEW T, NEW Ls, SubsetsSound(T, Ls), ListsNatural(Ls), SubsetsLongest(T, Ls, E),
         NEW table, TableIn(table, E), NEW i \in DOMAIN table, NEW x \in Started, NEW v \in Vectors,
         NEW r \in SubsetResults, r.st \in Below(x), NEW q, q = SubsetChild(P, T, table, i, r, v), ~q.fails
  PROVE  /\ ~r.fails /\ r.best.nodes \in Nat /\ q.best.nodes \in Nat /\ r.best.nodes <= q.best.nodes
         /\ \A l \in Longer(L, Ls, table, v, i) : l[1] <= q.best.nodes
<1> DEFINE c == ParseChild(P, table[i], r.st, v)
           others == SE!RemoveAt(table, i)
<1>1. ~r.fails
  BY DEF SubsetChild
<1>2. q = SubsetCalled(T, table, i, r, c, v)
  BY <1>1 DEF SubsetChild
<1>3. table[i] \in E /\ table[i] \in DOMAIN nodes /\ TableIn(others, E) /\ Existing(others)
  BY RemoveWithin, WithinExisting DEF TableIn
<1>4. r.st \in Started /\ x \in Started /\ r.best \in Bests /\ r.best.nodes \in Nat
  BY BelowStarted DEF SubsetResults, Bests
<1>5. /\ c \in Results /\ c.st \in Below(x) /\ c.st \in Started /\ c.st \in States
      /\ c.ret \in {Fail, NoMatch} \/ c.ret \in L[table[i]][v] \cap (0..Len(v))
  BY <1>3, ChildSound, BelowStates
<1>6. /\ c.ret = NoMatch => L[table[i]][v] = {}
      /\ c.ret \notin {Fail, NoMatch} => L[table[i]][v] = {c.ret}
  BY <1>3, <1>4, ChildExact
<1>7. Longer(L, Ls, table, v, i) =
        UNION {{<<l[1] + 1, l[2] + k>> : l \in Ls[others][Rest(v, k)]} : k \in L[table[i]][v]}
  BY DEF Longer
<1> HIDE DEF c, others
<1>8. CASE c.ret = NoMatch
  <2>1. q = SubsetFound(c.st, r.best)
    BY <1>2, <1>8 DEF SubsetCalled, Fail, NoMatch
  <2>2. q.best = r.best
    BY <1>4, <1>5, <2>1, FoundTyped
  <2>3. Longer(L, Ls, table, v, i) = {}
    BY <1>6, <1>7, <1>8
  <2> QED
    BY <1>1, <1>4, <2>2, <2>3
<1>9. CASE c.ret = Fail
  <2>1. q = SubsetFails(c.st)
    BY <1>2, <1>9 DEF SubsetCalled, Fail, NoMatch
  <2> QED
    BY <2>1 DEF SubsetFails
<1>10. CASE c.ret \notin {Fail, NoMatch} /\ c.st.mem = 0
  <2>1. q = SubsetFails(Alloc(c.st))
    BY <1>2, <1>10 DEF SubsetCalled
  <2> QED
    BY <2>1 DEF SubsetFails
<1>11. CASE c.ret \notin {Fail, NoMatch} /\ c.st.mem # 0
  <2> DEFINE y == Alloc(c.st)
             w == Rest(v, c.ret)
             sub == T[others][y][w]
             found == [ret |-> c.ret + sub.best.ret, nodes |-> sub.best.nodes + 1,
                       pnodes |-> <<SE!Last(Pstate(sub.st).kids)>>]
             best == IF Better(found, r.best) THEN found ELSE r.best
  <2>1. q = SubsetTried(r, c, sub)
    BY <1>2, <1>11 DEF SubsetCalled, others
  <2>2. c.ret \in 0..Len(v) /\ c.ret \in Nat /\ L[table[i]][v] = {c.ret}
    BY <1>5, <1>6, <1>11, VectorLen
  <2>3. w \in Vectors
    BY <2>2, RestTyped
  <2>4. y \in Below(x)
    BY <1>5, AllocTyped
  <2>5. y \in Started
    BY <2>4, BelowStarted
  <2>6. sub \in SubsetIn(y, Ls[others][w], w) /\ Longest(sub, Ls[others][w])
        /\ Ls[others][w] \in SUBSET (Nat \X Nat)
    BY <1>3, <2>3, <2>5 DEF SubsetsSound, SubsetsLongest, ListsNatural
  <2>7. ~sub.fails
    BY <2>1 DEF SubsetTried
  <2> HIDE DEF y, w, sub
  <2>8. sub.best.nodes \in Nat
    BY <2>6 DEF SubsetIn, SubsetResults, Bests
  <2>9. q = SubsetFound(DelLastChild(sub.st), best)
    BY <2>1, <2>7 DEF SubsetTried
  <2>10. q.best = best
    BY <2>9 DEF SubsetFound
  <2>11. found.nodes = sub.best.nodes + 1
    OBVIOUS
  <2> HIDE DEF found
  <2>12. best.nodes \in Nat /\ r.best.nodes <= best.nodes /\ sub.best.nodes + 1 <= best.nodes
    BY <1>4, <2>8, <2>11 DEF Better
  <2> HIDE DEF best
  <2>13. ASSUME NEW l \in Longer(L, Ls, table, v, i) PROVE l[1] <= best.nodes
    <3>1. Longer(L, Ls, table, v, i) = {<<l1[1] + 1, l1[2] + c.ret>> : l1 \in Ls[others][w]}
      BY <1>7, <2>2 DEF w
    <3>2. PICK m \in Ls[others][w] : l = <<m[1] + 1, m[2] + c.ret>>
      BY <3>1
    <3>3. m[1] <= sub.best.nodes /\ m[1] \in Nat
      BY <2>6, <2>7 DEF Longest
    <3>4. l[1] = m[1] + 1
      BY <3>2
    <3> QED
      BY <2>8, <2>12, <3>3, <3>4
  <2> QED
    BY <1>1, <1>4, <2>10, <2>12, <2>13
<1> QED
  BY <1>8, <1>9, <1>10, <1>11

LEMMA SubsetLoopLongest ==
  ASSUME Trees, GrammarOk, NEW P, NEW L, Sound(P, L), Natural(L),
         NEW E \in SUBSET DOMAIN nodes, Exact(P, L, E),
         NEW T, NEW Ls, SubsetsSound(T, Ls), ListsNatural(Ls), SubsetsLongest(T, Ls, E),
         NEW table, TableIn(table, E), NEW x \in Started, NEW v \in Vectors
  PROVE  Longest(SubsetLoop(P, T, table, x, v), MoreLists(L, Ls)[table][v])
<1> DEFINE m == Len(table)
           step == [i \in DOMAIN table |-> [r \in SubsetResults |-> SubsetChild(P, T, table, i, r, v)]]
           first == SubsetFound(x, NoBest)
           lists == MoreLists(L, Ls)[table][v]
           Tried(r, i) == ~r.fails => \A j \in 1..i : \A l \in Longer(L, Ls, table, v, j) : l[1] <= r.best.nodes
           at == [i \in 0..m |-> {r \in SubsetIn(x, lists, v) : Tried(r, i)}]
<1>0. m \in Nat /\ DOMAIN table = 1..m /\ table \in Seq(Nat) /\ Existing(table)
  <2>1. Existing(table)
    BY WithinExisting
  <2> QED
    BY <2>1 DEF Existing
<1>1. lists = {<<0, 0>>} \cup UNION {Longer(L, Ls, table, v, i) : i \in DOMAIN table}
  BY <1>0 DEF MoreLists
<1>2. first \in SubsetIn(x, lists, v)
  <2>1. x \in States /\ x \in Below(x)
    BY BelowSelf, BelowStates
  <2>2. first \in SubsetResults /\ first.st = x /\ ~first.fails /\ first.best = NoBest
    BY <2>1, NoBestTyped, FoundTyped
  <2>3. Len(Pstate(x).kids) \in Nat /\ Len(v) \in Nat
    BY DelKids, VectorLen
  <2> HIDE DEF first
  <2>4. <<first.best.nodes, first.best.ret>> \in lists /\ first.best.ret \in 0..Len(v)
    BY <1>1, <2>2, <2>3, NoBestTyped
  <2> HIDE DEF lists
  <2> QED
    BY <2>1, <2>2, <2>3, <2>4 DEF SubsetIn
<1>3. ASSUME NEW i \in 1..m, NEW r \in at[i - 1] PROVE step[i][r] \in at[i]
  <2> DEFINE q == SubsetChild(P, T, table, i, r, v)
  <2>1. i \in 0..m /\ i - 1 \in 0..m /\ i \in DOMAIN table /\ 1..i = (1..(i - 1)) \cup {i}
    BY <1>0
  <2>2. r \in SubsetIn(x, lists, v) /\ r \in SubsetResults /\ r.st \in Below(x) /\ Tried(r, i - 1)
    BY <2>1 DEF SubsetIn
  <2>3. q \in SubsetIn(x, lists, v)
    BY <1>0, <2>1, <2>2, SubsetRoundSound
  <2>4. step[i][r] = q
    BY <2>1, <2>2
  <2>5. q = SubsetChild(P, T, table, i, r, v)
    OBVIOUS
  <2> HIDE DEF q, lists, step
  <2>6. ASSUME ~q.fails, NEW j \in 1..i, NEW l \in Longer(L, Ls, table, v, j) PROVE l[1] <= q.best.nodes
    <3>1. /\ ~r.fails /\ r.best.nodes \in Nat /\ q.best.nodes \in Nat /\ r.best.nodes <= q.best.nodes
          /\ \A l1 \in Longer(L, Ls, table, v, i) : l1[1] <= q.best.nodes
      BY <2>1, <2>2, <2>5, <2>6, SubsetChildLongest
    <3>2. CASE j = i
      BY <2>6, <3>1, <3>2
    <3>3. CASE j \in 1..(i - 1)
      <4>1. l[1] <= r.best.nodes
        BY <2>2, <2>6, <3>1, <3>3
      <4>2. l[1] \in Nat
        <5> DEFINE more == MoreLists(L, Ls)[table][v]
        <5>1. more \in SUBSET (Nat \X Nat)
          BY <1>0, ListsNaturalStep DEF ListsNatural
        <5>2. j \in DOMAIN table
          BY <1>0, <2>1
        <5>3. l \in more
          BY <1>1, <5>2 DEF lists
        <5> HIDE DEF more
        <5> QED
          BY <5>1, <5>3
      <4> QED
        BY <3>1, <4>1, <4>2
    <3> QED
      BY <2>1, <3>2, <3>3
  <2>7. Tried(q, i)
    BY <2>6
  <2> HIDE DEF Tried
  <2> QED
    BY <2>1, <2>3, <2>4, <2>7
<1> DEFINE r == Loop(step, first, m)
<1>4. SubsetLoop(P, T, table, x, v) = SubsetEnd(r)
  BY DEF SubsetLoop
<1>5. r \in SubsetIn(x, lists, v) /\ Tried(r, m)
  <2>1. first \in at[0]
    <3>1. Tried(first, 0)
      OBVIOUS
    <3> HIDE DEF Tried, first
    <3> QED
      BY <1>0, <1>2, <3>1
  <2>2. at[m] = {s \in SubsetIn(x, lists, v) : Tried(s, m)}
    BY <1>0
  <2>3. r \in at[m]
    <3> HIDE DEF step, first, at, m
    <3> QED
      BY <1>0, <1>3, <2>1, LoopInvariant
  <2> HIDE DEF Tried, r, lists, at
  <2> QED
    BY <2>2, <2>3
<1> HIDE DEF r
<1>6. Longest(r, lists)
  <2>1. ASSUME ~r.fails, NEW l \in lists PROVE l[1] <= r.best.nodes
    <3>1. r.best.nodes \in Nat
      BY <1>5 DEF SubsetIn, SubsetResults, Bests
    <3>2. CASE l = <<0, 0>>
      BY <3>1, <3>2
    <3>3. CASE l \in UNION {Longer(L, Ls, table, v, i) : i \in DOMAIN table}
      BY <1>0, <1>5, <2>1, <3>3
    <3> QED
      BY <1>1, <3>2, <3>3
  <2> HIDE DEF lists
  <2> QED
    BY <2>1 DEF Longest
<1> HIDE DEF lists
<1>7. r \in SubsetResults
  BY <1>5 DEF SubsetIn
<1>8. SubsetEnd(r).fails = r.fails /\ SubsetEnd(r).best = r.best
  BY <1>7 DEF SubsetEnd, SubsetResults
<1>9. Longest(SubsetEnd(r), lists)
  BY <1>6, <1>8 DEF Longest
<1> QED
  BY <1>4, <1>9 DEF lists

LEMMA SubsetStepLongest ==
  ASSUME Trees, GrammarOk, NEW P, NEW L, Sound(P, L), Natural(L),
         NEW E \in SUBSET DOMAIN nodes, Exact(P, L, E),
         NEW T, NEW Ls, SubsetsSound(T, Ls), ListsNatural(Ls), SubsetsLongest(T, Ls, E)
  PROVE  SubsetsLongest(SubsetTables(P, T), MoreLists(L, Ls), E)
<1> SUFFICES ASSUME NEW table, TableIn(table, E), NEW x \in Started, NEW v \in Vectors
             PROVE  Longest(SubsetTables(P, T)[table][x][v], MoreLists(L, Ls)[table][v])
  BY DEF SubsetsLongest
<1> DEFINE lists == MoreLists(L, Ls)[table][v]
           q == SubsetTables(P, T)[table][x][v]
<1>1. table \in Seq(Nat) /\ x \in States
  BY DEF TableIn, Started
<1>2. q = IF x.mem = 0 THEN SubsetFails(Alloc(x)) ELSE SubsetLoop(P, T, table, Alloc(x), v)
  BY <1>1 DEF SubsetTables
<1>3. Alloc(x) \in Below(x)
  BY BelowSelf, AllocTyped
<1>4. Alloc(x) \in Started
  BY <1>3, BelowStarted
<1>5. Longest(SubsetLoop(P, T, table, Alloc(x), v), lists)
  BY <1>4, SubsetLoopLongest
<1>6. SubsetFails(Alloc(x)).fails
  BY DEF SubsetFails
<1> HIDE DEF q, lists
<1>7. Longest(q, lists)
  BY <1>2, <1>5, <1>6 DEF Longest
<1> QED
  BY <1>7 DEF q, lists

LEMMA NoTableLongest ==
  ASSUME Trees, NEW E
  PROVE  SubsetsLongest(NoTable, NoLists, E)
<1> SUFFICES ASSUME NEW table, TableIn(table, E), NEW x \in Started, NEW v \in Vectors
             PROVE  Longest(NoTable[table][x][v], NoLists[table][v])
  BY DEF SubsetsLongest
<1>1. table \in Seq(Nat) /\ x \in States
  BY DEF TableIn, Started
<1>2. NoTable[table][x][v] = SubsetFound(x, NoBest) /\ NoLists[table][v] = {<<0, 0>>}
  BY <1>1 DEF NoTable, NoLists
<1>3. SubsetFound(x, NoBest).best.nodes = 0
  BY <1>1, NoBestTyped, FoundTyped
<1> QED
  BY <1>2, <1>3 DEF Longest

LEMMA ListsLongest ==
  ASSUME Trees, GrammarOk, NEW P, NEW L, Sound(P, L), Natural(L),
         NEW E \in SUBSET DOMAIN nodes, Exact(P, L, E),
         NEW kids, TableIn(kids, E), NEW x \in Started, NEW v \in Vectors
  PROVE  Longest(SubsetTable(P, kids, x, v), Lists(L, kids, v))
<1> DEFINE n == Len(kids)
<1>0. n \in Nat /\ Len(kids) = n
  BY DEF TableIn
<1> HIDE DEF n
<1>1. PICK Ls : ListsMade(Ls, L, n)
  BY <1>0, ListsSteps
<1>2. PICK T : TablesMade(T, P, n)
  BY <1>0, TablesSteps
<1> DEFINE S == {d \in 0..n : SubsetsSound(T[d], Ls[d]) /\ ListsNatural(Ls[d]) /\ SubsetsLongest(T[d], Ls[d], E)}
<1>3. 0 \in S
  <2>1. ListsNatural(NoLists)
    BY DEF ListsNatural, NoLists, Existing
  <2> QED
    BY <1>0, <1>1, <1>2, <2>1, NoTableSound, NoTableLongest DEF ListsMade, TablesMade
<1>4. ASSUME NEW d \in 0..(n - 1), d \in S PROVE d + 1 \in S
  <2>1. d + 1 \in 0..n
    BY <1>0
  <2>2. Ls[d + 1] = MoreLists(L, Ls[d]) /\ T[d + 1] = SubsetTables(P, T[d])
    BY <1>1, <1>2 DEF ListsMade, TablesMade
  <2>3. SubsetsSound(T[d], Ls[d]) /\ ListsNatural(Ls[d]) /\ SubsetsLongest(T[d], Ls[d], E)
    BY <1>4
  <2>4. SubsetsSound(T[d + 1], Ls[d + 1]) /\ ListsNatural(Ls[d + 1])
    BY <2>2, <2>3, SubsetStep, ListsNaturalStep
  <2>5. SubsetsLongest(T[d + 1], Ls[d + 1], E)
    BY <2>2, <2>3, SubsetStepLongest
  <2> QED
    BY <2>1, <2>4, <2>5
<1> HIDE DEF S
<1>5. n \in S
  <2>1. n \in Nat
    BY <1>0
  <2>2. 0..n \subseteq S
    BY <1>3, <1>4, <2>1, Induction
  <2> QED
    BY <2>1, <2>2
<1>6. Longest(T[n][kids][x][v], Ls[n][kids][v])
  BY <1>5 DEF S, SubsetsLongest
<1>7. Lists(L, kids, v) = Ls[n][kids][v] /\ SubsetTable(P, kids, x, v) = T[n][kids][x][v]
  BY <1>0, <1>1, <1>2 DEF ListsMade, TablesMade
<1> QED
  BY <1>6, <1>7

\* The leaves of the family come first, and never change.
LeavesFirst ==
  /\ family \in Families /\ nodes \in Seq(GrammarNodes) /\ Len(family.leaves) <= Len(nodes)
  /\ \A k \in 1..Len(family.leaves) : nodes[k] = family.leaves[k]

LEMMA LeavesStay == ParseSpec => []LeavesFirst
<1>1. ASSUME GrammarInit PROVE LeavesFirst
  <2>1. GrammarInv
    BY <1>1, GrammarInitInv
  <2>2. family \in Families /\ nodes = family.leaves /\ nodes \in Seq(GrammarNodes)
    BY <1>1, <2>1 DEF GrammarInit, GrammarInv, GrammarOk
  <2>3. Len(family.leaves) <= Len(nodes)
    BY <2>2
  <2> QED
    BY <2>2, <2>3 DEF LeavesFirst
<1>2. ASSUME LeavesFirst, ParseInv', [ParseNext]_vars PROVE LeavesFirst'
  <2>1. nodes' \in Seq(GrammarNodes)
    BY <1>2 DEF ParseInv, GrammarInv, GrammarOk
  <2>2. family' = family /\ (nodes' = nodes \/ \E x : nodes' = Append(nodes, x))
    <3>1. CASE GrammarNext
      BY <3>1 DEF GrammarNext, AddNode, AddToken
    <3>2. CASE \E mem \in family.budgets : DoParse(mem)
      BY <3>2 DEF DoParse
    <3>3. CASE UNCHANGED vars
      BY <3>3 DEF vars
    <3> QED
      BY <1>2, <3>1, <3>2, <3>3 DEF ParseNext
  <2>3. family.leaves \in Seq(LeafNodes) /\ Len(family.leaves) \in Nat /\ Len(nodes) \in Nat
        /\ nodes \in Seq(GrammarNodes)
    BY <1>2, FamilyFields DEF LeavesFirst
  <2>4. CASE nodes' = nodes
    BY <1>2, <2>2, <2>4 DEF LeavesFirst
  <2>5. ASSUME NEW x, nodes' = Append(nodes, x) PROVE LeavesFirst'
    <3>1. Len(nodes') = Len(nodes) + 1 /\ \A k \in 1..Len(nodes) : nodes'[k] = nodes[k]
      BY <2>3, <2>5
    <3>2. Len(family.leaves) <= Len(nodes) /\ family \in Families
          /\ \A k \in 1..Len(family.leaves) : nodes[k] = family.leaves[k]
      BY <1>2 DEF LeavesFirst
    <3>3. \A k \in 1..Len(family.leaves) : nodes'[k] = family.leaves[k]
      BY <2>3, <3>1, <3>2
    <3>4. Len(family.leaves) <= Len(nodes')
      BY <2>3, <3>1, <3>2
    <3> QED
      BY <2>1, <2>2, <3>2, <3>3, <3>4 DEF LeavesFirst
  <2> QED
    BY <2>2, <2>4, <2>5
<1> QED
  BY <1>1, <1>2, ParseInvariant, PTL DEF ParseSpec

Leaves == {n \in DOMAIN nodes : IsLeaf(n)}

\* a leaf is called, with what it matches
LEMMA LeafExact ==
  ASSUME Trees, NEW P, NEW L, NEW n \in Leaves, NEW st \in Started, NEW v \in Vectors,
         NEW r, r = ParseNode(P, n, st, v)
  PROVE  /\ r.ret = NoMatch => NodeLengths(L, n, v) = {}
         /\ r.ret \notin {Fail, NoMatch} => NodeLengths(L, n, v) = {r.ret}
<1>0. st \in States /\ \A ret : Result(ret, st).ret = ret
  BY DEF Started, Result
<1>1. CASE nodes[n].type = "str"
  <2>1. r = StrParse(nodes[n], st, v)
    BY <1>1 DEF ParseNode
  <2>2. NodeLengths(L, n, v) = IF v # <<>> /\ v[1] = nodes[n].word THEN {1} ELSE {}
    BY <1>1 DEF NodeLengths
  <2> QED
    BY <1>0, <2>1, <2>2 DEF StrParse, NoMatch
<1>2. CASE nodes[n].type = "any"
  <2>1. r = AnyParse(st, v)
    BY <1>2 DEF ParseNode
  <2>2. NodeLengths(L, n, v) = IF v # <<>> THEN {1} ELSE {}
    BY <1>2 DEF NodeLengths
  <2> QED
    BY <1>0, <2>1, <2>2 DEF AnyParse, NoMatch
<1>3. CASE nodes[n].type = "empty"
  <2>1. r = EmptyParse(st)
    BY <1>3 DEF ParseNode
  <2>2. NodeLengths(L, n, v) = {0}
    BY <1>3 DEF NodeLengths
  <2> QED
    BY <1>0, <2>1, <2>2 DEF EmptyParse, NoMatch
<1>4. CASE nodes[n].type = "none"
  <2>1. r = NoneParse(st)
    BY <1>4 DEF ParseNode
  <2>2. NodeLengths(L, n, v) = {}
    BY <1>4 DEF NodeLengths
  <2> QED
    BY <1>0, <2>1, <2>2 DEF NoneParse, NoMatch
<1> QED
  BY <1>1, <1>2, <1>3, <1>4 DEF Leaves, IsLeaf

\* leaves, called from a node at a depth of m
LEMMA LeavesExact ==
  ASSUME Trees, GrammarOk, NEW m \in 0..(Depth - 1),
         NEW n \in Leaves, NEW st \in Started, NEW v \in Vectors, NEW r, r = ParseTo[m][n][st][v]
  PROVE  /\ r \in Sounds(st, Lengths[n][v])
         /\ r.ret = NoMatch => Lengths[n][v] = {}
         /\ r.ret \notin {Fail, NoMatch} => Lengths[n][v] = {r.ret}
<1>0. /\ Depth \in Nat /\ Depth \in 1..Depth /\ m \in 0..Depth /\ Depth - 1 \in 0..Depth
      /\ n \in DOMAIN nodes /\ n \in Nat /\ st \in States
  BY GrammarAssumption, NodeTyped DEF Started, Leaves
<1> DEFINE K == LengthsTo[Depth - 1]
<1>1. Lengths = Deeper(K)
  BY <1>0, ParseToSteps DEF Lengths
<1> HIDE DEF K
<1>2. Lengths[n][v] = NodeLengths(K, n, v)
  BY <1>0, <1>1 DEF Deeper
<1>3. CASE m = 0
  <2>1. ParseTo[m] = Overflow
    BY <1>3, ParseToSteps
  <2> DEFINE y == [st EXCEPT !.faults = @ \cup {"overflow"}]
  <2>2. r = Fails(y)
    BY <1>0, <2>1 DEF Overflow
  <2> HIDE DEF y
  <2>3. r.ret = Fail
    BY <2>2 DEF Fails, Result
  <2>4. r \in Sounds(st, NoLengths[n][v])
    BY <1>0, <2>1, OverflowSound DEF Sound
  <2>5. r \in Results /\ r.st \in Below(st)
    BY <2>4 DEF Sounds
  <2>6. Fail # NoMatch
    BY DEF Fail, NoMatch
  <2> QED
    BY <2>3, <2>5, <2>6 DEF Sounds
<1>4. CASE m # 0
  <2> DEFINE P == ParseTo[m - 1]
  <2>1. m \in 1..Depth /\ ParseTo[m] = Callbacks(P)
    BY <1>0, <1>4, ParseToSteps
  <2> HIDE DEF P
  <2>2. r = ParseNode(P, n, st, v)
    BY <1>0, <2>1 DEF Callbacks
  <2>3. nodes[n].type \in {"str", "any", "empty", "none"}
    BY DEF Leaves, IsLeaf
  <2>4. r \in Sounds(st, NodeLengths(K, n, v))
    BY <1>0, <2>2, <2>3, LeafSound
  <2>5. /\ r.ret = NoMatch => NodeLengths(K, n, v) = {}
        /\ r.ret \notin {Fail, NoMatch} => NodeLengths(K, n, v) = {r.ret}
    BY <2>2, LeafExact
  <2> QED
    BY <1>2, <2>4, <2>5
<1> QED
  BY <1>3, <1>4

\* what a subset node of leaves returns, in a call that does not fail
LongestFound(node, ret, v) ==
  LET lists == Lists(Lengths, node.kids, v)
      longest == {l \in lists : \A m \in lists : m[1] <= l[1]}
  IN  IF ret # NoMatch THEN \E l \in longest : l[1] >= node.min /\ l[2] = ret
      ELSE \A l \in longest : l[1] < node.min

LEMMA SubsetFinds ==
  ASSUME Trees, GrammarOk, Depth # 0, NEW node, node.min \in Nat, TableIn(node.kids, Leaves),
         NEW st \in Started, NEW v \in Vectors, Len(v) < NoMatch,
         NEW r, r = SubsetParse(ParseTo[Depth - 1], node, st, v), r.ret # Fail
  PROVE  LongestFound(node, r.ret, v)
<1> DEFINE D == Depth - 1
           P == ParseTo[D]
           K == [n \in DOMAIN nodes |-> IF n \in Leaves THEN Lengths[n] ELSE LengthsTo[D][n]]
           lists == Lists(Lengths, node.kids, v)
           longest == {l \in lists : \A m \in lists : m[1] <= l[1]}
           q == SubsetTable(P, node.kids, st, v)
<1>0. D \in 0..(Depth - 1) /\ D \in 0..Depth /\ Leaves \in SUBSET DOMAIN nodes
  BY GrammarAssumption DEF Leaves
<1>1. Sound(P, LengthsTo[D]) /\ Natural(LengthsTo[D]) /\ Natural(Lengths)
  BY <1>0, EnginesSound, EngineSound
<1>2. q = SubsetTable(P, node.kids, st, v) /\ r = SubsetResult(node, q)
  BY DEF SubsetParse
<1> HIDE DEF D, P, q
<1>3. Sound(P, K)
  <2>1. ASSUME NEW n \in DOMAIN nodes, NEW x \in Started, NEW w \in Vectors
        PROVE  P[n][x][w] \in Sounds(x, K[n][w])
    <3>1. CASE n \in Leaves
      <4>1. P[n][x][w] \in Sounds(x, Lengths[n][w])
        BY <1>0, <3>1, LeavesExact DEF P
      <4> QED
        BY <3>1, <4>1
    <3>2. CASE n \notin Leaves
      <4>1. P[n][x][w] \in Sounds(x, LengthsTo[D][n][w])
        BY <1>1 DEF Sound
      <4> QED
        BY <3>2, <4>1
    <3> QED
      BY <3>1, <3>2
  <2> HIDE DEF K
  <2> QED
    BY <2>1 DEF Sound
<1>4. Natural(K)
  BY <1>1 DEF Natural
<1>5. Exact(P, K, Leaves)
  <2>1. ASSUME NEW n \in Leaves, NEW x \in Started, NEW w \in Vectors
        PROVE  /\ P[n][x][w].ret = NoMatch => K[n][w] = {}
               /\ P[n][x][w].ret \notin {Fail, NoMatch} => K[n][w] = {P[n][x][w].ret}
    <3>1. /\ P[n][x][w].ret = NoMatch => Lengths[n][w] = {}
          /\ P[n][x][w].ret \notin {Fail, NoMatch} => Lengths[n][w] = {P[n][x][w].ret}
      BY <1>0, LeavesExact DEF P
    <3> QED
      BY <1>0, <3>1
  <2> HIDE DEF K
  <2> QED
    BY <2>1 DEF Exact
<1>6. Lists(K, node.kids, v) = lists
  <2>1. ASSUME NEW n \in Leaves, NEW w \in Vectors
        PROVE  K[n][w] = Lengths[n][w] /\ Lengths[n][w] \in SUBSET Nat
    BY <1>0, <1>1 DEF Natural
  <2> HIDE DEF K
  <2> QED
    BY <2>1, ListsSame
<1> HIDE DEF K
<1>7. q \in SubsetIn(st, lists, v) /\ lists \in SUBSET (Nat \X Nat)
  <2>1. Existing(node.kids)
    BY <1>0, WithinExisting
  <2> QED
    BY <1>2, <1>3, <1>4, <1>6, <2>1, ListsSound
<1>8. Longest(q, lists)
  BY <1>0, <1>2, <1>3, <1>4, <1>5, <1>6, ListsLongest
<1>9. ~q.fails
  BY <1>2 DEF SubsetResult, Fails, Result
<1> HIDE DEF lists
<1> DEFINE b == q.best
           best == <<b.nodes, b.ret>>
<1>10. /\ b.nodes \in Nat /\ b.ret \in 0..Len(v) /\ best \in lists
       /\ \A l \in lists : l[1] <= b.nodes
  BY <1>7, <1>8, <1>9 DEF SubsetIn, SubsetResults, Bests, Longest
<1> HIDE DEF b
<1>11. best[1] = b.nodes /\ best[2] = b.ret
  OBVIOUS
<1> HIDE DEF best
<1>12. best \in longest
  BY <1>10, <1>11
<1>13. CASE b.nodes < node.min
  <2>1. r.ret = NoMatch
    BY <1>2, <1>9, <1>13 DEF SubsetResult, Result, b
  <2>2. ASSUME NEW l \in longest PROVE l[1] < node.min
    <3>1. l[1] \in Nat /\ l[1] <= b.nodes
      BY <1>7, <1>10
    <3> QED
      BY <1>10, <1>13, <3>1
  <2> QED
    BY <2>1, <2>2 DEF LongestFound, lists
<1>14. CASE ~(b.nodes < node.min)
  <2>1. r.ret = b.ret
    BY <1>2, <1>9, <1>14 DEF SubsetResult, Result, b
  <2>2. r.ret # NoMatch
    BY <1>10, <2>1, VectorLen DEF NoMatch
  <2>3. best[1] >= node.min /\ best[2] = r.ret
    BY <1>10, <1>11, <1>14, <2>1
  <2> QED
    BY <1>12, <2>2, <2>3 DEF LongestFound, lists
<1> QED
  BY <1>13, <1>14

LEMMA StrvecLongest ==
  ASSUME Trees, ParseInv, LeavesFirst, Built, NEW mem \in Nat,
         NEW result, result = ParseStrvec(Root, input, mem), result.op = "parse", result.ret # Fail,
         nodes[Root].type = "subset", \A k \in DOMAIN nodes[Root].kids : nodes[Root].kids[k] <= Len(family.leaves)
  PROVE  LongestFound(nodes[Root], result.ret, input)
<1> DEFINE node == nodes[Root]
<1>1. Root \in DOMAIN nodes /\ Root \in Nat /\ input \in Vectors /\ Len(input) < NoMatch /\ GrammarOk
  BY RootNode, InputVector DEF ParseInv, GrammarInv
<1>2. node.kids \in Seq(Nat) /\ node.min \in Nat /\ \A k \in DOMAIN node.kids : node.kids[k] \in DOMAIN nodes
  BY <1>1, NodeTyped
<1>3. TableIn(node.kids, Leaves)
  <2>1. ASSUME NEW k \in DOMAIN node.kids PROVE node.kids[k] \in Leaves
    <3> DEFINE n == node.kids[k]
    <3>1. n \in DOMAIN nodes /\ n <= Len(family.leaves) /\ family.leaves \in Seq(LeafNodes)
      BY <1>2, FamilyFields DEF LeavesFirst
    <3> HIDE DEF n
    <3>2. nodes \in Seq(GrammarNodes)
      BY DEF LeavesFirst
    <3>3. n \in 1..Len(family.leaves)
      BY <3>1, <3>2
    <3>4. nodes[n] = family.leaves[n] /\ family.leaves[n] \in LeafNodes
      BY <3>1, <3>3 DEF LeavesFirst
    <3>5. nodes[n].type \in {"str", "any", "empty", "none"}
      BY <3>4 DEF LeafNodes
    <3>6. n \in Leaves
      BY <3>1, <3>5 DEF Leaves, IsLeaf
    <3> QED
      BY <3>6 DEF n
  <2> HIDE DEF node
  <2> QED
    BY <1>2, <2>1 DEF TableIn
<1>4. PICK st \in Fresh :
        LET r == ParseTo[Depth][Root][st][input]
        IN  /\ result.ret = r.ret
            /\ r.ret # NoMatch => r.ret \in 0..Len(input) /\ result.tree = Matching(Root, input, r)
  BY StrvecMatching
<1> DEFINE r == ParseTo[Depth][Root][st][input]
<1>5. result.ret = r.ret
  BY <1>4
<1>6. st \in Started /\ st \in States /\ Depth \in Nat
  BY GrammarAssumption DEF Fresh, Started
<1>7. Depth # 0
  <2>1. ASSUME Depth = 0 PROVE r.ret = Fail
    <3>1. ParseTo[Depth] = Overflow
      BY <2>1, ParseToSteps
    <3> QED
      BY <1>1, <1>6, <3>1 DEF Overflow, Fails, Result
  <2> QED
    BY <1>5, <2>1
<1>8. r = SubsetParse(ParseTo[Depth - 1], node, st, input)
  <2>1. ParseTo[Depth] = Callbacks(ParseTo[Depth - 1])
    BY <1>6, <1>7, ParseToSteps
  <2>2. r = ParseNode(ParseTo[Depth - 1], Root, st, input)
    BY <1>1, <1>6, <2>1 DEF Callbacks
  <2> QED
    BY <2>2 DEF ParseNode
<1> HIDE DEF r, node
<1>9. LongestFound(node, r.ret, input)
  BY <1>1, <1>2, <1>3, <1>5, <1>6, <1>7, <1>8, SubsetFinds
<1> QED
  BY <1>5, <1>9 DEF node

\* A subset node of leaves finds a list of as many of its children as can match
\* one after the other, whatever their order, and matches if these are as many
\* as its minimum, for every family of grammars, every input and whichever
\* allocation fails.
THEOREM SubsetsAreLongest == ASSUME Trees PROVE ParseSpec => []SubsetLongest
<1>1. ASSUME ParseInv, LeavesFirst PROVE SubsetLongest
  <2> SUFFICES ASSUME Parsed, nodes[Root].type = "subset",
                      \A k \in DOMAIN nodes[Root].kids : nodes[Root].kids[k] <= Len(family.leaves)
               PROVE  LongestFound(nodes[Root], out.ret, input)
    BY DEF SubsetLongest, LongestFound, Matched
  <2>1. out.op = "parse" /\ out.ret # Fail
    BY DEF Parsed
  <2>2. out # NoResult
    BY <2>1 DEF NoResult
  <2>3. PICK mem \in family.budgets : out = ParseStrvec(Root, input, mem)
    BY <1>1, <2>2 DEF ParseInv, GrammarInv
  <2>4. mem \in Nat /\ Built
    BY <1>1, <2>2, FamilyFields DEF ParseInv, GrammarInv
  <2> QED
    BY <1>1, <2>1, <2>3, <2>4, StrvecLongest
<1> QED
  BY <1>1, ParseInvariant, LeavesStay, PTL
=============================================================================
