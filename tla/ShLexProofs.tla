---------------------------- MODULE ShLexProofs -----------------------------
(***************************************************************************)
(* Proofs about ShLex, for any set of characters, any classes, any buffer  *)
(* size and lines of any length: what the function keeps as it runs, then  *)
(* what it gives when it is run again on a line, on a longer line and on   *)
(* parts of it.                                                            *)
(***************************************************************************)
EXTENDS ShLex, TLAPS, SetInduction, SequenceTheorems

Outside == {"START", "IN_COMMENT"}

(***************************************************************************)
(* SpansOrdered is about what the function would return now: it needs the  *)
(* position of the word being read to be after every word already split,   *)
(* and strictly so once the word has started.                              *)
(***************************************************************************)
Positions ==
  /\ line = <<>> => lex.state = "START" /\ lex.arg_start = 0
  /\ line # <<>> => lex.arg_start < Len(line)
  /\ \A k \in DOMAIN lex.strvec : /\ lex.strvec[k].from < lex.strvec[k].to
                                  /\ lex.strvec[k].to <= lex.arg_start
  /\ \A j, k \in DOMAIN lex.strvec : j < k => lex.strvec[j].to < lex.strvec[k].from
  /\ lex.state \notin Outside => \A k \in DOMAIN lex.strvec : lex.strvec[k].to < lex.arg_start

IInv == TypeOK /\ Positions

-----------------------------------------------------------------------------
\* The automaton stays in its states; a word ends in START, and neither START
\* nor a comment is left in the middle of a word.
LEMMA NextStateFacts ==
  ASSUME NEW s \in States, NEW c \in Chars
  PROVE  /\ NextState(s, c) \in States
         /\ EndsWord(s, c) => NextState(s, c) = "START"
         /\ s = "IN_COMMENT" => NextState(s, c) \in Outside
BY ConstantsAssumption DEF NextState, Automaton, InWord, EndsWord, States, Classes, Outside

\* A word begins in the START state only.
LEMMA WordBegins ==
  ASSUME NEW s \in States, NEW c \in Chars, NextState(s, c) \notin Outside
  PROVE  s = "START" \/ (s \notin Outside /\ ~EndsWord(s, c))
BY NextStateFacts DEF States, Outside

\* The positions of the elements are numbers.
LEMMA ElementsInNat ==
  ASSUME NEW v \in Seq(ElementType), NEW k \in DOMAIN v
  PROVE  v[k].from \in Nat /\ v[k].to \in Nat
<1>1. v[k] \in ElementType
  OBVIOUS
<1> QED
  BY <1>1 DEF ElementType

\* Adding no element leaves the vector as it is.
LEMMA ConcatNone ==
  ASSUME NEW S, NEW s \in Seq(S)
  PROVE  s \o <<>> = s
OBVIOUS

-----------------------------------------------------------------------------
\* The invariant holds before the first character.
THEOREM Initially == Init => IInv
<1> SUFFICES ASSUME Init PROVE IInv
  OBVIOUS
<1>1. TypeOK
  BY ConstantsAssumption DEF Init, Fresh, TypeOK, LexType, States
<1>2. Positions
  BY DEF Init, Fresh, Positions, Outside
<1> QED
  BY <1>1, <1>2 DEF IInv

\* The types are kept by a character that is read without failure.
LEMMA ReadType ==
  ASSUME TypeOK, NEW c \in Chars, Read(c),
         ~(lex.enobufs \/ (Appends(lex.state, c) /\ Full(lex, BufSize)))
  PROVE  TypeOK'
<1> DEFINE n == Len(line)
<1>0. /\ lex \in LexType /\ line \in Seq(Chars) /\ n \in Nat /\ n < MaxLine
      /\ lex' = Advance(lex, c, n) /\ line' = Append(line, c)
      /\ BufSize \in Nat /\ MaxLine \in Nat
  BY ConstantsAssumption DEF TypeOK, Read, Step
<1>a. /\ lex.state \in States /\ lex.token \in Seq(Chars \cup {Junk})
      /\ lex.t \in 0..(BufSize - 1) /\ lex.arg_start \in 0..MaxLine
      /\ lex.trailing_space \in BOOLEAN /\ lex.quote \in Chars \cup {NoChar}
      /\ lex.strvec \in Seq(ElementType)
  BY <1>0 DEF LexType
<1>b. /\ lex'.state = NextState(lex.state, c)
      /\ lex'.token = IF Appends(lex.state, c) THEN Append(SubSeq(lex.token, 1, lex.t), c)
                                              ELSE lex.token
      /\ lex'.t = IF EndsWord(lex.state, c) THEN 0
                  ELSE IF Appends(lex.state, c) THEN lex.t + 1 ELSE lex.t
      /\ lex'.arg_start = ArgStart(lex, c, n)
      /\ lex'.trailing_space = TrailingSpace(lex, c)
      /\ lex'.quote = Quote(lex, c)
      /\ lex'.strvec = IF EndsWord(lex.state, c) THEN Append(lex.strvec, Token(lex, lex.arg_start, n))
                                                ELSE lex.strvec
      /\ lex'.enobufs = FALSE
  BY <1>0 DEF Advance
<1>1. line' \in Seq(Chars) /\ Len(line') <= MaxLine
  BY <1>0
<1>2. lex'.state \in States
  BY <1>a, <1>b, NextStateFacts
<1>3. lex'.token \in Seq(Chars \cup {Junk}) /\ lex'.t \in 0..(BufSize - 1)
      /\ lex'.t <= Len(lex'.token) /\ Len(lex'.token) < BufSize
  <2>1. CASE Appends(lex.state, c)
    <3>1. ~EndsWord(lex.state, c)
      BY <2>1 DEF Appends, EndsWord
    <3>2. lex'.t = lex.t + 1 /\ lex'.token = Append(SubSeq(lex.token, 1, lex.t), c)
      BY <1>b, <2>1, <3>1
    <3>3. lex.t + 1 < BufSize
      BY <1>0, <1>a, <2>1 DEF Full
    <3>4. lex.token \in Seq(Chars \cup {Junk}) /\ lex.t \in Nat /\ lex.t <= Len(lex.token)
      BY <1>a DEF TypeOK
    <3>5. SubSeq(lex.token, 1, lex.t) \in Seq(Chars \cup {Junk})
          /\ Len(SubSeq(lex.token, 1, lex.t)) = lex.t
      BY <3>4
    <3> QED
      BY <1>0, <3>2, <3>3, <3>4, <3>5
  <2>2. CASE ~Appends(lex.state, c)
    <3>1. lex'.token = lex.token /\ lex'.t \in {0, lex.t}
      BY <1>b, <2>2
    <3> QED
      BY <1>0, <1>a, <3>1 DEF TypeOK
  <2> QED
    BY <2>1, <2>2
<1>4. lex'.arg_start \in 0..MaxLine
  BY <1>0, <1>a, <1>b DEF ArgStart
<1>5. lex'.trailing_space \in BOOLEAN /\ lex'.enobufs \in BOOLEAN
  <2>1. lex.trailing_space \in BOOLEAN
    BY <1>0 DEF LexType
  <2>2. TrailingSpace(lex, c) \in BOOLEAN
    BY <2>1, Zenon DEF TrailingSpace, EndsWord
  <2> QED
    BY <1>b, <2>2
<1>6. lex'.quote \in Chars \cup {NoChar}
  BY <1>a, <1>b DEF Quote
<1>7. lex'.strvec \in Seq(ElementType)
  <2>1. Token(lex, lex.arg_start, n) \in ElementType
    BY <1>0, <1>a DEF Token, ElementType
  <2> QED
    BY <1>a, <1>b, <2>1
<1>8. lex' \in LexType
  <2>1. lex' = [state |-> lex'.state, token |-> lex'.token, t |-> lex'.t,
                arg_start |-> lex'.arg_start, trailing_space |-> lex'.trailing_space,
                quote |-> lex'.quote, strvec |-> lex'.strvec, enobufs |-> lex'.enobufs]
    BY <1>0 DEF Advance
  <2> QED
    BY <2>1, <1>2, <1>3, <1>4, <1>5, <1>6, <1>7 DEF LexType
<1> QED
  BY <1>1, <1>3, <1>8 DEF TypeOK

\* A character that does not fit only raises the error.
LEMMA ReadFails ==
  ASSUME IInv, NEW c \in Chars, Read(c),
         lex.enobufs \/ (Appends(lex.state, c) /\ Full(lex, BufSize))
  PROVE  IInv'
<1>1. lex' = [lex EXCEPT !.enobufs = TRUE] /\ line' = Append(line, c)
      /\ Len(line) < MaxLine /\ line \in Seq(Chars) /\ MaxLine \in Nat
  BY ConstantsAssumption DEF Read, Step, IInv, TypeOK
<1>2. /\ lex'.state = lex.state /\ lex'.token = lex.token /\ lex'.t = lex.t
      /\ lex'.arg_start = lex.arg_start /\ lex'.strvec = lex.strvec
      /\ lex' \in LexType
  BY <1>1 DEF IInv, TypeOK, LexType
<1>3. line' \in Seq(Chars) /\ Len(line') = Len(line) + 1 /\ line' # <<>>
  BY <1>1
<1>4. TypeOK'
  BY <1>1, <1>2, <1>3 DEF IInv, TypeOK
<1>5. lex.arg_start < Len(line')
  <2>1. CASE line = <<>>
    BY <1>3, <2>1 DEF IInv, Positions
  <2>2. CASE line # <<>>
    BY <1>1, <1>3, <2>2 DEF IInv, TypeOK, LexType, Positions
  <2> QED
    BY <2>1, <2>2
<1>6. Positions'
  BY <1>2, <1>3, <1>5 DEF IInv, Positions
<1> QED
  BY <1>4, <1>6 DEF IInv

\* The positions are kept by a character that is read without failure.
LEMMA ReadPositions ==
  ASSUME IInv, NEW c \in Chars, Read(c),
         ~(lex.enobufs \/ (Appends(lex.state, c) /\ Full(lex, BufSize)))
  PROVE  Positions'
<1> DEFINE n == Len(line)
<1> DEFINE v == lex.strvec
<1>0. /\ n \in Nat /\ lex.state \in States /\ lex.arg_start \in Nat /\ v \in Seq(ElementType)
      /\ lex \in LexType /\ BufSize \in Nat /\ line \in Seq(Chars)
      /\ lex' = Advance(lex, c, n) /\ line' = Append(line, c)
  BY ConstantsAssumption DEF IInv, TypeOK, LexType, Read, Step
<1>1. /\ lex'.state = NextState(lex.state, c)
      /\ lex'.arg_start = ArgStart(lex, c, n)
      /\ lex'.strvec = IF EndsWord(lex.state, c) THEN Append(v, Token(lex, lex.arg_start, n)) ELSE v
  BY <1>0 DEF Advance
<1>2. line' # <<>> /\ Len(line') = n + 1
  BY <1>0
<1>3. /\ n = 0 => lex.state = "START" /\ lex.arg_start = 0
      /\ n > 0 => lex.arg_start < n
  BY <1>0 DEF IInv, Positions
<1>4. \A k \in DOMAIN v : v[k].from \in Nat /\ v[k].to \in Nat /\ v[k].from < v[k].to
                         /\ v[k].to <= lex.arg_start
  BY <1>0, ElementsInNat DEF IInv, Positions
<1>5. \A j, k \in DOMAIN v : j < k => v[j].to < v[k].from
  BY DEF IInv, Positions
<1>6. lex.state \notin Outside => \A k \in DOMAIN v : v[k].to < lex.arg_start
  BY DEF IInv, Positions
<1>7. \A k \in DOMAIN v : v[k].to < n
  BY <1>0, <1>3, <1>4
<1>8. lex'.arg_start <= n
  BY <1>0, <1>1, <1>3 DEF ArgStart
<1>9. CASE EndsWord(lex.state, c)
  <2> DEFINE e == Token(lex, lex.arg_start, n)
  <2>1. lex'.strvec = Append(v, e) /\ lex'.arg_start = n /\ lex'.state = "START"
    BY <1>0, <1>1, <1>9, NextStateFacts DEF ArgStart
  <2>2. e.from = lex.arg_start /\ e.to = n
    BY DEF Token
  <2>3. lex.state = "IN_WORD" /\ n > 0
    BY <1>0, <1>3, <1>9 DEF EndsWord
  <2>4. \A k \in DOMAIN v : v[k].to < e.from
    BY <1>6, <2>2, <2>3 DEF Outside
  <2>5. /\ DOMAIN Append(v, e) = DOMAIN v \cup {Len(v) + 1}
        /\ Append(v, e)[Len(v) + 1] = e
        /\ \A k \in DOMAIN v : Append(v, e)[k] = v[k] /\ k \in Nat /\ k <= Len(v)
        /\ Len(v) \in Nat
    BY <1>0
  <2> HIDE DEF v, e
  <2>6. \A k \in DOMAIN lex'.strvec : lex'.strvec[k].from < lex'.strvec[k].to
                                      /\ lex'.strvec[k].to <= n
    BY <1>0, <1>3, <1>4, <1>7, <2>1, <2>2, <2>3, <2>5
  <2>7. \A j, k \in DOMAIN lex'.strvec : j < k => lex'.strvec[j].to < lex'.strvec[k].from
    BY <1>5, <2>1, <2>4, <2>5
  <2> QED
    BY <1>0, <1>2, <2>1, <2>6, <2>7 DEF Positions, Outside
<1>10. CASE ~EndsWord(lex.state, c)
  <2>1. lex'.strvec = v
    BY <1>1, <1>10
  <2>2. lex'.arg_start = IF lex.state = "START" THEN n ELSE lex.arg_start
    BY <1>1, <1>10 DEF ArgStart
  <2>3. \A k \in DOMAIN v : v[k].to <= lex'.arg_start
    BY <1>0, <1>4, <1>7, <2>2
  <2>4. ASSUME lex'.state \notin Outside
        PROVE  \A k \in DOMAIN v : v[k].to < lex'.arg_start
    <3>1. lex.state = "START" \/ lex.state \notin Outside
      BY <1>0, <1>1, <2>4, WordBegins
    <3> QED
      BY <1>6, <1>7, <2>2, <3>1
  <2>5. lex'.arg_start < Len(line')
    BY <1>0, <1>2, <1>8, <2>2
  <2>6. \A k \in DOMAIN v : v[k].from < v[k].to /\ v[k].to <= lex'.arg_start
    BY <1>4, <2>3
  <2> HIDE DEF v
  <2> QED
    BY <1>2, <1>5, <2>1, <2>4, <2>5, <2>6 DEF Positions
<1> QED
  BY <1>9, <1>10

\* Every step of the loop keeps the invariant.
THEOREM Inductive == IInv /\ [Next]_vars => IInv'
<1> SUFFICES ASSUME IInv, [Next]_vars PROVE IInv'
  OBVIOUS
<1>1. CASE UNCHANGED vars
  BY <1>1 DEF vars, IInv, TypeOK, Positions
<1>2. ASSUME NEW c \in Chars, Read(c) PROVE IInv'
  <2>1. CASE lex.enobufs \/ (Appends(lex.state, c) /\ Full(lex, BufSize))
    BY <1>2, <2>1, ReadFails
  <2>2. CASE ~(lex.enobufs \/ (Appends(lex.state, c) /\ Full(lex, BufSize)))
    <3>1. TypeOK'
      BY <1>2, <2>2, ReadType DEF IInv
    <3>2. Positions'
      BY <1>2, <2>2, ReadPositions
    <3> QED
      BY <3>1, <3>2 DEF IInv
  <2> QED
    BY <2>1, <2>2
<1> QED
  BY <1>1, <1>2 DEF Next

\* The invariant holds for every line.
THEOREM Invariance == Spec => []IInv
<1> QED
  BY Initially, Inductive, PTL DEF Spec

\* The registers keep their types, and append() never writes past the token
\* buffer of ec_strvec_sh_lex_str() (its final zero included).
THEOREM TypeCorrect == Spec => []TypeOK
<1>1. IInv => TypeOK
  BY DEF IInv
<1> QED
  BY <1>1, Invariance, PTL

\* What ec_strvec_sh_lex_str() returns for the line read so far: the attributes
\* of the elements are ordered, disjoint positions of the line.
THEOREM SpansCorrect == Spec => []SpansOrdered
<1>1. IInv => SpansOrdered
  <2> SUFFICES ASSUME IInv PROVE SpansOrdered
    OBVIOUS
  <2> DEFINE n == Len(line)
  <2> DEFINE v == lex.strvec
  <2> DEFINE e == Elements(lex, n, FALSE)
  <2>1. /\ n \in Nat /\ lex.state \in States /\ lex.arg_start \in Nat /\ v \in Seq(ElementType)
    BY DEF IInv, TypeOK, LexType
  <2>2. \A k \in DOMAIN v : v[k].from \in Nat /\ v[k].to \in Nat /\ v[k].from < v[k].to
                           /\ v[k].to <= lex.arg_start
    BY <2>1, ElementsInNat DEF IInv, Positions
  <2>3. \A j, k \in DOMAIN v : j < k => v[j].to < v[k].from
    BY DEF IInv, Positions
  <2>4. lex.arg_start <= n
    BY <2>1 DEF IInv, Positions
  <2>5. CASE LastAdded(lex)
    <3> DEFINE w == Token(lex, lex.arg_start, n)
    <3>1. e = v \o <<w>>
      BY <2>5 DEF Elements
    <3>2. w.from = lex.arg_start /\ w.to = n
      BY DEF Token
    <3>3. lex.arg_start < n /\ \A k \in DOMAIN v : v[k].to < lex.arg_start
      BY <2>1, <2>5 DEF LastAdded, IInv, Positions, Outside
    <3>4. /\ DOMAIN (v \o <<w>>) = DOMAIN v \cup {Len(v) + 1}
          /\ (v \o <<w>>)[Len(v) + 1] = w
          /\ \A k \in DOMAIN v : (v \o <<w>>)[k] = v[k] /\ k \in Nat /\ k <= Len(v)
          /\ Len(v) \in Nat
      BY <2>1
    <3> HIDE DEF v, w, e
    <3>5. \A k \in DOMAIN e : 0 <= e[k].from /\ e[k].from < e[k].to /\ e[k].to <= n
      BY <2>1, <2>2, <2>4, <3>1, <3>2, <3>3, <3>4
    <3>6. \A j, k \in DOMAIN e : j < k => e[j].to < e[k].from
      BY <2>3, <3>1, <3>2, <3>3, <3>4
    <3> QED
      BY <3>5, <3>6 DEF SpansOrdered, e
  <2>6. CASE ~LastAdded(lex)
    <3>1. e = v \o <<>>
      BY <2>6 DEF Elements
    <3>2. e = v
      BY <2>1, <3>1, ConcatNone
    <3>3. \A k \in DOMAIN v : 0 <= v[k].from /\ v[k].from < v[k].to /\ v[k].to <= n
      BY <2>1, <2>2, <2>4
    <3> QED
      BY <2>3, <3>2, <3>3 DEF SpansOrdered
  <2> QED
    BY <2>5, <2>6
<1> QED
  BY <1>1, Invariance, PTL

-----------------------------------------------------------------------------
(***************************************************************************)
(* The function run on a whole line.  Its registers after each character   *)
(* form a run; a run exists, and two runs agree as long as the characters  *)
(* do (both by induction on the position).                                 *)
(***************************************************************************)

IsRun(g, l, size) ==
  g = [k \in 0..Len(l) |-> IF k = 0 THEN Fresh ELSE Step(g[k - 1], l[k], k - 1, size)]

\* The loop defines registers after every character of the line.
LEMMA RunExists ==
  ASSUME NEW l \in Seq(Chars), NEW size
  PROVE  \E g : IsRun(g, l, size)
<1> DEFINE P(g, n) == g = [k \in 0..n |-> IF k = 0 THEN Fresh
                                          ELSE Step(g[k - 1], l[k], k - 1, size)]
           S == {n \in 0..Len(l) : \E g : P(g, n)}
<1>0. Len(l) \in Nat
  OBVIOUS
<1>1. 0 \in S
  <2> DEFINE g == [k \in 0..0 |-> Fresh]
  <2>1. P(g, 0)
    OBVIOUS
  <2> HIDE DEF g, P
  <2> QED
    BY <1>0, <2>1
<1>2. ASSUME NEW n \in 0..(Len(l) - 1), n \in S PROVE n + 1 \in S
  <2>1. PICK g : P(g, n)
    BY <1>2
  <2> DEFINE h == [k \in 0..(n + 1) |-> IF k = n + 1 THEN Step(g[n], l[n + 1], n, size) ELSE g[k]]
  <2>2. ASSUME NEW k \in 0..(n + 1)
        PROVE  h[k] = IF k = 0 THEN Fresh ELSE Step(h[k - 1], l[k], k - 1, size)
    <3>1. CASE k = 0
      <4>1. h[k] = g[k] /\ k \in 0..n
        BY <3>1
      <4> QED
        BY <2>1, <3>1, <4>1
    <3>2. CASE k # 0 /\ k # n + 1
      <4>1. k \in 0..n /\ k - 1 \in 0..n /\ k - 1 # n + 1
        BY <3>2
      <4>2. h[k] = g[k] /\ h[k - 1] = g[k - 1]
        BY <3>2, <4>1
      <4> QED
        BY <2>1, <3>2, <4>1, <4>2
    <3>3. CASE k = n + 1
      <4>1. h[k] = Step(g[n], l[n + 1], n, size) /\ h[n] = g[n]
        BY <3>3
      <4> QED
        BY <3>3, <4>1
    <3> QED
      BY <3>1, <3>2, <3>3
  <2>3. P(h, n + 1)
    <3>1. h = [k \in 0..(n + 1) |-> h[k]]
      OBVIOUS
    <3> HIDE DEF h
    <3> QED
      BY <2>2, <3>1
  <2> HIDE DEF h, P
  <2>4. n + 1 \in 0..Len(l)
    BY <1>0
  <2> QED
    BY <2>3, <2>4
<1> HIDE DEF S
<1>3. 0..Len(l) \subseteq S
  BY <1>0, <1>1, <1>2, Induction
<1>4. Len(l) \in S
  BY <1>0, <1>3
<1> QED
  BY <1>4 DEF S, IsRun

\* What the function computes is the end of a run.
LEMMA LexIsRun ==
  ASSUME NEW l \in Seq(Chars), NEW size
  PROVE  \E g : IsRun(g, l, size) /\ LexWith(l, size) = g[Len(l)]
<1> DEFINE f == CHOOSE h : h = [k \in 0..Len(l) |-> IF k = 0 THEN Fresh
                                                    ELSE Step(h[k - 1], l[k], k - 1, size)]
<1>1. LexWith(l, size) = f[Len(l)]
  BY DEF LexWith
<1>2. \E h : h = [k \in 0..Len(l) |-> IF k = 0 THEN Fresh
                                      ELSE Step(h[k - 1], l[k], k - 1, size)]
  BY RunExists DEF IsRun
<1>3. f = [k \in 0..Len(l) |-> IF k = 0 THEN Fresh ELSE Step(f[k - 1], l[k], k - 1, size)]
  BY <1>2
<1> HIDE DEF f
<1> QED
  BY <1>1, <1>3 DEF IsRun

\* One position of a run.
LEMMA RunStep ==
  ASSUME NEW l \in Seq(Chars), NEW size, NEW g, IsRun(g, l, size)
  PROVE  /\ g[0] = Fresh
         /\ \A k \in 0..(Len(l) - 1) : g[k + 1] = Step(g[k], l[k + 1], k, size)
<1>1. g[0] = Fresh
  BY DEF IsRun
<1>2. ASSUME NEW k \in 0..(Len(l) - 1) PROVE g[k + 1] = Step(g[k], l[k + 1], k, size)
  <2>1. k + 1 \in 0..Len(l) /\ k + 1 # 0 /\ (k + 1) - 1 = k
    OBVIOUS
  <2> QED
    BY <2>1 DEF IsRun
<1> QED
  BY <1>1, <1>2

\* The registers after a position depend on the characters before it only.
LEMMA RunPrefix ==
  ASSUME NEW l \in Seq(Chars), NEW m \in Seq(Chars), NEW size, NEW g, NEW h,
         IsRun(g, l, size), IsRun(h, m, size), Len(m) <= Len(l),
         \A k \in 1..Len(m) : m[k] = l[k]
  PROVE  \A k \in 0..Len(m) : h[k] = g[k]
<1> DEFINE S == {k \in 0..Len(m) : h[k] = g[k]}
<1>0. Len(m) \in Nat /\ Len(l) \in Nat
  OBVIOUS
<1>1. 0 \in S
  BY <1>0, RunStep
<1>2. ASSUME NEW k \in 0..(Len(m) - 1), k \in S PROVE k + 1 \in S
  <2>1. k + 1 \in 1..Len(m) /\ k \in 0..(Len(l) - 1)
    BY <1>0
  <2>2. h[k + 1] = Step(h[k], m[k + 1], k, size)
    BY RunStep
  <2>3. g[k + 1] = Step(g[k], l[k + 1], k, size)
    BY <2>1, RunStep
  <2> QED
    BY <1>2, <2>1, <2>2, <2>3
<1> HIDE DEF S
<1>3. 0..Len(m) \subseteq S
  BY <1>0, <1>1, <1>2, Induction
<1> QED
  BY <1>3 DEF S

\* The function on an empty line.
LEMMA LexEmpty == \A size : LexWith(<<>>, size) = Fresh
<1> SUFFICES ASSUME NEW size PROVE LexWith(<<>>, size) = Fresh
  OBVIOUS
<1>1. <<>> \in Seq(Chars) /\ Len(<<>>) = 0
  OBVIOUS
<1>2. PICK g : IsRun(g, <<>>, size) /\ LexWith(<<>>, size) = g[0]
  BY <1>1, LexIsRun
<1> QED
  BY <1>1, <1>2, RunStep

\* A further character takes one more turn of the loop.
LEMMA LexAppend ==
  ASSUME NEW l \in Seq(Chars), NEW c \in Chars, NEW size
  PROVE  LexWith(Append(l, c), size) = Step(LexWith(l, size), c, Len(l), size)
<1> DEFINE m == Append(l, c)
           n == Len(l)
<1>0. /\ n \in Nat /\ m \in Seq(Chars) /\ Len(m) = n + 1 /\ m[n + 1] = c
      /\ \A k \in 1..n : l[k] = m[k]
  OBVIOUS
<1> HIDE DEF m
<1>1. PICK g : IsRun(g, m, size) /\ LexWith(m, size) = g[n + 1]
  BY <1>0, LexIsRun
<1>2. PICK h : IsRun(h, l, size) /\ LexWith(l, size) = h[n]
  BY <1>0, LexIsRun
<1>3. h[n] = g[n]
  <2>1. \A k \in 0..Len(l) : h[k] = g[k]
    BY <1>0, <1>1, <1>2, RunPrefix
  <2> QED
    BY <1>0, <2>1
<1>4. g[n + 1] = Step(g[n], m[n + 1], n, size)
  <2>1. n \in 0..(Len(m) - 1)
    BY <1>0
  <2> QED
    BY <1>0, <1>1, <2>1, RunStep
<1> QED
  BY <1>0, <1>1, <1>2, <1>3, <1>4 DEF m

-----------------------------------------------------------------------------
(***************************************************************************)
(* The machine computes what the function does, and its registers describe *)
(* the word being read.                                                    *)
(***************************************************************************)

Quotes == {"SINGLE_QUOTE", "DOUBLE_QUOTE"}

RunOfLine == lex = Lex(line)

\* The buffer holds the word and nothing else once it was written; outside of
\* a word nothing is pending, and the START state is left of a space unless a
\* comment ended; quote is the first character of the word if that is a quote.
Registers ==
  /\ lex.t > 0 => Len(lex.token) = lex.t
  /\ lex.state \in Outside => lex.t = 0 /\ lex.quote = NoChar
  /\ lex.state = "START" /\ ~lex.enobufs =>
       \/ lex.trailing_space = TRUE
       \/ line # <<>> /\ Lex(Before(line, Len(line) - 1)).state = "IN_COMMENT"
  /\ lex.state \notin Outside =>
       lex.quote = IF Class[line[lex.arg_start + 1]] \in Quotes
                   THEN line[lex.arg_start + 1] ELSE NoChar

\* two lexers are at the same point of the same word
Alike(s, r) ==
  /\ s.state = r.state /\ s.t = r.t /\ s.enobufs = FALSE
  /\ r.t \in Nat
  /\ r.t > 0 => s.token = r.token

\* a part of the line, lexed alone, is in the middle of the same word
IsOpenWord(l, r) == Lex(l).strvec = <<>> /\ Alike(Lex(l), r)

\* a part of the line, lexed alone, is at the end of the word e
IsWord(l, e) ==
  LET s == Lex(l)
  IN /\ s.state = "IN_WORD" /\ s.t = e.len /\ s.strvec = <<>> /\ s.enobufs = FALSE
     /\ e.len > 0 => s.token = e.str

\* Each word of the line is a word by itself, the one being read included.
WordsAlone ==
  /\ \A k \in DOMAIN lex.strvec :
       IsWord(Sub(line, lex.strvec[k].from, lex.strvec[k].to), lex.strvec[k])
  /\ lex.state \notin Outside /\ ~lex.enobufs =>
       IsOpenWord(Sub(line, lex.arg_start, Len(line)), lex)

LineInv == IInv /\ RunOfLine /\ Registers /\ WordsAlone

\* A part of a line, character by character.
LEMMA SubProperties ==
  ASSUME NEW l \in Seq(Chars), NEW a \in 0..Len(l), NEW b \in a..Len(l)
  PROVE  /\ Sub(l, a, b) \in Seq(Chars)
         /\ Len(Sub(l, a, b)) = b - a
         /\ \A k \in 1..(b - a) : Sub(l, a, b)[k] = l[a + k]
<1>1. a + 1 \in Int /\ b \in Int /\ \A i \in (a + 1)..b : l[i] \in Chars
  OBVIOUS
<1>2. /\ SubSeq(l, a + 1, b) \in Seq(Chars)
      /\ Len(SubSeq(l, a + 1, b)) = IF a + 1 <= b THEN b - (a + 1) + 1 ELSE 0
      /\ \A k \in 1..(b - (a + 1) + 1) : SubSeq(l, a + 1, b)[k] = l[(a + 1) + k - 1]
  BY <1>1, SubSeqProperties
<1>3. b - (a + 1) + 1 = b - a /\ \A k \in Int : (a + 1) + k - 1 = a + k
  OBVIOUS
<1>4. ASSUME NEW k \in 1..(b - a) PROVE SubSeq(l, a + 1, b)[k] = l[a + k]
  BY <1>2, <1>3
<1> QED
  BY <1>2, <1>3, <1>4 DEF Sub

\* A part of a line does not change when a character is typed, except the
\* part that ends the line.
LEMMA SubAppend ==
  ASSUME NEW l \in Seq(Chars), NEW c \in Chars, NEW a \in 0..Len(l), NEW b \in a..Len(l)
  PROVE  /\ Sub(Append(l, c), a, b) = Sub(l, a, b)
         /\ Sub(Append(l, c), a, Len(l) + 1) = Append(Sub(l, a, Len(l)), c)
<1> DEFINE m == Append(l, c)
           n == Len(l)
<1>0. /\ n \in Nat /\ m \in Seq(Chars) /\ Len(m) = n + 1 /\ m[n + 1] = c
      /\ \A k \in 1..n : m[k] = l[k]
  OBVIOUS
<1> HIDE DEF m
<1>1. /\ a \in 0..Len(m) /\ b \in a..Len(m) /\ n + 1 \in a..Len(m) /\ n \in a..Len(l)
  BY <1>0
<1>2. Sub(m, a, b) = Sub(l, a, b)
  <2>1. /\ Sub(l, a, b) \in Seq(Chars) /\ Len(Sub(l, a, b)) = b - a
        /\ \A k \in 1..(b - a) : Sub(l, a, b)[k] = l[a + k]
    BY SubProperties
  <2>2. /\ Sub(m, a, b) \in Seq(Chars) /\ Len(Sub(m, a, b)) = b - a
        /\ \A k \in 1..(b - a) : Sub(m, a, b)[k] = m[a + k]
    BY <1>0, <1>1, SubProperties
  <2>3. \A k \in 1..(b - a) : m[a + k] = l[a + k]
    BY <1>0
  <2> QED
    BY <2>1, <2>2, <2>3, SeqEqual
<1>3. Sub(m, a, n + 1) = Append(Sub(l, a, n), c)
  <2> DEFINE u == Sub(l, a, n)
             v == Sub(m, a, n + 1)
  <2>1. u \in Seq(Chars) /\ Len(u) = n - a /\ \A k \in 1..(n - a) : u[k] = l[a + k]
    BY <1>1, SubProperties
  <2>2. v \in Seq(Chars) /\ Len(v) = n + 1 - a /\ \A k \in 1..(n + 1 - a) : v[k] = m[a + k]
    <3>1. \A d \in a..Len(m) : /\ Sub(m, a, d) \in Seq(Chars)
                               /\ Len(Sub(m, a, d)) = d - a
                               /\ \A k \in 1..(d - a) : Sub(m, a, d)[k] = m[a + k]
      BY <1>0, <1>1, SubProperties
    <3> QED
      BY <1>1, <3>1
  <2> HIDE DEF u, v
  <2>3. /\ Append(u, c) \in Seq(Chars) /\ Len(Append(u, c)) = Len(u) + 1
        /\ \A k \in 1..Len(u) : Append(u, c)[k] = u[k]
        /\ Append(u, c)[Len(u) + 1] = c
    BY <2>1, AppendProperties
  <2>4. ASSUME NEW k \in 1..(n + 1 - a) PROVE v[k] = Append(u, c)[k]
    <3>1. CASE k = n + 1 - a
      BY <1>0, <2>1, <2>2, <2>3, <3>1
    <3>2. CASE k # n + 1 - a
      <4>1. k \in 1..(n - a) /\ a + k \in 1..n
        BY <1>0, <3>2
      <4> QED
        BY <1>0, <2>1, <2>2, <2>3, <4>1
    <3> QED
      BY <3>1, <3>2
  <2>5. Len(v) = Len(Append(u, c))
    BY <1>0, <2>1, <2>2, <2>3
  <2>6. v = Append(u, c)
    BY <2>2, <2>3, <2>4, <2>5, SeqEqual
  <2> QED
    BY <2>6 DEF u, v
<1> QED
  BY <1>2, <1>3 DEF m

\* How the automaton leaves a word: by a space after it, or it was not in one
\* and the character does not start one.
LEMMA NextOutside ==
  ASSUME NEW s \in States, NEW c \in Chars, NextState(s, c) \in Outside
  PROVE  \/ EndsWord(s, c)
         \/ /\ s \in Outside /\ ~Appends(s, c) /\ ~EndsWord(s, c)
            /\ s = "START" => Class[c] \notin Quotes
            /\ NextState(s, c) = "START" => s = "IN_COMMENT" \/ Class[c] = "SPACE"
BY ConstantsAssumption DEF NextState, Automaton, InWord, EndsWord, Appends, States, Classes,
  Outside, Quotes

\* The facts about the types that the steps below use.
LEMMA LineTypes ==
  ASSUME IInv
  PROVE  /\ line \in Seq(Chars) /\ Len(line) \in Nat
         /\ lex.state \in States /\ lex.t \in Nat /\ lex.arg_start \in Nat
         /\ lex.token \in Seq(Chars \cup {Junk}) /\ lex.t <= Len(lex.token)
         /\ lex.strvec \in Seq(ElementType) /\ lex.enobufs \in BOOLEAN
         /\ lex.trailing_space \in BOOLEAN
         /\ lex.state \notin Outside => lex.arg_start < Len(line)
         /\ \A k \in DOMAIN lex.strvec :
              /\ lex.strvec[k].from \in Nat /\ lex.strvec[k].to \in Nat
              /\ lex.strvec[k].from < lex.strvec[k].to
              /\ lex.strvec[k].to <= lex.arg_start /\ lex.strvec[k].to <= Len(line)
<1>1. /\ line \in Seq(Chars) /\ Len(line) \in Nat
      /\ lex.state \in States /\ lex.t \in Nat /\ lex.arg_start \in Nat
      /\ lex.token \in Seq(Chars \cup {Junk}) /\ lex.t <= Len(lex.token)
      /\ lex.strvec \in Seq(ElementType) /\ lex.enobufs \in BOOLEAN
      /\ lex.trailing_space \in BOOLEAN
  BY ConstantsAssumption DEF IInv, TypeOK, LexType
<1>2. lex.state \notin Outside => lex.arg_start < Len(line)
  BY DEF IInv, Positions, Outside
<1>3. lex.arg_start <= Len(line)
  BY <1>1 DEF IInv, Positions
<1>4. \A k \in DOMAIN lex.strvec : lex.strvec[k].from \in Nat /\ lex.strvec[k].to \in Nat
  BY <1>1, ElementsInNat
<1> QED
  BY <1>1, <1>2, <1>3, <1>4 DEF IInv, Positions

\* The machine keeps computing the function.
LEMMA ReadRun ==
  ASSUME IInv, RunOfLine, NEW c \in Chars, Read(c)
  PROVE  RunOfLine'
BY LineTypes, LexAppend DEF RunOfLine, Lex, Read

\* A character read keeps the description of the word being read.
LEMMA ReadRegisters ==
  ASSUME IInv, RunOfLine, Registers, NEW c \in Chars, Read(c)
  PROVE  Registers'
<1> DEFINE n == Len(line)
<1>0. /\ line' = Append(line, c) /\ lex' = Step(lex, c, n, BufSize)
      /\ line' \in Seq(Chars) /\ Len(line') = n + 1 /\ line' # <<>> /\ n \in Nat
      /\ line'[n + 1] = c /\ \A k \in 1..n : line'[k] = line[k]
  BY LineTypes DEF Read
<1>1. lex.state \notin Outside => line'[lex.arg_start + 1] = line[lex.arg_start + 1]
  BY <1>0, LineTypes
<1>2. CASE lex.enobufs \/ (Appends(lex.state, c) /\ Full(lex, BufSize))
  <2>1. /\ lex'.state = lex.state /\ lex'.token = lex.token /\ lex'.t = lex.t
        /\ lex'.arg_start = lex.arg_start /\ lex'.quote = lex.quote /\ lex'.enobufs = TRUE
    BY <1>0, <1>2 DEF Step, IInv, TypeOK, LexType
  <2> QED
    BY <1>1, <2>1 DEF Registers
<1>3. CASE ~(lex.enobufs \/ (Appends(lex.state, c) /\ Full(lex, BufSize)))
  <2>1. /\ lex'.state = NextState(lex.state, c)
        /\ lex'.token = IF Appends(lex.state, c) THEN Append(SubSeq(lex.token, 1, lex.t), c)
                                                ELSE lex.token
        /\ lex'.t = IF EndsWord(lex.state, c) THEN 0
                    ELSE IF Appends(lex.state, c) THEN lex.t + 1 ELSE lex.t
        /\ lex'.arg_start = ArgStart(lex, c, n)
        /\ lex'.trailing_space = TrailingSpace(lex, c)
        /\ lex'.quote = Quote(lex, c)
    <3>1. lex' = Advance(lex, c, n)
      BY <1>0, <1>3 DEF Step
    <3> QED
      BY <3>1 DEF Advance
  <2>2. lex.enobufs = FALSE
    BY <1>3, LineTypes
  <2>3. lex'.t > 0 => Len(lex'.token) = lex'.t
    <3>1. CASE EndsWord(lex.state, c)
      BY <2>1, <3>1
    <3>2. CASE ~EndsWord(lex.state, c) /\ Appends(lex.state, c)
      <4>1. lex.token \in Seq(Chars \cup {Junk}) /\ lex.t \in Nat /\ lex.t <= Len(lex.token)
        BY LineTypes
      <4>2. SubSeq(lex.token, 1, lex.t) \in Seq(Chars \cup {Junk})
            /\ Len(SubSeq(lex.token, 1, lex.t)) = lex.t
        BY <4>1
      <4> QED
        BY <2>1, <3>2, <4>1, <4>2
    <3>3. CASE ~EndsWord(lex.state, c) /\ ~Appends(lex.state, c)
      BY <2>1, <3>3 DEF Registers
    <3> QED
      BY <3>1, <3>2, <3>3
  <2>4. ASSUME lex'.state \in Outside PROVE lex'.t = 0 /\ lex'.quote = NoChar
    <3>1. CASE EndsWord(lex.state, c)
      BY <2>1, <3>1 DEF Quote, EndsWord
    <3>2. CASE /\ lex.state \in Outside /\ ~Appends(lex.state, c) /\ ~EndsWord(lex.state, c)
               /\ lex.state = "START" => Class[c] \notin Quotes
      BY <2>1, <3>2 DEF Quote, Registers, Quotes
    <3> QED
      BY <2>1, <2>4, <3>1, <3>2, LineTypes, NextOutside
  <2>5. ASSUME lex'.state = "START"
        PROVE  \/ lex'.trailing_space = TRUE
               \/ line' # <<>> /\ Lex(Before(line', Len(line') - 1)).state = "IN_COMMENT"
    <3>1. CASE EndsWord(lex.state, c)
      BY <2>1, <3>1, LineTypes DEF TrailingSpace, EndsWord
    <3>2. CASE lex.state = "START" /\ Class[c] = "SPACE"
      BY <2>1, <3>2 DEF TrailingSpace
    <3>3. CASE lex.state = "IN_COMMENT"
      <4>1. Before(line', Len(line') - 1) = line
        <5>1. Before(line', n) \in Seq(Chars) /\ Len(Before(line', n)) = n
              /\ \A k \in 1..n : Before(line', n)[k] = line[k]
          BY <1>0 DEF Before
        <5>2. line \in Seq(Chars)
          BY LineTypes
        <5>3. Before(line', n) = line
          BY <5>1, <5>2, SeqEqual
        <5> QED
          BY <1>0, <5>3
      <4> QED
        BY <1>0, <3>3, <4>1 DEF RunOfLine
    <3>4. \/ EndsWord(lex.state, c)
          \/ lex.state = "START" /\ Class[c] = "SPACE"
          \/ lex.state = "IN_COMMENT"
      <4>1. lex.state \in States /\ NextState(lex.state, c) = "START"
        BY <2>1, <2>5, LineTypes
      <4>2. PICK s \in States : s = lex.state
        BY <4>1
      <4>3. NextState(s, c) = "START" /\ NextState(s, c) \in Outside
        BY <4>1, <4>2 DEF Outside
      <4>4. EndsWord(s, c) \/ (s \in Outside /\ (s = "IN_COMMENT" \/ Class[c] = "SPACE"))
        BY <4>3, NextOutside
      <4> QED
        BY <4>2, <4>4 DEF Outside
    <3> QED
      BY <3>1, <3>2, <3>3, <3>4
  <2>6. ASSUME lex'.state \notin Outside
        PROVE  lex'.quote = IF Class[line'[lex'.arg_start + 1]] \in Quotes
                            THEN line'[lex'.arg_start + 1] ELSE NoChar
    <3>1. CASE lex.state = "START"
      BY <1>0, <2>1, <3>1 DEF ArgStart, Quote, EndsWord, Registers, Outside, Quotes
    <3>2. CASE lex.state # "START" /\ lex.state \notin Outside /\ ~EndsWord(lex.state, c)
      BY <1>1, <2>1, <3>2 DEF ArgStart, Quote, Registers
    <3> QED
      BY <2>1, <2>6, <3>1, <3>2, LineTypes, WordBegins DEF Outside
  <2> QED
    BY <2>3, <2>4, <2>5, <2>6 DEF Registers
<1> QED
  BY <1>2, <1>3

\* Two lexers at the same point of the same word stay alike, wherever they are
\* in their lines: the loop looks at the state and at the buffer only.
LEMMA StepsAlike ==
  ASSUME NEW r, NEW s, Alike(s, r), NEW c \in Chars, NEW i, NEW j, NEW size,
         ~(r.enobufs \/ (Appends(r.state, c) /\ Full(r, size)))
  PROVE  /\ Alike(Step(s, c, i, size), Step(r, c, j, size))
         /\ ~(s.enobufs \/ (Appends(s.state, c) /\ Full(s, size)))
<1> DEFINE a == Advance(s, c, i)
           b == Advance(r, c, j)
<1>1. ~(s.enobufs \/ (Appends(s.state, c) /\ Full(s, size)))
  BY DEF Alike, Full
<1>2. Step(s, c, i, size) = a /\ Step(r, c, j, size) = b
  BY <1>1 DEF Step
<1>3. /\ a.state = NextState(s.state, c)
      /\ a.token = IF Appends(s.state, c) THEN Append(SubSeq(s.token, 1, s.t), c) ELSE s.token
      /\ a.t = IF EndsWord(s.state, c) THEN 0 ELSE IF Appends(s.state, c) THEN s.t + 1 ELSE s.t
      /\ a.enobufs = FALSE
  BY DEF Advance
<1>4. /\ b.state = NextState(r.state, c)
      /\ b.token = IF Appends(r.state, c) THEN Append(SubSeq(r.token, 1, r.t), c) ELSE r.token
      /\ b.t = IF EndsWord(r.state, c) THEN 0 ELSE IF Appends(r.state, c) THEN r.t + 1 ELSE r.t
  BY DEF Advance
<1> HIDE DEF a, b
<1>5. SubSeq(s.token, 1, s.t) = SubSeq(r.token, 1, r.t)
  <2>1. CASE r.t > 0
    BY <2>1 DEF Alike
  <2>2. CASE ~(r.t > 0)
    <3>1. r.t = 0 /\ s.t = 0
      BY <2>2 DEF Alike
    <3>2. SubSeq(s.token, 1, 0) = <<>> /\ SubSeq(r.token, 1, 0) = <<>>
      BY SubSeqEmpty
    <3> QED
      BY <3>1, <3>2
  <2> QED
    BY <2>1, <2>2
<1>6. a.state = b.state /\ a.t = b.t /\ b.t \in Nat
  BY <1>3, <1>4 DEF Alike
<1>7. b.t > 0 => a.token = b.token
  <2>0. s.state = r.state
    BY DEF Alike
  <2>1. CASE Appends(r.state, c)
    <3>1. Appends(s.state, c)
      BY <2>0, <2>1
    <3>2. a.token = Append(SubSeq(s.token, 1, s.t), c)
      BY <1>3, <3>1
    <3>3. b.token = Append(SubSeq(r.token, 1, r.t), c)
      BY <1>4, <2>1
    <3> QED
      BY <1>5, <3>2, <3>3
  <2>2. CASE ~Appends(r.state, c) /\ ~EndsWord(r.state, c)
    BY <1>3, <1>4, <2>0, <2>2 DEF Alike
  <2>3. CASE EndsWord(r.state, c)
    BY <1>4, <2>3
  <2> QED
    BY <2>1, <2>2, <2>3
<1>8. Alike(a, b)
  BY <1>3, <1>6, <1>7 DEF Alike
<1> QED
  BY <1>1, <1>2, <1>8

\* A character read keeps every word of the line a word by itself.
LEMMA ReadWords ==
  ASSUME IInv, Registers, WordsAlone, NEW c \in Chars, Read(c)
  PROVE  WordsAlone'
<1> DEFINE n == Len(line)
           v == lex.strvec
<1>0. /\ line' = Append(line, c) /\ lex' = Step(lex, c, n, BufSize)
      /\ line \in Seq(Chars) /\ n \in Nat /\ Len(line') = n + 1
  BY LineTypes DEF Read
<1>1. v \in Seq(ElementType)
  BY LineTypes
<1>2. ASSUME NEW k \in DOMAIN v
      PROVE  IsWord(Sub(line', v[k].from, v[k].to), v[k])
  <2>1. v[k].from \in 0..n /\ v[k].to \in (v[k].from)..n
    BY <1>0, LineTypes
  <2>2. Sub(line', v[k].from, v[k].to) = Sub(line, v[k].from, v[k].to)
    BY <1>0, <2>1, SubAppend
  <2>3. IsWord(Sub(line, v[k].from, v[k].to), v[k])
    BY DEF WordsAlone
  <2> QED
    BY <2>2, <2>3
<1>3. CASE lex.enobufs \/ (Appends(lex.state, c) /\ Full(lex, BufSize))
  <2>1. lex'.strvec = v /\ lex'.enobufs = TRUE
    BY <1>0, <1>3 DEF Step, IInv, TypeOK, LexType
  <2> QED
    BY <1>2, <2>1 DEF WordsAlone
<1>4. CASE ~(lex.enobufs \/ (Appends(lex.state, c) /\ Full(lex, BufSize)))
  <2>1. /\ lex'.state = NextState(lex.state, c)
        /\ lex'.arg_start = ArgStart(lex, c, n)
        /\ lex'.strvec = IF EndsWord(lex.state, c) THEN Append(v, Token(lex, lex.arg_start, n))
                                                  ELSE v
    <3>1. lex' = Advance(lex, c, n)
      BY <1>0, <1>4 DEF Step
    <3> QED
      BY <3>1 DEF Advance
  <2>2. ~lex.enobufs
    BY <1>4
  <2>3. CASE EndsWord(lex.state, c)
    <3> DEFINE e == Token(lex, lex.arg_start, n)
    <3>1. /\ lex.state = "IN_WORD" /\ lex'.state = "START"
          /\ lex.arg_start \in 0..n /\ n \in (lex.arg_start)..n
      <4>1. lex.state = "IN_WORD" /\ lex.state \in States
        BY <2>3, LineTypes DEF EndsWord
      <4>2. lex'.state = "START"
        BY <2>1, <2>3, <4>1, NextStateFacts
      <4> QED
        BY <1>0, <4>1, <4>2, LineTypes DEF Outside
    <3>2. Sub(line', lex.arg_start, n) = Sub(line, lex.arg_start, n)
      BY <1>0, <3>1, SubAppend
    <3>3. IsOpenWord(Sub(line, lex.arg_start, n), lex)
      BY <2>2, <3>1 DEF WordsAlone, Outside
    <3>4. e.from = lex.arg_start /\ e.to = n /\ e.str = lex.token /\ e.len = lex.t
      BY DEF Token
    <3> HIDE DEF e
    <3>5. IsWord(Sub(line', e.from, e.to), e)
      BY <3>1, <3>2, <3>3, <3>4 DEF IsWord, IsOpenWord, Alike
    <3>6. lex'.strvec = Append(v, e)
      BY <2>1, <2>3 DEF e
    <3>7. /\ DOMAIN Append(v, e) = DOMAIN v \cup {Len(v) + 1}
          /\ Append(v, e)[Len(v) + 1] = e
          /\ \A k \in DOMAIN v : Append(v, e)[k] = v[k]
      BY <1>1
    <3> HIDE DEF v
    <3>8. \A k \in DOMAIN lex'.strvec :
             IsWord(Sub(line', lex'.strvec[k].from, lex'.strvec[k].to), lex'.strvec[k])
      BY <1>2, <3>5, <3>6, <3>7
    <3> QED
      BY <3>1, <3>8 DEF WordsAlone, Outside
  <2>4. CASE ~EndsWord(lex.state, c)
    <3>1. lex'.strvec = v
      BY <2>1, <2>4
    <3>2. ASSUME lex'.state \notin Outside
          PROVE  IsOpenWord(Sub(line', lex'.arg_start, n + 1), lex')
      <4>1. PICK a \in 0..n : /\ a = lex'.arg_start
                              /\ Lex(Sub(line, a, n)).strvec = <<>>
                              /\ Alike(Lex(Sub(line, a, n)), lex)
        <5>1. CASE lex.state = "START"
          <6>1. lex'.arg_start = n
            BY <2>1, <5>1 DEF ArgStart
          <6>2. Sub(line, n, n) = <<>>
            BY <1>0, SubSeqEmpty DEF Sub
          <6>3. Lex(<<>>) = Fresh
            BY LexEmpty DEF Lex
          <6>4. Alike(Fresh, lex) /\ Fresh.strvec = <<>>
            BY <5>1 DEF Fresh, Alike, Registers, Outside
          <6> QED
            BY <1>0, <6>1, <6>2, <6>3, <6>4
        <5>2. CASE lex.state # "START" /\ lex.state \notin Outside
          <6>1. lex'.arg_start = lex.arg_start /\ lex.arg_start \in 0..n
            BY <1>0, <2>1, <2>4, <5>2, LineTypes DEF ArgStart
          <6> QED
            BY <2>2, <5>2, <6>1 DEF WordsAlone, IsOpenWord
        <5> QED
          BY <2>1, <3>2, <5>1, <5>2, LineTypes, WordBegins DEF Outside
      <4> DEFINE l == Sub(line, a, n)
      <4>2. l \in Seq(Chars)
        <5>1. n \in a..n
          BY <1>0
        <5> QED
          BY <1>0, <5>1, SubProperties
      <4>3. Sub(line', a, n + 1) = Append(l, c)
        <5>1. n \in a..n
          BY <1>0
        <5> QED
          BY <1>0, <5>1, SubAppend
      <4>4. Lex(Append(l, c)) = Step(Lex(l), c, Len(l), BufSize)
        BY <4>2, LexAppend DEF Lex
      <4> HIDE DEF l
      <4>5. /\ Alike(Step(Lex(l), c, Len(l), BufSize), Step(lex, c, n, BufSize))
            /\ ~(Lex(l).enobufs \/ (Appends(Lex(l).state, c) /\ Full(Lex(l), BufSize)))
        BY <1>4, <4>1, StepsAlike DEF l
      <4>6. Lex(l).strvec = <<>> /\ Lex(l).state = lex.state
        BY <4>1 DEF l, Alike
      <4>7. Step(Lex(l), c, Len(l), BufSize).strvec = <<>>
        <5>1. Step(Lex(l), c, Len(l), BufSize) = Advance(Lex(l), c, Len(l))
          BY <4>5 DEF Step
        <5> QED
          BY <2>4, <4>6, <5>1 DEF Advance
      <4> QED
        BY <1>0, <4>1, <4>3, <4>4, <4>5, <4>7 DEF IsOpenWord
    <3> QED
      BY <1>0, <1>2, <3>1, <3>2 DEF WordsAlone
  <2> QED
    BY <2>3, <2>4
<1> QED
  BY <1>3, <1>4

\* The invariant of the line holds for every line.
LEMMA LineInvariance == Spec => []LineInv
<1>1. Init => LineInv
  <2> SUFFICES ASSUME Init PROVE LineInv
    OBVIOUS
  <2>1. IInv
    BY Initially
  <2>2. RunOfLine
    BY LexEmpty DEF Init, RunOfLine, Lex
  <2>3. Registers /\ WordsAlone
    BY DEF Init, Fresh, Registers, WordsAlone, Outside
  <2> QED
    BY <2>1, <2>2, <2>3 DEF LineInv
<1>2. LineInv /\ [Next]_vars => LineInv'
  <2> SUFFICES ASSUME LineInv, [Next]_vars PROVE LineInv'
    OBVIOUS
  <2>1. IInv'
    BY Inductive DEF LineInv
  <2>2. CASE UNCHANGED vars
    BY <2>1, <2>2 DEF vars, LineInv, RunOfLine, Registers, WordsAlone
  <2>3. ASSUME NEW c \in Chars, Read(c) PROVE LineInv'
    BY <2>1, <2>3, ReadRun, ReadRegisters, ReadWords DEF LineInv
  <2> QED
    BY <2>2, <2>3 DEF Next
<1> QED
  BY <1>1, <1>2, PTL DEF Spec

-----------------------------------------------------------------------------
(***************************************************************************)
(* What the function returns at the end of a line.                         *)
(***************************************************************************)

Text == Seq(Chars \cup {Junk})
AnyElement == [str : Text, len : Nat, from : Nat, to : Nat]

\* The types of the registers for a line of any length and any buffer.
RegistersType(r) ==
  /\ r \in [state : States, token : Text, t : Nat, arg_start : Nat, trailing_space : BOOLEAN,
            quote : Chars \cup {NoChar}, strvec : Seq(AnyElement), enobufs : BOOLEAN]
  /\ r.t <= Len(r.token)
  /\ r.state \in Outside => r.t = 0

\* The elements, when no empty word is asked for after a trailing space.
LEMMA ElementsPlain ==
  ASSUME NEW S, NEW r, r.strvec \in Seq(S), NEW n
  PROVE  Elements(r, n, FALSE) = IF LastAdded(r) THEN Append(r.strvec, Token(r, r.arg_start, n))
                                                 ELSE r.strvec
<1>1. CASE LastAdded(r)
  BY <1>1 DEF Elements
<1>2. CASE ~LastAdded(r)
  <2>1. Elements(r, n, FALSE) = r.strvec \o <<>>
    BY <1>2 DEF Elements
  <2> QED
    BY <1>2, <2>1, ConcatNone
<1> QED
  BY <1>1, <1>2

\* A lexer in the middle of its first word returns that word.
LEMMA OneWord ==
  ASSUME NEW r, r.strvec = <<>>, LastAdded(r)
  PROVE  Words(r, FALSE) = <<r.token>>
<1>1. PICK x : x = Token(r, r.arg_start, 0)
  OBVIOUS
<1>2. Elements(r, 0, FALSE) = <<x>>
  BY <1>1 DEF Elements
<1>3. x.str = r.token
  BY <1>1 DEF Token
<1>4. Words(r, FALSE) = [k \in DOMAIN <<x>> |-> <<x>>[k].str]
  BY <1>2, Zenon DEF Words
<1>5. [k \in DOMAIN <<x>> |-> <<x>>[k].str] = <<x.str>>
  OBVIOUS
<1> QED
  BY <1>3, <1>4, <1>5

\* The registers keep their types.
LEMMA StepType ==
  ASSUME NEW r, RegistersType(r), NEW c \in Chars, NEW i \in Nat, NEW size
  PROVE  RegistersType(Step(r, c, i, size))
<1>0. /\ r.state \in States /\ r.token \in Text /\ r.t \in Nat /\ r.t <= Len(r.token)
      /\ r.arg_start \in Nat /\ r.trailing_space \in BOOLEAN
      /\ r.quote \in Chars \cup {NoChar} /\ r.strvec \in Seq(AnyElement)
      /\ r.state \in Outside => r.t = 0
  BY DEF RegistersType
<1>1. CASE r.enobufs \/ (Appends(r.state, c) /\ Full(r, size))
  <2>1. Step(r, c, i, size) = [r EXCEPT !.enobufs = TRUE]
    BY <1>1 DEF Step
  <2> QED
    BY <2>1 DEF RegistersType
<1>2. CASE ~(r.enobufs \/ (Appends(r.state, c) /\ Full(r, size)))
  <2> DEFINE a == Advance(r, c, i)
  <2>1. /\ a.state = NextState(r.state, c)
        /\ a.token = IF Appends(r.state, c) THEN Append(SubSeq(r.token, 1, r.t), c) ELSE r.token
        /\ a.t = IF EndsWord(r.state, c) THEN 0
                 ELSE IF Appends(r.state, c) THEN r.t + 1 ELSE r.t
        /\ a.arg_start = ArgStart(r, c, i)
        /\ a.trailing_space = TrailingSpace(r, c)
        /\ a.quote = Quote(r, c)
        /\ a.strvec = IF EndsWord(r.state, c) THEN Append(r.strvec, Token(r, r.arg_start, i))
                                             ELSE r.strvec
        /\ a.enobufs = FALSE
        /\ a = [state |-> a.state, token |-> a.token, t |-> a.t, arg_start |-> a.arg_start,
                trailing_space |-> a.trailing_space, quote |-> a.quote, strvec |-> a.strvec,
                enobufs |-> a.enobufs]
    BY DEF Advance
  <2> HIDE DEF a
  <2>2. a.state \in States
    BY <1>0, <2>1, NextStateFacts
  <2>3. a.token \in Text /\ a.t \in Nat /\ a.t <= Len(a.token)
    <3>1. CASE Appends(r.state, c)
      <4>1. SubSeq(r.token, 1, r.t) \in Text /\ Len(SubSeq(r.token, 1, r.t)) = r.t
        BY <1>0 DEF Text
      <4>2. a.token = Append(SubSeq(r.token, 1, r.t), c) /\ a.t \in {0, r.t + 1}
        BY <2>1, <3>1
      <4> QED
        BY <1>0, <4>1, <4>2 DEF Text
    <3>2. CASE ~Appends(r.state, c)
      <4>1. a.token = r.token /\ a.t \in {0, r.t}
        BY <2>1, <3>2
      <4> QED
        BY <1>0, <4>1 DEF Text
    <3> QED
      BY <3>1, <3>2
  <2>4. a.arg_start \in Nat /\ a.quote \in Chars \cup {NoChar}
    BY <1>0, <2>1 DEF ArgStart, Quote
  <2>5. a.trailing_space \in BOOLEAN
    <3>1. TrailingSpace(r, c) \in BOOLEAN
      BY <1>0, Zenon DEF TrailingSpace, EndsWord
    <3> QED
      BY <2>1, <3>1
  <2>6. a.strvec \in Seq(AnyElement)
    <3>1. Token(r, r.arg_start, i) \in AnyElement
      BY <1>0 DEF Token, AnyElement
    <3> QED
      BY <1>0, <2>1, <3>1
  <2>7. a.state \in Outside => a.t = 0
    <3>1. CASE EndsWord(r.state, c)
      BY <2>1, <3>1
    <3>2. CASE r.state \in Outside /\ ~Appends(r.state, c) /\ ~EndsWord(r.state, c)
      BY <1>0, <2>1, <3>2
    <3> QED
      BY <1>0, <2>1, <3>1, <3>2, NextOutside
  <2>8. RegistersType(a)
    BY <2>1, <2>2, <2>3, <2>4, <2>5, <2>6, <2>7 DEF RegistersType
  <2> QED
    BY <1>2, <2>8 DEF Step, a
<1> QED
  BY <1>1, <1>2

\* The registers have their types all along a run.
LEMMA RunType ==
  ASSUME NEW l \in Seq(Chars), NEW size, NEW g, IsRun(g, l, size)
  PROVE  \A k \in 0..Len(l) : RegistersType(g[k])
<1> DEFINE S == {k \in 0..Len(l) : RegistersType(g[k])}
<1>0. Len(l) \in Nat
  OBVIOUS
<1>1. 0 \in S
  <2>1. g[0] = Fresh
    BY RunStep
  <2>2. RegistersType(Fresh)
    BY ConstantsAssumption DEF Fresh, RegistersType, States, Text
  <2> QED
    BY <1>0, <2>1, <2>2
<1>2. ASSUME NEW k \in 0..(Len(l) - 1), k \in S PROVE k + 1 \in S
  <2>1. g[k + 1] = Step(g[k], l[k + 1], k, size)
    BY RunStep
  <2>2. l[k + 1] \in Chars /\ k \in Nat /\ k + 1 \in 0..Len(l) /\ RegistersType(g[k])
    BY <1>0, <1>2
  <2>3. RegistersType(g[k + 1])
    BY <2>1, <2>2, StepType
  <2> QED
    BY <2>2, <2>3
<1> HIDE DEF S
<1>3. 0..Len(l) \subseteq S
  BY <1>0, <1>1, <1>2, Induction
<1> QED
  BY <1>3 DEF S

\* Each element, lexed on its own, is that element.
LEMMA SpansAreWords == LineInv => SpanIsWord
<1> SUFFICES ASSUME LineInv, ~lex.enobufs,
                    NEW k \in DOMAIN Elements(lex, Len(line), FALSE),
                    Elements(lex, Len(line), FALSE)[k].len > 0
             PROVE  LET e == Elements(lex, Len(line), FALSE)[k]
                        r == Lex(Sub(line, e.from, e.to))
                    IN /\ Words(r, FALSE) = <<e.str>>
                       /\ k \in DOMAIN lex.strvec => Errno(r, TRUE) = "none"
  BY DEF SpanIsWord
<1> DEFINE v == lex.strvec
           e == Elements(lex, Len(line), FALSE)
           w == Token(lex, lex.arg_start, Len(line))
<1>1. v \in Seq(ElementType) /\ lex.t \in Nat
  BY LineTypes DEF LineInv
<1>2. e = IF LastAdded(lex) THEN Append(v, w) ELSE v
  BY <1>1, ElementsPlain
<1>a. w.from = lex.arg_start /\ w.to = Len(line) /\ w.str = lex.token
  BY DEF Token
<1>b. k \in DOMAIN e
  OBVIOUS
<1> HIDE DEF e, v, w
<1>c. /\ DOMAIN Append(v, w) = DOMAIN v \cup {Len(v) + 1}
      /\ Append(v, w)[Len(v) + 1] = w
      /\ \A j \in DOMAIN v : Append(v, w)[j] = v[j]
  BY <1>1
<1>3. ASSUME k \in DOMAIN v
      PROVE  LET r == Lex(Sub(line, e[k].from, e[k].to))
             IN Words(r, FALSE) = <<e[k].str>> /\ Errno(r, TRUE) = "none"
  <2>1. e[k] = v[k]
    BY <1>2, <1>3, <1>c
  <2> DEFINE r == Lex(Sub(line, e[k].from, e[k].to))
  <2>2. IsWord(Sub(line, v[k].from, v[k].to), v[k])
    BY <1>3 DEF LineInv, WordsAlone, v
  <2>a. e[k].len > 0
    BY DEF e
  <2>3. r.strvec = <<>> /\ LastAdded(r) /\ r.token = e[k].str
    BY <2>1, <2>2, <2>a DEF IsWord, LastAdded
  <2>4. r.enobufs = FALSE /\ r.state = "IN_WORD"
    BY <2>1, <2>2 DEF IsWord
  <2> HIDE DEF r
  <2>5. Errno(r, TRUE) = "none"
    BY <2>4 DEF Errno, Unterminated
  <2> QED
    BY <2>3, <2>5, OneWord DEF r
<1>4. ASSUME k \notin DOMAIN v
      PROVE  LET r == Lex(Sub(line, e[k].from, e[k].to))
             IN Words(r, FALSE) = <<e[k].str>>
  <2>1. LastAdded(lex) /\ e[k] = w
    BY <1>2, <1>4, <1>b, <1>c
  <2> DEFINE r == Lex(Sub(line, e[k].from, e[k].to))
  <2>3. r.strvec = <<>> /\ Alike(r, lex)
    BY <1>a, <2>1 DEF LineInv, WordsAlone, IsOpenWord, LastAdded, Outside
  <2>4. LastAdded(r) /\ r.token = w.str
    BY <1>a, <2>1, <2>3 DEF LastAdded, Alike
  <2> HIDE DEF r
  <2> QED
    BY <2>1, <2>3, <2>4, OneWord DEF r
<1> QED
  BY <1>3, <1>4, <1>b DEF e, v

-----------------------------------------------------------------------------
(***************************************************************************)
(* Typing one more character, and taking a completion.                     *)
(***************************************************************************)

Strings(e) == [k \in DOMAIN e |-> e[k].str]

\* the words of the elements v followed by the element x
WordsOf(v, x) == Strings(v \o <<x>>)

\* a list of words with the last one replaced
LastReplaced(w, z) == [w EXCEPT ![Len(w)] = z]

\* Two lists of elements that differ in the last one only.
LEMMA LastWord ==
  ASSUME NEW S, NEW v \in Seq(S), NEW x, NEW y,
         NEW w, w = WordsOf(v, x), NEW u, u = WordsOf(v, y)
  PROVE  /\ w # <<>>
         /\ w[Len(w)] = x.str
         /\ u = LastReplaced(w, y.str)
<1> DEFINE n == Len(v)
           a == v \o <<x>>
           b == v \o <<y>>
           T == {a[k].str : k \in 1..(n + 1)}
<1>1. /\ DOMAIN a = 1..(n + 1) /\ a[n + 1] = x
      /\ DOMAIN b = 1..(n + 1) /\ b[n + 1] = y
      /\ \A k \in 1..n : a[k] = v[k] /\ b[k] = v[k]
      /\ n \in Nat
  OBVIOUS
<1>2. /\ w = [k \in 1..(n + 1) |-> a[k].str]
      /\ u = [k \in 1..(n + 1) |-> b[k].str]
  BY <1>1 DEF WordsOf, Strings
<1> HIDE DEF a, b, n
<1>3. Len(w) = n + 1
  <2>1. \A k \in 1..(n + 1) : a[k].str \in T
    OBVIOUS
  <2> HIDE DEF T
  <2>2. w \in [1..(n + 1) -> T]
    BY <1>2, <2>1
  <2>3. w \in Seq(T) /\ DOMAIN w = 1..(n + 1)
    BY <1>1, <2>2, SeqDef
  <2> HIDE <1>2
  <2> QED
    BY <1>1, <2>3, LenProperties
<1>4. w[n + 1] = x.str /\ DOMAIN w = 1..(n + 1) /\ n + 1 \in 1..(n + 1)
  <2>1. n + 1 \in 1..(n + 1)
    BY <1>1
  <2> QED
    BY <1>1, <1>2, <2>1
<1>5. w # <<>>
  BY <1>4
<1>6. u = [w EXCEPT ![n + 1] = y.str]
  <2>1. \A k \in 1..(n + 1) : k # n + 1 => w[k] = v[k].str
    BY <1>1, <1>2
  <2>2. \A k \in 1..(n + 1) : k # n + 1 => u[k] = v[k].str
    BY <1>1, <1>2
  <2>3. u[n + 1] = y.str
    BY <1>1, <1>2
  <2>4. \A k \in 1..(n + 1) : u[k] = IF k = n + 1 THEN y.str ELSE w[k]
    BY <2>1, <2>2, <2>3
  <2>5. u = [k \in 1..(n + 1) |-> IF k = n + 1 THEN y.str ELSE w[k]]
    BY <1>2, <2>4
  <2> QED
    BY <1>4, <2>5
<1> QED
  BY <1>3, <1>4, <1>5, <1>6 DEF LastReplaced

\* A plain character extends the word being read, or starts one.
LEMMA PlainRead ==
  ASSUME LineInv, NEW c \in Plain, lex.state # "IN_COMMENT",
         ~Lex(Append(line, c)).enobufs
  PROVE  LET r == Lex(Append(line, c))
         IN /\ r.strvec = lex.strvec
            /\ r.token = Append(SubSeq(lex.token, 1, lex.t), c)
            /\ r.t = lex.t + 1 /\ LastAdded(r)
            /\ r.state = IF lex.state \in {"ESCAPING_QUOTED", "IN_DOUBLE_QUOTES"}
                         THEN "IN_DOUBLE_QUOTES"
                         ELSE IF lex.state = "IN_SINGLE_QUOTES" THEN "IN_SINGLE_QUOTES"
                         ELSE "IN_WORD"
<1> DEFINE r == Lex(Append(line, c))
           n == Len(line)
<1>0. c \in Chars /\ Class[c] = "OTHER" /\ IInv /\ lex.state \in States /\ lex.t \in Nat
  BY LineTypes DEF Plain, LineInv
<1>1. r = Step(lex, c, n, BufSize)
  BY <1>0, LineTypes, LexAppend DEF Lex, LineInv, RunOfLine
<1> HIDE DEF r
<1>2. r = Advance(lex, c, n)
  <2>1. ~r.enobufs
    BY DEF r
  <2>2. CASE lex.enobufs \/ (Appends(lex.state, c) /\ Full(lex, BufSize))
    <3>1. r = [lex EXCEPT !.enobufs = TRUE]
      BY <1>1, <2>2 DEF Step
    <3>2. lex \in LexType
      BY <1>0 DEF IInv, TypeOK
    <3>3. r.enobufs = TRUE
      BY <3>1, <3>2 DEF LexType
    <3> QED
      BY <2>1, <3>3
  <2> QED
    BY <1>1, <2>2 DEF Step
<1>3. /\ Appends(lex.state, c) /\ ~EndsWord(lex.state, c)
      /\ NextState(lex.state, c) = IF lex.state \in {"ESCAPING_QUOTED", "IN_DOUBLE_QUOTES"}
                                   THEN "IN_DOUBLE_QUOTES"
                                   ELSE IF lex.state = "IN_SINGLE_QUOTES" THEN "IN_SINGLE_QUOTES"
                                   ELSE "IN_WORD"
  BY <1>0 DEF Appends, EndsWord, NextState, Automaton, InWord, States
<1>4. /\ r.strvec = lex.strvec /\ r.t = lex.t + 1
      /\ r.token = Append(SubSeq(lex.token, 1, lex.t), c)
      /\ r.state = NextState(lex.state, c)
  BY <1>2, <1>3 DEF Advance
<1>5. LastAdded(r)
  BY <1>0, <1>3, <1>4 DEF LastAdded
<1> QED
  BY <1>3, <1>4, <1>5 DEF r

\* The last word of the line, when there is one: the buffer.
LEMMA WordPending ==
  ASSUME LineInv, lex.state \in {"IN_WORD"} \cup Unterminated, ~Blank(lex)
  PROVE  LastAdded(lex) /\ SubSeq(lex.token, 1, lex.t) = lex.token
<1>1. lex.t > 0 /\ lex.state \notin Outside
  BY LineTypes DEF LineInv, Blank, Unterminated, Outside
<1>2. Len(lex.token) = lex.t /\ lex.token \in Seq(Chars \cup {Junk})
  BY <1>1, LineTypes DEF LineInv, Registers
<1> QED
  BY <1>1, <1>2 DEF LastAdded, Outside

\* The next plain character typed extends the last element of the line.
LEMMA TrailingWordHolds == LineInv => TrailingWord
<1> SUFFICES ASSUME LineInv, NEW c \in Plain, ~Lex(Append(line, c)).enobufs,
                    ~Blank(lex), lex.state # "IN_COMMENT",
                    lex.state = "START" =>
                      line = <<>> \/ Lex(Before(line, Len(line) - 1)).state # "IN_COMMENT"
             PROVE  LET w == Words(lex, TRUE)
                    IN /\ w # <<>>
                       /\ Words(Lex(Append(line, c)), TRUE) = [w EXCEPT ![Len(w)] = Append(@, c)]
  BY DEF TrailingWord
<1> DEFINE r == Lex(Append(line, c))
           v == lex.strvec
           y == Token(r, r.arg_start, 0)
<1>1. /\ r.strvec = v /\ LastAdded(r)
      /\ r.token = Append(SubSeq(lex.token, 1, lex.t), c)
  BY PlainRead
<1>2. v \in Seq(ElementType) /\ lex.state \in States
  BY LineTypes DEF LineInv
<1> HIDE DEF r
<1>3. Words(r, TRUE) = WordsOf(v, y)
  BY <1>1 DEF Words, Elements, WordsOf, Strings
<1>4. y.str = Append(SubSeq(lex.token, 1, lex.t), c)
  BY <1>1 DEF Token
<1>5. \E x : /\ Words(lex, TRUE) = WordsOf(v, x)
             /\ SubSeq(lex.token, 1, lex.t) = x.str
  <2>1. CASE lex.state = "START"
    <3> DEFINE x == [str |-> <<>>, len |-> 0, from |-> lex.arg_start + 1, to |-> 1]
    <3>1. lex.t = 0 /\ ~LastAdded(lex)
      BY <2>1 DEF LineInv, Registers, Outside, LastAdded
    <3>2. ~lex.enobufs
      <4>1. Append(line, c) # <<>> /\ line \in Seq(Chars) /\ c \in Chars
        BY LineTypes DEF LineInv, Plain
      <4>2. r = Step(lex, c, Len(line), BufSize)
        BY <4>1, LexAppend DEF Lex, LineInv, RunOfLine, r
      <4>3. CASE lex.enobufs
        <5>1. r = [lex EXCEPT !.enobufs = TRUE] /\ lex \in LexType
          BY <4>2, <4>3 DEF Step, LineInv, IInv, TypeOK
        <5> QED
          BY <5>1 DEF LexType, r
      <4> QED
        BY <4>3
    <3>3. lex.trailing_space
      BY <2>1, <3>2 DEF LineInv, Registers
    <3>4. Elements(lex, 0, TRUE) = v \o <<x>>
      BY <3>1, <3>3 DEF Elements
    <3>5. x.str = <<>> /\ SubSeq(lex.token, 1, 0) = <<>>
      BY SubSeqEmpty
    <3> HIDE DEF x
    <3> QED
      BY <3>1, <3>4, <3>5 DEF Words, WordsOf, Strings
  <2>2. CASE lex.state # "START"
    <3> DEFINE x == Token(lex, lex.arg_start, 0)
    <3>1. lex.state \in {"IN_WORD"} \cup Unterminated
      BY <1>2, <2>2 DEF States, Unterminated
    <3>2. LastAdded(lex) /\ SubSeq(lex.token, 1, lex.t) = lex.token
      BY <3>1, WordPending
    <3>3. Elements(lex, 0, TRUE) = v \o <<x>> /\ x.str = lex.token
      BY <3>2 DEF Elements, Token
    <3> HIDE DEF x
    <3> QED
      BY <3>2, <3>3 DEF Words, WordsOf, Strings
  <2> QED
    BY <2>1, <2>2
<1>6. PICK x : /\ Words(lex, TRUE) = WordsOf(v, x)
               /\ SubSeq(lex.token, 1, lex.t) = x.str
  BY <1>5
<1> HIDE DEF v, y
<1>a. PICK w : w = Words(lex, TRUE)
  OBVIOUS
<1>b. PICK u : u = Words(r, TRUE)
  OBVIOUS
<1>c. w = WordsOf(v, x) /\ u = WordsOf(v, y)
  BY <1>3, <1>6, <1>a, <1>b
<1>7. w # <<>> /\ w[Len(w)] = x.str /\ u = LastReplaced(w, y.str)
  BY <1>2, <1>c, LastWord
<1>8. y.str = Append(w[Len(w)], c)
  BY <1>4, <1>6, <1>7
<1> QED
  BY <1>7, <1>8, <1>a, <1>b DEF r, LastReplaced

\* The registers of the function have their types, for any line.
LEMMA LexRegisters ==
  ASSUME NEW l \in Seq(Chars), NEW size
  PROVE  RegistersType(LexWith(l, size))
<1>1. PICK g : IsRun(g, l, size) /\ LexWith(l, size) = g[Len(l)]
  BY LexIsRun
<1>2. Len(l) \in 0..Len(l)
  OBVIOUS
<1> QED
  BY <1>1, <1>2, RunType

\* A line that fits fitted before its last character.
LEMMA FittedBefore ==
  ASSUME NEW r, RegistersType(r), NEW c, NEW i, NEW size, ~Step(r, c, i, size).enobufs
  PROVE  /\ ~r.enobufs
         /\ ~(Appends(r.state, c) /\ Full(r, size))
         /\ Step(r, c, i, size) = Advance(r, c, i)
<1>1. CASE r.enobufs \/ (Appends(r.state, c) /\ Full(r, size))
  <2>1. Step(r, c, i, size) = [r EXCEPT !.enobufs = TRUE]
    BY <1>1 DEF Step
  <2>2. Step(r, c, i, size).enobufs = TRUE
    BY <2>1 DEF RegistersType
  <2> QED
    BY <2>2
<1>2. CASE ~(r.enobufs \/ (Appends(r.state, c) /\ Full(r, size)))
  BY <1>2 DEF Step
<1> QED
  BY <1>1, <1>2

\* The line once a completion is taken, one character at a time.
LEMMA CompletedLine ==
  ASSUME NEW l \in Seq(Chars), NEW c \in Chars, NEW r, MissingQuote(r) \in Chars \cup {NoChar}
  PROVE  Completed(r, l, <<c>>) = IF MissingQuote(r) = NoChar THEN Append(l, c)
                                  ELSE Append(Append(l, c), MissingQuote(r))
<1>1. PICK q : q = MissingQuote(r)
  OBVIOUS
<1>2. /\ (l \o <<c>>) \o <<>> = Append(l, c)
      /\ q \in Chars => (l \o <<c>>) \o <<q>> = Append(Append(l, c), q)
  OBVIOUS
<1> QED
  BY <1>1, <1>2 DEF Completed

\* Once a completion of the word is taken the lexer is at the end of that word.
LEMMA CompletedRead ==
  ASSUME LineInv, NEW c \in Plain, lex.state \in {"IN_WORD"} \cup Unterminated, OpenedFirst,
         ~Lex(Completed(lex, line, <<c>>)).enobufs
  PROVE  LET r == Lex(Completed(lex, line, <<c>>))
         IN /\ r.strvec = lex.strvec
            /\ r.token = Append(SubSeq(lex.token, 1, lex.t), c)
            /\ r.state = "IN_WORD" /\ LastAdded(r)
<1> DEFINE m == Append(line, c)
           p == Lex(m)
           first == line[lex.arg_start + 1]
           q == MissingQuote(lex)
<1>0. /\ line \in Seq(Chars) /\ c \in Chars /\ m \in Seq(Chars)
      /\ lex.state \notin Outside /\ lex.state # "IN_COMMENT" /\ lex.state \in States
  BY LineTypes DEF LineInv, Plain, Unterminated, Outside
<1>1. first \in Chars /\ Class[first] \in Classes
  <2>1. lex.arg_start + 1 \in 1..Len(line)
    BY <1>0, LineTypes DEF LineInv
  <2> QED
    BY <1>0, <2>1, ConstantsAssumption
<1>2. lex.quote = IF Class[first] \in Quotes THEN first ELSE NoChar
  BY <1>0 DEF LineInv, Registers
<1>3. q \in Chars \cup {NoChar}
  BY <1>1, <1>2 DEF MissingQuote
<1>4. Completed(lex, line, <<c>>) = IF q = NoChar THEN m ELSE Append(m, q)
  BY <1>0, <1>3, CompletedLine
<1>5. RegistersType(p)
  BY <1>0, LexRegisters DEF Lex
<1>6. CASE q = NoChar
  <2>1. lex.state \in {"IN_WORD", "ESCAPING"}
    BY <1>0, <1>1, <1>2, <1>6, ConstantsAssumption
      DEF MissingQuote, Unterminated, States, OpenedFirst, Quotes
  <2>2. Completed(lex, line, <<c>>) = m
    BY <1>4, <1>6
  <2>3. ~p.enobufs
    BY <2>2
  <2> QED
    BY <1>0, <2>1, <2>2, <2>3, PlainRead
<1>7. CASE q # NoChar
  <2> DEFINE r == Lex(Append(m, q))
  <2>1. /\ q \in Chars /\ q = first /\ Class[first] \in Quotes
        /\ lex.state \in Unterminated
    BY <1>1, <1>2, <1>3, <1>7 DEF MissingQuote
  <2>2. Completed(lex, line, <<c>>) = Append(m, q)
    BY <1>4, <1>7
  <2>3. r = Step(p, q, Len(m), BufSize)
    BY <1>0, <2>1, LexAppend DEF Lex
  <2>4. ~r.enobufs
    BY <2>2
  <2> HIDE DEF r, p, q, m
  <2>5. ~p.enobufs /\ r = Advance(p, q, Len(m))
    BY <1>5, <2>3, <2>4, FittedBefore
  <2>6. /\ p.strvec = lex.strvec /\ p.token = Append(SubSeq(lex.token, 1, lex.t), c)
        /\ LastAdded(p)
        /\ p.state = IF lex.state \in {"ESCAPING_QUOTED", "IN_DOUBLE_QUOTES"}
                     THEN "IN_DOUBLE_QUOTES"
                     ELSE IF lex.state = "IN_SINGLE_QUOTES" THEN "IN_SINGLE_QUOTES"
                     ELSE "IN_WORD"
    BY <1>0, <2>5, PlainRead DEF p, m
  <2>7. \/ p.state = "IN_SINGLE_QUOTES" /\ Class[q] = "SINGLE_QUOTE"
        \/ p.state = "IN_DOUBLE_QUOTES" /\ Class[q] = "DOUBLE_QUOTE"
    BY <2>1, <2>6 DEF Unterminated, States, OpenedFirst, Quotes
  <2>8. /\ NextState(p.state, q) = "IN_WORD"
        /\ ~Appends(p.state, q) /\ ~EndsWord(p.state, q)
    BY <2>1, <2>7 DEF NextState, Automaton, Appends, EndsWord
  <2>9. r.state = "IN_WORD" /\ r.t = p.t /\ r.token = p.token /\ r.strvec = p.strvec
    BY <2>5, <2>8 DEF Advance
  <2> QED
    BY <2>2, <2>6, <2>9 DEF LastAdded, r
<1> QED
  BY <1>6, <1>7

\* Taking the completion of the last word closes it.
LEMMA CompletionClosesHolds == LineInv => CompletionCloses
<1> SUFFICES ASSUME LineInv, NEW c \in Plain, lex.state \in {"IN_WORD"} \cup Unterminated,
                    OpenedFirst, ~Lex(Completed(lex, line, <<c>>)).enobufs, ~Blank(lex)
             PROVE  LET w == Words(lex, FALSE)
                        r == Lex(Completed(lex, line, <<c>>))
                    IN /\ Errno(r, TRUE) = "none"
                       /\ Words(r, FALSE) = [w EXCEPT ![Len(w)] = Append(@, c)]
  BY DEF CompletionCloses
<1> DEFINE r == Lex(Completed(lex, line, <<c>>))
           v == lex.strvec
           x == Token(lex, lex.arg_start, 0)
           y == Token(r, r.arg_start, 0)
<1>1. /\ r.strvec = v /\ LastAdded(r) /\ r.state = "IN_WORD"
      /\ r.token = Append(SubSeq(lex.token, 1, lex.t), c)
  BY CompletedRead
<1>2. v \in Seq(ElementType) /\ LastAdded(lex) /\ SubSeq(lex.token, 1, lex.t) = lex.token
  BY LineTypes, WordPending DEF LineInv
<1>3. ~r.enobufs
  OBVIOUS
<1> HIDE DEF r
<1>4. Errno(r, TRUE) = "none"
  BY <1>1, <1>3 DEF Errno, Unterminated
<1>5. y.str = Append(x.str, c)
  BY <1>1, <1>2 DEF Token
<1>6. PICK w : w = Words(lex, FALSE)
  OBVIOUS
<1>7. PICK u : u = Words(r, FALSE)
  OBVIOUS
<1>8. w = WordsOf(v, x) /\ u = WordsOf(v, y)
  BY <1>1, <1>2, <1>6, <1>7 DEF Words, Elements, WordsOf, Strings
<1> HIDE DEF v, x, y
<1>9. w # <<>> /\ w[Len(w)] = x.str /\ u = LastReplaced(w, y.str)
  BY SMTT(40), <1>2, <1>8, LastWord
<1> QED
  BY <1>4, <1>5, <1>6, <1>7, <1>9 DEF r, LastReplaced

-----------------------------------------------------------------------------
(***************************************************************************)
(* The two sides of a space.  The lexer that reads the whole line and one  *)
(* that starts after the space read the same characters: at each of them   *)
(* they are at the same point of the same word, and the first has split    *)
(* what the second has, after the elements of the left side and at         *)
(* positions that differ by the length of the left side and the space.     *)
(***************************************************************************)

\* element a is element b at positions moved by d
Moved(a, b, d) ==
  /\ a.len = b.len /\ a.from = b.from + d /\ a.to = b.to + d
  /\ b.len > 0 => a.str = b.str

\* the elements a are the elements v, then the elements b moved by d
Followed(v, b, a, d) ==
  /\ Len(a) = Len(v) + Len(b)
  /\ \A k \in 1..Len(v) : a[k] = v[k]
  /\ \A k \in 1..Len(b) : Moved(a[Len(v) + k], b[k], d)

\* the lexer r, which split v before, has split since then what the lexer s has
InStep(v, s, r, d) ==
  /\ Alike(s, r)
  /\ r.state \notin Outside => r.arg_start = s.arg_start + d
  /\ Followed(v, s.strvec, r.strvec, d)

\* Both lexers add the same element.
LEMMA FollowedAppend ==
  ASSUME NEW v \in Seq(AnyElement), NEW b \in Seq(AnyElement), NEW a \in Seq(AnyElement),
         NEW d, Followed(v, b, a, d), NEW x, NEW y, Moved(x, y, d)
  PROVE  Followed(v, Append(b, y), Append(a, x), d)
<1>1. /\ Len(v) \in Nat /\ Len(b) \in Nat /\ Len(a) = Len(v) + Len(b)
      /\ \A k \in 1..Len(v) : a[k] = v[k]
      /\ \A k \in 1..Len(b) : Moved(a[Len(v) + k], b[k], d)
  BY SMTT(40) DEF Followed
<1>2. /\ Len(Append(a, x)) = Len(a) + 1 /\ Len(Append(b, y)) = Len(b) + 1
      /\ Append(a, x)[Len(a) + 1] = x /\ Append(b, y)[Len(b) + 1] = y
      /\ \A k \in 1..Len(a) : Append(a, x)[k] = a[k]
      /\ \A k \in 1..Len(b) : Append(b, y)[k] = b[k]
  OBVIOUS
<1> DEFINE a2 == Append(a, x)
           b2 == Append(b, y)
<1> HIDE DEF a2, b2
<1>3. \A k \in 1..Len(v) : a2[k] = v[k]
  <2> SUFFICES ASSUME NEW k \in 1..Len(v) PROVE a2[k] = v[k]
    OBVIOUS
  <2>1. k \in 1..Len(a)
    BY <1>1
  <2> QED
    BY <1>1, <1>2, <2>1 DEF a2
<1>4. ASSUME NEW k \in 1..Len(b2) PROVE Moved(a2[Len(v) + k], b2[k], d)
  <2>1. CASE k = Len(b) + 1
    <3>1. Len(v) + k = Len(a) + 1
      BY <1>1, <2>1
    <3>2. a2[Len(v) + k] = x /\ b2[k] = y
      BY <1>2, <2>1, <3>1 DEF a2, b2
    <3> QED
      BY <3>2
  <2>2. CASE k # Len(b) + 1
    <3>1. k \in 1..Len(b) /\ Len(v) + k \in 1..Len(a)
      BY <1>1, <1>2, <2>2 DEF b2
    <3>2. a2[Len(v) + k] = a[Len(v) + k] /\ b2[k] = b[k]
      BY <1>2, <3>1 DEF a2, b2
    <3> QED
      BY <1>1, <3>1, <3>2
  <2> QED
    BY <2>1, <2>2
<1>5. Len(a2) = Len(v) + Len(b2)
  BY <1>1, <1>2 DEF a2, b2
<1> QED
  BY <1>3, <1>4, <1>5 DEF Followed, a2, b2

\* The same character keeps the two lexers in step.
LEMMA InStepRead ==
  ASSUME NEW v \in Seq(AnyElement), NEW s, RegistersType(s), NEW r, RegistersType(r),
         NEW d \in Nat, InStep(v, s, r, d), NEW c \in Chars, NEW i \in Nat, NEW size,
         ~(r.enobufs \/ (Appends(r.state, c) /\ Full(r, size)))
  PROVE  InStep(v, Step(s, c, i, size), Step(r, c, i + d, size), d)
<1> DEFINE a == Step(s, c, i, size)
           b == Step(r, c, i + d, size)
<1>1. Alike(s, r) /\ Followed(v, s.strvec, r.strvec, d)
  BY DEF InStep
<1>2. Alike(a, b) /\ ~(s.enobufs \/ (Appends(s.state, c) /\ Full(s, size)))
  BY <1>1, StepsAlike
<1>3. /\ b.state = NextState(r.state, c) /\ b.arg_start = ArgStart(r, c, i + d)
      /\ b.strvec = IF EndsWord(r.state, c)
                    THEN Append(r.strvec, Token(r, r.arg_start, i + d)) ELSE r.strvec
  BY DEF Step, Advance
<1>4. /\ a.arg_start = ArgStart(s, c, i)
      /\ a.strvec = IF EndsWord(s.state, c)
                    THEN Append(s.strvec, Token(s, s.arg_start, i)) ELSE s.strvec
  BY <1>2 DEF Step, Advance
<1>5. /\ s.state = r.state /\ r.state \in States
      /\ r.strvec \in Seq(AnyElement) /\ s.strvec \in Seq(AnyElement)
      /\ s.arg_start \in Nat
  BY <1>1 DEF Alike, RegistersType
<1> HIDE DEF a, b
<1>6. b.state \notin Outside => b.arg_start = a.arg_start + d
  <2> SUFFICES ASSUME b.state \notin Outside PROVE b.arg_start = a.arg_start + d
    OBVIOUS
  <2>1. CASE r.state = "START"
    BY <1>3, <1>4, <1>5, <2>1 DEF ArgStart
  <2>2. CASE r.state # "START"
    <3>1. r.state \notin Outside /\ ~EndsWord(r.state, c)
      BY <1>3, <1>5, <2>2, WordBegins
    <3>2. b.arg_start = r.arg_start /\ a.arg_start = s.arg_start
      BY <1>3, <1>4, <1>5, <2>2, <3>1 DEF ArgStart
    <3> QED
      BY <3>1, <3>2 DEF InStep
  <2> QED
    BY <2>1, <2>2
<1>7. Followed(v, a.strvec, b.strvec, d)
  <2>1. CASE ~EndsWord(r.state, c)
    <3>1. a.strvec = s.strvec /\ b.strvec = r.strvec
      BY <1>3, <1>4, <1>5, <2>1
    <3> QED
      BY <1>1, <3>1
  <2>2. CASE EndsWord(r.state, c)
    <3> DEFINE x == Token(r, r.arg_start, i + d)
               y == Token(s, s.arg_start, i)
    <3>1. a.strvec = Append(s.strvec, y) /\ b.strvec = Append(r.strvec, x)
      BY <1>3, <1>4, <1>5, <2>2
    <3>2. r.arg_start = s.arg_start + d
      BY <2>2 DEF InStep, EndsWord, Outside
    <3>3. Moved(x, y, d)
      BY <1>1, <3>2 DEF Moved, Token, Alike
    <3> HIDE DEF x, y
    <3>4. Followed(v, Append(s.strvec, y), Append(r.strvec, x), d)
      BY <1>1, <1>5, <3>3, FollowedAppend
    <3> QED
      BY <3>1, <3>4
  <2> QED
    BY <2>1, <2>2
<1> QED
  BY <1>2, <1>6, <1>7 DEF InStep, a, b

\* After a space that follows a closed line, the lexer is in step with a new one.
LEMMA InStepInitially ==
  ASSUME NEW r, RegistersType(r), NEW c \in Spaces, NEW n \in Nat, NEW size,
         Errno(r, TRUE) = "none", r.state # "IN_COMMENT", ~Blank(r), NEW d \in Nat
  PROVE  /\ Elements(r, n, FALSE) \in Seq(AnyElement)
         /\ InStep(Elements(r, n, FALSE), Fresh, Step(r, c, n, size), d)
<1> DEFINE m == Step(r, c, n, size)
           x == Token(r, r.arg_start, n)
<1>0. /\ c \in Chars /\ Class[c] = "SPACE" /\ r.state \in States /\ r.t \in Nat
      /\ r.strvec \in Seq(AnyElement) /\ r.enobufs \in BOOLEAN
      /\ r.state \in Outside => r.t = 0
  BY DEF Spaces, RegistersType
<1>1. ~r.enobufs /\ r.state \in {"START", "IN_WORD"}
  <2>1. ~r.enobufs
    BY DEF Errno
  <2>2. r.state \notin Unterminated
    BY <2>1 DEF Errno
  <2> QED
    BY <1>0, <2>1, <2>2 DEF Unterminated
<1>2. ~Appends(r.state, c)
  BY <1>0, <1>1 DEF Appends
<1>3. /\ m.state = NextState(r.state, c) /\ m.enobufs = FALSE
      /\ m.t = IF EndsWord(r.state, c) THEN 0 ELSE r.t
      /\ m.strvec = IF EndsWord(r.state, c) THEN Append(r.strvec, x) ELSE r.strvec
  BY <1>1, <1>2 DEF Step, Advance
<1>4. m.state = "START"
  BY <1>0, <1>1, <1>3 DEF NextState, Automaton
<1> HIDE DEF m
<1>5. x \in AnyElement
  BY DEF RegistersType, AnyElement, Token
<1>6. Elements(r, n, FALSE) = m.strvec /\ m.strvec \in Seq(AnyElement) /\ m.t = 0
  <2>1. CASE r.state = "START"
    <3>1. ~EndsWord(r.state, c) /\ ~LastAdded(r) /\ r.t = 0
      BY <1>0, <2>1 DEF EndsWord, LastAdded, Outside
    <3> QED
      BY <1>0, <1>3, <3>1, ElementsPlain
  <2>2. CASE r.state = "IN_WORD"
    <3>1. EndsWord(r.state, c) /\ LastAdded(r)
      BY <1>0, <2>2 DEF EndsWord, LastAdded, Blank
    <3>2. Elements(r, n, FALSE) = Append(r.strvec, x)
      BY <1>0, <3>1, ElementsPlain
    <3>3. m.strvec = Append(r.strvec, x) /\ m.t = 0
      BY <1>3, <3>1
    <3>4. PICK e \in AnyElement : e = x
      BY <1>5
    <3>5. Append(r.strvec, e) \in Seq(AnyElement)
      BY <1>0
    <3> QED
      BY <3>2, <3>3, <3>4, <3>5
  <2> QED
    BY <1>1, <2>1, <2>2
<1>7. Alike(Fresh, m)
  BY <1>3, <1>4, <1>6 DEF Alike, Fresh
<1>8. Followed(m.strvec, Fresh.strvec, m.strvec, d)
  <2>1. Fresh.strvec = <<>>
    BY DEF Fresh
  <2>2. Len(m.strvec) \in Nat /\ Len(<<>>) = 0
    BY <1>6
  <2> QED
    BY <2>1, <2>2 DEF Followed
<1> QED
  BY <1>4, <1>6, <1>7, <1>8 DEF InStep, Outside, m

\* An element at other positions.
LEMMA RecordMoved ==
  ASSUME NEW e \in AnyElement, NEW x \in Nat, NEW y \in Nat
  PROVE  [e EXCEPT !.from = x, !.to = y] = [str |-> e.str, len |-> e.len, from |-> x, to |-> y]
<1>1. [e EXCEPT !.from = x] = [str |-> e.str, len |-> e.len, from |-> x, to |-> e.to]
  BY DEF AnyElement
<1>2. PICK f \in AnyElement : f = [e EXCEPT !.from = x]
  BY DEF AnyElement
<1>3. [f EXCEPT !.to = y] = [str |-> f.str, len |-> f.len, from |-> f.from, to |-> y]
  BY DEF AnyElement
<1> QED
  BY <1>1, <1>2, <1>3

\* A list of elements followed by another, with nothing but words in it.
LEMMA ConcatMoved ==
  ASSUME NEW v \in Seq(AnyElement), NEW b \in Seq(AnyElement), NEW a \in Seq(AnyElement),
         NEW d \in Nat, Followed(v, b, a, d), \A k \in 1..Len(b) : b[k].len # 0
  PROVE  a = v \o Shift(b, d)
<1> DEFINE s == Shift(b, d)
<1>1. /\ Len(v) \in Nat /\ Len(b) \in Nat /\ Len(a) = Len(v) + Len(b) /\ DOMAIN b = 1..Len(b)
      /\ \A k \in 1..Len(v) : a[k] = v[k]
      /\ \A k \in 1..Len(b) : Moved(a[Len(v) + k], b[k], d)
  BY DEF Followed
<1>2. ASSUME NEW k \in 1..Len(b)
      PROVE  a[Len(v) + k] = [b[k] EXCEPT !.from = @ + d, !.to = @ + d]
  <2>1. Len(v) + k \in 1..Len(a)
    BY <1>1
  <2>2. a[Len(v) + k] \in AnyElement /\ b[k] \in AnyElement
    BY <2>1
  <2>3. PICK x \in AnyElement : x = a[Len(v) + k]
    BY <2>2
  <2>4. PICK y \in AnyElement : y = b[k]
    BY <2>2
  <2>5. Moved(x, y, d) /\ y.len # 0
    BY <1>1, <2>3, <2>4
  <2>6. /\ x = [str |-> x.str, len |-> x.len, from |-> x.from, to |-> x.to]
        /\ y = [str |-> y.str, len |-> y.len, from |-> y.from, to |-> y.to]
        /\ y.len \in Nat
    BY DEF AnyElement
  <2>7. x.str = y.str /\ x.len = y.len /\ x.from = y.from + d /\ x.to = y.to + d
    BY <2>5, <2>6 DEF Moved
  <2>8. [y EXCEPT !.from = @ + d, !.to = @ + d] =
          [str |-> y.str, len |-> y.len, from |-> y.from + d, to |-> y.to + d]
    <3>0. y.from \in Nat /\ y.to \in Nat
      BY DEF AnyElement
    <3>1. y.from + d \in Nat /\ y.to + d \in Nat
      BY <3>0
    <3>2. PICK f \in Nat, t \in Nat : f = y.from + d /\ t = y.to + d
      BY <3>1
    <3>3. [y EXCEPT !.from = f, !.to = t] =
            [str |-> y.str, len |-> y.len, from |-> f, to |-> t]
      BY RecordMoved
    <3> QED
      BY <3>2, <3>3
  <2>9. x = [y EXCEPT !.from = @ + d, !.to = @ + d]
    BY <2>6, <2>7, <2>8
  <2> QED
    BY <2>3, <2>4, <2>9
<1>3. s = [k \in 1..Len(b) |-> a[Len(v) + k]]
  BY <1>1, <1>2 DEF Shift
<1>4. s \in Seq(AnyElement) /\ Len(s) = Len(b)
  <2>1. \A k \in 1..Len(b) : a[Len(v) + k] \in AnyElement
    BY <1>1
  <2>2. s \in [1..Len(b) -> AnyElement]
    BY <1>3, <2>1
  <2>3. PICK t : t = s
    OBVIOUS
  <2>4. t \in Seq(AnyElement) /\ DOMAIN t = 1..Len(b)
    BY <1>1, <2>2, <2>3, SeqDef
  <2>5. Len(t) = Len(b)
    BY <1>1, <2>4, LenProperties
  <2> QED
    BY <2>3, <2>4, <2>5
<1> HIDE DEF s
<1>5. v \o s \in Seq(AnyElement) /\ Len(v \o s) = Len(a)
  <2>1. PICK t \in Seq(AnyElement) : t = s
    BY <1>4
  <2>2. v \o t \in Seq(AnyElement) /\ Len(v \o t) = Len(v) + Len(t)
    BY ConcatProperties
  <2> QED
    BY <1>1, <1>4, <2>1, <2>2
<1>6. ASSUME NEW k \in 1..Len(a) PROVE a[k] = (v \o s)[k]
  <2>1. CASE k \in 1..Len(v)
    BY <1>1, <1>4, <2>1
  <2>2. CASE k \notin 1..Len(v)
    <3>1. k - Len(v) \in 1..Len(b) /\ Len(v) + (k - Len(v)) = k
      BY <1>1, <2>2
    <3>2. (v \o s)[k] = s[k - Len(v)]
      BY <1>1, <1>4, <2>2, <3>1
    <3> QED
      BY <1>3, <3>1, <3>2
  <2> QED
    BY <2>1, <2>2
<1>7. v \o s = a
  BY <1>5, <1>6, SeqEqual
<1> QED
  BY <1>7 DEF s

\* The lexer of the line and the lexer of what follows a space stay in step, as
\* long as the words of the line fit in the buffer.
LEMMA RunInStep ==
  ASSUME NEW l \in Seq(Chars), NEW n \in 0..(Len(l) - 1), NEW size,
         NEW g, IsRun(g, l, size),
         NEW h, IsRun(h, Sub(l, n + 1, Len(l)), size),
         NEW v \in Seq(AnyElement), InStep(v, Fresh, g[n + 1], n + 1)
  PROVE  ~g[Len(l)].enobufs => InStep(v, h[Len(l) - n - 1], g[Len(l)], n + 1)
<1> DEFINE d == n + 1
           m == Len(l) - d
           w == Sub(l, d, Len(l))
           P(k) == ~g[d + k].enobufs => InStep(v, h[k], g[d + k], d)
           S == {k \in 0..m : P(k)}
<1>0. /\ Len(l) \in Nat /\ d \in Nat /\ m \in Nat /\ d + m = Len(l) /\ n \in Nat
      /\ Len(l) - n - 1 = m /\ d \in 0..Len(l) /\ Len(l) \in d..Len(l)
  OBVIOUS
<1>1. w \in Seq(Chars) /\ Len(w) = m /\ \A k \in 1..m : w[k] = l[d + k]
  BY <1>0, SubProperties
<1>2. IsRun(h, w, size)
  OBVIOUS
<1> HIDE DEF w
<1>3. 0 \in S
  <2>1. h[0] = Fresh
    BY <1>1, <1>2, RunStep
  <2>2. d + 0 = d
    BY <1>0
  <2>3. P(0)
    BY <2>1, <2>2
  <2> HIDE DEF P
  <2> QED
    BY <1>0, <2>3
<1>4. ASSUME NEW k \in 0..(m - 1), k \in S PROVE k + 1 \in S
  <2>0. /\ k \in Nat /\ k + 1 \in 0..m /\ k + 1 \in 1..m /\ d + (k + 1) = (d + k) + 1
        /\ k + d = d + k /\ d + k \in 0..(Len(l) - 1) /\ d + k \in 0..Len(l)
        /\ k \in 0..(Len(w) - 1) /\ k \in 0..Len(w) /\ (d + k) + 1 \in 1..Len(l)
    BY <1>0, <1>1
  <2>1. P(k)
    BY <1>4
  <2>2. PICK c : c = l[(d + k) + 1]
    OBVIOUS
  <2>3. c \in Chars
    BY <2>0, <2>2
  <2>4. g[(d + k) + 1] = Step(g[d + k], c, d + k, size) /\ RegistersType(g[d + k])
    BY <2>0, <2>2, RunStep, RunType
  <2>5. h[k + 1] = Step(h[k], c, k, size) /\ RegistersType(h[k])
    <3>1. w[k + 1] = c
      BY <1>1, <2>0, <2>2
    <3>2. h[k + 1] = Step(h[k], w[k + 1], k, size)
      BY <1>1, <1>2, <2>0, RunStep
    <3>3. RegistersType(h[k])
      BY <1>1, <1>2, <2>0, RunType
    <3> QED
      BY <3>1, <3>2, <3>3
  <2>6. ASSUME ~g[d + (k + 1)].enobufs PROVE InStep(v, h[k + 1], g[d + (k + 1)], d)
    <3>1. ~Step(g[d + k], c, d + k, size).enobufs
      BY <2>0, <2>4, <2>6
    <3>2. /\ ~g[d + k].enobufs
          /\ ~(Appends(g[d + k].state, c) /\ Full(g[d + k], size))
      BY <2>4, <3>1, FittedBefore
    <3>3. InStep(v, h[k], g[d + k], d)
      BY <2>1, <3>2
    <3>4. InStep(v, Step(h[k], c, k, size), Step(g[d + k], c, k + d, size), d)
      BY <1>0, <2>0, <2>3, <2>4, <2>5, <3>2, <3>3, InStepRead
    <3> QED
      BY <2>0, <2>4, <2>5, <3>4
  <2> QED
    BY <2>0, <2>6
<1> HIDE DEF S
<1>5. 0..m \subseteq S
  BY <1>0, <1>3, <1>4, Induction
<1>6. m \in S
  BY <1>0, <1>5
<1> QED
  BY <1>0, <1>6 DEF S

\* A line is split as the two sides of a space are, when the left one is closed.
LEMMA StrictIsClosedHolds == LineInv => StrictIsClosed
<1> SUFFICES ASSUME LineInv, NEW n \in 0..(Len(line) - 1), line[n + 1] \in Spaces,
                    Errno(Lex(Before(line, n)), TRUE) = "none",
                    Lex(Before(line, n)).state # "IN_COMMENT", ~lex.enobufs,
                    ~Blank(Lex(Before(line, n))), ~Blank(Lex(Sub(line, n + 1, Len(line))))
             PROVE  Elements(lex, Len(line), FALSE) =
                      Elements(Lex(Before(line, n)), n, FALSE) \o
                      Shift(Elements(Lex(Sub(line, n + 1, Len(line))),
                                     Len(line) - n - 1, FALSE), n + 1)
  BY DEF StrictIsClosed
<1> DEFINE z == Len(line)
           d == n + 1
           m == z - n - 1
           u == Before(line, n)
           w == Sub(line, d, z)
           v == Elements(Lex(u), n, FALSE)
<1>0. /\ line \in Seq(Chars) /\ z \in Nat /\ n \in Nat /\ d \in Nat /\ m \in Nat
      /\ d \in 0..z /\ z \in d..z /\ z - d = m /\ n \in 0..z /\ z \in 0..z /\ m \in 0..m
  BY LineTypes DEF LineInv
<1>1. u \in Seq(Chars) /\ Len(u) = n /\ \A k \in 1..n : u[k] = line[k]
  <2>1. 0 \in 0..z /\ n \in 0..z /\ n - 0 = n /\ \A k \in 1..n : 0 + k = k
    BY <1>0
  <2>2. /\ Sub(line, 0, n) \in Seq(Chars) /\ Len(Sub(line, 0, n)) = n - 0
        /\ \A k \in 1..(n - 0) : Sub(line, 0, n)[k] = line[0 + k]
    BY <1>0, <2>1, SubProperties
  <2> QED
    BY <2>1, <2>2 DEF Sub, Before
<1>2. w \in Seq(Chars) /\ Len(w) = m
  BY <1>0, SubProperties
<1>3. PICK g : IsRun(g, line, BufSize) /\ lex = g[z]
  <2>1. \E g : IsRun(g, line, BufSize) /\ LexWith(line, BufSize) = g[Len(line)]
    BY <1>0, LexIsRun
  <2> QED
    BY <2>1 DEF LineInv, RunOfLine, Lex
<1>4. PICK h : IsRun(h, w, BufSize) /\ Lex(w) = h[m]
  <2>1. \E h : IsRun(h, w, BufSize) /\ LexWith(w, BufSize) = h[Len(w)]
    BY <1>2, LexIsRun
  <2> QED
    BY <1>2, <2>1 DEF Lex
<1>5. Lex(u) = g[n]
  <2>1. PICK f : IsRun(f, u, BufSize) /\ LexWith(u, BufSize) = f[Len(u)]
    BY <1>1, LexIsRun
  <2>2. \A k \in 0..Len(u) : f[k] = g[k]
    BY <1>0, <1>1, <1>3, <2>1, RunPrefix
  <2> QED
    BY <1>0, <1>1, <2>1, <2>2 DEF Lex
<1> HIDE DEF u, w
<1>6. RegistersType(g[n]) /\ RegistersType(g[z]) /\ RegistersType(h[m])
  <2>1. RegistersType(g[n]) /\ RegistersType(g[z])
    BY <1>0, <1>3, RunType
  <2>2. RegistersType(h[m])
    BY <1>0, <1>2, <1>4, RunType
  <2> QED
    BY <2>1, <2>2
<1>7. v \in Seq(AnyElement) /\ InStep(v, Fresh, g[d], d)
  <2>1. PICK c \in Spaces : c = line[n + 1]
    OBVIOUS
  <2>2. g[d] = Step(g[n], c, n, BufSize)
    BY <1>0, <1>3, <2>1, RunStep
  <2>3. Errno(g[n], TRUE) = "none" /\ g[n].state # "IN_COMMENT" /\ ~Blank(g[n])
    BY <1>5 DEF u
  <2>4. /\ Elements(g[n], n, FALSE) \in Seq(AnyElement)
        /\ InStep(Elements(g[n], n, FALSE), Fresh, Step(g[n], c, n, BufSize), d)
    BY <1>0, <1>6, <2>3, InStepInitially
  <2> QED
    BY <1>5, <2>2, <2>4
<1> HIDE DEF v
<1>8. InStep(v, h[m], g[z], d)
  <2>1. IsRun(h, Sub(line, n + 1, Len(line)), BufSize)
    BY <1>4 DEF w
  <2>2. ~g[Len(line)].enobufs => InStep(v, h[Len(line) - n - 1], g[Len(line)], n + 1)
    BY <1>0, <1>3, <1>7, <2>1, RunInStep
  <2> QED
    BY <1>3, <2>2
<1> DEFINE r == g[z]
           s == h[m]
           x == Token(r, r.arg_start, z)
           y == Token(s, s.arg_start, m)
           a == Elements(r, z, FALSE)
           b == Elements(s, m, FALSE)
<1>9. /\ r.strvec \in Seq(AnyElement) /\ s.strvec \in Seq(AnyElement)
      /\ r.arg_start \in Nat /\ s.arg_start \in Nat /\ r.t \in Nat /\ s.t \in Nat
      /\ r.token \in Text /\ s.token \in Text
  BY <1>6 DEF RegistersType
<1>10. x \in AnyElement /\ y \in AnyElement
  BY <1>0, <1>9 DEF Token, AnyElement
<1>11. LastAdded(r) <=> LastAdded(s)
  BY <1>8 DEF InStep, Alike, LastAdded
<1>12. /\ a = IF LastAdded(r) THEN Append(r.strvec, x) ELSE r.strvec
       /\ b = IF LastAdded(s) THEN Append(s.strvec, y) ELSE s.strvec
  BY <1>9, ElementsPlain
<1>13. ~Blank(s)
  BY <1>4 DEF w
<1>14. /\ a \in Seq(AnyElement) /\ b \in Seq(AnyElement) /\ Followed(v, b, a, d)
       /\ \A k \in 1..Len(b) : b[k].len # 0
  <2>0. /\ \A k \in 1..Len(s.strvec) : s.strvec[k].len # 0
        /\ Followed(v, s.strvec, r.strvec, d)
    BY SMTT(40), <1>8, <1>9, <1>13 DEF Blank, InStep
  <2>1. CASE ~LastAdded(r)
    <3>1. a = r.strvec /\ b = s.strvec
      BY <1>11, <1>12, <2>1
    <3> HIDE DEF a, b
    <3> QED
      BY <1>9, <2>0, <3>1
  <2>2. CASE LastAdded(r)
    <3>1. a = Append(r.strvec, x) /\ b = Append(s.strvec, y)
      BY <1>11, <1>12, <2>2
    <3>2. Moved(x, y, d)
      <4>1. r.t = s.t /\ (s.t > 0 => s.token = r.token) /\ r.arg_start = s.arg_start + d
        BY <1>8, <2>2 DEF InStep, Alike, LastAdded, Outside
      <4>2. z = m + d
        BY <1>0
      <4> QED
        BY <4>1, <4>2 DEF Moved, Token
    <3>3. y.len # 0
      BY <1>11, <2>2 DEF Token, LastAdded
    <3> HIDE DEF a, b, x, y, r, s
    <3>4. PICK e \in AnyElement, f \in AnyElement : e = x /\ f = y
      BY <1>10
    <3>5. a \in Seq(AnyElement) /\ b \in Seq(AnyElement)
      BY <1>9, <3>1, <3>4
    <3>6. Followed(v, b, a, d)
      BY <1>7, <1>9, <2>0, <3>1, <3>2, FollowedAppend
    <3>7. \A k \in 1..Len(b) : b[k].len # 0
      BY <1>9, <2>0, <3>1, <3>3, <3>4
    <3> QED
      BY <3>5, <3>6, <3>7
  <2> QED
    BY <2>1, <2>2
<1> HIDE DEF a, b, x, y, r, s
<1>15. a = v \o Shift(b, d)
  BY <1>0, <1>7, <1>14, ConcatMoved
<1> QED
  BY <1>3, <1>4, <1>15 DEF a, b, v, u, w, r, s

-----------------------------------------------------------------------------
(***************************************************************************)
(* The properties of the runs, for every line.                             *)
(***************************************************************************)

\* A line is split as its parts are: each word the lexer reports, lexed alone,
\* is that word, and what follows a space after a closed left side is split as
\* a line of its own, so EC_STRVEC_STRICT accepts a line only if it is closed.
THEOREM LexedByPartsCorrect == Spec => []LexedByParts
<1>1. LineInv => LexedByParts
  BY SpansAreWords, StrictIsClosedHolds DEF LexedByParts
<1> QED
  BY <1>1, LineInvariance, PTL

\* The last element asked for with EC_STRVEC_TRAILSP is what the next plain
\* character typed extends: completion works on the word the user is in.
THEOREM TrailingWordCorrect == Spec => []TrailingWord
<1>1. LineInv => TrailingWord
  BY TrailingWordHolds
<1> QED
  BY <1>1, LineInvariance, PTL

\* ec_node_sh_lex_complete() closes the quote it was given in: the line with
\* the completion taken is accepted, and only its last word has changed.
THEOREM CompletionClosesCorrect == Spec => []CompletionCloses
<1>1. LineInv => CompletionCloses
  BY CompletionClosesHolds
<1> QED
  BY <1>1, LineInvariance, PTL

=============================================================================
