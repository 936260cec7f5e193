--------------------------- MODULE CompleteProofs ---------------------------
(***************************************************************************)
(* What the completion engine promises, for any families of grammars,      *)
(* tokens, inputs, nesting depth and failing allocation: an allocation     *)
(* that fails makes the call fail, and every callback unlinks the pnodes   *)
(* that it links (CompletionsAllOrNothing).                                *)
(*                                                                         *)
(* Unlinks(b, q, sp, d) says of the comp b that a callback made of a comp  *)
(* whose spine is sp that the spine is sp again, and that, unless it       *)
(* failed, q is the same comp with d more allocations to come.  As in      *)
(* ParseProofs, one level of calls preserves it (NodeUnlinks, by an        *)
(* invariant of the loop of each type), so that by induction on how deep   *)
(* calls nest it holds of the engine (EngineUnlinks).  Expands says the    *)
(* same of an expansion.                                                   *)
(***************************************************************************)
EXTENDS Complete, ParseProofs

-----------------------------------------------------------------------------
\* States and comps

State(spine, mem, faults) == [spine |-> spine, mem |-> mem, faults |-> faults]

LEMMA StateFields ==
  ASSUME NEW spine \in Seq(Pnodes), NEW mem \in Int, NEW faults \in SUBSET Faults
  PROVE  /\ State(spine, mem, faults) \in States /\ State(spine, mem, faults).spine = spine
         /\ State(spine, mem, faults).mem = mem /\ State(spine, mem, faults).faults = faults
BY DEF State, States

LEMMA StatesFields ==
  ASSUME NEW st \in States
  PROVE  st.spine \in Seq(Pnodes) /\ st.mem \in Int /\ st.faults \in SUBSET Faults
BY DEF States

\* an allocation, also before there is a tree
LEMMA AllocPlain ==
  ASSUME NEW st \in States, NEW d \in Nat
  PROVE  /\ Alloc(st) \in States /\ Alloc(st).spine = st.spine /\ Alloc(st).mem = st.mem - 1
         /\ Alloc(Shift(st, d)) = Shift(Alloc(st), d)
<1> DEFINE a(m) == State(st.spine, m, st.faults)
<1>1. st.spine \in Seq(Pnodes) /\ st.mem \in Int /\ st.faults \in SUBSET Faults /\ st = a(st.mem)
  BY DEF States, State
<1>2. ASSUME NEW m \in Int PROVE a(m) \in States /\ a(m).spine = st.spine /\ a(m).mem = m /\ a(m).faults = st.faults
  BY <1>1, StateFields
<1>3. ASSUME NEW m \in Int PROVE Alloc(a(m)) = a(m - 1) /\ Shift(a(m), d) = a(m + d)
  BY DEF State, Alloc, Shift
<1> HIDE DEF a
<1>4. Alloc(st) = a(st.mem - 1) /\ Shift(st, d) = a(st.mem + d)
  BY <1>1, <1>3
<1>5. Alloc(Shift(st, d)) = a((st.mem + d) - 1) /\ Shift(Alloc(st), d) = a((st.mem - 1) + d)
  <2>1. st.mem + d \in Int /\ st.mem - 1 \in Int
    BY <1>1
  <2> QED
    BY <1>3, <1>4, <2>1
<1>6. (st.mem + d) - 1 = (st.mem - 1) + d /\ st.mem - 1 \in Int
  BY <1>1
<1> QED
  BY <1>2, <1>4, <1>5, <1>6

\* what the last pnode is removed from
LEMMA LeavePlain ==
  ASSUME NEW y \in States, NEW spine \in Seq(Pnodes), NEW p \in Pnodes, y.spine = Append(spine, p), NEW d \in Nat
  PROVE  /\ Leave(y) \in States /\ Leave(y).spine = spine /\ Leave(y).mem = y.mem
         /\ Leave(Shift(y, d)) = Shift(Leave(y), d)
<1>1. y.mem \in Int /\ y.faults \in SUBSET Faults /\ y = State(Append(spine, p), y.mem, y.faults)
  BY DEF States, State
<1>2. SE!Front(Append(spine, p)) = spine
  BY FrontAppend
<1>3. ASSUME NEW m
      PROVE  Leave(State(Append(spine, p), m, y.faults)) = State(spine, m, y.faults)
  BY <1>2 DEF Leave, State
<1>4. ASSUME NEW s, NEW m \in Int PROVE Shift(State(s, m, y.faults), d) = State(s, m + d, y.faults)
  BY DEF Shift, State
<1>5. Leave(y) = State(spine, y.mem, y.faults)
  BY <1>1, <1>3
<1>6. Leave(Shift(y, d)) = State(spine, y.mem + d, y.faults)
  BY <1>1, <1>3, <1>4
<1>7. Shift(Leave(y), d) = State(spine, y.mem + d, y.faults)
  BY <1>1, <1>4, <1>5
<1> QED
  BY <1>1, <1>5, <1>6, <1>7, StateFields

LEMMA CompFields ==
  ASSUME NEW c \in Comps
  PROVE  c.st \in States /\ c.items \in Seq(CompItems) /\ c.dirty \in BOOLEAN /\ c.fails \in BOOLEAN
BY DEF Comps

LEMMA CompEqual ==
  ASSUME NEW b \in Comps, NEW c \in Comps, b.st = c.st, b.items = c.items, b.dirty = c.dirty, b.fails = c.fails
  PROVE  b = c
BY DEF Comps

LEMMA CompOnTyped ==
  ASSUME NEW c \in Comps, NEW st \in States
  PROVE  /\ CompOn(c, st) \in Comps /\ CompOn(c, st).st = st /\ CompOn(c, st).items = c.items
         /\ CompOn(c, st).dirty = c.dirty /\ CompOn(c, st).fails = c.fails
BY DEF Comps, CompOn

LEMMA CompFailsTyped ==
  ASSUME NEW c \in Comps
  PROVE  /\ CompFails(c) \in Comps /\ CompFails(c).st = c.st /\ CompFails(c).items = c.items
         /\ CompFails(c).dirty = c.dirty /\ CompFails(c).fails
BY DEF Comps, CompFails

\* comps whose tree has the spine sp: those that may go on, and those that failed
Live(sp) == {c \in Comps : c.st.spine = sp /\ c.st.mem \in Nat /\ ~c.dirty /\ ~c.fails}
Dead(sp) == {c \in Comps : c.st.spine = sp /\ ~c.dirty /\ c.fails}

\* d more allocations succeed
ShiftComp(c, d) == CompOn(c, Shift(c.st, d))
Unlinks(b, q, sp, d) == b \in Dead(sp) \/ (b \in Live(sp) /\ q = ShiftComp(b, d))

LEMMA LiveFields ==
  ASSUME NEW sp, NEW c \in Live(sp), NEW d \in Nat
  PROVE  /\ c \in Comps /\ c.st \in States /\ c.st.spine = sp /\ c.st.mem \in Nat /\ ~c.dirty /\ ~c.fails
         /\ c.items \in Seq(CompItems)
         /\ ShiftComp(c, d) \in Comps /\ ShiftComp(c, d).st = Shift(c.st, d) /\ ShiftComp(c, d).items = c.items
         /\ ~ShiftComp(c, d).dirty /\ ~ShiftComp(c, d).fails
         /\ Shift(c.st, d) \in States /\ Shift(c.st, d).spine = sp /\ Shift(c.st, d).mem = c.st.mem + d
         /\ sp \in Seq(Pnodes)
<1>1. c \in Comps /\ c.st.spine = sp /\ c.st.mem \in Nat /\ ~c.dirty /\ ~c.fails
  BY DEF Live
<1>2. c.st \in States /\ c.items \in Seq(CompItems)
  BY <1>1, CompFields
<1>3. Shift(c.st, d) \in States /\ Shift(c.st, d).spine = sp /\ Shift(c.st, d).mem = c.st.mem + d
  BY <1>1, <1>2, ShiftTyped
<1> QED
  BY <1>1, <1>2, <1>3, CompOnTyped, StatesFields DEF ShiftComp

\* a live comp whose tree becomes another one
LEMMA LiveOn ==
  ASSUME NEW sp, NEW c \in Live(sp), NEW d \in Nat, NEW st \in States
  PROVE  /\ CompFails(CompOn(c, st)) \in Dead(st.spine)
         /\ st.mem \in Nat => /\ CompOn(c, st) \in Live(st.spine)
                              /\ CompOn(ShiftComp(c, d), Shift(st, d)) = ShiftComp(CompOn(c, st), d)
<1>1. c \in Comps /\ ~c.dirty /\ ~c.fails
  BY DEF Live
<1>2. /\ CompOn(c, st) \in Comps /\ CompOn(c, st).st = st /\ ~CompOn(c, st).dirty /\ ~CompOn(c, st).fails
  BY <1>1, CompOnTyped
<1>3. CompFails(CompOn(c, st)) \in Dead(st.spine)
  <2>1. /\ CompFails(CompOn(c, st)) \in Comps /\ CompFails(CompOn(c, st)).st = st
        /\ ~CompFails(CompOn(c, st)).dirty /\ CompFails(CompOn(c, st)).fails
    BY <1>2, CompFailsTyped
  <2> QED
    BY <2>1 DEF Dead
<1>4. ASSUME st.mem \in Nat PROVE CompOn(c, st) \in Live(st.spine)
  BY <1>2, <1>4 DEF Live
<1>5. CompOn(ShiftComp(c, d), Shift(st, d)) = ShiftComp(CompOn(c, st), d)
  BY <1>2 DEF CompOn, ShiftComp
<1> QED
  BY <1>3, <1>4, <1>5

LEMMA LiveAllocFails ==
  ASSUME NEW sp, NEW c \in Live(sp)
  PROVE  CompAllocFails(c) \in Dead(sp)
<1>1. c.st \in States /\ c.st.spine = sp
  BY CompFields DEF Live
<1>2. Alloc(c.st) \in States /\ Alloc(c.st).spine = sp
  BY <1>1, AllocPlain
<1> QED
  BY <1>2, LiveOn DEF CompAllocFails

LEMMA DeadFields ==
  ASSUME NEW sp, NEW c \in Dead(sp)
  PROVE  c \in Comps /\ c.st \in States /\ c.st.spine = sp /\ ~c.dirty /\ c.fails /\ sp \in Seq(Pnodes)
<1>1. c \in Comps /\ c.st.spine = sp /\ ~c.dirty /\ c.fails
  BY DEF Dead
<1>2. c.st \in States
  BY <1>1, CompFields
<1> QED
  BY <1>1, <1>2, StatesFields

\* a loop over comps
LEMMA UnlinksLoop ==
  ASSUME NEW sp, NEW d \in Nat, NEW n \in Nat, NEW step, NEW b, NEW q, Unlinks(b, q, sp, d),
         \A i \in 1..n : \A c \in Live(sp) : Unlinks(step[i][c], step[i][ShiftComp(c, d)], sp, d),
         \A i \in 1..n : \A c \in Dead(sp) : step[i][c] = c
  PROVE  Unlinks(Loop(step, b, n), Loop(step, q, n), sp, d)
<1>1. CASE b \in Dead(sp)
  <2> DEFINE at == [i \in 0..n |-> {b}]
  <2>1. b \in at[0]
    OBVIOUS
  <2>2. \A i \in 1..n : \A x \in at[i - 1] : step[i][x] \in at[i]
    BY <1>1
  <2>3. at[n] = {b}
    OBVIOUS
  <2> HIDE DEF at
  <2>4. Loop(step, b, n) \in at[n]
    BY <2>1, <2>2, LoopInvariant
  <2> QED
    BY <1>1, <2>3, <2>4 DEF Unlinks
<1>2. CASE b \in Live(sp) /\ q = ShiftComp(b, d)
  <2> DEFINE shift == [c \in Live(sp) |-> ShiftComp(c, d)]
  <2>1. q = shift[b] /\ \A c \in Live(sp) : shift[c] = ShiftComp(c, d)
    BY <1>2
  <2> HIDE DEF shift
  <2>2. Corresponds(step, n, Live(sp), Dead(sp), shift)
    BY <2>1 DEF Corresponds, Unlinks
  <2>3. \/ Loop(step, b, n) \in Dead(sp)
        \/ Loop(step, b, n) \in Live(sp) /\ Loop(step, q, n) = shift[Loop(step, b, n)]
    BY <1>2, <2>1, <2>2, LoopAgrees
  <2> QED
    BY <2>1, <2>3 DEF Unlinks
<1> QED
  BY <1>1, <1>2 DEF Unlinks

-----------------------------------------------------------------------------
\* The children of the last pnode

Spines == Seq(Pnodes) \ {<<>>}
KidsAt(sp) == sp[Len(sp)].kids
Under(sp, kids) == [sp EXCEPT ![Len(sp)].kids = kids]
Grown(sp, p) == Under(sp, Append(KidsAt(sp), p))

LEMMA SpineFields ==
  ASSUME Trees, NEW sp \in Spines, NEW st \in States, st.spine = sp
  PROVE  /\ st \in Started /\ Len(sp) \in Nat \ {0} /\ sp[Len(sp)] \in Pnodes /\ KidsAt(sp) \in Seq(Pnodes)
         /\ Pstate(st) = sp[Len(sp)] /\ Pstate(st).kids = KidsAt(sp)
<1>1. st \in Started
  BY DEF Started, Spines
<1> QED
  BY <1>1, PstateTyped DEF KidsAt

\* writing the children of the last pnode
LEMMA UnderTyped ==
  ASSUME Trees, NEW sp \in Spines, NEW kids \in Seq(Pnodes)
  PROVE  /\ KidsAt(sp) \in Seq(Pnodes) /\ Under(sp, KidsAt(sp)) = sp
         /\ Under(sp, kids) \in Spines /\ KidsAt(Under(sp, kids)) = kids
         /\ \A more \in Seq(Pnodes) : Under(Under(sp, kids), more) = Under(sp, more)
<1> DEFINE st == State(sp, 0, {})
           last == sp[Len(sp)]
<1>0. st \in States /\ st.spine = sp
  BY StateFields DEF Spines
<1>1. /\ sp \in Seq(Pnodes) /\ Len(sp) \in Nat \ {0} /\ last \in Pnodes /\ last.kids = KidsAt(sp)
      /\ last.kids \in Seq(Pnodes)
  BY <1>0, SpineFields DEF KidsAt, Spines
<1> HIDE DEF st, last
<1>2. ASSUME NEW k \in Seq(Pnodes) PROVE [last EXCEPT !.kids = k] \in Pnodes /\ [last EXCEPT !.kids = k].kids = k
  <2>1. /\ [last EXCEPT !.kids = k] \in Pnodes
        /\ [last EXCEPT !.kids = k] = [node |-> last.node, matches |-> last.matches, vec |-> last.vec, kids |-> k]
    BY <1>1, PnodeFields
  <2> QED
    BY <2>1
<1>3. [last EXCEPT !.kids = last.kids] = last
  BY <1>1, PnodeFields
<1>4. ASSUME NEW k \in Seq(Pnodes), NEW m \in Seq(Pnodes)
      PROVE  [[last EXCEPT !.kids = k] EXCEPT !.kids = m] = [last EXCEPT !.kids = m]
  <2>1. [last EXCEPT !.kids = k] = [node |-> last.node, matches |-> last.matches, vec |-> last.vec, kids |-> k]
        /\ [last EXCEPT !.kids = m] = [node |-> last.node, matches |-> last.matches, vec |-> last.vec, kids |-> m]
    BY <1>1, PnodeFields
  <2> QED
    BY <2>1
<1>5. ASSUME NEW k \in Seq(Pnodes)
      PROVE  /\ Under(sp, k) \in Seq(Pnodes) /\ Len(Under(sp, k)) = Len(sp)
             /\ Under(sp, k)[Len(sp)] = [last EXCEPT !.kids = k] /\ DOMAIN Under(sp, k) = DOMAIN sp
             /\ \A i \in DOMAIN sp : i # Len(sp) => Under(sp, k)[i] = sp[i]
  BY <1>1, <1>2 DEF Under, last
<1>6. Under(sp, KidsAt(sp)) = sp
  BY <1>1, <1>3 DEF Under, last
<1>7. Under(sp, kids) \in Spines /\ KidsAt(Under(sp, kids)) = kids
  <2>1. Len(Under(sp, kids)) # 0
    BY <1>1, <1>5
  <2>2. Under(sp, kids) # <<>>
    BY <2>1
  <2> QED
    BY <1>2, <1>5, <2>2 DEF Spines, KidsAt
<1>8. ASSUME NEW more \in Seq(Pnodes) PROVE Under(Under(sp, kids), more) = Under(sp, more)
  <2> DEFINE u == Under(sp, kids)
             w == Under(u, more)
  <2>1. /\ u \in Seq(Pnodes) /\ Len(u) = Len(sp) /\ u[Len(sp)] = [last EXCEPT !.kids = kids]
        /\ DOMAIN u = DOMAIN sp /\ \A i \in DOMAIN sp : i # Len(sp) => u[i] = sp[i]
    BY <1>5
  <2> HIDE DEF u
  <2>2. w = [u EXCEPT ![Len(sp)] = [u[Len(sp)] EXCEPT !.kids = more]]
    BY <2>1 DEF Under
  <2>3. w[Len(sp)] = [last EXCEPT !.kids = more]
    <3>1. w[Len(sp)] = [u[Len(sp)] EXCEPT !.kids = more]
      BY <1>1, <2>1, <2>2
    <3> QED
      BY <1>4, <2>1, <3>1
  <2>4. \A i \in DOMAIN sp : i # Len(sp) => w[i] = sp[i]
    BY <2>1, <2>2
  <2>5. DOMAIN w = DOMAIN sp /\ w = [i \in DOMAIN sp |-> w[i]]
    BY <2>1, <2>2
  <2>6. Under(sp, more) = [i \in DOMAIN sp |-> Under(sp, more)[i]]
    BY DEF Under
  <2>7. \A i \in DOMAIN sp : w[i] = Under(sp, more)[i]
    BY <1>5, <2>3, <2>4
  <2> HIDE DEF w
  <2>8. w = Under(sp, more)
    BY <2>5, <2>6, <2>7
  <2> QED
    BY <2>8 DEF w, u
<1> QED
  BY <1>1, <1>6, <1>7, <1>8

LEMMA OnUnder ==
  ASSUME Trees, NEW sp \in Spines, NEW st \in States, st.spine = sp, NEW kids \in Seq(Pnodes), NEW d \in Nat
  PROVE  /\ OnPstate(st, kids) \in States /\ OnPstate(st, kids).spine = Under(sp, kids)
         /\ OnPstate(st, kids).mem = st.mem
         /\ OnPstate(Shift(st, d), kids) = Shift(OnPstate(st, kids), d)
<1>1. st \in Started
  BY SpineFields
<1>2. OnPstate(st, kids) \in Below(st) /\ OnPstate(st, kids).spine = Under(sp, kids) /\ OnPstate(st, kids).mem = st.mem
  BY <1>1, OnTyped DEF Under
<1> QED
  BY <1>1, <1>2, ShiftOn, BelowStates

LEMMA KidsTyped ==
  ASSUME Trees, NEW sp \in Spines
  PROVE  KidsAt(sp) \in Seq(Pnodes)
<1>1. <<>> \in Seq(Pnodes)
  OBVIOUS
<1> QED
  BY <1>1, UnderTyped

\* ec_pnode_del_last_child() after a pnode was linked
LEMMA DelLinked ==
  ASSUME Trees, NEW sp \in Spines, NEW p \in Pnodes, NEW st \in States, st.spine = Grown(sp, p), NEW d \in Nat
  PROVE  /\ DelLastChild(st) \in States /\ DelLastChild(st).spine = sp /\ DelLastChild(st).mem = st.mem
         /\ DelLastChild(Shift(st, d)) = Shift(DelLastChild(st), d)
<1> DEFINE kids == KidsAt(sp)
           all == Append(kids, p)
<1>1. kids \in Seq(Pnodes) /\ all \in Seq(Pnodes)
  <2>1. <<>> \in Seq(Pnodes)
    OBVIOUS
  <2>2. kids \in Seq(Pnodes)
    BY <2>1, UnderTyped
  <2> QED
    BY <2>2
<1>2. Grown(sp, p) \in Spines /\ KidsAt(Grown(sp, p)) = all /\ Under(Grown(sp, p), kids) = sp
  BY <1>1, UnderTyped DEF Grown
<1>3. all # <<>> /\ SE!Front(all) = kids
  BY <1>1, FrontAppend
<1>4. Pstate(st).kids = all /\ st \in Started
  BY <1>2, SpineFields
<1>5. DelLastChild(st) = OnPstate(st, kids)
  BY <1>3, <1>4 DEF DelLastChild
<1>6. DelLastChild(Shift(st, d)) = Shift(DelLastChild(st), d)
  BY <1>4, ShiftTree
<1>7. OnPstate(st, kids) \in States /\ OnPstate(st, kids).spine = Under(Grown(sp, p), kids) /\ OnPstate(st, kids).mem = st.mem
  BY <1>1, <1>2, OnUnder
<1> QED
  BY <1>2, <1>5, <1>6, <1>7

\* ec_parse_child() returned p: it linked one pnode if it matched, and none
\* otherwise.  q is what it returns with d more allocations.
Links(p, q, sp, d) ==
  /\ p.st \in States /\ p.ret \in Nat \cup {Fail}
  /\ p.ret \in {Fail, NoMatch} => p.st.spine = sp
  /\ p.ret \notin {Fail, NoMatch} => \E kid \in Pnodes : p.st.spine = Grown(sp, kid)
  /\ p.ret # Fail => p.st.mem \in Nat /\ q.ret = p.ret /\ q.st = Shift(p.st, d)

LEMMA ParseHereLinks ==
  ASSUME Trees, GrammarOk, NEW n \in DOMAIN nodes, NEW sp \in Spines, NEW st \in States, st.spine = sp,
         st.mem \in Nat, NEW v \in Vectors, NEW d \in Nat,
         NEW p, p = ParseHere(n, st, v), NEW q, q = ParseHere(n, Shift(st, d), v)
  PROVE  Links(p, q, sp, d)
<1> DEFINE P == ParseTo[Depth]
           L == Lengths
<1>1. Sound(P, L) /\ Natural(L) /\ Steady(P)
  BY EngineSound, EngineSteady
<1>2. p = ParseChild(P, n, st, v) /\ q = ParseChild(P, n, Shift(st, d), v)
  BY DEF ParseHere
<1> HIDE DEF P, L
<1>3. st \in Started /\ Pstate(st).kids = KidsAt(sp) /\ st \in Below(st) /\ n \in Nat
  BY SpineFields, BelowSelf, NodeTyped
<1>4. p \in Results /\ p.st \in Below(st) /\ Keeps(p, q, st, d)
  BY <1>1, <1>2, <1>3, ChildKeeps
<1>5. p.st \in States
  BY <1>4, BelowStates
<1>6. p.ret # Fail => p.ret \in Nat /\ p.st.mem \in Nat /\ q.ret = p.ret /\ q.st = Shift(p.st, d)
  BY <1>4, ResultFields DEF Keeps, Failed, Alive, Shifted
<1>7. PICK kids \in Seq(Pnodes) : p.st.spine = Under(sp, kids)
  BY <1>4 DEF Below, Under
<1>8. Pstate(p.st).kids = kids
  <2>1. Under(sp, kids) \in Spines /\ KidsAt(Under(sp, kids)) = kids
    BY UnderTyped
  <2> DEFINE y == p.st
  <2>2. y \in States /\ y.spine = Under(sp, kids)
    BY <1>5, <1>7
  <2> HIDE DEF y
  <2>3. Pstate(y).kids = kids
    BY <2>1, <2>2, SpineFields
  <2> QED
    BY <2>3 DEF y
<1> DEFINE GotOne == \E kid \in Pnodes : Pstate(p.st).kids = Append(Pstate(st).kids, kid)
<1>9. (p.ret = NoMatch => Pstate(p.st).kids = Pstate(st).kids) /\ (p.ret \notin {Fail, NoMatch} => GotOne)
  <2>1. p = ParseChild(P, n, st, v) /\ st \in Started
    BY <1>2, <1>3
  <2> QED
    BY ONLY Trees, GrammarOk, n \in DOMAIN nodes, v \in Vectors, <1>1, <2>1, ChildLinks
<1>10. CASE p.ret = NoMatch
  <2>1. kids = KidsAt(sp)
    BY <1>3, <1>8, <1>9, <1>10
  <2>2. p.st.spine = sp
    BY <1>7, <2>1, UnderTyped
  <2> QED
    BY <1>5, <1>6, <1>10, <2>2 DEF Links, Fail, NoMatch
<1>11. CASE p.ret \notin {Fail, NoMatch}
  <2>1. PICK kid \in Pnodes : Pstate(p.st).kids = Append(Pstate(st).kids, kid)
    BY <1>9, <1>11
  <2>2. p.st.spine = Grown(sp, kid)
    BY <1>3, <1>7, <1>8, <2>1 DEF Grown
  <2> QED
    BY <1>5, <1>6, <1>11, <2>2 DEF Links, Fail, NoMatch
<1>12. CASE p.ret = Fail
  <2>1. CASE st.mem = 0
    <3>1. p = Result(Fail, Alloc(st))
      BY <1>2, <2>1 DEF ParseChild, AllocFails, Fails
    <3>2. p.st = Alloc(st) /\ Alloc(st).spine = sp
      BY <3>1, ResultFields, AllocPlain
    <3> QED
      BY <1>5, <1>12, <3>2 DEF Links, Fail, NoMatch
  <2>2. CASE st.mem # 0
    <3> DEFINE e == Enter(st, n)
               r == P[n][e][v]
    <3>1. p = Returned(r, v)
      BY <1>2, <2>2 DEF ParseChild
    <3>2. e \in Started
      BY EnterTyped, <1>3
    <3>3. r \in Sounds(e, L[n][v]) /\ L[n][v] \in SUBSET Nat
      BY <1>1, <3>2 DEF Sound, Natural
    <3> HIDE DEF r
    <3>4. r.st \in Below(Enter(st, n)) /\ r.ret \in {Fail, NoMatch} \cup L[n][v]
      BY <3>3 DEF Sounds
    <3> DEFINE y == r.st
               z == Leave(y)
    <3>5. y \in Below(Enter(st, n))
      BY <3>4
    <3> HIDE DEF y
    <3>6. z \in Below(st) /\ z.spine = sp
      BY <1>3, <3>5, LeaveTyped
    <3> HIDE DEF z
    <3>7. z \in States /\ Alloc(z).spine = sp
      BY <3>6, BelowStates, AllocPlain
    <3>8. p = Result(r.ret, z) \/ p = Result(Fail, Alloc(z)) \/ (r.ret \notin {Fail, NoMatch} /\ p.ret = r.ret)
      BY <3>1, ResultFields DEF Returned, AllocFails, Fails, z, y
    <3>9. p.st = z \/ p.st = Alloc(z)
      BY <1>12, <3>8, ResultFields
    <3> QED
      BY <1>5, <1>12, <3>6, <3>7, <3>9 DEF Links, Fail, NoMatch
  <2> QED
    BY <2>1, <2>2
<1> QED
  BY <1>10, <1>11, <1>12

-----------------------------------------------------------------------------
\* The callbacks.  O is what one of them makes of a comp and a string vector, C
\* are those of all the nodes.

Restores(O) ==
  \A sp \in Spines : \A c \in Live(sp) : \A v \in Vectors : \A d \in Nat :
    Unlinks(O[c][v], O[ShiftComp(c, d)][v], sp, d)
AllRestore(C) == \A n \in DOMAIN nodes : Restores(C[n])

\* ec_complete_child(): the pnode that it pushed has no children in the end.
LEMMA PoppedUnlinks ==
  ASSUME Trees, NEW sp \in Seq(Pnodes), NEW n \in Nat, NEW d \in Nat, NEW b, NEW q,
         Unlinks(b, q, Append(sp, Pnode(n)), d)
  PROVE  Unlinks(Popped(b), Popped(q), sp, d)
<1> DEFINE s == Append(sp, Pnode(n))
<1>1. Pnode(n) \in Pnodes /\ Pnode(n).kids = <<>>
  BY NewPnode DEF Pnode
<1>2. s \in Seq(Pnodes) /\ s # <<>> /\ s[Len(s)] = Pnode(n)
  BY <1>1
<1>3. s \in Spines /\ KidsAt(s) = <<>>
  BY <1>1, <1>2 DEF Spines, KidsAt
<1>4. ASSUME NEW c \in Comps, c.st.spine = s, ~c.dirty
      PROVE  /\ Popped(c) \in Comps /\ Popped(c).st = Leave(c.st) /\ Popped(c).items = c.items
             /\ ~Popped(c).dirty /\ Popped(c).fails = c.fails
             /\ Leave(c.st) \in States /\ Leave(c.st).spine = sp /\ Leave(c.st).mem = c.st.mem
             /\ Leave(Shift(c.st, d)) = Shift(Leave(c.st), d)
  <2>1. c.st \in States /\ c \in [st : States, items : Seq(CompItems), dirty : BOOLEAN, fails : BOOLEAN]
    BY CompFields DEF Comps
  <2> DEFINE x == c.st
             y == Leave(x)
  <2>2. x \in States /\ x.spine = s
    BY <1>4, <2>1
  <2> HIDE DEF x
  <2>3. Pstate(x).kids = <<>>
    BY <1>3, <2>2, SpineFields
  <2>4. y \in States /\ y.spine = sp /\ y.mem = x.mem /\ Leave(Shift(x, d)) = Shift(y, d)
    BY <1>1, <2>2, LeavePlain
  <2> HIDE DEF y
  <2>5. c.dirty = FALSE
    BY <1>4, <2>1
  <2>6. Popped(c) = [c EXCEPT !.st = y, !.dirty = FALSE]
    BY <2>3, <2>5 DEF Popped, x, y
  <2> QED
    BY <2>1, <2>4, <2>6 DEF Comps, x, y
<1> HIDE DEF s
<1>5. CASE b \in Dead(s)
  BY <1>4, <1>5 DEF Unlinks, Dead
<1>6. CASE b \in Live(s) /\ q = ShiftComp(b, d)
  <2>1. b \in Comps /\ b.st.spine = s /\ b.st.mem \in Nat /\ ~b.dirty /\ ~b.fails /\ b.st \in States
        /\ q \in Comps /\ q.st = Shift(b.st, d) /\ q.items = b.items /\ ~q.dirty /\ ~q.fails /\ Shift(b.st, d).spine = s
    <3>1. b \in Live(s) /\ q = ShiftComp(b, d)
      BY <1>6
    <3>2. b \in Comps /\ b.st.spine = s /\ b.st.mem \in Nat /\ ~b.dirty /\ ~b.fails /\ b.st \in States
      BY <3>1, LiveFields
    <3>3. /\ ShiftComp(b, d) \in Comps /\ ShiftComp(b, d).st = Shift(b.st, d) /\ ShiftComp(b, d).items = b.items
          /\ ~ShiftComp(b, d).dirty /\ ~ShiftComp(b, d).fails /\ Shift(b.st, d).spine = s
      BY <3>1, LiveFields
    <3> QED
      BY <3>1, <3>2, <3>3
  <2>2. Popped(b) \in Live(sp)
    BY <1>4, <2>1 DEF Live
  <2>3. /\ Popped(q) \in Comps /\ Popped(q).st = Shift(Leave(b.st), d) /\ Popped(q).items = b.items
        /\ ~Popped(q).dirty /\ ~Popped(q).fails
    BY <1>4, <2>1
  <2>4. Popped(b).st = Leave(b.st) /\ Popped(b).items = b.items
    BY <1>4, <2>1
  <2>5. /\ ShiftComp(Popped(b), d) \in Comps /\ ShiftComp(Popped(b), d).st = Shift(Leave(b.st), d)
        /\ ShiftComp(Popped(b), d).items = b.items
        /\ ~ShiftComp(Popped(b), d).dirty /\ ~ShiftComp(Popped(b), d).fails
    BY <2>2, <2>4, LiveFields
  <2>6. Popped(q).dirty = ShiftComp(Popped(b), d).dirty /\ Popped(q).fails = ShiftComp(Popped(b), d).fails
    BY <2>3, <2>5, CompFields
  <2>7. Popped(q) = ShiftComp(Popped(b), d)
    BY <2>3, <2>5, <2>6, CompEqual
  <2> QED
    BY <2>2, <2>7 DEF Unlinks
<1> QED
  BY <1>5, <1>6 DEF Unlinks, s

LEMMA ChildUnlinks ==
  ASSUME Trees, GrammarOk, NEW C, AllRestore(C), NEW n \in DOMAIN nodes, NEW sp \in Seq(Pnodes),
         NEW c \in Live(sp), NEW v \in Vectors, NEW d \in Nat
  PROVE  Unlinks(CompleteChild(C, n, c, v), CompleteChild(C, n, ShiftComp(c, d), v), sp, d)
<1>1. /\ c.st \in States /\ c.st.spine = sp /\ c.st.mem \in Nat
      /\ ShiftComp(c, d).st = Shift(c.st, d) /\ Shift(c.st, d).mem = c.st.mem + d
  BY LiveFields
<1>2. n \in Nat
  BY NodeTyped
<1>3. CASE c.st.mem = 0
  BY <1>3, LiveAllocFails DEF CompleteChild, Unlinks
<1>4. CASE c.st.mem # 0
  <2> DEFINE e == Enter(c.st, n)
             s == Append(sp, Pnode(n))
             x == CompOn(c, e)
             y == ShiftComp(x, d)
  <2>1. e \in States /\ e.spine = s /\ e.mem \in Nat
    <3>1. e \in Started /\ e.spine = s /\ e.mem = c.st.mem - 1
      BY <1>1, <1>2, EnterTyped
    <3> QED
      BY <1>1, <1>4, <3>1 DEF Started
  <2>2. s \in Spines
    <3>1. Pnode(n) \in Pnodes
      BY <1>2, NewPnode
    <3>2. s \in Seq(Pnodes) /\ s # <<>>
      BY <3>1
    <3> QED
      BY <3>2 DEF Spines
  <2>3. Enter(Shift(c.st, d), n) = Shift(e, d)
    BY <1>1, <1>2, ShiftEnter
  <2> HIDE DEF e
  <2>4. x \in Live(s) /\ CompOn(ShiftComp(c, d), Shift(e, d)) = y
    BY <2>1, LiveOn
  <2>5. CompleteChild(C, n, c, v) = Popped(C[n][x][v])
    BY <1>4 DEF CompleteChild, e
  <2>6. CompleteChild(C, n, ShiftComp(c, d), v) = Popped(C[n][y][v])
    <3>1. ShiftComp(c, d).st.mem # 0
      BY <1>1, <1>4
    <3> QED
      BY <1>1, <2>3, <2>4, <3>1 DEF CompleteChild
  <2> HIDE DEF x, y
  <2>7. Unlinks(C[n][x][v], C[n][y][v], s, d)
    BY <2>2, <2>4 DEF AllRestore, Restores, y
  <2> QED
    BY <1>2, <2>5, <2>6, <2>7, PoppedUnlinks
<1> QED
  BY <1>3, <1>4

LEMMA SelfUnlinks ==
  ASSUME NEW sp, NEW c \in Live(sp), NEW d
  PROVE  Unlinks(c, ShiftComp(c, d), sp, d)
BY DEF Unlinks

\* ec_comp_add_item()
LEMMA AddItemUnlinks ==
  ASSUME NEW sp, NEW c \in Live(sp), NEW d \in Nat, NEW n \in Nat,
         NEW type \in {CompFull, CompUnknown}, NEW current \in Strings, NEW full \in Strings
  PROVE  Unlinks(AddItem(c, n, type, current, full), AddItem(ShiftComp(c, d), n, type, current, full), sp, d)
<1> DEFINE e == ShiftComp(c, d)
           Added(x) == AddItem(x, n, type, current, full)
           item == [type |-> type, node |-> n, current |-> current, full |-> full, pstate |-> sp]
           st(m) == State(sp, m, c.st.faults)
<1>1. /\ c \in Comps /\ c.st \in States /\ c.st.spine = sp /\ c.st.mem \in Nat /\ ~c.dirty /\ ~c.fails
      /\ c.items \in Seq(CompItems) /\ sp \in Seq(Pnodes)
      /\ e \in Comps /\ e.st = Shift(c.st, d) /\ e.items = c.items /\ ~e.dirty /\ ~e.fails
  BY LiveFields
<1>2. c.st.faults \in SUBSET Faults /\ c.st = st(c.st.mem)
  BY <1>1 DEF States, State
<1>3. item \in CompItems
  BY <1>1 DEF CompItems
<1>4. ASSUME NEW m \in Int PROVE st(m) \in States /\ st(m).spine = sp /\ st(m).mem = m /\ Shift(st(m), d) = st(m + d)
  BY <1>1, <1>2, StateFields DEF Shift, State
<1>5. ASSUME NEW m \in Int, NEW k PROVE [st(m) EXCEPT !.mem = k] = st(k)
  BY DEF State
<1>6. e.st = st(c.st.mem + d)
  BY <1>1, <1>2, <1>4
<1>7. ASSUME NEW x \in Comps, NEW m \in Nat, x.st = st(m), m \notin {0, 1}
      PROVE  /\ Added(x) \in Comps /\ Added(x).st = st(m - 2) /\ Added(x).items = Append(x.items, item)
             /\ Added(x).dirty = x.dirty /\ Added(x).fails = x.fails
  <2> DEFINE y == st(m - 2)
             items == Append(x.items, item)
  <2>1. x.st.mem = m /\ x.st.spine = sp
    BY <1>4, <1>7
  <2>2. [x.st EXCEPT !.mem = m - 2] = y
    BY <1>5, <1>7
  <2>3. y \in States
    BY <1>4, <1>7
  <2> HIDE DEF y, st
  <2>4. Added(x) = [x EXCEPT !.st = y, !.items = items]
    BY <1>7, <2>1, <2>2 DEF AddItem
  <2> HIDE DEF item
  <2>5. items \in Seq(CompItems)
    BY <1>3, CompFields
  <2> HIDE DEF items, Added
  <2>6. /\ Added(x) \in Comps /\ Added(x).st = y /\ Added(x).items = items
        /\ Added(x).dirty = x.dirty /\ Added(x).fails = x.fails
    BY <2>3, <2>4, <2>5 DEF Comps
  <2> QED
    BY <2>6 DEF y, items
<1>8. CASE c.st.mem \in {0, 1}
  <2>1. [c EXCEPT !.st.mem = -1] = CompOn(c, st(-1))
    BY <1>2 DEF CompOn, State
  <2>2. Added(c) = CompFails(CompOn(c, st(-1)))
    BY <1>8, <2>1 DEF AddItem
  <2> DEFINE y == st(-1)
  <2>3. y \in States /\ y.spine = sp
    BY <1>4
  <2> HIDE DEF y
  <2>4. CompFails(CompOn(c, y)) \in Dead(sp)
    BY <2>3, LiveOn
  <2> QED
    BY <2>2, <2>4 DEF Unlinks, y
<1>9. CASE c.st.mem \notin {0, 1}
  <2> DEFINE m == c.st.mem
             b == Added(c)
             q == Added(e)
  <2>1. m \in Nat /\ m + d \in Nat /\ m - 2 \in Nat /\ m + d \notin {0, 1} /\ (m - 2) + d = (m + d) - 2
    BY <1>1, <1>9
  <2> HIDE DEF item, Added, st, e
  <2>2. b \in Comps /\ b.st = st(m - 2) /\ b.items = Append(c.items, item) /\ ~b.dirty /\ ~b.fails
    BY <1>1, <1>2, <1>7, <1>9
  <2>3. q \in Comps /\ q.st = st((m + d) - 2) /\ q.items = Append(c.items, item) /\ ~q.dirty /\ ~q.fails
    BY <1>1, <1>6, <1>7, <2>1
  <2> HIDE DEF b, q
  <2>4. b \in Live(sp) /\ Shift(b.st, d) = st((m + d) - 2)
    <3>1. m - 2 \in Int
      BY <2>1
    <3>2. st(m - 2).spine = sp /\ st(m - 2).mem = m - 2 /\ Shift(st(m - 2), d) = st((m - 2) + d)
      BY <1>4, <3>1
    <3> QED
      BY <2>1, <2>2, <3>2 DEF Live
  <2>5. /\ ShiftComp(b, d) \in Comps /\ ShiftComp(b, d).st = Shift(b.st, d) /\ ShiftComp(b, d).items = b.items
        /\ ~ShiftComp(b, d).dirty /\ ~ShiftComp(b, d).fails
    BY <2>4, LiveFields
  <2>6. Shift(b.st, d) = q.st
    BY <2>3, <2>4
  <2>7. q.dirty = ShiftComp(b, d).dirty /\ q.fails = ShiftComp(b, d).fails
    BY <2>3, <2>5, CompFields
  <2>8. q = ShiftComp(b, d)
    BY <2>2, <2>3, <2>5, <2>6, <2>7, CompEqual
  <2> QED
    BY <2>4, <2>8 DEF Unlinks, b, q, Added, e
<1> QED
  BY <1>8, <1>9

\* the leaves
LEMMA LeafUnlinks ==
  ASSUME GrammarOk, NEW n \in DOMAIN nodes, NEW sp, NEW c \in Live(sp), NEW v \in Vectors, NEW d \in Nat
  PROVE  /\ Unlinks(StrComplete(n, c, v), StrComplete(n, ShiftComp(c, d), v), sp, d)
         /\ Unlinks(CompleteUnknown(n, c, v), CompleteUnknown(n, ShiftComp(c, d), v), sp, d)
         /\ Unlinks(NoneComplete(c), NoneComplete(ShiftComp(c, d)), sp, d)
<1>1. n \in Nat /\ nodes[n].word \in Strings /\ <<>> \in Strings
  BY NodeTyped DEF Strings
<1>2. Unlinks(c, ShiftComp(c, d), sp, d)
  BY SelfUnlinks
<1>3. Unlinks(AddItem(c, n, CompUnknown, <<>>, <<>>), AddItem(ShiftComp(c, d), n, CompUnknown, <<>>, <<>>), sp, d)
  BY <1>1, AddItemUnlinks
<1>4. ASSUME Len(v) = 1
      PROVE  Unlinks(AddItem(c, n, CompFull, v[1], nodes[n].word),
                     AddItem(ShiftComp(c, d), n, CompFull, v[1], nodes[n].word), sp, d)
  <2>1. v[1] \in Strings
    BY <1>4 DEF Vectors
  <2> QED
    BY <1>1, <2>1, AddItemUnlinks
<1>5. Unlinks(StrComplete(n, c, v), StrComplete(n, ShiftComp(c, d), v), sp, d)
  <2>1. CASE Len(v) # 1 \/ ~SE!IsPrefix(v[1], nodes[n].word)
    BY <1>2, <2>1 DEF StrComplete
  <2>2. CASE ~(Len(v) # 1 \/ ~SE!IsPrefix(v[1], nodes[n].word))
    BY <1>4, <2>2 DEF StrComplete
  <2> QED
    BY <2>1, <2>2
<1>6. Unlinks(CompleteUnknown(n, c, v), CompleteUnknown(n, ShiftComp(c, d), v), sp, d)
  BY <1>2, <1>3 DEF CompleteUnknown
<1> QED
  BY <1>2, <1>5, <1>6 DEF NoneComplete

\* ec_node_or_complete(), and the first loop of __ec_node_subset_complete()
LEMMA EachUnlinks ==
  ASSUME Trees, GrammarOk, NEW C, AllRestore(C), NEW kids, Existing(kids), NEW sp \in Spines,
         NEW c \in Live(sp), NEW v \in Vectors, NEW d \in Nat
  PROVE  Unlinks(CompleteEach(C, kids, c, v), CompleteEach(C, kids, ShiftComp(c, d), v), sp, d)
<1> DEFINE step == [i \in DOMAIN kids |-> [x \in Comps |-> EachChild(C, kids[i], x, v)]]
           n == Len(kids)
<1>0. sp \in Seq(Pnodes)
  BY DEF Spines
<1>1. n \in Nat /\ DOMAIN kids = 1..n
  BY DEF Existing
<1>2. ASSUME NEW i \in 1..n, NEW x \in Live(sp) PROVE Unlinks(step[i][x], step[i][ShiftComp(x, d)], sp, d)
  <2>1. i \in DOMAIN kids /\ kids[i] \in DOMAIN nodes
    BY <1>1 DEF Existing
  <2>2. x \in Comps /\ ShiftComp(x, d) \in Comps /\ ~x.fails /\ ~ShiftComp(x, d).fails
    BY LiveFields
  <2>3. /\ step[i][x] = CompleteChild(C, kids[i], x, v)
        /\ step[i][ShiftComp(x, d)] = CompleteChild(C, kids[i], ShiftComp(x, d), v)
    BY <2>1, <2>2 DEF EachChild
  <2> HIDE DEF step
  <2> QED
    BY <1>0, <2>1, <2>3, ChildUnlinks
<1>3. ASSUME NEW i \in 1..n, NEW x \in Dead(sp) PROVE step[i][x] = x
  <2>1. i \in DOMAIN kids /\ x \in Comps /\ x.fails
    BY <1>1, DeadFields
  <2> QED
    BY <2>1 DEF EachChild
<1>4. CompleteEach(C, kids, c, v) = Loop(step, c, n)
      /\ CompleteEach(C, kids, ShiftComp(c, d), v) = Loop(step, ShiftComp(c, d), n)
  BY DEF CompleteEach
<1> HIDE DEF step, n
<1>5. Unlinks(c, ShiftComp(c, d), sp, d)
  BY SelfUnlinks
<1> QED
  BY <1>1, <1>2, <1>3, <1>4, <1>5, UnlinksLoop

\* option, bypass and once nodes
LEMMA UnaryUnlinks ==
  ASSUME Trees, GrammarOk, NEW C, AllRestore(C), NEW node, node.kids[1] \in DOMAIN nodes, NEW sp \in Spines,
         NEW c \in Live(sp), NEW v \in Vectors, NEW d \in Nat
  PROVE  /\ Unlinks(OptionComplete(C, node, c, v), OptionComplete(C, node, ShiftComp(c, d), v), sp, d)
         /\ Unlinks(BypassComplete(C, node, c, v), BypassComplete(C, node, ShiftComp(c, d), v), sp, d)
         /\ Unlinks(OnceComplete(C, node, c, v), OnceComplete(C, node, ShiftComp(c, d), v), sp, d)
<1> DEFINE k == node.kids[1]
<1>1. sp \in Seq(Pnodes)
  BY DEF Spines
<1>2. Unlinks(CompleteChild(C, k, c, v), CompleteChild(C, k, ShiftComp(c, d), v), sp, d)
  BY <1>1, ChildUnlinks
<1>3. Unlinks(c, ShiftComp(c, d), sp, d)
  BY SelfUnlinks
<1>4. CountFromRoot(ShiftComp(c, d).st, k) = CountFromRoot(c.st, k)
  <2>1. c.st.spine = sp /\ ShiftComp(c, d).st.spine = sp
    BY LiveFields
  <2> QED
    BY <2>1 DEF CountFromRoot
<1>5. Unlinks(OnceComplete(C, node, c, v), OnceComplete(C, node, ShiftComp(c, d), v), sp, d)
  <2>1. CASE CountFromRoot(c.st, k) > 0
    BY <1>3, <1>4, <2>1 DEF OnceComplete
  <2>2. CASE ~(CountFromRoot(c.st, k) > 0)
    BY <1>2, <1>4, <2>2 DEF OnceComplete
  <2> QED
    BY <2>1, <2>2
<1> QED
  BY <1>2, <1>5 DEF OptionComplete, BypassComplete

-----------------------------------------------------------------------------
\* What is completed after a match

\* the pnode of a match is deleted again
LEMMA DeletedUnlinks ==
  ASSUME Trees, NEW sp \in Spines, NEW kid \in Pnodes, NEW d \in Nat, NEW b, NEW q,
         Unlinks(b, q, Grown(sp, kid), d)
  PROVE  Unlinks(Unlinked(b), Unlinked(q), sp, d)
<1> DEFINE s == Grown(sp, kid)
<1>1. CASE b \in Dead(s)
  <2>1. b \in Comps /\ b.st \in States /\ b.st.spine = s /\ ~b.dirty /\ b.fails
    BY <1>1, DeadFields
  <2> DEFINE x == b.st
             y == DelLastChild(x)
  <2>2. x \in States /\ x.spine = s
    BY <2>1
  <2> HIDE DEF x
  <2>3. y \in States /\ y.spine = sp
    BY <2>2, DelLinked
  <2> HIDE DEF y
  <2>4. CompOn(b, y) \in Comps /\ CompOn(b, y).st = y /\ ~CompOn(b, y).dirty /\ CompOn(b, y).fails
    BY <2>1, <2>3, CompOnTyped
  <2>5. CompOn(b, y) \in Dead(sp)
    BY <2>3, <2>4 DEF Dead
  <2> QED
    BY <2>5 DEF Unlinked, Unlinks, x, y
<1>2. CASE b \in Live(s) /\ q = ShiftComp(b, d)
  <2>0. b \in Live(s)
    BY <1>2
  <2>1. b.st \in States /\ b.st.spine = s /\ b.st.mem \in Nat /\ ShiftComp(b, d).st = Shift(b.st, d)
    BY <2>0, LiveFields
  <2> DEFINE x == b.st
             y == DelLastChild(x)
  <2>2. x \in States /\ x.spine = s /\ x.mem \in Nat
    BY <2>1
  <2>3. Unlinked(b) = CompOn(b, y) /\ Unlinked(q) = CompOn(ShiftComp(b, d), DelLastChild(Shift(x, d)))
    BY <1>2, <2>1 DEF Unlinked
  <2> HIDE DEF x
  <2>4. y \in States /\ y.spine = sp /\ y.mem \in Nat /\ DelLastChild(Shift(x, d)) = Shift(y, d)
    BY <2>2, DelLinked
  <2> HIDE DEF y
  <2>5. CompOn(b, y) \in Live(sp) /\ CompOn(ShiftComp(b, d), Shift(y, d)) = ShiftComp(CompOn(b, y), d)
    BY <2>0, <2>4, LiveOn
  <2> QED
    BY <2>3, <2>4, <2>5 DEF Unlinks
<1> QED
  BY <1>1, <1>2 DEF Unlinks

LEMMA ContinuedUnlinks ==
  ASSUME Trees, NEW Others, Restores(Others), NEW sp \in Spines, NEW kid \in Pnodes, NEW c \in Live(sp),
         NEW v \in Vectors, NEW d \in Nat, NEW p, NEW q,
         p.st \in States, p.st.spine = Grown(sp, kid), p.st.mem \in Nat, q.st = Shift(p.st, d)
  PROVE  Unlinks(Continued(Others, c, p, v), Continued(Others, ShiftComp(c, d), q, v), sp, d)
<1> DEFINE x == p.st
<1>1. x \in States /\ x.spine = Grown(sp, kid) /\ x.mem \in Nat /\ q.st = Shift(x, d)
  OBVIOUS
<1> HIDE DEF x
<1>2. CASE x.mem = 0
  <2> DEFINE y == DelLastChild(x)
  <2>1. y \in States /\ y.spine = sp /\ y.mem \in Nat
    BY <1>1, DelLinked
  <2>2. Continued(Others, c, p, v) = CompAllocFails(CompOn(c, y))
    BY <1>2 DEF Continued, x
  <2> HIDE DEF y
  <2>3. CompOn(c, y) \in Live(sp)
    BY <2>1, LiveOn
  <2> QED
    BY <2>2, <2>3, LiveAllocFails DEF Unlinks
<1>3. CASE x.mem # 0
  <2> DEFINE a == Alloc(x)
             s == Grown(sp, kid)
             b == CompOn(c, a)
             e == CompOn(ShiftComp(c, d), Alloc(q.st))
  <2>1. a \in States /\ a.spine = s /\ a.mem \in Nat /\ Alloc(q.st) = Shift(a, d)
    <3>1. a \in States /\ a.spine = s /\ a.mem = x.mem - 1 /\ Alloc(q.st) = Shift(a, d)
      BY <1>1, AllocPlain
    <3> QED
      BY <1>1, <1>3, <3>1
  <2>2. q.st.mem # 0
    <3>1. Shift(x, d).mem = x.mem + d
      BY <1>1, ShiftTyped
    <3>2. q.st.mem = x.mem + d
      BY ONLY <1>1, <3>1
    <3> QED
      BY <1>1, <1>3, <3>2
  <2>3. /\ Continued(Others, c, p, v) = Unlinked(Others[b][v])
        /\ Continued(Others, ShiftComp(c, d), q, v) = Unlinked(Others[e][v])
    BY <1>3, <2>2 DEF Continued, x
  <2>4. s \in Spines
    <3>1. KidsAt(sp) \in Seq(Pnodes)
      BY KidsTyped
    <3>2. Append(KidsAt(sp), kid) \in Seq(Pnodes)
      BY <3>1
    <3> QED
      BY <3>2, UnderTyped DEF Grown
  <2> HIDE DEF a
  <2>5. b \in Live(s) /\ e = ShiftComp(b, d)
    BY <2>1, LiveOn
  <2> HIDE DEF b, e, s
  <2>6. Unlinks(Others[b][v], Others[e][v], s, d)
    BY <2>4, <2>5 DEF Restores
  <2> QED
    BY <2>3, <2>6, DeletedUnlinks DEF s
<1> QED
  BY <1>2, <1>3

-----------------------------------------------------------------------------
\* ec_node_seq_complete()

LEMMA SeqMatchedUnlinks ==
  ASSUME Trees, NEW Others, Restores(Others), NEW sp \in Spines, NEW c \in Live(sp), NEW v \in Vectors,
         NEW d \in Nat, NEW i \in 0..Len(v), NEW p, NEW q, Links(p, q, sp, d)
  PROVE  Unlinks(SeqMatched(Others, c, v, i, p), SeqMatched(Others, ShiftComp(c, d), v, i, q), sp, d)
<1> DEFINE x == p.st
<1>1. /\ x \in States /\ p.ret \in Nat \cup {Fail}
      /\ p.ret \in {Fail, NoMatch} => x.spine = sp
      /\ p.ret \notin {Fail, NoMatch} => \E kid \in Pnodes : x.spine = Grown(sp, kid)
      /\ p.ret # Fail => x.mem \in Nat /\ q.ret = p.ret /\ q.st = Shift(x, d)
  BY DEF Links
<1>2. Fail # NoMatch /\ i # Fail /\ Len(v) \in Nat
  BY VectorLen DEF Fail, NoMatch
<1>3. CASE p.ret = Fail
  <2>1. SeqMatched(Others, c, v, i, p) = CompFails(CompOn(c, x))
    BY <1>2, <1>3 DEF SeqMatched
  <2> HIDE DEF x
  <2>2. CompFails(CompOn(c, x)) \in Dead(sp)
    BY <1>1, <1>3, LiveOn
  <2> QED
    BY <2>1, <2>2 DEF Unlinks
<1>4. CASE p.ret = NoMatch
  <2>0. q.ret = NoMatch /\ q.st = Shift(x, d) /\ x.mem \in Nat /\ x.spine = sp
    BY <1>1, <1>2, <1>4
  <2>1. SeqMatched(Others, c, v, i, p) = CompOn(c, x)
        /\ SeqMatched(Others, ShiftComp(c, d), v, i, q) = CompOn(ShiftComp(c, d), Shift(x, d))
    BY <1>2, <1>4, <2>0 DEF SeqMatched
  <2> HIDE DEF x
  <2>2. CompOn(c, x) \in Live(sp) /\ CompOn(ShiftComp(c, d), Shift(x, d)) = ShiftComp(CompOn(c, x), d)
    BY <1>1, <2>0, LiveOn
  <2> QED
    BY <2>1, <2>2 DEF Unlinks
<1>5. CASE p.ret \notin {Fail, NoMatch}
  <2>0. q.ret = p.ret /\ q.st = Shift(x, d) /\ x.mem \in Nat
    BY <1>1, <1>5
  <2>1. PICK kid \in Pnodes : x.spine = Grown(sp, kid)
    BY <1>1, <1>5
  <2>2. CASE p.ret # i
    <3> DEFINE y == DelLastChild(x)
    <3>1. SeqMatched(Others, c, v, i, p) = CompOn(c, y)
          /\ SeqMatched(Others, ShiftComp(c, d), v, i, q) = CompOn(ShiftComp(c, d), DelLastChild(Shift(x, d)))
      BY <1>5, <2>0, <2>2 DEF SeqMatched
    <3> HIDE DEF x
    <3>2. y \in States /\ y.spine = sp /\ y.mem \in Nat /\ DelLastChild(Shift(x, d)) = Shift(y, d)
      BY <1>1, <2>0, <2>1, DelLinked
    <3> HIDE DEF y
    <3>3. CompOn(c, y) \in Live(sp) /\ CompOn(ShiftComp(c, d), Shift(y, d)) = ShiftComp(CompOn(c, y), d)
      BY <3>2, LiveOn
    <3> QED
      BY <3>1, <3>2, <3>3 DEF Unlinks
  <2>3. CASE p.ret = i
    <3>1. SeqMatched(Others, c, v, i, p) = Continued(Others, c, p, Rest(v, i))
          /\ SeqMatched(Others, ShiftComp(c, d), v, i, q) = Continued(Others, ShiftComp(c, d), q, Rest(v, i))
      BY <1>5, <2>0, <2>3 DEF SeqMatched
    <3>2. Rest(v, i) \in Vectors
      BY <1>2, RestTyped
    <3> QED
      BY <1>1, <2>0, <2>1, <3>1, <3>2, ContinuedUnlinks
  <2> QED
    BY <2>2, <2>3
<1> QED
  BY <1>3, <1>4, <1>5

LEMMA SeqTryUnlinks ==
  ASSUME Trees, GrammarOk, NEW Others, Restores(Others), NEW k \in DOMAIN nodes, NEW sp \in Spines,
         NEW c \in Live(sp), NEW v \in Vectors, NEW d \in Nat, NEW i \in 0..Len(v)
  PROVE  Unlinks(SeqTry(Others, k, c, v, i), SeqTry(Others, k, ShiftComp(c, d), v, i), sp, d)
<1> DEFINE x == c.st
           w == SubSeq(v, 1, i)
<1>1. /\ x \in States /\ x.spine = sp /\ x.mem \in Nat /\ ~c.fails /\ ~ShiftComp(c, d).fails
      /\ ShiftComp(c, d).st = Shift(x, d) /\ Shift(x, d).mem = x.mem + d
  BY LiveFields
<1>2. CASE x.mem = 0
  BY <1>1, <1>2, LiveAllocFails DEF SeqTry, Unlinks
<1>3. CASE x.mem # 0
  <2> DEFINE a == Alloc(x)
             p == ParseHere(k, a, w)
             q == ParseHere(k, Shift(a, d), w)
  <2>1. /\ SeqTry(Others, k, c, v, i) = SeqMatched(Others, c, v, i, p)
        /\ SeqTry(Others, k, ShiftComp(c, d), v, i) =
             SeqMatched(Others, ShiftComp(c, d), v, i, ParseHere(k, Alloc(Shift(x, d)), w))
    <3>1. Shift(x, d).mem # 0
      BY <1>1, <1>3
    <3> QED
      BY <1>1, <1>3, <3>1 DEF SeqTry
  <2> HIDE DEF x
  <2>2. a \in States /\ a.spine = sp /\ a.mem \in Nat /\ Alloc(Shift(x, d)) = Shift(a, d)
    <3>1. a \in States /\ a.spine = sp /\ a.mem = x.mem - 1 /\ Alloc(Shift(x, d)) = Shift(a, d)
      BY <1>1, AllocPlain
    <3> QED
      BY <1>1, <1>3, <3>1
  <2> HIDE DEF a
  <2>3. w \in Vectors
    <3>1. i \in Nat /\ i <= Len(v)
      BY VectorLen
    <3> QED
      BY <3>1, RestTyped
  <2> HIDE DEF w
  <2>4. Links(p, q, sp, d)
    BY <2>2, <2>3, ParseHereLinks
  <2>5. Unlinks(SeqMatched(Others, c, v, i, p), SeqMatched(Others, ShiftComp(c, d), v, i, q), sp, d)
    <3> HIDE DEF p, q
    <3> QED
      BY <2>4, SeqMatchedUnlinks
  <2> QED
    BY <2>1, <2>2, <2>5
<1> QED
  BY <1>2, <1>3

LEMMA SeqFromUnlinks ==
  ASSUME Trees, GrammarOk, NEW C, AllRestore(C), NEW Others, Restores(Others), NEW k \in DOMAIN nodes,
         NEW sp \in Spines, NEW c \in Live(sp), NEW v \in Vectors, NEW d \in Nat
  PROVE  Unlinks(SeqFrom(C, Others, k, c, v), SeqFrom(C, Others, k, ShiftComp(c, d), v), sp, d)
<1> DEFINE n == Len(v)
           step == [i \in 1..n |-> [x \in Comps |-> SeqTry(Others, k, x, v, i - 1)]]
           b == CompleteChild(C, k, c, v)
           q == CompleteChild(C, k, ShiftComp(c, d), v)
<1>1. n \in Nat
  BY VectorLen
<1>2. ASSUME NEW i \in 1..n, NEW x \in Live(sp) PROVE Unlinks(step[i][x], step[i][ShiftComp(x, d)], sp, d)
  <2>1. x \in Comps /\ ShiftComp(x, d) \in Comps /\ i - 1 \in 0..n
    BY <1>1, LiveFields
  <2>2. step[i][x] = SeqTry(Others, k, x, v, i - 1) /\ step[i][ShiftComp(x, d)] = SeqTry(Others, k, ShiftComp(x, d), v, i - 1)
    BY <2>1
  <2> HIDE DEF step
  <2> QED
    BY <2>1, <2>2, SeqTryUnlinks
<1>3. ASSUME NEW i \in 1..n, NEW x \in Dead(sp) PROVE step[i][x] = x
  <2>1. x \in Comps /\ x.fails
    BY DeadFields
  <2> QED
    BY <2>1 DEF SeqTry
<1>4. SeqFrom(C, Others, k, c, v) = Loop(step, b, n) /\ SeqFrom(C, Others, k, ShiftComp(c, d), v) = Loop(step, q, n)
  BY DEF SeqFrom
<1>5. Unlinks(b, q, sp, d)
  <2>1. sp \in Seq(Pnodes)
    BY DEF Spines
  <2> QED
    BY <2>1, ChildUnlinks
<1> HIDE DEF step, n, b, q
<1> QED
  BY <1>1, <1>2, <1>3, <1>4, <1>5, UnlinksLoop

LEMMA NothingElseRestores == Restores(NothingElse)
<1> SUFFICES ASSUME NEW sp \in Spines, NEW c \in Live(sp), NEW v \in Vectors, NEW d \in Nat
             PROVE  Unlinks(NothingElse[c][v], NothingElse[ShiftComp(c, d)][v], sp, d)
  BY DEF Restores
<1>1. c \in Comps /\ ShiftComp(c, d) \in Comps
  BY LiveFields
<1>2. NothingElse[c][v] = c /\ NothingElse[ShiftComp(c, d)][v] = ShiftComp(c, d)
  BY <1>1 DEF NothingElse
<1> QED
  BY <1>2, SelfUnlinks

\* the children from the last one on
FromGo(from, C, kids, last, m) ==
  from = [k \in 0..m |-> IF k = 0 THEN NothingElse ELSE SeqMore(C, from[k - 1], kids[last + 1 - k])]

LEMMA FromExists ==
  ASSUME NEW n \in Nat, NEW C, NEW kids, NEW last
  PROVE  \E from : FromGo(from, C, kids, last, n)
<1> DEFINE S == {m \in 0..n : \E g : FromGo(g, C, kids, last, m)}
<1>1. 0 \in S
  <2> DEFINE g == [k \in 0..0 |-> NothingElse]
  <2>1. g = [k \in 0..0 |-> IF k = 0 THEN NothingElse ELSE SeqMore(C, g[k - 1], kids[last + 1 - k])]
    OBVIOUS
  <2> HIDE DEF g
  <2>2. FromGo(g, C, kids, last, 0)
    BY <2>1 DEF FromGo
  <2> QED
    BY <2>2
<1>2. ASSUME NEW m \in 0..(n - 1), m \in S PROVE m + 1 \in S
  <2>1. PICK g : FromGo(g, C, kids, last, m)
    BY <1>2
  <2> DEFINE next == SeqMore(C, g[m], kids[last + 1 - (m + 1)])
             h == [k \in 0..(m + 1) |-> IF k = m + 1 THEN next ELSE g[k]]
  <2>2. ASSUME NEW k \in 0..(m + 1)
        PROVE  h[k] = IF k = 0 THEN NothingElse ELSE SeqMore(C, h[k - 1], kids[last + 1 - k])
    <3>1. CASE k = m + 1
      <4>1. h[k] = next /\ h[m] = g[m] /\ k - 1 = m /\ k # 0
        BY <3>1
      <4> HIDE DEF h
      <4> QED
        BY <3>1, <4>1
    <3>2. CASE k # m + 1
      <4>1. k \in 0..m /\ h[k] = g[k]
        BY <3>2
      <4>2. k # 0 => k - 1 \in 0..m /\ h[k - 1] = g[k - 1]
        BY <3>2
      <4>3. g[k] = IF k = 0 THEN NothingElse ELSE SeqMore(C, g[k - 1], kids[last + 1 - k])
        BY <2>1, <4>1 DEF FromGo
      <4> HIDE DEF h
      <4> QED
        BY <4>1, <4>2, <4>3
    <3> QED
      BY <3>1, <3>2
  <2>3. h = [k \in 0..(m + 1) |-> h[k]]
    OBVIOUS
  <2> HIDE DEF h
  <2>4. h = [k \in 0..(m + 1) |-> IF k = 0 THEN NothingElse ELSE SeqMore(C, h[k - 1], kids[last + 1 - k])]
    BY <2>2, <2>3
  <2>5. FromGo(h, C, kids, last, m + 1)
    BY <2>4 DEF FromGo
  <2> QED
    BY <2>5
<1> HIDE DEF S
<1>3. n \in S
  BY <1>1, <1>2, Induction
<1> QED
  BY <1>3 DEF S

LEMMA SeqMoreRestores ==
  ASSUME Trees, GrammarOk, NEW C, AllRestore(C), NEW Others, Restores(Others), NEW k \in DOMAIN nodes
  PROVE  Restores(SeqMore(C, Others, k))
<1> DEFINE O == SeqMore(C, Others, k)
<1>1. ASSUME NEW c \in Comps, NEW v \in Vectors PROVE O[c][v] = SeqFrom(C, Others, k, c, v)
  BY DEF SeqMore
<1> HIDE DEF O
<1>2. ASSUME NEW sp \in Spines, NEW c \in Live(sp), NEW v \in Vectors, NEW d \in Nat
      PROVE  Unlinks(O[c][v], O[ShiftComp(c, d)][v], sp, d)
  <2>1. c \in Comps /\ ShiftComp(c, d) \in Comps
    BY LiveFields
  <2> QED
    BY <1>1, <2>1, SeqFromUnlinks
<1>3. Restores(O)
  BY <1>2 DEF Restores
<1> QED
  BY <1>3 DEF O

LEMMA SeqUnlinks ==
  ASSUME Trees, GrammarOk, NEW C, AllRestore(C), NEW kids, Existing(kids), NEW sp \in Spines,
         NEW c \in Live(sp), NEW v \in Vectors, NEW d \in Nat
  PROVE  Unlinks(SeqComplete(C, kids, c, v), SeqComplete(C, kids, ShiftComp(c, d), v), sp, d)
<1> DEFINE n == Len(kids)
           T == CHOOSE from : from = [k \in 0..n |-> IF k = 0 THEN NothingElse
                                                     ELSE SeqMore(C, from[k - 1], kids[n + 1 - k])]
<1>0. n \in Nat /\ DOMAIN kids = 1..n
  BY DEF Existing
<1>1. /\ SeqComplete(C, kids, c, v) = T[n][c][v]
      /\ SeqComplete(C, kids, ShiftComp(c, d), v) = T[n][ShiftComp(c, d)][v]
  BY DEF SeqComplete
<1> HIDE DEF n
<1>2. T = [k \in 0..n |-> IF k = 0 THEN NothingElse ELSE SeqMore(C, T[k - 1], kids[n + 1 - k])]
  <2>1. n \in Nat
    BY <1>0
  <2>2. \E from : FromGo(from, C, kids, n, n)
    BY <2>1, FromExists
  <2> QED
    BY <2>2 DEF FromGo
<1> HIDE DEF T
<1> DEFINE S == {k \in 0..n : Restores(T[k])}
<1>3. 0 \in S
  <2>1. T[0] = NothingElse
    BY <1>0, <1>2
  <2> QED
    BY <1>0, <2>1, NothingElseRestores
<1>4. ASSUME NEW k \in 0..(n - 1), k \in S PROVE k + 1 \in S
  <2>1. k + 1 \in 0..n /\ k + 1 # 0 /\ (k + 1) - 1 = k /\ n + 1 - (k + 1) \in 1..n
    BY <1>0
  <2> DEFINE kid == kids[n + 1 - (k + 1)]
  <2>2. T[k + 1] = SeqMore(C, T[k], kid)
    BY <1>2, <2>1
  <2>3. kid \in DOMAIN nodes
    BY <1>0, <2>1 DEF Existing
  <2>4. Restores(T[k])
    BY <1>4
  <2> HIDE DEF kid
  <2>5. Restores(T[k + 1])
    BY <2>2, <2>3, <2>4, SeqMoreRestores
  <2> QED
    BY <2>1, <2>5
<1> HIDE DEF S
<1>5. n \in S
  <2>1. n \in Nat
    BY <1>0
  <2> QED
    BY <2>1, <1>3, <1>4, Induction
<1>6. Restores(T[n])
  BY <1>5 DEF S
<1> QED
  BY <1>1, <1>6 DEF Restores

-----------------------------------------------------------------------------
\* ec_node_subset_complete()

TablesRestore(T) == \A table : Existing(table) => Restores(T[table])

LEMMA SubsetMatchedUnlinks ==
  ASSUME Trees, NEW Others, NEW table, NEW i, Restores(Others[SE!RemoveAt(table, i)]),
         NEW sp \in Spines, NEW c \in Live(sp), NEW v \in Vectors, NEW d \in Nat, NEW p, NEW q, Links(p, q, sp, d)
  PROVE  Unlinks(SubsetMatched(Others, table, i, c, v, p), SubsetMatched(Others, table, i, ShiftComp(c, d), v, q), sp, d)
<1> DEFINE x == p.st
           O == Others[SE!RemoveAt(table, i)]
<1>1. /\ x \in States /\ p.ret \in Nat \cup {Fail}
      /\ p.ret \in {Fail, NoMatch} => x.spine = sp
      /\ p.ret \notin {Fail, NoMatch} => \E kid \in Pnodes : x.spine = Grown(sp, kid)
      /\ p.ret # Fail => x.mem \in Nat /\ q.ret = p.ret /\ q.st = Shift(x, d)
  BY DEF Links
<1>2. Fail # NoMatch
  BY DEF Fail, NoMatch
<1>3. CASE p.ret = Fail
  <2>1. SubsetMatched(Others, table, i, c, v, p) = CompFails(CompOn(c, x))
    BY <1>2, <1>3 DEF SubsetMatched
  <2> HIDE DEF x
  <2>2. CompFails(CompOn(c, x)) \in Dead(sp)
    BY <1>1, <1>3, LiveOn
  <2> QED
    BY <2>1, <2>2 DEF Unlinks
<1>4. CASE p.ret = NoMatch
  <2>0. q.ret = NoMatch /\ q.st = Shift(x, d) /\ x.mem \in Nat /\ x.spine = sp
    BY <1>1, <1>2, <1>4
  <2>1. SubsetMatched(Others, table, i, c, v, p) = CompOn(c, x)
        /\ SubsetMatched(Others, table, i, ShiftComp(c, d), v, q) = CompOn(ShiftComp(c, d), Shift(x, d))
    BY <1>2, <1>4, <2>0 DEF SubsetMatched
  <2> HIDE DEF x
  <2>2. CompOn(c, x) \in Live(sp) /\ CompOn(ShiftComp(c, d), Shift(x, d)) = ShiftComp(CompOn(c, x), d)
    BY <1>1, <2>0, LiveOn
  <2> QED
    BY <2>1, <2>2 DEF Unlinks
<1>5. CASE p.ret \notin {Fail, NoMatch}
  <2>0. q.ret = p.ret /\ q.st = Shift(x, d) /\ x.mem \in Nat /\ p.ret \in Nat
    BY <1>1, <1>5
  <2>1. PICK kid \in Pnodes : x.spine = Grown(sp, kid)
    BY <1>1, <1>5
  <2>2. /\ SubsetMatched(Others, table, i, c, v, p) = Continued(O, c, p, Rest(v, p.ret))
        /\ SubsetMatched(Others, table, i, ShiftComp(c, d), v, q) = Continued(O, ShiftComp(c, d), q, Rest(v, p.ret))
    BY <1>5, <2>0 DEF SubsetMatched
  <2>3. Rest(v, p.ret) \in Vectors
    BY <2>0, RestTyped
  <2> HIDE DEF O
  <2>4. Restores(O)
    BY DEF O
  <2> QED
    BY <1>1, <2>0, <2>1, <2>2, <2>3, <2>4, ContinuedUnlinks
<1> QED
  BY <1>3, <1>4, <1>5

LEMMA SubsetTryUnlinks ==
  ASSUME Trees, GrammarOk, NEW Others, TablesRestore(Others), NEW table, Existing(table), NEW i \in DOMAIN table,
         NEW sp \in Spines, NEW c \in Live(sp), NEW v \in Vectors, NEW d \in Nat
  PROVE  Unlinks(SubsetTry(Others, table, i, c, v), SubsetTry(Others, table, i, ShiftComp(c, d), v), sp, d)
<1> DEFINE x == c.st
           k == table[i]
           p == ParseHere(k, x, v)
           q == ParseHere(k, Shift(x, d), v)
<1>1. /\ x \in States /\ x.spine = sp /\ x.mem \in Nat /\ ~c.fails /\ ~ShiftComp(c, d).fails
      /\ ShiftComp(c, d).st = Shift(x, d)
  BY LiveFields
<1>2. /\ SubsetTry(Others, table, i, c, v) = SubsetMatched(Others, table, i, c, v, p)
      /\ SubsetTry(Others, table, i, ShiftComp(c, d), v) = SubsetMatched(Others, table, i, ShiftComp(c, d), v, q)
  BY <1>1 DEF SubsetTry
<1>3. k \in DOMAIN nodes
  BY DEF Existing
<1> HIDE DEF x, k
<1>4. Links(p, q, sp, d)
  BY <1>1, <1>3, ParseHereLinks
<1> HIDE DEF p, q
<1>5. Restores(Others[SE!RemoveAt(table, i)])
  BY RemoveExisting DEF TablesRestore
<1> QED
  BY <1>2, <1>4, <1>5, SubsetMatchedUnlinks

LEMMA SubsetFromUnlinks ==
  ASSUME Trees, GrammarOk, NEW C, AllRestore(C), NEW Others, TablesRestore(Others), NEW table, Existing(table),
         NEW sp \in Spines, NEW c \in Live(sp), NEW v \in Vectors, NEW d \in Nat
  PROVE  Unlinks(SubsetFrom(C, Others, table, c, v), SubsetFrom(C, Others, table, ShiftComp(c, d), v), sp, d)
<1> DEFINE n == Len(table)
           step == [i \in DOMAIN table |-> [x \in Comps |-> SubsetTry(Others, table, i, x, v)]]
           b == CompleteEach(C, table, c, v)
           q == CompleteEach(C, table, ShiftComp(c, d), v)
<1>1. n \in Nat /\ DOMAIN table = 1..n
  BY DEF Existing
<1>2. ASSUME NEW i \in 1..n, NEW x \in Live(sp) PROVE Unlinks(step[i][x], step[i][ShiftComp(x, d)], sp, d)
  <2>1. x \in Comps /\ ShiftComp(x, d) \in Comps /\ i \in DOMAIN table
    BY <1>1, LiveFields
  <2>2. /\ step[i][x] = SubsetTry(Others, table, i, x, v)
        /\ step[i][ShiftComp(x, d)] = SubsetTry(Others, table, i, ShiftComp(x, d), v)
    BY <2>1
  <2> HIDE DEF step
  <2> QED
    BY <2>1, <2>2, SubsetTryUnlinks
<1>3. ASSUME NEW i \in 1..n, NEW x \in Dead(sp) PROVE step[i][x] = x
  <2>1. x \in Comps /\ x.fails /\ i \in DOMAIN table
    BY <1>1, DeadFields
  <2> QED
    BY <2>1 DEF SubsetTry
<1>4. /\ SubsetFrom(C, Others, table, c, v) = Loop(step, b, n)
      /\ SubsetFrom(C, Others, table, ShiftComp(c, d), v) = Loop(step, q, n)
  BY DEF SubsetFrom
<1>5. Unlinks(b, q, sp, d)
  BY EachUnlinks
<1> HIDE DEF step, n, b, q
<1> QED
  BY <1>1, <1>2, <1>3, <1>4, <1>5, UnlinksLoop

\* the tables of fewer and fewer nodes
LeftGo(of, C, m) == of = [d \in 0..m |-> IF d = 0 THEN NothingLeft ELSE SubsetMore(C, of[d - 1])]

LEMMA LeftExists ==
  ASSUME NEW n \in Nat, NEW C
  PROVE  \E of : LeftGo(of, C, n)
<1> DEFINE S == {m \in 0..n : \E g : LeftGo(g, C, m)}
<1>1. 0 \in S
  <2> DEFINE g == [d \in 0..0 |-> NothingLeft]
  <2>1. g = [d \in 0..0 |-> IF d = 0 THEN NothingLeft ELSE SubsetMore(C, g[d - 1])]
    OBVIOUS
  <2> HIDE DEF g
  <2>2. LeftGo(g, C, 0)
    BY <2>1 DEF LeftGo
  <2> QED
    BY <2>2
<1>2. ASSUME NEW m \in 0..(n - 1), m \in S PROVE m + 1 \in S
  <2>1. PICK g : LeftGo(g, C, m)
    BY <1>2
  <2> DEFINE h == [d \in 0..(m + 1) |-> IF d = m + 1 THEN SubsetMore(C, g[m]) ELSE g[d]]
  <2>2. ASSUME NEW d \in 0..(m + 1)
        PROVE  h[d] = IF d = 0 THEN NothingLeft ELSE SubsetMore(C, h[d - 1])
    <3>1. CASE d = m + 1
      <4>1. h[d] = SubsetMore(C, g[m]) /\ h[m] = g[m] /\ d - 1 = m /\ d # 0
        BY <3>1
      <4> HIDE DEF h
      <4> QED
        BY <4>1
    <3>2. CASE d # m + 1
      <4>1. d \in 0..m /\ h[d] = g[d]
        BY <3>2
      <4>2. d # 0 => d - 1 \in 0..m /\ h[d - 1] = g[d - 1]
        BY <3>2
      <4>3. g[d] = IF d = 0 THEN NothingLeft ELSE SubsetMore(C, g[d - 1])
        BY <2>1, <4>1 DEF LeftGo
      <4> HIDE DEF h
      <4> QED
        BY <4>1, <4>2, <4>3
    <3> QED
      BY <3>1, <3>2
  <2>3. h = [d \in 0..(m + 1) |-> h[d]]
    OBVIOUS
  <2> HIDE DEF h
  <2>4. h = [d \in 0..(m + 1) |-> IF d = 0 THEN NothingLeft ELSE SubsetMore(C, h[d - 1])]
    BY <2>2, <2>3
  <2>5. LeftGo(h, C, m + 1)
    BY <2>4 DEF LeftGo
  <2> QED
    BY <2>5
<1> HIDE DEF S
<1>3. n \in S
  BY <1>1, <1>2, Induction
<1> QED
  BY <1>3 DEF S

LEMMA SubsetMoreRestores ==
  ASSUME Trees, GrammarOk, NEW C, AllRestore(C), NEW Others, TablesRestore(Others)
  PROVE  TablesRestore(SubsetMore(C, Others))
<1> DEFINE T == SubsetMore(C, Others)
<1>1. ASSUME NEW table \in Seq(Nat), NEW c \in Comps, NEW v \in Vectors
      PROVE  T[table][c][v] = SubsetFrom(C, Others, table, c, v)
  BY DEF SubsetMore
<1> HIDE DEF T
<1>2. ASSUME NEW table, Existing(table), NEW sp \in Spines, NEW c \in Live(sp), NEW v \in Vectors, NEW d \in Nat
      PROVE  Unlinks(T[table][c][v], T[table][ShiftComp(c, d)][v], sp, d)
  <2>1. c \in Comps /\ ShiftComp(c, d) \in Comps
    BY LiveFields
  <2>2. table \in Seq(Nat)
    BY <1>2 DEF Existing
  <2> QED
    BY <1>1, <1>2, <2>1, <2>2, SubsetFromUnlinks
<1>3. TablesRestore(T)
  BY <1>2 DEF TablesRestore, Restores
<1> QED
  BY <1>3 DEF T

LEMMA SubsetUnlinks ==
  ASSUME Trees, GrammarOk, NEW C, AllRestore(C), NEW kids, Existing(kids), NEW sp \in Spines,
         NEW c \in Live(sp), NEW v \in Vectors, NEW d \in Nat
  PROVE  Unlinks(SubsetComplete(C, kids, c, v), SubsetComplete(C, kids, ShiftComp(c, d), v), sp, d)
<1> DEFINE n == Len(kids)
           T == CHOOSE of : of = [k \in 0..n |-> IF k = 0 THEN NothingLeft ELSE SubsetMore(C, of[k - 1])]
<1>0. n \in Nat
  BY DEF Existing
<1>1. /\ SubsetComplete(C, kids, c, v) = T[n][kids][c][v]
      /\ SubsetComplete(C, kids, ShiftComp(c, d), v) = T[n][kids][ShiftComp(c, d)][v]
  BY DEF SubsetComplete
<1> HIDE DEF n
<1>2. T = [k \in 0..n |-> IF k = 0 THEN NothingLeft ELSE SubsetMore(C, T[k - 1])]
  BY <1>0, LeftExists DEF LeftGo
<1> HIDE DEF T
<1> DEFINE S == {k \in 0..n : TablesRestore(T[k])}
<1>3. 0 \in S
  <2>1. T[0] = NothingLeft
    BY <1>0, <1>2
  <2>2. ASSUME NEW table, Existing(table) PROVE Restores(NothingLeft[table])
    <3>1. table \in Seq(Nat)
      BY <2>2 DEF Existing
    <3>2. NothingLeft[table] = NothingElse
      BY <3>1 DEF NothingLeft
    <3> QED
      BY <3>2, NothingElseRestores
  <2> QED
    BY <1>0, <2>1, <2>2 DEF TablesRestore
<1>4. ASSUME NEW k \in 0..(n - 1), k \in S PROVE k + 1 \in S
  <2>1. k + 1 \in 0..n /\ k + 1 # 0 /\ (k + 1) - 1 = k
    BY <1>0
  <2>2. T[k + 1] = SubsetMore(C, T[k])
    BY <1>2, <2>1
  <2>3. TablesRestore(T[k])
    BY <1>4
  <2>4. TablesRestore(T[k + 1])
    BY <2>2, <2>3, SubsetMoreRestores
  <2> QED
    BY <2>1, <2>4
<1> HIDE DEF S
<1>5. n \in S
  BY <1>0, <1>3, <1>4, Induction
<1>6. TablesRestore(T[n])
  BY <1>5 DEF S
<1> QED
  BY <1>1, <1>6 DEF TablesRestore, Restores

-----------------------------------------------------------------------------
\* ec_node_many_complete(): L are the pnodes that the loop linked.

MC(c, children, used, over) == [c |-> c, children |-> children, used |-> used, over |-> over]
After(sp, L) == Under(sp, KidsAt(sp) \o L)
ManyLive(sp) == {m \in ManyComps : \E L \in Seq(Pnodes) : m.children = Len(L) /\ m.c \in Live(After(sp, L))}
ManyDead(sp) == {m \in ManyComps : m.over /\ \E L \in Seq(Pnodes) : m.children = Len(L) /\ m.c \in Dead(After(sp, L))}
ManyShift(m, d) == MC(ShiftComp(m.c, d), m.children, m.used, m.over)
ManyUnlinks(b, q, sp, d) == b \in ManyDead(sp) \/ (b \in ManyLive(sp) /\ q = ManyShift(b, d))

LEMMA MCFields ==
  ASSUME NEW c \in Comps, NEW children \in Nat, NEW used \in Nat, NEW over \in BOOLEAN
  PROVE  /\ MC(c, children, used, over) \in ManyComps /\ MC(c, children, used, over).c = c
         /\ MC(c, children, used, over).children = children /\ MC(c, children, used, over).used = used
         /\ MC(c, children, used, over).over = over
BY DEF MC, ManyComps

LEMMA MCEqual ==
  ASSUME NEW m \in ManyComps, NEW e \in ManyComps, m.c = e.c, m.children = e.children, m.used = e.used, m.over = e.over
  PROVE  m = e
BY DEF ManyComps

\* what the updates of ManyMatched make
HasForms(m, c, k) ==
  /\ m.c \in Comps /\ m.children \in Nat /\ m.used \in Nat /\ m.over \in BOOLEAN
  /\ [m EXCEPT !.c = c, !.over = TRUE] = MC(c, m.children, m.used, TRUE)
  /\ [m EXCEPT !.c = c, !.children = @ + 1, !.over = TRUE] = MC(c, m.children + 1, m.used, TRUE)
  /\ [m EXCEPT !.c = c, !.children = @ + 1, !.used = @ + k] = MC(c, m.children + 1, m.used + k, m.over)
LEMMA MCForms ==
  ASSUME NEW m \in ManyComps, NEW c \in Comps, NEW k \in Nat
  PROVE  HasForms(m, c, k)
<1>1. m.c \in Comps /\ m.children \in Nat /\ m.used \in Nat /\ m.over \in BOOLEAN
  BY DEF ManyComps
<1>2. [m EXCEPT !.c = c, !.over = TRUE] = MC(c, m.children, m.used, TRUE)
  <2> DEFINE x == [m EXCEPT !.c = c, !.over = TRUE]
             y == MC(c, m.children, m.used, TRUE)
  <2>1. x \in ManyComps /\ x.c = c /\ x.children = m.children /\ x.used = m.used /\ x.over = TRUE
    BY DEF ManyComps
  <2>2. y \in ManyComps /\ y.c = c /\ y.children = m.children /\ y.used = m.used /\ y.over = TRUE
    BY <1>1 DEF MC, ManyComps
  <2> HIDE DEF x, y
  <2>3. x = y
    BY <2>1, <2>2, MCEqual
  <2> QED
    BY <2>3 DEF x, y
<1>3. [m EXCEPT !.c = c, !.children = @ + 1, !.over = TRUE] = MC(c, m.children + 1, m.used, TRUE)
  <2> DEFINE x == [m EXCEPT !.c = c, !.children = @ + 1, !.over = TRUE]
             y == MC(c, m.children + 1, m.used, TRUE)
  <2>1. x \in ManyComps /\ x.c = c /\ x.children = m.children + 1 /\ x.used = m.used /\ x.over = TRUE
    <3>1. ASSUME NEW n \in Nat, NEW z, z = [m EXCEPT !.c = c, !.children = n, !.over = TRUE]
          PROVE  z \in ManyComps /\ z.c = c /\ z.children = n /\ z.used = m.used /\ z.over = TRUE
      BY <3>1 DEF ManyComps
    <3>2. m.children + 1 \in Nat
      BY <1>1
    <3> QED
      BY <3>1, <3>2
  <2>2. y \in ManyComps /\ y.c = c /\ y.children = m.children + 1 /\ y.used = m.used /\ y.over = TRUE
    BY <1>1 DEF MC, ManyComps
  <2> HIDE DEF x, y
  <2>3. x = y
    BY <2>1, <2>2, MCEqual
  <2> QED
    BY <2>3 DEF x, y
<1>4. [m EXCEPT !.c = c, !.children = @ + 1, !.used = @ + k] = MC(c, m.children + 1, m.used + k, m.over)
  <2> DEFINE x == [m EXCEPT !.c = c, !.children = @ + 1, !.used = @ + k]
             y == MC(c, m.children + 1, m.used + k, m.over)
  <2>1. x \in ManyComps /\ x.c = c /\ x.children = m.children + 1 /\ x.used = m.used + k /\ x.over = m.over
    <3> DEFINE n == m.children + 1
               u == m.used + k
    <3>2. n \in Nat /\ u \in Nat /\ x = [m EXCEPT !.c = c, !.children = n, !.used = u]
      BY <1>1
    <3> HIDE DEF n, u, x
    <3>3. x \in ManyComps /\ x.c = c /\ x.children = n /\ x.used = u /\ x.over = m.over
      BY <3>2 DEF ManyComps
    <3> QED
      BY <3>3 DEF n, u
  <2>2. y \in ManyComps /\ y.c = c /\ y.children = m.children + 1 /\ y.used = m.used + k /\ y.over = m.over
    <3>1. m.children + 1 \in Nat /\ m.used + k \in Nat
      BY <1>1
    <3> QED
      BY <1>1, <3>1, MCFields
  <2> HIDE DEF x, y
  <2>3. x = y
    BY <2>1, <2>2, MCEqual
  <2> QED
    BY <2>3 DEF x, y
<1> QED
  BY ONLY <1>1, <1>2, <1>3, <1>4 DEF HasForms

LEMMA AfterTyped ==
  ASSUME Trees, NEW sp \in Spines, NEW L \in Seq(Pnodes)
  PROVE  /\ After(sp, L) \in Spines /\ KidsAt(After(sp, L)) = KidsAt(sp) \o L /\ After(sp, <<>>) = sp
         /\ Under(After(sp, L), KidsAt(sp)) = sp
         /\ \A kid \in Pnodes : Grown(After(sp, L), kid) = After(sp, Append(L, kid))
<1> DEFINE K == KidsAt(sp)
<1>1. K \in Seq(Pnodes)
  BY KidsTyped
<1> HIDE DEF K
<1>2. K \o L \in Seq(Pnodes) /\ K \o <<>> = K
  BY <1>1
<1>3. Under(sp, K) = sp
  BY <1>1, UnderTyped DEF K
<1>4. ASSUME NEW kids \in Seq(Pnodes), NEW more \in Seq(Pnodes)
      PROVE  /\ Under(sp, kids) \in Spines /\ KidsAt(Under(sp, kids)) = kids
             /\ Under(Under(sp, kids), more) = Under(sp, more)
  BY <1>4, UnderTyped
<1>5. ASSUME NEW kid \in Pnodes PROVE Grown(After(sp, L), kid) = After(sp, Append(L, kid))
  <2>1. Append(K \o L, kid) = K \o Append(L, kid) /\ Append(K \o L, kid) \in Seq(Pnodes)
    BY <1>1
  <2>2. Grown(After(sp, L), kid) = Under(Under(sp, K \o L), Append(K \o L, kid))
    BY <1>2, <1>4 DEF Grown, After, K
  <2>3. Grown(After(sp, L), kid) = Under(sp, Append(K \o L, kid))
    BY <1>2, <1>4, <2>1, <2>2
  <2> QED
    BY <2>1, <2>3 DEF After, K
<1> QED
  BY <1>1, <1>2, <1>3, <1>4, <1>5 DEF After, K

LEMMA ManyBuilt ==
  ASSUME NEW sp, NEW L \in Seq(Pnodes), NEW used \in Nat, NEW d \in Nat, NEW c, NEW n, n = Len(L)
  PROVE  /\ c \in Dead(After(sp, L)) => MC(c, n, used, TRUE) \in ManyDead(sp)
         /\ c \in Live(After(sp, L)) =>
              \A over \in BOOLEAN : ManyUnlinks(MC(c, n, used, over), MC(ShiftComp(c, d), n, used, over), sp, d)
<1> DEFINE s == After(sp, L)
<1>0. n \in Nat /\ TRUE \in BOOLEAN
  OBVIOUS
<1>1. ASSUME c \in Dead(s) PROVE MC(c, n, used, TRUE) \in ManyDead(sp)
  <2>0. PICK over \in BOOLEAN : over = TRUE
    OBVIOUS
  <2> DEFINE m == MC(c, n, used, over)
  <2>1. c \in Comps
    BY <1>1 DEF Dead
  <2>2. m \in ManyComps /\ m.c = c /\ m.children = n /\ m.over
    <3>1. m \in ManyComps /\ m.c = c /\ m.children = n
      BY <1>0, <2>1, MCFields
    <3>2. m.over = over
      BY <1>0, <2>1, MCFields
    <3> HIDE DEF m
    <3> QED
      BY <2>0, <3>1, <3>2
  <2> HIDE DEF m, s
  <2> QED
    <3>1. m \in ManyDead(sp)
      BY <1>1, <2>2 DEF ManyDead, s
    <3> QED
      BY <2>0, <3>1 DEF m
<1>2. ASSUME c \in Live(s), NEW over \in BOOLEAN
      PROVE  ManyUnlinks(MC(c, n, used, over), MC(ShiftComp(c, d), n, used, over), sp, d)
  <2> DEFINE m == MC(c, n, used, over)
  <2>1. c \in Comps
    BY <1>2 DEF Live
  <2>2. m \in ManyComps /\ m.c = c /\ m.children = n /\ m.used = used /\ m.over = over
    BY <1>0, <2>1, MCFields
  <2> HIDE DEF m, s
  <2>3. m \in ManyLive(sp)
    BY <1>2, <2>2 DEF ManyLive, s
  <2>4. MC(ShiftComp(c, d), n, used, over) = ManyShift(m, d)
    BY <2>2 DEF ManyShift
  <2> QED
    BY <2>3, <2>4 DEF ManyUnlinks, m
<1> QED
  BY <1>1, <1>2

LEMMA ManyMatchedUnlinks ==
  ASSUME Trees, NEW node, NEW sp \in Spines, NEW L \in Seq(Pnodes), NEW d \in Nat,
         NEW m \in ManyComps, m.children = Len(L), ~m.over, NEW e \in ManyComps, e.children = m.children, e.used = m.used,
         ~e.over, NEW c \in Live(After(sp, L)), NEW p, NEW q, Links(p, q, After(sp, L), d)
  PROVE  ManyUnlinks(ManyMatched(node, m, c, p), ManyMatched(node, e, ShiftComp(c, d), q), sp, d)
<1> DEFINE x == p.st
           s == After(sp, L)
           n == Len(L)
           u == m.used
<1>1. /\ x \in States /\ p.ret \in Nat \cup {Fail}
      /\ p.ret \in {Fail, NoMatch} => x.spine = s
      /\ p.ret \notin {Fail, NoMatch} => \E kid \in Pnodes : x.spine = Grown(s, kid)
      /\ p.ret # Fail => x.mem \in Nat /\ q.ret = p.ret /\ q.st = Shift(x, d)
  BY DEF Links
<1>2. Fail # NoMatch /\ 0 # Fail /\ 0 # NoMatch
  BY DEF Fail, NoMatch
<1>3. m.children = n /\ m.over = FALSE /\ e.children = n /\ e.used = u /\ e.over = FALSE /\ n \in Nat /\ u \in Nat
  BY DEF ManyComps
<1>4. ASSUME NEW y \in Comps, NEW k \in Nat
      PROVE  /\ [m EXCEPT !.c = y, !.over = TRUE] = MC(y, n, u, TRUE)
             /\ [e EXCEPT !.c = y, !.over = TRUE] = MC(y, n, u, TRUE)
             /\ [m EXCEPT !.c = y, !.children = @ + 1, !.over = TRUE] = MC(y, n + 1, u, TRUE)
             /\ [e EXCEPT !.c = y, !.children = @ + 1, !.over = TRUE] = MC(y, n + 1, u, TRUE)
             /\ [m EXCEPT !.c = y, !.children = @ + 1, !.used = @ + k] = MC(y, n + 1, u + k, FALSE)
             /\ [e EXCEPT !.c = y, !.children = @ + 1, !.used = @ + k] = MC(y, n + 1, u + k, FALSE)
  <2>1. ASSUME NEW r \in ManyComps, r.children = n, r.used = u, r.over = FALSE
        PROVE  /\ [r EXCEPT !.c = y, !.over = TRUE] = MC(y, n, u, TRUE)
               /\ [r EXCEPT !.c = y, !.children = @ + 1, !.over = TRUE] = MC(y, n + 1, u, TRUE)
               /\ [r EXCEPT !.c = y, !.children = @ + 1, !.used = @ + k] = MC(y, n + 1, u + k, FALSE)
    <3> HIDE DEF n, u
    <3>1. /\ [r EXCEPT !.c = y, !.over = TRUE] = MC(y, r.children, r.used, TRUE)
          /\ [r EXCEPT !.c = y, !.children = @ + 1, !.over = TRUE] = MC(y, r.children + 1, r.used, TRUE)
          /\ [r EXCEPT !.c = y, !.children = @ + 1, !.used = @ + k] = MC(y, r.children + 1, r.used + k, r.over)
      <4>1. HasForms(r, y, k)
        BY MCForms
      <4> QED
        BY ONLY <4>1 DEF HasForms
    <3> QED
      BY <2>1, <3>1
  <2> HIDE DEF n, u
  <2> QED
    BY <1>3, <2>1
<1>8. ASSUME NEW y \in States
      PROVE  /\ CompOn(c, y) \in Comps /\ CompFails(CompOn(c, y)) \in Comps /\ CompAllocFails(CompOn(c, y)) \in Comps
             /\ CompOn(ShiftComp(c, d), y) \in Comps
  <2>1. c \in Comps /\ ShiftComp(c, d) \in Comps
    BY LiveFields
  <2>2. CompOn(c, y) \in Comps /\ CompOn(c, y).st = y /\ CompOn(ShiftComp(c, d), y) \in Comps
    BY <2>1, CompOnTyped
  <2>3. Alloc(y) \in States
    BY AllocPlain
  <2> QED
    BY <2>2, <2>3, CompOnTyped, CompFailsTyped DEF CompAllocFails
<1> HIDE DEF s, n, u
<1>5. CASE p.ret = Fail
  <2>1. ManyMatched(node, m, c, p) = MC(CompFails(CompOn(c, x)), n, u, TRUE)
    BY <1>1, <1>2, <1>4, <1>5, <1>8 DEF ManyMatched
  <2> HIDE DEF x
  <2>2. CompFails(CompOn(c, x)) \in Dead(s)
    BY <1>1, <1>5, LiveOn DEF s
  <2>3. ManyMatched(node, m, c, p) \in ManyDead(sp)
    BY <1>3, <2>1, <2>2, ManyBuilt DEF s, n
  <2> QED
    BY <2>3 DEF ManyUnlinks
<1>6. CASE p.ret = NoMatch
  <2>0. q.ret = NoMatch /\ q.st = Shift(x, d) /\ x.mem \in Nat /\ x.spine = s
    BY <1>1, <1>2, <1>6
  <2>1. /\ ManyMatched(node, m, c, p) = MC(CompOn(c, x), n, u, TRUE)
        /\ ManyMatched(node, e, ShiftComp(c, d), q) = MC(CompOn(ShiftComp(c, d), Shift(x, d)), n, u, TRUE)
    <3>1. Shift(x, d) \in States
      BY <1>1, ShiftTyped
    <3> QED
      BY <1>1, <1>2, <1>4, <1>6, <1>8, <2>0, <3>1 DEF ManyMatched
  <2> HIDE DEF x
  <2>2. CompOn(c, x) \in Live(s) /\ CompOn(ShiftComp(c, d), Shift(x, d)) = ShiftComp(CompOn(c, x), d)
    BY <1>1, <2>0, LiveOn DEF s
  <2> QED
    BY <1>3, <2>1, <2>2, ManyBuilt DEF s, n
<1>7. CASE p.ret \notin {Fail, NoMatch}
  <2>0. q.ret = p.ret /\ q.st = Shift(x, d) /\ x.mem \in Nat /\ p.ret \in Nat
    BY <1>1, <1>7
  <2>1. PICK kid \in Pnodes : x.spine = Grown(s, kid)
    BY <1>1, <1>7
  <2> DEFINE M == Append(L, kid)
             t == After(sp, M)
  <2>2. x.spine = t
    BY <2>1, AfterTyped DEF s
  <2>3. M \in Seq(Pnodes) /\ n + 1 = Len(M)
    BY DEF n
  <2> HIDE DEF M, t
  <2>4. CASE p.ret = 0 /\ node.max = 0
    <3>1. /\ ManyMatched(node, m, c, p) = MC(CompOn(c, x), n + 1, u, TRUE)
          /\ ManyMatched(node, e, ShiftComp(c, d), q) = MC(CompOn(ShiftComp(c, d), Shift(x, d)), n + 1, u, TRUE)
      <4>1. Shift(x, d) \in States
        BY <1>1, ShiftTyped
      <4> QED
        BY <1>1, <1>2, <1>4, <1>7, <1>8, <2>0, <2>4, <4>1 DEF ManyMatched
    <3> HIDE DEF x
    <3>2. CompOn(c, x) \in Live(t) /\ CompOn(ShiftComp(c, d), Shift(x, d)) = ShiftComp(CompOn(c, x), d)
      BY <1>1, <2>0, <2>2, LiveOn DEF s
    <3> QED
      BY <1>3, <2>3, <3>1, <3>2, ManyBuilt DEF t
  <2>5. CASE ~(p.ret = 0 /\ node.max = 0) /\ x.mem = 0
    <3>1. ManyMatched(node, m, c, p) = MC(CompAllocFails(CompOn(c, x)), n + 1, u, TRUE)
      BY <1>1, <1>4, <1>7, <1>8, <2>0, <2>5 DEF ManyMatched
    <3> HIDE DEF x
    <3>2. CompOn(c, x) \in Live(t)
      BY <1>1, <2>0, <2>2, LiveOn DEF s
    <3>3. CompAllocFails(CompOn(c, x)) \in Dead(t)
      BY <3>2, LiveAllocFails
    <3>4. ManyMatched(node, m, c, p) \in ManyDead(sp)
      BY <1>3, <2>3, <3>1, <3>3, ManyBuilt DEF t
    <3> QED
      BY <3>4 DEF ManyUnlinks
  <2>6. CASE ~(p.ret = 0 /\ node.max = 0) /\ x.mem # 0
    <3> DEFINE a == Alloc(x)
    <3>1. q.st.mem # 0
      <4>1. q.st.mem = x.mem + d
        BY <1>1, <2>0, ShiftTyped
      <4> QED
        BY <2>0, <2>6, <4>1
    <3>2. /\ ManyMatched(node, m, c, p) = MC(CompOn(c, a), n + 1, u + p.ret, FALSE)
          /\ ManyMatched(node, e, ShiftComp(c, d), q) = MC(CompOn(ShiftComp(c, d), Alloc(Shift(x, d))), n + 1, u + p.ret, FALSE)
      <4>1. a \in States /\ Shift(x, d) \in States /\ Alloc(Shift(x, d)) \in States
        BY <1>1, ShiftTyped, AllocPlain
      <4>2. CompOn(c, a) \in Comps /\ CompOn(ShiftComp(c, d), Alloc(Shift(x, d))) \in Comps
        BY <1>8, <4>1
      <4> DEFINE b == CompOn(ShiftComp(c, d), Alloc(Shift(x, d)))
      <4>3. ManyMatched(node, m, c, p) = MC(CompOn(c, a), n + 1, u + p.ret, FALSE)
        <5>1. ManyMatched(node, m, c, p) = [m EXCEPT !.c = CompOn(c, a), !.children = @ + 1, !.used = @ + p.ret]
          BY <1>7, <2>6 DEF ManyMatched
        <5> QED
          BY <1>4, <2>0, <4>2, <5>1
      <4>4. ManyMatched(node, e, ShiftComp(c, d), q) = MC(b, n + 1, u + p.ret, FALSE)
        <5>1. ManyMatched(node, e, ShiftComp(c, d), q) = [e EXCEPT !.c = b, !.children = @ + 1, !.used = @ + p.ret]
          BY <1>7, <2>0, <2>6, <3>1 DEF ManyMatched
        <5> QED
          BY <1>4, <2>0, <4>2, <5>1
      <4> QED
        BY <4>3, <4>4
    <3> HIDE DEF x
    <3>3. a \in States /\ a.spine = t /\ a.mem \in Nat /\ Alloc(Shift(x, d)) = Shift(a, d)
      <4>1. a \in States /\ a.spine = x.spine /\ a.mem = x.mem - 1 /\ Alloc(Shift(x, d)) = Shift(a, d)
        BY <1>1, AllocPlain
      <4> QED
        BY <2>0, <2>2, <2>6, <4>1
    <3> HIDE DEF a
    <3>4. CompOn(c, a) \in Live(t) /\ CompOn(ShiftComp(c, d), Shift(a, d)) = ShiftComp(CompOn(c, a), d)
      BY <3>3, LiveOn DEF s
    <3>5. u + p.ret \in Nat /\ FALSE \in BOOLEAN
      BY <1>3, <2>0
    <3> QED
      BY <2>3, <3>2, <3>3, <3>4, <3>5, ManyBuilt DEF t
  <2> QED
    BY <2>4, <2>5, <2>6
<1> QED
  BY <1>5, <1>6, <1>7

LEMMA ManyTryUnlinks ==
  ASSUME Trees, GrammarOk, NEW C, AllRestore(C), NEW node, node.kids[1] \in DOMAIN nodes,
         NEW sp \in Spines, NEW m \in ManyLive(sp), NEW v \in Vectors, NEW d \in Nat
  PROVE  ManyUnlinks(ManyTry(C, node, m, v), ManyTry(C, node, ManyShift(m, d), v), sp, d)
<1> DEFINE e == ManyShift(m, d)
           k == node.kids[1]
           w == Rest(v, m.used)
           u == m.used
<1>1. PICK L \in Seq(Pnodes) : m.children = Len(L) /\ m.c \in Live(After(sp, L))
  BY DEF ManyLive
<1> DEFINE s == After(sp, L)
           n == Len(L)
<1>2. m \in ManyComps /\ m.c \in Comps /\ m.children \in Nat /\ u \in Nat /\ m.over \in BOOLEAN
  BY DEF ManyLive, ManyComps
<1>3. /\ e \in ManyComps /\ e.c = ShiftComp(m.c, d) /\ e.children = m.children /\ e.used = u
      /\ e.over = m.over
  <2>1. ShiftComp(m.c, d) \in Comps
    BY <1>1, LiveFields
  <2> QED
    BY <1>2, <2>1, MCFields DEF ManyShift
<1>4. w \in Vectors /\ s \in Spines
  BY <1>2, RestTyped, AfterTyped
<1> HIDE DEF e, w
<1>5. CASE m.over
  <2>1. ManyTry(C, node, m, v) = m /\ ManyTry(C, node, e, v) = e
    BY <1>3, <1>5 DEF ManyTry
  <2> QED
    BY <2>1 DEF ManyUnlinks, e
<1>6. CASE ~m.over
  <2> DEFINE b == CompleteChild(C, k, m.c, w)
             q == CompleteChild(C, k, e.c, w)
  <2>1. ManyTry(C, node, m, v) = ManyCompleted(node, m, b, w) /\ ManyTry(C, node, e, v) = ManyCompleted(node, e, q, w)
    BY <1>3, <1>6 DEF ManyTry, w
  <2>2. Unlinks(b, q, s, d)
    <3>1. s \in Seq(Pnodes)
      BY <1>4 DEF Spines
    <3> HIDE DEF s
    <3> QED
      BY <1>1, <1>3, <1>4, <3>1, ChildUnlinks DEF s
  <2> HIDE DEF b, q
  <2>3. ASSUME NEW r \in ManyComps, r.children = n, r.used = u, NEW y \in Comps
        PROVE  [r EXCEPT !.c = y, !.over = TRUE] = MC(y, n, u, TRUE)
    <3> HIDE DEF n, u
    <3>1. HasForms(r, y, 0)
      <4>1. 0 \in Nat
        OBVIOUS
      <4> QED
        BY <4>1, MCForms
    <3>2. [r EXCEPT !.c = y, !.over = TRUE] = MC(y, r.children, r.used, TRUE)
      BY <3>1 DEF HasForms
    <3> QED
      BY <2>3, <3>2
  <2>4. CASE b \in Dead(s)
    <3>1. b \in Comps /\ b.fails
      BY <2>4, DeadFields
    <3>2. ManyCompleted(node, m, b, w) = [m EXCEPT !.c = b, !.over = TRUE]
      BY <3>1 DEF ManyCompleted
    <3>3. ManyCompleted(node, m, b, w) = MC(b, n, u, TRUE)
      BY <1>1, <1>2, <2>3, <3>1, <3>2
    <3>4. ManyCompleted(node, m, b, w) \in ManyDead(sp)
      <4> HIDE DEF n, u
      <4>1. MC(b, n, u, TRUE) \in ManyDead(sp)
        BY <1>2, <2>4, ManyBuilt DEF n
      <4> QED
        BY <3>3, <4>1
    <3> QED
      BY <2>1, <3>4 DEF ManyUnlinks, e
  <2>5. CASE b \in Live(s) /\ q = ShiftComp(b, d)
    <3>1. /\ b \in Comps /\ ~b.fails /\ b.st \in States /\ b.st.spine = s /\ b.st.mem \in Nat
          /\ q \in Comps /\ ~q.fails /\ q.st = Shift(b.st, d)
      <4>0. b \in Live(s) /\ q = ShiftComp(b, d)
        BY <2>5
      <4> HIDE DEF s
      <4>1. b \in Comps /\ ~b.fails /\ b.st \in States /\ b.st.spine = s /\ b.st.mem \in Nat
        BY <4>0, LiveFields
      <4>2. ShiftComp(b, d) \in Comps /\ ~ShiftComp(b, d).fails /\ ShiftComp(b, d).st = Shift(b.st, d)
        BY <4>0, LiveFields
      <4> QED
        BY <4>0, <4>1, <4>2
    <3>2. CASE m.children + 1 = node.max
      <4>1. /\ ManyCompleted(node, m, b, w) = [m EXCEPT !.c = b, !.over = TRUE]
            /\ ManyCompleted(node, e, q, w) = [e EXCEPT !.c = q, !.over = TRUE]
        BY <1>3, <3>2 DEF ManyCompleted
      <4>2. ManyCompleted(node, m, b, w) = MC(b, n, u, TRUE) /\ ManyCompleted(node, e, q, w) = MC(q, n, u, TRUE)
        BY <1>1, <1>2, <1>3, <2>3, <3>1, <4>1
      <4>3. ManyUnlinks(MC(b, n, u, TRUE), MC(ShiftComp(b, d), n, u, TRUE), sp, d)
        <5> HIDE DEF n, u
        <5>1. TRUE \in BOOLEAN /\ b \in Live(After(sp, L)) /\ n = Len(L)
          BY <2>5 DEF n
        <5> QED
          BY <1>2, <5>1, ManyBuilt
      <4> QED
        BY <2>1, <2>5, <4>2, <4>3 DEF e
    <3>3. CASE m.children + 1 # node.max
      <4> DEFINE x == b.st
                 p == ParseHere(k, x, w)
                 r == ParseHere(k, Shift(x, d), w)
      <4>1. /\ ManyCompleted(node, m, b, w) = ManyMatched(node, m, b, p)
            /\ ManyCompleted(node, e, q, w) = ManyMatched(node, e, q, r)
        BY <1>3, <3>1, <3>3 DEF ManyCompleted
      <4> HIDE DEF x
      <4>2. Links(p, r, s, d)
        <5> HIDE DEF s
        <5>1. x \in States /\ x.spine = s /\ x.mem \in Nat
          BY <3>1 DEF x
        <5> QED
          BY <1>4, <5>1, ParseHereLinks
      <4> HIDE DEF p, r
      <4>3. ManyUnlinks(ManyMatched(node, m, b, p), ManyMatched(node, e, ShiftComp(b, d), r), sp, d)
        BY <1>1, <1>2, <1>3, <1>6, <2>5, <4>2, ManyMatchedUnlinks
      <4> QED
        BY <2>1, <2>5, <4>1, <4>3 DEF e
    <3> QED
      BY <3>2, <3>3
  <2> QED
    BY <2>2, <2>4, <2>5 DEF Unlinks
<1> QED
  BY <1>5, <1>6

\* the end label of the callback
LEMMA DelChildrenTyped ==
  ASSUME Trees, NEW sp \in Spines, NEW L \in Seq(Pnodes), NEW st \in States, st.spine = After(sp, L), NEW d \in Nat,
         NEW n, n = Len(L)
  PROVE  /\ DelChildren(st, n) \in States /\ DelChildren(st, n).spine = sp /\ DelChildren(st, n).mem = st.mem
         /\ DelChildren(Shift(st, d), n) = Shift(DelChildren(st, n), d)
<1> DEFINE K == KidsAt(sp)
           s == After(sp, L)
<1>1. K \in Seq(Pnodes) /\ K \o L \in Seq(Pnodes)
  BY KidsTyped
<1>2. s \in Spines /\ KidsAt(s) = K \o L /\ Under(s, K) = sp
  BY AfterTyped
<1> HIDE DEF K, s
<1>3. Pstate(st).kids = K \o L /\ st \in Started
  BY <1>2, SpineFields DEF s
<1>4. Pstate(Shift(st, d)) = Pstate(st)
  BY <1>3, ShiftTyped
<1>5. SubSeq(K \o L, 1, Len(K \o L) - n) = K
  <2>1. Len(K \o L) - n = Len(K) /\ Len(K) \in Nat
    BY <1>1
  <2>2. SubSeq(K \o L, 1, Len(K)) = K
    BY <1>1
  <2> QED
    BY <2>1, <2>2
<1>6. DelChildren(st, n) = OnPstate(st, K) /\ DelChildren(Shift(st, d), n) = OnPstate(Shift(st, d), K)
  BY <1>3, <1>4, <1>5 DEF DelChildren
<1> QED
  BY <1>1, <1>2, <1>6, OnUnder DEF s

LEMMA ManyFromUnlinks ==
  ASSUME Trees, GrammarOk, NEW C, AllRestore(C), NEW node, node.kids[1] \in DOMAIN nodes, node.max \in Nat,
         NEW sp \in Spines, NEW c \in Live(sp), NEW v \in Vectors, NEW d \in Nat
  PROVE  Unlinks(ManyFrom(C, node, c, v), ManyFrom(C, node, ShiftComp(c, d), v), sp, d)
<1> DEFINE n == Rounds(node, v)
           step == [i \in 1..n |-> [m \in ManyComps |-> ManyTry(C, node, m, v)]]
           first == MC(c, 0, 0, FALSE)
           other == MC(ShiftComp(c, d), 0, 0, FALSE)
           shift == [m \in ManyLive(sp) |-> ManyShift(m, d)]
           X == ManyLive(sp)
           F == ManyDead(sp)
           a == Loop(step, first, n)
           b == Loop(step, other, n)
<1>0. n \in Nat
  BY VectorLen DEF Rounds
<1>1. first \in X /\ shift[first] = other
  <2> DEFINE L == <<>>
  <2>1. L \in Seq(Pnodes) /\ Len(L) = 0 /\ After(sp, L) = sp
    <3>1. <<>> \in Seq(Pnodes)
      OBVIOUS
    <3> QED
      BY <3>1, AfterTyped
  <2> HIDE DEF L
  <2>2. c \in Comps /\ 0 \in Nat
    BY DEF Live
  <2>3. PICK over \in BOOLEAN : over = FALSE
    OBVIOUS
  <2>4. MC(c, 0, 0, over) \in ManyComps /\ MC(c, 0, 0, over).c = c /\ MC(c, 0, 0, over).children = 0
        /\ MC(c, 0, 0, over).used = 0
    BY <2>2, MCFields
  <2>6. MC(c, 0, 0, over).over = over
    BY <2>2, MCFields
  <2>5. MC(c, 0, 0, over) \in X
    BY <2>1, <2>4 DEF ManyLive
  <2>7. ManyShift(MC(c, 0, 0, over), d) = MC(ShiftComp(c, d), 0, 0, over)
    BY <2>4, <2>6 DEF ManyShift
  <2> QED
    BY <2>3, <2>5, <2>7
<1>2. Corresponds(step, n, X, F, shift)
  <2>1. ASSUME NEW i \in 1..n, NEW m \in X
        PROVE  step[i][m] \in F \/ (step[i][m] \in X /\ step[i][shift[m]] = shift[step[i][m]])
    <3>1. m \in ManyComps /\ ManyShift(m, d) \in ManyComps /\ shift[m] = ManyShift(m, d)
      <4>1. m \in ManyComps /\ m.c \in Comps /\ m.children \in Nat /\ m.used \in Nat /\ m.over \in BOOLEAN
        BY DEF ManyLive, ManyComps
      <4>2. PICK L \in Seq(Pnodes) : m.c \in Live(After(sp, L))
        BY DEF ManyLive
      <4>3. ShiftComp(m.c, d) \in Comps
        BY <4>2, LiveFields
      <4> QED
        BY <4>1, <4>3, MCFields DEF ManyShift
    <3>2. step[i][m] = ManyTry(C, node, m, v) /\ step[i][shift[m]] = ManyTry(C, node, ManyShift(m, d), v)
      BY <3>1
    <3>3. ManyUnlinks(ManyTry(C, node, m, v), ManyTry(C, node, ManyShift(m, d), v), sp, d)
      BY ManyTryUnlinks
    <3> HIDE DEF step
    <3> QED
      BY <3>2, <3>3 DEF ManyUnlinks
  <2>2. ASSUME NEW i \in 1..n, NEW m \in F PROVE step[i][m] \in F
    <3>1. m \in ManyComps /\ m.over
      BY DEF ManyDead
    <3>2. step[i][m] = m
      BY <3>1 DEF ManyTry
    <3> QED
      BY <3>2
  <2> HIDE DEF step, shift, X, F
  <2> QED
    BY <2>1, <2>2 DEF Corresponds
<1>3. /\ ManyFrom(C, node, c, v) = CompOn(a.c, DelChildren(a.c.st, a.children))
      /\ ManyFrom(C, node, ShiftComp(c, d), v) = CompOn(b.c, DelChildren(b.c.st, b.children))
  BY DEF ManyFrom, MC
<1>4. ManyUnlinks(a, b, sp, d)
  <2> HIDE DEF step, n, first, other
  <2>1. a \in F \/ (a \in X /\ Loop(step, shift[first], n) = shift[a])
    <3> HIDE DEF shift, X, F
    <3> QED
      BY <1>0, <1>1, <1>2, LoopAgrees
  <2>2. a \in F \/ (a \in X /\ b = shift[a])
    BY <1>1, <2>1
  <2> HIDE DEF a, b
  <2> QED
    BY <2>2 DEF ManyUnlinks
<1> HIDE DEF a, b
<1>5. CASE a \in ManyDead(sp)
  <2>1. PICK L \in Seq(Pnodes) : a.children = Len(L) /\ a.c \in Dead(After(sp, L))
    BY <1>5 DEF ManyDead
  <2> DEFINE y == a.c
             x == y.st
             z == DelChildren(x, a.children)
  <2>2. y \in Comps /\ x \in States /\ x.spine = After(sp, L) /\ ~y.dirty /\ y.fails
    <3> HIDE DEF y
    <3>1. y \in Dead(After(sp, L))
      BY <2>1 DEF y
    <3> QED
      BY <3>1, DeadFields
  <2> HIDE DEF x
  <2>3. z \in States /\ z.spine = sp
    BY <2>1, <2>2, DelChildrenTyped
  <2>4. ManyFrom(C, node, c, v) = CompOn(y, z)
    BY <1>3 DEF x
  <2> HIDE DEF y, z
  <2>5. CompOn(y, z) \in Comps /\ CompOn(y, z).st = z /\ ~CompOn(y, z).dirty /\ CompOn(y, z).fails
    BY <2>2, <2>3, CompOnTyped
  <2>6. CompOn(y, z) \in Dead(sp)
    BY <2>3, <2>5 DEF Dead
  <2> QED
    BY <2>4, <2>6 DEF Unlinks
<1>6. CASE a \in ManyLive(sp) /\ b = ManyShift(a, d)
  <2>1. PICK L \in Seq(Pnodes) : a.children = Len(L) /\ a.c \in Live(After(sp, L))
    BY <1>6 DEF ManyLive
  <2> DEFINE y == a.c
             x == y.st
             k == a.children
             z == DelChildren(x, k)
  <2>2. b.c = ShiftComp(y, d) /\ b.children = k
    BY <1>6 DEF ManyShift, MC
  <2>3. y \in Live(After(sp, L)) /\ x \in States /\ x.spine = After(sp, L) /\ x.mem \in Nat /\ ShiftComp(y, d).st = Shift(x, d)
    <3> HIDE DEF y
    <3>1. y \in Live(After(sp, L))
      BY <2>1 DEF y
    <3> QED
      BY <3>1, LiveFields
  <2>4. /\ ManyFrom(C, node, c, v) = CompOn(y, z)
        /\ ManyFrom(C, node, ShiftComp(c, d), v) = CompOn(ShiftComp(y, d), DelChildren(Shift(x, d), k))
    BY <1>3, <2>2, <2>3
  <2> HIDE DEF x, y
  <2>5. z \in States /\ z.spine = sp /\ z.mem \in Nat /\ DelChildren(Shift(x, d), k) = Shift(z, d)
    BY <2>1, <2>3, DelChildrenTyped
  <2> HIDE DEF z
  <2>6. CompOn(y, z) \in Live(sp) /\ CompOn(ShiftComp(y, d), Shift(z, d)) = ShiftComp(CompOn(y, z), d)
    BY <2>3, <2>5, LiveOn
  <2> QED
    BY <2>4, <2>5, <2>6 DEF Unlinks
<1> QED
  BY <1>4, <1>5, <1>6 DEF ManyUnlinks

LEMMA ManyNodeUnlinks ==
  ASSUME Trees, GrammarOk, NEW C, AllRestore(C), NEW node, node.kids[1] \in DOMAIN nodes, node.max \in Nat,
         NEW sp \in Spines, NEW c \in Live(sp), NEW v \in Vectors, NEW d \in Nat
  PROVE  Unlinks(ManyComplete(C, node, c, v), ManyComplete(C, node, ShiftComp(c, d), v), sp, d)
<1> DEFINE x == c.st
<1>1. /\ x \in States /\ x.spine = sp /\ x.mem \in Nat
      /\ ShiftComp(c, d).st = Shift(x, d) /\ Shift(x, d).mem = x.mem + d
  BY LiveFields
<1>2. CASE x.mem = 0
  BY <1>2, LiveAllocFails DEF ManyComplete, Unlinks
<1>3. CASE x.mem # 0
  <2> DEFINE a == Alloc(x)
  <2>1. /\ ManyComplete(C, node, c, v) = ManyFrom(C, node, CompOn(c, a), v)
        /\ ManyComplete(C, node, ShiftComp(c, d), v) = ManyFrom(C, node, CompOn(ShiftComp(c, d), Alloc(Shift(x, d))), v)
    <3>1. Shift(x, d).mem # 0
      BY <1>1, <1>3
    <3> QED
      BY <1>1, <1>3, <3>1 DEF ManyComplete
  <2> HIDE DEF x
  <2>2. a \in States /\ a.spine = sp /\ a.mem \in Nat /\ Alloc(Shift(x, d)) = Shift(a, d)
    <3>1. a \in States /\ a.spine = sp /\ a.mem = x.mem - 1 /\ Alloc(Shift(x, d)) = Shift(a, d)
      BY <1>1, AllocPlain
    <3> QED
      BY <1>1, <1>3, <3>1
  <2> HIDE DEF a
  <2>3. CompOn(c, a) \in Live(sp) /\ CompOn(ShiftComp(c, d), Shift(a, d)) = ShiftComp(CompOn(c, a), d)
    BY <2>2, LiveOn
  <2> DEFINE y == CompOn(c, a)
  <2> HIDE DEF y
  <2>4. Unlinks(ManyFrom(C, node, y, v), ManyFrom(C, node, ShiftComp(y, d), v), sp, d)
    BY <2>3, ManyFromUnlinks DEF y
  <2> QED
    BY <2>1, <2>2, <2>3, <2>4 DEF y
<1> QED
  BY <1>2, <1>3

-----------------------------------------------------------------------------
\* Every node type, and calls that nest any number of times

LEMMA NodeUnlinks ==
  ASSUME Trees, GrammarOk, NEW C, AllRestore(C), NEW n \in DOMAIN nodes, NEW sp \in Spines,
         NEW c \in Live(sp), NEW v \in Vectors, NEW d \in Nat
  PROVE  Unlinks(CompleteNode(C, n, c, v), CompleteNode(C, n, ShiftComp(c, d), v), sp, d)
<1> DEFINE e == ShiftComp(c, d)
<1>1. /\ nodes[n] \in GrammarNodes /\ Kids(n) = nodes[n].kids /\ Existing(nodes[n].kids) /\ nodes[n].max \in Nat
  BY NodeTyped DEF Existing
<1>2. nodes[n].type \in {"str", "any", "empty", "none"} \cup Unary \cup Nary
  BY <1>1 DEF GrammarNodes
<1>3. CASE nodes[n].type \in {"str", "any", "empty", "none"}
  <2>1. CASE nodes[n].type = "str"
    <3>1. CompleteNode(C, n, c, v) = StrComplete(n, c, v) /\ CompleteNode(C, n, e, v) = StrComplete(n, e, v)
      BY <2>1 DEF CompleteNode
    <3> QED
      BY <3>1, LeafUnlinks
  <2>2. CASE nodes[n].type \in {"any", "empty"}
    <3>1. CompleteNode(C, n, c, v) = CompleteUnknown(n, c, v) /\ CompleteNode(C, n, e, v) = CompleteUnknown(n, e, v)
      BY <2>2 DEF CompleteNode
    <3> QED
      BY <3>1, LeafUnlinks
  <2>3. CASE nodes[n].type = "none"
    <3>1. CompleteNode(C, n, c, v) = NoneComplete(c) /\ CompleteNode(C, n, e, v) = NoneComplete(e)
      BY <2>3 DEF CompleteNode
    <3> QED
      BY <3>1, LeafUnlinks
  <2> QED
    BY <1>3, <2>1, <2>2, <2>3
<1>4. CASE nodes[n].type \in Unary
  <2>1. nodes[n].kids[1] \in DOMAIN nodes
    <3>1. Len(nodes[n].kids) = 1
      BY <1>1, <1>4 DEF GrammarOk
    <3>2. 1 \in DOMAIN nodes[n].kids
      BY <1>1, <3>1 DEF Existing
    <3> QED
      BY <1>1, <3>2 DEF Existing
  <2> DEFINE node == nodes[n]
  <2>2. CASE node.type = "option"
    <3>1. CompleteNode(C, n, c, v) = OptionComplete(C, node, c, v) /\ CompleteNode(C, n, e, v) = OptionComplete(C, node, e, v)
      BY <2>2 DEF CompleteNode
    <3> QED
      BY <2>1, <3>1, UnaryUnlinks
  <2>3. CASE node.type = "once"
    <3>1. CompleteNode(C, n, c, v) = OnceComplete(C, node, c, v) /\ CompleteNode(C, n, e, v) = OnceComplete(C, node, e, v)
      BY <2>3 DEF CompleteNode
    <3> QED
      BY <2>1, <3>1, UnaryUnlinks
  <2>4. CASE node.type = "bypass"
    <3>1. CompleteNode(C, n, c, v) = BypassComplete(C, node, c, v) /\ CompleteNode(C, n, e, v) = BypassComplete(C, node, e, v)
      BY <2>4 DEF CompleteNode
    <3> QED
      BY <2>1, <3>1, UnaryUnlinks
  <2>5. CASE node.type = "many"
    <3>1. CompleteNode(C, n, c, v) = ManyComplete(C, node, c, v) /\ CompleteNode(C, n, e, v) = ManyComplete(C, node, e, v)
      BY <2>5 DEF CompleteNode
    <3> QED
      BY <1>1, <2>1, <3>1, ManyNodeUnlinks
  <2> QED
    BY <1>4, <2>2, <2>3, <2>4, <2>5 DEF Unary
<1>5. CASE nodes[n].type = "seq"
  <2>1. /\ CompleteNode(C, n, c, v) = SeqComplete(C, nodes[n].kids, c, v)
        /\ CompleteNode(C, n, e, v) = SeqComplete(C, nodes[n].kids, e, v)
    BY <1>5 DEF CompleteNode
  <2> QED
    BY <1>1, <2>1, SeqUnlinks
<1>6. CASE nodes[n].type = "or"
  <2>1. /\ CompleteNode(C, n, c, v) = CompleteEach(C, nodes[n].kids, c, v)
        /\ CompleteNode(C, n, e, v) = CompleteEach(C, nodes[n].kids, e, v)
    BY <1>6 DEF CompleteNode
  <2> QED
    BY <1>1, <2>1, EachUnlinks
<1>7. CASE nodes[n].type = "subset"
  <2>1. /\ CompleteNode(C, n, c, v) = SubsetComplete(C, nodes[n].kids, c, v)
        /\ CompleteNode(C, n, e, v) = SubsetComplete(C, nodes[n].kids, e, v)
    BY <1>7 DEF CompleteNode
  <2> QED
    BY <1>1, <2>1, SubsetUnlinks
<1> QED
  BY <1>2, <1>3, <1>4, <1>5, <1>6, <1>7 DEF Nary

LEMMA DeeperRestores ==
  ASSUME Trees, GrammarOk, NEW C, AllRestore(C)
  PROVE  AllRestore(CompleteCallbacks(C))
<1> DEFINE T == CompleteCallbacks(C)
<1>1. ASSUME NEW n \in DOMAIN nodes, NEW c \in Comps, NEW v \in Vectors PROVE T[n][c][v] = CompleteNode(C, n, c, v)
  <2>1. n \in Nat
    BY NodeTyped
  <2> QED
    BY <2>1 DEF CompleteCallbacks
<1> HIDE DEF T
<1>2. ASSUME NEW n \in DOMAIN nodes, NEW sp \in Spines, NEW c \in Live(sp), NEW v \in Vectors, NEW d \in Nat
      PROVE  Unlinks(T[n][c][v], T[n][ShiftComp(c, d)][v], sp, d)
  <2>1. c \in Comps /\ ShiftComp(c, d) \in Comps
    BY LiveFields
  <2> QED
    BY <1>1, <2>1, NodeUnlinks
<1>3. AllRestore(T)
  BY <1>2 DEF AllRestore, Restores
<1> QED
  BY <1>3 DEF T

LEMMA TooDeepRestores ==
  ASSUME GrammarOk
  PROVE  AllRestore(TooDeep)
<1>1. ASSUME NEW n \in DOMAIN nodes, NEW sp \in Spines, NEW c \in Live(sp), NEW v \in Vectors, NEW d \in Nat
      PROVE  Unlinks(TooDeep[n][c][v], TooDeep[n][ShiftComp(c, d)][v], sp, d)
  <2>1. n \in Nat
    BY NodeTyped
  <2>2. c \in Comps /\ c.st.spine = sp /\ ~c.dirty
    BY DEF Live
  <2>3. TooDeep[n][c][v] = CompFails(c)
    BY <2>1, <2>2 DEF TooDeep
  <2>4. CompFails(c) \in Dead(sp)
    BY <2>2, CompFailsTyped DEF Dead
  <2> QED
    BY <2>3, <2>4 DEF Unlinks
<1> QED
  BY <1>1 DEF AllRestore, Restores

CompleteGo(to, n) == to = [d \in 0..n |-> IF d = 0 THEN TooDeep ELSE CompleteCallbacks(to[d - 1])]

LEMMA CompletersExist ==
  ASSUME NEW n \in Nat
  PROVE  \E to : CompleteGo(to, n)
<1> DEFINE S == {m \in 0..n : \E g : CompleteGo(g, m)}
<1>1. 0 \in S
  <2> DEFINE g == [d \in 0..0 |-> TooDeep]
  <2>1. g = [d \in 0..0 |-> IF d = 0 THEN TooDeep ELSE CompleteCallbacks(g[d - 1])]
    OBVIOUS
  <2> HIDE DEF g
  <2>2. CompleteGo(g, 0)
    BY <2>1 DEF CompleteGo
  <2> QED
    BY <2>2
<1>2. ASSUME NEW m \in 0..(n - 1), m \in S PROVE m + 1 \in S
  <2>1. PICK g : CompleteGo(g, m)
    BY <1>2
  <2> DEFINE h == [d \in 0..(m + 1) |-> IF d = m + 1 THEN CompleteCallbacks(g[m]) ELSE g[d]]
  <2>2. ASSUME NEW d \in 0..(m + 1)
        PROVE  h[d] = IF d = 0 THEN TooDeep ELSE CompleteCallbacks(h[d - 1])
    <3>1. CASE d = m + 1
      <4>1. h[d] = CompleteCallbacks(g[m]) /\ h[m] = g[m] /\ d - 1 = m /\ d # 0
        BY <3>1
      <4> HIDE DEF h
      <4> QED
        BY <4>1
    <3>2. CASE d # m + 1
      <4>1. d \in 0..m /\ h[d] = g[d]
        BY <3>2
      <4>2. d # 0 => d - 1 \in 0..m /\ h[d - 1] = g[d - 1]
        BY <3>2
      <4>3. g[d] = IF d = 0 THEN TooDeep ELSE CompleteCallbacks(g[d - 1])
        BY <2>1, <4>1 DEF CompleteGo
      <4> HIDE DEF h
      <4> QED
        BY <4>1, <4>2, <4>3
    <3> QED
      BY <3>1, <3>2
  <2>3. h = [d \in 0..(m + 1) |-> h[d]]
    OBVIOUS
  <2> HIDE DEF h
  <2>4. h = [d \in 0..(m + 1) |-> IF d = 0 THEN TooDeep ELSE CompleteCallbacks(h[d - 1])]
    BY <2>2, <2>3
  <2>5. CompleteGo(h, m + 1)
    BY <2>4 DEF CompleteGo
  <2> QED
    BY <2>5
<1> HIDE DEF S
<1>3. n \in S
  BY <1>1, <1>2, Induction
<1> QED
  BY <1>3 DEF S

LEMMA EngineUnlinks ==
  ASSUME Trees, GrammarOk
  PROVE  AllRestore(CompleteTo[Depth])
<1>0. Depth \in Nat
  BY GrammarAssumption
<1>1. CompleteTo = [d \in 0..Depth |-> IF d = 0 THEN TooDeep ELSE CompleteCallbacks(CompleteTo[d - 1])]
  BY <1>0, CompletersExist DEF CompleteGo, CompleteTo
<1> DEFINE S == {d \in 0..Depth : AllRestore(CompleteTo[d])}
<1>2. 0 \in S
  <2>1. CompleteTo[0] = TooDeep
    BY <1>0, <1>1
  <2> QED
    BY <1>0, <2>1, TooDeepRestores
<1>3. ASSUME NEW d \in 0..(Depth - 1), d \in S PROVE d + 1 \in S
  <2>1. d + 1 \in 0..Depth /\ d + 1 # 0 /\ (d + 1) - 1 = d
    BY <1>0
  <2>2. CompleteTo[d + 1] = CompleteCallbacks(CompleteTo[d])
    BY <1>1, <2>1
  <2>3. AllRestore(CompleteTo[d])
    BY <1>3
  <2>4. AllRestore(CompleteTo[d + 1])
    BY <2>2, <2>3, DeeperRestores
  <2> QED
    BY <2>1, <2>4
<1> HIDE DEF S
<1>4. Depth \in S
  BY <1>0, <1>2, <1>3, Induction
<1>5. AllRestore(CompleteTo[Depth])
  BY <1>4 DEF S
<1> QED
  BY <1>5

-----------------------------------------------------------------------------
\* ec_complete_strvec() and ec_complete_strvec_expand()

Blank(m) == [st |-> State(<<>>, m, {}), items |-> <<>>, dirty |-> FALSE, fails |-> FALSE]

LEMMA BlankLive ==
  ASSUME NEW m \in Nat, NEW d \in Nat
  PROVE  Blank(m) \in Live(<<>>) /\ Blank(m + d) = ShiftComp(Blank(m), d) /\ Blank(m).st.mem = m
<1> DEFINE st == State(<<>>, m, {})
           none == <<>>
<1>1. st \in States /\ st.spine = none /\ st.mem = m /\ Shift(st, d) = State(<<>>, m + d, {})
  <2> DEFINE f == {}
  <2>1. none \in Seq(Pnodes) /\ f \in SUBSET Faults /\ m \in Int /\ st = State(none, m, f)
    OBVIOUS
  <2>2. State(<<>>, m + d, {}) = State(none, m + d, f)
    OBVIOUS
  <2> HIDE DEF st, none, f
  <2>3. State(none, m, f) \in States /\ State(none, m, f).spine = none /\ State(none, m, f).mem = m
    BY <2>1, StateFields
  <2>4. Shift(State(none, m, f), d) = State(none, m + d, f)
    BY DEF Shift, State
  <2> QED
    BY <2>1, <2>2, <2>3, <2>4
<1>2. none \in Seq(CompItems)
  OBVIOUS
<1>3. Blank(m) \in Comps /\ Blank(m).st = st /\ ~Blank(m).dirty /\ ~Blank(m).fails
  <2> HIDE DEF st, none
  <2>1. Blank(m) = [st |-> st, items |-> none, dirty |-> FALSE, fails |-> FALSE]
    BY DEF Blank, st, none
  <2>2. Blank(m) \in Comps
    BY <1>1, <1>2, <2>1 DEF Comps
  <2> QED
    BY <2>1, <2>2
<1>4. Blank(m) \in Live(<<>>)
  <2> HIDE DEF st
  <2> QED
    BY <1>1, <1>3 DEF Live
<1>5. Blank(m + d) = ShiftComp(Blank(m), d)
  <2>1. ShiftComp(Blank(m), d) = [Blank(m) EXCEPT !.st = State(<<>>, m + d, {})]
    BY <1>1, <1>3 DEF ShiftComp, CompOn
  <2> QED
    BY <2>1 DEF Blank
<1> QED
  BY <1>1, <1>3, <1>4, <1>5

LEMMA StrvecUnlinks ==
  ASSUME Trees, GrammarOk, NEW n \in DOMAIN nodes, NEW v \in Vectors, NEW m \in Nat, NEW d \in Nat
  PROVE  Unlinks(CompleteStrvec(n, v, m), CompleteStrvec(n, v, m + d), <<>>, d)
<1> DEFINE C == CompleteTo[Depth]
           none == <<>>
           c == Blank(m)
           x == c.st
<1>1. none \in Seq(Pnodes) /\ AllRestore(C)
  BY EngineUnlinks
<1>2. ASSUME NEW k
      PROVE  CompleteStrvec(n, v, k) = IF k = 0 THEN CompAllocFails(Blank(k))
                                       ELSE CompleteChild(C, n, CompOn(Blank(k), Alloc(Blank(k).st)), v)
  BY DEF CompleteStrvec, Blank, State
<1>3. c \in Live(none) /\ Blank(m + d) = ShiftComp(c, d) /\ x.mem = m
  BY BlankLive
<1> HIDE DEF c, none, C
<1>4. x \in States /\ x.spine = none /\ x.mem \in Nat /\ ShiftComp(c, d).st = Shift(x, d)
  BY <1>3, LiveFields
<1>5. CASE m = 0
  <2>1. CompleteStrvec(n, v, m) = CompAllocFails(c)
    BY <1>2, <1>5 DEF c
  <2>2. CompAllocFails(c) \in Dead(none)
    BY <1>3, LiveAllocFails
  <2> QED
    BY <2>1, <2>2 DEF Unlinks, none
<1>6. CASE m # 0
  <2> DEFINE a == Alloc(x)
             y == CompOn(c, a)
  <2>1. /\ CompleteStrvec(n, v, m) = CompleteChild(C, n, y, v)
        /\ CompleteStrvec(n, v, m + d) = CompleteChild(C, n, CompOn(ShiftComp(c, d), Alloc(Shift(x, d))), v)
    <3>1. m + d # 0
      BY <1>6
    <3>2. CompleteStrvec(n, v, m) = CompleteChild(C, n, y, v)
      BY <1>2, <1>6 DEF c
    <3>3. CompleteStrvec(n, v, m + d) = CompleteChild(C, n, CompOn(Blank(m + d), Alloc(Blank(m + d).st)), v)
      BY <1>2, <3>1
    <3> QED
      BY <1>3, <1>4, <3>2, <3>3
  <2> HIDE DEF x
  <2>2. a \in States /\ a.spine = none /\ a.mem \in Nat /\ Alloc(Shift(x, d)) = Shift(a, d)
    <3>1. a \in States /\ a.spine = none /\ a.mem = x.mem - 1 /\ Alloc(Shift(x, d)) = Shift(a, d)
      BY <1>4, AllocPlain
    <3> QED
      BY <1>3, <1>6, <3>1
  <2> HIDE DEF a
  <2>3. y \in Live(none) /\ CompOn(ShiftComp(c, d), Shift(a, d)) = ShiftComp(y, d)
    BY <1>3, <2>2, LiveOn
  <2> HIDE DEF y
  <2>4. Unlinks(CompleteChild(C, n, y, v), CompleteChild(C, n, ShiftComp(y, d), v), none, d)
    BY <1>1, <2>3, ChildUnlinks
  <2> QED
    BY <2>1, <2>2, <2>3, <2>4 DEF none
<1> QED
  BY <1>5, <1>6

\* expansions: those that may go on, and those that failed
Going(vec, mem) == [ret |-> 0, vec |-> vec, mem |-> mem]
Goings == {x \in Expansions : x.ret = 0 /\ x.mem \in Nat}
Gone == {x \in Expansions : x.ret = Fail}
ShiftGoing(x, d) == Going(x.vec, x.mem + d)
Expands(r, q, d) == r \in Gone \/ (r \in Goings /\ q = ShiftGoing(r, d))

LEMMA UnexpandedGone == Unexpanded \in Gone
<1>1. <<>> \in Vectors
  BY DEF Vectors
<1>2. Fail \in Int
  BY DEF Fail
<1> QED
  BY <1>1, <1>2 DEF Unexpanded, Gone, Expansions

LEMMA GoingFields ==
  ASSUME NEW vec \in Vectors, NEW mem \in Nat
  PROVE  /\ Going(vec, mem) \in Goings /\ Going(vec, mem).ret = 0 /\ Going(vec, mem).vec = vec
         /\ Going(vec, mem).mem = mem
<1>1. 0 \in Int /\ mem \in Int
  OBVIOUS
<1> QED
  BY <1>1 DEF Going, Goings, Expansions

LEMMA GoingWith ==
  ASSUME NEW x \in Goings, NEW vec \in Vectors, NEW mem \in Nat, NEW a, a = [x EXCEPT !.vec = vec, !.mem = mem]
  PROVE  a = Going(vec, mem)
<1> DEFINE b == Going(vec, mem)
<1>1. mem \in Int /\ x \in Expansions /\ x.ret = 0
  BY DEF Goings
<1>2. a \in Expansions /\ a.ret = 0 /\ a.vec = vec /\ a.mem = mem
  BY <1>1 DEF Expansions
<1>3. b \in Expansions /\ b.ret = 0 /\ b.vec = vec /\ b.mem = mem
  BY GoingFields DEF Goings
<1> HIDE DEF b
<1>4. a = b
  BY <1>2, <1>3 DEF Expansions
<1> QED
  BY <1>4 DEF b

LEMMA ExpansionTyped ==
  ASSUME NEW items \in Seq(CompItems), NEW types, NEW s \in Strings
  PROVE  Expansion(items, types, s) \in Strings
<1> DEFINE only == {i \in DOMAIN items : /\ items[i].type \in types \ {CompUnknown}
                                         /\ \A j \in DOMAIN items : items[j].type \in types => j = i}
           i == CHOOSE i \in only : TRUE
<1>1. Expansion(items, types, s) = IF only = {} THEN s ELSE items[i].full
  BY DEF Expansion
<1>2. only \subseteq DOMAIN items
  OBVIOUS
<1> HIDE DEF only
<1>3. CASE only = {}
  BY <1>1, <1>3
<1>4. CASE only # {}
  <2>1. i \in DOMAIN items
    BY <1>2, <1>4
  <2> HIDE DEF i
  <2>2. items[i] \in CompItems
    BY <2>1
  <2>3. items[i].full \in Strings
    BY <2>2 DEF CompItems
  <2> QED
    BY <1>1, <1>4, <2>3
<1> QED
  BY <1>3, <1>4

LEMMA ReplacedExpands ==
  ASSUME NEW x \in Goings, NEW d \in Nat, NEW c, NEW e, Unlinks(c, e, <<>>, d), NEW types, NEW s \in Strings
  PROVE  Expands(ExpandedWith(x, c, types, s), ExpandedWith(ShiftGoing(x, d), e, types, s), d)
<1> DEFINE by == Expansion(c.items, types, s)
           y == ShiftGoing(x, d)
           none == <<>>
<1>1. x.vec \in Vectors /\ x.mem \in Nat /\ x = Going(x.vec, x.mem) /\ x.mem + d \in Nat
  BY DEF Goings, Expansions, Going
<1>2. CASE c \in Dead(none)
  <2>1. c.fails
    BY <1>2 DEF Dead
  <2>2. ExpandedWith(x, c, types, s) = Unexpanded
    BY <2>1 DEF ExpandedWith, Replaced
  <2> QED
    BY <2>2, UnexpandedGone DEF Expands
<1>3. CASE c \in Live(none) /\ e = ShiftComp(c, d)
  <2>0. c \in Live(none)
    BY <1>3
  <2>1. c \in Comps /\ c.st \in States /\ c.st.mem \in Nat /\ ~c.fails /\ c.items \in Seq(CompItems)
    BY <2>0, LiveFields
  <2>2. ShiftComp(c, d).st = Shift(c.st, d) /\ ShiftComp(c, d).items = c.items /\ ~ShiftComp(c, d).fails
    BY <2>0, LiveFields
  <2>3. e.st.mem = c.st.mem + d /\ e.items = c.items /\ ~e.fails
    <3>1. Shift(c.st, d).mem = c.st.mem + d
      BY <2>1, ShiftTyped
    <3> QED
      BY <1>3, <2>2, <3>1
  <2>4. by \in Strings
    BY <2>1, ExpansionTyped
  <2>5. ExpandedWith(x, c, types, s) = Replaced(x, c, s, by) /\ ExpandedWith(y, e, types, s) = Replaced(y, e, s, by)
    BY <2>3 DEF ExpandedWith
  <2> HIDE DEF by
  <2>6. CASE by # s /\ c.st.mem = 0
    <3>1. ExpandedWith(x, c, types, s) = Unexpanded
      BY <2>5, <2>6 DEF Replaced
    <3> QED
      BY <3>1, UnexpandedGone DEF Expands
  <2>7. CASE ~(by # s /\ c.st.mem = 0)
    <3> DEFINE vec == Append(x.vec, by)
               mem == IF by = s THEN c.st.mem ELSE c.st.mem - 1
    <3>1. vec \in Vectors /\ mem \in Nat
      BY <1>1, <2>1, <2>4, <2>7 DEF Vectors
    <3>2. (IF by = s THEN e.st.mem ELSE e.st.mem - 1) = mem + d
      BY <2>1, <2>3, <2>7
    <3>3. ~(by # s /\ e.st.mem = 0)
      BY <2>1, <2>3, <2>7
    <3>4. y \in Goings /\ mem + d \in Nat
      BY <1>1, <3>1, GoingFields DEF ShiftGoing
    <3>5. ExpandedWith(x, c, types, s) = Going(vec, mem)
      <4>1. ExpandedWith(x, c, types, s) = [x EXCEPT !.vec = vec, !.mem = mem]
        BY <2>1, <2>5, <2>7 DEF Replaced
      <4> HIDE DEF vec, mem
      <4> DEFINE a == ExpandedWith(x, c, types, s)
      <4>2. a = [x EXCEPT !.vec = vec, !.mem = mem]
        BY <4>1
      <4> HIDE DEF a
      <4>3. a = Going(vec, mem)
        BY <3>1, <4>2, GoingWith
      <4> QED
        BY <4>3 DEF a
    <3>6. ExpandedWith(y, e, types, s) = Going(vec, mem + d)
      <4> HIDE DEF mem
      <4>1. y.vec = x.vec
        BY <1>1, GoingFields DEF ShiftGoing
      <4>2. ExpandedWith(y, e, types, s) = [y EXCEPT !.vec = vec, !.mem = mem + d]
        <5> HIDE DEF y
        <5> QED
          BY <2>3, <2>5, <3>2, <3>3, <4>1 DEF Replaced
      <4> DEFINE a == ExpandedWith(y, e, types, s)
                 k == mem + d
      <4>3. k \in Nat /\ y \in Goings /\ vec \in Vectors
        BY <3>1, <3>4
      <4>4. a = [y EXCEPT !.vec = vec, !.mem = k]
        BY <4>2
      <4> HIDE DEF vec, y, a, k
      <4>5. a = Going(vec, k)
        <5>1. k \in Int /\ y \in Expansions /\ y.ret = 0
          BY <4>3 DEF Goings
        <5>2. a \in Expansions /\ a.ret = 0 /\ a.vec = vec /\ a.mem = k
          BY <4>3, <4>4, <5>1 DEF Expansions
        <5> DEFINE b == Going(vec, k)
        <5>3. b \in Expansions /\ b.ret = 0 /\ b.vec = vec /\ b.mem = k
          BY <4>3, GoingFields DEF Goings
        <5> HIDE DEF b
        <5>4. a = b
          BY <5>2, <5>3 DEF Expansions
        <5> QED
          BY <5>4 DEF b
      <4> QED
        BY <4>5 DEF a, k
    <3> HIDE DEF vec, mem
    <3>7. Going(vec, mem) \in Goings /\ ShiftGoing(Going(vec, mem), d) = Going(vec, mem + d)
      BY <3>1, GoingFields DEF ShiftGoing
    <3> QED
      BY <3>5, <3>6, <3>7 DEF Expands
  <2> QED
    BY <2>6, <2>7
<1> QED
  BY <1>2, <1>3 DEF Unlinks

LEMMA StringExpands ==
  ASSUME Trees, GrammarOk, NEW n \in DOMAIN nodes, NEW types, NEW v \in Vectors, NEW i \in 1..Len(v),
         NEW x \in Goings, NEW d \in Nat
  PROVE  Expands(ExpandString(n, types, v, i, x), ExpandString(n, types, v, i, ShiftGoing(x, d)), d)
<1> DEFINE y == ShiftGoing(x, d)
           w == ExpandedPrefix(x.vec, v, i)
<1>1. x.vec \in Vectors /\ x.mem \in Nat /\ v[i] \in Strings
  BY DEF Goings, Expansions, Vectors
<1>2. y.vec = x.vec /\ y.mem = x.mem + d
  <2>1. x.mem + d \in Nat
    BY <1>1
  <2> QED
    BY <1>1, <2>1, GoingFields DEF ShiftGoing
<1>3. w \in Vectors
  BY <1>1 DEF ExpandedPrefix, Vectors
<1> HIDE DEF y, w
<1>4. CASE x.mem = 0
  <2>1. ExpandString(n, types, v, i, x) = Unexpanded
    BY <1>4 DEF ExpandString
  <2> QED
    BY <2>1, UnexpandedGone DEF Expands
<1>5. CASE x.mem # 0
  <2> DEFINE m == x.mem - 1
             c == CompleteStrvec(n, w, m)
             e == CompleteStrvec(n, w, m + d)
  <2>1. m \in Nat /\ y.mem # 0 /\ y.mem - 1 = m + d
    BY <1>1, <1>2, <1>5
  <2>2. ExpandString(n, types, v, i, x) = ExpandedWith(x, c, types, v[i])
    BY <1>5 DEF ExpandString, w
  <2>3. ExpandString(n, types, v, i, y) = ExpandedWith(y, e, types, v[i])
    BY <1>2, <2>1 DEF ExpandString, w
  <2> HIDE DEF m
  <2>4. Unlinks(c, e, <<>>, d)
    BY <1>3, <2>1, StrvecUnlinks
  <2> HIDE DEF c, e
  <2>5. Expands(ExpandedWith(x, c, types, v[i]), ExpandedWith(y, e, types, v[i]), d)
    BY <1>1, <2>4, ReplacedExpands DEF y
  <2> QED
    BY <2>2, <2>3, <2>5 DEF y
<1> QED
  BY <1>4, <1>5

LEMMA StrvecExpands ==
  ASSUME Trees, GrammarOk, NEW n \in DOMAIN nodes, NEW types, NEW v \in Vectors, NEW m \in Nat, NEW d \in Nat
  PROVE  Expands(Expand(n, types, v, m), Expand(n, types, v, m + d), d)
<1> DEFINE k == Len(v)
           step == [i \in 1..k |-> [x \in Expansions |-> IF x.ret = Fail THEN x ELSE ExpandString(n, types, v, i, x)]]
           first == Going(<<>>, m - 1)
           other == Going(<<>>, (m + d) - 1)
           shift == [x \in Goings |-> ShiftGoing(x, d)]
           X == Goings
           F == Gone
<1>0. k \in Nat
  BY VectorLen
<1>1. CASE m = 0
  <2>1. Expand(n, types, v, m) = Unexpanded
    BY <1>1 DEF Expand
  <2> QED
    BY <2>1, UnexpandedGone DEF Expands
<1>2. CASE m # 0
  <2>1. Expand(n, types, v, m) = Loop(step, first, k) /\ Expand(n, types, v, m + d) = Loop(step, other, k)
    <3>1. m + d # 0
      BY <1>2
    <3> QED
      BY <1>2, <3>1 DEF Expand, Going
  <2>2. first \in X /\ shift[first] = other
    <3>1. <<>> \in Vectors /\ m - 1 \in Nat /\ (m - 1) + d = (m + d) - 1
      BY <1>2 DEF Vectors
    <3>2. first \in X /\ first.vec = <<>> /\ first.mem = m - 1
      BY <3>1, GoingFields
    <3> HIDE DEF first
    <3> QED
      BY <3>1, <3>2 DEF ShiftGoing
  <2>3. Corresponds(step, k, X, F, shift)
    <3>1. ASSUME NEW i \in 1..k, NEW x \in X
          PROVE  step[i][x] \in F \/ (step[i][x] \in X /\ step[i][shift[x]] = shift[step[i][x]])
      <4>1. x \in Expansions /\ x.ret # Fail /\ x.vec \in Vectors /\ x.mem + d \in Nat
        BY DEF Goings, Expansions, Fail
      <4>2. ShiftGoing(x, d) \in Goings /\ ShiftGoing(x, d).ret = 0
        BY <4>1, GoingFields DEF ShiftGoing
      <4>3. ShiftGoing(x, d) \in Expansions /\ ShiftGoing(x, d).ret # Fail /\ shift[x] = ShiftGoing(x, d)
        BY <4>2 DEF Goings, Fail
      <4>4. /\ step[i][x] = ExpandString(n, types, v, i, x)
            /\ step[i][shift[x]] = ExpandString(n, types, v, i, ShiftGoing(x, d))
        BY <4>1, <4>3
      <4>5. Expands(ExpandString(n, types, v, i, x), ExpandString(n, types, v, i, ShiftGoing(x, d)), d)
        BY StringExpands
      <4> HIDE DEF step
      <4> QED
        BY <4>4, <4>5 DEF Expands
    <3>2. ASSUME NEW i \in 1..k, NEW x \in F PROVE step[i][x] \in F
      BY DEF Gone
    <3> HIDE DEF step, shift, X, F
    <3> QED
      BY <3>1, <3>2 DEF Corresponds
  <2> HIDE DEF step, k, first, other
  <2>4. Loop(step, first, k) \in F \/ (Loop(step, first, k) \in X /\ Loop(step, shift[first], k) = shift[Loop(step, first, k)])
    <3> HIDE DEF shift, X, F
    <3> QED
      BY <1>0, <2>2, <2>3, LoopAgrees
  <2> QED
    BY <2>1, <2>2, <2>4 DEF Expands
<1> QED
  BY <1>1, <1>2

-----------------------------------------------------------------------------
\* The specification

\* the engine is a function of the grammar
LEMMA CompleteSame ==
  ASSUME nodes' = nodes, input' = input
  PROVE  /\ \A mem : (CompleteStrvec(Root, input, mem))' = CompleteStrvec(Root, input, mem)
         /\ \A types, mem : (Expand(Root, types, input, mem))' = Expand(Root, types, input, mem)
<1>1. ParseTo' = ParseTo
  BY DEF ParseTo, Callbacks, ParseNode
<1>2. CompleteTo' = CompleteTo
  BY <1>1 DEF CompleteTo, CompleteCallbacks, CompleteNode, StrComplete, SeqComplete, SeqMore, SeqFrom, SeqTry,
              ParseHere, ManyComplete, ManyFrom, ManyTry, ManyCompleted, SubsetComplete, SubsetMore, SubsetFrom,
              SubsetTry
<1>3. \A n, v, mem : (CompleteStrvec(n, v, mem))' = CompleteStrvec(n, v, mem)
  BY <1>2 DEF CompleteStrvec
<1> QED
  BY <1>2, <1>3 DEF CompleteStrvec, Expand, ExpandString, Root

\* what every state has: the result is that of the engine on the grammar
CompleteInv ==
  /\ GrammarInv
  /\ \/ out = NoResult
     \/ Built /\ \E mem \in family.budgets : out = Completion(CompleteStrvec(Root, input, mem))
     \/ Built /\ \E mem \in family.budgets, types \in family.expand :
          out = Expanding(types, Expand(Root, types, input, mem))

LEMMA CompleteNextInv ==
  ASSUME CompleteInv, [CompleteNext]_vars
  PROVE  CompleteInv'
<1>1. GrammarInv
  BY DEF CompleteInv
<1>2. CASE GrammarNext
  BY <1>1, <1>2, GrammarNextInv DEF CompleteInv, NoResult
<1>3. ASSUME NEW mem \in family.budgets, DoComplete(mem)
      PROVE  CompleteInv'
  <2>1. /\ Built /\ out' = Completion(CompleteStrvec(Root, input, mem))
        /\ family' = family /\ nodes' = nodes /\ input' = input
    BY <1>3 DEF DoComplete
  <2>2. (CompleteStrvec(Root, input, mem))' = CompleteStrvec(Root, input, mem)
    BY <2>1, CompleteSame
  <2>3. GrammarInv' /\ Built'
    BY <1>1, <2>1, GrammarStays
  <2>4. (Completion(CompleteStrvec(Root, input, mem)))' = Completion(CompleteStrvec(Root, input, mem))
    BY <2>2 DEF Completion
  <2> QED
    BY <2>1, <2>3, <2>4 DEF CompleteInv
<1>4. ASSUME NEW mem \in family.budgets, NEW types \in family.expand, DoExpand(types, mem)
      PROVE  CompleteInv'
  <2>1. /\ Built /\ out' = Expanding(types, Expand(Root, types, input, mem))
        /\ family' = family /\ nodes' = nodes /\ input' = input
    BY <1>4 DEF DoExpand
  <2>2. (Expand(Root, types, input, mem))' = Expand(Root, types, input, mem)
    BY <2>1, CompleteSame
  <2>3. GrammarInv' /\ Built'
    BY <1>1, <2>1, GrammarStays
  <2>4. (Expanding(types, Expand(Root, types, input, mem)))' = Expanding(types, Expand(Root, types, input, mem))
    BY <2>2 DEF Expanding
  <2> QED
    BY <2>1, <2>3, <2>4 DEF CompleteInv
<1>5. CASE UNCHANGED vars
  <2>1. family' = family /\ nodes' = nodes /\ input' = input /\ out' = out
    BY <1>5 DEF vars
  <2>2. /\ \A mem : (CompleteStrvec(Root, input, mem))' = CompleteStrvec(Root, input, mem)
        /\ \A types, mem : (Expand(Root, types, input, mem))' = Expand(Root, types, input, mem)
    BY <2>1, CompleteSame
  <2>3. GrammarInv' /\ (Built => Built')
    BY <1>1, <2>1, GrammarStays
  <2>4. CASE out = NoResult
    BY <2>1, <2>3, <2>4 DEF CompleteInv, NoResult
  <2>5. CASE Built /\ \E mem \in family.budgets : out = Completion(CompleteStrvec(Root, input, mem))
    <3>1. PICK mem \in family.budgets : out = Completion(CompleteStrvec(Root, input, mem))
      BY <2>5
    <3>2. (Completion(CompleteStrvec(Root, input, mem)))' = Completion(CompleteStrvec(Root, input, mem))
      BY <2>2 DEF Completion
    <3> QED
      BY <2>1, <2>3, <2>5, <3>1, <3>2 DEF CompleteInv
  <2>6. CASE Built /\ \E mem \in family.budgets, types \in family.expand :
                        out = Expanding(types, Expand(Root, types, input, mem))
    <3>1. PICK mem \in family.budgets, types \in family.expand : out = Expanding(types, Expand(Root, types, input, mem))
      BY <2>6
    <3>2. (Expanding(types, Expand(Root, types, input, mem)))' = Expanding(types, Expand(Root, types, input, mem))
      BY <2>2 DEF Expanding
    <3> QED
      BY <2>1, <2>3, <2>6, <3>1, <3>2 DEF CompleteInv
  <2> QED
    BY <2>4, <2>5, <2>6 DEF CompleteInv
<1> QED
  BY <1>2, <1>3, <1>4, <1>5 DEF CompleteNext

LEMMA CompleteInvariant == CompleteSpec => []CompleteInv
<1>1. GrammarInit => CompleteInv
  BY GrammarInitInv DEF CompleteInv
<1>2. CompleteInv /\ [CompleteNext]_vars => CompleteInv'
  BY CompleteNextInv
<1> QED
  BY <1>1, <1>2, PTL DEF CompleteSpec

LEMMA CompletionAgrees ==
  ASSUME NEW c, NEW e, NEW d \in Nat, Unlinks(c, e, <<>>, d)
  PROVE  ~Completion(c).dirty /\ (Completion(c).ret # Fail => Completion(c).items = e.items)
<1> DEFINE none == <<>>
<1>1. CASE c \in Dead(none)
  <2>1. ~c.dirty /\ c.fails
    BY <1>1 DEF Dead
  <2> QED
    BY <2>1 DEF Completion
<1>2. CASE c \in Live(none) /\ e = ShiftComp(c, d)
  <2>1. ~c.dirty /\ ~c.fails /\ ShiftComp(c, d).items = c.items
    BY <1>2, LiveFields
  <2> QED
    BY <1>2, <2>1 DEF Completion
<1> QED
  BY <1>1, <1>2 DEF Unlinks

LEMMA ExpandingAgrees ==
  ASSUME NEW x, NEW y, NEW d \in Nat, Expands(x, y, d), NEW types
  PROVE  /\ Expanding(types, x).ret = x.ret /\ Expanding(types, x).vec = x.vec
         /\ x.ret # Fail => y.vec = x.vec
<1>1. CASE x \in Gone
  BY <1>1 DEF Gone, Expanding
<1>2. CASE x \in Goings /\ y = ShiftGoing(x, d)
  BY <1>2 DEF ShiftGoing, Going, Expanding
<1> QED
  BY <1>1, <1>2 DEF Expands

\* An allocation that fails makes completion and expansion fail, wherever it is, and
\* shortens no list of completions, in every grammar and for every input; and on
\* every path of every complete callback, those of a failed allocation included, the
\* pnodes linked with ec_parse_child() are unlinked again.
THEOREM CompletionsAllOrNothing == ASSUME Trees PROVE CompleteSpec => []CompleteAllOrNothing
<1>1. ASSUME CompleteInv PROVE CompleteAllOrNothing
  <2>1. GrammarInv /\ GrammarOk /\ input \in Vectors
    BY <1>1, InputVector DEF CompleteInv, GrammarInv
  <2>2. family.budgets \subseteq Nat /\ Unlimited \in family.budgets /\ \A mem \in family.budgets : mem <= Unlimited
    <3>1. family.budgets \subseteq Nat /\ \E m \in family.budgets : \A k \in family.budgets : k <= m
      BY <2>1, FamilyFields DEF GrammarInv
    <3> QED
      BY <3>1 DEF Unlimited
  <2>3. CASE out = NoResult
    BY <2>3 DEF NoResult, CompleteAllOrNothing, Completed
  <2>4. CASE Built /\ \E mem \in family.budgets : out = Completion(CompleteStrvec(Root, input, mem))
    <3>1. PICK mem \in family.budgets : out = Completion(CompleteStrvec(Root, input, mem))
      BY <2>4
    <3> DEFINE d == Unlimited - mem
               c == CompleteStrvec(Root, input, mem)
               e == CompleteStrvec(Root, input, Unlimited)
    <3>2. mem \in Nat /\ d \in Nat /\ mem + d = Unlimited
      BY <2>2
    <3> HIDE DEF d
    <3>3. Unlinks(c, e, <<>>, d)
      <4>1. Root \in DOMAIN nodes
        BY <2>1, <2>4, RootNode
      <4> QED
        BY <2>1, <3>2, <4>1, StrvecUnlinks
    <3>4. out = Completion(c) /\ out.op = "complete"
      BY <3>1 DEF Completion
    <3> HIDE DEF c, e
    <3>5. ~out.dirty /\ (out.ret # Fail => out.items = e.items)
      BY <3>2, <3>3, <3>4, CompletionAgrees
    <3> QED
      BY <3>4, <3>5 DEF CompleteAllOrNothing, Completed, e
  <2>5. CASE Built /\ \E mem \in family.budgets, types \in family.expand :
                        out = Expanding(types, Expand(Root, types, input, mem))
    <3>1. PICK mem \in family.budgets, types \in family.expand : out = Expanding(types, Expand(Root, types, input, mem))
      BY <2>5
    <3> DEFINE d == Unlimited - mem
               x == Expand(Root, types, input, mem)
               y == Expand(Root, types, input, Unlimited)
    <3>2. mem \in Nat /\ d \in Nat /\ mem + d = Unlimited
      BY <2>2
    <3> HIDE DEF d
    <3>3. Expands(x, y, d)
      <4>1. Root \in DOMAIN nodes
        BY <2>1, <2>5, RootNode
      <4> QED
        BY <2>1, <3>2, <4>1, StrvecExpands
    <3>4. out = Expanding(types, x) /\ out.op = "expand" /\ out.types = types
      BY <3>1 DEF Expanding
    <3> HIDE DEF x, y
    <3>5. out.ret = x.ret /\ out.vec = x.vec /\ (x.ret # Fail => y.vec = x.vec)
      BY <3>2, <3>3, <3>4, ExpandingAgrees
    <3> QED
      BY <3>4, <3>5 DEF CompleteAllOrNothing, Completed, y
  <2> QED
    BY <1>1, <2>3, <2>4, <2>5 DEF CompleteInv
<1> QED
  BY <1>1, CompleteInvariant, PTL
=============================================================================
