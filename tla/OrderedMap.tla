----------------------------- MODULE OrderedMap -----------------------------
(***************************************************************************)
(* What include/ecoli/htable.h and dict.h promise: a table is a map that   *)
(* iterates in insertion order; a call takes effect as a whole or not at   *)
(* all; a value handed to the library is owned by it until the last table  *)
(* that maps to it lets go of it, at which point it is destroyed.  A call  *)
(* that fails changes nothing here, whoever destroys its value.            *)
(***************************************************************************)
EXTENDS Integers, Sequences

CONSTANTS Handles, Keys, Vals

SE == INSTANCE SequencesExt

VARIABLES live,     \* the tables the caller holds
          content,  \* the <<key, value>> pairs of each, in insertion order
          owned     \* the values the library has to destroy

mapVars == <<live, content, owned>>

\* the values some table maps to
InSome(c) == UNION {{c[h][i][2] : i \in DOMAIN c[h]} : h \in Handles}

Init == live = {} /\ content = [h \in Handles |-> <<>>] /\ owned = {}

Create(h) ==
  /\ h \notin live
  /\ live' = live \cup {h}
  /\ UNCHANGED <<content, owned>>

\* values are destroyed when the last table lets go of them
Become(c) == content' = c /\ owned' = InSome(c)

Add(h, k, v) ==
  /\ h \in live /\ v \notin owned
  /\ \A i \in DOMAIN content[h] : content[h][i][1] # k
  /\ Become([content EXCEPT ![h] = Append(@, <<k, v>>)])
  /\ UNCHANGED live

\* replacing a value moves the key to the end
Replace(h, k, v) ==
  /\ h \in live /\ v \notin owned
  /\ \E i \in DOMAIN content[h] :
       /\ content[h][i][1] = k
       /\ Become([content EXCEPT ![h] = Append(SE!RemoveAt(@, i), <<k, v>>)])
  /\ UNCHANGED live

Remove(h) ==
  /\ h \in live
  /\ \E i \in DOMAIN content[h] :
       Become([content EXCEPT ![h] = SE!RemoveAt(@, i)])
  /\ UNCHANGED live

Destroy(h) ==
  /\ h \in live
  /\ live' = live \ {h}
  /\ Become([content EXCEPT ![h] = <<>>])

Copy(src, dst) ==
  /\ src \in live /\ dst \notin live
  /\ live' = live \cup {dst}
  /\ content' = [content EXCEPT ![dst] = content[src]]
  /\ UNCHANGED owned

Next ==
  \E h \in Handles :
    \/ Create(h) \/ Destroy(h) \/ Remove(h)
    \/ \E k \in Keys, v \in Vals : Add(h, k, v) \/ Replace(h, k, v)
    \/ \E dst \in Handles : Copy(h, dst)

Spec == Init /\ [][Next]_mapVars
=============================================================================
