---------------------------- MODULE VectorValues ----------------------------
(***************************************************************************)
(* What string vectors promise: each is a value of its own, a sequence of  *)
(* strings with optional attributes.  A call changes the vector it is      *)
(* given and no other, however the vectors were copied from one another.   *)
(***************************************************************************)
EXTENDS Integers, Sequences

CONSTANTS Handles, Strs, Dicts, NoDict

VARIABLES live, content

valueVars == <<live, content>>

Cell(s, d) == [str |-> s, attrs |-> d]

Init == live = {} /\ content = [h \in Handles |-> <<>>]

Create(h) ==
  /\ h \notin live
  /\ live' = live \cup {h}
  /\ UNCHANGED content

Becomes(h, c) == content' = [content EXCEPT ![h] = c] /\ UNCHANGED live

Push(h, s) == Becomes(h, Append(content[h], Cell(s, NoDict)))

\* the attributes are lost with the string
Put(h, i, s) == Becomes(h, [content[h] EXCEPT ![i] = Cell(s, NoDict)])

Pop(h) == Becomes(h, SubSeq(content[h], 1, Len(content[h]) - 1))

Annotate(h, i, d) == Becomes(h, [content[h] EXCEPT ![i] = Cell(content[h][i].str, d)])

Slice(src, dst, off, len) ==
  /\ dst \notin live
  /\ live' = live \cup {dst}
  /\ content' = [content EXCEPT ![dst] = SubSeq(content[src], off + 1, off + len)]

Sorted(c) == \A i, j \in DOMAIN c : i < j => c[i].str <= c[j].str

\* some order in which the strings are sorted
Sort(h) ==
  \E p \in [DOMAIN content[h] -> DOMAIN content[h]] :
    LET c == [i \in DOMAIN content[h] |-> content[h][p[i]]]
    IN  /\ \A i, j \in DOMAIN p : p[i] = p[j] => i = j
        /\ \A j \in DOMAIN p : \E i \in DOMAIN p : p[i] = j
        /\ Sorted(c)
        /\ Becomes(h, c)

Destroy(h) ==
  /\ live' = live \ {h}
  /\ content' = [content EXCEPT ![h] = <<>>]

Next ==
  \/ \E h \in Handles : Create(h)
  \/ \E h \in live : Pop(h) \/ Sort(h) \/ Destroy(h)
  \/ \E h \in live, s \in Strs : Push(h, s)
  \/ \E h \in live : \E i \in DOMAIN content[h] :
       (\E s \in Strs : Put(h, i, s)) \/ (\E d \in Dicts \cup {NoDict} : Annotate(h, i, d))
  \/ \E src \in live, dst \in Handles : \E off, len \in 0..Len(content[src]) :
       off + len <= Len(content[src]) /\ Slice(src, dst, off, len)

Spec == Init /\ [][Next]_valueVars
=============================================================================
