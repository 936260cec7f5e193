------------------------------- MODULE Htable -------------------------------
(***************************************************************************)
(* The hash table of src/htable.c, and the string dictionary of src/dict.c *)
(* that wraps it.  A table keeps its elements twice: in insertion order    *)
(* (list) and in an array of chains indexed by the low bits of the hash    *)
(* (bucket).  Elements are reference counted and shared by the tables that *)
(* ec_htable_dup() copies from one another.                                *)
(*                                                                         *)
(* A value handed to ec_htable_set() names its element: an element is      *)
(* created by each call and carries one value.  A chain is a set, because  *)
(* its order is never observed (keys are unique in a table); the list is a *)
(* sequence, because iteration and ec_htable_dup() follow it.  Every       *)
(* allocation may fail.  The library has no threads: a call runs to its    *)
(* end before the next starts.  ec_htable_dup() is a loop of failing steps *)
(* and takes one action per iteration.                                     *)
(***************************************************************************)
EXTENDS Integers, Sequences, FiniteSets, Functions

CONSTANTS Handles,   \* names of the tables the caller can hold
          Keys,      \* the non-empty keys
          Vals,      \* values given to ec_htable_set()
          NoKey,     \* a NULL key, or a key of length 0
          Hash,      \* ec_murmurhash3() of each key under the seed
          Grow       \* 1 << FACTOR: first size and growth of the array

ASSUME HashAssumption == Hash \in [Keys -> Nat]
ASSUME GrowAssumption == Grow \in Nat \ {0, 1}
ASSUME NoKeyAssumption == NoKey \notin Keys
ASSUME FiniteAssumption == IsFiniteSet(Handles)

SE == INSTANCE SequencesExt

VARIABLES live,      \* tables returned to the caller and not yet freed
          tbl,       \* struct ec_htable of each handle
          key,       \* elt->key of each element
          refcount,  \* elt->refcount
          given,     \* values whose ownership was passed to the library
          refused,   \* values of an ec_htable_set() that returned EINVAL
          freed,     \* how often free_cb() ran on a value since it was made
          dup,       \* the ec_htable_dup() in progress
          ret        \* the last call and what it returned

vars == <<live, tbl, key, refcount, given, refused, freed, dup, ret>>

Sites == {"ref", "elt", "key"}
Errors == {"EINVAL", "ENOMEM", "ENOENT"}
Calls == {"none", "new", "set", "del", "dup", "free"}

IndexOf(s, e) == CHOOSE i \in DOMAIN s : s[i] = e

-----------------------------------------------------------------------------
\* Tables as values

EmptyTable == [list |-> <<>>, len |-> 0, size |-> 0, bucket |-> [i \in {} |-> {}]]

\* h & (size - 1), for a size that is a power of two
Idx(k, size) == Hash[k] % size

\* ec_htable_lookup(): the references found in the chain, at most one
Lookup(T, k) ==
  IF T.size = 0 THEN {} ELSE {e \in T.bucket[Idx(k, T.size)] : key[e] = k}

\* mutant: the len-- is forgotten
UnlinkKeepsLen(T, e) ==
  [list   |-> SE!RemoveAt(T.list, IndexOf(T.list, e)),
   len    |-> T.len,
   size   |-> T.size,
   bucket |-> [T.bucket EXCEPT ![Idx(key[e], T.size)] = @ \ {e}]]

\* the two TAILQ_REMOVE and the len-- of ec_htable_del()
Unlink(T, e) ==
  [list   |-> SE!RemoveAt(T.list, IndexOf(T.list, e)),
   len    |-> T.len - 1,
   size   |-> T.size,
   bucket |-> [T.bucket EXCEPT ![Idx(key[e], T.size)] = @ \ {e}]]

\* mutant: the elements go to the chain they had before
ResizeStaleIndex(T, n) ==
  [list   |-> T.list,
   len    |-> T.len,
   size   |-> n,
   bucket |-> [i \in 0..(n - 1) |->
                 {e \in Range(T.list) : Idx(key[e], T.size) = i}]]

\* ec_htable_table_resize() once its calloc() succeeded
Resize(T, n) ==
  [list   |-> T.list,
   len    |-> T.len,
   size   |-> n,
   bucket |-> [i \in 0..(n - 1) |->
                 {e \in Range(T.list) : Idx(key[e], n) = i}]]

\* mutant: TAILQ_INSERT_HEAD instead of TAILQ_INSERT_TAIL
LinkHead(T, e, k) ==
  [list   |-> <<e>> \o T.list,
   len    |-> T.len + 1,
   size   |-> T.size,
   bucket |-> [T.bucket EXCEPT ![Idx(k, T.size)] = @ \cup {e}]]

\* the two TAILQ_INSERT_TAIL and the len++ of __ec_htable_set()
Link(T, e, k) ==
  [list   |-> Append(T.list, e),
   len    |-> T.len + 1,
   size   |-> T.size,
   bucket |-> [T.bucket EXCEPT ![Idx(k, T.size)] = @ \cup {e}]]

\* "remove previous entry if any"
WithoutKey(T, k) ==
  IF Lookup(T, k) = {} THEN T
  ELSE Unlink(T, CHOOSE e \in Lookup(T, k) : TRUE)

MustGrow(T) == T.len >= T.size
NewSize(T) == IF T.size # 0 THEN T.size * Grow ELSE Grow

\* __ec_htable_set() when the array is large enough or could be resized
Insert(T, e, k) ==
  LET T1 == WithoutKey(T, k)
  IN  Link(IF MustGrow(T1) THEN Resize(T1, NewSize(T1)) ELSE T1, e, k)

-----------------------------------------------------------------------------
\* Elements

\* ec_htable_elt_ref_free() on one reference to each element of S: the last
\* one frees the key and calls free_cb() on the value
RefsAfter(S) == [e \in Vals |-> IF e \in S THEN refcount[e] - 1 ELSE refcount[e]]
FreedAfter(S) ==
  [e \in Vals |-> IF e \in S /\ refcount[e] = 1 THEN freed[e] + 1 ELSE freed[e]]
KeyAfter(S) ==
  [e \in Vals |-> IF e \in S /\ refcount[e] = 1 THEN NoKey ELSE key[e]]

\* a value the caller may pass: one it just allocated
Available(v) == v \notin given \/ freed[v] > 0

NoDup == [active |-> FALSE]
Idle == ~dup.active
Return(op, rc) == ret' = [op |-> op, rc |-> rc]

-----------------------------------------------------------------------------
Init ==
  /\ live = {}
  /\ tbl = [h \in Handles |-> EmptyTable]
  /\ key = [v \in Vals |-> NoKey]
  /\ refcount = [v \in Vals |-> 0]
  /\ given = {}
  /\ refused = {}
  /\ freed = [v \in Vals |-> 0]
  /\ dup = NoDup
  /\ ret = [op |-> "none", rc |-> "ok"]

\* ec_htable()
New(h) ==
  /\ Idle /\ h \notin live
  /\ \/ live' = live \cup {h} /\ Return("new", "ok")
     \/ live' = live /\ Return("new", "ENOMEM")
  /\ UNCHANGED <<tbl, key, refcount, given, refused, freed, dup>>

\* ec_htable_del()
Del(h, k) ==
  /\ Idle /\ h \in live
  /\ LET old == IF k = NoKey THEN {} ELSE Lookup(tbl[h], k)
     IN  \/ /\ old = {}
            /\ Return("del", IF k = NoKey THEN "EINVAL" ELSE "ENOENT")
            /\ UNCHANGED <<tbl, key, refcount, freed>>
         \/ /\ old # {}
            /\ tbl' = [tbl EXCEPT ![h] = WithoutKey(@, k)]
            /\ key' = KeyAfter(old)
            /\ refcount' = RefsAfter(old)
            /\ freed' = FreedAfter(old)
            /\ Return("del", "ok")
  /\ UNCHANGED <<live, given, refused, dup>>

\* ec_htable_set() refuses its arguments and does not run free_cb(): the
\* value is still that of the caller
SetInvalid(h, v) ==
  /\ Idle /\ h \in live /\ Available(v)
  /\ given' = given \ {v}
  /\ refused' = refused \cup {v}
  /\ freed' = [freed EXCEPT ![v] = 0]
  /\ Return("set", "EINVAL")
  /\ UNCHANGED <<live, tbl, key, refcount, dup>>

\* mutant: val is not reset once the element owns it
CallbacksValKept(site) ==
  1 + (IF site \in {"key", "resize"} THEN 1 ELSE 0)

\* at the label fail, val is still set unless it was stored in the element,
\* and ec_htable_elt_ref_free() calls free_cb() for an element only
CallbacksOnFail(site) ==
  (IF site \in {"ref", "elt"} THEN 1 ELSE 0)
    + (IF site \in {"key", "resize"} THEN 1 ELSE 0)

\* ec_htable_set() fails in one of its own allocations
SetNoMem(h, v, site) ==
  /\ Idle /\ h \in live /\ Available(v)
  /\ given' = given \cup {v}
  /\ refused' = refused \ {v}
  /\ freed' = [freed EXCEPT ![v] = CallbacksOnFail(site)]
  /\ Return("set", "ENOMEM")
  /\ UNCHANGED <<live, tbl, key, refcount, dup>>

\* ec_htable_set() succeeds
SetOk(h, k, v) ==
  /\ Idle /\ h \in live /\ Available(v)
  /\ tbl' = [tbl EXCEPT ![h] = Insert(@, v, k)]
  /\ LET old == Lookup(tbl[h], k)
     IN  /\ key' = [KeyAfter(old) EXCEPT ![v] = k]
         /\ refcount' = [RefsAfter(old) EXCEPT ![v] = 1]
         /\ freed' = [FreedAfter(old) EXCEPT ![v] = 0]
  /\ given' = given \cup {v}
  /\ refused' = refused \ {v}
  /\ Return("set", "ok")
  /\ UNCHANGED <<live, dup>>

\* ec_htable_set() fails to resize, after the previous entry was removed
SetResizeFails(h, k, v) ==
  /\ Idle /\ h \in live /\ Available(v)
  /\ MustGrow(WithoutKey(tbl[h], k))
  /\ tbl' = [tbl EXCEPT ![h] = WithoutKey(@, k)]
  /\ LET old == Lookup(tbl[h], k)
     IN  /\ key' = KeyAfter(old)
         /\ refcount' = [RefsAfter(old) EXCEPT ![v] = 0]
         /\ freed' = [FreedAfter(old) EXCEPT ![v] = CallbacksOnFail("resize")]
  /\ given' = given \cup {v}
  /\ refused' = refused \ {v}
  /\ Return("set", "ENOMEM")
  /\ UNCHANGED <<live, dup>>

\* ec_htable_free()
Free(h) ==
  /\ Idle /\ h \in live
  /\ live' = live \ {h}
  /\ tbl' = [tbl EXCEPT ![h] = EmptyTable]
  /\ key' = KeyAfter(Range(tbl[h].list))
  /\ refcount' = RefsAfter(Range(tbl[h].list))
  /\ freed' = FreedAfter(Range(tbl[h].list))
  /\ Return("free", "ok")
  /\ UNCHANGED <<given, refused, dup>>

-----------------------------------------------------------------------------
\* ec_htable_dup(), one action per iteration of its loop

DupBegin(src, dst) ==
  /\ Idle /\ src \in live /\ dst \notin live
  /\ \/ /\ dup' = [active |-> TRUE, src |-> src, dst |-> dst, pos |-> 1]
        /\ Return("dup", "running")
     \/ /\ Return("dup", "ENOMEM")
        /\ UNCHANGED dup
  /\ UNCHANGED <<live, tbl, key, refcount, given, refused, freed>>

DupElt == tbl[dup.src].list[dup.pos]

\* mutant: the copy does not count its reference
DupCopyNoRef ==
  /\ dup.active /\ dup.pos <= Len(tbl[dup.src].list)
  /\ tbl' = [tbl EXCEPT ![dup.dst] = Insert(@, DupElt, key[DupElt])]
  /\ dup' = [dup EXCEPT !.pos = @ + 1]
  /\ UNCHANGED <<live, key, refcount, given, refused, freed, ret>>

DupCopy ==
  /\ dup.active /\ dup.pos <= Len(tbl[dup.src].list)
  /\ tbl' = [tbl EXCEPT ![dup.dst] = Insert(@, DupElt, key[DupElt])]
  /\ LET old == Lookup(tbl[dup.dst], key[DupElt])
     IN  /\ key' = KeyAfter(old)
         /\ refcount' = [RefsAfter(old) EXCEPT ![DupElt] = @ + 1]
         /\ freed' = FreedAfter(old)
  /\ dup' = [dup EXCEPT !.pos = @ + 1]
  /\ UNCHANGED <<live, given, refused, ret>>

\* calloc() of the reference fails, or the resize does after refcount++:
\* the reference is dropped again and the partial copy is freed
DupFail ==
  /\ dup.active /\ dup.pos <= Len(tbl[dup.src].list)
  /\ LET copied == Range(tbl[dup.dst].list)
     IN  /\ key' = KeyAfter(copied)
         /\ refcount' = RefsAfter(copied)
         /\ freed' = FreedAfter(copied)
  /\ tbl' = [tbl EXCEPT ![dup.dst] = EmptyTable]
  /\ dup' = NoDup
  /\ Return("dup", "ENOMEM")
  /\ UNCHANGED <<live, given, refused>>

DupEnd ==
  /\ dup.active /\ dup.pos > Len(tbl[dup.src].list)
  /\ live' = live \cup {dup.dst}
  /\ dup' = NoDup
  /\ Return("dup", "ok")
  /\ UNCHANGED <<tbl, key, refcount, given, refused, freed>>

Next ==
  \/ \E h \in Handles : New(h) \/ Free(h)
  \/ \E h \in Handles, k \in Keys \cup {NoKey} : Del(h, k)
  \/ \E h \in Handles, v \in Vals : SetInvalid(h, v)
  \/ \E h \in Handles, v \in Vals, site \in Sites : SetNoMem(h, v, site)
  \/ \E h \in Handles, k \in Keys, v \in Vals : SetOk(h, k, v)
  \/ \E h \in Handles, k \in Keys, v \in Vals : SetResizeFails(h, k, v)
  \/ \E src \in Handles, dst \in Handles : DupBegin(src, dst)
  \/ DupCopy \/ DupFail \/ DupEnd

Spec == Init /\ [][Next]_vars

-----------------------------------------------------------------------------
\* Properties

\* the tables, the one under construction included, that reference an element
Holders(e) == {h \in Handles : e \in Range(tbl[h].list)}

TableType(T) ==
  /\ T.list \in Seq(Vals)
  /\ T.len \in Nat
  /\ T.size \in Nat
  /\ T.bucket \in [0..(T.size - 1) -> SUBSET Vals]
  /\ DOMAIN T = {"list", "len", "size", "bucket"}

DupType ==
  \/ dup = NoDup
  \/ /\ dup \in [active : {TRUE}, src : live, dst : Handles \ live, pos : Nat]
     /\ dup.pos \in 1..(Len(tbl[dup.src].list) + 1)

\* Type correctness of every variable; the copy being built by
\* ec_htable_dup() is not yet known to the caller.
TypeOK ==
  /\ live \subseteq Handles
  /\ tbl = [h \in Handles |-> tbl[h]]
  /\ \A h \in Handles : TableType(tbl[h])
  /\ key \in [Vals -> Keys \cup {NoKey}]
  /\ refcount \in [Vals -> Nat]
  /\ given \subseteq Vals /\ refused \subseteq Vals
  /\ freed \in [Vals -> Nat]
  /\ DupType
  /\ ret \in [op : Calls, rc : {"ok", "running"} \cup Errors]

\* Keys are unique in a table, whatever mix of ec_htable_set(),
\* ec_htable_del() and ec_htable_dup() built it.
UniqueKeys ==
  \A h \in Handles : \A i, j \in DOMAIN tbl[h].list :
    key[tbl[h].list[i]] = key[tbl[h].list[j]] => i = j

\* The chains and the list hold the same elements, each in the chain its hash
\* selects under the current size: ec_htable_lookup() finds exactly what
\* iteration shows, across resizes and after failed ones.
ChainsMatchList ==
  \A h \in Handles : LET T == tbl[h] IN
    \A i \in DOMAIN T.bucket :
      T.bucket[i] = {e \in Range(T.list) : Idx(key[e], T.size) = i}

\* len counts the list and never exceeds the array: ec_htable_set() relies on
\* it to have a free slot after it removed the previous entry.
LoadBound ==
  \A h \in Handles : tbl[h].len = Len(tbl[h].list) /\ tbl[h].len <= tbl[h].size

\* elt->refcount is the number of tables that list the element, so that the
\* unsigned counter never wraps and reaches 0 with the last table only.
RefcountExact == \A v \in Vals : refcount[v] = Cardinality(Holders(v))

\* the two parts of FreedOnce
GivenFreed == \A v \in given : freed[v] = IF Holders(v) = {} THEN 1 ELSE 0
RefusedKept == \A v \in refused : freed[v] = 0 /\ Holders(v) = {}
\* free_cb() ran on a value that the library accepted exactly once if no table
\* references it any more, and never before: no leak, no double free, no use
\* after free, through ec_htable_dup() and its failures too.  A value is
\* accepted by each ec_htable_set() but one that returns EINVAL: that one
\* leaves the value to the caller, and no later call touches it.  (htable.h has
\* it freed by "On error, the passed value is freed"; the code does not.)
FreedOnce == GivenFreed /\ RefusedKept

\* An ec_htable_set() that fails leaves every table as it was, even though
\* __ec_htable_set() removes the previous entry before the resize that fails.
FailedSetKeepsTable ==
  [][ret'.op = "set" /\ ret'.rc \in Errors => tbl' = tbl]_vars

-----------------------------------------------------------------------------
\* What the caller sees: each table is an ordered map, and a value belongs to
\* the library for as long as some table maps to it.

Entries(T) == [i \in DOMAIN T.list |-> <<key[T.list[i]], T.list[i]>>]

Map == INSTANCE OrderedMap WITH
         content <- [h \in Handles |-> IF h \in live THEN Entries(tbl[h]) ELSE <<>>],
         owned   <- {v \in given : freed[v] = 0}

\* The hash table implements the ordered map: ec_htable_dup() is a single
\* step of the map although it is a loop that may fail halfway.
MapSpec == Map!Spec
=============================================================================
