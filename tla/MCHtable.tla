------------------------------ MODULE MCHtable ------------------------------
(***************************************************************************)
(* Htable for TLC: the array grows 0, 2, 4 (the code: 0, 8, 64), so that   *)
(* three keys force two resizes.  k1 and k2 share a chain at size 2 and    *)
(* part at size 4; k1 and k3 always collide.                               *)
(***************************************************************************)
EXTENDS Htable, TLC

CONSTANTS h1, h2, k1, k2, k3

MCHandles == {h1, h2}
MCKeys == {k1, k2, k3}
MCHash == k1 :> 0 @@ k2 :> 2 @@ k3 :> 4
ValSymmetry == Permutations(Vals)
=============================================================================
