------------------------------ MODULE MCStrvec ------------------------------
(***************************************************************************)
(* Strvec for TLC.                                                         *)
(***************************************************************************)
EXTENDS Strvec, TLC

Symmetry == Permutations(Handles) \cup Permutations(Elts) \cup Permutations(Dicts)
=============================================================================
