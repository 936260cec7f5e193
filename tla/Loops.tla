------------------------------- MODULE Loops -------------------------------
(***************************************************************************)
(* The loops of the parse engine, as functions.                            *)
(***************************************************************************)
EXTENDS Integers

\* What a loop gives: iteration i makes step[i][x] of what the ones before made.
Loop(step, first, n) ==
  LET after[i \in 0..n] == IF i = 0 THEN first ELSE step[i][after[i - 1]] IN after[n]
=============================================================================
