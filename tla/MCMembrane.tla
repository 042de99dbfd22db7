----------------------------- MODULE MCMembrane -----------------------------
(* Two pages of one size, of which one fits under the mark, and a smaller  *)
(* one that fits beside it; two blocks of the bigger size fill the device. *)
EXTENDS Membrane

MCSize == [p \in Pages |-> IF p = 2 THEN 1 ELSE 2]
=============================================================================
