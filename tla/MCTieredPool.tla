---------------------------- MODULE MCTieredPool ----------------------------
(* Two pages: of one and of two units on one GPU; two GPUs share pages of   *)
(* two units, or of two and three, so that one has a longer shard.          *)
EXTENDS TieredPool, TLC

MCPages == {"a", "b"}
MCSizes == [p \in MCPages |-> IF p = "a" THEN 1 ELSE 2]
MCEven == [p \in Pages |-> 2]
MCOdd == [p \in MCPages |-> IF p = "a" THEN 2 ELSE 3]
(* Pages of one size are interchangeable. *)
MCSymmetry == Permutations(Pages)
=============================================================================
