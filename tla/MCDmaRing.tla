------------------------------ MODULE MCDmaRing ------------------------------
(* Two slots, filled and drained more than once, beside a thread that asks *)
(* is_done again and again.                                                *)
EXTENDS DmaRing
=============================================================================
