----------------------------- MODULE MCDramPool -----------------------------
(* A mapping of seven lines of two bytes, between two other mappings. *)
EXTENDS DramPool

MCRequests == {0, 1, 4, 5, 12}
=============================================================================
