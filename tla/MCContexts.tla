----------------------------- MODULE MCContexts -----------------------------
(* Two GPUs that can reach each other. *)
EXTENDS Contexts

MCCapable == {<<i, j>> \in GPUs \X GPUs : TRUE}
=============================================================================
