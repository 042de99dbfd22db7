----------------------------- MODULE BoundedFifo -----------------------------
(***************************************************************************)
(* What a descriptor ring promises: a queue of at most Capacity entries    *)
(* from which entries leave in the order they were accepted, each once.    *)
(***************************************************************************)
EXTENDS Naturals, Sequences

CONSTANTS
  Capacity,     \* slots
  Descriptors   \* what is queued

VARIABLES
  queue,        \* accepted and not consumed yet
  executed      \* consumed, in order

vars == <<queue, executed>>

Init ==
  /\ queue = << >>
  /\ executed = << >>

Accept(d) ==
  /\ Len(queue) < Capacity
  /\ queue' = Append(queue, d)
  /\ UNCHANGED executed

Consume ==
  /\ queue # << >>
  /\ executed' = Append(executed, Head(queue))
  /\ queue' = Tail(queue)

Next ==
  \/ \E d \in Descriptors : Accept(d)
  \/ Consume

Spec == Init /\ [][Next]_vars
=============================================================================
