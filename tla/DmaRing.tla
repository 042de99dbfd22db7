------------------------------- MODULE DmaRing -------------------------------
(***************************************************************************)
(* The descriptor ring of src/src/dma.rs.  Producers run submit(), one     *)
(* atomic load or store per step, since it takes &self and any thread may  *)
(* be inside it; the engine that consumes the ring is external (nothing    *)
(* in src/ calls peek and ack outside the tests) and follows the protocol  *)
(* the two methods and the tests prescribe: peek, execute, ack.  A watcher *)
(* calls is_done, whose two loads are two steps.                           *)
(*                                                                         *)
(* submitted and consumer are the code's u32 counters, kept modulo Word.   *)
(***************************************************************************)
EXTENDS Integers, Sequences

CONSTANTS
  Producers,    \* threads that call submit
  Capacity,     \* slots; 1024 in the code, a power of two
  Word,         \* the counters wrap at it; 2^32 in the code
  MaxSubmits    \* bound on the calls of submit

ASSUME RingAssumption ==
  /\ Capacity \in Nat \ {0}
  /\ Word \in Nat \ {0}
  /\ Word % Capacity = 0
  /\ MaxSubmits \in Nat

VARIABLES
  ring,         \* slot -> the descriptor last written there
  submitted,    \* the producer counter (completion.submitted)
  consumer,     \* the consumer counter
  completed,    \* completion.completed
  pc,           \* where each producer is in submit
  seen,         \* the value of submitted each producer loaded last
  desc,         \* the descriptor each producer submits
  calls,        \* calls of submit so far; each call brings a new descriptor
  peeked,       \* the descriptor the engine is executing, 0 for none
  executed,     \* the descriptors executed and acknowledged, in order
  accepted,     \* the descriptors whose submit returned Ok
  watch,        \* is_done: "done?" between its loads, or the last answer
  saw,          \* the value of submitted the watcher loaded last
  promised,     \* the descriptors accepted when it did
  idle          \* whether the counters have been equal since then

producerVars == <<ring, submitted, pc, seen, desc, calls, accepted>>
engineVars == <<consumer, completed, peeked, executed>>
watcherVars == <<watch, saw, promised, idle>>
vars == <<producerVars, engineVars, watcherVars>>

Descriptors == 1 .. MaxSubmits
Slots == 0 .. Capacity - 1

(* u32::saturating_sub *)
Saturating(a, b) == IF a >= b THEN a - b ELSE 0

(* DmaRing::new *)
Init ==
  /\ ring = [s \in Slots |-> 0]
  /\ submitted = 0
  /\ consumer = 0
  /\ completed = 0
  /\ pc = [p \in Producers |-> "idle"]
  /\ seen = [p \in Producers |-> 0]
  /\ desc = [p \in Producers |-> 0]
  /\ calls = 0
  /\ peeked = 0
  /\ executed = << >>
  /\ accepted = {}
  /\ watch = "no" /\ saw = 0 /\ promised = {} /\ idle = TRUE

At(p, from, to) == pc[p] = from /\ pc' = [pc EXCEPT ![p] = to]

-----------------------------------------------------------------------------
(* submit, first load of is_full: the producer counter.                    *)
LoadSubmitted(p) ==
  /\ calls < MaxSubmits
  /\ At(p, "idle", "full?")
  /\ calls' = calls + 1
  /\ desc' = [desc EXCEPT ![p] = calls + 1]
  /\ seen' = [seen EXCEPT ![p] = submitted]
  /\ UNCHANGED <<ring, submitted, accepted, engineVars, watcherVars>>

(* Mutant: the check is off by one. *)
FullPast(p) == Saturating(seen[p], consumer) > Capacity

Full(p) == Saturating(seen[p], consumer) >= Capacity

(* submit, second load of is_full: the consumer counter; a full ring is an *)
(* error.                                                                  *)
RefuseFull(p) ==
  /\ At(p, "full?", "idle")
  /\ Full(p)
  /\ UNCHANGED <<ring, submitted, seen, desc, calls, accepted, engineVars, watcherVars>>

FoundRoom(p) ==
  /\ At(p, "full?", "load")
  /\ ~Full(p)
  /\ UNCHANGED <<ring, submitted, seen, desc, calls, accepted, engineVars, watcherVars>>

(* submit loads the producer counter again to choose its slot.             *)
LoadProducer(p) ==
  /\ At(p, "load", "write")
  /\ seen' = [seen EXCEPT ![p] = submitted]
  /\ UNCHANGED <<ring, submitted, desc, calls, accepted, engineVars, watcherVars>>

(* Mutant: the index is that of the next slot. *)
WriteSlotAhead(p) ==
  /\ At(p, "write", "doorbell")
  /\ ring' = [ring EXCEPT ![(seen[p] + 1) % Capacity] = desc[p]]
  /\ UNCHANGED <<submitted, seen, desc, calls, accepted, engineVars, watcherVars>>

(* submit writes the slot with no guard but the check above.               *)
WriteSlot(p) ==
  /\ At(p, "write", "doorbell")
  /\ ring' = [ring EXCEPT ![seen[p] % Capacity] = desc[p]]
  /\ UNCHANGED <<submitted, seen, desc, calls, accepted, engineVars, watcherVars>>

(* submit stores the counter it loaded plus one.                           *)
RingDoorbell(p) ==
  /\ At(p, "doorbell", "idle")
  /\ submitted' = (seen[p] + 1) % Word
  /\ accepted' = accepted \cup {desc[p]}
  /\ UNCHANGED <<ring, seen, desc, calls, engineVars, watcherVars>>

Submit(p) ==
  \/ LoadSubmitted(p) \/ RefuseFull(p) \/ FoundRoom(p)
  \/ LoadProducer(p) \/ WriteSlot(p) \/ RingDoorbell(p)

-----------------------------------------------------------------------------
(* peek: the slot of the consumer counter, if it is behind the producer's. *)
Peek ==
  /\ peeked = 0
  /\ completed = consumer
  /\ consumer < submitted
  /\ peeked' = ring[consumer % Capacity]
  /\ UNCHANGED <<consumer, completed, executed, producerVars, watcherVars>>

(* ack frees the slot first and counts the completion after.               *)
Ack ==
  /\ peeked # 0
  /\ consumer' = (consumer + 1) % Word
  /\ executed' = Append(executed, peeked)
  /\ peeked' = 0
  /\ UNCHANGED <<completed, producerVars, watcherVars>>

(* Mutant: what was submitted is counted as completed. *)
MarkCompleteEarly ==
  /\ completed # submitted
  /\ completed' = (completed + 1) % Word
  /\ idle' = (idle \/ completed' = submitted)
  /\ UNCHANGED <<consumer, peeked, executed, watch, saw, promised, producerVars>>

(* Mutant: the completion of a lone descriptor is not counted. *)
MarkCompleteBehind ==
  /\ completed # consumer /\ consumer # submitted
  /\ completed' = (completed + 1) % Word
  /\ idle' = (idle \/ completed' = submitted)
  /\ UNCHANGED <<consumer, peeked, executed, watch, saw, promised, producerVars>>

MarkComplete ==
  /\ completed # consumer
  /\ completed' = (completed + 1) % Word
  /\ idle' = (idle \/ completed' = submitted)
  /\ UNCHANGED <<consumer, peeked, executed, watch, saw, promised, producerVars>>

-----------------------------------------------------------------------------
(* is_done, first load: the producer counter.                              *)
AskDone ==
  /\ watch # "done?"
  /\ watch' = "done?"
  /\ saw' = submitted
  /\ promised' = accepted
  /\ idle' = (submitted = completed)
  /\ UNCHANGED <<producerVars, engineVars>>

(* is_done, second load: the completions, compared with what was seen.     *)
AnswerDone ==
  /\ watch = "done?"
  /\ watch' = IF saw = completed THEN "yes" ELSE "no"
  /\ UNCHANGED <<saw, promised, idle, producerVars, engineVars>>

-----------------------------------------------------------------------------
Next ==
  \/ \E p \in Producers : Submit(p)
  \/ Peek
  \/ Ack
  \/ MarkComplete
  \/ AskDone
  \/ AnswerDone

(* The engine works on and the watcher keeps asking; producers may stop.   *)
Fairness ==
  /\ WF_vars(Peek) /\ WF_vars(Ack) /\ WF_vars(MarkComplete)
  /\ WF_vars(AskDone) /\ WF_vars(AnswerDone)

Spec == Init /\ [][Next]_vars
LiveSpec == Spec /\ Fairness

-----------------------------------------------------------------------------
(* How many descriptors lie between the counters, and which.               *)
Between == (submitted - consumer) % Word

Pending == [i \in 1 .. Between |-> ring[(consumer + i - 1) % Capacity]]

(* The descriptor the engine reads through the reference peek returned is  *)
(* not overwritten before it is acknowledged: what the SAFETY comment of   *)
(* submit claims of its slot (src/src/dma.rs:180-181).                     *)
PeekedIsStable == peeked # 0 => peeked = ring[consumer % Capacity]

Executed == {executed[i] : i \in DOMAIN executed}

(* When DmaCompletion::is_done says yes, every descriptor whose submit had *)
(* returned before it was called has been executed, whatever is submitted, *)
(* executed and counted between its two loads, though ack frees the slot   *)
(* before it counts the completion (src/src/dma.rs:84-87).                 *)
DoneMeansDrained == watch = "yes" => promised \subseteq Executed

(* Whoever keeps asking is told so in the end once nobody submits: no      *)
(* descriptor goes uncounted (src/src/dma.rs:84-87, 199-218).              *)
DoneIsSaid ==
  <>[](\A p \in Producers : pc[p] = "idle") => []<>(watch = "yes")

(* What the comment of is_done asks, "Are all submitted transfers          *)
(* complete?", of some moment of the call (src/src/dma.rs:84).  It is not  *)
(* so: a descriptor submitted between the loads, before the last one the   *)
(* watcher saw is complete, is overlooked, and at no time was all complete.*)
DoneMeansIdle == watch = "yes" => idle

(* With one producer and counters that do not wrap the ring is a bounded   *)
(* queue (src/src/dma.rs:107-112).                                         *)
Fifo == INSTANCE BoundedFifo WITH queue <- Pending
FifoSpec == Fifo!Spec
=============================================================================
