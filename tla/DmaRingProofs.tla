---------------------------- MODULE DmaRingProofs ----------------------------
(***************************************************************************)
(* Proofs about DmaRing for a ring of any size, one producer and counters  *)
(* that do not wrap, beside a thread that asks is_done.  Two producers     *)
(* break the ring; what happens once the counters wrap is not modelled.    *)
(***************************************************************************)
EXTENDS DmaRing, TLAPS

(* The producer is the only one, and stops before the counters wrap. *)
Alone(p) == Producers = {p} /\ MaxSubmits < Word

-----------------------------------------------------------------------------
(* Between the counters lies a window of positions, each in a slot of its  *)
(* own.                                                                    *)

LEMMA DivMod ==
  ASSUME NEW a \in Int, NEW c \in Int, c > 0
  PROVE  a = c * (a \div c) + (a % c) /\ a \div c \in Int /\ a % c \in 0 .. c - 1
  <1>1. a = c * (a \div c) + (a % c)
    OBVIOUS
  <1>2. a \div c \in Int /\ a % c \in Int
    OBVIOUS
  <1>3. a % c >= 0 /\ a % c < c
    OBVIOUS
  <1>4. QED
    BY <1>1, <1>2, <1>3

LEMMA SmallMod ==
  ASSUME NEW a \in Int, NEW c \in Int, a >= 0, a < c
  PROVE  a % c = a
  OBVIOUS

(* Two positions in a window no longer than the ring have slots of their   *)
(* own.                                                                    *)
LEMMA SameSlot ==
  ASSUME NEW a \in Int, NEW b \in Int, NEW c \in Int, c > 0,
         a % c = b % c, a - b < c, b - a < c
  PROVE  a = b
  <1> DEFINE p == a \div c
             q == b \div c
             r == a % c
  <1>1. a = c * p + r /\ b = c * q + r /\ p \in Int /\ q \in Int /\ r \in Int
    BY DivMod
  <1> HIDE DEF p, q, r
  <1>2. a - b = c * (p - q) /\ b - a = c * (q - p)
    BY <1>1
  <1>3. ASSUME p - q >= 1 PROVE FALSE
    <2>1. c * (p - q) >= c
      BY <1>1, <1>3
    <2>2. QED
      BY <1>2, <2>1
  <1>4. ASSUME q - p >= 1 PROVE FALSE
    <2>1. c * (q - p) >= c
      BY <1>1, <1>4
    <2>2. QED
      BY <1>2, <2>1
  <1>5. p = q
    BY <1>1, <1>3, <1>4
  <1>6. QED
    BY <1>1, <1>5

LEMMA SlotExists ==
  ASSUME NEW i \in Nat
  PROVE  i % Capacity \in Slots
  BY DivMod, RingAssumption DEF Slots

-----------------------------------------------------------------------------
Window == consumer .. submitted - 1

Types ==
  /\ ring \in [Slots -> Descriptors \cup {0}]
  /\ submitted \in Nat /\ consumer \in Nat /\ completed \in Nat
  /\ pc \in [Producers -> {"idle", "full?", "load", "write", "doorbell"}]
  /\ seen \in [Producers -> Nat]
  /\ desc \in [Producers -> Descriptors \cup {0}]
  /\ calls \in 0 .. MaxSubmits
  /\ peeked \in Descriptors \cup {0}
  /\ executed \in Seq(Descriptors)
  /\ accepted \subseteq Descriptors

Counters ==
  /\ completed <= consumer /\ consumer <= submitted
  /\ submitted <= calls /\ submitted - consumer <= Capacity

(* What the producer loaded is still so: nobody else stores the counter,   *)
(* and the consumer only makes room.                                       *)
Producing(p) ==
  /\ pc[p] # "idle" => /\ submitted < calls /\ seen[p] = submitted
                       /\ desc[p] \in Descriptors
  /\ pc[p] \in {"load", "write", "doorbell"} => submitted - consumer < Capacity
  /\ pc[p] = "doorbell" => ring[submitted % Capacity] = desc[p]

Filled == \A i \in Window : ring[i % Capacity] \in Descriptors

Peeking ==
  peeked # 0 =>
    completed = consumer /\ consumer < submitted /\ peeked = ring[consumer % Capacity]

(* An accepted descriptor waits in the window until it is executed. *)
Kept ==
  \A d \in accepted : \/ d \in Executed
                      \/ \E i \in Window : ring[i % Capacity] = d

(* What the watcher was promised waits below the counter it saw until it   *)
(* is executed.                                                            *)
Watching ==
  /\ saw \in Nat /\ saw <= submitted
  /\ watch = "yes" => saw <= completed
  /\ \A d \in promised : \/ d \in Executed
                          \/ \E i \in consumer .. saw - 1 : ring[i % Capacity] = d

RingInv(p) ==
  Types /\ Counters /\ Producing(p) /\ Filled /\ Peeking /\ Kept /\ Watching

-----------------------------------------------------------------------------
LEMMA InitStep ==
  ASSUME NEW p, Alone(p), Init
  PROVE  RingInv(p)
  <1>1. Window = {}
    BY DEF Init, Window
  <1>2. << >> \in Seq(Descriptors)
    OBVIOUS
  <1>3. Types
    BY <1>2, RingAssumption DEF Init, Types
  <1>4. Counters /\ Producing(p) /\ Filled /\ Peeking /\ Kept /\ Watching
    BY <1>1, RingAssumption
    DEF Init, Counters, Producing, Filled, Peeking, Kept, Watching, Alone
  <1>5. QED
    BY <1>3, <1>4 DEF RingInv

(* The steps of submit that touch neither the ring nor the counter. *)
LEMMA LoadStep ==
  ASSUME NEW p, Alone(p), RingInv(p),
         LoadSubmitted(p) \/ RefuseFull(p) \/ FoundRoom(p) \/ LoadProducer(p)
  PROVE  /\ RingInv(p)'
         /\ UNCHANGED <<ring, submitted, consumer, executed>>
  <1> USE DEF RingInv, Alone
  <1>1. UNCHANGED <<ring, submitted, consumer, completed, peeked, executed, accepted,
                    watch, saw, promised>>
    BY DEF LoadSubmitted, RefuseFull, FoundRoom, LoadProducer, engineVars, watcherVars
  <1>2. (Filled /\ Peeking /\ Kept /\ Watching)'
    BY <1>1 DEF Filled, Peeking, Kept, Watching, Window, Executed
  <1>3. CASE LoadSubmitted(p)
    <2>1. /\ calls' = calls + 1 /\ calls' \in 0 .. MaxSubmits /\ calls' \in Descriptors
          /\ pc' = [pc EXCEPT ![p] = "full?"] /\ desc' = [desc EXCEPT ![p] = calls']
          /\ seen' = [seen EXCEPT ![p] = submitted]
      BY <1>3, RingAssumption DEF LoadSubmitted, At, Types, Descriptors
    <2>2. Types'
      BY <1>1, <2>1 DEF Types
    <2>3. Counters' /\ Producing(p)'
      BY <1>1, <2>1, RingAssumption DEF Types, Counters, Producing
    <2>4. QED
      BY <1>1, <1>2, <2>2, <2>3
  <1>4. CASE RefuseFull(p)
    <2>1. pc' = [pc EXCEPT ![p] = "idle"] /\ UNCHANGED <<seen, desc, calls>>
      BY <1>4 DEF RefuseFull, At
    <2>2. (Types /\ Counters /\ Producing(p))'
      BY <1>1, <2>1 DEF Types, Counters, Producing
    <2>3. QED
      BY <1>1, <1>2, <2>2
  <1>5. CASE FoundRoom(p)
    <2>1. /\ pc[p] = "full?" /\ pc' = [pc EXCEPT ![p] = "load"] /\ UNCHANGED <<seen, desc, calls>>
          /\ ~(Saturating(seen[p], consumer) >= Capacity)
      BY <1>5 DEF FoundRoom, At, Full
    <2>2. submitted - consumer < Capacity
      BY <2>1, RingAssumption DEF Saturating, Types, Counters, Producing
    <2>3. (Types /\ Counters /\ Producing(p))'
      BY <1>1, <2>1, <2>2 DEF Types, Counters, Producing
    <2>4. QED
      BY <1>1, <1>2, <2>3
  <1>6. CASE LoadProducer(p)
    <2>1. /\ pc[p] = "load" /\ pc' = [pc EXCEPT ![p] = "write"] /\ UNCHANGED <<desc, calls>>
          /\ seen' = [seen EXCEPT ![p] = submitted]
      BY <1>6 DEF LoadProducer, At
    <2>2. (Types /\ Counters /\ Producing(p))'
      BY <1>1, <2>1 DEF Types, Counters, Producing
    <2>3. QED
      BY <1>1, <1>2, <2>2
  <1>7. QED
    BY <1>3, <1>4, <1>5, <1>6

(* The slot that is written is outside the window. *)
LEMMA WriteStep ==
  ASSUME NEW p, Alone(p), RingInv(p), WriteSlot(p)
  PROVE  /\ RingInv(p)'
         /\ \A i \in Window : ring'[i % Capacity] = ring[i % Capacity]
         /\ UNCHANGED <<submitted, consumer, executed>>
  <1> USE DEF RingInv, Alone
  <1>1. /\ pc[p] = "write" /\ pc' = [pc EXCEPT ![p] = "doorbell"] /\ seen[p] = submitted
        /\ submitted - consumer < Capacity
        /\ UNCHANGED <<submitted, consumer, completed, peeked, executed, accepted,
                       seen, desc, calls, watch, saw, promised>>
    BY DEF WriteSlot, At, Producing, engineVars, watcherVars
  <1>2. /\ submitted % Capacity \in Slots /\ desc[p] \in Descriptors
        /\ ring' = [ring EXCEPT ![submitted % Capacity] = desc[p]]
    BY <1>1, SlotExists DEF WriteSlot, Types, Producing
  <1>3. ASSUME NEW i \in Window
        PROVE  ring'[i % Capacity] = ring[i % Capacity]
    <2>1. i \in Nat /\ i < submitted /\ submitted - i < Capacity /\ i - submitted < Capacity
      BY <1>1, RingAssumption DEF Window, Types
    <2>2. i % Capacity # submitted % Capacity
      BY SMTT(30), <2>1, SameSlot, RingAssumption DEF Types
    <2>3. QED
      BY <1>2, <2>1, <2>2, SlotExists DEF Types
  <1>4. Types'
    BY <1>1, <1>2 DEF Types
  <1>5. Counters' /\ Producing(p)'
    BY <1>1, <1>2 DEF Types, Counters, Producing
  <1>6. Filled' /\ Kept'
    BY <1>1, <1>3 DEF Filled, Kept, Window, Executed
  <1>7. Peeking'
    BY <1>1, <1>3 DEF Peeking, Window, Types
  <1>8. Watching'
    <2>1. \A i \in consumer .. saw - 1 : i \in Window
      BY DEF Window, Watching, Types
    <2>2. QED
      BY <1>1, <1>3, <2>1 DEF Watching, Executed
  <1>9. QED
    BY <1>1, <1>3, <1>4, <1>5, <1>6, <1>7, <1>8

(* Storing the counter puts the descriptor at the end of the window. *)
LEMMA DoorbellStep ==
  ASSUME NEW p, Alone(p), RingInv(p), RingDoorbell(p)
  PROVE  /\ RingInv(p)'
         /\ submitted' = submitted + 1 /\ submitted - consumer < Capacity
         /\ ring[submitted % Capacity] \in Descriptors
         /\ UNCHANGED <<ring, consumer, executed>>
  <1> USE DEF RingInv, Alone
  <1>1. /\ pc[p] = "doorbell" /\ pc' = [pc EXCEPT ![p] = "idle"] /\ seen[p] = submitted
        /\ submitted - consumer < Capacity /\ submitted < calls
        /\ ring[submitted % Capacity] = desc[p] /\ desc[p] \in Descriptors
        /\ accepted' = accepted \cup {desc[p]}
        /\ UNCHANGED <<ring, consumer, completed, peeked, executed, seen, desc, calls,
                       watch, saw, promised>>
    BY DEF RingDoorbell, At, Producing, engineVars, watcherVars
  <1>2. submitted + 1 < Word /\ submitted + 1 \in Int /\ submitted + 1 >= 0 /\ Word \in Int
    BY <1>1, RingAssumption DEF Types
  <1>3. submitted' = submitted + 1
    BY <1>1, <1>2, SmallMod DEF RingDoorbell
  <1>4. \A i : i \in Window' <=> i \in Window \/ i = submitted
    BY <1>1, <1>3 DEF Window, Types, Counters
  <1>5. (Types /\ Counters /\ Producing(p))'
    BY <1>1, <1>3, RingAssumption DEF Types, Counters, Producing
  <1>6. Filled' /\ Kept'
    BY <1>1, <1>4 DEF Filled, Kept, Executed
  <1>7. Peeking'
    BY <1>1, <1>3 DEF Peeking, Types
  <1>8. Watching'
    BY <1>1, <1>3 DEF Watching, Executed, Types
  <1>9. QED
    BY <1>1, <1>3, <1>5, <1>6, <1>7, <1>8

-----------------------------------------------------------------------------
(* The engine. *)
LEMMA PeekStep ==
  ASSUME NEW p, Alone(p), RingInv(p), Peek
  PROVE  RingInv(p)' /\ UNCHANGED <<ring, submitted, consumer, executed>>
  <1> USE DEF RingInv
  <1>1. /\ completed = consumer /\ consumer < submitted
        /\ peeked' = ring[consumer % Capacity]
        /\ UNCHANGED <<ring, submitted, consumer, completed, executed, accepted,
                       pc, seen, desc, calls, watch, saw, promised>>
    BY DEF Peek, producerVars, watcherVars
  <1>2. peeked' \in Descriptors
    BY <1>1 DEF Filled, Window, Types
  <1>3. (Types /\ Counters /\ Producing(p))'
    BY <1>1, <1>2 DEF Types, Counters, Producing
  <1>4. (Filled /\ Peeking /\ Kept /\ Watching)'
    BY <1>1 DEF Filled, Peeking, Kept, Watching, Window, Executed
  <1>5. QED
    BY <1>1, <1>3, <1>4

LEMMA AckStep ==
  ASSUME NEW p, Alone(p), RingInv(p), Ack
  PROVE  /\ RingInv(p)'
         /\ consumer < submitted /\ consumer' = consumer + 1
         /\ executed' = Append(executed, ring[consumer % Capacity])
         /\ UNCHANGED <<ring, submitted>>
  <1> USE DEF RingInv, Alone
  <1>1. /\ peeked # 0 /\ consumer < submitted /\ peeked = ring[consumer % Capacity]
        /\ peeked \in Descriptors /\ peeked' = 0
        /\ executed' = Append(executed, ring[consumer % Capacity])
        /\ UNCHANGED <<ring, submitted, completed, accepted, pc, seen, desc, calls,
                       watch, saw, promised>>
    BY DEF Ack, producerVars, watcherVars, Peeking, Types
  <1>2. consumer + 1 < Word /\ consumer + 1 \in Int /\ consumer + 1 >= 0 /\ Word \in Int
    BY <1>1, RingAssumption DEF Types, Counters
  <1>3. consumer' = consumer + 1
    BY <1>2, SmallMod DEF Ack
  <1>4. \A i : i \in Window <=> i \in Window' \/ i = consumer
    BY <1>1, <1>3 DEF Window, Types
  <1>5. /\ executed' \in Seq(Descriptors)
        /\ \A d : d \in Executed \/ d = ring[consumer % Capacity] => d \in Executed'
    <2>1. /\ executed' \in Seq(Descriptors)
          /\ DOMAIN executed \subseteq DOMAIN executed'
          /\ \A i \in DOMAIN executed : executed'[i] = executed[i]
          /\ Len(executed) + 1 \in DOMAIN executed'
          /\ executed'[Len(executed) + 1] = ring[consumer % Capacity]
      BY <1>1 DEF Types
    <2>2. QED
      BY <2>1 DEF Executed
  <1>6. (Types /\ Counters)'
    BY <1>1, <1>3, <1>5, RingAssumption DEF Types, Counters
  <1>7. Producing(p)'
    BY <1>1, <1>3, RingAssumption DEF Types, Producing
  <1>8. Filled' /\ Peeking'
    BY <1>1, <1>4 DEF Filled, Peeking
  <1>9. Kept'
    BY <1>1, <1>4, <1>5 DEF Kept
  <1>10. Watching'
    <2>1. \A i \in consumer .. saw - 1 : i = consumer \/ i \in consumer' .. saw - 1
      BY <1>3 DEF Watching, Types
    <2>2. QED
      BY <1>1, <1>5, <2>1 DEF Watching
  <1>11. QED
    BY <1>1, <1>3, <1>6, <1>7, <1>8, <1>9, <1>10

LEMMA CompleteStep ==
  ASSUME NEW p, Alone(p), RingInv(p), MarkComplete
  PROVE  RingInv(p)' /\ UNCHANGED <<ring, submitted, consumer, executed>>
  <1> USE DEF RingInv, Alone
  <1>1. /\ completed < consumer /\ peeked = 0
        /\ UNCHANGED <<ring, submitted, consumer, peeked, executed, accepted,
                       pc, seen, desc, calls, watch, saw, promised>>
    BY DEF MarkComplete, producerVars, Counters, Types, Peeking
  <1>2. completed + 1 < Word /\ completed + 1 \in Int /\ completed + 1 >= 0 /\ Word \in Int
    BY <1>1, RingAssumption DEF Types, Counters
  <1>3. completed' = completed + 1
    BY <1>2, SmallMod DEF MarkComplete
  <1>4. (Types /\ Counters /\ Producing(p))'
    BY <1>1, <1>3 DEF Types, Counters, Producing
  <1>5. (Filled /\ Peeking /\ Kept)'
    BY <1>1 DEF Filled, Peeking, Kept, Window, Executed
  <1>6. Watching'
    BY <1>1, <1>3 DEF Watching, Executed, Types
  <1>7. QED
    BY <1>1, <1>4, <1>5, <1>6

-----------------------------------------------------------------------------
(* The watcher: at its first load what is accepted waits below the counter *)
(* it sees, and at its second all of that has been counted.                *)
LEMMA WatchStep ==
  ASSUME NEW p, Alone(p), RingInv(p), AskDone \/ AnswerDone
  PROVE  RingInv(p)' /\ UNCHANGED <<ring, submitted, consumer, executed>>
  <1> USE DEF RingInv
  <1>1. UNCHANGED <<ring, submitted, consumer, completed, peeked, executed, accepted,
                    pc, seen, desc, calls>>
    BY DEF AskDone, AnswerDone, producerVars, engineVars
  <1>2. (Types /\ Counters /\ Producing(p))'
    BY <1>1 DEF Types, Counters, Producing
  <1>3. (Filled /\ Peeking /\ Kept)'
    BY <1>1 DEF Filled, Peeking, Kept, Window, Executed
  <1>4. CASE AskDone
    <2>1. watch' = "done?" /\ saw' = submitted /\ promised' = accepted
      BY <1>4 DEF AskDone
    <2>2. Watching'
      BY <1>1, <2>1 DEF Watching, Kept, Window, Executed, Types
    <2>3. QED
      BY <1>1, <1>2, <1>3, <2>2
  <1>5. CASE AnswerDone
    <2>1. (watch' = "yes" => saw = completed) /\ UNCHANGED <<saw, promised>>
      BY <1>5 DEF AnswerDone
    <2>2. Watching'
      BY <1>1, <2>1 DEF Watching, Executed, Types
    <2>3. QED
      BY <1>1, <1>2, <1>3, <2>2
  <1>6. QED
    BY <1>4, <1>5

LEMMA NextStep ==
  ASSUME NEW p, Alone(p), RingInv(p), [Next]_vars
  PROVE  RingInv(p)'
  <1>1. CASE UNCHANGED vars
    BY <1>1 DEF vars, producerVars, engineVars, watcherVars, RingInv, Types, Counters,
       Producing, Filled, Peeking, Kept, Watching, Window, Executed
  <1>2. CASE Submit(p)
    BY <1>2, LoadStep, WriteStep, DoorbellStep DEF Submit
  <1>3. CASE Peek \/ Ack \/ MarkComplete
    BY <1>3, PeekStep, AckStep, CompleteStep
  <1>4. CASE AskDone \/ AnswerDone
    BY <1>4, WatchStep
  <1>5. QED
    BY <1>1, <1>2, <1>3, <1>4 DEF Next, Alone

(* With one producer the slots between the counters are the accepted       *)
(* descriptors, and submit writes outside them: the inductive invariant.   *)
THEOREM RingInductive ==
  ASSUME NEW CONSTANT p, Alone(p)
  PROVE  Spec => []RingInv(p)
  BY InitStep, NextStep, PTL DEF Spec

-----------------------------------------------------------------------------
(* With one producer the slot the engine reads is never written before it  *)
(* is acknowledged, though submit checks for room and writes in separate   *)
(* steps (src/src/dma.rs:180-181).                                         *)
THEOREM PeekedIsAlwaysStable ==
  ASSUME NEW CONSTANT p, Alone(p)
  PROVE  Spec => []PeekedIsStable
  <1>1. RingInv(p) => PeekedIsStable
    BY DEF RingInv, Peeking, PeekedIsStable
  <1>2. QED
    BY <1>1, RingInductive, PTL

(* A yes of is_done covers every descriptor accepted before the call, each *)
(* of its two loads a step of its own and anything between them            *)
(* (src/src/dma.rs:84-87).                                                 *)
THEOREM DoneAlwaysMeansDrained ==
  ASSUME NEW CONSTANT p, Alone(p)
  PROVE  Spec => []DoneMeansDrained
  <1>1. RingInv(p) => DoneMeansDrained
    <2> SUFFICES ASSUME RingInv(p), watch = "yes", NEW d \in promised
                 PROVE  d \in Executed
      BY DEF DoneMeansDrained
    <2>1. consumer .. saw - 1 = {}
      BY DEF RingInv, Types, Counters, Watching
    <2>2. QED
      BY <2>1 DEF RingInv, Watching
  <1>2. QED
    BY <1>1, RingInductive, PTL

-----------------------------------------------------------------------------
(* What lies in ring r between the counters c and s, as a sequence. *)
Waiting(r, c, s) == [i \in 1 .. ((s - c) % Word) |-> r[(c + i - 1) % Capacity]]

LEMMA WaitingIs ==
  ASSUME NEW r, NEW c \in Nat, NEW s \in Nat, c <= s, s - c < Word,
         \A i \in c .. s - 1 : r[i % Capacity] \in Descriptors
  PROVE  /\ Waiting(r, c, s) \in Seq(Descriptors) /\ Len(Waiting(r, c, s)) = s - c
         /\ \A i \in 1 .. s - c : Waiting(r, c, s)[i] = r[(c + i - 1) % Capacity]
  <1>1. s - c \in Int /\ s - c >= 0 /\ Word \in Int /\ (s - c) % Word = s - c
    <2>1. s - c \in Int /\ s - c >= 0 /\ Word \in Int
      BY RingAssumption
    <2>2. QED
      BY <2>1, SmallMod
  <1>2. Waiting(r, c, s) = [i \in 1 .. s - c |-> r[(c + i - 1) % Capacity]]
    BY <1>1 DEF Waiting
  <1>3. \A i \in 1 .. s - c : r[(c + i - 1) % Capacity] \in Descriptors
    <2>1. \A i \in 1 .. s - c : c + i - 1 \in c .. s - 1
      OBVIOUS
    <2>2. QED
      BY <2>1
  <1>4. QED
    BY <1>1, <1>2, <1>3

(* Each step is one of the queue's or changes neither what is pending nor  *)
(* what is executed.                                                       *)
LEMMA StepRefines ==
  ASSUME NEW p, Alone(p), RingInv(p), [Next]_vars
  PROVE  [Fifo!Next]_Fifo!vars
  <1> DEFINE n == submitted - consumer
  <1>1. RingInv(p)'
    BY NextStep
  <1>2. /\ Pending \in Seq(Descriptors) /\ Len(Pending) = n /\ n \in Nat
        /\ \A i \in 1 .. n : Pending[i] = ring[(consumer + i - 1) % Capacity]
    <2>1. /\ submitted \in Nat /\ consumer \in Nat /\ consumer <= submitted
          /\ submitted - consumer < Word
          /\ \A i \in consumer .. submitted - 1 : ring[i % Capacity] \in Descriptors
      BY RingAssumption DEF RingInv, Types, Counters, Filled, Window, Alone
    <2>2. Pending = Waiting(ring, consumer, submitted)
      BY DEF Pending, Between, Waiting
    <2>3. /\ Waiting(ring, consumer, submitted) \in Seq(Descriptors)
          /\ Len(Waiting(ring, consumer, submitted)) = submitted - consumer
          /\ \A i \in 1 .. submitted - consumer :
               Waiting(ring, consumer, submitted)[i] = ring[(consumer + i - 1) % Capacity]
      BY <2>1, WaitingIs
    <2>4. QED
      BY <2>1, <2>2, <2>3
  <1>3. /\ Pending' \in Seq(Descriptors) /\ Len(Pending') = submitted' - consumer'
        /\ \A i \in 1 .. submitted' - consumer' :
             Pending'[i] = ring'[(consumer' + i - 1) % Capacity]
    <2>1. submitted' \in Nat /\ consumer' \in Nat /\ calls' \in 0 .. MaxSubmits
      BY <1>1 DEF RingInv, Types
    <2>2. consumer' <= submitted' /\ submitted' <= calls'
      BY <1>1 DEF RingInv, Counters
    <2>3. MaxSubmits < Word /\ MaxSubmits \in Nat /\ Word \in Nat
      BY RingAssumption DEF Alone
    <2>4. submitted' - consumer' < Word
      <3> DEFINE a == submitted' b == consumer' d == calls'
      <3>1. a \in Nat /\ b \in Nat /\ d <= MaxSubmits /\ d \in Nat /\ b <= a /\ a <= d
        BY <2>1, <2>2, <2>3
      <3> HIDE DEF a, b, d
      <3>2. a - b < Word
        BY <3>1, <2>3
      <3>3. QED
        BY <3>2 DEF a, b
    <2>5. \A i \in consumer' .. submitted' - 1 : ring'[i % Capacity] \in Descriptors
      BY <1>1 DEF RingInv, Filled, Window
    <2>6. Pending' = Waiting(ring', consumer', submitted')
      BY DEF Pending, Between, Waiting
    <2>7. /\ Waiting(ring', consumer', submitted') \in Seq(Descriptors)
          /\ Len(Waiting(ring', consumer', submitted')) = submitted' - consumer'
          /\ \A i \in 1 .. submitted' - consumer' :
               Waiting(ring', consumer', submitted')[i] = ring'[(consumer' + i - 1) % Capacity]
      BY <2>1, <2>2, <2>4, <2>5, WaitingIs
    <2>8. QED
      BY <2>6, <2>7, Zenon
  <1> HIDE DEF n
  <1>4. ASSUME submitted' = submitted, consumer' = consumer, executed' = executed,
               \A i \in Window : ring'[i % Capacity] = ring[i % Capacity]
        PROVE  UNCHANGED Fifo!vars
    <2>1. \A i \in 1 .. n : consumer + i - 1 \in Window
      BY <1>2 DEF n, Window, RingInv, Types
    <2>2. \A i \in 1 .. n : Pending'[i] = Pending[i]
      BY <1>2, <1>3, <1>4, <2>1 DEF n
    <2>3. Pending' = Pending
      BY <1>2, <1>3, <1>4, <2>2 DEF n
    <2>4. QED
      BY <1>4, <2>3 DEF Fifo!vars
  <1>5. CASE RingDoorbell(p)
    <2> DEFINE d == ring[submitted % Capacity]
    <2>1. /\ submitted' = submitted + 1 /\ n < Capacity /\ d \in Descriptors
          /\ UNCHANGED <<ring, consumer, executed>>
      BY <1>5, DoorbellStep DEF n
    <2>2. Len(Pending') = n + 1 /\ Pending'[n + 1] = d
      BY <1>2, <1>3, <2>1 DEF n, RingInv, Types
    <2>3. \A i \in 1 .. n : Pending'[i] = Pending[i]
      BY <1>2, <1>3, <2>1 DEF n, RingInv, Types
    <2> HIDE DEF d
    <2>4. Pending' = Append(Pending, d)
      BY <1>2, <1>3, <2>1, <2>2, <2>3
    <2>5. Fifo!Accept(d)
      BY <1>2, <2>1, <2>4 DEF Fifo!Accept
    <2>6. QED
      BY <2>1, <2>5 DEF Fifo!Next
  <1>6. CASE Ack
    <2>1. /\ consumer < submitted /\ consumer' = consumer + 1
          /\ executed' = Append(executed, ring[consumer % Capacity])
          /\ UNCHANGED <<ring, submitted>>
      BY <1>6, AckStep
    <2>2. Pending # << >> /\ Head(Pending) = ring[consumer % Capacity] /\ n >= 1
      BY <1>2, <2>1 DEF n, RingInv, Types
    <2>3. Len(Pending') = n - 1 /\ \A i \in 1 .. n - 1 : Pending'[i] = Pending[i + 1]
      BY <1>2, <1>3, <2>1 DEF n, RingInv, Types
    <2>4. Pending' = Tail(Pending)
      BY <1>2, <1>3, <2>2, <2>3
    <2>5. Fifo!Consume
      BY <2>1, <2>2, <2>4 DEF Fifo!Consume
    <2>6. QED
      BY <2>5 DEF Fifo!Next
  <1>7. CASE WriteSlot(p)
    BY <1>4, <1>7, WriteStep
  <1>8. CASE LoadSubmitted(p) \/ RefuseFull(p) \/ FoundRoom(p) \/ LoadProducer(p)
    BY <1>4, <1>8, LoadStep
  <1>9. CASE Peek \/ MarkComplete \/ AskDone \/ AnswerDone
    BY <1>4, <1>9, PeekStep, CompleteStep, WatchStep
  <1>10. CASE UNCHANGED vars
    BY <1>4, <1>10 DEF vars, producerVars, engineVars
  <1>11. QED
    BY <1>5, <1>6, <1>7, <1>8, <1>9, <1>10 DEF Next, Submit, Alone

(* With one producer the ring is a bounded queue: a descriptor whose       *)
(* submit returns Ok is executed once, in order, and none is lost or read  *)
(* twice (src/src/dma.rs:107-112).                                         *)
THEOREM RingIsFifo ==
  ASSUME NEW CONSTANT p, Alone(p)
  PROVE  Spec => FifoSpec
  <1>1. Init => Fifo!Init
    <2>1. ASSUME Init PROVE Pending = << >> /\ executed = << >>
      BY <2>1, SmallMod, RingAssumption DEF Init, Pending, Between
    <2>2. QED
      BY <2>1 DEF Fifo!Init
  <1>2. QED
    BY <1>1, StepRefines, RingInductive, PTL DEF Spec, FifoSpec, Fifo!Spec
=============================================================================
