--------------------------- MODULE ContextsProofs ---------------------------
(***************************************************************************)
(* Proofs about Contexts, for any number of GPUs, either kind of owner,    *)
(* any peer topology and any number of owners one after the other.         *)
(***************************************************************************)
EXTENDS Contexts, SequenceTheorems, TLAPS

-----------------------------------------------------------------------------
(* What is left to drop, at every point of the three ways to drop.         *)
UnwindingRests ==
  {<<"guard", "probe", "streams", "contexts", "cluster">>,
   <<"probe", "streams", "contexts", "cluster">>,
   <<"streams", "contexts", "cluster">>,
   <<"contexts", "cluster">>, <<"cluster">>, << >>}

PoolRests ==
  {<<"caches", "pools", "cluster", "streams", "contexts", "events">>,
   <<"pools", "cluster", "streams", "contexts", "events">>,
   <<"cluster", "streams", "contexts", "events">>,
   <<"streams", "contexts", "events">>,
   <<"contexts", "events">>, <<"events">>, << >>}

EngineRests ==
  {<<"cluster", "contexts", "streams">>, <<"contexts", "streams">>,
   <<"streams">>, << >>}

Due == ToSet(call.drops)

-----------------------------------------------------------------------------
Steps == {"retained", "entered", "done", "left", "compute", "mapped"}

PhaseNames ==
  {"rest", "probe", "matrix", "enable", "registry", "streams", "map", "built", "drop"}

DropLists == UnwindingRests \cup PoolRests \cup EngineRests

CuType ==
  [refs : [GPUs -> Nat], peers : SUBSET (GPUs \X GPUs),
   blocks : SUBSET (GPUs \X {"page", "cached", "skipped"})]

CallType ==
  [kind : Kinds, lives : Nat, phase : PhaseNames, at : GPUs, body : SUBSET Steps,
   guard : 0 .. N, probe : 0 .. N, drops : DropLists, whole : BOOLEAN]

OwnType ==
  [matrix : SUBSET GPUs, enabled : SUBSET (GPUs \X GPUs), registry : SUBSET GPUs,
   streams : SUBSET [gpu : GPUs, use : {"compute", "prefetch"}, ctx : 0 .. N],
   mapped : SUBSET GPUs, pinned : SUBSET GPUs, inflight : SUBSET GPUs]

Types ==
  /\ host \subseteq GPUs
  /\ cu \in CuType /\ call \in CallType /\ own \in OwnType
  /\ stack \in Seq(0 .. N) /\ entry \in Seq(0 .. N)

(* Each context is retained once by each of those who hold it. *)
Refcounts ==
  \A g \in GPUs :
    cu.refs[g] = (IF g \in host THEN 1 ELSE 0) + (IF g = call.probe THEN 1 ELSE 0)
               + (IF g \in own.matrix THEN 1 ELSE 0)
               + (IF g \in own.registry THEN 1 ELSE 0)

(* How far the constructor has come. *)
Progress ==
  LET ph == call.phase
      before == 1 .. call.at - 1
  IN  /\ ph \in {"rest", "built"} => call.at = 1
      /\ ph \in {"matrix", "enable"} => call.kind = "engine"
      /\ ph = "map" => call.kind = "pool"
      /\ ph = "rest" => own = NothingOwned /\ cu.blocks = {}
      /\ ph = "probe" => own = NothingOwned
      /\ ph = "matrix" => own.matrix = before /\ own.registry = {}
      /\ ph = "enable" => own.matrix = GPUs /\ own.registry = {}
      /\ ph = "registry" => own.registry = before
      /\ ph \in {"streams", "map", "built"} => own.registry = GPUs
      /\ ph \in {"matrix", "enable", "registry"} => own.streams = {}
      /\ ph \in {"matrix", "enable", "registry", "streams"} =>
           own.mapped = {} /\ own.pinned = {}
      /\ ph = "map" => before \subseteq own.mapped
      /\ ph = "built" /\ call.kind = "pool" => own.mapped = GPUs
      /\ Constructing => own.inflight = {} /\ cu.blocks = {}
      /\ ph \notin {"built", "drop"} => ~call.whole
      /\ ph = "built" => call.whole
      /\ call.kind = "engine" =>
           /\ own.mapped = {} /\ own.pinned = {} /\ own.inflight = {}
           /\ \A g \in GPUs : <<g, "cached">> \notin cu.blocks

(* Where in a turn of its loop, and what it holds for that turn only. *)
Turn ==
  LET ph == call.phase
      entered == "entered" \in call.body /\ "left" \notin call.body
  IN  /\ ph = "probe" =>
           /\ call.body \in {{}, {"retained"}, {"retained", "entered"},
                             {"retained", "entered", "done"},
                             {"retained", "entered", "done", "left"}}
           /\ call.probe = IF "retained" \in call.body THEN call.at ELSE 0
      /\ ph = "enable" => call.body \in {{}, {"entered"}, {"entered", "done"}}
      /\ ph = "streams" =>
           call.body \in {{}, {"entered"}, {"entered", "compute"},
                          {"entered", "compute", "done"}}
      /\ ph = "map" =>
           /\ call.body \in {{}, {"mapped"}, {"mapped", "entered"},
                             {"mapped", "entered", "done"}}
           /\ "mapped" \in call.body => call.at \in own.mapped
      /\ ph \in {"rest", "matrix", "registry", "built", "drop"} => call.body = {}
      /\ ph \notin {"probe", "drop"} => call.probe = 0
      /\ ph # "drop" => call.guard = IF entered THEN call.at ELSE 0

(* What there is yet to drop is on the list, and only that. *)
Ending ==
  call.phase = "drop" =>
    /\ call.drops \in IF ~call.whole THEN UnwindingRests
                      ELSE IF call.kind = "pool" THEN PoolRests ELSE EngineRests
    /\ call.guard # 0 =>
         IF call.whole THEN "caches" \in Due /\ call.guard = call.at ELSE "guard" \in Due
    /\ call.guard # 0 => call.guard = call.probe \/ call.guard \in own.matrix \cup own.registry
    /\ call.probe # 0 => "probe" \in Due
    /\ "cluster" \notin Due => own.matrix = {} /\ own.enabled = {}
    /\ "contexts" \notin Due => own.registry = {}
    /\ call.whole /\ "contexts" \in Due => own.registry = GPUs
    /\ "streams" \notin Due => own.streams = {}
    /\ ~call.whole \/ "events" \notin Due => own.inflight = {}
    /\ "guard" \notin Due /\ ~call.whole => call.at = 1
    /\ call.whole /\ "caches" \notin Due /\ "pools" \notin Due => call.at = 1

(* The pool's loops on the way out. *)
Emptying ==
  call.phase = "drop" =>
    /\ "claim" \in Careful => own.inflight = {}
    /\ "demote" \in Careful =>
         /\ \A g \in GPUs : <<g, "page">> \notin cu.blocks
         /\ \A g \in GPUs : <<g, "cached">> \in cu.blocks =>
              call.whole /\ "caches" \in Due /\ g >= call.at
    /\ call.whole /\ "caches" \notin Due =>
         \A g \in own.mapped \cup own.pinned : "pools" \in Due /\ g >= call.at

(* The stack, the streams, the peer mappings and the host memory.          *)
StackOK == stack = IF call.guard = 0 THEN entry ELSE Append(entry, call.guard)

StreamsOK ==
  \A s \in own.streams : s.ctx = s.gpu /\ (call.kind = "pool" => s.gpu \in own.registry)

PeersOK ==
  \A p \in own.enabled : p \in cu.peers /\ p[1] \in own.matrix /\ p[2] \in own.matrix

PinnedOK ==
  /\ own.pinned \subseteq own.mapped
  /\ "claim" \in Careful => own.inflight \subseteq own.mapped

CtxInv ==
  /\ Types /\ Refcounts /\ Progress /\ Turn /\ Ending /\ Emptying
  /\ StackOK /\ StreamsOK /\ PeersOK /\ PinnedOK

-----------------------------------------------------------------------------
(* The next loop of either constructor. *)
LEMMA FollowingIs ==
  /\ call.kind = "pool" =>
       /\ Following("probe") = "registry" /\ Following("registry") = "streams"
       /\ Following("streams") = "map" /\ Following("map") = "built"
  /\ call.kind = "engine" =>
       /\ Following("probe") = "matrix" /\ Following("matrix") = "enable"
       /\ Following("enable") = "registry" /\ Following("registry") = "streams"
       /\ Following("streams") = "built"
  BY DEF Following, Phases

LEMMA PhasesAreNamed ==
  /\ "rest" \in PhaseNames /\ "probe" \in PhaseNames /\ "matrix" \in PhaseNames
  /\ "enable" \in PhaseNames /\ "registry" \in PhaseNames /\ "streams" \in PhaseNames
  /\ "map" \in PhaseNames /\ "built" \in PhaseNames /\ "drop" \in PhaseNames
  BY DEF PhaseNames

(* What is on each list. *)
LEMMA ListItems ==
  /\ ToSet(<<"guard", "probe", "streams", "contexts", "cluster">>)
       = {"guard", "probe", "streams", "contexts", "cluster"}
  /\ ToSet(<<"probe", "streams", "contexts", "cluster">>)
       = {"probe", "streams", "contexts", "cluster"}
  /\ ToSet(<<"streams", "contexts", "cluster">>)
       = {"streams", "contexts", "cluster"}
  /\ ToSet(<<"contexts", "cluster">>) = {"contexts", "cluster"}
  /\ ToSet(<<"cluster">>) = {"cluster"}
  /\ ToSet(<<"caches", "pools", "cluster", "streams", "contexts", "events">>)
       = {"caches", "pools", "cluster", "streams", "contexts", "events"}
  /\ ToSet(<<"pools", "cluster", "streams", "contexts", "events">>)
       = {"pools", "cluster", "streams", "contexts", "events"}
  /\ ToSet(<<"cluster", "streams", "contexts", "events">>)
       = {"cluster", "streams", "contexts", "events"}
  /\ ToSet(<<"streams", "contexts", "events">>) = {"streams", "contexts", "events"}
  /\ ToSet(<<"contexts", "events">>) = {"contexts", "events"}
  /\ ToSet(<<"events">>) = {"events"}
  /\ ToSet(<<"cluster", "contexts", "streams">>)
       = {"cluster", "contexts", "streams"}
  /\ ToSet(<<"contexts", "streams">>) = {"contexts", "streams"}
  /\ ToSet(<<"streams">>) = {"streams"}
  /\ ToSet(<< >>) = {}
  BY DEF ToSet

(* Which of the lists an item is still on, by what comes first. *)
LEMMA UnwindingOrder ==
  ASSUME NEW d \in UnwindingRests, d # << >>
  PROVE  /\ Tail(d) \in UnwindingRests
         /\ ToSet(Tail(d)) = ToSet(d) \ {Head(d)}
         /\ Head(d) \in {"guard", "probe", "streams", "contexts", "cluster"}
         /\ Head(d) \in ToSet(d)
         /\ "guard" \in ToSet(d) => Head(d) = "guard"
         /\ "probe" \in ToSet(d) => Head(d) \in {"guard", "probe"}
         /\ "streams" \in ToSet(d) => "contexts" \in ToSet(Tail(d))
  <1>1. CASE d = <<"guard", "probe", "streams", "contexts", "cluster">>
    <2>1. Head(d) = "guard" /\ Tail(d) = <<"probe", "streams", "contexts", "cluster">>
      BY <1>1
    <2>2. <<"probe", "streams", "contexts", "cluster">> \in UnwindingRests
      BY DEF UnwindingRests
    <2>3. QED
      BY <1>1, <2>2, ListItems
  <1>2. CASE d = <<"probe", "streams", "contexts", "cluster">>
    <2>1. Head(d) = "probe" /\ Tail(d) = <<"streams", "contexts", "cluster">>
      BY <1>2
    <2>2. <<"streams", "contexts", "cluster">> \in UnwindingRests
      BY DEF UnwindingRests
    <2>3. QED
      BY <1>2, <2>2, ListItems
  <1>3. CASE d = <<"streams", "contexts", "cluster">>
    <2>1. Head(d) = "streams" /\ Tail(d) = <<"contexts", "cluster">>
      BY <1>3
    <2>2. <<"contexts", "cluster">> \in UnwindingRests
      BY DEF UnwindingRests
    <2>3. QED
      BY <1>3, <2>1, <2>2, ListItems
  <1>4. CASE d = <<"contexts", "cluster">>
    <2>1. Head(d) = "contexts" /\ Tail(d) = <<"cluster">>
      BY <1>4
    <2>2. <<"cluster">> \in UnwindingRests
      BY DEF UnwindingRests
    <2>3. QED
      BY <1>4, <2>2, ListItems
  <1>5. CASE d = <<"cluster">>
    <2>1. Head(d) = "cluster" /\ Tail(d) = << >>
      BY <1>5
    <2>2. << >> \in UnwindingRests
      BY DEF UnwindingRests
    <2>3. QED
      BY <1>5, <2>2, ListItems
  <1>6. QED
    BY <1>1, <1>2, <1>3, <1>4, <1>5 DEF UnwindingRests

LEMMA PoolOrder ==
  ASSUME NEW d \in PoolRests, d # << >>
  PROVE  /\ Tail(d) \in PoolRests
         /\ ToSet(Tail(d)) = ToSet(d) \ {Head(d)}
         /\ Head(d) \in {"caches", "pools", "cluster", "streams", "contexts", "events"}
         /\ Head(d) \in ToSet(d)
         /\ "caches" \in ToSet(d) => Head(d) = "caches"
         /\ "pools" \in ToSet(d) => Head(d) \in {"caches", "pools"}
         /\ "streams" \in ToSet(d) => "contexts" \in ToSet(Tail(d))
         /\ {"guard", "probe"} \cap ToSet(d) = {}
  <1>1. CASE d = <<"caches", "pools", "cluster", "streams", "contexts", "events">>
    <2>1. Head(d) = "caches" /\ Tail(d) = <<"pools", "cluster", "streams", "contexts", "events">>
      BY <1>1
    <2>2. <<"pools", "cluster", "streams", "contexts", "events">> \in PoolRests
      BY DEF PoolRests
    <2>3. QED
      BY <1>1, <2>2, ListItems
  <1>2. CASE d = <<"pools", "cluster", "streams", "contexts", "events">>
    <2>1. Head(d) = "pools" /\ Tail(d) = <<"cluster", "streams", "contexts", "events">>
      BY <1>2
    <2>2. <<"cluster", "streams", "contexts", "events">> \in PoolRests
      BY DEF PoolRests
    <2>3. QED
      BY <1>2, <2>2, ListItems
  <1>3. CASE d = <<"cluster", "streams", "contexts", "events">>
    <2>1. Head(d) = "cluster" /\ Tail(d) = <<"streams", "contexts", "events">>
      BY <1>3
    <2>2. <<"streams", "contexts", "events">> \in PoolRests
      BY DEF PoolRests
    <2>3. QED
      BY <1>3, <2>2, ListItems
  <1>4. CASE d = <<"streams", "contexts", "events">>
    <2>1. Head(d) = "streams" /\ Tail(d) = <<"contexts", "events">>
      BY <1>4
    <2>2. <<"contexts", "events">> \in PoolRests
      BY DEF PoolRests
    <2>3. QED
      BY <1>4, <2>2, ListItems
  <1>5. CASE d = <<"contexts", "events">>
    <2>1. Head(d) = "contexts" /\ Tail(d) = <<"events">>
      BY <1>5
    <2>2. <<"events">> \in PoolRests
      BY DEF PoolRests
    <2>3. QED
      BY <1>5, <2>2, ListItems
  <1>6. CASE d = <<"events">>
    <2>1. Head(d) = "events" /\ Tail(d) = << >>
      BY <1>6
    <2>2. << >> \in PoolRests
      BY DEF PoolRests
    <2>3. QED
      BY <1>6, <2>2, ListItems
  <1>7. QED
    BY <1>1, <1>2, <1>3, <1>4, <1>5, <1>6 DEF PoolRests

LEMMA EngineOrder ==
  ASSUME NEW d \in EngineRests, d # << >>
  PROVE  /\ Tail(d) \in EngineRests
         /\ ToSet(Tail(d)) = ToSet(d) \ {Head(d)}
         /\ Head(d) \in {"cluster", "contexts", "streams"}
         /\ Head(d) \in ToSet(d)
         /\ {"guard", "probe", "caches", "pools", "events"} \cap ToSet(d) = {}
  <1>1. CASE d = <<"cluster", "contexts", "streams">>
    <2>1. Head(d) = "cluster" /\ Tail(d) = <<"contexts", "streams">>
      BY <1>1
    <2>2. <<"contexts", "streams">> \in EngineRests
      BY DEF EngineRests
    <2>3. QED
      BY <1>1, <2>2, ListItems
  <1>2. CASE d = <<"contexts", "streams">>
    <2>1. Head(d) = "contexts" /\ Tail(d) = <<"streams">>
      BY <1>2
    <2>2. <<"streams">> \in EngineRests
      BY DEF EngineRests
    <2>3. QED
      BY ZenonT(30), <1>2, <2>1, <2>2, ListItems
  <1>3. CASE d = <<"streams">>
    <2>1. Head(d) = "streams" /\ Tail(d) = << >>
      BY <1>3
    <2>2. << >> \in EngineRests
      BY DEF EngineRests
    <2>3. QED
      BY <1>3, <2>2, ListItems
  <1>4. QED
    BY <1>1, <1>2, <1>3 DEF EngineRests
LEMMA ListsAreLists ==
  /\ Unwinding \in UnwindingRests
  /\ Fields["pool"] \in PoolRests /\ Fields["engine"] \in EngineRests
  /\ UnwindingRests \subseteq DropLists /\ PoolRests \subseteq DropLists
  /\ EngineRests \subseteq DropLists
  BY DEF Unwinding, Fields, UnwindingRests, PoolRests, EngineRests, DropLists

LEMMA StepsAreNamed ==
  /\ "retained" \in Steps /\ "entered" \in Steps /\ "done" \in Steps
  /\ "left" \in Steps /\ "compute" \in Steps /\ "mapped" \in Steps
  BY DEF Steps

-----------------------------------------------------------------------------
(* What the actions' helpers return. *)
LEMMA RetainedIs ==
  ASSUME cu \in CuType, NEW h \in GPUs
  PROVE  /\ Retained(h) \in CuType
         /\ \A g \in GPUs :
              Retained(h).refs[g] = cu.refs[g] + (IF g = h THEN 1 ELSE 0)
         /\ Retained(h).peers = cu.peers /\ Retained(h).blocks = cu.blocks
  BY DEF Retained, CuType

LEMMA ReleasedIs ==
  ASSUME cu \in CuType, NEW gs \in SUBSET GPUs, \A g \in gs : cu.refs[g] > 0
  PROVE  /\ Released(gs) \in CuType
         /\ \A g \in GPUs :
              Released(gs).refs[g] = cu.refs[g] - (IF g \in gs THEN 1 ELSE 0)
         /\ Released(gs).peers \subseteq cu.peers
         /\ \A p \in cu.peers :
              \/ p \in Released(gs).peers
              \/ p[1] \in gs /\ cu.refs[p[1]] = 1
              \/ p[2] \in gs /\ cu.refs[p[2]] = 1
         /\ Released(gs).blocks \subseteq cu.blocks
  <1> DEFINE refs == [g \in GPUs |-> cu.refs[g] - (IF g \in gs THEN 1 ELSE 0)]
             dead == {g \in gs : cu.refs[g] = 1}
  <1>1. refs \in [GPUs -> Nat]
    BY DEF CuType
  <1>2. cu.peers \in SUBSET (GPUs \X GPUs) /\ cu.blocks \in SUBSET (GPUs \X {"page", "cached", "skipped"})
    BY DEF CuType
  <1>3. Released(gs) =
          [refs |-> refs,
           peers |-> {p \in cu.peers : p[1] \notin dead /\ p[2] \notin dead},
           blocks |-> {b \in cu.blocks : b[1] \notin dead}]
    BY DEF Released
  <1> HIDE DEF refs
  <1>4. Released(gs) \in CuType
    BY <1>1, <1>3 DEF CuType
  <1>5. QED
    BY <1>3, <1>4 DEF refs

LEMMA DidIs ==
  ASSUME call \in CallType, NEW step \in Steps
  PROVE  /\ Did(step) \in CallType
         /\ Did(step).body = call.body \cup {step}
         /\ Did(step).kind = call.kind /\ Did(step).phase = call.phase
         /\ Did(step).at = call.at /\ Did(step).guard = call.guard
         /\ Did(step).probe = call.probe /\ Did(step).drops = call.drops
         /\ Did(step).whole = call.whole
  BY DEF Did, CallType

LEMMA AdvancedIs ==
  ASSUME call \in CallType, NEW c \in CallType, c.kind = call.kind,
         c.phase = call.phase, Following(c.phase) \in PhaseNames
  PROVE  /\ Advanced(c) \in CallType
         /\ Advanced(c).kind = c.kind /\ Advanced(c).guard = c.guard
         /\ Advanced(c).probe = c.probe /\ Advanced(c).drops = c.drops
         /\ Advanced(c).body = {}
         /\ \/ /\ c.at < N
               /\ Advanced(c).at = c.at + 1 /\ Advanced(c).phase = c.phase
               /\ ~Advanced(c).whole
            \/ /\ c.at = N
               /\ Advanced(c).at = 1 /\ Advanced(c).phase = Following(c.phase)
               /\ Advanced(c).whole = (Following(c.phase) = "built")
  <1> DEFINE f  == Following(c.phase)
             at == IF c.at < N THEN c.at + 1 ELSE 1
             ph == IF c.at < N THEN c.phase ELSE f
             wh == c.at = N /\ f = "built"
  <1>1. c.at \in 1 .. N /\ c.phase \in PhaseNames
    BY DEF CallType, GPUs
  <1>2. at \in GPUs /\ ph \in PhaseNames /\ wh \in BOOLEAN
    BY <1>1, NAssumption DEF GPUs
  <1>3. Advanced(c) = [c EXCEPT !.at = at, !.phase = ph, !.whole = wh, !.body = {}]
    BY DEF Advanced
  <1> HIDE DEF at, ph, wh
  <1>4. Advanced(c) \in CallType
    BY <1>2, <1>3 DEF CallType
  <1>5. /\ Advanced(c).kind = c.kind /\ Advanced(c).guard = c.guard
        /\ Advanced(c).probe = c.probe /\ Advanced(c).drops = c.drops
        /\ Advanced(c).body = {} /\ Advanced(c).at = at /\ Advanced(c).phase = ph
        /\ Advanced(c).whole = wh
    BY <1>3
  <1>6. CASE c.at < N
    <2>1. at = c.at + 1 /\ ph = c.phase /\ ~wh
      BY <1>1, <1>6 DEF at, ph, wh
    <2>2. QED
      BY <1>4, <1>5, <1>6, <2>1
  <1>7. CASE c.at = N
    <2>1. ~(c.at < N)
      BY <1>7, NAssumption
    <2>2. at = 1 /\ ph = f /\ wh = (f = "built")
      BY <1>7, <2>1, Zenon DEF at, ph, wh
    <2>3. QED
      BY <1>4, <1>5, <1>7, <2>2, Zenon
  <1>8. QED
    BY <1>1, <1>6, <1>7, NAssumption

(* A push of a context and the pop after it. *)
LEMMA PushPop ==
  ASSUME NEW s \in Seq(0 .. N), NEW e \in 0 .. N
  PROVE  /\ Append(s, e) \in Seq(0 .. N)
         /\ Front(Append(s, e)) = s /\ Last(Append(s, e)) = e
  BY DEF Front, Last

LEMMA CurrentIs ==
  ASSUME stack \in Seq(0 .. N), NEW g \in 0 .. N
  PROVE  Current(g) \in Seq(0 .. N)
  <1>1. CASE stack = << >>
    BY <1>1 DEF Current
  <1>2. CASE stack # << >>
    <2> DEFINE Ctx == 0 .. N
    <2> HIDE DEF Ctx
    <2>1. /\ Len(stack) - 1 \in Int /\ 1 \in Int /\ stack \in Seq(Ctx)
          /\ \A i \in 1 .. Len(stack) - 1 : i \in 1 .. Len(stack)
      BY DEF Ctx
    <2>2. \A i \in 1 .. Len(stack) - 1 : stack[i] \in Ctx
      BY <2>1
    <2>3. SubSeq(stack, 1, Len(stack) - 1) \in Seq(Ctx)
      BY <2>1
    <2>4. QED
      BY <1>2, <2>3 DEF Current, Front, Ctx
  <1>3. QED
    BY <1>1, <1>2

(* What is next to be dropped, and what is to come after it. *)
LEMMA DropOrder ==
  ASSUME Types, Ending, call.phase = "drop", call.drops # << >>
  PROVE  /\ Tail(call.drops) \in IF ~call.whole THEN UnwindingRests
                                 ELSE IF call.kind = "pool" THEN PoolRests ELSE EngineRests
         /\ Tail(call.drops) \in DropLists
         /\ ToSet(Tail(call.drops)) = Due \ {Head(call.drops)}
         /\ Head(call.drops) \in Due
         /\ "guard" \in Due => Head(call.drops) = "guard" /\ ~call.whole
         /\ "probe" \in Due => Head(call.drops) \in {"guard", "probe"} /\ ~call.whole
         /\ "caches" \in Due =>
              /\ Head(call.drops) = "caches" /\ call.whole /\ call.kind = "pool"
              /\ "pools" \in Due /\ "contexts" \in Due
         /\ "pools" \in Due =>
              Head(call.drops) \in {"caches", "pools"} /\ call.whole /\ call.kind = "pool"
         /\ "events" \in Due => call.whole /\ call.kind = "pool"
         /\ call.kind = "pool" /\ "streams" \in Due => "contexts" \in ToSet(Tail(call.drops))
  <1>1. call.kind \in {"pool", "engine"} /\ call.whole \in BOOLEAN
    BY KindsAssumption DEF Types, CallType
  <1>2. CASE ~call.whole
    <2>1. call.drops \in UnwindingRests
      BY <1>2 DEF Ending
    <2>2. {"caches", "pools", "events"} \cap Due = {}
      BY <2>1, ListItems DEF Due, UnwindingRests
    <2>3. QED
      BY <1>2, <2>1, <2>2, UnwindingOrder DEF Due, DropLists
  <1>3. CASE call.whole /\ call.kind = "pool"
    <2>1. call.drops \in PoolRests
      BY <1>3 DEF Ending
    <2>2. "caches" \in Due => "pools" \in Due /\ "contexts" \in Due
      BY <2>1, ListItems DEF Due, PoolRests
    <2>3. QED
      BY <1>3, <2>1, <2>2, PoolOrder DEF Due, DropLists
  <1>4. CASE call.whole /\ call.kind = "engine"
    <2>1. call.drops \in EngineRests
      BY <1>4 DEF Ending
    <2>2. QED
      BY <1>4, <2>1, EngineOrder DEF Due, DropLists
  <1>5. QED
    BY <1>1, <1>2, <1>3, <1>4

-----------------------------------------------------------------------------
LEMMA BuildStep ==
  ASSUME CtxInv, Build
  PROVE  CtxInv'
  <1> USE DEF CtxInv
  <1>1. call.phase = "rest" /\ call.guard = 0 /\ own = NothingOwned
    BY DEF Build, Turn, Progress
  <1>2. own.streams = {}
    BY <1>1 DEF NothingOwned
  <1>3. /\ call' \in CallType /\ call'.kind = call'.kind /\ call'.phase = "probe"
        /\ call'.at = call.at /\ call'.body = call.body
        /\ call'.guard = call.guard /\ call'.probe = call.probe
        /\ call'.drops = call.drops /\ call'.whole = call.whole
    <2>1. PICK kind \in Kinds :
            call' = [call EXCEPT !.kind = kind, !.lives = @ + 1, !.phase = "probe"]
      BY DEF Build
    <2>2. call.lives + 1 \in Nat
      BY DEF Types, CallType
    <2>3. QED
      BY <2>1, <2>2, PhasesAreNamed DEF Types, CallType
  <1>4. (Types /\ Refcounts)'
    BY <1>3 DEF Types, Build, Refcounts
  <1>5. (Progress /\ Turn /\ Ending /\ Emptying)'
    BY DEF Progress, NothingOwned, Build, Turn, Ending, Emptying
  <1>6. (StackOK /\ StreamsOK /\ PeersOK /\ PinnedOK)'
    BY <1>1, <1>2 DEF StackOK, Build, StreamsOK, PeersOK, PinnedOK
  <1>7. QED
    BY <1>4, <1>5, <1>6

LEMMA RefusedStep ==
  ASSUME CtxInv, Refused
  PROVE  CtxInv'
  <1> USE DEF CtxInv
  <1>1. call.phase \notin {"rest", "built", "drop"}
    BY DEF Refused, Constructing
  <1>2. /\ ToSet(Unwinding) = {"guard", "probe", "streams", "contexts", "cluster"}
        /\ Unwinding \in UnwindingRests
    BY ListItems, ListsAreLists DEF Unwinding
  <1>3. /\ ~call.whole /\ own.inflight = {} /\ cu.blocks = {}
        /\ call.guard # 0 => call.guard = call.probe \/ call.guard \in own.matrix \cup own.registry
    BY <1>1 DEF Progress, Constructing, Turn, Types, CallType, GPUs,
       PhaseNames
  <1>4. /\ call' \in CallType /\ call'.kind = call.kind /\ call'.phase = "drop"
        /\ call'.at = call.at /\ call'.body = {} /\ call'.guard = call.guard
        /\ call'.probe = call.probe /\ call'.drops = Unwinding
        /\ call'.whole = call.whole
    BY PhasesAreNamed, ListsAreLists DEF Refused, Types, CallType
  <1>5. (Types /\ Refcounts)'
    BY <1>4 DEF Types, Refused, Refcounts
  <1>6. (Progress /\ Turn /\ Ending /\ Emptying)'
    BY <1>2, <1>3 DEF Progress, Refused, Turn, Ending, Due, Emptying
  <1>7. (StackOK /\ StreamsOK /\ PeersOK /\ PinnedOK)'
    BY DEF StackOK, Refused, StreamsOK, PeersOK, PinnedOK
  <1>8. QED
    BY <1>5, <1>6, <1>7

LEMMA EnterStep ==
  ASSUME CtxInv, Enter
  PROVE  CtxInv'
  <1> USE DEF CtxInv
  <1>1. \/ call.phase = "probe" /\ call.body = {"retained"}
        \/ call.phase = "enable" /\ call.body = {}
        \/ call.phase = "streams" /\ call.body = {}
        \/ call.phase = "map" /\ call.body = {"mapped"}
    BY DEF Enter, Before
  <1>2. call.guard = 0 /\ call.at \in 1 .. N /\ 0 \notin 1 .. N /\ call.at \in 0 .. N
    BY DEF Enter, Types, CallType, GPUs
  <1>3. /\ call' \in CallType /\ call'.kind = call.kind
        /\ call'.phase = call.phase /\ call'.at = call.at
        /\ call'.body = call.body \cup {"entered"} /\ call'.guard = call.at
        /\ call'.probe = call.probe /\ call'.drops = call.drops
        /\ call'.whole = call.whole
    <2>1. call' = [Did("entered") EXCEPT !.guard = call.at]
      BY DEF Enter
    <2>2. QED
      BY <1>2, <2>1, StepsAreNamed, DidIs DEF Types, CallType
  <1>4. (Types /\ Refcounts)'
    BY <1>2, <1>3 DEF Types, Enter, Refcounts
  <1>5. (Progress /\ Turn /\ Ending /\ Emptying)'
    BY <1>1, <1>3 DEF Progress, Constructing, Enter, Turn, Ending, Emptying
  <1>6. (StackOK /\ StreamsOK /\ PeersOK /\ PinnedOK)'
    BY <1>2, <1>3 DEF StackOK, Enter, StreamsOK, PeersOK, PinnedOK
  <1>7. QED
    BY <1>4, <1>5, <1>6

LEMMA ProbeRetainStep ==
  ASSUME CtxInv, ProbeRetain
  PROVE  CtxInv'
  <1> USE DEF CtxInv
  <1>1. call.phase = "probe" /\ call.body = {} /\ call.at \in GPUs /\ call.probe = 0 /\ call.guard = 0
    BY DEF ProbeRetain, In, Turn, Types, CallType
  <1>2. 0 \notin GPUs /\ call.at \in 0 .. N
    BY <1>1 DEF GPUs
  <1>3. /\ cu' \in CuType
        /\ \A g \in GPUs : cu'.refs[g] = cu.refs[g] + (IF g = call.at THEN 1 ELSE 0)
        /\ cu'.peers = cu.peers /\ cu'.blocks = cu.blocks
    BY <1>1, RetainedIs DEF ProbeRetain, Types
  <1>4. /\ call' \in CallType /\ call'.kind = call.kind
        /\ call'.phase = call.phase /\ call'.at = call.at
        /\ call'.body = {"retained"} /\ call'.guard = call.guard
        /\ call'.probe = call.at /\ call'.drops = call.drops
        /\ call'.whole = call.whole
    <2>1. call' = [Did("retained") EXCEPT !.probe = call.at]
      BY DEF ProbeRetain
    <2>2. QED
      BY <1>1, <1>2, <2>1, StepsAreNamed, DidIs DEF Types, CallType
  <1>5. (Types /\ Refcounts)'
    BY <1>1, <1>2, <1>3, <1>4 DEF Types, ProbeRetain, Refcounts
  <1>6. (Progress /\ Turn /\ Ending /\ Emptying)'
    BY <1>1, <1>3, <1>4 DEF Progress, Constructing, ProbeRetain, Turn, Ending,
       Emptying
  <1>7. (StackOK /\ StreamsOK /\ PeersOK /\ PinnedOK)'
    BY <1>3, <1>4 DEF StackOK, ProbeRetain, StreamsOK, PeersOK, PinnedOK
  <1>8. QED
    BY <1>5, <1>6, <1>7

LEMMA ProbeQueryStep ==
  ASSUME CtxInv, ProbeQuery
  PROVE  CtxInv'
  <1> USE DEF CtxInv
  <1>1. call.phase = "probe" /\ call.body = {"retained", "entered"}
    BY DEF ProbeQuery, In
  <1>2. /\ call' \in CallType /\ call'.kind = call.kind
        /\ call'.phase = call.phase /\ call'.at = call.at
        /\ call'.body = {"retained", "entered", "done"}
        /\ call'.guard = call.guard /\ call'.probe = call.probe
        /\ call'.drops = call.drops /\ call'.whole = call.whole
    BY <1>1, StepsAreNamed, DidIs DEF ProbeQuery, Types
  <1>3. (Types /\ Refcounts)'
    BY <1>2 DEF Types, ProbeQuery, Refcounts
  <1>4. (Progress /\ Turn /\ Ending /\ Emptying)'
    BY <1>1, <1>2 DEF Progress, Constructing, ProbeQuery, Turn, Ending,
       Emptying
  <1>5. (StackOK /\ StreamsOK /\ PeersOK /\ PinnedOK)'
    BY <1>2 DEF StackOK, ProbeQuery, StreamsOK, PeersOK, PinnedOK
  <1>6. QED
    BY <1>3, <1>4, <1>5

LEMMA MatrixRetainStep ==
  ASSUME CtxInv, MatrixRetain
  PROVE  CtxInv'
  <1> USE DEF CtxInv
  <1>1. /\ call.phase = "matrix" /\ call.kind = "engine" /\ call.body = {}
        /\ call.at \in 1 .. N /\ call.at \in GPUs /\ call.guard = 0 /\ call.probe = 0
        /\ own.matrix = 1 .. call.at - 1 /\ own.registry = {}
    BY DEF MatrixRetain, Turn, Progress, Types, CallType, GPUs
  <1>2. /\ cu' \in CuType
        /\ \A g \in GPUs : cu'.refs[g] = cu.refs[g] + (IF g = call.at THEN 1 ELSE 0)
        /\ cu'.peers = cu.peers /\ cu'.blocks = cu.blocks
    BY <1>1, RetainedIs DEF MatrixRetain, Types
  <1>3. /\ call' \in CallType /\ call'.kind = call.kind
        /\ call'.drops = call.drops /\ call'.body = {} /\ call'.guard = 0
        /\ call'.probe = 0
        /\ \/ /\ call.at < N /\ call'.at = call.at + 1
              /\ call'.phase = call.phase /\ ~call'.whole
           \/ /\ call.at = N /\ call'.at = 1
              /\ call'.phase = "enable" /\ ~call'.whole
    BY <1>1, AdvancedIs, FollowingIs, PhasesAreNamed DEF MatrixRetain, Types
  <1>4. /\ own' \in OwnType /\ own'.matrix = own.matrix \cup {call.at}
        /\ own'.enabled = own.enabled /\ own'.registry = own.registry
        /\ own'.streams = own.streams /\ own'.mapped = own.mapped
        /\ own'.pinned = own.pinned /\ own'.inflight = own.inflight
    BY <1>1 DEF MatrixRetain, Types, OwnType
  <1>5. (Types /\ Refcounts)'
    BY <1>1, <1>2, <1>3, <1>4 DEF Types, MatrixRetain, Refcounts
  <1>6. Progress'
    <2>1. call.at < N => own'.matrix = 1 .. (call.at + 1) - 1
      BY <1>1, <1>4
    <2>2. call.at = N => own'.matrix = GPUs
      BY <1>1, <1>4 DEF GPUs
    <2>3. QED
      BY <1>1, <1>2, <1>3, <1>4, <2>2 DEF Progress, Constructing
  <1>7. (Turn /\ Ending /\ Emptying)'
    BY <1>3 DEF Turn, MatrixRetain, Ending, Emptying
  <1>8. (StackOK /\ StreamsOK /\ PeersOK /\ PinnedOK)'
    BY <1>1, <1>2, <1>3 DEF StackOK, MatrixRetain, StreamsOK, PeersOK,
       PinnedOK
  <1>9. QED
    BY <1>5, <1>6, <1>7, <1>8

LEMMA RegistryRetainStep ==
  ASSUME CtxInv, RegistryRetain
  PROVE  CtxInv'
  <1> USE DEF CtxInv
  <1>1. /\ call.phase = "registry" /\ call.body = {} /\ call.kind \in {"pool", "engine"}
        /\ call.at \in 1 .. N /\ call.at \in GPUs /\ call.guard = 0 /\ call.probe = 0
        /\ own.registry = 1 .. call.at - 1
    BY KindsAssumption DEF RegistryRetain, Turn, Progress, Types, CallType,
       GPUs
  <1>2. /\ cu' \in CuType
        /\ \A g \in GPUs : cu'.refs[g] = cu.refs[g] + (IF g = call.at THEN 1 ELSE 0)
        /\ cu'.peers = cu.peers /\ cu'.blocks = cu.blocks
    BY <1>1, RetainedIs DEF RegistryRetain, Types
  <1>3. /\ call' \in CallType /\ call'.kind = call.kind
        /\ call'.drops = call.drops /\ call'.body = {} /\ call'.guard = 0
        /\ call'.probe = 0
        /\ \/ /\ call.at < N /\ call'.at = call.at + 1
              /\ call'.phase = call.phase /\ ~call'.whole
           \/ /\ call.at = N /\ call'.at = 1
              /\ call'.phase = "streams" /\ ~call'.whole
    BY <1>1, AdvancedIs, FollowingIs, PhasesAreNamed DEF RegistryRetain, Types
  <1>4. /\ own' \in OwnType /\ own'.matrix = own.matrix
        /\ own'.enabled = own.enabled
        /\ own'.registry = own.registry \cup {call.at}
        /\ own'.streams = own.streams /\ own'.mapped = own.mapped
        /\ own'.pinned = own.pinned /\ own'.inflight = own.inflight
    BY <1>1 DEF RegistryRetain, Types, OwnType
  <1>5. (Types /\ Refcounts)'
    BY <1>1, <1>2, <1>3, <1>4 DEF Types, RegistryRetain, Refcounts
  <1>6. Progress'
    <2>1. call.at < N => own'.registry = 1 .. (call.at + 1) - 1
      BY <1>1, <1>4
    <2>2. call.at = N => own'.registry = GPUs
      BY <1>1, <1>4 DEF GPUs
    <2>3. QED
      BY <1>1, <1>2, <1>3, <1>4, <2>2 DEF Progress, Constructing
  <1>7. (Turn /\ Ending /\ Emptying)'
    BY <1>3 DEF Turn, RegistryRetain, Ending, Emptying
  <1>8. (StackOK /\ StreamsOK /\ PeersOK /\ PinnedOK)'
    BY <1>1, <1>2, <1>3 DEF StackOK, RegistryRetain, StreamsOK, PeersOK,
       PinnedOK
  <1>9. QED
    BY <1>5, <1>6, <1>7, <1>8

LEMMA ProbeReleaseStep ==
  ASSUME CtxInv, ProbeRelease
  PROVE  CtxInv'
  <1> USE DEF CtxInv
  <1>1. /\ call.phase = "probe" /\ call.guard = 0 /\ own = NothingOwned
        /\ call.kind \in {"pool", "engine"} /\ call.at \in 1 .. N /\ call.probe = call.at
    BY KindsAssumption DEF ProbeRelease, Turn, Progress, Types, CallType, GPUs
  <1>2. own' = own /\ own' \in OwnType
    BY DEF ProbeRelease, Types
  <1>3. /\ own.matrix = {} /\ own.registry = {} /\ own.streams = {} /\ own.enabled = {}
        /\ own.mapped = {} /\ own.pinned = {} /\ own.inflight = {} /\ cu.blocks = {}
    BY <1>1 DEF NothingOwned, Progress, Constructing
  <1>4. {call.probe} \in SUBSET GPUs /\ \A g \in {call.probe} : cu.refs[g] > 0
    BY <1>1 DEF Refcounts, GPUs
  <1>5. 0 \notin GPUs
    BY DEF GPUs
  <1>6. /\ host' = host /\ stack' = stack /\ entry' = entry
    BY DEF ProbeRelease
  <1>7. /\ cu' \in CuType
        /\ \A g \in GPUs : cu'.refs[g] = cu.refs[g] - (IF g = call.at THEN 1 ELSE 0)
        /\ cu'.blocks = {}
    BY <1>1, <1>3, <1>4, ReleasedIs DEF ProbeRelease, Types
  <1>8. /\ call' \in CallType /\ call'.kind = call.kind
        /\ call'.drops = call.drops /\ call'.body = {} /\ call'.guard = 0
        /\ call'.probe = 0
        /\ \/ /\ call.at < N /\ call'.at = call.at + 1
              /\ call'.phase = call.phase /\ ~call'.whole
           \/ /\ call.at = N /\ call'.at = 1
              /\ call'.phase = IF call.kind = "pool" THEN "registry" ELSE "matrix"
              /\ ~call'.whole
    <2> DEFINE c == [call EXCEPT !.probe = 0]
    <2>1. c \in CallType /\ c.kind = call.kind /\ c.phase = "probe" /\ c.at = call.at
          /\ c.guard = 0 /\ c.probe = 0 /\ c.drops = call.drops
      BY <1>1, NAssumption DEF Types, CallType
    <2>2. call' = Advanced(c)
      BY DEF ProbeRelease
    <2> HIDE DEF c
    <2>3. QED
      BY ZenonT(30), <1>1, <2>1, <2>2, AdvancedIs, FollowingIs, PhasesAreNamed DEF Types
  <1>9. (Types /\ Refcounts)'
    BY <1>1, <1>2, <1>5, <1>6, <1>7, <1>8 DEF Types, Refcounts
  <1>10. (Progress /\ Turn /\ Ending /\ Emptying)'
    BY <1>1, <1>2, <1>7, <1>8 DEF Progress, NothingOwned, Turn, Ending,
       Emptying
  <1>11. (StackOK /\ StreamsOK /\ PeersOK /\ PinnedOK)'
    BY <1>1, <1>2, <1>3, <1>6, <1>8 DEF StackOK, StreamsOK, PeersOK, PinnedOK
  <1>12. QED
    BY <1>9, <1>10, <1>11

LEMMA LeaveStep ==
  ASSUME CtxInv, Leave
  PROVE  CtxInv'
  <1> USE DEF CtxInv
  <1>1. /\ call.guard = call.at /\ call.guard # 0 /\ call.guard \in 0 .. N /\ 0 \in 0 .. N
        /\ call.at \in 1 .. N /\ call.at \in GPUs
        /\ call.kind \in {"pool", "engine"} /\ call.phase \in {"probe", "enable", "streams", "map"}
        /\ call.phase = "probe" => call.body = {"retained", "entered", "done"}
        /\ call.phase = "map" => "mapped" \in call.body
    BY KindsAssumption, NAssumption DEF Leave, Turn, Types, CallType,
       PhaseNames
  <1>2. stack' = entry /\ stack' \in Seq(0 .. N)
    BY PushPop DEF Leave, StackOK, Types
  <1>3. /\ call' \in CallType /\ call'.kind = call.kind /\ call'.guard = 0
        /\ call'.drops = call.drops /\ call'.probe = call.probe
        /\ \/ /\ call.phase = "probe" /\ call'.phase = "probe" /\ call'.at = call.at
              /\ call'.body = {"retained", "entered", "done", "left"}
              /\ call'.whole = call.whole
           \/ /\ call.phase # "probe" /\ call.at < N /\ call'.at = call.at + 1
              /\ call'.phase = call.phase /\ call'.body = {} /\ ~call'.whole
           \/ /\ call.phase # "probe" /\ call.at = N /\ call'.at = 1 /\ call'.body = {}
              /\ \/ /\ call.phase = "enable" /\ call'.phase = "registry" /\ ~call'.whole
                 \/ /\ call.phase = "streams" /\ call.kind = "pool"
                    /\ call'.phase = "map" /\ ~call'.whole
                 \/ /\ call.phase = "streams" /\ call.kind = "engine"
                    /\ call'.phase = "built" /\ call'.whole
                 \/ call.phase = "map" /\ call'.phase = "built" /\ call'.whole
    <2> DEFINE c == [Did("left") EXCEPT !.guard = 0]
    <2>1. /\ Did("left") \in CallType /\ Did("left").body = call.body \cup {"left"}
          /\ Did("left").kind = call.kind /\ Did("left").phase = call.phase
          /\ Did("left").at = call.at /\ Did("left").probe = call.probe
          /\ Did("left").drops = call.drops /\ Did("left").whole = call.whole
      BY StepsAreNamed, DidIs DEF Types
    <2>2. /\ c \in CallType /\ c.kind = call.kind /\ c.phase = call.phase /\ c.at = call.at
          /\ c.guard = 0 /\ c.probe = call.probe /\ c.drops = call.drops
          /\ c.whole = call.whole /\ c.body = call.body \cup {"left"}
      BY <1>1, <2>1 DEF CallType
    <2>3. call' = IF call.phase = "probe" THEN c ELSE Advanced(c)
      BY DEF Leave
    <2> HIDE DEF c
    <2>4. CASE call.phase = "probe"
      BY <1>1, <2>2, <2>3, <2>4
    <2>5. CASE call.phase # "probe"
      <3>1. /\ call.phase = "enable" => Following(c.phase) = "registry"
            /\ call.phase = "streams" /\ call.kind = "pool" => Following(c.phase) = "map"
            /\ call.phase = "streams" /\ call.kind = "engine" => Following(c.phase) = "built"
            /\ call.phase = "map" => Following(c.phase) = "built"
        BY <2>2, FollowingIs DEF Progress
      <3>2. Following(c.phase) \in PhaseNames
        BY <1>1, <2>5, <3>1, PhasesAreNamed
      <3>3. QED
        BY <1>1, <2>2, <2>3, <2>5, <3>1, <3>2, AdvancedIs DEF Types
    <2>6. QED
      BY <2>4, <2>5
  <1>4. host' = host /\ cu' = cu /\ entry' = entry /\ own' = own
    BY DEF Leave
  <1>5. (Types /\ Refcounts)'
    BY <1>2, <1>3, <1>4 DEF Types, Refcounts
  <1>6. Progress'
    <2>1. CASE call'.phase = call.phase
      BY <1>1, <1>3, <1>4, <2>1 DEF Progress, Constructing, Turn
    <2>2. CASE call'.phase = "registry"
      <3>1. own.registry = {}
        BY <1>1, <1>3, <2>2 DEF Progress
      <3>2. own'.registry = 1 .. call'.at - 1
        BY <1>1, <1>3, <1>4, <2>2, <3>1
      <3>3. QED
        BY <1>3, <1>4, <2>2, <3>2 DEF Progress, Constructing
    <2>3. CASE call'.phase = "map" /\ call.phase # "map"
      <3>1. 1 .. call'.at - 1 = {}
        BY <1>3, <2>3
      <3>2. QED
        BY <1>3, <1>4, <2>3 DEF Progress, Constructing
    <2>4. CASE call'.phase = "built" /\ call.kind = "pool"
      <3>1. /\ call.at = N /\ 1 .. call.at - 1 \subseteq own.mapped
            /\ call.at \in own.mapped /\ own.mapped \subseteq GPUs
        BY <1>1, <1>3, <2>4 DEF Progress, Turn, Types, OwnType
      <3>2. \A g \in GPUs : g \in 1 .. N - 1 \/ g = N
        BY NAssumption DEF GPUs
      <3>3. own.mapped = GPUs
        BY <3>1, <3>2
      <3>4. QED
        BY <1>1, <1>3, <1>4, <3>3 DEF Progress, Constructing
    <2>5. CASE call'.phase = "built" /\ call.kind = "engine"
      BY <1>1, <1>3, <1>4, <2>5 DEF Progress, Constructing
    <2>6. QED
      BY <1>1, <1>3, <2>1, <2>2, <2>3, <2>4, <2>5
  <1>7. (Turn /\ Ending /\ Emptying)'
    BY <1>1, <1>3 DEF Turn, Ending, Emptying
  <1>8. (StackOK /\ StreamsOK /\ PeersOK /\ PinnedOK)'
    BY <1>2, <1>3, <1>4 DEF StackOK, StreamsOK, PeersOK, PinnedOK
  <1>9. QED
    BY <1>5, <1>6, <1>7, <1>8

LEMMA EnablePairsStep ==
  ASSUME CtxInv, EnablePairs
  PROVE  CtxInv'
  <1> USE DEF CtxInv
  <1>1. call.phase = "enable" /\ call.body = {"entered"} /\ own.matrix = GPUs /\ cu.blocks = {}
    BY DEF EnablePairs, In, Progress, Constructing
  <1>2. PICK ok \in SUBSET {p \in Capable : p[1] = call.at /\ p[2] # call.at} :
              /\ cu' = [cu EXCEPT !.peers = @ \cup ok]
              /\ own' = [own EXCEPT !.enabled = @ \cup ok]
    BY DEF EnablePairs
  <1>3. ok \subseteq GPUs \X GPUs
    BY CapableAssumption
  <1>4. /\ cu' \in CuType /\ cu'.refs = cu.refs /\ cu'.blocks = cu.blocks
        /\ cu'.peers = cu.peers \cup ok
    BY <1>2, <1>3 DEF Types, CuType
  <1>5. /\ own' \in OwnType /\ own'.matrix = own.matrix
        /\ own'.enabled = own.enabled \cup ok /\ own'.registry = own.registry
        /\ own'.streams = own.streams /\ own'.mapped = own.mapped
        /\ own'.pinned = own.pinned /\ own'.inflight = own.inflight
    BY <1>2, <1>3 DEF Types, OwnType
  <1>6. /\ call' \in CallType /\ call'.kind = call.kind
        /\ call'.phase = call.phase /\ call'.at = call.at
        /\ call'.body = {"entered", "done"} /\ call'.guard = call.guard
        /\ call'.probe = call.probe /\ call'.drops = call.drops
        /\ call'.whole = call.whole
    BY <1>1, DidIs, StepsAreNamed DEF EnablePairs, Types
  <1>7. host' = host /\ stack' = stack /\ entry' = entry
    BY DEF EnablePairs
  <1>8. Types'
    BY <1>4, <1>5, <1>6, <1>7 DEF Types
  <1>9. Refcounts'
    BY <1>4, <1>5, <1>6, <1>7 DEF Refcounts
  <1>10. (Progress /\ Turn /\ Ending /\ Emptying)'
    BY <1>1, <1>2, <1>6 DEF Progress, Turn, Ending, Emptying
  <1>11. StreamsOK'
    BY <1>5, <1>6 DEF StreamsOK
  <1>12. PeersOK'
    <2>1. \A p \in ok : p[1] \in own.matrix /\ p[2] \in own.matrix
      BY <1>1, <1>3
    <2>2. QED
      BY <1>4, <1>5, <2>1 DEF PeersOK
  <1>13. (StackOK /\ PinnedOK)'
    BY <1>2, <1>6, <1>7 DEF StackOK, PinnedOK
  <1>14. QED
    BY <1>8, <1>9, <1>10, <1>11, <1>12, <1>13

LEMMA CreateComputeStep ==
  ASSUME CtxInv, CreateCompute
  PROVE  CtxInv'
  <1> USE DEF CtxInv
  <1>1. /\ call.phase = "streams" /\ call.body = {"entered"} /\ call.guard = call.at
        /\ call.at \in GPUs /\ call.at # 0 /\ call.at \in 0 .. N
    BY DEF CreateCompute, CreateStream, In, Turn, Types, CallType, GPUs
  <1>2. Last(stack) = call.at
    BY <1>1, PushPop DEF StackOK, Types
  <1>3. own' = [own EXCEPT !.streams = @ \cup {[gpu |-> call.at, use |-> "compute", ctx |-> call.at]}]
    BY <1>2 DEF CreateCompute, CreateStream, Created
  <1>4. [gpu |-> call.at, use |-> "compute", ctx |-> call.at] \in [gpu : GPUs, use : {"compute", "prefetch"}, ctx : 0 .. N]
    BY <1>1
  <1>5. /\ own' \in OwnType /\ own'.matrix = own.matrix
        /\ own'.enabled = own.enabled /\ own'.registry = own.registry
        /\ own'.streams = own.streams \cup {[gpu |-> call.at, use |-> "compute", ctx |-> call.at]}
        /\ own'.mapped = own.mapped /\ own'.pinned = own.pinned
        /\ own'.inflight = own.inflight
    BY <1>3, <1>4 DEF Types, OwnType
  <1>6. /\ call' \in CallType /\ call'.kind = call.kind
        /\ call'.phase = call.phase /\ call'.at = call.at
        /\ call'.body = {"entered", "compute"} /\ call'.guard = call.guard
        /\ call'.probe = call.probe /\ call'.drops = call.drops
        /\ call'.whole = call.whole
    BY <1>1, DidIs, StepsAreNamed DEF CreateCompute, CreateStream, Types
  <1>7. host' = host /\ cu' = cu /\ stack' = stack /\ entry' = entry
    BY DEF CreateCompute, CreateStream
  <1>8. (Types /\ Refcounts)'
    BY <1>5, <1>6, <1>7 DEF Types, Refcounts
  <1>9. (Progress /\ Turn /\ Ending /\ Emptying)'
    BY <1>1, <1>3, <1>6, <1>7 DEF Progress, Constructing, Turn, Ending,
       Emptying
  <1>10. StreamsOK'
    BY <1>1, <1>3, <1>6 DEF StreamsOK, Progress
  <1>11. (StackOK /\ PeersOK /\ PinnedOK)'
    BY <1>3, <1>6, <1>7 DEF StackOK, PeersOK, PinnedOK
  <1>12. QED
    BY <1>8, <1>9, <1>10, <1>11

LEMMA CreatePrefetchStep ==
  ASSUME CtxInv, CreatePrefetch
  PROVE  CtxInv'
  <1> USE DEF CtxInv
  <1>1. /\ call.phase = "streams" /\ call.body = {"entered", "compute"} /\ call.guard = call.at
        /\ call.at \in GPUs /\ call.at # 0 /\ call.at \in 0 .. N
    BY DEF CreatePrefetch, CreateStream, In, Turn, Types, CallType, GPUs
  <1>2. Last(stack) = call.at
    BY <1>1, PushPop DEF StackOK, Types
  <1>3. own' = [own EXCEPT !.streams = @ \cup {[gpu |-> call.at, use |-> "prefetch", ctx |-> call.at]}]
    BY <1>2 DEF CreatePrefetch, CreateStream, Created
  <1>4. [gpu |-> call.at, use |-> "prefetch", ctx |-> call.at] \in [gpu : GPUs, use : {"compute", "prefetch"}, ctx : 0 .. N]
    BY <1>1
  <1>5. /\ own' \in OwnType /\ own'.matrix = own.matrix
        /\ own'.enabled = own.enabled /\ own'.registry = own.registry
        /\ own'.streams = own.streams \cup {[gpu |-> call.at, use |-> "prefetch", ctx |-> call.at]}
        /\ own'.mapped = own.mapped /\ own'.pinned = own.pinned
        /\ own'.inflight = own.inflight
    BY <1>3, <1>4 DEF Types, OwnType
  <1>6. /\ call' \in CallType /\ call'.kind = call.kind
        /\ call'.phase = call.phase /\ call'.at = call.at
        /\ call'.body = {"entered", "compute", "done"}
        /\ call'.guard = call.guard /\ call'.probe = call.probe
        /\ call'.drops = call.drops /\ call'.whole = call.whole
    BY <1>1, DidIs, StepsAreNamed DEF CreatePrefetch, CreateStream, Types
  <1>7. host' = host /\ cu' = cu /\ stack' = stack /\ entry' = entry
    BY DEF CreatePrefetch, CreateStream
  <1>8. (Types /\ Refcounts)'
    BY <1>5, <1>6, <1>7 DEF Types, Refcounts
  <1>9. (Progress /\ Turn /\ Ending /\ Emptying)'
    BY <1>1, <1>3, <1>6, <1>7 DEF Progress, Constructing, Turn, Ending,
       Emptying
  <1>10. StreamsOK'
    BY <1>1, <1>3, <1>6 DEF StreamsOK, Progress
  <1>11. (StackOK /\ PeersOK /\ PinnedOK)'
    BY <1>3, <1>6, <1>7 DEF StackOK, PeersOK, PinnedOK
  <1>12. QED
    BY <1>8, <1>9, <1>10, <1>11

LEMMA MapPoolStep ==
  ASSUME CtxInv, MapPool
  PROVE  CtxInv'
  <1> USE DEF CtxInv
  <1>1. call.phase = "map" /\ call.body = {} /\ call.at \in GPUs
    BY DEF MapPool, In, Types, CallType
  <1>2. /\ own' \in OwnType /\ own'.matrix = own.matrix
        /\ own'.enabled = own.enabled /\ own'.registry = own.registry
        /\ own'.streams = own.streams /\ own'.mapped = own.mapped \cup {call.at}
        /\ own'.pinned = own.pinned /\ own'.inflight = own.inflight
    BY <1>1 DEF MapPool, Types, OwnType
  <1>3. /\ call' \in CallType /\ call'.kind = call.kind
        /\ call'.phase = call.phase /\ call'.at = call.at
        /\ call'.body = {"mapped"} /\ call'.guard = call.guard
        /\ call'.probe = call.probe /\ call'.drops = call.drops
        /\ call'.whole = call.whole
    BY <1>1, DidIs, StepsAreNamed DEF MapPool, Types
  <1>4. host' = host /\ cu' = cu /\ stack' = stack /\ entry' = entry
    BY DEF MapPool
  <1>5. (Types /\ Refcounts)'
    BY <1>2, <1>3, <1>4 DEF Types, Refcounts
  <1>6. (Progress /\ Turn /\ Ending /\ Emptying)'
    BY <1>1, <1>2, <1>3, <1>4 DEF Progress, Constructing, Turn, Ending,
       Emptying
  <1>7. (StackOK /\ StreamsOK /\ PeersOK /\ PinnedOK)'
    BY <1>2, <1>3, <1>4 DEF StackOK, StreamsOK, PeersOK, PinnedOK
  <1>8. QED
    BY <1>5, <1>6, <1>7

LEMMA PinPoolStep ==
  ASSUME CtxInv, PinPool
  PROVE  CtxInv'
  <1> USE DEF CtxInv
  <1>1. call.phase = "map" /\ call.body = {"mapped", "entered"} /\ call.at \in GPUs /\ call.at \in own.mapped
    BY DEF PinPool, In, Types, CallType, Turn
  <1>2. PICK pin \in {{}, {call.at}} : own' = [own EXCEPT !.pinned = @ \cup pin]
    BY DEF PinPool
  <1>3. /\ own' \in OwnType /\ own'.matrix = own.matrix
        /\ own'.enabled = own.enabled /\ own'.registry = own.registry
        /\ own'.streams = own.streams /\ own'.mapped = own.mapped
        /\ own'.pinned = own.pinned \cup pin /\ own'.inflight = own.inflight
    BY <1>1, <1>2 DEF Types, OwnType
  <1>4. /\ call' \in CallType /\ call'.kind = call.kind
        /\ call'.phase = call.phase /\ call'.at = call.at
        /\ call'.body = {"mapped", "entered", "done"} /\ call'.guard = call.guard
        /\ call'.probe = call.probe /\ call'.drops = call.drops
        /\ call'.whole = call.whole
    BY <1>1, DidIs, StepsAreNamed DEF PinPool, Types
  <1>5. host' = host /\ cu' = cu /\ stack' = stack /\ entry' = entry
    BY DEF PinPool
  <1>6. (Types /\ Refcounts)'
    BY <1>3, <1>4, <1>5 DEF Types, Refcounts
  <1>7. (Progress /\ Turn /\ Ending /\ Emptying)'
    BY <1>1, <1>2, <1>4, <1>5 DEF Progress, Constructing, Turn, Ending,
       Emptying
  <1>8. PinnedOK'
    BY <1>1, <1>2 DEF PinnedOK
  <1>9. (StackOK /\ StreamsOK /\ PeersOK)'
    BY <1>2, <1>4, <1>5 DEF StackOK, StreamsOK, PeersOK
  <1>10. QED
    BY <1>6, <1>7, <1>8, <1>9

LEMMA DropOwnerStep ==
  ASSUME CtxInv, DropOwner
  PROVE  CtxInv'
  <1> USE DEF CtxInv
  <1>1. /\ call.phase = "built" /\ call.kind \in {"pool", "engine"} /\ call.guard = 0
        /\ call.at = 1 /\ call.body = {} /\ call.probe = 0 /\ call.whole
    BY KindsAssumption DEF DropOwner, Turn, Progress, Types, CallType
  <1>2. /\ call.kind = "pool" => /\ Fields[call.kind] \in PoolRests
                                 /\ ToSet(Fields[call.kind]) =
                                      {"caches", "pools", "cluster", "streams", "contexts", "events"}
        /\ call.kind = "engine" => /\ Fields[call.kind] \in EngineRests
                                   /\ ToSet(Fields[call.kind]) = {"cluster", "contexts", "streams"}
        /\ Fields[call.kind] \in DropLists
    BY <1>1, ListItems, ListsAreLists DEF Fields
  <1>3. /\ call' \in CallType /\ call'.kind = call.kind /\ call'.phase = "drop"
        /\ call'.at = call.at /\ call'.body = call.body
        /\ call'.guard = call.guard /\ call'.probe = call.probe
        /\ call'.drops = Fields[call.kind] /\ call'.whole = call.whole
    BY <1>2, PhasesAreNamed DEF DropOwner, Types, CallType
  <1>4. /\ "claim" \in Careful => own.inflight = {}
        /\ "demote" \in Careful => \A g \in GPUs : <<g, "page">> \notin cu.blocks
        /\ entry' = stack
    BY DEF DropOwner
  <1>5. /\ own.registry = GPUs /\ own.mapped \subseteq GPUs /\ own.pinned \subseteq GPUs
        /\ call.kind = "engine" =>
             /\ own.mapped = {} /\ own.pinned = {} /\ own.inflight = {}
             /\ \A g \in GPUs : <<g, "cached">> \notin cu.blocks
    BY <1>1 DEF Progress, Types, OwnType
  <1>6. host' = host /\ cu' = cu /\ stack' = stack /\ own' = own
    BY DEF DropOwner
  <1>7. (Types /\ Refcounts)'
    BY <1>3, <1>4, <1>6 DEF Types, Refcounts
  <1>8. Progress'
    BY <1>3, <1>6 DEF Progress, Constructing
  <1>9. Turn'
    BY <1>1, <1>3 DEF Turn
  <1>10. Ending'
    BY <1>1, <1>2, <1>3, <1>5, <1>6 DEF Ending, Due
  <1>11. Emptying'
    <2>1. \A g \in GPUs : g >= 1
      BY DEF GPUs
    <2>2. QED
      BY <1>1, <1>2, <1>3, <1>4, <1>5, <1>6, <2>1 DEF Emptying, Due
  <1>12. StackOK'
    BY <1>1, <1>3, <1>4, <1>6 DEF StackOK
  <1>13. (StreamsOK /\ PeersOK /\ PinnedOK)'
    BY <1>3, <1>6 DEF StreamsOK, PeersOK, PinnedOK
  <1>14. QED
    BY <1>7, <1>8, <1>9, <1>10, <1>11, <1>12, <1>13

LEMMA DropGuardStep ==
  ASSUME CtxInv, DropGuard
  PROVE  CtxInv'
  <1> USE DEF CtxInv
  <1>1. call.phase = "drop" /\ call.drops # << >> /\ Head(call.drops) = "guard"
    BY DEF DropGuard, Dropping
  <1>2. /\ Tail(call.drops) \in IF ~call.whole THEN UnwindingRests
             ELSE IF call.kind = "pool" THEN PoolRests ELSE EngineRests
        /\ Tail(call.drops) \in DropLists
        /\ ToSet(Tail(call.drops)) = Due \ {"guard"} /\ "guard" \in Due
    BY <1>1, DropOrder
  <1>3. ~call.whole /\ 0 \in 0 .. N /\ 1 \in GPUs
    BY <1>1, DropOrder, NAssumption DEF GPUs
  <1>4. stack' = entry /\ stack' \in Seq(0 .. N)
    BY PushPop DEF DropGuard, StackOK, Types, CallType
  <1>5. /\ call' \in CallType /\ call'.kind = call.kind
        /\ call'.phase = call.phase /\ call'.at = 1 /\ call'.body = call.body
        /\ call'.guard = 0 /\ call'.probe = call.probe
        /\ call'.drops = Tail(call.drops) /\ call'.whole = call.whole
    BY <1>2, <1>3 DEF DropGuard, Dropped, Types, CallType
  <1>6. host' = host /\ cu' = cu /\ entry' = entry /\ own' = own
    BY DEF DropGuard
  <1>7. (Types /\ Refcounts)'
    BY <1>4, <1>5, <1>6 DEF Types, Refcounts
  <1>8. Progress'
    BY <1>1, <1>5, <1>6 DEF Progress, Constructing
  <1>9. Turn'
    BY <1>1, <1>5 DEF Turn
  <1>10. Ending'
    BY <1>2, <1>5, <1>6 DEF Ending, Due
  <1>11. Emptying'
    BY <1>3, <1>5, <1>6 DEF Emptying
  <1>12. (StackOK /\ StreamsOK /\ PeersOK /\ PinnedOK)'
    BY <1>4, <1>5, <1>6 DEF StackOK, StreamsOK, PeersOK, PinnedOK
  <1>13. QED
    BY <1>7, <1>8, <1>9, <1>10, <1>11, <1>12

LEMMA DropProbeStep ==
  ASSUME CtxInv, DropProbe
  PROVE  CtxInv'
  <1> USE DEF CtxInv
  <1>1. call.phase = "drop" /\ call.drops # << >> /\ Head(call.drops) = "probe"
    BY DEF DropProbe, Dropping
  <1>2. /\ Tail(call.drops) \in IF ~call.whole THEN UnwindingRests
             ELSE IF call.kind = "pool" THEN PoolRests ELSE EngineRests
        /\ Tail(call.drops) \in DropLists
        /\ ToSet(Tail(call.drops)) = Due \ {"probe"} /\ "probe" \in Due
    BY <1>1, DropOrder
  <1>3. ~call.whole /\ call.guard = 0 /\ "guard" \notin Due /\ 0 \in 0 .. N /\ 0 \notin GPUs
    BY <1>1, DropOrder, NAssumption DEF Ending, GPUs
  <1>4. {call.probe} \ {0} \in SUBSET GPUs /\ \A g \in {call.probe} \ {0} : cu.refs[g] > 0
    BY DEF Refcounts, Types, CallType, GPUs
  <1>5. /\ cu' \in CuType
        /\ \A g \in GPUs : cu'.refs[g] = cu.refs[g] - (IF g \in {call.probe} \ {0} THEN 1 ELSE 0)
        /\ cu'.peers \subseteq cu.peers /\ cu'.blocks \subseteq cu.blocks
        /\ \A p \in cu.peers :
             \/ p \in cu'.peers
             \/ p[1] \in {call.probe} \ {0} /\ cu.refs[p[1]] = 1
             \/ p[2] \in {call.probe} \ {0} /\ cu.refs[p[2]] = 1
    BY <1>4, ReleasedIs DEF DropProbe, Types
  <1>6. /\ call' \in CallType /\ call'.kind = call.kind
        /\ call'.phase = call.phase /\ call'.at = call.at
        /\ call'.body = call.body /\ call'.guard = call.guard /\ call'.probe = 0
        /\ call'.drops = Tail(call.drops) /\ call'.whole = call.whole
    BY <1>2, <1>3 DEF DropProbe, Dropped, Types, CallType
  <1>7. \A p \in own.enabled :
          /\ p \in cu.peers /\ p[1] \in own.matrix /\ p[2] \in own.matrix
          /\ p[1] \in GPUs /\ p[2] \in GPUs
    BY DEF PeersOK, Types, OwnType
  <1>8. host' = host /\ stack' = stack /\ entry' = entry /\ own' = own
    BY DEF DropProbe
  <1>9. (Types /\ Refcounts)'
    BY <1>3, <1>5, <1>6, <1>8 DEF Types, Refcounts
  <1>10. Progress'
    BY <1>5, <1>6, <1>8 DEF Progress, Constructing
  <1>11. Turn'
    BY <1>1, <1>6 DEF Turn
  <1>12. Ending'
    BY <1>2, <1>3, <1>6, <1>8 DEF Ending, Due
  <1>13. Emptying'
    BY <1>2, <1>5, <1>6, <1>8 DEF Emptying, Due
  <1>14. PeersOK'
    <2>1. \A g \in own.matrix \cap ({call.probe} \ {0}) : g \in GPUs /\ cu.refs[g] # 1
      BY DEF Refcounts, Types, OwnType
    <2>2. QED
      BY <1>5, <1>8, <2>1 DEF PeersOK
  <1>15. (StackOK /\ StreamsOK /\ PinnedOK)'
    BY <1>6, <1>8 DEF StackOK, StreamsOK, PinnedOK
  <1>16. QED
    BY <1>9, <1>10, <1>11, <1>12, <1>13, <1>14, <1>15

LEMMA DropClusterStep ==
  ASSUME CtxInv, DropCluster
  PROVE  CtxInv'
  <1> USE DEF CtxInv
  <1>1. call.phase = "drop" /\ call.drops # << >> /\ Head(call.drops) = "cluster"
    BY DEF DropCluster, Dropping
  <1>2. /\ Tail(call.drops) \in IF ~call.whole THEN UnwindingRests
             ELSE IF call.kind = "pool" THEN PoolRests ELSE EngineRests
        /\ Tail(call.drops) \in DropLists
        /\ ToSet(Tail(call.drops)) = Due \ {"cluster"} /\ "cluster" \in Due
    BY <1>1, DropOrder
  <1>3. call.guard = 0 /\ call.probe = 0 /\ "guard" \notin Due /\ "probe" \notin Due /\ "caches" \notin Due /\ "pools" \notin Due
    BY <1>1, DropOrder DEF Ending
  <1>4. own.matrix \in SUBSET GPUs /\ \A g \in own.matrix : cu.refs[g] > 0 /\ 0 \notin GPUs
    BY DEF Refcounts, Types, CallType, GPUs, OwnType
  <1>5. /\ cu' \in CuType
        /\ \A g \in GPUs : cu'.refs[g] = cu.refs[g] - (IF g \in own.matrix THEN 1 ELSE 0)
        /\ cu'.peers \subseteq cu.peers /\ cu'.blocks \subseteq cu.blocks
        /\ \A p \in cu.peers :
             \/ p \in cu'.peers
             \/ p[1] \in own.matrix /\ cu.refs[p[1]] = 1
             \/ p[2] \in own.matrix /\ cu.refs[p[2]] = 1
    BY <1>4, ReleasedIs DEF DropCluster, Types
  <1>6. /\ call' \in CallType /\ call'.kind = call.kind
        /\ call'.phase = call.phase /\ call'.at = call.at
        /\ call'.body = call.body /\ call'.guard = call.guard
        /\ call'.probe = call.probe /\ call'.drops = Tail(call.drops)
        /\ call'.whole = call.whole
    BY <1>2, <1>3 DEF DropCluster, Dropped, Types, CallType
  <1>7. /\ own' \in OwnType /\ own'.matrix = {} /\ own'.enabled = {}
        /\ own'.registry = own.registry /\ own'.streams = own.streams
        /\ own'.mapped = own.mapped /\ own'.pinned = own.pinned
        /\ own'.inflight = own.inflight
    BY DEF DropCluster, Types, OwnType
  <1>8. host' = host /\ stack' = stack /\ entry' = entry
    BY DEF DropCluster
  <1>9. (Types /\ Refcounts)'
    BY <1>5, <1>6, <1>7, <1>8 DEF Types, Refcounts
  <1>10. Progress'
    BY <1>1, <1>5, <1>6, <1>7 DEF Progress, Constructing
  <1>11. Turn'
    BY <1>1, <1>6 DEF Turn
  <1>12. Ending'
    BY <1>2, <1>3, <1>6, <1>7 DEF Ending, Due
  <1>13. Emptying'
    BY <1>2, <1>5, <1>6, <1>7 DEF Emptying, Due
  <1>14. (StackOK /\ StreamsOK /\ PeersOK /\ PinnedOK)'
    BY <1>6, <1>7, <1>8 DEF StackOK, StreamsOK, PeersOK, PinnedOK
  <1>15. QED
    BY <1>9, <1>10, <1>11, <1>12, <1>13, <1>14

LEMMA DropContextsStep ==
  ASSUME CtxInv, DropContexts
  PROVE  CtxInv'
  <1> USE DEF CtxInv
  <1>1. call.phase = "drop" /\ call.drops # << >> /\ Head(call.drops) = "contexts"
    BY DEF DropContexts, Dropping
  <1>2. /\ Tail(call.drops) \in IF ~call.whole THEN UnwindingRests
             ELSE IF call.kind = "pool" THEN PoolRests ELSE EngineRests
        /\ Tail(call.drops) \in DropLists
        /\ ToSet(Tail(call.drops)) = Due \ {"contexts"} /\ "contexts" \in Due
    BY <1>1, DropOrder
  <1>3. call.guard = 0 /\ call.probe = 0 /\ "guard" \notin Due /\ "probe" \notin Due /\ "caches" \notin Due /\ "pools" \notin Due
    BY <1>1, DropOrder DEF Ending
  <1>4. own.registry \in SUBSET GPUs /\ \A g \in own.registry : cu.refs[g] > 0 /\ 0 \notin GPUs
    BY DEF Refcounts, Types, CallType, GPUs, OwnType
  <1>5. /\ cu' \in CuType
        /\ \A g \in GPUs : cu'.refs[g] = cu.refs[g] - (IF g \in own.registry THEN 1 ELSE 0)
        /\ cu'.peers \subseteq cu.peers /\ cu'.blocks \subseteq cu.blocks
        /\ \A p \in cu.peers :
             \/ p \in cu'.peers
             \/ p[1] \in own.registry /\ cu.refs[p[1]] = 1
             \/ p[2] \in own.registry /\ cu.refs[p[2]] = 1
    BY <1>4, ReleasedIs DEF DropContexts, Types
  <1>6. /\ call' \in CallType /\ call'.kind = call.kind
        /\ call'.phase = call.phase /\ call'.at = call.at
        /\ call'.body = call.body /\ call'.guard = call.guard
        /\ call'.probe = call.probe /\ call'.drops = Tail(call.drops)
        /\ call'.whole = call.whole
    BY <1>2, <1>3 DEF DropContexts, Dropped, Types, CallType
  <1>7. /\ own' \in OwnType /\ own'.matrix = own.matrix
        /\ own'.enabled = own.enabled /\ own'.registry = {}
        /\ own'.streams = own.streams /\ own'.mapped = own.mapped
        /\ own'.pinned = own.pinned /\ own'.inflight = own.inflight
    BY DEF DropContexts, Types, OwnType
  <1>8. call.kind = "pool" => own.streams = {}
    BY <1>1, DropOrder DEF Ending
  <1>9. \A p \in own.enabled :
          /\ p \in cu.peers /\ p[1] \in own.matrix /\ p[2] \in own.matrix
          /\ p[1] \in GPUs /\ p[2] \in GPUs
    BY DEF PeersOK, Types, OwnType
  <1>10. host' = host /\ stack' = stack /\ entry' = entry
    BY DEF DropContexts
  <1>11. (Types /\ Refcounts)'
    BY SMTT(30), <1>1, <1>2, <1>3, <1>4, <1>5, <1>6, <1>7, <1>8, <1>9, <1>10 DEF Types,
       Refcounts
  <1>12. Progress'
    BY <1>1, <1>5, <1>6, <1>7 DEF Progress, Constructing
  <1>13. Turn'
    BY <1>1, <1>6 DEF Turn
  <1>14. Ending'
    BY <1>2, <1>3, <1>6, <1>7 DEF Ending, Due
  <1>15. Emptying'
    BY <1>2, <1>5, <1>6, <1>7 DEF Emptying, Due
  <1>16. PeersOK'
    <2>1. \A g \in own.matrix \cap own.registry : g \in GPUs /\ cu.refs[g] # 1
      BY DEF Refcounts, Types, OwnType
    <2>2. QED
      BY <1>5, <1>7, <2>1 DEF PeersOK
  <1>17. (StackOK /\ StreamsOK /\ PinnedOK)'
    BY <1>6, <1>7, <1>8, <1>10 DEF StackOK, StreamsOK, PinnedOK
  <1>18. QED
    BY <1>11, <1>12, <1>13, <1>14, <1>15, <1>16, <1>17

LEMMA DropStreamsStep ==
  ASSUME CtxInv, DropStreams
  PROVE  CtxInv'
  <1> USE DEF CtxInv
  <1>1. call.phase = "drop" /\ call.drops # << >> /\ Head(call.drops) = "streams"
    BY DEF DropStreams, Dropping
  <1>2. /\ Tail(call.drops) \in IF ~call.whole THEN UnwindingRests
             ELSE IF call.kind = "pool" THEN PoolRests ELSE EngineRests
        /\ Tail(call.drops) \in DropLists
        /\ ToSet(Tail(call.drops)) = Due \ {"streams"} /\ "streams" \in Due
    BY <1>1, DropOrder
  <1>3. call.guard = 0 /\ call.probe = 0 /\ "guard" \notin Due /\ "probe" \notin Due /\ "caches" \notin Due /\ "pools" \notin Due
    BY <1>1, DropOrder DEF Ending
  <1>4. /\ call' \in CallType /\ call'.kind = call.kind
        /\ call'.phase = call.phase /\ call'.at = call.at
        /\ call'.body = call.body /\ call'.guard = call.guard
        /\ call'.probe = call.probe /\ call'.drops = Tail(call.drops)
        /\ call'.whole = call.whole
    BY <1>2, <1>3 DEF DropStreams, Dropped, Types, CallType
  <1>5. /\ own' \in OwnType /\ own'.matrix = own.matrix
        /\ own'.enabled = own.enabled /\ own'.registry = own.registry
        /\ own'.streams = {} /\ own'.mapped = own.mapped
        /\ own'.pinned = own.pinned /\ own'.inflight = own.inflight
    BY DEF DropStreams, Types, OwnType
  <1>6. host' = host /\ cu' = cu /\ stack' = stack /\ entry' = entry
    BY DEF DropStreams
  <1>7. (Types /\ Refcounts)'
    BY <1>4, <1>5, <1>6 DEF Types, Refcounts
  <1>8. Progress'
    BY <1>1, <1>4, <1>5, <1>6 DEF Progress, Constructing
  <1>9. Turn'
    BY <1>1, <1>4 DEF Turn
  <1>10. Ending'
    BY <1>2, <1>4, <1>5 DEF Ending, Due
  <1>11. Emptying'
    BY <1>2, <1>4, <1>5, <1>6 DEF Emptying, Due
  <1>12. (StackOK /\ StreamsOK /\ PeersOK /\ PinnedOK)'
    BY <1>4, <1>5, <1>6 DEF StackOK, StreamsOK, PeersOK, PinnedOK
  <1>13. QED
    BY <1>7, <1>8, <1>9, <1>10, <1>11, <1>12

LEMMA DropEventsStep ==
  ASSUME CtxInv, DropEvents
  PROVE  CtxInv'
  <1> USE DEF CtxInv
  <1>1. call.phase = "drop" /\ call.drops # << >> /\ Head(call.drops) = "events"
    BY DEF DropEvents, Dropping
  <1>2. /\ Tail(call.drops) \in IF ~call.whole THEN UnwindingRests
             ELSE IF call.kind = "pool" THEN PoolRests ELSE EngineRests
        /\ Tail(call.drops) \in DropLists
        /\ ToSet(Tail(call.drops)) = Due \ {"events"} /\ "events" \in Due
    BY <1>1, DropOrder
  <1>3. call.guard = 0 /\ call.probe = 0 /\ "guard" \notin Due /\ "probe" \notin Due /\ "caches" \notin Due /\ "pools" \notin Due
    BY <1>1, DropOrder DEF Ending
  <1>4. /\ call' \in CallType /\ call'.kind = call.kind
        /\ call'.phase = call.phase /\ call'.at = call.at
        /\ call'.body = call.body /\ call'.guard = call.guard
        /\ call'.probe = call.probe /\ call'.drops = Tail(call.drops)
        /\ call'.whole = call.whole
    BY <1>2, <1>3 DEF DropEvents, Dropped, Types, CallType
  <1>5. /\ own' \in OwnType /\ own'.matrix = own.matrix
        /\ own'.enabled = own.enabled /\ own'.registry = own.registry
        /\ own'.streams = own.streams /\ own'.mapped = own.mapped
        /\ own'.pinned = own.pinned /\ own'.inflight = {}
    BY DEF DropEvents, Types, OwnType
  <1>6. host' = host /\ cu' = cu /\ stack' = stack /\ entry' = entry
    BY DEF DropEvents
  <1>7. (Types /\ Refcounts)'
    BY <1>4, <1>5, <1>6 DEF Types, Refcounts
  <1>8. Progress'
    BY <1>1, <1>4, <1>5, <1>6 DEF Progress, Constructing
  <1>9. Turn'
    BY <1>1, <1>4 DEF Turn
  <1>10. Ending'
    BY <1>2, <1>4, <1>5 DEF Ending, Due
  <1>11. Emptying'
    BY <1>2, <1>4, <1>5, <1>6 DEF Emptying, Due
  <1>12. (StackOK /\ StreamsOK /\ PeersOK /\ PinnedOK)'
    BY <1>4, <1>5, <1>6 DEF StackOK, StreamsOK, PeersOK, PinnedOK
  <1>13. QED
    BY <1>7, <1>8, <1>9, <1>10, <1>11, <1>12

LEMMA EnterCacheStep ==
  ASSUME CtxInv, EnterCache
  PROVE  CtxInv'
  <1> USE DEF CtxInv
  <1>1. call.phase = "drop" /\ call.drops # << >> /\ Head(call.drops) = "caches"
    BY DEF EnterCache, Dropping
  <1>2. /\ Tail(call.drops) \in IF ~call.whole THEN UnwindingRests
             ELSE IF call.kind = "pool" THEN PoolRests ELSE EngineRests
        /\ Tail(call.drops) \in DropLists
        /\ ToSet(Tail(call.drops)) = Due \ {"caches"} /\ "caches" \in Due
    BY <1>1, DropOrder
  <1>3. /\ call.whole /\ call.kind = "pool" /\ "contexts" \in Due
        /\ call.guard = 0 /\ call.at \in GPUs /\ call.at \in 0 .. N /\ call.at # 0
    BY <1>1, DropOrder DEF EnterCache, Types, CallType, GPUs
  <1>4. /\ call' \in CallType /\ call'.kind = call.kind
        /\ call'.phase = call.phase /\ call'.at = call.at
        /\ call'.body = call.body /\ call'.guard = call.at
        /\ call'.probe = call.probe /\ call'.drops = call.drops
        /\ call'.whole = call.whole
    BY <1>3 DEF EnterCache, Types, CallType
  <1>5. stack' = Append(entry, call.at) /\ stack' \in Seq(0 .. N)
    BY <1>3 DEF EnterCache, StackOK, Types
  <1>6. host' = host /\ cu' = cu /\ entry' = entry /\ own' = own
    BY DEF EnterCache
  <1>7. (Types /\ Refcounts)'
    BY <1>4, <1>5, <1>6 DEF Types, Refcounts
  <1>8. Progress'
    BY <1>1, <1>3, <1>4 DEF Progress, Constructing
  <1>9. Turn'
    BY <1>1, <1>4 DEF Turn
  <1>10. Ending'
    BY <1>2, <1>3, <1>4, <1>6 DEF Ending, Due
  <1>11. Emptying'
    BY <1>4, <1>6 DEF Emptying, Due
  <1>12. (StackOK /\ StreamsOK /\ PeersOK /\ PinnedOK)'
    BY <1>3, <1>4, <1>5, <1>6 DEF StackOK, StreamsOK, PeersOK, PinnedOK
  <1>13. QED
    BY <1>7, <1>8, <1>9, <1>10, <1>11, <1>12

LEMMA RefusedCacheStep ==
  ASSUME CtxInv, RefusedCache
  PROVE  CtxInv'
  <1> USE DEF CtxInv
  <1>1. call.phase = "drop" /\ call.drops # << >> /\ Head(call.drops) = "caches"
    BY DEF RefusedCache, Dropping
  <1>2. /\ Tail(call.drops) \in IF ~call.whole THEN UnwindingRests
             ELSE IF call.kind = "pool" THEN PoolRests ELSE EngineRests
        /\ Tail(call.drops) \in DropLists
        /\ ToSet(Tail(call.drops)) = Due \ {"caches"} /\ "caches" \in Due
    BY <1>1, DropOrder
  <1>3. /\ call.whole /\ call.kind = "pool" /\ call.at \in GPUs /\ call.probe = 0
        /\ "pools" \in Due /\ call.guard = 0
    BY <1>1, DropOrder DEF Ending, Types, CallType, RefusedCache
  <1>4. /\ call' \in CallType /\ call'.kind = call.kind /\ call'.phase = call.phase
        /\ call'.body = call.body /\ call'.guard = 0 /\ call'.probe = call.probe
        /\ call'.whole = call.whole
        /\ \/ call.at < N /\ call'.at = call.at + 1 /\ call'.drops = call.drops
           \/ call.at = N /\ call'.at = 1 /\ call'.drops = Tail(call.drops)
    <2>1. CASE call.at < N
      <3>1. call.at + 1 \in GPUs
        BY <2>1, NAssumption DEF Types, CallType, GPUs
      <3>2. QED
        BY <1>3, <2>1, <3>1, NAssumption DEF RefusedCache, DroppedAt, Types,
           CallType
    <2>2. CASE call.at = N
      <3>1. ~(call.at < N) /\ 1 \in GPUs
        BY <2>2, NAssumption DEF GPUs
      <3>2. QED
        BY <1>2, <1>3, <2>2, <3>1, NAssumption DEF RefusedCache, DroppedAt,
           Dropped, Types, CallType
    <2>3. QED
      BY <2>1, <2>2, NAssumption DEF Types, CallType, GPUs
  <1>5. /\ cu' \in CuType /\ cu'.refs = cu.refs /\ cu'.peers = cu.peers
        /\ cu'.blocks = (cu.blocks \ {<<call.at, "cached">>}) \cup {<<call.at, "skipped">>}
    <2> DEFINE rest == (cu.blocks \ {<<call.at, "cached">>}) \cup {<<call.at, "skipped">>}
    <2>1. cu \in CuType /\ cu.blocks \subseteq GPUs \X {"page", "cached", "skipped"}
      BY DEF Types, CuType
    <2>2. <<call.at, "skipped">> \in GPUs \X {"page", "cached", "skipped"}
      BY <1>3
    <2>3. rest \in SUBSET (GPUs \X {"page", "cached", "skipped"})
      BY <2>1, <2>2
    <2>4. cu' = [cu EXCEPT !.blocks = rest]
      BY DEF RefusedCache
    <2> HIDE DEF rest
    <2>5. cu' \in CuType /\ cu'.refs = cu.refs /\ cu'.peers = cu.peers /\ cu'.blocks = rest
      BY <2>1, <2>3, <2>4 DEF CuType
    <2>6. QED
      BY <2>5 DEF rest
  <1>6. stack' = entry /\ stack' \in Seq(0 .. N)
    BY <1>3 DEF RefusedCache, StackOK, Types
  <1>7. host' = host /\ entry' = entry /\ own' = own
    BY DEF RefusedCache
  <1>8. (Types /\ Refcounts)'
    BY <1>4, <1>5, <1>6, <1>7 DEF Types, Refcounts
  <1>9. Progress'
    BY <1>1, <1>3, <1>4 DEF Progress, Constructing
  <1>10. Turn'
    BY <1>1, <1>4 DEF Turn
  <1>11. Ending'
    BY <1>2, <1>3, <1>4, <1>7 DEF Ending, Due
  <1>12. Emptying'
    <2>1. \A g \in GPUs : /\ g >= call.at /\ g # call.at => g >= call.at + 1
                          /\ call.at = N => ~(g >= call.at /\ g # call.at)
                          /\ g >= 1
      BY DEF Types, CallType, GPUs
    <2>2. QED
      BY <1>2, <1>3, <1>4, <1>5, <1>7, <2>1 DEF Emptying, Due, Types, OwnType
  <1>13. (StackOK /\ StreamsOK /\ PeersOK /\ PinnedOK)'
    BY <1>4, <1>5, <1>6, <1>7 DEF StackOK, StreamsOK, PeersOK, PinnedOK
  <1>14. QED
    BY <1>8, <1>9, <1>10, <1>11, <1>12, <1>13

LEMMA FreeCacheStep ==
  ASSUME CtxInv, FreeCache
  PROVE  CtxInv'
  <1> USE DEF CtxInv
  <1>1. call.phase = "drop" /\ call.drops # << >> /\ Head(call.drops) = "caches"
    BY DEF FreeCache, Dropping
  <1>2. /\ Tail(call.drops) \in IF ~call.whole THEN UnwindingRests
             ELSE IF call.kind = "pool" THEN PoolRests ELSE EngineRests
        /\ Tail(call.drops) \in DropLists
        /\ ToSet(Tail(call.drops)) = Due \ {"caches"} /\ "caches" \in Due
    BY <1>1, DropOrder
  <1>3. /\ call.whole /\ call.kind = "pool" /\ call.at \in GPUs /\ call.probe = 0
        /\ "pools" \in Due
    BY <1>1, DropOrder DEF Ending, Types, CallType
  <1>4. /\ call' \in CallType /\ call'.kind = call.kind /\ call'.phase = call.phase
        /\ call'.body = call.body /\ call'.guard = 0 /\ call'.probe = call.probe
        /\ call'.whole = call.whole
        /\ \/ call.at < N /\ call'.at = call.at + 1 /\ call'.drops = call.drops
           \/ call.at = N /\ call'.at = 1 /\ call'.drops = Tail(call.drops)
    <2>1. CASE call.at < N
      <3>1. call.at + 1 \in GPUs
        BY <2>1, NAssumption DEF Types, CallType, GPUs
      <3>2. QED
        BY <1>3, <2>1, <3>1, NAssumption DEF FreeCache, DroppedAt, Types,
           CallType
    <2>2. CASE call.at = N
      <3>1. ~(call.at < N) /\ 1 \in GPUs
        BY <2>2, NAssumption DEF GPUs
      <3>2. QED
        BY <1>2, <1>3, <2>2, <3>1, NAssumption DEF FreeCache, DroppedAt,
           Dropped, Types, CallType
    <2>3. QED
      BY <2>1, <2>2, NAssumption DEF Types, CallType, GPUs
  <1>5. /\ cu' \in CuType /\ cu'.refs = cu.refs /\ cu'.peers = cu.peers
        /\ cu'.blocks = cu.blocks \ {<<call.at, "cached">>}
    BY DEF FreeCache, Types, CuType
  <1>6. stack' = entry /\ stack' \in Seq(0 .. N)
    BY PushPop DEF FreeCache, StackOK, Types
  <1>7. host' = host /\ entry' = entry /\ own' = own
    BY DEF FreeCache
  <1>8. (Types /\ Refcounts)'
    BY <1>4, <1>5, <1>6, <1>7 DEF Types, Refcounts
  <1>9. Progress'
    BY <1>1, <1>3, <1>4 DEF Progress, Constructing
  <1>10. Turn'
    BY <1>1, <1>4 DEF Turn
  <1>11. Ending'
    BY <1>2, <1>3, <1>4, <1>7 DEF Ending, Due
  <1>12. Emptying'
    <2>1. \A g \in GPUs : /\ g >= call.at /\ g # call.at => g >= call.at + 1
                          /\ call.at = N => ~(g >= call.at /\ g # call.at)
                          /\ g >= 1
      BY DEF Types, CallType, GPUs
    <2>2. QED
      BY <1>2, <1>3, <1>4, <1>5, <1>7, <2>1 DEF Emptying, Due, Types, OwnType
  <1>13. (StackOK /\ StreamsOK /\ PeersOK /\ PinnedOK)'
    BY <1>4, <1>5, <1>6, <1>7 DEF StackOK, StreamsOK, PeersOK, PinnedOK
  <1>14. QED
    BY <1>8, <1>9, <1>10, <1>11, <1>12, <1>13

LEMMA SkipCacheStep ==
  ASSUME CtxInv, SkipCache
  PROVE  CtxInv'
  <1> USE DEF CtxInv
  <1>1. call.phase = "drop" /\ call.drops # << >> /\ Head(call.drops) = "caches"
    BY DEF SkipCache, Dropping
  <1>2. /\ Tail(call.drops) \in IF ~call.whole THEN UnwindingRests
             ELSE IF call.kind = "pool" THEN PoolRests ELSE EngineRests
        /\ Tail(call.drops) \in DropLists
        /\ ToSet(Tail(call.drops)) = Due \ {"caches"} /\ "caches" \in Due
    BY <1>1, DropOrder
  <1>3. /\ call.whole /\ call.kind = "pool" /\ call.at \in GPUs /\ call.probe = 0
        /\ "pools" \in Due /\ call.guard = 0 /\ <<call.at, "cached">> \notin cu.blocks
    BY <1>1, DropOrder DEF Ending, Types, CallType, SkipCache
  <1>4. /\ call' \in CallType /\ call'.kind = call.kind /\ call'.phase = call.phase
        /\ call'.body = call.body /\ call'.guard = 0 /\ call'.probe = call.probe
        /\ call'.whole = call.whole
        /\ \/ call.at < N /\ call'.at = call.at + 1 /\ call'.drops = call.drops
           \/ call.at = N /\ call'.at = 1 /\ call'.drops = Tail(call.drops)
    <2>1. CASE call.at < N
      <3>1. call.at + 1 \in GPUs
        BY <2>1, NAssumption DEF Types, CallType, GPUs
      <3>2. QED
        BY <1>3, <2>1, <3>1, NAssumption DEF SkipCache, DroppedAt, Types,
           CallType
    <2>2. CASE call.at = N
      <3>1. ~(call.at < N) /\ 1 \in GPUs
        BY <2>2, NAssumption DEF GPUs
      <3>2. QED
        BY <1>2, <1>3, <2>2, <3>1, NAssumption DEF SkipCache, DroppedAt,
           Dropped, Types, CallType
    <2>3. QED
      BY <2>1, <2>2, NAssumption DEF Types, CallType, GPUs
  <1>5. host' = host /\ cu' = cu /\ stack' = stack /\ entry' = entry /\ own' = own
    BY DEF SkipCache
  <1>6. (Types /\ Refcounts)'
    BY <1>4, <1>5 DEF Types, Refcounts
  <1>7. Progress'
    BY <1>1, <1>3, <1>4 DEF Progress, Constructing
  <1>8. Turn'
    BY <1>1, <1>4 DEF Turn
  <1>9. Ending'
    BY <1>2, <1>3, <1>4, <1>5 DEF Ending, Due
  <1>10. Emptying'
    <2>1. \A g \in GPUs : /\ g >= call.at /\ g # call.at => g >= call.at + 1
                          /\ call.at = N => ~(g >= call.at /\ g # call.at)
                          /\ g >= 1
      BY DEF Types, CallType, GPUs
    <2>2. QED
      BY <1>1, <1>2, <1>3, <1>4, <1>5, <2>1 DEF Emptying, Due, Types, OwnType
  <1>11. (StackOK /\ StreamsOK /\ PeersOK /\ PinnedOK)'
    BY <1>3, <1>4, <1>5 DEF StackOK, StreamsOK, PeersOK, PinnedOK
  <1>12. QED
    BY <1>6, <1>7, <1>8, <1>9, <1>10, <1>11

LEMMA UnpinPoolStep ==
  ASSUME CtxInv, UnpinPool
  PROVE  CtxInv'
  <1> USE DEF CtxInv
  <1>1. call.phase = "drop" /\ call.drops # << >> /\ Head(call.drops) = "pools"
    BY DEF UnpinPool, Dropping
  <1>2. /\ Tail(call.drops) \in IF ~call.whole THEN UnwindingRests
             ELSE IF call.kind = "pool" THEN PoolRests ELSE EngineRests
        /\ Tail(call.drops) \in DropLists
        /\ ToSet(Tail(call.drops)) = Due \ {"pools"} /\ "pools" \in Due
    BY <1>1, DropOrder
  <1>3. call' \in CallType
    BY DEF UnpinPool, Types
  <1>4. /\ own' \in OwnType /\ own'.matrix = own.matrix
        /\ own'.enabled = own.enabled /\ own'.registry = own.registry
        /\ own'.streams = own.streams /\ own'.mapped = own.mapped
        /\ own'.pinned = own.pinned \ {call.at} /\ own'.inflight = own.inflight
    BY DEF UnpinPool, Types, OwnType
  <1>5. host' = host /\ cu' = cu /\ stack' = stack /\ entry' = entry /\ call' = call
    BY DEF UnpinPool
  <1>6. (Types /\ Refcounts)'
    BY <1>4, <1>5 DEF Types, Refcounts
  <1>7. Progress'
    BY <1>1, <1>4, <1>5 DEF Progress, Constructing
  <1>8. Turn'
    BY <1>1, <1>5 DEF Turn
  <1>9. Ending'
    BY <1>4, <1>5 DEF Ending, Due
  <1>10. Emptying'
    BY <1>4, <1>5 DEF Emptying, Due
  <1>11. (StackOK /\ StreamsOK /\ PeersOK /\ PinnedOK)'
    BY <1>4, <1>5 DEF StackOK, StreamsOK, PeersOK, PinnedOK
  <1>12. QED
    BY <1>6, <1>7, <1>8, <1>9, <1>10, <1>11

LEMMA UnmapPoolStep ==
  ASSUME CtxInv, UnmapPool
  PROVE  CtxInv'
  <1> USE DEF CtxInv
  <1>1. call.phase = "drop" /\ call.drops # << >> /\ Head(call.drops) = "pools"
    BY DEF UnmapPool, Dropping
  <1>2. /\ Tail(call.drops) \in IF ~call.whole THEN UnwindingRests
             ELSE IF call.kind = "pool" THEN PoolRests ELSE EngineRests
        /\ Tail(call.drops) \in DropLists
        /\ ToSet(Tail(call.drops)) = Due \ {"pools"} /\ "pools" \in Due
    BY <1>1, DropOrder
  <1>3. /\ call.whole /\ call.kind = "pool" /\ call.at \in GPUs /\ call.probe = 0
        /\ call.guard = 0 /\ "caches" \notin Due /\ call.at \notin own.pinned
    BY <1>1, DropOrder DEF Ending, Types, CallType, UnmapPool
  <1>4. /\ call' \in CallType /\ call'.kind = call.kind /\ call'.phase = call.phase
        /\ call'.body = call.body /\ call'.guard = 0 /\ call'.probe = call.probe
        /\ call'.whole = call.whole
        /\ \/ call.at < N /\ call'.at = call.at + 1 /\ call'.drops = call.drops
           \/ call.at = N /\ call'.at = 1 /\ call'.drops = Tail(call.drops)
    <2>1. CASE call.at < N
      <3>1. call.at + 1 \in GPUs
        BY <2>1, NAssumption DEF Types, CallType, GPUs
      <3>2. QED
        BY <1>3, <2>1, <3>1, NAssumption DEF UnmapPool, DroppedAt, Types,
           CallType
    <2>2. CASE call.at = N
      <3>1. ~(call.at < N) /\ 1 \in GPUs
        BY <2>2, NAssumption DEF GPUs
      <3>2. QED
        BY <1>2, <1>3, <2>2, <3>1, NAssumption DEF UnmapPool, DroppedAt,
           Dropped, Types, CallType
    <2>3. QED
      BY <2>1, <2>2, NAssumption DEF Types, CallType, GPUs
  <1>5. /\ own' \in OwnType /\ own'.matrix = own.matrix
        /\ own'.enabled = own.enabled /\ own'.registry = own.registry
        /\ own'.streams = own.streams /\ own'.mapped = own.mapped \ {call.at}
        /\ own'.pinned = own.pinned /\ own'.inflight = own.inflight
    BY DEF UnmapPool, Types, OwnType
  <1>6. "claim" \in Careful => own.inflight = {}
    BY <1>1 DEF Emptying
  <1>7. host' = host /\ cu' = cu /\ stack' = stack /\ entry' = entry
    BY DEF UnmapPool
  <1>8. (Types /\ Refcounts)'
    BY <1>4, <1>5, <1>7 DEF Types, Refcounts
  <1>9. Progress'
    BY <1>1, <1>3, <1>4 DEF Progress, Constructing
  <1>10. Turn'
    BY <1>1, <1>4 DEF Turn
  <1>11. Ending'
    BY <1>2, <1>3, <1>4, <1>5 DEF Ending, Due
  <1>12. Emptying'
    <2>1. \A g \in GPUs : /\ g >= call.at /\ g # call.at => g >= call.at + 1
                          /\ call.at = N => ~(g >= call.at /\ g # call.at)
                          /\ g >= 1
      BY DEF Types, CallType, GPUs
    <2>2. QED
      BY <1>3, <1>4, <1>5, <1>7, <2>1 DEF Emptying, Due, OwnType
  <1>13. (StackOK /\ StreamsOK /\ PeersOK /\ PinnedOK)'
    BY <1>3, <1>4, <1>5, <1>6, <1>7 DEF StackOK, StreamsOK, PeersOK, PinnedOK
  <1>14. QED
    BY <1>8, <1>9, <1>10, <1>11, <1>12, <1>13

LEMMA GoneStep ==
  ASSUME CtxInv, Gone
  PROVE  CtxInv'
  <1> USE DEF CtxInv
  <1>1. /\ call.phase = "drop" /\ Due = {} /\ call.guard = 0 /\ call.probe = 0
        /\ own.matrix = {} /\ own.registry = {} /\ 1 \in GPUs
    BY ListItems, NAssumption DEF Gone, Finished, Ending, Due, GPUs
  <1>2. /\ call' \in CallType /\ call'.kind = call.kind /\ call'.phase = "rest"
        /\ call'.at = 1 /\ call'.body = {} /\ call'.guard = call.guard
        /\ call'.probe = call.probe /\ call'.drops = call.drops
        /\ call'.whole = FALSE
    BY <1>1, PhasesAreNamed DEF Gone, Types, CallType
  <1>3. /\ own' = NothingOwned /\ own' \in OwnType
        /\ own'.matrix = {} /\ own'.enabled = {} /\ own'.registry = {} /\ own'.streams = {}
        /\ own'.mapped = {} /\ own'.pinned = {} /\ own'.inflight = {}
    BY DEF Gone, NothingOwned, OwnType
  <1>4. cu' \in CuType /\ cu'.refs = cu.refs /\ cu'.blocks = {}
    BY DEF Gone, Types, CuType
  <1>5. host' = host /\ stack' = stack /\ entry' = entry
    BY DEF Gone
  <1>6. (Types /\ Refcounts)'
    BY <1>1, <1>2, <1>3, <1>4, <1>5 DEF Types, Refcounts
  <1>7. Progress'
    BY <1>2, <1>3, <1>4 DEF Progress
  <1>8. (Turn /\ Ending /\ Emptying)'
    BY <1>1, <1>2 DEF Turn, Ending, Emptying
  <1>9. (StackOK /\ StreamsOK /\ PeersOK /\ PinnedOK)'
    BY <1>2, <1>3, <1>5 DEF StackOK, StreamsOK, PeersOK, PinnedOK
  <1>10. QED
    BY <1>6, <1>7, <1>8, <1>9

LEMMA HostRetainStep ==
  ASSUME CtxInv, NEW g \in GPUs, HostRetain(g)
  PROVE  CtxInv'
  <1> USE DEF CtxInv
  <1>1. call' = call /\ own' = own /\ stack' = stack /\ entry' = entry
    BY DEF HostRetain
  <1>2. host' = host \cup {g} /\ g \notin host
    BY DEF HostRetain
  <1>3. /\ cu' \in CuType
        /\ \A h \in GPUs : cu'.refs[h] = cu.refs[h] + (IF h = g THEN 1 ELSE 0)
        /\ cu'.peers = cu.peers /\ cu'.blocks = cu.blocks
    BY RetainedIs DEF HostRetain, Types
  <1>4. (Types /\ Refcounts)'
    BY <1>1, <1>2, <1>3 DEF Types, Refcounts
  <1>5. (Progress /\ Turn /\ Ending /\ Emptying)'
    BY <1>1, <1>3 DEF Progress, Constructing, Turn, Ending, Due, Emptying
  <1>6. (StackOK /\ StreamsOK /\ PeersOK /\ PinnedOK)'
    BY <1>1, <1>3 DEF StackOK, StreamsOK, PeersOK, PinnedOK
  <1>7. QED
    BY <1>4, <1>5, <1>6

LEMMA HostReleaseStep ==
  ASSUME CtxInv, NEW g \in GPUs, HostRelease(g)
  PROVE  CtxInv'
  <1> USE DEF CtxInv
  <1>1. call' = call /\ own' = own /\ stack' = stack /\ entry' = entry
    BY DEF HostRelease
  <1>2. host' = host \ {g} /\ g \in host
    BY DEF HostRelease
  <1>3. {g} \in SUBSET GPUs /\ \A h \in {g} : cu.refs[h] > 0
    BY DEF HostRelease, Refcounts
  <1>4. /\ cu' \in CuType
        /\ \A h \in GPUs : cu'.refs[h] = cu.refs[h] - (IF h \in {g} THEN 1 ELSE 0)
        /\ cu'.peers \subseteq cu.peers /\ cu'.blocks \subseteq cu.blocks
        /\ \A p \in cu.peers :
             \/ p \in cu'.peers
             \/ p[1] \in {g} /\ cu.refs[p[1]] = 1
             \/ p[2] \in {g} /\ cu.refs[p[2]] = 1
    BY <1>3, ReleasedIs DEF HostRelease, Types
  <1>5. \A p \in own.enabled :
          /\ p \in cu.peers /\ p[1] \in own.matrix /\ p[2] \in own.matrix
          /\ p[1] \in GPUs /\ p[2] \in GPUs
    BY DEF PeersOK, Types, OwnType
  <1>6. (Types /\ Refcounts)'
    BY <1>1, <1>2, <1>4 DEF Types, Refcounts
  <1>7. Progress'
    BY <1>1, <1>4 DEF Progress, Constructing
  <1>8. Turn'
    BY <1>1 DEF Turn
  <1>9. Ending'
    BY <1>1 DEF Ending, Due
  <1>10. Emptying'
    BY <1>1, <1>4 DEF Emptying, Due
  <1>11. PeersOK'
    <2>1. g \in own.matrix => cu.refs[g] # 1
      BY <1>2 DEF Refcounts
    <2>2. QED
      BY <1>1, <1>4, <2>1 DEF PeersOK
  <1>12. (StackOK /\ StreamsOK /\ PinnedOK)'
    BY <1>1 DEF StackOK, StreamsOK, PinnedOK
  <1>13. QED
    BY <1>6, <1>7, <1>8, <1>9, <1>10, <1>11, <1>12

LEMMA TakeBlockStep ==
  ASSUME CtxInv, NEW g \in GPUs, TakeBlock(g)
  PROVE  CtxInv'
  <1> USE DEF CtxInv
  <1>1. call.phase = "built" /\ call.guard = 0 /\ stack = entry /\ g \in 0 .. N /\ g # 0
    BY DEF TakeBlock, Bind, Turn, StackOK, GPUs
  <1>2. stack' = Current(g) /\ entry' = stack'
    BY DEF TakeBlock, Bind
  <1>3. stack' \in Seq(0 .. N)
    BY <1>1, <1>2, CurrentIs DEF Types
  <1>4. cu' = [cu EXCEPT !.blocks = cu.blocks \cup {<<g, "page">>}]
    BY DEF TakeBlock
  <1>5. cu'.refs = cu.refs /\ cu'.peers = cu.peers
    BY <1>4
  <1>6. /\ cu'.blocks \subseteq cu.blocks \cup {<<g, "page">>, <<g, "cached">>}
        /\ call.kind = "engine" => cu'.blocks \subseteq cu.blocks \cup {<<g, "page">>}
    BY <1>4
  <1>7. cu'.blocks \in SUBSET (GPUs \X {"page", "cached", "skipped"})
    BY <1>6 DEF Types, CuType
  <1>8. cu' \in CuType
    BY <1>4, <1>5, <1>7 DEF Types, CuType
  <1>9. host' = host /\ call' = call /\ own' = own
    BY DEF TakeBlock
  <1>10. (Types /\ Refcounts)'
    BY <1>2, <1>3, <1>4, <1>8, <1>9 DEF Types, Refcounts
  <1>11. Progress'
    BY <1>1, <1>4, <1>9 DEF Progress, Constructing
  <1>12. (Turn /\ Ending /\ Emptying)'
    BY <1>1, <1>9 DEF Turn, Ending, Emptying
  <1>13. StackOK'
    BY <1>1, <1>2, <1>9 DEF StackOK
  <1>14. (StreamsOK /\ PeersOK /\ PinnedOK)'
    BY <1>4, <1>9 DEF StreamsOK, PeersOK, PinnedOK
  <1>15. QED
    BY <1>10, <1>11, <1>12, <1>13, <1>14

LEMMA LeaveBlockStep ==
  ASSUME CtxInv, NEW g \in GPUs, LeaveBlock(g)
  PROVE  CtxInv'
  <1> USE DEF CtxInv
  <1>1. call.phase = "built" /\ call.guard = 0 /\ stack = entry /\ g \in 0 .. N /\ g # 0
    BY DEF LeaveBlock, Bind, Turn, StackOK, GPUs
  <1>2. stack' = Current(g) /\ entry' = stack'
    BY DEF LeaveBlock, Bind
  <1>3. stack' \in Seq(0 .. N)
    BY <1>1, <1>2, CurrentIs DEF Types
  <1>4. cu' = [cu EXCEPT !.blocks = (cu.blocks \ {<<g, "page">>})
                       \cup IF call.kind = "pool" THEN {<<g, "cached">>} ELSE {}]
    BY DEF LeaveBlock
  <1>5. cu'.refs = cu.refs /\ cu'.peers = cu.peers
    BY <1>4
  <1>6. /\ cu'.blocks \subseteq cu.blocks \cup {<<g, "page">>, <<g, "cached">>}
        /\ call.kind = "engine" => cu'.blocks \subseteq cu.blocks \cup {<<g, "page">>}
    BY <1>4
  <1>7. cu'.blocks \in SUBSET (GPUs \X {"page", "cached", "skipped"})
    BY <1>6 DEF Types, CuType
  <1>8. cu' \in CuType
    BY <1>4, <1>5, <1>7 DEF Types, CuType
  <1>9. host' = host /\ call' = call /\ own' = own
    BY DEF LeaveBlock
  <1>10. (Types /\ Refcounts)'
    BY <1>2, <1>3, <1>4, <1>8, <1>9 DEF Types, Refcounts
  <1>11. Progress'
    BY <1>1, <1>4, <1>9 DEF Progress, Constructing
  <1>12. (Turn /\ Ending /\ Emptying)'
    BY <1>1, <1>9 DEF Turn, Ending, Emptying
  <1>13. StackOK'
    BY <1>1, <1>2, <1>9 DEF StackOK
  <1>14. (StreamsOK /\ PeersOK /\ PinnedOK)'
    BY <1>4, <1>9 DEF StreamsOK, PeersOK, PinnedOK
  <1>15. QED
    BY <1>10, <1>11, <1>12, <1>13, <1>14

LEMMA StartCopyStep ==
  ASSUME CtxInv, NEW g \in GPUs, StartCopy(g)
  PROVE  CtxInv'
  <1> USE DEF CtxInv
  <1>1. call.phase = "built" /\ call.guard = 0 /\ stack = entry /\ g \in 0 .. N /\ g # 0
    BY DEF StartCopy, Bind, Turn, StackOK, GPUs
  <1>2. stack' = Current(g) /\ entry' = stack'
    BY DEF StartCopy, Bind
  <1>3. stack' \in Seq(0 .. N)
    BY <1>1, <1>2, CurrentIs DEF Types
  <1>4. call.kind = "pool" /\ own.mapped = GPUs
    BY <1>1 DEF StartCopy, Progress
  <1>5. cu' = [cu EXCEPT !.blocks = cu.blocks \cup {<<g, "page">>}]
    BY DEF StartCopy
  <1>6. cu'.refs = cu.refs /\ cu'.peers = cu.peers
    BY <1>5
  <1>7. /\ cu'.blocks \subseteq cu.blocks \cup {<<g, "page">>, <<g, "cached">>}
        /\ call.kind = "engine" => cu'.blocks \subseteq cu.blocks \cup {<<g, "page">>}
    BY <1>5
  <1>8. cu'.blocks \in SUBSET (GPUs \X {"page", "cached", "skipped"})
    BY <1>7 DEF Types, CuType
  <1>9. cu' \in CuType
    BY <1>5, <1>6, <1>8 DEF Types, CuType
  <1>10. /\ own' \in OwnType /\ own'.matrix = own.matrix
        /\ own'.enabled = own.enabled /\ own'.registry = own.registry
        /\ own'.streams = own.streams /\ own'.mapped = own.mapped
        /\ own'.pinned = own.pinned /\ own'.inflight = own.inflight \cup {g}
    BY DEF StartCopy, Types, OwnType
  <1>11. host' = host /\ call' = call
    BY DEF StartCopy
  <1>12. (Types /\ Refcounts)'
    BY <1>2, <1>3, <1>5, <1>9, <1>10, <1>11 DEF Types, Refcounts
  <1>13. Progress'
    BY <1>1, <1>4, <1>10, <1>11 DEF Progress, Constructing
  <1>14. (Turn /\ Ending /\ Emptying)'
    BY <1>1, <1>11 DEF Turn, Ending, Emptying
  <1>15. StackOK'
    BY <1>1, <1>2, <1>11 DEF StackOK
  <1>16. (StreamsOK /\ PeersOK /\ PinnedOK)'
    BY <1>4, <1>5, <1>10 DEF StreamsOK, PeersOK, PinnedOK
  <1>17. QED
    BY <1>12, <1>13, <1>14, <1>15, <1>16

LEMMA ClaimCopyStep ==
  ASSUME CtxInv, NEW g \in GPUs, ClaimCopy(g)
  PROVE  CtxInv'
  <1> USE DEF CtxInv
  <1>1. call.phase = "built" /\ call.guard = 0 /\ stack = entry /\ g \in 0 .. N /\ g # 0
    BY DEF ClaimCopy, Bind, Turn, StackOK, GPUs
  <1>2. stack' = Current(g) /\ entry' = stack'
    BY DEF ClaimCopy, Bind
  <1>3. stack' \in Seq(0 .. N)
    BY <1>1, <1>2, CurrentIs DEF Types
  <1>4. /\ own' \in OwnType /\ own'.matrix = own.matrix
        /\ own'.enabled = own.enabled /\ own'.registry = own.registry
        /\ own'.streams = own.streams /\ own'.mapped = own.mapped
        /\ own'.pinned = own.pinned /\ own'.inflight = own.inflight \ {g}
    BY DEF ClaimCopy, Types, OwnType
  <1>5. host' = host /\ cu' = cu /\ call' = call
    BY DEF ClaimCopy
  <1>6. (Types /\ Refcounts)'
    BY <1>2, <1>3, <1>4, <1>5 DEF Types, Refcounts
  <1>7. Progress'
    BY <1>1, <1>4, <1>5 DEF Progress, Constructing
  <1>8. (Turn /\ Ending /\ Emptying)'
    BY <1>1, <1>5 DEF Turn, Ending, Emptying
  <1>9. StackOK'
    BY <1>1, <1>2, <1>5 DEF StackOK
  <1>10. (StreamsOK /\ PeersOK /\ PinnedOK)'
    BY <1>4, <1>5 DEF StreamsOK, PeersOK, PinnedOK
  <1>11. QED
    BY <1>6, <1>7, <1>8, <1>9, <1>10

-----------------------------------------------------------------------------
LEMMA InitStep == Init => CtxInv
  <1> SUFFICES ASSUME Init PROVE CtxInv
    OBVIOUS
  <1>1. /\ 0 \in 0 .. N /\ 1 \in GPUs /\ 0 \notin GPUs /\ << >> \in DropLists
        /\ host \subseteq GPUs
    BY NAssumption DEF Init, GPUs, DropLists, PoolRests
  <1>2. /\ cu.refs = [g \in GPUs |-> IF g \in host THEN 1 ELSE 0]
        /\ cu.peers = {} /\ cu.blocks = {} /\ cu \in CuType
    BY DEF Init, CuType
  <1>3. /\ call.phase = "rest" /\ call.at = 1 /\ call.body = {} /\ call.guard = 0
        /\ call.probe = 0 /\ ~call.whole
    BY DEF Init
  <1>4. call \in CallType
    <2>1. call \in [kind : Kinds, lives : {0}, phase : {"rest"}, at : {1}, body : {{}},
                    guard : {0}, probe : {0}, drops : {<< >>}, whole : {FALSE}]
      BY DEF Init
    <2>2. {} \in SUBSET Steps /\ 0 \in Nat /\ FALSE \in BOOLEAN
      OBVIOUS
    <2>3. QED
      BY <1>1, <2>1, <2>2, PhasesAreNamed DEF CallType
  <1>5. /\ own = NothingOwned /\ own \in OwnType
        /\ own.matrix = {} /\ own.enabled = {} /\ own.registry = {} /\ own.streams = {}
        /\ own.mapped = {} /\ own.pinned = {} /\ own.inflight = {}
    BY DEF Init, NothingOwned, OwnType
  <1>6. stack = entry /\ stack \in Seq(0 .. N)
    <2>1. << >> \in Seq(0 .. N)
      OBVIOUS
    <2>2. Append(<< >>, 0) \in Seq(0 .. N)
      BY <1>1
    <2>3. stack \in {<< >>, Append(<< >>, 0)} /\ entry = stack
      BY DEF Init
    <2>4. QED
      BY <2>1, <2>2, <2>3
  <1>7. Types
    BY <1>1, <1>2, <1>4, <1>5, <1>6 DEF Types
  <1>8. Refcounts
    BY <1>1, <1>2, <1>3, <1>5 DEF Refcounts
  <1>9. Progress /\ Turn
    BY <1>2, <1>3, <1>5 DEF Progress, Turn
  <1>10. Ending /\ Emptying
    BY <1>3 DEF Ending, Emptying
  <1>11. StackOK /\ StreamsOK /\ PeersOK /\ PinnedOK
    BY <1>3, <1>5, <1>6 DEF StackOK, StreamsOK, PeersOK, PinnedOK
  <1>12. QED
    BY <1>7, <1>8, <1>9, <1>10, <1>11 DEF CtxInv

LEMMA StutterStep ==
  ASSUME CtxInv, UNCHANGED vars
  PROVE  CtxInv'
  <1>1. host' = host /\ cu' = cu /\ stack' = stack /\ entry' = entry /\ call' = call
        /\ own' = own
    BY DEF vars
  <1>2. (Types /\ Refcounts /\ Progress /\ Turn)'
    BY <1>1 DEF CtxInv, Types, Refcounts, Progress, Turn, Constructing
  <1>3. (Ending /\ Emptying)'
    BY <1>1 DEF CtxInv, Ending, Emptying, Due
  <1>4. (StackOK /\ StreamsOK /\ PeersOK /\ PinnedOK)'
    BY <1>1 DEF CtxInv, StackOK, StreamsOK, PeersOK, PinnedOK
  <1>5. QED
    BY <1>2, <1>3, <1>4 DEF CtxInv

(* What is retained, entered, mapped and left to drop is known at every    *)
(* point of every constructor, unwinding and drop, whatever the driver     *)
(* refuses: the inductive invariant (src/src/context.rs).                  *)
THEOREM CtxInductive == Spec => []CtxInv
  <1>1. ASSUME CtxInv, [Next]_vars
        PROVE  CtxInv'
    <2>1. CASE Construct
      BY <1>1, <2>1, BuildStep, RefusedStep, EnterStep, LeaveStep,
         ProbeRetainStep, ProbeQueryStep, ProbeReleaseStep, MatrixRetainStep,
         EnablePairsStep, RegistryRetainStep, CreateComputeStep,
         CreatePrefetchStep, MapPoolStep, PinPoolStep DEF Construct
    <2>2. CASE Drop
      BY <1>1, <2>2, DropOwnerStep, DropGuardStep, DropProbeStep,
         DropClusterStep, DropContextsStep, DropStreamsStep, DropEventsStep,
         EnterCacheStep, RefusedCacheStep, FreeCacheStep, SkipCacheStep, UnpinPoolStep,
         UnmapPoolStep, GoneStep DEF Drop
    <2>3. CASE \E g \in GPUs : HostRetain(g) \/ HostRelease(g)
      BY <1>1, <2>3, HostRetainStep, HostReleaseStep
    <2>4. CASE \E g \in GPUs : TakeBlock(g) \/ LeaveBlock(g) \/ StartCopy(g) \/ ClaimCopy(g)
      BY <1>1, <2>4, TakeBlockStep, LeaveBlockStep, StartCopyStep,
         ClaimCopyStep
    <2>5. CASE UNCHANGED vars
      BY <1>1, <2>5, StutterStep
    <2>6. QED
      BY <1>1, <2>1, <2>2, <2>3, <2>4, <2>5 DEF Next
  <1>2. QED
    BY <1>1, InitStep, PTL DEF Spec

-----------------------------------------------------------------------------
(* StackIsRestored, with any number of owners built, failed and dropped:   *)
(* the guards nest, and a guard's context is retained by the probe, by the *)
(* peer matrix or by the registry for as long as the guard lives           *)
(* (src/src/context.rs:59-60, 119-123).                                    *)
THEOREM StackIsAlwaysRestored == Spec => []StackIsRestored
  <1>1. CtxInv => StackIsRestored
    <2> SUFFICES ASSUME CtxInv, call.guard # 0
                 PROVE  cu.refs[call.guard] > 0
      BY DEF CtxInv, StackOK, StackIsRestored
    <2>1. call.guard \in GPUs /\ call.phase \in PhaseNames
      BY DEF CtxInv, Types, CallType, GPUs
    <2>2. call.guard = call.probe \/ call.guard \in own.matrix \cup own.registry
      BY <2>1 DEF CtxInv, Ending, Turn, Progress, PhaseNames
    <2>3. QED
      BY <2>1, <2>2 DEF CtxInv, Refcounts
  <1>2. QED
    BY <1>1, CtxInductive, PTL

(* Every stream of GPU i was made while GPU i's context was the current    *)
(* one (src/src/streams.rs:222-239).                                       *)
THEOREM StreamsAreAlwaysAligned == Spec => []StreamsAreAligned
  <1>1. CtxInv => StreamsAreAligned
    BY DEF CtxInv, StreamsOK, StreamsAreAligned
  <1>2. QED
    BY <1>1, CtxInductive, PTL

(* The peer matrix keeps both contexts of every pair it marks enabled, so  *)
(* that no release by the framework takes the mapping away                 *)
(* (src/src/gpu.rs:139-144, 198-200).                                      *)
THEOREM EnabledIsAlwaysMapped == Spec => []EnabledIsMapped
  <1>1. CtxInv => EnabledIsMapped
    BY DEF CtxInv, PeersOK, EnabledIsMapped
  <1>2. QED
    BY <1>1, CtxInductive, PTL

(* The order of a pool's fields, and of a constructor's locals, keeps the  *)
(* context of every stream of a pool retained until the stream is gone     *)
(* (src/src/streams.rs:88-90).                                             *)
THEOREM PoolStreamsAlwaysHaveContext == Spec => []PoolStreamsHaveContext
  <1>1. CtxInv => PoolStreamsHaveContext
    <2> SUFFICES ASSUME CtxInv, call.kind = "pool", NEW s \in own.streams
                 PROVE  cu.refs[s.ctx] > 0
      BY DEF PoolStreamsHaveContext
    <2>1. s.ctx \in own.registry /\ s.ctx \in GPUs
      BY DEF CtxInv, StreamsOK, Types, OwnType
    <2>2. cu.refs[s.ctx] \in Nat /\ cu.refs[s.ctx] # 0
      BY <2>1 DEF CtxInv, Refcounts
    <2>3. QED
      BY <2>2
  <1>2. QED
    BY <1>1, CtxInductive, PTL

(* For callers who claim their copies before they drop the pool, memory    *)
(* that is registered or being copied from is mapped                       *)
(* (src/src/tiered.rs:1300, 1345-1348).                                    *)
THEOREM HostMemoryInUseIsAlwaysMapped ==
  ASSUME "claim" \in Careful
  PROVE  Spec => []HostMemoryInUseIsMapped
  <1>1. CtxInv => HostMemoryInUseIsMapped
    BY DEF CtxInv, PinnedOK, HostMemoryInUseIsMapped
  <1>2. QED
    BY <1>1, CtxInductive, PTL

(* For callers who also demote or free their pages first, every way out of *)
(* an owner's life gives back each retain, stream and block, but the       *)
(* cached blocks of a GPU whose context the driver refuses to enter        *)
(* (src/src/tiered.rs:1316-1356).                                          *)
THEOREM NothingIsLeft ==
  ASSUME "claim" \in Careful, "demote" \in Careful
  PROVE  Spec => []NothingLeft
  <1>1. CtxInv => NothingLeft
    <2> SUFFICES ASSUME CtxInv, call.phase = "drop", call.drops = << >>
                 PROVE  /\ \A g \in GPUs : cu.refs[g] = IF g \in host THEN 1 ELSE 0
                        /\ \A b \in cu.blocks : b[2] = "skipped"
                        /\ own.streams = {} /\ own.inflight = {}
                        /\ call.whole => own.mapped = {}
      BY DEF Finished, NothingLeft
    <2>1. Due = {}
      BY ListItems DEF Due
    <2>2. /\ call.probe = 0 /\ own.matrix = {} /\ own.registry = {} /\ own.streams = {}
          /\ own.inflight = {} /\ 0 \notin GPUs
      BY <2>1 DEF CtxInv, Ending, GPUs
    <2>3. \A g \in GPUs : cu.refs[g] = IF g \in host THEN 1 ELSE 0
      BY <2>2 DEF CtxInv, Refcounts
    <2>4. cu.blocks \subseteq GPUs \X {"page", "cached", "skipped"}
      BY DEF CtxInv, Types, CuType
    <2>5. \A g \in GPUs : <<g, "page">> \notin cu.blocks /\ <<g, "cached">> \notin cu.blocks
      BY <2>1 DEF CtxInv, Emptying
    <2>6. ASSUME NEW b \in GPUs \X {"page", "cached", "skipped"}
          PROVE  b \notin cu.blocks \/ b[2] = "skipped"
      <3>1. b = <<b[1], b[2]>> /\ b[1] \in GPUs /\ b[2] \in {"page", "cached", "skipped"}
        OBVIOUS
      <3>2. CASE b[2] = "page"
        BY <2>5, <3>1, <3>2
      <3>3. CASE b[2] = "cached"
        BY <2>5, <3>1, <3>3
      <3>4. QED
        BY <3>1, <3>2, <3>3
    <2>7. \A b \in cu.blocks : b[2] = "skipped"
      BY <2>4, <2>6
    <2>8. call.whole => own.mapped = {}
      BY <2>1 DEF CtxInv, Emptying
    <2>9. QED
      BY <2>2, <2>3, <2>7, <2>8
  <1>2. QED
    BY <1>1, CtxInductive, PTL
=============================================================================
