------------------------------ MODULE Contexts ------------------------------
(***************************************************************************)
(* The lifetime of what VUGVA holds from the CUDA driver: retains of the   *)
(* devices' primary contexts (src/src/context.rs), the streams made in     *)
(* them (src/src/streams.rs), peer mappings (src/src/gpu.rs), page-locked  *)
(* host memory and device blocks (src/src/tiered.rs).  One owner, a        *)
(* TieredPool or a VugvaEngine, is built, used and dropped on one thread,  *)
(* a driver call or two per step; a call may fail, and then what was built *)
(* so far is dropped in the order Rust drops it.                           *)
(*                                                                         *)
(* Beside it runs the host framework, which retains and releases the same  *)
(* primary contexts.  A context dies with its last retain and takes its    *)
(* blocks and peer mappings along.                                         *)
(***************************************************************************)
EXTENDS Integers, FiniteSets, SequencesExt

CONSTANTS
  N,            \* GPUs, by their position in the list of ordinals
  Kinds,        \* what may be built: "pool", "engine"
  Capable,      \* the pairs <<i, j>> that cuDeviceCanAccessPeer reports
  Lives,        \* owners built one after the other
  Careful       \* what callers do before they drop a pool: "demote", "claim"

GPUs == 1 .. N

ASSUME NAssumption == N \in Nat \ {0}
ASSUME KindsAssumption == Kinds \subseteq {"pool", "engine"}
ASSUME CapableAssumption == Capable \subseteq GPUs \X GPUs
ASSUME LivesAssumption == Lives \in Nat
ASSUME CarefulAssumption == Careful \subseteq {"demote", "claim"}

VARIABLES
  host,         \* the GPUs whose context the framework retains
  cu,           \* the driver: refs, the count of retains of each context;
                \* peers, the mappings installed; blocks, <<gpu, whose>>,
                \* a "page"'s, "cached" or "skipped" by a drop
  stack,        \* this thread's stack of current contexts, 0 a foreign one
  entry,        \* what the caller expects of it
  call,         \* kind; lives, owners so far; phase, the loop a constructor
                \* is in, or "rest", "built", "drop"; at, its GPU; body, the
                \* steps of this turn; guard, the GPU of a live ContextGuard;
                \* probe, that of discover's retain; drops, what is left to
                \* drop; whole, the constructor succeeded
  own           \* PeerMatrix.primary_ctxs and .enabled as matrix and enabled,
                \* ContextRegistry as registry, CudaStreams [gpu, use, ctx],
                \* DramPools mapped and pinned, events in flight

vars == <<host, cu, stack, entry, call, own>>

-----------------------------------------------------------------------------
(* cuDevicePrimaryCtxRetain *)
Retained(g) == [cu EXCEPT !.refs[g] = @ + 1]

(* cuDevicePrimaryCtxRelease of each: the contexts nobody retains die.     *)
Released(gs) ==
  LET dead == {g \in gs : cu.refs[g] = 1}
  IN  [refs   |-> [g \in GPUs |-> cu.refs[g] - (IF g \in gs THEN 1 ELSE 0)],
       peers  |-> {p \in cu.peers : p[1] \notin dead /\ p[2] \notin dead},
       blocks |-> {b \in cu.blocks : b[1] \notin dead}]

(* cuCtxSetCurrent replaces the top of the stack. *)
Current(g) == IF stack = << >> THEN <<g>> ELSE Append(Front(stack), g)

(* The framework, on its own threads. *)
HostRetain(g) ==
  /\ g \notin host
  /\ host' = host \cup {g}
  /\ cu' = Retained(g)
  /\ UNCHANGED <<stack, entry, call, own>>

HostRelease(g) ==
  /\ g \in host
  /\ host' = host \ {g}
  /\ cu' = Released({g})
  /\ UNCHANGED <<stack, entry, call, own>>

-----------------------------------------------------------------------------
NothingOwned == [matrix |-> {}, enabled |-> {}, registry |-> {}, streams |-> {},
                 mapped |-> {}, pinned |-> {}, inflight |-> {}]

Init ==
  /\ host \in SUBSET GPUs
  /\ cu = [refs |-> [g \in GPUs |-> IF g \in host THEN 1 ELSE 0],
           peers |-> {}, blocks |-> {}]
  /\ stack \in {<< >>, <<0>>}
  /\ entry = stack
  /\ call \in [kind : Kinds, lives : {0}, phase : {"rest"}, at : {1}, body : {{}},
               guard : {0}, probe : {0}, drops : {<< >>}, whole : {FALSE}]
  /\ own = NothingOwned

(* The loops of TieredPool::new and of VugvaEngine::new. *)
Phases == [pool   |-> <<"probe", "registry", "streams", "map", "built">>,
           engine |-> <<"probe", "matrix", "enable", "registry", "streams", "built">>]

Following(phase) ==
  Phases[call.kind][1 + CHOOSE i \in DOMAIN Phases[call.kind] :
                              Phases[call.kind][i] = phase]

Build ==
  /\ call.phase = "rest" /\ call.lives < Lives
  /\ \E kind \in Kinds :
       call' = [call EXCEPT !.kind = kind, !.lives = @ + 1, !.phase = "probe"]
  /\ entry' = stack
  /\ UNCHANGED <<host, cu, stack, own>>

(* To the loop's next turn, or to the next loop. *)
Advanced(c) ==
  [c EXCEPT !.at = IF c.at < N THEN c.at + 1 ELSE 1,
            !.phase = IF c.at < N THEN @ ELSE Following(@),
            !.whole = c.at = N /\ Following(c.phase) = "built",
            !.body = {}]

(* The call is in this loop, with just these steps of the turn behind it.  *)
In(phase, body) == call.phase = phase /\ call.body = body

Did(step) == [call EXCEPT !.body = @ \cup {step}]

(* An early return drops the guard, then the locals, last declared first.  *)
(* The Vec of DramPools goes as well, but a DramPool has no Drop.          *)
Unwinding == <<"guard", "probe", "streams", "contexts", "cluster">>

Constructing == call.phase \notin {"rest", "built", "drop"}

(* Any call of a constructor may be refused. *)
Refused ==
  /\ Constructing
  /\ call' = [call EXCEPT !.phase = "drop", !.drops = Unwinding, !.body = {}]
  /\ UNCHANGED <<host, cu, stack, entry, own>>

-----------------------------------------------------------------------------
(* PrimaryContext::enter; the drop of the guard at the end of the turn,    *)
(* which in discover leaves the temporary retain to be dropped yet.        *)
Before == [probe |-> {"retained"}, enable |-> {}, streams |-> {}, map |-> {"mapped"}]

Enter ==
  /\ call.phase \in DOMAIN Before
  /\ call.guard = 0
  /\ call.body = Before[call.phase]
  /\ stack' = Append(stack, call.at)
  /\ call' = [Did("entered") EXCEPT !.guard = call.at]
  /\ UNCHANGED <<host, cu, entry, own>>

(* Mutant: popped only when the function returns. *)
LeaveLater ==
  /\ Constructing
  /\ "done" \in call.body /\ call.guard # 0
  /\ stack' = IF call.at < N THEN stack ELSE Front(stack)
  /\ LET c == [Did("left") EXCEPT !.guard = 0]
     IN  call' = IF call.phase = "probe" THEN c ELSE Advanced(c)
  /\ UNCHANGED <<host, cu, entry, own>>

Leave ==
  /\ Constructing
  /\ "done" \in call.body /\ call.guard # 0
  /\ stack' = Front(stack)
  /\ LET c == [Did("left") EXCEPT !.guard = 0]
     IN  call' = IF call.phase = "probe" THEN c ELSE Advanced(c)
  /\ UNCHANGED <<host, cu, entry, own>>

(* GpuCluster::discover asks for the free memory under a retain of its own. *)
ProbeRetain ==
  /\ In("probe", {})
  /\ cu' = Retained(call.at)
  /\ call' = [Did("retained") EXCEPT !.probe = call.at]
  /\ UNCHANGED <<host, stack, entry, own>>

(* The rest of the turn only asks the driver.                              *)
ProbeQuery ==
  /\ In("probe", {"retained", "entered"})
  /\ call' = Did("done")
  /\ UNCHANGED <<host, cu, stack, entry, own>>

ProbeRelease ==
  /\ call.phase = "probe" /\ "left" \in call.body
  /\ cu' = Released({call.probe})
  /\ call' = Advanced([call EXCEPT !.probe = 0])
  /\ UNCHANGED <<host, stack, entry, own>>

(* PeerMatrix::enable_all: first retain every context; the Vec of them is  *)
(* the matrix's once it is full, but is dropped either way on an error.    *)
MatrixRetain ==
  /\ call.phase = "matrix"
  /\ cu' = Retained(call.at)
  /\ own' = [own EXCEPT !.matrix = @ \cup {call.at}]
  /\ call' = Advanced(call)
  /\ UNCHANGED <<host, stack, entry>>

(* Mutant: the contexts are not kept once the mappings are installed. *)
EnablePairsAndRelease ==
  /\ In("enable", {"entered"})
  /\ \E ok \in SUBSET {p \in Capable : p[1] = call.at /\ p[2] # call.at} :
       /\ cu' = [Released(own.matrix \cap {call.at}) EXCEPT !.peers = @ \cup ok]
       /\ own' = [own EXCEPT !.enabled = @ \cup ok, !.matrix = @ \ {call.at}]
  /\ call' = Did("done")
  /\ UNCHANGED <<host, stack, entry>>

(* Then enable each pair the hardware can do; one that is refused is left  *)
(* off without an error.                                                   *)
EnablePairs ==
  /\ In("enable", {"entered"})
  /\ \E ok \in SUBSET {p \in Capable : p[1] = call.at /\ p[2] # call.at} :
       /\ cu' = [cu EXCEPT !.peers = @ \cup ok]
       /\ own' = [own EXCEPT !.enabled = @ \cup ok]
  /\ call' = Did("done")
  /\ UNCHANGED <<host, stack, entry>>

(* ContextRegistry::new *)
RegistryRetain ==
  /\ call.phase = "registry"
  /\ cu' = Retained(call.at)
  /\ own' = [own EXCEPT !.registry = @ \cup {call.at}]
  /\ call' = Advanced(call)
  /\ UNCHANGED <<host, stack, entry>>

(* Mutant: created where the thread was before the guard. *)
CreatedOutside(use) ==
  [gpu |-> call.at, use |-> use, ctx |-> IF entry = << >> THEN 0 ELSE Last(entry)]

(* A stream belongs to the context that is current when it is created. *)
Created(use) == [gpu |-> call.at, use |-> use, ctx |-> Last(stack)]

(* StreamPool::new, inside the guard. *)
CreateStream(use, before, after) ==
  /\ In("streams", before)
  /\ own' = [own EXCEPT !.streams = @ \cup {Created(use)}]
  /\ call' = Did(after)
  /\ UNCHANGED <<host, cu, stack, entry>>

CreateCompute == CreateStream("compute", {"entered"}, "compute")

CreatePrefetch == CreateStream("prefetch", {"entered", "compute"}, "done")

(* TieredPool::new maps each GPU's DRAM pool and page-locks it if it may.  *)
MapPool ==
  /\ In("map", {})
  /\ own' = [own EXCEPT !.mapped = @ \cup {call.at}]
  /\ call' = Did("mapped")
  /\ UNCHANGED <<host, cu, stack, entry>>

PinPool ==
  /\ In("map", {"mapped", "entered"})
  /\ \E pin \in {{}, {call.at}} : own' = [own EXCEPT !.pinned = @ \cup pin]
  /\ call' = Did("done")
  /\ UNCHANGED <<host, cu, stack, entry>>

-----------------------------------------------------------------------------
(* The owner in use.  Its calls bind: the context they need stays current  *)
(* when they return, and the caller finds it.                              *)
Bind(g) ==
  /\ call.phase = "built"
  /\ stack' = Current(g)
  /\ entry' = Current(g)

(* access and alloc_device take a block for a page. *)
TakeBlock(g) ==
  /\ Bind(g)
  /\ cu' = [cu EXCEPT !.blocks = @ \cup {<<g, "page">>}]
  /\ UNCHANGED <<host, call, own>>

(* demote keeps the block in the pool's cache; VugvaEngine::free gives it  *)
(* back to the driver.                                                     *)
LeaveBlock(g) ==
  /\ Bind(g)
  /\ <<g, "page">> \in cu.blocks
  /\ cu' = [cu EXCEPT !.blocks = (@ \ {<<g, "page">>}) \cup
                        IF call.kind = "pool" THEN {<<g, "cached">>} ELSE {}]
  /\ UNCHANGED <<host, call, own>>

(* prefetch queues a copy out of the DRAM pool and keeps its event; access *)
(* claims it.                                                              *)
StartCopy(g) ==
  /\ Bind(g)
  /\ call.kind = "pool" /\ g \notin own.inflight
  /\ own' = [own EXCEPT !.inflight = @ \cup {g}]
  /\ cu' = [cu EXCEPT !.blocks = @ \cup {<<g, "page">>}]
  /\ UNCHANGED <<host, call>>

ClaimCopy(g) ==
  /\ Bind(g)
  /\ g \in own.inflight
  /\ own' = [own EXCEPT !.inflight = @ \ {g}]
  /\ UNCHANGED <<host, cu, call>>

-----------------------------------------------------------------------------
(* Mutants: the cached blocks are forgotten; the pool declares its         *)
(* contexts before the streams in them.                                    *)
FieldsOnly ==
  [pool   |-> <<"pools", "cluster", "streams", "contexts", "events">>,
   engine |-> <<"cluster", "contexts", "streams">>]

FieldsSwapped ==
  [pool   |-> <<"caches", "pools", "cluster", "contexts", "streams", "events">>,
   engine |-> <<"cluster", "contexts", "streams">>]

(* The owner is dropped: TieredPool::drop first ("caches", "pools"), then  *)
(* the fields as they are declared.                                        *)
Fields ==
  [pool   |-> <<"caches", "pools", "cluster", "streams", "contexts", "events">>,
   engine |-> <<"cluster", "contexts", "streams">>]

DropOwner ==
  /\ call.phase = "built"
  /\ "claim" \in Careful => own.inflight = {}
  /\ "demote" \in Careful => \A g \in GPUs : <<g, "page">> \notin cu.blocks
  /\ call' = [call EXCEPT !.phase = "drop", !.drops = Fields[call.kind]]
  /\ entry' = stack
  /\ UNCHANGED <<host, cu, stack, own>>

Dropping(what) == call.phase = "drop" /\ call.drops # << >> /\ Head(call.drops) = what

Dropped == [call EXCEPT !.drops = Tail(@)]

(* The same, for a loop over the GPUs. *)
DroppedAt ==
  IF call.at < N THEN [call EXCEPT !.at = @ + 1] ELSE [Dropped EXCEPT !.at = 1]

DropGuard ==
  /\ Dropping("guard")
  /\ stack' = IF call.guard = 0 THEN stack ELSE Front(stack)
  /\ call' = [Dropped EXCEPT !.guard = 0, !.at = 1]
  /\ UNCHANGED <<host, cu, entry, own>>

DropProbe ==
  /\ Dropping("probe")
  /\ cu' = Released({call.probe} \ {0})
  /\ call' = [Dropped EXCEPT !.probe = 0]
  /\ UNCHANGED <<host, stack, entry, own>>

(* The PeerMatrix, with the contexts it retained. *)
DropCluster ==
  /\ Dropping("cluster")
  /\ cu' = Released(own.matrix)
  /\ own' = [own EXCEPT !.matrix = {}, !.enabled = {}]
  /\ call' = Dropped
  /\ UNCHANGED <<host, stack, entry>>

DropContexts ==
  /\ Dropping("contexts")
  /\ cu' = Released(own.registry)
  /\ own' = [own EXCEPT !.registry = {}]
  /\ call' = Dropped
  /\ UNCHANGED <<host, stack, entry>>

DropStreams ==
  /\ Dropping("streams")
  /\ own' = [own EXCEPT !.streams = {}]
  /\ call' = Dropped
  /\ UNCHANGED <<host, cu, stack, entry>>

DropEvents ==
  /\ Dropping("events")
  /\ own' = [own EXCEPT !.inflight = {}]
  /\ call' = Dropped
  /\ UNCHANGED <<host, cu, stack, entry>>

(* The recycle cache of one GPU, between a push and a pop of its context.  *)
EnterCache ==
  /\ Dropping("caches")
  /\ call.guard = 0 /\ <<call.at, "cached">> \in cu.blocks
  /\ stack' = Append(stack, call.at)
  /\ call' = [call EXCEPT !.guard = call.at]
  /\ UNCHANGED <<host, cu, entry, own>>

(* The driver refuses the push: the cache is skipped. *)
RefusedCache ==
  /\ Dropping("caches")
  /\ call.guard = 0 /\ <<call.at, "cached">> \in cu.blocks
  /\ cu' = [cu EXCEPT !.blocks = (@ \ {<<call.at, "cached">>})
                                    \cup {<<call.at, "skipped">>}]
  /\ call' = DroppedAt
  /\ UNCHANGED <<host, stack, entry, own>>

FreeCache ==
  /\ Dropping("caches")
  /\ call.guard # 0
  /\ cu' = [cu EXCEPT !.blocks = @ \ {<<call.at, "cached">>}]
  /\ stack' = Front(stack)
  /\ call' = [DroppedAt EXCEPT !.guard = 0]
  /\ UNCHANGED <<host, entry, own>>

SkipCache ==
  /\ Dropping("caches")
  /\ call.guard = 0 /\ <<call.at, "cached">> \notin cu.blocks
  /\ call' = DroppedAt
  /\ UNCHANGED <<host, cu, stack, entry, own>>

(* Mutant: unmapped while still registered. *)
UnmapPoolFirst ==
  /\ Dropping("pools")
  /\ own' = [own EXCEPT !.mapped = @ \ {call.at}]
  /\ call' = DroppedAt
  /\ UNCHANGED <<host, cu, stack, entry>>

(* Unregistered before it is unmapped. *)
UnpinPool ==
  /\ Dropping("pools")
  /\ call.at \in own.pinned
  /\ own' = [own EXCEPT !.pinned = @ \ {call.at}]
  /\ UNCHANGED <<host, cu, stack, entry, call>>

UnmapPool ==
  /\ Dropping("pools")
  /\ call.at \notin own.pinned
  /\ own' = [own EXCEPT !.mapped = @ \ {call.at}]
  /\ call' = DroppedAt
  /\ UNCHANGED <<host, cu, stack, entry>>

(* Everything is dropped.  What it left behind is nobody's from here on.   *)
Finished == call.phase = "drop" /\ call.drops = << >>

Gone ==
  /\ Finished
  /\ call' = [call EXCEPT !.phase = "rest", !.at = 1, !.body = {}, !.whole = FALSE]
  /\ own' = NothingOwned
  /\ cu' = [cu EXCEPT !.blocks = {}]
  /\ UNCHANGED <<host, stack, entry>>

-----------------------------------------------------------------------------
Construct ==
  \/ Build \/ Refused \/ Enter \/ Leave
  \/ ProbeRetain \/ ProbeQuery \/ ProbeRelease
  \/ MatrixRetain \/ EnablePairs \/ RegistryRetain
  \/ CreateCompute \/ CreatePrefetch \/ MapPool \/ PinPool

Drop ==
  \/ DropOwner \/ DropGuard \/ DropProbe \/ DropCluster \/ DropContexts
  \/ DropStreams \/ DropEvents \/ EnterCache \/ RefusedCache \/ FreeCache
  \/ SkipCache \/ UnpinPool \/ UnmapPool \/ Gone

Next ==
  \/ Construct
  \/ Drop
  \/ \E g \in GPUs : HostRetain(g) \/ HostRelease(g)
  \/ \E g \in GPUs : TakeBlock(g) \/ LeaveBlock(g) \/ StartCopy(g) \/ ClaimCopy(g)

Spec == Init /\ [][Next]_vars

-----------------------------------------------------------------------------
(* Whatever failed, the thread's stack of contexts is the caller's, with a *)
(* live guard's on top; and that one is alive, even if the framework gives *)
(* up its own retain meanwhile                                             *)
(* (src/src/context.rs:59-60, 119-123, src/src/streams.rs:246,             *)
(* src/src/gpu.rs:215-217).                                                *)
StackIsRestored ==
  /\ stack = IF call.guard = 0 THEN entry ELSE Append(entry, call.guard)
  /\ call.guard # 0 => cu.refs[call.guard] > 0

(* Stream i of either kind lives in GPU i's context                        *)
(* (src/src/streams.rs:222-239).                                           *)
StreamsAreAligned == \A s \in own.streams : s.ctx = s.gpu

(* A pair marked enabled has a mapping, whoever else comes and goes        *)
(* (src/src/gpu.rs:139-144, 198-200).                                      *)
EnabledIsMapped == own.enabled \subseteq cu.peers

(* A pool that is dropped after its pages were demoted and its prefetches  *)
(* claimed, an engine whose pages were freed and a constructor that failed *)
(* leave no retain, stream or block behind but the cached ones of a GPU    *)
(* whose context the driver would not enter; what a failed constructor of  *)
(* a pool mapped stays (src/src/tiered.rs:1316-1356).                      *)
NothingLeft ==
  Finished =>
    /\ \A g \in GPUs : cu.refs[g] = IF g \in host THEN 1 ELSE 0
    /\ \A b \in cu.blocks : b[2] = "skipped"
    /\ own.streams = {} /\ own.inflight = {}
    /\ call.whole => own.mapped = {}

(* Host memory that the driver has registered, or that a queued copy still *)
(* reads, is mapped (src/src/tiered.rs:1300, 1345-1348).                   *)
HostMemoryInUseIsMapped == own.pinned \cup own.inflight \subseteq own.mapped

(* The context of a pool's stream exists as long as the stream, on every   *)
(* path out of the constructor and through the drop                        *)
(* (src/src/streams.rs:88-90).  VugvaEngine drops its contexts first.      *)
PoolStreamsHaveContext ==
  call.kind = "pool" => \A s \in own.streams : cu.refs[s.ctx] > 0

(* The same of an engine, whose contexts are declared before its streams   *)
(* ("which ContextRegistry keeps alive for as long as the stream exists",  *)
(* src/src/streams.rs:90, against src/src/allocator.rs:160-169).           *)
EngineStreamsHaveContext ==
  call.kind = "engine" => \A s \in own.streams : cu.refs[s.ctx] > 0
=============================================================================
