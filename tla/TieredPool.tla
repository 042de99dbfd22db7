----------------------------- MODULE TieredPool -----------------------------
(***************************************************************************)
(* The three-tier pool of src/src/tiered.rs: pages that live in VRAM, in   *)
(* DRAM or in the spill file, and the calls that move them.  Every call    *)
(* takes &mut self, so a call is one atomic step; what runs beside the     *)
(* calls is the GPU, which executes the copies queued on the prefetch      *)
(* streams when it likes (StreamCopy), whatever drains the DMA rings, if   *)
(* anything does (Drain), and the sweep, which is a sequence of demotions  *)
(* and accesses that may stop half-way.                                    *)
(*                                                                         *)
(* Memory is counted in units, a unit being an amount of tensor bytes that *)
(* is never split.  The contents of a unit are <<w, u>>: unit u of a page  *)
(* as the w-th write of the run left it, w = 0 for bytes nobody wrote.     *)
(* Places inside a DRAM pool are abstracted to frames: that two frames do  *)
(* not overlap is what DramPool shows.                                     *)
(***************************************************************************)
EXTENDS Integers, Sequences, FiniteSets, FiniteSetsExt, Functions

CONSTANTS
  Pages,        \* the names callers use
  N,            \* GPUs, 0 .. N - 1
  PageSize,     \* page -> units
  VramCap,      \* units of VRAM of each GPU
  DramCap,      \* units of each GPU's DRAM pool
  SpillCap,     \* units of the spill file
  RingCap,      \* slots of each GPU's DMA ring; 1024 in the code
  Engine,       \* TRUE if something outside src/ drains the rings, in its time
  HotAt,        \* accesses that make a page hot
  MaxWrites,    \* bound on the writes of a run
  MaxQueued,    \* bound on the copies waiting on a prefetch stream
  MaxCached,    \* bound on the entries of a recycle cache
  Tiers,        \* the tiers callers allocate in
  Pinnable,     \* the pages callers may pin
  Calls,        \* optional calls of this run: "prefetch", "sweep", "kernel"
  Careful,      \* what callers refrain from: see each action
  Failures      \* what may fail besides running out: "io", "cuda", "refused"

ASSUME PoolAssumption ==
  /\ N \in Nat \ {0}
  /\ PageSize \in [Pages -> Nat]
  /\ \A p \in Pages : PageSize[p] >= N
  /\ {VramCap, DramCap, SpillCap, RingCap, MaxWrites, MaxQueued, MaxCached} \subseteq Nat
  /\ HotAt \in Nat \ {0}
  /\ Engine \in BOOLEAN
  /\ Tiers \subseteq {"Vram", "Dram", "Ssd"}

VARIABLES
  pages,        \* the VMT: name -> its page
  dev,          \* GPU -> the device blocks cuMemAlloc returned: [size, data]
  vram_free,    \* GPU -> the recycle cache, block numbers in order
  host,         \* GPU -> frame -> [used, data] of its DRAM pool
  file,         \* the ranges reserved in the spill file, each with its data
  submitted,    \* GPU -> descriptors waiting in its DMA ring
  inflight,     \* name -> the prefetch issued and not claimed
  stream,       \* GPU -> the copies queued on its prefetch stream
  sweep,        \* what is left of the running background_sweep
  writes,       \* writes so far
  latest,       \* name -> the write that defines its contents, 0 for none
  result        \* how the last call ended

memory == <<dev, vram_free, host, file>>
vars == <<pages, dev, vram_free, host, file, submitted, inflight, stream,
          sweep, writes, latest, result>>

GPUs == 0 .. N - 1
Frames == 1 .. DramCap
None == [gpu |-> -1, blk |-> 0, size |-> 0]

-----------------------------------------------------------------------------
(* allocate splits a page over the pools; the remainder goes to the last.  *)
ShardSize(p, g) ==
  (PageSize[p] \div N) + IF g = N - 1 THEN PageSize[p] % N ELSE 0

ShardFrom(p, g) == g * (PageSize[p] \div N)

Junk(n) == [u \in 1 .. n |-> <<0, 0>>]

(* The contents write w gives to a whole page and to GPU g's shard of it. *)
Whole(p, w) == [u \in 1 .. PageSize[p] |-> <<w, u>>]
Shard(p, g, w) == [u \in 1 .. ShardSize(p, g) |-> <<w, ShardFrom(p, g) + u>>]

(* The first n units of data; what lies beyond it is some other bytes. *)
Prefix(data, n) == [u \in 1 .. n |-> IF u <= Len(data) THEN data[u] ELSE <<0, 0>>]

(* old with its first units overwritten by data. *)
Overwrite(old, data) ==
  [u \in DOMAIN old |-> IF u <= Len(data) THEN data[u] ELSE old[u]]

Absent ==
  [live |-> FALSE, tier |-> "Vram", state |-> "Unmapped", vram |-> << >>,
   dram |-> << >>, ssd |-> 0, hits |-> 0, pinned |-> FALSE]

NoSweep == [demote |-> {}, promote |-> {}]

(* TieredPool::new and attach_spill: pools mapped, spill file empty.       *)
Init ==
  /\ pages = [p \in Pages |-> Absent]
  /\ dev = [g \in GPUs |-> << >>]
  /\ vram_free = [g \in GPUs |-> << >>]
  /\ host = [g \in GPUs |-> [f \in Frames |-> [used |-> FALSE, data |-> << >>]]]
  /\ file = << >>
  /\ submitted = [g \in GPUs |-> 0]
  /\ inflight = [p \in Pages |-> None]
  /\ stream = [g \in GPUs |-> << >>]
  /\ sweep = NoSweep
  /\ writes = 0
  /\ latest = [p \in Pages |-> 0]
  /\ result = "ok"

(* No sweep is inside the pool, and the process has not aborted. *)
Ready == sweep = NoSweep /\ result # "panic"

Ends(how) == result' = how

-----------------------------------------------------------------------------
(* The DRAM pools.                                                         *)
HostUsed(g) ==
  SumFunctionOnSet([f \in Frames |-> Len(host[g][f].data)],
                   {f \in Frames : host[g][f].used})

(* Mutant: the place of an allocation in use is handed out again. *)
FreeFrameFirst(g) == 1

FreeFrame(g) == Min({f \in Frames : ~host[g][f].used})

(* No allocation is empty: a pool with a free unit has a free frame. *)
HasFrame(g) == \E f \in Frames : ~host[g][f].used

(* Mutant: the pool lets one unit too many in. *)
HoldsOneMore(g, n) == HostUsed(g) + n <= DramCap + 1

Holds(g, n) == HostUsed(g) + n <= DramCap

(* A pool with room for n units may still have no single hole for them.   *)
MayRefuse(g, n) == ~Holds(g, n) \/ (n > 1 /\ HostUsed(g) > 0)

(* The DMA rings. *)
RingFull(g) == submitted[g] >= RingCap
Queued(g) == [submitted EXCEPT ![g] = @ + 1]

(* The recycle cache: the entries of exactly n units, and swap_remove.     *)
Recyclable(cache, g, n) ==
  {i \in DOMAIN cache[g] : dev[g][cache[g][i]].size = n}

(* Mutant: the block stays in the cache. *)
SwapRemoveNothing(s, i) == s

SwapRemove(s, i) ==
  [j \in 1 .. Len(s) - 1 |-> IF j = i THEN s[Len(s)] ELSE s[j]]

(* Mutant: the block is dropped instead of cached. *)
RecycledNowhere(cache, g, b) == cache

Recycled(cache, g, b) == [cache EXCEPT ![g] = Append(@, b)]

VramUsed(g) == SumFunction([b \in DOMAIN dev[g] |-> dev[g][b].size])

(* alloc_vram_on_gpu on a cache: what the cache becomes, which block it is *)
(* and whether the driver made it.                                         *)
VramBlocks(cache, g, n) ==
  LET hits == Recyclable(cache, g, n)
  IN  IF hits # {}
      THEN {[cache |-> [cache EXCEPT ![g] = SwapRemove(@, Min(hits))],
             blk |-> cache[g][Min(hits)], new |-> FALSE]}
      ELSE IF VramUsed(g) + n <= VramCap
           THEN {[cache |-> cache, blk |-> Len(dev[g]) + 1, new |-> TRUE]}
           ELSE {}

(* The device memory once block a.blk of n units holds data. *)
Filled(g, a, n, data) ==
  LET block == [size |-> n, data |-> data]
  IN  [dev EXCEPT ![g] = IF a.new THEN Append(@, block)
                         ELSE [@ EXCEPT ![a.blk] = block]]

(* A page gains a chunk on GPU g and is resident; touch counts the access. *)
Promoted(p, g, b, n) ==
  [pages EXCEPT ![p].vram = Append(@, [gpu |-> g, blk |-> b, size |-> n]),
                ![p].tier = "Vram",
                ![p].state = "Resident",
                ![p].hits = IF @ < HotAt THEN @ + 1 ELSE @]

-----------------------------------------------------------------------------
(* allocate.  vmt.allocate replaces whatever page had the name, so careful *)
(* callers ("names") give a page a name that is not in use.                *)
Named(p) == "names" \notin Careful \/ ~pages[p].live

FileUsed == SumFunction([i \in DOMAIN file |-> Len(file[i])])

AllocateCold(p) ==
  LET blank == [Absent EXCEPT !.live = TRUE, !.state = "Allocated"]
  IN  /\ "Ssd" \in Tiers
      /\ \/ /\ FileUsed + PageSize[p] <= SpillCap
            /\ file' = Append(file, Junk(PageSize[p]))
            /\ pages' = [pages EXCEPT ![p] =
                 [blank EXCEPT !.tier = "Ssd", !.state = "Cold", !.ssd = Len(file) + 1]]
            /\ Ends("ok")
         \/ /\ FileUsed + PageSize[p] > SpillCap
            /\ pages' = [pages EXCEPT ![p] = blank]
            /\ Ends("DramOom")
            /\ UNCHANGED file
      /\ UNCHANGED host

(* One chunk per pool, in pool order; pool k may refuse and leave the page *)
(* with the chunks it got before (k = N: none refused).                    *)
AllocateBacked(p, tier) ==
  \E k \in 0 .. N :
    LET chunk(g) == [frame |-> FreeFrame(g), size |-> ShardSize(p, g)]
        state    == CASE k < N -> "Allocated"
                      [] tier = "Vram" -> "Resident"
                      [] OTHER -> "Warm"
    IN  /\ tier # "Ssd"
        /\ \A g \in GPUs : g < k => Holds(g, ShardSize(p, g)) /\ HasFrame(g)
        /\ k < N => MayRefuse(k, ShardSize(p, k))
        /\ host' = [g \in GPUs |->
             IF g < k THEN [host[g] EXCEPT ![FreeFrame(g)] =
                              [used |-> TRUE, data |-> Junk(ShardSize(p, g))]]
             ELSE host[g]]
        /\ pages' = [pages EXCEPT ![p] =
             [Absent EXCEPT !.live = TRUE, !.tier = tier, !.state = state,
                            !.dram = [i \in 1 .. k |-> chunk(i - 1)]]]
        /\ Ends(IF k < N THEN "DramOom" ELSE "ok")
        /\ UNCHANGED file

Allocate(p) ==
  /\ Ready
  /\ Named(p)
  /\ \/ AllocateCold(p)
     \/ \E tier \in Tiers : AllocateBacked(p, tier)
  /\ latest' = [latest EXCEPT ![p] = 0]
  /\ UNCHANGED <<dev, vram_free, submitted, inflight, stream, sweep, writes>>

-----------------------------------------------------------------------------
(* access.  It claims the page's prefetch first; claim_prefetch waits for  *)
(* the copy, so the step is enabled once the copy is off the stream.       *)
Prefetched(p) == inflight[p] # None

(* Mutant: the event is not waited for. *)
LandedAtOnce(p) == TRUE

Landed(p) == \A i \in DOMAIN stream[inflight[p].gpu] :
               stream[inflight[p].gpu][i].page # p

Claim(p, g) ==
  /\ inflight[p].gpu = g
  /\ Landed(p)
  /\ inflight' = [inflight EXCEPT ![p] = None]
  /\ \/ /\ pages[p].live
        /\ pages' = Promoted(p, g, inflight[p].blk, inflight[p].size)
        /\ Ends("ok")
     \/ /\ ~pages[p].live
        /\ Ends("panic")
        /\ UNCHANGED pages
     \/ /\ "cuda" \in Failures
        /\ Ends("Cuda")
        /\ UNCHANGED pages
  /\ UNCHANGED <<memory, submitted>>

(* A prefetch for another GPU is dropped: its block goes to that GPU's     *)
(* cache at once, and the access goes on from there.                       *)
CacheAfterDiscard(p, g) ==
  IF Prefetched(p) THEN Recycled(vram_free, inflight[p].gpu, inflight[p].blk)
  ELSE vram_free

(* The chunk of the page on GPU g, and one on another GPU. *)
ChunksOn(p, g) == {i \in DOMAIN pages[p].vram : pages[p].vram[i].gpu = g}
ChunksOff(p, g) == {i \in DOMAIN pages[p].vram : pages[p].vram[i].gpu # g}

Fails(how, cache) ==
  /\ Ends(how)
  /\ vram_free' = cache
  /\ UNCHANGED <<pages, dev, host, file, submitted>>

(* Tier::Vram, a chunk on this GPU. *)
Touch(p, g, cache) ==
  /\ ChunksOn(p, g) # {}
  /\ pages' = [pages EXCEPT ![p].hits = IF @ < HotAt THEN @ + 1 ELSE @]
  /\ vram_free' = cache
  /\ Ends("ok")
  /\ UNCHANGED <<dev, host, file, submitted>>

(* Tier::Vram, a chunk on another GPU only: a copy of that chunk is made   *)
(* here, of its size.  If the copy fails the new block is in no list.      *)
PeerCopy(p, g, cache) ==
  LET src == pages[p].vram[Min(ChunksOff(p, g))]
      data == dev[src.gpu][src.blk].data
  IN  /\ ChunksOn(p, g) = {}
      /\ ChunksOff(p, g) # {}
      /\ \/ /\ VramBlocks(cache, g, src.size) = {}
            /\ Fails("CudaOom", cache)
         \/ \E a \in VramBlocks(cache, g, src.size) :
              /\ vram_free' = a.cache
              /\ dev' = Filled(g, a, src.size, data)
              /\ \/ /\ pages' = Promoted(p, g, a.blk, src.size)
                    /\ Ends("ok")
                 \/ /\ "cuda" \in Failures
                    /\ Ends("Cuda")
                    /\ UNCHANGED pages
              /\ UNCHANGED <<host, file, submitted>>

NotResidentAnywhere(p, g, cache) ==
  /\ pages[p].vram = << >>
  /\ Fails("UnknownAllocation", cache)

(* Tier::Dram: this GPU's shard is copied up.  The block is taken before   *)
(* the descriptor is queued; a full ring ends the call with the block in   *)
(* no list, and so does a copy that fails.  A copy that is refused when it *)
(* is issued ("refused") is not noticed: the page is promoted as it is.    *)
PromoteWarm(p, g, cache) ==
  \/ /\ g + 1 \notin DOMAIN pages[p].dram
     /\ Fails("UnknownAllocation", cache)
  \/ /\ g + 1 \in DOMAIN pages[p].dram
     /\ LET chunk == pages[p].dram[g + 1]
            data  == Prefix(host[g][chunk.frame].data, chunk.size)
            left(a) == IF a.new THEN Junk(chunk.size) ELSE dev[g][a.blk].data
        IN  \/ /\ VramBlocks(cache, g, chunk.size) = {}
               /\ Fails("CudaOom", cache)
            \/ \E a \in VramBlocks(cache, g, chunk.size) :
                 /\ vram_free' = a.cache
                 /\ \/ /\ RingFull(g)
                       /\ dev' = Filled(g, a, chunk.size, left(a))
                       /\ Ends("DmaRingFull")
                       /\ UNCHANGED <<pages, submitted>>
                    \/ /\ ~RingFull(g)
                       /\ submitted' = Queued(g)
                       /\ \/ dev' = Filled(g, a, chunk.size, data)
                          \/ /\ "refused" \in Failures
                             /\ dev' = Filled(g, a, chunk.size, left(a))
                       /\ \/ /\ pages' = Promoted(p, g, a.blk, chunk.size)
                             /\ Ends("ok")
                          \/ /\ "cuda" \in Failures
                             /\ Ends("Cuda")
                             /\ UNCHANGED pages
                 /\ UNCHANGED <<host, file>>

(* Tier::Ssd: the whole page is read through borrowed DRAM, as much of it  *)
(* as the pool can spare down to one unit, into one block.  When the       *)
(* staging or the read fails the block goes back to the cache.             *)
PromoteCold(p, g, cache) ==
  LET n == PageSize[p]
  IN  \/ /\ VramBlocks(cache, g, n) = {}
         /\ Fails("CudaOom", cache)
      \/ \E a \in VramBlocks(cache, g, n) :
           /\ \/ /\ Holds(g, 1)
                 /\ vram_free' = a.cache
                 /\ dev' = Filled(g, a, n, file[pages[p].ssd])
                 /\ pages' = Promoted(p, g, a.blk, n)
                 /\ Ends("ok")
              \/ /\ ~Holds(g, 1) \/ Failures \cap {"io", "cuda"} # {}
                 /\ vram_free' = Recycled(a.cache, g, a.blk)
                 /\ dev' = Filled(g, a, n, Junk(n))
                 /\ Ends(IF Holds(g, 1) THEN "Io" ELSE "DramOom")
                 /\ UNCHANGED pages
           /\ UNCHANGED <<host, file, submitted>>

Promote(p, g, cache) ==
  CASE ~pages[p].live -> Fails("UnknownAllocation", cache)
    [] pages[p].live /\ pages[p].tier = "Vram" ->
         \/ Touch(p, g, cache)
         \/ PeerCopy(p, g, cache)
         \/ NotResidentAnywhere(p, g, cache)
    [] pages[p].live /\ pages[p].tier = "Dram" -> PromoteWarm(p, g, cache)
    [] pages[p].live /\ pages[p].tier = "Ssd" -> PromoteCold(p, g, cache)

(* Mutant: access does not look for a prefetch. *)
AccessPageAnew(p, g) ==
  /\ Promote(p, g, vram_free)
  /\ UNCHANGED inflight

AccessPage(p, g) ==
  \/ /\ Prefetched(p)
     /\ Claim(p, g)
  \/ /\ inflight[p].gpu # g
     /\ inflight' = [inflight EXCEPT ![p] = None]
     /\ Promote(p, g, CacheAfterDiscard(p, g))

(* Careful callers ("shards") do not ask one GPU for a sharded page that   *)
(* is resident on another.                                                 *)
Access(p, g) ==
  /\ Ready
  /\ "shards" \in Careful /\ pages[p].dram # << >> => ChunksOff(p, g) = {}
  /\ AccessPage(p, g)
  /\ UNCHANGED <<stream, sweep, writes, latest>>

-----------------------------------------------------------------------------
(* demote.  The chunks are written back one after the other: descriptor,   *)
(* copy, block to the recycle cache.  The page changes only after the last *)
(* one, so an error leaves the chunks before it written and their blocks   *)
(* recycled while the page still lists them.                               *)
Backing(p, i) == pages[p].dram[pages[p].vram[i].gpu + 1]

Obstacle(p, i) ==
  LET chunk == pages[p].vram[i]
  IN  CASE chunk.gpu + 1 \notin DOMAIN pages[p].dram -> "UnknownAllocation"
        [] chunk.gpu + 1 \in DOMAIN pages[p].dram ->
             IF chunk.size > Backing(p, i).size THEN "DramOom"
             ELSE IF RingFull(chunk.gpu) THEN "DmaRingFull" ELSE "none"

(* What the first m chunks leave behind.  A page has at most one chunk on  *)
(* each GPU (OneChunkPerGpu).                                              *)
ChunkHere(p, m, g) == {i \in 1 .. m : pages[p].vram[i].gpu = g}

(* Mutant: descriptors are queued and nothing is copied (BUG.md, #4). *)
WrittenBackNever(p, m) == host

WrittenBack(p, m) ==
  [g \in GPUs |->
     IF ChunkHere(p, m, g) = {} THEN host[g]
     ELSE LET i == Min(ChunkHere(p, m, g))
              chunk == pages[p].vram[i]
          IN  [host[g] EXCEPT ![Backing(p, i).frame].data =
                 Overwrite(@, Prefix(dev[g][chunk.blk].data, chunk.size))]]

(* Mutant: a block is recycled before its copy is known to be done. *)
ReleasedEarly(p, m) ==
  LET done(g) == ChunkHere(p, IF m < Len(pages[p].vram) THEN m + 1 ELSE m, g)
  IN  [g \in GPUs |->
         IF done(g) = {} THEN vram_free[g]
         ELSE Append(vram_free[g], pages[p].vram[Min(done(g))].blk)]

Released(p, m) ==
  [g \in GPUs |->
     IF ChunkHere(p, m, g) = {} THEN vram_free[g]
     ELSE Append(vram_free[g], pages[p].vram[Min(ChunkHere(p, m, g))].blk)]

Described(p, m) == [g \in GPUs |-> submitted[g] + Cardinality(ChunkHere(p, m, g))]

(* Mutant: the chunks stay on the page. *)
DemoteAllKeepsChunks(p) ==
  /\ \A i \in DOMAIN pages[p].vram : Obstacle(p, i) = "none"
  /\ pages' = [pages EXCEPT ![p].tier = "Dram", ![p].state = "Warm"]
  /\ host' = WrittenBack(p, Len(pages[p].vram))
  /\ vram_free' = Released(p, Len(pages[p].vram))
  /\ submitted' = Described(p, Len(pages[p].vram))
  /\ Ends("ok")
  /\ UNCHANGED dev

DemoteAll(p) ==
  /\ \A i \in DOMAIN pages[p].vram : Obstacle(p, i) = "none"
  /\ pages' = [pages EXCEPT ![p].vram = << >>,
                            ![p].tier = "Dram",
                            ![p].state = "Warm"]
  /\ host' = WrittenBack(p, Len(pages[p].vram))
  /\ vram_free' = Released(p, Len(pages[p].vram))
  /\ submitted' = Described(p, Len(pages[p].vram))
  /\ Ends("ok")
  /\ UNCHANGED dev

(* Mutant: the page is marked demoted before its chunks are. *)
DemoteSomeMarksFirst(p, m) ==
  /\ m < Len(pages[p].vram)
  /\ \A i \in 1 .. m : Obstacle(p, i) = "none"
  /\ Obstacle(p, m + 1) # "none"
  /\ pages' = [pages EXCEPT ![p].tier = "Dram"]
  /\ vram_free' = Released(p, m)
  /\ host' = WrittenBack(p, m)
  /\ submitted' = Described(p, m)
  /\ Ends(Obstacle(p, m + 1))
  /\ UNCHANGED dev

(* Chunk m + 1 is the first one that fails, before its descriptor is       *)
(* queued or, if the copy fails, after.                                    *)
DemoteSome(p, m) ==
  /\ m < Len(pages[p].vram)
  /\ \A i \in 1 .. m : Obstacle(p, i) = "none"
  /\ vram_free' = Released(p, m)
  /\ \/ /\ Obstacle(p, m + 1) # "none"
        /\ host' = WrittenBack(p, m)
        /\ submitted' = Described(p, m)
        /\ Ends(Obstacle(p, m + 1))
     \/ /\ Obstacle(p, m + 1) = "none"
        /\ "cuda" \in Failures
        /\ host' \in {WrittenBack(p, m), WrittenBack(p, m + 1)}
        /\ submitted' = Described(p, m + 1)
        /\ Ends("Cuda")
  /\ UNCHANGED <<pages, dev>>

(* An error after the first of several chunks. *)
StopsHalfWay == \E p \in Pages, m \in 1 .. N : DemoteSome(p, m)

DemotePage(p) ==
  /\ \/ /\ ~pages[p].live
        /\ Ends("UnknownAllocation")
        /\ UNCHANGED <<pages, memory, submitted>>
     \/ /\ pages[p].live
        /\ pages[p].tier # "Vram" \/ pages[p].pinned
        /\ Ends("ok")
        /\ UNCHANGED <<pages, memory, submitted>>
     \/ /\ pages[p].live
        /\ pages[p].tier = "Vram" /\ ~pages[p].pinned
        /\ \/ DemoteAll(p)
           \/ \E m \in 0 .. N : DemoteSome(p, m)
        /\ UNCHANGED file
  /\ UNCHANGED inflight

Demote(p) ==
  /\ Ready
  /\ \A g \in GPUs : Len(vram_free[g]) <= MaxCached
  /\ DemotePage(p)
  /\ UNCHANGED <<stream, sweep, writes, latest>>

-----------------------------------------------------------------------------
(* prefetch.  Only a page in DRAM is prefetched; the copy is of the page's *)
(* size, out of its first chunk, which pool 0 holds.  The block is lost if *)
(* the event cannot be made or recorded, cached if the copy is refused.    *)
Prefetch(p, g) ==
  /\ "prefetch" \in Calls
  /\ Ready
  /\ ~Prefetched(p)
  /\ Len(stream[g]) < MaxQueued
  /\ pages[p].live /\ pages[p].tier = "Dram" /\ pages[p].dram # << >>
  /\ LET n == PageSize[p]
         copy(b) == [page |-> p, blk |-> b, frame |-> pages[p].dram[1].frame, size |-> n]
     IN  \/ /\ VramBlocks(vram_free, g, n) = {}
            /\ Ends("CudaOom")
            /\ UNCHANGED <<dev, vram_free, inflight, stream>>
         \/ \E a \in VramBlocks(vram_free, g, n) :
              /\ dev' = IF a.new THEN Filled(g, a, n, Junk(n)) ELSE dev
              /\ \/ /\ vram_free' = a.cache
                    /\ stream' = [stream EXCEPT ![g] = Append(@, copy(a.blk))]
                    /\ inflight' = [inflight EXCEPT ![p] =
                         [gpu |-> g, blk |-> a.blk, size |-> n]]
                    /\ Ends("ok")
                 \/ /\ "cuda" \in Failures
                    /\ \/ /\ vram_free' = a.cache
                          /\ stream' \in {stream, [stream EXCEPT ![g] = Append(@, copy(a.blk))]}
                       \/ /\ vram_free' = Recycled(a.cache, g, a.blk)
                          /\ UNCHANGED stream
                    /\ Ends("Cuda")
                    /\ UNCHANGED inflight
  /\ UNCHANGED <<pages, host, file, submitted, sweep, writes, latest>>

(* The GPU executes the copy at the head of a prefetch stream: it reads    *)
(* what is in DRAM then.                                                   *)
StreamCopy(g) ==
  /\ stream[g] # << >>
  /\ LET c == Head(stream[g])
     IN  dev' = [dev EXCEPT ![g][c.blk].data = Prefix(host[0][c.frame].data, c.size)]
  /\ stream' = [stream EXCEPT ![g] = Tail(@)]
  /\ UNCHANGED <<pages, vram_free, host, file, submitted, inflight, sweep,
                 writes, latest, result>>

(* Not in src/, where nothing takes a descriptor out: an engine does.      *)
Drain(g) ==
  /\ Engine
  /\ submitted[g] > 0
  /\ submitted' = [submitted EXCEPT ![g] = @ - 1]
  /\ UNCHANGED <<pages, memory, inflight, stream, sweep, writes, latest, result>>

-----------------------------------------------------------------------------
(* write_page with data of the page's size.  Careful callers do not write  *)
(* a page that is in VRAM ("resident", as the comment of write_page asks)  *)
(* or on its way there ("prefetched").                                     *)
MayWrite(p) ==
  /\ writes < MaxWrites
  /\ "write_resident" \in Careful => ~(pages[p].live /\ pages[p].tier = "Vram")
  /\ "write_prefetched" \in Careful => ~Prefetched(p)

WriteCold(p, w) ==
  /\ pages[p].tier = "Ssd"
  /\ \/ /\ file' = [file EXCEPT ![pages[p].ssd] = Whole(p, w)]
        /\ latest' = [latest EXCEPT ![p] = w]
        /\ Ends("ok")
     \/ /\ "io" \in Failures
        /\ file' = [file EXCEPT ![pages[p].ssd] = Junk(PageSize[p])]
        /\ latest' = [latest EXCEPT ![p] = 0]
        /\ Ends("Io")
  /\ UNCHANGED host

(* Mutant: every chunk is filled from the start of the data. *)
WriteBackingRestarts(p, w) ==
  /\ pages[p].tier # "Ssd"
  /\ Len(pages[p].dram) = N
  /\ host' = [g \in GPUs |->
       [host[g] EXCEPT ![pages[p].dram[g + 1].frame].data =
          [u \in 1 .. ShardSize(p, g) |-> <<w, u>>]]]
  /\ latest' = [latest EXCEPT ![p] = w]
  /\ Ends("ok")
  /\ UNCHANGED file

WriteBacking(p, w) ==
  /\ pages[p].tier # "Ssd"
  /\ host' = [g \in GPUs |->
       IF g + 1 \in DOMAIN pages[p].dram
       THEN [host[g] EXCEPT ![pages[p].dram[g + 1].frame].data = Shard(p, g, w)]
       ELSE host[g]]
  /\ \/ /\ Len(pages[p].dram) = N
        /\ latest' = [latest EXCEPT ![p] = w]
        /\ Ends("ok")
     \/ /\ Len(pages[p].dram) < N
        /\ Ends("Io")
        /\ UNCHANGED latest
  /\ UNCHANGED file

WritePage(p) ==
  /\ Ready
  /\ MayWrite(p)
  /\ \/ /\ pages[p].live
        /\ WriteCold(p, writes + 1) \/ WriteBacking(p, writes + 1)
        /\ writes' = writes + 1
     \/ /\ ~pages[p].live
        /\ Ends("UnknownAllocation")
        /\ UNCHANGED <<host, file, latest, writes>>
  /\ UNCHANGED <<pages, dev, vram_free, submitted, inflight, stream, sweep>>

(* Not in src/: a kernel of the framework writes the whole page through    *)
(* the one pointer access gave out.                                        *)
KernelWrite(p) ==
  /\ "kernel" \in Calls
  /\ Ready
  /\ writes < MaxWrites
  /\ pages[p].live /\ pages[p].tier = "Vram"
  /\ Len(pages[p].vram) = 1
  /\ LET chunk == pages[p].vram[1]
     IN  /\ chunk.size = PageSize[p]
         /\ dev' = [dev EXCEPT ![chunk.gpu][chunk.blk].data = Whole(p, writes + 1)]
  /\ writes' = writes + 1
  /\ latest' = [latest EXCEPT ![p] = writes + 1]
  /\ UNCHANGED <<pages, vram_free, host, file, submitted, inflight, stream,
                 sweep, result>>

-----------------------------------------------------------------------------
(* deallocate.  Careful callers ("dealloc_prefetched") do not drop a page  *)
(* with a prefetch in flight.                                              *)
Deallocate(p) ==
  /\ Ready
  /\ "dealloc_prefetched" \in Careful => ~Prefetched(p)
  /\ \/ /\ pages[p].live
        /\ vram_free' = Released(p, Len(pages[p].vram))
        /\ host' = [g \in GPUs |->
             IF g + 1 \in DOMAIN pages[p].dram
             THEN [host[g] EXCEPT ![pages[p].dram[g + 1].frame].used = FALSE]
             ELSE host[g]]
        /\ pages' = [pages EXCEPT ![p] = Absent]
        /\ latest' = [latest EXCEPT ![p] = 0]
        /\ Ends("ok")
     \/ /\ ~pages[p].live
        /\ Ends("UnknownAllocation")
        /\ UNCHANGED <<vram_free, host, pages, latest>>
  /\ UNCHANGED <<dev, file, submitted, inflight, stream, sweep, writes>>

(* The table is a public field of the pool: callers pin pages in it. *)
Pin(p) ==
  /\ p \in Pinnable
  /\ Ready
  /\ pages[p].live
  /\ pages' = [pages EXCEPT ![p].pinned = ~@]
  /\ UNCHANGED <<memory, submitted, inflight, stream, sweep, writes, latest, result>>

-----------------------------------------------------------------------------
(* background_sweep without a membrane.  Which pages are idle is a matter  *)
(* of time: any resident page may be.  It demotes the idle pages, then     *)
(* brings the hot ones to GPU 0; the first error ends it.                  *)
Idleable == {p \in Pages : pages[p].live /\ pages[p].state = "Resident" /\ ~pages[p].pinned}
Hot == {p \in Pages : pages[p].live /\ pages[p].tier = "Dram" /\ pages[p].hits >= HotAt}

SweepStart ==
  /\ "sweep" \in Calls
  /\ Ready
  /\ \E idle \in SUBSET Idleable : sweep' = [demote |-> idle, promote |-> Hot]
  /\ UNCHANGED <<pages, memory, submitted, inflight, stream, writes, latest, result>>

(* Mutant: what fails is tried again. *)
GoesOnRetrying(rest) == sweep' = IF result' = "ok" THEN rest ELSE sweep

GoesOn(rest) == sweep' = IF result' = "ok" THEN rest ELSE NoSweep

SweepDemote(p) ==
  /\ p \in sweep.demote
  /\ DemotePage(p)
  /\ GoesOn([sweep EXCEPT !.demote = @ \ {p}])
  /\ UNCHANGED <<stream, writes, latest>>

SweepPromote(p) ==
  /\ sweep.demote = {}
  /\ p \in sweep.promote
  /\ AccessPage(p, 0)
  /\ GoesOn([sweep EXCEPT !.promote = @ \ {p}])
  /\ UNCHANGED <<stream, writes, latest>>

Next ==
  \/ \E p \in Pages : Allocate(p) \/ Demote(p) \/ WritePage(p) \/ KernelWrite(p)
                        \/ Deallocate(p) \/ Pin(p) \/ SweepDemote(p) \/ SweepPromote(p)
  \/ \E p \in Pages, g \in GPUs : Access(p, g) \/ Prefetch(p, g)
  \/ \E g \in GPUs : StreamCopy(g) \/ Drain(g)
  \/ SweepStart

Spec == Init /\ [][Next]_vars

(* The GPU executes what is queued, and a sweep does not stop for good.    *)
Fairness ==
  /\ \A g \in GPUs : WF_vars(StreamCopy(g))
  /\ WF_vars(\E p \in Pages : SweepDemote(p) \/ SweepPromote(p))

LiveSpec == Spec /\ Fairness

-----------------------------------------------------------------------------
Blocks(g) == DOMAIN dev[g]
Chunks(g) == UNION {{<<p, i>> : i \in ChunksOn(p, g)} : p \in Pages}
Cached(g, b) == {i \in DOMAIN vram_free[g] : vram_free[g][i] = b}
Listed(g, b) == {c \in Chunks(g) : pages[c[1]].vram[c[2]].blk = b}
Pending(g, b) == {p \in Pages : inflight[p].gpu = g /\ inflight[p].blk = b}

Owners(g, b) == Cardinality(Cached(g, b)) + Cardinality(Listed(g, b))
                  + Cardinality(Pending(g, b))

(* The variables keep their types. *)
TypeOK ==
  /\ \A p \in Pages :
       /\ pages[p].live \in BOOLEAN /\ pages[p].pinned \in BOOLEAN
       /\ pages[p].tier \in {"Vram", "Dram", "Ssd"}
       /\ pages[p].state \in {"Unmapped", "Allocated", "Resident", "Warm", "Cold"}
       /\ pages[p].hits \in 0 .. HotAt
       /\ pages[p].ssd \in 0 .. Len(file)
       /\ \A i \in DOMAIN pages[p].vram :
            /\ pages[p].vram[i].gpu \in GPUs
            /\ pages[p].vram[i].blk \in Blocks(pages[p].vram[i].gpu)
       /\ \A i \in DOMAIN pages[p].dram : pages[p].dram[i].frame \in Frames
       /\ Prefetched(p) => inflight[p].blk \in Blocks(inflight[p].gpu)
  /\ \A g \in GPUs :
       /\ VramUsed(g) <= VramCap
       /\ HostUsed(g) <= DramCap
       /\ \A i \in DOMAIN vram_free[g] : vram_free[g][i] \in Blocks(g)
       /\ submitted[g] \in 0 .. RingCap
  /\ sweep.demote \cup sweep.promote \subseteq Pages
  /\ writes \in 0 .. MaxWrites

(* A device block belongs to at most one of: a page, a prefetch in flight, *)
(* the recycle cache of "released device blocks"                           *)
(* (src/src/tiered.rs:56).  Two owners would be handed the same device     *)
(* memory (alloc_vram_on_gpu, free_vram_on_gpu, 971-1006).                 *)
BlockOwnedOnce == \A g \in GPUs : \A b \in Blocks(g) : Owners(g, b) <= 1

Shared == UNION {{<<g, b>> : b \in {c \in Blocks(g) : Owners(g, c) > 1}} : g \in GPUs}

(* On any number of GPUs, as long as no block has two owners only a        *)
(* demotion that fails after its first chunk can give one a second: it has *)
(* recycled the blocks before and left them on the page                    *)
(* (src/src/tiered.rs:802-853).                                            *)
OnlyHalfDemotionsShare == [][Shared' # {} => Shared # {} \/ StopsHalfWay]_vars

(* Every block the driver gave out is in one of them: none is leaked       *)
(* ("would leak a device block per failure", src/src/tiered.rs:694-695).   *)
NoDeviceLeak == \A g \in GPUs : \A b \in Blocks(g) : Owners(g, b) >= 1

Leaked == UNION {{<<g, b>> : b \in {c \in Blocks(g) : Owners(g, c) = 0}} : g \in GPUs}

(* A call that ends well, is refused for want of memory, or fails to read  *)
(* the spill file leaves no block behind: the only errors that do are a    *)
(* full ring, a failure of the driver after the block was taken, and a     *)
(* claim for a page that is gone (src/src/tiered.rs:609-623, 686-745,      *)
(* 1024-1068, 1078-1105).                                                  *)
OnlyErrorsLeak ==
  [][Leaked' \subseteq Leaked \/ result' \in {"DmaRingFull", "Cuda", "panic"}]_vars

(* A copy that a prefetch stream has yet to execute lands in the block of  *)
(* an unclaimed prefetch, never in one a page or the cache holds.          *)
CopiesLandInTheirPrefetch ==
  \A g \in GPUs : \A i \in DOMAIN stream[g] :
    LET c == stream[g][i]
    IN  inflight[c.page] = [gpu |-> g, blk |-> c.blk, size |-> c.size]

(* The DRAM in use is exactly the chunks of the pages in the table, each   *)
(* chunk in a place of its own (allocate, deallocate and the staging of    *)
(* access).                                                                *)
HostOwnedOnce ==
  \A g \in GPUs : \A f \in Frames :
    Cardinality({p \in Pages : g + 1 \in DOMAIN pages[p].dram
                                 /\ pages[p].dram[g + 1].frame = f})
      = IF host[g][f].used THEN 1 ELSE 0

(* A page never has two chunks on one GPU: access and demote look for one. *)
OneChunkPerGpu ==
  \A p \in Pages, g \in GPUs : Cardinality(ChunksOn(p, g)) <= 1

(* The copy the tier field points at holds the last write, shard by shard: *)
(* no promotion, demotion, prefetch, sweep or failed call loses it         *)
(* (access, demote, prefetch, claim_prefetch, write_page).                 *)
AccessServes(p, g, data) ==
  \A i \in ChunksOn(p, g) :
    Prefix(dev[g][pages[p].vram[i].blk].data, Len(data)) = data

InDram(p, g) == host[g][pages[p].dram[g + 1].frame].data

NothingLost ==
  \A p \in Pages : pages[p].live /\ latest[p] # 0 =>
    CASE pages[p].tier = "Ssd" -> file[pages[p].ssd] = Whole(p, latest[p])
      [] pages[p].tier = "Dram" ->
           \A g \in GPUs : InDram(p, g) = Shard(p, g, latest[p])
      [] pages[p].tier = "Vram" ->
           \A g \in GPUs : AccessServes(p, g,
             IF pages[p].ssd # 0 THEN Whole(p, latest[p]) ELSE Shard(p, g, latest[p]))

(* What a prefetch reads does not move under it: while one is in flight    *)
(* its page is in DRAM and owns the frame the copy reads, so access may    *)
(* claim it (prefetch, claim_prefetch, src/src/tiered.rs:1022-1105).       *)
InflightIsWarm ==
  \A p \in Pages : Prefetched(p) =>
    /\ pages[p].live /\ pages[p].tier = "Dram"
    /\ \A i \in DOMAIN stream[inflight[p].gpu] :
         LET c == stream[inflight[p].gpu][i]
         IN  c.page = p => c.frame = pages[p].dram[1].frame

(* access of a page that is gone is an error, never the end of the process *)
(* ("Report it instead of panicking", src/src/tiered.rs:560-561).          *)
NeverPanics == result # "panic"

(* A cached block is at rest: no copy into it is still queued when the     *)
(* next promotion takes it ("The copy must land before the device block    *)
(* goes back on the recycle list", src/src/tiered.rs:848-850).             *)
CachedBlocksAreQuiet ==
  \A g \in GPUs : \A i \in DOMAIN stream[g] : Cached(g, stream[g][i].blk) = {}

(* A ring refuses what does not fit now, it is not a budget for the life   *)
(* of the pool ("a working-set budget, not a lifetime budget",             *)
(* src/tests/hardware.rs:655): with no page in the pool a promotion finds  *)
(* room.                                                                   *)
RingIsNoLifetimeBudget ==
  (\A p \in Pages : ~pages[p].live) => \A g \in GPUs : ~RingFull(g)

(* Every chunk in VRAM has a DRAM shard to be demoted to ("Each GPU owns    *)
(* the DRAM shard at its own index", src/src/tiered.rs:808-812).           *)
ChunksHaveBacking ==
  \A p \in Pages : \A i \in DOMAIN pages[p].vram :
    pages[p].vram[i].gpu + 1 \in DOMAIN pages[p].dram

(* A call that fails leaves every page where it was: no tier changes and   *)
(* no chunk list does (the error paths of access, demote and prefetch).    *)
FailedCallsMoveNothing ==
  [][result' \notin {"ok", "panic"} =>
       \A p \in Pages : pages[p].live /\ pages'[p].live =>
         /\ pages'[p].vram = pages[p].vram
         /\ pages'[p].tier = pages[p].tier]_vars

(* A sweep that started ends, waiting for prefetches where it must.        *)
SweepEnds == (sweep # NoSweep) ~> (sweep = NoSweep)
=============================================================================
