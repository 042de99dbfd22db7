# VUGVA, modelled

TLA+ modules for the memory tiers of VUGVA: the spill file and the range
allocator behind it, the DRAM pools, the DMA descriptor ring, the three-tier pool
that moves pages between VRAM, DRAM and the spill file, the membrane that decides
which pages are where, the older engine that shards tensors over GPUs, and the
lifetime of the CUDA contexts, streams and mappings they all stand on. TLC checks
them on small instances; TLAPS proves every invariant and action property that the
passing runs check, and each of their refinements, for every number of GPUs and pages
and every size, under the rules for callers that section 4 names with each theorem.
Paths are relative to the root of this tree: `src/` is the repository, so the Rust sources are
`src/src/*.rs` and the repository's own documents `src/BUG.md` and so on.

    tlc -workers 2 -config MCSpillFile.cfg MCSpillFile.tla
    tlapm SpillFileProofs.tla

## 1. The system

| component | state | operations | talks to |
|---|---|---|---|
| `range_alloc.rs` RangeAllocator | high-water mark, sorted list of free ranges | allocate (best fit), free (coalesce, retract), used | spill file |
| `tiered.rs` DramPool | base pointer, mark, free list | the same algorithm over pointers | TieredPool |
| `dma.rs` DmaRing, DmaEngine | slots, producer and consumer counter, completion counter | submit, peek, ack, is_done | TieredPool submits; nothing in `src/` consumes |
| `tiered.rs` TieredPool | table of pages, recycle cache of device blocks per GPU, prefetches in flight, tiers | allocate, access, demote, prefetch, write_page, deallocate, background_sweep | all of the above, CUDA streams |
| `spill.rs` SpillFile | a file and a RangeAllocator | create, reserve, write_at, write_at_new_offset, read_into, free | TieredPool |
| `vmt.rs` VirtualMemoryTable | name -> page | allocate, lookup, remove, Page::transition | TieredPool |
| `membrane.rs` Membrane | decayed rates, hits of this window | observe, decay, plan, forget | TieredPool: access observes, membrane_sweep decays, plans and applies |
| `allocator.rs` VugvaEngine | a table of sharded tensors | allocate, access, free | CUDA |
| `prefetch.rs` LookAheadPrefetcher | a queue nothing fills | sync_all, inflight_count | streams |
| `context.rs`, `streams.rs`, `gpu.rs` | retained contexts, the thread's context stack, streams, peer mappings | retain, bind, enter, drop, enable_all | CUDA, beside a framework that shares the contexts |
| `ffi/*`, `nvrtc_kernel.rs`, `lib.rs` | none to speak of | bindings, compilation, errors | CUDA, NVRTC |

What makes it correct, and hard:

- **Allocators.** No byte has two owners, whatever is freed twice; holes merge
  whatever the order of frees, so that a request is refused only if it cannot
  fit. Hard because it takes a long sequence of legal calls to go wrong.
- **Ring.** Each accepted descriptor is seen once, in order. Hard because submit
  is five atomic operations and the engine runs beside it.
- **Pool.** Memory of all three tiers has one owner; no call, failed or not,
  loses the last write to a page. Every call takes `&mut self`, so calls do not
  interleave; what does is the GPU, which executes a prefetch's copy at any time
  between the call that queued it and the access that claims it, while pages are
  demoted, dropped, written and replaced in between. Errors leave a call at
  each of its steps.

- **Membrane.** The plan fits the high-water mark and does not let pages trade
  places, and a finished sweep has applied it. Hard because the sweep changes what it reads: its own
  promotions count as accesses, an eviction that fails ends it half-way, and a
  promotion fails at any of its calls.
- **Engine.** A tensor is several blocks on several devices, any of which may be
  refused on the way in or on the way out.
- **Contexts.** Every retain, push, stream and mapping is undone on every path,
  while the framework retains and releases the same contexts. Hard because
  each driver call of a constructor is an exit, and Rust decides the order of
  the drops from there.

`PROJECT.json` lists every hazard at its line with the properties for it.

## 2. Modules

    Region  <--implements--  RangeAllocator  <--implements--  DramPool
                                   |                          DramPoolProofs
                             SpillFile (EXTENDS RangeAllocator)
                             SpillFileProofs (of both)
    BoundedFifo  <--implements--  DmaRing        DmaRingProofs
    TieredPool      the tiers and their contents
                      TieredPoolProofs       its table, who owns a block or a frame,
                                             what is in them, how much fits
    Membrane        which pages are where        MembraneProofs
    VugvaEngine     tensors over GPUs            VugvaEngineProofs
    Contexts        what pool and engine hold    ContextsProofs
                    from the driver
    Sums            what is known of a sum, for the proofs of pool, membrane and engine

- **Region** is what callers of any range allocator may rely on: ranges granted
  are apart, refusals mean that no hole is left, stray frees do nothing.
- **RangeAllocator** keeps the free list as a set of ranges. `Allocate` is best
  fit with the split, the bump or the refusal; `FreeRange` is one call of
  `free`, with its dropped cases, both merges and the retraction of the mark.
  `held` is the callers' knowledge. `FreeAgain` is any free of a range that is
  not wholly in use. Freeing a live range one does not own is outside
  the contract, as it is for any allocator.
- **SpillFile** composes the allocator with the bytes of the file and with what
  callers believe is in them (`pages`). Its actions use RangeAllocator's own.
  `write_at_new_offset` is `BeginWrite` and then `EndWrite` or `FailWrite`, which
  leaves any prefix of the bytes in the file and frees the reservation; the
  action remembers the allocator's state at the call, so that the rollback can be
  compared with it. `Attach` is attach_spill; with `Careless` it may come again
  while pages are in the file.
- **DramPool** is the second copy of the algorithm, as written: a sequence kept
  sorted, `partition_point`, inserts and removals by index, offsets relative to
  `base_ptr`. Pointers below and above the mapping are offered to it because
  deallocate offers every chunk to every pool.
- **DmaRing** has one action per atomic load and store of `submit`, and peek, ack
  (slot first) and the completion count (after) on the engine's side. A watcher calls
  is_done, `AskDone` and `AnswerDone` being its two loads; `promised` and `idle` remember
  what had been accepted when it asked and whether the counters were equal at any moment since.
  Counters wrap at `Word`.
- **TieredPool** is one action per public call, each with all its error exits.
  Its variables correspond to the code's fields thus:

| variable | code |
|---|---|
| `pages` | `vmt`; a page's `vram`, `dram`, `ssd`, `hits` are vram_chunks, dram_chunks, ssd_offset, access_count (capped at the threshold) |
| `dev`, `vram_free` | the blocks cuMemAlloc returned with their contents; the recycle cache |
| `host`, `file` | the DRAM pools' ranges and the reserved file ranges, with contents |
| `submitted` | descriptors waiting in each GPU's ring |
| `inflight`, `stream` | the inflight map; the copies still queued on the prefetch streams |
| `sweep` | the rest of a running background_sweep: it is one call, modelled in steps because the GPU goes on beside it and an error ends it half-way |
| `writes`, `latest`, `result` | the version that defines each page; how the last call ended |

  Memory is counted in units. The contents of unit u after the w-th write are
  `<<w, u>>`, so a lost write, a wrong shard and an unfilled block all differ. A
  place in a DRAM pool is a numbered frame: that places do not overlap is
  DramPool's business, and a pool with room may still refuse a request of
  several units (`MayRefuse`, fragmentation). `StreamCopy` (the GPU) and
  `KernelWrite` (the framework's kernels) are not in `src/`.

  Nothing in `src/` drains the rings. `Drain` takes a descriptor out at any time if
  something outside does (constant `Engine`); even then a ring may be full when a
  call comes, and DmaRingFull is an exit of every promotion and demotion in every run.
  `Failures` names what else may go wrong: `io` (reads and writes of the file), `cuda`
  (every driver call whose return code the code looks at), `refused` (the copy whose
  return code it does not).

  `Careful` names what callers refrain from, one flag per rule: `names` (do not
  allocate under a name in use), `write_resident` (demote before writing, as
  write_page's comment asks), `write_prefetched`, `dealloc_prefetched` (claim a
  prefetch before writing or dropping the page), `shards` (do not access a
  sharded page on a second GPU while it is resident on a first). Only the second
  is documented by the code; what happens without the others is in section 5.

- **Membrane** has the rates and hits of `membrane.rs`, the ranking with its
  hysteresis, the plan, and membrane_sweep one page at a time: decay, plan,
  evictions, promotions. Rates are whole eighths rounded down, scores are doubled
  so that the factor 1.5 is exact. Of the pool it has each page's tier and pin and
  the recycle cache by exact size, which decide whether a promotion finds a block, and
  the prefetches that access claims. A promotion fails without a block, and with one as it
  likes: `Dropped` is an exit that loses the block (a full ring, a copy that does not
  end, an event; `lost` counts the bytes), `GivenBack` one that caches it (no DRAM to stage
  a cold page in, a read or a copy that failed). A demotion fails as it likes. Which of
  these happen when is left open, as ring, DRAM and file are not in this module.
  Callers come between sweeps (`&mut self`) and claim a prefetch before they drop its page.
- **VugvaEngine** is one action per call of the V1 engine, with the shard at which
  an allocate fails, the chunks whose free is refused, and access's four ways: the
  chunk on the GPU, the first chunk, a copy, a refusal. The table's made-up names
  and re-used names are there. `Careful` is `names` (no allocate under a name in
  use) and `failed` (no access of a page whose allocate failed).
- **Contexts** follows one TieredPool or VugvaEngine through construction, use and
  drop. A constructor is a sequence of loops over the GPUs (`Phases`), a driver
  call or two per step, and `Refused` is enabled at each step: it drops what was
  built so far in Rust's order (guard, locals in reverse, `Unwinding`). `Fields`
  is the order of the drop of a whole owner. A GPU whose cache is being emptied may refuse
  its context, and drop goes on without it (`RefusedCache`). The framework retains and releases
  the same contexts at any step; a context whose last retain goes takes its blocks
  and mappings along. `Careful` is what callers do before they drop a pool:
  `demote` its pages, `claim` its prefetches.

Operators called mutants in a comment are plausible slips of the code. They
are in no specification: each is swapped in to see that a property notices.

## 3. Runs

| run | what it asks | bounds | states |
|---|---|---|---|
| `spill_file` | the allocator: type, aliasing, tightness, implements Region; the file: last write read back, nothing stranded, failed writes leave no trace | 11 bytes, lines of 2, sizes 0 1 4 7, two contents | 23 556 |
| `dram_pool` | sorted list, implements RangeAllocator | 15 bytes, lines of 2, sizes 0 1 4 5 12, base 4 | 1 644 |
| `dma_spsc` | stable peek, is_done covers all that was accepted before it was asked and is said in the end, implements BoundedFifo | 1 producer, 2 slots, 6 descriptors, 1 watcher | 9 024 |
| `pool_one_gpu` | copies land in their prefetch, nothing lost, prefetched pages stay warm, only errors leak a block, sweeps end | 1 GPU, pages of 1 and 2 units, 3 VRAM / 3 DRAM / 2 file, a ring of 1 that may be drained, 1 write, file errors | 844 985 |
| `pool_failing_device` | type, device-block ownership, nothing lost, failed calls, with a device that fails, an undrained ring and pages dropped in flight | ring of 2, 3 VRAM / 2 DRAM / 2 file | 1 727 056 |
| `pool_two_gpus` | one owner of each frame, one chunk per GPU, only half-way demotions share blocks, with peer copies and discarded prefetches | 2 GPUs, pages of 2 and 3 units (the bigger one pinnable), 2 VRAM / 2 DRAM each, one cached block, one queued copy, a ring of 1 | 802 024 |
| `pool_shards` | nothing lost, shard by shard | 2 GPUs, 2 pages of 2 units up to symmetry, 2 writes, no prefetch | 3.9 million |
| `membrane` | the mark, hysteresis, what a finished sweep did | 1 GPU, pages of 2, 1 and 2 units (the last one cold), two pinnable, mark at 3, device of 4, one hit counted per window | 2.0 million |
| `membrane_cooling` | pages cool down | the same, none pinnable, device of 3 | 0.46 million |
| `engine` | live chunks, reported leaks, whole tensors, one chunk per GPU | 3 GPUs of 4 units, 2 names, tensors of 1, 3 and 4, limit 3; queries, allocations and frees refused | 1 475 009 |
| `contexts` | the thread's stack and live guards, streams in their contexts, mappings, nothing left behind, host memory | 2 GPUs that reach each other, 2 owners one after the other | 27 886 |

`ring_lifetime` ends in a counterexample: section 5.

**Why the bounds are enough.** Five lines of region (seven for DramPool) allow
live ranges with holes on either side, which is every case of `free` (merge left,
right, both, retract, drop) and every outcome of the best-fit scan (exact, split,
none); an odd capacity and odd sizes exercise the rounding, and what is proved of
the allocator and the file does not depend on them. The states of `spill_file` are
compared without the bytes that no property reads (`MCView`). Two slots filled three times
over pass through full, empty and reuse of each slot. In the pool, two pages are
what it takes for one to be given the other's block or frame. Three units of
VRAM run out as soon as a prefetch or a cached block holds a unit, and blocks are
recycled for a page of their size and refused for the other. A ring of one descriptor
is full as often as not, with the engine at liberty to drain it. Three units of DRAM
(`pool_one_gpu`) hold both pages at once; two (`pool_failing_device`) make the second
allocation and its staging fail. One write suffices to tell the
last write from junk and from the other page; `pool_shards` uses two to tell old
from new. `MaxQueued` bounds the copies waiting on a stream: only a prefetch discarded by
an access on another GPU can put a second copy of one page there. `MaxCached` bounds the
blocks in a cache at what the device holds, in `pool_two_gpus` at one. There the page of two
units has even shards and that of three a longer one on the last GPU, and two units of
DRAM let an allocate fail at the second pool: so a demotion stops at its second chunk for
want of a shard, of room in the shard, and of a slot in the ring.

In `membrane`, two pages of one size contend for a mark that holds one of them,
with a smaller one beside it, so that the plan skips a page and fills on; the two
blocks of the bigger size fill the device, so the exact-size cache starves the
smaller page. Two pages pinned together pass the mark. `MaxHits` 1 still lets rates differ, by when the hits came. In
`engine`, three GPUs leave a remainder on the last and shards before and behind a
failing one; a tensor smaller than the number of GPUs has shards of nothing, which
the driver refuses. Two GPUs and two owners are what it takes for contexts to be
confused and for an owner to meet what the one before it left.

**Deadlock** is checked wherever the system cannot stop. It is off in `pool_failing_device`,
where a panic may end the process, and in the configurations that end in a
counterexample anyway.

**Fairness.** `LiveSpec` assumes that the GPU executes what is queued on a stream,
which CUDA guarantees, and that the thread inside background_sweep goes on when
it can. Under it `SweepEnds`: a sweep ends although it waits for prefetches
and whatever fails in it. Membrane's `LiveSpec` assumes that the framework goes on
calling background_sweep, as its periodic sweep is meant to be used, and that a
started sweep goes on; callers need not ever stop, `Cooling` speaks of the runs
in which they do. No fairness is assumed of callers otherwise. DmaRing's `LiveSpec`
assumes of the engine that it goes on with a descriptor that waits, and of the watcher that it
goes on asking: both are outside `src/`, and `DoneIsSaid` is what the ring promises to such
an engine and such a watcher. The pool's specifications assume nothing of what drains the rings,
since the code has nothing that does.

Results worth naming: errors leak blocks. `OnlyErrorsLeak` says which: a full ring, a
failure of the driver after the block was taken, the claim of a prefetch for a page that is gone;
a call that ends well, finds no memory or fails to read the file leaks nothing. On one GPU
they never alias one: dropping a page with a prefetch in flight aliases nothing either,
because the block stays with the prefetch. On two GPUs a demotion that stops half-way
does (`TieredPool_halfway.cfg`), and nothing else.

## 4. Proofs

The first part of `SpillFileProofs` is about RangeAllocator and proves, for every
`Capacity`, every `ALIGN` > 0 and every set of natural `Requests` (the three
assumptions of RangeAllocator):
`TypeCorrect`, `NoAliasingTheorem`, `TightTheorem`, `WholeWhenEmptyTheorem`,
`RefusalIsHonestTheorem`, and `ImplementsRegion`, that every behaviour is one
of Region.

The inductive invariant is `IndInv == TypeOK /\ NoAliasing /\ Tight`. NoAliasing
alone is not inductive: a range given back is checked against the free list only,
so that it lies wholly outside the free ranges must be known (`HeldIsNotDropped`),
and a stray free must be seen to hit something free, which needs Tight: each byte
below the mark is held or free, so a range not wholly held overlaps the free list
or passes the mark and is dropped (`FreeAgainStep`). `MergedBlock` says what
coalescing produces, at most one neighbour on each side, from NoAliasing. That
a best fit exists whenever something fits is `LeastElement`, from well-founded
induction on lengths (`NoBestFit`). Each step lemma has one conjunct per part of
IndInv. WholeWhenEmpty and RefusalIsHonest follow from IndInv: with nothing held
Tight leaves only a free block touching the mark, which it forbids; and a hole of
the length asked for lies inside one free block or reaches the mark, because two
free blocks never touch. The refinement maps reuse and bump to Grant, refusal to
Refuse, free to GiveBack and stray frees to Ignore.
WholeWhenEmpty and RefusalIsHonest are stated in RangeAllocator and only proved: no run lists them, because
the runs check what implies them (Tight and the refinement of Region).

The rest of it proves of SpillFile, for the same constants, any set of `Contents` and
callers who do not attach a second file over live pages (`~Careless`, a hypothesis
of each theorem): `SpillImplementsAllocator`, that the file's use of the
allocator is one the allocator's own theorems cover (so `SpillImplementsRegion`),
`ReadsBackLastWriteTheorem`, `NoneStrandedTheorem` and
`FailedWriteLeavesNoTraceTheorem`. The invariant is `SpillInv`: IndInv, the
file's and pages' types, `NoneStranded`, `ReadsBackLastWrite`, and `PagesApart`, that
the ranges of two pages and of the write in progress do not meet. The last is
what makes the read-back inductive: a write goes to a range that is held, ranges
held are apart (NoAliasing), and rounding to lines only widens what is held
(`AlignedCovers`), so no byte of another page changes (`WrittenElsewhere`). Each
call's change of `held` by one range is `OneMore` or `OneLess`, with the pages
following. For the rollback the invariant is `Traced`: while a write is in
progress the allocator is the remembered one after exactly a bump, the take of a
whole block or of a block's head, and `FailWriteUndoes` shows for each that the
free which follows merges and retracts to precisely the state before; it needs
Tight, because a neighbour that touched the range would be merged as well. Attach
with no pages reaches the allocator's initial state by freeing nothing:
`WholeInv` says that with nothing held it is there already.

`DramPoolProofs` proves, for every mapping, alignment and set of sizes, that the pool's
list stays sorted and coalesced (`AlwaysSortedAndCoalesced`) and that the pool
implements RangeAllocator (`PoolImplementsAllocator`): so what is proved of the
allocator holds of the pool. The invariant is `PoolInv`: the blocks are in
order and no two touch, all end below the mark, and what callers hold is in this
mapping. Inside a free it is broken on purpose, the block just inserted may touch
the one on either side, so `Ordered(s, T)` says at which indexes T a list may still
touch and `Coalesced` that absorbing a block takes one index out of T. `PositionIs`
is the binary search, `GapIs` what makes it enough: in a sorted list a range that
misses the blocks before and after its place misses all, and what it touches is
one of these two. `InsertedIs` and `FreeIs` then say what the edits by index
leave, as a set; the first shortest block of the list is the shortest of least
offset of the set (`BestFits`), and a free is Dropped, Merged and Neighbours of
RangeAllocator (`DropMaps`, `MergeMaps`). A pointer outside the mapping
maps to an offset past the mark, which is dropped as well (`ForeignMaps`).

`DmaRingProofs` proves `PeekedIsAlwaysStable`, `DoneAlwaysMeansDrained` and `RingIsFifo`
(the ring implements BoundedFifo, step by step) for every capacity, word width
and number of descriptors, under `Alone(p)`: one producer, which the
`&mut self` of TieredPool's calls gives each ring, and fewer submissions than
the counters hold. Without either the properties are false (section 5). The
invariant `RingInv` has the window of positions between the two counters:
no two of them share a slot (`SameSlot` arithmetic on `%`), the slot a producer is
filling is outside it, and every accepted descriptor is either executed or in it. For
is_done, `Watching` adds that what the watcher was promised is executed or in the window
below the counter it saw, which the completions have passed when it answers yes.

`TieredPoolProofs` has four parts. The first is `Base`: the types of all variables, that every
block anybody knows was made by the driver (`AllMade`), that pages below VRAM have
no chunks and no prefetch above DRAM (`NoChunksBelow`), that the chunks of a page are
on different GPUs (`Distinct`) and cold pages have a range of the file (`Stored`). It is
inductive for every instance, whatever fails and however careless the callers
are; `OneChunkAlways` follows at once. Each call is first given in the form of
cases (`AllocateCases`, `AccessCases`, `DemoteCases`, ...: what became of the chunk
lists, the caches and the blocks), and every later proof splits on those instead of
on the actions.

The second part, Owners, adds to it, in `Table`, what holds of pages not in use, and then
one invariant per property, each with the least its property needs of the callers:

| theorem | holds for | invariant beside `Table` |
|---|---|---|
| `BlocksAreOwnedOnce` | one GPU, or callers who never ask a second GPU for a resident sharded page | `Owned`: caches, chunk lists and prefetches have no block twice and none in common; a page with DRAM behind it has at most one chunk, so a demotion cannot stop half-way |
| `OnlyHalfDemotionsShareBlocks` | every instance: as long as no block has two owners, only a demotion that stops after its first chunk (`StopsHalfWay`) gives one a second | none: an action property; `OneOwnerNow`, the first half of `Owned`, is what the blocks with two owners are counted by (`SharedIs`) |
| `HostIsAlwaysOwnedOnce` | callers who reuse no live name | `HostOwned`: a frame is in use exactly if a page holds it, and one page only |
| `FailedCallsNeverMove` | the same | none: an action property |
| `OnlyErrorsLoseBlocks` | callers who reuse no live name, whatever drains the rings or does not and whatever the driver refuses | none: an action property, call by call |
| `InflightIsAlwaysWarm`, `CopiesAlwaysLandInTheirPrefetch` | one GPU, a driver that does not fail, the same callers (`Unmoved`) | `Landing`: every queued copy is that of the unclaimed prefetch of its page and reads that page's frame |

The third part, Contents, proves `LastWritesAreNeverLost`, `Spec => []NothingLost`, for every size
of page and of tier and any number of calls, whatever allocation, copy or
launch fails that the code checks, with the GPU copying at any time. The hypothesis `Lasting` is what the runs
`pool_one_gpu`, `pool_failing_device` and `pool_shards` assume: no live name reused, no
write to a page in VRAM, no copy refused unnoticed (`TieredPool_refused.cfg` is the case without that), and either one GPU with
no write under a prefetch, or any number of GPUs with sharded pages on one of
them at a time and no prefetch. The invariant is `Lasts`: per page `Sized`, `Situated` and
`Holding` (the sizes of shards and chunks, where the page may be, and that each
shard, chunk and range has the contents its place requires: the whole page if it
came from the file, the shard of that GPU if it came from DRAM), `Arriving` (the
block of a prefetch has the page already or a copy of it is queued), `Aimed` (no
queued copy lands in a block another page can get) and `OwnRanges` (cold pages do
not share a range). NothingLost alone says nothing of a block until its page
is promoted, so that access, which serves a prefetched block, could not be
shown to preserve it. It needs `Owned` and `HostOwned` as well: a copy
changes no other page because it goes to a block or frame of one owner. The lemma
`OnePageLasts` reduces a call to its own page; what is left per call is the page
it is about.

The fourth part, Room, proves `TypesAlwaysKept`, `Spec => []TypeOK`, without a hypothesis: for every
instance, whatever fails and however careless the callers, no VRAM, DRAM or ring is
used beyond its size. The invariant is `Fitting`: `DevicesFit`, `PoolsFit` and `RingsFit` are
the budgets, and what makes the second inductive is `Shelved`, that the frames a page
names are in use, are on no other page, and are as long as the page's shard. The DRAM
in use is the sum over the frames in use of what is in them, so a copy that wrote
a frame with another length, or a frame given out while a page had it, would
change the sum with no allocation made. Beyond that each call adds to a sum only
what it had room for.

`Sums` has what that needs. A sum is a fold which takes its elements out in an order
that CHOOSE fixes, and no induction theorem can be instantiated with a
predicate on sets; the proofs take a smallest counterexample instead (`SmallestSet`,
from the well-foundedness of < on the naturals). So the fold's equation has one
solution (`AddsOnce`, `AddsSolved`), any element may be taken out first (`SumTakesOut`),
and a sum grows with its set (`SumOfPartIsLess`) and with an element (`SumPutsIn`).

`MembraneProofs` proves `PlanAlwaysStaysUnderTheMark`, `AlwaysDisplacedByHotter` and
`PlacementAlwaysFollowsPlan` without a hypothesis, for any pages, sizes, rates and budget.
`BeforeOrders` says that the ranking's comparison is a strict total order, pinned pages and
ties included, so that a sorted sequence of the known pages exists (`RankingExists`: a page's
place is the number of pages before it) and the plan is about it. The plan is a
fold down that sequence; `PlanIsStepwise` turns it into a step per place, and
`PlanSoFar`, by least counterexample over places, says what holds after each: what was
kept so far sums to `used`, which is under the mark or all pinned, and of two pages of one size the kept one comes first in the ranking.
`SweepInv` carries this through the sweep, with what it has still to do (`Underway`): an
evicted page that is up is still on its list, and so is a page to be kept that is
not up, has room and met no error. That
a promotion which found no block leaves its page without one to the end needs `AccessTakesRoom`: the
promotions after it make no room, whether they are done, drop their block or give it
back, as each takes a block from the cache or memory
from the device, and that is a statement about two sums.

`VugvaEngineProofs` proves of the V1 engine, for any number of GPUs, any tensors and any
failures: `ChunksAreAlwaysLive` without a hypothesis, `LeaksAreAlwaysReported` if no live name
is reused and no peer copy is refused, `OwnChunkIsAlwaysServed` for callers who do not
access a page whose allocate failed, `ResidentIsAlwaysWhole` without a hypothesis.
`EngineInv` has the table's types, that a free name has no chunks, and that a chunk is live and in one place; `Reported` adds that
a live block is in the table or among those whose free was refused. `PagesAreWhole` says of a
resident page that its chunks are one block or the shards of all GPUs in order; that equal
shards and the last one's remainder make up the tensor is `SumOfEqual`.

`ContextsProofs` proves all six invariants of Contexts, for any number of GPUs and
owners, any peer topology and a driver that may refuse any call: `StackIsAlwaysRestored`,
`StreamsAreAlwaysAligned`, `EnabledIsAlwaysMapped`, `PoolStreamsAlwaysHaveContext` for every caller,
`HostMemoryInUseIsAlwaysMapped` for those who claim, `NothingIsLeft` for those who also
demote, the blocks of a cache whose context drop could not enter excepted.
`CtxInv` says at each point of a constructor, of its unwinding and of a drop what
is held: `Refcounts` (the driver's count of a context is the guards and registries that
retain it plus the framework's retains), `Progress` (which GPUs the running loop
has done), `Turn`, `Ending` and `Emptying` (what each step of the drop has left), then
the stack, the streams, the peers and the pinned memory. None of the properties is
inductive without the count and the loop position: whether a context still
exists at a drop depends on how far its constructor had come.

Before they were proved, the invariants were checked by TLC on the instances of
the runs.

**Only model-checked**, and why:

- the liveness properties `SweepEnds`, `Cooling` and `DoneIsSaid`: fairness is out of the
  prover's reach.

The hypotheses of the theorems are the rules of `Careful` and the failures they leave out;
section 5 has a counterexample for most of them.

## 5. Limits of the code that the models show

`ring_lifetime` (`TieredPool_lifetime.cfg`) is a run that ends in a counterexample, quoted in
`PROJECT.json`: nothing drains the rings, so after as many descriptors as there are
slots each promotion of a warm page and each demotion ends in DmaRingFull, in an empty pool
too (against src/tests/hardware.rs:655).

The rest are configurations beside the runs; TLC ends each with a counterexample.

| configuration | property that fails | what the code does |
|---|---|---|
| `TieredPool_ringfull.cfg` | `NoDeviceLeak` | a promotion takes its block first and drops it if the ring is full (tiered.rs:609-612); the cold path gives it back, as leaving it "would leak a device block per failure" (694-695) |
| `TieredPool_cold.cfg` | `ChunksHaveBacking` | a page promoted from the file has no DRAM chunk and cannot be demoted (810-812); a sweep that tries ends there |
| `TieredPool_halfway.cfg` | `BlockOwnedOnce` | demote recycles the first chunk, fails on the second and keeps both (802-853): here a shard of the page of 3 units, copied to the other GPU, is larger than the shard behind it there. A full ring does it as well, or an allocate that failed on the second pool and left the page live with one shard (811-812) |
| `TieredPool_discarded.cfg` | `CachedBlocksAreQuiet` | an access on another GPU recycles a prefetch's block while the copy into it is still queued (1089, against the comment at 848) |
| `TieredPool_dropped.cfg` | `NeverPanics` | prefetch, deallocate, access unwraps a page that is not in the table (1093) |
| `TieredPool_refused.cfg` | `NothingLost` | access drops the return code of cuMemcpyHtoDAsync (616), so a refused copy makes junk resident and demote writes it back (against 921, "the page stays warm and correct") |
| `TieredPool_peer.cfg` | `NothingLost` | the peer copy hands one GPU the other's shard (559, against 532). With a prefetch on two GPUs the copy also reads a page's size out of one shard |
| `DmaRing_done.cfg` | `DoneMeansIdle` | is_done may answer yes though at no moment since it was asked every submitted transfer was complete (dma.rs:84); what it does promise is `DoneMeansDrained` |
| `Membrane_prefix.cfg` | `PlanIsPrefix` | plan does not return the prefix that fits (membrane.rs:184-185) but every page down the ranking that still fits |
| `Contexts_engine.cfg` | `EngineStreamsHaveContext` | the engine's fields drop the contexts before the streams (allocator.rs:160-169, against streams.rs:88-90); the pool's order is right |
| `Contexts_unclaimed.cfg` | `HostMemoryInUseIsMapped` | drop unmaps the DRAM pool that the copy of an unclaimed prefetch still reads (tiered.rs:1358, against 1299-1301) |

Others show up when an assumption of a run is dropped; no configuration is kept for them.
In the pool and below it:

- without `write_prefetched`, NothingLost fails: prefetch, write_page, access
  returns the old bytes; demoting first, as tiered.rs:1127 advises, does nothing
  as the page is still warm;
- with `Careless = TRUE` in `MCSpillFile.cfg`, ReadsBackLastWrite fails: attach_spill
  called again leaves pages with offsets into a new file. If the path is the same,
  the old file's drop moreover unlinks the new one's name;
- a reserved range "reads as zeros until something writes it" (spill.rs:96) only
  the first time: a reused range reads as what was freed there;
- with `Producers = {p1, p2}` in `MCDmaRing.cfg`, FifoSpec and DoneMeansDrained
  fail: a descriptor is overwritten (BUG.md, #6);
  with `Word = 4` the wrapped counter makes a full ring look empty (BUG.md, #20);
- without `names` on the constants of `TieredPool_one.cfg`, HostOwnedOnce fails: the replaced page's memory is stranded;
- without `write_resident`, NothingLost fails: write_page leaves the device copy stale, as its
  comment says (tiered.rs:1126), and the next demote writes it over the new bytes;
- `Page::transition` allows no Allocated -> Warm and no Allocated -> Cold, which
  allocate does by assigning the state; nothing in `src/` calls transition;
- allocate(Tier::Vram) makes a page Resident that access cannot find, and the
  range of a deallocated cold page is never freed. Both are in the model
  (`AllocateBacked`, `Deallocate`).

In the membrane:

- the sweep ends at the first page whose demotion fails, so one cold page that was
  promoted keeps every later sweep from evicting and promoting anything;
- a promotion that finds no block is meant to be retried "with whatever space
  eviction has since freed" (tiered.rs:921-924), but eviction frees blocks of its
  own size only. Such a page stays planned for ever, and its retries, which count
  as accesses, keep it hot: without the second disjunct of `Cooling` TLC finds it;
- deallocate never calls `forget`, so the maps grow with every name, and a new page
  under an old name inherits its rate; the budget is said to be per GPU, but the
  whole size of each page is charged to it and promotions go to GPU 0.

In the engine:

- with `"copy"` in `Failures`, LeaksAreReported fails: a refused peer copy drops the
  block allocated for it (allocator.rs:330-339);
- without `failed`, OwnChunkIsServed fails: a page whose allocate failed has chunks
  but is not Resident, and access then makes one more copy of its first shard with
  every call on another GPU, whatever is there (against allocator.rs:280);
- without `names`, a second allocate strands the first page's blocks, and a
  made-up name may be one a caller chose (vmt.rs:218-238);
- a shard's bytes are the total divided by the number of GPUs, so a shard may end
  inside an element, and of a tensor smaller than that number most are empty.

Of contexts and lifetimes:

- without `demote`, NothingLeft fails: drop gives back the cached blocks but not
  those of resident pages, nor of unclaimed prefetches, in contexts that outlive
  the pool (tiered.rs:1318-1321);
- a constructor that fails after it mapped a DRAM pool leaves it mapped and
  page-locked: the memory is freed by TieredPool's drop only. NothingLeft excepts
  it (`call.whole`);
- calls leave their context current on the caller's thread (`Bind`), also when the
  owner and with it the context are gone.

## 6. Not modelled

NUMA distances and sysfs, what discovery reports of a GPU, CUDA and NVRTC bindings,
kernel compilation: driver and kernel calls without state the tiers read later.
`LookAheadPrefetcher` has lost its look-ahead; what is left is a queue nothing puts
a job into (its sync_all would drop the jobs behind one that fails). The pool's
peer matrix is never enabled, so `enabled` is the engine's. There is no recovery to
check: nothing reads a spill file an earlier process left. Arithmetic is unbounded,
so the wrap of `usize` in `align` and in `offset + len`, and the truncation of
sizes to u32 in DmaEngine, are outside. Calls of the pool with a GPU index that
does not exist are not made. Membrane's copies have no contents: that promotion and
demotion keep them is TieredPool's business. Threads other than the one that owns a
pool or an engine are the framework's alone: all their calls take `&mut self`.

## 7. Plan

1. RangeAllocator, Region, DramPool; SpillFile; the proofs of the allocator and of
   the file: done.
2. DmaRing, BoundedFifo: done.
3. TieredPool with the idle-time sweep; Membrane with its own; VugvaEngine;
   Contexts with construction and drop: done.
4. The proofs of the ring, the pool, the engine and the contexts: done.
5. DramPool implements RangeAllocator, proved: done.
6. The proofs of the membrane and of what rests on sums (budgets, whole tensors): done.
   What the runs check and no theorem states is the liveness of the two sweeps.
7. Left to model: an abstract store, name -> last write, that the careful pool
   implements; Page::transition against the states the pool assigns.
