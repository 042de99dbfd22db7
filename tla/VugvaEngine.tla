---------------------------- MODULE VugvaEngine ----------------------------
(***************************************************************************)
(* The V1 engine of src/src/allocator.rs: tensors over the VRAM of several *)
(* GPUs.  A tensor below the limit that GPU 1 has room for goes there as a *)
(* whole; any other is cut into shards, one per GPU.  access on a GPU that *)
(* has no part of it copies the first chunk there.  Other processes share  *)
(* the devices: what was free when asked may be gone when allocated.       *)
(*                                                                         *)
(* Each call takes &mut self and is one action, with all its early exits.  *)
(* Sizes are in units; the number in a Page is the tensor's, that of a     *)
(* chunk the chunk's.                                                      *)
(***************************************************************************)
EXTENDS Integers, FiniteSetsExt, SequencesExt

CONSTANTS
  N,            \* GPUs, by their index in the cluster
  Vram,         \* units of memory on each
  Names,        \* the names of tensors
  Generated,    \* those that the table makes up, in order
  Sizes,        \* units of a tensor
  SINGLE_GPU_LIMIT,
  Failures,     \* what the driver may refuse: "query", "alloc", "copy", "free"
  Careful       \* what callers refrain from: "names", allocate under a name
                \* in use; "failed", access what could not be allocated

GPUs == 1 .. N

ASSUME EngineAssumption ==
  /\ N \in Nat \ {0}
  /\ Vram \in Nat
  /\ Generated \in Seq(Names)
  /\ Sizes \subseteq Nat
  /\ SINGLE_GPU_LIMIT \in Nat

VARIABLES
  pages,        \* VirtualMemoryTable.pages
  next_id,      \* VirtualMemoryTable.next_id
  live,         \* the blocks the driver has out: [gpu, id, size]
  refused,      \* those whose free was tried and reported as failed
  served        \* how the last call ended: the chunk that access returned,
                \* and the blocks its page had on that GPU before

vars == <<pages, next_id, live, refused, served>>

NoPage == [state |-> "Unmapped", size |-> 0, chunks |-> << >>]
Page(state, size, chunks) == [state |-> state, size |-> size, chunks |-> chunks]

Answer(what) == [result |-> what, block |-> {}, had |-> {}]

Whole == 0      \* what a chunk holds: all of the tensor, or shard number i

Chunk(block, part) == [block |-> block, part |-> part]

(* UnifiedAllocator::alloc_device. *)
On(g) == {b \in live : b.gpu = g}
Room(g, size) == size > 0 /\ size + MapThenSumSet(LAMBDA b : b.size, On(g)) <= Vram
Block(g, size) ==
  [gpu |-> g, size |-> size,
   id |-> Min({i \in 1 .. Cardinality(On(g)) + 1 : \A b \in On(g) : b.id # i})]

-----------------------------------------------------------------------------
Init ==
  /\ pages = [n \in Names |-> NoPage]
  /\ next_id = 0
  /\ live = {}
  /\ refused = {}
  /\ served = Answer("none")

(* VirtualMemoryTable::allocate: a given name, or "" for the next made up. *)
Named(name, made_up) ==
  IF made_up
  THEN next_id < Len(Generated) /\ next_id' = next_id + 1
                                /\ name = Generated[next_id + 1]
  ELSE /\ UNCHANGED next_id
       /\ "names" \in Careful => name \notin Range(Generated)

(* What free_vram(0) may say: with another process on the GPU, always no.  *)
FitsOnFirst(size) == size <= SINGLE_GPU_LIMIT /\ Room(1, size)
MayNotFit(size) == ~FitsOnFirst(size) \/ "query" \in Failures

(* The fast path.  The page is in the table before the block is asked for. *)
AllocateWhole(name, size) ==
  /\ FitsOnFirst(size)
  /\ \/ /\ live' = live \cup {Block(1, size)}
        /\ pages' = [pages EXCEPT ![name] =
             Page("Resident", size, <<Chunk(Block(1, size), Whole)>>)]
        /\ served' = Answer("ok")
     \/ /\ "alloc" \in Failures
        /\ pages' = [pages EXCEPT ![name] = Page("Allocated", size, << >>)]
        /\ served' = Answer("error")
        /\ UNCHANGED live

(* Mutant: the remainder is nobody's. *)
ShardSizeEven(g, size) == size \div N

(* The last GPU gets the remainder. *)
ShardSize(g, size) ==
  IF g = N THEN size - (size \div N) * (N - 1) ELSE size \div N

Shards(k, size) == [g \in 1 .. k |-> Chunk(Block(g, ShardSize(g, size)), g)]

MayRefuse(g, size) == ~Room(g, size) \/ "alloc" \in Failures

(* One block per GPU.  On an error the blocks so far stay with the page.   *)
AllocateShards(name, size) ==
  /\ MayNotFit(size)
  /\ \E k \in 0 .. N :
       /\ \A g \in 1 .. k : Room(g, ShardSize(g, size))
       /\ k < N => MayRefuse(k + 1, ShardSize(k + 1, size))
       /\ live' = live \cup {Shards(k, size)[g].block : g \in 1 .. k}
       /\ pages' = [pages EXCEPT ![name] =
            Page(IF k = N THEN "Resident" ELSE "Allocated", size, Shards(k, size))]
       /\ served' = Answer(IF k = N THEN "ok" ELSE "error")

(* VugvaEngine::allocate *)
Allocate(name, made_up, size) ==
  /\ "names" \in Careful => pages[name] = NoPage
  /\ Named(name, made_up)
  /\ AllocateWhole(name, size) \/ AllocateShards(name, size)
  /\ UNCHANGED refused

-----------------------------------------------------------------------------
(* The places in the page's list that hold a chunk on this GPU. *)
PlacesOn(name, g) ==
  {i \in DOMAIN pages[name].chunks : pages[name].chunks[i].block.gpu = g}

Serve(name, g, chunk) ==
  served' = [result |-> "ok", block |-> {chunk.block},
             had |-> {pages[name].chunks[i].block : i \in PlacesOn(name, g)}]

(* Mutant: only the first chunk is looked at. *)
OwnFirst(name, g) ==
  /\ pages[name].state = "Resident"
  /\ pages[name].chunks[1].block.gpu = g

(* The page is resident and has a chunk on this GPU. *)
Own(name, g) ==
  /\ pages[name].state = "Resident"
  /\ PlacesOn(name, g) # {}

AccessOwn(name, g) ==
  /\ Own(name, g)
  /\ Serve(name, g, pages[name].chunks[Min(PlacesOn(name, g))])
  /\ UNCHANGED <<pages, live>>

(* Else the first chunk is taken, wherever it is. *)
AccessFirst(name, g) ==
  /\ ~Own(name, g)
  /\ pages[name].chunks # << >>
  /\ pages[name].chunks[1].block.gpu = g
  /\ Serve(name, g, pages[name].chunks[1])
  /\ UNCHANGED <<pages, live>>

(* Copied to a new block here; a copy the driver refuses loses the block.  *)
AccessCopy(name, g) ==
  /\ ~Own(name, g)
  /\ pages[name].chunks # << >>
  /\ pages[name].chunks[1].block.gpu # g
  /\ LET src == pages[name].chunks[1]
         dst == Chunk(Block(g, src.block.size), src.part)
     IN  /\ Room(g, src.block.size)
         /\ live' = live \cup {dst.block}
         /\ \/ /\ pages' = [pages EXCEPT ![name].chunks = Append(@, dst)]
               /\ Serve(name, g, dst)
            \/ /\ "copy" \in Failures
               /\ served' = Answer("error")
               /\ UNCHANGED pages

(* No such GPU, no such page, no chunk to copy, or no room for the copy. *)
AccessRefused(name, g) ==
  /\ \/ g \notin GPUs
     \/ pages[name].chunks = << >>
     \/ /\ ~Own(name, g)
        /\ pages[name].chunks # << >> /\ pages[name].chunks[1].block.gpu # g
        /\ MayRefuse(g, pages[name].chunks[1].block.size)
  /\ served' = Answer("error")
  /\ UNCHANGED <<pages, live>>

(* VugvaEngine::access; GPU 0 stands for an ordinal not in the cluster. *)
Access(name, g) ==
  /\ "failed" \in Careful => pages[name].state # "Allocated"
  /\ \/ AccessRefused(name, g)
     \/ g \in GPUs /\ (AccessOwn(name, g) \/ AccessFirst(name, g) \/ AccessCopy(name, g))
  /\ UNCHANGED <<next_id, refused>>

-----------------------------------------------------------------------------
(* Mutant: the first failure ends the loop. *)
FreedUntilError(chunks, bad) ==
  {chunks[i].block : i \in {i \in DOMAIN chunks : \A j \in 1 .. i : j \notin bad}}

(* The chunks that go: all but those the driver refuses. *)
Freed(chunks, bad) == {chunks[i].block : i \in DOMAIN chunks \ bad}

(* Mutant: the page stays in the table when something failed. *)
FreeKeepsPage(name) ==
  /\ pages[name] # NoPage
  /\ \E bad \in SUBSET DOMAIN pages[name].chunks :
       /\ bad # {} => "free" \in Failures
       /\ live' = live \ Freed(pages[name].chunks, bad)
       /\ refused' = refused \cup {pages[name].chunks[i].block : i \in bad}
       /\ pages' = IF bad = {} THEN [pages EXCEPT ![name] = NoPage] ELSE pages
       /\ served' = Answer(IF bad = {} THEN "ok" ELSE "error")
  /\ UNCHANGED next_id

(* VugvaEngine::free *)
Free(name) ==
  /\ pages[name] # NoPage
  /\ \E bad \in SUBSET DOMAIN pages[name].chunks :
       /\ bad # {} => "free" \in Failures
       /\ live' = live \ Freed(pages[name].chunks, bad)
       /\ refused' = refused \cup {pages[name].chunks[i].block : i \in bad}
       /\ pages' = [pages EXCEPT ![name] = NoPage]
       /\ served' = Answer(IF bad = {} THEN "ok" ELSE "error")
  /\ UNCHANGED next_id

FreeUnknown(name) ==
  /\ pages[name] = NoPage
  /\ served' = Answer("error")
  /\ UNCHANGED <<pages, next_id, live, refused>>

Next ==
  \/ \E name \in Names, made_up \in BOOLEAN, size \in Sizes : Allocate(name, made_up, size)
  \/ \E name \in Names, g \in 0 .. N : Access(name, g)
  \/ \E name \in Names : Free(name) \/ FreeUnknown(name)

Spec == Init /\ [][Next]_vars

-----------------------------------------------------------------------------
Places == UNION {{<<n, i>> : i \in DOMAIN pages[n].chunks} : n \in Names}
BlockAt(p) == pages[p[1]].chunks[p[2]].block
Owned == {BlockAt(p) : p \in Places}

(* Every chunk in the table is a block the driver has out, and no block is *)
(* in two places: nothing is freed twice, or used after it was freed       *)
(* (src/src/allocator.rs:356-372).                                         *)
ChunksAreLive ==
  /\ Owned \subseteq live
  /\ \A p, q \in Places : BlockAt(p) = BlockAt(q) => p = q

(* A block that no page knows any more is one whose free failed and was    *)
(* reported: every chunk of a freed page is tried, whatever failed before, *)
(* and a failed allocate leaves its blocks with the page for free to find  *)
(* (src/src/allocator.rs:354-373).                                         *)
LeaksAreReported == live \ Owned \subseteq refused

(* The chunks of a resident page make up the tensor: each is all of it, or *)
(* they are the shards of all GPUs, each on its own, nothing left out      *)
(* (src/src/allocator.rs:254-275).                                         *)
ResidentIsWhole ==
  \A n \in Names : pages[n].state = "Resident" =>
    LET cs == pages[n].chunks
    IN  \/ \A i \in DOMAIN cs : cs[i].part = Whole /\ cs[i].block.size = pages[n].size
        \/ /\ {cs[i].part : i \in DOMAIN cs} = GPUs /\ Len(cs) = N
           /\ \A i \in DOMAIN cs : cs[i].part = cs[i].block.gpu
           /\ SumFunction([i \in DOMAIN cs |-> cs[i].block.size]) = pages[n].size

(* access returns the chunk a page already has on the GPU, and makes no    *)
(* second one there (what src/src/allocator.rs:278-281 says).              *)
OwnChunkIsServed == served.had # {} => served.block \subseteq served.had
=============================================================================
