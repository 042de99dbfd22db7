------------------------------ MODULE DramPool ------------------------------
(***************************************************************************)
(* The NUMA-local DRAM pool of src/src/tiered.rs: the same best-fit        *)
(* algorithm as src/src/range_alloc.rs, written a second time over host    *)
(* pointers.  This module keeps what RangeAllocator abstracts: the Vec     *)
(* sorted by offset, searched by binary search and edited by index, and    *)
(* the pointers, of which another pool's may be passed to free by mistake. *)
(***************************************************************************)
EXTENDS Integers, SequencesExt

CONSTANTS
  base_ptr,     \* the host address of the mapping
  Capacity,     \* bytes in the mapping
  ALIGN,        \* 64 in the code
  Requests      \* the sizes, in bytes, that callers ask for

ASSUME PoolAssumption ==
  /\ base_ptr \in Nat
  /\ Capacity \in Nat
  /\ ALIGN \in Nat \ {0}
  /\ Requests \subseteq Nat

VARIABLES
  offset,       \* the high-water mark
  free_blocks,  \* the Vec of <<off, len>> returned ranges
  held,         \* [ptr, len] of the callers
  outcome       \* how the last call ended

vars == <<offset, free_blocks, held, outcome>>

Off(b) == b[1]
Len_(b) == b[2]
End(b) == b[1] + b[2]

(* DramPool::align *)
Aligned(bytes) == ((bytes + ALIGN - 1) \div ALIGN) * ALIGN

Init ==
  /\ offset = 0
  /\ free_blocks = << >>
  /\ held = {}
  /\ outcome = "idle"

-----------------------------------------------------------------------------
(* The scan of the list: it keeps the first shortest block that fits.      *)
Best(len) ==
  LET fits == {i \in DOMAIN free_blocks : Len_(free_blocks[i]) >= len}
  IN  {i \in fits : \A j \in fits :
         \/ Len_(free_blocks[i]) < Len_(free_blocks[j])
         \/ Len_(free_blocks[i]) = Len_(free_blocks[j]) /\ i <= j}

Hold(ptr, len) ==
  held' = IF len = 0 THEN held ELSE held \cup {[ptr |-> ptr, len |-> len]}

AllocateReuse(len) ==
  /\ \E i \in Best(len) :
       LET b == free_blocks[i]
       IN  /\ free_blocks' = IF Len_(b) = len
                             THEN RemoveAt(free_blocks, i)
                             ELSE ReplaceAt(free_blocks, i,
                                            <<Off(b) + len, Len_(b) - len>>)
           /\ Hold(base_ptr + Off(b), len)
  /\ outcome' = "ok"
  /\ UNCHANGED offset

AllocateBump(len) ==
  /\ Best(len) = {}
  /\ offset + len <= Capacity
  /\ offset' = offset + len
  /\ Hold(base_ptr + offset, len)
  /\ outcome' = "ok"
  /\ UNCHANGED free_blocks

AllocateOom(len) ==
  /\ Best(len) = {}
  /\ offset + len > Capacity
  /\ outcome' = "oom"
  /\ UNCHANGED <<offset, free_blocks, held>>

Allocate(bytes) ==
  \/ AllocateReuse(Aligned(bytes))
  \/ AllocateBump(Aligned(bytes))
  \/ AllocateOom(Aligned(bytes))

-----------------------------------------------------------------------------
(* partition_point: how many blocks of the sorted list begin before off.   *)
Position(off) == Cardinality({i \in DOMAIN free_blocks : Off(free_blocks[i]) < off})

(* Mutant: a pointer of another pool is not noticed. *)
IgnoredAnyPool(ptr, len) ==
  LET off == ptr - base_ptr
      pos == Position(off)
  IN  \/ len = 0 \/ off + len > offset
      \/ pos < Len(free_blocks) /\ off + len > Off(free_blocks[pos + 1])
      \/ pos > 0 /\ End(free_blocks[pos]) > off

(* The early returns of DramPool::free, in its order: a pointer of another *)
(* pool, an empty range or one past the mark, an overlap with the block    *)
(* after it or with the block before it.                                   *)
Ignored(ptr, len) ==
  LET off == ptr - base_ptr
      pos == Position(off)
  IN  \/ ptr < base_ptr \/ ptr >= base_ptr + Capacity
      \/ len = 0 \/ off + len > offset
      \/ pos < Len(free_blocks) /\ off + len > Off(free_blocks[pos + 1])
      \/ pos > 0 /\ End(free_blocks[pos]) > off

(* Mutant: a block absorbs the next one only if that is the last. *)
CoalesceAtEnd(list, i) ==
  IF i >= 1 /\ i + 1 = Len(list) /\ End(list[i]) = Off(list[i + 1])
  THEN RemoveAt(ReplaceAt(list, i, <<Off(list[i]), Len_(list[i]) + Len_(list[i + 1])>>),
                i + 1)
  ELSE list

(* The block at index i absorbs the one after it when they touch. *)
CoalesceAt(list, i) ==
  IF i >= 1 /\ i < Len(list) /\ End(list[i]) = Off(list[i + 1])
  THEN RemoveAt(ReplaceAt(list, i, <<Off(list[i]), Len_(list[i]) + Len_(list[i + 1])>>),
                i + 1)
  ELSE list

(* Insert, coalesce right, coalesce left; the second component is the      *)
(* index the block ended at.                                               *)
Inserted(off, len) ==
  LET pos   == Position(off)
      put   == InsertAt(free_blocks, pos + 1, <<off, len>>)
      right == CoalesceAt(put, pos + 1)
      both  == CoalesceAt(right, pos)
  IN  <<both, IF Len(both) < Len(right) THEN pos ELSE pos + 1>>

(* DramPool::free with its retraction of the high-water mark. *)
FreePtr(ptr, len) ==
  \/ /\ Ignored(ptr, len)
     /\ UNCHANGED <<offset, free_blocks>>
  \/ /\ ~Ignored(ptr, len)
     /\ LET ins == Inserted(ptr - base_ptr, len)
            top == ins[1][ins[2]]
        IN  IF End(top) = offset
            THEN /\ offset' = Off(top)
                 /\ free_blocks' = RemoveAt(ins[1], ins[2])
            ELSE /\ free_blocks' = ins[1]
                 /\ UNCHANGED offset

Free(r) ==
  /\ FreePtr(r.ptr, r.len)
  /\ held' = held \ {r}
  /\ outcome' = "idle"

InUse(ptr, len) ==
  \A x \in ptr .. ptr + len - 1 : \E r \in held : r.ptr <= x /\ x < r.ptr + r.len

(* A free of what is not wholly in use, or of another pool's pointer: a    *)
(* mapping may lie right below or right above this one.                    *)
FreeStray(ptr, bytes) ==
  /\ Aligned(bytes) = 0 \/ ~InUse(ptr, Aligned(bytes))
  /\ FreePtr(ptr, Aligned(bytes))
  /\ outcome' = "idle"
  /\ UNCHANGED held

Pointers == 0 .. base_ptr + Capacity + ALIGN

Next ==
  \/ \E bytes \in Requests : Allocate(bytes)
  \/ \E r \in held : Free(r)
  \/ \E ptr \in Pointers, bytes \in Requests : FreeStray(ptr, bytes)

Spec == Init /\ [][Next]_vars

-----------------------------------------------------------------------------
(* The list stays sorted and coalesced through every edit by index, which  *)
(* the binary search of free() relies on (src/src/tiered.rs:115-117).      *)
SortedAndCoalesced ==
  \A i \in 1 .. Len(free_blocks) - 1 : End(free_blocks[i]) < Off(free_blocks[i + 1])

(* The copy of the algorithm in the pool does exactly what RangeAllocator  *)
(* does, seen from the pool's base.                                        *)
Ranges == INSTANCE RangeAllocator WITH
  free_blocks <- {[off |-> Off(b), len |-> Len_(b)] : b \in ToSet(free_blocks)},
  held        <- {[off |-> r.ptr - base_ptr, len |-> r.len] : r \in held}
RangeAllocatorSpec == Ranges!Spec
=============================================================================
