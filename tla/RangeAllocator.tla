--------------------------- MODULE RangeAllocator ---------------------------
(***************************************************************************)
(* The best-fit allocator of src/src/range_alloc.rs: a high-water mark     *)
(* (offset) that is bumped, and a list of returned ranges (free_blocks)    *)
(* that is searched first, coalesced on every free and retracted into the  *)
(* high-water mark when its top block reaches it.                          *)
(*                                                                         *)
(* free_blocks is kept here as a set of [off, len] records; the Vec the    *)
(* code keeps sorted by offset, with its index arithmetic, is modelled in  *)
(* DramPool (the second copy of this algorithm) and shown to refine this.  *)
(*                                                                         *)
(* held is what the callers know: the ranges they were given and have not  *)
(* freed.  The allocator never reads it.                                   *)
(***************************************************************************)
EXTENDS Integers, FiniteSetsExt

CONSTANTS
  Capacity,     \* bytes in the region
  ALIGN,        \* every length is rounded up to a multiple of it
  Requests      \* the sizes, in bytes, that callers ask for

ASSUME CapacityAssumption == Capacity \in Nat
ASSUME AlignAssumption == ALIGN \in Nat \ {0}
ASSUME RequestsAssumption == Requests \subseteq Nat

VARIABLES
  offset,       \* the high-water mark
  free_blocks,  \* returned ranges below the high-water mark
  held,         \* ranges the callers hold
  outcome       \* how the last call ended

vars == <<offset, free_blocks, held, outcome>>

Block == [off : Nat, len : Nat \ {0}]

Ranges(off, len) == [off |-> off, len |-> len]

(* RangeAllocator::align *)
Aligned(bytes) == ((bytes + ALIGN - 1) \div ALIGN) * ALIGN

Top(b) == b.off + b.len

(* The two ranges have a byte in common. *)
Overlap(r, s) == r.off < Top(s) /\ s.off < Top(r)

-----------------------------------------------------------------------------
(* RangeAllocator::new *)
Init ==
  /\ offset = 0
  /\ free_blocks = {}
  /\ held = {}
  /\ outcome = "idle"

(* The free blocks an allocation may land on: the shortest that fit, and   *)
(* of those the first of the list.                                         *)
Fitting(len) == {b \in free_blocks : b.len >= len}

BestFit(len) ==
  {b \in Fitting(len) : \A c \in Fitting(len) :
     b.len < c.len \/ (b.len = c.len /\ b.off <= c.off)}

(* A zero-byte request is answered with an offset but covers nothing. *)
Hold(off, len) ==
  held' = IF len = 0 THEN held ELSE held \cup {Ranges(off, len)}

(* Mutant: the split keeps the head it hands out. *)
AllocateReuseKeepsHead(len) ==
  /\ \E b \in BestFit(len) :
       /\ free_blocks' = (free_blocks \ {b}) \cup
            IF b.len = len THEN {} ELSE {Ranges(b.off, b.len - len)}
       /\ Hold(b.off, len)
  /\ outcome' = "ok"
  /\ UNCHANGED offset

(* An exact fit leaves the list; a longer block keeps its tail. *)
AllocateReuse(len) ==
  /\ \E b \in BestFit(len) :
       /\ free_blocks' = (free_blocks \ {b}) \cup
            IF b.len = len THEN {} ELSE {Ranges(b.off + len, b.len - len)}
       /\ Hold(b.off, len)
  /\ outcome' = "ok"
  /\ UNCHANGED offset

(* Mutant: the capacity is compared before the length is added. *)
AllocateBumpPast(len) ==
  /\ BestFit(len) = {}
  /\ offset <= Capacity
  /\ offset' = offset + len
  /\ Hold(offset, len)
  /\ outcome' = "ok"
  /\ UNCHANGED free_blocks

AllocateBump(len) ==
  /\ BestFit(len) = {}
  /\ offset + len <= Capacity
  /\ offset' = offset + len
  /\ Hold(offset, len)
  /\ outcome' = "ok"
  /\ UNCHANGED free_blocks

AllocateOom(len) ==
  /\ BestFit(len) = {}
  /\ offset + len > Capacity
  /\ outcome' = "oom"
  /\ UNCHANGED <<offset, free_blocks, held>>

(* RangeAllocator::allocate *)
Allocate(bytes) ==
  \/ AllocateReuse(Aligned(bytes))
  \/ AllocateBump(Aligned(bytes))
  \/ AllocateOom(Aligned(bytes))

-----------------------------------------------------------------------------
(* Mutant: a second free is not noticed. *)
DroppedInBounds(r) ==
  \/ r.len = 0
  \/ Top(r) > offset

(* What RangeAllocator::free drops: an empty range, one past the           *)
(* high-water mark, one that overlaps something already free.              *)
Dropped(r) ==
  \/ r.len = 0
  \/ Top(r) > offset
  \/ \E b \in free_blocks : Overlap(b, r)

(* The free blocks r coalesces with, on both sides. *)
Neighbours(r) == {b \in free_blocks : Top(b) = r.off \/ b.off = Top(r)}

(* Mutant: the left neighbour is removed but not merged. *)
MergedRight(r) ==
  LET right == {b \in free_blocks : b.off = Top(r)}
      hi    == IF right = {} THEN Top(r) ELSE Top(CHOOSE b \in right : TRUE)
  IN  Ranges(r.off, hi - r.off)

Merged(r) ==
  LET left  == {b \in free_blocks : Top(b) = r.off}
      right == {b \in free_blocks : b.off = Top(r)}
      lo    == IF left = {} THEN r.off ELSE (CHOOSE b \in left : TRUE).off
      hi    == IF right = {} THEN Top(r) ELSE Top(CHOOSE b \in right : TRUE)
  IN  Ranges(lo, hi - lo)

(* Mutant: no retraction of the mark. *)
FreeRangeParked(r) ==
  \/ /\ Dropped(r)
     /\ UNCHANGED <<offset, free_blocks>>
  \/ /\ ~Dropped(r)
     /\ free_blocks' = (free_blocks \ Neighbours(r)) \cup {Merged(r)}
     /\ UNCHANGED offset

(* RangeAllocator::free: coalesce, then park the block or retract the mark. *)
FreeRange(r) ==
  \/ /\ Dropped(r)
     /\ UNCHANGED <<offset, free_blocks>>
  \/ /\ ~Dropped(r)
     /\ Top(Merged(r)) = offset
     /\ offset' = Merged(r).off
     /\ free_blocks' = free_blocks \ Neighbours(r)
  \/ /\ ~Dropped(r)
     /\ Top(Merged(r)) # offset
     /\ free_blocks' = (free_blocks \ Neighbours(r)) \cup {Merged(r)}
     /\ UNCHANGED offset

(* A caller gives back a range it holds. *)
Free(r) ==
  /\ FreeRange(r)
  /\ held' = held \ {r}
  /\ outcome' = "idle"

(* Every byte of the range is held by some caller. *)
InUse(r) == \A x \in r.off .. Top(r) - 1 : \E s \in held : s.off <= x /\ x < Top(s)

(* A caller frees a range that is not wholly in use: a second free, a      *)
(* range with a freed part, one that was never handed out, an empty one.   *)
FreeAgain(off, bytes) ==
  /\ Aligned(bytes) = 0 \/ ~InUse(Ranges(off, Aligned(bytes)))
  /\ FreeRange(Ranges(off, Aligned(bytes)))
  /\ outcome' = "idle"
  /\ UNCHANGED held

-----------------------------------------------------------------------------
Next ==
  \/ \E bytes \in Requests : Allocate(bytes)
  \/ \E r \in held : Free(r)
  \/ \E off \in 0 .. Capacity, bytes \in Requests : FreeAgain(off, bytes)

Spec == Init /\ [][Next]_vars

-----------------------------------------------------------------------------
(* The variables keep their types, and the mark stays in the region        *)
(* (RangeAllocator, src/src/range_alloc.rs:21-31).                         *)
TypeOK ==
  /\ offset \in 0 .. Capacity
  /\ free_blocks \subseteq Block
  /\ held \subseteq Block
  /\ outcome \in {"idle", "ok", "oom"}

(* No two holders share a byte, and nothing on the free list is held: the  *)
(* corruption free() says it drops odd ranges to avoid                     *)
(* (src/src/range_alloc.rs:116-119).                                       *)
NoAliasing ==
  /\ \A r, s \in held : r # s => ~Overlap(r, s)
  /\ \A r \in held, b \in free_blocks : ~Overlap(r, b)
  /\ \A b, c \in free_blocks : b # c => ~Overlap(b, c)
  /\ \A r \in held \cup free_blocks : Top(r) <= offset

(* The free list is tight: every byte below the mark is held or free, no   *)
(* two free blocks touch, and none touches the mark.  What free() coalesces *)
(* and retracts for (src/src/range_alloc.rs:107-114).                      *)
Tight ==
  /\ \A x \in 0 .. offset - 1 :
       \E r \in held \cup free_blocks : r.off <= x /\ x < Top(r)
  /\ \A b, c \in free_blocks : Top(b) # c.off
  /\ \A b \in free_blocks : Top(b) # offset

(* Once everything was given back the region is whole again, whatever the  *)
(* order of the calls was: a working-set budget, not a lifetime one        *)
(* (src/src/range_alloc.rs:5-8, 109-113).                                  *)
WholeWhenEmpty == held = {} => offset = 0 /\ free_blocks = {}

(* [lo, lo + len) is in the region and reaches into no held range. *)
Hole(lo, len) ==
  /\ lo + len <= Capacity
  /\ \A r \in held : ~Overlap(r, Ranges(lo, len))

Refused(len) == BestFit(len) = {} /\ offset + len > Capacity

(* A request is refused only when no hole of its length is left anywhere   *)
(* in the region: coalescing never leaves a usable hole in two pieces      *)
(* (src/src/range_alloc.rs:64-105 with 135-161).                           *)
RefusalIsHonest ==
  \A bytes \in Requests : Refused(Aligned(bytes)) =>
    \A lo \in 0 .. Capacity : ~Hole(lo, Aligned(bytes))

(* The allocator implements the promise of a Region. *)
Promise == INSTANCE Region WITH Lengths <- {Aligned(b) : b \in Requests}
RegionSpec == Promise!Spec
=============================================================================
