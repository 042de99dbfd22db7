-------------------------- MODULE SpillFileProofs --------------------------
(***************************************************************************)
(* Proofs about SpillFile and about RangeAllocator, which it extends and   *)
(* whose Spec the first part is about: for every capacity, alignment and   *)
(* set of sizes and contents.  The theorems about the files assume that no *)
(* spill file is replaced while it holds pages.                            *)
(***************************************************************************)
EXTENDS SpillFile, WellFoundedInduction, TLAPS

(***************************************************************************)
(* RangeAllocator.                                                         *)
(***************************************************************************)
(* Rounding a size up gives a length. *)
LEMMA AlignedIsNat ==
  ASSUME NEW bytes \in Nat
  PROVE  Aligned(bytes) \in Nat
  <1>1. bytes + ALIGN - 1 \in Nat
    BY AlignAssumption
  <1>2. (bytes + ALIGN - 1) \div ALIGN \in Nat
    BY <1>1, AlignAssumption
  <1>3. QED
    BY <1>2, AlignAssumption DEF Aligned

(* The inductive invariant: two conjuncts of it speak of bytes that are    *)
(* covered, one of bytes that are not covered twice; each needs the others *)
(* to be preserved by a free that coalesces.                               *)
IndInv == TypeOK /\ NoAliasing /\ Tight

(***************************************************************************)
(* Allocation                                                              *)
(***************************************************************************)

(* A free block an allocation lands on is on the list and long enough.     *)
LEMMA BestFitIsFree ==
  ASSUME NEW len, NEW b \in BestFit(len)
  PROVE  b \in free_blocks /\ b.len >= len
  BY DEF BestFit, Fitting

(* A non-empty set of naturals has a least element.                        *)
LEMMA LeastElement ==
  ASSUME NEW S, S \subseteq Nat, S # {}
  PROVE  \E x \in S : \A y \in S : x <= y
  <1>1. PICK x \in S : \A y \in S : ~(<<y, x>> \in OpToRel(<, Nat))
    BY NatLessThanWellFounded, WFMin
  <1>2. \A y \in S : <<y, x>> \in Nat \X Nat
    OBVIOUS
  <1>3. \A y \in S : ~(y < x)
    BY <1>1, <1>2 DEF OpToRel
  <1>4. QED
    BY <1>3

(* When no block is the best fit, no block fits: among the blocks that fit *)
(* one has the least length and, of those, one the least offset.           *)
LEMMA NoBestFit ==
  ASSUME TypeOK, NEW len \in Nat, BestFit(len) = {}
  PROVE  \A b \in free_blocks : b.len < len
  <1> SUFFICES ASSUME Fitting(len) # {}
               PROVE  FALSE
    BY DEF Fitting, TypeOK, Block
  <1> DEFINE F    == Fitting(len)
             Lens == {b.len : b \in F}
  <1>1. F \subseteq Block
    BY DEF Fitting, TypeOK
  <1>2. PICK l \in Lens : \A k \in Lens : l <= k
    <2>1. Lens \subseteq Nat /\ Lens # {}
      BY <1>1 DEF Block
    <2>2. QED
      BY <2>1, LeastElement
  <1> DEFINE Offs == {b.off : b \in {c \in F : c.len = l}}
  <1>3. PICK o \in Offs : \A k \in Offs : o <= k
    <2>1. Offs \subseteq Nat /\ Offs # {}
      BY <1>1, <1>2 DEF Block
    <2>2. QED
      BY <2>1, LeastElement
  <1>4. PICK b \in F : b.len = l /\ b.off = o
    BY <1>3
  <1>5. \A c \in F : b.len < c.len \/ (b.len = c.len /\ b.off <= c.off)
    <2> SUFFICES ASSUME NEW c \in F
                 PROVE  b.len < c.len \/ (b.len = c.len /\ b.off <= c.off)
      OBVIOUS
    <2>1. b.len \in Nat /\ c.len \in Nat /\ b.off \in Nat /\ c.off \in Nat
      BY <1>1, <1>4 DEF Block
    <2>2. l <= c.len
      BY <1>2
    <2>3. c.len = l => o <= c.off
      BY <1>3
    <2>4. QED
      BY <1>4, <2>1, <2>2, <2>3
  <1>6. b \in BestFit(len)
    BY <1>4, <1>5 DEF BestFit, Fitting
  <1>7. QED
    BY <1>6

(* Carving a request out of a free block keeps the invariant.              *)
LEMMA ReuseStep ==
  ASSUME IndInv, NEW len \in Nat, AllocateReuse(len)
  PROVE  IndInv'
  <1> USE DEF IndInv, Ranges, Top, Block
  <1>1. PICK b \in BestFit(len) :
          /\ free_blocks' = (free_blocks \ {b}) \cup
               IF b.len = len THEN {} ELSE {Ranges(b.off + len, b.len - len)}
          /\ Hold(b.off, len)
    BY DEF AllocateReuse
  <1>2. /\ b \in free_blocks
        /\ b \in Block
        /\ b.len >= len
        /\ outcome' = "ok"
        /\ offset' = offset
    BY BestFitIsFree DEF AllocateReuse, TypeOK
  <1>3. CASE len = 0
    <2>1. held' = held
      BY <1>1, <1>3 DEF Hold
    <2>2. Ranges(b.off + len, b.len - len) = b
      BY <1>2, <1>3
    <2>3. free_blocks' = free_blocks
      BY <1>1, <1>2, <1>3, <2>2
    <2>4. QED
      BY <1>2, <2>1, <2>3 DEF TypeOK, NoAliasing, Tight, Overlap
  <1>4. CASE len > 0
    <2> DEFINE got  == Ranges(b.off, len)
               tail == Ranges(b.off + len, b.len - len)
    <2>1. held' = held \cup {got}
      BY <1>1, <1>4 DEF Hold
    <2>2. got \in Block /\ got.off = b.off /\ got.len = len
      BY <1>2, <1>4
    <2>3. CASE b.len = len
      <3>1. free_blocks' = free_blocks \ {b}
        BY <1>1, <2>3
      <3>2. got = b
        BY <1>2, <2>3
      <3>3. TypeOK'
        BY <1>2, <2>1, <2>2, <3>1 DEF TypeOK
      <3>4. NoAliasing'
        BY <1>2, <2>1, <3>1, <3>2 DEF TypeOK, NoAliasing, Overlap
      <3>5. Tight'
        BY <1>2, <2>1, <3>1, <3>2 DEF TypeOK, Tight
      <3>6. QED
        BY <3>3, <3>4, <3>5
    <2>4. CASE b.len > len
      <3>1. free_blocks' = (free_blocks \ {b}) \cup {tail}
        BY <1>1, <1>2, <2>4
      <3>2. /\ tail \in Block
            /\ tail.off = b.off + len
            /\ tail.len = b.len - len
            /\ tail.off + tail.len = b.off + b.len
        BY <1>2, <2>4
      <3> HIDE DEF got, tail
      <3>3. TypeOK'
        BY <1>2, <2>1, <2>2, <3>1, <3>2 DEF TypeOK
      <3>4. NoAliasing'
        BY <1>2, <1>4, <2>1, <2>2, <3>1, <3>2, <2>4
        DEF TypeOK, NoAliasing, Overlap
      <3>5. Tight'
        <4>1. ASSUME NEW x \in 0 .. offset - 1
              PROVE  \E s \in held' \cup free_blocks' :
                       s.off <= x /\ x < s.off + s.len
          <5>1. PICK s \in held \cup free_blocks :
                  s.off <= x /\ x < s.off + s.len
            BY DEF Tight
          <5>2. CASE s = b
            BY <5>1, <5>2, <1>2, <2>1, <2>2, <3>1, <3>2 DEF TypeOK
          <5>3. CASE s # b
            BY <5>1, <5>3, <2>1, <3>1
          <5>4. QED
            BY <5>2, <5>3
        <4>2. \A c, d \in free_blocks' : c.off + c.len # d.off
          BY <1>2, <1>4, <3>1, <3>2 DEF TypeOK, NoAliasing, Overlap, Tight
        <4>3. \A c \in free_blocks' : c.off + c.len # offset
          BY <1>2, <3>1, <3>2 DEF TypeOK, Tight
        <4>4. QED
          BY <1>2, <4>1, <4>2, <4>3 DEF Tight
      <3>6. QED
        BY <3>3, <3>4, <3>5
    <2>5. QED
      BY <1>2, <2>3, <2>4
  <1>5. QED
    BY <1>3, <1>4

(* Bumping the mark keeps the invariant.                                   *)
LEMMA BumpStep ==
  ASSUME IndInv, NEW len \in Nat, AllocateBump(len)
  PROVE  IndInv'
  <1> USE DEF IndInv, Ranges, Top, Block
  <1>1. /\ offset + len <= Capacity
        /\ offset' = offset + len
        /\ free_blocks' = free_blocks
        /\ outcome' = "ok"
    BY DEF AllocateBump
  <1>2. CASE len = 0
    <2>1. held' = held /\ offset' = offset
      BY <1>1, <1>2 DEF AllocateBump, Hold, TypeOK
    <2>2. QED
      BY <1>1, <2>1 DEF TypeOK, NoAliasing, Tight, Overlap
  <1>3. CASE len > 0
    <2> DEFINE got == Ranges(offset, len)
    <2>1. held' = held \cup {got}
      BY <1>3 DEF AllocateBump, Hold
    <2>2. got \in Block /\ got.off = offset /\ got.len = len
      BY <1>3 DEF TypeOK
    <2> HIDE DEF got
    <2>3. TypeOK'
      BY <1>1, <2>1, <2>2, CapacityAssumption DEF TypeOK
    <2>4. NoAliasing'
      BY <1>1, <2>1, <2>2 DEF TypeOK, NoAliasing, Overlap
    <2>5. Tight'
      <3>1. ASSUME NEW x \in 0 .. offset' - 1
            PROVE  \E s \in held' \cup free_blocks' :
                     s.off <= x /\ x < s.off + s.len
        <4>1. CASE x < offset
          BY <1>1, <2>1, <4>1 DEF TypeOK, Tight
        <4>2. CASE x >= offset
          BY <1>1, <2>1, <2>2, <4>2 DEF TypeOK
        <4>3. QED
          BY <4>1, <4>2 DEF TypeOK
      <3>2. \A c \in free_blocks : c.off + c.len # offset'
        BY <1>1, <1>3 DEF TypeOK, NoAliasing
      <3>3. QED
        BY <1>1, <3>1, <3>2 DEF Tight
    <2>6. QED
      BY <2>3, <2>4, <2>5
  <1>4. QED
    BY <1>2, <1>3

(***************************************************************************)
(* Freeing                                                                 *)
(***************************************************************************)

(* A held range is never one of those free() drops.                        *)
LEMMA HeldIsNotDropped ==
  ASSUME IndInv, NEW r \in held
  PROVE  ~Dropped(r)
  BY DEF IndInv, TypeOK, NoAliasing, Dropped, Overlap, Top, Block

(* Coalescing: the merged block covers exactly the bytes of the range and  *)
(* of its neighbours, lies below the mark, shares no byte with what stays  *)
(* and touches no block that stays.                                        *)
LEMMA MergedBlock ==
  ASSUME IndInv, NEW r \in held
  PROVE  /\ Merged(r) \in Block
         /\ Top(Merged(r)) <= offset
         /\ Merged(r).off <= r.off /\ Top(r) <= Top(Merged(r))
         /\ \A b \in Neighbours(r) :
              Merged(r).off <= b.off /\ Top(b) <= Top(Merged(r))
         /\ \A s \in (held \ {r}) \cup (free_blocks \ Neighbours(r)) :
              ~Overlap(s, Merged(r))
         /\ \A b \in free_blocks \ Neighbours(r) :
              Top(b) # Merged(r).off /\ Top(Merged(r)) # b.off
  <1> USE DEF Top
  <1> DEFINE left  == {b \in free_blocks : Top(b) = r.off}
             right == {b \in free_blocks : b.off = Top(r)}
             lb    == CHOOSE b \in left : TRUE
             rb    == CHOOSE b \in right : TRUE
             lo    == IF left = {} THEN r.off ELSE lb.off
             hi    == IF right = {} THEN Top(r) ELSE Top(rb)
  <1>1. /\ r \in Block /\ r.off \in Nat /\ r.len \in Nat /\ r.len > 0
        /\ offset \in Nat
        /\ Top(r) <= offset
        /\ \A b \in free_blocks : b.off \in Nat /\ b.len \in Nat /\ b.len > 0
        /\ \A b \in held : b.off \in Nat /\ b.len \in Nat /\ b.len > 0
    BY CapacityAssumption DEF IndInv, TypeOK, NoAliasing, Block
  <1>2. left # {} => lb \in free_blocks /\ Top(lb) = r.off
    OBVIOUS
  <1>3. right # {} => rb \in free_blocks /\ rb.off = Top(r)
    OBVIOUS
  <1>4. /\ lo \in Nat /\ hi \in Nat
        /\ lo <= r.off /\ Top(r) <= hi /\ hi <= offset
        /\ left = {} => lo = r.off
        /\ left # {} => lo = lb.off
        /\ right = {} => hi = Top(r)
        /\ right # {} => hi = Top(rb)
    BY <1>1, <1>2, <1>3 DEF IndInv, NoAliasing
  <1>5. Merged(r) = Ranges(lo, hi - lo)
    BY DEF Merged
  <1> HIDE DEF lo, hi
  <1>6. /\ Merged(r) \in Block
        /\ Merged(r).off = lo
        /\ Top(Merged(r)) = hi
    BY <1>1, <1>4, <1>5 DEF Ranges, Block
  <1>7. \A b \in left : b = lb
    BY <1>1, <1>2 DEF IndInv, NoAliasing, Overlap
  <1>8. \A b \in right : b = rb
    BY <1>1, <1>3 DEF IndInv, NoAliasing, Overlap
  <1>9. Neighbours(r) = left \cup right
    BY DEF Neighbours
  <1>10. \A b \in free_blocks : b \notin Neighbours(r) =>
           Top(b) # r.off /\ b.off # Top(r)
    BY <1>9
  <1> HIDE DEF left, right, lb, rb
  <1>11. \A b \in Neighbours(r) : lo <= b.off /\ Top(b) <= hi
    <2>1. ASSUME NEW b \in left
          PROVE  lo <= b.off /\ Top(b) <= hi
      BY <1>1, <1>2, <1>4, <1>7 DEF left
    <2>2. ASSUME NEW b \in right
          PROVE  lo <= b.off /\ Top(b) <= hi
      BY <1>1, <1>3, <1>4, <1>8 DEF right
    <2>3. QED
      BY <1>9, <2>1, <2>2
  <1>12. \A s \in (held \ {r}) \cup (free_blocks \ Neighbours(r)) :
           ~Overlap(s, Merged(r))
    <2> SUFFICES ASSUME NEW s \in (held \ {r}) \cup (free_blocks \ Neighbours(r))
                 PROVE  hi <= s.off \/ Top(s) <= lo
      BY <1>1, <1>4, <1>6 DEF Overlap
    <2>1. s.off \in Nat /\ s.len \in Nat /\ s.len > 0
      BY <1>1
    <2>2. Top(s) <= r.off \/ Top(r) <= s.off
      BY <1>1, <2>1 DEF IndInv, NoAliasing, Overlap
    <2>3. left # {} => Top(s) <= lb.off \/ r.off <= s.off
      BY <1>1, <1>2, <1>9, <2>1 DEF IndInv, NoAliasing, Overlap, left
    <2>4. right # {} => Top(rb) <= s.off \/ Top(s) <= Top(r)
      BY <1>1, <1>3, <1>9, <2>1 DEF IndInv, NoAliasing, Overlap, right
    <2>5. Top(s) <= r.off => Top(s) <= lo
      BY <1>1, <1>4, <2>1, <2>3
    <2>6. Top(r) <= s.off => hi <= s.off
      BY <1>1, <1>4, <2>1, <2>4
    <2>7. QED
      BY <2>2, <2>5, <2>6
  <1>13. \A b \in free_blocks \ Neighbours(r) : Top(b) # lo /\ hi # b.off
    BY <1>1, <1>2, <1>3, <1>4, <1>10 DEF IndInv, Tight
  <1>14. QED
    BY <1>4, <1>6, <1>11, <1>12, <1>13

(* A caller's own free keeps the invariant.                                *)
LEMMA FreeStep ==
  ASSUME IndInv, NEW r \in held, Free(r)
  PROVE  IndInv'
  <1> DEFINE m    == Merged(r)
             kept == free_blocks \ Neighbours(r)
  <1>1. /\ held' = held \ {r}
        /\ outcome' = "idle"
        /\ \/ /\ Top(m) = offset
              /\ offset' = m.off
              /\ free_blocks' = kept
           \/ /\ Top(m) # offset
              /\ free_blocks' = kept \cup {m}
              /\ offset' = offset
    BY HeldIsNotDropped DEF Free, FreeRange
  <1>2. /\ m \in Block
        /\ Top(m) <= offset
        /\ m.off <= r.off /\ Top(r) <= Top(m)
        /\ \A b \in Neighbours(r) : m.off <= b.off /\ Top(b) <= Top(m)
        /\ \A s \in (held \ {r}) \cup kept : ~Overlap(s, m)
        /\ \A b \in kept : Top(b) # m.off /\ Top(m) # b.off
    BY MergedBlock
  <1> HIDE DEF m
  <1>3. /\ m.off \in Nat /\ m.len \in Nat /\ m.len > 0
        /\ offset \in Nat /\ offset <= Capacity
        /\ held \subseteq Block /\ free_blocks \subseteq Block
        /\ \A s \in held \cup free_blocks : s.off \in Nat /\ s.len \in Nat /\ s.len > 0
    BY <1>2, CapacityAssumption DEF IndInv, TypeOK, Block
  <1>4. \A x \in 0 .. offset - 1 :
          \/ m.off <= x /\ x < Top(m)
          \/ \E s \in (held \ {r}) \cup kept : s.off <= x /\ x < Top(s)
    <2> SUFFICES ASSUME NEW x \in 0 .. offset - 1,
                        ~(m.off <= x /\ x < Top(m))
                 PROVE  \E s \in (held \ {r}) \cup kept : s.off <= x /\ x < Top(s)
      OBVIOUS
    <2>1. PICK s \in held \cup free_blocks : s.off <= x /\ x < Top(s)
      BY DEF IndInv, Tight
    <2>2. s # r /\ s \notin Neighbours(r)
      BY <1>2, <1>3, <2>1 DEF Top
    <2>3. QED
      BY <2>1, <2>2
  <1>5. TypeOK'
    <2>1. held' \subseteq Block /\ kept \subseteq Block /\ outcome' = "idle"
      BY <1>1, <1>3
    <2>2. free_blocks' \subseteq Block
      BY <1>1, <1>2, <2>1
    <2>3. m.off <= Capacity
      BY <1>2, <1>3, CapacityAssumption DEF Top
    <2>4. offset' \in 0 .. Capacity
      BY <1>1, <1>3, <2>3, CapacityAssumption
    <2>5. QED
      BY <2>1, <2>2, <2>4 DEF TypeOK
  <1>6. CASE Top(m) = offset /\ offset' = m.off /\ free_blocks' = kept
    <2>1. \A s \in (held \ {r}) \cup kept : Top(s) <= m.off
      BY <1>2, <1>3, <1>6 DEF IndInv, NoAliasing, Overlap, Top
    <2>2. NoAliasing'
      BY <1>1, <1>6, <2>1 DEF IndInv, NoAliasing, Overlap, Top
    <2>3. \A x \in 0 .. m.off - 1 :
            \E s \in held' \cup free_blocks' : s.off <= x /\ x < Top(s)
      BY <1>1, <1>3, <1>4, <1>6 DEF Top
    <2>4. Tight'
      BY <1>2, <1>6, <2>3 DEF IndInv, Tight, Top
    <2>5. QED
      BY <1>5, <2>2, <2>4 DEF IndInv
  <1>7. CASE Top(m) # offset /\ free_blocks' = kept \cup {m} /\ offset' = offset
    <2>1. NoAliasing'
      BY <1>1, <1>2, <1>3, <1>7 DEF IndInv, NoAliasing, Overlap, Top
    <2>2. \A x \in 0 .. offset - 1 :
            \E s \in held' \cup free_blocks' : s.off <= x /\ x < Top(s)
      BY <1>1, <1>4, <1>7
    <2>3. \A b, c \in free_blocks' : Top(b) # c.off
      BY <1>2, <1>3, <1>7 DEF IndInv, Tight, Top
    <2>4. \A b \in free_blocks' : Top(b) # offset
      BY <1>7 DEF IndInv, Tight
    <2>5. Tight'
      BY <1>7, <2>2, <2>3, <2>4 DEF Tight, Top
    <2>6. QED
      BY <1>5, <2>1, <2>5 DEF IndInv
  <1>8. QED
    BY <1>1, <1>6, <1>7

(* Freeing what is not wholly in use leaves the allocator as it was: a     *)
(* byte nobody holds is above the mark or in a free block.                 *)
LEMMA FreeAgainStep ==
  ASSUME IndInv, NEW off \in Nat, NEW bytes \in Requests, FreeAgain(off, bytes)
  PROVE  UNCHANGED <<offset, free_blocks, held>> /\ outcome' = "idle"
  <1> DEFINE r == Ranges(off, Aligned(bytes))
  <1>1. /\ Aligned(bytes) \in Nat
        /\ r.off = off /\ r.len = Aligned(bytes)
    BY AlignedIsNat, RequestsAssumption DEF Ranges
  <1>2. /\ r.len = 0 \/ ~InUse(r)
        /\ FreeRange(r)
        /\ outcome' = "idle" /\ held' = held
    BY DEF FreeAgain, Ranges
  <1> HIDE DEF r
  <1>3. Dropped(r)
    <2>1. CASE r.len = 0
      BY <2>1 DEF Dropped
    <2>2. CASE ~InUse(r)
      <3>1. PICK x \in r.off .. Top(r) - 1 :
              ~ \E s \in held : s.off <= x /\ x < Top(s)
        BY <2>2 DEF InUse
      <3>2. x \in Nat /\ r.off <= x /\ x < Top(r)
        BY <1>1, <3>1 DEF Top
      <3>3. CASE x >= offset
        BY <1>1, <3>2, <3>3, CapacityAssumption DEF Dropped, Top, IndInv, TypeOK
      <3>4. CASE x < offset
        <4>1. PICK b \in free_blocks : b.off <= x /\ x < Top(b)
          BY <3>1, <3>2, <3>4, CapacityAssumption DEF IndInv, TypeOK, Tight
        <4>2. Overlap(b, r)
          BY <1>1, <3>2, <4>1 DEF Overlap, Top, IndInv, TypeOK, Block
        <4>3. QED
          BY <4>2 DEF Dropped
      <3>5. QED
        BY <3>2, <3>3, <3>4, CapacityAssumption DEF IndInv, TypeOK
    <2>3. QED
      BY <1>2, <2>1, <2>2
  <1>4. QED
    BY <1>2, <1>3 DEF FreeRange

-----------------------------------------------------------------------------
(* The invariant is inductive.                                             *)
LEMMA InitInv == Init => IndInv
  BY CapacityAssumption DEF Init, IndInv, TypeOK, NoAliasing, Tight

LEMMA NextInv == IndInv /\ [Next]_vars => IndInv'
  <1> SUFFICES ASSUME IndInv, [Next]_vars
               PROVE  IndInv'
    OBVIOUS
  <1>1. ASSUME NEW bytes \in Requests, Allocate(bytes)
        PROVE  IndInv'
    <2>1. Aligned(bytes) \in Nat
      BY AlignedIsNat, RequestsAssumption
    <2>2. CASE AllocateReuse(Aligned(bytes))
      BY <2>1, <2>2, ReuseStep
    <2>3. CASE AllocateBump(Aligned(bytes))
      BY <2>1, <2>3, BumpStep
    <2>4. CASE AllocateOom(Aligned(bytes))
      BY <2>4 DEF AllocateOom, IndInv, TypeOK, NoAliasing, Tight
    <2>5. QED
      BY <1>1, <2>2, <2>3, <2>4 DEF Allocate
  <1>2. ASSUME NEW r \in held, Free(r)
        PROVE  IndInv'
    BY <1>2, FreeStep
  <1>3. ASSUME NEW off \in 0 .. Capacity, NEW bytes \in Requests,
               FreeAgain(off, bytes)
        PROVE  IndInv'
    BY <1>3, FreeAgainStep DEF IndInv, TypeOK, NoAliasing, Tight
  <1>4. CASE UNCHANGED vars
    BY <1>4 DEF vars, IndInv, TypeOK, NoAliasing, Tight
  <1>5. QED
    BY <1>1, <1>2, <1>3, <1>4 DEF Next

LEMMA Inductive == Spec => []IndInv
  BY InitInv, NextInv, PTL DEF Spec

(* The types hold for every capacity, alignment and set of requests.       *)
THEOREM TypeCorrect == Spec => []TypeOK
  <1>1. IndInv => TypeOK
    BY DEF IndInv
  <1>2. QED
    BY <1>1, Inductive, PTL

(* No two holders ever share a byte, and nothing free is held, however     *)
(* allocations, frees and repeated frees follow each other.                *)
THEOREM NoAliasingTheorem == Spec => []NoAliasing
  <1>1. IndInv => NoAliasing
    BY DEF IndInv
  <1>2. QED
    BY <1>1, Inductive, PTL

(* The free list never has a hole in two pieces nor one under the mark.    *)
THEOREM TightTheorem == Spec => []Tight
  <1>1. IndInv => Tight
    BY DEF IndInv
  <1>2. QED
    BY <1>1, Inductive, PTL

(* A region all of whose ranges came back is whole: the top byte below the *)
(* mark would lie in a free block that touches the mark.                   *)
LEMMA WholeInv == IndInv => WholeWhenEmpty
  <1> SUFFICES ASSUME IndInv, held = {}
               PROVE  offset = 0 /\ free_blocks = {}
    BY DEF WholeWhenEmpty
  <1>1. offset = 0
    <2> SUFFICES ASSUME offset # 0
                 PROVE  FALSE
      OBVIOUS
    <2>1. offset - 1 \in 0 .. offset - 1
      BY CapacityAssumption DEF IndInv, TypeOK
    <2>2. PICK b \in free_blocks : b.off <= offset - 1 /\ offset - 1 < Top(b)
      BY <2>1 DEF IndInv, Tight
    <2>3. Top(b) = offset
      BY <2>2 DEF IndInv, TypeOK, NoAliasing, Top, Block
    <2>4. QED
      BY <2>3 DEF IndInv, Tight
  <1>2. free_blocks = {}
    BY <1>1 DEF IndInv, TypeOK, NoAliasing, Top, Block
  <1>3. QED
    BY <1>1, <1>2

(* A region all of whose ranges came back is whole.                        *)
THEOREM WholeWhenEmptyTheorem == Spec => []WholeWhenEmpty
  BY WholeInv, Inductive, PTL

(* A refused request finds no hole anywhere: a hole below the mark would   *)
(* lie in a single free block, because two blocks never touch; one that    *)
(* crosses the mark would begin in a block that touches the mark.          *)
LEMMA RefusalInv == IndInv => RefusalIsHonest
  <1> SUFFICES ASSUME IndInv,
                      NEW bytes \in Requests,
                      Refused(Aligned(bytes)),
                      NEW lo \in 0 .. Capacity, Hole(lo, Aligned(bytes))
               PROVE  FALSE
    BY DEF RefusalIsHonest
  <1> DEFINE n == Aligned(bytes)
  <1>1. n \in Nat
    BY AlignedIsNat, RequestsAssumption
  <1> HIDE DEF n
  <1>2. /\ lo + n <= Capacity
        /\ \A s \in held : s.off + s.len <= lo \/ lo + n <= s.off
        /\ \A b \in free_blocks : b.len < n
        /\ offset + n > Capacity
    <2>1. Hole(lo, n) /\ Refused(n)
      BY DEF n
    <2>2. lo + n <= Capacity /\ offset + n > Capacity
      BY <2>1 DEF Hole, Refused
    <2>3. \A s \in held : s.off + s.len <= lo \/ lo + n <= s.off
      BY <1>1, <2>1 DEF Hole, Overlap, Ranges, Top, IndInv, TypeOK, Block
    <2>4. \A b \in free_blocks : b.len < n
      BY <1>1, <2>1, NoBestFit DEF IndInv, Refused
    <2>5. QED
      BY <2>2, <2>3, <2>4
  <1>3. lo < offset
    BY <1>1, <1>2, CapacityAssumption DEF IndInv, TypeOK
  <1>4. n > 0
    BY <1>1, <1>2, CapacityAssumption DEF IndInv, TypeOK
  <1>5. PICK b \in free_blocks : b.off <= lo /\ lo < Top(b)
    <2>1. lo \in 0 .. offset - 1
      BY <1>3, CapacityAssumption DEF IndInv, TypeOK
    <2>2. PICK s \in held \cup free_blocks : s.off <= lo /\ lo < Top(s)
      BY <2>1 DEF IndInv, Tight
    <2>3. s \notin held
      BY <1>1, <1>2, <1>4, <2>2 DEF Top, IndInv, TypeOK, Block
    <2>4. QED
      BY <2>2, <2>3
  <1>6. /\ b.off \in Nat /\ b.len \in Nat /\ Top(b) \in Nat
        /\ Top(b) = b.off + b.len
        /\ Top(b) < lo + n
        /\ Top(b) < offset
    <2>1. b.off \in Nat /\ b.len \in Nat /\ Top(b) = b.off + b.len /\ offset \in Nat
      BY CapacityAssumption DEF Top, IndInv, TypeOK, Block
    <2>2. Top(b) <= offset /\ Top(b) # offset
      BY DEF IndInv, NoAliasing, Tight
    <2>3. b.len < n
      BY <1>1, <1>2, <2>1 DEF IndInv, TypeOK
    <2>4. QED
      BY <1>1, <1>5, <2>1, <2>2, <2>3
  <1>7. PICK s \in held \cup free_blocks : s.off <= Top(b) /\ Top(b) < Top(s)
    <2>1. Top(b) \in 0 .. offset - 1
      BY <1>6, CapacityAssumption DEF IndInv, TypeOK
    <2>2. QED
      BY <2>1 DEF IndInv, Tight
  <1>8. s \in free_blocks
    BY <1>1, <1>2, <1>5, <1>6, <1>7 DEF Top, IndInv, TypeOK, Block
  <1>9. s.off = Top(b)
    BY <1>5, <1>6, <1>7, <1>8
    DEF Top, IndInv, TypeOK, Block, NoAliasing, Overlap
  <1>10. QED
    BY <1>8, <1>9 DEF IndInv, Tight

(* Allocation fails only when no hole of the length is left in the region.  *)
THEOREM RefusalIsHonestTheorem == Spec => []RefusalIsHonest
  BY RefusalInv, Inductive, PTL

(***************************************************************************)
(* The allocator implements the promise of a Region.                       *)
(***************************************************************************)

(* Landing on a free block grants a range nobody holds.                    *)
LEMMA ReuseGrants ==
  ASSUME IndInv, NEW n \in {Aligned(b) : b \in Requests}, n \in Nat,
         AllocateReuse(n)
  PROVE  Promise!Grant(n) \/ Promise!GrantNothing(n)
  <1>1. PICK b \in BestFit(n) : Hold(b.off, n)
    BY DEF AllocateReuse
  <1>2. b \in free_blocks /\ b \in Block /\ b.len >= n /\ outcome' = "ok"
    BY BestFitIsFree DEF AllocateReuse, IndInv, TypeOK
  <1>3. CASE n = 0
    BY <1>1, <1>2, <1>3 DEF Hold, Promise!GrantNothing
  <1>4. CASE n > 0
    <2>1. held' = held \cup {[off |-> b.off, len |-> n]}
      BY <1>1, <1>4 DEF Hold, Ranges
    <2>2. b.off \in 0 .. Capacity /\ b.off + n <= Capacity
      BY <1>2, CapacityAssumption DEF IndInv, TypeOK, NoAliasing, Top, Block
    <2>3. \A r \in held : Promise!Apart(r, [off |-> b.off, len |-> n])
      BY <1>2, <1>4 DEF Promise!Apart, IndInv, TypeOK, NoAliasing, Overlap, Top, Block
    <2>4. QED
      BY <1>2, <1>4, <2>1, <2>2, <2>3 DEF Promise!Grant, Promise!Hole
  <1>5. QED
    BY <1>3, <1>4

(* So does a range carved from the top.                                    *)
LEMMA BumpGrants ==
  ASSUME IndInv, NEW n \in {Aligned(b) : b \in Requests}, n \in Nat,
         AllocateBump(n)
  PROVE  Promise!Grant(n) \/ Promise!GrantNothing(n)
  <1>1. offset + n <= Capacity /\ outcome' = "ok" /\ Hold(offset, n)
    BY DEF AllocateBump
  <1>2. CASE n = 0
    BY <1>1, <1>2 DEF Hold, Promise!GrantNothing
  <1>3. CASE n > 0
    <2>1. held' = held \cup {[off |-> offset, len |-> n]}
      BY <1>1, <1>3 DEF Hold, Ranges
    <2>2. offset \in 0 .. Capacity
      BY DEF IndInv, TypeOK
    <2>3. \A r \in held : Promise!Apart(r, [off |-> offset, len |-> n])
      BY DEF Promise!Apart, IndInv, TypeOK, NoAliasing, Top, Block
    <2>4. QED
      BY <1>1, <1>3, <2>1, <2>2, <2>3 DEF Promise!Grant, Promise!Hole
  <1>4. QED
    BY <1>2, <1>3

(* A refusal is one the region allows.                                     *)
LEMMA OomRefuses ==
  ASSUME IndInv, NEW bytes \in Requests, AllocateOom(Aligned(bytes))
  PROVE  Promise!Refuse(Aligned(bytes))
  <1> DEFINE n == Aligned(bytes)
  <1>1. n \in Nat
    BY AlignedIsNat, RequestsAssumption
  <1>2. \A lo \in 0 .. Capacity : ~Hole(lo, n)
    BY RefusalInv DEF RefusalIsHonest, Refused, AllocateOom
  <1> HIDE DEF n
  <1>3. \A lo \in 0 .. Capacity : Promise!Hole(lo, n) => Hole(lo, n)
    BY <1>1 DEF Promise!Hole, Promise!Apart, Hole, Overlap, Ranges, Top,
                IndInv, TypeOK, Block
  <1>4. held' = held /\ outcome' = "oom"
    BY DEF AllocateOom
  <1>5. QED
    BY <1>2, <1>3, <1>4 DEF Promise!Refuse, n

(* Every step of the allocator is a step the region allows, or a stutter.  *)
LEMMA StepRefines ==
  IndInv /\ [Next]_vars => [Promise!Next]_<<held, outcome>>
  <1> SUFFICES ASSUME IndInv, [Next]_vars
               PROVE  Promise!Next \/ UNCHANGED <<held, outcome>>
    OBVIOUS
  <1>1. ASSUME NEW bytes \in Requests, Allocate(bytes)
        PROVE  Promise!Next
    <2>1. Aligned(bytes) \in Nat /\ Aligned(bytes) \in {Aligned(b) : b \in Requests}
      BY AlignedIsNat, RequestsAssumption
    <2>2. \/ Promise!Grant(Aligned(bytes))
          \/ Promise!GrantNothing(Aligned(bytes))
          \/ Promise!Refuse(Aligned(bytes))
      BY <1>1, <2>1, ReuseGrants, BumpGrants, OomRefuses DEF Allocate
    <2>3. QED
      BY <2>1, <2>2 DEF Promise!Next
  <1>2. ASSUME NEW r \in held, Free(r)
        PROVE  Promise!Next
    BY <1>2 DEF Free, Promise!Next, Promise!GiveBack
  <1>3. ASSUME NEW off \in 0 .. Capacity, NEW bytes \in Requests,
               FreeAgain(off, bytes)
        PROVE  Promise!Next
    BY <1>3, FreeAgainStep DEF Promise!Next, Promise!Ignore
  <1>4. CASE UNCHANGED vars
    BY <1>4 DEF vars
  <1>5. QED
    BY <1>1, <1>2, <1>3, <1>4 DEF Next

(* RangeAllocator implements Region: what it grants is apart from all that *)
(* is held, what it refuses no allocator could grant in place.             *)
THEOREM ImplementsRegion == Spec => RegionSpec
  <1>1. Init => Promise!Init
    BY DEF Init, Promise!Init
  <1>2. QED
    BY <1>1, StepRefines, Inductive, PTL
    DEF Spec, RegionSpec, Promise!Spec, Promise!vars

(***************************************************************************)
(* SpillFile.                                                              *)
(***************************************************************************)

(* A request is never longer than its range. *)
LEMMA AlignedCovers ==
  ASSUME NEW bytes \in Nat
  PROVE  bytes <= Aligned(bytes)
  <1> DEFINE x == bytes + ALIGN - 1
             q == x \div ALIGN
  <1>1. x \in Nat /\ q \in Nat
    BY AlignAssumption
  <1>2. x < (q + 1) * ALIGN
    BY <1>1, AlignAssumption
  <1>3. (q + 1) * ALIGN = q * ALIGN + ALIGN /\ q * ALIGN \in Nat
    BY <1>1, AlignAssumption
  <1>4. QED
    BY <1>2, <1>3, AlignAssumption DEF Aligned

-----------------------------------------------------------------------------
RangeOf(p) == Ranges(p.off, Aligned(p.bytes))

(* The pages, and the one being written. *)
Out == pages \cup (IF writing = Nothing THEN {} ELSE {writing})

(* The inductive invariant: the allocator's own, that the ranges out are   *)
(* those of the pages, that no two pages share one, and what they read as. *)
FileOK == DOMAIN file = 0 .. Capacity - 1

PagesOK ==
  /\ \A p \in Out : p.off \in Nat /\ p.bytes \in Nat
  /\ writing \notin pages

PagesApart == \A p, q \in Out : p # q => ~Overlap(RangeOf(p), RangeOf(q))

SpillInv ==
  IndInv /\ FileOK /\ PagesOK /\ NoneStranded /\ PagesApart /\ ReadsBackLastWrite

(* A call of allocate either changes nothing callers hold or adds one      *)
(* range, apart from all the others.                                       *)
LEMMA AllocateGives ==
  ASSUME IndInv, NEW bytes \in Requests, Allocate(bytes)
  PROVE  /\ IndInv'
         /\ \/ held' = held /\ Given(bytes) = {}
            \/ \E off \in Nat :
                 /\ Given(bytes) = {off}
                 /\ held' = held \cup {Ranges(off, Aligned(bytes))}
                 /\ Aligned(bytes) > 0
                 /\ \A r \in held : ~Overlap(r, Ranges(off, Aligned(bytes)))
  <1> DEFINE len == Aligned(bytes)
  <1>1. bytes \in Nat /\ len \in Nat
    BY AlignedIsNat, RequestsAssumption
  <1> HIDE DEF len
  <1>2. IndInv'
    <2>1. Next
      BY DEF Next
    <2>2. QED
      BY <2>1, NextInv
  <1>3. \/ held' = held
        \/ \E off \in Nat :
             /\ held' = held \cup {Ranges(off, len)} /\ len > 0
             /\ \A r \in held : ~Overlap(r, Ranges(off, len))
    <2>1. CASE AllocateReuse(len)
      <3>1. PICK b \in BestFit(len) : Hold(b.off, len)
        BY <2>1 DEF AllocateReuse
      <3>2. b \in free_blocks /\ b \in Block /\ b.len >= len
        BY <3>1, BestFitIsFree DEF IndInv, TypeOK
      <3>3. CASE len = 0
        BY <3>1, <3>3 DEF Hold
      <3>4. CASE len > 0
        <4>1. held' = held \cup {Ranges(b.off, len)}
          BY <3>1, <3>4 DEF Hold
        <4>2. \A r \in held : ~Overlap(r, Ranges(b.off, len))
          BY <1>1, <3>2 DEF IndInv, TypeOK, NoAliasing, Overlap, Ranges, Top, Block
        <4>3. QED
          BY <3>2, <3>4, <4>1, <4>2 DEF Block
      <3>5. QED
        BY <1>1, <3>3, <3>4
    <2>2. CASE AllocateBump(len)
      <3>1. offset \in Nat /\ Hold(offset, len)
        BY <2>2, CapacityAssumption DEF AllocateBump, IndInv, TypeOK
      <3>2. CASE len = 0
        BY <3>1, <3>2 DEF Hold
      <3>3. CASE len > 0
        <4>1. held' = held \cup {Ranges(offset, len)}
          BY <3>1, <3>3 DEF Hold
        <4>2. \A r \in held : ~Overlap(r, Ranges(offset, len))
          BY <1>1, <3>1 DEF IndInv, TypeOK, NoAliasing, Overlap, Ranges, Top, Block
        <4>3. QED
          BY <3>1, <3>3, <4>1, <4>2
      <3>4. QED
        BY <1>1, <3>2, <3>3
    <2>3. CASE AllocateOom(len)
      BY <2>3 DEF AllocateOom
    <2>4. QED
      BY <2>1, <2>2, <2>3 DEF Allocate, len
  <1>4. CASE held' = held
    BY <1>2, <1>4 DEF Given
  <1>5. ASSUME NEW off \in Nat,
               held' = held \cup {Ranges(off, len)}, len > 0,
               \A r \in held : ~Overlap(r, Ranges(off, len))
        PROVE  Given(bytes) = {off}
    <2>1. Ranges(off, len) \notin held
      BY <1>1, <1>5 DEF Overlap, Ranges, Top
    <2>2. held' \ held = {Ranges(off, len)}
      BY <1>5, <2>1
    <2>3. Ranges(off, len).off = off
      BY DEF Ranges
    <2> HIDE DEF Ranges
    <2>4. Given(bytes) = {Ranges(off, len).off}
      BY <2>2 DEF Given
    <2>5. QED
      BY <2>3, <2>4
  <1>6. QED
    BY <1>2, <1>3, <1>4, <1>5 DEF len

(* Every page out lies in the file, and its bytes in its range.            *)
LEMMA OutIsHeld ==
  ASSUME SpillInv, NEW p \in Out
  PROVE  /\ RangeOf(p) \in held
         /\ p.off \in Nat /\ p.bytes \in Nat
         /\ Aligned(p.bytes) \in Nat /\ Aligned(p.bytes) > 0
         /\ p.bytes <= Aligned(p.bytes)
         /\ p.off + p.bytes <= Capacity
  <1>1. p.off \in Nat /\ p.bytes \in Nat
    BY DEF SpillInv, PagesOK
  <1>2. RangeOf(p) \in held
    BY DEF SpillInv, NoneStranded, Out, RangeOf
  <1>3. Aligned(p.bytes) \in Nat /\ p.bytes <= Aligned(p.bytes)
    BY <1>1, AlignedIsNat, AlignedCovers
  <1>4. Aligned(p.bytes) > 0 /\ p.off + Aligned(p.bytes) <= offset /\ offset <= Capacity
    BY <1>2, CapacityAssumption
    DEF SpillInv, IndInv, TypeOK, NoAliasing, RangeOf, Ranges, Top, Block
  <1>5. QED
    BY <1>1, <1>2, <1>3, <1>4, CapacityAssumption DEF SpillInv, IndInv, TypeOK

(* Writing into the range of one page leaves the bytes of another.         *)
LEMMA WrittenElsewhere ==
  ASSUME SpillInv, NEW p \in Out, NEW q \in Out, p # q,
         NEW n \in 0 .. p.bytes, NEW val, NEW x \in q.off .. q.off + q.bytes - 1
  PROVE  Written(p.off, n, val)[x] = file[x]
  <1>1. ~Overlap(RangeOf(p), RangeOf(q))
    BY DEF SpillInv, PagesApart
  <1>2. x \in DOMAIN file
    BY OutIsHeld, CapacityAssumption DEF SpillInv, FileOK
  <1>3. ~(p.off <= x /\ x < p.off + n)
    <2>1. /\ p.off \in Nat /\ p.bytes \in Nat /\ q.off \in Nat /\ q.bytes \in Nat
          /\ Aligned(p.bytes) \in Nat /\ p.bytes <= Aligned(p.bytes)
          /\ Aligned(q.bytes) \in Nat /\ q.bytes <= Aligned(q.bytes)
      BY OutIsHeld
    <2>2. \/ q.off + Aligned(q.bytes) <= p.off
          \/ p.off + Aligned(p.bytes) <= q.off
      BY <1>1, <2>1 DEF Overlap, RangeOf, Ranges, Top
    <2>3. QED
      BY <2>1, <2>2
  <1>4. QED
    BY <1>2, <1>3 DEF Written

(* Nor does it change what the file's offsets are.                         *)
LEMMA WrittenDomain ==
  ASSUME FileOK, NEW off, NEW n, NEW val, file' = Written(off, n, val)
  PROVE  FileOK'
  BY DEF FileOK, Written

(* Writing a whole page leaves it reading as what was written.             *)
LEMMA WrittenHere ==
  ASSUME SpillInv, NEW p \in Out, NEW val, NEW x \in p.off .. p.off + p.bytes - 1
  PROVE  Written(p.off, p.bytes, val)[x] = val
  <1>1. p.off \in Nat /\ p.bytes \in Nat
    BY OutIsHeld
  <1>2. x \in DOMAIN file
    BY OutIsHeld, CapacityAssumption DEF SpillInv, FileOK
  <1>3. QED
    BY <1>1, <1>2 DEF Written

-----------------------------------------------------------------------------
(* One page more, on a range that allocate gave, keeps what is said of the *)
(* ranges.                                                                 *)
LEMMA OneMore ==
  ASSUME SpillInv, IndInv', NEW bytes \in Requests, NEW off \in Nat, NEW p,
         held' = held \cup {Ranges(off, Aligned(bytes))},
         Aligned(bytes) > 0,
         \A r \in held : ~Overlap(r, Ranges(off, Aligned(bytes))),
         p.off = off, p.bytes = bytes,
         Out' = Out \cup {p},
         writing' \notin pages'
  PROVE  (PagesOK /\ PagesApart /\ NoneStranded)'
  <1>1. bytes \in Nat /\ Aligned(bytes) \in Nat
    BY AlignedIsNat, RequestsAssumption
  <1>2. PagesOK'
    BY <1>1 DEF SpillInv, PagesOK
  <1>3. RangeOf(p) = Ranges(off, Aligned(bytes))
    BY DEF RangeOf
  <1>4. \A q \in Out : RangeOf(q) \in held
    BY OutIsHeld
  <1>5. \A q \in Out : ~Overlap(RangeOf(q), RangeOf(p)) /\ ~Overlap(RangeOf(p), RangeOf(q))
    BY <1>3, <1>4 DEF Overlap
  <1>6. PagesApart'
    BY <1>5 DEF SpillInv, PagesApart, RangeOf
  <1>7. held = {RangeOf(q) : q \in Out}
    BY DEF SpillInv, NoneStranded, Out, RangeOf
  <1>8. held' = {RangeOf(q) : q \in Out'}
    BY <1>3, <1>7
  <1>9. NoneStranded'
    BY <1>8 DEF NoneStranded, Out, RangeOf
  <1>10. QED
    BY <1>2, <1>6, <1>9

(* One page less, whose range went back, keeps it too.                     *)
LEMMA OneLess ==
  ASSUME SpillInv, NEW p \in Out,
         held' = held \ {RangeOf(p)}, Out' = Out \ {p}, writing' \notin pages'
  PROVE  (PagesOK /\ PagesApart /\ NoneStranded)'
  <1>1. PagesOK' /\ PagesApart'
    BY DEF SpillInv, PagesOK, PagesApart, RangeOf
  <1>2. \A q \in Out : q # p => RangeOf(q) # RangeOf(p)
    <2> SUFFICES ASSUME NEW q \in Out, q # p, RangeOf(q) = RangeOf(p)
                 PROVE  FALSE
      OBVIOUS
    <2>1. ~Overlap(RangeOf(p), RangeOf(p))
      BY DEF SpillInv, PagesApart
    <2>2. p.off \in Nat /\ Aligned(p.bytes) \in Nat /\ Aligned(p.bytes) > 0
      BY OutIsHeld
    <2>3. QED
      BY <2>1, <2>2 DEF Overlap, RangeOf, Ranges, Top
  <1>3. held = {RangeOf(q) : q \in Out}
    BY DEF SpillInv, NoneStranded, Out, RangeOf
  <1>4. held' = {RangeOf(q) : q \in Out'}
    BY <1>2, <1>3
  <1>5. NoneStranded'
    BY <1>4 DEF NoneStranded, Out, RangeOf
  <1>6. QED
    BY <1>1, <1>5

(* reserve: the new page promises nothing about its bytes.                 *)
LEMMA ReserveStep ==
  ASSUME SpillInv, NEW bytes \in Requests, Reserve(bytes)
  PROVE  SpillInv'
  <1>1. /\ writing = Nothing /\ Allocate(bytes)
        /\ pages' = pages \cup {Page(off, bytes, Zero) : off \in Given(bytes)}
        /\ file' = file /\ writing' = writing
    BY DEF Reserve
  <1>2. IndInv'
    BY <1>1, AllocateGives DEF SpillInv
  <1>3. FileOK'
    BY <1>1 DEF SpillInv, FileOK
  <1>4. CASE held' = held /\ Given(bytes) = {}
    <2>1. pages' = pages
      BY <1>1, <1>4
    <2>2. QED
      BY <1>1, <1>2, <1>3, <1>4, <2>1
      DEF SpillInv, PagesOK, PagesApart, NoneStranded, ReadsBackLastWrite, ReadsAs,
          Out, RangeOf
  <1>5. ASSUME NEW off \in Nat,
               Given(bytes) = {off},
               held' = held \cup {Ranges(off, Aligned(bytes))},
               Aligned(bytes) > 0,
               \A r \in held : ~Overlap(r, Ranges(off, Aligned(bytes)))
        PROVE  SpillInv'
    <2> DEFINE p == Page(off, bytes, Zero)
    <2>1. pages' = pages \cup {p}
      BY <1>1, <1>5
    <2>2. p.off = off /\ p.bytes = bytes /\ p.val = Zero
      BY DEF Page
    <2> HIDE DEF p
    <2>3. Out' = Out \cup {p}
      BY <1>1, <2>1 DEF Out
    <2>4. writing' \notin pages'
      BY <1>1, <2>1, <2>2, <1>5 DEF SpillInv, PagesOK, Nothing
    <2>5. (PagesOK /\ PagesApart /\ NoneStranded)'
      BY <1>2, <1>5, <2>2, <2>3, <2>4, OneMore
    <2>6. ReadsBackLastWrite'
      BY <1>1, <2>1, <2>2, ContentsAssumption
      DEF SpillInv, ReadsBackLastWrite, ReadsAs, Zero
    <2>7. QED
      BY <1>2, <1>3, <2>5, <2>6 DEF SpillInv
  <1>6. QED
    BY <1>1, <1>4, <1>5, AllocateGives DEF SpillInv

(* write_at_new_offset up to the write: no page knows of the range yet.    *)
LEMMA BeginWriteStep ==
  ASSUME SpillInv, NEW bytes \in Requests, NEW val \in Contents,
         BeginWrite(bytes, val)
  PROVE  SpillInv'
  <1>1. /\ writing = Nothing /\ Allocate(bytes)
        /\ writing' = IF Given(bytes) = {} THEN Nothing
                      ELSE [off |-> CHOOSE off \in Given(bytes) : TRUE,
                            bytes |-> bytes, val |-> val,
                            mark |-> offset, blocks |-> free_blocks]
        /\ file' = file /\ pages' = pages
    BY DEF BeginWrite
  <1>2. IndInv'
    BY <1>1, AllocateGives DEF SpillInv
  <1>3. FileOK' /\ ReadsBackLastWrite'
    BY <1>1 DEF SpillInv, FileOK, ReadsBackLastWrite, ReadsAs
  <1>4. CASE held' = held /\ Given(bytes) = {}
    <2>1. writing' = writing
      BY <1>1, <1>4
    <2>2. QED
      BY <1>1, <1>2, <1>3, <1>4, <2>1
      DEF SpillInv, PagesOK, PagesApart, NoneStranded, Out, RangeOf
  <1>5. ASSUME NEW off \in Nat,
               Given(bytes) = {off},
               held' = held \cup {Ranges(off, Aligned(bytes))},
               Aligned(bytes) > 0,
               \A r \in held : ~Overlap(r, Ranges(off, Aligned(bytes)))
        PROVE  SpillInv'
    <2>1. writing'.off = off /\ writing'.bytes = bytes
      BY <1>1, <1>5
    <2>2. writing' # Nothing
      BY <2>1 DEF Nothing
    <2>3. Out' = Out \cup {writing'}
      BY <1>1, <2>2 DEF Out
    <2>4. writing' \notin pages'
      <3> SUFFICES ASSUME writing' \in pages
                   PROVE  FALSE
        BY <1>1
      <3>1. RangeOf(writing') \in held
        BY OutIsHeld DEF Out
      <3>2. RangeOf(writing') = Ranges(off, Aligned(bytes))
        BY <2>1 DEF RangeOf
      <3>3. ~Overlap(Ranges(off, Aligned(bytes)), Ranges(off, Aligned(bytes)))
        BY <1>5, <3>1, <3>2
      <3>4. Aligned(bytes) \in Nat
        BY AlignedIsNat, RequestsAssumption
      <3>5. QED
        BY <1>5, <3>3, <3>4 DEF Overlap, Ranges, Top
    <2>5. (PagesOK /\ PagesApart /\ NoneStranded)'
      BY <1>2, <1>5, <2>1, <2>3, <2>4, OneMore
    <2>6. QED
      BY <1>2, <1>3, <2>5 DEF SpillInv
  <1>6. QED
    BY <1>1, <1>4, <1>5, AllocateGives DEF SpillInv

(* The write ends: its page is known, and reads as what was written.       *)
LEMMA EndWriteStep ==
  ASSUME SpillInv, EndWrite
  PROVE  SpillInv'
  <1> DEFINE p == Page(writing.off, writing.bytes, writing.val)
  <1>1. /\ writing # Nothing /\ writing' = Nothing
        /\ file' = Written(writing.off, writing.bytes, writing.val)
        /\ pages' = pages \cup {p}
        /\ held' = held
        /\ UNCHANGED vars
    BY DEF EndWrite, vars
  <1>2. p.off = writing.off /\ p.bytes = writing.bytes /\ p.val = writing.val
    BY DEF Page
  <1> HIDE DEF p
  <1>3. IndInv'
    BY <1>1, NextInv DEF SpillInv
  <1>4. FileOK'
    BY <1>1, WrittenDomain DEF SpillInv
  <1>5. writing \in Out /\ Out = pages \cup {writing} /\ Out' = pages \cup {p}
    BY <1>1 DEF Out
  <1>6. writing.off \in Nat /\ writing.bytes \in Nat
    BY <1>5, OutIsHeld
  <1>7. PagesOK'
    <2>1. Nothing \notin pages'
      BY <1>1, <1>2, <1>6 DEF SpillInv, PagesOK, Out, Nothing
    <2>2. QED
      BY <1>1, <1>2, <1>5, <1>6, <2>1 DEF SpillInv, PagesOK
  <1>8. RangeOf(p) = RangeOf(writing)
    BY <1>2 DEF RangeOf
  <1>9. writing \notin pages
    BY DEF SpillInv, PagesOK
  <1>10. PagesApart'
    BY <1>5, <1>8, <1>9 DEF SpillInv, PagesApart, RangeOf
  <1>11. held' = {RangeOf(q) : q \in Out'}
    BY <1>1, <1>5, <1>8 DEF SpillInv, NoneStranded, Out, RangeOf
  <1>12. NoneStranded'
    BY <1>11 DEF NoneStranded, Out, RangeOf
  <1>13. ReadsBackLastWrite'
    <2> SUFFICES ASSUME NEW q \in pages', q.val \in Contents,
                        NEW x \in q.off .. q.off + q.bytes - 1
                 PROVE  file'[x] = q.val
      BY DEF ReadsBackLastWrite, ReadsAs
    <2>1. CASE q = p
      BY <1>1, <1>2, <1>5, <2>1, WrittenHere
    <2>2. CASE q # p
      <3>1. q \in pages /\ q \in Out /\ q # writing
        BY <1>1, <1>5, <1>9, <2>2
      <3>2. file'[x] = file[x]
        BY <1>1, <1>5, <1>6, <3>1, WrittenElsewhere
      <3>3. QED
        BY <3>1, <3>2 DEF SpillInv, ReadsBackLastWrite, ReadsAs
    <2>3. QED
      BY <2>1, <2>2
  <1>14. QED
    BY <1>3, <1>4, <1>7, <1>10, <1>12, <1>13 DEF SpillInv

(* The write fails: the range goes back, whatever it had reached.          *)
LEMMA FailWriteStep ==
  ASSUME SpillInv, FailWrite
  PROVE  SpillInv'
  <1>1. /\ writing # Nothing /\ writing' = Nothing /\ pages' = pages
        /\ Free(RangeOf(writing))
    BY DEF FailWrite, RangeOf
  <1>2. PICK n \in 0 .. writing.bytes - 1 :
          file' = Written(writing.off, n, writing.val)
    BY DEF FailWrite
  <1>3. writing \in Out /\ Out = pages \cup {writing} /\ Out' = pages
    BY <1>1 DEF Out
  <1>4. RangeOf(writing) \in held /\ writing.bytes \in Nat
    BY <1>3, OutIsHeld
  <1>5. IndInv'
    BY <1>1, <1>4, FreeStep DEF SpillInv
  <1>6. FileOK'
    BY <1>2, WrittenDomain DEF SpillInv
  <1>7. writing \notin pages
    BY DEF SpillInv, PagesOK
  <1>8. Out' = Out \ {writing}
    BY <1>3, <1>7
  <1>9. Nothing \notin pages
    BY DEF SpillInv, PagesOK, Out, Nothing
  <1>10. held' = held \ {RangeOf(writing)}
    BY <1>1 DEF Free
  <1>11. (PagesOK /\ PagesApart /\ NoneStranded)'
    BY <1>1, <1>3, <1>8, <1>9, <1>10, OneLess
  <1>12. ReadsBackLastWrite'
    <2> SUFFICES ASSUME NEW q \in pages, q.val \in Contents,
                        NEW x \in q.off .. q.off + q.bytes - 1
                 PROVE  file'[x] = q.val
      BY <1>1 DEF ReadsBackLastWrite, ReadsAs
    <2>1. q \in Out /\ q # writing
      BY <1>3, <1>7
    <2>2. file'[x] = file[x]
      BY <1>2, <1>3, <1>4, <2>1, WrittenElsewhere
    <2>3. QED
      BY <2>2 DEF SpillInv, ReadsBackLastWrite, ReadsAs
  <1>13. QED
    BY <1>5, <1>6, <1>11, <1>12 DEF SpillInv

(* A page is overwritten in place, wholly or in part.                      *)
LEMMA WriteAtStep ==
  ASSUME SpillInv, NEW p \in pages, NEW val \in Contents, WriteAt(p, val)
  PROVE  SpillInv'
  <1>1. PICK n \in 0 .. p.bytes :
          /\ file' = Written(p.off, n, val)
          /\ pages' = (pages \ {p}) \cup
               {Page(p.off, p.bytes, IF n = p.bytes THEN val ELSE Torn)}
    BY DEF WriteAt
  <1> DEFINE r == Page(p.off, p.bytes, IF n = p.bytes THEN val ELSE Torn)
  <1>2. /\ writing = Nothing /\ writing' = Nothing /\ held' = held /\ UNCHANGED vars
        /\ pages' = (pages \ {p}) \cup {r}
    BY <1>1 DEF WriteAt, vars
  <1>3. /\ r.off = p.off /\ r.bytes = p.bytes
        /\ r.val = IF n = p.bytes THEN val ELSE Torn
    BY DEF Page
  <1> HIDE DEF r
  <1>4. IndInv' /\ FileOK'
    BY <1>1, <1>2, NextInv, WrittenDomain DEF SpillInv
  <1>5. p \in Out /\ Out = pages /\ Out' = (pages \ {p}) \cup {r}
    BY <1>2 DEF Out
  <1>6. p.off \in Nat /\ p.bytes \in Nat
    BY <1>5, OutIsHeld
  <1>7. RangeOf(r) = RangeOf(p)
    BY <1>3 DEF RangeOf
  <1>8. PagesOK'
    <2>1. Nothing \notin pages'
      BY <1>2, <1>3, <1>6 DEF SpillInv, PagesOK, Out, Nothing
    <2>2. QED
      BY <1>2, <1>3, <1>5, <1>6, <2>1 DEF SpillInv, PagesOK
  <1>9. PagesApart'
    BY <1>5, <1>7 DEF SpillInv, PagesApart, RangeOf
  <1>10. held' = {RangeOf(q) : q \in Out'}
    <2>1. held = {RangeOf(q) : q \in Out}
      BY DEF SpillInv, NoneStranded, Out, RangeOf
    <2>2. QED
      BY <1>2, <1>5, <1>7, <2>1
  <1>11. NoneStranded'
    BY <1>10 DEF NoneStranded, Out, RangeOf
  <1>12. ReadsBackLastWrite'
    <2> SUFFICES ASSUME NEW q \in pages', q.val \in Contents,
                        NEW x \in q.off .. q.off + q.bytes - 1
                 PROVE  file'[x] = q.val
      BY DEF ReadsBackLastWrite, ReadsAs
    <2>1. CASE q = r
      <3>1. q.val = val /\ n = p.bytes
        BY <1>3, <2>1, ContentsAssumption DEF Torn
      <3>2. QED
        BY <1>1, <1>3, <1>5, <2>1, <3>1, WrittenHere
    <2>2. CASE q # r
      <3>1. q \in pages /\ q \in Out /\ q # p
        BY <1>2, <1>5, <2>2
      <3>2. file'[x] = file[x]
        BY <1>1, <1>5, <3>1, WrittenElsewhere
      <3>3. QED
        BY <3>1, <3>2 DEF SpillInv, ReadsBackLastWrite, ReadsAs
    <2>3. QED
      BY <2>1, <2>2
  <1>13. QED
    BY <1>4, <1>8, <1>9, <1>11, <1>12 DEF SpillInv

(* A page is freed. *)
LEMMA FreePageStep ==
  ASSUME SpillInv, NEW p \in pages, FreePage(p)
  PROVE  SpillInv'
  <1>1. /\ writing = Nothing /\ writing' = Nothing /\ file' = file
        /\ pages' = pages \ {p}
        /\ Free(RangeOf(p))
    BY DEF FreePage, RangeOf
  <1>2. p \in Out /\ Out = pages /\ Out' = Out \ {p}
    BY <1>1 DEF Out
  <1>3. RangeOf(p) \in held
    BY <1>2, OutIsHeld
  <1>4. IndInv'
    BY <1>1, <1>3, FreeStep DEF SpillInv
  <1>5. FileOK' /\ ReadsBackLastWrite'
    BY <1>1 DEF SpillInv, FileOK, ReadsBackLastWrite, ReadsAs
  <1>6. held' = held \ {RangeOf(p)} /\ writing' \notin pages'
    BY <1>1 DEF Free, SpillInv, PagesOK
  <1>7. (PagesOK /\ PagesApart /\ NoneStranded)'
    BY <1>2, <1>6, OneLess
  <1>8. QED
    BY <1>4, <1>5, <1>7 DEF SpillInv

(* Nothing that the invariant speaks of changes.                           *)
LEMMA SpillStutter ==
  ASSUME SpillInv, UNCHANGED <<offset, free_blocks, held, file, pages, writing>>,
         IndInv'
  PROVE  SpillInv'
  BY DEF SpillInv, FileOK, PagesOK, PagesApart, NoneStranded, ReadsBackLastWrite,
         ReadsAs, Out, RangeOf

(* A range that is no page's is given back: dropped.                       *)
LEMMA FreeStrayStep ==
  ASSUME SpillInv, NEW off \in 0 .. Capacity, NEW bytes \in Requests,
         FreeStray(off, bytes)
  PROVE  SpillInv' /\ FreeAgain(off, bytes)
  <1>1. FreeAgain(off, bytes) /\ UNCHANGED fileVars
    BY DEF FreeStray
  <1>2. UNCHANGED <<offset, free_blocks, held>>
    BY <1>1, FreeAgainStep DEF SpillInv
  <1>3. Next
    BY <1>1 DEF Next
  <1>4. IndInv'
    BY <1>3, NextInv DEF SpillInv
  <1>5. QED
    BY <1>1, <1>2, <1>4, SpillStutter DEF fileVars

(* An empty spill file is replaced: its allocator was whole already.       *)
LEMMA AttachStep ==
  ASSUME SpillInv, ~Careless, Attach
  PROVE  SpillInv' /\ UNCHANGED vars
  <1>1. /\ writing = Nothing /\ pages = {} /\ writing' = writing /\ pages' = pages
        /\ file' = [x \in DOMAIN file |-> Zero]
        /\ offset' = 0 /\ free_blocks' = {} /\ held' = {} /\ outcome' = outcome
    BY DEF Attach
  <1>2. held = {}
    BY <1>1 DEF SpillInv, NoneStranded
  <1>3. offset = 0 /\ free_blocks = {}
    BY <1>2, WholeInv DEF SpillInv, WholeWhenEmpty
  <1>4. UNCHANGED vars
    BY <1>1, <1>2, <1>3 DEF vars
  <1>5. IndInv'
    BY <1>4, NextInv DEF SpillInv
  <1>6. FileOK' /\ ReadsBackLastWrite'
    BY <1>1 DEF SpillInv, FileOK, ReadsBackLastWrite
  <1>7. (PagesOK /\ PagesApart /\ NoneStranded)'
    BY <1>1, <1>2 DEF SpillInv, PagesOK, PagesApart, NoneStranded, Out, RangeOf
  <1>8. QED
    BY <1>4, <1>5, <1>6, <1>7 DEF SpillInv

-----------------------------------------------------------------------------
(* The invariant is inductive, and every step of the file is a step of its *)
(* allocator or leaves that alone.                                         *)
LEMMA SpillInitInv == SpillInit => SpillInv
  <1> SUFFICES ASSUME SpillInit
               PROVE  SpillInv
    OBVIOUS
  <1>1. Init /\ file = [x \in 0 .. Capacity - 1 |-> Zero] /\ pages = {} /\ writing = Nothing
    BY DEF SpillInit
  <1>2. held = {} /\ Out = {}
    BY <1>1 DEF Init, Out
  <1>3. QED
    BY <1>1, <1>2, InitInv
    DEF SpillInv, FileOK, PagesOK, PagesApart, NoneStranded, ReadsBackLastWrite

LEMMA SpillNextInv ==
  ASSUME SpillInv, ~Careless, [SpillNext]_allVars
  PROVE  SpillInv' /\ [Next]_vars
  <1>1. CASE Attach
    BY <1>1, AttachStep
  <1>2. ASSUME NEW bytes \in Requests, Reserve(bytes)
        PROVE  SpillInv' /\ Next
    BY <1>2, ReserveStep DEF Reserve, Next
  <1>3. ASSUME NEW bytes \in Requests, NEW val \in Contents, BeginWrite(bytes, val)
        PROVE  SpillInv' /\ Next
    BY <1>3, BeginWriteStep DEF BeginWrite, Next
  <1>4. CASE EndWrite
    BY <1>4, EndWriteStep DEF EndWrite, vars
  <1>5. CASE FailWrite
    <2>1. writing \in Out
      BY <1>5 DEF FailWrite, Out
    <2>2. RangeOf(writing) \in held
      BY <2>1, OutIsHeld
    <2>3. Free(RangeOf(writing))
      BY <1>5 DEF FailWrite, RangeOf
    <2>4. Next
      BY <2>2, <2>3 DEF Next
    <2>5. QED
      BY <1>5, <2>4, FailWriteStep
  <1>6. ASSUME NEW p \in pages, NEW val \in Contents, WriteAt(p, val)
        PROVE  SpillInv' /\ UNCHANGED vars
    BY <1>6, WriteAtStep DEF WriteAt, vars
  <1>7. ASSUME NEW p \in pages, FreePage(p)
        PROVE  SpillInv' /\ Next
    <2>1. p \in Out
      BY DEF Out
    <2>2. RangeOf(p) \in held /\ Free(RangeOf(p))
      BY <1>7, <2>1, OutIsHeld DEF FreePage, RangeOf
    <2>3. Next
      BY <2>2 DEF Next
    <2>4. QED
      BY <1>7, <2>3, FreePageStep
  <1>8. ASSUME NEW off \in 0 .. Capacity, NEW bytes \in Requests, FreeStray(off, bytes)
        PROVE  SpillInv' /\ Next
    BY <1>8, FreeStrayStep DEF Next
  <1>9. CASE UNCHANGED allVars
    <2>1. UNCHANGED vars
      BY <1>9 DEF allVars, vars
    <2>2. IndInv'
      BY <2>1, NextInv DEF SpillInv
    <2>3. QED
      BY <1>9, <2>1, <2>2, SpillStutter DEF allVars
  <1>10. QED
    BY <1>1, <1>2, <1>3, <1>4, <1>5, <1>6, <1>7, <1>8, <1>9 DEF SpillNext

LEMMA SpillInductive ==
  ASSUME ~Careless
  PROVE  SpillSpec => []SpillInv
  <1>1. SpillInv /\ [SpillNext]_allVars => SpillInv'
    BY SpillNextInv
  <1>2. QED
    BY <1>1, SpillInitInv, PTL DEF SpillSpec

(* The spill file drives its allocator as a caller may: all that is proved *)
(* of RangeAllocator holds under a SpillFile.                              *)
THEOREM SpillImplementsAllocator ==
  ASSUME ~Careless
  PROVE  SpillSpec => Spec
  <1>1. SpillInit => Init
    BY DEF SpillInit
  <1>2. SpillInv /\ [SpillNext]_allVars => [Next]_vars
    BY SpillNextInv
  <1>3. QED
    BY <1>1, <1>2, SpillInductive, PTL DEF SpillSpec, Spec

(* Every page reads back as what was last written to it, whatever was      *)
(* written, freed, reused or failed around it.                             *)
THEOREM ReadsBackLastWriteTheorem ==
  ASSUME ~Careless
  PROVE  SpillSpec => []ReadsBackLastWrite
  <1>1. SpillInv => ReadsBackLastWrite
    BY DEF SpillInv
  <1>2. QED
    BY <1>1, SpillInductive, PTL

(* No range of the file is out but those of its pages and of the write in  *)
(* progress, and each of those is.                                         *)
THEOREM NoneStrandedTheorem ==
  ASSUME ~Careless
  PROVE  SpillSpec => []NoneStranded
  <1>1. SpillInv => NoneStranded
    BY DEF SpillInv
  <1>2. QED
    BY <1>1, SpillInductive, PTL

(* The promise of a Region holds of the spill file.                        *)
THEOREM SpillImplementsRegion ==
  ASSUME ~Careless
  PROVE  SpillSpec => RegionSpec
  BY SpillImplementsAllocator, ImplementsRegion, PTL

-----------------------------------------------------------------------------
(* What the allocation of the write in progress did: it moved the mark, or *)
(* it took a whole free block, or it took the head of one.  In each case   *)
(* the range touches no free block but the tail of its own.                *)
Bumped(r) ==
  /\ offset = Top(r) /\ Neighbours(r) = {}
  /\ writing.mark = r.off /\ writing.blocks = free_blocks

TookBlock(r) ==
  /\ offset # Top(r) /\ Neighbours(r) = {}
  /\ writing.mark = offset /\ writing.blocks = free_blocks \cup {r}

TookHead(r) ==
  /\ writing.mark = offset
  /\ \E t \in free_blocks :
       /\ Neighbours(r) = {t} /\ t.off = Top(r) /\ Top(t) # offset
       /\ writing.blocks = (free_blocks \ {t}) \cup {Ranges(r.off, r.len + t.len)}

Traced ==
  writing # Nothing =>
    Bumped(RangeOf(writing)) \/ TookBlock(RangeOf(writing)) \/ TookHead(RangeOf(writing))

(* The allocation of a write is one of the three.                          *)
LEMMA BeginWriteTraced ==
  ASSUME SpillInv, NEW bytes \in Requests, NEW val \in Contents,
         BeginWrite(bytes, val)
  PROVE  Traced'
  <1> SUFFICES ASSUME writing' # Nothing
               PROVE  \/ Bumped(RangeOf(writing))'
                      \/ TookBlock(RangeOf(writing))'
                      \/ TookHead(RangeOf(writing))'
    BY DEF Traced
  <1> DEFINE len == Aligned(bytes)
             r   == RangeOf(writing)'
  <1>1. /\ Allocate(bytes) /\ Given(bytes) # {}
        /\ writing' = [off |-> CHOOSE off \in Given(bytes) : TRUE,
                       bytes |-> bytes, val |-> val,
                       mark |-> offset, blocks |-> free_blocks]
    BY DEF BeginWrite
  <1>2. PICK off \in Nat :
          /\ Given(bytes) = {off}
          /\ held' = held \cup {Ranges(off, len)}
          /\ len > 0
          /\ \A s \in held : ~Overlap(s, Ranges(off, len))
    BY <1>1, AllocateGives DEF SpillInv
  <1>3. /\ writing'.off = off /\ writing'.bytes = bytes
        /\ writing'.mark = offset /\ writing'.blocks = free_blocks
    BY <1>1, <1>2
  <1>4. len \in Nat
    BY AlignedIsNat, RequestsAssumption
  <1>5. r = Ranges(off, len)
    BY <1>3 DEF RangeOf
  <1>6. r.off = off /\ r.len = len /\ Top(r) = off + len /\ r \notin held
    BY <1>2, <1>4, <1>5 DEF Ranges, Top, Overlap
  <1> HIDE DEF len, r
  <1>7. \A o \in Nat : held' = held \cup {Ranges(o, len)} => o = off
    BY <1>2, <1>5, <1>6 DEF Ranges
  <1>8. /\ offset \in Nat /\ free_blocks \subseteq Block
        /\ \A b \in free_blocks : b.off \in Nat /\ b.len \in Nat /\ b.len > 0
    BY CapacityAssumption DEF SpillInv, IndInv, TypeOK, Block
  <1>9. CASE AllocateReuse(len)
    <2>1. PICK b \in BestFit(len) :
            /\ free_blocks' = (free_blocks \ {b}) \cup
                 IF b.len = len THEN {} ELSE {Ranges(b.off + len, b.len - len)}
            /\ Hold(b.off, len)
      BY <1>9 DEF AllocateReuse
    <2>2. b \in free_blocks /\ b.len >= len /\ offset' = offset
      BY <1>9, <2>1, BestFitIsFree DEF AllocateReuse
    <2>3. b.off = off
      BY <1>2, <1>7, <1>8, <2>1, <2>2 DEF Hold
    <2>4. /\ Top(b) # offset
          /\ \A c \in free_blocks \ {b} :
               Top(c) # off /\ c.off # Top(b) /\ ~Overlap(c, b)
      BY <2>2, <2>3 DEF SpillInv, IndInv, NoAliasing, Tight
    <2>5. CASE b.len = len
      <3>1. b = r /\ free_blocks' = free_blocks \ {b}
        BY <1>5, <1>8, <2>1, <2>2, <2>3, <2>5 DEF Ranges, Block
      <3>2. \A c \in free_blocks' : Top(c) # r.off /\ c.off # Top(r)
        BY <1>6, <2>4, <3>1
      <3>3. TookBlock(RangeOf(writing))'
        BY <1>3, <2>2, <2>4, <3>1, <3>2 DEF TookBlock, Neighbours, r
      <3>4. QED
        BY <3>3
    <2>6. CASE b.len > len
      <3> DEFINE t == Ranges(b.off + len, b.len - len)
      <3>1. free_blocks' = (free_blocks \ {b}) \cup {t}
        <4>1. b.len # len
          BY <1>4, <1>8, <2>2, <2>6
        <4>2. QED
          BY <2>1, <4>1
      <3>2. t.off = Top(r) /\ t.len = b.len - len /\ Top(t) = Top(b)
        BY <1>4, <1>6, <1>8, <2>2, <2>3, <2>6 DEF Ranges, Top
      <3> HIDE DEF t
      <3>3. \A c \in free_blocks \ {b} : Top(c) # r.off /\ c.off # Top(r)
        BY <1>2, <1>4, <1>6, <1>8, <2>2, <2>3, <2>4, <2>6 DEF Overlap, Top
      <3>4. Top(t) # r.off
        BY <1>2, <1>4, <1>6, <1>8, <2>2, <2>3, <3>2 DEF Top
      <3>5. {c \in free_blocks' : Top(c) = r.off \/ c.off = Top(r)} = {t}
        BY <3>1, <3>2, <3>3, <3>4
      <3>6. t \notin free_blocks \ {b}
        BY <3>2, <3>3
      <3>7. b = Ranges(r.off, r.len + t.len)
        BY <1>4, <1>6, <1>8, <2>2, <2>3, <2>6, <3>2 DEF Ranges, Block
      <3>8. free_blocks = (free_blocks' \ {t}) \cup {b}
        BY <2>2, <3>1, <3>6
      <3>9. TookHead(RangeOf(writing))'
        BY <1>3, <2>2, <2>4, <3>1, <3>2, <3>5, <3>7, <3>8 DEF TookHead, Neighbours, r
      <3>10. QED
        BY <3>9
    <2>7. QED
      BY <1>4, <1>8, <2>2, <2>5, <2>6
  <1>10. CASE AllocateBump(len)
    <2>1. free_blocks' = free_blocks /\ offset' = offset + len /\ off = offset
      BY <1>2, <1>7, <1>8, <1>10 DEF AllocateBump, Hold
    <2>2. \A c \in free_blocks : Top(c) # r.off /\ c.off # Top(r)
      BY <1>2, <1>4, <1>6, <1>8, <2>1 DEF SpillInv, IndInv, NoAliasing, Tight, Top
    <2>3. Bumped(RangeOf(writing))'
      BY <1>3, <1>6, <2>1, <2>2 DEF Bumped, Neighbours, r
    <2>4. QED
      BY <2>3
  <1>11. CASE AllocateOom(len)
    BY <1>1, <1>11 DEF AllocateOom, Given
  <1>12. QED
    BY <1>1, <1>9, <1>10, <1>11 DEF Allocate, len

(* A failed write undoes exactly that.                                     *)
LEMMA FailWriteUndoes ==
  ASSUME SpillInv, Traced, FailWrite
  PROVE  offset' = writing.mark /\ free_blocks' = writing.blocks
  <1> DEFINE r == RangeOf(writing)
  <1>1. writing # Nothing /\ writing \in Out /\ FreeRange(r)
    BY DEF FailWrite, Free, RangeOf, Out
  <1>2. r \in held
    BY <1>1, OutIsHeld
  <1>3. Bumped(r) \/ TookBlock(r) \/ TookHead(r)
    BY <1>1 DEF Traced
  <1> HIDE DEF r
  <1>4. ~Dropped(r)
    BY <1>2, HeldIsNotDropped DEF SpillInv
  <1>5. /\ r \in Block /\ r.off \in Nat /\ r.len \in Nat /\ r.len > 0
        /\ \A b \in free_blocks : b.off \in Nat /\ b.len \in Nat /\ b.len > 0
    BY <1>2 DEF SpillInv, IndInv, TypeOK, Block
  <1>6. ASSUME Neighbours(r) = {}
        PROVE  Merged(r) = r
    <2>1. /\ {b \in free_blocks : Top(b) = r.off} = {}
          /\ {b \in free_blocks : b.off = Top(r)} = {}
      BY <1>6 DEF Neighbours
    <2>2. Merged(r) = Ranges(r.off, Top(r) - r.off)
      BY <2>1 DEF Merged
    <2>3. Top(r) - r.off = r.len
      BY <1>5 DEF Top
    <2>4. QED
      BY <1>5, <2>2, <2>3 DEF Ranges, Block
  <1>7. CASE Bumped(r)
    BY <1>1, <1>4, <1>6, <1>7 DEF Bumped, FreeRange
  <1>8. CASE TookBlock(r)
    BY <1>1, <1>4, <1>6, <1>8 DEF TookBlock, FreeRange
  <1>9. CASE TookHead(r)
    <2>1. PICK t \in free_blocks :
            /\ Neighbours(r) = {t} /\ t.off = Top(r) /\ Top(t) # offset
            /\ writing.blocks = (free_blocks \ {t}) \cup {Ranges(r.off, r.len + t.len)}
      BY <1>9 DEF TookHead
    <2>2. Top(t) # r.off
      BY <1>5, <2>1 DEF Top
    <2>3. /\ {b \in free_blocks : Top(b) = r.off} = {}
          /\ {b \in free_blocks : b.off = Top(r)} = {t}
      BY <2>1, <2>2 DEF Neighbours
    <2>4. Merged(r) = Ranges(r.off, Top(t) - r.off)
      BY <2>3 DEF Merged
    <2>5. Top(t) - r.off = r.len + t.len
      BY <1>5, <2>1 DEF Top
    <2>6. Merged(r) = Ranges(r.off, r.len + t.len)
      BY <2>4, <2>5
    <2>7. Top(Merged(r)) = Top(t)
      BY <1>5, <2>1, <2>6 DEF Ranges, Top
    <2>8. QED
      BY <1>1, <1>4, <1>9, <2>1, <2>6, <2>7 DEF TookHead, FreeRange
  <1>10. QED
    BY <1>3, <1>7, <1>8, <1>9

(* A write that fails leaves the allocator exactly as it was, its free     *)
(* list and mark included.                                                 *)
THEOREM FailedWriteLeavesNoTraceTheorem ==
  ASSUME ~Careless
  PROVE  SpillSpec => FailedWriteLeavesNoTrace
  <1>1. SpillInit => Traced
    BY DEF SpillInit, Traced
  <1>2. SpillInv /\ Traced /\ [SpillNext]_allVars => Traced'
    <2> SUFFICES ASSUME SpillInv, Traced, [SpillNext]_allVars, writing' # Nothing
                 PROVE  Traced'
      BY DEF Traced
    <2>1. ASSUME NEW bytes \in Requests, NEW val \in Contents, BeginWrite(bytes, val)
          PROVE  Traced'
      BY <2>1, BeginWriteTraced
    <2>2. CASE UNCHANGED allVars
      BY <2>2 DEF allVars, Traced, Bumped, TookBlock, TookHead, Neighbours, RangeOf
    <2>3. QED
      BY <2>1, <2>2
      DEF SpillNext, Attach, Reserve, EndWrite, FailWrite, WriteAt, FreePage, FreeStray,
          fileVars
  <1>3. SpillInv /\ Traced =>
          [FailWrite => offset' = writing.mark /\ free_blocks' = writing.blocks]_allVars
    BY FailWriteUndoes
  <1>4. QED
    BY <1>1, <1>2, <1>3, SpillInductive, PTL DEF SpillSpec, FailedWriteLeavesNoTrace
=============================================================================
