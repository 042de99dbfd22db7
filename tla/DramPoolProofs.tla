--------------------------- MODULE DramPoolProofs ---------------------------
(***************************************************************************)
(* Proofs about DramPool for every capacity, alignment, base address and   *)
(* set of request sizes: its list edited by index stays sorted and         *)
(* coalesced, and it does what RangeAllocator does with a set.             *)
(***************************************************************************)
EXTENDS DramPool, FiniteSetTheorems, SequenceTheorems, WellFoundedInduction, TLAPS

Blk == Nat \X (Nat \ {0})

(* Blocks one after the other, which touch at the indices T only.          *)
Ordered(s, T) ==
  /\ s \in Seq(Blk)
  /\ \A i, j \in DOMAIN s : i < j => /\ End(s[i]) <= Off(s[j])
                                     /\ End(s[i]) = Off(s[j]) => i \in T

HeldType == [ptr : Nat, len : Nat \ {0}]

(* The inductive invariant: the list is strictly ordered below the mark,   *)
(* and callers hold ranges of this mapping.                                *)
PoolInv ==
  /\ offset \in 0 .. Capacity
  /\ Ordered(free_blocks, {})
  /\ \A i \in DOMAIN free_blocks : End(free_blocks[i]) < offset
  /\ held \subseteq HeldType
  /\ \A r \in held : base_ptr <= r.ptr /\ r.ptr + r.len <= base_ptr + Capacity

-----------------------------------------------------------------------------
(* Blocks. *)
LEMMA BlkIs ==
  /\ \A b \in Blk : /\ Off(b) \in Nat /\ Len_(b) \in Nat \ {0} /\ End(b) = Off(b) + Len_(b)
                    /\ b = <<Off(b), Len_(b)>>
  /\ \A o \in Nat, l \in Nat \ {0} : /\ <<o, l>> \in Blk
                                     /\ Off(<<o, l>>) = o /\ Len_(<<o, l>>) = l
                                     /\ End(<<o, l>>) = o + l
  BY DEF Blk, Off, Len_, End

LEMMA BlockOf ==
  ASSUME NEW s \in Seq(Blk), NEW i \in DOMAIN s
  PROVE  /\ s[i] \in Blk /\ Off(s[i]) \in Nat /\ Len_(s[i]) \in Nat \ {0}
         /\ End(s[i]) = Off(s[i]) + Len_(s[i])
         /\ i \in 1 .. Len(s) /\ Len(s) \in Nat
  <1>1. s[i] \in Blk /\ i \in 1 .. Len(s) /\ Len(s) \in Nat
    BY ElementOfSeq, LenProperties
  <1>2. QED
    BY <1>1, BlkIs

LEMMA AlignedIsNat == ASSUME NEW bytes \in Nat PROVE Aligned(bytes) \in Nat
  <1>1. bytes + ALIGN - 1 \in Nat
    BY PoolAssumption
  <1>2. (bytes + ALIGN - 1) \div ALIGN \in Nat
    BY <1>1, PoolAssumption
  <1>3. QED
    BY <1>2, PoolAssumption DEF Aligned

-----------------------------------------------------------------------------
(* The edits by index of the code's Vec. *)
LEMMA RemoveAtIs ==
  ASSUME NEW s \in Seq(Blk), NEW k \in 1 .. Len(s)
  PROVE  /\ RemoveAt(s, k) \in Seq(Blk) /\ Len(RemoveAt(s, k)) = Len(s) - 1
         /\ DOMAIN RemoveAt(s, k) = 1 .. Len(s) - 1
         /\ \A i \in 1 .. Len(s) - 1 :
              RemoveAt(s, k)[i] = IF i < k THEN s[i] ELSE s[i + 1]
  <1> DEFINE a == SubSeq(s, 1, k - 1)
             b == SubSeq(s, k + 1, Len(s))
  <1>1. Len(s) \in Nat /\ k \in Nat /\ k >= 1 /\ k <= Len(s)
    BY LenProperties
  <1>2. /\ a \in Seq(Blk) /\ Len(a) = k - 1
        /\ \A i \in 1 .. k - 1 : a[i] = s[i]
    BY <1>1, SubSeqProperties
  <1>3. /\ b \in Seq(Blk) /\ Len(b) = Len(s) - k
        /\ \A i \in 1 .. Len(s) - k : b[i] = s[k + i]
    BY <1>1, SubSeqProperties
  <1> HIDE DEF a, b
  <1>4. /\ a \o b \in Seq(Blk) /\ Len(a \o b) = Len(s) - 1
        /\ \A i \in 1 .. Len(s) - 1 :
             (a \o b)[i] = IF i <= k - 1 THEN a[i] ELSE b[i - (k - 1)]
    <2>1. a \in Seq(Blk) /\ b \in Seq(Blk)
      BY <1>2, <1>3
    <2>2. /\ a \o b \in Seq(Blk) /\ Len(a \o b) = Len(a) + Len(b)
          /\ \A i \in 1 .. Len(a) + Len(b) :
               (a \o b)[i] = IF i <= Len(a) THEN a[i] ELSE b[i - Len(a)]
      BY ONLY <2>1, ConcatProperties
    <2>3. Len(a) + Len(b) = Len(s) - 1 /\ Len(a) = k - 1
      BY <1>1, <1>2, <1>3
    <2>4. QED
      BY <2>2, <2>3
  <1>5. ASSUME NEW i \in 1 .. Len(s) - 1
        PROVE  (a \o b)[i] = IF i < k THEN s[i] ELSE s[i + 1]
    <2>1. CASE i < k
      BY <1>1, <1>2, <1>4, <2>1
    <2>2. CASE ~(i < k)
      <3>1. i - (k - 1) \in 1 .. Len(s) - k /\ k + (i - (k - 1)) = i + 1
        BY <1>1, <2>2
      <3>2. QED
        BY <1>3, <1>4, <2>2, <3>1
    <2>3. QED
      BY <2>1, <2>2
  <1>6. RemoveAt(s, k) = a \o b
    BY DEF RemoveAt, a, b
  <1>7. DOMAIN (a \o b) = 1 .. Len(s) - 1
    BY <1>4, LenProperties
  <1>8. QED
    BY <1>4, <1>5, <1>6, <1>7

LEMMA InsertAtIs ==
  ASSUME NEW s \in Seq(Blk), NEW k \in 1 .. Len(s) + 1, NEW e \in Blk
  PROVE  /\ InsertAt(s, k, e) \in Seq(Blk) /\ Len(InsertAt(s, k, e)) = Len(s) + 1
         /\ DOMAIN InsertAt(s, k, e) = 1 .. Len(s) + 1
         /\ \A i \in 1 .. Len(s) + 1 :
              InsertAt(s, k, e)[i] = IF i < k THEN s[i] ELSE IF i = k THEN e ELSE s[i - 1]
  <1> DEFINE a == SubSeq(s, 1, k - 1)
             b == SubSeq(s, k, Len(s))
             c == a \o <<e>>
  <1>1. Len(s) \in Nat /\ k \in Nat /\ k >= 1 /\ k <= Len(s) + 1
    BY LenProperties
  <1>2. /\ a \in Seq(Blk) /\ Len(a) = k - 1
        /\ \A i \in 1 .. k - 1 : a[i] = s[i]
    BY <1>1, SubSeqProperties
  <1>3. /\ b \in Seq(Blk) /\ Len(b) = Len(s) - k + 1
        /\ \A i \in 1 .. Len(s) - k + 1 : b[i] = s[k + i - 1]
    BY <1>1, SubSeqProperties
  <1>4. <<e>> \in Seq(Blk) /\ Len(<<e>>) = 1 /\ <<e>>[1] = e
    OBVIOUS
  <1> HIDE DEF a, b
  <1>5. /\ c \in Seq(Blk) /\ Len(c) = k
        /\ \A i \in 1 .. k : c[i] = IF i < k THEN a[i] ELSE <<e>>[i - (k - 1)]
    BY <1>1, <1>2, <1>4, ConcatProperties
  <1>6. c[k] = e /\ \A i \in 1 .. k - 1 : c[i] = s[i]
    BY <1>1, <1>2, <1>4, <1>5
  <1> HIDE DEF c
  <1>7. /\ c \o b \in Seq(Blk) /\ Len(c \o b) = Len(s) + 1
        /\ \A i \in 1 .. Len(s) + 1 : (c \o b)[i] = IF i <= k THEN c[i] ELSE b[i - k]
    BY <1>1, <1>3, <1>5, ConcatProperties
  <1>8. ASSUME NEW i \in 1 .. Len(s) + 1
        PROVE  (c \o b)[i] = IF i < k THEN s[i] ELSE IF i = k THEN e ELSE s[i - 1]
    <2>1. CASE i <= k
      BY <1>1, <1>6, <1>7, <2>1
    <2>2. CASE ~(i <= k)
      <3>1. i - k \in 1 .. Len(s) - k + 1 /\ k + (i - k) - 1 = i - 1
        BY <1>1, <2>2
      <3>2. QED
        BY <1>1, <1>3, <1>7, <2>2, <3>1
    <2>3. QED
      BY <2>1, <2>2
  <1>9. InsertAt(s, k, e) = c \o b
    BY DEF InsertAt, a, b, c
  <1>10. DOMAIN (c \o b) = 1 .. Len(s) + 1
    BY <1>7, LenProperties
  <1>11. QED
    BY <1>7, <1>8, <1>9, <1>10

LEMMA ReplaceAtIs ==
  ASSUME NEW s \in Seq(Blk), NEW k \in 1 .. Len(s), NEW e \in Blk
  PROVE  /\ ReplaceAt(s, k, e) \in Seq(Blk) /\ Len(ReplaceAt(s, k, e)) = Len(s)
         /\ DOMAIN ReplaceAt(s, k, e) = 1 .. Len(s)
         /\ \A i \in 1 .. Len(s) : ReplaceAt(s, k, e)[i] = IF i = k THEN e ELSE s[i]
  <1>1. DOMAIN s = 1 .. Len(s) /\ Len(s) \in Nat
    BY LenProperties
  <1>2. ReplaceAt(s, k, e) \in Seq(Blk) /\ Len(ReplaceAt(s, k, e)) = Len(s)
    BY <1>1, ExceptSeq DEF ReplaceAt
  <1>3. QED
    BY <1>1, <1>2 DEF ReplaceAt

(* A non-empty set of naturals has a least element. *)
LEMMA LeastElement ==
  ASSUME NEW S, S \subseteq Nat, S # {}
  PROVE  \E x \in S : \A y \in S : x <= y
  <1>1. PICK x \in S : \A y \in S : ~(<<y, x>> \in OpToRel(<, Nat))
    BY NatLessThanWellFounded, WFMin
  <1>2. \A y \in S : <<y, x>> \in Nat \X Nat
    OBVIOUS
  <1>3. \A y \in S : ~(y < x)
    BY <1>1, <1>2 DEF OpToRel
  <1>4. QED
    BY <1>3

-----------------------------------------------------------------------------
(* partition_point splits the list at off. *)
LEMMA PositionIs ==
  ASSUME NEW T, Ordered(free_blocks, T), NEW off \in Nat
  PROVE  /\ Position(off) \in 0 .. Len(free_blocks)
         /\ \A i \in 1 .. Len(free_blocks) :
              (i <= Position(off)) <=> (Off(free_blocks[i]) < off)
  <1> DEFINE n == Len(free_blocks)
             S == {i \in DOMAIN free_blocks : Off(free_blocks[i]) < off}
             U == {i \in 1 .. n + 1 : i = n + 1 \/ ~(Off(free_blocks[i]) < off)}
  <1>1. free_blocks \in Seq(Blk) /\ n \in Nat /\ DOMAIN free_blocks = 1 .. n
    BY LenProperties DEF Ordered
  <1>2. PICK m \in U : \A y \in U : m <= y
    <2>1. U \subseteq Nat /\ n + 1 \in U
      BY <1>1
    <2>2. U # {}
      BY <2>1
    <2> HIDE DEF U
    <2>3. QED
      BY <2>1, <2>2, LeastElement
  <1>3. m \in 1 .. n + 1 /\ \A i \in 1 .. n : i < m => Off(free_blocks[i]) < off
    BY <1>1, <1>2
  <1>4. ASSUME NEW i \in 1 .. n, m <= i PROVE ~(Off(free_blocks[i]) < off)
    <2>1. m \in DOMAIN free_blocks /\ i \in DOMAIN free_blocks /\ m \in Nat /\ i \in Nat
      BY <1>1, <1>3, <1>4
    <2>2. ~(Off(free_blocks[m]) < off)
      BY <1>1, <1>2, <2>1
    <2>3. /\ Off(free_blocks[m]) \in Nat /\ Off(free_blocks[i]) \in Nat
          /\ Len_(free_blocks[m]) \in Nat /\ End(free_blocks[m]) = Off(free_blocks[m]) + Len_(free_blocks[m])
      BY <1>1, <2>1, BlockOf
    <2>4. m < i => End(free_blocks[m]) <= Off(free_blocks[i])
      BY <2>1 DEF Ordered
    <2>5. QED
      BY <1>4, <2>1, <2>2, <2>3, <2>4
  <1>5. S = 1 .. m - 1
    BY <1>1, <1>3, <1>4
  <1>6. Cardinality(1 .. m - 1) = m - 1
    BY <1>1, <1>3, FS_Interval
  <1>7. Position(off) = m - 1
    BY <1>5, <1>6 DEF Position
  <1> HIDE DEF S, U
  <1>8. QED
    BY <1>1, <1>3, <1>4, <1>7

(* One block is absorbed by the one before it when they touch, and then    *)
(* they touch no more.                                                     *)
Touching(s, i) == i >= 1 /\ i < Len(s) /\ End(s[i]) = Off(s[i + 1])
Union(b, c) == <<Off(b), Len_(b) + Len_(c)>>

LEMMA UnionIs ==
  ASSUME NEW b \in Blk, NEW c \in Blk, End(b) = Off(c)
  PROVE  Union(b, c) \in Blk /\ Off(Union(b, c)) = Off(b) /\ End(Union(b, c)) = End(c)
  <1>1. /\ Off(b) \in Nat /\ Len_(b) \in Nat \ {0} /\ End(b) = Off(b) + Len_(b)
        /\ Off(c) \in Nat /\ Len_(c) \in Nat \ {0} /\ End(c) = Off(c) + Len_(c)
    BY BlkIs
  <1>2. Len_(b) + Len_(c) \in Nat \ {0}
    BY <1>1
  <1>3. QED
    BY <1>1, <1>2, BlkIs DEF Union

LEMMA CoalescedList ==
  ASSUME NEW s \in Seq(Blk), NEW i \in Nat, Touching(s, i)
  PROVE  LET c == CoalesceAt(s, i)
         IN  /\ c \in Seq(Blk) /\ Len(c) = Len(s) - 1 /\ DOMAIN c = 1 .. Len(s) - 1
             /\ c[i] = Union(s[i], s[i + 1])
             /\ \A j \in 1 .. Len(s) - 1 :
                  c[j] = IF j < i THEN s[j] ELSE IF j = i THEN Union(s[i], s[i + 1]) ELSE s[j + 1]
  <1> DEFINE u == Union(s[i], s[i + 1])
             r == ReplaceAt(s, i, u)
  <1>1. Len(s) \in Nat /\ DOMAIN s = 1 .. Len(s) /\ i \in 1 .. Len(s) /\ i + 1 \in 1 .. Len(s)
    BY LenProperties DEF Touching
  <1>2. u \in Blk
    BY <1>1, BlockOf, UnionIs DEF Touching
  <1>3. CoalesceAt(s, i) = RemoveAt(r, i + 1)
    BY DEF CoalesceAt, Touching, Union
  <1> HIDE DEF u
  <1> HIDE DEF r
  <1>4. /\ r \in Seq(Blk) /\ Len(r) = Len(s)
        /\ \A j \in 1 .. Len(s) : r[j] = IF j = i THEN u ELSE s[j]
    <2>1. r = ReplaceAt(s, i, u)
      BY DEF r
    <2>2. i \in 1 .. Len(s)
      BY <1>1
    <2>3. /\ ReplaceAt(s, i, u) \in Seq(Blk) /\ Len(ReplaceAt(s, i, u)) = Len(s)
          /\ DOMAIN ReplaceAt(s, i, u) = 1 .. Len(s)
          /\ \A j \in 1 .. Len(s) : ReplaceAt(s, i, u)[j] = IF j = i THEN u ELSE s[j]
      BY ONLY s \in Seq(Blk), <1>2, <2>2, ReplaceAtIs, SMTT(30)
    <2>4. QED
      BY <2>1, <2>3
  <1>5. /\ RemoveAt(r, i + 1) \in Seq(Blk) /\ Len(RemoveAt(r, i + 1)) = Len(s) - 1
        /\ DOMAIN RemoveAt(r, i + 1) = 1 .. Len(s) - 1
        /\ \A j \in 1 .. Len(s) - 1 :
             RemoveAt(r, i + 1)[j] = IF j < i + 1 THEN r[j] ELSE r[j + 1]
    <2> DEFINE k == i + 1
    <2>1. r \in Seq(Blk) /\ k \in 1 .. Len(r)
      BY <1>1, <1>4
    <2> HIDE DEF k
    <2>2. /\ RemoveAt(r, k) \in Seq(Blk) /\ Len(RemoveAt(r, k)) = Len(r) - 1
          /\ DOMAIN RemoveAt(r, k) = 1 .. Len(r) - 1
          /\ \A j \in 1 .. Len(r) - 1 : RemoveAt(r, k)[j] = IF j < k THEN r[j] ELSE r[j + 1]
      BY ONLY <2>1, RemoveAtIs
    <2>3. QED
      BY <1>4, <2>2 DEF k
  <1>6. \A j \in 1 .. Len(s) - 1 :
          RemoveAt(r, i + 1)[j] = IF j < i THEN s[j] ELSE IF j = i THEN u ELSE s[j + 1]
    BY <1>1, <1>4, <1>5
  <1>7. i \in 1 .. Len(s) - 1
    BY <1>1
  <1>8. RemoveAt(r, i + 1)[i] = u
    BY <1>6, <1>7
  <1>9. QED
    BY <1>3, <1>5, <1>6, <1>8 DEF u

LEMMA Coalesced ==
  ASSUME NEW T, NEW s, Ordered(s, T), NEW i \in Nat, i <= Len(s), \A t \in T : t \in Nat /\ t <= i
  PROVE  LET c == CoalesceAt(s, i)
         IN  /\ Ordered(c, T \ {i})
             /\ ~Touching(s, i) => c = s
             /\ Touching(s, i) => ToSet(c) = (ToSet(s) \ {s[i], s[i + 1]}) \cup {Union(s[i], s[i + 1])}
  <1> DEFINE c == CoalesceAt(s, i)
  <1>1. s \in Seq(Blk) /\ Len(s) \in Nat /\ DOMAIN s = 1 .. Len(s)
    BY LenProperties DEF Ordered
  <1>2. CASE ~Touching(s, i)
    <2>1. c = s
      BY <1>2 DEF CoalesceAt, Touching
    <2>2. ASSUME NEW j \in DOMAIN s, NEW k \in DOMAIN s, j < k, End(s[j]) = Off(s[k])
          PROVE  j # i
      <3>1. SUFFICES ASSUME j = i PROVE FALSE
        OBVIOUS
      <3>2. i + 1 \in DOMAIN s /\ j \in Nat /\ k \in Nat /\ i >= 1 /\ i < Len(s) /\ i + 1 <= k
        BY <1>1, <2>2, <3>1
      <3>3. End(s[i]) # Off(s[i + 1])
        BY <1>2, <3>2 DEF Touching
      <3>4. End(s[i]) <= Off(s[i + 1])
        BY <3>1, <3>2 DEF Ordered
      <3>5. i + 1 < k => End(s[i + 1]) <= Off(s[k])
        BY <3>2 DEF Ordered
      <3>6. /\ End(s[i + 1]) = Off(s[i + 1]) + Len_(s[i + 1]) /\ Off(s[i + 1]) \in Nat
            /\ Len_(s[i + 1]) \in Nat /\ Off(s[k]) \in Nat /\ End(s[i]) = Off(s[i]) + Len_(s[i])
            /\ Off(s[i]) \in Nat /\ Len_(s[i]) \in Nat
        BY <1>1, <3>1, <3>2, BlockOf
      <3>7. CASE i + 1 < k
        BY <2>2, <3>1, <3>3, <3>4, <3>5, <3>6, <3>7
      <3>8. CASE i + 1 = k
        BY <2>2, <3>1, <3>3, <3>8
      <3>9. QED
        BY <3>2, <3>7, <3>8
    <2>3. Ordered(s, T \ {i})
      BY <2>2 DEF Ordered
    <2>4. QED
      BY <1>2, <2>1, <2>3
  <1>3. CASE Touching(s, i)
    <2> DEFINE u == Union(s[i], s[i + 1])
    <2>1. /\ c \in Seq(Blk) /\ Len(c) = Len(s) - 1 /\ DOMAIN c = 1 .. Len(s) - 1
          /\ \A j \in 1 .. Len(s) - 1 : c[j] = IF j < i THEN s[j] ELSE IF j = i THEN u ELSE s[j + 1]
      BY <1>1, <1>3, CoalescedList
    <2>2. /\ i \in 1 .. Len(s) /\ i + 1 \in 1 .. Len(s) /\ End(s[i]) = Off(s[i + 1])
      BY <1>1, <1>3 DEF Touching
    <2>3. u \in Blk /\ Off(u) = Off(s[i]) /\ End(u) = End(s[i + 1])
      BY <1>1, <2>2, BlockOf, UnionIs
    <2> HIDE DEF u, c
    <2>4. ASSUME NEW j \in DOMAIN c, NEW k \in DOMAIN c, j < k
          PROVE  End(c[j]) <= Off(c[k]) /\ (End(c[j]) = Off(c[k]) => j \in T \ {i})
      <3> DEFINE J == IF j < i THEN j ELSE j + 1
                 K == IF k <= i THEN k ELSE k + 1
      <3>1. j \in Nat /\ k \in Nat /\ J \in DOMAIN s /\ K \in DOMAIN s /\ J < K
            /\ (j < i => J = j) /\ (j >= i => J > i)
        BY <1>1, <2>1, <2>2, <2>4
      <3>2. End(c[j]) = End(s[J])
        BY <2>1, <2>3, <3>1
      <3>3. Off(c[k]) = Off(s[K])
        BY <2>1, <2>3, <3>1
      <3> HIDE DEF J, K
      <3>4. End(s[J]) <= Off(s[K]) /\ (End(s[J]) = Off(s[K]) => J \in T)
        BY <3>1 DEF Ordered
      <3>5. J \in T => J \in Nat /\ J <= i
        OBVIOUS
      <3>6. QED
        BY <3>1, <3>2, <3>3, <3>4, <3>5
    <2>5. Ordered(c, T \ {i})
      BY <2>1, <2>4 DEF Ordered
    <2>6. ASSUME NEW j \in DOMAIN s, NEW k \in DOMAIN s, j # k PROVE s[j] # s[k]
      <3>1. /\ End(s[j]) = Off(s[j]) + Len_(s[j]) /\ Off(s[j]) \in Nat /\ Len_(s[j]) \in Nat \ {0}
            /\ End(s[k]) = Off(s[k]) + Len_(s[k]) /\ Off(s[k]) \in Nat /\ Len_(s[k]) \in Nat \ {0}
            /\ j \in Nat /\ k \in Nat
        BY <1>1, BlockOf
      <3>2. (j < k => End(s[j]) <= Off(s[k])) /\ (k < j => End(s[k]) <= Off(s[j]))
        BY DEF Ordered
      <3>3. QED
        BY <2>6, <3>1, <3>2
    <2>7. ToSet(c) = (ToSet(s) \ {s[i], s[i + 1]}) \cup {u}
      <3>1. ASSUME NEW b \in ToSet(c) PROVE b \in (ToSet(s) \ {s[i], s[i + 1]}) \cup {u}
        <4>1. PICK j \in DOMAIN c : b = c[j]
          BY DEF ToSet
        <4>2. CASE j < i
          <5>1. j \in DOMAIN s /\ j # i /\ j # i + 1 /\ b = s[j]
            BY <1>1, <2>1, <2>2, <4>1, <4>2
          <5>2. QED
            BY <1>1, <2>2, <2>6, <5>1 DEF ToSet
        <4>3. CASE j = i
          BY <2>1, <4>1, <4>3
        <4>4. CASE j > i
          <5>1. j + 1 \in DOMAIN s /\ j + 1 # i /\ j + 1 # i + 1 /\ b = s[j + 1]
            BY <1>1, <2>1, <2>2, <4>1, <4>4
          <5>2. QED
            BY <1>1, <2>2, <2>6, <5>1 DEF ToSet
        <4>5. QED
          BY <1>1, <2>1, <4>2, <4>3, <4>4
      <3>2. ASSUME NEW j \in DOMAIN s, j # i, j # i + 1 PROVE s[j] \in ToSet(c)
        <4>1. CASE j < i
          <5>1. j \in DOMAIN c /\ c[j] = s[j]
            BY <1>1, <2>1, <2>2, <4>1
          <5>2. QED
            BY <5>1 DEF ToSet
        <4>2. CASE j > i + 1
          <5>1. j - 1 \in DOMAIN c /\ c[j - 1] = s[j]
            BY <1>1, <2>1, <2>2, <4>2
          <5>2. QED
            BY <5>1 DEF ToSet
        <4>3. QED
          BY <1>1, <2>2, <3>2, <4>1, <4>2
      <3>3. u \in ToSet(c)
        <4>1. i \in DOMAIN c /\ c[i] = u
          BY <1>1, <2>1, <2>2
        <4>2. QED
          BY <4>1 DEF ToSet
      <3>4. QED
        BY <3>1, <3>2, <3>3 DEF ToSet
    <2>8. QED
      BY <1>3, <2>5, <2>7 DEF c, u
  <1>4. QED
    BY <1>2, <1>3

-----------------------------------------------------------------------------
(* A range that free accepts lies in the gap between two blocks. *)
Left(off) == Position(off) >= 1 /\ End(free_blocks[Position(off)]) = off
Right(off, len) ==
  Position(off) < Len(free_blocks) /\ Off(free_blocks[Position(off) + 1]) = off + len

Gap(off, len) ==
  \A i \in DOMAIN free_blocks :
    IF i <= Position(off) THEN End(free_blocks[i]) <= off
    ELSE off + len <= Off(free_blocks[i])

LEMMA Listed ==
  ASSUME PoolInv
  PROVE  /\ free_blocks \in Seq(Blk) /\ Len(free_blocks) \in Nat
         /\ DOMAIN free_blocks = 1 .. Len(free_blocks)
         /\ offset \in Nat /\ Capacity \in Nat /\ base_ptr \in Nat
         /\ \A i \in DOMAIN free_blocks :
              /\ free_blocks[i] \in Blk /\ i \in Nat
              /\ Off(free_blocks[i]) \in Nat /\ Len_(free_blocks[i]) \in Nat \ {0}
              /\ End(free_blocks[i]) = Off(free_blocks[i]) + Len_(free_blocks[i])
         /\ \A i, j \in DOMAIN free_blocks :
              i < j => End(free_blocks[i]) < Off(free_blocks[j])
  <1>1. free_blocks \in Seq(Blk) /\ offset \in Nat
    BY PoolAssumption DEF PoolInv, Ordered
  <1>2. Len(free_blocks) \in Nat /\ DOMAIN free_blocks = 1 .. Len(free_blocks)
    BY <1>1, LenProperties
  <1>3. \A i \in DOMAIN free_blocks :
          /\ free_blocks[i] \in Blk /\ i \in Nat
          /\ Off(free_blocks[i]) \in Nat /\ Len_(free_blocks[i]) \in Nat \ {0}
          /\ End(free_blocks[i]) = Off(free_blocks[i]) + Len_(free_blocks[i])
    BY <1>1, <1>2, BlockOf
  <1>4. ASSUME NEW i \in DOMAIN free_blocks, NEW j \in DOMAIN free_blocks, i < j
        PROVE  End(free_blocks[i]) < Off(free_blocks[j])
    <2>1. End(free_blocks[i]) <= Off(free_blocks[j]) /\ End(free_blocks[i]) # Off(free_blocks[j])
      BY <1>4 DEF PoolInv, Ordered
    <2>2. QED
      BY <1>3, <2>1
  <1>5. QED
    BY <1>1, <1>2, <1>3, <1>4, PoolAssumption

LEMMA GapIs ==
  ASSUME PoolInv, NEW off \in Nat, NEW len \in Nat \ {0}
  PROVE  /\ Position(off) \in 0 .. Len(free_blocks)
         /\ Gap(off, len) <=>
              /\ ~(Position(off) < Len(free_blocks) /\ off + len > Off(free_blocks[Position(off) + 1]))
              /\ ~(Position(off) > 0 /\ End(free_blocks[Position(off)]) > off)
         /\ Gap(off, len) <=>
              \A i \in DOMAIN free_blocks :
                ~(Off(free_blocks[i]) < off + len /\ off < End(free_blocks[i]))
         /\ Gap(off, len) =>
              \A i \in DOMAIN free_blocks :
                /\ End(free_blocks[i]) = off <=> Left(off) /\ i = Position(off)
                /\ Off(free_blocks[i]) = off + len <=> Right(off, len) /\ i = Position(off) + 1
  <1> DEFINE n == Len(free_blocks)
             pos == Position(off)
             fb == free_blocks
  <1>1. /\ n \in Nat /\ DOMAIN fb = 1 .. n
        /\ \A i \in 1 .. n : /\ Off(fb[i]) \in Nat /\ Len_(fb[i]) \in Nat \ {0}
                             /\ End(fb[i]) = Off(fb[i]) + Len_(fb[i])
        /\ \A i, j \in 1 .. n : i < j => End(fb[i]) < Off(fb[j])
    BY Listed
  <1>2. pos \in 0 .. n /\ \A i \in 1 .. n : (i <= pos) <=> (Off(fb[i]) < off)
    BY PositionIs DEF PoolInv
  <1>3. Gap(off, len) <=> \A i \in 1 .. n : IF i <= pos THEN End(fb[i]) <= off ELSE off + len <= Off(fb[i])
    BY <1>1 DEF Gap
  <1>4. /\ Left(off) <=> pos >= 1 /\ End(fb[pos]) = off
        /\ Right(off, len) <=> pos < n /\ Off(fb[pos + 1]) = off + len
    BY DEF Left, Right
  <1> HIDE DEF n, pos, fb
  <1>5. ASSUME Gap(off, len)
        PROVE  ~(pos < n /\ off + len > Off(fb[pos + 1])) /\ ~(pos > 0 /\ End(fb[pos]) > off)
    <2>1. pos < n => off + len <= Off(fb[pos + 1]) /\ Off(fb[pos + 1]) \in Nat
      BY <1>1, <1>2, <1>3, <1>5
    <2>2. pos > 0 => End(fb[pos]) <= off /\ End(fb[pos]) \in Nat
      BY <1>1, <1>2, <1>3, <1>5
    <2>3. QED
      BY <2>1, <2>2
  <1>6. ASSUME ~(pos < n /\ off + len > Off(fb[pos + 1])), ~(pos > 0 /\ End(fb[pos]) > off)
        PROVE  Gap(off, len)
    <2>1. SUFFICES ASSUME NEW i \in 1 .. n
                   PROVE  IF i <= pos THEN End(fb[i]) <= off ELSE off + len <= Off(fb[i])
      BY <1>3
    <2>2. CASE i <= pos
      <3>1. pos \in 1 .. n /\ (i = pos \/ i < pos)
        BY <1>1, <1>2, <2>2
      <3>2. End(fb[pos]) <= off
        BY <1>1, <1>6, <3>1
      <3>3. i < pos => End(fb[i]) < Off(fb[pos])
        BY <1>1, <3>1
      <3>4. QED
        BY <1>1, <2>2, <3>1, <3>2, <3>3
    <2>3. CASE ~(i <= pos)
      <3>1. pos + 1 \in 1 .. n /\ (i = pos + 1 \/ pos + 1 < i)
        BY <1>1, <1>2, <2>3
      <3>2. off + len <= Off(fb[pos + 1])
        BY <1>1, <1>2, <1>6, <3>1
      <3>3. pos + 1 < i => End(fb[pos + 1]) < Off(fb[i])
        BY <1>1, <3>1
      <3>4. QED
        BY <1>1, <2>3, <3>1, <3>2, <3>3
    <2>4. QED
      BY <2>2, <2>3
  <1>7. ASSUME NEW i \in 1 .. n
        PROVE  (IF i <= pos THEN End(fb[i]) <= off ELSE off + len <= Off(fb[i]))
                 <=> ~(Off(fb[i]) < off + len /\ off < End(fb[i]))
    BY <1>1, <1>2
  <1>8. ASSUME Gap(off, len), NEW i \in 1 .. n
        PROVE  /\ End(fb[i]) = off <=> Left(off) /\ i = pos
               /\ Off(fb[i]) = off + len <=> Right(off, len) /\ i = pos + 1
    <2>1. IF i <= pos THEN End(fb[i]) <= off ELSE off + len <= Off(fb[i])
      BY <1>3, <1>8
    <2>2. End(fb[i]) = off => i = pos
      <3>1. SUFFICES ASSUME End(fb[i]) = off, i # pos PROVE FALSE
        OBVIOUS
      <3>2. i < pos
        BY <1>1, <1>2, <3>1
      <3>3. pos \in 1 .. n /\ End(fb[i]) < Off(fb[pos]) /\ Off(fb[pos]) < off
        BY <1>1, <1>2, <3>2
      <3>4. QED
        BY <1>1, <3>1, <3>3
    <2>3. Off(fb[i]) = off + len => i = pos + 1
      <3>1. SUFFICES ASSUME Off(fb[i]) = off + len, i # pos + 1 PROVE FALSE
        OBVIOUS
      <3>2. i > pos + 1 /\ pos + 1 \in 1 .. n
        BY <1>1, <1>2, <3>1
      <3>3. End(fb[pos + 1]) < Off(fb[i]) /\ off + len <= Off(fb[pos + 1])
        BY <1>1, <1>2, <1>3, <1>8, <3>2
      <3>4. /\ Off(fb[pos + 1]) \in Nat /\ Len_(fb[pos + 1]) \in Nat
            /\ End(fb[pos + 1]) = Off(fb[pos + 1]) + Len_(fb[pos + 1])
        BY <1>1, <3>2
      <3>5. QED
        BY <3>1, <3>3, <3>4
    <2>4. Left(off) /\ i = pos => End(fb[i]) = off
      BY <1>4
    <2>5. Right(off, len) /\ i = pos + 1 => Off(fb[i]) = off + len
      BY <1>4
    <2>6. End(fb[i]) = off => Left(off)
      BY <1>1, <1>4, <2>2
    <2>7. Off(fb[i]) = off + len => Right(off, len)
      BY <1>1, <1>2, <1>4, <2>3
    <2>8. QED
      BY <2>2, <2>3, <2>4, <2>5, <2>6, <2>7
  <1>9. Gap(off, len) <=> /\ ~(pos < n /\ off + len > Off(fb[pos + 1]))
                          /\ ~(pos > 0 /\ End(fb[pos]) > off)
    BY <1>5, <1>6
  <1>10. Gap(off, len) <=>
           \A i \in 1 .. n : ~(Off(fb[i]) < off + len /\ off < End(fb[i]))
    BY <1>3, <1>7
  <1>11. Gap(off, len) =>
           \A i \in 1 .. n : /\ End(fb[i]) = off <=> Left(off) /\ i = pos
                             /\ Off(fb[i]) = off + len <=> Right(off, len) /\ i = pos + 1
    BY <1>8
  <1>12. QED
    BY <1>1, <1>2, <1>9, <1>10, <1>11 DEF n, pos, fb

(* What is put there lies between the blocks before and after it. *)
LEMMA PutIs ==
  ASSUME PoolInv, NEW off \in Nat, NEW len \in Nat \ {0}, Gap(off, len)
  PROVE  LET put == InsertAt(free_blocks, Position(off) + 1, <<off, len>>)
             pos == Position(off)
         IN  /\ Ordered(put, {pos, pos + 1})
             /\ Len(put) = Len(free_blocks) + 1 /\ DOMAIN put = 1 .. Len(free_blocks) + 1
             /\ \A i \in 1 .. pos : put[i] = free_blocks[i]
             /\ put[pos + 1] = <<off, len>>
             /\ pos < Len(free_blocks) => put[pos + 2] = free_blocks[pos + 1]
             /\ ToSet(put) = ToSet(free_blocks) \cup {<<off, len>>}
  <1> DEFINE n == Len(free_blocks)
             pos == Position(off)
             fb == free_blocks
             new == <<off, len>>
             put == InsertAt(fb, pos + 1, new)
  <1>1. /\ n \in Nat /\ DOMAIN fb = 1 .. n /\ fb \in Seq(Blk) /\ n = Len(fb)
        /\ \A i \in 1 .. n : /\ Off(fb[i]) \in Nat /\ Len_(fb[i]) \in Nat \ {0}
                             /\ End(fb[i]) = Off(fb[i]) + Len_(fb[i])
        /\ \A i, j \in 1 .. n : i < j => End(fb[i]) < Off(fb[j])
    BY Listed
  <1>2. pos \in 0 .. n
    BY GapIs
  <1>3. \A i \in 1 .. n : IF i <= pos THEN End(fb[i]) <= off ELSE off + len <= Off(fb[i])
    BY <1>1 DEF Gap
  <1>4. new \in Blk /\ Off(new) = off /\ End(new) = off + len
    BY BlkIs
  <1> HIDE DEF n, pos, fb, new
  <1>5. /\ put \in Seq(Blk) /\ Len(put) = n + 1 /\ DOMAIN put = 1 .. n + 1
        /\ \A i \in 1 .. n + 1 :
             put[i] = IF i < pos + 1 THEN fb[i] ELSE IF i = pos + 1 THEN new ELSE fb[i - 1]
    <2>1. pos + 1 \in 1 .. Len(fb) + 1
      BY <1>1, <1>2
    <2>2. fb \in Seq(Blk) /\ new \in Blk /\ n = Len(fb)
      BY <1>1, <1>4
    <2> DEFINE k == pos + 1
    <2>3. k \in 1 .. Len(fb) + 1 /\ put = InsertAt(fb, k, new)
      BY <2>1
    <2> HIDE DEF k, put
    <2>4. LET c == InsertAt(fb, k, new)
          IN  /\ c \in Seq(Blk) /\ Len(c) = Len(fb) + 1 /\ DOMAIN c = 1 .. Len(fb) + 1
              /\ \A i \in 1 .. Len(fb) + 1 :
                   c[i] = IF i < k THEN fb[i] ELSE IF i = k THEN new ELSE fb[i - 1]
      BY <2>2, <2>3, InsertAtIs, ZenonT(60)
    <2>5. QED
      BY <2>2, <2>3, <2>4 DEF k
  <1> HIDE DEF put
  <1>6. /\ \A i \in 1 .. pos : put[i] = fb[i]
        /\ put[pos + 1] = new
        /\ \A i \in pos + 1 .. n : put[i + 1] = fb[i]
    <2>1. \A i \in 1 .. pos : put[i] = fb[i]
      BY <1>1, <1>2, <1>5
    <2>2. put[pos + 1] = new
      <3>1. pos + 1 \in 1 .. n + 1 /\ ~(pos + 1 < pos + 1)
        BY <1>1, <1>2
      <3>2. QED
        BY <1>5, <3>1
    <2>3. ASSUME NEW i \in pos + 1 .. n PROVE put[i + 1] = fb[i]
      <3>1. i + 1 \in 1 .. n + 1 /\ ~(i + 1 < pos + 1) /\ i + 1 # pos + 1 /\ (i + 1) - 1 = i
        BY <1>1, <1>2
      <3>2. QED
        BY <1>5, <3>1
    <2>4. QED
      BY <2>1, <2>2, <2>3
  <1>7. ASSUME NEW i \in 1 .. n + 1, NEW j \in 1 .. n + 1, i < j
        PROVE  End(put[i]) <= Off(put[j]) /\ (End(put[i]) = Off(put[j]) => i \in {pos, pos + 1})
    <2>1. i \in Nat /\ j \in Nat
      BY <1>1
    <2>2. CASE j <= pos
      <3>1. i \in 1 .. n /\ j \in 1 .. n /\ put[i] = fb[i] /\ put[j] = fb[j]
        BY <1>1, <1>2, <1>6, <1>7, <2>1, <2>2
      <3>2. End(fb[i]) < Off(fb[j]) /\ Off(fb[j]) \in Nat /\ End(fb[i]) \in Nat
        BY <1>1, <1>7, <3>1
      <3>3. QED
        BY <3>1, <3>2
    <2>3. CASE j = pos + 1
      <3>1. i \in 1 .. n /\ i <= pos /\ put[i] = fb[i] /\ put[j] = new
        BY <1>1, <1>2, <1>6, <1>7, <2>1, <2>3
      <3>2. End(fb[i]) <= off /\ End(fb[i]) \in Nat
        BY <1>1, <1>3, <3>1
      <3>3. i < pos => End(fb[i]) < off
        <4>1. CASE i < pos
          <5>1. pos \in 1 .. n
            BY <1>1, <1>2, <3>1, <4>1
          <5>2. End(fb[i]) < Off(fb[pos]) /\ End(fb[pos]) <= off
            BY <1>1, <1>3, <3>1, <4>1, <5>1
          <5>3. QED
            BY <1>1, <3>1, <5>1, <5>2
        <4>2. QED
          BY <4>1
      <3>4. QED
        BY <1>2, <1>4, <2>1, <3>1, <3>2, <3>3
    <2>4. CASE j > pos + 1 /\ i = pos + 1
      <3>1. j - 1 \in pos + 1 .. n /\ j - 1 \in 1 .. n /\ ~(j - 1 <= pos) /\ (j - 1) + 1 = j
        BY <1>1, <1>2, <2>1, <2>4
      <3>2. put[j] = fb[j - 1] /\ off + len <= Off(fb[j - 1])
        BY <1>3, <1>6, <3>1
      <3>3. QED
        BY <1>4, <1>6, <2>4, <3>2
    <2>5. CASE j > pos + 1 /\ i <= pos
      <3>1. j - 1 \in pos + 1 .. n /\ j - 1 \in 1 .. n /\ (j - 1) + 1 = j /\ i \in 1 .. pos /\ i \in 1 .. n /\ i < j - 1
        BY <1>1, <1>2, <2>1, <2>5
      <3>2. put[j] = fb[j - 1] /\ put[i] = fb[i] /\ End(fb[i]) < Off(fb[j - 1])
        BY <1>1, <1>6, <3>1
      <3>3. Off(fb[j - 1]) \in Nat /\ End(fb[i]) \in Nat
        BY <1>1, <3>1
      <3>4. QED
        BY <3>2, <3>3
    <2>6. CASE j > pos + 1 /\ i > pos + 1
      <3>1. /\ j - 1 \in pos + 1 .. n /\ j - 1 \in 1 .. n /\ (j - 1) + 1 = j
            /\ i - 1 \in pos + 1 .. n /\ i - 1 \in 1 .. n /\ (i - 1) + 1 = i /\ i - 1 < j - 1
        BY <1>1, <1>2, <1>7, <2>1, <2>6
      <3>2. put[j] = fb[j - 1] /\ put[i] = fb[i - 1] /\ End(fb[i - 1]) < Off(fb[j - 1])
        BY <1>1, <1>6, <3>1
      <3>3. /\ Off(fb[j - 1]) \in Nat /\ Off(fb[i - 1]) \in Nat /\ Len_(fb[i - 1]) \in Nat
            /\ End(fb[i - 1]) = Off(fb[i - 1]) + Len_(fb[i - 1])
        BY <1>1, <3>1
      <3>4. QED
        BY <3>2, <3>3
    <2>7. QED
      BY <1>2, <2>1, <2>2, <2>3, <2>4, <2>5, <2>6
  <1>8. Ordered(put, {pos, pos + 1})
    BY <1>5, <1>7 DEF Ordered
  <1>9. ToSet(put) = ToSet(fb) \cup {new}
    <2>1. ASSUME NEW i \in DOMAIN put PROVE put[i] \in ToSet(fb) \cup {new}
      <3>1. i \in 1 .. n + 1 /\ i \in Nat
        BY <1>1, <1>5
      <3>2. CASE i <= pos
        <4>1. i \in DOMAIN fb /\ put[i] = fb[i]
          BY <1>1, <1>2, <1>6, <3>1, <3>2
        <4>2. QED
          BY <4>1 DEF ToSet
      <3>3. CASE i = pos + 1
        BY <1>6, <3>3
      <3>4. CASE i > pos + 1
        <4>1. i - 1 \in DOMAIN fb /\ put[i] = fb[i - 1]
          BY <1>1, <1>2, <1>5, <3>1, <3>4
        <4>2. QED
          BY <4>1 DEF ToSet
      <3>5. QED
        BY <1>2, <3>1, <3>2, <3>3, <3>4
    <2>2. ASSUME NEW i \in DOMAIN fb PROVE fb[i] \in ToSet(put)
      <3>1. CASE i <= pos
        <4>1. i \in DOMAIN put /\ put[i] = fb[i]
          BY <1>1, <1>2, <1>5, <1>6, <3>1
        <4>2. QED
          BY <4>1 DEF ToSet
      <3>2. CASE ~(i <= pos)
        <4>1. i + 1 \in DOMAIN put /\ put[i + 1] = fb[i]
          BY <1>1, <1>2, <1>5, <1>6, <3>2
        <4>2. QED
          BY <4>1 DEF ToSet
      <3>3. QED
        BY <3>1, <3>2
    <2>3. pos + 1 \in DOMAIN put
      BY <1>1, <1>2, <1>5
    <2>4. new \in ToSet(put)
      BY <1>6, <2>3 DEF ToSet
    <2>5. QED
      BY <2>1, <2>2, <2>4 DEF ToSet
  <1>10. pos < n => put[pos + 2] = fb[pos + 1]
    <2>1. pos < n => pos + 1 \in pos + 1 .. n /\ (pos + 1) + 1 = pos + 2
      BY <1>1, <1>2
    <2>2. QED
      BY <1>6, <2>1
  <1>11. QED
    BY <1>5, <1>6, <1>8, <1>9, <1>10 DEF put, n, pos, fb, new

(* What the insertion and the two coalescings leave. *)
Low(off) == IF Left(off) THEN Off(free_blocks[Position(off)]) ELSE off
High(off, len) == IF Right(off, len) THEN End(free_blocks[Position(off) + 1]) ELSE off + len
Gone(off, len) == {b \in ToSet(free_blocks) : End(b) = off \/ Off(b) = off + len}

LEMMA InsertedIs ==
  ASSUME PoolInv, NEW off \in Nat, NEW len \in Nat \ {0}, Gap(off, len)
  PROVE  LET list == Inserted(off, len)[1]
             at == Inserted(off, len)[2]
         IN  /\ Ordered(list, {}) /\ at \in DOMAIN list
             /\ Off(list[at]) = Low(off) /\ End(list[at]) = High(off, len)
             /\ ToSet(list) = (ToSet(free_blocks) \ Gone(off, len)) \cup {list[at]}
  <1> DEFINE n == Len(free_blocks)
             pos == Position(off)
             fb == free_blocks
             new == <<off, len>>
             put == InsertAt(fb, pos + 1, new)
             right == CoalesceAt(put, pos + 1)
             both == CoalesceAt(right, pos)
             at == IF Len(both) < Len(right) THEN pos ELSE pos + 1
             l == fb[pos]
             r == fb[pos + 1]
  <1>1. /\ n \in Nat /\ n = Len(fb) /\ DOMAIN fb = 1 .. n /\ fb \in Seq(Blk)
        /\ \A i \in 1 .. n : /\ fb[i] \in Blk /\ Off(fb[i]) \in Nat /\ Len_(fb[i]) \in Nat \ {0}
                             /\ End(fb[i]) = Off(fb[i]) + Len_(fb[i])
    BY Listed
  <1>2. pos \in 0 .. n
    BY GapIs
  <1>3. new \in Blk /\ Off(new) = off /\ End(new) = off + len
    BY BlkIs
  <1>4. /\ Ordered(put, {pos, pos + 1}) /\ Len(put) = n + 1 /\ DOMAIN put = 1 .. n + 1
        /\ \A i \in 1 .. pos : put[i] = fb[i]
        /\ put[pos + 1] = new
        /\ pos < n => put[pos + 2] = r
        /\ ToSet(put) = ToSet(fb) \cup {new}
    BY PutIs
  <1>5. Inserted(off, len)[1] = both /\ Inserted(off, len)[2] = at
    BY DEF Inserted
  <1>6. /\ Left(off) <=> pos >= 1 /\ End(l) = off
        /\ Right(off, len) <=> pos < n /\ Off(r) = off + len
        /\ Low(off) = IF Left(off) THEN Off(l) ELSE off
        /\ High(off, len) = IF Right(off, len) THEN End(r) ELSE off + len
    BY DEF Left, Right, Low, High
  <1>7. \A i \in 1 .. n : /\ End(fb[i]) = off <=> Left(off) /\ i = pos
                          /\ Off(fb[i]) = off + len <=> Right(off, len) /\ i = pos + 1
    BY <1>1, GapIs
  <1> HIDE DEF n, pos, fb, new, put, right
  <1>8. Touching(put, pos + 1) <=> Right(off, len)
    <2>1. pos + 1 >= 1 /\ (pos + 1 < Len(put) <=> pos < n) /\ (pos + 1) + 1 = pos + 2
      BY <1>1, <1>2, <1>4
    <2>2. QED
      BY <1>3, <1>4, <1>6, <2>1 DEF Touching
  <1>9. put \in Seq(Blk) /\ Len(put) \in Nat
    BY <1>1, <1>4 DEF Ordered
  <1>10. /\ Ordered(right, {pos})
         /\ ~Right(off, len) => right = put
         /\ Right(off, len) => ToSet(right) = (ToSet(put) \ {new, r}) \cup {Union(new, r)}
    <2>1. /\ pos + 1 \in Nat /\ pos + 1 <= Len(put)
          /\ \A t \in {pos, pos + 1} : t \in Nat /\ t <= pos + 1
          /\ (pos + 1) + 1 = pos + 2 /\ {pos, pos + 1} \ {pos + 1} = {pos}
      BY <1>1, <1>2, <1>4
    <2>2. /\ Ordered(right, {pos, pos + 1} \ {pos + 1})
          /\ ~Touching(put, pos + 1) => right = put
          /\ Touching(put, pos + 1) =>
               ToSet(right) = (ToSet(put) \ {put[pos + 1], put[(pos + 1) + 1]})
                                \cup {Union(put[pos + 1], put[(pos + 1) + 1])}
      <3> DEFINE j == pos + 1
                 T == {pos, pos + 1}
      <3>1. Ordered(put, T) /\ j \in Nat /\ j <= Len(put) /\ \A t \in T : t \in Nat /\ t <= j
        BY <1>4, <2>1
      <3>2. right = CoalesceAt(put, j)
        BY DEF right
      <3> HIDE DEF j, T, right
      <3>3. /\ Ordered(right, T \ {j})
            /\ ~Touching(put, j) => right = put
            /\ Touching(put, j) =>
                 ToSet(right) = (ToSet(put) \ {put[j], put[j + 1]}) \cup {Union(put[j], put[j + 1])}
        BY ONLY <3>1, <3>2, Coalesced
      <3>4. QED
        BY <3>3 DEF j, T
    <2>3. Right(off, len) => pos < n
      BY <1>6
    <2>4. QED
      BY <1>4, <1>8, <2>1, <2>2, <2>3
  <1> DEFINE m == IF Right(off, len) THEN Union(new, r) ELSE new
  <1>11. /\ right \in Seq(Blk) /\ Len(right) \in Nat /\ pos + 1 <= Len(right)
         /\ \A i \in 1 .. pos : right[i] = fb[i]
         /\ right[pos + 1] = m
    <2>1. CASE Right(off, len)
      <3>1. /\ right \in Seq(Blk) /\ Len(right) = Len(put) - 1
            /\ right[pos + 1] = Union(put[pos + 1], put[(pos + 1) + 1])
            /\ \A j \in 1 .. Len(put) - 1 : j < pos + 1 => right[j] = put[j]
        <4>1. pos + 1 \in Nat
          BY <1>2
        <4>2. QED
          BY <1>8, <1>9, <2>1, <4>1, CoalescedList DEF right
      <3>2. pos < n /\ (pos + 1) + 1 = pos + 2
        BY <1>1, <1>2, <1>6, <2>1
      <3>3. \A i \in 1 .. pos : i \in 1 .. Len(put) - 1 /\ i < pos + 1
        BY <1>1, <1>2, <1>4, <3>2
      <3>4. QED
        BY <1>1, <1>2, <1>4, <2>1, <3>1, <3>2, <3>3
    <2>2. CASE ~Right(off, len)
      BY <1>1, <1>2, <1>4, <1>9, <1>10, <2>2
    <2>3. QED
      BY <2>1, <2>2
  <1>12. m \in Blk /\ Off(m) = off /\ End(m) = High(off, len)
    <2>1. CASE Right(off, len)
      <3>1. r \in Blk /\ End(new) = Off(r)
        BY <1>1, <1>2, <1>3, <1>6, <2>1
      <3>2. QED
        BY <1>3, <1>6, <2>1, <3>1, UnionIs
    <2>2. QED
      BY <1>3, <1>6, <2>1
  <1> HIDE DEF m, both
  <1>13. Touching(right, pos) <=> Left(off)
    <2>1. pos >= 1 => pos \in 1 .. pos /\ pos < Len(right)
      BY <1>2, <1>11
    <2>2. QED
      BY <1>6, <1>11, <1>12, <2>1 DEF Touching
  <1>14. /\ Ordered(both, {})
         /\ ~Left(off) => both = right
         /\ Left(off) => ToSet(both) = (ToSet(right) \ {l, m}) \cup {Union(l, m)}
    <2>1. /\ pos \in Nat /\ pos <= Len(right) /\ {pos} \ {pos} = {}
          /\ \A t \in {pos} : t \in Nat /\ t <= pos
      BY <1>2, <1>11
    <2>2. /\ Ordered(both, {pos} \ {pos})
          /\ ~Touching(right, pos) => both = right
          /\ Touching(right, pos) =>
               ToSet(both) = (ToSet(right) \ {right[pos], right[pos + 1]})
                                \cup {Union(right[pos], right[pos + 1])}
      BY <1>10, <2>1, Coalesced DEF both
    <2>3. Left(off) => right[pos] = l
      BY <1>2, <1>6, <1>11
    <2>4. QED
      BY <1>11, <1>13, <2>1, <2>2, <2>3
  <1> DEFINE u == IF Left(off) THEN Union(l, m) ELSE m
  <1>15. at \in DOMAIN both /\ both[at] = u
    <2>1. CASE Left(off)
      <3>1. pos \in Nat /\ pos >= 1 /\ pos \in 1 .. pos
        BY <1>2, <1>6, <2>1
      <3>2. /\ Len(both) = Len(right) - 1 /\ DOMAIN both = 1 .. Len(right) - 1
            /\ both[pos] = Union(right[pos], right[pos + 1])
        BY <1>11, <1>13, <2>1, <3>1, CoalescedList DEF both
      <3>3. at = pos /\ pos \in 1 .. Len(right) - 1
        BY <1>11, <3>1, <3>2
      <3>4. QED
        BY <1>11, <2>1, <3>1, <3>2, <3>3
    <2>2. CASE ~Left(off)
      <3>1. both = right /\ at = pos + 1
        BY <1>11, <1>14, <2>2
      <3>2. pos + 1 \in DOMAIN right
        BY <1>2, <1>11, LenProperties
      <3>3. QED
        BY <1>11, <2>2, <3>1, <3>2
    <2>3. QED
      BY <2>1, <2>2
  <1>16. Off(u) = Low(off) /\ End(u) = High(off, len)
    <2>1. CASE Left(off)
      <3>1. l \in Blk /\ End(l) = Off(m)
        BY <1>1, <1>2, <1>6, <1>12, <2>1
      <3>2. QED
        BY <1>6, <1>12, <2>1, <3>1, UnionIs
    <2>2. QED
      BY <1>6, <1>12, <2>1
  <1>17. ToSet(both) = (ToSet(fb) \ Gone(off, len)) \cup {u}
    <2>1. ToSet(fb) = {fb[i] : i \in 1 .. n}
      BY <1>1 DEF ToSet
    <2>2. \A b \in ToSet(fb) : Off(b) # off
      <3>1. \A i \in 1 .. n : ~(Off(fb[i]) < off + len /\ off < End(fb[i]))
        BY <1>1, GapIs DEF fb
      <3>2. ASSUME NEW i \in 1 .. n, Off(fb[i]) = off PROVE FALSE
        <4>1. Off(fb[i]) \in Nat /\ Len_(fb[i]) \in Nat \ {0} /\ End(fb[i]) = Off(fb[i]) + Len_(fb[i])
          BY <1>1
        <4>2. QED
          BY <3>1, <3>2, <4>1
      <3>3. QED
        BY <2>1, <3>2
    <2>3. new \notin ToSet(fb) /\ m \notin ToSet(fb)
      BY <1>3, <1>12, <2>2
    <2>4. \A b \in ToSet(fb) : /\ End(b) = off <=> Left(off) /\ b = l
                               /\ Off(b) = off + len <=> Right(off, len) /\ b = r
      <3>1. ASSUME NEW i \in 1 .. n
            PROVE  /\ End(fb[i]) = off <=> Left(off) /\ fb[i] = l
                   /\ Off(fb[i]) = off + len <=> Right(off, len) /\ fb[i] = r
        <4>1. Left(off) /\ fb[i] = l => End(fb[i]) = off
          BY <1>6
        <4>2. Right(off, len) /\ fb[i] = r => Off(fb[i]) = off + len
          BY <1>6
        <4>3. QED
          BY <1>7, <4>1, <4>2
      <3>2. QED
        BY <2>1, <3>1
    <2>5. Gone(off, len) = {b \in ToSet(fb) : (Left(off) /\ b = l) \/ (Right(off, len) /\ b = r)}
      BY <2>4 DEF Gone, fb
    <2>6. ToSet(right) = {b \in ToSet(fb) : ~(Right(off, len) /\ b = r)} \cup {m}
      <3>1. CASE Right(off, len)
        <4>1. ToSet(right) = ((ToSet(fb) \cup {new}) \ {new, r}) \cup {m}
          BY <1>4, <1>10, <3>1 DEF m
        <4>2. QED
          BY <2>3, <3>1, <4>1
      <3>2. CASE ~Right(off, len)
        BY <1>4, <1>10, <3>2 DEF m
      <3>3. QED
        BY <3>1, <3>2
    <2>7. CASE Left(off)
      <3>1. ToSet(both) = (ToSet(right) \ {l, m}) \cup {u}
        BY <1>14, <2>7
      <3>2. QED
        BY <2>3, <2>5, <2>6, <2>7, <3>1
    <2>8. CASE ~Left(off)
      <3>1. both = right /\ u = m
        BY <1>14, <2>8
      <3>2. QED
        BY <2>5, <2>6, <2>8, <3>1
    <2>9. QED
      BY <2>7, <2>8
  <1>18. QED
    BY <1>5, <1>14, <1>15, <1>16, <1>17 DEF fb

-----------------------------------------------------------------------------
(* The list after a removal, and after a block was cut. *)
LEMMA Distinct ==
  ASSUME NEW s, Ordered(s, {}), NEW i \in DOMAIN s, NEW j \in DOMAIN s, i # j
  PROVE  Off(s[i]) # Off(s[j]) /\ s[i] # s[j]
  <1>1. s \in Seq(Blk)
    BY DEF Ordered
  <1>2. /\ End(s[j]) = Off(s[j]) + Len_(s[j]) /\ Off(s[j]) \in Nat /\ Len_(s[j]) \in Nat \ {0}
        /\ End(s[i]) = Off(s[i]) + Len_(s[i]) /\ Off(s[i]) \in Nat /\ Len_(s[i]) \in Nat \ {0}
        /\ i \in 1 .. Len(s) /\ j \in 1 .. Len(s) /\ Len(s) \in Nat
    BY <1>1, BlockOf
  <1>3. (i < j => End(s[i]) <= Off(s[j])) /\ (j < i => End(s[j]) <= Off(s[i]))
    BY DEF Ordered
  <1>4. Off(s[i]) # Off(s[j])
    BY <1>2, <1>3
  <1>5. QED
    BY <1>4

LEMMA Removed ==
  ASSUME NEW s, Ordered(s, {}), NEW k \in DOMAIN s
  PROVE  Ordered(RemoveAt(s, k), {}) /\ ToSet(RemoveAt(s, k)) = ToSet(s) \ {s[k]}
  <1> DEFINE c == RemoveAt(s, k)
  <1>1. s \in Seq(Blk) /\ Len(s) \in Nat /\ DOMAIN s = 1 .. Len(s) /\ k \in 1 .. Len(s)
    BY LenProperties DEF Ordered
  <1>2. /\ c \in Seq(Blk) /\ DOMAIN c = 1 .. Len(s) - 1
        /\ \A i \in 1 .. Len(s) - 1 : c[i] = IF i < k THEN s[i] ELSE s[i + 1]
    BY <1>1, RemoveAtIs
  <1> HIDE DEF c
  <1>3. ASSUME NEW i \in DOMAIN c, NEW j \in DOMAIN c, i < j
        PROVE  End(c[i]) <= Off(c[j]) /\ End(c[i]) # Off(c[j])
    <2> DEFINE I == IF i < k THEN i ELSE i + 1
               J == IF j < k THEN j ELSE j + 1
    <2>1. I \in DOMAIN s /\ J \in DOMAIN s /\ I < J
      BY <1>1, <1>2, <1>3
    <2>2. c[i] = s[I] /\ c[j] = s[J]
      BY <1>2
    <2> HIDE DEF I, J
    <2>3. QED
      BY <2>1, <2>2 DEF Ordered
  <1>4. Ordered(c, {})
    BY <1>2, <1>3 DEF Ordered
  <1>5. ASSUME NEW i \in DOMAIN c PROVE c[i] \in ToSet(s) \ {s[k]}
    <2>1. CASE i < k
      <3>1. i \in DOMAIN s /\ i # k /\ c[i] = s[i]
        BY <1>1, <1>2, <2>1
      <3>2. QED
        BY <1>1, <3>1, Distinct DEF ToSet
    <2>2. CASE ~(i < k)
      <3>1. i + 1 \in DOMAIN s /\ i + 1 # k /\ c[i] = s[i + 1]
        BY <1>1, <1>2, <2>2
      <3>2. QED
        BY <1>1, <3>1, Distinct DEF ToSet
    <2>3. QED
      BY <2>1, <2>2
  <1>6. ASSUME NEW i \in DOMAIN s, i # k PROVE s[i] \in ToSet(c)
    <2>1. CASE i < k
      <3>1. i \in DOMAIN c /\ c[i] = s[i]
        BY <1>1, <1>2, <2>1
      <3>2. QED
        BY <3>1 DEF ToSet
    <2>2. CASE i > k
      <3>1. i - 1 \in DOMAIN c /\ c[i - 1] = s[i]
        BY <1>1, <1>2, <2>2
      <3>2. QED
        BY <3>1 DEF ToSet
    <2>3. QED
      BY <1>1, <1>6, <2>1, <2>2
  <1>7. ToSet(c) = ToSet(s) \ {s[k]}
    BY <1>5, <1>6 DEF ToSet
  <1>8. QED
    BY <1>4, <1>7 DEF c

LEMMA Cut ==
  ASSUME NEW s, Ordered(s, {}), NEW k \in DOMAIN s, NEW e \in Blk,
         Off(s[k]) <= Off(e), End(e) = End(s[k])
  PROVE  Ordered(ReplaceAt(s, k, e), {}) /\ ToSet(ReplaceAt(s, k, e)) = (ToSet(s) \ {s[k]}) \cup {e}
  <1> DEFINE c == ReplaceAt(s, k, e)
  <1>1. s \in Seq(Blk) /\ Len(s) \in Nat /\ DOMAIN s = 1 .. Len(s) /\ k \in 1 .. Len(s)
    BY LenProperties DEF Ordered
  <1>2. /\ c \in Seq(Blk) /\ DOMAIN c = 1 .. Len(s)
        /\ \A i \in 1 .. Len(s) : c[i] = IF i = k THEN e ELSE s[i]
    <2>1. c = ReplaceAt(s, k, e)
      BY DEF c
    <2> HIDE DEF c
    <2>2. s \in Seq(Blk)
      BY <1>1
    <2>3. k \in 1 .. Len(s)
      BY <1>1
    <2>4. e \in Blk
      OBVIOUS
    <2>5. /\ ReplaceAt(s, k, e) \in Seq(Blk) /\ Len(ReplaceAt(s, k, e)) = Len(s)
          /\ DOMAIN ReplaceAt(s, k, e) = 1 .. Len(s)
          /\ \A i \in 1 .. Len(s) : ReplaceAt(s, k, e)[i] = IF i = k THEN e ELSE s[i]
      BY ONLY <2>2, <2>3, <2>4, ReplaceAtIs, ZenonT(60)
    <2>6. QED
      BY <2>1, <2>5
  <1> HIDE DEF c
  <1>3. ASSUME NEW i \in DOMAIN c, NEW j \in DOMAIN c, i < j
        PROVE  End(c[i]) <= Off(c[j]) /\ End(c[i]) # Off(c[j])
    <2>1. i \in DOMAIN s /\ j \in DOMAIN s
      BY <1>1, <1>2
    <2>2. End(s[i]) <= Off(s[j]) /\ End(s[i]) # Off(s[j])
      BY <1>3, <2>1 DEF Ordered
    <2>3. /\ Off(s[i]) \in Nat /\ Len_(s[i]) \in Nat /\ End(s[i]) = Off(s[i]) + Len_(s[i])
          /\ Off(s[j]) \in Nat /\ Off(e) \in Nat
      BY <1>1, <2>1, BlockOf, BlkIs
    <2>4. End(c[i]) = End(s[i])
      BY <1>1, <1>2
    <2>5. Off(c[j]) = Off(s[j]) \/ (j = k /\ Off(c[j]) = Off(e))
      BY <1>1, <1>2
    <2>6. QED
      BY <2>2, <2>3, <2>4, <2>5
  <1>4. Ordered(c, {})
    BY <1>2, <1>3 DEF Ordered
  <1>5. ToSet(c) = (ToSet(s) \ {s[k]}) \cup {e}
    <2>1. \A i \in DOMAIN s : i # k => s[i] # s[k]
      BY Distinct
    <2>2. /\ \A i \in DOMAIN s : c[i] = IF i = k THEN e ELSE s[i]
          /\ DOMAIN c = DOMAIN s
      BY <1>1, <1>2
    <2>3. QED
      BY <2>1, <2>2 DEF ToSet
  <1>6. QED
    BY <1>4, <1>5 DEF c

LEMMA InSet ==
  ASSUME PoolInv
  PROVE  \A b \in ToSet(free_blocks) :
           /\ b \in Blk /\ Off(b) \in Nat /\ Len_(b) \in Nat \ {0}
           /\ End(b) = Off(b) + Len_(b) /\ End(b) < offset /\ b = <<Off(b), Len_(b)>>
  <1>1. \A i \in DOMAIN free_blocks :
          /\ free_blocks[i] \in Blk /\ End(free_blocks[i]) < offset
    BY Listed DEF PoolInv
  <1>2. QED
    BY <1>1, BlkIs DEF ToSet

-----------------------------------------------------------------------------
(* What free does to the list, seen as a set. *)
Accepted(off, len) == len # 0 /\ off + len <= offset /\ Gap(off, len)

LEMMA IgnoredIs ==
  ASSUME PoolInv, NEW ptr \in Nat, NEW len \in Nat
  PROVE  ~Ignored(ptr, len) <=>
           /\ base_ptr <= ptr /\ ptr < base_ptr + Capacity
           /\ Accepted(ptr - base_ptr, len)
  <1> DEFINE off == ptr - base_ptr
  <1>1. base_ptr \in Nat /\ Capacity \in Nat /\ offset \in Nat /\ off \in Int
    BY Listed
  <1>2. CASE base_ptr <= ptr /\ len # 0
    <2>1. off \in Nat /\ len \in Nat \ {0}
      BY <1>1, <1>2
    <2> HIDE DEF off
    <2>2. Gap(off, len) <=>
            /\ ~(Position(off) < Len(free_blocks) /\ off + len > Off(free_blocks[Position(off) + 1]))
            /\ ~(Position(off) > 0 /\ End(free_blocks[Position(off)]) > off)
      BY <2>1, GapIs
    <2>3. off + len > offset <=> ~(off + len <= offset)
      BY <1>1, <2>1
    <2>4. ptr < base_ptr <=> ~(base_ptr <= ptr)
      BY <1>1
    <2>5. ptr >= base_ptr + Capacity <=> ~(ptr < base_ptr + Capacity)
      BY <1>1
    <2>6. Ignored(ptr, len) <=>
            \/ ptr < base_ptr \/ ptr >= base_ptr + Capacity
            \/ len = 0 \/ off + len > offset
            \/ Position(off) < Len(free_blocks) /\ off + len > Off(free_blocks[Position(off) + 1])
            \/ Position(off) > 0 /\ End(free_blocks[Position(off)]) > off
      BY DEF Ignored, off
    <2>7. Accepted(ptr - base_ptr, len) <=> len # 0 /\ off + len <= offset /\ Gap(off, len)
      BY DEF Accepted, off
    <2> HIDE DEF Ignored
    <2>8. QED
      BY <1>2, <2>2, <2>3, <2>4, <2>5, <2>6, <2>7
  <1>3. CASE ~(base_ptr <= ptr)
    BY <1>1, <1>3 DEF Ignored
  <1>4. CASE len = 0
    BY <1>4 DEF Ignored, Accepted
  <1>5. QED
    BY <1>2, <1>3, <1>4

LEMMA BoundsIs ==
  ASSUME PoolInv, NEW off \in Nat, NEW len \in Nat, Accepted(off, len)
  PROVE  /\ Low(off) \in Nat /\ High(off, len) \in Nat
         /\ Low(off) <= off /\ off + len <= High(off, len) /\ High(off, len) <= offset
         /\ len \in Nat \ {0}
  <1>1. len \in Nat \ {0} /\ off + len <= offset
    BY DEF Accepted
  <1>2. Position(off) \in 0 .. Len(free_blocks)
    BY <1>1, GapIs
  <1>3. /\ Len(free_blocks) \in Nat /\ DOMAIN free_blocks = 1 .. Len(free_blocks)
        /\ offset \in Nat
        /\ \A i \in DOMAIN free_blocks :
             /\ Off(free_blocks[i]) \in Nat /\ Len_(free_blocks[i]) \in Nat \ {0}
             /\ End(free_blocks[i]) = Off(free_blocks[i]) + Len_(free_blocks[i])
             /\ End(free_blocks[i]) < offset
    BY Listed DEF PoolInv
  <1>4. Left(off) => Position(off) \in DOMAIN free_blocks /\ End(free_blocks[Position(off)]) = off
    BY <1>2, <1>3 DEF Left
  <1>5. Right(off, len) => /\ Position(off) + 1 \in DOMAIN free_blocks
                           /\ Off(free_blocks[Position(off) + 1]) = off + len
    BY <1>2, <1>3 DEF Right
  <1>6. Low(off) \in Nat /\ Low(off) <= off
    BY <1>3, <1>4 DEF Low
  <1>7. High(off, len) \in Nat /\ off + len <= High(off, len) /\ High(off, len) <= offset
    BY <1>1, <1>3, <1>5 DEF High
  <1>8. QED
    BY <1>1, <1>6, <1>7

(* The block that an accepted range becomes. *)
Whole(off, len) == <<Low(off), High(off, len) - Low(off)>>

LEMMA WholeIs ==
  ASSUME PoolInv, NEW off \in Nat, NEW len \in Nat, Accepted(off, len)
  PROVE  /\ Whole(off, len) \in Blk /\ Off(Whole(off, len)) = Low(off)
         /\ Len_(Whole(off, len)) = High(off, len) - Low(off)
         /\ End(Whole(off, len)) = High(off, len)
  <1>1. Low(off) \in Nat /\ High(off, len) - Low(off) \in Nat \ {0} /\ High(off, len) \in Nat
    BY BoundsIs
  <1>2. QED
    BY <1>1, BlkIs DEF Whole

LEMMA FreeIs ==
  ASSUME PoolInv, NEW ptr \in Nat, NEW len \in Nat, FreePtr(ptr, len)
  PROVE  \/ /\ ~(/\ base_ptr <= ptr /\ ptr < base_ptr + Capacity
                /\ Accepted(ptr - base_ptr, len))
            /\ UNCHANGED <<offset, free_blocks>>
         \/ /\ base_ptr <= ptr /\ ptr < base_ptr + Capacity
            /\ Accepted(ptr - base_ptr, len)
            /\ Ordered(free_blocks', {})
            /\ LET off == ptr - base_ptr
                   rest == ToSet(free_blocks) \ Gone(off, len)
               IN  IF High(off, len) = offset
                   THEN offset' = Low(off) /\ ToSet(free_blocks') = rest
                   ELSE offset' = offset /\ ToSet(free_blocks') = rest \cup {Whole(off, len)}
  <1>1. CASE Ignored(ptr, len)
    BY <1>1, IgnoredIs DEF FreePtr
  <1>2. CASE ~Ignored(ptr, len)
    <2> DEFINE off == ptr - base_ptr
               list == Inserted(off, len)[1]
               at == Inserted(off, len)[2]
               rest == ToSet(free_blocks) \ Gone(off, len)
               w == Whole(off, len)
    <2>1. base_ptr <= ptr /\ ptr < base_ptr + Capacity /\ Accepted(off, len) /\ off \in Nat
      BY <1>2, IgnoredIs, Listed
    <2>2. IF End(list[at]) = offset
          THEN offset' = Off(list[at]) /\ free_blocks' = RemoveAt(list, at)
          ELSE free_blocks' = list /\ offset' = offset
      BY <1>2 DEF FreePtr
    <2> HIDE DEF off, w
    <2>3. len \in Nat \ {0} /\ Gap(off, len)
      BY <2>1 DEF Accepted
    <2>4. /\ Ordered(list, {}) /\ at \in DOMAIN list
          /\ Off(list[at]) = Low(off) /\ End(list[at]) = High(off, len)
          /\ ToSet(list) = rest \cup {list[at]}
      BY <2>1, <2>3, InsertedIs
    <2> HIDE DEF list, at
    <2>5. list[at] = w
      <3>1. list[at] \in Blk
        BY <2>4, BlockOf DEF Ordered
      <3>2. w \in Blk /\ Off(w) = Low(off) /\ End(w) = High(off, len)
        BY <2>1, WholeIs DEF w
      <3>3. Len_(list[at]) = Len_(w)
        BY <2>4, <3>1, <3>2, BlkIs
      <3>4. QED
        BY <2>4, <3>1, <3>2, <3>3, BlkIs
    <2>6. w \notin rest
      <3>1. SUFFICES ASSUME w \in ToSet(free_blocks) PROVE w \in Gone(off, len)
        OBVIOUS
      <3>2. \A i \in DOMAIN free_blocks : ~(Off(free_blocks[i]) < off + len /\ off < End(free_blocks[i]))
        BY <2>1, <2>3, GapIs
      <3>3. ~(Off(w) < off + len /\ off < End(w))
        BY <3>1, <3>2 DEF ToSet
      <3>4. Off(w) = Low(off) /\ End(w) = High(off, len)
        BY <2>1, WholeIs DEF w
      <3>5. QED
        BY <2>1, <3>3, <3>4, BoundsIs
    <2>7. CASE High(off, len) = offset
      <3>1. free_blocks' = RemoveAt(list, at) /\ offset' = Low(off)
        BY <2>2, <2>4, <2>7
      <3>2. Ordered(RemoveAt(list, at), {}) /\ ToSet(RemoveAt(list, at)) = ToSet(list) \ {list[at]}
        BY <2>4, Removed
      <3>3. ToSet(free_blocks') = rest
        BY <2>4, <2>5, <2>6, <3>1, <3>2
      <3>4. QED
        BY <2>1, <2>7, <3>1, <3>2, <3>3 DEF off
    <2>8. CASE High(off, len) # offset
      <3>1. free_blocks' = list /\ offset' = offset
        BY <2>2, <2>4, <2>8
      <3>2. ToSet(free_blocks') = rest \cup {w}
        BY <2>4, <2>5, <3>1
      <3>3. QED
        BY <2>1, <2>4, <2>8, <3>1, <3>2 DEF off, w
    <2>9. QED
      BY <2>7, <2>8
  <1>3. QED
    BY <1>1, <1>2

-----------------------------------------------------------------------------
(* The inductive invariant, action by action. *)
LEMMA BestIs ==
  ASSUME PoolInv, NEW len \in Nat, NEW i \in Best(len)
  PROVE  /\ i \in DOMAIN free_blocks /\ Len_(free_blocks[i]) >= len
         /\ free_blocks[i] \in ToSet(free_blocks)
         /\ \A b \in ToSet(free_blocks) : Len_(b) >= len =>
              \/ Len_(free_blocks[i]) < Len_(b)
              \/ Len_(free_blocks[i]) = Len_(b) /\ Off(free_blocks[i]) <= Off(b)
  <1>1. i \in DOMAIN free_blocks /\ Len_(free_blocks[i]) >= len
    BY DEF Best
  <1>2. ASSUME NEW j \in DOMAIN free_blocks, Len_(free_blocks[j]) >= len
        PROVE  \/ Len_(free_blocks[i]) < Len_(free_blocks[j])
               \/ Len_(free_blocks[i]) = Len_(free_blocks[j]) /\ Off(free_blocks[i]) <= Off(free_blocks[j])
    <2>1. \/ Len_(free_blocks[i]) < Len_(free_blocks[j])
          \/ Len_(free_blocks[i]) = Len_(free_blocks[j]) /\ i <= j
      BY <1>2 DEF Best
    <2>2. i < j => Off(free_blocks[i]) <= Off(free_blocks[j])
      BY <1>1, Listed
    <2>3. i = j => Off(free_blocks[i]) <= Off(free_blocks[j])
      BY <1>1, Listed
    <2>4. i \in Nat /\ j \in Nat
      BY <1>1, Listed
    <2>5. QED
      BY <2>1, <2>2, <2>3, <2>4
  <1>3. QED
    BY <1>1, <1>2 DEF ToSet

LEMMA NoneBest ==
  ASSUME PoolInv, NEW len \in Nat, Best(len) = {}, NEW b \in ToSet(free_blocks), Len_(b) >= len
  PROVE  \E c \in ToSet(free_blocks) :
           /\ Len_(c) >= len
           /\ ~(Len_(b) < Len_(c) \/ (Len_(b) = Len_(c) /\ Off(b) <= Off(c)))
  <1>1. PICK i \in DOMAIN free_blocks : b = free_blocks[i]
    BY DEF ToSet
  <1>2. PICK j \in DOMAIN free_blocks :
          /\ Len_(free_blocks[j]) >= len
          /\ ~(\/ Len_(free_blocks[i]) < Len_(free_blocks[j])
               \/ (Len_(free_blocks[i]) = Len_(free_blocks[j]) /\ i <= j))
    BY <1>1 DEF Best
  <1>3. /\ i \in Nat /\ j \in Nat
        /\ Off(free_blocks[i]) \in Nat /\ Off(free_blocks[j]) \in Nat
        /\ Len_(free_blocks[i]) \in Nat /\ Len_(free_blocks[j]) \in Nat \ {0}
        /\ End(free_blocks[j]) = Off(free_blocks[j]) + Len_(free_blocks[j])
        /\ j < i => End(free_blocks[j]) < Off(free_blocks[i])
    BY Listed
  <1>4. ~(\/ Len_(b) < Len_(free_blocks[j])
          \/ (Len_(b) = Len_(free_blocks[j]) /\ Off(b) <= Off(free_blocks[j])))
    BY <1>1, <1>2, <1>3
  <1>5. QED
    BY <1>2, <1>4 DEF ToSet

(* The block an allocation takes leaves the list, or its tail stays. *)
Tails(b, len) == IF Len_(b) = len THEN {} ELSE {<<Off(b) + len, Len_(b) - len>>}

LEMMA ReuseIs ==
  ASSUME PoolInv, NEW len \in Nat, AllocateReuse(len)
  PROVE  \E i \in Best(len) :
           LET b == free_blocks[i]
           IN  /\ b \in ToSet(free_blocks)
               /\ Ordered(free_blocks', {})
               /\ ToSet(free_blocks') = (ToSet(free_blocks) \ {b}) \cup Tails(b, len)
               /\ Hold(base_ptr + Off(b), len)
               /\ outcome' = "ok" /\ offset' = offset
  <1>1. PICK i \in Best(len) :
          /\ free_blocks' = IF Len_(free_blocks[i]) = len THEN RemoveAt(free_blocks, i)
                            ELSE ReplaceAt(free_blocks, i, <<Off(free_blocks[i]) + len, Len_(free_blocks[i]) - len>>)
          /\ Hold(base_ptr + Off(free_blocks[i]), len)
          /\ outcome' = "ok" /\ offset' = offset
    BY DEF AllocateReuse
  <1> DEFINE b == free_blocks[i]
             e == <<Off(b) + len, Len_(b) - len>>
  <1>2. i \in DOMAIN free_blocks /\ Len_(b) >= len /\ b \in ToSet(free_blocks)
    BY BestIs
  <1>3. Off(b) \in Nat /\ Len_(b) \in Nat \ {0} /\ End(b) = Off(b) + Len_(b)
    BY <1>2, InSet
  <1>4. Ordered(free_blocks, {})
    BY DEF PoolInv
  <1>5. CASE Len_(b) = len
    BY <1>1, <1>2, <1>4, <1>5, Removed DEF Tails
  <1>6. CASE Len_(b) # len
    <2>1. Len_(b) - len \in Nat \ {0} /\ Off(b) + len \in Nat
      BY <1>2, <1>3, <1>6
    <2>2. e \in Blk /\ Off(e) = Off(b) + len /\ End(e) = (Off(b) + len) + (Len_(b) - len)
      BY <2>1, BlkIs
    <2>3. Off(b) <= Off(e) /\ End(e) = End(b)
      BY <1>2, <1>3, <2>2
    <2>4. free_blocks' = ReplaceAt(free_blocks, i, e)
      BY <1>1, <1>6
    <2>5. Tails(b, len) = {e}
      BY <1>6 DEF Tails
    <2> HIDE DEF e
    <2>6. /\ Ordered(ReplaceAt(free_blocks, i, e), {})
          /\ ToSet(ReplaceAt(free_blocks, i, e)) = (ToSet(free_blocks) \ {b}) \cup {e}
      BY <1>2, <1>4, <2>2, <2>3, Cut
    <2>7. QED
      BY <1>1, <1>2, <2>4, <2>5, <2>6
  <1>7. QED
    BY <1>5, <1>6

LEMMA HeldWithin ==
  ASSUME PoolInv, NEW off \in Nat, NEW len \in Nat, off + len <= Capacity,
         Hold(base_ptr + off, len)
  PROVE  /\ held' \subseteq HeldType
         /\ \A r \in held' : base_ptr <= r.ptr /\ r.ptr + r.len <= base_ptr + Capacity
  <1>1. base_ptr + off \in Nat /\ base_ptr \in Nat /\ Capacity \in Nat
    BY Listed
  <1>2. CASE len = 0
    BY <1>2 DEF Hold, PoolInv
  <1>3. CASE len # 0
    <2> DEFINE r == [ptr |-> base_ptr + off, len |-> len]
    <2>1. held' = held \cup {r}
      BY <1>3 DEF Hold
    <2>2. r \in HeldType /\ base_ptr <= r.ptr /\ r.ptr + r.len <= base_ptr + Capacity
      BY <1>1, <1>3 DEF HeldType
    <2> HIDE DEF r
    <2>3. QED
      BY <2>1, <2>2 DEF PoolInv
  <1>4. QED
    BY <1>2, <1>3

(* The list in the invariant, as a set. *)
LEMMA ListKept ==
  ASSUME Ordered(free_blocks', {}), offset' \in 0 .. Capacity,
         \A b \in ToSet(free_blocks') : End(b) < offset',
         held' \subseteq HeldType,
         \A r \in held' : base_ptr <= r.ptr /\ r.ptr + r.len <= base_ptr + Capacity
  PROVE  PoolInv'
  BY DEF PoolInv, ToSet

LEMMA AllocateStep ==
  ASSUME PoolInv, NEW len \in Nat,
         AllocateReuse(len) \/ AllocateBump(len) \/ AllocateOom(len)
  PROVE  PoolInv'
  <1>1. CASE AllocateReuse(len)
    <2>1. PICK i \in Best(len) :
            /\ free_blocks[i] \in ToSet(free_blocks)
            /\ Ordered(free_blocks', {})
            /\ ToSet(free_blocks') = (ToSet(free_blocks) \ {free_blocks[i]}) \cup Tails(free_blocks[i], len)
            /\ Hold(base_ptr + Off(free_blocks[i]), len)
            /\ outcome' = "ok" /\ offset' = offset
      BY <1>1, ReuseIs
    <2> DEFINE b == free_blocks[i]
    <2>2. Len_(b) >= len
      BY BestIs
    <2>3. Off(b) \in Nat /\ Len_(b) \in Nat \ {0} /\ End(b) = Off(b) + Len_(b) /\ End(b) < offset
      BY <2>1, InSet
    <2>4. \A e \in Tails(b, len) : End(e) < offset'
      <3>1. ASSUME Len_(b) # len PROVE End(<<Off(b) + len, Len_(b) - len>>) = End(b)
        <4>1. Off(b) + len \in Nat /\ Len_(b) - len \in Nat \ {0}
          BY <2>2, <2>3, <3>1
        <4>2. End(<<Off(b) + len, Len_(b) - len>>) = (Off(b) + len) + (Len_(b) - len)
          BY <4>1, BlkIs
        <4>3. QED
          BY <2>3, <4>2
      <3>2. QED
        BY <2>1, <2>3, <3>1 DEF Tails
    <2>5. \A e \in ToSet(free_blocks') : End(e) < offset'
      BY <2>1, <2>4, InSet
    <2>6. offset' \in 0 .. Capacity /\ Off(b) + len <= Capacity
      BY <2>1, <2>2, <2>3, PoolAssumption DEF PoolInv
    <2>7. QED
      BY <2>1, <2>3, <2>5, <2>6, HeldWithin, ListKept
  <1>2. CASE AllocateBump(len)
    <2>1. /\ offset + len <= Capacity /\ offset' = offset + len /\ free_blocks' = free_blocks
          /\ Hold(base_ptr + offset, len)
      BY <1>2 DEF AllocateBump
    <2>2. offset' \in 0 .. Capacity /\ offset \in Nat /\ offset' >= offset
      BY <2>1, Listed
    <2>3. \A b \in ToSet(free_blocks') : End(b) < offset'
      BY <2>1, <2>2, InSet
    <2>4. Ordered(free_blocks', {})
      BY <2>1 DEF PoolInv
    <2>5. QED
      BY <2>1, <2>2, <2>3, <2>4, HeldWithin, ListKept
  <1>3. CASE AllocateOom(len)
    BY <1>3 DEF AllocateOom, PoolInv
  <1>4. QED
    BY <1>1, <1>2, <1>3

LEMMA FreeStep ==
  ASSUME PoolInv, NEW ptr \in Nat, NEW len \in Nat, FreePtr(ptr, len), held' \subseteq held
  PROVE  PoolInv'
  <1> DEFINE off == ptr - base_ptr
             rest == ToSet(free_blocks) \ Gone(off, len)
  <1>1. /\ held' \subseteq HeldType
        /\ \A r \in held' : base_ptr <= r.ptr /\ r.ptr + r.len <= base_ptr + Capacity
    BY DEF PoolInv
  <1>2. CASE UNCHANGED <<offset, free_blocks>>
    BY <1>1, <1>2 DEF PoolInv
  <1>3. CASE /\ base_ptr <= ptr /\ ptr < base_ptr + Capacity
             /\ Accepted(off, len)
             /\ Ordered(free_blocks', {})
             /\ IF High(off, len) = offset
                THEN offset' = Low(off) /\ ToSet(free_blocks') = rest
                ELSE offset' = offset /\ ToSet(free_blocks') = rest \cup {Whole(off, len)}
    <2>1. off \in Nat /\ offset \in 0 .. Capacity /\ Capacity \in Nat /\ offset \in Nat
      BY <1>3, Listed DEF PoolInv
    <2>2. len \in Nat \ {0} /\ Gap(off, len)
      BY <1>3 DEF Accepted
    <2>3. /\ Low(off) \in Nat /\ High(off, len) \in Nat /\ Low(off) <= offset
          /\ High(off, len) <= offset /\ End(Whole(off, len)) = High(off, len)
      BY <1>3, <2>1, BoundsIs, WholeIs
    <2> HIDE DEF off
    <2>4. CASE High(off, len) = offset
      <3>1. offset' = Low(off) /\ ToSet(free_blocks') = rest
        BY <1>3, <2>4
      <3>2. ASSUME NEW i \in DOMAIN free_blocks, free_blocks[i] \notin Gone(off, len)
            PROVE  End(free_blocks[i]) < Low(off)
        <4>1. /\ Off(free_blocks[i]) \in Nat /\ Len_(free_blocks[i]) \in Nat \ {0} /\ i \in Nat
              /\ End(free_blocks[i]) = Off(free_blocks[i]) + Len_(free_blocks[i])
              /\ End(free_blocks[i]) < offset
              /\ End(free_blocks[i]) # off /\ Off(free_blocks[i]) # off + len
          BY <3>2, Listed DEF PoolInv, Gone, ToSet
        <4>2. Position(off) \in 0 .. Len(free_blocks) /\ DOMAIN free_blocks = 1 .. Len(free_blocks) /\ Len(free_blocks) \in Nat
          BY <2>1, <2>2, GapIs, Listed
        <4>3. CASE i <= Position(off)
          <5>1. End(free_blocks[i]) < off
            BY <2>1, <2>2, <4>1, <4>3 DEF Gap
          <5>2. Left(off) => Position(off) \in DOMAIN free_blocks /\ End(free_blocks[Position(off)]) = off
            BY <4>2 DEF Left
          <5>3. Left(off) => i < Position(off)
            BY <4>1, <4>2, <4>3, <5>1, <5>2
          <5>4. Left(off) => End(free_blocks[i]) < Off(free_blocks[Position(off)])
            BY <5>2, <5>3, Listed
          <5>5. QED
            BY <5>1, <5>4 DEF Low
        <4>4. CASE ~(i <= Position(off))
          <5>1. off + len <= Off(free_blocks[i])
            BY <2>2, <4>4 DEF Gap
          <5>2. Right(off, len)
            BY <2>1, <2>4, <4>1, <5>1 DEF High
          <5>3. /\ Position(off) + 1 \in DOMAIN free_blocks
                /\ Off(free_blocks[Position(off) + 1]) = off + len
                /\ End(free_blocks[Position(off) + 1]) = offset
            BY <2>4, <4>2, <5>2 DEF Right, High
          <5>4. FALSE
            BY <5>3 DEF PoolInv
          <5>5. QED
            BY <5>4
        <4>5. QED
          BY <4>3, <4>4
      <3>3. \A b \in ToSet(free_blocks') : End(b) < offset'
        BY <3>1, <3>2 DEF ToSet
      <3>4. QED
        BY <1>1, <1>3, <2>1, <2>3, <3>1, <3>3, ListKept
    <2>5. CASE High(off, len) # offset
      <3>1. offset' = offset /\ ToSet(free_blocks') = rest \cup {Whole(off, len)}
        BY <1>3, <2>5
      <3>2. \A b \in ToSet(free_blocks') : End(b) < offset'
        BY <2>1, <2>3, <2>5, <3>1, InSet
      <3>3. QED
        BY <1>1, <1>3, <2>1, <3>1, <3>2, ListKept
    <2>6. QED
      BY <2>4, <2>5
  <1>4. QED
    BY <1>2, <1>3, FreeIs

LEMMA InitStep == Init => PoolInv
  BY PoolAssumption DEF Init, PoolInv, Ordered

LEMMA NextStep == PoolInv /\ [Next]_vars => PoolInv'
  <1> SUFFICES ASSUME PoolInv, [Next]_vars PROVE PoolInv'
    OBVIOUS
  <1>1. CASE UNCHANGED vars
    BY <1>1 DEF vars, PoolInv
  <1>2. ASSUME NEW bytes \in Requests, Allocate(bytes) PROVE PoolInv'
    <2>1. Aligned(bytes) \in Nat
      BY AlignedIsNat, PoolAssumption
    <2>2. QED
      BY <1>2, <2>1, AllocateStep DEF Allocate
  <1>3. ASSUME NEW r \in held, Free(r) PROVE PoolInv'
    <2>1. r.ptr \in Nat /\ r.len \in Nat
      BY DEF PoolInv, HeldType
    <2>2. FreePtr(r.ptr, r.len) /\ held' \subseteq held
      BY <1>3 DEF Free
    <2>3. QED
      BY <2>1, <2>2, FreeStep
  <1>4. ASSUME NEW ptr \in Pointers, NEW bytes \in Requests, FreeStray(ptr, bytes) PROVE PoolInv'
    <2>1. Aligned(bytes) \in Nat /\ ptr \in Nat
      BY AlignedIsNat, PoolAssumption DEF Pointers
    <2>2. FreePtr(ptr, Aligned(bytes)) /\ held' \subseteq held
      BY <1>4 DEF FreeStray
    <2>3. QED
      BY <2>1, <2>2, FreeStep
  <1>5. QED
    BY <1>1, <1>2, <1>3, <1>4 DEF Next

LEMMA PoolInductive == Spec => []PoolInv
  BY InitStep, NextStep, PTL DEF Spec

(* The list stays sorted and no two blocks of it touch, whatever is        *)
(* allocated, freed twice or freed by mistake, so that the binary search   *)
(* of free finds the place (DramPool::allocate, DramPool::free).           *)
THEOREM AlwaysSortedAndCoalesced == Spec => []SortedAndCoalesced
  <1>1. PoolInv => SortedAndCoalesced
    <2> SUFFICES ASSUME PoolInv, NEW i \in 1 .. Len(free_blocks) - 1
                 PROVE  End(free_blocks[i]) < Off(free_blocks[i + 1])
      BY DEF SortedAndCoalesced
    <2>1. i \in DOMAIN free_blocks /\ i + 1 \in DOMAIN free_blocks /\ i < i + 1
      BY Listed
    <2>2. QED
      BY <2>1, Listed
  <1>2. QED
    BY <1>1, PoolInductive, PTL

-----------------------------------------------------------------------------
(* The pool seen as a RangeAllocator: its list as a set of records, its    *)
(* pointers as offsets.                                                    *)
Rec(b) == [off |-> Off(b), len |-> Len_(b)]
Shift(r) == [off |-> r.ptr - base_ptr, len |-> r.len]
At(off, len) == [off |-> off, len |-> len]
FreeRecs == {Rec(b) : b \in ToSet(free_blocks)}
HeldRecs == {Shift(r) : r \in held}

LEMMA RecIs ==
  /\ \A b \in Blk : Rec(b).off = Off(b) /\ Rec(b).len = Len_(b)
  /\ \A b, c \in Blk : Rec(b) = Rec(c) => b = c
  /\ \A o, l : At(o, l).off = o /\ At(o, l).len = l
  <1>1. \A b : Rec(b).off = Off(b) /\ Rec(b).len = Len_(b)
    BY DEF Rec
  <1>2. \A b, c \in Blk : Off(b) = Off(c) /\ Len_(b) = Len_(c) => b = c
    BY BlkIs
  <1>3. QED
    BY <1>1, <1>2 DEF At

(* The scan of the list finds the block that RangeAllocator's choice finds. *)
LEMMA BestFits ==
  ASSUME PoolInv, NEW len \in Nat
  PROVE  /\ \A i \in Best(len) : Rec(free_blocks[i]) \in Ranges!BestFit(len)
         /\ Best(len) = {} => Ranges!BestFit(len) = {}
  <1>1. /\ \A c : c \in Ranges!Fitting(len) <=> c \in FreeRecs /\ c.len >= len
        /\ \A c : c \in Ranges!BestFit(len) <=>
             /\ c \in Ranges!Fitting(len)
             /\ \A d \in Ranges!Fitting(len) :
                  c.len < d.len \/ (c.len = d.len /\ c.off <= d.off)
    BY DEF Ranges!Fitting, Ranges!BestFit, FreeRecs, Rec
  <1>2. \A c : c \in Ranges!Fitting(len) <=>
                 \E b \in ToSet(free_blocks) : c = Rec(b) /\ Len_(b) >= len
    BY <1>1, InSet, RecIs DEF FreeRecs
  <1>3. \A b \in ToSet(free_blocks) : Rec(b).off = Off(b) /\ Rec(b).len = Len_(b)
    BY InSet, RecIs
  <1>4. ASSUME NEW i \in Best(len) PROVE Rec(free_blocks[i]) \in Ranges!BestFit(len)
    BY <1>1, <1>2, <1>3, BestIs
  <1>5. ASSUME Best(len) = {}, NEW c \in Ranges!BestFit(len) PROVE FALSE
    <2>1. PICK b \in ToSet(free_blocks) : c = Rec(b) /\ Len_(b) >= len
      BY <1>1, <1>2, <1>5
    <2>2. PICK d \in ToSet(free_blocks) :
            /\ Len_(d) >= len
            /\ ~(Len_(b) < Len_(d) \/ (Len_(b) = Len_(d) /\ Off(b) <= Off(d)))
      BY <1>5, <2>1, NoneBest
    <2>3. Rec(d) \in Ranges!Fitting(len)
      BY <1>2, <2>2
    <2>4. QED
      BY <1>1, <1>3, <1>5, <2>1, <2>2, <2>3
  <1>6. QED
    BY <1>4, <1>5

LEMMA Holds ==
  ASSUME PoolInv, NEW off \in Nat, NEW len \in Nat, Hold(base_ptr + off, len)
  PROVE  Ranges!Hold(off, len)
  <1>1. base_ptr \in Nat
    BY PoolAssumption
  <1>2. CASE len = 0
    <2>1. HeldRecs' = HeldRecs
      BY <1>2 DEF Hold, HeldRecs, Shift
    <2>2. QED
      BY <1>2, <2>1 DEF Ranges!Hold, HeldRecs, Shift
  <1>3. CASE len # 0
    <2> DEFINE r == [ptr |-> base_ptr + off, len |-> len]
    <2>1. held' = held \cup {r}
      BY <1>3 DEF Hold
    <2>2. Shift(r) = At(off, len)
      BY <1>1 DEF Shift, At
    <2> HIDE DEF r
    <2>3. HeldRecs' = {Shift(h) : h \in held'}
      BY DEF HeldRecs, Shift
    <2>4. HeldRecs' = HeldRecs \cup {At(off, len)}
      BY <2>1, <2>2, <2>3 DEF HeldRecs
    <2>5. QED
      BY <1>3, <2>4 DEF Ranges!Hold, Ranges!Ranges, HeldRecs, Shift, At
  <1>4. QED
    BY <1>2, <1>3

(* What an allocation does to the list it does to the set. *)
LEMMA ReuseMaps ==
  ASSUME PoolInv, NEW len \in Nat, AllocateReuse(len)
  PROVE  Ranges!AllocateReuse(len)
  <1>1. PICK i \in Best(len) :
          /\ free_blocks[i] \in ToSet(free_blocks)
          /\ Ordered(free_blocks', {})
          /\ ToSet(free_blocks') = (ToSet(free_blocks) \ {free_blocks[i]}) \cup Tails(free_blocks[i], len)
          /\ Hold(base_ptr + Off(free_blocks[i]), len)
          /\ outcome' = "ok" /\ offset' = offset
    BY ReuseIs
  <1>2. /\ free_blocks[i] \in Blk /\ Off(free_blocks[i]) \in Nat /\ Len_(free_blocks[i]) \in Nat \ {0}
        /\ Len_(free_blocks[i]) >= len
    BY <1>1, InSet, BestIs
  <1>3. Ranges!Hold(Off(free_blocks[i]), len) /\ Rec(free_blocks[i]) \in Ranges!BestFit(len)
    BY <1>1, <1>2, Holds, BestFits
  <1>4. Rec(free_blocks[i]).off = Off(free_blocks[i]) /\ Rec(free_blocks[i]).len = Len_(free_blocks[i])
    BY <1>2, RecIs
  <1>5. \A b \in ToSet(free_blocks) : b # free_blocks[i] => Rec(b) # Rec(free_blocks[i])
    BY <1>2, InSet, RecIs
  <1>6. FreeRecs' = {Rec(b) : b \in ToSet(free_blocks')}
    BY DEF FreeRecs, Rec, Off, Len_
  <1>7. FreeRecs' = (FreeRecs \ {Rec(free_blocks[i])}) \cup
                      IF Rec(free_blocks[i]).len = len THEN {}
                      ELSE {At(Rec(free_blocks[i]).off + len, Rec(free_blocks[i]).len - len)}
    <2>1. CASE Len_(free_blocks[i]) = len
      <3>1. ToSet(free_blocks') = ToSet(free_blocks) \ {free_blocks[i]}
        BY <1>1, <2>1 DEF Tails
      <3>2. FreeRecs' = FreeRecs \ {Rec(free_blocks[i])}
        BY <1>5, <1>6, <3>1 DEF FreeRecs
      <3>3. QED
        BY <1>4, <2>1, <3>2
    <2>2. CASE Len_(free_blocks[i]) # len
      <3> DEFINE e == <<Off(free_blocks[i]) + len, Len_(free_blocks[i]) - len>>
      <3>1. ToSet(free_blocks') = (ToSet(free_blocks) \ {free_blocks[i]}) \cup {e}
        BY <1>1, <2>2 DEF Tails
      <3>2. Rec(e) = At(Off(free_blocks[i]) + len, Len_(free_blocks[i]) - len)
        BY DEF Rec, At, Off, Len_
      <3> HIDE DEF e
      <3>3. FreeRecs' = (FreeRecs \ {Rec(free_blocks[i])}) \cup {Rec(e)}
        BY <1>5, <1>6, <3>1 DEF FreeRecs
      <3>4. QED
        BY <1>4, <2>2, <3>2, <3>3
    <2>3. QED
      BY <2>1, <2>2
  <1> DEFINE c == Rec(free_blocks[i])
  <1>8. /\ c \in Ranges!BestFit(len) /\ Ranges!Hold(c.off, len)
        /\ FreeRecs' = (FreeRecs \ {c}) \cup IF c.len = len THEN {} ELSE {At(c.off + len, c.len - len)}
    BY <1>3, <1>4, <1>7
  <1> HIDE DEF c
  <1>9. QED
    BY <1>1, <1>8 DEF Ranges!AllocateReuse, Ranges!Ranges, FreeRecs, Rec, At

LEMMA AllocateMaps ==
  ASSUME PoolInv, NEW bytes \in Requests, Allocate(bytes)
  PROVE  Ranges!Allocate(bytes)
  <1>1. Aligned(bytes) \in Nat /\ Ranges!Aligned(bytes) = Aligned(bytes)
    BY AlignedIsNat, PoolAssumption DEF Ranges!Aligned, Aligned
  <1>2. offset \in Nat
    BY Listed
  <1>3. CASE AllocateReuse(Aligned(bytes))
    BY <1>1, <1>3, ReuseMaps DEF Ranges!Allocate
  <1>4. CASE AllocateBump(Aligned(bytes))
    <2>1. Ranges!Hold(offset, Aligned(bytes)) /\ Ranges!BestFit(Aligned(bytes)) = {}
      BY <1>1, <1>2, <1>4, Holds, BestFits DEF AllocateBump
    <2>2. FreeRecs' = FreeRecs
      BY <1>4 DEF AllocateBump, FreeRecs, Rec
    <2>3. Ranges!AllocateBump(Aligned(bytes))
      BY <1>4, <2>1, <2>2 DEF AllocateBump, Ranges!AllocateBump, FreeRecs, Rec
    <2>4. QED
      BY <1>1, <2>3 DEF Ranges!Allocate
  <1>5. CASE AllocateOom(Aligned(bytes))
    <2>1. Ranges!BestFit(Aligned(bytes)) = {}
      BY <1>1, <1>5, BestFits DEF AllocateOom
    <2>2. FreeRecs' = FreeRecs /\ HeldRecs' = HeldRecs
      BY <1>5 DEF AllocateOom, FreeRecs, Rec, HeldRecs, Shift
    <2>3. Ranges!AllocateOom(Aligned(bytes))
      BY <1>5, <2>1, <2>2 DEF AllocateOom, Ranges!AllocateOom, FreeRecs, Rec, HeldRecs, Shift
    <2>4. QED
      BY <1>1, <2>3 DEF Ranges!Allocate
  <1>6. QED
    BY <1>3, <1>4, <1>5 DEF Allocate

(* The places free looks at are the ones the whole set would be searched   *)
(* for.                                                                    *)
LEMMA DropMaps ==
  ASSUME PoolInv, NEW off \in Nat, NEW len \in Nat
  PROVE  Ranges!Dropped(At(off, len)) <=> ~Accepted(off, len)
  <1> DEFINE meets == \E b \in ToSet(free_blocks) : Off(b) < off + len /\ off < End(b)
  <1>1. Ranges!Dropped(At(off, len)) <=> len = 0 \/ off + len > offset \/ meets
    <2>1. \A b \in ToSet(free_blocks) :
            Ranges!Overlap(Rec(b), At(off, len)) <=> Off(b) < off + len /\ off < End(b)
      BY InSet, RecIs DEF Ranges!Overlap, Ranges!Top
    <2>2. (\E c \in FreeRecs : Ranges!Overlap(c, At(off, len))) <=> meets
      BY <2>1 DEF FreeRecs
    <2>3. At(off, len).off = off /\ At(off, len).len = len
      BY RecIs
    <2> HIDE DEF meets
    <2>4. QED
      BY <2>2, <2>3 DEF Ranges!Dropped, Ranges!Top, FreeRecs, Rec
  <1>2. CASE len = 0
    BY <1>1, <1>2 DEF Accepted
  <1>3. CASE len # 0
    <2>1. Gap(off, len) <=>
            \A i \in DOMAIN free_blocks : ~(Off(free_blocks[i]) < off + len /\ off < End(free_blocks[i]))
      BY <1>3, GapIs
    <2>2. Gap(off, len) <=> ~meets
      BY <2>1 DEF ToSet
    <2> HIDE DEF meets
    <2>3. offset \in Nat
      BY Listed
    <2>4. QED
      BY <1>1, <1>3, <2>2, <2>3 DEF Accepted
  <1>4. QED
    BY <1>2, <1>3

LEMMA MergeMaps ==
  ASSUME PoolInv, NEW off \in Nat, NEW len \in Nat, Accepted(off, len)
  PROVE  /\ Ranges!Merged(At(off, len)) = Rec(Whole(off, len))
         /\ Ranges!Neighbours(At(off, len)) = {Rec(b) : b \in Gone(off, len)}
  <1> DEFINE r == At(off, len)
             left == {c \in FreeRecs : Ranges!Top(c) = r.off}
             right == {c \in FreeRecs : c.off = Ranges!Top(r)}
             p == Position(off)
  <1>1. len \in Nat \ {0} /\ Gap(off, len)
    BY DEF Accepted
  <1>2. /\ p \in 0 .. Len(free_blocks)
        /\ \A i \in DOMAIN free_blocks :
             /\ End(free_blocks[i]) = off <=> Left(off) /\ i = p
             /\ Off(free_blocks[i]) = off + len <=> Right(off, len) /\ i = p + 1
    BY <1>1, GapIs
  <1>3. \A b \in ToSet(free_blocks) : /\ Rec(b).off = Off(b) /\ Rec(b).len = Len_(b)
                                      /\ Ranges!Top(Rec(b)) = End(b)
    BY InSet, RecIs DEF Ranges!Top
  <1>4. /\ Left(off) => p \in DOMAIN free_blocks
        /\ Right(off, len) => p + 1 \in DOMAIN free_blocks
    BY <1>2, Listed DEF Left, Right
  <1>5. r.off = off /\ Ranges!Top(r) = off + len
    BY RecIs DEF Ranges!Top
  <1>6. left = IF Left(off) THEN {Rec(free_blocks[p])} ELSE {}
    <2>1. \A c : c \in left <=> \E b \in ToSet(free_blocks) : c = Rec(b) /\ End(b) = off
      BY <1>3, <1>5 DEF FreeRecs
    <2> HIDE DEF left, p, r
    <2>2. \A c : c \in left <=> Left(off) /\ c = Rec(free_blocks[p])
      BY <1>2, <1>4, <2>1 DEF ToSet
    <2>3. QED
      BY <2>2
  <1>7. right = IF Right(off, len) THEN {Rec(free_blocks[p + 1])} ELSE {}
    <2>1. \A c : c \in right <=> \E b \in ToSet(free_blocks) : c = Rec(b) /\ Off(b) = off + len
      BY <1>3, <1>5 DEF FreeRecs
    <2> HIDE DEF right, p, r
    <2>2. \A c : c \in right <=> Right(off, len) /\ c = Rec(free_blocks[p + 1])
      BY <1>2, <1>4, <2>1 DEF ToSet
    <2>3. QED
      BY <2>2
  <1> DEFINE lo == IF left = {} THEN r.off ELSE (CHOOSE c \in left : TRUE).off
             hi == IF right = {} THEN Ranges!Top(r) ELSE Ranges!Top(CHOOSE c \in right : TRUE)
  <1>8. Ranges!Merged(At(off, len)) = At(lo, hi - lo)
    BY DEF Ranges!Merged, Ranges!Ranges, At, FreeRecs, Rec
  <1>9. lo = Low(off)
    <2>1. CASE Left(off)
      <3>1. left = {Rec(free_blocks[p])} /\ free_blocks[p] \in ToSet(free_blocks)
        BY <1>4, <1>6, <2>1 DEF ToSet
      <3>2. Low(off) = Off(free_blocks[p])
        BY <2>1 DEF Low
      <3> HIDE DEF left, p, r
      <3>3. (CHOOSE c \in left : TRUE) = Rec(free_blocks[p])
        BY <3>1
      <3>4. QED
        BY <1>3, <3>1, <3>2, <3>3
    <2>2. CASE ~Left(off)
      BY <1>5, <1>6, <2>2 DEF Low
    <2>3. QED
      BY <2>1, <2>2
  <1>10. hi = High(off, len)
    <2>1. CASE Right(off, len)
      <3>1. right = {Rec(free_blocks[p + 1])} /\ free_blocks[p + 1] \in ToSet(free_blocks)
        BY <1>4, <1>7, <2>1 DEF ToSet
      <3>2. High(off, len) = End(free_blocks[p + 1])
        BY <2>1 DEF High
      <3> HIDE DEF right, p, r
      <3>3. (CHOOSE c \in right : TRUE) = Rec(free_blocks[p + 1])
        BY <3>1
      <3>4. QED
        BY <1>3, <3>1, <3>2, <3>3
    <2>2. CASE ~Right(off, len)
      BY <1>5, <1>7, <2>2 DEF High
    <2>3. QED
      BY <2>1, <2>2
  <1>11. Ranges!Neighbours(At(off, len)) = {Rec(b) : b \in Gone(off, len)}
    <2>1. Ranges!Neighbours(r) =
            {c \in FreeRecs : Ranges!Top(c) = off \/ c.off = off + len}
      BY <1>5 DEF Ranges!Neighbours, FreeRecs, Rec
    <2>2. QED
      BY <1>3, <2>1 DEF Gone, FreeRecs
  <1> HIDE DEF lo, hi
  <1>12. At(lo, hi - lo) = Rec(Whole(off, len))
    BY <1>9, <1>10, WholeIs DEF Rec, At
  <1>13. QED
    BY <1>8, <1>11, <1>12

(* A range given back. *)
LEMMA FreeMaps ==
  ASSUME PoolInv, NEW ptr \in Nat, NEW len \in Nat, FreePtr(ptr, len),
         base_ptr <= ptr, ptr < base_ptr + Capacity
  PROVE  Ranges!FreeRange(At(ptr - base_ptr, len))
  <1> DEFINE off == ptr - base_ptr
             rest == ToSet(free_blocks) \ Gone(off, len)
             lost == Ranges!Neighbours(At(off, len))
  <1>1. off \in Nat
    BY PoolAssumption
  <1>2. FreeRecs' = {Rec(b) : b \in ToSet(free_blocks')}
    BY DEF FreeRecs, Rec, Off, Len_
  <1>3. CASE /\ ~Accepted(off, len)
             /\ UNCHANGED <<offset, free_blocks>>
    <2>1. Ranges!Dropped(At(off, len))
      BY <1>1, <1>3, DropMaps
    <2>2. FreeRecs' = FreeRecs
      BY <1>2, <1>3 DEF FreeRecs
    <2> HIDE DEF off
    <2>3. Ranges!FreeRange(At(off, len))
      BY <1>3, <2>1, <2>2 DEF Ranges!FreeRange, FreeRecs, Rec
    <2>4. QED
      BY <2>3 DEF off
  <1>4. CASE /\ Accepted(off, len)
             /\ IF High(off, len) = offset
                THEN offset' = Low(off) /\ ToSet(free_blocks') = rest
                ELSE offset' = offset /\ ToSet(free_blocks') = rest \cup {Whole(off, len)}
    <2> DEFINE m == Ranges!Merged(At(off, len))
    <2>1. ~Ranges!Dropped(At(off, len))
      BY <1>1, <1>4, DropMaps
    <2>2. m = Rec(Whole(off, len)) /\ lost = {Rec(b) : b \in Gone(off, len)}
      BY <1>1, <1>4, MergeMaps
    <2>3. m.off = Low(off) /\ Ranges!Top(m) = High(off, len)
      <3>1. /\ Whole(off, len) \in Blk /\ Off(Whole(off, len)) = Low(off)
            /\ End(Whole(off, len)) = High(off, len)
            /\ End(Whole(off, len)) = Off(Whole(off, len)) + Len_(Whole(off, len))
        BY <1>1, <1>4, WholeIs, BlkIs
      <3>2. Rec(Whole(off, len)).off = Off(Whole(off, len)) /\ Rec(Whole(off, len)).len = Len_(Whole(off, len))
        BY <3>1, RecIs
      <3> HIDE DEF m
      <3>3. QED
        BY <2>2, <3>1, <3>2 DEF Ranges!Top
    <2> HIDE DEF m
    <2>4. {Rec(b) : b \in rest} = FreeRecs \ lost
      <3>1. \A b, c \in ToSet(free_blocks) : Rec(b) = Rec(c) => b = c
        BY InSet, RecIs
      <3>2. Gone(off, len) \subseteq ToSet(free_blocks)
        BY DEF Gone
      <3> HIDE DEF off, lost
      <3>3. QED
        BY <2>2, <3>1, <3>2 DEF FreeRecs
    <2> HIDE DEF off, lost
    <2>5. CASE High(off, len) = offset
      <3>1. FreeRecs' = FreeRecs \ lost /\ offset' = m.off /\ Ranges!Top(m) = offset
        BY <1>2, <1>4, <2>3, <2>4, <2>5
      <3>2. Ranges!FreeRange(At(off, len))
        BY <2>1, <3>1 DEF Ranges!FreeRange, FreeRecs, Rec, m, lost
      <3>3. QED
        BY <3>2 DEF off
    <2>6. CASE High(off, len) # offset
      <3>1. /\ FreeRecs' = (FreeRecs \ lost) \cup {m} /\ offset' = offset
            /\ Ranges!Top(m) # offset
        <4>1. ToSet(free_blocks') = rest \cup {Whole(off, len)} /\ offset' = offset
          BY <1>4, <2>6
        <4> HIDE DEF rest
        <4>2. FreeRecs' = {Rec(b) : b \in rest} \cup {Rec(Whole(off, len))}
          BY <1>2, <4>1
        <4>3. QED
          BY <2>2, <2>3, <2>4, <2>6, <4>1, <4>2
      <3>2. Ranges!FreeRange(At(off, len))
        BY <2>1, <3>1 DEF Ranges!FreeRange, FreeRecs, Rec, m, lost
      <3>3. QED
        BY <3>2 DEF off
    <2>7. QED
      BY <2>5, <2>6
  <1>5. QED
    BY <1>3, <1>4, FreeIs

(* A pointer outside the mapping is answered as an offset past the mark is: *)
(* nothing happens.                                                        *)
LEMMA ForeignMaps ==
  ASSUME PoolInv, NEW ptr \in Nat, NEW len \in Nat, FreePtr(ptr, len),
         ~(base_ptr <= ptr /\ ptr < base_ptr + Capacity)
  PROVE  Ranges!FreeRange(At(Capacity, len))
  <1>1. UNCHANGED <<offset, free_blocks>>
    BY FreeIs
  <1>2. Capacity \in Nat /\ offset \in 0 .. Capacity
    BY PoolAssumption DEF PoolInv
  <1>3. ~Accepted(Capacity, len)
    BY <1>2 DEF Accepted
  <1>4. Ranges!Dropped(At(Capacity, len))
    BY <1>2, <1>3, DropMaps
  <1>5. FreeRecs' = FreeRecs
    BY <1>1 DEF FreeRecs, Rec
  <1>6. QED
    BY <1>1, <1>4, <1>5 DEF Ranges!FreeRange, FreeRecs, Rec

LEMMA ShiftIs ==
  ASSUME PoolInv
  PROVE  /\ \A r \in held : /\ r.ptr \in Nat /\ r.len \in Nat \ {0}
                            /\ base_ptr <= r.ptr /\ r.ptr + r.len <= base_ptr + Capacity
                            /\ Shift(r).off = r.ptr - base_ptr /\ Shift(r).len = r.len
         /\ \A r, s \in held : Shift(r) = Shift(s) => r = s
  <1>1. \A r \in held : /\ r.ptr \in Nat /\ r.len \in Nat \ {0} /\ r = [ptr |-> r.ptr, len |-> r.len]
                        /\ base_ptr <= r.ptr /\ r.ptr + r.len <= base_ptr + Capacity
                        /\ Shift(r).off = r.ptr - base_ptr /\ Shift(r).len = r.len
    BY DEF PoolInv, HeldType, Shift
  <1>2. ASSUME NEW r \in held, NEW s \in held, Shift(r) = Shift(s) PROVE r = s
    <2>1. r.len = s.len /\ r.ptr - base_ptr = s.ptr - base_ptr
      BY <1>1, <1>2
    <2>2. r.ptr = s.ptr
      BY <1>1, <2>1, PoolAssumption
    <2>3. QED
      BY <1>1, <2>1, <2>2
  <1>3. QED
    BY <1>1, <1>2

LEMMA ReturnMaps ==
  ASSUME PoolInv, NEW r \in held, Free(r)
  PROVE  Ranges!Free(Shift(r)) /\ Shift(r) \in HeldRecs
  <1>1. /\ r.ptr \in Nat /\ r.len \in Nat \ {0}
        /\ base_ptr <= r.ptr /\ r.ptr + r.len <= base_ptr + Capacity
    BY ShiftIs
  <1>2. r.ptr < base_ptr + Capacity
    BY <1>1, PoolAssumption
  <1>3. FreePtr(r.ptr, r.len) /\ held' = held \ {r} /\ outcome' = "idle"
    BY DEF Free
  <1>4. Ranges!FreeRange(Shift(r))
    BY <1>1, <1>2, <1>3, FreeMaps DEF At, Shift
  <1>5. HeldRecs' = {Shift(h) : h \in held'}
    BY DEF HeldRecs, Shift
  <1>6. HeldRecs' = HeldRecs \ {Shift(r)}
    BY <1>3, <1>5, ShiftIs DEF HeldRecs
  <1> DEFINE s == Shift(r)
  <1>7. s \in HeldRecs /\ Ranges!FreeRange(s) /\ HeldRecs' = HeldRecs \ {s}
    BY <1>4, <1>6 DEF HeldRecs
  <1> HIDE DEF s
  <1>8. Ranges!Free(s)
    BY <1>3, <1>7 DEF Ranges!Free, HeldRecs, Shift
  <1>9. QED
    BY <1>7, <1>8 DEF s

(* What is not wholly in use in the mapping is not in use in the region.   *)
LEMMA UseMaps ==
  ASSUME PoolInv, NEW off \in Nat, NEW len \in Nat, Ranges!InUse(At(off, len))
  PROVE  InUse(base_ptr + off, len)
  <1>1. \A x \in off .. off + len - 1 : \E s \in HeldRecs : s.off <= x /\ x < s.off + s.len
    BY RecIs DEF Ranges!InUse, Ranges!Top, HeldRecs, Shift
  <1>2. ASSUME NEW y \in base_ptr + off .. base_ptr + off + len - 1
        PROVE  \E r \in held : r.ptr <= y /\ y < r.ptr + r.len
    <2>1. base_ptr \in Nat /\ y - base_ptr \in off .. off + len - 1
      BY PoolAssumption
    <2>2. PICK s \in HeldRecs : s.off <= y - base_ptr /\ y - base_ptr < s.off + s.len
      BY <1>1, <2>1
    <2>3. PICK r \in held : s = Shift(r)
      BY <2>2 DEF HeldRecs
    <2>4. s.off = r.ptr - base_ptr /\ s.len = r.len /\ r.ptr \in Nat /\ r.len \in Nat
      BY <2>3, ShiftIs
    <2>5. r.ptr <= y /\ y < r.ptr + r.len
      BY <2>1, <2>2, <2>4
    <2>6. QED
      BY <2>5
  <1>3. QED
    BY <1>2 DEF InUse

LEMMA StrayMaps ==
  ASSUME PoolInv, NEW ptr \in Nat, NEW bytes \in Requests, FreeStray(ptr, bytes)
  PROVE  \E off \in 0 .. Capacity : Ranges!FreeAgain(off, bytes)
  <1> DEFINE len == Aligned(bytes)
  <1>1. len \in Nat /\ Ranges!Aligned(bytes) = len
    BY AlignedIsNat, PoolAssumption DEF Ranges!Aligned, Aligned
  <1>2. /\ len = 0 \/ ~InUse(ptr, len)
        /\ FreePtr(ptr, len) /\ outcome' = "idle" /\ held' = held
    BY DEF FreeStray
  <1>3. base_ptr \in Nat /\ Capacity \in Nat
    BY PoolAssumption
  <1>4. HeldRecs' = HeldRecs
    BY <1>2 DEF HeldRecs, Shift
  <1> HIDE DEF len
  <1>5. ASSUME NEW off \in Nat, len = 0 \/ ~Ranges!InUse(At(off, len)),
               Ranges!FreeRange(At(off, len))
        PROVE  Ranges!FreeAgain(off, bytes)
    BY <1>1, <1>2, <1>4, <1>5 DEF Ranges!FreeAgain, Ranges!Ranges, At, HeldRecs, Shift
  <1>6. CASE base_ptr <= ptr /\ ptr < base_ptr + Capacity
    <2> DEFINE off == ptr - base_ptr
    <2>1. off \in 0 .. Capacity /\ off \in Nat /\ base_ptr + off = ptr
      BY <1>3, <1>6
    <2>2. Ranges!FreeRange(At(off, len))
      BY <1>1, <1>2, <1>6, FreeMaps
    <2> HIDE DEF off
    <2>3. len = 0 \/ ~Ranges!InUse(At(off, len))
      BY <1>1, <1>2, <2>1, UseMaps
    <2>4. QED
      BY <1>5, <2>1, <2>2, <2>3
  <1>7. CASE ~(base_ptr <= ptr /\ ptr < base_ptr + Capacity)
    <2>1. Ranges!FreeRange(At(Capacity, len))
      BY <1>1, <1>2, <1>7, ForeignMaps
    <2>2. ASSUME len # 0, InUse(base_ptr + Capacity, len) PROVE FALSE
      <3>1. base_ptr + Capacity \in base_ptr + Capacity .. base_ptr + Capacity + len - 1
        BY <1>1, <1>3, <2>2
      <3>2. PICK r \in held : base_ptr + Capacity < r.ptr + r.len
        BY <2>2, <3>1 DEF InUse
      <3>3. QED
        BY <1>3, <3>2, ShiftIs
    <2>3. len = 0 \/ ~Ranges!InUse(At(Capacity, len))
      BY <1>1, <1>3, <2>2, UseMaps
    <2>4. Capacity \in 0 .. Capacity
      BY <1>3
    <2>5. QED
      BY <1>3, <1>5, <2>1, <2>3, <2>4
  <1>8. QED
    BY <1>6, <1>7

LEMMA StepImplements ==
  PoolInv /\ [Next]_vars => [Ranges!Next]_(Ranges!vars)
  <1> SUFFICES ASSUME PoolInv, [Next]_vars
               PROVE  Ranges!Next \/ UNCHANGED Ranges!vars
    OBVIOUS
  <1>1. ASSUME NEW bytes \in Requests, Allocate(bytes) PROVE Ranges!Next
    BY <1>1, AllocateMaps DEF Ranges!Next
  <1>2. ASSUME NEW r \in held, Free(r) PROVE Ranges!Next
    BY <1>2, ReturnMaps DEF Ranges!Next, HeldRecs, Shift
  <1>3. ASSUME NEW ptr \in Pointers, NEW bytes \in Requests, FreeStray(ptr, bytes) PROVE Ranges!Next
    <2>1. ptr \in Nat
      BY PoolAssumption DEF Pointers
    <2>2. QED
      BY <1>3, <2>1, StrayMaps DEF Ranges!Next
  <1>4. CASE UNCHANGED vars
    <2>1. FreeRecs' = FreeRecs /\ HeldRecs' = HeldRecs
      BY <1>4 DEF vars, FreeRecs, HeldRecs, Rec, Shift
    <2>2. QED
      BY <1>4, <2>1 DEF vars, Ranges!vars, FreeRecs, HeldRecs, Rec, Shift
  <1>5. QED
    BY <1>1, <1>2, <1>3, <1>4 DEF Next

(* The pool's copy of the algorithm, sorted list, binary search, edits by  *)
(* index and host pointers, does what RangeAllocator does: what is proved  *)
(* of the one holds of the other (DramPool::allocate, DramPool::free).     *)
THEOREM PoolImplementsAllocator == Spec => RangeAllocatorSpec
  <1>1. Init => Ranges!Init
    BY DEF Init, Ranges!Init, ToSet
  <1>2. QED
    BY <1>1, StepImplements, PoolInductive, PTL
    DEF Spec, RangeAllocatorSpec, Ranges!Spec
=============================================================================
