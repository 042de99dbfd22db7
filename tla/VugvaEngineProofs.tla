-------------------------- MODULE VugvaEngineProofs --------------------------
(***************************************************************************)
(* Proofs about VugvaEngine, for any number of GPUs, any amount of memory, *)
(* any names and any sizes of tensors.                                     *)
(***************************************************************************)
EXTENDS VugvaEngine, Sums, FiniteSetTheorems, TLAPS

-----------------------------------------------------------------------------
BlockType == [gpu : GPUs, size : Nat, id : Nat]
ChunkType == [block : BlockType, part : 0 .. N]
PageType ==
  [state : {"Unmapped", "Allocated", "Resident"}, size : Nat, chunks : Seq(ChunkType)]

Types ==
  /\ pages \in [Names -> PageType]
  /\ next_id \in Nat
  /\ live \subseteq BlockType /\ IsFiniteSet(live)

(* A page that is not there holds nothing. *)
UnmappedIsEmpty ==
  \A n \in Names : pages[n].state = "Unmapped" => pages[n].chunks = << >>

(* What ChunksAreLive says, without the set of places. *)
ChunkIsLive ==
  \A n \in Names : \A i \in DOMAIN pages[n].chunks : pages[n].chunks[i].block \in live

ChunkIsOne ==
  \A n, m \in Names : \A i \in DOMAIN pages[n].chunks, j \in DOMAIN pages[m].chunks :
    pages[n].chunks[i].block = pages[m].chunks[j].block => n = m /\ i = j

(* What LeaksAreReported says. *)
BlockIsKnown ==
  \A b \in live :
    \/ b \in refused
    \/ \E n \in Names : \E i \in DOMAIN pages[n].chunks : pages[n].chunks[i].block = b

EngineInv == Types /\ UnmappedIsEmpty /\ ChunkIsLive /\ ChunkIsOne

(* What ResidentIsWhole says, of a page: copies of the tensor, or shard g  *)
(* on GPU g with the size that allocate gave it.                           *)
Copies(P) == \A i \in DOMAIN P.chunks : P.chunks[i].part = Whole /\ P.chunks[i].block.size = P.size
Cut(P) ==
  /\ DOMAIN P.chunks = GPUs
  /\ \A g \in GPUs : /\ P.chunks[g].part = g /\ P.chunks[g].block.gpu = g
                     /\ P.chunks[g].block.size = ShardSize(g, P.size)

PageIsWhole(P) == P.state = "Resident" => Copies(P) \/ Cut(P)
PagesAreWhole == \A n \in Names : PageIsWhole(pages[n])

-----------------------------------------------------------------------------
(* A non-empty set of naturals has a least element. *)
LEMMA LeastElement ==
  ASSUME NEW S, S \subseteq Nat, S # {}
  PROVE  /\ Min(S) \in S
         /\ \A y \in S : Min(S) <= y
  <1>1. PICK x \in S : \A y \in S : ~(<<y, x>> \in OpToRel(<, Nat))
    BY NatLessThanWellFounded, WFMin
  <1>2. \A y \in S : <<y, x>> \in Nat \X Nat
    OBVIOUS
  <1>3. \A y \in S : ~(y < x)
    BY <1>1, <1>2 DEF OpToRel
  <1>4. \A y \in S : x <= y
    BY <1>3
  <1>5. QED
    BY <1>4 DEF Min

(* The ids in use on a GPU are no more than its blocks, so that one of the *)
(* first of them is free.                                                  *)
LEMMA FreeId ==
  ASSUME live \subseteq BlockType, IsFiniteSet(live), NEW g \in GPUs
  PROVE  \E i \in 1 .. Cardinality(On(g)) + 1 : \A b \in On(g) : b.id # i
  <1> DEFINE O   == On(g)
             n   == Cardinality(O)
             ids == {b.id : b \in O}
             f   == [b \in O |-> b.id]
  <1>1. IsFiniteSet(O) /\ n \in Nat
    BY FS_Subset, FS_CardinalityType DEF On
  <1>2. f \in Surjection(O, ids)
    BY DEF Surjection
  <1>3. IsFiniteSet(ids) /\ Cardinality(ids) <= n /\ Cardinality(ids) \in Nat
    BY <1>1, <1>2, FS_Surjection, FS_CardinalityType
  <1>4. SUFFICES ASSUME 1 .. n + 1 \subseteq ids
                 PROVE  FALSE
    OBVIOUS
  <1>5. Cardinality(1 .. n + 1) = n + 1
    BY <1>1, FS_Interval
  <1>6. Cardinality(1 .. n + 1) <= Cardinality(ids)
    BY <1>3, <1>4, FS_Subset
  <1>7. QED
    BY <1>1, <1>3, <1>5, <1>6

(* The driver hands out a block that is not out already. *)
LEMMA BlockIsNew ==
  ASSUME Types, NEW g \in GPUs, NEW size \in Nat
  PROVE  /\ Block(g, size) \in BlockType
         /\ Block(g, size) \notin live
         /\ Block(g, size).gpu = g /\ Block(g, size).size = size
  <1> DEFINE S == {i \in 1 .. Cardinality(On(g)) + 1 : \A b \in On(g) : b.id # i}
  <1>1. S # {}
    BY FreeId DEF Types
  <1>2. Cardinality(On(g)) \in Nat
    BY FS_Subset, FS_CardinalityType DEF On, Types
  <1>3. S \subseteq Nat
    BY <1>2
  <1>4. Min(S) \in S
    BY <1>1, <1>3, LeastElement
  <1>5. Block(g, size) = [gpu |-> g, size |-> size, id |-> Min(S)]
    BY DEF Block
  <1> HIDE DEF S
  <1>6. Min(S) \in Nat /\ \A b \in On(g) : b.id # Min(S)
    BY <1>3, <1>4 DEF S
  <1>7. QED
    BY <1>5, <1>6 DEF BlockType, On

-----------------------------------------------------------------------------
(* A page is replaced by one whose chunks are on new blocks. *)
LEMMA NewPage ==
  ASSUME EngineInv, NEW name \in Names, NEW P \in PageType,
         P.state # "Unmapped",
         pages' = [pages EXCEPT ![name] = P],
         live' = live \cup {P.chunks[i].block : i \in DOMAIN P.chunks},
         \A i \in DOMAIN P.chunks : P.chunks[i].block \notin live,
         \A i, j \in DOMAIN P.chunks : P.chunks[i].block = P.chunks[j].block => i = j
  PROVE  /\ (UnmappedIsEmpty /\ ChunkIsLive /\ ChunkIsOne)'
         /\ BlockIsKnown /\ pages[name].chunks = << >> /\ refused' = refused
              => BlockIsKnown'
  <1>1. /\ pages'[name] = P
        /\ \A n \in Names : n # name => pages'[n] = pages[n]
    BY DEF EngineInv, Types
  <1>2. UnmappedIsEmpty'
    BY <1>1 DEF EngineInv, UnmappedIsEmpty
  <1>3. ChunkIsLive'
    BY <1>1 DEF EngineInv, ChunkIsLive
  <1>4. ChunkIsOne'
    BY <1>1 DEF EngineInv, ChunkIsLive, ChunkIsOne
  <1>5. ASSUME BlockIsKnown, pages[name].chunks = << >>, refused' = refused
        PROVE  BlockIsKnown'
    BY <1>1, <1>5 DEF BlockIsKnown
  <1>6. QED
    BY <1>2, <1>3, <1>4, <1>5

LEMMA ShardSizeIsNat ==
  ASSUME NEW g \in GPUs, NEW size \in Nat
  PROVE  ShardSize(g, size) \in Nat
  <1> DEFINE q == size \div N
  <1>1. q \in Nat /\ q * N <= size /\ N \in Nat
    BY EngineAssumption
  <1> HIDE DEF q
  <1>2. q * (N - 1) = q * N - q
    BY <1>1
  <1>3. q * (N - 1) \in Int /\ q * (N - 1) <= size
    BY <1>1, <1>2
  <1>4. size - q * (N - 1) \in Nat
    BY <1>3
  <1>5. QED
    BY <1>1, <1>4 DEF ShardSize, q

-----------------------------------------------------------------------------
(* The fast path: at most one new block, for a page of its own. *)
LEMMA WholeStep ==
  ASSUME EngineInv, NEW name \in Names, NEW size \in Nat, AllocateWhole(name, size),
         refused' = refused, next_id' \in Nat
  PROVE  /\ EngineInv'
         /\ BlockIsKnown /\ pages[name].chunks = << >> => BlockIsKnown'
  <1>1. 1 \in GPUs /\ 0 \in 0 .. N
    BY EngineAssumption DEF GPUs
  <1>2. /\ Block(1, size) \in BlockType
        /\ Block(1, size) \notin live
    BY <1>1, BlockIsNew DEF EngineInv
  <1> DEFINE c == Chunk(Block(1, size), Whole)
             P == Page("Resident", size, <<c>>)
             E == Page("Allocated", size, << >>)
  <1>3. CASE /\ live' = live \cup {Block(1, size)}
             /\ pages' = [pages EXCEPT ![name] = P]
    <2>1. c \in ChunkType /\ c.block = Block(1, size)
      BY <1>1, <1>2 DEF Chunk, ChunkType, Whole
    <2>2. <<c>> \in Seq(ChunkType) /\ DOMAIN <<c>> = {1} /\ <<c>>[1] = c
      BY <2>1
    <2>3. P \in PageType /\ P.state = "Resident" /\ P.chunks = <<c>>
      BY <2>2 DEF Page, PageType
    <2>4. live' = live \cup {P.chunks[i].block : i \in DOMAIN P.chunks}
      BY <1>3, <2>1, <2>2, <2>3
    <2>5. Types'
      BY <1>2, <1>3, <2>3, FS_AddElement DEF EngineInv, Types
    <2>6. /\ \A i \in DOMAIN P.chunks : P.chunks[i].block \notin live
          /\ \A i, j \in DOMAIN P.chunks : P.chunks[i].block = P.chunks[j].block => i = j
      BY <1>2, <2>1, <2>2, <2>3
    <2>7. pages' = [pages EXCEPT ![name] = P] /\ P.state # "Unmapped"
      BY <1>3, <2>3
    <2> HIDE DEF P, c
    <2>8. /\ (UnmappedIsEmpty /\ ChunkIsLive /\ ChunkIsOne)'
          /\ BlockIsKnown /\ pages[name].chunks = << >> => BlockIsKnown'
      BY <2>3, <2>4, <2>6, <2>7, NewPage
    <2>9. QED
      BY <2>5, <2>8 DEF EngineInv
  <1>4. CASE live' = live /\ pages' = [pages EXCEPT ![name] = E]
    <2>1. E \in PageType /\ E.state = "Allocated" /\ E.chunks = << >>
      BY DEF Page, PageType
    <2>2. live' = live \cup {E.chunks[i].block : i \in DOMAIN E.chunks}
      BY <1>4, <2>1
    <2>3. Types'
      BY <1>4, <2>1 DEF EngineInv, Types
    <2>4. /\ pages' = [pages EXCEPT ![name] = E] /\ E.state # "Unmapped"
          /\ DOMAIN E.chunks = {}
      BY <1>4, <2>1
    <2> HIDE DEF E
    <2>5. /\ (UnmappedIsEmpty /\ ChunkIsLive /\ ChunkIsOne)'
          /\ BlockIsKnown /\ pages[name].chunks = << >> => BlockIsKnown'
      BY <2>1, <2>2, <2>4, NewPage
    <2>6. QED
      BY <2>3, <2>5 DEF EngineInv
  <1>5. QED
    BY <1>3, <1>4 DEF AllocateWhole

(* The shards: one new block on each of the first GPUs. *)
LEMMA ShardsStep ==
  ASSUME EngineInv, NEW name \in Names, NEW size \in Nat, AllocateShards(name, size),
         refused' = refused, next_id' \in Nat
  PROVE  /\ EngineInv'
         /\ BlockIsKnown /\ pages[name].chunks = << >> => BlockIsKnown'
  <1>1. PICK k \in 0 .. N :
          /\ live' = live \cup {Shards(k, size)[g].block : g \in 1 .. k}
          /\ pages' = [pages EXCEPT ![name] =
               Page(IF k = N THEN "Resident" ELSE "Allocated", size, Shards(k, size))]
    BY DEF AllocateShards
  <1> DEFINE s == Shards(k, size)
             P == Page(IF k = N THEN "Resident" ELSE "Allocated", size, s)
  <1>2. k \in Nat /\ 1 .. k \subseteq GPUs /\ GPUs \subseteq 0 .. N
    BY EngineAssumption DEF GPUs
  <1>3. \A g \in 1 .. k : /\ Block(g, ShardSize(g, size)) \in BlockType
                          /\ Block(g, ShardSize(g, size)) \notin live
                          /\ Block(g, ShardSize(g, size)).gpu = g
    BY <1>2, BlockIsNew, ShardSizeIsNat DEF EngineInv
  <1>4. \A g \in 1 .. k : s[g] \in ChunkType /\ s[g].block = Block(g, ShardSize(g, size))
    BY <1>2, <1>3 DEF Shards, Chunk, ChunkType
  <1>5. s \in Seq(ChunkType) /\ DOMAIN s = 1 .. k
    BY <1>2, <1>4 DEF Shards
  <1>6. P \in PageType /\ P.state # "Unmapped" /\ P.chunks = s
    BY <1>5 DEF Page, PageType
  <1>7. /\ pages' = [pages EXCEPT ![name] = P]
        /\ live' = live \cup {P.chunks[i].block : i \in DOMAIN P.chunks}
    BY <1>1, <1>5, <1>6
  <1> HIDE DEF s, P
  <1>8. Types'
    <2> DEFINE new == {s[g].block : g \in 1 .. k}
               f   == [g \in 1 .. k |-> s[g].block]
    <2>1. IsFiniteSet(1 .. k)
      BY <1>2, FS_Interval
    <2>2. f \in Surjection(1 .. k, new)
      BY DEF Surjection
    <2>3. IsFiniteSet(new)
      BY <2>1, <2>2, FS_Surjection
    <2>4. new \subseteq BlockType /\ live' = live \cup new
      BY <1>3, <1>4, <1>5, <1>6, <1>7
    <2> HIDE DEF new
    <2>5. live' \subseteq BlockType /\ IsFiniteSet(live')
      BY <2>3, <2>4, FS_Union DEF EngineInv, Types
    <2>6. QED
      BY <1>6, <1>7, <2>5 DEF EngineInv, Types
  <1>9. /\ \A i \in DOMAIN P.chunks : P.chunks[i].block \notin live
        /\ \A i, j \in DOMAIN P.chunks : P.chunks[i].block = P.chunks[j].block => i = j
    BY <1>3, <1>4, <1>5, <1>6
  <1>10. QED
    BY <1>6, <1>7, <1>8, <1>9, NewPage DEF EngineInv

LEMMA AllocateStep ==
  ASSUME EngineInv, NEW name \in Names, NEW made_up \in BOOLEAN, NEW size \in Sizes,
         Allocate(name, made_up, size)
  PROVE  /\ EngineInv'
         /\ BlockIsKnown /\ "names" \in Careful => BlockIsKnown'
  <1>1. refused' = refused /\ size \in Nat
    BY EngineAssumption DEF Allocate
  <1>2. next_id' \in Nat
    BY DEF Allocate, Named, EngineInv, Types
  <1>3. "names" \in Careful => pages[name].chunks = << >>
    BY DEF Allocate, NoPage
  <1>4. CASE AllocateWhole(name, size)
    BY <1>1, <1>2, <1>3, <1>4, WholeStep
  <1>5. CASE AllocateShards(name, size)
    BY <1>1, <1>2, <1>3, <1>5, ShardsStep
  <1>6. QED
    BY <1>4, <1>5 DEF Allocate

-----------------------------------------------------------------------------
(* access adds at most one chunk, on a new block, at the end of the list.  *)
LEMMA CopyStep ==
  ASSUME EngineInv, NEW name \in Names, NEW g \in GPUs, AccessCopy(name, g),
         refused' = refused, next_id' = next_id
  PROVE  /\ EngineInv'
         /\ BlockIsKnown /\ "copy" \notin Failures => BlockIsKnown'
  <1> DEFINE cs  == pages[name].chunks
             src == cs[1]
             dst == Chunk(Block(g, src.block.size), src.part)
  <1>1. cs \in Seq(ChunkType) /\ cs # << >> /\ src \in ChunkType
    BY DEF AccessCopy, EngineInv, Types, PageType
  <1>2. src.block.size \in Nat /\ src.part \in 0 .. N
    BY <1>1 DEF ChunkType, BlockType
  <1>3. Block(g, src.block.size) \in BlockType /\ Block(g, src.block.size) \notin live
    BY <1>2, BlockIsNew DEF EngineInv
  <1>4. dst \in ChunkType /\ dst.block \in BlockType /\ dst.block \notin live
    BY <1>2, <1>3 DEF Chunk, ChunkType
  <1>5. live' = live \cup {dst.block}
    BY DEF AccessCopy
  <1>6. \/ pages' = [pages EXCEPT ![name].chunks = Append(@, dst)]
        \/ "copy" \in Failures /\ pages' = pages
    BY DEF AccessCopy
  <1> HIDE DEF dst
  <1>7. IsFiniteSet(live') /\ live' \subseteq BlockType
    BY <1>4, <1>5, FS_AddElement DEF EngineInv, Types
  <1>8. CASE pages' = pages /\ "copy" \in Failures
    <2>1. Types'
      BY <1>7, <1>8 DEF EngineInv, Types
    <2>2. (UnmappedIsEmpty /\ ChunkIsLive /\ ChunkIsOne)'
      BY <1>5, <1>8 DEF EngineInv, UnmappedIsEmpty, ChunkIsLive, ChunkIsOne
    <2>3. QED
      BY <1>8, <2>1, <2>2 DEF EngineInv
  <1>9. CASE pages' = [pages EXCEPT ![name].chunks = Append(@, dst)]
    <2>1. /\ pages' = [pages EXCEPT ![name] = [pages[name] EXCEPT !.chunks = Append(cs, dst)]]
          /\ Append(cs, dst) \in Seq(ChunkType)
      BY <1>1, <1>4, <1>9
    <2>2. /\ pages' \in [Names -> PageType]
          /\ pages'[name].chunks = Append(cs, dst) /\ pages'[name].state = pages[name].state
          /\ \A n \in Names : n # name => pages'[n] = pages[n]
      BY <2>1 DEF EngineInv, Types, PageType
    <2>3. /\ DOMAIN pages'[name].chunks = 1 .. Len(cs) + 1 /\ DOMAIN cs = 1 .. Len(cs)
          /\ \A i \in DOMAIN cs : pages'[name].chunks[i] = cs[i]
          /\ pages'[name].chunks[Len(cs) + 1] = dst /\ Len(cs) \in Nat
      BY <1>1, <1>4, <2>2
    <2>4. \A i \in DOMAIN pages'[name].chunks : i \in DOMAIN cs \/ i = Len(cs) + 1
      BY <2>3
    <2>5. Types'
      BY <1>7, <2>2 DEF EngineInv, Types
    <2>6. UnmappedIsEmpty'
      BY <1>1, <2>2 DEF EngineInv, UnmappedIsEmpty
    <2>7. ChunkIsLive'
      BY <1>5, <2>2, <2>3, <2>4 DEF EngineInv, ChunkIsLive
    <2>8. ChunkIsOne'
      <3>1. ASSUME NEW n \in Names, NEW i \in DOMAIN pages'[n].chunks
            PROVE  \/ n = name /\ i = Len(cs) + 1 /\ pages'[n].chunks[i].block = dst.block
                   \/ /\ i \in DOMAIN pages[n].chunks
                      /\ pages'[n].chunks[i] = pages[n].chunks[i]
                      /\ pages[n].chunks[i].block # dst.block
        BY <1>4, <2>2, <2>3, <2>4 DEF EngineInv, ChunkIsLive
      <3>2. QED
        BY <3>1 DEF EngineInv, ChunkIsOne
    <2>9. ASSUME BlockIsKnown
          PROVE  BlockIsKnown'
      <3>1. SUFFICES ASSUME NEW b \in live', b \notin refused
                     PROVE  \E n \in Names : \E i \in DOMAIN pages'[n].chunks :
                              pages'[n].chunks[i].block = b
        BY DEF BlockIsKnown
      <3>2. CASE b = dst.block
        BY <2>3, <3>2
      <3>3. CASE b \in live
        <4>1. PICK n \in Names : \E i \in DOMAIN pages[n].chunks : pages[n].chunks[i].block = b
          BY <2>9, <3>1, <3>3 DEF BlockIsKnown
        <4>2. DOMAIN cs \subseteq DOMAIN pages'[name].chunks
          BY <2>3
        <4>3. QED
          BY <2>2, <2>3, <4>1, <4>2
      <3>4. QED
        BY <1>5, <3>2, <3>3
    <2>10. QED
      BY <2>5, <2>6, <2>7, <2>8, <2>9 DEF EngineInv
  <1>10. QED
    BY <1>6, <1>8, <1>9

LEMMA AccessStep ==
  ASSUME EngineInv, NEW name \in Names, NEW g \in 0 .. N, Access(name, g)
  PROVE  /\ EngineInv'
         /\ BlockIsKnown /\ "copy" \notin Failures => BlockIsKnown'
  <1>1. refused' = refused /\ next_id' = next_id
    BY DEF Access
  <1>2. CASE pages' = pages /\ live' = live
    BY <1>1, <1>2 DEF EngineInv, Types, UnmappedIsEmpty, ChunkIsLive, ChunkIsOne, BlockIsKnown
  <1>3. CASE g \in GPUs /\ AccessCopy(name, g)
    BY <1>1, <1>3, CopyStep
  <1>4. QED
    BY <1>2, <1>3 DEF Access, AccessRefused, AccessOwn, AccessFirst

(* What access returns. *)
LEMMA AccessServes ==
  ASSUME EngineInv, NEW name \in Names, NEW g \in 0 .. N, Access(name, g),
         "failed" \in Careful
  PROVE  OwnChunkIsServed'
  <1> DEFINE P == PlacesOn(name, g)
  <1>1. pages[name] \in PageType /\ P \subseteq Nat
    BY DEF EngineInv, Types, PageType, PlacesOn
  <1>2. pages[name].state = "Resident" \/ pages[name].chunks = << >>
    BY <1>1 DEF Access, PageType, EngineInv, UnmappedIsEmpty
  <1>3. CASE AccessOwn(name, g)
    <2>1. Min(P) \in P
      BY <1>1, <1>3, LeastElement DEF AccessOwn, Own
    <2>2. QED
      BY <1>3, <2>1 DEF AccessOwn, Serve, OwnChunkIsServed
  <1>4. CASE AccessFirst(name, g) \/ AccessCopy(name, g)
    <2>1. P = {}
      BY <1>2, <1>4 DEF AccessFirst, AccessCopy, Own
    <2>2. served'.had = {} \/ served' = Answer("error")
      <3>1. (\E c : Serve(name, g, c)) \/ served' = Answer("error")
        BY <1>4 DEF AccessFirst, AccessCopy
      <3>2. ASSUME NEW c, Serve(name, g, c)
            PROVE  served'.had = {}
        BY <2>1, <3>2 DEF Serve
      <3>3. QED
        BY <3>1, <3>2
    <2>3. QED
      BY <2>2 DEF OwnChunkIsServed, Answer
  <1>5. CASE AccessRefused(name, g)
    BY <1>5 DEF AccessRefused, OwnChunkIsServed, Answer
  <1>6. QED
    BY <1>3, <1>4, <1>5 DEF Access

-----------------------------------------------------------------------------
(* free tries every chunk of the page and forgets the page. *)
LEMMA FreeStep ==
  ASSUME EngineInv, NEW name \in Names, Free(name)
  PROVE  /\ EngineInv'
         /\ BlockIsKnown => BlockIsKnown'
  <1> DEFINE cs == pages[name].chunks
  <1>1. PICK bad \in SUBSET DOMAIN cs :
          /\ live' = live \ Freed(cs, bad)
          /\ refused' = refused \cup {cs[i].block : i \in bad}
          /\ pages' = [pages EXCEPT ![name] = NoPage]
          /\ next_id' = next_id
    BY DEF Free
  <1>2. /\ NoPage \in PageType /\ NoPage.state = "Unmapped" /\ NoPage.chunks = << >>
        /\ DOMAIN NoPage.chunks = {}
    BY DEF NoPage, PageType
  <1>3. /\ pages' \in [Names -> PageType] /\ pages'[name] = NoPage
        /\ \A n \in Names : n # name => pages'[n] = pages[n]
    BY <1>1, <1>2 DEF EngineInv, Types
  <1>4. live' \subseteq live /\ IsFiniteSet(live')
    BY <1>1, FS_Subset DEF EngineInv, Types
  <1>5. \A b \in Freed(cs, bad) : \E i \in DOMAIN cs : i \notin bad /\ b = cs[i].block
    BY DEF Freed
  <1>6. Types'
    BY <1>1, <1>3, <1>4 DEF EngineInv, Types
  <1>7. UnmappedIsEmpty'
    BY <1>2, <1>3 DEF EngineInv, UnmappedIsEmpty
  <1>8. ChunkIsLive'
    <2> SUFFICES ASSUME NEW n \in Names, NEW i \in DOMAIN pages'[n].chunks
                 PROVE  pages'[n].chunks[i].block \in live'
      BY DEF ChunkIsLive
    <2>1. n # name /\ pages'[n] = pages[n]
      BY <1>2, <1>3
    <2>2. pages[n].chunks[i].block \in live /\ pages[n].chunks[i].block \notin Freed(cs, bad)
      BY <1>5, <2>1 DEF EngineInv, ChunkIsLive, ChunkIsOne
    <2>3. QED
      BY <1>1, <2>1, <2>2
  <1>9. ChunkIsOne'
    BY <1>2, <1>3 DEF EngineInv, ChunkIsOne
  <1>10. ASSUME BlockIsKnown
         PROVE  BlockIsKnown'
    <2> SUFFICES ASSUME NEW b \in live', b \notin refused'
                 PROVE  \E n \in Names : \E i \in DOMAIN pages'[n].chunks :
                          pages'[n].chunks[i].block = b
      BY DEF BlockIsKnown
    <2>1. PICK n \in Names : \E i \in DOMAIN pages[n].chunks : pages[n].chunks[i].block = b
      BY <1>1, <1>4, <1>10 DEF BlockIsKnown
    <2>2. n # name
      BY <1>1, <2>1 DEF Freed
    <2>3. QED
      BY <1>3, <2>1, <2>2
  <1>11. QED
    BY <1>6, <1>7, <1>8, <1>9, <1>10 DEF EngineInv

-----------------------------------------------------------------------------
LEMMA InitStep == Init => EngineInv /\ BlockIsKnown /\ OwnChunkIsServed
  <1>1. NoPage \in PageType /\ NoPage.chunks = << >> /\ DOMAIN NoPage.chunks = {}
    BY DEF NoPage, PageType
  <1>2. Init => Types
    BY <1>1, FS_EmptySet DEF Init, Types
  <1>3. Init => UnmappedIsEmpty /\ ChunkIsLive /\ ChunkIsOne /\ BlockIsKnown
    BY <1>1 DEF Init, UnmappedIsEmpty, ChunkIsLive, ChunkIsOne, BlockIsKnown
  <1>4. Init => OwnChunkIsServed
    BY DEF Init, OwnChunkIsServed, Answer
  <1>5. QED
    BY <1>2, <1>3, <1>4 DEF EngineInv

LEMMA NextStep ==
  ASSUME EngineInv, [Next]_vars
  PROVE  /\ EngineInv'
         /\ BlockIsKnown /\ "copy" \notin Failures /\ "names" \in Careful => BlockIsKnown'
         /\ OwnChunkIsServed /\ "failed" \in Careful => OwnChunkIsServed'
  <1>1. ASSUME NEW name \in Names, NEW made_up \in BOOLEAN, NEW size \in Sizes,
               Allocate(name, made_up, size)
        PROVE  /\ EngineInv' /\ OwnChunkIsServed'
               /\ BlockIsKnown /\ "names" \in Careful => BlockIsKnown'
    <2>1. OwnChunkIsServed'
      BY <1>1 DEF Allocate, AllocateWhole, AllocateShards, OwnChunkIsServed, Answer
    <2>2. QED
      BY <1>1, <2>1, AllocateStep
  <1>2. ASSUME NEW name \in Names, NEW g \in 0 .. N, Access(name, g)
        PROVE  /\ EngineInv'
               /\ BlockIsKnown /\ "copy" \notin Failures => BlockIsKnown'
               /\ "failed" \in Careful => OwnChunkIsServed'
    BY <1>2, AccessStep, AccessServes
  <1>3. ASSUME NEW name \in Names, Free(name)
        PROVE  EngineInv' /\ OwnChunkIsServed' /\ (BlockIsKnown => BlockIsKnown')
    <2>1. OwnChunkIsServed'
      BY <1>3 DEF Free, OwnChunkIsServed, Answer
    <2>2. QED
      BY <1>3, <2>1, FreeStep
  <1>4. ASSUME UNCHANGED <<pages, next_id, live, refused>>
        PROVE  EngineInv' /\ (BlockIsKnown => BlockIsKnown')
    BY <1>4 DEF EngineInv, Types, UnmappedIsEmpty, ChunkIsLive, ChunkIsOne, BlockIsKnown
  <1>5. ASSUME NEW name \in Names, FreeUnknown(name)
        PROVE  OwnChunkIsServed' /\ UNCHANGED <<pages, next_id, live, refused>>
    BY <1>5 DEF FreeUnknown, OwnChunkIsServed, Answer
  <1>6. ASSUME UNCHANGED vars
        PROVE  /\ OwnChunkIsServed => OwnChunkIsServed'
               /\ UNCHANGED <<pages, next_id, live, refused>>
    BY <1>6 DEF vars, OwnChunkIsServed
  <1>7. QED
    BY <1>1, <1>2, <1>3, <1>4, <1>5, <1>6 DEF Next

(* The inductive invariant, whatever fails and however careless callers    *)
(* are.                                                                    *)
THEOREM EngineInductive == Spec => []EngineInv
  BY InitStep, NextStep, PTL DEF Spec

-----------------------------------------------------------------------------
(* Whatever fails and whatever names callers reuse, each chunk in the      *)
(* table is a block that the driver has out, and in one place only: free   *)
(* never hands a block back twice (src/src/allocator.rs:356-372).          *)
THEOREM ChunksAreAlwaysLive == Spec => []ChunksAreLive
  <1>1. EngineInv => ChunksAreLive
    <2> SUFFICES ASSUME EngineInv PROVE ChunksAreLive
      OBVIOUS
    <2>1. \A p \in Places : /\ p[1] \in Names /\ p[2] \in DOMAIN pages[p[1]].chunks
                            /\ p = <<p[1], p[2]>>
      BY DEF Places
    <2>2. Owned \subseteq live
      BY <2>1 DEF Owned, BlockAt, EngineInv, ChunkIsLive
    <2>3. ASSUME NEW p \in Places, NEW q \in Places, BlockAt(p) = BlockAt(q)
          PROVE  p = q
      BY <2>1, <2>3 DEF BlockAt, EngineInv, ChunkIsOne
    <2>4. QED
      BY <2>2, <2>3 DEF ChunksAreLive
  <1>2. QED
    BY <1>1, EngineInductive, PTL

(* With no name reused and no peer copy refused, a block out of the table  *)
(* is one whose free failed and was reported, whichever allocations and    *)
(* frees fail half way (src/src/allocator.rs:354-373).                     *)
THEOREM LeaksAreAlwaysReported ==
  ASSUME "names" \in Careful, "copy" \notin Failures
  PROVE  Spec => []LeaksAreReported
  <1>1. BlockIsKnown => LeaksAreReported
    <2> SUFFICES ASSUME BlockIsKnown, NEW b \in live, b \notin refused
                 PROVE  b \in Owned
      BY DEF LeaksAreReported
    <2>1. PICK n \in Names : \E i \in DOMAIN pages[n].chunks : pages[n].chunks[i].block = b
      BY DEF BlockIsKnown
    <2>2. PICK i \in DOMAIN pages[n].chunks : pages[n].chunks[i].block = b
      BY <2>1
    <2>3. <<n, i>> \in Places /\ BlockAt(<<n, i>>) = b
      BY <2>2 DEF Places, BlockAt
    <2>4. QED
      BY <2>3 DEF Owned
  <1>2. EngineInv /\ BlockIsKnown /\ [Next]_vars => BlockIsKnown'
    BY NextStep
  <1>3. QED
    BY <1>1, <1>2, InitStep, EngineInductive, PTL DEF Spec

(* Callers who do not access what could not be allocated get the chunk     *)
(* their page has on the GPU, if it has one (src/src/allocator.rs:278-281). *)
THEOREM OwnChunkIsAlwaysServed ==
  ASSUME "failed" \in Careful
  PROVE  Spec => []OwnChunkIsServed
  <1>1. EngineInv /\ OwnChunkIsServed /\ [Next]_vars => OwnChunkIsServed'
    BY NextStep
  <1>2. QED
    BY <1>1, InitStep, EngineInductive, PTL DEF Spec

-----------------------------------------------------------------------------
(* The shards make up the tensor: N - 1 of size \div N and the rest.      *)
LEMMA ShardsMakeUp ==
  ASSUME NEW size \in Nat, NEW F, \A g \in GPUs : F[g] = ShardSize(g, size)
  PROVE  SumFunctionOnSet(F, GPUs) = size
  <1> DEFINE q == size \div N
             S == 1 .. N - 1
  <1>1. N \in Nat \ {0} /\ q \in Nat
    BY EngineAssumption
  <1>2. IsFiniteSet(GPUs) /\ IsFiniteSet(S) /\ Cardinality(S) = N - 1
    BY <1>1, FS_Interval DEF GPUs
  <1>3. GPUs \ {N} = S /\ N \in GPUs
    BY <1>1 DEF GPUs
  <1>4. \A g \in GPUs : F[g] \in Nat
    BY ShardSizeIsNat
  <1>5. SumFunctionOnSet(F, GPUs) = F[N] + SumFunctionOnSet(F, S)
    <2> HIDE DEF S
    <2>1. QED
      BY <1>2, <1>3, <1>4, SumTakesOut
  <1>6. \A g \in S : F[g] = q
    BY <1>1 DEF GPUs, ShardSize
  <1>7. SumFunctionOnSet(F, S) = (N - 1) * q
    <2> HIDE DEF S, q
    <2>1. QED
      BY <1>1, <1>2, <1>6, SumOfEqual
  <1>8. F[N] = size - q * (N - 1)
    BY <1>3 DEF ShardSize
  <1> HIDE DEF q
  <1>9. q * (N - 1) = (N - 1) * q /\ (N - 1) * q \in Int
    BY <1>1
  <1>10. QED
    BY <1>5, <1>7, <1>8, <1>9

LEMMA WholePagesStep ==
  ASSUME EngineInv, PagesAreWhole, [Next]_vars
  PROVE  PagesAreWhole'
  <1>1. pages \in [Names -> PageType]
    BY DEF EngineInv, Types
  <1>2. ASSUME NEW name \in Names, NEW P, PageIsWhole(P),
               pages' = [pages EXCEPT ![name] = P]
        PROVE  PagesAreWhole'
    BY <1>1, <1>2 DEF PagesAreWhole
  <1>3. ASSUME NEW name \in Names, NEW size \in Nat, AllocateWhole(name, size)
        PROVE  PagesAreWhole'
    <2> DEFINE c == Chunk(Block(1, size), Whole)
               P == Page("Resident", size, <<c>>)
               E == Page("Allocated", size, << >>)
    <2>1. c.part = Whole /\ c.block.size = size
      BY DEF Chunk, Block
    <2> HIDE DEF c
    <2>2. Copies(P) /\ PageIsWhole(P)
      BY <2>1 DEF Page, Copies, PageIsWhole
    <2>3. PageIsWhole(E)
      BY DEF Page, PageIsWhole
    <2>4. pages' = [pages EXCEPT ![name] = P] \/ pages' = [pages EXCEPT ![name] = E]
      BY <1>3 DEF AllocateWhole, c
    <2> HIDE DEF P, E
    <2>5. QED
      BY <1>2, <2>2, <2>3, <2>4
  <1>4. ASSUME NEW name \in Names, NEW size \in Nat, AllocateShards(name, size)
        PROVE  PagesAreWhole'
    <2>1. PICK k \in 0 .. N :
            pages' = [pages EXCEPT ![name] =
               Page(IF k = N THEN "Resident" ELSE "Allocated", size, Shards(k, size))]
      BY <1>4 DEF AllocateShards
    <2> DEFINE P == Page(IF k = N THEN "Resident" ELSE "Allocated", size, Shards(k, size))
    <2>2. k = N => Cut(P)
      BY DEF Cut, Page, Shards, Chunk, Block, GPUs
    <2>3. PageIsWhole(P)
      BY <2>2 DEF PageIsWhole, Page
    <2> HIDE DEF P
    <2>4. QED
      BY <1>2, <2>1, <2>3 DEF P
  <1>5. ASSUME NEW name \in Names, NEW g \in GPUs, AccessCopy(name, g)
        PROVE  PagesAreWhole'
    <2> DEFINE cs  == pages[name].chunks
               dst == Chunk(Block(g, cs[1].block.size), cs[1].part)
               P   == [pages[name] EXCEPT !.chunks = Append(cs, dst)]
    <2>1. pages[name] \in PageType /\ cs \in Seq(ChunkType) /\ cs # << >>
      BY <1>1, <1>5 DEF AccessCopy, PageType
    <2>2. pages' = pages \/ pages' = [pages EXCEPT ![name] = P]
      BY <1>1, <1>5 DEF AccessCopy
    <2>3. ASSUME pages[name].state = "Resident"
          PROVE  Copies(pages[name])
      <3>1. PlacesOn(name, g) = {}
        BY <1>5, <2>3 DEF AccessCopy, Own
      <3>2. ~Cut(pages[name])
        BY <3>1 DEF Cut, PlacesOn
      <3>3. QED
        BY <2>3, <3>2 DEF PagesAreWhole, PageIsWhole
    <2>4. dst.block.size = cs[1].block.size /\ dst.part = cs[1].part
      BY DEF Chunk, Block
    <2> HIDE DEF dst
    <2>5. /\ P.state = pages[name].state /\ P.size = pages[name].size
          /\ P.chunks = Append(cs, dst)
      BY <2>1 DEF PageType
    <2>6. ASSUME pages[name].state = "Resident"
          PROVE  Copies(P)
      <3>1. 1 \in DOMAIN cs /\ DOMAIN cs = 1 .. Len(cs) /\ Len(cs) \in Nat
        BY <2>1
      <3>2. /\ DOMAIN Append(cs, dst) = 1 .. Len(cs) + 1
            /\ \A i \in 1 .. Len(cs) : Append(cs, dst)[i] = cs[i]
            /\ Append(cs, dst)[Len(cs) + 1] = dst
        BY <2>1
      <3>3. \A i \in DOMAIN Append(cs, dst) : i \in DOMAIN cs \/ i = Len(cs) + 1
        BY <3>1, <3>2
      <3>4. \A i \in DOMAIN cs : cs[i].part = Whole /\ cs[i].block.size = pages[name].size
        BY <2>3, <2>6 DEF Copies
      <3> HIDE DEF P
      <3>5. QED
        BY <2>4, <2>5, <3>1, <3>2, <3>3, <3>4 DEF Copies
    <2>7. PageIsWhole(P)
      BY <2>5, <2>6 DEF PageIsWhole
    <2> HIDE DEF P
    <2>8. QED
      BY <1>2, <2>2, <2>7 DEF PagesAreWhole
  <1>6. ASSUME NEW name \in Names, Free(name)
        PROVE  PagesAreWhole'
    <2>1. pages' = [pages EXCEPT ![name] = NoPage]
      BY <1>6 DEF Free
    <2>2. PageIsWhole(NoPage)
      BY DEF NoPage, PageIsWhole
    <2>3. QED
      BY <1>2, <2>1, <2>2
  <1>7. ASSUME pages' = pages
        PROVE  PagesAreWhole'
    BY <1>7 DEF PagesAreWhole
  <1>8. ASSUME NEW name \in Names, NEW g \in 0 .. N, Access(name, g)
        PROVE  PagesAreWhole'
    BY <1>5, <1>7, <1>8 DEF Access, AccessRefused, AccessOwn, AccessFirst
  <1>9. ASSUME NEW name \in Names, NEW made_up \in BOOLEAN, NEW size \in Sizes,
               Allocate(name, made_up, size)
        PROVE  PagesAreWhole'
    BY <1>3, <1>4, <1>9, EngineAssumption DEF Allocate
  <1>10. ASSUME NEW name \in Names, FreeUnknown(name)
         PROVE  PagesAreWhole'
    BY <1>7, <1>10 DEF FreeUnknown
  <1>11. CASE UNCHANGED vars
    BY <1>7, <1>11 DEF vars
  <1>12. QED
    BY <1>6, <1>8, <1>9, <1>10, <1>11 DEF Next

(* Whatever fails and whoever calls, the chunks of a resident page are the *)
(* tensor: each is a copy of it, or they are N shards whose sizes add up   *)
(* to the tensor's (src/src/allocator.rs:254-275).                         *)
THEOREM ResidentIsAlwaysWhole == Spec => []ResidentIsWhole
  <1>1. Init => PagesAreWhole
    BY DEF Init, PagesAreWhole, PageIsWhole, NoPage
  <1>2. EngineInv /\ PagesAreWhole => ResidentIsWhole
    <2> SUFFICES ASSUME EngineInv, PagesAreWhole, NEW n \in Names,
                        pages[n].state = "Resident", Cut(pages[n])
                 PROVE  LET cs == pages[n].chunks
                        IN  /\ {cs[i].part : i \in DOMAIN cs} = GPUs /\ Len(cs) = N
                            /\ \A i \in DOMAIN cs : cs[i].part = cs[i].block.gpu
                            /\ SumFunction([i \in DOMAIN cs |-> cs[i].block.size]) = pages[n].size
      BY DEF ResidentIsWhole, PagesAreWhole, PageIsWhole, Copies
    <2> DEFINE cs == pages[n].chunks
               F  == [i \in DOMAIN cs |-> cs[i].block.size]
    <2>1. pages[n] \in PageType /\ cs \in Seq(ChunkType)
      BY DEF EngineInv, Types, PageType
    <2>2. DOMAIN cs = GPUs /\ \A g \in GPUs : cs[g].part = g /\ cs[g].block.gpu = g
      BY DEF Cut
    <2>3. Len(cs) = N
      BY <2>1, <2>2, EngineAssumption DEF GPUs
    <2>4. {cs[i].part : i \in DOMAIN cs} = GPUs
      BY <2>2
    <2>5. DOMAIN F = GPUs /\ \A g \in GPUs : F[g] = ShardSize(g, pages[n].size)
      BY <2>2 DEF Cut
    <2>6. pages[n].size \in Nat
      BY <2>1 DEF PageType
    <2> HIDE DEF F
    <2>7. SumFunctionOnSet(F, GPUs) = pages[n].size
      BY <2>5, <2>6, ShardsMakeUp
    <2>8. SumFunction(F) = pages[n].size
      BY <2>5, <2>7 DEF SumFunction
    <2>9. QED
      BY <2>2, <2>3, <2>4, <2>8 DEF F
  <1>3. QED
    BY <1>1, <1>2, WholePagesStep, EngineInductive, PTL DEF Spec
=============================================================================
