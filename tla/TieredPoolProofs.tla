-------------------------- MODULE TieredPoolProofs --------------------------
(***************************************************************************)
(* What the tiered pool keeps, for any number of GPUs, pages, units and    *)
(* slots, in four parts.  Base: the types of its variables and where       *)
(* chunks may be.  Owners: who has a device block or a frame of DRAM.      *)
(* Contents: where the last write of a page is.  Room: how much fits.      *)
(*                                                                         *)
(* Base.  The operators come first (what a cache, a stream, a block, a     *)
(* frame or a page is after them), with the three places of a device block *)
(* as parameters, because a call of the pool changes them one after the    *)
(* other; then each call, with a lemma that lists the ways it can end and  *)
(* one that Base holds after it.                                           *)
(***************************************************************************)
EXTENDS TieredPool, Sums, SequenceTheorems, FiniteSetTheorems, WellFoundedInduction, TLAPS

-----------------------------------------------------------------------------
Units == Nat \X Nat
Data == Seq(Units)
Chunk == [gpu : GPUs, blk : Nat, size : Nat]
Place == [frame : Frames, size : Nat]
States == {"Unmapped", "Allocated", "Resident", "Warm", "Cold"}
Page == [live : BOOLEAN, tier : {"Vram", "Dram", "Ssd"}, state : States,
         vram : Seq(Chunk), dram : Seq(Place), ssd : Nat, hits : Nat,
         pinned : BOOLEAN]
Block == [size : Nat, data : Data]
Frame == [used : BOOLEAN, data : Data]
Copy == [page : Pages, blk : Nat, frame : Frames, size : Nat]
Cache == [GPUs -> Seq(Nat)]
Lists == [Pages -> Seq(Chunk)]
Issues == [Pages -> Chunk \cup {None}]

Devs == [GPUs -> Seq(Block)]

PageLists == [p \in Pages |-> pages[p].vram]

(* The blocks in the three places are blocks the driver gave out. *)
Made(cache, lists, issues, made) ==
  /\ \A g \in GPUs : \A i \in DOMAIN cache[g] : cache[g][i] \in DOMAIN made[g]
  /\ \A p \in Pages : \A i \in DOMAIN lists[p] : lists[p][i].blk \in DOMAIN made[lists[p][i].gpu]
  /\ \A p \in Pages : issues[p] # None => issues[p].blk \in DOMAIN made[issues[p].gpu]

(* The lists with one more chunk on page p. *)
ListedWith(lists, p, c) == [lists EXCEPT ![p] = Append(@, c)]

(* A cache without its entry i for GPU g. *)
Without(cache, g, i) == [cache EXCEPT ![g] = SwapRemove(cache[g], i)]

-----------------------------------------------------------------------------
(* A non-empty set of naturals has a least element. *)
LEMMA LeastElement ==
  ASSUME NEW S, S \subseteq Nat, S # {}
  PROVE  /\ Min(S) \in S
         /\ \A y \in S : Min(S) <= y
  <1>1. PICK x \in S : \A y \in S : ~(<<y, x>> \in OpToRel(<, Nat))
    BY NatLessThanWellFounded, WFMin
  <1>2. \A y \in S : <<y, x>> \in Nat \X Nat
    OBVIOUS
  <1>3. \A y \in S : ~(y < x)
    BY <1>1, <1>2 DEF OpToRel
  <1>4. \A y \in S : x <= y
    BY <1>3
  <1>5. QED
    BY <1>4 DEF Min

(* The cardinality of a set with at most one element, or with exactly one. *)
LEMMA AtMostOne ==
  ASSUME NEW S, \A i, j \in S : i = j
  PROVE  /\ IsFiniteSet(S) /\ Cardinality(S) \in {0, 1}
         /\ S = {} <=> Cardinality(S) = 0
  <1>1. CASE S = {}
    BY <1>1, FS_EmptySet
  <1>2. ASSUME NEW i \in S PROVE S = {i}
    BY <1>2
  <1>3. ASSUME NEW i \in S PROVE Cardinality(S) = 1 /\ IsFiniteSet(S)
    BY <1>2, <1>3, FS_Singleton
  <1>4. QED
    BY <1>1, <1>3, FS_EmptySet

LEMMA NoneIsNoChunk == None \notin Chunk /\ None.gpu \notin GPUs
  BY PoolAssumption DEF None, Chunk, GPUs

(* What is left of a cache when an entry is taken out of it. *)
LEMMA SwapRemoveIs ==
  ASSUME NEW s \in Seq(Nat), NEW i \in DOMAIN s
  PROVE  /\ SwapRemove(s, i) \in Seq(Nat)
         /\ DOMAIN SwapRemove(s, i) = 1 .. Len(s) - 1
         /\ \A j \in 1 .. Len(s) - 1 :
              SwapRemove(s, i)[j] = IF j = i THEN s[Len(s)] ELSE s[j]
  <1>1. Len(s) \in Nat /\ DOMAIN s = 1 .. Len(s) /\ \A j \in 1 .. Len(s) : s[j] \in Nat
    OBVIOUS
  <1>2. \A j \in 1 .. Len(s) - 1 : (IF j = i THEN s[Len(s)] ELSE s[j]) \in Nat
    BY <1>1
  <1>3. QED
    BY <1>1, <1>2 DEF SwapRemove

LEMMA ChunkOfList ==
  ASSUME NEW lists \in Lists, NEW p \in Pages, NEW i \in DOMAIN lists[p]
  PROVE  /\ lists[p][i] \in Chunk
         /\ lists[p][i].gpu \in GPUs /\ lists[p][i].blk \in Nat /\ lists[p][i].size \in Nat
  <1>1. lists[p] \in Seq(Chunk)
    BY DEF Lists
  <1>2. lists[p][i] \in Chunk
    BY <1>1, ElementOfSeq
  <1>3. QED
    BY <1>2 DEF Chunk

LEMMA ChunkOfIssue ==
  ASSUME NEW issues \in Issues, NEW p \in Pages
  PROVE  IF issues[p] = None THEN issues[p].gpu \notin GPUs
         ELSE /\ issues[p] \in Chunk
              /\ issues[p].gpu \in GPUs /\ issues[p].blk \in Nat /\ issues[p].size \in Nat
  BY NoneIsNoChunk DEF Issues, Chunk

LEMMA RecycledIs ==
  ASSUME NEW cache \in Cache, NEW g \in GPUs, NEW b \in Nat
  PROVE  /\ Recycled(cache, g, b) \in Cache
         /\ \A h \in GPUs : h # g => Recycled(cache, g, b)[h] = cache[h]
         /\ Recycled(cache, g, b)[g] = Append(cache[g], b)
         /\ Len(cache[g]) \in Nat /\ DOMAIN cache[g] = 1 .. Len(cache[g])
         /\ DOMAIN Recycled(cache, g, b)[g] = 1 .. Len(cache[g]) + 1
         /\ \A i \in 1 .. Len(cache[g]) : Recycled(cache, g, b)[g][i] = cache[g][i]
         /\ Recycled(cache, g, b)[g][Len(cache[g]) + 1] = b
  BY DEF Recycled, Cache

(* Taking a block: from the cache, or a new one from the driver. *)
LEMMA BlockChosen ==
  ASSUME NEW cache \in Cache, NEW g \in GPUs, NEW n \in Nat,
         NEW a \in VramBlocks(cache, g, n)
  PROVE  \/ a.new = FALSE /\ \E i \in DOMAIN cache[g] :
              /\ a.blk = cache[g][i] /\ dev[g][a.blk].size = n
              /\ a.cache = Without(cache, g, i)
         \/ a.new = TRUE /\ a.blk = Len(dev[g]) + 1 /\ a.cache = cache
  <1> DEFINE hits == Recyclable(cache, g, n)
  <1>1. CASE hits # {}
    <2>1. hits \subseteq Nat
      BY DEF Recyclable, Cache
    <2>2. Min(hits) \in hits
      BY <1>1, <2>1, LeastElement
    <2>3. Min(hits) \in DOMAIN cache[g] /\ dev[g][cache[g][Min(hits)]].size = n
      BY <2>2 DEF Recyclable
    <2>4. a = [cache |-> [cache EXCEPT ![g] = SwapRemove(cache[g], Min(hits))],
               blk |-> cache[g][Min(hits)], new |-> FALSE]
      BY <1>1 DEF VramBlocks
    <2>5. QED
      BY <2>3, <2>4 DEF Without
  <1>2. CASE hits = {}
    <2>1. a = [cache |-> cache, blk |-> Len(dev[g]) + 1, new |-> TRUE]
      BY <1>2 DEF VramBlocks
    <2>2. QED
      BY <2>1
  <1>3. QED
    BY <1>1, <1>2

LEMMA BlockTyped ==
  ASSUME NEW cache \in Cache, NEW lists \in Lists, NEW issues \in Issues,
         NEW g \in GPUs, NEW n \in Nat, NEW a \in VramBlocks(cache, g, n),
         dev \in Devs, Made(cache, lists, issues, dev)
  PROVE  /\ a.cache \in Cache /\ a.blk \in Nat /\ a.new \in BOOLEAN
         /\ IF a.new THEN a.blk = Len(dev[g]) + 1
            ELSE a.blk \in DOMAIN dev[g] /\ dev[g][a.blk].size = n
         /\ Made(a.cache, lists, issues, dev)
  <1>1. CASE a.new = TRUE /\ a.blk = Len(dev[g]) + 1 /\ a.cache = cache
    <2>1. Len(dev[g]) \in Nat
      BY DEF Devs
    <2>2. a.blk \in Nat
      BY <1>1, <2>1
    <2>3. QED
      BY <1>1, <2>2
  <1>2. ASSUME NEW i \in DOMAIN cache[g], a.new = FALSE,
               a.blk = cache[g][i], dev[g][a.blk].size = n,
               a.cache = Without(cache, g, i)
        PROVE  /\ a.cache \in Cache /\ a.blk \in Nat /\ a.blk \in DOMAIN dev[g]
               /\ Made(a.cache, lists, issues, dev)
    <2> DEFINE c == a.cache
               s == cache[g]
               t == SwapRemove(s, i)
    <2>1. s \in Seq(Nat) /\ i \in DOMAIN s /\ s[i] \in Nat
      BY DEF Cache
    <2>2. t \in Seq(Nat) /\ DOMAIN t = 1 .. Len(s) - 1
          /\ \A j \in 1 .. Len(s) - 1 : t[j] = IF j = i THEN s[Len(s)] ELSE s[j]
      BY <2>1, SwapRemoveIs
    <2>3. c \in Cache /\ c[g] = t /\ \A h \in GPUs : h # g => c[h] = cache[h]
      BY <1>2, <2>2 DEF Cache, Without
    <2>4. \A j \in DOMAIN t : \E k \in DOMAIN s : t[j] = s[k]
      <3>1. Len(s) \in Nat /\ DOMAIN s = 1 .. Len(s)
        BY <2>1
      <3> HIDE DEF s, t
      <3>2. QED
        BY <2>2, <3>1
    <2> HIDE DEF c, t
    <2>5. Made(c, lists, issues, dev)
      BY <2>3, <2>4 DEF Made
    <2>6. s[i] \in DOMAIN dev[g]
      BY <2>1 DEF Made
    <2>7. QED
      BY <1>2, <2>1, <2>3, <2>5, <2>6 DEF c
  <1>3. CASE a.new = FALSE /\ \E i \in DOMAIN cache[g] :
               /\ a.blk = cache[g][i] /\ dev[g][a.blk].size = n
               /\ a.cache = Without(cache, g, i)
    <2>1. PICK i \in DOMAIN cache[g] :
               /\ a.blk = cache[g][i] /\ dev[g][a.blk].size = n
               /\ a.cache = Without(cache, g, i)
      BY <1>3
    <2>2. QED
      BY <1>2, <1>3, <2>1
  <1>4. \/ a.new = FALSE /\ \E i \in DOMAIN cache[g] :
              /\ a.blk = cache[g][i] /\ dev[g][a.blk].size = n
              /\ a.cache = Without(cache, g, i)
        \/ a.new = TRUE /\ a.blk = Len(dev[g]) + 1 /\ a.cache = cache
    BY BlockChosen
  <1>5. QED
    BY <1>1, <1>3, <1>4

(* The block a promotion writes to: the next one, or one there is. *)
OneBlock(g, a) ==
  IF a.new THEN a.blk = Len(dev[g]) + 1 ELSE a.blk \in DOMAIN dev[g]

(* Making a block and filling it changes no other block. *)
LEMMA FilledIs ==
  ASSUME dev \in Devs, NEW g \in GPUs, NEW a, NEW n \in Nat, NEW data \in Data,
         OneBlock(g, a), NEW made, made = Filled(g, a, n, data)
  PROVE  /\ made \in Devs
         /\ \A h \in GPUs : h # g => made[h] = dev[h]
         /\ DOMAIN made[g] = DOMAIN dev[g] \cup {a.blk}
         /\ \A b \in DOMAIN dev[g] : b # a.blk => made[g][b] = dev[g][b]
         /\ made[g][a.blk].size = n /\ made[g][a.blk].data = data
  <1> DEFINE block == [size |-> n, data |-> data]
  <1>1. block \in Block
    BY DEF Block
  <1>2. dev[g] \in Seq(Block) /\ Len(dev[g]) \in Nat /\ DOMAIN dev[g] = 1 .. Len(dev[g])
    BY DEF Devs
  <1> HIDE DEF block
  <1>3. CASE a.new
    <2>1. Filled(g, a, n, data) = [dev EXCEPT ![g] = Append(dev[g], block)]
      BY <1>3 DEF Filled, block
    <2>2. /\ Append(dev[g], block) \in Seq(Block)
          /\ DOMAIN Append(dev[g], block) = 1 .. Len(dev[g]) + 1
          /\ \A b \in 1 .. Len(dev[g]) : Append(dev[g], block)[b] = dev[g][b]
          /\ Append(dev[g], block)[Len(dev[g]) + 1] = block
      BY <1>1, <1>2
    <2>3. a.blk = Len(dev[g]) + 1
      BY <1>3 DEF OneBlock
    <2>4. QED
      BY <1>2, <2>1, <2>2, <2>3 DEF Devs, block
  <1>4. CASE ~a.new
    <2>1. Filled(g, a, n, data) = [dev EXCEPT ![g] = [dev[g] EXCEPT ![a.blk] = block]]
      BY <1>4 DEF Filled, block
    <2>2. a.blk \in DOMAIN dev[g]
      BY <1>4 DEF OneBlock
    <2>3. [dev[g] EXCEPT ![a.blk] = block] \in Seq(Block)
      BY <1>1, <1>2, <2>2
    <2>4. QED
      BY <1>2, <2>1, <2>2, <2>3 DEF Devs, block
  <1>5. QED
    BY <1>3, <1>4

(* Giving up the first m chunks of a page: what the caches hold then. *)
LEMMA ReleasedIs ==
  ASSUME vram_free \in Cache, PageLists \in Lists,
         NEW p \in Pages, NEW m \in 0 .. Len(pages[p].vram)
  PROVE  LET cache == Released(p, m)
             l == PageLists[p]
         IN  /\ cache \in Cache
             /\ \A g \in GPUs :
                  \/ cache[g] = vram_free[g]
                  \/ \E i \in 1 .. m :
                       /\ i \in DOMAIN l /\ l[i].gpu = g
                       /\ cache[g] = Append(vram_free[g], l[i].blk)
             /\ \A g \in GPUs : \A k \in DOMAIN cache[g] :
                  \/ k \in DOMAIN vram_free[g] /\ cache[g][k] = vram_free[g][k]
                  \/ \E i \in DOMAIN l : l[i].gpu = g /\ cache[g][k] = l[i].blk
  <1> DEFINE cache == Released(p, m)
             l == PageLists[p]
  <1>1. l = pages[p].vram /\ l \in Seq(Chunk) /\ m \in Nat /\ DOMAIN l = 1 .. Len(l) /\ m <= Len(l)
    BY DEF PageLists, Lists
  <1>2. \A i \in DOMAIN l : l[i].blk \in Nat
    BY ChunkOfList
  <1>3. ASSUME NEW g \in GPUs
        PROVE  \/ cache[g] = vram_free[g]
               \/ \E i \in 1 .. m :
                    /\ i \in DOMAIN l /\ l[i].gpu = g
                    /\ cache[g] = Append(vram_free[g], l[i].blk)
    <2>1. CASE ChunkHere(p, m, g) = {}
      BY <2>1 DEF Released
    <2>2. CASE ChunkHere(p, m, g) # {}
      <3>1. ChunkHere(p, m, g) \subseteq Nat
        BY DEF ChunkHere
      <3>2. Min(ChunkHere(p, m, g)) \in ChunkHere(p, m, g)
        BY <2>2, <3>1, LeastElement
      <3>3. cache[g] = Append(vram_free[g], l[Min(ChunkHere(p, m, g))].blk)
        BY <1>1, <2>2 DEF Released
      <3>4. /\ Min(ChunkHere(p, m, g)) \in 1 .. m
            /\ l[Min(ChunkHere(p, m, g))].gpu = g
        BY <1>1, <3>2 DEF ChunkHere
      <3> HIDE DEF l
      <3>5. Min(ChunkHere(p, m, g)) \in DOMAIN l
        BY <1>1, <3>4
      <3>6. QED
        BY <3>3, <3>4, <3>5
    <2>3. QED
      BY <2>1, <2>2
  <1>4. cache = [g \in GPUs |-> cache[g]]
    BY DEF Released
  <1> HIDE DEF cache
  <1>5. ASSUME NEW g \in GPUs, NEW b \in Nat
        PROVE  LET s == vram_free[g]  t == Append(s, b)
               IN  /\ s \in Seq(Nat) /\ t \in Seq(Nat) /\ Len(s) \in Nat
                   /\ DOMAIN s = 1 .. Len(s) /\ DOMAIN t = 1 .. Len(s) + 1
                   /\ \A k \in 1 .. Len(s) : t[k] = s[k]
                   /\ t[Len(s) + 1] = b
    BY DEF Cache
  <1>6. cache \in Cache
    <2>1. ASSUME NEW g \in GPUs, NEW i \in DOMAIN l,
                 cache[g] = Append(vram_free[g], l[i].blk)
          PROVE  cache[g] \in Seq(Nat)
      BY <1>2, <1>5, <2>1
    <2>2. \A g \in GPUs : vram_free[g] \in Seq(Nat)
      BY DEF Cache
    <2>3. \A g \in GPUs : cache[g] \in Seq(Nat)
      BY <1>3, <2>1, <2>2
    <2>4. QED
      BY <1>4, <2>3 DEF Cache
  <1>7. ASSUME NEW g \in GPUs, NEW k \in DOMAIN cache[g]
        PROVE  \/ k \in DOMAIN vram_free[g] /\ cache[g][k] = vram_free[g][k]
               \/ \E i \in DOMAIN l : l[i].gpu = g /\ cache[g][k] = l[i].blk
    <2>1. CASE cache[g] = vram_free[g]
      BY <2>1
    <2>2. ASSUME NEW i \in DOMAIN l, l[i].gpu = g,
                 cache[g] = Append(vram_free[g], l[i].blk)
          PROVE  \/ k \in DOMAIN vram_free[g] /\ cache[g][k] = vram_free[g][k]
                 \/ cache[g][k] = l[i].blk
      <3>1. /\ Len(vram_free[g]) \in Nat
            /\ DOMAIN vram_free[g] = 1 .. Len(vram_free[g])
            /\ DOMAIN cache[g] = 1 .. Len(vram_free[g]) + 1
            /\ \A j \in 1 .. Len(vram_free[g]) : cache[g][j] = vram_free[g][j]
            /\ cache[g][Len(vram_free[g]) + 1] = l[i].blk
        BY <1>2, <1>5, <2>2
      <3>2. QED
        BY <3>1
    <2>3. QED
      BY <1>3, <2>1, <2>2
  <1>8. QED
    BY <1>3, <1>6, <1>7 DEF cache

-----------------------------------------------------------------------------
(* The types of the variables, but for the amounts of memory in use, which *)
(* are sums.                                                               *)
PageTypes == pages \in [Pages -> Page]
DeviceTypes ==
  /\ dev \in Devs /\ vram_free \in Cache /\ inflight \in Issues
  /\ stream \in [GPUs -> Seq(Copy)]
HostTypes == host \in [GPUs -> [Frames -> Frame]] /\ file \in Seq(Data)
RunTypes ==
  /\ writes \in Nat /\ latest \in [Pages -> Nat]
  /\ sweep \in [demote : SUBSET Pages, promote : SUBSET Pages]

(* The blocks known anywhere exist. *)
AllMade ==
  /\ Made(vram_free, PageLists, inflight, dev)
  /\ \A g \in GPUs : \A i \in DOMAIN stream[g] : stream[g][i].blk \in DOMAIN dev[g]

(* Only pages in VRAM have chunks there, and none while a prefetch is on   *)
(* its way.                                                                *)
NoChunksBelow ==
  \A p \in Pages : pages[p].tier # "Vram" \/ Prefetched(p) => PageLists[p] = << >>

(* No two chunks of a page are on one GPU. *)
Distinct ==
  \A p \in Pages : \A i, j \in DOMAIN PageLists[p] :
    PageLists[p][i].gpu = PageLists[p][j].gpu => i = j

(* A cold page has its place in the spill file. *)
Stored ==
  \A p \in Pages : /\ pages[p].ssd \in 0 .. Len(file)
                   /\ pages[p].tier = "Ssd" => pages[p].ssd # 0

Base ==
  /\ PageTypes /\ DeviceTypes /\ HostTypes /\ RunTypes
  /\ AllMade /\ NoChunksBelow /\ Distinct /\ Stored

LEMMA Zero == 0 \in GPUs
  BY PoolAssumption DEF GPUs

LEMMA Sizes ==
  /\ \A p \in Pages : PageSize[p] \in Nat
  /\ \A p \in Pages, g \in GPUs : ShardSize(p, g) \in Nat /\ ShardFrom(p, g) \in Nat
  <1>1. \A p \in Pages : PageSize[p] \in Nat
    BY PoolAssumption
  <1>2. N \in Nat /\ N > 0
    BY PoolAssumption
  <1>3. \A p \in Pages : PageSize[p] \div N \in Nat /\ PageSize[p] % N \in Nat
    BY <1>1, <1>2
  <1>4. ASSUME NEW a \in Nat, NEW b \in Nat PROVE a * b \in Nat
    OBVIOUS
  <1>5. GPUs \subseteq Nat
    BY PoolAssumption DEF GPUs
  <1>6. QED
    BY <1>1, <1>3, <1>4, <1>5 DEF ShardSize, ShardFrom

(* The contents the pool makes are contents. *)
LEMMA Contents ==
  /\ \A n \in Nat : Junk(n) \in Data
  /\ \A p \in Pages, w \in Nat : Whole(p, w) \in Data
  /\ \A p \in Pages, g \in GPUs, w \in Nat : Shard(p, g, w) \in Data
  /\ \A d \in Data, n \in Nat : Prefix(d, n) \in Data
  /\ \A d, e \in Data : Overwrite(d, e) \in Data
  <1>1. \A n \in Nat : Junk(n) \in Data
    BY DEF Junk, Data, Units
  <1>2. \A p \in Pages, w \in Nat : Whole(p, w) \in Data
    BY Sizes DEF Whole, Data, Units
  <1>3. ASSUME NEW p \in Pages, NEW g \in GPUs, NEW w \in Nat
        PROVE  Shard(p, g, w) \in Data
    <2>1. \A u \in 1 .. ShardSize(p, g) : <<w, ShardFrom(p, g) + u>> \in Units
      BY Sizes DEF Units
    <2> HIDE DEF Units
    <2>2. QED
      BY <2>1, Sizes DEF Shard, Data
  <1>4. ASSUME NEW d \in Data, NEW n \in Nat PROVE Prefix(d, n) \in Data
    <2>1. <<0, 0>> \in Units
      BY DEF Units
    <2>2. Len(d) \in Nat /\ \A u \in 1 .. Len(d) : d[u] \in Units
      BY DEF Data
    <2>3. \A u \in 1 .. n : (IF u <= Len(d) THEN d[u] ELSE <<0, 0>>) \in Units
      BY <2>1, <2>2
    <2>4. QED
      BY <2>3 DEF Prefix, Data
  <1>5. ASSUME NEW d \in Data, NEW e \in Data PROVE Overwrite(d, e) \in Data
    <2>1. /\ Len(d) \in Nat /\ DOMAIN d = 1 .. Len(d) /\ \A u \in 1 .. Len(d) : d[u] \in Units
          /\ Len(e) \in Nat /\ \A u \in 1 .. Len(e) : e[u] \in Units
      BY DEF Data
    <2>2. \A u \in 1 .. Len(d) : (IF u <= Len(e) THEN e[u] ELSE d[u]) \in Units
      BY <2>1
    <2>3. QED
      BY <2>1, <2>2 DEF Overwrite, Data
  <1>6. QED
    BY <1>1, <1>2, <1>3, <1>4, <1>5

(* A block is written, by a copy or a kernel. *)
BlockWith(g, b, data) == [dev EXCEPT ![g][b].data = data]

LEMMA BlockWritten ==
  ASSUME dev \in Devs, NEW g \in GPUs, NEW b \in DOMAIN dev[g], NEW data \in Data,
         NEW made, made = BlockWith(g, b, data)
  PROVE  /\ made \in Devs
         /\ \A h \in GPUs : h # g => made[h] = dev[h]
         /\ DOMAIN made[g] = DOMAIN dev[g]
         /\ \A c \in DOMAIN dev[g] : c # b => made[g][c] = dev[g][c]
         /\ made[g][b].size = dev[g][b].size /\ made[g][b].data = data
  <1> DEFINE block == [dev[g][b] EXCEPT !.data = data]
  <1>1. dev[g] \in Seq(Block) /\ dev[g][b] \in Block
    BY ElementOfSeq DEF Devs
  <1>2. block = [size |-> dev[g][b].size, data |-> data] /\ block \in Block
    BY <1>1 DEF Block
  <1>3. made = [dev EXCEPT ![g] = [dev[g] EXCEPT ![b] = block]]
    BY DEF BlockWith
  <1>4. block.size = dev[g][b].size /\ block.data = data
    BY <1>2
  <1> HIDE DEF block
  <1>5. [dev[g] EXCEPT ![b] = block] \in Seq(Block)
    BY <1>1, <1>2
  <1>6. /\ made \in Devs /\ made[g] = [dev[g] EXCEPT ![b] = block]
        /\ \A h \in GPUs : h # g => made[h] = dev[h]
    BY <1>3, <1>5 DEF Devs
  <1>7. /\ DOMAIN made[g] = DOMAIN dev[g] /\ made[g][b] = block
        /\ \A c \in DOMAIN dev[g] : c # b => made[g][c] = dev[g][c]
    BY <1>6
  <1>8. QED
    BY <1>4, <1>6, <1>7

(* A page after it gained a chunk. *)
ChunkAt(g, b, n) == [gpu |-> g, blk |-> b, size |-> n]

LEMMA PromotedIs ==
  ASSUME PageTypes, NEW p \in Pages, NEW g \in GPUs, NEW b \in Nat, NEW n \in Nat,
         NEW after, after = Promoted(p, g, b, n)
  PROVE  /\ after \in [Pages -> Page]
         /\ \A q \in Pages : q # p => after[q] = pages[q]
         /\ after[p].tier = "Vram"
         /\ after[p].live = pages[p].live /\ after[p].dram = pages[p].dram
         /\ after[p].ssd = pages[p].ssd
         /\ ChunkAt(g, b, n) \in Chunk
         /\ after[p].vram = Append(pages[p].vram, ChunkAt(g, b, n))
         /\ [q \in Pages |-> after[q].vram] = ListedWith(PageLists, p, ChunkAt(g, b, n))
  <1> DEFINE c == ChunkAt(g, b, n)
             h == pages[p].hits
             P == [pages[p] EXCEPT !.vram = Append(pages[p].vram, c), !.tier = "Vram",
                                   !.state = "Resident",
                                   !.hits = IF h < HotAt THEN h + 1 ELSE h]
  <1>1. /\ pages[p] \in Page /\ pages[p].vram \in Seq(Chunk) /\ h \in Nat
    BY DEF PageTypes, Page
  <1>2. c \in Chunk
    BY DEF Chunk, ChunkAt
  <1> HIDE DEF c
  <1>3. Append(pages[p].vram, c) \in Seq(Chunk)
    BY <1>1, <1>2
  <1>4. (IF h < HotAt THEN h + 1 ELSE h) \in Nat
    BY <1>1
  <1>5. /\ P.vram = Append(pages[p].vram, c) /\ P.tier = "Vram" /\ P.live = pages[p].live
        /\ P.dram = pages[p].dram /\ P.ssd = pages[p].ssd
    BY <1>1 DEF Page
  <1>6. P \in Page
    BY <1>1, <1>3, <1>4 DEF Page, States
  <1>7. after = [pages EXCEPT ![p] = P]
    BY DEF Promoted, PageTypes, c, ChunkAt
  <1> HIDE DEF P
  <1>8. after \in [Pages -> Page] /\ after[p] = P /\ \A q \in Pages : q # p => after[q] = pages[q]
    BY <1>6, <1>7 DEF PageTypes
  <1>9. [q \in Pages |-> after[q].vram] = ListedWith(PageLists, p, c)
    BY <1>5, <1>8 DEF PageLists, ListedWith
  <1>10. QED
    BY <1>2, <1>5, <1>8, <1>9 DEF c

-----------------------------------------------------------------------------
(* What a promotion to GPU g copies: a chunk of the page on another GPU,   *)
(* the shard of the GPU's pool (unless the copy was refused), the page in  *)
(* the spill file.                                                         *)
Brought(p, g, n, data) ==
  \/ /\ pages[p].tier = "Vram"
     /\ \E i \in DOMAIN PageLists[p] :
          /\ PageLists[p][i].gpu # g
          /\ n = PageLists[p][i].size
          /\ data = dev[PageLists[p][i].gpu][PageLists[p][i].blk].data
  \/ /\ pages[p].tier = "Dram"
     /\ g + 1 \in DOMAIN pages[p].dram
     /\ n = pages[p].dram[g + 1].size
     /\ data = Prefix(host[g][pages[p].dram[g + 1].frame].data, n) \/ "refused" \in Failures
  \/ /\ pages[p].tier = "Ssd"
     /\ n = PageSize[p]
     /\ data = file[pages[p].ssd]

(* A promotion took block a and wrote data to it: the page got it, it was  *)
(* lost, or it went back to the cache.                                     *)
Gained(p, g, n, a) ==
  vram_free' = a.cache /\ pages' = Promoted(p, g, a.blk, n)
LosingEnds == {"DmaRingFull", "Cuda", "panic"}
Lost(g, a) ==
  vram_free' = a.cache /\ pages' = pages /\ result' \in LosingEnds
Returned(g, a) ==
  vram_free' = Recycled(a.cache, g, a.blk) /\ pages' = pages

Moved(p, g, n, data, a) ==
  /\ dev' = Filled(g, a, n, data)
  /\ \/ Gained(p, g, n, a) /\ pages[p].live /\ ChunksOn(p, g) = {} /\ Brought(p, g, n, data)
     \/ Lost(g, a)
     \/ Returned(g, a)

Touched(p) == [pages EXCEPT ![p].hits = IF @ < HotAt THEN @ + 1 ELSE @]

Stayed(p, cache) ==
  vram_free' = cache /\ dev' = dev /\ pages' \in {pages, Touched(p)}

LEMMA BackingTyped ==
  ASSUME PageTypes, HostTypes, NEW p \in Pages, NEW i \in DOMAIN pages[p].dram
  PROVE  /\ pages[p].dram[i] \in Place
         /\ pages[p].dram[i].frame \in Frames /\ pages[p].dram[i].size \in Nat
         /\ \A g \in GPUs : host[g][pages[p].dram[i].frame] \in Frame
                            /\ host[g][pages[p].dram[i].frame].data \in Data
  <1>1. pages[p].dram \in Seq(Place)
    BY DEF PageTypes, Page
  <1>2. pages[p].dram[i] \in Place
    BY <1>1, ElementOfSeq
  <1>3. pages[p].dram[i].frame \in Frames /\ pages[p].dram[i].size \in Nat
    BY <1>2 DEF Place
  <1>4. \A g \in GPUs : host[g][pages[p].dram[i].frame] \in Frame
    BY <1>3 DEF HostTypes
  <1>5. QED
    BY <1>2, <1>3, <1>4 DEF Frame

LEMMA BlockTypes ==
  ASSUME dev \in Devs, NEW g \in GPUs, NEW b \in DOMAIN dev[g]
  PROVE  dev[g][b] \in Block /\ dev[g][b].size \in Nat /\ dev[g][b].data \in Data
  <1>1. dev[g] \in Seq(Block)
    BY DEF Devs
  <1>2. dev[g][b] \in Block
    BY <1>1, ElementOfSeq
  <1>3. QED
    BY <1>2 DEF Block

LEMMA PromoteCases ==
  ASSUME Base, NEW p \in Pages, NEW g \in GPUs, NEW cache \in Cache,
         NEW issues \in Issues, Made(cache, PageLists, issues, dev),
         Promote(p, g, cache)
  PROVE  /\ host' = host /\ file' = file
         /\ \/ Stayed(p, cache)
            \/ \E n \in Nat, data \in Data :
                 \E a \in VramBlocks(cache, g, n) : Moved(p, g, n, data, a)
  <1> DEFINE Goal == /\ host' = host /\ file' = file
                     /\ \/ Stayed(p, cache)
                        \/ \E n \in Nat, data \in Data :
                             \E a \in VramBlocks(cache, g, n) : Moved(p, g, n, data, a)
  <1>1. /\ PageTypes /\ HostTypes /\ DeviceTypes /\ dev \in Devs
        /\ PageLists \in Lists /\ PageLists[p] = pages[p].vram
    BY DEF Base, DeviceTypes, PageTypes, Page, PageLists, Lists
  <1>2. ASSUME NEW how, Fails(how, cache) PROVE Goal
    BY <1>2 DEF Fails, Stayed
  <1>3. ASSUME Touch(p, g, cache) PROVE Goal
    BY <1>3 DEF Touch, Stayed, Touched
  <1>4. ASSUME pages[p].live, pages[p].tier = "Vram", PeerCopy(p, g, cache) PROVE Goal
    <2> DEFINE i == Min(ChunksOff(p, g))
               src == pages[p].vram[i]
               data == dev[src.gpu][src.blk].data
    <2>1. DOMAIN pages[p].vram \subseteq Nat
      BY <1>1 DEF Lists
    <2>2. ChunksOff(p, g) \subseteq Nat /\ ChunksOff(p, g) # {} /\ ChunksOn(p, g) = {}
      BY <1>4, <2>1 DEF ChunksOff, PeerCopy
    <2>3. i \in ChunksOff(p, g)
      BY <2>2, LeastElement
    <2>4. i \in DOMAIN PageLists[p] /\ src = PageLists[p][i] /\ src.gpu # g
      BY <1>1, <2>3 DEF ChunksOff
    <2>5. src.gpu \in GPUs /\ src.blk \in Nat /\ src.size \in Nat
      BY <1>1, <2>4, ChunkOfList
    <2>6. src.blk \in DOMAIN dev[src.gpu]
      BY <2>4 DEF Base, AllMade, Made
    <2>7. data \in Data
      BY <1>1, <2>5, <2>6, BlockTypes
    <2>8. Brought(p, g, src.size, data)
      BY <1>4, <2>4 DEF Brought
    <2>9. \/ Fails("CudaOom", cache)
          \/ \E a \in VramBlocks(cache, g, src.size) :
              /\ vram_free' = a.cache
              /\ dev' = Filled(g, a, src.size, data)
              /\ \/ pages' = Promoted(p, g, a.blk, src.size)
                 \/ result' \in LosingEnds /\ pages' = pages
              /\ UNCHANGED <<host, file, submitted>>
      BY <1>4 DEF PeerCopy, Ends, LosingEnds
    <2> HIDE DEF i, src, data
    <2>10. ASSUME NEW a \in VramBlocks(cache, g, src.size),
                 vram_free' = a.cache, dev' = Filled(g, a, src.size, data),
                 \/ pages' = Promoted(p, g, a.blk, src.size)
                 \/ result' \in LosingEnds /\ pages' = pages,
                 UNCHANGED <<host, file, submitted>>
          PROVE  Goal
      <3>1. Moved(p, g, src.size, data, a)
        BY <1>4, <2>2, <2>8, <2>10 DEF Moved, Gained, Lost
      <3>2. QED
        BY <2>5, <2>7, <2>10, <3>1
    <2>11. QED
      BY <1>2, <2>9, <2>10
  <1>5. ASSUME pages[p].live, pages[p].tier = "Dram", PromoteWarm(p, g, cache) PROVE Goal
    <2> DEFINE chunk == pages[p].dram[g + 1]
               data == Prefix(host[g][chunk.frame].data, chunk.size)
               left(a) == IF a.new THEN Junk(chunk.size) ELSE dev[g][a.blk].data
    <2>1. CASE g + 1 \notin DOMAIN pages[p].dram
      BY <1>2, <1>5, <2>1 DEF PromoteWarm
    <2>2. CASE g + 1 \in DOMAIN pages[p].dram
      <3>1. chunk.size \in Nat /\ data \in Data
        BY <1>1, <2>2, BackingTyped, Contents
      <3>2. ChunksOn(p, g) = {}
        BY <1>1, <1>5 DEF Base, NoChunksBelow, ChunksOn
      <3>3. ASSUME NEW a \in VramBlocks(cache, g, chunk.size)
            PROVE  left(a) \in Data
        <4>1. IF a.new THEN TRUE ELSE a.blk \in DOMAIN dev[g]
          BY <1>1, <3>1, <3>3, BlockTyped
        <4>2. QED
          BY <1>1, <3>1, <4>1, Contents, BlockTypes
      <3>4. \/ Fails("CudaOom", cache)
            \/ \E a \in VramBlocks(cache, g, chunk.size) :
                 /\ vram_free' = a.cache
                 /\ \/ /\ result' \in LosingEnds
                       /\ dev' = Filled(g, a, chunk.size, left(a))
                       /\ UNCHANGED pages
                    \/ /\ \/ dev' = Filled(g, a, chunk.size, data)
                          \/ /\ "refused" \in Failures
                             /\ dev' = Filled(g, a, chunk.size, left(a))
                       /\ \/ pages' = Promoted(p, g, a.blk, chunk.size)
                          \/ result' \in LosingEnds /\ UNCHANGED pages
                 /\ UNCHANGED <<host, file>>
        BY <1>5, <2>2 DEF PromoteWarm, Ends, LosingEnds
      <3>5. Brought(p, g, chunk.size, data)
        BY <1>5, <2>2 DEF Brought
      <3>6. "refused" \in Failures => \A d \in Data : Brought(p, g, chunk.size, d)
        BY <1>5, <2>2 DEF Brought
      <3> HIDE DEF chunk, data, left
      <3>7. ASSUME NEW a \in VramBlocks(cache, g, chunk.size),
                   vram_free' = a.cache,
                   \/ /\ result' \in LosingEnds
                      /\ dev' = Filled(g, a, chunk.size, left(a))
                      /\ UNCHANGED pages
                   \/ /\ \/ dev' = Filled(g, a, chunk.size, data)
                         \/ /\ "refused" \in Failures
                            /\ dev' = Filled(g, a, chunk.size, left(a))
                      /\ \/ pages' = Promoted(p, g, a.blk, chunk.size)
                         \/ result' \in LosingEnds /\ UNCHANGED pages,
                   UNCHANGED <<host, file>>
            PROVE  Goal
        <4>1. left(a) \in Data
          BY <3>3
        <4>2. \/ Moved(p, g, chunk.size, data, a)
              \/ Moved(p, g, chunk.size, left(a), a)
          BY <1>5, <3>2, <3>5, <3>6, <3>7, <4>1 DEF Moved, Gained, Lost
        <4>3. QED
          BY <3>1, <3>7, <4>1, <4>2
      <3>8. QED
        BY <1>2, <3>4, <3>7
    <2>3. QED
      BY <2>1, <2>2
  <1>6. ASSUME pages[p].live, pages[p].tier = "Ssd", PromoteCold(p, g, cache) PROVE Goal
    <2> DEFINE n == PageSize[p]
               data == file[pages[p].ssd]
    <2>1. n \in Nat /\ Junk(n) \in Data
      BY Sizes, Contents
    <2>2. data \in Data
      <3>1. pages[p].ssd \in 1 .. Len(file) /\ file \in Seq(Data)
        BY <1>1, <1>6 DEF Base, Stored, HostTypes
      <3>2. QED
        BY <3>1
    <2>3. ChunksOn(p, g) = {}
      BY <1>1, <1>6 DEF Base, NoChunksBelow, ChunksOn
    <2>4. Brought(p, g, n, data)
      BY <1>6 DEF Brought
    <2>5. \/ Fails("CudaOom", cache)
          \/ \E a \in VramBlocks(cache, g, n) :
               /\ \/ /\ vram_free' = a.cache
                     /\ dev' = Filled(g, a, n, data)
                     /\ pages' = Promoted(p, g, a.blk, n)
                  \/ /\ vram_free' = Recycled(a.cache, g, a.blk)
                     /\ dev' = Filled(g, a, n, Junk(n))
                     /\ UNCHANGED pages
               /\ UNCHANGED <<host, file, submitted>>
      BY <1>6 DEF PromoteCold
    <2> HIDE DEF n, data
    <2>6. ASSUME NEW a \in VramBlocks(cache, g, n),
                 \/ /\ vram_free' = a.cache
                    /\ dev' = Filled(g, a, n, data)
                    /\ pages' = Promoted(p, g, a.blk, n)
                 \/ /\ vram_free' = Recycled(a.cache, g, a.blk)
                    /\ dev' = Filled(g, a, n, Junk(n))
                    /\ UNCHANGED pages,
                 UNCHANGED <<host, file, submitted>>
          PROVE  Goal
      <3>1. Moved(p, g, n, data, a) \/ Moved(p, g, n, Junk(n), a)
        BY <1>6, <2>3, <2>4, <2>6 DEF Moved, Gained, Returned
      <3>2. QED
        BY <2>1, <2>2, <2>6, <3>1
    <2>7. QED
      BY <1>2, <2>5, <2>6
  <1>7. pages[p].tier \in {"Vram", "Dram", "Ssd"}
    BY <1>1 DEF PageTypes, Page
  <1>8. QED
    BY <1>2, <1>3, <1>4, <1>5, <1>6, <1>7 DEF Promote, NotResidentAnywhere

-----------------------------------------------------------------------------
(* Made under what the calls do to the three places and to the device.     *)
LEMMA MadeGrows ==
  ASSUME NEW cache, NEW lists \in Lists, NEW issues \in Issues, NEW d1, NEW d2,
         \A g \in GPUs : DOMAIN d1[g] \subseteq DOMAIN d2[g],
         Made(cache, lists, issues, d1)
  PROVE  Made(cache, lists, issues, d2)
  BY ChunkOfList, ChunkOfIssue DEF Made

LEMMA MadeRecycled ==
  ASSUME NEW cache \in Cache, NEW lists, NEW issues, NEW made,
         NEW g \in GPUs, NEW b \in Nat, b \in DOMAIN made[g],
         Made(cache, lists, issues, made)
  PROVE  Made(Recycled(cache, g, b), lists, issues, made)
  <1> DEFINE c == Recycled(cache, g, b)
  <1>1. /\ \A h \in GPUs : h # g => c[h] = cache[h]
        /\ Len(cache[g]) \in Nat /\ DOMAIN cache[g] = 1 .. Len(cache[g])
        /\ DOMAIN c[g] = 1 .. Len(cache[g]) + 1
        /\ \A i \in 1 .. Len(cache[g]) : c[g][i] = cache[g][i]
        /\ c[g][Len(cache[g]) + 1] = b
    BY RecycledIs
  <1> HIDE DEF c
  <1>2. \A h \in GPUs : \A i \in DOMAIN c[h] : c[h][i] \in DOMAIN made[h]
    BY <1>1 DEF Made
  <1>3. QED
    BY <1>2 DEF Made, c

LEMMA MadeListed ==
  ASSUME NEW cache, NEW lists \in Lists, NEW issues, NEW made,
         NEW p \in Pages, NEW c \in Chunk, c.blk \in DOMAIN made[c.gpu],
         Made(cache, lists, issues, made)
  PROVE  Made(cache, ListedWith(lists, p, c), issues, made)
  <1> DEFINE more == ListedWith(lists, p, c)
             n == Len(lists[p])
  <1>1. /\ \A q \in Pages : q # p => more[q] = lists[q]
        /\ n \in Nat /\ DOMAIN lists[p] = 1 .. n /\ DOMAIN more[p] = 1 .. n + 1
        /\ \A i \in 1 .. n : more[p][i] = lists[p][i]
        /\ more[p][n + 1] = c
    BY DEF Lists, ListedWith
  <1> HIDE DEF more, n
  <1>2. \A q \in Pages : \A i \in DOMAIN more[q] :
          more[q][i].blk \in DOMAIN made[more[q][i].gpu]
    BY <1>1 DEF Made
  <1>3. QED
    BY <1>2 DEF Made, more

LEMMA MadeGivenUp ==
  ASSUME NEW cache, NEW lists, NEW issues \in Issues, NEW made, NEW p \in Pages,
         Made(cache, lists, issues, made)
  PROVE  /\ [issues EXCEPT ![p] = None] \in Issues
         /\ Made(cache, lists, [issues EXCEPT ![p] = None], made)
  BY DEF Made, Issues

(* Pages whose chunks, tier and place in the spill file stay. *)
Alike == \A q \in Pages : /\ pages'[q].vram = pages[q].vram
                          /\ pages'[q].tier = pages[q].tier
                          /\ pages'[q].ssd = pages[q].ssd

LEMMA AlikeKeeps ==
  ASSUME Base, PageTypes', Alike, \A q \in Pages : inflight'[q] \in {inflight[q], None},
         Len(file) <= Len(file'), Len(file) \in Nat, Len(file') \in Nat
  PROVE  NoChunksBelow' /\ Distinct' /\ Stored' /\ PageLists' = PageLists
  <1>1. PageLists' = PageLists
    BY DEF Alike, PageLists
  <1>2. NoChunksBelow'
    BY <1>1 DEF Base, NoChunksBelow, Alike, Prefetched
  <1>3. Distinct'
    BY <1>1 DEF Base, Distinct
  <1>4. Stored'
    BY DEF Base, Stored, Alike
  <1>5. QED
    BY <1>1, <1>2, <1>3, <1>4

LEMMA GainKeeps ==
  ASSUME Base, NEW p \in Pages, NEW g \in GPUs, NEW b \in Nat, NEW n \in Nat,
         pages' = Promoted(p, g, b, n), ChunksOn(p, g) = {},
         inflight' = [inflight EXCEPT ![p] = None], file' = file
  PROVE  /\ PageTypes' /\ NoChunksBelow' /\ Distinct' /\ Stored'
         /\ ChunkAt(g, b, n) \in Chunk
         /\ PageLists' = ListedWith(PageLists, p, ChunkAt(g, b, n))
  <1> DEFINE c == ChunkAt(g, b, n)
  <1>1. PageTypes /\ inflight \in Issues
    BY DEF Base, DeviceTypes
  <1>2. /\ pages' \in [Pages -> Page]
        /\ \A q \in Pages : q # p => pages'[q] = pages[q]
        /\ c \in Chunk
        /\ pages'[p].tier = "Vram" /\ pages'[p].ssd = pages[p].ssd
        /\ [q \in Pages |-> pages'[q].vram] = ListedWith(PageLists, p, c)
    BY <1>1, PromotedIs
  <1>3. PageLists' = ListedWith(PageLists, p, c)
    BY <1>2 DEF PageLists
  <1>4. inflight'[p] = None /\ \A q \in Pages : q # p => inflight'[q] = inflight[q]
    BY <1>1 DEF Issues
  <1>5. PageLists \in Lists /\ PageLists[p] = pages[p].vram
    BY <1>1 DEF PageTypes, Page, PageLists, Lists
  <1>6. /\ \A q \in Pages : q # p => PageLists'[q] = PageLists[q]
        /\ Len(PageLists[p]) \in Nat /\ DOMAIN PageLists[p] = 1 .. Len(PageLists[p])
        /\ DOMAIN PageLists'[p] = 1 .. Len(PageLists[p]) + 1
        /\ \A i \in 1 .. Len(PageLists[p]) : PageLists'[p][i] = PageLists[p][i]
        /\ PageLists'[p][Len(PageLists[p]) + 1] = c
    BY <1>2, <1>3, <1>5 DEF Lists, ListedWith
  <1>7. NoChunksBelow'
    BY <1>2, <1>4, <1>6 DEF Base, NoChunksBelow, Prefetched
  <1>8. Distinct'
    <2>1. \A i \in DOMAIN PageLists[p] : PageLists[p][i].gpu # g
      BY <1>5 DEF ChunksOn
    <2>2. c.gpu = g
      BY DEF ChunkAt
    <2> DEFINE l == PageLists[p]
               m == PageLists'[p]
               k == Len(PageLists[p])
    <2> HIDE DEF c
    <2>3. \A i, j \in DOMAIN l : l[i].gpu = l[j].gpu => i = j
      BY DEF Base, Distinct
    <2>4. /\ k \in Nat /\ DOMAIN l = 1 .. k /\ DOMAIN m = 1 .. k + 1
          /\ \A i \in 1 .. k : m[i] = l[i] /\ l[i].gpu # g
          /\ m[k + 1] = c
      BY <1>6, <2>1
    <2> HIDE DEF l, m, k
    <2>5. \A i, j \in DOMAIN m : m[i].gpu = m[j].gpu => i = j
      BY <2>2, <2>3, <2>4
    <2>6. \A i, j \in DOMAIN PageLists'[p] :
            PageLists'[p][i].gpu = PageLists'[p][j].gpu => i = j
      BY <2>5 DEF m
    <2>7. \A q \in Pages : q # p => \A i, j \in DOMAIN PageLists'[q] :
            PageLists'[q][i].gpu = PageLists'[q][j].gpu => i = j
      BY <1>6 DEF Base, Distinct
    <2>8. QED
      BY <2>6, <2>7 DEF Distinct
  <1>9. Stored'
    BY <1>2 DEF Base, Stored
  <1>10. QED
    BY <1>2, <1>3, <1>7, <1>8, <1>9 DEF PageTypes

LEMMA TouchedKeeps ==
  ASSUME PageTypes, NEW p \in Pages, pages' \in {pages, Touched(p)}
  PROVE  /\ PageTypes' /\ Alike
         /\ \A q \in Pages : pages'[q].live = pages[q].live /\ pages'[q].dram = pages[q].dram
                             /\ (q # p => pages'[q] = pages[q])
  <1>1. CASE pages' = pages
    BY <1>1 DEF Alike, PageTypes
  <1>2. CASE pages' = Touched(p)
    <2> DEFINE h == pages[p].hits
               P == [pages[p] EXCEPT !.hits = IF h < HotAt THEN h + 1 ELSE h]
    <2>1. pages[p] \in Page /\ h \in Nat
      BY DEF PageTypes, Page
    <2>2. (IF h < HotAt THEN h + 1 ELSE h) \in Nat
      BY <2>1
    <2>3. P \in Page /\ P.vram = pages[p].vram /\ P.tier = pages[p].tier
          /\ P.ssd = pages[p].ssd /\ P.live = pages[p].live /\ P.dram = pages[p].dram
      BY <2>1, <2>2 DEF Page
    <2>4. pages' = [pages EXCEPT ![p] = P]
      BY <1>2 DEF Touched
    <2> HIDE DEF P
    <2>5. QED
      BY <2>3, <2>4 DEF PageTypes, Alike
  <1>3. QED
    BY <1>1, <1>2

-----------------------------------------------------------------------------
(* access, whoever calls it. *)
ClaimEnds(p, g) ==
  /\ inflight[p] # None /\ inflight[p].gpu = g /\ Landed(p)
  /\ dev' = dev /\ vram_free' = vram_free
  /\ \/ pages[p].live /\ pages' = Promoted(p, g, inflight[p].blk, inflight[p].size)
     \/ result' \in LosingEnds /\ pages' = pages

PromoteEnds(p, g) ==
  LET cache == CacheAfterDiscard(p, g)
  IN  /\ inflight[p].gpu # g
      /\ \/ Stayed(p, cache)
         \/ \E n \in Nat, data \in Data :
              \E a \in VramBlocks(cache, g, n) : Moved(p, g, n, data, a)

LEMMA BaseTypes ==
  ASSUME Base
  PROVE  /\ dev \in Devs /\ vram_free \in Cache /\ inflight \in Issues
         /\ stream \in [GPUs -> Seq(Copy)]
         /\ PageLists \in Lists /\ \A p \in Pages : PageLists[p] = pages[p].vram
         /\ Made(vram_free, PageLists, inflight, dev)
         /\ PageTypes /\ HostTypes
  BY DEF Base, DeviceTypes, AllMade, PageTypes, Page, PageLists, Lists

LEMMA AfterDiscard ==
  ASSUME Base, NEW p \in Pages, NEW g \in GPUs
  PROVE  LET cache == CacheAfterDiscard(p, g)
             rest == [inflight EXCEPT ![p] = None]
         IN  /\ cache \in Cache /\ rest \in Issues
             /\ Made(cache, PageLists, rest, dev)
             /\ inflight[p] = None => rest = inflight /\ cache = vram_free
             /\ inflight[p] # None => cache = Recycled(vram_free, inflight[p].gpu, inflight[p].blk)
  <1> DEFINE cache == CacheAfterDiscard(p, g)
             rest == [inflight EXCEPT ![p] = None]
  <1>1. rest \in Issues /\ Made(vram_free, PageLists, rest, dev)
    BY BaseTypes, MadeGivenUp
  <1>2. CASE inflight[p] = None
    <2>1. cache = vram_free
      BY <1>2 DEF CacheAfterDiscard, Prefetched
    <2>2. rest = inflight
      BY <1>2, BaseTypes DEF Issues
    <2>3. QED
      BY <1>1, <1>2, <2>1, <2>2, BaseTypes
  <1>3. CASE inflight[p] # None
    <2>1. cache = Recycled(vram_free, inflight[p].gpu, inflight[p].blk)
      BY <1>3 DEF CacheAfterDiscard, Prefetched
    <2>2. inflight[p].gpu \in GPUs /\ inflight[p].blk \in Nat
      BY <1>3, BaseTypes, ChunkOfIssue
    <2>3. inflight[p].blk \in DOMAIN dev[inflight[p].gpu]
      BY <1>3, BaseTypes DEF Made
    <2> HIDE DEF rest, cache
    <2>4. /\ Recycled(vram_free, inflight[p].gpu, inflight[p].blk) \in Cache
          /\ Made(Recycled(vram_free, inflight[p].gpu, inflight[p].blk), PageLists, rest, dev)
      BY <1>1, <2>2, <2>3, BaseTypes, RecycledIs, MadeRecycled
    <2>5. cache \in Cache /\ Made(cache, PageLists, rest, dev)
      BY <2>1, <2>4
    <2>6. QED
      BY <1>1, <1>3, <2>1, <2>5 DEF rest, cache
  <1>4. QED
    BY <1>2, <1>3

LEMMA AccessCases ==
  ASSUME Base, NEW p \in Pages, NEW g \in GPUs, AccessPage(p, g)
  PROVE  /\ host' = host /\ file' = file
         /\ inflight' = [inflight EXCEPT ![p] = None]
         /\ ClaimEnds(p, g) \/ PromoteEnds(p, g)
  <1>1. CASE Prefetched(p) /\ Claim(p, g)
    BY <1>1 DEF Claim, ClaimEnds, Prefetched, memory, Ends, LosingEnds
  <1>2. CASE /\ inflight[p].gpu # g
             /\ inflight' = [inflight EXCEPT ![p] = None]
             /\ Promote(p, g, CacheAfterDiscard(p, g))
    <2>1. /\ CacheAfterDiscard(p, g) \in Cache
          /\ [inflight EXCEPT ![p] = None] \in Issues
          /\ Made(CacheAfterDiscard(p, g), PageLists, [inflight EXCEPT ![p] = None], dev)
      BY AfterDiscard
    <2>2. /\ host' = host /\ file' = file
          /\ \/ Stayed(p, CacheAfterDiscard(p, g))
             \/ \E n \in Nat, data \in Data :
                  \E a \in VramBlocks(CacheAfterDiscard(p, g), g, n) : Moved(p, g, n, data, a)
      BY <1>2, <2>1, PromoteCases
    <2>3. QED
      BY <1>2, <2>2 DEF PromoteEnds
  <1>3. QED
    BY <1>1, <1>2 DEF AccessPage

(* What access leaves of the device, and Base after it. *)
LEMMA AccessKeepsBase ==
  ASSUME Base, NEW p \in Pages, NEW g \in GPUs, AccessPage(p, g)
  PROVE  /\ PageTypes' /\ NoChunksBelow' /\ Distinct' /\ Stored' /\ HostTypes'
         /\ dev' \in Devs /\ vram_free' \in Cache /\ inflight' \in Issues
         /\ Made(vram_free, PageLists, inflight, dev)'
         /\ \A h \in GPUs : DOMAIN dev[h] \subseteq DOMAIN dev'[h]
  <1> DEFINE Goal == /\ PageTypes' /\ NoChunksBelow' /\ Distinct' /\ Stored'
                     /\ dev' \in Devs /\ vram_free' \in Cache
                     /\ Made(vram_free, PageLists, inflight, dev)'
                     /\ \A h \in GPUs : DOMAIN dev[h] \subseteq DOMAIN dev'[h]
  <1>1. /\ host' = host /\ file' = file
        /\ inflight' = [inflight EXCEPT ![p] = None]
        /\ ClaimEnds(p, g) \/ PromoteEnds(p, g)
    BY AccessCases
  <1>2. inflight' \in Issues /\ inflight'[p] = None
        /\ \A q \in Pages : inflight'[q] \in {inflight[q], None}
    BY <1>1, BaseTypes, MadeGivenUp DEF Issues
  <1>3. HostTypes'
    BY <1>1, BaseTypes DEF HostTypes
  <1>4. Len(file') = Len(file) /\ Len(file) \in Nat
    BY <1>1, BaseTypes DEF HostTypes
  <1>5. ASSUME pages' \in {pages, Touched(p)}
        PROVE  PageTypes' /\ NoChunksBelow' /\ Distinct' /\ Stored' /\ PageLists' = PageLists
    BY <1>2, <1>4, <1>5, TouchedKeeps, AlikeKeeps, BaseTypes
  <1>6. ASSUME ClaimEnds(p, g) PROVE Goal
    <2>1. /\ inflight[p] # None /\ inflight[p].gpu = g
          /\ inflight[p].blk \in Nat /\ inflight[p].size \in Nat
          /\ inflight[p].blk \in DOMAIN dev[g]
      BY <1>6, BaseTypes, ChunkOfIssue DEF ClaimEnds, Made
    <2>2. dev' = dev /\ vram_free' = vram_free
      BY <1>6 DEF ClaimEnds
    <2>3. Made(vram_free, PageLists, inflight', dev)
      BY <1>1, BaseTypes, MadeGivenUp
    <2>4. CASE pages' = pages
      BY <1>5, <2>2, <2>3, <2>4, BaseTypes
    <2>5. CASE pages' = Promoted(p, g, inflight[p].blk, inflight[p].size)
      <3> DEFINE c == ChunkAt(g, inflight[p].blk, inflight[p].size)
      <3>1. ChunksOn(p, g) = {}
        BY <2>1, BaseTypes DEF Base, NoChunksBelow, ChunksOn, Prefetched
      <3>2. /\ PageTypes' /\ NoChunksBelow' /\ Distinct' /\ Stored'
            /\ c \in Chunk /\ PageLists' = ListedWith(PageLists, p, c)
        BY <1>1, <2>1, <2>5, <3>1, GainKeeps
      <3>3. c.gpu = g /\ c.blk = inflight[p].blk
        BY DEF ChunkAt
      <3> HIDE DEF c
      <3>4. Made(vram_free, PageLists', inflight', dev)
        BY <2>1, <2>3, <3>2, <3>3, BaseTypes, MadeListed
      <3>5. QED
        BY <2>2, <3>2, <3>4, BaseTypes
    <2>6. QED
      BY <1>6, <2>4, <2>5 DEF ClaimEnds
  <1>7. ASSUME PromoteEnds(p, g) PROVE Goal
    <2> DEFINE cache == CacheAfterDiscard(p, g)
    <2>1. cache \in Cache /\ Made(cache, PageLists, inflight', dev)
      BY <1>1, AfterDiscard
    <2>2. \/ Stayed(p, cache)
          \/ \E n \in Nat, data \in Data :
               \E a \in VramBlocks(cache, g, n) : Moved(p, g, n, data, a)
      BY <1>7 DEF PromoteEnds
    <2> HIDE DEF cache
    <2>3. CASE Stayed(p, cache)
      BY <1>5, <2>1, <2>3, BaseTypes DEF Stayed
    <2>4. ASSUME NEW n \in Nat, NEW data \in Data, NEW a \in VramBlocks(cache, g, n),
                 Moved(p, g, n, data, a)
          PROVE  Goal
      <3> DEFINE c == ChunkAt(g, a.blk, n)
      <3>1. /\ a.cache \in Cache /\ a.blk \in Nat /\ a.new \in BOOLEAN
            /\ IF a.new THEN a.blk = Len(dev[g]) + 1
               ELSE a.blk \in DOMAIN dev[g] /\ dev[g][a.blk].size = n
            /\ Made(a.cache, PageLists, inflight', dev)
        BY <1>2, <2>1, BaseTypes, BlockTyped
      <3>2. dev' = Filled(g, a, n, data)
        BY <2>4 DEF Moved
      <3>3. OneBlock(g, a)
        BY <3>1 DEF OneBlock
      <3>4. dev \in Devs
        BY BaseTypes
      <3>5. /\ dev' \in Devs
            /\ \A h \in GPUs : h # g => dev'[h] = dev[h]
            /\ DOMAIN dev'[g] = DOMAIN dev[g] \cup {a.blk}
        BY <3>2, <3>3, <3>4, FilledIs
      <3>6. \A h \in GPUs : DOMAIN dev[h] \subseteq DOMAIN dev'[h]
        BY <3>5
      <3>7. Made(a.cache, PageLists, inflight', dev')
        BY <1>2, <3>1, <3>6, BaseTypes, MadeGrows
      <3>8. CASE Gained(p, g, n, a) /\ ChunksOn(p, g) = {}
        <4>1. /\ PageTypes' /\ NoChunksBelow' /\ Distinct' /\ Stored'
              /\ c \in Chunk /\ PageLists' = ListedWith(PageLists, p, c)
          BY <1>1, <3>1, <3>8, GainKeeps DEF Gained
        <4>2. c.gpu = g /\ c.blk = a.blk
          BY DEF ChunkAt
        <4> HIDE DEF c
        <4>3. Made(a.cache, PageLists', inflight', dev')
          BY <3>5, <3>7, <4>1, <4>2, BaseTypes, MadeListed
        <4>4. QED
          BY <3>1, <3>5, <3>6, <3>8, <4>1, <4>3 DEF Gained
      <3>9. CASE Lost(g, a)
        BY <1>5, <3>1, <3>5, <3>6, <3>7, <3>9 DEF Lost
      <3>10. CASE Returned(g, a)
        <4>1. /\ Recycled(a.cache, g, a.blk) \in Cache
              /\ Made(Recycled(a.cache, g, a.blk), PageLists, inflight', dev')
          BY <3>1, <3>5, <3>7, RecycledIs, MadeRecycled
        <4>2. QED
          BY <1>5, <3>5, <3>6, <3>10, <4>1 DEF Returned
      <3>11. QED
        BY <2>4, <3>8, <3>9, <3>10 DEF Moved
    <2>5. QED
      BY <2>2, <2>3, <2>4
  <1>8. QED
    BY <1>1, <1>2, <1>3, <1>6, <1>7

-----------------------------------------------------------------------------
(* The other calls.  A page that is replaced by one without chunks.        *)
Emptied(lists, p) == [lists EXCEPT ![p] = << >>]

LEMMA MadeEmptied ==
  ASSUME NEW cache, NEW lists \in Lists, NEW issues, NEW made, NEW p \in Pages,
         Made(cache, lists, issues, made)
  PROVE  Emptied(lists, p) \in Lists /\ Made(cache, Emptied(lists, p), issues, made)
  <1>1. /\ Emptied(lists, p) \in Lists /\ DOMAIN Emptied(lists, p)[p] = {}
        /\ \A q \in Pages : q # p => Emptied(lists, p)[q] = lists[q]
    BY DEF Emptied, Lists
  <1>2. QED
    BY <1>1 DEF Made

LEMMA ReplacedKeeps ==
  ASSUME Base, NEW p \in Pages, NEW P \in Page, P.vram = << >>,
         pages' = [pages EXCEPT ![p] = P], inflight' = inflight,
         Len(file) <= Len(file'), Len(file) \in Nat, Len(file') \in Nat,
         P.ssd \in 0 .. Len(file'), P.tier = "Ssd" => P.ssd # 0
  PROVE  /\ PageTypes' /\ NoChunksBelow' /\ Distinct' /\ Stored'
         /\ PageLists' = Emptied(PageLists, p)
  <1>1. /\ pages' \in [Pages -> Page] /\ pages'[p] = P
        /\ \A q \in Pages : q # p => pages'[q] = pages[q]
    BY BaseTypes DEF PageTypes
  <1>2. /\ PageLists'[p] = << >>
        /\ \A q \in Pages : q # p => PageLists'[q] = PageLists[q]
    BY <1>1 DEF PageLists
  <1>3. PageLists' = Emptied(PageLists, p)
    BY <1>1 DEF PageLists, Emptied
  <1>4. NoChunksBelow'
    BY <1>1, <1>2 DEF Base, NoChunksBelow, Prefetched
  <1>5. Distinct'
    BY <1>2 DEF Base, Distinct
  <1>6. Stored'
    BY <1>1 DEF Base, Stored
  <1>7. QED
    BY <1>1, <1>3, <1>4, <1>5, <1>6 DEF PageTypes

LEMMA AbsentIsAPage == Absent \in Page /\ Absent.vram = << >> /\ Absent.ssd = 0
                       /\ Absent.tier = "Vram" /\ Absent.dram = << >> /\ Absent.live = FALSE
  BY DEF Absent, Page, States

(* A DRAM pool with a frame that is written. *)
LEMMA FrameWritten ==
  ASSUME NEW h \in [Frames -> Frame], NEW x, NEW d, x \in Frames => d \in Data
  PROVE  [h EXCEPT ![x].data = d] \in [Frames -> Frame]
  <1>1. CASE x \in Frames
    <2> DEFINE F == [h[x] EXCEPT !.data = d]
    <2>1. F \in Frame
      BY <1>1 DEF Frame
    <2>2. [h EXCEPT ![x].data = d] = [h EXCEPT ![x] = F]
      OBVIOUS
    <2> HIDE DEF F
    <2>3. QED
      BY <2>1, <2>2
  <1>2. CASE x \notin Frames
    BY <1>2
  <1>3. QED
    BY <1>1, <1>2

LEMMA FrameIsFree ==
  ASSUME NEW g \in GPUs, HasFrame(g)
  PROVE  FreeFrame(g) \in Frames /\ ~host[g][FreeFrame(g)].used
  <1> DEFINE S == {f \in Frames : ~host[g][f].used}
  <1>1. S # {} /\ S \subseteq Nat
    BY DEF HasFrame, Frames
  <1>2. Min(S) \in S
    BY <1>1, LeastElement
  <1>3. QED
    BY <1>2 DEF FreeFrame

(* The frames of page P were free, and they are what is in use besides. *)
Given(P) ==
  /\ \A g \in GPUs : g + 1 \in DOMAIN P.dram =>
       P.dram[g + 1].frame \in Frames /\ ~host[g][P.dram[g + 1].frame].used
  /\ \A g \in GPUs, f \in Frames :
       /\ host'[g][f].used = (host[g][f].used \/ (g + 1 \in DOMAIN P.dram
                                                    /\ P.dram[g + 1].frame = f))
       /\ host[g][f].used => host'[g][f].data = host[g][f].data

(* They have the sizes of the shards, and a cold page is the last range of *)
(* the spill file and nothing else.                                        *)
Measured(p, P) ==
  /\ \A g \in GPUs : g + 1 \in DOMAIN P.dram =>
       /\ P.dram[g + 1].size = ShardSize(p, g)
       /\ host'[g][P.dram[g + 1].frame].data = Junk(ShardSize(p, g))
  /\ P.ssd # 0 => P.ssd = Len(file) + 1 /\ P.dram = << >> /\ P.tier = "Ssd"

(* What allocate leaves on the host and in the table. *)
LEMMA AllocateCases ==
  ASSUME Base, NEW p \in Pages, AllocateCold(p) \/ \E tier \in Tiers : AllocateBacked(p, tier)
  PROVE  /\ HostTypes'
         /\ Len(file) <= Len(file') /\ Len(file) \in Nat /\ Len(file') \in Nat
         /\ \A i \in 1 .. Len(file) : file'[i] = file[i]
         /\ \E P \in Page :
              /\ pages' = [pages EXCEPT ![p] = P] /\ P.vram = << >>
              /\ P.ssd \in 0 .. Len(file') /\ (P.tier = "Ssd" => P.ssd # 0)
              /\ P.live = TRUE /\ Given(P) /\ Measured(p, P)
  <1> DEFINE Goal == /\ HostTypes'
                     /\ Len(file) <= Len(file') /\ Len(file') \in Nat
                     /\ \A i \in 1 .. Len(file) : file'[i] = file[i]
                     /\ \E P \in Page :
                          /\ pages' = [pages EXCEPT ![p] = P] /\ P.vram = << >>
                          /\ P.ssd \in 0 .. Len(file') /\ (P.tier = "Ssd" => P.ssd # 0)
                          /\ P.live = TRUE /\ Given(P) /\ Measured(p, P)
  <1>1. HostTypes /\ Len(file) \in Nat /\ file \in Seq(Data)
    BY BaseTypes DEF HostTypes
  <1>2. ASSUME AllocateCold(p) PROVE Goal
    <2> DEFINE blank == [Absent EXCEPT !.live = TRUE, !.state = "Allocated"]
               cold == [blank EXCEPT !.tier = "Ssd", !.state = "Cold", !.ssd = Len(file) + 1]
    <2>1. << >> \in Seq(Place) /\ {"Allocated", "Cold"} \subseteq States
          /\ 0 \in Nat /\ Len(file) + 1 \in Nat
      BY <1>1 DEF States
    <2>2. blank \in Page /\ blank.vram = << >> /\ blank.ssd = 0 /\ blank.tier = "Vram"
          /\ blank.live = TRUE /\ blank.dram = << >>
      <3>1. Absent \in Page
        BY AbsentIsAPage
      <3>2. blank \in Page
        BY <3>1, <2>1 DEF Page
      <3>3. blank.vram = Absent.vram /\ blank.ssd = Absent.ssd /\ blank.tier = Absent.tier
            /\ blank.live = TRUE /\ blank.dram = Absent.dram
        BY <3>1 DEF Page
      <3>4. QED
        BY <3>2, <3>3, AbsentIsAPage
    <2>3. cold \in Page /\ cold.vram = << >> /\ cold.ssd = Len(file) + 1
          /\ cold.live = TRUE /\ cold.dram = << >> /\ cold.tier = "Ssd"
      <3> HIDE DEF blank
      <3>1. cold \in Page
        BY <2>2, <2>1 DEF Page
      <3>2. cold.vram = blank.vram /\ cold.ssd = Len(file) + 1
            /\ cold.live = blank.live /\ cold.dram = blank.dram /\ cold.tier = "Ssd"
        BY <2>2 DEF Page
      <3>3. QED
        BY <2>2, <3>1, <3>2
    <2>4. \A P : P.dram = << >> => Given(P)
      <3>1. host' = host /\ \A g \in GPUs, f \in Frames : host[g][f].used \in BOOLEAN
        BY <1>1, <1>2 DEF AllocateCold, HostTypes, Frame
      <3>2. QED
        BY <3>1 DEF Given
    <2>5. Measured(p, blank) /\ Measured(p, cold)
      BY <2>2, <2>3 DEF Measured
    <2> HIDE DEF blank, cold
    <2>6. CASE file' = Append(file, Junk(PageSize[p])) /\ pages' = [pages EXCEPT ![p] = cold]
      <3>1. Junk(PageSize[p]) \in Data
        BY Sizes, Contents
      <3>2. file' \in Seq(Data) /\ Len(file') = Len(file) + 1
            /\ \A i \in 1 .. Len(file) : file'[i] = file[i]
        BY <1>1, <2>6, <3>1
      <3>3. HostTypes'
        BY <1>1, <1>2, <3>2 DEF HostTypes, AllocateCold
      <3>4. cold.ssd \in 0 .. Len(file') /\ cold.ssd # 0 /\ Len(file) <= Len(file') /\ Len(file') \in Nat
        BY <1>1, <2>3, <3>2
      <3>5. QED
        BY <2>3, <2>6, <2>4, <2>5, <3>2, <3>3, <3>4
    <2>7. CASE pages' = [pages EXCEPT ![p] = blank] /\ file' = file
      <3>1. HostTypes'
        BY <1>1, <1>2, <2>7 DEF HostTypes, AllocateCold
      <3>2. /\ Len(file') = Len(file) /\ blank.ssd \in 0 .. Len(file') /\ blank.tier # "Ssd"
            /\ Len(file) <= Len(file') /\ Len(file') \in Nat
        BY <1>1, <2>2, <2>7
      <3>3. QED
        BY <2>2, <2>7, <2>4, <2>5, <3>1, <3>2
    <2>8. QED
      BY <1>2, <2>6, <2>7 DEF AllocateCold, blank, cold
  <1>3. ASSUME NEW tier \in Tiers, AllocateBacked(p, tier) PROVE Goal
    <2> DEFINE chunk(g) == [frame |-> FreeFrame(g), size |-> ShardSize(p, g)]
               pick(k) == [i \in 1 .. k |-> chunk(i - 1)]
               page(k, state) == [Absent EXCEPT !.live = TRUE, !.tier = tier, !.state = state,
                                                !.dram = pick(k)]
    <2>1. PICK k \in 0 .. N :
            /\ tier # "Ssd"
            /\ \A g \in GPUs : g < k => HasFrame(g)
            /\ host' = [g \in GPUs |->
                 IF g < k THEN [host[g] EXCEPT ![FreeFrame(g)] =
                                  [used |-> TRUE, data |-> Junk(ShardSize(p, g))]]
                 ELSE host[g]]
            /\ \E state \in States : pages' = [pages EXCEPT ![p] = page(k, state)]
            /\ UNCHANGED file
      <3>1. PICK k \in 0 .. N :
            /\ tier # "Ssd"
            /\ \A g \in GPUs : g < k => HasFrame(g)
            /\ host' = [g \in GPUs |->
                 IF g < k THEN [host[g] EXCEPT ![FreeFrame(g)] =
                                  [used |-> TRUE, data |-> Junk(ShardSize(p, g))]]
                 ELSE host[g]]
            /\ pages' = [pages EXCEPT ![p] =
                 page(k, CASE k < N -> "Allocated"
                           [] tier = "Vram" -> "Resident"
                           [] OTHER -> "Warm")]
            /\ UNCHANGED file
        BY <1>3 DEF AllocateBacked
      <3>2. (CASE k < N -> "Allocated" [] tier = "Vram" -> "Resident" [] OTHER -> "Warm") \in States
        BY DEF States
      <3> HIDE DEF page
      <3>3. QED
        BY <3>1, <3>2
    <2>2. PICK state \in States : pages' = [pages EXCEPT ![p] = page(k, state)]
      BY <2>1
    <2>3. \A g \in GPUs : g < k => FreeFrame(g) \in Frames
      BY <2>1, FrameIsFree
    <2>4. \A i \in 1 .. k : i - 1 \in GPUs /\ i - 1 < k
      BY PoolAssumption DEF GPUs
    <2>5. pick(k) \in Seq(Place)
      <3>1. \A i \in 1 .. k : chunk(i - 1) \in Place
        BY <2>3, <2>4, Sizes DEF Place
      <3> HIDE DEF chunk
      <3>2. QED
        BY <3>1
    <2>6. tier \in {"Vram", "Dram"}
      BY <2>1, PoolAssumption
    <2>7. \A g \in GPUs : g \in Int /\ (g + 1) - 1 = g /\ (g + 1 \in 1 .. k <=> g < k)
      BY PoolAssumption DEF GPUs
    <2>8. DOMAIN pick(k) = 1 .. k
      OBVIOUS
    <2>9. ASSUME NEW g \in GPUs, g < k
           PROVE  pick(k)[g + 1].frame = FreeFrame(g) /\ pick(k)[g + 1].size = ShardSize(p, g)
      <3>1. g + 1 \in 1 .. k /\ (g + 1) - 1 = g
        BY <2>7, <2>9
      <3>2. pick(k)[g + 1] = chunk((g + 1) - 1)
        BY <3>1
      <3>3. QED
        BY <3>1, <3>2
    <2> HIDE DEF pick
    <2>10. page(k, state) \in Page /\ page(k, state).vram = << >> /\ page(k, state).ssd = 0
          /\ page(k, state).tier = tier
          /\ page(k, state).live = TRUE /\ page(k, state).dram = pick(k)
      <3>1. Absent \in Page
        BY AbsentIsAPage
      <3>2. pick(k) \in Seq(Place) /\ tier \in {"Vram", "Dram", "Ssd"}
        BY <2>5, <2>6
      <3>3. page(k, state) \in Page
        BY <3>1, <3>2 DEF Page
      <3>4. /\ page(k, state).vram = Absent.vram /\ page(k, state).ssd = Absent.ssd
            /\ page(k, state).tier = tier
            /\ page(k, state).live = TRUE /\ page(k, state).dram = pick(k)
        BY <3>1 DEF Page
      <3>5. QED
        BY <3>3, <3>4, AbsentIsAPage
    <2>11. HostTypes'
      <3>1. ASSUME NEW g \in GPUs, g < k
            PROVE  [host[g] EXCEPT ![FreeFrame(g)] =
                      [used |-> TRUE, data |-> Junk(ShardSize(p, g))]] \in [Frames -> Frame]
        <4>1. [used |-> TRUE, data |-> Junk(ShardSize(p, g))] \in Frame
          BY Sizes, Contents DEF Frame
        <4>2. QED
          BY <1>1, <4>1 DEF HostTypes
      <3>2. QED
        BY <1>1, <2>1, <3>1 DEF HostTypes
    <2> HIDE DEF page
    <2>12. /\ Len(file') = Len(file) /\ page(k, state).ssd \in 0 .. Len(file')
          /\ page(k, state).tier # "Ssd"
          /\ Len(file) <= Len(file') /\ Len(file') \in Nat
          /\ \A i \in 1 .. Len(file) : file'[i] = file[i]
      BY <1>1, <2>1, <2>6, <2>10
    <2>13. Given(page(k, state)) /\ Measured(p, page(k, state))
      <3>1. \A g \in GPUs : g < k => ~host[g][FreeFrame(g)].used
        BY <2>1, FrameIsFree
      <3> DEFINE P == page(k, state)
      <3>2. P.dram = pick(k)
        BY <2>10
      <3> HIDE DEF P
      <3>3. \A g \in GPUs : g + 1 \in DOMAIN P.dram <=> g < k
        BY <2>8, <2>7, <3>2
      <3>4. ASSUME NEW g \in GPUs, g < k
            PROVE  P.dram[g + 1].frame = FreeFrame(g) /\ P.dram[g + 1].size = ShardSize(p, g)
        BY <2>9, <3>2, <3>4
      <3>5. \A g \in GPUs, f \in Frames : host[g][f].used \in BOOLEAN
        BY <1>1 DEF HostTypes, Frame
      <3>6. ASSUME NEW g \in GPUs, NEW f \in Frames
            PROVE  /\ host'[g][f].used = (host[g][f].used \/ (g < k /\ FreeFrame(g) = f))
                   /\ host[g][f].used => host'[g][f].data = host[g][f].data
        <4>1. CASE g < k
          <5>1. host'[g] = [host[g] EXCEPT ![FreeFrame(g)] =
                              [used |-> TRUE, data |-> Junk(ShardSize(p, g))]]
            BY <2>1, <4>1
          <5>2. DOMAIN host[g] = Frames
            BY <1>1 DEF HostTypes
          <5> DEFINE x == FreeFrame(g)
                     r == [used |-> TRUE, data |-> Junk(ShardSize(p, g))]
          <5>3. host'[g] = [host[g] EXCEPT ![x] = r] /\ r.used = TRUE
                /\ x \in Frames /\ host[g][x].used = FALSE
            BY <2>3, <3>1, <3>5, <4>1, <5>1
          <5> HIDE DEF x, r
          <5>4. host'[g][f] = IF f = x THEN r ELSE host[g][f]
            BY <5>2, <5>3
          <5>5. /\ host'[g][f].used = (host[g][f].used \/ x = f)
                /\ host[g][f].used => host'[g][f].data = host[g][f].data
            <6>1. CASE f = x
              BY <5>3, <5>4, <6>1
            <6>2. CASE f # x
              BY <3>5, <5>4, <6>2
            <6>3. QED
              BY <6>1, <6>2
          <5>6. QED
            BY <4>1, <5>5 DEF x
        <4>2. CASE ~(g < k)
          <5>1. host'[g] = host[g]
            BY <2>1, <4>2
          <5>2. QED
            BY <3>5, <4>2, <5>1
        <4>3. QED
          BY <4>1, <4>2
      <3>7. ASSUME NEW g \in GPUs, g + 1 \in DOMAIN P.dram
             PROVE  P.dram[g + 1].frame \in Frames /\ ~host[g][P.dram[g + 1].frame].used
        BY <2>3, <3>1, <3>3, <3>4, <3>7
      <3>8. ASSUME NEW g \in GPUs, NEW f \in Frames
             PROVE  /\ host'[g][f].used = (host[g][f].used \/ (g + 1 \in DOMAIN P.dram
                                                                 /\ P.dram[g + 1].frame = f))
                    /\ host[g][f].used => host'[g][f].data = host[g][f].data
        BY <3>6, <3>3, <3>4
      <3>9. Given(P)
        BY <3>7, <3>8 DEF Given
      <3>10. ASSUME NEW g \in GPUs, g < k
             PROVE  host'[g][FreeFrame(g)].data = Junk(ShardSize(p, g))
        <4> DEFINE r == [used |-> TRUE, data |-> Junk(ShardSize(p, g))]
        <4>1. host'[g] = [host[g] EXCEPT ![FreeFrame(g)] = r] /\ DOMAIN host[g] = Frames
          BY <1>1, <2>1, <3>10 DEF HostTypes
        <4>2. r.data = Junk(ShardSize(p, g)) /\ FreeFrame(g) \in Frames
          BY <2>3, <3>10
        <4> HIDE DEF r
        <4>3. QED
          BY <4>1, <4>2
      <3>11. P.ssd = 0
        BY <2>10 DEF P
      <3>12. Measured(p, P)
        BY <3>3, <3>4, <3>10, <3>11 DEF Measured
      <3>13. QED
        BY <3>9, <3>12 DEF P
    <2>14. QED
      BY <2>2, <2>10, <2>11, <2>12, <2>13
  <1>4. QED
    BY <1>1, <1>2, <1>3

-----------------------------------------------------------------------------
(* demote, whoever calls it: nothing, the whole page, or the first m       *)
(* chunks of a page that still lists them.                                 *)
DemotedPage(p) == [pages[p] EXCEPT !.vram = << >>, !.tier = "Dram", !.state = "Warm"]

NotDemoted == pages' = pages /\ vram_free' = vram_free /\ host' = host

Demoted(p) ==
  /\ pages[p].live /\ pages[p].tier = "Vram"
  /\ \A i \in DOMAIN pages[p].vram : Obstacle(p, i) = "none"
  /\ pages' = [pages EXCEPT ![p] = DemotedPage(p)]
  /\ vram_free' = Released(p, Len(pages[p].vram))
  /\ host' = WrittenBack(p, Len(pages[p].vram))

HalfDemoted(p, m) ==
  /\ pages[p].live /\ pages[p].tier = "Vram"
  /\ m < Len(pages[p].vram)
  /\ \A i \in 1 .. m : Obstacle(p, i) = "none"
  /\ pages' = pages
  /\ vram_free' = Released(p, m)
  /\ \/ host' = WrittenBack(p, m)
     \/ host' = WrittenBack(p, m + 1) /\ Obstacle(p, m + 1) = "none"

LEMMA DemoteCases ==
  ASSUME PageTypes, NEW p \in Pages, DemotePage(p)
  PROVE  /\ dev' = dev /\ file' = file /\ inflight' = inflight
         /\ NotDemoted \/ Demoted(p) \/ \E m \in 0 .. N : HalfDemoted(p, m)
  <1>1. dev' = dev /\ file' = file /\ inflight' = inflight
    BY DEF DemotePage, DemoteAll, DemoteSome, memory
  <1>2. CASE UNCHANGED <<pages, memory>>
    BY <1>1, <1>2 DEF NotDemoted, memory
  <1>3. CASE pages[p].live /\ pages[p].tier = "Vram" /\ DemoteAll(p)
    <2>1. pages' = [pages EXCEPT ![p] = DemotedPage(p)]
      BY <1>3 DEF DemoteAll, DemotedPage, PageTypes
    <2>2. QED
      BY <1>1, <1>3, <2>1 DEF DemoteAll, Demoted
  <1>4. ASSUME NEW m \in 0 .. N, pages[p].live, pages[p].tier = "Vram", DemoteSome(p, m)
        PROVE  HalfDemoted(p, m)
    BY <1>4 DEF DemoteSome, HalfDemoted
  <1>5. QED
    BY <1>1, <1>2, <1>3, <1>4 DEF DemotePage

LEMMA WrittenBackTyped ==
  ASSUME Base, NEW p \in Pages, NEW m \in 0 .. Len(pages[p].vram)
  PROVE  WrittenBack(p, m) \in [GPUs -> [Frames -> Frame]]
  <1>1. DOMAIN pages[p].vram = 1 .. Len(pages[p].vram) /\ Len(pages[p].vram) \in Nat
    BY BaseTypes DEF PageTypes, Page
  <1>2. ASSUME NEW g \in GPUs, ChunkHere(p, m, g) # {}
        PROVE  LET i == Min(ChunkHere(p, m, g))
                   chunk == pages[p].vram[i]
               IN  [host[g] EXCEPT ![Backing(p, i).frame].data =
                      Overwrite(@, Prefix(dev[g][chunk.blk].data, chunk.size))]
                     \in [Frames -> Frame]
    <2> DEFINE i == Min(ChunkHere(p, m, g))
               chunk == pages[p].vram[i]
               x == Backing(p, i).frame
               d == Prefix(dev[g][chunk.blk].data, chunk.size)
    <2>1. ChunkHere(p, m, g) \subseteq Nat
      BY <1>1 DEF ChunkHere
    <2>2. i \in ChunkHere(p, m, g)
      BY <1>2, <2>1, LeastElement
    <2>3. i \in 1 .. m /\ chunk.gpu = g
      BY <2>2 DEF ChunkHere
    <2> HIDE DEF i
    <2>4. i \in DOMAIN PageLists[p] /\ chunk = PageLists[p][i] /\ chunk.gpu = g
      BY <1>1, <2>3, BaseTypes
    <2>5. chunk.size \in Nat /\ chunk.blk \in DOMAIN dev[g]
      BY <2>4, BaseTypes, ChunkOfList DEF Made
    <2>6. dev[g][chunk.blk].data \in Data
      BY <2>5, BaseTypes, BlockTypes
    <2>7. d \in Data
      BY <2>5, <2>6, Contents
    <2> HIDE DEF chunk, x, d
    <2>8. host[g] \in [Frames -> Frame]
      BY BaseTypes DEF HostTypes
    <2>9. x \in Frames => Overwrite(host[g][x].data, d) \in Data
      BY <2>7, <2>8, Contents DEF Frame
    <2>10. [host[g] EXCEPT ![x].data = Overwrite(host[g][x].data, d)] \in [Frames -> Frame]
      BY <2>8, <2>9, FrameWritten
    <2>11. [host[g] EXCEPT ![x].data = Overwrite(@, d)] \in [Frames -> Frame]
      BY <2>10
    <2>12. QED
      BY <2>11 DEF i, chunk, x, d
  <1>3. \A g \in GPUs : host[g] \in [Frames -> Frame]
    BY BaseTypes DEF HostTypes
  <1>4. QED
    BY <1>2, <1>3 DEF WrittenBack

LEMMA DemoteKeepsBase ==
  ASSUME Base, NEW p \in Pages, DemotePage(p)
  PROVE  /\ PageTypes' /\ NoChunksBelow' /\ Distinct' /\ Stored' /\ HostTypes'
         /\ dev' = dev /\ inflight' = inflight /\ vram_free' \in Cache
         /\ Made(vram_free, PageLists, inflight, dev)'
  <1>1. /\ dev' = dev /\ file' = file /\ inflight' = inflight
        /\ NotDemoted \/ Demoted(p) \/ \E m \in 0 .. N : HalfDemoted(p, m)
    BY BaseTypes, DemoteCases
  <1>2. /\ Len(file') = Len(file) /\ Len(file) \in Nat
        /\ Len(pages[p].vram) \in Nat
        /\ host \in [GPUs -> [Frames -> Frame]] /\ file \in Seq(Data)
    BY <1>1, BaseTypes DEF HostTypes, PageTypes, Page
  <1>3. ASSUME pages' = pages
        PROVE  PageTypes' /\ NoChunksBelow' /\ Distinct' /\ Stored' /\ PageLists' = PageLists
    BY <1>1, <1>2, <1>3, AlikeKeeps, BaseTypes DEF PageTypes, Alike
  <1>4. ASSUME NEW m \in 0 .. Len(pages[p].vram), vram_free' = Released(p, m)
        PROVE  vram_free' \in Cache /\ Made(vram_free', PageLists, inflight, dev)
    <2>1. /\ vram_free' \in Cache
          /\ \A g \in GPUs : \A k \in DOMAIN vram_free'[g] :
               \/ k \in DOMAIN vram_free[g] /\ vram_free'[g][k] = vram_free[g][k]
               \/ \E i \in DOMAIN PageLists[p] :
                    PageLists[p][i].gpu = g /\ vram_free'[g][k] = PageLists[p][i].blk
      BY <1>4, BaseTypes, ReleasedIs
    <2>2. QED
      BY <2>1, BaseTypes DEF Made
  <1>5. CASE NotDemoted
    BY <1>1, <1>2, <1>3, <1>5, BaseTypes DEF NotDemoted, HostTypes
  <1>6. CASE Demoted(p)
    <2> DEFINE P == DemotedPage(p)
    <2>1. /\ P \in Page /\ P.vram = << >> /\ P.tier = "Dram" /\ P.ssd = pages[p].ssd
      <3>1. pages[p] \in Page /\ << >> \in Seq(Chunk) /\ "Warm" \in States
        BY BaseTypes DEF PageTypes, States
      <3>2. QED
        BY <3>1 DEF DemotedPage, Page
    <2>2. pages' = [pages EXCEPT ![p] = P]
      BY <1>6 DEF Demoted
    <2> HIDE DEF P
    <2>3. P.ssd \in 0 .. Len(file') /\ (P.tier = "Ssd" => P.ssd # 0)
          /\ Len(file) <= Len(file') /\ Len(file') \in Nat
      BY <1>2, <2>1 DEF Base, Stored
    <2>4. PageTypes' /\ NoChunksBelow' /\ Distinct' /\ Stored' /\ PageLists' = Emptied(PageLists, p)
      BY <1>1, <1>2, <2>1, <2>2, <2>3, ReplacedKeeps
    <2>5. vram_free' \in Cache /\ Made(vram_free', PageLists, inflight, dev)
      BY <1>2, <1>4, <1>6 DEF Demoted
    <2>6. Made(vram_free', PageLists', inflight, dev)
      BY <2>4, <2>5, BaseTypes, MadeEmptied
    <2>7. HostTypes'
      BY <1>1, <1>2, <1>6, WrittenBackTyped DEF Demoted, HostTypes
    <2>8. QED
      BY <1>1, <2>4, <2>5, <2>6, <2>7
  <1>7. ASSUME NEW m \in 0 .. N, HalfDemoted(p, m)
        PROVE  /\ PageTypes' /\ NoChunksBelow' /\ Distinct' /\ Stored' /\ HostTypes'
               /\ vram_free' \in Cache /\ Made(vram_free, PageLists, inflight, dev)'
    <2>1. m \in 0 .. Len(pages[p].vram) /\ m + 1 \in 0 .. Len(pages[p].vram)
      BY <1>2, <1>7, PoolAssumption DEF HalfDemoted
    <2>2. pages' = pages /\ vram_free' = Released(p, m)
          /\ host' \in {WrittenBack(p, m), WrittenBack(p, m + 1)}
      BY <1>7 DEF HalfDemoted
    <2>3. vram_free' \in Cache /\ Made(vram_free', PageLists, inflight, dev)
      BY <1>4, <2>1, <2>2
    <2>4. HostTypes'
      BY <1>1, <1>2, <2>1, <2>2, WrittenBackTyped DEF HostTypes
    <2>5. QED
      BY <1>1, <1>3, <2>2, <2>3, <2>4
  <1>8. QED
    BY <1>1, <1>5, <1>6, <1>7

-----------------------------------------------------------------------------
(* Base is an invariant. *)
LEMMA StreamKept ==
  ASSUME Base, stream' = stream, \A g \in GPUs : DOMAIN dev[g] \subseteq DOMAIN dev'[g]
  PROVE  /\ stream' \in [GPUs -> Seq(Copy)]
         /\ \A g \in GPUs : \A i \in DOMAIN stream'[g] : stream'[g][i].blk \in DOMAIN dev'[g]
  BY BaseTypes DEF Base, AllMade

LEMMA DeviceUntouched ==
  ASSUME Base, UNCHANGED <<dev, vram_free, inflight, stream>>, PageLists' = PageLists
  PROVE  DeviceTypes' /\ AllMade'
  BY DEF Base, DeviceTypes, AllMade

LEMMA PagesUntouched ==
  ASSUME Base, pages' = pages, inflight' = inflight, Len(file') = Len(file)
  PROVE  PageTypes' /\ NoChunksBelow' /\ Distinct' /\ Stored' /\ PageLists' = PageLists
  <1>1. Len(file) \in Nat
    BY BaseTypes DEF HostTypes
  <1>2. PageTypes' /\ Alike
    BY BaseTypes DEF PageTypes, Alike
  <1>3. QED
    BY <1>1, <1>2, AlikeKeeps

LEMMA InitBase == Init => Base
  <1> SUFFICES ASSUME Init PROVE Base
    OBVIOUS
  <1>1. PageTypes
    BY AbsentIsAPage DEF Init, PageTypes
  <1>2. DeviceTypes
    BY DEF Init, DeviceTypes, Devs, Cache, Issues
  <1>3. HostTypes
    <2>1. << >> \in Data
      BY DEF Data
    <2>2. [used |-> FALSE, data |-> << >>] \in Frame
      BY <2>1 DEF Frame
    <2>3. QED
      BY <2>2 DEF Init, HostTypes
  <1>4. RunTypes
    BY DEF Init, RunTypes, NoSweep
  <1>5. \A p \in Pages : PageLists[p] = << >>
    BY AbsentIsAPage DEF Init, PageLists
  <1>6. AllMade
    BY <1>5 DEF Init, AllMade, Made
  <1>7. NoChunksBelow /\ Distinct
    BY <1>5 DEF NoChunksBelow, Distinct
  <1>8. Stored
    BY AbsentIsAPage DEF Init, Stored
  <1>9. QED
    BY <1>1, <1>2, <1>3, <1>4, <1>6, <1>7, <1>8 DEF Base

LEMMA AllocateBase == ASSUME Base, NEW p \in Pages, Allocate(p) PROVE Base'
  <1>1. /\ HostTypes'
        /\ Len(file) <= Len(file') /\ Len(file) \in Nat /\ Len(file') \in Nat
        /\ \E P \in Page :
             /\ pages' = [pages EXCEPT ![p] = P] /\ P.vram = << >>
             /\ P.ssd \in 0 .. Len(file') /\ (P.tier = "Ssd" => P.ssd # 0)
    BY AllocateCases DEF Allocate
  <1>2. /\ UNCHANGED <<dev, vram_free, inflight, stream, sweep, writes>>
        /\ latest' = [latest EXCEPT ![p] = 0]
    BY DEF Allocate
  <1>3. PICK P \in Page :
             /\ pages' = [pages EXCEPT ![p] = P] /\ P.vram = << >>
             /\ P.ssd \in 0 .. Len(file') /\ (P.tier = "Ssd" => P.ssd # 0)
    BY <1>1
  <1>4. PageTypes' /\ NoChunksBelow' /\ Distinct' /\ Stored' /\ PageLists' = Emptied(PageLists, p)
    BY <1>1, <1>2, <1>3, ReplacedKeeps
  <1>5. Made(vram_free, PageLists', inflight, dev)
    BY <1>4, BaseTypes, MadeEmptied
  <1>6. DeviceTypes' /\ AllMade'
    BY <1>2, <1>5 DEF Base, DeviceTypes, AllMade
  <1>7. RunTypes'
    BY <1>2 DEF Base, RunTypes
  <1>8. QED
    BY <1>1, <1>4, <1>6, <1>7 DEF Base

LEMMA AccessBase ==
  ASSUME Base, NEW p \in Pages, NEW g \in GPUs, AccessPage(p, g),
         UNCHANGED <<stream, writes, latest>>,
         sweep' \in [demote : SUBSET Pages, promote : SUBSET Pages]
  PROVE  Base'
  <1>1. /\ PageTypes' /\ NoChunksBelow' /\ Distinct' /\ Stored' /\ HostTypes'
        /\ dev' \in Devs /\ vram_free' \in Cache /\ inflight' \in Issues
        /\ Made(vram_free, PageLists, inflight, dev)'
        /\ \A h \in GPUs : DOMAIN dev[h] \subseteq DOMAIN dev'[h]
    BY AccessKeepsBase
  <1>2. DeviceTypes' /\ AllMade'
    BY <1>1, StreamKept DEF DeviceTypes, AllMade
  <1>3. RunTypes'
    BY DEF Base, RunTypes
  <1>4. QED
    BY <1>1, <1>2, <1>3 DEF Base

LEMMA DemoteBase ==
  ASSUME Base, NEW p \in Pages, DemotePage(p), UNCHANGED <<stream, writes, latest>>,
         sweep' \in [demote : SUBSET Pages, promote : SUBSET Pages]
  PROVE  Base'
  <1>1. /\ PageTypes' /\ NoChunksBelow' /\ Distinct' /\ Stored' /\ HostTypes'
        /\ dev' = dev /\ inflight' = inflight /\ vram_free' \in Cache
        /\ Made(vram_free, PageLists, inflight, dev)'
    BY DemoteKeepsBase
  <1>2. DeviceTypes' /\ AllMade'
    BY <1>1 DEF Base, DeviceTypes, AllMade
  <1>3. RunTypes'
    BY DEF Base, RunTypes
  <1>4. QED
    BY <1>1, <1>2, <1>3 DEF Base

(* prefetch: its copy and its block, which the prefetch in flight gets, or *)
(* nobody, or the cache again.                                             *)
CopyOf(p, b) ==
  [page |-> p, blk |-> b, frame |-> pages[p].dram[1].frame, size |-> PageSize[p]]
WithCopy(p, g, b) == [stream EXCEPT ![g] = Append(@, CopyOf(p, b))]
Target(p, g, b) == [gpu |-> g, blk |-> b, size |-> PageSize[p]]

Allotted(p, g, a) ==
  dev' = IF a.new THEN Filled(g, a, PageSize[p], Junk(PageSize[p])) ELSE dev
PrefetchIssued(p, g, a) ==
  /\ vram_free' = a.cache
  /\ stream' = WithCopy(p, g, a.blk)
  /\ inflight' = [inflight EXCEPT ![p] = Target(p, g, a.blk)]
PrefetchLost(p, g, a) ==
  /\ "cuda" \in Failures /\ result' \in LosingEnds
  /\ vram_free' = a.cache
  /\ stream' \in {stream, WithCopy(p, g, a.blk)}
  /\ inflight' = inflight
PrefetchReturned(p, g, a) ==
  /\ "cuda" \in Failures
  /\ vram_free' = Recycled(a.cache, g, a.blk)
  /\ stream' = stream
  /\ inflight' = inflight

LEMMA PrefetchCases ==
  ASSUME Base, NEW p \in Pages, NEW g \in GPUs, Prefetch(p, g)
  PROVE  /\ UNCHANGED <<pages, host, file, sweep, writes, latest>>
         /\ inflight[p] = None /\ pages[p].live /\ pages[p].tier = "Dram"
         /\ pages[p].dram # << >>
         /\ \/ UNCHANGED <<dev, vram_free, inflight, stream>>
            \/ \E a \in VramBlocks(vram_free, g, PageSize[p]) :
                 /\ Allotted(p, g, a)
                 /\ PrefetchIssued(p, g, a) \/ PrefetchLost(p, g, a) \/ PrefetchReturned(p, g, a)
  <1>1. /\ UNCHANGED <<pages, host, file, sweep, writes, latest>>
        /\ inflight[p] = None /\ pages[p].live /\ pages[p].tier = "Dram"
        /\ pages[p].dram # << >>
    BY DEF Prefetch, Prefetched
  <1>2. \/ UNCHANGED <<dev, vram_free, inflight, stream>>
        \/ \E a \in VramBlocks(vram_free, g, PageSize[p]) :
             /\ Allotted(p, g, a)
             /\ PrefetchIssued(p, g, a) \/ PrefetchLost(p, g, a) \/ PrefetchReturned(p, g, a)
    BY DEF Prefetch, Allotted, PrefetchIssued, PrefetchLost, PrefetchReturned,
           WithCopy, CopyOf, Target, Ends, LosingEnds
  <1>3. QED
    BY <1>1, <1>2

LEMMA AllottedIs ==
  ASSUME Base, NEW p \in Pages, NEW g \in GPUs,
         NEW a \in VramBlocks(vram_free, g, PageSize[p]), Allotted(p, g, a)
  PROVE  /\ a.blk \in Nat /\ a.cache \in Cache
         /\ dev' \in Devs
         /\ \A h \in GPUs : h # g => dev'[h] = dev[h]
         /\ DOMAIN dev'[g] = DOMAIN dev[g] \cup {a.blk}
         /\ \A b \in DOMAIN dev[g] : b # a.blk => dev'[g][b] = dev[g][b]
         /\ dev'[g][a.blk].size = PageSize[p]
         /\ Made(a.cache, PageLists, inflight, dev')
  <1>1. PageSize[p] \in Nat /\ Junk(PageSize[p]) \in Data
    BY Sizes, Contents
  <1>2. /\ a.cache \in Cache /\ a.blk \in Nat /\ a.new \in BOOLEAN
        /\ IF a.new THEN a.blk = Len(dev[g]) + 1
           ELSE a.blk \in DOMAIN dev[g] /\ dev[g][a.blk].size = PageSize[p]
        /\ Made(a.cache, PageLists, inflight, dev)
    BY <1>1, BaseTypes, BlockTyped
  <1>3. OneBlock(g, a)
    BY <1>2 DEF OneBlock
  <1>4. /\ dev' \in Devs
        /\ \A h \in GPUs : h # g => dev'[h] = dev[h]
        /\ DOMAIN dev'[g] = DOMAIN dev[g] \cup {a.blk}
        /\ \A b \in DOMAIN dev[g] : b # a.blk => dev'[g][b] = dev[g][b]
        /\ dev'[g][a.blk].size = PageSize[p]
    <2>1. CASE a.new
      <3>1. dev' = Filled(g, a, PageSize[p], Junk(PageSize[p])) /\ dev \in Devs
        BY <2>1, BaseTypes DEF Allotted
      <3>2. QED
        BY <1>1, <1>2, <1>3, <3>1, FilledIs
    <2>2. CASE ~a.new
      <3>1. dev' = dev /\ a.blk \in DOMAIN dev[g] /\ dev[g][a.blk].size = PageSize[p]
        BY <1>2, <2>2 DEF Allotted
      <3>2. QED
        BY <3>1, BaseTypes
    <2>3. QED
      BY <2>1, <2>2
  <1>5. \A h \in GPUs : DOMAIN dev[h] \subseteq DOMAIN dev'[h]
    BY <1>4
  <1>6. Made(a.cache, PageLists, inflight, dev')
    BY <1>2, <1>5, BaseTypes, MadeGrows
  <1>7. QED
    BY <1>2, <1>4, <1>6

LEMMA WithCopyIs ==
  ASSUME Base, NEW p \in Pages, NEW g \in GPUs, NEW b \in Nat, pages[p].dram # << >>
  PROVE  /\ WithCopy(p, g, b) \in [GPUs -> Seq(Copy)]
         /\ \A h \in GPUs : h # g => WithCopy(p, g, b)[h] = stream[h]
         /\ Len(stream[g]) \in Nat /\ DOMAIN stream[g] = 1 .. Len(stream[g])
         /\ DOMAIN WithCopy(p, g, b)[g] = 1 .. Len(stream[g]) + 1
         /\ \A i \in 1 .. Len(stream[g]) : WithCopy(p, g, b)[g][i] = stream[g][i]
         /\ WithCopy(p, g, b)[g][Len(stream[g]) + 1] = CopyOf(p, b)
  <1>1. pages[p].dram \in Seq(Place)
    BY BaseTypes DEF PageTypes, Page
  <1>2. 1 \in DOMAIN pages[p].dram
    BY <1>1
  <1>3. CopyOf(p, b) \in Copy
    BY <1>2, BaseTypes, BackingTyped, Sizes DEF CopyOf, Copy
  <1>4. stream \in [GPUs -> Seq(Copy)]
    BY BaseTypes
  <1>5. QED
    BY <1>3, <1>4 DEF WithCopy

LEMMA PrefetchBase == ASSUME Base, NEW p \in Pages, NEW g \in GPUs, Prefetch(p, g) PROVE Base'
  <1>1. /\ UNCHANGED <<pages, host, file, sweep, writes, latest>>
        /\ inflight[p] = None /\ pages[p].live /\ pages[p].tier = "Dram"
        /\ pages[p].dram # << >>
        /\ \/ UNCHANGED <<dev, vram_free, inflight, stream>>
           \/ \E a \in VramBlocks(vram_free, g, PageSize[p]) :
                /\ Allotted(p, g, a)
                /\ PrefetchIssued(p, g, a) \/ PrefetchLost(p, g, a) \/ PrefetchReturned(p, g, a)
    BY PrefetchCases
  <1>2. PageTypes' /\ HostTypes' /\ RunTypes' /\ Distinct' /\ Stored' /\ PageLists' = PageLists
    BY <1>1 DEF Base, PageTypes, HostTypes, RunTypes, Distinct, Stored, PageLists
  <1>3. CASE UNCHANGED <<dev, vram_free, inflight, stream>>
    <2>1. NoChunksBelow'
      BY <1>1, <1>2, <1>3 DEF Base, NoChunksBelow, Prefetched
    <2>2. QED
      BY <1>2, <1>3, <2>1, DeviceUntouched DEF Base
  <1>4. ASSUME NEW a \in VramBlocks(vram_free, g, PageSize[p]), Allotted(p, g, a),
               PrefetchIssued(p, g, a) \/ PrefetchLost(p, g, a) \/ PrefetchReturned(p, g, a)
        PROVE  Base'
    <2>1. /\ a.blk \in Nat /\ a.cache \in Cache
          /\ dev' \in Devs
          /\ \A h \in GPUs : h # g => dev'[h] = dev[h]
          /\ DOMAIN dev'[g] = DOMAIN dev[g] \cup {a.blk}
          /\ Made(a.cache, PageLists, inflight, dev')
      BY <1>4, AllottedIs
    <2>2. \A h \in GPUs : \A i \in DOMAIN stream[h] : stream[h][i].blk \in DOMAIN dev'[h]
      BY <2>1 DEF Base, AllMade
    <2> DEFINE StreamsTyped == /\ stream' \in [GPUs -> Seq(Copy)]
                               /\ \A h \in GPUs : \A i \in DOMAIN stream'[h] :
                                    stream'[h][i].blk \in DOMAIN dev'[h]
    <2>3. ASSUME stream' = stream PROVE StreamsTyped
      <3>1. stream' \in [GPUs -> Seq(Copy)]
        BY <2>3, BaseTypes
      <3>2. QED
        BY <2>2, <2>3, <3>1
    <2>4. ASSUME stream' = WithCopy(p, g, a.blk) PROVE StreamsTyped
      <3> DEFINE n == Len(stream[g])
      <3>1. CopyOf(p, a.blk).blk = a.blk
        BY DEF CopyOf
      <3>2. /\ stream' \in [GPUs -> Seq(Copy)]
            /\ \A h \in GPUs : h # g => stream'[h] = stream[h]
            /\ n \in Nat /\ DOMAIN stream[g] = 1 .. n
            /\ DOMAIN stream'[g] = 1 .. n + 1
            /\ \A i \in 1 .. n : stream'[g][i] = stream[g][i]
            /\ stream'[g][n + 1] = CopyOf(p, a.blk)
        BY <1>1, <2>1, <2>4, WithCopyIs
      <3> HIDE DEF n
      <3>3. ASSUME NEW h \in GPUs, NEW i \in DOMAIN stream'[h]
            PROVE  stream'[h][i].blk \in DOMAIN dev'[h]
        <4>1. CASE h # g
          <5>1. stream'[h] = stream[h]
            BY <3>2, <4>1
          <5>2. QED
            BY <2>2, <3>3, <5>1
        <4>2. CASE h = g /\ i = n + 1
          BY <2>1, <3>1, <3>2, <4>2
        <4>3. CASE h = g /\ i # n + 1
          <5>1. i \in 1 .. n
            BY <3>2, <3>3, <4>3
          <5>2. stream'[g][i] = stream[g][i] /\ i \in DOMAIN stream[g]
            BY <3>2, <5>1
          <5>3. QED
            BY <2>2, <4>3, <5>2
        <4>4. QED
          BY <4>1, <4>2, <4>3
      <3>4. QED
        BY <3>2, <3>3
    <2>5. StreamsTyped
      BY <1>4, <2>3, <2>4 DEF PrefetchIssued, PrefetchLost, PrefetchReturned
    <2>6. /\ stream' \in [GPUs -> Seq(Copy)]
          /\ \A h \in GPUs : \A i \in DOMAIN stream'[h] : stream'[h][i].blk \in DOMAIN dev'[h]
      BY <2>5
    <2> HIDE DEF StreamsTyped
    <2>7. CASE inflight' = inflight
      <3>1. NoChunksBelow'
        BY <1>1, <1>2, <2>7 DEF Base, NoChunksBelow, Prefetched
      <3>2. /\ Recycled(a.cache, g, a.blk) \in Cache
            /\ Made(Recycled(a.cache, g, a.blk), PageLists, inflight, dev')
        BY <2>1, RecycledIs, MadeRecycled
      <3>3. CASE vram_free' = a.cache
        BY <1>2, <2>1, <2>6, <2>7, <3>1, <3>3, BaseTypes DEF Base, DeviceTypes, AllMade
      <3>4. CASE vram_free' = Recycled(a.cache, g, a.blk)
        BY <1>2, <2>1, <2>6, <2>7, <3>1, <3>2, <3>4, BaseTypes DEF Base, DeviceTypes, AllMade
      <3>5. CASE PrefetchIssued(p, g, a)
        BY <3>3, <3>5 DEF PrefetchIssued
      <3>6. QED
        BY <1>4, <3>3, <3>4, <3>5 DEF PrefetchLost, PrefetchReturned
    <2>8. CASE PrefetchIssued(p, g, a)
      <3> DEFINE t == Target(p, g, a.blk)
      <3>1. t \in Chunk /\ t.gpu = g /\ t.blk = a.blk
        BY <2>1, Sizes DEF Target, Chunk
      <3>2. vram_free' = a.cache /\ inflight' = [inflight EXCEPT ![p] = t]
        BY <2>8 DEF PrefetchIssued
      <3> HIDE DEF t
      <3>3. inflight' \in Issues /\ inflight'[p] = t
            /\ \A q \in Pages : q # p => inflight'[q] = inflight[q]
        BY <3>1, <3>2, BaseTypes DEF Issues
      <3>4. Made(a.cache, PageLists, inflight', dev')
        BY <2>1, <3>1, <3>3 DEF Made
      <3>5. NoChunksBelow'
        BY <1>1, <1>2, <3>3 DEF Base, NoChunksBelow, Prefetched
      <3>6. QED
        BY <1>2, <2>1, <2>6, <3>2, <3>3, <3>4, <3>5 DEF Base, DeviceTypes, AllMade
    <2>9. QED
      BY <1>4, <2>7, <2>8 DEF PrefetchLost, PrefetchReturned
  <1>5. QED
    BY <1>1, <1>3, <1>4

LEMMA WriteBase == ASSUME Base, NEW p \in Pages, WritePage(p) PROVE Base'
  <1>1. /\ UNCHANGED <<pages, dev, vram_free, inflight, stream, sweep>>
        /\ \/ UNCHANGED <<host, file, latest, writes>>
           \/ /\ writes' = writes + 1 /\ pages[p].live
              /\ WriteCold(p, writes + 1) \/ WriteBacking(p, writes + 1)
    BY DEF WritePage
  <1>2. /\ writes \in Nat /\ writes + 1 \in Nat /\ latest \in [Pages -> Nat]
        /\ sweep \in [demote : SUBSET Pages, promote : SUBSET Pages]
    BY DEF Base, RunTypes
  <1>3. host \in [GPUs -> [Frames -> Frame]] /\ file \in Seq(Data) /\ Len(file) \in Nat
    BY DEF Base, HostTypes
  <1>4. HostTypes' /\ RunTypes' /\ Len(file') = Len(file)
    <2>1. CASE UNCHANGED <<host, file, latest, writes>>
      BY <1>1, <1>2, <1>3, <2>1 DEF HostTypes, RunTypes
    <2>2. ASSUME WriteCold(p, writes + 1), writes' = writes + 1
          PROVE  HostTypes' /\ RunTypes' /\ Len(file') = Len(file)
      <3>1. Whole(p, writes + 1) \in Data /\ Junk(PageSize[p]) \in Data
        BY <1>2, Contents, Sizes
      <3>2. ASSUME NEW d \in Data, NEW x
            PROVE  [file EXCEPT ![x] = d] \in Seq(Data) /\ Len([file EXCEPT ![x] = d]) = Len(file)
        <4>1. CASE x \in 1 .. Len(file)
          BY <1>3, <4>1, ExceptSeq
        <4>2. CASE x \notin 1 .. Len(file)
          <5>1. [file EXCEPT ![x] = d] = file
            BY <1>3, <4>2
          <5>2. QED
            BY <1>3, <5>1
        <4>3. QED
          BY <4>1, <4>2
      <3>3. file' \in Seq(Data) /\ Len(file') = Len(file)
        BY <2>2, <3>1, <3>2 DEF WriteCold
      <3>4. host' = host /\ latest' \in [Pages -> Nat] /\ writes' \in Nat
        BY <1>2, <2>2 DEF WriteCold
      <3>5. QED
        BY <1>1, <1>2, <1>3, <3>3, <3>4 DEF HostTypes, RunTypes
    <2>3. ASSUME WriteBacking(p, writes + 1), writes' = writes + 1
          PROVE  HostTypes' /\ RunTypes' /\ Len(file') = Len(file)
      <3>1. ASSUME NEW g \in GPUs, NEW x
            PROVE  [host[g] EXCEPT ![x].data = Shard(p, g, writes + 1)] \in [Frames -> Frame]
        <4>1. host[g] \in [Frames -> Frame] /\ Shard(p, g, writes + 1) \in Data
          BY <1>2, <1>3, Contents
        <4>2. QED
          BY <4>1, FrameWritten
      <3>2. \A g \in GPUs : host'[g] \in [Frames -> Frame]
        BY <1>3, <2>3, <3>1 DEF WriteBacking
      <3>3. host' \in [GPUs -> [Frames -> Frame]]
        BY <2>3, <3>2 DEF WriteBacking
      <3>4. file' = file /\ latest' \in [Pages -> Nat] /\ writes' \in Nat
        BY <1>2, <2>3 DEF WriteBacking
      <3>5. QED
        BY <1>1, <1>2, <1>3, <3>3, <3>4 DEF HostTypes, RunTypes
    <2>4. QED
      BY <1>1, <2>1, <2>2, <2>3
  <1>5. PageTypes' /\ NoChunksBelow' /\ Distinct' /\ Stored' /\ PageLists' = PageLists
    BY <1>1, <1>4, PagesUntouched
  <1>6. DeviceTypes' /\ AllMade'
    BY <1>1, <1>5, DeviceUntouched
  <1>7. QED
    BY <1>4, <1>5, <1>6 DEF Base

(* A block is written in place, by a kernel or by a copy. *)
LEMMA OverwrittenBase ==
  ASSUME Base, NEW g \in GPUs, NEW b \in DOMAIN dev[g], NEW data \in Data,
         dev' = BlockWith(g, b, data),
         UNCHANGED <<pages, host, file, inflight, vram_free, sweep>>,
         stream' \in [GPUs -> Seq(Copy)],
         \A h \in GPUs : \A i \in DOMAIN stream'[h] : stream'[h][i].blk \in DOMAIN dev[h],
         writes' \in Nat, latest' \in [Pages -> Nat]
  PROVE  Base'
  <1>1. dev \in Devs
    BY BaseTypes
  <1>2. /\ dev' \in Devs
        /\ \A h \in GPUs : h # g => dev'[h] = dev[h]
        /\ DOMAIN dev'[g] = DOMAIN dev[g]
    BY <1>1, BlockWritten
  <1>3. \A h \in GPUs : DOMAIN dev'[h] = DOMAIN dev[h]
    BY <1>2
  <1>4. PageTypes' /\ NoChunksBelow' /\ Distinct' /\ Stored' /\ PageLists' = PageLists
    BY PagesUntouched
  <1>5. Made(vram_free, PageLists, inflight, dev')
    BY <1>3, BaseTypes, MadeGrows
  <1>6. DeviceTypes' /\ AllMade'
    BY <1>2, <1>3, <1>4, <1>5 DEF Base, DeviceTypes, AllMade
  <1>7. HostTypes' /\ RunTypes'
    BY DEF Base, HostTypes, RunTypes
  <1>8. QED
    BY <1>4, <1>6, <1>7 DEF Base

LEMMA KernelBase == ASSUME Base, NEW p \in Pages, KernelWrite(p) PROVE Base'
  <1> DEFINE c == pages[p].vram[1]
  <1>1. /\ pages[p].vram \in Seq(Chunk) /\ 1 \in DOMAIN pages[p].vram
        /\ pages[p].vram = PageLists[p]
    BY BaseTypes DEF KernelWrite, PageTypes, Page
  <1>2. c.gpu \in GPUs /\ c.blk \in DOMAIN dev[c.gpu]
    BY <1>1, BaseTypes, ChunkOfList DEF Made
  <1>3. /\ writes \in Nat /\ writes + 1 \in Nat /\ latest \in [Pages -> Nat]
    BY DEF Base, RunTypes
  <1>4. Whole(p, writes + 1) \in Data
    BY <1>3, Contents
  <1>5. /\ dev' = BlockWith(c.gpu, c.blk, Whole(p, writes + 1))
        /\ UNCHANGED <<pages, host, file, inflight, vram_free, sweep, stream>>
        /\ writes' = writes + 1
        /\ latest' = [latest EXCEPT ![p] = writes + 1]
    BY DEF KernelWrite, BlockWith
  <1>6. latest' \in [Pages -> Nat] /\ writes' \in Nat
    BY <1>3, <1>5
  <1>7. /\ stream' \in [GPUs -> Seq(Copy)]
        /\ \A h \in GPUs : \A i \in DOMAIN stream'[h] : stream'[h][i].blk \in DOMAIN dev[h]
    BY <1>5, BaseTypes DEF Base, AllMade
  <1> HIDE DEF c
  <1>8. QED
    BY <1>2, <1>4, <1>5, <1>6, <1>7, OverwrittenBase

(* The copy a stream executes, and what is left on the stream. *)
LEMMA HeadOfStream ==
  ASSUME Base, NEW g \in GPUs, stream[g] # << >>,
         stream' = [stream EXCEPT ![g] = Tail(stream[g])]
  PROVE  /\ Head(stream[g]) = stream[g][1] /\ 1 \in DOMAIN stream[g]
         /\ Head(stream[g]) \in Copy
         /\ stream' \in [GPUs -> Seq(Copy)]
         /\ \A h \in GPUs : h # g => stream'[h] = stream[h]
         /\ \A i \in DOMAIN stream'[g] :
              i + 1 \in DOMAIN stream[g] /\ stream'[g][i] = stream[g][i + 1]
  <1>1. stream \in [GPUs -> Seq(Copy)] /\ stream[g] \in Seq(Copy)
    BY BaseTypes
  <1>2. /\ Tail(stream[g]) \in Seq(Copy) /\ Len(stream[g]) \in Nat /\ Len(stream[g]) > 0
        /\ DOMAIN stream[g] = 1 .. Len(stream[g])
        /\ DOMAIN Tail(stream[g]) = 1 .. Len(stream[g]) - 1
        /\ \A i \in 1 .. Len(stream[g]) - 1 : Tail(stream[g])[i] = stream[g][i + 1]
    BY <1>1
  <1>3. Head(stream[g]) = stream[g][1] /\ 1 \in DOMAIN stream[g] /\ stream[g][1] \in Copy
    BY <1>1, <1>2
  <1>4. stream' \in [GPUs -> Seq(Copy)] /\ stream'[g] = Tail(stream[g])
        /\ \A h \in GPUs : h # g => stream'[h] = stream[h]
    BY <1>1, <1>2
  <1>5. QED
    BY <1>2, <1>3, <1>4

LEMMA StreamBase == ASSUME Base, NEW g \in GPUs, StreamCopy(g) PROVE Base'
  <1> DEFINE c == Head(stream[g])
             data == Prefix(host[0][c.frame].data, c.size)
  <1>1. /\ stream[g] # << >>
        /\ dev' = BlockWith(g, c.blk, data)
        /\ stream' = [stream EXCEPT ![g] = Tail(stream[g])]
        /\ UNCHANGED <<pages, host, file, inflight, vram_free, sweep, writes, latest>>
    BY DEF StreamCopy, BlockWith
  <1>2. /\ c = stream[g][1] /\ 1 \in DOMAIN stream[g] /\ c \in Copy
        /\ stream' \in [GPUs -> Seq(Copy)]
        /\ \A h \in GPUs : h # g => stream'[h] = stream[h]
        /\ \A i \in DOMAIN stream'[g] :
             i + 1 \in DOMAIN stream[g] /\ stream'[g][i] = stream[g][i + 1]
    BY <1>1, HeadOfStream
  <1>3. c.frame \in Frames /\ c.size \in Nat
    BY <1>2 DEF Copy
  <1>4. host[0][c.frame].data \in Data
    BY <1>3, BaseTypes, Zero DEF HostTypes, Frame
  <1>5. data \in Data
    BY <1>3, <1>4, Contents
  <1> HIDE DEF c, data
  <1>6. c.blk \in DOMAIN dev[g]
    BY <1>2 DEF Base, AllMade
  <1>7. \A h \in GPUs : \A i \in DOMAIN stream'[h] : stream'[h][i].blk \in DOMAIN dev[h]
    BY <1>2 DEF Base, AllMade
  <1>8. writes' \in Nat /\ latest' \in [Pages -> Nat]
    BY <1>1 DEF Base, RunTypes
  <1>9. QED
    BY <1>1, <1>2, <1>5, <1>6, <1>7, <1>8, OverwrittenBase

(* What deallocate leaves of the DRAM pools. *)
Unused(p) ==
  [g \in GPUs |->
     IF g + 1 \in DOMAIN pages[p].dram
     THEN [host[g] EXCEPT ![pages[p].dram[g + 1].frame].used = FALSE]
     ELSE host[g]]

LEMMA UnusedIs ==
  ASSUME Base, NEW p \in Pages
  PROVE  /\ Unused(p) \in [GPUs -> [Frames -> Frame]]
         /\ \A g \in GPUs, f \in Frames :
              /\ Unused(p)[g][f].data = host[g][f].data
              /\ Unused(p)[g][f].used
                   = (host[g][f].used /\ ~(g + 1 \in DOMAIN pages[p].dram
                                            /\ pages[p].dram[g + 1].frame = f))
  <1>1. ASSUME NEW g \in GPUs, NEW x \in Frames,
               NEW h, h = [host[g] EXCEPT ![x].used = FALSE]
        PROVE  /\ h \in [Frames -> Frame]
               /\ \A f \in Frames : /\ h[f].data = host[g][f].data
                                    /\ h[f].used = (host[g][f].used /\ f # x)
    <2> DEFINE F == [host[g][x] EXCEPT !.used = FALSE]
    <2>1. host[g] \in [Frames -> Frame]
      BY BaseTypes DEF HostTypes
    <2>2. F \in Frame /\ F.data = host[g][x].data /\ F.used = FALSE
      BY <2>1 DEF Frame
    <2>3. h = [host[g] EXCEPT ![x] = F]
      BY <1>1
    <2>4. \A f \in Frames : host[g][f].used \in BOOLEAN
      BY <2>1 DEF Frame
    <2> HIDE DEF F
    <2>5. h \in [Frames -> Frame] /\ h[x] = F /\ \A f \in Frames : f # x => h[f] = host[g][f]
      BY <2>1, <2>2, <2>3
    <2>6. ASSUME NEW f \in Frames
          PROVE  h[f].data = host[g][f].data /\ h[f].used = (host[g][f].used /\ f # x)
      <3>1. CASE f = x
        BY <2>2, <2>5, <3>1
      <3>2. CASE f # x
        BY <2>4, <2>5, <3>2
      <3>3. QED
        BY <3>1, <3>2
    <2>7. QED
      BY <2>5, <2>6
  <1>2. \A g \in GPUs : g + 1 \in DOMAIN pages[p].dram => pages[p].dram[g + 1].frame \in Frames
    BY BaseTypes, BackingTyped
  <1>3. host \in [GPUs -> [Frames -> Frame]]
    BY BaseTypes DEF HostTypes
  <1>4. \A g \in GPUs, f \in Frames : host[g][f].used \in BOOLEAN
    BY <1>3 DEF Frame
  <1>5. ASSUME NEW g \in GPUs
        PROVE  /\ Unused(p)[g] \in [Frames -> Frame]
               /\ \A f \in Frames :
                    /\ Unused(p)[g][f].data = host[g][f].data
                    /\ Unused(p)[g][f].used
                         = (host[g][f].used /\ ~(g + 1 \in DOMAIN pages[p].dram
                                                  /\ pages[p].dram[g + 1].frame = f))
    <2>1. CASE g + 1 \in DOMAIN pages[p].dram
      <3>1. Unused(p)[g] = [host[g] EXCEPT ![pages[p].dram[g + 1].frame].used = FALSE]
        BY <2>1 DEF Unused
      <3>2. /\ Unused(p)[g] \in [Frames -> Frame]
            /\ \A f \in Frames :
                 /\ Unused(p)[g][f].data = host[g][f].data
                 /\ Unused(p)[g][f].used
                      = (host[g][f].used /\ f # pages[p].dram[g + 1].frame)
        BY ZenonT(30), <1>1, <1>2, <2>1, <3>1
      <3>3. QED
        BY <2>1, <3>2
    <2>2. CASE g + 1 \notin DOMAIN pages[p].dram
      <3>1. Unused(p)[g] = host[g]
        BY <2>2 DEF Unused
      <3>2. QED
        BY <1>3, <1>4, <2>2, <3>1
    <2>3. QED
      BY <2>1, <2>2
  <1>6. Unused(p) = [g \in GPUs |-> Unused(p)[g]]
    BY DEF Unused
  <1>7. QED
    BY <1>5, <1>6

(* A page of the table goes, or there is none. *)
Dropped(p) ==
  /\ pages[p].live
  /\ vram_free' = Released(p, Len(pages[p].vram))
  /\ host' = Unused(p)
  /\ pages' = [pages EXCEPT ![p] = Absent]
  /\ latest' = [latest EXCEPT ![p] = 0]

LEMMA DeallocateCases ==
  ASSUME NEW p \in Pages, Deallocate(p)
  PROVE  /\ UNCHANGED <<dev, file, inflight, stream, sweep, writes>>
         /\ Dropped(p) \/ UNCHANGED <<vram_free, host, pages, latest>>
  BY DEF Deallocate, Dropped, Unused

LEMMA DeallocateBase == ASSUME Base, NEW p \in Pages, Deallocate(p) PROVE Base'
  <1>1. /\ UNCHANGED <<dev, file, inflight, stream, sweep, writes>>
        /\ Dropped(p) \/ UNCHANGED <<vram_free, host, pages, latest>>
    BY DeallocateCases
  <1>2. Len(file') = Len(file) /\ Len(file) \in Nat /\ file' \in Seq(Data)
    BY <1>1, BaseTypes DEF HostTypes
  <1>3. CASE UNCHANGED <<vram_free, host, pages, latest>>
    <2>1. PageTypes' /\ NoChunksBelow' /\ Distinct' /\ Stored' /\ PageLists' = PageLists
      BY <1>1, <1>2, <1>3, PagesUntouched
    <2>2. DeviceTypes' /\ AllMade'
      BY <1>1, <1>3, <2>1, DeviceUntouched
    <2>3. QED
      BY <1>1, <1>3, <2>1, <2>2 DEF Base, HostTypes, RunTypes
  <1>4. CASE Dropped(p)
    <2>1. PageTypes' /\ NoChunksBelow' /\ Distinct' /\ Stored' /\ PageLists' = Emptied(PageLists, p)
      <3>1. pages' = [pages EXCEPT ![p] = Absent] /\ inflight' = inflight
        BY <1>1, <1>4 DEF Dropped
      <3>2. /\ Absent \in Page /\ Absent.vram = << >> /\ Absent.tier # "Ssd"
            /\ Absent.ssd \in 0 .. Len(file') /\ Len(file) <= Len(file')
            /\ Len(file) \in Nat /\ Len(file') \in Nat
        BY <1>2, AbsentIsAPage
      <3>3. QED
        BY <3>1, <3>2, ReplacedKeeps
    <2>2. vram_free' \in Cache /\ Made(vram_free', PageLists, inflight, dev)
      <3>1. Len(pages[p].vram) \in 0 .. Len(pages[p].vram)
        BY BaseTypes DEF PageTypes, Page
      <3>2. /\ vram_free' \in Cache
            /\ \A g \in GPUs : \A k \in DOMAIN vram_free'[g] :
                 \/ k \in DOMAIN vram_free[g] /\ vram_free'[g][k] = vram_free[g][k]
                 \/ \E i \in DOMAIN PageLists[p] :
                      PageLists[p][i].gpu = g /\ vram_free'[g][k] = PageLists[p][i].blk
        <4>1. vram_free' = Released(p, Len(pages[p].vram))
          BY <1>4 DEF Dropped
        <4>2. vram_free \in Cache /\ PageLists \in Lists
          BY BaseTypes
        <4>3. QED
          BY ONLY <3>1, <4>1, <4>2, ReleasedIs, p \in Pages
      <3>3. QED
        BY SMTT(30), <3>2, BaseTypes DEF Made
    <2>3. Made(vram_free', PageLists', inflight, dev)
      BY <2>1, <2>2, BaseTypes, MadeEmptied
    <2>4. DeviceTypes' /\ AllMade'
      BY <1>1, <2>2, <2>3 DEF Base, DeviceTypes, AllMade
    <2>5. HostTypes'
      BY <1>1, <1>2, <1>4, UnusedIs DEF Dropped, HostTypes
    <2>6. RunTypes'
      BY <1>1, <1>4 DEF Base, RunTypes, Dropped
    <2>7. QED
      BY <2>1, <2>4, <2>5, <2>6 DEF Base
  <1>5. QED
    BY <1>1, <1>3, <1>4

LEMMA PinBase == ASSUME Base, NEW p \in Pages, Pin(p) PROVE Base'
  <1> DEFINE P == [pages[p] EXCEPT !.pinned = ~pages[p].pinned]
  <1>1. /\ pages' = [pages EXCEPT ![p] = P]
        /\ UNCHANGED <<dev, vram_free, host, file, inflight, stream, sweep, writes, latest>>
    BY DEF Pin, memory
  <1>2. pages[p] \in Page
    BY BaseTypes DEF PageTypes
  <1>3. P \in Page /\ P.vram = pages[p].vram /\ P.tier = pages[p].tier /\ P.ssd = pages[p].ssd
        /\ P.live = pages[p].live /\ P.dram = pages[p].dram
    BY <1>2 DEF Page
  <1> HIDE DEF P
  <1>4. PageTypes' /\ Alike
    BY <1>1, <1>3, BaseTypes DEF PageTypes, Alike
  <1>5. Len(file') = Len(file) /\ Len(file) \in Nat
    BY <1>1, BaseTypes DEF HostTypes
  <1>6. NoChunksBelow' /\ Distinct' /\ Stored' /\ PageLists' = PageLists
    BY <1>1, <1>4, <1>5, AlikeKeeps
  <1>7. DeviceTypes' /\ AllMade'
    BY <1>1, <1>6, DeviceUntouched
  <1>8. QED
    BY <1>1, <1>4, <1>6, <1>7 DEF Base, HostTypes, RunTypes

LEMMA SweepTyped ==
  ASSUME Base
  PROVE  /\ sweep \in [demote : SUBSET Pages, promote : SUBSET Pages]
         /\ NoSweep \in [demote : SUBSET Pages, promote : SUBSET Pages]
         /\ \A p \in Pages :
              /\ [sweep EXCEPT !.demote = @ \ {p}]
                   \in [demote : SUBSET Pages, promote : SUBSET Pages]
              /\ [sweep EXCEPT !.promote = @ \ {p}]
                   \in [demote : SUBSET Pages, promote : SUBSET Pages]
  BY DEF Base, RunTypes, NoSweep

LEMMA BaseStep == Base /\ [Next]_vars => Base'
  <1> SUFFICES ASSUME Base, [Next]_vars PROVE Base'
    OBVIOUS
  <1>1. ASSUME NEW p \in Pages, SweepDemote(p) PROVE Base'
    <2>1. sweep' \in [demote : SUBSET Pages, promote : SUBSET Pages]
      BY <1>1, SweepTyped DEF SweepDemote, GoesOn
    <2>2. QED
      BY <1>1, <2>1, DemoteBase DEF SweepDemote
  <1>2. ASSUME NEW p \in Pages, SweepPromote(p) PROVE Base'
    <2>1. sweep' \in [demote : SUBSET Pages, promote : SUBSET Pages]
      BY <1>2, SweepTyped DEF SweepPromote, GoesOn
    <2>2. QED
      BY <1>2, <2>1, AccessBase, Zero DEF SweepPromote
  <1>3. ASSUME NEW p \in Pages, Demote(p) PROVE Base'
    BY <1>3, SweepTyped, DemoteBase DEF Demote
  <1>4. ASSUME NEW p \in Pages, NEW g \in GPUs, Access(p, g) PROVE Base'
    BY <1>4, SweepTyped, AccessBase DEF Access
  <1>5. ASSUME UNCHANGED <<pages, dev, vram_free, host, file, inflight, stream, writes, latest>>,
               sweep' \in [demote : SUBSET Pages, promote : SUBSET Pages]
        PROVE  Base'
    <2>1. PageTypes' /\ NoChunksBelow' /\ Distinct' /\ Stored' /\ PageLists' = PageLists
      BY <1>5, PagesUntouched
    <2>2. DeviceTypes' /\ AllMade'
      BY <1>5, <2>1, DeviceUntouched
    <2>3. QED
      BY <1>5, <2>1, <2>2 DEF Base, HostTypes, RunTypes
  <1>6. ASSUME SweepStart PROVE Base'
    <2>1. sweep' \in [demote : SUBSET Pages, promote : SUBSET Pages]
      BY <1>6 DEF SweepStart, Idleable, Hot
    <2>2. QED
      BY <1>5, <1>6, <2>1 DEF SweepStart, memory
  <1>7. ASSUME UNCHANGED vars PROVE Base'
    BY <1>5, <1>7, SweepTyped DEF vars
  <1>8. ASSUME NEW g \in GPUs, Drain(g) PROVE Base'
    BY <1>5, <1>8, SweepTyped DEF Drain, memory
  <1>9. QED
    BY <1>1, <1>2, <1>3, <1>4, <1>6, <1>7, <1>8, AllocateBase, WriteBase, KernelBase,
       DeallocateBase, PinBase, PrefetchBase, StreamBase DEF Next

(* What the driver handed out and the table know of each other holds       *)
(* always, whatever fails and however careless the callers are.            *)
THEOREM BaseInductive == Spec => []Base
  <1>1. QED
    BY InitBase, BaseStep, PTL DEF Spec

(* On no GPU does a page have two chunks, however often it is accessed,    *)
(* prefetched and demoted, and whatever call fails on the way.             *)
THEOREM OneChunkAlways == Spec => []OneChunkPerGpu
  <1>1. ASSUME Base PROVE OneChunkPerGpu
    <2> SUFFICES ASSUME NEW p \in Pages, NEW g \in GPUs
                 PROVE  Cardinality(ChunksOn(p, g)) <= 1
      BY DEF OneChunkPerGpu
    <2>1. \A i, j \in ChunksOn(p, g) : i = j
      BY <1>1, BaseTypes DEF Base, Distinct, ChunksOn
    <2>2. QED
      BY <2>1, AtMostOne
  <1>2. QED
    BY <1>1, BaseInductive, PTL

-----------------------------------------------------------------------------
(***************************************************************************)
(* Owners.  A device block is free, or it is in the recycle cache, on a    *)
(* page or the target of a prefetch, and in one of them only; a frame of a *)
(* DRAM pool in use is on one page.  The first lemmas say what taking,     *)
(* recycling, listing and issuing a block do to that, on the three places  *)
(* as parameters; the next ones follow each call.  Then come the frames of *)
(* the DRAM pools, the calls that fail, the blocks that could be lost, and *)
(* the prefetches under way.                                               *)
(***************************************************************************)

(* Block b of GPU g is in none of the three places. *)
Uncached(cache, g, b) == \A i \in DOMAIN cache[g] : cache[g][i] # b
Unlisted(lists, g, b) ==
  \A p \in Pages : \A i \in DOMAIN lists[p] : ~(lists[p][i].gpu = g /\ lists[p][i].blk = b)
Unissued(issues, g, b) == \A p \in Pages : ~(issues[p].gpu = g /\ issues[p].blk = b)

Free(cache, lists, issues, g, b) ==
  /\ Uncached(cache, g, b)
  /\ Unlisted(lists, g, b)
  /\ Unissued(issues, g, b)

(* No block is in one of them twice, or in two of them. *)
CachedOnce(cache) ==
  \A g \in GPUs : \A i, j \in DOMAIN cache[g] : cache[g][i] = cache[g][j] => i = j
ListedOnce(lists) ==
  \A p, q \in Pages : \A i \in DOMAIN lists[p], j \in DOMAIN lists[q] :
    lists[p][i].gpu = lists[q][j].gpu /\ lists[p][i].blk = lists[q][j].blk
      => p = q /\ i = j
IssuedOnce(issues) ==
  \A p, q \in Pages :
    issues[p] # None /\ issues[p].gpu = issues[q].gpu /\ issues[p].blk = issues[q].blk
      => p = q
Apart(cache, lists, issues) ==
  /\ \A p \in Pages : \A i \in DOMAIN lists[p] : Uncached(cache, lists[p][i].gpu, lists[p][i].blk)
  /\ \A p \in Pages : issues[p] # None =>
       /\ Uncached(cache, issues[p].gpu, issues[p].blk)
       /\ Unlisted(lists, issues[p].gpu, issues[p].blk)

OneOwner(cache, lists, issues) ==
  /\ CachedOnce(cache)
  /\ ListedOnce(lists)
  /\ IssuedOnce(issues)
  /\ Apart(cache, lists, issues)

LEMMA SwapRemoveKeeps ==
  ASSUME NEW s \in Seq(Nat), NEW i \in DOMAIN s,
         \A j, k \in DOMAIN s : s[j] = s[k] => j = k
  PROVE  LET t == SwapRemove(s, i)
         IN  /\ \A j, k \in DOMAIN t : t[j] = t[k] => j = k
             /\ \A j \in DOMAIN t : t[j] # s[i] /\ \E k \in DOMAIN s : t[j] = s[k]
             /\ \A k \in DOMAIN s : k # i => \E j \in DOMAIN t : t[j] = s[k]
  <1> DEFINE t == SwapRemove(s, i)
             n == Len(s)
  <1>1. n \in Nat /\ DOMAIN s = 1 .. n /\ i \in 1 .. n
    OBVIOUS
  <1>2. /\ n \in Nat /\ DOMAIN s = 1 .. n /\ i \in 1 .. n
        /\ DOMAIN t = 1 .. n - 1
        /\ \A j \in 1 .. n - 1 : t[j] = IF j = i THEN s[n] ELSE s[j]
    BY <1>1, SwapRemoveIs
  <1> HIDE DEF t, n
  <1>3. \A j, k \in DOMAIN t : t[j] = t[k] => j = k
    BY <1>2
  <1>4. \A j \in DOMAIN t : t[j] # s[i] /\ \E k \in DOMAIN s : t[j] = s[k]
    BY <1>2
  <1>5. ASSUME NEW k \in DOMAIN s, k # i PROVE \E j \in DOMAIN t : t[j] = s[k]
    <2>1. CASE k = n
      BY <1>2, <1>5, <2>1
    <2>2. CASE k # n
      BY <1>2, <1>5, <2>2
    <2>3. QED
      BY <2>1, <2>2
  <1>6. QED
    BY <1>3, <1>4, <1>5 DEF t

(* A block in no place is put in the cache. *)
LEMMA Recycle ==
  ASSUME NEW cache \in Cache, NEW lists \in Lists, NEW issues \in Issues,
         NEW g \in GPUs, NEW b \in Nat,
         OneOwner(cache, lists, issues), Free(cache, lists, issues, g, b)
  PROVE  OneOwner(Recycled(cache, g, b), lists, issues)
  <1> DEFINE c == Recycled(cache, g, b)
  <1>1. /\ \A h \in GPUs : h # g => c[h] = cache[h]
        /\ Len(cache[g]) \in Nat /\ DOMAIN cache[g] = 1 .. Len(cache[g])
        /\ DOMAIN c[g] = 1 .. Len(cache[g]) + 1
        /\ \A i \in 1 .. Len(cache[g]) : c[g][i] = cache[g][i]
        /\ c[g][Len(cache[g]) + 1] = b
    BY RecycledIs
  <1> HIDE DEF c
  <1>2. \A i \in DOMAIN cache[g] : cache[g][i] # b
    BY DEF Free, Uncached
  <1>3. CachedOnce(c)
    BY <1>1, <1>2 DEF OneOwner, CachedOnce
  <1>4. \A h \in GPUs : \A d : Uncached(cache, h, d) /\ (h # g \/ d # b) => Uncached(c, h, d)
    BY SMTT(30), <1>1 DEF Uncached
  <1>5. \A p \in Pages : \A i \in DOMAIN lists[p] :
          /\ lists[p][i].gpu \in GPUs
          /\ lists[p][i].gpu # g \/ lists[p][i].blk # b
    BY ChunkOfList DEF Free, Unlisted
  <1>6. \A p \in Pages : issues[p] # None =>
          issues[p].gpu \in GPUs /\ (issues[p].gpu # g \/ issues[p].blk # b)
    BY ChunkOfIssue DEF Free, Unissued
  <1>7. Apart(c, lists, issues)
    BY <1>4, <1>5, <1>6 DEF OneOwner, Apart
  <1>8. QED
    BY <1>3, <1>7 DEF OneOwner, c

(* A prefetch is given up or claimed: its block is in no place.  *)
LEMMA GiveUp ==
  ASSUME NEW cache \in Cache, NEW lists \in Lists, NEW issues \in Issues,
         NEW p \in Pages, issues[p] # None,
         OneOwner(cache, lists, issues)
  PROVE  LET rest == [issues EXCEPT ![p] = None]
         IN  /\ rest \in Issues
             /\ OneOwner(cache, lists, rest)
             /\ Free(cache, lists, rest, issues[p].gpu, issues[p].blk)
  <1> DEFINE rest == [issues EXCEPT ![p] = None]
  <1>1. /\ rest \in Issues /\ rest[p] = None
        /\ \A q \in Pages : q # p => rest[q] = issues[q]
    BY DEF Issues
  <1> HIDE DEF rest
  <1>2. \A q \in Pages : issues[q] # None => issues[q].gpu # None.gpu
    BY ChunkOfIssue, NoneIsNoChunk
  <1>3. IssuedOnce(rest)
    BY <1>1, <1>2 DEF OneOwner, IssuedOnce
  <1>4. Apart(cache, lists, rest)
    BY <1>1 DEF OneOwner, Apart
  <1>5. Unissued(rest, issues[p].gpu, issues[p].blk)
    BY <1>1, <1>2 DEF OneOwner, IssuedOnce, Unissued
  <1>6. QED
    BY <1>1, <1>3, <1>4, <1>5 DEF OneOwner, Apart, Free, rest

(* A block in no place is listed on a page. *)
LEMMA List ==
  ASSUME NEW cache \in Cache, NEW lists \in Lists, NEW issues \in Issues,
         NEW p \in Pages, NEW c \in Chunk,
         OneOwner(cache, lists, issues), Free(cache, lists, issues, c.gpu, c.blk)
  PROVE  /\ ListedWith(lists, p, c) \in Lists
         /\ OneOwner(cache, ListedWith(lists, p, c), issues)
  <1> DEFINE more == ListedWith(lists, p, c)
             n == Len(lists[p])
  <1>1. /\ more \in Lists
        /\ \A q \in Pages : q # p => more[q] = lists[q]
        /\ n \in Nat /\ DOMAIN lists[p] = 1 .. n /\ DOMAIN more[p] = 1 .. n + 1
        /\ \A i \in 1 .. n : more[p][i] = lists[p][i]
        /\ more[p][n + 1] = c
    BY DEF Lists, ListedWith
  <1> HIDE DEF more, n
  <1>2. \A q \in Pages : \A i \in DOMAIN more[q] :
          \/ i \in DOMAIN lists[q] /\ more[q][i] = lists[q][i]
          \/ q = p /\ i = n + 1 /\ more[q][i] = c
    BY <1>1
  <1>3. ListedOnce(more)
    BY <1>2 DEF OneOwner, ListedOnce, Free, Unlisted
  <1>4. \A h, d : Unlisted(lists, h, d) /\ (h # c.gpu \/ d # c.blk) => Unlisted(more, h, d)
    BY <1>2 DEF Unlisted
  <1>5. Apart(cache, more, issues)
    BY <1>2, <1>4 DEF OneOwner, Apart, Free, Unissued
  <1>6. QED
    BY <1>1, <1>3, <1>5 DEF OneOwner, more

(* A block in no place is the target of a prefetch. *)
LEMMA Issue ==
  ASSUME NEW cache \in Cache, NEW lists \in Lists, NEW issues \in Issues,
         NEW p \in Pages, NEW c \in Chunk, issues[p] = None,
         OneOwner(cache, lists, issues), Free(cache, lists, issues, c.gpu, c.blk)
  PROVE  LET more == [issues EXCEPT ![p] = c]
         IN  more \in Issues /\ OneOwner(cache, lists, more)
  <1> DEFINE more == [issues EXCEPT ![p] = c]
  <1>1. /\ more \in Issues /\ more[p] = c
        /\ \A q \in Pages : q # p => more[q] = issues[q]
    BY DEF Issues
  <1> HIDE DEF more
  <1>2. IssuedOnce(more)
    BY <1>1 DEF OneOwner, IssuedOnce, Free, Unissued
  <1>3. Apart(cache, lists, more)
    BY <1>1 DEF OneOwner, Apart, Free
  <1>4. QED
    BY <1>1, <1>2, <1>3 DEF OneOwner, more

LEMMA BlockTaken ==
  ASSUME NEW cache \in Cache, NEW lists \in Lists, NEW issues \in Issues,
         NEW g \in GPUs, NEW n \in Nat, NEW a \in VramBlocks(cache, g, n),
         dev \in Devs, OneOwner(cache, lists, issues), Made(cache, lists, issues, dev)
  PROVE  /\ OneOwner(a.cache, lists, issues)
         /\ Free(a.cache, lists, issues, g, a.blk)
  <1>1. CASE a.new = TRUE /\ a.blk = Len(dev[g]) + 1 /\ a.cache = cache
    <2>1. Len(dev[g]) \in Nat /\ DOMAIN dev[g] = 1 .. Len(dev[g])
      BY DEF Devs
    <2>2. a.blk \in Nat /\ a.blk \notin DOMAIN dev[g]
      BY <1>1, <2>1
    <2>3. Free(cache, lists, issues, g, a.blk)
      BY <2>2, ChunkOfIssue DEF Made, Free, Uncached, Unlisted, Unissued
    <2>4. QED
      BY <1>1, <2>3
  <1>2. ASSUME NEW i \in DOMAIN cache[g], a.blk = cache[g][i],
               a.cache = Without(cache, g, i)
        PROVE  OneOwner(a.cache, lists, issues) /\ Free(a.cache, lists, issues, g, a.blk)
    <2> DEFINE c == a.cache
               s == cache[g]
               t == SwapRemove(s, i)
    <2>1. s \in Seq(Nat) /\ i \in DOMAIN s /\ s[i] \in Nat
      BY DEF Cache
    <2>2. \A j, k \in DOMAIN s : s[j] = s[k] => j = k
      BY DEF OneOwner, CachedOnce
    <2>3. /\ \A j, k \in DOMAIN t : t[j] = t[k] => j = k
          /\ \A j \in DOMAIN t : t[j] # s[i] /\ \E k \in DOMAIN s : t[j] = s[k]
      BY <2>1, <2>2, SwapRemoveKeeps
    <2>4. c[g] = t /\ \A h \in GPUs : h # g => c[h] = cache[h]
      BY <1>2 DEF Cache, Without
    <2> HIDE DEF c, t
    <2>5. a.blk = s[i]
      BY <1>2
    <2>6. \A h \in GPUs : \A d : Uncached(cache, h, d) => Uncached(c, h, d)
      BY <2>3, <2>4 DEF Uncached
    <2>7. Uncached(c, g, s[i])
      BY <2>3, <2>4 DEF Uncached
    <2>8. Unlisted(lists, g, s[i]) /\ Unissued(issues, g, s[i])
      BY <2>1, ChunkOfIssue DEF OneOwner, Apart, Unlisted, Unissued, Uncached
    <2>9. CachedOnce(c)
      BY <2>3, <2>4 DEF OneOwner, CachedOnce
    <2>10. Apart(c, lists, issues)
      BY <2>6, ChunkOfList, ChunkOfIssue DEF OneOwner, Apart
    <2>11. QED
      BY <2>5, <2>7, <2>8, <2>9, <2>10 DEF OneOwner, Free, c
  <1>3. \/ \E i \in DOMAIN cache[g] :
              /\ a.blk = cache[g][i] /\ dev[g][a.blk].size = n
              /\ a.cache = Without(cache, g, i)
        \/ a.new = TRUE /\ a.blk = Len(dev[g]) + 1 /\ a.cache = cache
    BY BlockChosen
  <1>4. QED
    BY <1>1, <1>2, <1>3

(* A demoted or deallocated page gives all its blocks to the caches. *)
LEMMA Release ==
  ASSUME vram_free \in Cache, PageLists \in Lists, inflight \in Issues,
         NEW p \in Pages, OneOwner(vram_free, PageLists, inflight)
  PROVE  OneOwner(Released(p, Len(pages[p].vram)),
                  [PageLists EXCEPT ![p] = << >>], inflight)
  <1> DEFINE m == Len(pages[p].vram)
             cache == Released(p, m)
             lists == [PageLists EXCEPT ![p] = << >>]
             l == PageLists[p]
  <1>1. l = pages[p].vram /\ l \in Seq(Chunk) /\ m \in 0 .. m
    BY DEF PageLists, Lists
  <1>2. /\ lists \in Lists /\ DOMAIN lists[p] = {}
        /\ \A q \in Pages : q # p => lists[q] = PageLists[q]
    BY DEF Lists
  <1>3. \A g \in GPUs :
           \/ cache[g] = vram_free[g]
           \/ \E i \in 1 .. m :
                /\ i \in DOMAIN l /\ l[i].gpu = g
                /\ cache[g] = Append(vram_free[g], l[i].blk)
    BY <1>1, ReleasedIs
  <1>4. /\ \A g \in GPUs :
             \/ cache[g] = vram_free[g]
             \/ \E i \in DOMAIN l :
                  l[i].gpu = g /\ cache[g] = Append(vram_free[g], l[i].blk)
        /\ \A g \in GPUs : \A k \in DOMAIN cache[g] :
             \/ k \in DOMAIN vram_free[g] /\ cache[g][k] = vram_free[g][k]
             \/ \E i \in DOMAIN l : l[i].gpu = g /\ cache[g][k] = l[i].blk
    BY <1>1, <1>3, ReleasedIs
  <1> HIDE DEF cache, lists, m
  <1>5. \A i \in DOMAIN l : l[i].blk \in Nat /\ Uncached(vram_free, l[i].gpu, l[i].blk)
    BY ChunkOfList DEF OneOwner, Apart
  <1>6. CachedOnce(cache)
    <2>1. ASSUME NEW g \in GPUs
          PROVE  \A i, j \in DOMAIN cache[g] : cache[g][i] = cache[g][j] => i = j
      <3>1. CASE cache[g] = vram_free[g]
        BY <3>1 DEF OneOwner, CachedOnce
      <3>2. ASSUME NEW i \in DOMAIN l, l[i].gpu = g,
                   cache[g] = Append(vram_free[g], l[i].blk)
            PROVE  \A j, k \in DOMAIN cache[g] : cache[g][j] = cache[g][k] => j = k
        <4> DEFINE s == vram_free[g]
                   t == cache[g]
                   b == l[i].blk
        <4>1. /\ Len(s) \in Nat /\ DOMAIN s = 1 .. Len(s)
              /\ DOMAIN t = 1 .. Len(s) + 1
              /\ \A k \in 1 .. Len(s) : t[k] = s[k]
              /\ t[Len(s) + 1] = b
          BY <1>5, <3>2 DEF Cache
        <4>2. \A k \in DOMAIN s : s[k] # b
          BY <1>5, <3>2 DEF Uncached
        <4>3. \A j, k \in DOMAIN s : s[j] = s[k] => j = k
          BY DEF OneOwner, CachedOnce
        <4> HIDE DEF s, t, b
        <4>4. QED
          BY <4>1, <4>2, <4>3 DEF t
      <3>3. QED
        BY <1>4, <3>1, <3>2
    <2>2. QED
      BY <2>1 DEF CachedOnce
  <1>7. \A g \in GPUs : \A b :
          Uncached(vram_free, g, b) /\ (\A i \in DOMAIN l : ~(l[i].gpu = g /\ l[i].blk = b))
            => Uncached(cache, g, b)
    BY <1>4 DEF Uncached
  <1>8. ListedOnce(lists)
    BY <1>2 DEF OneOwner, ListedOnce
  <1>9. \A g, b : Unlisted(PageLists, g, b) => Unlisted(lists, g, b)
    BY <1>2 DEF Unlisted
  <1>10. Apart(cache, lists, inflight)
    <2>1. ASSUME NEW q \in Pages, NEW i \in DOMAIN lists[q]
          PROVE  Uncached(cache, lists[q][i].gpu, lists[q][i].blk)
      <3>1. q # p /\ lists[q] = PageLists[q] /\ i \in DOMAIN PageLists[q]
        BY <1>2, <2>1
      <3>2. Uncached(vram_free, PageLists[q][i].gpu, PageLists[q][i].blk)
        BY <3>1 DEF OneOwner, Apart
      <3>3. \A j \in DOMAIN l : ~(/\ l[j].gpu = PageLists[q][i].gpu
                                  /\ l[j].blk = PageLists[q][i].blk)
        BY <3>1 DEF OneOwner, ListedOnce
      <3>4. QED
        BY <1>7, <3>1, <3>2, <3>3, ChunkOfList
    <2>2. ASSUME NEW q \in Pages, inflight[q] # None
          PROVE  /\ Uncached(cache, inflight[q].gpu, inflight[q].blk)
                 /\ Unlisted(lists, inflight[q].gpu, inflight[q].blk)
      <3>1. /\ Uncached(vram_free, inflight[q].gpu, inflight[q].blk)
            /\ Unlisted(PageLists, inflight[q].gpu, inflight[q].blk)
        BY <2>2 DEF OneOwner, Apart
      <3>2. QED
        BY <1>7, <1>9, <2>2, <3>1, ChunkOfIssue DEF Unlisted
    <2>3. QED
      BY <2>1, <2>2 DEF Apart
  <1>11. QED
    BY <1>6, <1>8, <1>10 DEF OneOwner, cache, lists, m

-----------------------------------------------------------------------------
(* What the calls do to the table.  A sweep only promotes pages in DRAM,   *)
(* and a page that is not in the table has nothing.                        *)
SweepOfWarm == \A p \in sweep.promote : pages[p].tier = "Dram"
DeadEmpty == \A p \in Pages : ~pages[p].live => PageLists[p] = << >> /\ pages[p].dram = << >>

Table == Base /\ SweepOfWarm /\ DeadEmpty

LEMMA PromotedPage ==
  ASSUME PageTypes, NEW p \in Pages, NEW g \in GPUs, NEW b \in Nat, NEW n \in Nat,
         pages' = Promoted(p, g, b, n)
  PROVE  /\ \A q \in Pages : q # p => pages'[q] = pages[q]
         /\ \A q \in Pages : pages'[q].dram = pages[q].dram /\ pages'[q].live = pages[q].live
         /\ pages'[p].tier = "Vram"
  <1>1. /\ \A q \in Pages : q # p => pages'[q] = pages[q]
        /\ pages'[p].dram = pages[p].dram /\ pages'[p].live = pages[p].live
        /\ pages'[p].tier = "Vram"
    BY PromotedIs
  <1>2. QED
    BY <1>1

LEMMA AccessPages ==
  ASSUME Base, NEW p \in Pages, NEW g \in GPUs, AccessPage(p, g)
  PROVE  /\ \A q \in Pages : q # p => pages'[q] = pages[q]
         /\ \A q \in Pages : pages'[q].dram = pages[q].dram /\ pages'[q].live = pages[q].live
         /\ Alike \/ (pages[p].live /\ pages'[p].tier = "Vram")
  <1> DEFINE Goal == /\ \A q \in Pages : q # p => pages'[q] = pages[q]
                     /\ \A q \in Pages : /\ pages'[q].dram = pages[q].dram
                                         /\ pages'[q].live = pages[q].live
                     /\ Alike \/ (pages[p].live /\ pages'[p].tier = "Vram")
  <1>1. ASSUME NEW b \in Nat, NEW n \in Nat, pages' = Promoted(p, g, b, n), pages[p].live
        PROVE  Goal
    BY <1>1, BaseTypes, PromotedPage
  <1>2. ASSUME pages' \in {pages, Touched(p)} PROVE Goal
    BY <1>2, BaseTypes, TouchedKeeps
  <1>3. ClaimEnds(p, g) \/ PromoteEnds(p, g)
    BY AccessCases
  <1>4. CASE ClaimEnds(p, g)
    <2>1. inflight[p].blk \in Nat /\ inflight[p].size \in Nat
      BY <1>4, BaseTypes, ChunkOfIssue DEF ClaimEnds
    <2>2. QED
      BY <1>1, <1>2, <1>4, <2>1 DEF ClaimEnds
  <1>5. CASE PromoteEnds(p, g)
    <2> DEFINE cache == CacheAfterDiscard(p, g)
    <2>1. \/ Stayed(p, cache)
          \/ \E n \in Nat, data \in Data :
               \E a \in VramBlocks(cache, g, n) : Moved(p, g, n, data, a)
      BY <1>5 DEF PromoteEnds
    <2>2. /\ cache \in Cache
          /\ Made(cache, PageLists, [inflight EXCEPT ![p] = None], dev)
          /\ [inflight EXCEPT ![p] = None] \in Issues
      BY AfterDiscard
    <2> HIDE DEF cache
    <2>3. ASSUME NEW n \in Nat, NEW data \in Data, NEW a \in VramBlocks(cache, g, n),
                 Moved(p, g, n, data, a)
          PROVE  Goal
      <3>1. a.blk \in Nat
        BY <2>2, BaseTypes, BlockTyped
      <3>2. CASE Gained(p, g, n, a) /\ pages[p].live
        BY <1>1, <3>1, <3>2 DEF Gained
      <3>3. CASE pages' = pages
        BY <1>2, <3>3
      <3>4. QED
        BY <2>3, <3>2, <3>3 DEF Moved, Lost, Returned
    <2>4. QED
      BY <1>2, <2>1, <2>3 DEF Stayed
  <1>6. QED
    BY <1>3, <1>4, <1>5

LEMMA DemotePages ==
  ASSUME Base, NEW p \in Pages, DemotePage(p)
  PROVE  /\ \A q \in Pages : q # p => pages'[q] = pages[q]
         /\ \A q \in Pages : pages'[q].dram = pages[q].dram /\ pages'[q].live = pages[q].live
         /\ \/ pages' = pages
            \/ Demoted(p) /\ pages'[p].tier = "Dram" /\ pages'[p].vram = << >>
  <1>1. NotDemoted \/ Demoted(p) \/ \E m \in 0 .. N : HalfDemoted(p, m)
    BY BaseTypes, DemoteCases
  <1>2. CASE pages' = pages
    BY <1>2
  <1>3. CASE Demoted(p)
    <2> DEFINE P == DemotedPage(p)
    <2>1. pages[p] \in Page /\ pages' = [pages EXCEPT ![p] = P] /\ pages \in [Pages -> Page]
      BY <1>3, BaseTypes DEF PageTypes, Demoted
    <2>2. P.vram = << >> /\ P.tier = "Dram" /\ P.dram = pages[p].dram /\ P.live = pages[p].live
      BY <2>1 DEF DemotedPage, Page
    <2> HIDE DEF P
    <2>3. pages'[p] = P /\ \A q \in Pages : q # p => pages'[q] = pages[q]
      BY <2>1
    <2>4. QED
      BY <1>3, <2>2, <2>3
  <1>4. QED
    BY <1>1, <1>2, <1>3 DEF NotDemoted, HalfDemoted

LEMMA GoesOnIs ==
  ASSUME Base
  PROVE  /\ NoSweep.promote = {}
         /\ \A p \in Pages :
              /\ [sweep EXCEPT !.demote = @ \ {p}].promote = sweep.promote
              /\ [sweep EXCEPT !.promote = @ \ {p}].promote = sweep.promote \ {p}
  BY DEF Base, RunTypes, NoSweep

LEMMA AllocatePages ==
  ASSUME Base, NEW p \in Pages, Allocate(p)
  PROVE  /\ \A q \in Pages : q # p => pages'[q] = pages[q]
         /\ pages'[p].live = TRUE /\ pages'[p].vram = << >>
         /\ Given(pages'[p])
         /\ PageLists' = Emptied(PageLists, p)
  <1>1. PICK P \in Page : /\ pages' = [pages EXCEPT ![p] = P] /\ P.vram = << >>
                          /\ P.live = TRUE /\ Given(P)
    BY AllocateCases DEF Allocate
  <1>2. pages'[p] = P /\ \A q \in Pages : q # p => pages'[q] = pages[q]
    BY <1>1, BaseTypes DEF PageTypes
  <1>3. PageLists' = Emptied(PageLists, p)
    <2>1. pages'[p].vram = << >> /\ \A q \in Pages : q # p => pages'[q].vram = pages[q].vram
      BY <1>1, <1>2
    <2>2. QED
      BY <2>1 DEF PageLists, Emptied
  <1>4. QED
    BY <1>1, <1>2, <1>3

LEMMA DropPages ==
  ASSUME Base, NEW p \in Pages, Dropped(p)
  PROVE  /\ \A q \in Pages : q # p => pages'[q] = pages[q]
         /\ pages'[p] = Absent
         /\ PageLists' = Emptied(PageLists, p)
  <1>1. pages' = [pages EXCEPT ![p] = Absent]
    BY DEF Dropped
  <1>2. pages'[p] = Absent /\ \A q \in Pages : q # p => pages'[q] = pages[q]
    BY <1>1, BaseTypes DEF PageTypes
  <1>3. PageLists' = Emptied(PageLists, p)
    <2>1. pages'[p].vram = << >> /\ \A q \in Pages : q # p => pages'[q].vram = pages[q].vram
      BY <1>2, AbsentIsAPage
    <2>2. QED
      BY <2>1 DEF PageLists, Emptied
  <1>4. QED
    BY <1>2, <1>3

(* The steps that are none of the calls above leave every owner alone. *)
Quiet ==
  /\ UNCHANGED <<vram_free, inflight>>
  /\ PageLists' = PageLists
  /\ \A p \in Pages : /\ pages'[p].live = pages[p].live /\ pages'[p].tier = pages[p].tier
                      /\ pages'[p].dram = pages[p].dram /\ pages'[p].vram = pages[p].vram
  /\ \A g \in GPUs : DOMAIN dev'[g] = DOMAIN dev[g]
  /\ \A g \in GPUs, f \in Frames : host'[g][f].used = host[g][f].used

QuietSteps ==
  \/ \E p \in Pages : (WritePage(p) \/ KernelWrite(p) \/ Pin(p)) /\ Ready
  \/ \E g \in GPUs : StreamCopy(g) \/ Drain(g)
  \/ SweepStart
  \/ UNCHANGED vars

(* The calls that are not: access of a page that "shards" lets it ask for, *)
(* or that a sweep promotes.                                               *)
Asked(p, g) ==
  \/ "shards" \in Careful /\ pages[p].dram # << >> => ChunksOff(p, g) = {}
  \/ p \in sweep.promote

Step ==
  \/ \E p \in Pages : Allocate(p)
  \/ \E p \in Pages : Deallocate(p)
  \/ \E p \in Pages : DemotePage(p) /\ stream' = stream
  \/ \E p \in Pages, g \in GPUs : AccessPage(p, g) /\ Asked(p, g) /\ stream' = stream
  \/ \E p \in Pages, g \in GPUs : Prefetch(p, g)
  \/ Quiet /\ (stream' = stream \/ \E g \in GPUs : StreamCopy(g))

Refilled(h, x, d) == [h EXCEPT ![x].data = d]

LEMMA UsedKept ==
  ASSUME NEW h \in [Frames -> Frame], NEW x, NEW d
  PROVE  \A f \in Frames : Refilled(h, x, d)[f].used = h[f].used
  <1> DEFINE F == [h[x] EXCEPT !.data = d]
  <1>1. Refilled(h, x, d) = [h EXCEPT ![x] = F]
    BY DEF Refilled
  <1>2. x \in Frames => F.used = h[x].used
    BY DEF Frame
  <1> HIDE DEF F
  <1>3. QED
    BY <1>1, <1>2

LEMMA QuietIs == ASSUME Base, QuietSteps PROVE Quiet
  <1> DEFINE SameTable == /\ UNCHANGED <<vram_free, inflight>>
                          /\ PageLists' = PageLists
                          /\ \A p \in Pages : /\ pages'[p].live = pages[p].live
                                              /\ pages'[p].tier = pages[p].tier
                                              /\ pages'[p].dram = pages[p].dram
                                              /\ pages'[p].vram = pages[p].vram
             SameBlocks == \A g \in GPUs : DOMAIN dev'[g] = DOMAIN dev[g]
             SameFrames == \A g \in GPUs, f \in Frames : host'[g][f].used = host[g][f].used
  <1>1. pages' = pages /\ UNCHANGED <<vram_free, inflight>> => SameTable
    BY DEF PageLists
  <1>2. dev' = dev => SameBlocks
    OBVIOUS
  <1>3. host' = host => SameFrames
    OBVIOUS
  <1>4. ASSUME NEW g \in GPUs, NEW b \in DOMAIN dev[g], NEW data \in Data,
               dev' = BlockWith(g, b, data)
        PROVE  SameBlocks
    <2>1. dev \in Devs
      BY BaseTypes
    <2>2. /\ \A h \in GPUs : h # g => dev'[h] = dev[h]
          /\ DOMAIN dev'[g] = DOMAIN dev[g]
      BY <1>4, <2>1, BlockWritten
    <2>3. QED
      BY <2>2
  <1>5. ASSUME NEW p \in Pages, WritePage(p) PROVE SameTable /\ SameBlocks /\ SameFrames
    <2>1. pages' = pages /\ UNCHANGED <<vram_free, inflight, dev>>
      BY <1>5 DEF WritePage
    <2>2. host' = host \/ WriteBacking(p, writes + 1)
      BY <1>5 DEF WritePage, WriteCold
    <2>3. CASE WriteBacking(p, writes + 1)
      <3>1. ASSUME NEW g \in GPUs, NEW f \in Frames PROVE host'[g][f].used = host[g][f].used
        <4>1. host[g] \in [Frames -> Frame]
          BY BaseTypes DEF HostTypes
        <4>2. \/ host'[g] = host[g]
              \/ host'[g] = Refilled(host[g], pages[p].dram[g + 1].frame, Shard(p, g, writes + 1))
          BY <2>3 DEF WriteBacking, Refilled
        <4>3. QED
          BY <4>1, <4>2, UsedKept
      <3>2. QED
        BY <1>1, <1>2, <2>1, <3>1
    <2>4. QED
      BY <1>1, <1>2, <1>3, <2>1, <2>2, <2>3
  <1>6. ASSUME NEW p \in Pages, KernelWrite(p) PROVE SameTable /\ SameBlocks /\ SameFrames
    <2> DEFINE c == pages[p].vram[1]
    <2>1. /\ pages[p].vram \in Seq(Chunk) /\ 1 \in DOMAIN pages[p].vram
          /\ pages[p].vram = PageLists[p]
      BY <1>6, BaseTypes DEF KernelWrite, PageTypes, Page
    <2>2. c.gpu \in GPUs /\ c.blk \in DOMAIN dev[c.gpu]
      BY <2>1, BaseTypes, ChunkOfList DEF Made
    <2>3. Whole(p, writes + 1) \in Data
      BY Contents DEF Base, RunTypes
    <2>4. /\ dev' = BlockWith(c.gpu, c.blk, Whole(p, writes + 1))
          /\ UNCHANGED <<pages, host, inflight, vram_free>>
      BY <1>6 DEF KernelWrite, BlockWith
    <2> HIDE DEF c
    <2>5. SameBlocks
      BY <1>4, <2>2, <2>3, <2>4
    <2>6. QED
      BY <1>1, <1>3, <2>4, <2>5
  <1>7. ASSUME NEW p \in Pages, Pin(p) PROVE SameTable /\ SameBlocks /\ SameFrames
    <2> DEFINE P == [pages[p] EXCEPT !.pinned = ~pages[p].pinned]
    <2>1. pages' = [pages EXCEPT ![p] = P] /\ UNCHANGED <<dev, host, inflight, vram_free>>
      BY <1>7 DEF Pin, memory
    <2>2. pages[p] \in Page /\ pages \in [Pages -> Page]
      BY BaseTypes DEF PageTypes
    <2>3. /\ P.vram = pages[p].vram /\ P.tier = pages[p].tier
          /\ P.live = pages[p].live /\ P.dram = pages[p].dram
      BY <2>2 DEF Page
    <2> HIDE DEF P
    <2>4. \A q \in Pages : pages'[q] = IF q = p THEN P ELSE pages[q]
      BY <2>1, <2>2
    <2>5. \A q \in Pages : /\ pages'[q].live = pages[q].live /\ pages'[q].tier = pages[q].tier
                           /\ pages'[q].dram = pages[q].dram /\ pages'[q].vram = pages[q].vram
      BY <2>3, <2>4
    <2>6. PageLists' = PageLists
      BY <2>5 DEF PageLists
    <2>7. QED
      BY <1>2, <1>3, <2>1, <2>5, <2>6
  <1>8. ASSUME NEW g \in GPUs, StreamCopy(g) PROVE SameTable /\ SameBlocks /\ SameFrames
    <2> DEFINE c == Head(stream[g])
               data == Prefix(host[0][c.frame].data, c.size)
    <2>1. /\ stream[g] # << >> /\ stream' = [stream EXCEPT ![g] = Tail(stream[g])]
          /\ dev' = BlockWith(g, c.blk, data)
          /\ UNCHANGED <<pages, host, inflight, vram_free>>
      BY <1>8 DEF StreamCopy, BlockWith
    <2>2. c = stream[g][1] /\ 1 \in DOMAIN stream[g] /\ c \in Copy
      BY <2>1, HeadOfStream
    <2>3. host[0][c.frame].data \in Data /\ c.size \in Nat
      BY <2>2, BaseTypes, Zero DEF HostTypes, Frame, Copy
    <2>4. data \in Data
      BY <2>3, Contents
    <2>5. c.blk \in DOMAIN dev[g]
      BY <2>2 DEF Base, AllMade
    <2> HIDE DEF c, data
    <2>6. SameBlocks
      BY <1>4, <2>1, <2>4, <2>5
    <2>7. QED
      BY <1>1, <1>3, <2>1, <2>6
  <1>9. ASSUME UNCHANGED <<pages, vram_free, inflight, dev, host>>
         PROVE  SameTable /\ SameBlocks /\ SameFrames
    BY <1>1, <1>2, <1>3, <1>9
  <1>10. ASSUME (\E g \in GPUs : Drain(g)) \/ SweepStart \/ UNCHANGED vars
         PROVE  SameTable /\ SameBlocks /\ SameFrames
    <2>1. UNCHANGED <<pages, vram_free, inflight, dev, host>>
      BY <1>10 DEF Drain, SweepStart, memory, vars
    <2>2. QED
      BY <1>9, <2>1
  <1> HIDE DEF SameTable, SameBlocks, SameFrames
  <1>11. SameTable /\ SameBlocks /\ SameFrames
    BY <1>5, <1>6, <1>7, <1>8, <1>10 DEF QuietSteps
  <1>12. QED
    BY <1>11 DEF Quiet, SameTable, SameBlocks, SameFrames

LEMMA StepCases == ASSUME Base, [Next]_vars PROVE Step
  <1>1. CASE QuietSteps
    <2>1. stream' = stream \/ \E g \in GPUs : StreamCopy(g)
      BY <1>1 DEF QuietSteps, WritePage, KernelWrite, Pin, Drain, SweepStart, vars
    <2>2. QED
      BY <1>1, <2>1, QuietIs DEF Step
  <1>2. ASSUME NEW p \in Pages, SweepDemote(p) PROVE Step
    BY <1>2 DEF SweepDemote, Step
  <1>3. ASSUME NEW p \in Pages, SweepPromote(p) PROVE Step
    BY <1>3, Zero DEF SweepPromote, Step, Asked
  <1>4. ASSUME NEW p \in Pages, Demote(p) PROVE Step
    BY <1>4 DEF Demote, Step
  <1>5. ASSUME NEW p \in Pages, NEW g \in GPUs, Access(p, g) PROVE Step
    BY <1>5 DEF Access, Step, Asked
  <1>6. ASSUME NEW p \in Pages, WritePage(p) \/ KernelWrite(p) \/ Pin(p) PROVE Step
    BY <1>1, <1>6 DEF QuietSteps, WritePage, KernelWrite, Pin
  <1>7. ASSUME (\E g \in GPUs : StreamCopy(g) \/ Drain(g)) \/ SweepStart \/ UNCHANGED vars
        PROVE  Step
    BY <1>1, <1>7 DEF QuietSteps
  <1>8. ASSUME NEW p \in Pages, Allocate(p) \/ Deallocate(p) PROVE Step
    BY <1>8 DEF Step
  <1>9. ASSUME NEW p \in Pages, NEW g \in GPUs, Prefetch(p, g) PROVE Step
    BY <1>9 DEF Step
  <1>10. QED
    BY <1>2, <1>3, <1>4, <1>5, <1>6, <1>7, <1>8, <1>9 DEF Next

LEMMA DeadStays == ASSUME Base, DeadEmpty, Step PROVE DeadEmpty'
  <1>1. \A q \in Pages : PageLists'[q] = pages'[q].vram /\ PageLists[q] = pages[q].vram
    BY DEF PageLists
  <1>2. ASSUME NEW p \in Pages, Allocate(p) PROVE DeadEmpty'
    BY <1>1, <1>2, AllocatePages DEF DeadEmpty
  <1>3. ASSUME NEW p \in Pages, Deallocate(p) PROVE DeadEmpty'
    <2>1. CASE Dropped(p)
      BY <1>1, <2>1, DropPages, AbsentIsAPage DEF DeadEmpty
    <2>2. CASE pages' = pages
      BY <1>1, <2>2 DEF DeadEmpty
    <2>3. QED
      BY <1>3, <2>1, <2>2, DeallocateCases
  <1>4. ASSUME NEW p \in Pages, DemotePage(p) PROVE DeadEmpty'
    <2>1. /\ \A q \in Pages : q # p => pages'[q] = pages[q]
          /\ \A q \in Pages : pages'[q].dram = pages[q].dram /\ pages'[q].live = pages[q].live
          /\ pages' = pages \/ pages'[p].vram = << >>
      BY <1>4, DemotePages
    <2>2. QED
      BY <1>1, <2>1 DEF DeadEmpty
  <1>5. ASSUME NEW p \in Pages, NEW g \in GPUs, AccessPage(p, g) PROVE DeadEmpty'
    <2>1. /\ \A q \in Pages : q # p => pages'[q] = pages[q]
          /\ \A q \in Pages : pages'[q].dram = pages[q].dram /\ pages'[q].live = pages[q].live
          /\ Alike \/ pages[p].live
      BY <1>5, AccessPages
    <2>2. CASE Alike
      BY <1>1, <2>1, <2>2 DEF DeadEmpty, Alike
    <2>3. CASE pages[p].live
      BY <1>1, <2>1, <2>3 DEF DeadEmpty
    <2>4. QED
      BY <2>1, <2>2, <2>3
  <1>6. ASSUME NEW p \in Pages, NEW g \in GPUs, Prefetch(p, g) PROVE DeadEmpty'
    BY <1>1, <1>6, PrefetchCases DEF DeadEmpty
  <1>7. ASSUME Quiet PROVE DeadEmpty'
    BY <1>1, <1>7 DEF DeadEmpty, Quiet
  <1>8. QED
    BY <1>2, <1>3, <1>4, <1>5, <1>6, <1>7 DEF Step

LEMMA WarmStays == ASSUME Base, SweepOfWarm, [Next]_vars PROVE SweepOfWarm'
  <1>1. CASE Ready /\ sweep' = sweep
    BY <1>1, GoesOnIs DEF SweepOfWarm, Ready
  <1>2. ASSUME NEW p \in Pages, SweepDemote(p) PROVE SweepOfWarm'
    <2>1. /\ \A q \in Pages : q # p => pages'[q] = pages[q]
          /\ pages' = pages \/ pages'[p].tier = "Dram"
      BY <1>2, DemotePages DEF SweepDemote
    <2>2. sweep'.promote \subseteq sweep.promote /\ sweep.promote \subseteq Pages
      BY <1>2, GoesOnIs DEF SweepDemote, GoesOn, Base, RunTypes
    <2>3. QED
      BY <2>1, <2>2 DEF SweepOfWarm
  <1>3. ASSUME NEW p \in Pages, SweepPromote(p) PROVE SweepOfWarm'
    <2>1. \A q \in Pages : q # p => pages'[q] = pages[q]
      BY <1>3, Zero, AccessPages DEF SweepPromote
    <2>2. sweep'.promote \subseteq sweep.promote \ {p} /\ sweep.promote \subseteq Pages
      BY <1>3, GoesOnIs DEF SweepPromote, GoesOn, Base, RunTypes
    <2>3. QED
      BY <2>1, <2>2 DEF SweepOfWarm
  <1>4. CASE SweepStart
    BY <1>4 DEF SweepStart, SweepOfWarm, Hot
  <1>5. CASE UNCHANGED <<pages, sweep>>
    BY <1>5 DEF SweepOfWarm
  <1>6. QED
    BY <1>1, <1>2, <1>3, <1>4, <1>5 DEF Next, vars, Allocate, Demote, WritePage, KernelWrite,
       Deallocate, Pin, Access, Prefetch, StreamCopy, Drain

(* What the table says of a page is what the page has. *)
THEOREM TableInductive == Spec => []Table
  <1>1. Init => Table
    <2> SUFFICES ASSUME Init PROVE Table
      OBVIOUS
    <2>1. Base
      BY InitBase
    <2>2. SweepOfWarm
      BY DEF Init, NoSweep, SweepOfWarm
    <2>3. DeadEmpty
      BY AbsentIsAPage DEF Init, DeadEmpty, PageLists
    <2>4. QED
      BY <2>1, <2>2, <2>3 DEF Table
  <1>2. Table /\ [Next]_vars => Table'
    BY BaseStep, WarmStays, StepCases, DeadStays DEF Table
  <1>3. QED
    BY <1>1, <1>2, PTL DEF Spec

-----------------------------------------------------------------------------
(* Nobody shares a block, as long as no demotion stops after a chunk of a  *)
(* page with several.                                                      *)
OneOwnerNow == OneOwner(vram_free, PageLists, inflight)

(* With one GPU no page has several, and careful callers ("shards") never  *)
(* make a sharded page resident twice.                                     *)
OneChunkEach == N = 1 \/ "shards" \in Careful

Single == \A p \in Pages : pages[p].dram # << >> => Len(PageLists[p]) <= 1

Owned == OneOwnerNow /\ Single

LEMMA OwnerEmptied ==
  ASSUME NEW cache, NEW lists \in Lists, NEW issues, NEW p \in Pages,
         OneOwner(cache, lists, issues)
  PROVE  OneOwner(cache, Emptied(lists, p), issues)
  <1>1. /\ DOMAIN Emptied(lists, p)[p] = {}
        /\ \A q \in Pages : q # p => Emptied(lists, p)[q] = lists[q]
    BY DEF Emptied, Lists
  <1>2. ListedOnce(Emptied(lists, p))
    BY <1>1 DEF OneOwner, ListedOnce
  <1>3. Apart(cache, Emptied(lists, p), issues)
    <2>1. \A g, b : Unlisted(lists, g, b) => Unlisted(Emptied(lists, p), g, b)
      BY <1>1 DEF Unlisted
    <2>2. QED
      BY <1>1, <2>1 DEF OneOwner, Apart
  <1>4. QED
    BY <1>2, <1>3 DEF OneOwner

LEMMA EmptyList ==
  ASSUME Base, NEW p \in Pages
  PROVE  /\ PageLists[p] = pages[p].vram /\ PageLists[p] \in Seq(Chunk)
         /\ Len(PageLists[p]) \in Nat /\ DOMAIN PageLists[p] = 1 .. Len(PageLists[p])
         /\ DOMAIN PageLists[p] = {} => PageLists[p] = << >>
  <1>1. PageLists[p] = pages[p].vram /\ PageLists[p] \in Seq(Chunk)
    BY BaseTypes DEF PageTypes, Page
  <1>2. Len(PageLists[p]) \in Nat /\ DOMAIN PageLists[p] = 1 .. Len(PageLists[p])
    BY <1>1
  <1>3. DOMAIN PageLists[p] = {} => Len(PageLists[p]) = 0
    <2> DEFINE n == Len(PageLists[p])
    <2>1. n \in Nat /\ DOMAIN PageLists[p] = 1 .. n
      BY <1>2
    <2> HIDE DEF n
    <2>2. n # 0 => 1 \in 1 .. n
      BY <2>1
    <2>3. QED
      BY <2>1, <2>2 DEF n
  <1>4. Len(PageLists[p]) = 0 => PageLists[p] = << >>
    BY <1>1
  <1>5. QED
    BY <1>1, <1>2, <1>3, <1>4

(* A page in DRAM that gets a chunk had none. *)
LEMMA AskedForNone ==
  ASSUME Table, OneChunkEach, NEW p \in Pages, NEW g \in GPUs, Asked(p, g),
         pages[p].dram # << >>, ChunksOn(p, g) = {}
  PROVE  PageLists[p] = << >>
  <1>1. Base
    BY DEF Table
  <1>2. CASE p \in sweep.promote
    BY <1>1, <1>2 DEF Table, SweepOfWarm, Base, NoChunksBelow
  <1>3. CASE ChunksOff(p, g) = {}
    <2>1. DOMAIN PageLists[p] = {}
      BY <1>1, <1>3, EmptyList DEF ChunksOn, ChunksOff
    <2>2. QED
      BY <1>1, <2>1, EmptyList
  <1>4. CASE N = 1
    <2>1. \A i \in DOMAIN PageLists[p] : PageLists[p][i].gpu = g
      BY <1>1, <1>4, BaseTypes, ChunkOfList DEF GPUs
    <2>2. DOMAIN PageLists[p] = {}
      BY <1>1, <2>1, EmptyList DEF ChunksOn
    <2>3. QED
      BY <1>1, <2>2, EmptyList
  <1>5. QED
    BY <1>2, <1>3, <1>4 DEF OneChunkEach, Asked

LEMMA AccessOneOwner ==
  ASSUME Base, OneOwnerNow, NEW p \in Pages, NEW g \in GPUs, AccessPage(p, g)
  PROVE  OneOwnerNow'
  <1>1. /\ vram_free \in Cache /\ PageLists \in Lists /\ inflight \in Issues
        /\ dev \in Devs
        /\ OneOwner(vram_free, PageLists, inflight)
    BY BaseTypes DEF OneOwnerNow
  <1>2. /\ file' = file /\ inflight' = [inflight EXCEPT ![p] = None]
        /\ ClaimEnds(p, g) \/ PromoteEnds(p, g)
    BY <1>1, AccessCases
  <1>3. inflight' \in Issues
    BY <1>1, <1>2, MadeGivenUp, BaseTypes
  <1>4. ASSUME pages' \in {pages, Touched(p)} PROVE PageLists' = PageLists
    BY <1>1, <1>4, BaseTypes, TouchedKeeps DEF Alike, PageLists
  <1>5. CASE ClaimEnds(p, g)
    <2>1. /\ inflight[p] # None /\ inflight[p].gpu = g
          /\ inflight[p].blk \in Nat /\ inflight[p].size \in Nat
      BY <1>1, <1>5, ChunkOfIssue DEF ClaimEnds
    <2>2. /\ OneOwner(vram_free, PageLists, inflight')
          /\ Free(vram_free, PageLists, inflight', g, inflight[p].blk)
      BY <1>1, <1>2, <2>1, GiveUp
    <2>3. vram_free' = vram_free
      BY <1>5 DEF ClaimEnds
    <2>4. CASE pages' = pages
      BY <1>4, <2>2, <2>3, <2>4 DEF OneOwnerNow
    <2>5. CASE pages' = Promoted(p, g, inflight[p].blk, inflight[p].size)
      <3> DEFINE c == ChunkAt(g, inflight[p].blk, inflight[p].size)
      <3>1. PageLists[p] = << >>
        BY <1>1, <2>1 DEF Base, NoChunksBelow, Prefetched
      <3>2. ChunksOn(p, g) = {}
        BY <1>1, <3>1, EmptyList DEF ChunksOn
      <3>3. c \in Chunk /\ PageLists' = ListedWith(PageLists, p, c)
        BY <1>1, <1>2, <2>1, <2>5, <3>2, GainKeeps
      <3>4. c.gpu = g /\ c.blk = inflight[p].blk
        BY DEF ChunkAt
      <3> HIDE DEF c
      <3>5. OneOwner(vram_free, PageLists', inflight')
        BY <1>1, <1>3, <2>2, <3>3, <3>4, List
      <3>6. QED
        BY <2>3, <3>5 DEF OneOwnerNow
    <2>6. QED
      BY <1>5, <2>4, <2>5 DEF ClaimEnds
  <1>6. CASE PromoteEnds(p, g)
    <2> DEFINE cache == CacheAfterDiscard(p, g)
    <2>1. /\ cache \in Cache /\ Made(cache, PageLists, inflight', dev)
          /\ inflight[p] = None => inflight' = inflight /\ cache = vram_free
          /\ inflight[p] # None => cache = Recycled(vram_free, inflight[p].gpu, inflight[p].blk)
      BY <1>1, <1>2, AfterDiscard
    <2>2. \/ Stayed(p, cache)
          \/ \E n \in Nat, data \in Data :
               \E a \in VramBlocks(cache, g, n) : Moved(p, g, n, data, a)
      BY <1>6 DEF PromoteEnds
    <2> HIDE DEF cache
    <2>3. OneOwner(cache, PageLists, inflight')
      <3>1. CASE inflight[p] = None
        BY <1>1, <2>1, <3>1
      <3>2. CASE inflight[p] # None
        <4>1. /\ OneOwner(vram_free, PageLists, inflight')
              /\ Free(vram_free, PageLists, inflight', inflight[p].gpu, inflight[p].blk)
          BY <1>1, <1>2, <3>2, GiveUp
        <4>2. inflight[p].gpu \in GPUs /\ inflight[p].blk \in Nat
          BY <1>1, <3>2, ChunkOfIssue
        <4>3. QED
          BY <1>1, <1>3, <2>1, <3>2, <4>1, <4>2, Recycle
      <3>3. QED
        BY <3>1, <3>2
    <2>4. CASE Stayed(p, cache)
      BY <1>4, <2>3, <2>4 DEF Stayed, OneOwnerNow
    <2>5. ASSUME NEW n \in Nat, NEW data \in Data, NEW a \in VramBlocks(cache, g, n),
                 Moved(p, g, n, data, a)
          PROVE  OneOwnerNow'
      <3>1. /\ OneOwner(a.cache, PageLists, inflight')
            /\ Free(a.cache, PageLists, inflight', g, a.blk)
        BY <1>1, <1>3, <2>1, <2>3, BlockTaken
      <3>2. a.blk \in Nat /\ a.cache \in Cache
        BY <1>1, <1>3, <2>1, BlockTyped
      <3>3. CASE Gained(p, g, n, a) /\ ChunksOn(p, g) = {}
        <4> DEFINE c == ChunkAt(g, a.blk, n)
        <4>1. c \in Chunk /\ PageLists' = ListedWith(PageLists, p, c)
          BY <1>1, <1>2, <3>2, <3>3, GainKeeps DEF Gained
        <4>2. c.gpu = g /\ c.blk = a.blk
          BY DEF ChunkAt
        <4> HIDE DEF c
        <4>3. OneOwner(a.cache, PageLists', inflight')
          BY <1>1, <1>3, <3>1, <3>2, <4>1, <4>2, List
        <4>4. QED
          BY <3>3, <4>3 DEF Gained, OneOwnerNow
      <3>4. CASE Lost(g, a)
        BY <1>4, <3>1, <3>4 DEF Lost, OneOwnerNow
      <3>5. CASE Returned(g, a)
        <4>1. OneOwner(Recycled(a.cache, g, a.blk), PageLists, inflight')
          BY <1>1, <1>3, <3>1, <3>2, Recycle
        <4>2. QED
          BY <1>4, <3>5, <4>1 DEF Returned, OneOwnerNow
      <3>6. QED
        BY <2>5, <3>3, <3>4, <3>5 DEF Moved
    <2>6. QED
      BY <2>2, <2>4, <2>5
  <1>7. QED
    BY <1>2, <1>5, <1>6

(* What access does to the chunk lists. *)
LEMMA AccessLists ==
  ASSUME Base, NEW p \in Pages, NEW g \in GPUs, AccessPage(p, g)
  PROVE  \/ PageLists' = PageLists
         \/ /\ ChunksOn(p, g) = {}
            /\ \E c \in Chunk : PageLists' = ListedWith(PageLists, p, c)
  <1>1. /\ inflight \in Issues /\ dev \in Devs /\ PageLists \in Lists
        /\ file' = file /\ inflight' = [inflight EXCEPT ![p] = None]
        /\ ClaimEnds(p, g) \/ PromoteEnds(p, g)
    BY BaseTypes, AccessCases
  <1>2. ASSUME pages' \in {pages, Touched(p)} PROVE PageLists' = PageLists
    BY <1>2, BaseTypes, TouchedKeeps DEF Alike, PageLists
  <1>3. CASE ClaimEnds(p, g)
    <2>1. /\ inflight[p] # None /\ inflight[p].gpu = g
          /\ inflight[p].blk \in Nat /\ inflight[p].size \in Nat
      BY <1>1, <1>3, ChunkOfIssue DEF ClaimEnds
    <2>2. PageLists[p] = << >>
      BY <2>1 DEF Base, NoChunksBelow, Prefetched
    <2>3. ChunksOn(p, g) = {}
      BY <2>2, EmptyList DEF ChunksOn
    <2>4. CASE pages' = Promoted(p, g, inflight[p].blk, inflight[p].size)
      <3>1. /\ ChunkAt(g, inflight[p].blk, inflight[p].size) \in Chunk
            /\ PageLists' = ListedWith(PageLists, p, ChunkAt(g, inflight[p].blk, inflight[p].size))
        BY <1>1, <2>1, <2>3, <2>4, GainKeeps
      <3>2. QED
        BY <2>3, <3>1
    <2>5. QED
      BY <1>2, <1>3, <2>4 DEF ClaimEnds
  <1>4. CASE PromoteEnds(p, g)
    <2> DEFINE cache == CacheAfterDiscard(p, g)
    <2>1. cache \in Cache /\ Made(cache, PageLists, inflight', dev) /\ inflight' \in Issues
      BY <1>1, AfterDiscard, MadeGivenUp, BaseTypes
    <2>2. \/ Stayed(p, cache)
          \/ \E n \in Nat, data \in Data :
               \E a \in VramBlocks(cache, g, n) : Moved(p, g, n, data, a)
      BY <1>4 DEF PromoteEnds
    <2> HIDE DEF cache
    <2>3. ASSUME NEW n \in Nat, NEW data \in Data, NEW a \in VramBlocks(cache, g, n),
                 Gained(p, g, n, a), ChunksOn(p, g) = {}
          PROVE  \E c \in Chunk : PageLists' = ListedWith(PageLists, p, c)
      <3>1. a.blk \in Nat
        BY <1>1, <2>1, BlockTyped
      <3>2. /\ ChunkAt(g, a.blk, n) \in Chunk
            /\ PageLists' = ListedWith(PageLists, p, ChunkAt(g, a.blk, n))
        BY <1>1, <2>3, <3>1, GainKeeps DEF Gained
      <3>3. QED
        BY <3>2
    <2>4. QED
      BY <1>2, <2>2, <2>3 DEF Moved, Stayed, Lost, Returned
  <1>5. QED
    BY <1>1, <1>3, <1>4

LEMMA AccessSingle ==
  ASSUME Table, OneChunkEach, Single, NEW p \in Pages, NEW g \in GPUs,
         AccessPage(p, g), Asked(p, g)
  PROVE  Single'
  <1>1. Base /\ PageLists \in Lists
    BY BaseTypes DEF Table
  <1>2. \A q \in Pages : pages'[q].dram = pages[q].dram
    BY <1>1, AccessPages
  <1>3. CASE PageLists' = PageLists
    BY <1>2, <1>3 DEF Single
  <1>4. ASSUME NEW c \in Chunk, PageLists' = ListedWith(PageLists, p, c), ChunksOn(p, g) = {}
        PROVE  Single'
    <2>1. /\ \A q \in Pages : q # p => PageLists'[q] = PageLists[q]
          /\ PageLists[p] = << >> => Len(PageLists'[p]) = 1
      BY <1>1, <1>4 DEF ListedWith, Lists
    <2>2. pages[p].dram # << >> => PageLists[p] = << >>
      BY <1>4, AskedForNone
    <2>3. ASSUME NEW q \in Pages, pages'[q].dram # << >> PROVE Len(PageLists'[q]) <= 1
      <3>1. pages[q].dram # << >>
        BY <1>2, <2>3
      <3>2. CASE q = p
        <4>1. Len(PageLists'[p]) = 1
          BY <2>1, <2>2, <3>1, <3>2
        <4>2. QED
          BY <3>2, <4>1
      <3>3. CASE q # p
        BY <2>1, <3>1, <3>3 DEF Single
      <3>4. QED
        BY <3>2, <3>3
    <2>4. QED
      BY <2>3 DEF Single
  <1>5. QED
    BY <1>1, <1>3, <1>4, AccessLists

(* A demotion that runs through, or fails before it has done anything. *)
LEMMA DemoteLists ==
  ASSUME Base, NEW p \in Pages, DemotePage(p), \A m \in 1 .. N : ~DemoteSome(p, m)
  PROVE  /\ inflight' = inflight
         /\ \/ pages' = pages /\ vram_free' = vram_free
            \/ /\ Demoted(p)
               /\ PageLists' = [PageLists EXCEPT ![p] = << >>]
               /\ \A q \in Pages : pages'[q].dram = pages[q].dram
  <1>1. inflight' = inflight
    BY BaseTypes, DemoteCases
  <1>2. CASE UNCHANGED <<pages, memory>>
    BY <1>1, <1>2 DEF memory
  <1>3. CASE /\ pages[p].live /\ pages[p].tier = "Vram"
             /\ DemoteAll(p)
    <2>1. Demoted(p)
      <3>1. pages' = [pages EXCEPT ![p] = DemotedPage(p)]
        BY <1>3, BaseTypes DEF DemoteAll, DemotedPage, PageTypes
      <3>2. QED
        BY <1>3, <3>1 DEF DemoteAll, Demoted
    <2>2. /\ \A q \in Pages : q # p => pages'[q] = pages[q]
          /\ \A q \in Pages : pages'[q].dram = pages[q].dram
      BY DemotePages
    <2>3. DemotedPage(p).vram = << >>
      BY BaseTypes DEF PageTypes, DemotedPage, Page
    <2>4. pages'[p].vram = << >>
      BY <2>1, <2>3, BaseTypes DEF Demoted, PageTypes
    <2>5. PageLists' = [PageLists EXCEPT ![p] = << >>]
      BY <2>2, <2>4 DEF PageLists
    <2>6. QED
      BY <1>1, <2>1, <2>2, <2>5
  <1>4. ASSUME NEW m \in 0 .. N, DemoteSome(p, m)
        PROVE  pages' = pages /\ vram_free' = vram_free
    <2>1. m = 0
      BY <1>4, PoolAssumption
    <2>2. vram_free' = Released(p, 0) /\ pages' = pages
      BY <1>4, <2>1 DEF DemoteSome
    <2>3. Released(p, 0) = vram_free
      <3>1. \A g \in GPUs : ChunkHere(p, 0, g) = {}
        BY DEF ChunkHere
      <3>2. vram_free \in Cache
        BY BaseTypes
      <3>3. QED
        BY <3>1, <3>2 DEF Released, Cache
    <2>4. QED
      BY <2>2, <2>3
  <1>5. QED
    BY <1>1, <1>2, <1>3, <1>4 DEF DemotePage

LEMMA DemoteOneOwner ==
  ASSUME Base, OneOwnerNow, NEW p \in Pages, DemotePage(p), \A m \in 1 .. N : ~DemoteSome(p, m)
  PROVE  OneOwnerNow'
  <1>1. /\ vram_free \in Cache /\ PageLists \in Lists /\ inflight \in Issues
        /\ OneOwner(vram_free, PageLists, inflight)
    BY BaseTypes DEF OneOwnerNow
  <1>2. CASE pages' = pages /\ vram_free' = vram_free /\ inflight' = inflight
    BY <1>1, <1>2 DEF OneOwnerNow, PageLists
  <1>3. CASE /\ Demoted(p) /\ inflight' = inflight
             /\ PageLists' = [PageLists EXCEPT ![p] = << >>]
    BY <1>1, <1>3, Release DEF Demoted, OneOwnerNow
  <1>4. QED
    BY <1>2, <1>3, DemoteLists

(* The second chunk of a demotion is the first that can leave it half-way. *)
LEMMA NoneHalfWay ==
  ASSUME Base, Single, NEW p \in Pages, NEW m \in 1 .. N
  PROVE  ~DemoteSome(p, m)
  <1>1. SUFFICES ASSUME DemoteSome(p, m) PROVE FALSE
    OBVIOUS
  <1>2. m \in Nat /\ m >= 1
    BY PoolAssumption
  <1>3. Obstacle(p, 1) = "none" /\ m < Len(pages[p].vram)
    BY <1>1, <1>2 DEF DemoteSome
  <1>4. pages[p].vram[1].gpu + 1 \in DOMAIN pages[p].dram
    BY <1>3 DEF Obstacle
  <1>5. pages[p].dram # << >>
    BY <1>4
  <1>6. Len(PageLists[p]) <= 1 /\ Len(PageLists[p]) \in Nat /\ PageLists[p] = pages[p].vram
    BY <1>5, EmptyList DEF Single
  <1>7. QED
    BY <1>2, <1>3, <1>6

LEMMA PrefetchOneOwner ==
  ASSUME Base, OneOwnerNow, NEW p \in Pages, NEW g \in GPUs, Prefetch(p, g)
  PROVE  OneOwnerNow' /\ pages' = pages
  <1>1. /\ pages' = pages /\ inflight[p] = None
        /\ \/ UNCHANGED <<dev, vram_free, inflight, stream>>
           \/ \E a \in VramBlocks(vram_free, g, PageSize[p]) :
                /\ Allotted(p, g, a)
                /\ PrefetchIssued(p, g, a) \/ PrefetchLost(p, g, a) \/ PrefetchReturned(p, g, a)
    BY PrefetchCases
  <1>2. /\ vram_free \in Cache /\ PageLists \in Lists /\ inflight \in Issues /\ dev \in Devs
        /\ Made(vram_free, PageLists, inflight, dev)
        /\ OneOwner(vram_free, PageLists, inflight)
    BY BaseTypes DEF OneOwnerNow
  <1>3. PageLists' = PageLists
    BY <1>1 DEF PageLists
  <1>4. CASE UNCHANGED <<dev, vram_free, inflight, stream>>
    BY <1>1, <1>2, <1>3, <1>4 DEF OneOwnerNow
  <1>5. ASSUME NEW a \in VramBlocks(vram_free, g, PageSize[p]),
               PrefetchIssued(p, g, a) \/ PrefetchLost(p, g, a) \/ PrefetchReturned(p, g, a)
        PROVE  OneOwnerNow'
    <2>1. PageSize[p] \in Nat
      BY Sizes
    <2>2. /\ OneOwner(a.cache, PageLists, inflight)
          /\ Free(a.cache, PageLists, inflight, g, a.blk)
      BY <1>2, <2>1, BlockTaken
    <2>3. a.blk \in Nat /\ a.cache \in Cache
      BY <1>2, <2>1, BlockTyped
    <2>4. CASE PrefetchIssued(p, g, a)
      <3> DEFINE t == Target(p, g, a.blk)
      <3>1. t \in Chunk /\ t.gpu = g /\ t.blk = a.blk
        BY <2>1, <2>3 DEF Target, Chunk
      <3>2. vram_free' = a.cache /\ inflight' = [inflight EXCEPT ![p] = t]
        BY <2>4 DEF PrefetchIssued
      <3> HIDE DEF t
      <3>3. OneOwner(a.cache, PageLists, inflight')
        BY <1>1, <1>2, <2>2, <2>3, <3>1, <3>2, Issue
      <3>4. QED
        BY <1>3, <3>2, <3>3 DEF OneOwnerNow
    <2>5. CASE PrefetchLost(p, g, a)
      BY <1>3, <2>2, <2>5 DEF PrefetchLost, OneOwnerNow
    <2>6. CASE PrefetchReturned(p, g, a)
      <3>1. OneOwner(Recycled(a.cache, g, a.blk), PageLists, inflight)
        BY <1>2, <2>2, <2>3, Recycle
      <3>2. QED
        BY <1>3, <2>6, <3>1 DEF PrefetchReturned, OneOwnerNow
    <2>7. QED
      BY <1>5, <2>4, <2>5, <2>6
  <1>6. QED
    BY <1>1, <1>4, <1>5

(* allocate and deallocate take all the chunks of their page. *)
LEMMA AllocateOneOwner ==
  ASSUME Base, OneOwnerNow, NEW p \in Pages, Allocate(p)
  PROVE  OneOwnerNow' /\ (Single => Single')
  <1>1. /\ \A q \in Pages : q # p => pages'[q] = pages[q]
        /\ PageLists' = Emptied(PageLists, p)
        /\ UNCHANGED <<vram_free, inflight>>
    BY AllocatePages DEF Allocate
  <1>2. OneOwner(vram_free', PageLists', inflight')
    BY <1>1, BaseTypes, OwnerEmptied DEF OneOwnerNow
  <1>3. PageLists'[p] = << >> /\ \A q \in Pages : q # p => PageLists'[q] = PageLists[q]
    BY <1>1, BaseTypes DEF Lists, Emptied
  <1>4. Single => Single'
    BY <1>1, <1>3 DEF Single
  <1>5. QED
    BY <1>2, <1>4 DEF OneOwnerNow

LEMMA DeallocateOneOwner ==
  ASSUME Base, OneOwnerNow, NEW p \in Pages, Deallocate(p)
  PROVE  OneOwnerNow' /\ (Single => Single')
  <1>1. inflight' = inflight /\ (Dropped(p) \/ UNCHANGED <<vram_free, host, pages, latest>>)
    BY DeallocateCases
  <1>2. CASE Dropped(p)
    <2>1. /\ \A q \in Pages : q # p => pages'[q] = pages[q]
          /\ PageLists' = Emptied(PageLists, p)
      BY <1>2, DropPages
    <2>2. OneOwner(vram_free', PageLists', inflight')
      BY <1>1, <1>2, <2>1, BaseTypes, Release DEF Dropped, Emptied, OneOwnerNow
    <2>3. PageLists'[p] = << >> /\ \A q \in Pages : q # p => PageLists'[q] = PageLists[q]
      BY <2>1, BaseTypes DEF Lists, Emptied
    <2>4. Single => Single'
      BY <2>1, <2>3 DEF Single
    <2>5. QED
      BY <2>2, <2>4 DEF OneOwnerNow
  <1>3. CASE UNCHANGED <<vram_free, host, pages, latest>>
    BY <1>1, <1>3 DEF OneOwnerNow, Single, PageLists
  <1>4. QED
    BY <1>1, <1>2, <1>3

LEMMA OneOwnerStep ==
  ASSUME Base, OneOwnerNow, Step, ~StopsHalfWay
  PROVE  OneOwnerNow'
  <1>1. ASSUME Quiet PROVE OneOwnerNow'
    BY <1>1 DEF Quiet, OneOwnerNow
  <1>2. QED
    BY <1>1, AllocateOneOwner, DeallocateOneOwner, DemoteOneOwner, AccessOneOwner, PrefetchOneOwner
    DEF Step, StopsHalfWay

LEMMA DemoteSingle ==
  ASSUME Base, Single, NEW p \in Pages, DemotePage(p)
  PROVE  Single'
  <1>1. CASE pages' = pages
    BY <1>1 DEF Single, PageLists
  <1>2. CASE /\ PageLists' = [PageLists EXCEPT ![p] = << >>]
             /\ \A q \in Pages : pages'[q].dram = pages[q].dram
    <2>1. PageLists'[p] = << >> /\ \A q \in Pages : q # p => PageLists'[q] = PageLists[q]
      BY <1>2, BaseTypes DEF Lists
    <2>2. QED
      BY <1>2, <2>1 DEF Single
  <1>3. QED
    BY <1>1, <1>2, DemoteLists, NoneHalfWay

LEMMA OwnedStep == ASSUME Table, OneChunkEach, Owned, Step PROVE Owned'
  <1>1. Base /\ Single /\ OneOwnerNow
    BY DEF Table, Owned
  <1>2. OneOwnerNow'
    BY <1>1, NoneHalfWay, OneOwnerStep DEF StopsHalfWay
  <1>3. Single'
    <2>1. ASSUME Quiet PROVE Single'
      BY <1>1, <2>1 DEF Quiet, Single
    <2>2. ASSUME NEW p \in Pages, NEW g \in GPUs, Prefetch(p, g) PROVE Single'
      <3>1. pages' = pages
        BY <1>1, <2>2, PrefetchOneOwner
      <3>2. QED
        BY <1>1, <3>1 DEF Single, PageLists
    <2>3. QED
      BY <1>1, <2>1, <2>2, AllocateOneOwner, DeallocateOneOwner, DemoteSingle, AccessSingle
      DEF Step
  <1>4. QED
    BY <1>2, <1>3 DEF Owned

LEMMA ListedIs ==
  ASSUME Base, NEW g \in GPUs, NEW b
  PROVE  /\ \A c \in Listed(g, b) : \E p \in Pages : \E i \in DOMAIN PageLists[p] :
              c = <<p, i>> /\ PageLists[p][i].gpu = g /\ PageLists[p][i].blk = b
         /\ \A p \in Pages : \A i \in DOMAIN PageLists[p] :
              PageLists[p][i].gpu = g /\ PageLists[p][i].blk = b => <<p, i>> \in Listed(g, b)
  <1>1. \A p \in Pages : PageLists[p] = pages[p].vram
    BY BaseTypes
  <1>2. ASSUME NEW c \in Listed(g, b)
        PROVE  \E p \in Pages : \E i \in DOMAIN PageLists[p] :
                 c = <<p, i>> /\ PageLists[p][i].gpu = g /\ PageLists[p][i].blk = b
    <2>1. c \in Chunks(g) /\ pages[c[1]].vram[c[2]].blk = b
      BY <1>2 DEF Listed
    <2>2. PICK p \in Pages : c \in {<<p, i>> : i \in ChunksOn(p, g)}
      BY <2>1 DEF Chunks
    <2>3. PICK i \in ChunksOn(p, g) : c = <<p, i>>
      BY <2>2
    <2>4. i \in DOMAIN PageLists[p] /\ PageLists[p][i].gpu = g /\ PageLists[p][i].blk = b
      BY <1>1, <2>1, <2>3 DEF ChunksOn
    <2>5. QED
      BY <2>3, <2>4
  <1>3. ASSUME NEW p \in Pages, NEW i \in DOMAIN PageLists[p],
               PageLists[p][i].gpu = g, PageLists[p][i].blk = b
        PROVE  <<p, i>> \in Listed(g, b)
    <2>1. i \in ChunksOn(p, g)
      BY <1>1, <1>3 DEF ChunksOn
    <2>2. <<p, i>> \in Chunks(g)
      BY <2>1 DEF Chunks
    <2>3. pages[<<p, i>>[1]].vram[<<p, i>>[2]].blk = b
      BY <1>1, <1>3
    <2>4. QED
      BY <2>2, <2>3 DEF Listed
  <1>4. QED
    BY <1>2, <1>3

LEMMA OneOwnerIs ==
  ASSUME Base, OneOwner(vram_free, PageLists, inflight), NEW g \in GPUs, NEW b
  PROVE  Owners(g, b) <= 1
  <1>1. \A i, j \in Cached(g, b) : i = j
    BY DEF Cached, OneOwner, CachedOnce
  <1>2. \A c, d \in Listed(g, b) : c = d
    <2>1. SUFFICES ASSUME NEW c \in Listed(g, b), NEW d \in Listed(g, b) PROVE c = d
      OBVIOUS
    <2>2. PICK p \in Pages : \E i \in DOMAIN PageLists[p] :
            c = <<p, i>> /\ PageLists[p][i].gpu = g /\ PageLists[p][i].blk = b
      BY ListedIs
    <2>3. PICK i \in DOMAIN PageLists[p] :
            c = <<p, i>> /\ PageLists[p][i].gpu = g /\ PageLists[p][i].blk = b
      BY <2>2
    <2>4. PICK q \in Pages : \E j \in DOMAIN PageLists[q] :
            d = <<q, j>> /\ PageLists[q][j].gpu = g /\ PageLists[q][j].blk = b
      BY ListedIs
    <2>5. PICK j \in DOMAIN PageLists[q] :
            d = <<q, j>> /\ PageLists[q][j].gpu = g /\ PageLists[q][j].blk = b
      BY <2>4
    <2>6. p = q /\ i = j
      BY <2>3, <2>5 DEF OneOwner, ListedOnce
    <2>7. QED
      BY <2>3, <2>5, <2>6
  <1>3. \A p \in Pending(g, b) : inflight[p] # None
    BY NoneIsNoChunk DEF Pending
  <1>4. \A p, q \in Pending(g, b) : p = q
    BY <1>3 DEF Pending, OneOwner, IssuedOnce
  <1>5. Listed(g, b) # {} => Cached(g, b) = {}
    BY ListedIs DEF OneOwner, Apart, Uncached, Cached
  <1>6. Pending(g, b) # {} => Cached(g, b) = {} /\ Listed(g, b) = {}
    <2>1. SUFFICES ASSUME NEW p \in Pending(g, b) PROVE Cached(g, b) = {} /\ Listed(g, b) = {}
      OBVIOUS
    <2>2. p \in Pages /\ inflight[p].gpu = g /\ inflight[p].blk = b /\ inflight[p] # None
      BY <1>3 DEF Pending
    <2>3. Uncached(vram_free, g, b) /\ Unlisted(PageLists, g, b)
      BY <2>2 DEF OneOwner, Apart
    <2>4. QED
      BY <2>3, ListedIs DEF Uncached, Unlisted, Cached
  <1>7. /\ Cardinality(Cached(g, b)) \in {0, 1} /\ (Cached(g, b) = {} => Cardinality(Cached(g, b)) = 0)
        /\ Cardinality(Listed(g, b)) \in {0, 1} /\ (Listed(g, b) = {} => Cardinality(Listed(g, b)) = 0)
        /\ Cardinality(Pending(g, b)) \in {0, 1}
        /\ (Pending(g, b) = {} => Cardinality(Pending(g, b)) = 0)
    BY <1>1, <1>2, <1>4, AtMostOne
  <1>8. QED
    BY <1>5, <1>6, <1>7 DEF Owners

LEMMA InitOwned == ASSUME Init PROVE Owned
  <1>1. /\ \A g \in GPUs : vram_free[g] = << >>
        /\ \A p \in Pages : PageLists[p] = << >> /\ inflight[p] = None
        /\ \A p \in Pages : pages[p].dram = << >>
    BY AbsentIsAPage DEF Init, PageLists
  <1>2. OneOwner(vram_free, PageLists, inflight)
    BY <1>1 DEF OneOwner, CachedOnce, ListedOnce, IssuedOnce, Apart
  <1>3. Single
    BY <1>1 DEF Single
  <1>4. QED
    BY <1>2, <1>3 DEF Owned, OneOwnerNow

(* With one GPU, or callers who never ask a GPU for a sharded page that is *)
(* resident on another, no demotion stops half-way, and no block is  *)
(* ever in two of the recycle cache, the pages and the prefetches, nor in  *)
(* one of them twice: alloc_vram_on_gpu never hands out memory somebody    *)
(* holds.                                                                  *)
THEOREM BlocksAreOwnedOnce == ASSUME OneChunkEach PROVE Spec => []BlockOwnedOnce
  <1>1. Init => Owned
    BY InitOwned
  <1>2. Table /\ Owned /\ [Next]_vars => Owned'
    BY StepCases, OwnedStep DEF Table
  <1>3. Table /\ Owned => BlockOwnedOnce
    BY OneOwnerIs DEF Table, Owned, OneOwnerNow, BlockOwnedOnce
  <1>4. QED
    BY <1>1, <1>2, <1>3, TableInductive, PTL DEF Spec

-----------------------------------------------------------------------------
(* The DRAM pools: a frame is in use while one page holds it.  Careful     *)
(* callers ("names") never give a page the name of another, which is how   *)
(* allocate forgets what the old page held.                                *)
Holder(p, g, f) == g + 1 \in DOMAIN pages[p].dram /\ pages[p].dram[g + 1].frame = f

HostOwned ==
  \A g \in GPUs, f \in Frames :
    /\ \A p, q \in Pages : Holder(p, g, f) /\ Holder(q, g, f) => p = q
    /\ host[g][f].used <=> \E p \in Pages : Holder(p, g, f)

LEMMA UsedIsBoolean ==
  ASSUME Base
  PROVE  \A g \in GPUs, f \in Frames : host[g][f].used \in BOOLEAN
  BY BaseTypes DEF HostTypes, Frame

LEMMA HostKept ==
  ASSUME HostOwned, \A p \in Pages : pages'[p].dram = pages[p].dram,
         \A g \in GPUs, f \in Frames : host'[g][f].used = host[g][f].used
  PROVE  HostOwned'
  <1>1. \A p \in Pages : \A g \in GPUs : \A f : Holder(p, g, f)' <=> Holder(p, g, f)
    BY DEF Holder
  <1>2. QED
    BY <1>1 DEF HostOwned

LEMMA AllocateHost ==
  ASSUME Table, "names" \in Careful, HostOwned, NEW p \in Pages, Allocate(p)
  PROVE  HostOwned'
  <1>1. Base /\ DeadEmpty
    BY DEF Table
  <1>2. pages[p].dram = << >>
    BY <1>1 DEF Allocate, Named, DeadEmpty
  <1>3. /\ \A q \in Pages : q # p => pages'[q] = pages[q]
        /\ Given(pages'[p])
    BY <1>1, AllocatePages
  <1>4. \A g \in GPUs, f \in Frames : ~Holder(p, g, f)
    BY <1>2 DEF Holder
  <1>5. \A q \in Pages : q # p => \A g \in GPUs, f \in Frames : Holder(q, g, f)' <=> Holder(q, g, f)
    BY <1>3 DEF Holder
  <1>6. \A g \in GPUs, f \in Frames :
          /\ Holder(p, g, f)' => ~host[g][f].used
          /\ host'[g][f].used <=> (host[g][f].used \/ Holder(p, g, f)')
    BY <1>3 DEF Given, Holder
  <1>7. QED
    BY <1>4, <1>5, <1>6 DEF HostOwned

LEMMA DeallocateHost ==
  ASSUME Base, HostOwned, NEW p \in Pages, Deallocate(p)
  PROVE  HostOwned'
  <1>1. Dropped(p) \/ UNCHANGED <<host, pages>>
    BY DeallocateCases
  <1>2. CASE Dropped(p)
    <2>1. /\ \A q \in Pages : q # p => pages'[q] = pages[q]
          /\ pages'[p].dram = << >>
      BY <1>2, DropPages, AbsentIsAPage
    <2>2. \A g \in GPUs, f \in Frames : host'[g][f].used <=> host[g][f].used /\ ~Holder(p, g, f)
      <3>1. host' = Unused(p)
        BY <1>2 DEF Dropped
      <3>2. \A g \in GPUs, f \in Frames :
              host'[g][f].used = (host[g][f].used /\ ~Holder(p, g, f))
        BY ONLY <3>1, Base, UnusedIs, p \in Pages DEF Holder
      <3>3. QED
        BY <3>2
    <2>3. \A g \in GPUs, f \in Frames : ~Holder(p, g, f)'
      BY <2>1 DEF Holder
    <2>4. \A q \in Pages : q # p => \A g \in GPUs, f \in Frames : Holder(q, g, f)' <=> Holder(q, g, f)
      BY <2>1 DEF Holder
    <2>5. QED
      BY <2>2, <2>3, <2>4 DEF HostOwned
  <1>3. CASE UNCHANGED <<host, pages>>
    BY <1>3, HostKept
  <1>4. QED
    BY <1>1, <1>2, <1>3

LEMMA DemoteHost ==
  ASSUME Base, HostOwned, NEW p \in Pages, DemotePage(p)
  PROVE  HostOwned'
  <1>1. \A m : \A g \in GPUs, f \in Frames : WrittenBack(p, m)[g][f].used = host[g][f].used
    <2>1. SUFFICES ASSUME NEW m, NEW g \in GPUs
                   PROVE  \A f \in Frames : WrittenBack(p, m)[g][f].used = host[g][f].used
      OBVIOUS
    <2>2. host[g] \in [Frames -> Frame]
      BY BaseTypes DEF HostTypes
    <2>3. WrittenBack(p, m)[g] = host[g] \/ \E x, d : WrittenBack(p, m)[g] = Refilled(host[g], x, d)
      BY DEF WrittenBack, Refilled
    <2>4. QED
      BY <2>2, <2>3, UsedKept
  <1>2. \A q \in Pages : pages'[q].dram = pages[q].dram
    BY DemotePages
  <1>3. host' = host \/ \E m : host' = WrittenBack(p, m)
    BY BaseTypes, DemoteCases DEF NotDemoted, Demoted, HalfDemoted
  <1>4. \A g \in GPUs, f \in Frames : host'[g][f].used = host[g][f].used
    BY <1>1, <1>3
  <1>5. QED
    BY <1>2, <1>4, HostKept

LEMMA HostStep == ASSUME Table, "names" \in Careful, HostOwned, Step PROVE HostOwned'
  <1>1. Base
    BY DEF Table
  <1>2. ASSUME NEW p \in Pages, NEW g \in GPUs, AccessPage(p, g) PROVE HostOwned'
    <2>1. host' = host /\ \A q \in Pages : pages'[q].dram = pages[q].dram
      BY <1>1, <1>2, AccessCases, AccessPages
    <2>2. QED
      BY <2>1, HostKept
  <1>3. ASSUME NEW p \in Pages, NEW g \in GPUs, Prefetch(p, g) PROVE HostOwned'
    <2>1. host' = host /\ pages' = pages
      BY <1>1, <1>3, PrefetchCases
    <2>2. QED
      BY <2>1, HostKept
  <1>4. ASSUME Quiet PROVE HostOwned'
    BY <1>4, HostKept DEF Quiet
  <1>5. QED
    BY <1>1, <1>2, <1>3, <1>4, AllocateHost, DeallocateHost, DemoteHost DEF Step

LEMMA InitHost == ASSUME Init PROVE HostOwned
  <1>1. /\ \A p \in Pages : pages[p].dram = << >>
        /\ \A g \in GPUs, f \in Frames : host[g][f].used = FALSE
    BY AbsentIsAPage DEF Init
  <1>2. QED
    BY <1>1 DEF HostOwned, Holder

(* With callers who never reuse the name of a page that is in the table,   *)
(* the frames in use are exactly the shards of the pages, each on one page *)
(* only: allocate, deallocate, demote and write_page neither leak DRAM nor *)
(* give the same DRAM to two pages, whatever fails.                        *)
THEOREM HostIsAlwaysOwnedOnce ==
  ASSUME "names" \in Careful
  PROVE  Spec => []HostOwnedOnce
  <1>1. Init => HostOwned
    BY InitHost
  <1>2. Table /\ HostOwned /\ [Next]_vars => HostOwned'
    BY StepCases, HostStep DEF Table
  <1>3. Table /\ HostOwned => HostOwnedOnce
    <2> SUFFICES ASSUME Table, HostOwned, NEW g \in GPUs, NEW f \in Frames
                 PROVE  Cardinality({p \in Pages : Holder(p, g, f)})
                          = IF host[g][f].used THEN 1 ELSE 0
      BY DEF HostOwnedOnce, Holder
    <2> DEFINE S == {p \in Pages : Holder(p, g, f)}
    <2>1. \A p, q \in S : p = q
      BY DEF HostOwned
    <2>2. host[g][f].used <=> S # {}
      BY DEF HostOwned
    <2> HIDE DEF S
    <2>3. S = {} => Cardinality(S) = 0
      BY FS_EmptySet
    <2>4. S # {} => Cardinality(S) = 1
      BY <2>1, FS_Singleton
    <2>5. QED
      BY <2>2, <2>3, <2>4 DEF S
  <1>4. QED
    BY <1>1, <1>2, <1>3, TableInductive, PTL DEF Spec

-----------------------------------------------------------------------------
(* Failed calls.  Whatever a call did before its error, the table is left  *)
(* as it was: access and demote change it with their last step.            *)
MovedNothing ==
  \A p \in Pages : pages[p].live /\ pages'[p].live =>
    /\ pages'[p].vram = pages[p].vram
    /\ pages'[p].tier = pages[p].tier

LEMMA AccessFails ==
  ASSUME Base, NEW p \in Pages, NEW g \in GPUs, AccessPage(p, g)
  PROVE  pages' = pages \/ result' \in {"ok", "panic"}
  <1> DEFINE Goal == pages' = pages \/ result' \in {"ok", "panic"}
  <1>1. ASSUME NEW cache, NEW how, Fails(how, cache) PROVE Goal
    BY <1>1 DEF Fails
  <1>2. ASSUME Claim(p, g) PROVE Goal
    BY <1>2 DEF Claim, Ends
  <1>3. ASSUME NEW cache, Touch(p, g, cache) PROVE Goal
    BY <1>3 DEF Touch, Ends
  <1>4. ASSUME NEW cache, PeerCopy(p, g, cache) PROVE Goal
    BY <1>1, <1>4 DEF PeerCopy, Ends
  <1>5. ASSUME NEW cache, NotResidentAnywhere(p, g, cache) PROVE Goal
    BY <1>1, <1>5 DEF NotResidentAnywhere
  <1>6. ASSUME NEW cache, PromoteWarm(p, g, cache) PROVE Goal
    BY <1>1, <1>6 DEF PromoteWarm, Ends
  <1>7. ASSUME NEW cache, PromoteCold(p, g, cache) PROVE Goal
    BY <1>1, <1>7 DEF PromoteCold, Ends
  <1>8. ASSUME NEW cache, Promote(p, g, cache) PROVE Goal
    <2>1. pages[p].tier \in {"Vram", "Dram", "Ssd"} /\ pages[p].live \in BOOLEAN
      BY BaseTypes DEF PageTypes, Page
    <2>2. QED
      BY <1>1, <1>3, <1>4, <1>5, <1>6, <1>7, <1>8, <2>1 DEF Promote
  <1>9. QED
    BY <1>2, <1>8 DEF AccessPage

(* With callers who never reuse a name, a call that returns an error has   *)
(* moved no page: tiers and chunk lists are what they were before it.      *)
THEOREM FailedCallsNeverMove ==
  ASSUME "names" \in Careful
  PROVE  Spec => FailedCallsMoveNothing
  <1> DEFINE A == result' \notin {"ok", "panic"} => MovedNothing
  <1>1. ASSUME Base, Next PROVE A
    <2>1. ASSUME pages' = pages \/ result' \in {"ok", "panic"} PROVE A
      BY <2>1 DEF MovedNothing
    <2>2. ASSUME NEW p \in Pages, \A q \in Pages : q # p => pages'[q] = pages[q],
                 ~(pages[p].live /\ pages'[p].live)
          PROVE  A
      BY <2>2 DEF MovedNothing
    <2>3. ASSUME NEW p \in Pages, Allocate(p) PROVE A
      BY <1>1, <2>2, <2>3, AllocatePages DEF Allocate, Named
    <2>4. ASSUME NEW p \in Pages, Deallocate(p) PROVE A
      BY <1>1, <2>1, <2>4 DEF Deallocate, Ends
    <2>5. ASSUME NEW p \in Pages, DemotePage(p) PROVE A
      BY <2>1, <2>5 DEF DemotePage, DemoteAll, DemoteSome, Ends
    <2>6. ASSUME NEW p \in Pages, NEW g \in GPUs, AccessPage(p, g) PROVE A
      BY <1>1, <2>1, <2>6, AccessFails
    <2>7. ASSUME QuietSteps PROVE A
      BY <1>1, <2>7, QuietIs DEF Quiet, MovedNothing
    <2>8. ASSUME NEW p \in Pages, NEW g \in GPUs, Prefetch(p, g) PROVE A
      BY <2>1, <2>8 DEF Prefetch
    <2> HIDE DEF A
    <2>9. ASSUME NEW p \in Pages, Demote(p) \/ SweepDemote(p) PROVE A
      BY <2>5, <2>9 DEF Demote, SweepDemote
    <2>10. ASSUME NEW p \in Pages, NEW g \in GPUs, Access(p, g) PROVE A
      BY <2>6, <2>10 DEF Access
    <2>11. ASSUME NEW p \in Pages, SweepPromote(p) PROVE A
      BY <2>6, <2>11, Zero DEF SweepPromote
    <2>12. ASSUME NEW p \in Pages, WritePage(p) \/ KernelWrite(p) \/ Pin(p) PROVE A
      BY <2>7, <2>12 DEF QuietSteps, WritePage, KernelWrite, Pin
    <2>13. ASSUME (\E g \in GPUs : StreamCopy(g) \/ Drain(g)) \/ SweepStart PROVE A
      BY <2>7, <2>13 DEF QuietSteps
    <2>14. QED
      BY <1>1, <2>3, <2>4, <2>8, <2>9, <2>10, <2>11, <2>12, <2>13 DEF Next
  <1>2. Base /\ [Next]_vars => [A]_vars
    BY <1>1
  <1> DEFINE B == result' \notin {"ok", "panic"} =>
                    \A p \in Pages : pages[p].live /\ pages'[p].live =>
                      /\ pages'[p].vram = pages[p].vram
                      /\ pages'[p].tier = pages[p].tier
  <1>3. A <=> B
    BY DEF MovedNothing
  <1> HIDE DEF A
  <1>4. Base /\ [Next]_vars => [B]_vars
    BY <1>2, <1>3
  <1>5. Spec => [][B]_vars
    BY <1>4, BaseInductive, PTL DEF Spec
  <1>6. QED
    BY <1>5 DEF FailedCallsMoveNothing

-----------------------------------------------------------------------------
(* Leaks.  The other half of ownership: a block in no place is a block the *)
(* pool can never use or return again.  One call may hold one such block   *)
(* while it runs.                                                          *)
NoneFree(lost, cache, lists, issues, made) ==
  \A g \in GPUs : \A b \in DOMAIN made[g] :
    <<g, b>> \in lost \/ ~Free(cache, lists, issues, g, b)

NoneFreeBut(lost, cache, lists, issues, made, g, b) ==
  \A h \in GPUs : \A c \in DOMAIN made[h] :
    (h = g /\ c = b) \/ <<h, c>> \in lost \/ ~Free(cache, lists, issues, h, c)

LEMMA SwapRemoveLeaves ==
  ASSUME NEW s \in Seq(Nat), NEW i \in DOMAIN s, NEW k \in DOMAIN s, s[k] # s[i]
  PROVE  \E j \in DOMAIN SwapRemove(s, i) : SwapRemove(s, i)[j] = s[k]
  <1> DEFINE t == SwapRemove(s, i)
             n == Len(s)
  <1>1. n \in Nat /\ DOMAIN s = 1 .. n
    OBVIOUS
  <1>2. DOMAIN t = 1 .. n - 1 /\ \A j \in 1 .. n - 1 : t[j] = IF j = i THEN s[n] ELSE s[j]
    BY SwapRemoveIs
  <1> HIDE DEF t, n
  <1>3. CASE k = n
    <2>1. i \in 1 .. n - 1
      BY <1>1, <1>3
    <2>2. QED
      BY <1>2, <1>3, <2>1 DEF t
  <1>4. CASE k # n
    <2>1. k \in 1 .. n - 1 /\ k # i
      BY <1>1, <1>4
    <2>2. QED
      BY <1>2, <2>1 DEF t
  <1>5. QED
    BY <1>3, <1>4

(* Taking a block leaves no other one behind. *)
LEMMA BlockTakenLeaves ==
  ASSUME NEW lost, NEW cache \in Cache, NEW lists, NEW issues,
         NEW g \in GPUs, NEW n \in Nat, NEW a \in VramBlocks(cache, g, n),
         dev \in Devs, NoneFree(lost, cache, lists, issues, dev),
         NEW made, \A h \in GPUs : h # g => made[h] = dev[h],
         DOMAIN made[g] = DOMAIN dev[g] \cup {a.blk}
  PROVE  NoneFreeBut(lost, a.cache, lists, issues, made, g, a.blk)
  <1>1. CASE a.cache = cache
    BY <1>1 DEF NoneFree, NoneFreeBut
  <1>2. ASSUME NEW i \in DOMAIN cache[g], a.blk = cache[g][i], a.cache = Without(cache, g, i)
        PROVE  NoneFreeBut(lost, a.cache, lists, issues, made, g, a.blk)
    <2> DEFINE s == cache[g]
               t == SwapRemove(s, i)
               c == a.cache
    <2>1. s \in Seq(Nat) /\ i \in DOMAIN s
      BY <1>2 DEF Cache
    <2>2. \A k \in DOMAIN s : s[k] # s[i] => \E j \in DOMAIN t : t[j] = s[k]
      BY <2>1, SwapRemoveLeaves
    <2>3. c[g] = t /\ \A h \in GPUs : h # g => c[h] = cache[h]
      BY <1>2 DEF Cache, Without
    <2> HIDE DEF c, t
    <2>4. \A h \in GPUs : \A b : Uncached(c, h, b) => Uncached(cache, h, b) \/ (h = g /\ b = s[i])
      BY <2>2, <2>3 DEF Uncached
    <2>5. \A h \in GPUs : \A b : Free(c, lists, issues, h, b)
                               => Free(cache, lists, issues, h, b) \/ (h = g /\ b = a.blk)
      BY <1>2, <2>4 DEF Free
    <2>6. QED
      BY <2>5 DEF NoneFree, NoneFreeBut, c
  <1>3. QED
    BY <1>1, <1>2, BlockChosen

LEMMA RecycleCovers ==
  ASSUME NEW lost, NEW cache \in Cache, NEW lists, NEW issues, NEW made,
         NEW g \in GPUs, NEW b \in Nat, NoneFreeBut(lost, cache, lists, issues, made, g, b)
  PROVE  NoneFree(lost, Recycled(cache, g, b), lists, issues, made)
  <1> DEFINE c == Recycled(cache, g, b)
             n == Len(cache[g])
  <1>1. /\ \A h \in GPUs : h # g => c[h] = cache[h]
        /\ n \in Nat /\ DOMAIN cache[g] = 1 .. n /\ DOMAIN c[g] = 1 .. n + 1
        /\ \A i \in 1 .. n : c[g][i] = cache[g][i]
        /\ c[g][n + 1] = b
    BY SMTT(30), RecycledIs
  <1> HIDE DEF c, n
  <1>2. ~Uncached(c, g, b)
    BY <1>1 DEF Uncached
  <1>3. \A i \in DOMAIN cache[g] : i \in DOMAIN c[g] /\ c[g][i] = cache[g][i]
    BY <1>1
  <1>4. \A h \in GPUs : \A d : Uncached(c, h, d) => Uncached(cache, h, d)
    BY <1>1, <1>3 DEF Uncached
  <1>5. QED
    BY <1>2, <1>4 DEF NoneFree, NoneFreeBut, Free, c

LEMMA ListCovers ==
  ASSUME NEW lost, NEW cache, NEW lists \in Lists, NEW issues, NEW made,
         NEW p \in Pages, NEW c \in Chunk, NoneFreeBut(lost, cache, lists, issues, made, c.gpu, c.blk)
  PROVE  NoneFree(lost, cache, ListedWith(lists, p, c), issues, made)
  <1> DEFINE more == ListedWith(lists, p, c)
             n == Len(lists[p])
  <1>1. /\ \A q \in Pages : q # p => more[q] = lists[q]
        /\ n \in Nat /\ DOMAIN lists[p] = 1 .. n /\ DOMAIN more[p] = 1 .. n + 1
        /\ \A i \in 1 .. n : more[p][i] = lists[p][i]
        /\ more[p][n + 1] = c
    BY DEF ListedWith, Lists
  <1> HIDE DEF more, n
  <1>2. ~Unlisted(more, c.gpu, c.blk)
    BY <1>1 DEF Unlisted
  <1>3. \A i \in DOMAIN lists[p] : i \in DOMAIN more[p] /\ more[p][i] = lists[p][i]
    BY <1>1
  <1>4. \A h, d : Unlisted(more, h, d) => Unlisted(lists, h, d)
    BY <1>1, <1>3 DEF Unlisted
  <1>5. QED
    BY <1>2, <1>4 DEF NoneFree, NoneFreeBut, Free, more

LEMMA IssueCovers ==
  ASSUME NEW lost, NEW cache, NEW lists, NEW issues \in Issues, NEW made,
         NEW p \in Pages, NEW c \in Chunk, issues[p] = None,
         NoneFreeBut(lost, cache, lists, issues, made, c.gpu, c.blk)
  PROVE  NoneFree(lost, cache, lists, [issues EXCEPT ![p] = c], made)
  <1> DEFINE more == [issues EXCEPT ![p] = c]
  <1>1. more[p] = c /\ \A q \in Pages : q # p => more[q] = issues[q]
    BY DEF Issues
  <1> HIDE DEF more
  <1>2. ~Unissued(more, c.gpu, c.blk)
    BY <1>1 DEF Unissued
  <1>3. \A h \in GPUs : \A d : Unissued(more, h, d) => Unissued(issues, h, d)
    BY <1>1, NoneIsNoChunk DEF Unissued
  <1>4. QED
    BY <1>2, <1>3 DEF NoneFree, NoneFreeBut, Free, more

LEMMA GiveUpLeaves ==
  ASSUME NEW lost, NEW cache, NEW lists, NEW issues \in Issues, NEW made,
         NEW p \in Pages, NoneFree(lost, cache, lists, issues, made)
  PROVE  NoneFreeBut(lost, cache, lists, [issues EXCEPT ![p] = None], made,
                     issues[p].gpu, issues[p].blk)
  <1> DEFINE rest == [issues EXCEPT ![p] = None]
  <1>1. \A q \in Pages : q # p => rest[q] = issues[q]
    BY DEF Issues
  <1> HIDE DEF rest
  <1>2. \A h, d : Unissued(rest, h, d)
                    => Unissued(issues, h, d) \/ (h = issues[p].gpu /\ d = issues[p].blk)
    BY <1>1 DEF Unissued
  <1>3. QED
    BY <1>2 DEF NoneFree, NoneFreeBut, Free, rest

(* The caches after the first m chunks of a page are given up hold those   *)
(* and what they held before.                                              *)
LEMMA ReleasedHolds ==
  ASSUME Base, NEW p \in Pages, NEW m \in 0 .. Len(pages[p].vram)
  PROVE  /\ \A g \in GPUs : \A b : Uncached(Released(p, m), g, b) => Uncached(vram_free, g, b)
         /\ \A i \in 1 .. m : ~Uncached(Released(p, m), PageLists[p][i].gpu, PageLists[p][i].blk)
  <1> DEFINE cache == Released(p, m)
             l == PageLists[p]
  <1>1. /\ l = pages[p].vram /\ l \in Seq(Chunk) /\ Len(l) \in Nat /\ DOMAIN l = 1 .. Len(l)
        /\ m \in Nat /\ 1 .. m \subseteq DOMAIN l
    BY EmptyList
  <1>2. \A i \in DOMAIN l : l[i].gpu \in GPUs /\ l[i].blk \in Nat
    BY BaseTypes, ChunkOfList
  <1>3. ASSUME NEW g \in GPUs, NEW b \in Nat, cache[g] = Append(vram_free[g], b)
        PROVE  ~Uncached(cache, g, b) /\ \A c : Uncached(cache, g, c) => Uncached(vram_free, g, c)
    <2> DEFINE s == vram_free[g]
               t == cache[g]
    <2>1. s \in Seq(Nat)
      BY BaseTypes DEF Cache
    <2>2. /\ Len(s) \in Nat /\ DOMAIN s = 1 .. Len(s) /\ DOMAIN t = 1 .. Len(s) + 1
          /\ \A k \in 1 .. Len(s) : t[k] = s[k]
          /\ t[Len(s) + 1] = b
      BY <1>3, <2>1
    <2> HIDE DEF t, cache
    <2>3. \A k \in DOMAIN s : k \in DOMAIN t /\ t[k] = s[k]
      BY <2>2
    <2>4. Len(s) + 1 \in DOMAIN t
      BY <2>2
    <2>5. QED
      BY <2>2, <2>3, <2>4 DEF Uncached, t
  <1>4. ASSUME NEW g \in GPUs, NEW i \in ChunkHere(p, m, g)
        PROVE  cache[g] = Append(vram_free[g], l[i].blk)
    <2>1. ChunkHere(p, m, g) \subseteq Nat /\ ChunkHere(p, m, g) # {}
      BY <1>4 DEF ChunkHere
    <2>2. Min(ChunkHere(p, m, g)) \in ChunkHere(p, m, g)
      BY <2>1, LeastElement
    <2>3. \A j \in ChunkHere(p, m, g) : j \in DOMAIN l /\ l[j].gpu = g
      BY <1>1 DEF ChunkHere
    <2>4. Min(ChunkHere(p, m, g)) = i
      BY <2>2, <2>3 DEF Base, Distinct
    <2>5. QED
      BY <1>1, <2>1, <2>4 DEF Released
  <1> HIDE DEF cache
  <1>5. ASSUME NEW i \in 1 .. m PROVE ~Uncached(cache, l[i].gpu, l[i].blk)
    <2>1. i \in ChunkHere(p, m, l[i].gpu) /\ l[i].gpu \in GPUs /\ l[i].blk \in Nat
      BY <1>1, <1>2 DEF ChunkHere
    <2>2. QED
      BY <1>3, <1>4, <2>1
  <1>6. ASSUME NEW g \in GPUs, NEW c, Uncached(cache, g, c) PROVE Uncached(vram_free, g, c)
    <2>1. CASE cache[g] = vram_free[g]
      BY <1>6, <2>1 DEF Uncached
    <2>2. CASE \E i \in 1 .. m : i \in DOMAIN l /\ cache[g] = Append(vram_free[g], l[i].blk)
      BY <1>2, <1>3, <1>6, <2>2
    <2>3. QED
      BY <2>1, <2>2, BaseTypes, ReleasedIs DEF cache
  <1>7. QED
    BY <1>5, <1>6 DEF cache

LEMMA ReleaseCovers ==
  ASSUME NEW lost, Base, NEW p \in Pages,
         NoneFree(lost, vram_free, PageLists, inflight, dev)
  PROVE  NoneFree(lost, Released(p, Len(pages[p].vram)), Emptied(PageLists, p), inflight, dev)
  <1> DEFINE m == Len(pages[p].vram)
             cache == Released(p, m)
             lists == Emptied(PageLists, p)
  <1>1. m \in Nat /\ m \in 0 .. m /\ DOMAIN PageLists[p] = 1 .. m
    BY EmptyList
  <1>2. /\ \A g \in GPUs : \A b : Uncached(cache, g, b) => Uncached(vram_free, g, b)
        /\ \A i \in 1 .. m : ~Uncached(cache, PageLists[p][i].gpu, PageLists[p][i].blk)
    BY <1>1, ReleasedHolds
  <1>3. \A q \in Pages : q # p => lists[q] = PageLists[q]
    BY BaseTypes DEF Emptied, Lists
  <1> HIDE DEF m, cache, lists
  <1>4. \A g \in GPUs : \A b : Uncached(cache, g, b) /\ Unlisted(lists, g, b) => Unlisted(PageLists, g, b)
    BY <1>1, <1>2, <1>3 DEF Unlisted
  <1>5. QED
    BY <1>2, <1>4 DEF NoneFree, Free, cache, lists, m

LEMMA AccessKeepsBlocks ==
  ASSUME NEW lost, Base, NoneFree(lost, vram_free, PageLists, inflight, dev),
         NEW p \in Pages, NEW g \in GPUs, AccessPage(p, g), result' \notin LosingEnds
  PROVE  NoneFree(lost, vram_free, PageLists, inflight, dev)'
  <1>1. /\ vram_free \in Cache /\ PageLists \in Lists /\ inflight \in Issues /\ dev \in Devs
        /\ NoneFree(lost, vram_free, PageLists, inflight, dev)
    BY BaseTypes
  <1>2. /\ file' = file /\ inflight' = [inflight EXCEPT ![p] = None]
        /\ ClaimEnds(p, g) \/ PromoteEnds(p, g)
    BY AccessCases
  <1>3. inflight' \in Issues
    BY <1>1, <1>2, MadeGivenUp, BaseTypes
  <1>4. ASSUME pages' \in {pages, Touched(p)} PROVE PageLists' = PageLists
    BY <1>4, BaseTypes, TouchedKeeps DEF Alike, PageLists
  <1>5. NoneFreeBut(lost, vram_free, PageLists, inflight', dev, inflight[p].gpu, inflight[p].blk)
    BY <1>1, <1>2, GiveUpLeaves
  <1>6. CASE ClaimEnds(p, g)
    <2>1. /\ inflight[p] # None /\ inflight[p].gpu = g
          /\ inflight[p].blk \in Nat /\ inflight[p].size \in Nat
          /\ dev' = dev /\ vram_free' = vram_free
      BY <1>1, <1>6, ChunkOfIssue DEF ClaimEnds
    <2>2. pages' = Promoted(p, g, inflight[p].blk, inflight[p].size)
      BY <1>6, <2>1 DEF ClaimEnds
    <2> DEFINE c == ChunkAt(g, inflight[p].blk, inflight[p].size)
    <2>3. ChunksOn(p, g) = {}
      BY <2>1, EmptyList DEF Base, NoChunksBelow, Prefetched, ChunksOn
    <2>4. c \in Chunk /\ PageLists' = ListedWith(PageLists, p, c)
      BY <1>2, <2>1, <2>2, <2>3, GainKeeps
    <2>5. c.gpu = inflight[p].gpu /\ c.blk = inflight[p].blk
      BY <2>1 DEF ChunkAt
    <2> HIDE DEF c
    <2>6. NoneFreeBut(lost, vram_free, PageLists, inflight', dev, c.gpu, c.blk)
      BY <1>5, <2>5
    <2>7. NoneFree(lost, vram_free, PageLists', inflight', dev)
      BY <1>1, <2>4, <2>6, ListCovers
    <2>8. QED
      BY <2>1, <2>7
  <1>7. CASE PromoteEnds(p, g)
    <2> DEFINE cache == CacheAfterDiscard(p, g)
    <2>1. /\ cache \in Cache /\ Made(cache, PageLists, inflight', dev)
          /\ inflight[p] = None => inflight' = inflight /\ cache = vram_free
          /\ inflight[p] # None => cache = Recycled(vram_free, inflight[p].gpu, inflight[p].blk)
      BY <1>2, AfterDiscard
    <2>2. \/ Stayed(p, cache)
          \/ \E n \in Nat, data \in Data :
               \E a \in VramBlocks(cache, g, n) : Moved(p, g, n, data, a)
      BY <1>7 DEF PromoteEnds
    <2> HIDE DEF cache
    <2>3. NoneFree(lost, cache, PageLists, inflight', dev)
      <3>1. CASE inflight[p] = None
        BY <1>1, <2>1, <3>1
      <3>2. CASE inflight[p] # None
        <4>1. inflight[p].gpu \in GPUs /\ inflight[p].blk \in Nat
          BY <1>1, <3>2, ChunkOfIssue
        <4>2. QED
          BY <1>1, <1>5, <2>1, <3>2, <4>1, RecycleCovers
      <3>3. QED
        BY <3>1, <3>2
    <2>4. CASE Stayed(p, cache)
      BY <1>4, <2>3, <2>4 DEF Stayed
    <2>5. ASSUME NEW n \in Nat, NEW data \in Data, NEW a \in VramBlocks(cache, g, n),
                 Moved(p, g, n, data, a)
          PROVE  NoneFree(lost, vram_free, PageLists, inflight, dev)'
      <3>1. /\ a.cache \in Cache /\ a.blk \in Nat /\ a.new \in BOOLEAN
            /\ IF a.new THEN a.blk = Len(dev[g]) + 1
               ELSE a.blk \in DOMAIN dev[g] /\ dev[g][a.blk].size = n
        BY <1>1, <1>3, <2>1, BlockTyped
      <3>2. dev' = Filled(g, a, n, data) /\ OneBlock(g, a)
        BY <2>5, <3>1 DEF Moved, OneBlock
      <3>3. /\ \A h \in GPUs : h # g => dev'[h] = dev[h]
            /\ DOMAIN dev'[g] = DOMAIN dev[g] \cup {a.blk}
        <4>1. dev \in Devs
          BY <1>1
        <4>2. /\ dev' \in Devs
              /\ \A h \in GPUs : h # g => dev'[h] = dev[h]
              /\ DOMAIN dev'[g] = DOMAIN dev[g] \cup {a.blk}
          BY ONLY <3>2, <4>1, FilledIs, n \in Nat, data \in Data, g \in GPUs
        <4>3. QED
          BY <4>2
      <3>4. NoneFreeBut(lost, a.cache, PageLists, inflight', dev', g, a.blk)
        BY <1>1, <2>1, <2>3, <3>3, BlockTakenLeaves
      <3>5. CASE Gained(p, g, n, a) /\ ChunksOn(p, g) = {}
        <4> DEFINE c == ChunkAt(g, a.blk, n)
        <4>1. c \in Chunk /\ PageLists' = ListedWith(PageLists, p, c)
          BY <1>2, <3>1, <3>5, GainKeeps DEF Gained
        <4>2. c.gpu = g /\ c.blk = a.blk
          BY DEF ChunkAt
        <4> HIDE DEF c
        <4>3. NoneFreeBut(lost, a.cache, PageLists, inflight', dev', c.gpu, c.blk)
          BY <3>4, <4>2
        <4>4. NoneFree(lost, a.cache, PageLists', inflight', dev')
          BY <1>1, <4>1, <4>3, ListCovers
        <4>5. QED
          BY <3>5, <4>4 DEF Gained
      <3>6. CASE Returned(g, a)
        <4>1. NoneFree(lost, Recycled(a.cache, g, a.blk), PageLists, inflight', dev')
          BY <3>1, <3>4, RecycleCovers
        <4>2. PageLists' = PageLists
          BY <1>4, <3>6 DEF Returned
        <4>3. QED
          BY <3>6, <4>1, <4>2 DEF Returned
      <3>7. ~Lost(g, a)
        BY DEF Lost
      <3>8. QED
        BY <2>5, <3>5, <3>6, <3>7 DEF Moved
    <2>6. QED
      BY <2>2, <2>4, <2>5
  <1>8. QED
    BY <1>2, <1>6, <1>7

LEMMA DemoteKeepsBlocks ==
  ASSUME NEW lost, Base, NoneFree(lost, vram_free, PageLists, inflight, dev),
         NEW p \in Pages, DemotePage(p)
  PROVE  NoneFree(lost, vram_free, PageLists, inflight, dev)'
  <1>1. /\ dev' = dev /\ inflight' = inflight
        /\ NotDemoted \/ Demoted(p) \/ \E m \in 0 .. N : HalfDemoted(p, m)
    BY BaseTypes, DemoteCases
  <1>2. NoneFree(lost, vram_free, PageLists, inflight, dev)
    OBVIOUS
  <1>3. pages' = pages => PageLists' = PageLists
    BY DEF PageLists
  <1>4. CASE NotDemoted
    BY <1>1, <1>2, <1>3, <1>4 DEF NotDemoted
  <1>5. CASE Demoted(p)
    <2>1. pages[p] \in Page /\ pages \in [Pages -> Page]
      BY BaseTypes DEF PageTypes
    <2>2. DemotedPage(p).vram = << >>
      BY <2>1 DEF DemotedPage, Page
    <2>3. pages'[p].vram = << >> /\ \A q \in Pages : q # p => pages'[q] = pages[q]
      BY <1>5, <2>1, <2>2 DEF Demoted
    <2>4. PageLists' = Emptied(PageLists, p)
      BY <2>3 DEF PageLists, Emptied
    <2>5. QED
      BY <1>1, <1>2, <1>5, <2>4, ReleaseCovers DEF Demoted
  <1>6. ASSUME NEW m \in 0 .. N, HalfDemoted(p, m)
        PROVE  NoneFree(lost, vram_free, PageLists, inflight, dev)'
    <2>1. m \in 0 .. Len(pages[p].vram) /\ vram_free' = Released(p, m) /\ pages' = pages
      BY <1>6, EmptyList, PoolAssumption DEF HalfDemoted
    <2>2. \A g \in GPUs : \A b : Uncached(vram_free', g, b) => Uncached(vram_free, g, b)
      BY <2>1, ReleasedHolds
    <2>3. QED
      BY <1>1, <1>2, <1>3, <2>1, <2>2 DEF NoneFree, Free
  <1>7. QED
    BY <1>1, <1>4, <1>5, <1>6

LEMMA PrefetchKeepsBlocks ==
  ASSUME NEW lost, Base, NoneFree(lost, vram_free, PageLists, inflight, dev),
         NEW p \in Pages, NEW g \in GPUs, Prefetch(p, g), result' \notin LosingEnds
  PROVE  NoneFree(lost, vram_free, PageLists, inflight, dev)'
  <1>1. /\ pages' = pages /\ inflight[p] = None
        /\ \/ UNCHANGED <<dev, vram_free, inflight, stream>>
           \/ \E a \in VramBlocks(vram_free, g, PageSize[p]) :
                /\ Allotted(p, g, a)
                /\ PrefetchIssued(p, g, a) \/ PrefetchLost(p, g, a) \/ PrefetchReturned(p, g, a)
    BY PrefetchCases
  <1>2. /\ vram_free \in Cache /\ PageLists \in Lists /\ inflight \in Issues /\ dev \in Devs
        /\ NoneFree(lost, vram_free, PageLists, inflight, dev)
        /\ PageLists' = PageLists
    BY <1>1, BaseTypes DEF PageLists
  <1>3. CASE UNCHANGED <<dev, vram_free, inflight, stream>>
    BY <1>2, <1>3
  <1>4. ASSUME NEW a \in VramBlocks(vram_free, g, PageSize[p]),
               Allotted(p, g, a), PrefetchIssued(p, g, a)
        PROVE  NoneFree(lost, vram_free, PageLists, inflight, dev)'
    <2>1. PageSize[p] \in Nat
      BY Sizes
    <2>2. /\ a.blk \in Nat
          /\ \A h \in GPUs : h # g => dev'[h] = dev[h]
          /\ DOMAIN dev'[g] = DOMAIN dev[g] \cup {a.blk}
      BY <1>4, AllottedIs
    <2>3. NoneFreeBut(lost, a.cache, PageLists, inflight, dev', g, a.blk)
      BY <1>2, <2>1, <2>2, BlockTakenLeaves
    <2> DEFINE t == Target(p, g, a.blk)
    <2>4. t \in Chunk /\ t.gpu = g /\ t.blk = a.blk
      BY <2>1, <2>2 DEF Target, Chunk
    <2>5. vram_free' = a.cache /\ inflight' = [inflight EXCEPT ![p] = t]
      BY <1>4 DEF PrefetchIssued
    <2> HIDE DEF t
    <2>6. NoneFreeBut(lost, a.cache, PageLists, inflight, dev', t.gpu, t.blk)
      BY <2>3, <2>4
    <2>7. NoneFree(lost, a.cache, PageLists, inflight', dev')
      BY <1>1, <1>2, <2>4, <2>5, <2>6, IssueCovers
    <2>8. QED
      BY <1>2, <2>5, <2>7
  <1>5. ASSUME NEW a \in VramBlocks(vram_free, g, PageSize[p]),
               Allotted(p, g, a), PrefetchReturned(p, g, a)
        PROVE  NoneFree(lost, vram_free, PageLists, inflight, dev)'
    <2>1. /\ a.blk \in Nat /\ a.cache \in Cache
          /\ \A h \in GPUs : h # g => dev'[h] = dev[h]
          /\ DOMAIN dev'[g] = DOMAIN dev[g] \cup {a.blk}
      BY <1>2, <1>5, Sizes, AllottedIs, BlockTyped, BaseTypes
    <2>2. NoneFreeBut(lost, a.cache, PageLists, inflight, dev', g, a.blk)
      BY <1>2, <2>1, Sizes, BlockTakenLeaves
    <2>3. NoneFree(lost, Recycled(a.cache, g, a.blk), PageLists, inflight, dev')
      BY <2>1, <2>2, RecycleCovers
    <2>4. QED
      BY <1>2, <1>5, <2>3 DEF PrefetchReturned
  <1>6. QED
    BY <1>1, <1>3, <1>4, <1>5 DEF PrefetchLost

LEMMA KeptStep ==
  ASSUME NEW lost, Table, NoneFree(lost, vram_free, PageLists, inflight, dev),
         "names" \in Careful, Step, result' \notin LosingEnds
  PROVE  NoneFree(lost, vram_free, PageLists, inflight, dev)'
  <1>1. Base /\ DeadEmpty /\ NoneFree(lost, vram_free, PageLists, inflight, dev)
    BY DEF Table
  <1> DEFINE Goal == NoneFree(lost, vram_free, PageLists, inflight, dev)'
  <1>2. ASSUME NEW p \in Pages, Allocate(p) PROVE Goal
    <2>1. PageLists' = Emptied(PageLists, p) /\ UNCHANGED <<dev, vram_free, inflight>>
      BY <1>1, <1>2, AllocatePages DEF Allocate
    <2>2. PageLists[p] = << >>
      BY <1>1, <1>2 DEF Allocate, Named, DeadEmpty
    <2>3. PageLists' = PageLists
      BY <1>1, <2>1, <2>2, BaseTypes DEF Emptied, Lists
    <2>4. QED
      BY <1>1, <2>1, <2>3
  <1>3. ASSUME NEW p \in Pages, Deallocate(p) PROVE Goal
    <2>1. UNCHANGED <<dev, inflight>> /\ (Dropped(p) \/ UNCHANGED <<vram_free, host, pages, latest>>)
      BY <1>3, DeallocateCases
    <2>2. CASE Dropped(p)
      BY <1>1, <2>1, <2>2, DropPages, ReleaseCovers DEF Dropped
    <2>3. CASE UNCHANGED <<vram_free, host, pages, latest>>
      BY <1>1, <2>1, <2>3 DEF PageLists
    <2>4. QED
      BY <2>1, <2>2, <2>3
  <1>4. ASSUME Quiet PROVE Goal
    BY <1>1, <1>4 DEF Quiet, NoneFree
  <1>5. QED
    BY <1>1, <1>2, <1>3, <1>4, AccessKeepsBlocks, DemoteKeepsBlocks, PrefetchKeepsBlocks DEF Step

LEMMA FiniteListed ==
  ASSUME Base, IsFiniteSet(Pages), NEW g \in GPUs, NEW b
  PROVE  IsFiniteSet(Listed(g, b))
  <1> DEFINE L == Listed(g, b)
             S == {p \in Pages : \E i \in DOMAIN PageLists[p] :
                     PageLists[p][i].gpu = g /\ PageLists[p][i].blk = b}
             at(p) == CHOOSE i \in DOMAIN PageLists[p] :
                        PageLists[p][i].gpu = g /\ PageLists[p][i].blk = b
             F == [p \in S |-> <<p, at(p)>>]
  <1>1. IsFiniteSet(S)
    BY FS_Subset
  <1>2. \A p \in S : /\ at(p) \in DOMAIN PageLists[p]
                     /\ PageLists[p][at(p)].gpu = g /\ PageLists[p][at(p)].blk = b
    OBVIOUS
  <1> HIDE DEF at
  <1>3. \A p \in S : F[p] \in L
    BY <1>2, ListedIs
  <1>4. \A c \in L : \E p \in S : F[p] = c
    <2>1. SUFFICES ASSUME NEW c \in L PROVE \E p \in S : F[p] = c
      OBVIOUS
    <2>2. PICK p \in Pages : \E i \in DOMAIN PageLists[p] :
            c = <<p, i>> /\ PageLists[p][i].gpu = g /\ PageLists[p][i].blk = b
      BY ListedIs
    <2>3. PICK i \in DOMAIN PageLists[p] :
            c = <<p, i>> /\ PageLists[p][i].gpu = g /\ PageLists[p][i].blk = b
      BY <2>2
    <2>4. p \in S
      BY <2>3
    <2>5. at(p) = i
      BY <1>2, <2>3, <2>4 DEF Base, Distinct
    <2>6. QED
      BY <2>3, <2>4, <2>5
  <1>5. F \in Surjection(S, L)
    BY <1>3, <1>4, Zenon DEF Surjection
  <1>6. QED
    BY <1>1, <1>5, FS_Surjection

LEMMA FiniteOwners ==
  ASSUME Base, IsFiniteSet(Pages), NEW g \in GPUs, NEW b
  PROVE  IsFiniteSet(Cached(g, b)) /\ IsFiniteSet(Pending(g, b))
  <1>1. IsFiniteSet(Cached(g, b))
    <2>1. vram_free[g] \in Seq(Nat)
      BY BaseTypes DEF Cache
    <2>2. Len(vram_free[g]) \in Nat /\ DOMAIN vram_free[g] = 1 .. Len(vram_free[g])
      BY <2>1
    <2>3. IsFiniteSet(1 .. Len(vram_free[g]))
      BY <2>2, FS_Interval
    <2>4. QED
      BY <2>2, <2>3, FS_Subset DEF Cached
  <1>2. IsFiniteSet(Pending(g, b))
    BY FS_Subset DEF Pending
  <1>3. QED
    BY <1>1, <1>2

(* Counting: a block that is not free has an owner. *)
LEMMA OwnedIsCounted ==
  ASSUME Base, IsFiniteSet(Pages), NEW g \in GPUs, NEW b,
         ~Free(vram_free, PageLists, inflight, g, b)
  PROVE  Owners(g, b) >= 1
  <1> DEFINE C == Cached(g, b)
             L == Listed(g, b)
             P == Pending(g, b)
  <1>1. IsFiniteSet(C)
    BY FiniteOwners
  <1>2. IsFiniteSet(L)
    BY FiniteListed
  <1>3. IsFiniteSet(P)
    BY FiniteOwners
  <1>4. C # {} \/ L # {} \/ P # {}
    BY ListedIs DEF Free, Uncached, Unlisted, Unissued, Cached, Pending
  <1>5. \A T : IsFiniteSet(T) => Cardinality(T) \in Nat /\ (T # {} => Cardinality(T) # 0)
    BY FS_CardinalityType, FS_EmptySet
  <1>6. /\ Cardinality(C) \in Nat /\ Cardinality(L) \in Nat /\ Cardinality(P) \in Nat
        /\ Cardinality(C) # 0 \/ Cardinality(L) # 0 \/ Cardinality(P) # 0
    BY <1>1, <1>2, <1>3, <1>4, <1>5
  <1> HIDE DEF C, L, P
  <1>7. Cardinality(C) + Cardinality(L) + Cardinality(P) >= 1
    BY <1>6
  <1>8. QED
    BY <1>7 DEF Owners, C, L, P

(* Counting: a free block has none. *)
LEMMA FreeIsUncounted ==
  ASSUME Base, NEW g \in GPUs, NEW b, Free(vram_free, PageLists, inflight, g, b)
  PROVE  Owners(g, b) = 0
  <1>1. Cached(g, b) = {} /\ Listed(g, b) = {} /\ Pending(g, b) = {}
    BY ListedIs DEF Free, Uncached, Unlisted, Unissued, Cached, Pending
  <1>2. QED
    BY <1>1, FS_EmptySet DEF Owners

(* A block that has no owner is in none of the three places. *)
LostIsFree ==
  \A g \in GPUs : \A b \in DOMAIN dev[g] :
    Owners(g, b) = 0 <=> Free(vram_free, PageLists, inflight, g, b)

LEMMA LeakedIs ==
  \A g \in GPUs : \A b \in DOMAIN dev[g] : <<g, b>> \in Leaked <=> Owners(g, b) = 0
  BY DEF Leaked, Blocks

(* As long as names are not reused, no call that ends well, finds no       *)
(* memory or fails to read the spill file leaves a device block in no      *)
(* place, whatever else fails and whatever callers drop or write under a   *)
(* prefetch: only a full ring (src/src/tiered.rs:611), a driver error      *)
(* after the block was taken (620-623, 1024-1068) and the claim for a page *)
(* that is gone (1093) lose one.                                           *)
THEOREM OnlyErrorsLoseBlocks ==
  ASSUME IsFiniteSet(Pages), "names" \in Careful
  PROVE  Spec => OnlyErrorsLeak
  <1> DEFINE A == Leaked' \subseteq Leaked \/ result' \in LosingEnds
  <1>1. Table => LostIsFree
    BY OwnedIsCounted, FreeIsUncounted DEF Table, LostIsFree
  <1>2. Table /\ LostIsFree /\ LostIsFree' /\ [Next]_vars => [A]_vars
    <2> SUFFICES ASSUME Table, LostIsFree, LostIsFree', [Next]_vars, result' \notin LosingEnds
                 PROVE  Leaked' \subseteq Leaked
      OBVIOUS
    <2>1. PICK lost : lost = Leaked
      OBVIOUS
    <2>2. NoneFree(lost, vram_free, PageLists, inflight, dev)
      BY <2>1, LeakedIs DEF LostIsFree, NoneFree
    <2>3. NoneFree(lost, vram_free, PageLists, inflight, dev)'
      BY <2>2, StepCases, KeptStep DEF Table
    <2>4. SUFFICES ASSUME NEW x \in Leaked' PROVE x \in Leaked
      OBVIOUS
    <2>5. PICK g \in GPUs : x \in {<<g, b>> : b \in {c \in Blocks(g)' : Owners(g, c)' = 0}}
      BY <2>4 DEF Leaked
    <2>6. PICK b \in DOMAIN dev'[g] : x = <<g, b>> /\ Owners(g, b)' = 0
      BY <2>5 DEF Blocks
    <2>7. Free(vram_free', PageLists', inflight', g, b)
      BY <2>6 DEF LostIsFree
    <2>8. <<g, b>> \in lost
      BY <2>3, <2>6, <2>7 DEF NoneFree
    <2>9. QED
      BY <2>1, <2>6, <2>8
  <1> HIDE DEF A
  <1>3. Spec => [][A]_vars
    BY <1>1, <1>2, TableInductive, PTL DEF Spec
  <1>4. QED
    BY <1>3 DEF OnlyErrorsLeak, A, LosingEnds

-----------------------------------------------------------------------------
(* Owners, counted: the other direction of OneOwnerIs.                     *)
LEMMA TwoAreCounted ==
  ASSUME NEW S, IsFiniteSet(S), NEW i \in S, NEW j \in S, i # j
  PROVE  Cardinality(S) >= 2
  <1>1. IsFiniteSet({i}) /\ Cardinality({i}) = 1
    BY FS_Singleton
  <1>2. {i, j} = {i} \cup {j} /\ j \notin {i}
    OBVIOUS
  <1>3. IsFiniteSet({i, j}) /\ Cardinality({i, j}) = 2
    BY <1>1, <1>2, FS_AddElement
  <1>4. {i, j} \subseteq S
    OBVIOUS
  <1>5. Cardinality({i, j}) <= Cardinality(S)
    BY <1>4, FS_Subset
  <1>6. Cardinality(S) \in Nat
    BY FS_CardinalityType
  <1>7. QED
    BY <1>3, <1>5, <1>6

(* The parts of a count of at most one. *)
LEMMA OnePartOnly ==
  ASSUME NEW C, NEW L, NEW P, IsFiniteSet(C), IsFiniteSet(L), IsFiniteSet(P),
         Cardinality(C) + Cardinality(L) + Cardinality(P) <= 1
  PROVE  /\ \A i, j \in C : i = j
         /\ \A i, j \in L : i = j
         /\ \A i, j \in P : i = j
         /\ L # {} => C = {}
         /\ P # {} => C = {} /\ L = {}
  <1>1. \A T : IsFiniteSet(T) => /\ Cardinality(T) \in Nat
                                 /\ T # {} => Cardinality(T) # 0
                                 /\ \A i, j \in T : i # j => Cardinality(T) >= 2
    BY FS_CardinalityType, FS_EmptySet, TwoAreCounted
  <1> DEFINE c == Cardinality(C)
             l == Cardinality(L)
             q == Cardinality(P)
  <1>2. /\ c \in Nat /\ l \in Nat /\ q \in Nat /\ c + l + q <= 1
        /\ C # {} => c # 0
        /\ L # {} => l # 0
        /\ P # {} => q # 0
        /\ \A i, j \in C : i # j => c >= 2
        /\ \A i, j \in L : i # j => l >= 2
        /\ \A i, j \in P : i # j => q >= 2
    BY <1>1
  <1> HIDE DEF c, l, q
  <1>3. c < 2 /\ l < 2 /\ q < 2 /\ (l # 0 => c = 0) /\ (q # 0 => c = 0 /\ l = 0)
    BY <1>2
  <1>4. QED
    BY <1>2, <1>3

(* Every device block has one owner at most, in the three places ... *)
AtMostOneOwner == \A g \in GPUs : \A b \in DOMAIN dev[g] : Owners(g, b) <= 1

LEMMA OneOwnerIfCounted ==
  ASSUME Base, IsFiniteSet(Pages), AtMostOneOwner
  PROVE  OneOwnerNow
  <1>1. ASSUME NEW g \in GPUs, NEW b \in DOMAIN dev[g]
        PROVE  /\ \A i, j \in Cached(g, b) : i = j
               /\ \A c, d \in Listed(g, b) : c = d
               /\ \A p, q \in Pending(g, b) : p = q
               /\ Listed(g, b) # {} => Cached(g, b) = {}
               /\ Pending(g, b) # {} => Cached(g, b) = {} /\ Listed(g, b) = {}
    <2>1. IsFiniteSet(Cached(g, b)) /\ IsFiniteSet(Listed(g, b)) /\ IsFiniteSet(Pending(g, b))
      BY FiniteOwners, FiniteListed
    <2>2. Cardinality(Cached(g, b)) + Cardinality(Listed(g, b)) + Cardinality(Pending(g, b)) <= 1
      BY DEF AtMostOneOwner, Owners
    <2>3. QED
      BY <2>1, <2>2, OnePartOnly
  <1>2. /\ \A g \in GPUs : \A i \in DOMAIN vram_free[g] : vram_free[g][i] \in DOMAIN dev[g]
        /\ \A p \in Pages : \A i \in DOMAIN PageLists[p] :
             PageLists[p][i].gpu \in GPUs /\ PageLists[p][i].blk \in DOMAIN dev[PageLists[p][i].gpu]
        /\ \A p \in Pages : inflight[p] # None =>
             inflight[p].gpu \in GPUs /\ inflight[p].blk \in DOMAIN dev[inflight[p].gpu]
    BY BaseTypes, ChunkOfList, ChunkOfIssue DEF Made
  <1>3. CachedOnce(vram_free)
    BY <1>1, <1>2 DEF CachedOnce, Cached
  <1>4. ListedOnce(PageLists)
    <2> SUFFICES ASSUME NEW p \in Pages, NEW q \in Pages,
                        NEW i \in DOMAIN PageLists[p], NEW j \in DOMAIN PageLists[q],
                        PageLists[p][i].gpu = PageLists[q][j].gpu,
                        PageLists[p][i].blk = PageLists[q][j].blk
                 PROVE  p = q /\ i = j
      BY DEF ListedOnce
    <2> DEFINE g == PageLists[p][i].gpu
               b == PageLists[p][i].blk
    <2>1. g \in GPUs /\ b \in DOMAIN dev[g]
      BY <1>2
    <2>2. <<p, i>> \in Listed(g, b) /\ <<q, j>> \in Listed(g, b)
      BY <2>1, ListedIs
    <2> HIDE DEF g, b
    <2>3. <<p, i>> = <<q, j>>
      BY <1>1, <2>1, <2>2
    <2>4. QED
      BY <2>3
  <1>5. IssuedOnce(inflight)
    BY <1>1, <1>2 DEF IssuedOnce, Pending
  <1>6. ASSUME NEW p \in Pages, NEW i \in DOMAIN PageLists[p]
        PROVE  Uncached(vram_free, PageLists[p][i].gpu, PageLists[p][i].blk)
    <2> DEFINE g == PageLists[p][i].gpu
               b == PageLists[p][i].blk
    <2>1. g \in GPUs /\ b \in DOMAIN dev[g]
      BY <1>2
    <2>2. <<p, i>> \in Listed(g, b)
      BY <2>1, ListedIs
    <2> HIDE DEF g, b
    <2>3. Cached(g, b) = {}
      BY <1>1, <2>1, <2>2
    <2>4. QED
      BY <2>3 DEF Uncached, Cached, g, b
  <1>7. ASSUME NEW p \in Pages, inflight[p] # None
        PROVE  /\ Uncached(vram_free, inflight[p].gpu, inflight[p].blk)
               /\ Unlisted(PageLists, inflight[p].gpu, inflight[p].blk)
    <2> DEFINE g == inflight[p].gpu
               b == inflight[p].blk
    <2>1. g \in GPUs /\ b \in DOMAIN dev[g] /\ p \in Pending(g, b)
      BY <1>2, <1>7 DEF Pending
    <2> HIDE DEF g, b
    <2>2. Cached(g, b) = {} /\ Listed(g, b) = {}
      BY <1>1, <2>1
    <2>3. Uncached(vram_free, g, b)
      BY <2>2 DEF Uncached, Cached
    <2>4. Unlisted(PageLists, g, b)
      BY <2>1, <2>2, ListedIs DEF Unlisted
    <2>5. QED
      BY <2>3, <2>4 DEF g, b
  <1>8. QED
    BY <1>3, <1>4, <1>5, <1>6, <1>7 DEF OneOwnerNow, OneOwner, Apart

(* ... which is to say that none is shared. *)
SharedIsNotOne == Shared = {} <=> OneOwnerNow

LEMMA SharedIs ==
  ASSUME Base, IsFiniteSet(Pages)
  PROVE  SharedIsNotOne
  <1>1. ASSUME NEW g \in GPUs, NEW b \in DOMAIN dev[g] PROVE Owners(g, b) \in Nat
    <2>1. IsFiniteSet(Cached(g, b)) /\ IsFiniteSet(Listed(g, b)) /\ IsFiniteSet(Pending(g, b))
      BY FiniteOwners, FiniteListed
    <2>2. /\ Cardinality(Cached(g, b)) \in Nat /\ Cardinality(Listed(g, b)) \in Nat
          /\ Cardinality(Pending(g, b)) \in Nat
      BY <2>1, FS_CardinalityType
    <2>3. QED
      BY <2>2 DEF Owners
  <1>2. ASSUME NEW g \in GPUs, NEW b \in DOMAIN dev[g], Owners(g, b) > 1 PROVE Shared # {}
    <2>1. <<g, b>> \in {<<g, c>> : c \in {d \in Blocks(g) : Owners(g, d) > 1}}
      BY <1>2 DEF Blocks
    <2>2. <<g, b>> \in Shared
      BY <2>1 DEF Shared
    <2>3. QED
      BY <2>2
  <1>3. ASSUME NEW x \in Shared PROVE ~AtMostOneOwner
    <2>1. PICK g \in GPUs : x \in {<<g, c>> : c \in {d \in Blocks(g) : Owners(g, d) > 1}}
      BY <1>3 DEF Shared
    <2>2. PICK b \in DOMAIN dev[g] : Owners(g, b) > 1
      BY <2>1 DEF Blocks
    <2>3. QED
      BY <1>1, <2>2 DEF AtMostOneOwner
  <1>4. Shared = {} => AtMostOneOwner
    <2> SUFFICES ASSUME Shared = {}, NEW g \in GPUs, NEW b \in DOMAIN dev[g] PROVE Owners(g, b) <= 1
      BY DEF AtMostOneOwner
    <2>1. Owners(g, b) \in Nat /\ ~(Owners(g, b) > 1)
      BY <1>1, <1>2
    <2>2. QED
      BY <2>1
  <1>5. OneOwnerNow => AtMostOneOwner
    BY OneOwnerIs DEF OneOwnerNow, AtMostOneOwner
  <1>6. AtMostOneOwner => Shared = {}
    BY <1>3
  <1>7. QED
    BY <1>4, <1>5, <1>6, OneOwnerIfCounted DEF SharedIsNotOne

(* On any number of GPUs, whatever callers ask and whatever fails, only a  *)
(* demotion that fails after its first chunk gives a block of a pool in    *)
(* which every block has one owner a second one: it has recycled the       *)
(* blocks before and left them on the page (src/src/tiered.rs:802-853).    *)
THEOREM OnlyHalfDemotionsShareBlocks ==
  ASSUME IsFiniteSet(Pages)
  PROVE  Spec => OnlyHalfDemotionsShare
  <1> DEFINE A == Shared' # {} => Shared # {} \/ StopsHalfWay
  <1>1. Table => SharedIsNotOne
    BY SharedIs DEF Table
  <1>2. Table /\ SharedIsNotOne /\ SharedIsNotOne' /\ [Next]_vars => [A]_vars
    BY StepCases, OneOwnerStep DEF Table, SharedIsNotOne
  <1> HIDE DEF A
  <1>3. Spec => [][A]_vars
    BY <1>1, <1>2, TableInductive, PTL DEF Spec
  <1>4. QED
    BY <1>3 DEF OnlyHalfDemotionsShare, A

-----------------------------------------------------------------------------
(* Prefetches.  On one GPU a prefetch ends only when it is claimed, and a  *)
(* claim waits for its copy; so a queued copy belongs to an unclaimed      *)
(* prefetch, and its page neither moves nor goes meanwhile.  (On several   *)
(* GPUs an access elsewhere gives a prefetch up with its copy still        *)
(* queued: CachedBlocksAreQuiet is violated.)                              *)
Unmoved ==
  /\ N = 1 /\ "cuda" \notin Failures
  /\ {"names", "dealloc_prefetched"} \subseteq Careful

TargetOf(g, c) == [gpu |-> g, blk |-> c.blk, size |-> c.size]

Landing(q) ==
  /\ inflight[q] # None => pages[q].live /\ pages[q].tier = "Dram"
  /\ \A g \in GPUs : \A i \in DOMAIN stream[g] : stream[g][i].page = q =>
       /\ inflight[q] = TargetOf(g, stream[g][i])
       /\ stream[g][i].frame = pages[q].dram[1].frame

(* No copy of page q is queued. *)
NoCopy(q) == \A g \in GPUs : \A i \in DOMAIN stream[g] : stream[g][i].page # q

LEMMA NotUnderWay ==
  ASSUME NEW q \in Pages, Landing(q), inflight[q] = None
  PROVE  NoCopy(q)
  <1>1. \A g \in GPUs : \A c : TargetOf(g, c).gpu \in GPUs
    BY DEF TargetOf
  <1>2. QED
    BY <1>1, NoneIsNoChunk DEF Landing, NoCopy

LEMMA Unaffected ==
  ASSUME NEW q \in Pages, Landing(q), inflight'[q] = inflight[q],
         pages'[q].live = pages[q].live, pages'[q].tier = pages[q].tier,
         pages'[q].dram = pages[q].dram,
         \A g \in GPUs : \A i \in DOMAIN stream'[g] :
           \/ stream'[g][i].page # q
           \/ \E j \in DOMAIN stream[g] : stream'[g][i] = stream[g][j]
  PROVE  Landing(q)'
  BY DEF Landing

LEMMA AtRest ==
  ASSUME NEW q \in Pages, Landing(q), NoCopy(q), stream' = stream,
         inflight'[q] = None
  PROVE  Landing(q)'
  BY DEF Landing, NoCopy

LEMMA LandingStep ==
  ASSUME Table, Unmoved, \A q \in Pages : Landing(q), Step
  PROVE  \A q \in Pages : Landing(q)'
  <1>1. Base /\ DeadEmpty /\ inflight \in Issues
    BY BaseTypes DEF Table
  <1> DEFINE Goal == \A q \in Pages : Landing(q)'
             Others(p) == \A q \in Pages : q # p => /\ pages'[q] = pages[q]
                                                    /\ inflight'[q] = inflight[q]
  <1>2. ASSUME NEW p \in Pages, stream' = stream, Others(p), Landing(p)' PROVE Goal
    BY <1>2, Unaffected
  <1>3. ASSUME NEW p \in Pages, stream' = stream, Others(p), inflight'[p] = None,
               NoCopy(p)
        PROVE  Goal
    BY <1>2, <1>3, AtRest
  <1>4. ASSUME NEW p \in Pages, Allocate(p) PROVE Goal
    <2>1. /\ \A q \in Pages : q # p => pages'[q] = pages[q]
          /\ inflight' = inflight /\ stream' = stream
      BY <1>1, <1>4, AllocatePages DEF Allocate
    <2>2. inflight[p] = None
      BY <1>4 DEF Allocate, Named, Unmoved, Landing
    <2>3. QED
      BY <1>3, <2>1, <2>2, NotUnderWay
  <1>5. ASSUME NEW p \in Pages, Deallocate(p) PROVE Goal
    <2>1. /\ inflight' = inflight /\ stream' = stream /\ inflight[p] = None
      BY <1>5 DEF Deallocate, Unmoved, Prefetched
    <2>2. \A q \in Pages : q # p => pages'[q] = pages[q]
      BY <1>1, <1>5, DeallocateCases, DropPages
    <2>3. QED
      BY <1>3, <2>1, <2>2, NotUnderWay
  <1>6. ASSUME NEW p \in Pages, DemotePage(p), stream' = stream PROVE Goal
    <2>1. /\ inflight' = inflight
          /\ NotDemoted \/ Demoted(p) \/ \E m \in 0 .. N : HalfDemoted(p, m)
      BY <1>1, <1>6, BaseTypes, DemoteCases
    <2>2. \A q \in Pages : q # p => pages'[q] = pages[q]
      BY <1>1, <1>6, DemotePages
    <2>3. CASE Demoted(p)
      <3>1. inflight[p] = None
        BY <2>3 DEF Demoted, Landing
      <3>2. QED
        BY <1>3, <1>6, <2>1, <2>2, <3>1, NotUnderWay
    <2>4. CASE pages' = pages
      BY <1>6, <2>1, <2>4, Unaffected
    <2>5. QED
      BY <2>1, <2>3, <2>4 DEF NotDemoted, HalfDemoted
  <1>7. ASSUME NEW p \in Pages, NEW g \in GPUs, AccessPage(p, g), stream' = stream PROVE Goal
    <2>1. /\ inflight' = [inflight EXCEPT ![p] = None]
          /\ ClaimEnds(p, g) \/ PromoteEnds(p, g)
      BY <1>1, <1>7, AccessCases
    <2>2. /\ inflight'[p] = None
          /\ \A q \in Pages : q # p => pages'[q] = pages[q] /\ inflight'[q] = inflight[q]
      BY <1>1, <1>7, <2>1, AccessPages DEF Issues
    <2>3. NoCopy(p)
      <3>1. CASE inflight[p] = None
        BY <3>1, NotUnderWay
      <3>2. CASE inflight[p] # None
        <4>1. inflight[p].gpu = g /\ Landed(p)
          <5>1. inflight[p].gpu \in GPUs
            BY <1>1, <3>2, ChunkOfIssue
          <5>2. inflight[p].gpu = g
            BY <5>1 DEF Unmoved, GPUs
          <5>3. QED
            BY <2>1, <5>2 DEF ClaimEnds, PromoteEnds
        <4>2. ASSUME NEW h \in GPUs, NEW i \in DOMAIN stream[h] PROVE stream[h][i].page # p
          <5>1. h = inflight[p].gpu
            BY <4>1 DEF Unmoved, GPUs
          <5>2. QED
            BY <4>1, <5>1 DEF Landed
        <4>3. QED
          BY <4>2 DEF NoCopy
      <3>3. QED
        BY <3>1, <3>2
    <2>4. QED
      BY <1>3, <1>7, <2>2, <2>3
  <1>8. ASSUME NEW p \in Pages, NEW g \in GPUs, Prefetch(p, g) PROVE Goal
    <2>1. /\ pages' = pages /\ inflight[p] = None /\ pages[p].live /\ pages[p].tier = "Dram"
          /\ pages[p].dram # << >>
          /\ \/ UNCHANGED <<dev, vram_free, inflight, stream>>
             \/ \E a \in VramBlocks(vram_free, g, PageSize[p]) :
                  Allotted(p, g, a) /\ PrefetchIssued(p, g, a)
      BY <1>1, <1>8, PrefetchCases DEF PrefetchLost, PrefetchReturned, Unmoved
    <2>2. CASE UNCHANGED <<dev, vram_free, inflight, stream>>
      BY <2>1, <2>2, Unaffected
    <2>3. ASSUME NEW a \in VramBlocks(vram_free, g, PageSize[p]),
                 Allotted(p, g, a), PrefetchIssued(p, g, a)
          PROVE  Goal
      <3>1. a.blk \in Nat
        BY <1>1, <2>3, AllottedIs
      <3> DEFINE n == Len(stream[g])
                 c == CopyOf(p, a.blk)
      <3>2. /\ \A h \in GPUs : h # g => stream'[h] = stream[h]
            /\ n \in Nat /\ DOMAIN stream[g] = 1 .. n
            /\ DOMAIN stream'[g] = 1 .. n + 1
            /\ \A i \in 1 .. n : stream'[g][i] = stream[g][i]
            /\ stream'[g][n + 1] = c
        BY <1>1, <2>1, <2>3, <3>1, WithCopyIs DEF PrefetchIssued
      <3>3. /\ inflight'[p] = TargetOf(g, c)
            /\ \A q \in Pages : q # p => inflight'[q] = inflight[q]
        BY <1>1, <2>3 DEF PrefetchIssued, Issues, Target, TargetOf, CopyOf
      <3>4. c.page = p /\ c.frame = pages[p].dram[1].frame
        BY DEF CopyOf
      <3> HIDE DEF n, c
      <3>5. \A h \in GPUs : \A i \in DOMAIN stream'[h] :
              \/ h = g /\ stream'[h][i] = c
              \/ \E j \in DOMAIN stream[h] : stream'[h][i] = stream[h][j]
        <4>1. ASSUME NEW i \in DOMAIN stream'[g]
              PROVE  stream'[g][i] = c \/ \E j \in DOMAIN stream[g] : stream'[g][i] = stream[g][j]
          <5>1. i \in 1 .. n \/ i = n + 1
            BY <3>2
          <5>2. QED
            BY <3>2, <5>1
        <4>2. QED
          BY <3>2, <4>1
      <3>6. ASSUME NEW q \in Pages, q # p PROVE Landing(q)'
        BY <2>1, <3>3, <3>4, <3>5, <3>6, Unaffected
      <3>7. Landing(p)'
        <4>1. NoCopy(p)
          BY <2>1, NotUnderWay
        <4>2. \A h \in GPUs : \A i \in DOMAIN stream'[h] :
                stream'[h][i].page = p => h = g /\ stream'[h][i] = c
          BY <3>5, <4>1 DEF NoCopy
        <4>3. QED
          BY <2>1, <3>3, <3>4, <4>2 DEF Landing
      <3>8. QED
        BY <3>6, <3>7
    <2>4. QED
      BY <2>1, <2>2, <2>3
  <1>9. ASSUME Quiet, stream' = stream \/ \E g \in GPUs : StreamCopy(g) PROVE Goal
    <2>1. CASE stream' = stream
      BY <1>9, <2>1, Unaffected DEF Quiet
    <2>2. ASSUME NEW g \in GPUs, StreamCopy(g) PROVE Goal
      <3>1. /\ \A h \in GPUs : h # g => stream'[h] = stream[h]
            /\ \A i \in DOMAIN stream'[g] :
                 i + 1 \in DOMAIN stream[g] /\ stream'[g][i] = stream[g][i + 1]
        BY <1>1, <2>2, HeadOfStream DEF StreamCopy
      <3>2. \A h \in GPUs : \A i \in DOMAIN stream'[h] :
              \E j \in DOMAIN stream[h] : stream'[h][i] = stream[h][j]
        BY <3>1
      <3>3. QED
        BY <1>9, <3>2, Unaffected DEF Quiet
    <2>3. QED
      BY <1>9, <2>1, <2>2
  <1> HIDE DEF Goal
  <1>10. Goal
    BY <1>4, <1>5, <1>6, <1>7, <1>8, <1>9 DEF Step
  <1>11. QED
    BY <1>10 DEF Goal

THEOREM LandingInductive == ASSUME Unmoved PROVE Spec => [](\A q \in Pages : Landing(q))
  <1> DEFINE L == \A q \in Pages : Landing(q)
  <1>1. Init => L
    BY DEF Init, Landing
  <1>2. Table /\ L /\ [Next]_vars => L'
    BY StepCases, LandingStep DEF Table
  <1> HIDE DEF L
  <1>3. Spec => []L
    BY <1>1, <1>2, TableInductive, PTL DEF Spec
  <1>4. QED
    BY <1>3 DEF L

(* On one GPU whose driver does not fail, with callers who neither reuse   *)
(* names nor drop a page under its prefetch, a page on its way up stays in *)
(* DRAM, in the frame the queued copy reads, until access claims it: no    *)
(* sweep, demotion or second access gets between prefetch and its claim.   *)
THEOREM InflightIsAlwaysWarm == ASSUME Unmoved PROVE Spec => []InflightIsWarm
  <1> DEFINE L == \A q \in Pages : Landing(q)
  <1>1. Base /\ L => InflightIsWarm
    <2> SUFFICES ASSUME Base, L, NEW p \in Pages, inflight[p] # None
                 PROVE  /\ pages[p].live /\ pages[p].tier = "Dram"
                        /\ \A i \in DOMAIN stream[inflight[p].gpu] :
                             stream[inflight[p].gpu][i].page = p
                               => stream[inflight[p].gpu][i].frame = pages[p].dram[1].frame
      BY DEF InflightIsWarm, Prefetched
    <2>1. inflight[p].gpu \in GPUs
      BY BaseTypes, ChunkOfIssue
    <2>2. QED
      BY <2>1 DEF Landing
  <1>2. Spec => []L
    BY LandingInductive
  <1> HIDE DEF L
  <1>3. QED
    BY <1>1, <1>2, BaseInductive, PTL

(* Under the same hypotheses every queued copy lands in the block of the   *)
(* unclaimed prefetch that asked for it, never in a block that a page or   *)
(* the recycle cache holds by then (prefetch, claim_prefetch).             *)
THEOREM CopiesAlwaysLandInTheirPrefetch ==
  ASSUME Unmoved
  PROVE  Spec => []CopiesLandInTheirPrefetch
  <1> DEFINE L == \A q \in Pages : Landing(q)
  <1>1. Base /\ L => CopiesLandInTheirPrefetch
    <2> SUFFICES ASSUME Base, L, NEW g \in GPUs, NEW i \in DOMAIN stream[g]
                 PROVE  inflight[stream[g][i].page] = TargetOf(g, stream[g][i])
      BY DEF CopiesLandInTheirPrefetch, TargetOf
    <2>1. stream[g] \in Seq(Copy)
      BY BaseTypes
    <2>2. stream[g][i] \in Copy
      BY <2>1, ElementOfSeq
    <2>3. stream[g][i].page \in Pages
      BY <2>2 DEF Copy
    <2>4. QED
      BY <2>3 DEF Landing
  <1>2. Spec => []L
    BY LandingInductive
  <1> HIDE DEF L
  <1>3. QED
    BY <1>1, <1>2, BaseInductive, PTL

-----------------------------------------------------------------------------
(***************************************************************************)
(* Contents.  The last write of a page is where its tier field says,       *)
(* through every call, every failure and every copy the GPU executes late. *)
(* The operators on contents come first, then what a page keeps while a    *)
(* call concerns another one, then each call.                              *)
(***************************************************************************)

(* What the callers and the driver must keep to.  Pages are not renamed,   *)
(* not written while they are in VRAM or on their way there, and a copy is *)
(* not refused without notice.  With several GPUs a sharded page is on one *)
(* of them at a time, and there are no prefetches: they copy a page of     *)
(* several shards as if it were one.                                       *)
Lasting ==
  /\ {"names", "write_resident"} \subseteq Careful /\ "refused" \notin Failures
  /\ \/ "prefetch" \notin Calls /\ OneChunkEach
     \/ N = 1 /\ "write_prefetched" \in Careful

Prefetching == N = 1 /\ "write_prefetched" \in Careful

(* What GPU g has of page q when it has a chunk of it: the whole page if   *)
(* it comes from the spill file, the shard of g if it comes from DRAM.     *)
Extent(q, g) == IF pages[q].ssd # 0 THEN PageSize[q] ELSE ShardSize(q, g)
Content(q, g) == IF pages[q].ssd # 0 THEN Whole(q, latest[q]) ELSE Shard(q, g, latest[q])

Backed(q, g) == g + 1 \in DOMAIN pages[q].dram

(* The sizes: of the shards in DRAM, of the chunks, of the prefetch.       *)
Sized(q) ==
  /\ \A g \in GPUs : Backed(q, g) =>
       /\ pages[q].dram[g + 1].size = ShardSize(q, g)
       /\ Len(InDram(q, g)) = ShardSize(q, g)
  /\ \A i \in DOMAIN PageLists[q] : PageLists[q][i].size = Extent(q, PageLists[q][i].gpu)
  /\ inflight[q] # None => Prefetching /\ inflight[q].size = PageSize[q]

(* Where a page can be.  One that came from the spill file goes up and     *)
(* never down; one with contents has all its shards in DRAM, or only the   *)
(* chunk of a prefetch that outlived the page it was issued for.           *)
Situated(q) ==
  /\ pages[q].ssd # 0 => /\ pages[q].dram = << >> /\ pages[q].tier # "Dram"
                         /\ pages[q].tier = "Vram" => PageLists[q] # << >>
  /\ pages[q].ssd = 0 /\ PageLists[q] # << >> => N = 1 \/ pages[q].dram # << >>
  /\ latest[q] # 0 =>
       /\ pages[q].live
       /\ pages[q].ssd = 0 => \/ \A g \in GPUs : Backed(q, g)
                              \/ N = 1 /\ PageLists[q] # << >>

(* The contents: of the range in the spill file, of every chunk, of the    *)
(* shards whose GPU has no chunk.                                          *)
Holding(q) ==
  latest[q] # 0 =>
    /\ pages[q].tier = "Ssd" => file[pages[q].ssd] = Whole(q, latest[q])
    /\ \A i \in DOMAIN PageLists[q] :
         dev[PageLists[q][i].gpu][PageLists[q][i].blk].data = Content(q, PageLists[q][i].gpu)
    /\ pages[q].ssd = 0 => \A g \in GPUs : Backed(q, g) /\ ChunksOn(q, g) = {}
                                              => InDram(q, g) = Content(q, g)

Good(q) == Sized(q) /\ Situated(q) /\ Holding(q)

(* Two cold pages have two ranges of the spill file. *)
OwnRanges == \A p, q \in Pages : pages[p].ssd # 0 /\ pages[p].ssd = pages[q].ssd => p = q

(* A queued copy lands in the block of a prefetch of its page, or in one   *)
(* that nobody can get any more.                                           *)
Aimed ==
  \A g \in GPUs : \A i \in DOMAIN stream[g] :
    /\ N = 1
    /\ Uncached(vram_free, g, stream[g][i].blk) /\ Unlisted(PageLists, g, stream[g][i].blk)
    /\ \A q \in Pages : inflight[q].gpu = g /\ inflight[q].blk = stream[g][i].blk
                          => q = stream[g][i].page

(* The block of a prefetch holds the page, or a copy of it is queued; and  *)
(* what is queued for it is a copy of the page.                            *)
Arriving(q) ==
  inflight[q] # None /\ latest[q] # 0 =>
    LET g == inflight[q].gpu
        b == inflight[q].blk
    IN  /\ pages[q].ssd = 0
        /\ \A i \in DOMAIN stream[g] : stream[g][i].blk = b =>
             stream[g][i].frame = pages[q].dram[1].frame /\ stream[g][i].size = PageSize[q]
        /\ \/ dev[g][b].data = Whole(q, latest[q])
           \/ \E i \in DOMAIN stream[g] : stream[g][i].blk = b

Lasts == (\A q \in Pages : Good(q) /\ Arriving(q)) /\ OwnRanges /\ Aimed

-----------------------------------------------------------------------------
(* Contents of the full length. *)
LEMMA WholePrefix == ASSUME NEW d \in Data PROVE Prefix(d, Len(d)) = d
  <1>1. Len(d) \in Nat /\ DOMAIN d = 1 .. Len(d) /\ d = [u \in 1 .. Len(d) |-> d[u]]
    BY DEF Data
  <1>2. Prefix(d, Len(d)) = [u \in 1 .. Len(d) |-> d[u]]
    BY <1>1 DEF Prefix
  <1>3. QED
    BY <1>1, <1>2

LEMMA WholeOverwrite ==
  ASSUME NEW d \in Data, NEW e \in Data
  PROVE  Len(Overwrite(d, e)) = Len(d) /\ (Len(d) = Len(e) => Overwrite(d, e) = e)
  <1>1. /\ Len(d) \in Nat /\ DOMAIN d = 1 .. Len(d)
        /\ Len(e) \in Nat /\ DOMAIN e = 1 .. Len(e) /\ e = [u \in 1 .. Len(e) |-> e[u]]
    BY DEF Data
  <1>2. Overwrite(d, e) \in Seq(Units)
    BY Contents DEF Data
  <1>3. DOMAIN Overwrite(d, e) = 1 .. Len(d)
    BY <1>1 DEF Overwrite
  <1>4. Len(Overwrite(d, e)) = Len(d)
    BY <1>1, <1>2, <1>3
  <1>5. ASSUME Len(d) = Len(e) PROVE Overwrite(d, e) = e
    <2>1. Overwrite(d, e) = [u \in 1 .. Len(e) |-> e[u]]
      BY <1>1, <1>5 DEF Overwrite
    <2>2. QED
      BY <1>1, <2>1
  <1>6. QED
    BY <1>4, <1>5

LEMMA Lengths ==
  /\ \A n \in Nat : Len(Junk(n)) = n
  /\ \A p \in Pages, w \in Nat : Len(Whole(p, w)) = PageSize[p]
  /\ \A p \in Pages, g \in GPUs, w \in Nat : Len(Shard(p, g, w)) = ShardSize(p, g)
  <1>1. ASSUME NEW d \in Data, NEW n \in Nat, DOMAIN d = 1 .. n PROVE Len(d) = n
    BY <1>1 DEF Data
  <1>2. \A n \in Nat : DOMAIN Junk(n) = 1 .. n
    BY DEF Junk
  <1>3. \A p \in Pages, w \in Nat : DOMAIN Whole(p, w) = 1 .. PageSize[p]
    BY DEF Whole
  <1>4. \A p \in Pages, g \in GPUs, w \in Nat : DOMAIN Shard(p, g, w) = 1 .. ShardSize(p, g)
    BY DEF Shard
  <1>5. QED
    BY <1>1, <1>2, <1>3, <1>4, Contents, Sizes

(* The shard of the only GPU is the page, and those of several are less. *)
LEMMA OneShard ==
  ASSUME N = 1, NEW p \in Pages
  PROVE  /\ GPUs = {0} /\ ShardSize(p, 0) = PageSize[p]
         /\ \A w : Shard(p, 0, w) = Whole(p, w)
  <1>1. PageSize[p] \in Nat
    BY Sizes
  <1>2. ShardSize(p, 0) = PageSize[p]
    BY <1>1 DEF ShardSize
  <1>3. PageSize[p] \div N \in Nat
    BY <1>1
  <1>4. ShardFrom(p, 0) = 0
    BY <1>3 DEF ShardFrom
  <1>5. ASSUME NEW w PROVE Shard(p, 0, w) = Whole(p, w)
    <2>1. Shard(p, 0, w) = [u \in 1 .. PageSize[p] |-> <<w, 0 + u>>]
      BY <1>2, <1>4 DEF Shard
    <2>2. \A u \in 1 .. PageSize[p] : 0 + u = u
      BY <1>1
    <2>3. QED
      BY <2>1, <2>2 DEF Whole
  <1>6. QED
    BY <1>2, <1>5 DEF GPUs

LEMMA ShardIsLess ==
  ASSUME N # 1, NEW p \in Pages, NEW g \in GPUs
  PROVE  ShardSize(p, g) < PageSize[p]
  <1> DEFINE d == PageSize[p] \div N
             r == PageSize[p] % N
  <1>1. N \in Nat /\ N > 1 /\ PageSize[p] \in Nat /\ PageSize[p] >= N
    BY PoolAssumption
  <1>2. d \in Nat /\ r \in Nat /\ PageSize[p] = N * d + r /\ r < N
    BY <1>1
  <1>3. d >= 1
    <2>1. d = 0 => PageSize[p] = r
      BY <1>1, <1>2
    <2>2. d \in Nat /\ PageSize[p] \in Nat /\ r < N /\ PageSize[p] >= N
          /\ N \in Nat /\ r \in Nat
      BY <1>1, <1>2
    <2> HIDE DEF d, r
    <2>3. QED
      BY ONLY <2>1, <2>2
  <1>4. N * d = d + (N - 1) * d
    BY <1>1, <1>2
  <1>5. (N - 1) * d >= d
    <2> DEFINE k == N - 2
    <2>1. k \in Nat /\ N - 1 = k + 1
      BY <1>1
    <2>2. k * d \in Nat /\ (k + 1) * d = k * d + d
      BY <1>2, <2>1
    <2>3. QED
      BY <1>2, <2>1, <2>2
  <1>6. ShardSize(p, g) = d \/ ShardSize(p, g) = d + r
    BY <1>2 DEF ShardSize
  <1> DEFINE m == (N - 1) * d
  <1>7. PageSize[p] = d + m + r /\ m >= d /\ m \in Int
    BY <1>1, <1>2, <1>4, <1>5
  <1> HIDE DEF d, r, m
  <1>8. QED
    BY <1>1, <1>2, <1>3, <1>6, <1>7

-----------------------------------------------------------------------------
(* What a page keeps while a call concerns another one. *)
SamePage(q) ==
  /\ pages'[q].live = pages[q].live /\ pages'[q].tier = pages[q].tier
  /\ pages'[q].dram = pages[q].dram /\ pages'[q].vram = pages[q].vram
  /\ pages'[q].ssd = pages[q].ssd
  /\ latest'[q] = latest[q]
SameChunks(q) ==
  \A i \in DOMAIN PageLists[q] :
    dev'[PageLists[q][i].gpu][PageLists[q][i].blk].data
      = dev[PageLists[q][i].gpu][PageLists[q][i].blk].data
SameShards(q) ==
  \A g \in GPUs : Backed(q, g) =>
    host'[g][pages[q].dram[g + 1].frame].data = host[g][pages[q].dram[g + 1].frame].data
SameRange(q) == pages[q].ssd # 0 => file'[pages[q].ssd] = file[pages[q].ssd]
SameData(q) == SameChunks(q) /\ SameShards(q) /\ SameRange(q)

LEMMA GoodKept ==
  ASSUME NEW q \in Pages, Good(q), SamePage(q), SameData(q),
         pages[q].tier = "Ssd" => pages[q].ssd # 0,
         \/ inflight'[q] \in {inflight[q], None}
         \/ Prefetching /\ inflight'[q].size = PageSize[q]
  PROVE  Good(q)'
  <1>1. PageLists'[q] = PageLists[q] /\ \A g : Backed(q, g)' <=> Backed(q, g)
    BY DEF PageLists, SamePage, Backed
  <1>2. \A g : /\ ChunksOn(q, g)' = ChunksOn(q, g)
               /\ Extent(q, g)' = Extent(q, g) /\ Content(q, g)' = Content(q, g)
    BY DEF SamePage, ChunksOn, Extent, Content, Whole, Shard
  <1>3. \A g \in GPUs : Backed(q, g) => InDram(q, g)' = InDram(q, g)
    BY DEF SamePage, SameData, SameShards, InDram
  <1>4. Sized(q)'
    BY <1>1, <1>2, <1>3 DEF Good, Sized, SamePage, Prefetching
  <1>5. Situated(q)'
    BY <1>1 DEF Good, Situated, SamePage
  <1>6. Holding(q)'
    <2>1. Whole(q, latest[q])' = Whole(q, latest[q])
      BY DEF SamePage, Whole
    <2>2. QED
      BY <1>1, <1>2, <1>3, <2>1, pages[q].tier = "Ssd" => pages[q].ssd # 0 DEF Good, Holding, SamePage, SameData, SameChunks, SameRange
  <1>7. QED
    BY <1>4, <1>5, <1>6 DEF Good

LEMMA ArrivingKept ==
  ASSUME NEW q \in Pages, Arriving(q), SamePage(q), stream' = stream,
         \/ inflight'[q] = None
         \/ /\ inflight'[q] = inflight[q]
            /\ inflight[q] # None => dev'[inflight[q].gpu][inflight[q].blk].data
                                       = dev[inflight[q].gpu][inflight[q].blk].data
  PROVE  Arriving(q)'
  <1>1. CASE inflight'[q] = None
    BY <1>1 DEF Arriving
  <1>2. CASE inflight'[q] = inflight[q] /\ inflight[q] # None
    <2>1. Whole(q, latest[q])' = Whole(q, latest[q])
      BY DEF SamePage, Whole
    <2>2. dev'[inflight[q].gpu][inflight[q].blk].data = dev[inflight[q].gpu][inflight[q].blk].data
      BY <1>2, NoneIsNoChunk
    <2>3. QED
      BY <1>2, <2>1, <2>2 DEF Arriving, SamePage
  <1>3. QED
    BY <1>1, <1>2

LEMMA RangesKept ==
  ASSUME OwnRanges, \A q \in Pages : pages'[q].ssd = pages[q].ssd
  PROVE  OwnRanges'
  BY DEF OwnRanges

LEMMA AimedKept ==
  ASSUME Aimed, stream' = stream, \A q \in Pages : inflight'[q] \in {inflight[q], None},
         \A g \in GPUs : \A i \in DOMAIN stream[g] :
           /\ Uncached(vram_free', g, stream[g][i].blk)
           /\ Unlisted(PageLists', g, stream[g][i].blk)
  PROVE  Aimed'
  <1>1. \A q \in Pages : inflight'[q].gpu \in GPUs => inflight'[q] = inflight[q]
    BY NoneIsNoChunk
  <1>2. ASSUME NEW g \in GPUs, NEW i \in DOMAIN stream[g], NEW q \in Pages,
               inflight'[q].gpu = g /\ inflight'[q].blk = stream[g][i].blk
        PROVE  q = stream[g][i].page
    <2>1. inflight'[q] = inflight[q]
      BY <1>1, <1>2
    <2>2. QED
      BY <1>2, <2>1 DEF Aimed
  <1>3. QED
    BY <1>2 DEF Aimed

(* The frames of two pages are two frames. *)
LEMMA OtherFrames ==
  ASSUME Base, HostOwned, NEW p \in Pages, NEW q \in Pages, p # q, NEW g \in GPUs,
         Backed(p, g), Backed(q, g)
  PROVE  pages[p].dram[g + 1].frame # pages[q].dram[g + 1].frame
  <1>1. pages[p].dram[g + 1].frame \in Frames
    BY BaseTypes, BackingTyped DEF Backed
  <1>2. QED
    BY <1>1 DEF HostOwned, Holder, Backed

(* A frame of a page is in use. *)
LEMMA FramesInUse ==
  ASSUME Base, HostOwned, NEW q \in Pages, NEW g \in GPUs, Backed(q, g)
  PROVE  /\ pages[q].dram[g + 1].frame \in Frames
         /\ host[g][pages[q].dram[g + 1].frame].used
  <1>1. pages[q].dram[g + 1].frame \in Frames
    BY BaseTypes, BackingTyped DEF Backed
  <1>2. QED
    BY <1>1 DEF HostOwned, Holder, Backed

(* A call that moves nothing, and perhaps gives up a prefetch. *)
LEMMA LittleLasts ==
  ASSUME Base, Lasts, UNCHANGED <<dev, file, stream, vram_free, host>>,
         \A q \in Pages : SamePage(q) /\ inflight'[q] \in {inflight[q], None}
  PROVE  Lasts'
  <1>1. \A q \in Pages : Good(q) /\ Arriving(q) /\ (pages[q].tier = "Ssd" => pages[q].ssd # 0)
    BY DEF Lasts, Base, Stored
  <1>2. \A q \in Pages : SameData(q)
    BY DEF SameData, SameChunks, SameShards, SameRange
  <1>3. \A q \in Pages : Good(q)'
    BY <1>1, <1>2, GoodKept
  <1>4. \A q \in Pages : Arriving(q)'
    BY <1>1, ArrivingKept
  <1>5. OwnRanges'
    BY RangesKept DEF Lasts, SamePage
  <1>6. PageLists' = PageLists
    BY DEF PageLists, SamePage
  <1>7. Aimed'
    BY <1>6, AimedKept DEF Lasts, Aimed
  <1>8. QED
    BY <1>3, <1>4, <1>5, <1>7 DEF Lasts

LEMMA AllUntouched ==
  ASSUME Base, Lasts, UNCHANGED <<dev, file, inflight, stream, vram_free, host, pages, latest>>
  PROVE  Lasts'
  BY LittleLasts DEF SamePage

-----------------------------------------------------------------------------
(* allocate and deallocate. *)
LEMMA AllocateMeasured ==
  ASSUME Base, NEW p \in Pages, Allocate(p)
  PROVE  /\ Measured(p, pages'[p]) /\ pages'[p].tier \in {"Vram", "Dram", "Ssd"}
         /\ Len(file) \in Nat /\ \A i \in 1 .. Len(file) : file'[i] = file[i]
  <1>1. /\ Len(file) \in Nat /\ \A i \in 1 .. Len(file) : file'[i] = file[i]
        /\ \E P \in Page : pages' = [pages EXCEPT ![p] = P] /\ Measured(p, P)
    BY AllocateCases DEF Allocate
  <1>2. PICK P \in Page : pages' = [pages EXCEPT ![p] = P] /\ Measured(p, P)
    BY <1>1
  <1>3. pages'[p] = P /\ P.tier \in {"Vram", "Dram", "Ssd"}
    BY <1>2, BaseTypes DEF PageTypes, Page
  <1>4. QED
    BY <1>1, <1>2, <1>3

LEMMA AllocateLasts ==
  ASSUME Table, HostOwned, Lasting, Lasts, NEW p \in Pages, Allocate(p)
  PROVE  Lasts'
  <1>1. Base /\ DeadEmpty
    BY DEF Table
  <1>2. /\ UNCHANGED <<dev, vram_free, inflight, stream>>
        /\ latest'[p] = 0 /\ \A q \in Pages : q # p => latest'[q] = latest[q]
    BY <1>1 DEF Allocate, Base, RunTypes
  <1>3. /\ \A q \in Pages : q # p => pages'[q] = pages[q]
        /\ pages'[p].vram = << >>
        /\ Given(pages'[p])
    BY <1>1, AllocatePages
  <1>4. /\ Measured(p, pages'[p])
        /\ Len(file) \in Nat /\ \A i \in 1 .. Len(file) : file'[i] = file[i]
    BY <1>1, AllocateMeasured
  <1>5. ~pages[p].live /\ pages[p].vram = << >>
    BY <1>1 DEF Allocate, Named, Lasting, DeadEmpty, PageLists
  <1>6. PageLists' = PageLists /\ PageLists[p] = << >>
    BY <1>3, <1>5 DEF PageLists
  <1>7. \A q \in Pages : pages[q].ssd \in 0 .. Len(file)
    BY <1>1 DEF Base, Stored
  <1>8. ASSUME NEW q \in Pages, q # p PROVE Good(q)' /\ Arriving(q)'
    <2>1. SamePage(q)
      BY <1>2, <1>3, <1>8 DEF SamePage
    <2>2. SameShards(q)
      BY <1>1, <1>3, FramesInUse DEF SameShards, Given
    <2>3. SameChunks(q) /\ SameRange(q)
      BY <1>2, <1>4, <1>7 DEF SameChunks, SameRange
    <2>4. pages[q].tier = "Ssd" => pages[q].ssd # 0
      BY <1>1 DEF Base, Stored
    <2>5. Good(q) /\ Arriving(q)
      BY DEF Lasts
    <2>6. QED
      BY <1>2, <2>1, <2>2, <2>3, <2>4, <2>5, GoodKept, ArrivingKept DEF SameData
  <1>9. Good(p)'
    <2>1. Sized(p)'
      <3>1. \A g \in GPUs : Len(Junk(ShardSize(p, g))) = ShardSize(p, g)
        BY Lengths, Sizes
      <3>2. \A g \in GPUs : Backed(p, g)' =>
              /\ pages'[p].dram[g + 1].size = ShardSize(p, g)
              /\ Len(InDram(p, g)') = ShardSize(p, g)
        BY <1>4, <3>1 DEF Measured, Backed, InDram
      <3>3. inflight[p] # None => Prefetching /\ inflight[p].size = PageSize[p]
        BY DEF Lasts, Good, Sized
      <3>4. QED
        BY <1>2, <1>6, <3>2, <3>3 DEF Sized, Prefetching
    <2>2. Situated(p)'
      BY <1>2, <1>4, <1>6 DEF Situated, Measured
    <2>3. Holding(p)'
      BY <1>2 DEF Holding
    <2>4. QED
      BY <2>1, <2>2, <2>3 DEF Good
  <1>10. Arriving(p)'
    BY <1>2 DEF Arriving
  <1>11. OwnRanges'
    <2>1. pages'[p].ssd = 0 \/ pages'[p].ssd = Len(file) + 1
      BY <1>4 DEF Measured
    <2>2. \A q \in Pages : q # p => pages'[q].ssd \in 0 .. Len(file)
      BY <1>3, <1>7
    <2>3. \A q \in Pages : q # p => pages'[q].ssd # Len(file) + 1
      BY <1>4, <2>2
    <2>4. QED
      BY <1>3, <2>1, <2>3 DEF OwnRanges, Lasts
  <1>12. Aimed'
    BY <1>2, <1>6, AimedKept DEF Lasts, Aimed
  <1>13. QED
    BY <1>8, <1>9, <1>10, <1>11, <1>12 DEF Lasts

(* A block on no list is in no cache after a page gave up its chunks. *)
LEMMA ReleasedMisses ==
  ASSUME Base, NEW p \in Pages, NEW m \in 0 .. Len(pages[p].vram), NEW g \in GPUs, NEW b,
         Uncached(vram_free, g, b), Unlisted(PageLists, g, b)
  PROVE  Uncached(Released(p, m), g, b)
  <1> DEFINE cache == Released(p, m)
  <1>1. \A k \in DOMAIN cache[g] :
          \/ k \in DOMAIN vram_free[g] /\ cache[g][k] = vram_free[g][k]
          \/ \E i \in DOMAIN PageLists[p] :
               PageLists[p][i].gpu = g /\ cache[g][k] = PageLists[p][i].blk
    BY BaseTypes, ReleasedIs
  <1> HIDE DEF cache
  <1>2. QED
    BY <1>1 DEF Uncached, Unlisted, cache

LEMMA EmptiedMisses ==
  ASSUME Base, NEW p \in Pages, NEW g, NEW b, Unlisted(PageLists, g, b)
  PROVE  Unlisted(Emptied(PageLists, p), g, b)
  <1>1. /\ DOMAIN Emptied(PageLists, p)[p] = {}
        /\ \A q \in Pages : q # p => Emptied(PageLists, p)[q] = PageLists[q]
    BY BaseTypes DEF Emptied, Lists
  <1>2. QED
    BY <1>1 DEF Unlisted

LEMMA DeallocateLasts ==
  ASSUME Table, Lasts, NEW p \in Pages, Deallocate(p)
  PROVE  Lasts'
  <1>1. Base
    BY DEF Table
  <1>2. UNCHANGED <<dev, file, inflight, stream>>
    BY DeallocateCases
  <1>3. \A q \in Pages : pages[q].tier = "Ssd" => pages[q].ssd # 0
    BY <1>1 DEF Base, Stored
  <1>4. CASE Dropped(p)
    <2>1. /\ \A q \in Pages : q # p => pages'[q] = pages[q]
          /\ pages'[p] = Absent
          /\ PageLists' = Emptied(PageLists, p)
      BY <1>1, <1>4, DropPages
    <2>2. latest'[p] = 0 /\ \A q \in Pages : q # p => latest'[q] = latest[q]
      BY <1>1, <1>4 DEF Dropped, Base, RunTypes
    <2>3. \A g \in GPUs, f \in Frames : host'[g][f].data = host[g][f].data
      BY <1>1, <1>4, UnusedIs DEF Dropped
    <2>4. ASSUME NEW q \in Pages, q # p PROVE Good(q)' /\ Arriving(q)'
      <3>1. SamePage(q)
        BY <2>1, <2>2, <2>4 DEF SamePage
      <3>2. SameShards(q)
        BY <1>1, <2>3, BaseTypes, BackingTyped DEF SameShards, Backed
      <3>3. SameChunks(q) /\ SameRange(q)
        BY <1>2 DEF SameChunks, SameRange
      <3>4. Good(q) /\ Arriving(q)
        BY DEF Lasts
      <3>5. QED
        BY <1>2, <1>3, <3>1, <3>2, <3>3, <3>4, GoodKept, ArrivingKept DEF SameData
    <2>5. Good(p)'
      <3>1. pages'[p].dram = << >> /\ pages'[p].ssd = 0 /\ pages'[p].vram = << >>
        BY <2>1, AbsentIsAPage
      <3>2. PageLists'[p] = << >>
        BY <3>1 DEF PageLists
      <3>3. inflight[p] # None => Prefetching /\ inflight[p].size = PageSize[p]
        BY DEF Lasts, Good, Sized
      <3>4. Sized(p)'
        BY <1>2, <3>1, <3>2, <3>3 DEF Sized, Backed, Prefetching
      <3>5. QED
        BY <2>2, <3>1, <3>2, <3>4 DEF Good, Situated, Holding
    <2>6. Arriving(p)'
      BY <2>2 DEF Arriving
    <2>7. OwnRanges'
      BY <2>1, AbsentIsAPage DEF Lasts, OwnRanges
    <2>8. Aimed'
      <3>1. vram_free' = Released(p, Len(pages[p].vram))
            /\ Len(pages[p].vram) \in 0 .. Len(pages[p].vram)
        BY <1>1, <1>4, EmptyList DEF Dropped
      <3>2. QED
        BY <1>1, <1>2, <2>1, <3>1, AimedKept, ReleasedMisses, EmptiedMisses DEF Lasts, Aimed
    <2>9. QED
      BY <2>4, <2>5, <2>6, <2>7, <2>8 DEF Lasts
  <1>5. CASE UNCHANGED <<vram_free, host, pages, latest>>
    BY <1>1, <1>2, <1>5, AllUntouched
  <1>6. QED
    BY <1>4, <1>5, DeallocateCases

-----------------------------------------------------------------------------
(* demote. *)
LEMMA RefilledIs ==
  ASSUME NEW h \in [Frames -> Frame], NEW x, NEW d, NEW f \in Frames
  PROVE  Refilled(h, x, d)[f].data = IF f = x THEN d ELSE h[f].data
  <1>1. CASE f = x
    BY <1>1 DEF Refilled, Frame
  <1>2. CASE f # x
    BY <1>2 DEF Refilled
  <1>3. QED
    BY <1>1, <1>2

(* The shards of the chunks that were written back, and the others. *)
LEMMA WrittenBackIs ==
  ASSUME Base, NEW p \in Pages, NEW m \in 0 .. Len(pages[p].vram),
         \A i \in 1 .. m : Obstacle(p, i) = "none",
         NEW after, after = WrittenBack(p, m), NEW g \in GPUs
  PROVE  /\ (\A i \in 1 .. m : PageLists[p][i].gpu # g) => after[g] = host[g]
         /\ \A i \in 1 .. m : PageLists[p][i].gpu = g =>
              /\ i \in DOMAIN PageLists[p] /\ Backed(p, g)
              /\ \A f \in Frames : after[g][f].data =
                   IF f = pages[p].dram[g + 1].frame
                   THEN Overwrite(host[g][f].data,
                                  Prefix(dev[g][PageLists[p][i].blk].data, PageLists[p][i].size))
                   ELSE host[g][f].data
  <1>1. /\ PageLists[p] = pages[p].vram /\ Len(PageLists[p]) \in Nat
        /\ DOMAIN PageLists[p] = 1 .. Len(PageLists[p])
    BY EmptyList
  <1>2. ASSUME \A i \in 1 .. m : PageLists[p][i].gpu # g
        PROVE  after[g] = host[g]
    BY <1>1, <1>2 DEF WrittenBack, ChunkHere
  <1>3. ASSUME NEW i \in 1 .. m, PageLists[p][i].gpu = g
        PROVE  /\ i \in DOMAIN PageLists[p] /\ Backed(p, g)
               /\ \A f \in Frames : after[g][f].data =
                    IF f = pages[p].dram[g + 1].frame
                    THEN Overwrite(host[g][f].data,
                                   Prefix(dev[g][PageLists[p][i].blk].data, PageLists[p][i].size))
                    ELSE host[g][f].data
    <2>1. 1 .. m \subseteq DOMAIN PageLists[p] /\ 1 .. m \subseteq Nat
      BY <1>1
    <2>2. ChunkHere(p, m, g) = {i}
      BY <1>1, <1>3, <2>1 DEF ChunkHere, Base, Distinct
    <2>3. Min(ChunkHere(p, m, g)) = i
      BY <1>3, <2>1, <2>2, LeastElement
    <2>4. Backed(p, g)
      BY <1>1, <1>3 DEF Obstacle, Backed
    <2> DEFINE x == pages[p].dram[g + 1].frame
               d == Prefix(dev[g][PageLists[p][i].blk].data, PageLists[p][i].size)
    <2>5. after[g] = Refilled(host[g], x, Overwrite(host[g][x].data, d))
      BY <1>1, <1>3, <2>2, <2>3 DEF WrittenBack, Backing, Refilled
    <2>6. host[g] \in [Frames -> Frame]
      BY BaseTypes DEF HostTypes
    <2> HIDE DEF x, d
    <2>7. \A f \in Frames : after[g][f].data =
            IF f = x THEN Overwrite(host[g][x].data, d) ELSE host[g][f].data
      BY <2>5, <2>6, RefilledIs
    <2>8. QED
      BY <1>3, <2>1, <2>4, <2>7 DEF x, d
  <1>4. QED
    BY <1>2, <1>3

(* A chunk that is written back brings its shard up to date. *)
LEMMA ShardWritten ==
  ASSUME Base, NEW p \in Pages, Good(p), pages[p].ssd = 0,
         NEW i \in DOMAIN PageLists[p], NEW g \in GPUs, PageLists[p][i].gpu = g, Backed(p, g),
         NEW d, d = Prefix(dev[g][PageLists[p][i].blk].data, PageLists[p][i].size)
  PROVE  /\ Len(Overwrite(InDram(p, g), d)) = ShardSize(p, g)
         /\ latest[p] # 0 => Overwrite(InDram(p, g), d) = Shard(p, g, latest[p])
  <1>1. InDram(p, g) \in Data /\ Len(InDram(p, g)) = ShardSize(p, g)
    BY BaseTypes, BackingTyped DEF InDram, Good, Sized, Backed
  <1>2. /\ PageLists[p][i].size = ShardSize(p, g)
        /\ PageLists[p][i].blk \in DOMAIN dev[g]
    BY BaseTypes, ChunkOfList DEF Good, Sized, Extent, Made
  <1>3. dev[g][PageLists[p][i].blk].data \in Data /\ d \in Data
    BY <1>2, BaseTypes, BlockTypes, Contents, Sizes
  <1>4. ASSUME latest[p] # 0 PROVE d = Shard(p, g, latest[p]) /\ Len(d) = ShardSize(p, g)
    <2>1. latest[p] \in Nat
      BY DEF Base, RunTypes
    <2>2. dev[g][PageLists[p][i].blk].data = Shard(p, g, latest[p])
      BY <1>4 DEF Good, Holding, Content
    <2>3. Len(Shard(p, g, latest[p])) = ShardSize(p, g)
      BY <2>1, Lengths
    <2>4. QED
      BY <1>2, <1>3, <2>2, <2>3, WholePrefix
  <1>5. QED
    BY <1>1, <1>3, <1>4, WholeOverwrite

LEMMA WrittenBackLasts ==
  ASSUME Base, HostOwned, Lasts, NEW p \in Pages, NEW m \in 0 .. Len(pages[p].vram),
         \A i \in 1 .. m : Obstacle(p, i) = "none", host' = WrittenBack(p, m)
  PROVE  /\ \A q \in Pages : q # p => SameShards(q)
         /\ \A g \in GPUs : Backed(p, g) =>
              LET after == host'[g][pages[p].dram[g + 1].frame].data
              IN  /\ Len(after) = ShardSize(p, g)
                  /\ ChunksOn(p, g) = {} => after = InDram(p, g)
                  /\ latest[p] # 0 => \A i \in 1 .. m : PageLists[p][i].gpu = g =>
                                        after = Shard(p, g, latest[p])
  <1>1. \A g \in GPUs :
          /\ (\A i \in 1 .. m : PageLists[p][i].gpu # g) => host'[g] = host[g]
          /\ \A i \in 1 .. m : PageLists[p][i].gpu = g =>
               /\ i \in DOMAIN PageLists[p] /\ Backed(p, g)
               /\ \A f \in Frames : host'[g][f].data =
                    IF f = pages[p].dram[g + 1].frame
                    THEN Overwrite(host[g][f].data,
                                   Prefix(dev[g][PageLists[p][i].blk].data, PageLists[p][i].size))
                    ELSE host[g][f].data
    BY WrittenBackIs
  <1>2. \A q \in Pages, g \in GPUs : Backed(q, g) => pages[q].dram[g + 1].frame \in Frames
    BY BaseTypes, BackingTyped DEF Backed
  <1>3. ASSUME NEW q \in Pages, q # p PROVE SameShards(q)
    <2>1. SUFFICES ASSUME NEW g \in GPUs, Backed(q, g)
                   PROVE  host'[g][pages[q].dram[g + 1].frame].data
                            = host[g][pages[q].dram[g + 1].frame].data
      BY DEF SameShards
    <2>2. CASE \A i \in 1 .. m : PageLists[p][i].gpu # g
      BY <1>1, <2>2
    <2>3. CASE \E i \in 1 .. m : PageLists[p][i].gpu = g
      <3>1. PICK i \in 1 .. m : PageLists[p][i].gpu = g
        BY <2>3
      <3>2. Backed(p, g)
        BY <1>1, <3>1
      <3>3. pages[q].dram[g + 1].frame # pages[p].dram[g + 1].frame
        BY <1>3, <2>1, <3>2, OtherFrames
      <3>4. pages[q].dram[g + 1].frame \in Frames
        BY <1>2, <2>1
      <3>5. QED
        BY <1>1, <3>1, <3>3, <3>4
    <2>4. QED
      BY <2>2, <2>3
  <1>4. ASSUME NEW g \in GPUs, Backed(p, g)
        PROVE  LET after == host'[g][pages[p].dram[g + 1].frame].data
               IN  /\ Len(after) = ShardSize(p, g)
                   /\ ChunksOn(p, g) = {} => after = InDram(p, g)
                   /\ latest[p] # 0 => \A i \in 1 .. m : PageLists[p][i].gpu = g =>
                                         after = Shard(p, g, latest[p])
    <2> DEFINE after == host'[g][pages[p].dram[g + 1].frame].data
    <2>1. pages[p].dram[g + 1].frame \in Frames
      BY <1>2, <1>4
    <2>2. Good(p) /\ Len(InDram(p, g)) = ShardSize(p, g) /\ pages[p].ssd = 0
      <3>1. Good(p)
        BY DEF Lasts
      <3>2. pages[p].dram # << >>
        BY <1>4 DEF Backed
      <3>3. QED
        BY <1>4, <3>1, <3>2 DEF Good, Sized, Situated
    <2>3. CASE \A i \in 1 .. m : PageLists[p][i].gpu # g
      BY <1>1, <2>2, <2>3 DEF InDram
    <2>4. CASE \E i \in 1 .. m : PageLists[p][i].gpu = g
      <3>1. PICK i \in 1 .. m : PageLists[p][i].gpu = g
        BY <2>4
      <3> DEFINE d == Prefix(dev[g][PageLists[p][i].blk].data, PageLists[p][i].size)
      <3>2. i \in DOMAIN PageLists[p] /\ after = Overwrite(InDram(p, g), d)
        BY <1>1, <2>1, <3>1 DEF InDram
      <3>3. ChunksOn(p, g) # {}
        BY <3>1, <3>2, EmptyList DEF ChunksOn
      <3>4. /\ Len(Overwrite(InDram(p, g), d)) = ShardSize(p, g)
            /\ latest[p] # 0 => Overwrite(InDram(p, g), d) = Shard(p, g, latest[p])
        BY <1>4, <2>2, <3>1, <3>2, ShardWritten
      <3> HIDE DEF d
      <3>5. QED
        BY <3>2, <3>3, <3>4
    <2>5. QED
      BY <2>3, <2>4
  <1>5. QED
    BY <1>3, <1>4

LEMMA DemoteLasts ==
  ASSUME Base, HostOwned, Lasts, NEW p \in Pages, DemotePage(p),
         stream' = stream, latest' = latest
  PROVE  Lasts'
  <1>1. dev' = dev /\ file' = file /\ inflight' = inflight
    BY BaseTypes, DemoteCases
  <1>2. \A q \in Pages : pages[q].tier = "Ssd" => pages[q].ssd # 0
    BY DEF Base, Stored
  <1>3. \A q \in Pages : Good(q) /\ Arriving(q)
    BY DEF Lasts
  <1>4. PageLists[p] = pages[p].vram /\ Len(PageLists[p]) \in Nat
        /\ DOMAIN PageLists[p] = 1 .. Len(PageLists[p])
    BY EmptyList
  <1>5. ASSUME NEW q \in Pages, q # p, SameShards(q), pages'[q] = pages[q]
        PROVE  Good(q)' /\ Arriving(q)'
    <2>1. SamePage(q) /\ SameData(q)
      BY <1>1, <1>5 DEF SamePage, SameData, SameChunks, SameRange
    <2>2. QED
      BY <1>1, <1>2, <1>3, <2>1, GoodKept, ArrivingKept
  <1>6. CASE NotDemoted
    BY <1>1, <1>6, AllUntouched DEF NotDemoted
  <1>7. CASE Demoted(p)
    <2>1. /\ \A q \in Pages : q # p => pages'[q] = pages[q]
          /\ \A q \in Pages : pages'[q].dram = pages[q].dram /\ pages'[q].live = pages[q].live
      BY DemotePages
    <2>2. /\ pages'[p] = DemotedPage(p)
          /\ pages'[p].ssd = pages[p].ssd /\ pages'[p].tier = "Dram" /\ pages'[p].vram = << >>
      BY <1>7, BaseTypes DEF PageTypes, Page, Demoted, DemotedPage
    <2>3. Len(pages[p].vram) \in 0 .. Len(pages[p].vram)
      BY <1>4
    <2>4. \A i \in DOMAIN PageLists[p] : Obstacle(p, i) = "none"
      BY <1>4, <1>7 DEF Demoted
    <2>5. /\ \A q \in Pages : q # p => SameShards(q)
          /\ \A g \in GPUs : Backed(p, g) =>
               LET after == host'[g][pages[p].dram[g + 1].frame].data
               IN  /\ Len(after) = ShardSize(p, g)
                   /\ ChunksOn(p, g) = {} => after = InDram(p, g)
                   /\ latest[p] # 0 => \A i \in DOMAIN PageLists[p] : PageLists[p][i].gpu = g =>
                                         after = Shard(p, g, latest[p])
      BY <1>4, <1>7, <2>3, <2>4, WrittenBackLasts DEF Demoted
    <2>6. pages[p].tier = "Vram" /\ pages[p].ssd = 0
      <3>1. CASE pages[p].ssd # 0
        <4>1. pages[p].dram = << >> /\ PageLists[p] # << >>
          BY <1>3, <1>7, <3>1 DEF Good, Situated, Demoted
        <4>2. 1 \in DOMAIN PageLists[p]
          BY <1>4, <4>1, EmptyList
        <4>3. Obstacle(p, 1) = "UnknownAllocation"
          BY <1>4, <4>1, <4>2 DEF Obstacle
        <4>4. QED
          BY <2>4, <4>2, <4>3
      <3>2. QED
        BY <1>7, <3>1 DEF Demoted
    <2>7. PageLists' = Emptied(PageLists, p) /\ PageLists'[p] = << >>
      <3>1. \A q \in Pages : PageLists'[q] = IF q = p THEN << >> ELSE PageLists[q]
        BY <2>1, <2>2 DEF PageLists
      <3>2. QED
        BY <3>1 DEF PageLists, Emptied
    <2>8. Good(p)'
      <3>1. \A g \in GPUs : Backed(p, g)' = Backed(p, g)
                            /\ InDram(p, g)' = host'[g][pages[p].dram[g + 1].frame].data
        BY <2>1 DEF Backed, InDram
      <3>2. Sized(p)'
        <4>1. \A g \in GPUs : Backed(p, g) => pages[p].dram[g + 1].size = ShardSize(p, g)
          BY <1>3 DEF Good, Sized
        <4>2. inflight[p] # None => Prefetching /\ inflight[p].size = PageSize[p]
          BY <1>3 DEF Good, Sized
        <4>3. QED
          BY <1>1, <2>1, <2>5, <2>7, <3>1, <4>1, <4>2 DEF Sized, Prefetching
      <3>3. latest[p] # 0 => \A g \in GPUs : Backed(p, g)
        <4>1. SUFFICES ASSUME latest[p] # 0, N = 1, PageLists[p] # << >>
                       PROVE  Backed(p, 0)
          BY <1>3, <2>6, OneShard DEF Good, Situated
        <4>2. 1 \in DOMAIN PageLists[p]
          BY <1>4, <4>1, EmptyList
        <4>3. PageLists[p][1].gpu = 0
          BY <4>1, <4>2, OneShard, BaseTypes, ChunkOfList
        <4>4. QED
          BY <1>4, <2>4, <4>2, <4>3 DEF Obstacle, Backed
      <3>4. Situated(p)'
        BY <1>3, <2>1, <2>2, <2>6, <3>1, <3>3 DEF Situated, Good, PageLists
      <3>5. Holding(p)'
        <4>1. SUFFICES ASSUME latest[p] # 0, NEW g \in GPUs, Backed(p, g)
                       PROVE  host'[g][pages[p].dram[g + 1].frame].data = Shard(p, g, latest[p])
          <5>1. /\ pages'[p].tier = "Dram" /\ pages'[p].ssd = 0 /\ DOMAIN PageLists'[p] = {}
                /\ latest'[p] = latest[p]
            BY <2>2, <2>6, <2>7
          <5>2. \A g \in GPUs : Content(p, g)' = Shard(p, g, latest[p])
            BY <5>1 DEF Content, Shard
          <5>3. QED
            BY <3>1, <5>1, <5>2 DEF Holding
        <4>2. CASE ChunksOn(p, g) = {}
          <5>1. InDram(p, g) = Shard(p, g, latest[p])
            BY <1>3, <2>6, <4>1, <4>2 DEF Good, Holding, Content
          <5>2. QED
            BY <2>5, <4>1, <4>2, <5>1
        <4>3. CASE ChunksOn(p, g) # {}
          <5>1. \E i \in DOMAIN PageLists[p] : PageLists[p][i].gpu = g
            BY <1>4, <4>3 DEF ChunksOn
          <5>2. QED
            BY <2>5, <4>1, <5>1
        <4>4. QED
          BY <4>2, <4>3
      <3>6. QED
        BY <3>2, <3>4, <3>5 DEF Good
    <2>9. Arriving(p)'
      BY <1>1, <1>3, <2>1, <2>2 DEF Arriving, Whole
    <2>10. OwnRanges'
      BY <2>1, <2>2, RangesKept DEF Lasts
    <2>11. Aimed'
      <3>1. vram_free' = Released(p, Len(pages[p].vram))
        BY <1>7 DEF Demoted
      <3>2. QED
        BY <1>1, <2>3, <2>7, <3>1, AimedKept, ReleasedMisses, EmptiedMisses DEF Lasts, Aimed
    <2>12. QED
      BY <1>5, <2>1, <2>5, <2>8, <2>9, <2>10, <2>11 DEF Lasts
  <1>8. ASSUME NEW m \in 0 .. N, HalfDemoted(p, m) PROVE Lasts'
    <2>1. pages' = pages /\ PageLists' = PageLists
      BY <1>8 DEF HalfDemoted, PageLists
    <2>2. PICK k \in 0 .. Len(pages[p].vram) :
            /\ host' = WrittenBack(p, k)
            /\ \A i \in 1 .. k : Obstacle(p, i) = "none"
      <3>1. /\ Len(pages[p].vram) \in Nat /\ m \in Nat /\ m < Len(pages[p].vram)
            /\ \A i \in 1 .. m : Obstacle(p, i) = "none"
            /\ \/ host' = WrittenBack(p, m)
               \/ host' = WrittenBack(p, m + 1) /\ Obstacle(p, m + 1) = "none"
        BY <1>4, <1>8 DEF HalfDemoted
      <3>2. m \in 0 .. Len(pages[p].vram) /\ m + 1 \in 0 .. Len(pages[p].vram)
            /\ \A i \in 1 .. m + 1 : i \in 1 .. m \/ i = m + 1
        BY <3>1
      <3>3. QED
        BY <3>1, <3>2
    <2>3. /\ \A q \in Pages : q # p => SameShards(q)
          /\ \A g \in GPUs : Backed(p, g) =>
               LET after == host'[g][pages[p].dram[g + 1].frame].data
               IN  /\ Len(after) = ShardSize(p, g)
                   /\ ChunksOn(p, g) = {} => after = InDram(p, g)
      BY <2>2, WrittenBackLasts
    <2>4. Good(p)'
      <3>1. \A g \in GPUs : /\ Backed(p, g)' = Backed(p, g) /\ ChunksOn(p, g)' = ChunksOn(p, g)
                            /\ Content(p, g)' = Content(p, g) /\ Extent(p, g)' = Extent(p, g)
                            /\ InDram(p, g)' = host'[g][pages[p].dram[g + 1].frame].data
        BY <2>1 DEF Backed, ChunksOn, Content, Extent, InDram, Whole, Shard
      <3>2. Sized(p)'
        <4>1. \A g \in GPUs : Backed(p, g) =>
                /\ pages'[p].dram[g + 1].size = ShardSize(p, g)
                /\ Len(InDram(p, g)') = ShardSize(p, g)
          BY <1>3, <2>1, <2>3, <3>1 DEF Good, Sized
        <4>2. \A i \in DOMAIN PageLists[p] : PageLists[p][i].gpu \in GPUs
          BY BaseTypes, ChunkOfList
        <4>3. \A i \in DOMAIN PageLists'[p] :
                PageLists'[p][i].size = Extent(p, PageLists[p][i].gpu)'
          BY <1>3, <2>1, <3>1, <4>2 DEF Good, Sized
        <4>4. inflight[p] # None => Prefetching /\ inflight[p].size = PageSize[p]
          BY <1>3 DEF Good, Sized
        <4>5. QED
          BY <1>1, <3>1, <4>1, <4>3, <4>4 DEF Sized, Prefetching
      <3>3. Situated(p)'
        BY <1>3, <2>1, <3>1 DEF Good, Situated
      <3>4. Holding(p)'
        <4>1. SUFFICES ASSUME latest[p] # 0 PROVE Holding(p)'
          BY DEF Holding
        <4>2. pages'[p].tier = "Ssd" => file'[pages'[p].ssd] = Whole(p, latest[p])'
          BY <1>1, <1>3, <2>1, <4>1 DEF Good, Holding, Whole
        <4>3. \A i \in DOMAIN PageLists[p] : PageLists[p][i].gpu \in GPUs
          BY BaseTypes, ChunkOfList
        <4>4. \A i \in DOMAIN PageLists'[p] :
                dev'[PageLists'[p][i].gpu][PageLists'[p][i].blk].data
                  = Content(p, PageLists[p][i].gpu)'
          BY <1>1, <1>3, <2>1, <3>1, <4>1, <4>3 DEF Good, Holding
        <4>5. pages[p].ssd = 0 => \A g \in GPUs : Backed(p, g)' /\ ChunksOn(p, g)' = {}
                                    => InDram(p, g)' = Content(p, g)'
          BY <1>3, <2>3, <3>1, <4>1 DEF Good, Holding
        <4>6. QED
          BY <2>1, <4>2, <4>4, <4>5 DEF Holding
      <3>5. QED
        BY <3>2, <3>3, <3>4 DEF Good
    <2>5. Arriving(p)'
      BY <1>1, <1>3, <2>1 DEF Arriving, Whole
    <2>6. OwnRanges'
      BY <2>1, RangesKept DEF Lasts
    <2>7. Aimed'
      <3>1. m \in 0 .. Len(pages[p].vram) /\ vram_free' = Released(p, m)
        BY <1>4, <1>8 DEF HalfDemoted
      <3>2. QED
        BY <1>1, <2>1, <3>1, AimedKept, ReleasedMisses DEF Lasts, Aimed
    <2>8. QED
      BY <1>5, <2>1, <2>3, <2>4, <2>5, <2>6, <2>7 DEF Lasts
  <1>9. QED
    BY <1>6, <1>7, <1>8, BaseTypes, DemoteCases

-----------------------------------------------------------------------------
(* access. *)

(* Nothing is queued for a block that can be taken. *)
LEMMA TakenIsIdle ==
  ASSUME Base, Aimed, NEW g \in GPUs, NEW n \in Nat, NEW a \in VramBlocks(vram_free, g, n)
  PROVE  \A h \in GPUs : \A i \in DOMAIN stream[h] :
           /\ Uncached(a.cache, h, stream[h][i].blk)
           /\ h = g => stream[h][i].blk # a.blk
  <1>1. SUFFICES ASSUME NEW h \in GPUs, NEW i \in DOMAIN stream[h]
                 PROVE  /\ Uncached(a.cache, h, stream[h][i].blk)
                        /\ h = g => stream[h][i].blk # a.blk
    OBVIOUS
  <1>2. Uncached(vram_free, h, stream[h][i].blk) /\ stream[h][i].blk \in DOMAIN dev[h]
    BY DEF Aimed, Base, AllMade
  <1>3. CASE a.new = TRUE /\ a.blk = Len(dev[g]) + 1 /\ a.cache = vram_free
    <2>1. Len(dev[g]) \in Nat /\ DOMAIN dev[g] = 1 .. Len(dev[g])
      BY BaseTypes DEF Devs
    <2>2. QED
      BY <1>2, <1>3, <2>1
  <1>4. ASSUME NEW k \in DOMAIN vram_free[g], a.blk = vram_free[g][k],
               a.cache = Without(vram_free, g, k)
        PROVE  /\ Uncached(a.cache, h, stream[h][i].blk)
               /\ h = g => stream[h][i].blk # a.blk
    <2>1. vram_free[g] \in Seq(Nat) /\ Len(vram_free[g]) \in Nat
          /\ DOMAIN vram_free[g] = 1 .. Len(vram_free[g])
      BY BaseTypes DEF Cache
    <2>2. /\ a.cache[g] = SwapRemove(vram_free[g], k)
          /\ h # g => a.cache[h] = vram_free[h]
      BY <1>4, BaseTypes DEF Without, Cache
    <2>3. \A j \in DOMAIN a.cache[g] : \E l \in DOMAIN vram_free[g] : a.cache[g][j] = vram_free[g][l]
      <3> DEFINE s == vram_free[g]
                 t == SwapRemove(s, k)
      <3>1. s \in Seq(Nat) /\ k \in DOMAIN s /\ a.cache[g] = t
        BY <2>1, <2>2
      <3> HIDE DEF s
      <3>2. /\ DOMAIN t = 1 .. Len(s) - 1
            /\ \A j \in 1 .. Len(s) - 1 : t[j] = IF j = k THEN s[Len(s)] ELSE s[j]
        BY <3>1, SwapRemoveIs
      <3> HIDE DEF t
      <3>3. /\ DOMAIN a.cache[g] = 1 .. Len(vram_free[g]) - 1
            /\ \A j \in 1 .. Len(vram_free[g]) - 1 :
                 a.cache[g][j] = IF j = k THEN vram_free[g][Len(vram_free[g])] ELSE vram_free[g][j]
        BY <3>1, <3>2 DEF s
      <3>4. \A j \in 1 .. Len(vram_free[g]) - 1 :
              j \in DOMAIN vram_free[g] /\ Len(vram_free[g]) \in DOMAIN vram_free[g]
        BY <2>1
      <3>5. QED
        BY <3>3, <3>4
    <2>4. QED
      BY <1>2, <1>4, <2>2, <2>3 DEF Uncached
  <1>5. \/ a.new = FALSE /\ \E k \in DOMAIN vram_free[g] :
             /\ a.blk = vram_free[g][k] /\ dev[g][a.blk].size = n
             /\ a.cache = Without(vram_free, g, k)
        \/ a.new = TRUE /\ a.blk = Len(dev[g]) + 1 /\ a.cache = vram_free
    BY BaseTypes, BlockChosen
  <1>6. QED
    BY <1>3, <1>4, <1>5

(* Block b of GPU g is the only one whose contents may change. *)
OnlyBlock(g, b) ==
  \A h \in GPUs : \A c \in DOMAIN dev[h] : (h = g /\ c = b) \/ dev'[h][c] = dev[h][c]

LEMMA OtherChunks ==
  ASSUME Base, NEW g \in GPUs, NEW b, OnlyBlock(g, b), Unlisted(PageLists, g, b),
         NEW q \in Pages
  PROVE  SameChunks(q)
  <1>1. SUFFICES ASSUME NEW i \in DOMAIN PageLists[q]
                 PROVE  dev'[PageLists[q][i].gpu][PageLists[q][i].blk].data
                          = dev[PageLists[q][i].gpu][PageLists[q][i].blk].data
    BY DEF SameChunks
  <1>2. PageLists[q][i].gpu \in GPUs /\ PageLists[q][i].blk \in DOMAIN dev[PageLists[q][i].gpu]
    BY BaseTypes, ChunkOfList DEF Made
  <1>3. QED
    BY <1>2 DEF OnlyBlock, Unlisted

LEMMA OtherBlocks ==
  ASSUME Base, NEW g \in GPUs, NEW b, OnlyBlock(g, b),
         Unlisted(PageLists, g, b), Unissued(inflight, g, b), NEW q \in Pages
  PROVE  /\ SameChunks(q)
         /\ inflight[q] # None => dev'[inflight[q].gpu][inflight[q].blk]
                                    = dev[inflight[q].gpu][inflight[q].blk]
  <1>1. SameChunks(q)
    BY OtherChunks
  <1>2. ASSUME inflight[q] # None
        PROVE  dev'[inflight[q].gpu][inflight[q].blk] = dev[inflight[q].gpu][inflight[q].blk]
    <2>1. inflight[q].gpu \in GPUs /\ inflight[q].blk \in DOMAIN dev[inflight[q].gpu]
      BY <1>2, BaseTypes, ChunkOfIssue DEF Made
    <2>2. QED
      BY <2>1 DEF OnlyBlock, Unissued
  <1>3. QED
    BY <1>1, <1>2

(* A block that was taken belongs to nobody. *)
LEMMA TakenIsFree ==
  ASSUME Base, Owned, NEW g \in GPUs, NEW n \in Nat, NEW a \in VramBlocks(vram_free, g, n)
  PROVE  /\ a.blk \in Nat /\ a.cache \in Cache /\ OneBlock(g, a)
         /\ Uncached(a.cache, g, a.blk)
         /\ Unlisted(PageLists, g, a.blk) /\ Unissued(inflight, g, a.blk)
  <1>1. Free(a.cache, PageLists, inflight, g, a.blk)
    BY BaseTypes, BlockTaken DEF Owned, OneOwnerNow
  <1>2. a.blk \in Nat /\ a.cache \in Cache /\ OneBlock(g, a)
    BY BaseTypes, BlockTyped DEF OneBlock
  <1>3. QED
    BY <1>1, <1>2 DEF Free

(* Only the block that is recycled enters the cache. *)
LEMMA RecycledMisses ==
  ASSUME NEW cache \in Cache, NEW g \in GPUs, NEW b \in Nat
  PROVE  \A h \in GPUs : \A d : Uncached(cache, h, d) /\ (h # g \/ d # b)
                                 => Uncached(Recycled(cache, g, b), h, d)
  <1> DEFINE c == Recycled(cache, g, b)
  <1>1. /\ \A h \in GPUs : h # g => c[h] = cache[h]
        /\ Len(cache[g]) \in Nat /\ DOMAIN cache[g] = 1 .. Len(cache[g])
        /\ DOMAIN c[g] = 1 .. Len(cache[g]) + 1
        /\ \A i \in 1 .. Len(cache[g]) : c[g][i] = cache[g][i]
        /\ c[g][Len(cache[g]) + 1] = b
    BY RecycledIs
  <1> HIDE DEF c
  <1>2. \A h \in GPUs : \A d : Uncached(cache, h, d) /\ (h # g \/ d # b) => Uncached(c, h, d)
    BY SMTT(30), <1>1 DEF Uncached
  <1>3. QED
    BY <1>2 DEF c

(* A block is taken for nothing: it is lost, or put back. *)
LEMMA TakenLasts ==
  ASSUME Base, Owned, Lasts, NEW g \in GPUs, NEW n \in Nat,
         NEW a \in VramBlocks(vram_free, g, n), OnlyBlock(g, a.blk),
         UNCHANGED <<file, inflight, stream, host, pages, latest>>,
         vram_free' \in {a.cache, Recycled(a.cache, g, a.blk)}
  PROVE  Lasts'
  <1>1. /\ a.blk \in Nat /\ a.cache \in Cache
        /\ Unlisted(PageLists, g, a.blk) /\ Unissued(inflight, g, a.blk)
    BY TakenIsFree
  <1>2. \A q \in Pages : Good(q) /\ Arriving(q) /\ (pages[q].tier = "Ssd" => pages[q].ssd # 0)
    BY DEF Lasts, Base, Stored
  <1>3. \A q \in Pages : SamePage(q) /\ SameData(q)
    BY <1>1, OtherBlocks DEF SamePage, SameData, SameShards, SameRange
  <1>4. \A q \in Pages : Good(q)'
    BY <1>2, <1>3, GoodKept
  <1>5. \A q \in Pages : Arriving(q)'
    <2>1. \A q \in Pages : inflight[q] # None =>
            dev'[inflight[q].gpu][inflight[q].blk] = dev[inflight[q].gpu][inflight[q].blk]
      BY <1>1, OtherBlocks
    <2>2. QED
      BY <1>2, <1>3, <2>1, ArrivingKept
  <1>6. OwnRanges'
    BY RangesKept DEF Lasts
  <1>7. \A h \in GPUs : \A i \in DOMAIN stream[h] :
          Uncached(a.cache, h, stream[h][i].blk) /\ (h = g => stream[h][i].blk # a.blk)
    BY TakenIsIdle DEF Lasts
  <1>8. \A h \in GPUs : \A i \in DOMAIN stream[h] : Uncached(vram_free', h, stream[h][i].blk)
    <2>1. CASE vram_free' = a.cache
      BY <1>7, <2>1
    <2>2. CASE vram_free' = Recycled(a.cache, g, a.blk)
      BY <1>1, <1>7, <2>2, RecycledMisses
    <2>3. QED
      BY <2>1, <2>2
  <1>9. Aimed'
    <2>1. PageLists' = PageLists
      BY DEF PageLists
    <2>2. QED
      BY <1>8, <2>1, AimedKept DEF Lasts, Aimed
  <1>10. QED
    BY <1>4, <1>5, <1>6, <1>9 DEF Lasts

(* What a page that gains a chunk is. *)
LEMMA GainedIs ==
  ASSUME Base, NEW p \in Pages, NEW g \in GPUs, NEW b \in Nat, NEW n \in Nat,
         pages' = Promoted(p, g, b, n)
  PROVE  LET c == ChunkAt(g, b, n)
             l == PageLists[p]
         IN  /\ c \in Chunk /\ c.gpu = g /\ c.blk = b /\ c.size = n
             /\ \A q \in Pages : q # p => pages'[q] = pages[q] /\ PageLists'[q] = PageLists[q]
             /\ pages'[p].tier = "Vram" /\ pages'[p].live = pages[p].live
             /\ pages'[p].dram = pages[p].dram /\ pages'[p].ssd = pages[p].ssd
             /\ Len(l) \in Nat /\ DOMAIN l = 1 .. Len(l)
             /\ DOMAIN PageLists'[p] = 1 .. Len(l) + 1
             /\ \A i \in DOMAIN l : i \in DOMAIN PageLists'[p] /\ PageLists'[p][i] = l[i]
             /\ PageLists'[p][Len(l) + 1] = c
             /\ \A i \in DOMAIN PageLists'[p] : i \in DOMAIN l \/ i = Len(l) + 1
  <1> DEFINE c == ChunkAt(g, b, n)
             l == PageLists[p]
  <1>1. PageTypes
    BY BaseTypes
  <1>2. /\ \A q \in Pages : q # p => pages'[q] = pages[q]
        /\ pages'[p].dram = pages[p].dram /\ pages'[p].live = pages[p].live
        /\ pages'[p].tier = "Vram"
    BY <1>1, PromotedIs
  <1>3. pages'[p].ssd = pages[p].ssd
    BY <1>1, PromotedIs
  <1>4. pages'[p].vram = Append(pages[p].vram, c)
    BY <1>1, PromotedIs
  <1>5. c \in Chunk
    BY <1>1, PromotedIs
  <1>6. c.gpu = g /\ c.blk = b /\ c.size = n
    BY DEF ChunkAt
  <1>7. l \in Seq(Chunk) /\ Len(l) \in Nat /\ DOMAIN l = 1 .. Len(l)
    BY EmptyList
  <1>8. /\ \A q \in Pages : q # p => PageLists'[q] = PageLists[q]
        /\ PageLists'[p] = Append(l, c) /\ c \in Chunk
    BY <1>2, <1>4, <1>5 DEF PageLists
  <1> HIDE DEF c, l
  <1>9. /\ DOMAIN PageLists'[p] = 1 .. Len(l) + 1
        /\ \A i \in DOMAIN l : i \in DOMAIN PageLists'[p] /\ PageLists'[p][i] = l[i]
        /\ PageLists'[p][Len(l) + 1] = c
        /\ \A i \in DOMAIN PageLists'[p] : i \in DOMAIN l \/ i = Len(l) + 1
    BY <1>7, <1>8
  <1>10. QED
    BY <1>2, <1>6, <1>7, <1>8, <1>9, <1>3 DEF c, l

(* A page gains a chunk that holds what it must.                           *)
LEMMA GainGood ==
  ASSUME Base, NEW p \in Pages, Good(p), NEW g \in GPUs, NEW b \in Nat, NEW n \in Nat,
         pages' = Promoted(p, g, b, n), ChunksOn(p, g) = {}, pages[p].live,
         inflight'[p] = None, latest' = latest, SameData(p),
         n = Extent(p, g), N = 1 \/ pages[p].ssd # 0 \/ pages[p].dram # << >>,
         latest[p] # 0 => dev'[g][b].data = Content(p, g)
  PROVE  Good(p)'
  <1> DEFINE c == ChunkAt(g, b, n)
             l == PageLists[p]
  <1>1. /\ pages'[p].tier = "Vram" /\ pages'[p].live = pages[p].live
        /\ pages'[p].dram = pages[p].dram /\ pages'[p].ssd = pages[p].ssd
        /\ c.gpu = g /\ c.blk = b /\ c.size = n
        /\ Len(l) \in Nat /\ DOMAIN PageLists'[p] = 1 .. Len(l) + 1
        /\ \A i \in DOMAIN l : i \in DOMAIN PageLists'[p] /\ PageLists'[p][i] = l[i]
        /\ PageLists'[p][Len(l) + 1] = c
        /\ \A i \in DOMAIN PageLists'[p] : i \in DOMAIN l \/ i = Len(l) + 1
    BY ONLY GainedIs, Base, p \in Pages, g \in GPUs, b \in Nat, n \in Nat, pages' = Promoted(p, g, b, n)
  <1> HIDE DEF c, l
  <1>2. PageLists'[p] # << >>
    BY <1>1
  <1>3. \A h \in GPUs : /\ Backed(p, h)' = Backed(p, h)
                        /\ Content(p, h)' = Content(p, h) /\ Extent(p, h)' = Extent(p, h)
    BY <1>1 DEF Backed, Content, Extent, Whole, Shard
  <1>4. \A i \in DOMAIN l : l[i].gpu \in GPUs
    BY BaseTypes, ChunkOfList DEF l
  <1>5. \A h \in GPUs : Backed(p, h) => InDram(p, h)' = InDram(p, h)
    BY <1>1 DEF SameData, SameShards, InDram
  <1>6. Sized(p)'
    <2>1. \A h \in GPUs : Backed(p, h)' =>
            pages'[p].dram[h + 1].size = ShardSize(p, h) /\ Len(InDram(p, h)') = ShardSize(p, h)
      BY <1>1, <1>3, <1>5 DEF Good, Sized
    <2>2. \A i \in DOMAIN l : l[i].size = Extent(p, l[i].gpu)
      BY DEF Good, Sized, l
    <2>3. \A i \in DOMAIN PageLists'[p] :
            PageLists'[p][i].size = Extent(p, PageLists[p][i].gpu)'
      BY <1>1, <1>3, <1>4, <2>2
    <2>4. QED
      BY <2>1, <2>3 DEF Sized
  <1>7. Situated(p)'
    <2>1. latest[p] # 0 /\ pages[p].ssd = 0 =>
            (\A h \in GPUs : Backed(p, h)) \/ N = 1
      BY DEF Good, Situated
    <2>2. pages[p].ssd # 0 => pages[p].dram = << >>
      BY DEF Good, Situated
    <2>3. QED
      BY <1>1, <1>2, <1>3, <2>1, <2>2 DEF Situated
  <1>8. Holding(p)'
    <2>1. SUFFICES ASSUME latest[p] # 0 PROVE Holding(p)'
      BY DEF Holding
    <2>2. \A i \in DOMAIN l : dev'[l[i].gpu][l[i].blk].data = Content(p, l[i].gpu)
      BY <2>1 DEF Good, Holding, SameData, SameChunks, l
    <2>3. \A i \in DOMAIN PageLists'[p] :
            dev'[PageLists'[p][i].gpu][PageLists'[p][i].blk].data
              = Content(p, PageLists[p][i].gpu)'
      BY <1>1, <1>3, <1>4, <2>1, <2>2
    <2>4. \A h \in GPUs : ChunksOn(p, h)' = {} => ChunksOn(p, h) = {}
      <3>1. PageLists'[p] = pages'[p].vram /\ l = pages[p].vram
        BY DEF PageLists, l
      <3>2. QED
        BY <1>1, <3>1 DEF ChunksOn
    <2>5. pages'[p].ssd = 0 => \A h \in GPUs : Backed(p, h)' /\ ChunksOn(p, h)' = {}
                                                 => InDram(p, h)' = Content(p, h)'
      BY <1>1, <1>3, <1>5, <2>1, <2>4 DEF Good, Holding
    <2>6. QED
      BY <1>1, <2>3, <2>5 DEF Holding
  <1>9. QED
    BY <1>6, <1>7, <1>8 DEF Good

(* A page gains a block nobody had, and nobody copies into. *)
LEMMA GainLasts ==
  ASSUME Base, Lasts, NEW p \in Pages, NEW g \in GPUs, NEW b \in Nat, NEW n \in Nat,
         pages' = Promoted(p, g, b, n), ChunksOn(p, g) = {}, pages[p].live,
         UNCHANGED <<host, file, latest, stream>>,
         inflight' = [inflight EXCEPT ![p] = None],
         \A q \in Pages : /\ SameChunks(q)
                          /\ q # p /\ inflight[q] # None =>
                               dev'[inflight[q].gpu][inflight[q].blk].data
                                 = dev[inflight[q].gpu][inflight[q].blk].data,
         n = Extent(p, g), N = 1 \/ pages[p].ssd # 0 \/ pages[p].dram # << >>,
         latest[p] # 0 => dev'[g][b].data = Content(p, g),
         \A h \in GPUs : \A i \in DOMAIN stream[h] :
           /\ Uncached(vram_free', h, stream[h][i].blk)
           /\ h = g => stream[h][i].blk # b
  PROVE  Lasts'
  <1> DEFINE c == ChunkAt(g, b, n)
  <1>1. /\ inflight'[p] = None /\ \A q \in Pages : q # p => inflight'[q] = inflight[q]
    BY BaseTypes DEF Issues
  <1>2. /\ \A q \in Pages : q # p => pages'[q] = pages[q] /\ PageLists'[q] = PageLists[q]
        /\ pages'[p].ssd = pages[p].ssd
        /\ c.gpu = g /\ c.blk = b
        /\ \A i \in DOMAIN PageLists[p] : PageLists'[p][i] = PageLists[p][i]
        /\ PageLists'[p][Len(PageLists[p]) + 1] = c
        /\ \A i \in DOMAIN PageLists'[p] : i \in DOMAIN PageLists[p] \/ i = Len(PageLists[p]) + 1
    BY GainedIs
  <1> HIDE DEF c
  <1>3. \A q \in Pages : SameData(q)
    BY DEF SameData, SameShards, SameRange
  <1>4. \A q \in Pages : Good(q) /\ Arriving(q) /\ (pages[q].tier = "Ssd" => pages[q].ssd # 0)
    BY DEF Lasts, Base, Stored
  <1>5. ASSUME NEW q \in Pages, q # p PROVE Good(q)' /\ Arriving(q)'
    <2>1. SamePage(q)
      BY <1>2, <1>5 DEF SamePage
    <2>2. inflight'[q] = inflight[q]
      BY <1>1, <1>5
    <2>3. Good(q)'
      BY <1>3, <1>4, <2>1, <2>2, GoodKept
    <2>4. Arriving(q)'
      BY <1>4, <1>5, <2>1, <2>2, ArrivingKept
    <2>5. QED
      BY <2>3, <2>4
  <1>6. Good(p)'
    BY <1>1, <1>3, <1>4, GainGood
  <1>7. Arriving(p)'
    BY <1>1 DEF Arriving
  <1>8. OwnRanges'
    BY <1>2, RangesKept DEF Lasts
  <1>9. Aimed'
    <2>1. ASSUME NEW h \in GPUs, NEW i \in DOMAIN stream[h]
          PROVE  Unlisted(PageLists', h, stream[h][i].blk)
      <3>1. Unlisted(PageLists, h, stream[h][i].blk)
        BY DEF Lasts, Aimed
      <3>2. \A j \in DOMAIN PageLists'[p] :
              \/ j \in DOMAIN PageLists[p] /\ PageLists'[p][j] = PageLists[p][j]
              \/ PageLists'[p][j].gpu = g /\ PageLists'[p][j].blk = b
        BY <1>2
      <3>3. h = g => stream[h][i].blk # b
        OBVIOUS
      <3>4. QED
        BY <1>2, <3>1, <3>2, <3>3 DEF Unlisted
    <2>2. \A q \in Pages : inflight'[q] \in {inflight[q], None}
      BY <1>1
    <2>3. Aimed
      BY DEF Lasts
    <2>4. QED
      BY <2>1, <2>2, <2>3, AimedKept
  <1>10. QED
    BY <1>5, <1>6, <1>7, <1>8, <1>9 DEF Lasts

(* What is brought to a GPU is what that GPU must have. *)
LEMMA BroughtIs ==
  ASSUME Table, Lasting, Lasts, NEW p \in Pages, NEW g \in GPUs, Asked(p, g),
         NEW n \in Nat, NEW data \in Data, Brought(p, g, n, data), ChunksOn(p, g) = {}
  PROVE  /\ n = Extent(p, g)
         /\ N = 1 \/ pages[p].ssd # 0 \/ pages[p].dram # << >>
         /\ latest[p] # 0 => data = Content(p, g)
  <1>1. Base /\ Good(p)
    BY DEF Table, Lasts
  <1>2. CASE /\ pages[p].tier = "Vram"
             /\ \E i \in DOMAIN PageLists[p] :
                  /\ PageLists[p][i].gpu # g
                  /\ n = PageLists[p][i].size
                  /\ data = dev[PageLists[p][i].gpu][PageLists[p][i].blk].data
    <2>1. PICK i \in DOMAIN PageLists[p] :
             /\ PageLists[p][i].gpu # g
             /\ n = PageLists[p][i].size
             /\ data = dev[PageLists[p][i].gpu][PageLists[p][i].blk].data
      BY <1>2
    <2>2. PageLists[p][i].gpu \in GPUs
      BY <1>1, BaseTypes, ChunkOfList
    <2>3. PageLists[p] # << >>
      OBVIOUS
    <2>4. N # 1
      BY <2>1, <2>2, OneShard
    <2>5. pages[p].dram = << >>
      BY <2>3, AskedForNone DEF Lasting, OneChunkEach
    <2>6. pages[p].ssd # 0
      BY <1>1, <2>4, <2>5, <2>3 DEF Good, Situated
    <2>7. n = PageSize[p] /\ (latest[p] # 0 => data = Whole(p, latest[p]))
      BY <1>1, <2>1, <2>6 DEF Good, Sized, Holding, Extent, Content
    <2>8. QED
      BY <2>6, <2>7 DEF Extent, Content
  <1>3. CASE /\ pages[p].tier = "Dram"
             /\ g + 1 \in DOMAIN pages[p].dram
             /\ n = pages[p].dram[g + 1].size
             /\ data = Prefix(host[g][pages[p].dram[g + 1].frame].data, n)
                \/ "refused" \in Failures
    <2>1. Backed(p, g) /\ pages[p].dram # << >> /\ pages[p].ssd = 0
      BY <1>1, <1>3 DEF Backed, Good, Situated
    <2>2. n = ShardSize(p, g) /\ Len(InDram(p, g)) = n /\ InDram(p, g) \in Data
      BY <1>1, <1>3, <2>1, BaseTypes, BackingTyped DEF Good, Sized, InDram, Backed
    <2>3. data = InDram(p, g)
      BY <1>3, <2>2, WholePrefix DEF Lasting, InDram
    <2>4. latest[p] # 0 => InDram(p, g) = Content(p, g)
      BY <1>1, <2>1 DEF Good, Holding
    <2>5. n = Extent(p, g)
      BY <2>1, <2>2 DEF Extent
    <2>6. QED
      BY <2>1, <2>3, <2>4, <2>5
  <1>4. CASE pages[p].tier = "Ssd" /\ n = PageSize[p] /\ data = file[pages[p].ssd]
    <2>1. pages[p].ssd # 0
      BY <1>1, <1>4 DEF Base, Stored
    <2>2. latest[p] # 0 => data = Whole(p, latest[p])
      BY <1>1, <1>4 DEF Good, Holding
    <2>3. QED
      BY <1>4, <2>1, <2>2 DEF Extent, Content
  <1>5. QED
    BY <1>2, <1>3, <1>4 DEF Brought

(* The prefetched block is the page, and nothing else is copied into it. *)
LEMMA ClaimedIs ==
  ASSUME Base, Lasts, NEW p \in Pages, NEW g \in GPUs,
         inflight[p] # None, inflight[p].gpu = g, Landed(p)
  PROVE  /\ N = 1 /\ inflight[p].size = Extent(p, g)
         /\ latest[p] # 0 => dev[g][inflight[p].blk].data = Content(p, g)
         /\ \A h \in GPUs : \A i \in DOMAIN stream[h] :
              h = g => stream[h][i].blk # inflight[p].blk
  <1>1. Good(p) /\ Arriving(p) /\ Aimed
    BY DEF Lasts
  <1>2. N = 1 /\ inflight[p].size = PageSize[p]
    BY <1>1 DEF Good, Sized, Prefetching
  <1>3. g = 0 /\ ShardSize(p, g) = PageSize[p] /\ \A w : Shard(p, g, w) = Whole(p, w)
    BY <1>2, OneShard
  <1>4. \A i \in DOMAIN stream[g] : stream[g][i].blk # inflight[p].blk
    BY <1>1 DEF Aimed, Landed
  <1>5. inflight[p].size = Extent(p, g)
    BY <1>2, <1>3 DEF Extent
  <1>6. ASSUME latest[p] # 0 PROVE dev[g][inflight[p].blk].data = Content(p, g)
    BY <1>1, <1>3, <1>4, <1>6 DEF Arriving, Content
  <1>7. QED
    BY <1>2, <1>4, <1>5, <1>6

LEMMA AccessLasts ==
  ASSUME Table, Owned, Lasting, Lasts, NEW p \in Pages, NEW g \in GPUs,
         AccessPage(p, g), Asked(p, g), stream' = stream, latest' = latest
  PROVE  Lasts'
  <1>1. Base /\ Good(p) /\ Aimed
    BY DEF Table, Lasts
  <1>2. /\ host' = host /\ file' = file /\ inflight' = [inflight EXCEPT ![p] = None]
        /\ ClaimEnds(p, g) \/ PromoteEnds(p, g)
    BY <1>1, AccessCases
  <1>3. \A q \in Pages : inflight'[q] \in {inflight[q], None}
    BY <1>1, <1>2, BaseTypes DEF Issues
  <1>4. CASE ClaimEnds(p, g)
    <2>1. /\ inflight[p] # None /\ inflight[p].gpu = g /\ Landed(p)
          /\ dev' = dev /\ vram_free' = vram_free
          /\ inflight[p].blk \in Nat /\ inflight[p].size \in Nat
      BY <1>1, <1>4, BaseTypes, ChunkOfIssue DEF ClaimEnds
    <2>2. CASE pages' = pages
      <3>1. \A q \in Pages : SamePage(q)
        BY <2>2 DEF SamePage
      <3>2. QED
        BY <1>1, <1>2, <1>3, <2>1, <3>1, LittleLasts
    <2>3. CASE pages[p].live /\ pages' = Promoted(p, g, inflight[p].blk, inflight[p].size)
      <3>1. ChunksOn(p, g) = {}
        <4>1. PageLists[p] = << >>
          BY <1>1, <2>1 DEF Base, NoChunksBelow, Prefetched
        <4>2. QED
          BY <1>1, <4>1, EmptyList DEF ChunksOn
      <3>2. /\ N = 1 /\ inflight[p].size = Extent(p, g)
            /\ latest[p] # 0 => dev[g][inflight[p].blk].data = Content(p, g)
            /\ \A h \in GPUs : \A i \in DOMAIN stream[h] :
                 h = g => stream[h][i].blk # inflight[p].blk
        BY <1>1, <2>1, ClaimedIs
      <3>3. \A q \in Pages : SameChunks(q)
        BY <2>1 DEF SameChunks
      <3>4. \A h \in GPUs : \A i \in DOMAIN stream[h] : Uncached(vram_free', h, stream[h][i].blk)
        BY <1>1, <2>1 DEF Aimed
      <3> DEFINE b == inflight[p].blk
                 n == inflight[p].size
      <3>5. b \in Nat /\ n \in Nat
        BY <2>1
      <3>6. pages[p].live /\ pages' = Promoted(p, g, b, n)
        BY <2>3
      <3>7. /\ N = 1 /\ n = Extent(p, g)
            /\ latest[p] # 0 => dev'[g][b].data = Content(p, g)
            /\ \A h \in GPUs : \A i \in DOMAIN stream[h] :
                 /\ Uncached(vram_free', h, stream[h][i].blk)
                 /\ h = g => stream[h][i].blk # b
        BY <2>1, <3>2, <3>4
      <3>8. \A q \in Pages : q # p /\ inflight[q] # None =>
              dev'[inflight[q].gpu][inflight[q].blk].data = dev[inflight[q].gpu][inflight[q].blk].data
        BY <2>1
      <3> HIDE DEF b, n
      <3>9. QED
        BY <1>1, <1>2, <3>1, <3>3, <3>5, <3>6, <3>7, <3>8, GainLasts
    <2>4. QED
      BY <1>4, <2>2, <2>3 DEF ClaimEnds
  <1>5. CASE PromoteEnds(p, g)
    <2>1. inflight[p] = None /\ inflight' = inflight
      <3>1. CASE inflight[p] # None
        <4>1. N = 1 /\ inflight[p].gpu \in GPUs /\ inflight[p].gpu # g
          BY <1>1, <1>5, <3>1, BaseTypes, ChunkOfIssue DEF Good, Sized, Prefetching, PromoteEnds
        <4>2. QED
          BY <4>1, OneShard
      <3>2. QED
        BY <1>1, <1>2, <3>1, BaseTypes DEF Issues
    <2>2. CacheAfterDiscard(p, g) = vram_free
      BY <2>1 DEF CacheAfterDiscard, Prefetched
    <2>3. \/ Stayed(p, vram_free)
          \/ \E n \in Nat, data \in Data :
               \E a \in VramBlocks(vram_free, g, n) : Moved(p, g, n, data, a)
      BY <1>5, <2>2 DEF PromoteEnds
    <2>4. CASE Stayed(p, vram_free)
      <3>1. \A q \in Pages : SamePage(q)
        <4>1. /\ Alike
              /\ \A q \in Pages : pages'[q].live = pages[q].live /\ pages'[q].dram = pages[q].dram
          BY <1>1, <2>4, BaseTypes, TouchedKeeps DEF Stayed
        <4>2. QED
          BY <4>1 DEF Alike, SamePage
      <3>2. QED
        BY <1>1, <1>2, <1>3, <2>4, <3>1, LittleLasts DEF Stayed
    <2>5. ASSUME NEW n \in Nat, NEW data \in Data, NEW a \in VramBlocks(vram_free, g, n),
                 Moved(p, g, n, data, a)
          PROVE  Lasts'
      <3>1. /\ a.blk \in Nat /\ a.cache \in Cache /\ OneBlock(g, a)
            /\ Unlisted(PageLists, g, a.blk) /\ Unissued(inflight, g, a.blk)
        BY <1>1, TakenIsFree
      <3>2. OnlyBlock(g, a.blk) /\ dev'[g][a.blk].data = data
        <4>1. dev' = Filled(g, a, n, data) /\ dev \in Devs
          BY <1>1, <2>5, BaseTypes DEF Moved
        <4>2. /\ \A h \in GPUs : h # g => dev'[h] = dev[h]
              /\ \A b \in DOMAIN dev[g] : b # a.blk => dev'[g][b] = dev[g][b]
              /\ dev'[g][a.blk].data = data
          BY <3>1, <4>1, FilledIs
        <4>3. QED
          BY <4>2 DEF OnlyBlock
      <3>3. CASE Lost(g, a) \/ Returned(g, a)
        BY <1>1, <1>2, <2>1, <3>2, <3>3, TakenLasts DEF Lost, Returned
      <3>4. CASE Gained(p, g, n, a) /\ pages[p].live /\ ChunksOn(p, g) = {} /\ Brought(p, g, n, data)
        <4>1. /\ n = Extent(p, g)
              /\ N = 1 \/ pages[p].ssd # 0 \/ pages[p].dram # << >>
              /\ latest[p] # 0 => dev'[g][a.blk].data = Content(p, g)
          BY <3>2, <3>4, BroughtIs
        <4>2. \A q \in Pages : SameChunks(q)
          BY <1>1, <3>1, <3>2, OtherBlocks
        <4>3. \A q \in Pages : q # p /\ inflight[q] # None =>
                dev'[inflight[q].gpu][inflight[q].blk].data = dev[inflight[q].gpu][inflight[q].blk].data
          <5>1. \A q \in Pages : inflight[q] # None =>
                  dev'[inflight[q].gpu][inflight[q].blk] = dev[inflight[q].gpu][inflight[q].blk]
            BY <1>1, <3>1, <3>2, OtherBlocks
          <5>2. QED
            BY <5>1
        <4>4. \A h \in GPUs : \A i \in DOMAIN stream[h] :
                /\ Uncached(vram_free', h, stream[h][i].blk)
                /\ h = g => stream[h][i].blk # a.blk
          <5>1. \A h \in GPUs : \A i \in DOMAIN stream[h] :
                  /\ Uncached(a.cache, h, stream[h][i].blk)
                  /\ h = g => stream[h][i].blk # a.blk
            BY <1>1, TakenIsIdle
          <5>2. vram_free' = a.cache
            BY <3>4 DEF Gained
          <5>3. QED
            BY <5>1, <5>2
        <4> DEFINE b == a.blk
        <4>5. b \in Nat /\ pages' = Promoted(p, g, b, n)
          BY <3>1, <3>4 DEF Gained
        <4>6. /\ latest[p] # 0 => dev'[g][b].data = Content(p, g)
              /\ \A h \in GPUs : \A i \in DOMAIN stream[h] :
                   /\ Uncached(vram_free', h, stream[h][i].blk)
                   /\ h = g => stream[h][i].blk # b
          BY <4>1, <4>4
        <4> HIDE DEF b
        <4>7. QED
          BY <1>1, <1>2, <3>4, <4>1, <4>2, <4>3, <4>5, <4>6, GainLasts
      <3>5. QED
        BY <2>5, <3>3, <3>4 DEF Moved
    <2>6. QED
      BY <2>3, <2>4, <2>5
  <1>6. QED
    BY <1>2, <1>4, <1>5

-----------------------------------------------------------------------------
(* prefetch, and the copies the GPU executes. *)

(* A copy of p into block b of GPU g is queued behind the others. *)
LEMMA QueuedIs ==
  ASSUME Base, NEW p \in Pages, NEW g \in GPUs, NEW b \in Nat, pages[p].dram # << >>,
         stream' = WithCopy(p, g, b)
  PROVE  \E last \in DOMAIN stream'[g] :
           /\ stream'[g][last].page = p /\ stream'[g][last].blk = b
           /\ stream'[g][last].frame = pages[p].dram[1].frame
           /\ stream'[g][last].size = PageSize[p]
           /\ \A h \in GPUs : \A i \in DOMAIN stream[h] :
                i \in DOMAIN stream'[h] /\ stream'[h][i] = stream[h][i]
           /\ \A h \in GPUs : \A i \in DOMAIN stream'[h] :
                i \in DOMAIN stream[h] \/ (h = g /\ i = last)
  <1> DEFINE c == CopyOf(p, b)
             more == WithCopy(p, g, b)
             last == Len(stream[g]) + 1
  <1>1. /\ \A h \in GPUs : h # g => more[h] = stream[h]
        /\ Len(stream[g]) \in Nat /\ DOMAIN stream[g] = 1 .. Len(stream[g])
        /\ DOMAIN more[g] = 1 .. Len(stream[g]) + 1
        /\ \A i \in 1 .. Len(stream[g]) : more[g][i] = stream[g][i]
        /\ more[g][Len(stream[g]) + 1] = c
    BY WithCopyIs
  <1>2. /\ c.page = p /\ c.blk = b /\ c.frame = pages[p].dram[1].frame
        /\ c.size = PageSize[p]
    BY DEF CopyOf
  <1>3. stream' = more
    OBVIOUS
  <1> HIDE DEF c, more
  <1>4. last \in DOMAIN stream'[g] /\ stream'[g][last] = c
    BY <1>1, <1>3
  <1>5. /\ \A i \in DOMAIN stream'[g] : i \in DOMAIN stream[g] \/ i = last
        /\ \A i \in DOMAIN stream[g] : i \in DOMAIN stream'[g]
    BY <1>1, <1>3
  <1> HIDE DEF last
  <1>6. QED
    BY <1>1, <1>2, <1>3, <1>4, <1>5

LEMMA IssuedIs ==
  ASSUME Base, NEW p \in Pages, NEW g \in GPUs, NEW b \in Nat,
         inflight' = [inflight EXCEPT ![p] = Target(p, g, b)]
  PROVE  /\ inflight'[p].gpu = g /\ inflight'[p].blk = b /\ inflight'[p].size = PageSize[p]
         /\ \A q \in Pages : q # p => inflight'[q] = inflight[q]
  BY BaseTypes DEF Issues, Target

LEMMA QueuedLasts ==
  ASSUME Base, Owned, Lasts, Prefetching, NEW p \in Pages, NEW g \in GPUs,
         NEW n \in Nat, NEW a \in VramBlocks(vram_free, g, n), OnlyBlock(g, a.blk),
         UNCHANGED <<pages, host, file, latest>>,
         inflight[p] = None, pages[p].tier = "Dram", pages[p].dram # << >>,
         vram_free' = a.cache, stream' = WithCopy(p, g, a.blk),
         \/ inflight' = inflight
         \/ inflight' = [inflight EXCEPT ![p] = Target(p, g, a.blk)]
  PROVE  Lasts'
  <1>1. /\ a.blk \in Nat
        /\ Uncached(a.cache, g, a.blk)
        /\ Unlisted(PageLists, g, a.blk) /\ Unissued(inflight, g, a.blk)
    BY TakenIsFree
  <1>2. \A h \in GPUs : \A i \in DOMAIN stream[h] :
          Uncached(a.cache, h, stream[h][i].blk) /\ (h = g => stream[h][i].blk # a.blk)
    BY TakenIsIdle DEF Lasts
  <1>3. PICK last \in DOMAIN stream'[g] :
           /\ stream'[g][last].page = p /\ stream'[g][last].blk = a.blk
           /\ stream'[g][last].frame = pages[p].dram[1].frame
           /\ stream'[g][last].size = PageSize[p]
           /\ \A h \in GPUs : \A i \in DOMAIN stream[h] :
                i \in DOMAIN stream'[h] /\ stream'[h][i] = stream[h][i]
           /\ \A h \in GPUs : \A i \in DOMAIN stream'[h] :
                i \in DOMAIN stream[h] \/ (h = g /\ i = last)
    <2> DEFINE b == a.blk
    <2>1. b \in Nat /\ stream' = WithCopy(p, g, b)
      BY <1>1
    <2> HIDE DEF b
    <2>2. \E last \in DOMAIN stream'[g] :
           /\ stream'[g][last].page = p /\ stream'[g][last].blk = b
           /\ stream'[g][last].frame = pages[p].dram[1].frame
           /\ stream'[g][last].size = PageSize[p]
           /\ \A h \in GPUs : \A i \in DOMAIN stream[h] :
                i \in DOMAIN stream'[h] /\ stream'[h][i] = stream[h][i]
           /\ \A h \in GPUs : \A i \in DOMAIN stream'[h] :
                i \in DOMAIN stream[h] \/ (h = g /\ i = last)
      BY ONLY <2>1, QueuedIs, Base, p \in Pages, g \in GPUs, pages[p].dram # << >>
    <2>3. QED
      BY <2>2 DEF b
  <1>4. /\ \A q \in Pages : q # p => inflight'[q] = inflight[q]
        /\ \/ inflight'[p] = None
           \/ inflight'[p].gpu = g /\ inflight'[p].blk = a.blk /\ inflight'[p].size = PageSize[p]
    <2>1. CASE inflight' = inflight
      BY <2>1
    <2>2. CASE inflight' = [inflight EXCEPT ![p] = Target(p, g, a.blk)]
      <3> DEFINE b == a.blk
      <3>1. b \in Nat /\ inflight' = [inflight EXCEPT ![p] = Target(p, g, b)]
        BY <1>1, <2>2
      <3> HIDE DEF b
      <3>2. /\ inflight'[p].gpu = g /\ inflight'[p].blk = b /\ inflight'[p].size = PageSize[p]
            /\ \A q \in Pages : q # p => inflight'[q] = inflight[q]
        BY ONLY <3>1, IssuedIs, Base, p \in Pages, g \in GPUs
      <3>3. QED
        BY <3>2 DEF b
    <2>3. QED
      BY <2>1, <2>2
  <1>5. \A q \in Pages : Good(q) /\ Arriving(q) /\ (pages[q].tier = "Ssd" => pages[q].ssd # 0)
    BY DEF Lasts, Base, Stored
  <1>6. \A q \in Pages : SamePage(q) /\ SameData(q)
    BY <1>1, OtherBlocks DEF SamePage, SameData, SameShards, SameRange
  <1>7. ASSUME NEW q \in Pages PROVE Good(q)'
    <2>1. CASE q = p
      <3>1. inflight'[p] = None \/ inflight'[p].size = PageSize[p]
        BY <1>4
      <3>2. \/ inflight'[p] \in {inflight[p], None}
            \/ Prefetching /\ inflight'[p].size = PageSize[p]
        BY <3>1
      <3>3. QED
        BY <1>5, <1>6, <2>1, <3>2, GoodKept
    <2>2. CASE q # p
      <3>1. inflight'[q] \in {inflight[q], None}
        BY <1>4, <2>2
      <3>2. QED
        BY <1>5, <1>6, <3>1, GoodKept
    <2>3. QED
      BY <2>1, <2>2
  <1>8. ASSUME NEW q \in Pages, q # p, inflight[q] # None, latest[q] # 0 PROVE Arriving(q)'
    <2> DEFINE h == inflight[q].gpu
               b == inflight[q].blk
    <2>1. h \in GPUs /\ (h # g \/ b # a.blk)
      BY <1>1, <1>8, BaseTypes, ChunkOfIssue DEF Unissued
    <2>2. /\ pages[q].ssd = 0
          /\ \A i \in DOMAIN stream[h] : stream[h][i].blk = b =>
               stream[h][i].frame = pages[q].dram[1].frame /\ stream[h][i].size = PageSize[q]
          /\ \/ dev[h][b].data = Whole(q, latest[q])
             \/ \E i \in DOMAIN stream[h] : stream[h][i].blk = b
      BY <1>5, <1>8 DEF Arriving
    <2>3. dev'[h][b] = dev[h][b]
      BY <1>1, <1>8, OtherBlocks
    <2>4. inflight'[q] = inflight[q]
      BY <1>4, <1>8
    <2> HIDE DEF h, b
    <2>5. \A i \in DOMAIN stream'[h] : stream'[h][i].blk = b =>
            stream'[h][i].frame = pages[q].dram[1].frame /\ stream'[h][i].size = PageSize[q]
      BY <1>3, <2>1, <2>2
    <2>6. \/ dev'[h][b].data = Whole(q, latest[q])
          \/ \E i \in DOMAIN stream'[h] : stream'[h][i].blk = b
      BY <1>3, <2>1, <2>2, <2>3
    <2>7. inflight'[q].gpu = h /\ inflight'[q].blk = b /\ Whole(q, latest[q])' = Whole(q, latest[q])
      BY <2>4 DEF h, b, Whole
    <2>8. QED
      BY <2>2, <2>5, <2>6, <2>7 DEF Arriving
  <1>9. ASSUME NEW q \in Pages, q # p PROVE Arriving(q)'
    <2>1. CASE inflight[q] # None /\ latest[q] # 0
      BY <1>8, <1>9, <2>1
    <2>2. CASE inflight[q] = None \/ latest[q] = 0
      BY <1>4, <1>9, <2>2 DEF Arriving
    <2>3. QED
      BY <2>1, <2>2
  <1>10. Arriving(p)'
    <2>1. SUFFICES ASSUME inflight'[p].gpu = g, inflight'[p].blk = a.blk PROVE Arriving(p)'
      BY <1>4 DEF Arriving
    <2>2. pages[p].ssd = 0
      BY <1>5 DEF Good, Situated
    <2>3. \A i \in DOMAIN stream'[g] : stream'[g][i].blk = a.blk => i = last
      BY <1>2, <1>3
    <2>4. QED
      BY <1>3, <2>1, <2>2, <2>3 DEF Arriving
  <1>11. OwnRanges'
    BY RangesKept DEF Lasts
  <1>12. Aimed'
    <2>1. PageLists' = PageLists
      BY DEF PageLists
    <2>2. SUFFICES ASSUME NEW h \in GPUs, NEW i \in DOMAIN stream'[h]
                   PROVE  /\ N = 1
                          /\ Uncached(vram_free', h, stream'[h][i].blk)
                          /\ Unlisted(PageLists, h, stream'[h][i].blk)
                          /\ \A q \in Pages : inflight'[q].gpu = h /\ inflight'[q].blk = stream'[h][i].blk
                                                => q = stream'[h][i].page
      BY <2>1 DEF Aimed
    <2>3. CASE i \in DOMAIN stream[h]
      <3>1. stream'[h][i] = stream[h][i] /\ (h = g => stream[h][i].blk # a.blk)
            /\ Uncached(a.cache, h, stream[h][i].blk)
        BY <1>2, <1>3, <2>3
      <3>2. Unlisted(PageLists, h, stream[h][i].blk)
            /\ \A q \in Pages : inflight[q].gpu = h /\ inflight[q].blk = stream[h][i].blk
                                  => q = stream[h][i].page
        BY <2>3 DEF Lasts, Aimed
      <3>3. \A q \in Pages : inflight'[q].gpu = h /\ inflight'[q].blk = stream[h][i].blk
                               => q = stream[h][i].page
        <4>1. ASSUME NEW q \in Pages, inflight'[q].gpu = h, inflight'[q].blk = stream[h][i].blk
              PROVE  inflight'[q] = inflight[q]
          BY <1>4, <3>1, <4>1, NoneIsNoChunk
        <4>2. QED
          BY <3>2, <4>1
      <3>4. QED
        BY <3>1, <3>2, <3>3 DEF Prefetching
    <2>4. CASE h = g /\ i = last
      <3>1. \A q \in Pages : inflight'[q].gpu = g /\ inflight'[q].blk = a.blk => q = p
        BY <1>1, <1>4 DEF Unissued
      <3>2. QED
        BY <1>1, <1>3, <2>4, <3>1 DEF Prefetching
    <2>5. QED
      BY <1>3, <2>3, <2>4
  <1>13. QED
    BY <1>7, <1>9, <1>10, <1>11, <1>12 DEF Lasts

LEMMA PrefetchLasts ==
  ASSUME Base, Owned, Lasting, Lasts, NEW p \in Pages, NEW g \in GPUs, Prefetch(p, g)
  PROVE  Lasts'
  <1>1. Prefetching
    BY DEF Lasting, Prefetching, Prefetch
  <1>2. /\ UNCHANGED <<pages, host, file, latest>>
        /\ inflight[p] = None /\ pages[p].tier = "Dram" /\ pages[p].dram # << >>
        /\ \/ UNCHANGED <<dev, vram_free, inflight, stream>>
           \/ \E a \in VramBlocks(vram_free, g, PageSize[p]) :
                /\ Allotted(p, g, a)
                /\ PrefetchIssued(p, g, a) \/ PrefetchLost(p, g, a) \/ PrefetchReturned(p, g, a)
    BY PrefetchCases
  <1>3. CASE UNCHANGED <<dev, vram_free, inflight, stream>>
    BY <1>2, <1>3, AllUntouched
  <1>4. ASSUME NEW a \in VramBlocks(vram_free, g, PageSize[p]), Allotted(p, g, a),
               PrefetchIssued(p, g, a) \/ PrefetchLost(p, g, a) \/ PrefetchReturned(p, g, a)
        PROVE  Lasts'
    <2>1. OnlyBlock(g, a.blk)
      <3>1. /\ \A h \in GPUs : h # g => dev'[h] = dev[h]
            /\ \A b \in DOMAIN dev[g] : b # a.blk => dev'[g][b] = dev[g][b]
        BY <1>4, AllottedIs
      <3>2. QED
        BY <3>1 DEF OnlyBlock
    <2>2. PageSize[p] \in Nat
      BY Sizes
    <2>3. \/ /\ stream' = stream /\ inflight' = inflight
             /\ vram_free' \in {a.cache, Recycled(a.cache, g, a.blk)}
          \/ /\ stream' = WithCopy(p, g, a.blk) /\ vram_free' = a.cache
             /\ \/ inflight' = inflight
                \/ inflight' = [inflight EXCEPT ![p] = Target(p, g, a.blk)]
      BY <1>4 DEF PrefetchIssued, PrefetchLost, PrefetchReturned
    <2>4. CASE /\ stream' = stream /\ inflight' = inflight
               /\ vram_free' \in {a.cache, Recycled(a.cache, g, a.blk)}
      BY <1>2, <2>1, <2>2, <2>4, TakenLasts
    <2>5. CASE /\ stream' = WithCopy(p, g, a.blk) /\ vram_free' = a.cache
               /\ \/ inflight' = inflight
                  \/ inflight' = [inflight EXCEPT ![p] = Target(p, g, a.blk)]
      BY <1>1, <1>2, <2>1, <2>2, <2>5, QueuedLasts
    <2>6. QED
      BY <2>3, <2>4, <2>5
  <1>5. QED
    BY <1>2, <1>3, <1>4

LEMMA StreamCopyLasts ==
  ASSUME Base, Lasts, NEW g \in GPUs, StreamCopy(g)
  PROVE  Lasts'
  <1> DEFINE c == stream[g][1]
             data == Prefix(host[0][c.frame].data, c.size)
  <1>1. /\ UNCHANGED <<pages, host, file, latest, vram_free, inflight>>
        /\ stream[g] # << >> /\ stream' = [stream EXCEPT ![g] = Tail(stream[g])]
        /\ dev' = BlockWith(g, Head(stream[g]).blk,
                            Prefix(host[0][Head(stream[g]).frame].data, Head(stream[g]).size))
    BY DEF StreamCopy, BlockWith
  <1>2. /\ Head(stream[g]) = c /\ 1 \in DOMAIN stream[g] /\ c \in Copy
        /\ \A h \in GPUs : h # g => stream'[h] = stream[h]
        /\ \A i \in DOMAIN stream'[g] :
             i + 1 \in DOMAIN stream[g] /\ stream'[g][i] = stream[g][i + 1]
    BY <1>1, HeadOfStream
  <1>3. \A i \in DOMAIN stream[g] : i # 1 =>
          \E j \in DOMAIN stream'[g] : stream'[g][j] = stream[g][i]
    <2>1. stream[g] \in Seq(Copy) /\ stream'[g] = Tail(stream[g])
      BY <1>1, BaseTypes
    <2>2. /\ Len(stream[g]) \in Nat /\ Len(stream[g]) > 0
          /\ DOMAIN stream[g] = 1 .. Len(stream[g])
          /\ DOMAIN Tail(stream[g]) = 1 .. Len(stream[g]) - 1
          /\ \A j \in 1 .. Len(stream[g]) - 1 : Tail(stream[g])[j] = stream[g][j + 1]
      BY <1>1, <2>1
    <2>3. /\ Len(stream[g]) \in Nat /\ DOMAIN stream[g] = 1 .. Len(stream[g])
          /\ DOMAIN stream'[g] = 1 .. Len(stream[g]) - 1
          /\ \A j \in 1 .. Len(stream[g]) - 1 : stream'[g][j] = stream[g][j + 1]
      BY <2>1, <2>2
    <2>4. ASSUME NEW i \in DOMAIN stream[g], i # 1
          PROVE  \E j \in DOMAIN stream'[g] : stream'[g][j] = stream[g][i]
      <3>1. i - 1 \in 1 .. Len(stream[g]) - 1 /\ (i - 1) + 1 = i
        BY <2>3, <2>4
      <3>2. QED
        BY <2>3, <3>1
    <2>5. QED
      BY <2>4
  <1>4. /\ N = 1 /\ Unlisted(PageLists, g, c.blk)
        /\ \A q \in Pages : inflight[q].gpu = g /\ inflight[q].blk = c.blk => q = c.page
    BY <1>2 DEF Lasts, Aimed
  <1>5. g = 0
    BY <1>4, OneShard DEF GPUs
  <1>6. c.blk \in DOMAIN dev[g] /\ c.frame \in Frames /\ c.size \in Nat
    BY <1>2 DEF Base, AllMade, Copy
  <1>7. data \in Data
    BY <1>5, <1>6, BaseTypes, Contents DEF HostTypes, Frame
  <1>8. dev' = BlockWith(g, c.blk, data)
    BY <1>1, <1>2
  <1> HIDE DEF c, data
  <1>9. OnlyBlock(g, c.blk) /\ dev'[g][c.blk].data = data
    <2> DEFINE b == c.blk
    <2>1. b \in DOMAIN dev[g] /\ dev' = BlockWith(g, b, data) /\ dev \in Devs
      BY <1>6, <1>8, BaseTypes
    <2> HIDE DEF b
    <2>2. /\ \A h \in GPUs : h # g => dev'[h] = dev[h]
          /\ \A d \in DOMAIN dev[g] : d # b => dev'[g][d] = dev[g][d]
          /\ dev'[g][b].data = data
      BY <1>7, <2>1, BlockWritten
    <2>3. QED
      BY <2>2 DEF OnlyBlock, b
  <1>10. \A q \in Pages : Good(q) /\ Arriving(q) /\ (pages[q].tier = "Ssd" => pages[q].ssd # 0)
    BY DEF Lasts, Base, Stored
  <1>11. \A q \in Pages : SamePage(q) /\ SameData(q)
    BY <1>1, <1>4, <1>9, OtherChunks DEF SamePage, SameData, SameShards, SameRange
  <1>12. \A q \in Pages : Good(q)'
    BY <1>1, <1>10, <1>11, GoodKept
  <1>13. ASSUME NEW q \in Pages, inflight[q] # None, latest[q] # 0 PROVE Arriving(q)'
    <2> DEFINE h == inflight[q].gpu
               b == inflight[q].blk
    <2>1. h \in GPUs /\ b \in DOMAIN dev[h]
      BY <1>13, BaseTypes, ChunkOfIssue DEF Made
    <2>2. h = g
      BY <1>4, <2>1, OneShard
    <2>3. /\ pages[q].ssd = 0
          /\ \A i \in DOMAIN stream[g] : stream[g][i].blk = b =>
               stream[g][i].frame = pages[q].dram[1].frame /\ stream[g][i].size = PageSize[q]
          /\ \/ dev[g][b].data = Whole(q, latest[q])
             \/ \E i \in DOMAIN stream[g] : stream[g][i].blk = b
      BY <1>10, <1>13, <2>2 DEF Arriving
    <2>4. /\ inflight'[q].gpu = g /\ inflight'[q].blk = b
          /\ Whole(q, latest[q])' = Whole(q, latest[q])
      BY <1>1, <2>2 DEF Whole
    <2> HIDE DEF h, b
    <2>5. \A i \in DOMAIN stream'[g] : stream'[g][i].blk = b =>
            stream'[g][i].frame = pages[q].dram[1].frame /\ stream'[g][i].size = PageSize[q]
      BY <1>2, <2>3
    <2>6. \/ dev'[g][b].data = Whole(q, latest[q])
          \/ \E i \in DOMAIN stream'[g] : stream'[g][i].blk = b
      <3>1. CASE b = c.blk
        <4>1. c.frame = pages[q].dram[1].frame /\ c.size = PageSize[q]
          BY <1>2, <2>3, <3>1 DEF c
        <4>2. PageLists[q] = << >>
          BY <1>13 DEF Base, NoChunksBelow, Prefetched
        <4>3. Backed(q, 0) /\ ChunksOn(q, 0) = {}
          BY <1>10, <1>13, <2>3, <4>2, Zero, EmptyList DEF Good, Situated, ChunksOn
        <4>4. InDram(q, 0) = Whole(q, latest[q])
          BY <1>4, <1>10, <1>13, <2>3, <4>3, Zero, OneShard DEF Good, Holding, Content
        <4>5. data = Prefix(InDram(q, 0), PageSize[q])
          BY <4>1 DEF data, InDram
        <4>6. latest[q] \in Nat
          BY DEF Base, RunTypes
        <4>7. Prefix(Whole(q, latest[q]), PageSize[q]) = Whole(q, latest[q])
          BY <4>6, Lengths, Contents, WholePrefix
        <4>8. QED
          BY <1>9, <3>1, <4>4, <4>5, <4>7
      <3>2. CASE b # c.blk
        <4>1. dev'[g][b] = dev[g][b]
          BY <1>9, <2>1, <2>2, <3>2 DEF OnlyBlock
        <4>2. \A i \in DOMAIN stream[g] : stream[g][i].blk = b => i # 1
          BY <3>2 DEF c
        <4>3. QED
          BY <1>3, <2>3, <4>1, <4>2
      <3>3. QED
        BY <3>1, <3>2
    <2>7. /\ pages'[q].ssd = 0 /\ pages'[q].dram = pages[q].dram
          /\ dev'[inflight'[q].gpu][inflight'[q].blk].data = Whole(q, latest[q])'
             \/ \E i \in DOMAIN stream'[inflight'[q].gpu] :
                  stream'[inflight'[q].gpu][i].blk = inflight'[q].blk
      BY <1>1, <2>3, <2>4, <2>6
    <2>8. \A i \in DOMAIN stream'[inflight'[q].gpu] :
            stream'[inflight'[q].gpu][i].blk = inflight'[q].blk =>
              /\ stream'[inflight'[q].gpu][i].frame = pages[q].dram[1].frame
              /\ stream'[inflight'[q].gpu][i].size = PageSize[q]
      BY <2>4, <2>5
    <2>9. QED
      BY <2>7, <2>8 DEF Arriving
  <1>14. \A q \in Pages : Arriving(q)'
    BY <1>1, <1>13 DEF Arriving
  <1>15. OwnRanges'
    BY <1>1, RangesKept DEF Lasts
  <1>16. Aimed'
    <2>1. PageLists' = PageLists
      BY <1>1 DEF PageLists
    <2>2. ASSUME NEW h \in GPUs, NEW i \in DOMAIN stream'[h]
          PROVE  \E j \in DOMAIN stream[h] : stream'[h][i] = stream[h][j]
      BY <1>2, <2>2
    <2>3. QED
      BY <1>1, <2>1, <2>2 DEF Lasts, Aimed
  <1>17. QED
    BY <1>12, <1>14, <1>15, <1>16 DEF Lasts

-----------------------------------------------------------------------------
(* write_page, and the kernels that write the memory access gave out. *)

(* One page changes, the block lists and the streams do not. *)
LEMMA OnePageLasts ==
  ASSUME Base, Lasts, NEW p \in Pages, Good(p)', Arriving(p)',
         UNCHANGED <<pages, vram_free, inflight, stream>>,
         \A q \in Pages : q # p => latest'[q] = latest[q] /\ SameData(q)
                                   /\ (inflight[q] # None =>
                                         dev'[inflight[q].gpu][inflight[q].blk].data
                                           = dev[inflight[q].gpu][inflight[q].blk].data)
  PROVE  Lasts'
  <1>1. \A q \in Pages : Good(q) /\ Arriving(q) /\ (pages[q].tier = "Ssd" => pages[q].ssd # 0)
    BY DEF Lasts, Base, Stored
  <1>2. \A q \in Pages : q # p => SamePage(q)
    BY DEF SamePage
  <1>3. \A q \in Pages : q # p => Good(q)'
    BY <1>1, <1>2, GoodKept
  <1>4. \A q \in Pages : q # p => Arriving(q)'
    BY <1>1, <1>2, ArrivingKept
  <1>5. OwnRanges'
    BY RangesKept DEF Lasts
  <1>6. Aimed'
    BY AimedKept DEF Lasts, Aimed, PageLists
  <1>7. QED
    BY <1>3, <1>4, <1>5, <1>6 DEF Lasts

LEMMA WriteColdLasts ==
  ASSUME Base, Lasts, NEW p \in Pages, WriteCold(p, writes + 1),
         pages[p].live, inflight[p] = None, PageLists[p] = << >>,
         UNCHANGED <<pages, dev, vram_free, inflight, stream>>
  PROVE  Lasts'
  <1> DEFINE w == writes + 1
             r == pages[p].ssd
  <1>1. /\ pages[p].tier = "Ssd" /\ host' = host
        /\ \/ /\ file' = [file EXCEPT ![r] = Whole(p, w)]
              /\ latest' = [latest EXCEPT ![p] = w]
           \/ /\ file' = [file EXCEPT ![r] = Junk(PageSize[p])]
              /\ latest' = [latest EXCEPT ![p] = 0]
    BY DEF WriteCold
  <1>2. w \in Nat /\ w # 0 /\ latest \in [Pages -> Nat]
    BY DEF Base, RunTypes
  <1>3. r # 0 /\ r \in DOMAIN file
    <2>1. r # 0 /\ r \in 0 .. Len(file) /\ Len(file) \in Nat /\ DOMAIN file = 1 .. Len(file)
      BY <1>1, BaseTypes DEF Base, Stored, HostTypes
    <2>2. QED
      BY <2>1
  <1>4. \A i \in DOMAIN file : i # r => file'[i] = file[i]
    BY <1>1
  <1>5. \A q \in Pages : q # p => latest'[q] = latest[q]
    BY <1>1, <1>2
  <1>6. ASSUME NEW q \in Pages, q # p PROVE SameData(q)
    <2>1. pages[q].ssd # 0 => pages[q].ssd \in DOMAIN file /\ pages[q].ssd # r
      <3>1. pages[q].ssd \in 0 .. Len(file) /\ Len(file) \in Nat /\ DOMAIN file = 1 .. Len(file)
        BY BaseTypes DEF Base, Stored, HostTypes
      <3>2. pages[q].ssd # 0 => pages[q].ssd # r
        BY <1>6 DEF Lasts, OwnRanges
      <3>3. QED
        BY <3>1, <3>2
    <2>2. QED
      BY <1>1, <1>4, <2>1 DEF SameData, SameChunks, SameShards, SameRange
  <1>7. latest'[p] = 0 \/ (latest'[p] = w /\ file'[r] = Whole(p, w))
    BY <1>1, <1>2, <1>3
  <1>8. Good(p)'
    <2>1. Good(p)
      BY DEF Lasts
    <2>2. PageLists' = PageLists
      BY DEF PageLists
    <2>3. \A g : /\ Backed(p, g)' = Backed(p, g) /\ InDram(p, g)' = InDram(p, g)
                 /\ Extent(p, g)' = Extent(p, g)
      BY <1>1 DEF Backed, InDram, Extent
    <2>4. Sized(p)'
      BY <2>1, <2>2, <2>3 DEF Good, Sized, Prefetching
    <2>5. Situated(p)'
      BY <1>3, <2>1, <2>2 DEF Good, Situated
    <2>6. Holding(p)'
      <3>1. DOMAIN PageLists'[p] = {} /\ pages'[p].ssd = r
        BY <2>2
      <3>2. latest'[p] # 0 => file'[r] = Whole(p, latest[p])'
        BY <1>7 DEF Whole
      <3>3. QED
        BY <1>3, <3>1, <3>2 DEF Holding
    <2>7. QED
      BY <2>4, <2>5, <2>6 DEF Good
  <1>9. Arriving(p)'
    BY DEF Arriving
  <1>10. QED
    BY <1>5, <1>6, <1>8, <1>9, OnePageLasts

LEMMA WriteBackingLasts ==
  ASSUME Base, HostOwned, Lasts, NEW p \in Pages, WriteBacking(p, writes + 1),
         pages[p].live, pages[p].tier # "Vram", inflight[p] = None, PageLists[p] = << >>,
         UNCHANGED <<pages, dev, vram_free, inflight, stream>>
  PROVE  Lasts'
  <1> DEFINE w == writes + 1
  <1>1. /\ pages[p].tier # "Ssd" /\ file' = file
        /\ host' = [g \in GPUs |->
             IF Backed(p, g)
             THEN Refilled(host[g], pages[p].dram[g + 1].frame, Shard(p, g, w))
             ELSE host[g]]
        /\ \/ Len(pages[p].dram) = N /\ latest' = [latest EXCEPT ![p] = w]
           \/ Len(pages[p].dram) < N /\ latest' = latest
    BY DEF WriteBacking, Backed, Refilled
  <1>2. w \in Nat /\ w # 0 /\ latest \in [Pages -> Nat]
    BY DEF Base, RunTypes
  <1> HIDE DEF w
  <1>3. Good(p)
    BY DEF Lasts
  <1>4. pages[p].tier = "Dram" /\ pages[p].ssd = 0
    BY <1>1, <1>3, BaseTypes DEF PageTypes, Page, Good, Situated
  <1>5. \A q \in Pages, g \in GPUs : Backed(q, g) => pages[q].dram[g + 1].frame \in Frames
    BY BaseTypes, BackingTyped DEF Backed
  <1>6. \A g \in GPUs : /\ ~Backed(p, g) => host'[g] = host[g]
                        /\ Backed(p, g) => \A f \in Frames : host'[g][f].data =
                             IF f = pages[p].dram[g + 1].frame THEN Shard(p, g, w)
                             ELSE host[g][f].data
    <2>1. SUFFICES ASSUME NEW g \in GPUs, Backed(p, g), NEW f \in Frames
                   PROVE  host'[g][f].data =
                            IF f = pages[p].dram[g + 1].frame THEN Shard(p, g, w)
                            ELSE host[g][f].data
      BY <1>1
    <2> DEFINE x == pages[p].dram[g + 1].frame
               d == Shard(p, g, w)
    <2>2. host'[g] = Refilled(host[g], x, d)
      BY <1>1, <2>1
    <2>3. host[g] \in [Frames -> Frame]
      BY BaseTypes DEF HostTypes
    <2> HIDE DEF x, d
    <2>4. host'[g][f].data = IF f = x THEN d ELSE host[g][f].data
      BY <2>2, <2>3, RefilledIs
    <2>5. QED
      BY <2>4 DEF x, d
  <1>7. \A q \in Pages : q # p => latest'[q] = latest[q]
    BY <1>1, <1>2
  <1>8. ASSUME NEW q \in Pages, q # p PROVE SameData(q)
    <2>1. SameShards(q)
      <3>1. SUFFICES ASSUME NEW g \in GPUs, Backed(q, g)
                     PROVE  host'[g][pages[q].dram[g + 1].frame].data
                              = host[g][pages[q].dram[g + 1].frame].data
        BY DEF SameShards
      <3>2. CASE Backed(p, g)
        <4>1. pages[q].dram[g + 1].frame # pages[p].dram[g + 1].frame
          BY <1>8, <3>1, <3>2, OtherFrames
        <4>2. QED
          BY <1>5, <1>6, <3>1, <3>2, <4>1
      <3>3. CASE ~Backed(p, g)
        BY <1>6, <3>3
      <3>4. QED
        BY <3>2, <3>3
    <2>2. QED
      BY <1>1, <2>1 DEF SameData, SameChunks, SameRange
  <1>9. \A g \in GPUs : Backed(p, g) => InDram(p, g)' = Shard(p, g, w)
    BY <1>5, <1>6 DEF InDram
  <1>10. \/ latest'[p] = 0
         \/ latest'[p] = w /\ \A g \in GPUs : Backed(p, g)
    <2>1. pages[p].dram \in Seq(Place) /\ Len(pages[p].dram) \in Nat
          /\ DOMAIN pages[p].dram = 1 .. Len(pages[p].dram)
      BY BaseTypes DEF PageTypes, Page
    <2>2. N \in Nat /\ N >= 1
      BY PoolAssumption
    <2>3. CASE Len(pages[p].dram) = N /\ latest' = [latest EXCEPT ![p] = w]
      <3>1. \A g \in GPUs : g + 1 \in 1 .. N
        BY <2>2 DEF GPUs
      <3>2. QED
        BY <1>2, <2>1, <2>3, <3>1 DEF Backed
    <2>4. CASE Len(pages[p].dram) < N /\ latest' = latest
      <3>1. N - 1 \in GPUs /\ (N - 1) + 1 = N /\ N \notin 1 .. Len(pages[p].dram)
        BY <2>1, <2>2, <2>4 DEF GPUs
      <3>2. ~Backed(p, N - 1)
        BY <2>1, <3>1 DEF Backed
      <3>3. latest[p] = 0
        BY <1>3, <1>4, <3>1, <3>2 DEF Good, Situated
      <3>4. QED
        BY <2>4, <3>3
    <2>5. QED
      BY <1>1, <2>3, <2>4
  <1>11. Good(p)'
    <2>1. PageLists' = PageLists /\ DOMAIN PageLists'[p] = {}
      BY DEF PageLists
    <2>2. \A g : Backed(p, g)' = Backed(p, g)
      BY DEF Backed
    <2>3. Sized(p)'
      <3>1. \A g \in GPUs : Len(Shard(p, g, w)) = ShardSize(p, g)
        BY <1>2, Lengths
      <3>2. \A g \in GPUs : Backed(p, g) =>
              pages[p].dram[g + 1].size = ShardSize(p, g) /\ Len(InDram(p, g)') = ShardSize(p, g)
        BY <1>3, <1>9, <3>1 DEF Good, Sized
      <3>3. QED
        BY <2>1, <2>2, <3>2 DEF Sized
    <2>4. Situated(p)'
      BY <1>4, <1>10, <2>1, <2>2 DEF Situated
    <2>5. Holding(p)'
      <3>1. latest'[p] # 0 => \A g \in GPUs : Content(p, g)' = Shard(p, g, w)
        BY <1>4, <1>10 DEF Content, Shard
      <3>2. QED
        BY <1>4, <1>9, <2>1, <2>2, <3>1 DEF Holding
    <2>6. QED
      BY <2>3, <2>4, <2>5 DEF Good
  <1>12. Arriving(p)'
    BY DEF Arriving
  <1>13. QED
    BY <1>7, <1>8, <1>11, <1>12, OnePageLasts

LEMMA WriteLasts ==
  ASSUME Base, HostOwned, Lasting, Lasts, NEW p \in Pages, WritePage(p)
  PROVE  Lasts'
  <1>1. UNCHANGED <<pages, dev, vram_free, inflight, stream>>
    BY DEF WritePage
  <1>2. CASE ~pages[p].live /\ UNCHANGED <<host, file, latest>>
    BY <1>1, <1>2, AllUntouched
  <1>3. CASE pages[p].live /\ (WriteCold(p, writes + 1) \/ WriteBacking(p, writes + 1))
    <2>1. pages[p].tier # "Vram"
      BY <1>3 DEF WritePage, MayWrite, Lasting
    <2>2. PageLists[p] = << >>
      BY <2>1 DEF Base, NoChunksBelow
    <2>3. inflight[p] = None
      BY DEF WritePage, MayWrite, Prefetched, Lasts, Good, Sized, Prefetching
    <2>4. QED
      BY <1>1, <1>3, <2>1, <2>2, <2>3, WriteColdLasts, WriteBackingLasts
  <1>4. QED
    BY <1>2, <1>3 DEF WritePage

LEMMA KernelLasts ==
  ASSUME Base, Owned, Lasts, NEW p \in Pages, KernelWrite(p)
  PROVE  Lasts'
  <1> DEFINE g == PageLists[p][1].gpu
             b == PageLists[p][1].blk
             w == writes + 1
  <1>1. /\ DOMAIN PageLists[p] = {1} /\ PageLists[p] # << >>
        /\ g \in GPUs /\ b \in DOMAIN dev[g] /\ PageLists[p][1].size = PageSize[p]
        /\ pages[p].live /\ pages[p].tier = "Vram"
    <2>1. PageLists[p] = pages[p].vram /\ DOMAIN PageLists[p] = 1 .. Len(PageLists[p])
      BY EmptyList
    <2>2. /\ Len(PageLists[p]) = 1 /\ PageLists[p][1].size = PageSize[p]
          /\ pages[p].live /\ pages[p].tier = "Vram"
      BY <2>1 DEF KernelWrite
    <2>3. DOMAIN PageLists[p] = {1}
      BY <2>1, <2>2
    <2>4. g \in GPUs /\ b \in DOMAIN dev[g]
      BY <2>3, BaseTypes, ChunkOfList DEF Made
    <2>5. QED
      BY <2>2, <2>3, <2>4
  <1>2. /\ w \in Nat /\ w # 0 /\ latest \in [Pages -> Nat] /\ Whole(p, w) \in Data
    BY Contents DEF Base, RunTypes
  <1>3. /\ dev' = BlockWith(g, b, Whole(p, w)) /\ latest' = [latest EXCEPT ![p] = w]
        /\ UNCHANGED <<pages, host, file, vram_free, inflight, stream>>
    BY DEF KernelWrite, BlockWith, PageLists
  <1> HIDE DEF g, b, w
  <1>4. OnlyBlock(g, b) /\ dev'[g][b].data = Whole(p, w)
    <2>1. dev \in Devs
      BY BaseTypes
    <2>2. /\ \A h \in GPUs : h # g => dev'[h] = dev[h]
          /\ \A c \in DOMAIN dev[g] : c # b => dev'[g][c] = dev[g][c]
          /\ dev'[g][b].data = Whole(p, w)
      BY <1>1, <1>2, <1>3, <2>1, BlockWritten
    <2>3. QED
      BY <2>2 DEF OnlyBlock
  <1>5. latest'[p] = w /\ \A q \in Pages : q # p => latest'[q] = latest[q]
    BY <1>2, <1>3
  <1>6. inflight[p] = None
    BY <1>1 DEF Base, NoChunksBelow, Prefetched
  <1>7. ListedOnce(PageLists) /\ Apart(vram_free, PageLists, inflight)
    BY DEF Owned, OneOwnerNow, OneOwner
  <1>8. ASSUME NEW q \in Pages, q # p PROVE SameData(q)
    <2>1. SUFFICES ASSUME NEW i \in DOMAIN PageLists[q]
                   PROVE  dev'[PageLists[q][i].gpu][PageLists[q][i].blk].data
                            = dev[PageLists[q][i].gpu][PageLists[q][i].blk].data
      BY <1>3 DEF SameData, SameChunks, SameShards, SameRange
    <2>2. PageLists[q][i].gpu \in GPUs /\ PageLists[q][i].blk \in DOMAIN dev[PageLists[q][i].gpu]
      BY BaseTypes, ChunkOfList DEF Made
    <2>3. ~(PageLists[q][i].gpu = g /\ PageLists[q][i].blk = b)
      BY <1>1, <1>7, <1>8 DEF ListedOnce, g, b
    <2>4. QED
      BY <1>4, <2>2, <2>3 DEF OnlyBlock
  <1>9. ASSUME NEW q \in Pages, inflight[q] # None
        PROVE  dev'[inflight[q].gpu][inflight[q].blk].data = dev[inflight[q].gpu][inflight[q].blk].data
    <2>1. inflight[q].gpu \in GPUs /\ inflight[q].blk \in DOMAIN dev[inflight[q].gpu]
      BY <1>9, BaseTypes, ChunkOfIssue DEF Made
    <2>2. ~(inflight[q].gpu = g /\ inflight[q].blk = b)
      BY <1>1, <1>7, <1>9 DEF Apart, Unlisted, g, b
    <2>3. QED
      BY <1>4, <2>1, <2>2 DEF OnlyBlock
  <1>10. Good(p)'
    <2>1. Good(p)
      BY DEF Lasts
    <2>2. PageLists' = PageLists
      BY <1>3 DEF PageLists
    <2>3. \A h : /\ Backed(p, h)' = Backed(p, h) /\ InDram(p, h)' = InDram(p, h)
                 /\ Extent(p, h)' = Extent(p, h) /\ ChunksOn(p, h)' = ChunksOn(p, h)
      BY <1>3 DEF Backed, InDram, Extent, ChunksOn
    <2>4. Sized(p)'
      BY <1>3, <2>1, <2>2, <2>3 DEF Good, Sized, Prefetching
    <2>5. pages[p].ssd = 0 => N = 1
      <3>1. PageLists[p][1].size = Extent(p, g)
        BY <1>1, <2>1 DEF Good, Sized, g
      <3>2. pages[p].ssd = 0 => ShardSize(p, g) = PageSize[p]
        BY <1>1, <3>1 DEF Extent
      <3>3. QED
        BY <1>1, <3>2, ShardIsLess, Sizes
    <2>6. Situated(p)'
      BY <1>1, <1>3, <2>1, <2>2, <2>3, <2>5 DEF Good, Situated
    <2>7. Holding(p)'
      <3>1. \A h \in GPUs : Content(p, h)' = Whole(p, w)
        <4> SUFFICES ASSUME NEW h \in GPUs PROVE Content(p, h)' = Whole(p, w)
          OBVIOUS
        <4>1. pages' = pages /\ latest'[p] = w
          BY <1>3, <1>5
        <4>2. Content(p, h)' = IF pages'[p].ssd # 0 THEN Whole(p, latest'[p]) ELSE Shard(p, h, latest'[p])
          BY DEF Content, Whole, Shard
        <4>3. Content(p, h)' = IF pages[p].ssd # 0 THEN Whole(p, w) ELSE Shard(p, h, w)
          BY <4>1, <4>2
        <4>4. pages[p].ssd = 0 => Shard(p, h, w) = Whole(p, w)
          BY <2>5, OneShard
        <4>5. QED
          BY <4>3, <4>4
      <3>2. \A i \in DOMAIN PageLists'[p] :
              dev'[PageLists'[p][i].gpu][PageLists'[p][i].blk].data
                = Content(p, PageLists[p][i].gpu)'
        BY <1>1, <1>4, <2>2, <3>1 DEF g, b
      <3>3. pages[p].ssd = 0 => \A h \in GPUs : ChunksOn(p, h) # {}
        BY <1>1, <2>5, OneShard, EmptyList DEF ChunksOn, g
      <3>4. QED
        BY <1>1, <1>3, <2>3, <3>2, <3>3 DEF Holding
    <2>8. QED
      BY <2>4, <2>6, <2>7 DEF Good
  <1>11. Arriving(p)'
    BY <1>3, <1>6 DEF Arriving
  <1>12. QED
    BY <1>3, <1>5, <1>8, <1>9, <1>10, <1>11, OnePageLasts

LEMMA PinLasts ==
  ASSUME Base, Lasts, NEW p \in Pages, Pin(p)
  PROVE  Lasts'
  <1>1. \A q \in Pages : SamePage(q)
    <2>1. pages \in [Pages -> Page] /\ pages[p] \in Page
      BY BaseTypes DEF PageTypes
    <2>2. pages' = [pages EXCEPT ![p] = [pages[p] EXCEPT !.pinned = ~pages[p].pinned]] /\ latest' = latest
      BY <2>1 DEF Pin
    <2>3. QED
      BY <2>1, <2>2 DEF SamePage, Page
  <1>2. QED
    BY <1>1, LittleLasts DEF Pin, memory

-----------------------------------------------------------------------------
(* Every step, and what it is for. *)
LEMMA LastsStep ==
  ASSUME Table, Owned, HostOwned, Lasting, Lasts, [Next]_vars
  PROVE  Lasts'
  <1>1. Base
    BY DEF Table
  <1>2. CASE UNCHANGED vars
    BY <1>1, <1>2, AllUntouched DEF vars
  <1>3. ASSUME NEW p \in Pages, Allocate(p) PROVE Lasts'
    BY <1>3, AllocateLasts
  <1>4. ASSUME NEW p \in Pages, Demote(p) \/ SweepDemote(p) PROVE Lasts'
    BY <1>1, <1>4, DemoteLasts DEF Demote, SweepDemote
  <1>5. ASSUME NEW p \in Pages, WritePage(p) PROVE Lasts'
    BY <1>1, <1>5, WriteLasts
  <1>6. ASSUME NEW p \in Pages, KernelWrite(p) PROVE Lasts'
    BY <1>1, <1>6, KernelLasts
  <1>7. ASSUME NEW p \in Pages, Deallocate(p) PROVE Lasts'
    BY <1>7, DeallocateLasts
  <1>8. ASSUME NEW p \in Pages, Pin(p) PROVE Lasts'
    BY <1>1, <1>8, PinLasts
  <1>9. ASSUME NEW p \in Pages, SweepPromote(p) PROVE Lasts'
    <2>1. AccessPage(p, 0) /\ Asked(p, 0) /\ stream' = stream /\ latest' = latest
      BY <1>9 DEF SweepPromote, Asked
    <2>2. QED
      BY <2>1, Zero, AccessLasts
  <1>10. ASSUME NEW p \in Pages, NEW g \in GPUs, Access(p, g) PROVE Lasts'
    <2>1. AccessPage(p, g) /\ Asked(p, g) /\ stream' = stream /\ latest' = latest
      BY <1>10 DEF Access, Asked
    <2>2. QED
      BY <2>1, AccessLasts
  <1>11. ASSUME NEW p \in Pages, NEW g \in GPUs, Prefetch(p, g) PROVE Lasts'
    BY <1>1, <1>11, PrefetchLasts
  <1>12. ASSUME NEW g \in GPUs, StreamCopy(g) PROVE Lasts'
    BY <1>1, <1>12, StreamCopyLasts
  <1>13. CASE SweepStart
    BY <1>1, <1>13, AllUntouched DEF SweepStart, memory
  <1>14. ASSUME NEW g \in GPUs, Drain(g) PROVE Lasts'
    BY <1>1, <1>14, AllUntouched DEF Drain, memory
  <1>15. QED
    BY <1>2, <1>3, <1>4, <1>5, <1>6, <1>7, <1>8, <1>9, <1>10, <1>11, <1>12, <1>13, <1>14 DEF Next

LEMMA InitLasts == ASSUME Init PROVE Lasts
  <1>1. /\ \A p \in Pages : pages[p] = Absent /\ inflight[p] = None /\ latest[p] = 0
        /\ \A g \in GPUs : stream[g] = << >>
    BY DEF Init
  <1>2. \A p \in Pages : PageLists[p] = << >> /\ pages[p].dram = << >> /\ pages[p].ssd = 0
    BY <1>1, AbsentIsAPage DEF PageLists
  <1>3. \A p \in Pages : Good(p) /\ Arriving(p)
    BY <1>1, <1>2 DEF Good, Sized, Situated, Holding, Arriving, Backed
  <1>4. OwnRanges /\ Aimed
    BY <1>1, <1>2 DEF OwnRanges, Aimed
  <1>5. QED
    BY <1>3, <1>4 DEF Lasts

(* Where a page is, its last write is. *)
LEMMA LastsServe ==
  ASSUME Base, Lasts
  PROVE  NothingLost
  <1>1. SUFFICES ASSUME NEW p \in Pages, latest[p] # 0
        PROVE  CASE pages[p].tier = "Ssd" -> file[pages[p].ssd] = Whole(p, latest[p])
                 [] pages[p].tier = "Dram" ->
                      \A g \in GPUs : InDram(p, g) = Shard(p, g, latest[p])
                 [] pages[p].tier = "Vram" ->
                      \A g \in GPUs : AccessServes(p, g,
                        IF pages[p].ssd # 0 THEN Whole(p, latest[p]) ELSE Shard(p, g, latest[p]))
    BY DEF NothingLost
  <1>2. Good(p) /\ latest[p] \in Nat /\ pages[p].tier \in {"Vram", "Dram", "Ssd"}
    BY BaseTypes DEF Lasts, PageTypes, Page, Base, RunTypes
  <1>3. ASSUME pages[p].tier = "Ssd" PROVE file[pages[p].ssd] = Whole(p, latest[p])
    BY <1>1, <1>2, <1>3 DEF Good, Holding
  <1>4. ASSUME pages[p].tier = "Dram", NEW g \in GPUs PROVE InDram(p, g) = Shard(p, g, latest[p])
    <2>1. PageLists[p] = << >> /\ pages[p].ssd = 0
      BY <1>2, <1>4 DEF Base, NoChunksBelow, Good, Situated
    <2>2. Backed(p, g) /\ ChunksOn(p, g) = {}
      BY <1>1, <1>2, <2>1, EmptyList DEF Good, Situated, ChunksOn
    <2>3. QED
      BY <1>1, <1>2, <2>1, <2>2 DEF Good, Holding, Content
  <1>5. ASSUME pages[p].tier = "Vram", NEW g \in GPUs PROVE AccessServes(p, g, Content(p, g))
    <2>1. SUFFICES ASSUME NEW i \in ChunksOn(p, g)
                   PROVE  Prefix(dev[g][pages[p].vram[i].blk].data, Len(Content(p, g))) = Content(p, g)
      BY DEF AccessServes
    <2>2. i \in DOMAIN PageLists[p] /\ PageLists[p][i].gpu = g /\ PageLists[p][i] = pages[p].vram[i]
      BY EmptyList DEF ChunksOn
    <2>3. dev[g][pages[p].vram[i].blk].data = Content(p, g)
      BY <1>1, <1>2, <2>2 DEF Good, Holding
    <2>4. Content(p, g) \in Data
      BY <1>2, Contents DEF Content
    <2>5. QED
      BY <2>3, <2>4, WholePrefix
  <1>6. QED
    BY <1>2, <1>3, <1>4, <1>5 DEF Content

(* The last write of a page is never lost: wherever the tier field says    *)
(* the page is, the spill file, DRAM or VRAM, there are the contents its   *)
(* last write gave it, whatever calls, sweeps, failures and late copies    *)
(* came in between (access, demote, prefetch, claim_prefetch, write_page,  *)
(* background_sweep), for callers and a driver that keep to Lasting.       *)
THEOREM LastWritesAreNeverLost == ASSUME Lasting PROVE Spec => []NothingLost
  <1>1. "names" \in Careful /\ OneChunkEach
    BY DEF Lasting, OneChunkEach
  <1>2. Init => Owned /\ HostOwned /\ Lasts
    BY InitOwned, InitHost, InitLasts
  <1>3. Table /\ Owned /\ HostOwned /\ Lasts /\ [Next]_vars
          => (Owned /\ HostOwned /\ Lasts)'
    BY <1>1, LastsStep, OwnedStep, HostStep, StepCases DEF Table
  <1>4. Table /\ Lasts => NothingLost
    BY LastsServe DEF Table
  <1>5. QED
    BY <1>2, <1>3, <1>4, TableInductive, PTL DEF Spec

-----------------------------------------------------------------------------
(***************************************************************************)
(* Room.  The blocks of a device are the ones the driver gave out, each    *)
(* counted once; the DRAM of a pool is what its frames in use hold.  A     *)
(* shard stays as long as it was made: no frame in use is written with     *)
(* less or more, and none is on two pages.                                 *)
(***************************************************************************)
Shelf(p, g) == pages[p].dram[g + 1].frame

Shelved ==
  \A p \in Pages : \A g \in GPUs : g + 1 \in DOMAIN pages[p].dram =>
    /\ host[g][Shelf(p, g)].used
    /\ Len(host[g][Shelf(p, g)].data) = ShardSize(p, g)
    /\ \A q \in Pages : g + 1 \in DOMAIN pages[q].dram /\ Shelf(q, g) = Shelf(p, g) => q = p

DevicesFit == \A g \in GPUs : VramUsed(g) <= VramCap
PoolsFit == \A g \in GPUs : HostUsed(g) <= DramCap
RingsFit == submitted \in [GPUs -> 0 .. RingCap]
CountsFit == writes \in 0 .. MaxWrites /\ \A p \in Pages : pages[p].hits \in 0 .. HotAt

Fitting == DevicesFit /\ Shelved /\ PoolsFit /\ RingsFit /\ CountsFit

(* The sizes of the blocks of GPU g, and how much the frames of GPU g hold. *)
BlockSizes(g) == [b \in DOMAIN dev[g] |-> dev[g][b].size]
FrameSizes(g) == [f \in Frames |-> Len(host[g][f].data)]
UsedFrames(g) == {f \in Frames : host[g][f].used}

LEMMA SizesAreNat ==
  ASSUME Base, NEW g \in GPUs
  PROVE  /\ IsFiniteSet(DOMAIN dev[g]) /\ \A b \in DOMAIN dev[g] : BlockSizes(g)[b] \in Nat
         /\ DOMAIN dev[g] = 1 .. Len(dev[g]) /\ Len(dev[g]) \in Nat
         /\ IsFiniteSet(UsedFrames(g)) /\ \A f \in Frames : FrameSizes(g)[f] \in Nat
         /\ VramUsed(g) = SumFunctionOnSet(BlockSizes(g), DOMAIN dev[g])
         /\ HostUsed(g) = SumFunctionOnSet(FrameSizes(g), UsedFrames(g))
         /\ VramUsed(g) \in Nat /\ HostUsed(g) \in Nat
  <1>1. dev[g] \in Seq(Block) /\ dev \in Devs /\ host[g] \in [Frames -> Frame]
    BY BaseTypes DEF Devs, HostTypes
  <1>2. DOMAIN dev[g] = 1 .. Len(dev[g]) /\ Len(dev[g]) \in Nat
    BY <1>1
  <1>3. IsFiniteSet(1 .. Len(dev[g])) /\ IsFiniteSet(Frames)
    <2>1. 1 \in Int /\ Len(dev[g]) \in Int /\ DramCap \in Int
      BY <1>2, PoolAssumption
    <2>2. QED
      BY <2>1, FS_Interval DEF Frames
  <1>4. IsFiniteSet(UsedFrames(g))
    BY <1>3, FS_Subset DEF UsedFrames
  <1>5. \A b \in DOMAIN dev[g] : BlockSizes(g)[b] \in Nat
    BY <1>1, BlockTypes DEF BlockSizes
  <1>6. \A f \in Frames : FrameSizes(g)[f] \in Nat
    <2>1. \A f \in Frames : host[g][f].data \in Data
      BY <1>1 DEF Frame
    <2>2. \A d \in Data : Len(d) \in Nat
      BY DEF Data
    <2>3. QED
      BY <2>1, <2>2 DEF FrameSizes
  <1>7. VramUsed(g) = SumFunctionOnSet(BlockSizes(g), DOMAIN dev[g])
    BY DEF VramUsed, SumFunction, BlockSizes
  <1>8. HostUsed(g) = SumFunctionOnSet(FrameSizes(g), UsedFrames(g))
    BY DEF HostUsed, FrameSizes, UsedFrames
  <1>9. \A f \in UsedFrames(g) : FrameSizes(g)[f] \in Nat
    BY <1>6 DEF UsedFrames
  <1>10. VramUsed(g) \in Nat
    BY <1>2, <1>3, <1>5, <1>7, SumIsNat
  <1>11. HostUsed(g) \in Nat
    BY <1>4, <1>8, <1>9, SumIsNat
  <1>12. QED
    BY <1>2, <1>3, <1>4, <1>5, <1>6, <1>7, <1>8, <1>10, <1>11

(* The device holds no more when its blocks keep their sizes, and n more   *)
(* when it has one more, of n units.                                       *)
LEMMA SameBlocksFit ==
  ASSUME Base, NEW g \in GPUs, DOMAIN dev'[g] = DOMAIN dev[g],
         \A b \in DOMAIN dev[g] : dev'[g][b].size = dev[g][b].size
  PROVE  VramUsed(g)' = VramUsed(g)
  <1>1. BlockSizes(g)' = BlockSizes(g)
    BY DEF BlockSizes
  <1>2. VramUsed(g) = SumFunction(BlockSizes(g)) /\ VramUsed(g)' = SumFunction(BlockSizes(g)')
    BY DEF VramUsed, BlockSizes
  <1>3. QED
    BY <1>1, <1>2

LEMMA OneMoreBlock ==
  ASSUME Base, Base', NEW g \in GPUs, NEW n \in Nat,
         NEW b, b \notin DOMAIN dev[g], DOMAIN dev'[g] = DOMAIN dev[g] \cup {b},
         \A c \in DOMAIN dev[g] : dev'[g][c].size = dev[g][c].size,
         dev'[g][b].size = n
  PROVE  VramUsed(g)' = n + VramUsed(g)
  <1> DEFINE F == BlockSizes(g)
             G == BlockSizes(g)'
             S == DOMAIN dev[g]
  <1>1. IsFiniteSet(S) /\ VramUsed(g) = SumFunctionOnSet(F, S)
    BY SizesAreNat
  <1>2. VramUsed(g)' = SumFunctionOnSet(G, S \cup {b})
    BY DEF VramUsed, SumFunction, BlockSizes
  <1>3. G[b] = n /\ (\A c \in S : G[c] = F[c]) /\ \A c \in S : F[c] \in Nat
    <2>1. \A c \in S : F[c] \in Nat
      BY SizesAreNat
    <2>2. QED
      BY <2>1 DEF BlockSizes
  <1> HIDE DEF F, G, S
  <1>4. b \notin S
    BY DEF S
  <1>5. SumFunctionOnSet(G, S \cup {b}) = G[b] + SumFunctionOnSet(G, S)
    BY <1>1, <1>3, <1>4, SumPutsIn
  <1>6. SumFunctionOnSet(G, S) = SumFunctionOnSet(F, S)
    BY <1>1, <1>3, SumOfSame
  <1>7. QED
    BY <1>1, <1>2, <1>3, <1>5, <1>6

(* A pool holds no more when no frame becomes used and those that are used *)
(* keep their length, and n more when a frame of n units becomes used.     *)
LEMMA SameFramesFit ==
  ASSUME Base, Base', NEW g \in GPUs,
         \A f \in Frames : host'[g][f].used =>
           host[g][f].used /\ Len(host'[g][f].data) = Len(host[g][f].data)
  PROVE  HostUsed(g)' <= HostUsed(g) /\ HostUsed(g)' \in Nat
  <1> DEFINE F == FrameSizes(g)
             G == FrameSizes(g)'
             S == UsedFrames(g)
             T == UsedFrames(g)'
  <1>1. /\ IsFiniteSet(S) /\ HostUsed(g) = SumFunctionOnSet(F, S)
        /\ \A f \in Frames : F[f] \in Nat
    BY SizesAreNat
  <1>2. IsFiniteSet(T)
    BY <1>1, FS_Subset DEF UsedFrames
  <1>3. HostUsed(g)' = SumFunctionOnSet(G, T)
    BY DEF HostUsed, FrameSizes, UsedFrames
  <1>4. T \subseteq S /\ S \subseteq Frames /\ \A f \in T : G[f] = F[f]
    BY DEF UsedFrames, FrameSizes
  <1> HIDE DEF F, G, S, T
  <1>5. SumFunctionOnSet(G, T) = SumFunctionOnSet(F, T)
    BY <1>2, <1>4, SumOfSame
  <1>6. SumFunctionOnSet(F, T) <= SumFunctionOnSet(F, S)
    BY <1>1, <1>4, SumOfPartIsLess
  <1>7. SumFunctionOnSet(F, T) \in Nat
    BY <1>1, <1>2, <1>4, SumIsNat
  <1>8. QED
    BY <1>1, <1>3, <1>5, <1>6, <1>7

LEMMA OneMoreFrame ==
  ASSUME Base, Base', NEW g \in GPUs, NEW x \in Frames, ~host[g][x].used,
         \A f \in Frames : /\ host'[g][f].used <=> (host[g][f].used \/ f = x)
                           /\ host[g][f].used => host'[g][f].data = host[g][f].data
  PROVE  HostUsed(g)' = Len(host'[g][x].data) + HostUsed(g)
  <1> DEFINE F == FrameSizes(g)
             G == FrameSizes(g)'
             S == UsedFrames(g)
  <1>1. /\ IsFiniteSet(S) /\ HostUsed(g) = SumFunctionOnSet(F, S)
        /\ \A f \in Frames : F[f] \in Nat
    BY SizesAreNat
  <1>2. HostUsed(g)' = SumFunctionOnSet(G, UsedFrames(g)')
    BY DEF HostUsed, FrameSizes, UsedFrames
  <1>3. UsedFrames(g)' = S \cup {x} /\ x \notin S /\ S \subseteq Frames
    BY DEF UsedFrames
  <1>4. G[x] = Len(host'[g][x].data) /\ \A f \in S : G[f] = F[f]
    BY DEF UsedFrames, FrameSizes
  <1>5. G[x] \in Nat
    <2>1. host'[g][x].data \in Data
      BY DEF Base, HostTypes, Frame
    <2>2. QED
      BY <1>4, <2>1 DEF Data
  <1> HIDE DEF F, G, S
  <1>6. SumFunctionOnSet(G, S \cup {x}) = G[x] + SumFunctionOnSet(G, S)
    BY <1>1, <1>3, <1>4, <1>5, SumPutsIn
  <1>7. SumFunctionOnSet(G, S) = SumFunctionOnSet(F, S)
    BY <1>1, <1>4, SumOfSame
  <1>8. QED
    BY <1>1, <1>2, <1>3, <1>4, <1>6, <1>7

(* The driver makes a block only where it fits.                            *)
LEMMA NewBlockFits ==
  ASSUME NEW cache \in Cache, NEW g \in GPUs, NEW n \in Nat,
         NEW a \in VramBlocks(cache, g, n), a.new = TRUE
  PROVE  VramUsed(g) + n <= VramCap
  BY DEF VramBlocks

(* A block that is filled, or made for a prefetch, fits: it is new and     *)
(* there was room for it, or it is recycled and of the same size.          *)
LEMMA TakenFits ==
  ASSUME Base, Base', DevicesFit, NEW cache \in Cache, NEW issues \in Issues,
         Made(cache, PageLists, issues, dev),
         NEW g \in GPUs, NEW n \in Nat, NEW a \in VramBlocks(cache, g, n),
         \A h \in GPUs : h # g => dev'[h] = dev[h],
         DOMAIN dev'[g] = DOMAIN dev[g] \cup {a.blk},
         \A b \in DOMAIN dev[g] : b # a.blk => dev'[g][b] = dev[g][b],
         dev'[g][a.blk].size = n
  PROVE  DevicesFit'
  <1>1. /\ IF a.new THEN a.blk = Len(dev[g]) + 1
           ELSE a.blk \in DOMAIN dev[g] /\ dev[g][a.blk].size = n
        /\ a.new \in BOOLEAN
    BY BaseTypes, BlockTyped
  <1>2. ASSUME NEW h \in GPUs, h # g PROVE VramUsed(h)' <= VramCap
    <2>1. VramUsed(h)' = VramUsed(h)
      BY <1>2, SameBlocksFit
    <2>2. QED
      BY <2>1 DEF DevicesFit
  <1>3. CASE a.new
    <2>1. a.blk \notin DOMAIN dev[g] /\ \A b \in DOMAIN dev[g] : dev'[g][b].size = dev[g][b].size
      BY <1>1, <1>3, SizesAreNat
    <2>2. VramUsed(g)' = n + VramUsed(g)
      BY <2>1, OneMoreBlock
    <2>3. VramUsed(g) + n <= VramCap
      BY <1>1, <1>3, NewBlockFits
    <2>4. VramUsed(g) \in Nat
      BY SizesAreNat
    <2>5. QED
      BY <1>2, <2>2, <2>3, <2>4 DEF DevicesFit
  <1>4. CASE ~a.new
    <2>1. /\ DOMAIN dev'[g] = DOMAIN dev[g]
          /\ \A b \in DOMAIN dev[g] : dev'[g][b].size = dev[g][b].size
      BY <1>1, <1>4
    <2>2. VramUsed(g)' = VramUsed(g)
      BY <2>1, SameBlocksFit
    <2>3. QED
      BY <1>2, <2>2 DEF DevicesFit
  <1>5. QED
    BY <1>3, <1>4

LEMMA UntouchedFits ==
  ASSUME Base, DevicesFit, \A g \in GPUs : /\ DOMAIN dev'[g] = DOMAIN dev[g]
                                           /\ \A b \in DOMAIN dev[g] : dev'[g][b].size = dev[g][b].size
  PROVE  DevicesFit'
  BY SameBlocksFit DEF DevicesFit

LEMMA AccessFits ==
  ASSUME Base, Base', DevicesFit, NEW p \in Pages, NEW g \in GPUs, AccessPage(p, g)
  PROVE  DevicesFit'
  <1> DEFINE cache == CacheAfterDiscard(p, g)
             rest == [inflight EXCEPT ![p] = None]
  <1>1. cache \in Cache /\ rest \in Issues /\ Made(cache, PageLists, rest, dev)
    BY AfterDiscard
  <1> HIDE DEF cache, rest
  <1>2. dev' = dev \/ \E n \in Nat, data \in Data :
                        \E a \in VramBlocks(cache, g, n) : Moved(p, g, n, data, a)
    BY AccessCases DEF ClaimEnds, PromoteEnds, Stayed, cache
  <1>3. ASSUME NEW n \in Nat, NEW data \in Data,
               NEW a \in VramBlocks(cache, g, n), Moved(p, g, n, data, a)
        PROVE  DevicesFit'
    <2>1. dev' = Filled(g, a, n, data) /\ dev \in Devs
      BY <1>3, BaseTypes DEF Moved
    <2>2. OneBlock(g, a)
      BY <1>1, BaseTypes, BlockTyped DEF OneBlock
    <2>3. /\ \A h \in GPUs : h # g => dev'[h] = dev[h]
          /\ DOMAIN dev'[g] = DOMAIN dev[g] \cup {a.blk}
          /\ \A b \in DOMAIN dev[g] : b # a.blk => dev'[g][b] = dev[g][b]
          /\ dev'[g][a.blk].size = n
      BY <2>1, <2>2, FilledIs
    <2>4. QED
      BY <1>1, <2>3, TakenFits
  <1>4. QED
    BY <1>2, <1>3, UntouchedFits

LEMMA PrefetchFits ==
  ASSUME Base, Base', DevicesFit, NEW p \in Pages, NEW g \in GPUs, Prefetch(p, g)
  PROVE  DevicesFit'
  <1>1. \/ dev' = dev
        \/ \E a \in VramBlocks(vram_free, g, PageSize[p]) : Allotted(p, g, a)
    BY PrefetchCases
  <1>2. ASSUME NEW a \in VramBlocks(vram_free, g, PageSize[p]), Allotted(p, g, a)
        PROVE  DevicesFit'
    <2>1. /\ \A h \in GPUs : h # g => dev'[h] = dev[h]
          /\ DOMAIN dev'[g] = DOMAIN dev[g] \cup {a.blk}
          /\ \A b \in DOMAIN dev[g] : b # a.blk => dev'[g][b] = dev[g][b]
          /\ dev'[g][a.blk].size = PageSize[p]
      BY <1>2, AllottedIs
    <2>2. PageSize[p] \in Nat
      BY Sizes
    <2>3. QED
      BY <2>1, <2>2, BaseTypes, TakenFits
  <1>3. QED
    BY <1>1, <1>2, UntouchedFits

(* A copy or a kernel changes what a block holds and not how much.         *)
LEMMA WrittenFits ==
  ASSUME Base, DevicesFit, NEW g \in GPUs, NEW b \in DOMAIN dev[g], NEW data \in Data,
         dev' = BlockWith(g, b, data)
  PROVE  DevicesFit'
  <1>1. dev \in Devs
    BY BaseTypes
  <1>2. /\ \A h \in GPUs : h # g => dev'[h] = dev[h]
        /\ DOMAIN dev'[g] = DOMAIN dev[g]
        /\ \A c \in DOMAIN dev[g] : c # b => dev'[g][c] = dev[g][c]
        /\ dev'[g][b].size = dev[g][b].size
    BY <1>1, BlockWritten
  <1>3. QED
    BY <1>2, UntouchedFits

LEMMA DevicesStep ==
  ASSUME Base, Base', DevicesFit, [Next]_vars
  PROVE  DevicesFit'
  <1>1. ASSUME dev' = dev PROVE DevicesFit'
    BY <1>1, UntouchedFits
  <1>2. ASSUME NEW p \in Pages, NEW g \in GPUs, AccessPage(p, g) PROVE DevicesFit'
    BY <1>2, AccessFits
  <1>3. ASSUME NEW p \in Pages, DemotePage(p) PROVE DevicesFit'
    BY <1>1, <1>3, BaseTypes, DemoteCases
  <1>4. ASSUME NEW p \in Pages, KernelWrite(p) PROVE DevicesFit'
    <2> DEFINE c == pages[p].vram[1]
    <2>1. /\ pages[p].vram \in Seq(Chunk) /\ 1 \in DOMAIN pages[p].vram
          /\ pages[p].vram = PageLists[p]
      BY <1>4, BaseTypes DEF KernelWrite, PageTypes, Page
    <2>2. c.gpu \in GPUs /\ c.blk \in DOMAIN dev[c.gpu]
      BY <2>1, BaseTypes, ChunkOfList DEF Made
    <2>3. Whole(p, writes + 1) \in Data
      BY Contents DEF Base, RunTypes
    <2>4. dev' = BlockWith(c.gpu, c.blk, Whole(p, writes + 1))
      BY <1>4 DEF KernelWrite, BlockWith
    <2> HIDE DEF c
    <2>5. QED
      BY <2>2, <2>3, <2>4, WrittenFits
  <1>5. ASSUME NEW g \in GPUs, StreamCopy(g) PROVE DevicesFit'
    <2> DEFINE c == Head(stream[g])
               data == Prefix(host[0][c.frame].data, c.size)
    <2>1. /\ stream[g] # << >> /\ stream' = [stream EXCEPT ![g] = Tail(stream[g])]
          /\ dev' = BlockWith(g, c.blk, data)
      BY <1>5 DEF StreamCopy, BlockWith
    <2>2. c = stream[g][1] /\ 1 \in DOMAIN stream[g] /\ c \in Copy
      BY <2>1, HeadOfStream
    <2>3. host[0][c.frame].data \in Data /\ c.size \in Nat
      BY <2>2, BaseTypes, Zero DEF HostTypes, Frame, Copy
    <2>4. data \in Data
      BY <2>3, Contents
    <2>5. c.blk \in DOMAIN dev[g]
      BY <2>2 DEF Base, AllMade
    <2> HIDE DEF c, data
    <2>6. QED
      BY <2>1, <2>4, <2>5, WrittenFits
  <1>6. ASSUME NEW p \in Pages, Allocate(p) \/ WritePage(p) \/ Deallocate(p) \/ Pin(p)
        PROVE  dev' = dev
    BY <1>6 DEF Allocate, WritePage, Deallocate, Pin, memory
  <1>7. ASSUME (\E g \in GPUs : Drain(g)) \/ SweepStart \/ UNCHANGED vars PROVE dev' = dev
    BY <1>7 DEF Drain, SweepStart, vars, memory
  <1>8. QED
    BY <1>1, <1>2, <1>3, <1>4, <1>5, <1>6, <1>7, Zero, PrefetchFits
       DEF Next, Access, Demote, SweepDemote, SweepPromote

(* A pool keeps what is on its pages when no frame in use changes its      *)
(* length and no page its frames.                                          *)
LEMMA ShelvesKept ==
  ASSUME Base, Base', Shelved, PoolsFit,
         \A p \in Pages : pages'[p].dram = pages[p].dram,
         \A g \in GPUs, f \in Frames :
           /\ host'[g][f].used = host[g][f].used
           /\ host[g][f].used => Len(host'[g][f].data) = Len(host[g][f].data)
  PROVE  Shelved' /\ PoolsFit'
  <1>1. ASSUME NEW g \in GPUs PROVE HostUsed(g)' <= DramCap
    <2>1. HostUsed(g)' <= HostUsed(g) /\ HostUsed(g)' \in Nat
      BY SameFramesFit
    <2>2. HostUsed(g) \in Nat /\ HostUsed(g) <= DramCap /\ DramCap \in Nat
      BY SizesAreNat, PoolAssumption DEF PoolsFit
    <2>3. QED
      BY <2>1, <2>2
  <1>2. \A p \in Pages, g \in GPUs : Shelf(p, g)' = Shelf(p, g)
    BY DEF Shelf
  <1>3. \A p \in Pages, g \in GPUs : g + 1 \in DOMAIN pages[p].dram => Shelf(p, g) \in Frames
    BY BaseTypes, BackingTyped DEF Shelf
  <1>4. Shelved'
    BY <1>2, <1>3 DEF Shelved
  <1>5. QED
    BY <1>1, <1>4 DEF PoolsFit

(* allocate: a shard is made in a free frame of a pool with room for it.   *)
LEMMA AllocateHolds ==
  ASSUME Base, NEW p \in Pages, Allocate(p)
  PROVE  /\ Measured(p, pages'[p])
         /\ \A g \in GPUs : g + 1 \in DOMAIN pages'[p].dram => Holds(g, ShardSize(p, g))
         /\ pages'[p].hits = 0
  <1>1. pages \in [Pages -> Page]
    BY BaseTypes DEF PageTypes
  <1>2. Measured(p, pages'[p])
    BY <1>1, AllocateCases DEF Allocate
  <1>3. CASE AllocateCold(p)
    <2> DEFINE blank == [Absent EXCEPT !.live = TRUE, !.state = "Allocated"]
               cold == [blank EXCEPT !.tier = "Ssd", !.state = "Cold", !.ssd = Len(file) + 1]
    <2>1. blank.dram = << >> /\ cold.dram = << >> /\ blank.hits = 0 /\ cold.hits = 0
      BY DEF Absent
    <2>2. pages' = [pages EXCEPT ![p] = cold] \/ pages' = [pages EXCEPT ![p] = blank]
      BY <1>3 DEF AllocateCold
    <2> HIDE DEF blank, cold
    <2>3. pages'[p] = cold \/ pages'[p] = blank
      BY <1>1, <2>2
    <2>4. QED
      BY <1>2, <2>1, <2>3
  <1>4. ASSUME NEW tier \in Tiers, AllocateBacked(p, tier)
        PROVE  /\ \A g \in GPUs : g + 1 \in DOMAIN pages'[p].dram => Holds(g, ShardSize(p, g))
               /\ pages'[p].hits = 0
    <2> DEFINE pick(k) == [i \in 1 .. k |-> [frame |-> FreeFrame(i - 1), size |-> ShardSize(p, i - 1)]]
               page(k, state) == [Absent EXCEPT !.live = TRUE, !.tier = tier, !.state = state,
                                                !.dram = pick(k)]
    <2>1. PICK k \in 0 .. N :
            /\ \A g \in GPUs : g < k => Holds(g, ShardSize(p, g))
            /\ pages' = [pages EXCEPT ![p] =
                 page(k, CASE k < N -> "Allocated"
                           [] tier = "Vram" -> "Resident"
                           [] OTHER -> "Warm")]
      BY <1>4 DEF AllocateBacked
    <2>2. \A state : page(k, state).dram = pick(k) /\ page(k, state).hits = 0
      BY DEF Absent
    <2>3. DOMAIN pick(k) = 1 .. k
      OBVIOUS
    <2> HIDE DEF page, pick
    <2>4. pages'[p].dram = pick(k) /\ pages'[p].hits = 0
      BY <1>1, <2>1, <2>2
    <2>5. ASSUME NEW g \in GPUs, g + 1 \in 1 .. k PROVE g < k
      BY <2>5, PoolAssumption DEF GPUs
    <2>6. QED
      BY <2>1, <2>3, <2>4, <2>5
  <1>5. QED
    BY <1>2, <1>3, <1>4 DEF Allocate

LEMMA AllocateShelves ==
  ASSUME Base, Base', Shelved, PoolsFit, NEW p \in Pages, Allocate(p)
  PROVE  Shelved' /\ PoolsFit'
  <1>1. /\ \A q \in Pages : q # p => pages'[q] = pages[q]
        /\ Given(pages'[p])
    BY AllocatePages
  <1>2. \A g \in GPUs : g + 1 \in DOMAIN pages'[p].dram =>
          /\ Shelf(p, g)' \in Frames /\ ~host[g][Shelf(p, g)'].used
          /\ host'[g][Shelf(p, g)'].used
          /\ Len(host'[g][Shelf(p, g)'].data) = ShardSize(p, g)
          /\ HostUsed(g) + ShardSize(p, g) <= DramCap
    BY <1>1, AllocateHolds, Lengths, Sizes DEF Given, Measured, Holds, Shelf
  <1>3. \A g \in GPUs, f \in Frames :
          /\ host'[g][f].used <=> (host[g][f].used \/ (g + 1 \in DOMAIN pages'[p].dram
                                                        /\ f = Shelf(p, g)'))
          /\ host[g][f].used => host'[g][f].data = host[g][f].data
    BY <1>1 DEF Given, Shelf
  <1>4. \A q \in Pages, g \in GPUs : g + 1 \in DOMAIN pages[q].dram => Shelf(q, g) \in Frames
    BY BaseTypes, BackingTyped DEF Shelf
  <1>5. \A q \in Pages, g \in GPUs : q # p => Shelf(q, g)' = Shelf(q, g)
    BY <1>1 DEF Shelf
  <1>6. Shelved'
    <2> SUFFICES ASSUME NEW q \in Pages, NEW g \in GPUs, g + 1 \in DOMAIN pages'[q].dram
                 PROVE  /\ host'[g][Shelf(q, g)'].used
                        /\ Len(host'[g][Shelf(q, g)'].data) = ShardSize(q, g)
                        /\ \A r \in Pages : g + 1 \in DOMAIN pages'[r].dram
                                            /\ Shelf(r, g)' = Shelf(q, g)' => r = q
      BY DEF Shelved
    <2>1. \A r \in Pages : r # p /\ g + 1 \in DOMAIN pages'[r].dram =>
            /\ g + 1 \in DOMAIN pages[r].dram /\ Shelf(r, g)' = Shelf(r, g)
            /\ Shelf(r, g) \in Frames /\ host[g][Shelf(r, g)].used
      BY <1>1, <1>4, <1>5 DEF Shelved
    <2>2. \A r \in Pages : r # p /\ g + 1 \in DOMAIN pages'[r].dram
                           /\ g + 1 \in DOMAIN pages'[p].dram => Shelf(r, g)' # Shelf(p, g)'
      BY <1>2, <2>1
    <2>3. CASE q = p
      BY <1>2, <2>2, <2>3
    <2>4. CASE q # p
      <3>1. /\ g + 1 \in DOMAIN pages[q].dram /\ Shelf(q, g)' = Shelf(q, g)
            /\ Shelf(q, g) \in Frames /\ host[g][Shelf(q, g)].used
        BY <2>1, <2>4
      <3>2. /\ host'[g][Shelf(q, g)'].used
            /\ Len(host'[g][Shelf(q, g)'].data) = ShardSize(q, g)
        BY <1>3, <3>1 DEF Shelved
      <3>3. \A r \in Pages : r # p /\ g + 1 \in DOMAIN pages'[r].dram
                             /\ Shelf(r, g)' = Shelf(q, g)' => r = q
        BY <2>1, <3>1 DEF Shelved
      <3>4. QED
        BY <2>2, <2>4, <3>2, <3>3
    <2>5. QED
      BY <2>3, <2>4
  <1>7. ASSUME NEW g \in GPUs PROVE HostUsed(g)' <= DramCap
    <2>1. CASE g + 1 \in DOMAIN pages'[p].dram
      <3> DEFINE x == Shelf(p, g)'
      <3>1. /\ x \in Frames /\ ~host[g][x].used /\ Len(host'[g][x].data) = ShardSize(p, g)
            /\ HostUsed(g) + ShardSize(p, g) <= DramCap
            /\ \A f \in Frames : /\ host'[g][f].used <=> (host[g][f].used \/ f = x)
                                 /\ host[g][f].used => host'[g][f].data = host[g][f].data
        BY <1>2, <1>3, <2>1
      <3> HIDE DEF x
      <3>2. HostUsed(g)' = Len(host'[g][x].data) + HostUsed(g)
        BY <3>1, OneMoreFrame
      <3>3. HostUsed(g) \in Nat /\ ShardSize(p, g) \in Nat
        BY SizesAreNat, Sizes
      <3>4. QED
        BY <3>1, <3>2, <3>3
    <2>2. CASE g + 1 \notin DOMAIN pages'[p].dram
      <3>1. \A f \in Frames : host'[g][f].used =>
              host[g][f].used /\ Len(host'[g][f].data) = Len(host[g][f].data)
        BY <1>3, <2>2
      <3>2. HostUsed(g)' <= HostUsed(g) /\ HostUsed(g)' \in Nat
        BY <3>1, SameFramesFit
      <3>3. HostUsed(g) \in Nat /\ HostUsed(g) <= DramCap /\ DramCap \in Nat
        BY SizesAreNat, PoolAssumption DEF PoolsFit
      <3>4. QED
        BY <3>2, <3>3
    <2>3. QED
      BY <2>1, <2>2
  <1>8. QED
    BY <1>6, <1>7 DEF PoolsFit

(* deallocate: the frames of the page are free again, and no other page    *)
(* had one of them.                                                        *)
LEMMA DeallocateShelves ==
  ASSUME Base, Base', Shelved, PoolsFit, NEW p \in Pages, Deallocate(p)
  PROVE  Shelved' /\ PoolsFit'
  <1>1. Dropped(p) \/ UNCHANGED <<host, pages>>
    BY DeallocateCases
  <1>2. CASE Dropped(p)
    <2>1. /\ \A q \in Pages : q # p => pages'[q] = pages[q]
          /\ pages'[p].dram = << >>
      BY <1>2, DropPages, AbsentIsAPage
    <2>2. \A g \in GPUs, f \in Frames :
            /\ host'[g][f].data = host[g][f].data
            /\ host'[g][f].used = (host[g][f].used
                 /\ ~(g + 1 \in DOMAIN pages[p].dram /\ pages[p].dram[g + 1].frame = f))
      <3>1. host' = Unused(p)
        BY <1>2 DEF Dropped
      <3>2. QED
        BY ONLY <3>1, Base, UnusedIs, p \in Pages
    <2>3. \A q \in Pages, g \in GPUs : g + 1 \in DOMAIN pages[q].dram => Shelf(q, g) \in Frames
      BY BaseTypes, BackingTyped DEF Shelf
    <2>4. \A q \in Pages, g \in GPUs : g + 1 \in DOMAIN pages'[q].dram =>
            /\ q # p /\ g + 1 \in DOMAIN pages[q].dram
            /\ Shelf(q, g)' = Shelf(q, g) /\ Shelf(q, g) \in Frames
      BY <2>1, <2>3 DEF Shelf
    <2>5. \A q \in Pages, g \in GPUs : g + 1 \in DOMAIN pages'[q].dram =>
            ~(g + 1 \in DOMAIN pages[p].dram /\ pages[p].dram[g + 1].frame = Shelf(q, g))
      BY <2>4 DEF Shelved, Shelf
    <2>6. Shelved'
      <3> SUFFICES ASSUME NEW q \in Pages, NEW g \in GPUs, g + 1 \in DOMAIN pages'[q].dram
                   PROVE  /\ host'[g][Shelf(q, g)'].used
                          /\ Len(host'[g][Shelf(q, g)'].data) = ShardSize(q, g)
                          /\ \A r \in Pages : g + 1 \in DOMAIN pages'[r].dram
                                              /\ Shelf(r, g)' = Shelf(q, g)' => r = q
        BY DEF Shelved
      <3>1. /\ g + 1 \in DOMAIN pages[q].dram /\ Shelf(q, g)' = Shelf(q, g)
            /\ host[g][Shelf(q, g)].used /\ Len(host[g][Shelf(q, g)].data) = ShardSize(q, g)
            /\ Shelf(q, g) \in Frames
        BY <2>4 DEF Shelved
      <3>2. /\ host'[g][Shelf(q, g)].used
            /\ Len(host'[g][Shelf(q, g)].data) = ShardSize(q, g)
        BY <2>2, <2>5, <3>1
      <3>3. \A r \in Pages : g + 1 \in DOMAIN pages'[r].dram /\ Shelf(r, g)' = Shelf(q, g)' => r = q
        BY <2>4, <3>1 DEF Shelved
      <3>4. QED
        BY <3>1, <3>2, <3>3
    <2>7. ASSUME NEW g \in GPUs PROVE HostUsed(g)' <= DramCap
      <3>1. \A f \in Frames : host'[g][f].used =>
              host[g][f].used /\ Len(host'[g][f].data) = Len(host[g][f].data)
        BY <2>2
      <3>2. HostUsed(g)' <= HostUsed(g) /\ HostUsed(g)' \in Nat
        BY <3>1, SameFramesFit
      <3>3. HostUsed(g) \in Nat /\ HostUsed(g) <= DramCap /\ DramCap \in Nat
        BY SizesAreNat, PoolAssumption DEF PoolsFit
      <3>4. QED
        BY <3>2, <3>3
    <2>8. QED
      BY <2>6, <2>7 DEF PoolsFit
  <1>3. CASE UNCHANGED <<host, pages>>
    BY <1>3, ShelvesKept
  <1>4. QED
    BY <1>1, <1>2, <1>3

(* write_page: every shard is written with its own size.                   *)
LEMMA WriteShelves ==
  ASSUME Base, Base', Shelved, PoolsFit, NEW p \in Pages, WritePage(p)
  PROVE  Shelved' /\ PoolsFit'
  <1>1. pages' = pages
    BY DEF WritePage
  <1>2. host' = host \/ WriteBacking(p, writes + 1)
    BY DEF WritePage, WriteCold
  <1>3. CASE WriteBacking(p, writes + 1)
    <2>1. ASSUME NEW g \in GPUs, NEW f \in Frames
          PROVE  /\ host'[g][f].used = host[g][f].used
                 /\ host[g][f].used => Len(host'[g][f].data) = Len(host[g][f].data)
      <3> DEFINE d == Shard(p, g, writes + 1)
      <3>1. host[g] \in [Frames -> Frame]
        BY BaseTypes DEF HostTypes
      <3>2. Len(d) = ShardSize(p, g)
        BY Lengths DEF Base, RunTypes
      <3> HIDE DEF d
      <3>3. CASE g + 1 \notin DOMAIN pages[p].dram
        BY <1>3, <3>3 DEF WriteBacking
      <3>4. CASE g + 1 \in DOMAIN pages[p].dram
        <4>1. host'[g] = Refilled(host[g], Shelf(p, g), d)
          BY <1>3, <3>4 DEF WriteBacking, Refilled, Shelf, d
        <4>2. host'[g][f].data = IF f = Shelf(p, g) THEN d ELSE host[g][f].data
          BY <3>1, <4>1, RefilledIs
        <4>3. host'[g][f].used = host[g][f].used
          BY <3>1, <4>1, UsedKept
        <4>4. f = Shelf(p, g) => Len(host[g][f].data) = Len(d)
          BY <3>2, <3>4 DEF Shelved
        <4>5. QED
          BY <4>2, <4>3, <4>4
      <3>5. QED
        BY <3>3, <3>4
    <2>2. QED
      BY <1>1, <2>1, ShelvesKept
  <1>4. QED
    BY <1>1, <1>2, <1>3, ShelvesKept

(* demote: a shard is overwritten in place.                                *)
LEMMA DemoteShelves ==
  ASSUME Base, Base', Shelved, PoolsFit, NEW p \in Pages, DemotePage(p)
  PROVE  Shelved' /\ PoolsFit'
  <1>1. \A q \in Pages : pages'[q].dram = pages[q].dram
    BY DemotePages
  <1>2. host' = host \/ \E m \in 0 .. Len(pages[p].vram) :
          host' = WrittenBack(p, m) /\ \A i \in 1 .. m : Obstacle(p, i) = "none"
    <2>1. Len(pages[p].vram) \in Nat /\ DOMAIN pages[p].vram = 1 .. Len(pages[p].vram)
      BY BaseTypes DEF PageTypes, Page
    <2>2. CASE Demoted(p)
      BY <2>1, <2>2 DEF Demoted
    <2>3. ASSUME NEW m \in 0 .. N, HalfDemoted(p, m)
          PROVE  \E k \in 0 .. Len(pages[p].vram) :
                   host' = WrittenBack(p, k) /\ \A i \in 1 .. k : Obstacle(p, i) = "none"
      <3>1. m \in 0 .. Len(pages[p].vram) /\ m + 1 \in 0 .. Len(pages[p].vram)
        BY <2>1, <2>3, PoolAssumption DEF HalfDemoted
      <3>2. \A i \in 1 .. m + 1 : i \in 1 .. m \/ i = m + 1
        BY <3>1
      <3>3. CASE host' = WrittenBack(p, m)
        BY <2>3, <3>1, <3>3 DEF HalfDemoted
      <3>4. CASE host' = WrittenBack(p, m + 1) /\ Obstacle(p, m + 1) = "none"
        <4>1. \A i \in 1 .. m + 1 : Obstacle(p, i) = "none"
          BY <2>3, <3>2, <3>4 DEF HalfDemoted
        <4>2. QED
          BY <3>1, <3>4, <4>1
      <3>5. QED
        BY <2>3, <3>3, <3>4 DEF HalfDemoted
    <2>4. QED
      BY <2>2, <2>3, BaseTypes, DemoteCases DEF NotDemoted
  <1>3. ASSUME NEW m \in 0 .. Len(pages[p].vram), host' = WrittenBack(p, m),
               \A i \in 1 .. m : Obstacle(p, i) = "none",
               NEW g \in GPUs, NEW f \in Frames
        PROVE  /\ host'[g][f].used = host[g][f].used
               /\ host[g][f].used => Len(host'[g][f].data) = Len(host[g][f].data)
    <2>1. host[g] \in [Frames -> Frame]
      BY BaseTypes DEF HostTypes
    <2>2. host'[g] = host[g] \/ \E x, d : host'[g] = Refilled(host[g], x, d)
      BY <1>3 DEF WrittenBack, Refilled
    <2>3. host'[g][f].used = host[g][f].used
      BY <2>1, <2>2, UsedKept
    <2>4. ASSUME NEW i \in 1 .. m, PageLists[p][i].gpu = g
          PROVE  Len(host'[g][f].data) = Len(host[g][f].data)
      <3> DEFINE e == Prefix(dev[g][PageLists[p][i].blk].data, PageLists[p][i].size)
      <3>1. /\ i \in DOMAIN PageLists[p]
            /\ host'[g][f].data = IF f = pages[p].dram[g + 1].frame
                                  THEN Overwrite(host[g][f].data, e) ELSE host[g][f].data
        BY <1>3, <2>4, WrittenBackIs
      <3>2. PageLists[p][i].size \in Nat /\ PageLists[p][i].blk \in DOMAIN dev[g]
        BY <2>4, <3>1, BaseTypes, ChunkOfList DEF Made
      <3>3. e \in Data /\ host[g][f].data \in Data
        BY <2>1, <3>2, BaseTypes, BlockTypes, Contents DEF Frame
      <3> HIDE DEF e
      <3>4. QED
        BY <3>1, <3>3, WholeOverwrite
    <2>5. (\A i \in 1 .. m : PageLists[p][i].gpu # g) => host'[g] = host[g]
      BY <1>3, WrittenBackIs
    <2>6. QED
      BY <2>3, <2>4, <2>5
  <1>4. QED
    BY <1>1, <1>2, <1>3, ShelvesKept

LEMMA ShelvesStep ==
  ASSUME Base, Base', Shelved, PoolsFit, [Next]_vars
  PROVE  Shelved' /\ PoolsFit'
  <1>1. ASSUME host' = host, \A q \in Pages : pages'[q].dram = pages[q].dram
        PROVE  Shelved' /\ PoolsFit'
    BY <1>1, ShelvesKept
  <1>2. ASSUME NEW p \in Pages, NEW g \in GPUs, AccessPage(p, g) PROVE Shelved' /\ PoolsFit'
    BY <1>1, <1>2, AccessCases, AccessPages
  <1>3. ASSUME NEW p \in Pages, NEW g \in GPUs, Prefetch(p, g) PROVE Shelved' /\ PoolsFit'
    BY <1>1, <1>3, PrefetchCases
  <1>4. ASSUME NEW p \in Pages, Pin(p) PROVE Shelved' /\ PoolsFit'
    <2> DEFINE P == [pages[p] EXCEPT !.pinned = ~pages[p].pinned]
    <2>1. pages \in [Pages -> Page] /\ P.dram = pages[p].dram
      BY BaseTypes DEF PageTypes, Page
    <2>2. pages' = [pages EXCEPT ![p] = P] /\ host' = host
      BY <1>4 DEF Pin, memory
    <2> HIDE DEF P
    <2>3. QED
      BY <1>1, <2>1, <2>2
  <1>5. ASSUME \/ \E p \in Pages : KernelWrite(p)
               \/ \E g \in GPUs : StreamCopy(g) \/ Drain(g)
               \/ SweepStart \/ UNCHANGED vars
        PROVE  Shelved' /\ PoolsFit'
    BY <1>1, <1>5 DEF KernelWrite, StreamCopy, Drain, SweepStart, vars, memory
  <1>6. QED
    BY <1>2, <1>3, <1>4, <1>5, Zero, AllocateShelves, DeallocateShelves, WriteShelves, DemoteShelves
       DEF Next, Access, Demote, SweepDemote, SweepPromote

(* A ring takes a descriptor only when it has a slot, and a call puts at   *)
(* most one descriptor on each: a page has one chunk there.                *)
LEMMA QueuedFits ==
  ASSUME RingsFit, NEW g \in GPUs, ~RingFull(g)
  PROVE  Queued(g) \in [GPUs -> 0 .. RingCap]
  <1>1. RingCap \in Nat /\ submitted[g] \in 0 .. RingCap
    BY PoolAssumption DEF RingsFit
  <1>2. submitted[g] < RingCap
    BY <1>1 DEF RingFull
  <1>3. submitted[g] + 1 \in 0 .. RingCap
    BY <1>1, <1>2
  <1>4. QED
    BY <1>3 DEF Queued, RingsFit

LEMMA DescribedFits ==
  ASSUME Base, RingsFit, NEW p \in Pages, NEW m \in 0 .. Len(pages[p].vram),
         \A i \in 1 .. m : Obstacle(p, i) = "none"
  PROVE  Described(p, m) \in [GPUs -> 0 .. RingCap]
  <1>1. ASSUME NEW g \in GPUs
        PROVE  submitted[g] + Cardinality(ChunkHere(p, m, g)) \in 0 .. RingCap
    <2> DEFINE C == ChunkHere(p, m, g)
    <2>1. RingCap \in Nat /\ submitted[g] \in 0 .. RingCap
      BY PoolAssumption DEF RingsFit
    <2>2. /\ PageLists[p] = pages[p].vram
          /\ Len(pages[p].vram) \in Nat /\ DOMAIN pages[p].vram = 1 .. Len(pages[p].vram)
      BY BaseTypes DEF PageTypes, Page
    <2>3. \A i \in 1 .. m : i \in DOMAIN PageLists[p]
      BY <2>2
    <2>4. \A i, j \in C : i = j
      BY <2>2, <2>3 DEF ChunkHere, Base, Distinct
    <2>5. \A i \in C : i \in 1 .. m /\ pages[p].vram[i].gpu = g
      BY DEF ChunkHere
    <2> HIDE DEF C
    <2>6. Cardinality(C) \in {0, 1} /\ (C = {} <=> Cardinality(C) = 0)
      BY <2>4, AtMostOne
    <2>7. ASSUME NEW i \in C PROVE ~RingFull(g)
      <3>1. Obstacle(p, i) = "none" /\ pages[p].vram[i].gpu = g
        BY <2>5
      <3>2. QED
        BY <3>1 DEF Obstacle
    <2>8. CASE C = {}
      BY <2>1, <2>6, <2>8 DEF C
    <2>9. CASE C # {}
      <3>1. submitted[g] < RingCap
        BY <2>1, <2>7, <2>9 DEF RingFull
      <3>2. Cardinality(C) = 1
        BY <2>6, <2>9
      <3>3. submitted[g] + 1 \in 0 .. RingCap
        BY <2>1, <3>1
      <3>4. QED
        BY <2>9, <3>2, <3>3 DEF C
    <2>10. QED
      BY <2>8, <2>9
  <1>2. QED
    BY <1>1 DEF Described

LEMMA RingsStep ==
  ASSUME Base, RingsFit, [Next]_vars
  PROVE  RingsFit'
  <1>1. ASSUME submitted' = submitted PROVE RingsFit'
    BY <1>1 DEF RingsFit
  <1>2. ASSUME NEW p \in Pages, NEW g \in GPUs, AccessPage(p, g) PROVE RingsFit'
    <2>1. \/ submitted' = submitted
          \/ ~RingFull(g) /\ submitted' = Queued(g)
      <3>1. ASSUME NEW cache, Promote(p, g, cache)
            PROVE  submitted' = submitted \/ (~RingFull(g) /\ submitted' = Queued(g))
        <4>1. pages[p].tier \in {"Vram", "Dram", "Ssd"} /\ pages[p].live \in BOOLEAN
          BY BaseTypes DEF PageTypes, Page
        <4>2. \/ \E how : Fails(how, cache)
              \/ Touch(p, g, cache) \/ PeerCopy(p, g, cache)
              \/ PromoteWarm(p, g, cache) \/ PromoteCold(p, g, cache)
          BY <3>1, <4>1 DEF Promote, NotResidentAnywhere
        <4>3. CASE (\E how : Fails(how, cache)) \/ Touch(p, g, cache)
          BY <4>3 DEF Fails, Touch
        <4>4. CASE PeerCopy(p, g, cache)
          BY <4>4 DEF PeerCopy, Fails
        <4>5. CASE PromoteWarm(p, g, cache)
          BY <4>5 DEF PromoteWarm, Fails
        <4>6. CASE PromoteCold(p, g, cache)
          BY <4>6 DEF PromoteCold, Fails
        <4>7. QED
          BY <4>2, <4>3, <4>4, <4>5, <4>6
      <3>2. CASE Claim(p, g)
        BY <3>2 DEF Claim
      <3>3. QED
        BY <1>2, <3>1, <3>2 DEF AccessPage
    <2>2. QED
      BY <1>1, <2>1, QueuedFits DEF RingsFit
  <1>3. ASSUME NEW p \in Pages, DemotePage(p) PROVE RingsFit'
    <2>1. Len(pages[p].vram) \in Nat /\ DOMAIN pages[p].vram = 1 .. Len(pages[p].vram)
      BY BaseTypes DEF PageTypes, Page
    <2>2. CASE DemoteAll(p)
      <3>1. submitted' = Described(p, Len(pages[p].vram))
            /\ \A i \in 1 .. Len(pages[p].vram) : Obstacle(p, i) = "none"
        BY <2>1, <2>2 DEF DemoteAll
      <3>2. QED
        BY <2>1, <3>1, DescribedFits DEF RingsFit
    <2>3. ASSUME NEW m \in 0 .. N, DemoteSome(p, m) PROVE RingsFit'
      <3>1. m \in 0 .. Len(pages[p].vram) /\ m + 1 \in 0 .. Len(pages[p].vram)
        BY <2>1, <2>3, PoolAssumption DEF DemoteSome
      <3>2. \A i \in 1 .. m : Obstacle(p, i) = "none"
        BY <2>3 DEF DemoteSome
      <3>3. CASE submitted' = Described(p, m)
        BY <3>1, <3>2, <3>3, DescribedFits DEF RingsFit
      <3>4. CASE submitted' = Described(p, m + 1) /\ Obstacle(p, m + 1) = "none"
        <4>1. \A i \in 1 .. m + 1 : i \in 1 .. m \/ i = m + 1
          BY <3>1
        <4>2. \A i \in 1 .. m + 1 : Obstacle(p, i) = "none"
          BY <3>2, <3>4, <4>1
        <4>3. QED
          BY <3>1, <3>4, <4>2, DescribedFits DEF RingsFit
      <3>5. QED
        BY <2>3, <3>3, <3>4 DEF DemoteSome
    <2>4. CASE submitted' = submitted
      BY <1>1, <2>4
    <2>5. QED
      BY <1>3, <2>2, <2>3, <2>4 DEF DemotePage
  <1>4. ASSUME NEW p \in Pages, \/ Allocate(p) \/ WritePage(p) \/ KernelWrite(p)
                                \/ Deallocate(p) \/ Pin(p)
        PROVE  submitted' = submitted
    BY <1>4 DEF Allocate, WritePage, KernelWrite, Deallocate, Pin
  <1>5. ASSUME \/ \E p \in Pages, g \in GPUs : Prefetch(p, g)
               \/ \E g \in GPUs : StreamCopy(g)
               \/ SweepStart \/ UNCHANGED vars
        PROVE  submitted' = submitted
    BY <1>5 DEF Prefetch, StreamCopy, SweepStart, vars
  <1>6. ASSUME NEW g \in GPUs, Drain(g) PROVE RingsFit'
    <2>1. RingCap \in Nat /\ submitted[g] \in 0 .. RingCap /\ submitted[g] > 0
      BY <1>6, PoolAssumption DEF RingsFit, Drain
    <2>2. submitted[g] - 1 \in 0 .. RingCap
      BY <2>1
    <2>3. QED
      BY <1>6, <2>2 DEF RingsFit, Drain
  <1>7. QED
    BY <1>1, <1>2, <1>3, <1>4, <1>5, <1>6, Zero
       DEF Next, Access, Demote, SweepDemote, SweepPromote

(* The accesses of a page are counted up to the mark that makes it hot.    *)
LEMMA CountsStep ==
  ASSUME Base, CountsFit, [Next]_vars
  PROVE  CountsFit'
  <1> DEFINE Hits == \A q \in Pages : pages'[q].hits \in 0 .. HotAt
             up(h) == IF h < HotAt THEN h + 1 ELSE h
  <1>1. pages \in [Pages -> Page] /\ \A q \in Pages : pages[q].hits \in 0 .. HotAt
    BY BaseTypes DEF PageTypes, CountsFit
  <1>2. HotAt \in Nat /\ HotAt > 0 /\ MaxWrites \in Nat /\ writes \in 0 .. MaxWrites
    BY PoolAssumption DEF CountsFit
  <1>3. \A h \in 0 .. HotAt : up(h) \in 0 .. HotAt
    BY <1>2
  <1>4. ASSUME NEW p \in Pages, NEW P, pages' = [pages EXCEPT ![p] = P], P.hits \in 0 .. HotAt
        PROVE  Hits
    BY <1>1, <1>4
  <1>5. ASSUME pages' = pages PROVE Hits
    BY <1>1, <1>5
  <1> HIDE DEF Hits
  <1>6. ASSUME NEW p \in Pages, NEW g \in GPUs, AccessPage(p, g) PROVE Hits
    <2>1. up(pages[p].hits) \in 0 .. HotAt
      BY <1>1, <1>3
    <2>2. ASSUME NEW b, NEW n, pages' = Promoted(p, g, b, n) PROVE Hits
      <3> DEFINE P == [pages[p] EXCEPT !.vram = Append(pages[p].vram, ChunkAt(g, b, n)),
                                       !.tier = "Vram", !.state = "Resident",
                                       !.hits = up(pages[p].hits)]
      <3>1. pages' = [pages EXCEPT ![p] = P]
        BY <1>1, <2>2 DEF Promoted, ChunkAt
      <3>2. P.hits = up(pages[p].hits)
        BY <1>1 DEF Page
      <3> HIDE DEF P
      <3>3. QED
        BY <1>4, <2>1, <3>1, <3>2
    <2>3. ASSUME pages' = Touched(p) PROVE Hits
      <3> DEFINE P == [pages[p] EXCEPT !.hits = up(pages[p].hits)]
      <3>1. pages' = [pages EXCEPT ![p] = P]
        BY <1>1, <2>3 DEF Touched
      <3>2. P.hits = up(pages[p].hits)
        BY <1>1 DEF Page
      <3> HIDE DEF P
      <3>3. QED
        BY <1>4, <2>1, <3>1, <3>2
    <2>4. \/ pages' = pages \/ pages' = Touched(p)
          \/ \E b, n : pages' = Promoted(p, g, b, n)
      BY <1>6, AccessCases DEF ClaimEnds, PromoteEnds, Stayed, Moved, Gained, Lost, Returned
    <2>5. QED
      BY <1>5, <2>2, <2>3, <2>4
  <1>7. ASSUME NEW p \in Pages, DemotePage(p) PROVE Hits
    <2>1. CASE pages' = [pages EXCEPT ![p] = DemotedPage(p)]
      <3>1. DemotedPage(p).hits = pages[p].hits
        BY <1>1 DEF DemotedPage, Page
      <3>2. QED
        BY <1>1, <1>4, <2>1, <3>1
    <2>2. QED
      BY <1>5, <1>7, <2>1, BaseTypes, DemoteCases DEF NotDemoted, Demoted, HalfDemoted
  <1>8. ASSUME NEW p \in Pages, Allocate(p) PROVE Hits
    <2>1. pages'[p].hits = 0 /\ \A q \in Pages : q # p => pages'[q] = pages[q]
      BY <1>8, AllocateHolds, AllocatePages
    <2>2. 0 \in 0 .. HotAt
      BY <1>2
    <2>3. QED
      BY <1>1, <2>1, <2>2 DEF Hits
  <1>9. ASSUME NEW p \in Pages, Deallocate(p) PROVE Hits
    <2>1. Absent.hits \in 0 .. HotAt
      BY <1>2 DEF Absent
    <2>2. QED
      BY <1>4, <1>5, <1>9, <2>1, DeallocateCases DEF Dropped
  <1>10. ASSUME NEW p \in Pages, Pin(p) PROVE Hits
    <2> DEFINE P == [pages[p] EXCEPT !.pinned = ~pages[p].pinned]
    <2>1. P.hits = pages[p].hits
      BY <1>1 DEF Page
    <2>2. pages' = [pages EXCEPT ![p] = P]
      BY <1>10 DEF Pin
    <2> HIDE DEF P
    <2>3. QED
      BY <1>1, <1>4, <2>1, <2>2
  <1>11. ASSUME \/ \E p \in Pages : WritePage(p) \/ KernelWrite(p)
                \/ \E p \in Pages, g \in GPUs : Prefetch(p, g)
                \/ \E g \in GPUs : StreamCopy(g) \/ Drain(g)
                \/ SweepStart \/ UNCHANGED vars
         PROVE  pages' = pages
    BY <1>11 DEF WritePage, KernelWrite, Prefetch, StreamCopy, Drain, SweepStart, vars
  <1>12. Hits
    BY <1>5, <1>6, <1>7, <1>8, <1>9, <1>10, <1>11, Zero
       DEF Next, Access, Demote, SweepDemote, SweepPromote
  <1>13. writes' = writes \/ (writes < MaxWrites /\ writes' = writes + 1)
    <2>1. ASSUME NEW p \in Pages, WritePage(p) \/ KernelWrite(p)
          PROVE  writes' = writes \/ (writes < MaxWrites /\ writes' = writes + 1)
      BY <2>1 DEF WritePage, MayWrite, KernelWrite
    <2>2. ASSUME \/ \E p \in Pages : \/ Allocate(p) \/ Demote(p) \/ Deallocate(p) \/ Pin(p)
                                     \/ SweepDemote(p) \/ SweepPromote(p)
                 \/ \E p \in Pages, g \in GPUs : Access(p, g) \/ Prefetch(p, g)
                 \/ \E g \in GPUs : StreamCopy(g) \/ Drain(g)
                 \/ SweepStart \/ UNCHANGED vars
          PROVE  writes' = writes
      BY <2>2 DEF Allocate, Demote, Deallocate, Pin, SweepDemote, SweepPromote, Access, Prefetch,
                  StreamCopy, Drain, SweepStart, vars
    <2>3. QED
      BY <2>1, <2>2 DEF Next
  <1>14. writes' \in 0 .. MaxWrites
    BY <1>2, <1>13
  <1>15. QED
    BY <1>12, <1>14 DEF CountsFit, Hits

LEMMA InitFits == ASSUME Init PROVE Fitting
  <1>1. Base
    BY InitBase
  <1>2. ASSUME NEW g \in GPUs PROVE VramUsed(g) <= VramCap /\ HostUsed(g) <= DramCap
    <2>1. DOMAIN dev[g] = {}
      BY DEF Init
    <2>2. UsedFrames(g) = {}
      BY DEF Init, UsedFrames
    <2>3. VramUsed(g) = 0 /\ HostUsed(g) = 0
      BY <1>1, <2>1, <2>2, SizesAreNat, SumOfNone
    <2>4. QED
      BY <2>3, PoolAssumption
  <1>3. Shelved
    BY AbsentIsAPage DEF Init, Shelved
  <1>4. RingsFit /\ CountsFit
    <2>1. RingCap \in Nat /\ MaxWrites \in Nat /\ HotAt \in Nat
      BY PoolAssumption
    <2>2. 0 \in 0 .. RingCap /\ 0 \in 0 .. MaxWrites /\ 0 \in 0 .. HotAt
      BY <2>1
    <2>3. Absent.hits = 0
      BY DEF Absent
    <2>4. QED
      BY <2>2, <2>3 DEF Init, RingsFit, CountsFit
  <1>5. QED
    BY <1>2, <1>3, <1>4 DEF Fitting, DevicesFit, PoolsFit

(* Nothing ever holds more than it has room for, whatever fails and        *)
(* however careless the callers are: the blocks of a device, recycled or   *)
(* lost ones included, fit its VRAM (vram_used of alloc_vram_on_gpu); what *)
(* the pages have of a DRAM pool, and what pages whose names were reused   *)
(* left there, fits the pool; a ring never gets a descriptor it has no     *)
(* slot for; and every block, frame and range a page, a prefetch or the    *)
(* cache names exists.                                                     *)
THEOREM TypesAlwaysKept == Spec => []TypeOK
  <1>1. Init => Base /\ Fitting
    BY InitBase, InitFits
  <1>2. Base /\ Fitting /\ [Next]_vars => (Base /\ Fitting)'
    <2> SUFFICES ASSUME Base, Fitting, [Next]_vars PROVE (Base /\ Fitting)'
      OBVIOUS
    <2>1. Base'
      BY BaseStep
    <2>2. QED
      BY <2>1, DevicesStep, ShelvesStep, RingsStep, CountsStep DEF Fitting
  <1>3. Base /\ Fitting => TypeOK
    <2> SUFFICES ASSUME Base, Fitting PROVE TypeOK
      OBVIOUS
    <2>1. ASSUME NEW p \in Pages
          PROVE  /\ pages[p].live \in BOOLEAN /\ pages[p].pinned \in BOOLEAN
                 /\ pages[p].tier \in {"Vram", "Dram", "Ssd"} /\ pages[p].state \in States
                 /\ pages[p].hits \in 0 .. HotAt /\ pages[p].ssd \in 0 .. Len(file)
      BY BaseTypes DEF PageTypes, Page, Base, Stored, Fitting, CountsFit
    <2>2. ASSUME NEW p \in Pages, NEW i \in DOMAIN pages[p].vram
          PROVE  /\ pages[p].vram[i].gpu \in GPUs
                 /\ pages[p].vram[i].blk \in DOMAIN dev[pages[p].vram[i].gpu]
      <3>1. PageLists[p] = pages[p].vram
        BY BaseTypes
      <3>2. QED
        BY <3>1, BaseTypes, ChunkOfList DEF Made
    <2>3. ASSUME NEW p \in Pages, NEW i \in DOMAIN pages[p].dram
          PROVE  pages[p].dram[i].frame \in Frames
      BY BaseTypes, BackingTyped
    <2>4. ASSUME NEW p \in Pages, Prefetched(p)
          PROVE  inflight[p].blk \in DOMAIN dev[inflight[p].gpu]
      BY <2>4, BaseTypes DEF Made, Prefetched
    <2>5. ASSUME NEW g \in GPUs
          PROVE  /\ VramUsed(g) <= VramCap /\ HostUsed(g) <= DramCap
                 /\ \A i \in DOMAIN vram_free[g] : vram_free[g][i] \in DOMAIN dev[g]
                 /\ submitted[g] \in 0 .. RingCap
      BY BaseTypes DEF Made, Fitting, DevicesFit, PoolsFit, RingsFit
    <2>6. sweep.demote \cup sweep.promote \subseteq Pages /\ writes \in 0 .. MaxWrites
      BY DEF Base, RunTypes, Fitting, CountsFit
    <2>7. QED
      BY <2>1, <2>2, <2>3, <2>4, <2>5, <2>6 DEF TypeOK, Blocks, States
  <1>4. QED
    BY <1>1, <1>2, <1>3, PTL DEF Spec
=============================================================================
