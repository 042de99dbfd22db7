---------------------------- MODULE MembraneProofs ----------------------------
(***************************************************************************)
(* Proofs about Membrane, for any pages of any sizes and any budget.  The  *)
(* ranking comes first: there is one, because Before orders the pages.     *)
(* Then the plan, place by place of the ranking, and what a plan promises; *)
(* then the sweep that carries it out.                                     *)
(***************************************************************************)
EXTENDS Membrane, Sums, SequenceTheorems, FiniteSetTheorems, TLAPS

-----------------------------------------------------------------------------
Heights == {Size[p] : p \in Pages}
PageType == [tier : Tiers, pinned : BOOLEAN]

Types ==
  /\ rates \in [Pages -> Nat]
  /\ hits \in [Pages -> Nat]
  /\ page \in [Pages -> PageType]
  /\ cache \in [Heights -> Nat]
  /\ inflight \subseteq Pages /\ \A p \in inflight : page[p].tier = "Dram"
  /\ lost \in Nat

LEMMA KnownIsFinite == IsFiniteSet(Known) /\ Known \subseteq Pages
  BY PagesAssumption, FS_Subset DEF Known

-----------------------------------------------------------------------------
(* Before is a strict total order of the pages. *)
LEMMA BeforeOrders ==
  ASSUME Types, NEW p \in Pages, NEW q \in Pages
  PROVE  /\ ~Before(p, p)
         /\ p # q => Before(p, q) \/ Before(q, p)
         /\ \A r \in Pages : Before(p, q) /\ Before(q, r) => Before(p, r)
  <1>1. \A r \in Pages : /\ page[r].pinned \in BOOLEAN
                         /\ r \in Int
                         /\ Score(r) \in Int
    BY PagesAssumption, SizeAssumption DEF Types, PageType, Score
  <1> DEFINE sc == [r \in Pages |-> Score(r)]
  <1>2. \A r \in Pages : sc[r] \in Int /\ sc[r] = Score(r)
    BY <1>1
  <1> HIDE DEF sc
  <1>3. QED
    BY <1>1, <1>2, SMTT(30) DEF Before

(* Fewer pages are before a page than before one that follows it. *)
LEMMA FewerBefore ==
  ASSUME Types, NEW p \in Known, NEW q \in Known, Before(p, q)
  PROVE  /\ Cardinality({r \in Known : Before(r, p)}) \in Nat
         /\ Cardinality({r \in Known : Before(r, q)}) \in Nat
         /\ Cardinality({r \in Known : Before(r, p)}) < Cardinality({r \in Known : Before(r, q)})
  <1> DEFINE P == {r \in Known : Before(r, p)}
             Q == {r \in Known : Before(r, q)}
  <1>1. P \in SUBSET Q /\ p \in Q /\ p \notin P
    BY KnownIsFinite, BeforeOrders
  <1>2. IsFiniteSet(P) /\ IsFiniteSet(Q)
    BY KnownIsFinite, FS_Subset
  <1> HIDE DEF P, Q
  <1>3. /\ Cardinality(P) \in Nat /\ Cardinality(Q) \in Nat
        /\ Cardinality(P) <= Cardinality(Q) /\ Cardinality(P) # Cardinality(Q)
    BY <1>1, <1>2, FS_Subset, FS_CardinalityType
  <1>4. QED
    BY <1>3 DEF P, Q

Sorted(r) == \A i, j \in DOMAIN r : i < j => Before(r[i], r[j])

(* So a page's place is the number of those before it, and every place is  *)
(* taken.                                                                  *)
LEMMA RankingExists ==
  ASSUME Types
  PROVE  \E r \in SetToSeqs(Known) : Sorted(r)
  <1> DEFINE n == Cardinality(Known)
             D == 1 .. n
             f == [p \in Known |-> Cardinality({r \in Known : Before(r, p)}) + 1]
  <1>1. n \in Nat /\ IsFiniteSet(D) /\ Cardinality(D) = n
    BY KnownIsFinite, FS_CardinalityType, FS_Interval
  <1>2. ASSUME NEW p \in Known
        PROVE  f[p] \in D
    <2> DEFINE P == {r \in Known : Before(r, p)}
    <2>1. P \in SUBSET Known /\ p \notin P /\ p \in Known
      BY KnownIsFinite, BeforeOrders
    <2>2. f[p] = Cardinality(P) + 1
      OBVIOUS
    <2> HIDE DEF P
    <2>3. /\ Cardinality(P) \in Nat /\ Cardinality(P) <= n
          /\ Cardinality(P) # n
      BY <2>1, KnownIsFinite, FS_Subset, FS_CardinalityType
    <2>4. QED
      BY <1>1, <2>2, <2>3
  <1>3. ASSUME NEW p \in Known, NEW q \in Known, Before(p, q)
        PROVE  f[p] < f[q]
    BY <1>3, FewerBefore
  <1>4. ASSUME NEW p \in Known, NEW q \in Known, f[p] = f[q]
        PROVE  p = q
    <2> HIDE DEF f
    <2>1. f[p] \in Nat /\ f[q] \in Nat
      BY <1>1, <1>2
    <2>2. ~Before(p, q) /\ ~Before(q, p)
      BY <1>3, <1>4, <2>1
    <2>3. QED
      BY <2>2, KnownIsFinite, BeforeOrders
  <1>5. f \in Injection(Known, D)
    BY <1>2, <1>4 DEF Injection, IsInjective
  <1>6. f \in Surjection(Known, D)
    BY <1>1, <1>5, FS_Injection
  <1> HIDE DEF f
  <1> DEFINE r == [i \in D |-> CHOOSE p \in Known : f[p] = i]
  <1>7. \A i \in D : r[i] \in Known /\ f[r[i]] = i
    BY <1>6 DEF Surjection
  <1>8. r \in [D -> Known] /\ \A i, j \in D : i # j => r[i] # r[j]
    BY <1>7
  <1>9. r \in SetToSeqs(Known)
    BY <1>8 DEF SetToSeqs
  <1>10. Sorted(r)
    <2> SUFFICES ASSUME NEW i \in D, NEW j \in D, i < j
                 PROVE  Before(r[i], r[j])
      BY DEF Sorted
    <2>1. i \in Nat /\ j \in Nat
      BY <1>1
    <2>2. ~(f[r[j]] < f[r[i]])
      BY <1>7, <2>1
    <2> HIDE DEF r, D
    <2>3. r[i] # r[j]
      BY <1>8, <2>1
    <2>4. QED
      BY <1>3, <1>7, <2>2, <2>3, KnownIsFinite, BeforeOrders
  <1>11. QED
    BY <1>9, <1>10

(* The ranking lists the pages that are there, each once, in order. *)
LEMMA RankedIs ==
  ASSUME Types
  PROVE  /\ Ranked \in Seq(Known) /\ Ranked \in Seq(Pages)
         /\ DOMAIN Ranked = 1 .. Len(Ranked) /\ Len(Ranked) \in Nat
         /\ \A i, j \in DOMAIN Ranked : i # j => Ranked[i] # Ranked[j]
         /\ Sorted(Ranked)
         /\ Range(Ranked) = Known
  <1>1. Ranked \in SetToSeqs(Known) /\ Sorted(Ranked)
    BY RankingExists DEF Ranked, Sorted
  <1> DEFINE n == Cardinality(Known)
  <1>2. n \in Nat /\ IsFiniteSet(1 .. n) /\ Cardinality(1 .. n) = n
    BY KnownIsFinite, FS_CardinalityType, FS_Interval
  <1>3. /\ Ranked \in [1 .. n -> Known]
        /\ \A i, j \in 1 .. n : i # j => Ranked[i] # Ranked[j]
    BY <1>1 DEF SetToSeqs
  <1>4. Ranked \in Injection(1 .. n, Known)
    BY <1>3 DEF Injection, IsInjective
  <1>5. Ranked \in Surjection(1 .. n, Known)
    BY <1>2, <1>4, KnownIsFinite, FS_Injection
  <1>6. Range(Ranked) = Known
    BY <1>3, <1>5 DEF Range, Surjection
  <1> HIDE DEF n
  <1>7. Ranked \in Seq(Known) /\ Len(Ranked) = n
    BY <1>2, <1>3
  <1>8. Ranked \in Seq(Pages)
    BY <1>7, KnownIsFinite
  <1>9. QED
    BY <1>1, <1>2, <1>3, <1>6, <1>7, <1>8

-----------------------------------------------------------------------------
(* The plan over the first k places of the ranking. *)
NoPlan == [used |-> 0, keep |-> << >>, evict |-> << >>]
PlanType == [used : Nat, keep : Seq(Pages), evict : Seq(Pages)]

(* The equation that the fold solves, on a collection of sets of places. *)
Plans(D, g) ==
  g = [s \in D |-> IF s = {} THEN NoPlan ELSE PlanStep(g[s \ {Max(s)}], Ranked[Max(s)])]

LEMMA PlanUnfolds ==
  Plan = (CHOOSE g : Plans(SUBSET DOMAIN Ranked, g))[DOMAIN Ranked]
  BY DEF Plan, FoldLeft, MapThenFoldSet, Plans, NoPlan

(* Places below k, the last of them first. *)
LEMMA MaxIs ==
  ASSUME NEW n \in Nat, NEW s, s \subseteq 1 .. n, s # {}
  PROVE  Max(s) \in s /\ \A x \in s : x <= Max(s)
  <1> DEFINE T == {n - x : x \in s}
  <1>1. T \subseteq Nat /\ T # {}
    <2>1. \A x \in s : x \in 1 .. n
      OBVIOUS
    <2>2. \A x \in s : n - x \in Nat
      BY <2>1
    <2>3. QED
      BY <2>2
  <1>2. PICK t \in T : \A y \in T : t <= y
    <2> HIDE DEF T
    <2>1. QED
      BY <1>1, LeastNatural
  <1>3. PICK x \in s : t = n - x
    BY <1>2
  <1>4. \A y \in s : n - x <= n - y
    BY <1>2, <1>3
  <1>5. \A y \in s : x >= y
    BY <1>4
  <1>6. Max(s) \in s /\ \A y \in s : Max(s) >= y
    BY <1>5 DEF Max
  <1>7. QED
    BY <1>6

LEMMA MaxOfPlaces ==
  ASSUME NEW n \in Nat
  PROVE  Max(1 .. n + 1) = n + 1 /\ (1 .. n + 1) \ {n + 1} = 1 .. n
  <1>1. n + 1 \in Nat /\ 1 .. n + 1 \subseteq 1 .. n + 1 /\ 1 .. n + 1 # {} /\ n + 1 \in 1 .. n + 1
    OBVIOUS
  <1> DEFINE m == n + 1
             s == 1 .. m
  <1> HIDE DEF m, s
  <1>2. Max(s) \in s /\ \A x \in s : x <= Max(s)
    BY <1>1, MaxIs DEF m, s
  <1>3. m \in s /\ \A x \in s : x <= m /\ x \in Nat /\ m \in Nat
    BY <1>1 DEF m, s
  <1>4. Max(s) = m
    BY <1>2, <1>3
  <1>5. QED
    BY <1>4 DEF m, s

UpToPlaces(n, k) == {s \in SUBSET (1 .. n) : Cardinality(s) <= k}

LEMMA PlansUpTo ==
  ASSUME NEW n \in Nat, NEW m \in Nat
  PROVE  \E g : Plans(UpToPlaces(n, m), g)
  <1> DEFINE C == {k \in Nat : ~ \E g : Plans(UpToPlaces(n, k), g)}
  <1>1. SUFFICES ASSUME C # {} PROVE FALSE
    OBVIOUS
  <1>2. PICK k \in C : \A j \in C : k <= j
    <2> HIDE DEF C
    <2>1. C \subseteq Nat
      BY DEF C
    <2>2. QED
      BY <1>1, <2>1, LeastNatural
  <1>3. \A s \in SUBSET (1 .. n) : IsFiniteSet(s) /\ Cardinality(s) \in Nat
    <2>1. IsFiniteSet(1 .. n)
      BY FS_Interval
    <2>2. QED
      BY <2>1, FS_Subset, FS_CardinalityType
  <1>4. CASE k = 0
    <2>1. \A s \in UpToPlaces(n, 0) : s = {}
      BY <1>3, FS_EmptySet DEF UpToPlaces
    <2>2. Plans(UpToPlaces(n, 0), [s \in UpToPlaces(n, 0) |-> NoPlan])
      BY <2>1 DEF Plans
    <2>3. QED
      BY <1>2, <1>4, <2>2
  <1>5. CASE k # 0
    <2>1. k \in Nat /\ k - 1 \in Nat
      BY <1>2, <1>5
    <2>2. k - 1 \notin C
      <3> HIDE DEF C
      <3>1. QED
        BY <1>2, <2>1
    <2>3. PICK g : Plans(UpToPlaces(n, k - 1), g)
      BY <2>1, <2>2
    <2> DEFINE h == [s \in UpToPlaces(n, k) |->
                       IF s = {} THEN NoPlan
                       ELSE PlanStep(g[s \ {Max(s)}], Ranked[Max(s)])]
    <2>4. ASSUME NEW s \in UpToPlaces(n, k), s # {}
          PROVE  h[s \ {Max(s)}] = g[s \ {Max(s)}]
      <3> DEFINE t == s \ {Max(s)}
      <3>1. s \in SUBSET (1 .. n) /\ Cardinality(s) <= k /\ Max(s) \in s
        BY <2>4, MaxIs DEF UpToPlaces
      <3>2. t \in SUBSET (1 .. n) /\ Cardinality(t) = Cardinality(s) - 1
        BY <1>3, <3>1, Smaller
      <3>3. t \in UpToPlaces(n, k - 1) /\ t \in UpToPlaces(n, k)
        BY <1>3, <2>1, <3>1, <3>2 DEF UpToPlaces
      <3> HIDE DEF t
      <3>4. g[t] = IF t = {} THEN NoPlan ELSE PlanStep(g[t \ {Max(t)}], Ranked[Max(t)])
        BY <2>3, <3>3 DEF Plans
      <3>5. QED
        BY <3>3, <3>4 DEF t
    <2>5. Plans(UpToPlaces(n, k), h)
      BY <2>4 DEF Plans
    <2>6. QED
      BY <1>2, <2>5
  <1>6. QED
    BY <1>4, <1>5

(* The plan over the first k places, for each k. *)
LEMMA PlanIsStepwise ==
  ASSUME Types
  PROVE  \E P : /\ P[0] = NoPlan
                /\ \A k \in 1 .. Len(Ranked) : P[k] = PlanStep(P[k - 1], Ranked[k])
                /\ P[Len(Ranked)] = Plan
  <1> DEFINE n == Len(Ranked)
             g == CHOOSE g : Plans(SUBSET (1 .. n), g)
             P == [k \in 0 .. n |-> g[1 .. k]]
  <1>1. n \in Nat /\ DOMAIN Ranked = 1 .. n
    BY RankedIs
  <1>2. UpToPlaces(n, n) = SUBSET (1 .. n)
    <2> HIDE DEF n
    <2>1. IsFiniteSet(1 .. n) /\ Cardinality(1 .. n) = n
      BY <1>1, FS_Interval
    <2>2. QED
      BY <2>1, FS_Subset DEF UpToPlaces
  <1>3. Plans(SUBSET (1 .. n), g)
    <2> HIDE DEF n
    <2>1. \E h : Plans(UpToPlaces(n, n), h)
      BY <1>1, PlansUpTo
    <2>2. QED
      BY <1>2, <2>1
  <1>4. Plan = g[1 .. n]
    BY <1>1, PlanUnfolds
  <1> HIDE DEF g, n
  <1>5. P[0] = NoPlan /\ P[n] = Plan
    <2>1. 1 .. 0 = {} /\ 0 \in 0 .. n /\ n \in 0 .. n
      BY <1>1
    <2>2. g[{}] = NoPlan
      BY <1>3 DEF Plans
    <2>3. QED
      BY <1>4, <2>1, <2>2
  <1>6. ASSUME NEW k \in 1 .. n
        PROVE  P[k] = PlanStep(P[k - 1], Ranked[k])
    <2> DEFINE s == 1 .. k
               j == k - 1
               t == 1 .. j
    <2>1. k \in 0 .. n /\ j \in 0 .. n /\ s \in SUBSET (1 .. n) /\ s # {} /\ j \in Nat /\ k = j + 1
      BY <1>1
    <2>2. Max(s) = k /\ s \ {k} = t
      <3>1. Max(1 .. j + 1) = j + 1 /\ (1 .. j + 1) \ {j + 1} = 1 .. j
        <4> HIDE DEF j
        <4>1. QED
          BY <2>1, MaxOfPlaces
      <3>2. QED
        BY <2>1, <3>1
    <2>3. g[s] = PlanStep(g[s \ {Max(s)}], Ranked[Max(s)])
      <3> HIDE DEF s
      <3>1. QED
        BY <1>3, <2>1 DEF Plans
    <2>4. P[k] = g[s] /\ P[j] = g[t]
      BY <2>1
    <2>5. QED
      BY <2>2, <2>3, <2>4
  <1> HIDE DEF P
  <1>7. QED
    BY <1>5, <1>6 DEF n

-----------------------------------------------------------------------------
LEMMA ListedPages ==
  ASSUME NEW s \in Seq(Pages)
  PROVE  /\ Range(s) \subseteq Pages /\ IsFiniteSet(Range(s))
         /\ \A p \in Pages : /\ Append(s, p) \in Seq(Pages)
                             /\ Range(Append(s, p)) = Range(s) \cup {p}
  <1>1. Range(s) \subseteq Pages /\ IsFiniteSet(Range(s))
    <2>1. Range(s) \subseteq Pages
      BY DEF Range
    <2>2. QED
      BY <2>1, PagesAssumption, FS_Subset
  <1>2. ASSUME NEW p \in Pages
        PROVE  Range(Append(s, p)) = Range(s) \cup {p}
    <2> DEFINE a == Append(s, p)
               n == Len(s)
    <2>1. n \in Nat /\ DOMAIN s = 1 .. n /\ DOMAIN a = 1 .. n + 1
      OBVIOUS
    <2>2. a[n + 1] = p /\ \A i \in 1 .. n : a[i] = s[i]
      OBVIOUS
    <2>3. \A i \in 1 .. n + 1 : i \in 1 .. n \/ i = n + 1
      BY <2>1
    <2>4. 1 .. n \subseteq 1 .. n + 1 /\ n + 1 \in 1 .. n + 1
      BY <2>1
    <2> HIDE DEF a, n
    <2>5. Range(a) = Range(s) \cup {p}
      BY <2>1, <2>2, <2>3, <2>4 DEF Range
    <2>6. QED
      BY <2>5 DEF a
  <1>3. QED
    BY <1>1, <1>2

LEMMA TotalIs ==
  ASSUME NEW S, S \subseteq Pages
  PROVE  /\ IsFiniteSet(S) /\ Total(S) \in Nat
         /\ \A p \in Pages \ S : Total(S \cup {p}) = Total(S) + Size[p]
         /\ \A p \in S : Total(S \ {p}) = Total(S) - Size[p]
  <1>1. IsFiniteSet(S) /\ \A p \in Pages : Size[p] \in Nat
    BY PagesAssumption, SizeAssumption, FS_Subset
  <1>2. Total(S) \in Nat
    BY <1>1, SumIsNat DEF Total
  <1>3. ASSUME NEW p \in Pages \ S
        PROVE  Total(S \cup {p}) = Total(S) + Size[p]
    <2>1. Total(S \cup {p}) = Size[p] + Total(S)
      BY <1>1, SumPutsIn DEF Total
    <2>2. QED
      BY <1>1, <1>2, <2>1
  <1>4. ASSUME NEW p \in S
        PROVE  Total(S \ {p}) = Total(S) - Size[p]
    <2>1. Total(S) = Size[p] + Total(S \ {p})
      BY <1>1, SumTakesOut DEF Total
    <2>2. IsFiniteSet(S \ {p}) /\ \A q \in S \ {p} : Size[q] \in Nat
      BY <1>1, FS_RemoveElement
    <2>3. Total(S \ {p}) \in Nat
      BY <2>2, SumIsNat DEF Total
    <2>4. QED
      BY <1>1, <1>2, <2>1, <2>3
  <1>5. QED
    BY <1>1, <1>2, <1>3, <1>4

-----------------------------------------------------------------------------
Ahead(k) == {Ranked[i] : i \in 1 .. k}

(* What a plan over the first k places promises, of what it keeps and what *)
(* it evicts.  What was evicted does not fit beside what is kept so far,   *)
(* so an unpinned page kept later is smaller.                              *)
Promises(used, kept, evicted) ==
  /\ used = Total(kept)
  /\ kept \cap evicted = {}
  /\ used <= Cap \/ \A p \in kept : page[p].pinned
  /\ \A p \in evicted : ~page[p].pinned /\ used + Size[p] > Cap
  /\ \A p \in evicted, q \in kept :
       Size[p] = Size[q] /\ ~page[q].pinned => Before(q, p)

PlanSoFar(plan, k) ==
  /\ plan \in PlanType
  /\ Range(plan.keep) \cup Range(plan.evict) = Ahead(k)
  /\ Promises(plan.used, Range(plan.keep), Range(plan.evict))

LEMMA CapIsInt == Cap \in Int
  BY BudgetAssumption DEF Cap

(* A page is kept, after pages that all come before it. *)
LEMMA Keeps ==
  ASSUME Types, NEW kept, NEW evicted, NEW used, NEW p \in Pages,
         Promises(used, kept, evicted), kept \subseteq Pages, evicted \subseteq Pages,
         p \notin kept, p \notin evicted,
         \A q \in kept : Before(q, p),
         page[p].pinned \/ used + Size[p] <= Cap
  PROVE  Promises(used + Size[p], kept \cup {p}, evicted)
  <1> DEFINE new == used + Size[p]
  <1>1. /\ used \in Nat /\ Total(kept \cup {p}) = new /\ new \in Nat
        /\ \A q \in Pages : Size[q] \in Nat
    BY TotalIs, SizeAssumption DEF Promises
  <1>2. \A q \in Pages : page[q].pinned \in BOOLEAN
    BY DEF Types, PageType
  <1>3. new <= Cap \/ \A q \in kept \cup {p} : page[q].pinned
    BY <1>2 DEF Before
  <1>4. \A q \in evicted : ~page[q].pinned /\ new + Size[q] > Cap
    BY <1>1, CapIsInt DEF Promises
  <1>5. ASSUME NEW q \in evicted, NEW r \in kept \cup {p}, Size[q] = Size[r], ~page[r].pinned
        PROVE  Before(r, q)
    <2>1. r # p
      BY <1>1, <1>5, CapIsInt DEF Promises
    <2>2. QED
      BY <1>5, <2>1 DEF Promises
  <1> HIDE DEF new
  <1>6. QED
    BY <1>1, <1>3, <1>4, <1>5 DEF Promises, new

(* A page is evicted, after pages that all come before it. *)
LEMMA Evicts ==
  ASSUME NEW kept, NEW evicted, NEW used, NEW p \in Pages,
         Promises(used, kept, evicted),
         p \notin kept,
         \A q \in kept : Before(q, p),
         ~page[p].pinned, ~(used + Size[p] <= Cap), used + Size[p] \in Int
  PROVE  Promises(used, kept, evicted \cup {p})
  BY CapIsInt DEF Promises

LEMMA PlanSteps ==
  ASSUME Types, NEW k \in 1 .. Len(Ranked), NEW plan, PlanSoFar(plan, k - 1)
  PROVE  PlanSoFar(PlanStep(plan, Ranked[k]), k)
  <1> DEFINE p    == Ranked[k]
             kept == Range(plan.keep)
             out  == Range(plan.evict)
             next == PlanStep(plan, p)
  <1>1. /\ plan \in PlanType /\ plan.keep \in Seq(Pages) /\ plan.evict \in Seq(Pages)
        /\ plan.used \in Nat
    BY DEF PlanSoFar, PlanType
  <1>2. /\ k \in DOMAIN Ranked /\ p \in Pages /\ k \in Nat
        /\ 1 .. k - 1 \subseteq DOMAIN Ranked
    BY RankedIs
  <1>3. \A q \in Ahead(k - 1) : q # p /\ Before(q, p)
    BY <1>2, RankedIs DEF Ahead, Sorted
  <1>4. Ahead(k) = Ahead(k - 1) \cup {p}
    <2>1. \A i : i \in 1 .. k <=> i \in 1 .. k - 1 \/ i = k
      BY <1>2
    <2>2. QED
      BY <2>1 DEF Ahead
  <1>5. kept \cup out = Ahead(k - 1) /\ Promises(plan.used, kept, out)
    BY DEF PlanSoFar
  <1>6. kept \subseteq Pages /\ out \subseteq Pages
    BY <1>1, ListedPages
  <1>7. Size[p] \in Nat /\ page[p].pinned \in BOOLEAN
    BY <1>2, SizeAssumption DEF Types, PageType
  <1> HIDE DEF p
  <1>8. CASE page[p].pinned \/ plan.used + Size[p] <= Cap
    <2>1. /\ next = [used |-> plan.used + Size[p], keep |-> Append(plan.keep, p),
                     evict |-> plan.evict]
      BY <1>1, <1>8 DEF PlanStep, PlanType
    <2>2. Append(plan.keep, p) \in Seq(Pages) /\ Range(Append(plan.keep, p)) = kept \cup {p}
      BY <1>1, <1>2, ListedPages
    <2>3. Promises(plan.used + Size[p], kept \cup {p}, out)
      <3> HIDE DEF kept, out
      <3>1. QED
        BY <1>2, <1>3, <1>5, <1>6, <1>8, Keeps
    <2>4. next \in PlanType
      BY <1>1, <1>7, <2>1, <2>2 DEF PlanType
    <2>5. next.used = plan.used + Size[p] /\ Range(next.keep) = kept \cup {p} /\ Range(next.evict) = out
      BY <2>1, <2>2
    <2> HIDE DEF next, kept, out
    <2>6. PlanSoFar(next, k)
      BY <1>4, <1>5, <2>3, <2>4, <2>5 DEF PlanSoFar
    <2>7. QED
      BY <2>6 DEF next, p
  <1>9. CASE ~(page[p].pinned \/ plan.used + Size[p] <= Cap)
    <2>1. next = [used |-> plan.used, keep |-> plan.keep, evict |-> Append(plan.evict, p)]
      BY <1>1, <1>9 DEF PlanStep, PlanType
    <2>2. Append(plan.evict, p) \in Seq(Pages) /\ Range(Append(plan.evict, p)) = out \cup {p}
      BY <1>1, <1>2, ListedPages
    <2>3. Promises(plan.used, kept, out \cup {p})
      <3>1. plan.used + Size[p] \in Int
        BY <1>1, <1>7
      <3> HIDE DEF kept, out
      <3>2. QED
        BY <1>2, <1>3, <1>5, <1>9, <3>1, Evicts
    <2>4. next \in PlanType
      BY <1>1, <2>1, <2>2 DEF PlanType
    <2>5. next.used = plan.used /\ Range(next.keep) = kept /\ Range(next.evict) = out \cup {p}
      BY <2>1, <2>2
    <2> HIDE DEF next, kept, out
    <2>6. PlanSoFar(next, k)
      BY <1>4, <1>5, <2>3, <2>4, <2>5 DEF PlanSoFar
    <2>7. QED
      BY <2>6 DEF next, p
  <1>10. QED
    BY <1>8, <1>9

LEMMA PlanStarts == PlanSoFar(NoPlan, 0)
  <1>1. NoPlan \in PlanType /\ NoPlan.used = 0 /\ NoPlan.keep = << >> /\ NoPlan.evict = << >>
    BY DEF NoPlan, PlanType
  <1>2. Range(<< >>) = {} /\ Ahead(0) = {}
    BY DEF Range, Ahead
  <1>3. Total({}) = 0
    BY SumOfNone DEF Total
  <1>4. Promises(0, {}, {})
    BY <1>3 DEF Promises
  <1>5. QED
    BY <1>1, <1>2, <1>4 DEF PlanSoFar

(* What a plan promises when it is made. *)
LEMMA PlanPromises ==
  ASSUME Types
  PROVE  /\ Plan \in PlanType
         /\ Range(Plan.keep) \cup Range(Plan.evict) = Known
         /\ Promises(Total(Range(Plan.keep)), Range(Plan.keep), Range(Plan.evict))
  <1> DEFINE n == Len(Ranked)
  <1>1. n \in Nat /\ Ahead(n) = Known
    <2>1. n \in Nat /\ DOMAIN Ranked = 1 .. n /\ Range(Ranked) = Known
      BY RankedIs
    <2>2. QED
      BY <2>1 DEF Range, Ahead
  <1>2. PICK P : /\ P[0] = NoPlan
                 /\ \A k \in 1 .. n : P[k] = PlanStep(P[k - 1], Ranked[k])
                 /\ P[n] = Plan
    BY PlanIsStepwise
  <1> DEFINE C == {k \in 0 .. n : ~PlanSoFar(P[k], k)}
  <1>3. C = {}
    <2>1. SUFFICES ASSUME C # {} PROVE FALSE
      OBVIOUS
    <2>2. C \subseteq Nat
      BY <1>1
    <2>3. PICK k \in C : \A j \in C : k <= j
      <3> HIDE DEF C
      <3>1. QED
        BY <2>1, <2>2, LeastNatural
    <2>4. k # 0
      BY <1>2, <2>3, PlanStarts
    <2>5. k \in 1 .. n /\ k - 1 \in 0 .. n /\ k \in Nat
      BY <1>1, <2>3, <2>4
    <2>6. k - 1 \notin C
      <3> HIDE DEF C
      <3>1. QED
        BY <2>3, <2>5
    <2>7. PlanSoFar(P[k - 1], k - 1)
      BY <2>5, <2>6
    <2>8. PlanSoFar(P[k], k)
      <3> DEFINE prev == P[k - 1]
      <3>1. P[k] = PlanStep(prev, Ranked[k]) /\ PlanSoFar(prev, k - 1)
        BY <1>2, <2>5, <2>7
      <3> HIDE DEF prev
      <3>2. QED
        BY <2>5, <3>1, PlanSteps
    <2>9. QED
      BY <2>3, <2>8
  <1>4. PlanSoFar(Plan, n)
    BY <1>1, <1>2, <1>3
  <1>5. QED
    BY <1>1, <1>4 DEF PlanSoFar, Promises

-----------------------------------------------------------------------------
Phases == {"rest", "plan", "evict", "promote", "done", "aborted"}

SweepType ==
  [phase : Phases, keep : Seq(Pages), evict : Seq(Pages), todo : Seq(Pages),
   was : SUBSET Pages, failed : SUBSET Pages]

SweepTypes == sweep \in SweepType

(* What a plan keeps fits under the mark or is pinned, and what it evicts  *)
(* would not have fitted beside that.                                      *)
PlanIsTight ==
  Planned =>
    /\ Total(Kept) <= Cap \/ \A p \in Kept : page[p].pinned
    /\ \A p \in Evicted : Total(Kept) + Size[p] > Cap

(* What is still to do while a sweep goes on: an evicted page that is up   *)
(* is still to come; then none is up, and a page that is to go up and is   *)
(* not is still to come, has no room or has failed.                        *)
Underway ==
  /\ Planned => Kept \cap Evicted = {} /\ Kept \subseteq Known
  /\ sweep.phase = "evict" => Evicted \cap Resident \subseteq Range(sweep.todo)
  /\ sweep.phase = "promote" =>
       /\ Range(sweep.todo) \subseteq Kept
       /\ Evicted \cap Resident = {}
       /\ \A p \in Kept \ Resident :
            p \in Range(sweep.todo) \/ ~Room(p) \/ p \in sweep.failed

SweepInv ==
  /\ Types /\ SweepTypes
  /\ PlanIsTight /\ DisplacedByHotter
  /\ Underway /\ PlacementFollowsPlan

-----------------------------------------------------------------------------
LEMMA SweepIs ==
  ASSUME NEW s \in SweepType
  PROVE  /\ s.phase \in Phases /\ s.was \subseteq Pages /\ s.failed \subseteq Pages
         /\ s.keep \in Seq(Pages) /\ s.evict \in Seq(Pages) /\ s.todo \in Seq(Pages)
  BY DEF SweepType

BlockTypes ==
  /\ page \in [Pages -> PageType]
  /\ cache \in [Heights -> Nat]
  /\ inflight \subseteq Pages /\ \A p \in inflight : page[p].tier = "Dram"
  /\ lost \in Nat

LEMMA TypesStep ==
  ASSUME Types, SweepTypes, [Next]_vars
  PROVE  Types'
  <1>1. \A p \in Pages : Size[p] \in Heights
    BY DEF Heights
  <1>2. ASSUME NEW p \in Pages
        PROVE  /\ Taken(p) \in [Heights -> Nat] /\ Cached(p) \in [Heights -> Nat]
               /\ Observed(p) \in [Pages -> Nat]
               /\ [page EXCEPT ![p].tier = "Vram"] \in [Pages -> PageType]
               /\ [page EXCEPT ![p].tier = "Dram"] \in [Pages -> PageType]
               /\ [page EXCEPT ![p].tier = "Ssd"] \in [Pages -> PageType]
               /\ [page EXCEPT ![p] = [tier |-> "None", pinned |-> FALSE]] \in [Pages -> PageType]
               /\ \A b \in BOOLEAN : [page EXCEPT ![p].pinned = b] \in [Pages -> PageType]
    <2>1. Taken(p) \in [Heights -> Nat] /\ Cached(p) \in [Heights -> Nat]
      BY <1>1 DEF Types, Taken, Cached
    <2>2. Observed(p) \in [Pages -> Nat]
      BY DEF Types, Observed
    <2>3. /\ [page EXCEPT ![p].tier = "Vram"] \in [Pages -> PageType]
          /\ [page EXCEPT ![p].tier = "Dram"] \in [Pages -> PageType]
          /\ [page EXCEPT ![p].tier = "Ssd"] \in [Pages -> PageType]
          /\ [page EXCEPT ![p] = [tier |-> "None", pinned |-> FALSE]] \in [Pages -> PageType]
          /\ \A b \in BOOLEAN : [page EXCEPT ![p].pinned = b] \in [Pages -> PageType]
      BY DEF Types, PageType, Tiers
    <2>4. QED
      BY <2>1, <2>2, <2>3
  <1>3. ASSUME NEW p \in Pages, Promoted(p) \/ Dropped(p) \/ GivenBack(p), p \notin inflight
        PROVE  BlockTypes'
    <2>1. CASE Promoted(p)
      <3>1. \A q \in Pages : q # p => page'[q] = page[q]
        BY <2>1 DEF Promoted, Types
      <3>2. QED
        BY <1>2, <1>3, <2>1, <3>1 DEF Promoted, Types, BlockTypes
    <2>2. CASE Dropped(p)
      <3>1. cache' \in [Heights -> Nat] /\ page' = page /\ inflight' = inflight
        BY <1>2, <2>2 DEF Dropped
      <3>2. lost' = lost + Size[p] /\ lost \in Nat /\ Size[p] \in Nat
        BY <2>2, SizeAssumption DEF Dropped, Types
      <3>3. QED
        BY <3>1, <3>2 DEF Types, BlockTypes
    <2>3. CASE GivenBack(p)
      BY <1>2, <2>3 DEF GivenBack, Types, BlockTypes
    <2>4. Promoted(p) \/ Dropped(p) \/ GivenBack(p)
      BY <1>3
    <2>5. QED
      BY <2>1, <2>2, <2>3, <2>4
  <1>4. ASSUME NEW p \in Pages, Claim(p), p \in inflight
        PROVE  BlockTypes'
    <2>1. page' = [page EXCEPT ![p].tier = "Vram"] \/ page' = page
      BY <1>4 DEF Claim
    <2>2. \A q \in Pages : q # p => page'[q] = page[q]
      BY <2>1 DEF Types
    <2>3. inflight' = inflight \ {p} /\ cache' = cache /\ (lost' = lost \/ lost' = lost + Size[p])
      BY <1>4 DEF Claim
    <2>4. page' \in [Pages -> PageType]
      BY <1>2, <2>1 DEF Types
    <2>5. lost' \in Nat
      <3>1. lost \in Nat /\ Size[p] \in Nat
        BY SizeAssumption DEF Types
      <3>2. QED
        BY <2>3, <3>1
    <2>6. inflight' \subseteq Pages /\ \A q \in inflight' : page'[q].tier = "Dram"
      BY <2>2, <2>3 DEF Types
    <2>7. QED
      BY <2>3, <2>4, <2>5, <2>6 DEF Types, BlockTypes
  <1>5. ASSUME UNCHANGED <<page, blockVars>>
        PROVE  BlockTypes'
    BY <1>5 DEF blockVars, Types, BlockTypes
  <1>6. ASSUME NEW p \in Pages, Accessed(p)
        PROVE  hits' \in [Pages -> Nat] /\ BlockTypes'
    <2>1. \/ p \in inflight /\ Claim(p)
          \/ p \notin inflight /\ (Promoted(p) \/ Dropped(p) \/ GivenBack(p))
          \/ UNCHANGED <<page, blockVars>>
      BY <1>6 DEF Accessed, Promote
    <2>2. hits' \in [Pages -> Nat]
      BY <1>2, <1>6 DEF Accessed
    <2>3. QED
      BY <1>3, <1>4, <1>5, <2>1, <2>2
  <1>7. ASSUME NEW p \in Pages, Demoted(p), p \in Resident
        PROVE  BlockTypes'
    <2>1. /\ \A q \in Pages : q # p => page'[q] = page[q]
          /\ page'[p].tier = "Dram"
      <3>1. page' = [page EXCEPT ![p].tier = "Dram"]
        BY <1>7 DEF Demoted
      <3>2. page \in [Pages -> [tier : Tiers, pinned : BOOLEAN]]
        BY DEF Types, PageType
      <3>3. p \in DOMAIN page /\ DOMAIN page[p] = {"tier", "pinned"}
        BY <3>2
      <3>4. page'[p] = [page[p] EXCEPT !.tier = "Dram"]
        BY <3>1, <3>2
      <3>5. page'[p].tier = "Dram"
        BY <3>3, <3>4
      <3>6. \A q \in Pages : q # p => page'[q] = page[q]
        BY <3>1, <3>2
      <3>7. QED
        BY <3>5, <3>6
    <2>2. QED
      BY <1>2, <1>7, <2>1 DEF Demoted, Types, BlockTypes
  <1>8. ASSUME NEW p \in Pages, Allocate(p) \/ Deallocate(p)
        PROVE  Types'
    <2>1. /\ \A q \in Pages : q # p => page'[q] = page[q]
          /\ p \notin inflight
          /\ page' \in [Pages -> PageType] /\ cache' \in [Heights -> Nat]
          /\ UNCHANGED <<rates, hits, inflight, lost>>
      <3>1. CASE Allocate(p)
        <4>1. \/ page' = [page EXCEPT ![p].tier = "Ssd"]
              \/ page' = [page EXCEPT ![p].tier = "Dram"]
          BY <3>1 DEF Allocate
        <4>2. page' \in [Pages -> PageType]
          BY <1>2, <4>1
        <4>3. page \in [Pages -> [tier : Tiers, pinned : BOOLEAN]]
          BY DEF Types, PageType
        <4>4. \A q \in Pages : q # p => page'[q] = page[q]
          <5>1. CASE page' = [page EXCEPT ![p].tier = "Ssd"]
            BY <4>3, <5>1
          <5>2. CASE page' = [page EXCEPT ![p].tier = "Dram"]
            BY <4>3, <5>2
          <5>3. QED
            BY <4>1, <5>1, <5>2
        <4>5. p \notin Known /\ UNCHANGED <<rates, hits, cache, inflight, lost>>
          BY <3>1 DEF Allocate, blockVars
        <4>6. QED
          BY <4>2, <4>4, <4>5 DEF Known, Types
      <3>2. CASE Deallocate(p)
        <4>1. page' = [page EXCEPT ![p] = [tier |-> "None", pinned |-> FALSE]]
              /\ (cache' = Cached(p) \/ cache' = cache)
              /\ p \notin inflight /\ UNCHANGED <<rates, hits, inflight, lost>>
          BY <3>2 DEF Deallocate
        <4>2. QED
          BY <1>2, <4>1 DEF Types
      <3>3. QED
        BY <1>8, <3>1, <3>2
    <2>2. QED
      BY <2>1 DEF Types
  <1>9. ASSUME NEW p \in Pages, Prefetch(p)
        PROVE  Types'
    <2>1. CASE cache' = Taken(p) /\ inflight' = inflight \cup {p} /\ UNCHANGED <<page, lost>>
      BY <1>2, <1>9, <2>1 DEF Prefetch, Types
    <2>2. CASE GivenBack(p) \/ Dropped(p)
      BY <1>3, <1>9, <2>2 DEF Prefetch, Types, BlockTypes
    <2>3. QED
      BY <1>9, <2>1, <2>2 DEF Prefetch
  <1>10. ASSUME NEW p \in Pages, Access(p) \/ Demote(p)
         PROVE  Types'
    <2>1. CASE Access(p)
      BY <1>6, <2>1 DEF Access, Types, BlockTypes
    <2>2. CASE Demote(p)
      BY <1>5, <1>7, <2>2 DEF Demote, Types, BlockTypes
    <2>3. QED
      BY <1>10, <2>1, <2>2
  <1>11. ASSUME NEW p \in Pages, NEW b \in BOOLEAN, SetPinned(p, b)
         PROVE  Types'
    <2>1. page' = [page EXCEPT ![p].pinned = b] /\ UNCHANGED <<rates, hits, cache, inflight, lost>>
      BY <1>11 DEF SetPinned, blockVars
    <2>2. \A q \in Pages : page'[q].tier = page[q].tier
      BY <2>1 DEF Types, PageType
    <2>3. QED
      BY <1>2, <2>1, <2>2 DEF Types
  <1>12. ASSUME SweepDecay
         PROVE  Types'
    BY <1>12 DEF SweepDecay, Decayed, Types, blockVars
  <1>13. ASSUME UNCHANGED <<rates, hits, page, blockVars>>
         PROVE  Types'
    BY <1>13 DEF Types, blockVars
  <1>14. ASSUME SweepEvict
         PROVE  Types'
    <2> DEFINE p == Head(sweep.todo)
    <2>1. sweep.todo \in Seq(Pages) /\ sweep.todo # << >>
      BY <1>14, SweepIs DEF SweepEvict, SweepTypes
    <2>2. p \in Pages
      BY <2>1
    <2>3. (Demoted(p) /\ p \in Resident) \/ UNCHANGED <<page, blockVars>>
      BY <1>14 DEF SweepEvict
    <2> HIDE DEF p
    <2>4. BlockTypes'
      BY <1>5, <1>7, <2>2, <2>3
    <2>5. QED
      BY <1>14, <2>4 DEF SweepEvict, Types, BlockTypes
  <1>15. ASSUME SweepPromote
         PROVE  Types'
    <2> DEFINE p == Head(sweep.todo)
    <2>1. sweep.todo \in Seq(Pages) /\ sweep.todo # << >>
      BY <1>15, SweepIs DEF SweepPromote, SweepTypes
    <2>2. p \in Pages
      BY <2>1
    <2>3. Accessed(p) \/ UNCHANGED <<hits, page, blockVars>>
      BY <1>15 DEF SweepPromote
    <2> HIDE DEF p
    <2>4. BlockTypes' /\ hits' \in [Pages -> Nat]
      BY <1>5, <1>6, <2>2, <2>3 DEF Types
    <2>5. QED
      BY <1>15, <2>4 DEF SweepPromote, Types, BlockTypes
  <1>16. QED
    BY <1>8, <1>9, <1>10, <1>11, <1>12, <1>13, <1>14, <1>15
    DEF Next, Sweep, SweepPlan, SweepTurn, SweepReturn, vars

(* What a step of the sweep changes of it: the phase and what is to do.    *)
Goes(ph, t) ==
  /\ sweep' \in SweepType
  /\ sweep'.phase = ph /\ sweep'.todo = t
  /\ sweep'.keep = sweep.keep /\ sweep'.evict = sweep.evict /\ sweep'.was = sweep.was
  /\ sweep.failed \subseteq sweep'.failed

LEMMA GoesOn ==
  ASSUME SweepTypes
  PROVE  /\ \A t \in Seq(Pages) : sweep' = [sweep EXCEPT !.todo = t] => Goes(sweep.phase, t)
         /\ \A t \in Seq(Pages), f \in SUBSET Pages :
              /\ sweep' = [sweep EXCEPT !.todo = t, !.failed = f]
              /\ sweep.failed \subseteq f
              => Goes(sweep.phase, t)
         /\ \A ph \in Phases : sweep' = [sweep EXCEPT !.phase = ph] => Goes(ph, sweep.todo)
         /\ \A ph \in Phases, t \in Seq(Pages) :
              sweep' = [sweep EXCEPT !.phase = ph, !.todo = t] => Goes(ph, t)
  <1>1. ASSUME NEW t \in Seq(Pages), sweep' = [sweep EXCEPT !.todo = t]
        PROVE  Goes(sweep.phase, t)
    BY <1>1 DEF SweepTypes, SweepType, Goes
  <1>2. ASSUME NEW ph \in Phases, sweep' = [sweep EXCEPT !.phase = ph]
        PROVE  Goes(ph, sweep.todo)
    BY <1>2 DEF SweepTypes, SweepType, Goes
  <1>3. ASSUME NEW ph \in Phases, NEW t \in Seq(Pages),
               sweep' = [sweep EXCEPT !.phase = ph, !.todo = t]
        PROVE  Goes(ph, t)
    BY <1>3 DEF SweepTypes, SweepType, Goes
  <1>4. ASSUME NEW t \in Seq(Pages), NEW f \in SUBSET Pages, sweep.failed \subseteq f,
               sweep' = [sweep EXCEPT !.todo = t, !.failed = f]
        PROVE  Goes(sweep.phase, t)
    BY <1>4 DEF SweepTypes, SweepType, Goes
  <1>5. QED
    BY <1>1, <1>2, <1>3, <1>4

(* A call, or the decay that begins a sweep, leaves no plan. *)
LEMMA CallStep ==
  ASSUME Types', NEW ph \in {"rest", "plan"}, sweep' = [Rest EXCEPT !.phase = ph]
  PROVE  SweepInv'
  <1>1. << >> \in Seq(Pages) /\ {} \subseteq Pages /\ ph \in Phases
    BY DEF Phases
  <1>2. sweep' = [phase |-> ph, keep |-> << >>, evict |-> << >>, todo |-> << >>,
                  was |-> {}, failed |-> {}]
    BY DEF Rest
  <1>3. SweepTypes' /\ sweep'.phase = ph
    <2> DEFINE none   == << >>
               nobody == {}
    <2>1. none \in Seq(Pages) /\ nobody \in SUBSET Pages
      BY <1>1
    <2>2. sweep' = [phase |-> ph, keep |-> none, evict |-> none, todo |-> none,
                    was |-> nobody, failed |-> nobody]
      BY <1>2
    <2> HIDE DEF none, nobody
    <2>3. sweep' \in SweepType
      BY ONLY <1>1, <2>1, <2>2 DEF SweepType
    <2>4. QED
      BY <2>2, <2>3 DEF SweepTypes
  <1>4. ~Planned' /\ sweep'.phase \notin {"evict", "promote", "done"}
    BY <1>3 DEF Planned
  <1>5. (PlanIsTight /\ DisplacedByHotter /\ Underway /\ PlacementFollowsPlan)'
    BY <1>4 DEF PlanIsTight, DisplacedByHotter, Underway, PlacementFollowsPlan
  <1>6. QED
    BY <1>3, <1>5 DEF SweepInv

(* The plan is made. *)
LEMMA PlanStepHolds ==
  ASSUME SweepInv, SweepPlan, Types'
  PROVE  SweepInv'
  <1> DEFINE kept == Range(Plan.keep)
             out  == Range(Plan.evict)
  <1>1. /\ Plan \in PlanType /\ kept \cup out = Known
        /\ Promises(Total(kept), kept, out)
    BY PlanPromises DEF SweepInv
  <1>2. /\ sweep' = [phase |-> "evict", keep |-> Plan.keep, evict |-> Plan.evict,
                     todo |-> Plan.evict, was |-> Resident, failed |-> {}]
        /\ rates' = rates /\ page' = page
    BY DEF SweepPlan
  <1>3. /\ sweep'.phase = "evict" /\ Kept' = kept /\ Evicted' = out
        /\ Range(sweep.todo)' = out /\ sweep'.was = Resident
        /\ Planned' /\ Known' = Known /\ Total(Kept)' = Total(kept) /\ Cap' = Cap
    BY <1>2 DEF Kept, Evicted, Planned, Known, Total, Cap
  <1>4. SweepTypes'
    <2>1. Resident \subseteq Pages /\ "evict" \in Phases
      BY DEF Resident, Phases
    <2>2. Plan.keep \in Seq(Pages) /\ Plan.evict \in Seq(Pages)
      BY <1>1 DEF PlanType
    <2>3. QED
      BY <1>2, <2>1, <2>2 DEF SweepTypes, SweepType
  <1>5. kept \subseteq Pages /\ out \subseteq Pages
    BY <1>1, KnownIsFinite
  <1> HIDE DEF kept, out
  <1>6. PlanIsTight'
    BY <1>1, <1>2, <1>3 DEF PlanIsTight, Promises
  <1>7. DisplacedByHotter'
    <2> SUFFICES ASSUME NEW p \in out \cap Resident, NEW q \in kept \ Resident,
                        Size[p] = Size[q], ~page[q].pinned
                 PROVE  2 * rates[q] >= 3 * rates[p]
      BY <1>2, <1>3 DEF DisplacedByHotter
    <2>1. ~page[p].pinned /\ Before(q, p)
      BY <1>1 DEF Promises
    <2>2. Score(q) = Score(p) \/ Score(q) > Score(p)
      BY <2>1 DEF Before
    <2>3. Score(q) = 2 * rates[q] - 2 * Size[q] /\ Score(p) = 3 * rates[p] - 2 * Size[p]
      BY DEF Score
    <2>4. rates[p] \in Nat /\ rates[q] \in Nat /\ Size[p] \in Nat
      BY <1>5, SizeAssumption DEF SweepInv, Types
    <2>5. QED
      BY <2>2, <2>3, <2>4
  <1>8. Underway'
    BY <1>1, <1>3 DEF Underway, Promises
  <1>9. PlacementFollowsPlan'
    BY <1>3 DEF PlacementFollowsPlan
  <1>10. QED
    BY <1>4, <1>6, <1>7, <1>8, <1>9 DEF SweepInv

(* Once it is made, it stays what it is. *)
LEMMA PlanStays ==
  ASSUME SweepInv, Planned, rates' = rates,
         \A p \in Pages : page'[p].pinned = page[p].pinned,
         sweep'.keep = sweep.keep, sweep'.evict = sweep.evict, sweep'.was = sweep.was
  PROVE  /\ (PlanIsTight /\ DisplacedByHotter)'
         /\ Kept' = Kept /\ Evicted' = Evicted
  <1>1. Kept' = Kept /\ Evicted' = Evicted /\ Total(Kept)' = Total(Kept) /\ Cap' = Cap
    BY DEF Kept, Evicted, Total, Cap
  <1>2. Kept \subseteq Pages /\ Evicted \subseteq Pages
    BY SweepIs, ListedPages DEF Kept, Evicted, SweepInv, SweepTypes
  <1>3. PlanIsTight'
    BY <1>1, <1>2 DEF PlanIsTight, SweepInv
  <1>4. DisplacedByHotter'
    BY <1>1, <1>2 DEF DisplacedByHotter, SweepInv
  <1>5. QED
    BY <1>1, <1>3, <1>4

LEMMA TodoIs ==
  ASSUME SweepTypes, sweep.todo # << >>
  PROVE  /\ Head(sweep.todo) \in Range(sweep.todo) /\ Head(sweep.todo) \in Pages
         /\ Tail(sweep.todo) \in Seq(Pages)
         /\ Range(sweep.todo) = Range(Tail(sweep.todo)) \cup {Head(sweep.todo)}
  <1> DEFINE s == sweep.todo
             n == Len(s)
             t == Tail(s)
  <1>1. s \in Seq(Pages) /\ n \in Nat /\ n # 0 /\ DOMAIN s = 1 .. n
    <2>1. sweep.todo \in Seq(Pages)
      BY SweepIs DEF SweepTypes
    <2>2. QED
      BY <2>1
  <1>2. /\ t \in Seq(Pages) /\ DOMAIN t = 1 .. n - 1
        /\ \A i \in 1 .. n - 1 : t[i] = s[i + 1]
        /\ Head(s) = s[1] /\ Head(s) \in Pages
    BY <1>1
  <1> HIDE DEF s, n, t
  <1>3. 1 \in 1 .. n /\ \A i \in 1 .. n - 1 : i + 1 \in 1 .. n
    BY <1>1
  <1>4. \A i \in 1 .. n : i # 1 => i - 1 \in 1 .. n - 1 /\ (i - 1) + 1 = i
    BY <1>1
  <1>5. Range(s) \subseteq Range(t) \cup {Head(s)}
    <2> SUFFICES ASSUME NEW i \in 1 .. n, i # 1 PROVE s[i] \in Range(t)
      BY <1>1, <1>2 DEF Range
    <2>1. s[i] = t[i - 1] /\ i - 1 \in DOMAIN t
      BY <1>2, <1>4
    <2>2. QED
      BY <2>1 DEF Range
  <1>6. Range(t) \cup {Head(s)} \subseteq Range(s)
    BY <1>1, <1>2, <1>3 DEF Range
  <1>7. QED
    BY <1>2, <1>5, <1>6 DEF s, t

-----------------------------------------------------------------------------
LEMMA EvictStep ==
  ASSUME SweepInv, SweepEvict, Types'
  PROVE  SweepInv'
  <1> DEFINE p == Head(sweep.todo)
             t == Tail(sweep.todo)
  <1>1. /\ SweepTypes /\ Types /\ sweep.phase = "evict" /\ sweep.todo # << >>
        /\ rates' = rates /\ sweep.todo \in Seq(Pages) /\ "aborted" \in Phases
    BY SweepIs DEF SweepInv, SweepEvict, SweepTypes, Phases
  <1>2. p \in Pages /\ t \in Seq(Pages) /\ Range(sweep.todo) = Range(t) \cup {p}
    BY <1>1, TodoIs
  <1>3. Rested = [sweep EXCEPT !.todo = t]
    BY DEF Rested
  <1>4. \/ /\ sweep' = [sweep EXCEPT !.phase = "aborted"] /\ page' = page
        \/ /\ p \in Resident /\ page' = [page EXCEPT ![p].tier = "Dram"] /\ sweep' = Rested
        \/ /\ p \notin Resident /\ page' = page /\ sweep' = Rested
    BY DEF SweepEvict, Demoted
  <1> HIDE DEF p, t
  <1>5. \/ Goes("aborted", sweep.todo) /\ page' = page
        \/ Goes("evict", t) /\ p \in Resident /\ page' = [page EXCEPT ![p].tier = "Dram"]
        \/ Goes("evict", t) /\ p \notin Resident /\ page' = page
    BY <1>1, <1>2, <1>3, <1>4, GoesOn
  <1>6. SweepTypes' /\ sweep'.phase \in {"evict", "aborted"} /\ Planned' /\ Planned
    BY <1>1, <1>5 DEF SweepTypes, Goes, Planned
  <1>7. /\ \A q \in Pages : page'[q].pinned = page[q].pinned
        /\ Known' = Known /\ Resident' \subseteq Resident
        /\ sweep'.phase = "evict" => p \notin Resident' /\ sweep'.todo = t
    <2>1. \A q \in Pages : page[q] \in PageType
      BY <1>1 DEF Types
    <2>2. CASE page' = page
      <3>1. sweep'.phase = "evict" => p \notin Resident /\ sweep'.todo = t
        BY <1>5, <1>1, <1>2, <2>2 DEF Goes, Types, PageType, Resident
      <3>2. QED
        BY <2>2, <3>1 DEF Known, Resident
    <2>3. CASE Goes("evict", t) /\ p \in Resident /\ page' = [page EXCEPT ![p].tier = "Dram"]
      <3>1. /\ page'[p].tier = "Dram" /\ page'[p].pinned = page[p].pinned
            /\ \A q \in Pages : q # p => page'[q] = page[q]
        BY <1>1, <1>2, <2>1, <2>3 DEF Types, PageType
      <3>2. page[p].tier = "Vram"
        BY <2>3 DEF Resident
      <3>3. Known' = Known /\ Resident' \subseteq Resident /\ p \notin Resident'
        BY <3>1, <3>2 DEF Known, Resident
      <3>4. QED
        BY <2>3, <3>1, <3>3 DEF Goes
    <2>4. QED
      BY <1>5, <2>2, <2>3
  <1>8. /\ (PlanIsTight /\ DisplacedByHotter)'
        /\ Kept' = Kept /\ Evicted' = Evicted
    BY <1>1, <1>5, <1>6, <1>7, PlanStays DEF Goes
  <1>9. Underway'
    <2>1. Kept \cap Evicted = {} /\ Kept \subseteq Known /\ Evicted \cap Resident \subseteq Range(sweep.todo)
      BY <1>1, <1>6 DEF SweepInv, Underway
    <2>2. sweep'.phase # "promote"
      BY <1>6
    <2>3. sweep'.phase = "evict" => Evicted \cap Resident' \subseteq Range(sweep'.todo)
      BY <1>2, <1>7, <2>1
    <2>4. QED
      BY <1>6, <1>7, <1>8, <2>1, <2>2, <2>3 DEF Underway
  <1>10. PlacementFollowsPlan'
    BY <1>6 DEF PlacementFollowsPlan
  <1>11. QED
    BY <1>6, <1>8, <1>9, <1>10 DEF SweepInv

LEMMA TurnStep ==
  ASSUME SweepInv, SweepTurn, Types'
  PROVE  SweepInv'
  <1>1. /\ SweepTypes /\ sweep.phase = "evict" /\ sweep.todo = << >>
        /\ rates' = rates /\ page' = page
        /\ sweep.keep \in Seq(Pages) /\ "promote" \in Phases
        /\ sweep' = [sweep EXCEPT !.phase = "promote", !.todo = sweep.keep]
    BY SweepIs DEF SweepInv, SweepTurn, SweepTypes, Phases
  <1>2. Goes("promote", sweep.keep)
    BY <1>1, GoesOn
  <1>3. SweepTypes' /\ Planned /\ Planned' /\ sweep'.phase = "promote"
    BY <1>1, <1>2 DEF SweepTypes, Goes, Planned
  <1>4. /\ (PlanIsTight /\ DisplacedByHotter)'
        /\ Kept' = Kept /\ Evicted' = Evicted
    BY <1>1, <1>2, <1>3, PlanStays DEF Goes
  <1>5. Known' = Known /\ Resident' = Resident /\ Range(sweep'.todo) = Kept /\ Range(sweep.todo) = {}
    BY <1>1, <1>2 DEF Known, Resident, Kept, Range, Goes
  <1>6. Underway'
    BY <1>1, <1>3, <1>4, <1>5 DEF SweepInv, Underway
  <1>7. PlacementFollowsPlan'
    BY <1>3 DEF PlacementFollowsPlan
  <1>8. QED
    BY <1>3, <1>4, <1>6, <1>7 DEF SweepInv

LEMMA ReturnStep ==
  ASSUME SweepInv, SweepReturn, Types'
  PROVE  SweepInv'
  <1>1. /\ SweepTypes /\ sweep.phase = "promote" /\ sweep.todo = << >>
        /\ rates' = rates /\ page' = page /\ "done" \in Phases
        /\ UNCHANGED <<cache, inflight, lost>>
        /\ sweep' = [sweep EXCEPT !.phase = "done"]
    BY DEF SweepInv, SweepReturn, Phases, blockVars
  <1>2. Goes("done", sweep.todo)
    BY <1>1, GoesOn
  <1>3. SweepTypes' /\ Planned /\ Planned' /\ sweep'.phase = "done"
    BY <1>1, <1>2 DEF SweepTypes, Goes, Planned
  <1>4. /\ (PlanIsTight /\ DisplacedByHotter)'
        /\ Kept' = Kept /\ Evicted' = Evicted
    BY <1>1, <1>2, <1>3, PlanStays DEF Goes
  <1>5. Known' = Known /\ Resident' = Resident /\ Range(sweep.todo) = {}
    BY <1>1 DEF Known, Resident, Range
  <1>6. \A p \in Pages : Room(p)' <=> Room(p)
    BY <1>1, <1>5 DEF Room, InUse, Total
  <1>7. Underway'
    BY <1>1, <1>3, <1>4, <1>5 DEF SweepInv, Underway
  <1>8. PlacementFollowsPlan'
    <2>1. Kept \subseteq Pages
      BY <1>1, SweepIs, ListedPages DEF Kept, SweepTypes
    <2>2. /\ Evicted \cap Resident = {}
          /\ \A p \in Kept \ Resident : ~Room(p) \/ p \in sweep.failed
      BY <1>1, <1>5 DEF SweepInv, Underway
    <2>3. sweep.failed \subseteq sweep'.failed
      BY <1>2 DEF Goes
    <2>4. QED
      BY <1>4, <1>5, <1>6, <2>1, <2>2, <2>3 DEF PlacementFollowsPlan
  <1>9. QED
    BY <1>3, <1>4, <1>7, <1>8 DEF SweepInv

-----------------------------------------------------------------------------
CacheUse(c) == SumFunction([s \in DOMAIN c |-> s * c[s]])

(* A block more or less in the cache makes up for its size.               *)
LEMMA CacheUseIs ==
  ASSUME Types, NEW p \in Pages, NEW c \in [Heights -> Nat],
         \A s \in Heights \ {Size[p]} : c[s] = cache[s],
         \/ cache[Size[p]] = c[Size[p]] + 1
         \/ cache[Size[p]] = c[Size[p]]
         \/ c[Size[p]] = cache[Size[p]] + 1
  PROVE  /\ CacheUse(cache) \in Nat /\ CacheUse(c) \in Nat
         /\ CacheUse(cache) <= CacheUse(c) + Size[p]
         /\ c[Size[p]] = cache[Size[p]] + 1 => CacheUse(cache) <= CacheUse(c)
  <1> DEFINE d == Size[p]
             F == [s \in Heights |-> s * cache[s]]
             G == [s \in Heights |-> s * c[s]]
             rest == Heights \ {d}
  <1>1. Heights \subseteq Nat /\ d \in Heights /\ d \in Nat
    BY SizeAssumption DEF Heights
  <1>2. IsFiniteSet(Heights) /\ IsFiniteSet(rest)
    <2> DEFINE f == [q \in Pages |-> Size[q]]
    <2>1. f \in Surjection(Pages, Heights)
      BY DEF Surjection, Heights
    <2>2. IsFiniteSet(Heights)
      BY <2>1, PagesAssumption, FS_Surjection
    <2>3. QED
      BY <2>2, FS_RemoveElement
  <1>3. /\ cache \in [Heights -> Nat]
        /\ \A s \in rest : c[s] = cache[s]
        /\ cache[d] = c[d] + 1 \/ cache[d] = c[d] \/ c[d] = cache[d] + 1
    BY <1>1 DEF Types
  <1> HIDE DEF d
  <1>4. /\ \A s \in Heights : F[s] \in Nat /\ G[s] \in Nat
        /\ \A s \in rest : F[s] = G[s]
        /\ F[d] = d * cache[d] /\ G[d] = d * c[d]
        /\ DOMAIN F = Heights /\ DOMAIN G = Heights
    BY <1>1, <1>3
  <1>5. CacheUse(cache) = SumFunctionOnSet(F, Heights) /\ CacheUse(c) = SumFunctionOnSet(G, Heights)
    BY <1>3 DEF CacheUse, SumFunction
  <1> HIDE DEF F, G
  <1>6. /\ SumFunctionOnSet(F, Heights) = F[d] + SumFunctionOnSet(F, rest)
        /\ SumFunctionOnSet(G, Heights) = G[d] + SumFunctionOnSet(G, rest)
    <2>1. d \in Heights /\ IsFiniteSet(Heights)
      BY <1>1, <1>2
    <2>2. /\ SumFunctionOnSet(F, Heights) = F[d] + SumFunctionOnSet(F, Heights \ {d})
          /\ SumFunctionOnSet(G, Heights) = G[d] + SumFunctionOnSet(G, Heights \ {d})
      BY <1>4, <2>1, SumTakesOut
    <2>3. QED
      BY <2>2
  <1>7. SumFunctionOnSet(F, rest) = SumFunctionOnSet(G, rest) /\ SumFunctionOnSet(F, rest) \in Nat
    <2>1. \A s \in rest : F[s] \in Nat
      BY <1>4
    <2> HIDE DEF rest
    <2>2. QED
      BY <1>2, <1>4, <2>1, SumOfSame, SumIsNat
  <1>8. /\ F[d] \in Nat /\ G[d] \in Nat
        /\ F[d] <= G[d] + d
        /\ c[d] = cache[d] + 1 => F[d] <= G[d]
    <2>1. cache[d] \in Nat /\ c[d] \in Nat
      BY <1>1, <1>3
    <2>2. ASSUME NEW m \in Nat
          PROVE  d * (m + 1) = d * m + d
      BY <1>1
    <2>3. d * (c[d] + 1) = d * c[d] + d /\ d * (cache[d] + 1) = d * cache[d] + d
      BY <2>1, <2>2
    <2>4. CASE cache[d] = c[d] + 1
      BY <1>1, <1>4, <2>1, <2>3, <2>4
    <2>5. CASE cache[d] = c[d]
      BY <1>1, <1>4, <2>1, <2>5
    <2>6. CASE c[d] = cache[d] + 1
      BY <1>1, <1>4, <2>1, <2>3, <2>6
    <2>7. QED
      BY <1>3, <2>4, <2>5, <2>6
  <1>9. QED
    BY <1>1, <1>5, <1>6, <1>7, <1>8 DEF d

(* The three ways the cache changes when a block is taken, or given back.  *)
LEMMA CacheSteps ==
  ASSUME Types, NEW p \in Pages, Room(p)
  PROVE  /\ CacheUse(cache) \in Nat
         /\ cache' = Taken(p) => /\ CacheUse(cache') \in Nat
                                 /\ CacheUse(cache) <= CacheUse(cache') + Size[p]
         /\ GivenBack(p) => CacheUse(cache') \in Nat /\ CacheUse(cache) <= CacheUse(cache')
         /\ cache' = Taken(p) \/ GivenBack(p) =>
              \A q \in Pages : cache'[Size[q]] > 0 => Room(q)
  <1>1. Size[p] \in Heights /\ \A q \in Pages : Size[q] \in Heights
    BY DEF Heights
  <1>2. CacheUse(cache) \in Nat
    <2>1. cache \in [Heights -> Nat]
      BY DEF Types
    <2>2. QED
      BY <2>1, CacheUseIs
  <1>3. ASSUME cache' = Taken(p)
        PROVE  /\ CacheUse(cache') \in Nat
               /\ CacheUse(cache) <= CacheUse(cache') + Size[p]
               /\ \A q \in Pages : cache'[Size[q]] > 0 => Room(q)
    <2> DEFINE c == Taken(p)
    <2>1. /\ c \in [Heights -> Nat]
          /\ \A s \in Heights \ {Size[p]} : c[s] = cache[s]
          /\ cache[Size[p]] = c[Size[p]] + 1 \/ cache[Size[p]] = c[Size[p]]
      BY <1>1 DEF Types, Taken
    <2>2. \A s \in Heights : c[s] > 0 => cache[s] > 0
      BY <1>1, <2>1 DEF Types
    <2> HIDE DEF c
    <2>3. CacheUse(c) \in Nat /\ CacheUse(cache) <= CacheUse(c) + Size[p]
      BY <2>1, CacheUseIs
    <2>4. QED
      BY <1>1, <1>3, <2>2, <2>3 DEF c, Room
  <1>4. ASSUME GivenBack(p), cache[Size[p]] > 0
        PROVE  cache' = cache
    BY <1>4 DEF GivenBack
  <1>5. ASSUME GivenBack(p), ~(cache[Size[p]] > 0)
        PROVE  /\ CacheUse(cache') \in Nat /\ CacheUse(cache) <= CacheUse(cache')
               /\ \A q \in Pages : cache'[Size[q]] > 0 => Room(q)
    <2> DEFINE c == Cached(p)
    <2>1. cache' = c
      BY <1>5 DEF GivenBack
    <2>2. /\ c \in [Heights -> Nat]
          /\ \A s \in Heights \ {Size[p]} : c[s] = cache[s]
          /\ c[Size[p]] = cache[Size[p]] + 1
      BY <1>1 DEF Types, Cached
    <2> HIDE DEF c
    <2>3. CacheUse(c) \in Nat /\ CacheUse(cache) <= CacheUse(c)
      BY <2>2, CacheUseIs
    <2>4. \A q \in Pages : c[Size[q]] > 0 => Room(q)
      BY <1>1, <2>2 DEF Room
    <2>5. QED
      BY <2>1, <2>3, <2>4
  <1>6. cache' = cache => /\ CacheUse(cache') = CacheUse(cache)
                          /\ \A q \in Pages : cache'[Size[q]] > 0 => Room(q)
    BY DEF CacheUse, Room
  <1>7. QED
    BY <1>2, <1>3, <1>4, <1>5, <1>6

(* If more is in use and only cached blocks are offered that there was     *)
(* room for, there is no new room.                                         *)
LEMMA NoNewRoom ==
  ASSUME Types, InUse \in Nat, InUse' \in Nat, InUse <= InUse',
         \A q \in Pages : cache'[Size[q]] > 0 => Room(q)
  PROVE  \A q \in Pages : Room(q)' => Room(q)
  <1> SUFFICES ASSUME NEW q \in Pages, Room(q)' PROVE Room(q)
    OBVIOUS
  <1>1. cache'[Size[q]] > 0 \/ InUse' + Size[q] <= VramCap
    BY DEF Room
  <1>2. QED
    BY <1>1, SizeAssumption, BudgetAssumption DEF Room

(* An access makes room for no other page, and moves only its own, up.     *)
LEMMA AccessTakesRoom ==
  ASSUME Types, NEW p \in Known \ Resident, Accessed(p)
  PROVE  /\ Known' = Known
         /\ \A q \in Pages : page'[q].pinned = page[q].pinned
         /\ \/ Resident' = Resident \cup {p}
            \/ Resident' = Resident /\ page' = page
         /\ page' = page \/ p \in Resident'
         /\ \A q \in Pages : Room(q)' => Room(q)
  <1>1. /\ p \in Pages /\ \A q \in Pages : page[q] \in PageType
        /\ Resident \subseteq Pages /\ p \in Pages \ Resident
        /\ inflight \subseteq Pages /\ lost \in Nat /\ Size[p] \in Nat
    BY KnownIsFinite, SizeAssumption DEF Types, Resident
  <1>2. /\ Total(Resident) \in Nat /\ Total(inflight) \in Nat
        /\ Total(Resident \cup {p}) = Total(Resident) + Size[p]
        /\ p \in inflight => Total(inflight \ {p}) = Total(inflight) - Size[p]
    BY <1>1, TotalIs
  <1>3. /\ InUse = Total(Resident) + Total(inflight) + lost + CacheUse(cache)
        /\ InUse' = Total(Resident') + Total(inflight') + lost' + CacheUse(cache')
    BY DEF InUse, CacheUse, Total
  <1>4. CacheUse(cache) \in Nat
    <2>1. cache \in [Heights -> Nat]
      BY DEF Types
    <2>2. QED
      BY <1>1, <2>1, CacheUseIs
  <1>5. ASSUME page' = [page EXCEPT ![p].tier = "Vram"]
        PROVE  /\ Known' = Known /\ Resident' = Resident \cup {p}
               /\ \A q \in Pages : page'[q].pinned = page[q].pinned
    <2>1. /\ page'[p].tier = "Vram" /\ page'[p].pinned = page[p].pinned
          /\ \A q \in Pages : q # p => page'[q] = page[q]
      BY <1>1, <1>5 DEF Types, PageType
    <2>2. QED
      BY <1>1, <2>1 DEF Known, Resident
  <1>6. ASSUME page' = page
        PROVE  Known' = Known /\ Resident' = Resident
    BY <1>6 DEF Known, Resident
  <1>7. CASE UNCHANGED <<page, blockVars>>
    <2>1. \A q \in Pages : Room(q)' => Room(q)
      BY <1>6, <1>7 DEF Room, InUse, Total, blockVars
    <2>2. QED
      BY <1>6, <1>7, <2>1
  <1>8. CASE p \in inflight /\ Claim(p)
    <2>1. /\ inflight' = inflight \ {p} /\ cache' = cache
          /\ \/ page' = [page EXCEPT ![p].tier = "Vram"] /\ lost' = lost
             \/ page' = page /\ lost' = lost + Size[p]
      BY <1>8 DEF Claim
    <2>2. Total(inflight') = Total(inflight) - Size[p] /\ Total(inflight') \in Nat
      <3>1. inflight' \subseteq Pages
        BY <1>1, <2>1
      <3>2. QED
        BY <1>2, <1>8, <2>1, <3>1, TotalIs
    <2>3. \/ Total(Resident') = Total(Resident) + Size[p] /\ lost' = lost
          \/ Total(Resident') = Total(Resident) /\ lost' = lost + Size[p]
      BY <1>2, <1>5, <1>6, <2>1
    <2>4. CacheUse(cache') = CacheUse(cache)
      BY <2>1
    <2>5. InUse \in Nat /\ InUse' = InUse
      BY <1>1, <1>2, <1>3, <1>4, <2>2, <2>3, <2>4
    <2>6. \A q \in Pages : cache'[Size[q]] > 0 => Room(q)
      BY <2>1 DEF Room
    <2>7. \A q \in Pages : Room(q)' => Room(q)
      BY <2>5, <2>6, NoNewRoom
    <2>8. QED
      BY <1>5, <1>6, <2>1, <2>7
  <1>9. CASE Room(p) /\ (Promoted(p) \/ Dropped(p) \/ GivenBack(p))
    <2>1. /\ inflight' = inflight
          /\ \/ /\ page' = [page EXCEPT ![p].tier = "Vram"] /\ lost' = lost
                /\ cache' = Taken(p)
             \/ page' = page /\ lost' = lost + Size[p] /\ cache' = Taken(p)
             \/ page' = page /\ lost' = lost /\ GivenBack(p)
      BY <1>9 DEF Promoted, Dropped, GivenBack
    <2>2. \/ /\ Total(Resident') = Total(Resident) + Size[p] /\ lost' = lost
             /\ cache' = Taken(p)
          \/ /\ Total(Resident') = Total(Resident) /\ lost' = lost + Size[p]
             /\ cache' = Taken(p)
          \/ Total(Resident') = Total(Resident) /\ lost' = lost /\ GivenBack(p)
      BY <1>2, <1>5, <1>6, <2>1
    <2>3. /\ cache' = Taken(p) => /\ CacheUse(cache') \in Nat
                                  /\ CacheUse(cache) <= CacheUse(cache') + Size[p]
          /\ GivenBack(p) => CacheUse(cache') \in Nat /\ CacheUse(cache) <= CacheUse(cache')
          /\ \A q \in Pages : cache'[Size[q]] > 0 => Room(q)
      BY <1>1, <1>9, <2>1, CacheSteps
    <2>4. Total(inflight') = Total(inflight)
      BY <2>1
    <2>5. InUse \in Nat /\ InUse' \in Nat /\ InUse <= InUse'
      BY <1>1, <1>2, <1>3, <1>4, <2>2, <2>3, <2>4
    <2>6. \A q \in Pages : Room(q)' => Room(q)
      BY <2>3, <2>5, NoNewRoom
    <2>7. QED
      BY <1>5, <1>6, <2>1, <2>6
  <1>10. QED
    BY <1>7, <1>8, <1>9 DEF Accessed, Promote

LEMMA PromoteStep ==
  ASSUME SweepInv, SweepPromote, Types'
  PROVE  SweepInv'
  <1> DEFINE p == Head(sweep.todo)
             t == Tail(sweep.todo)
             f == IF page' = page /\ (p \in inflight \/ Room(p))
                  THEN sweep.failed \cup {p} ELSE sweep.failed
  <1>1. /\ SweepTypes /\ Types /\ sweep.phase = "promote" /\ sweep.todo # << >>
        /\ rates' = rates /\ sweep \in SweepType
    BY DEF SweepInv, SweepPromote, SweepTypes
  <1>2. /\ p \in Pages /\ p \in Range(sweep.todo)
        /\ t \in Seq(Pages) /\ Range(sweep.todo) = Range(t) \cup {p}
    BY <1>1, TodoIs
  <1>3. \/ /\ p \in Resident /\ UNCHANGED <<page, blockVars>>
           /\ sweep' = [sweep EXCEPT !.todo = t]
        \/ /\ p \notin Resident /\ Accessed(p)
           /\ sweep' = [sweep EXCEPT !.todo = t, !.failed = f]
    <2>1. Rested = [sweep EXCEPT !.todo = t] /\ Rested.failed = sweep.failed
      BY <1>1 DEF Rested, SweepType
    <2>2. [Rested EXCEPT !.failed = f] = [sweep EXCEPT !.todo = t, !.failed = f]
      BY <1>1, <2>1 DEF SweepType
    <2>3. CASE p \in Resident
      BY <2>1, <2>3 DEF SweepPromote
    <2>4. CASE p \notin Resident
      <3>1. Accessed(p) /\ sweep' = [Rested EXCEPT !.failed = f]
        BY <2>1, <2>4 DEF SweepPromote
      <3>2. QED
        BY <2>2, <2>4, <3>1
    <2>5. QED
      BY <2>3, <2>4
  <1>4. f \in SUBSET Pages /\ sweep.failed \subseteq f
    BY <1>1, <1>2, SweepIs
  <1>5. Goes("promote", t) /\ (p \notin Resident => sweep'.failed = f)
    <2> HIDE DEF t, f
    <2>1. Goes("promote", t)
      BY <1>1, <1>2, <1>3, <1>4, GoesOn
    <2>2. p \notin Resident => sweep'.failed = f
      BY <1>1, <1>3 DEF SweepType
    <2>3. QED
      BY <2>1, <2>2
  <1> HIDE DEF p, t
  <1>6. SweepTypes' /\ sweep'.phase = "promote" /\ sweep'.todo = t /\ Planned' /\ Planned
    BY <1>1, <1>5 DEF SweepTypes, Goes, Planned
  <1>7. /\ Kept \cap Evicted = {} /\ Kept \subseteq Known
        /\ Range(sweep.todo) \subseteq Kept /\ Evicted \cap Resident = {}
        /\ \A q \in Kept \ Resident : q \in Range(sweep.todo) \/ ~Room(q) \/ q \in sweep.failed
    BY <1>1, <1>6 DEF SweepInv, Underway
  <1>8. /\ Known' = Known
        /\ \A q \in Pages : page'[q].pinned = page[q].pinned
        /\ p \in Resident' \/ ~Room(p) \/ p \in sweep'.failed
        /\ Resident \subseteq Resident' /\ Resident' \subseteq Resident \cup {p}
        /\ \A q \in Pages : Room(q)' => Room(q)
    <2>1. CASE p \in Resident
      <3>1. UNCHANGED <<page, blockVars>>
        BY <1>3, <2>1
      <3>2. Known' = Known /\ Resident' = Resident
        BY <3>1 DEF Known, Resident
      <3>3. QED
        BY <2>1, <3>1, <3>2 DEF Room, InUse, Total, blockVars
    <2>2. CASE p \notin Resident
      <3>1. p \in Known \ Resident /\ Accessed(p)
        BY <1>2, <1>3, <1>7, <2>2
      <3>2. /\ Known' = Known
            /\ \A q \in Pages : page'[q].pinned = page[q].pinned
            /\ \/ Resident' = Resident \cup {p}
               \/ Resident' = Resident /\ page' = page
            /\ page' = page \/ p \in Resident'
            /\ \A q \in Pages : Room(q)' => Room(q)
        BY <1>1, <3>1, AccessTakesRoom
      <3>3. p \in Resident' \/ ~Room(p) \/ p \in sweep'.failed
        BY <1>5, <2>2, <3>2
      <3>4. QED
        BY <3>2, <3>3
    <2>3. QED
      BY <2>1, <2>2
  <1>9. /\ (PlanIsTight /\ DisplacedByHotter)'
        /\ Kept' = Kept /\ Evicted' = Evicted
    BY <1>1, <1>5, <1>6, <1>8, PlanStays DEF Goes
  <1>10. Underway'
    <2>1. p \in Kept /\ p \notin Evicted
      BY <1>2, <1>7
    <2>2. Range(t) \subseteq Kept /\ Evicted \cap Resident' = {}
      BY <1>2, <1>7, <1>8, <2>1
    <2>3. ASSUME NEW q \in Kept \ Resident'
          PROVE  q \in Range(t) \/ ~Room(q)' \/ q \in sweep'.failed
      <3>1. q \in Kept \ Resident /\ q \in Pages /\ sweep.failed \subseteq sweep'.failed
        BY <1>5, <1>7, <1>8, <2>3, KnownIsFinite DEF Goes
      <3>2. QED
        BY <1>2, <1>7, <1>8, <2>3, <3>1
    <2>4. QED
      BY <1>6, <1>7, <1>8, <1>9, <2>2, <2>3 DEF Underway
  <1>11. PlacementFollowsPlan'
    BY <1>6 DEF PlacementFollowsPlan
  <1>12. QED
    BY <1>6, <1>9, <1>10, <1>11 DEF SweepInv

-----------------------------------------------------------------------------
LEMMA InitSweep == Init => SweepInv
  <1> SUFFICES ASSUME Init PROVE SweepInv
    OBVIOUS
  <1>1. Types
    BY DEF Init, Types, PageType, Tiers, Heights
  <1>2. sweep = Rest
    BY DEF Init
  <1>3. SweepTypes /\ sweep.phase = "rest"
    <2> DEFINE none   == << >>
               nobody == {}
    <2>1. none \in Seq(Pages) /\ nobody \in SUBSET Pages
      OBVIOUS
    <2>2. sweep = [phase |-> "rest", keep |-> none, evict |-> none, todo |-> none,
                   was |-> nobody, failed |-> nobody]
      BY <1>2 DEF Rest
    <2> HIDE DEF none, nobody
    <2>3. QED
      BY <2>1, <2>2 DEF SweepTypes, SweepType, Phases
  <1>4. PlanIsTight /\ DisplacedByHotter /\ Underway /\ PlacementFollowsPlan
    BY <1>3 DEF Planned, PlanIsTight, DisplacedByHotter, Underway, PlacementFollowsPlan
  <1>5. QED
    BY <1>1, <1>3, <1>4 DEF SweepInv

LEMMA NextSweep == SweepInv /\ [Next]_vars => SweepInv'
  <1> SUFFICES ASSUME SweepInv, [Next]_vars PROVE SweepInv'
    OBVIOUS
  <1>1. Types'
    BY TypesStep DEF SweepInv
  <1>2. ASSUME sweep' = Rest
        PROVE  SweepInv'
    <2>1. sweep' = [Rest EXCEPT !.phase = "rest"]
      BY <1>2 DEF Rest
    <2>2. QED
      BY <1>1, <2>1, CallStep
  <1>3. ASSUME NEW p \in Pages, Allocate(p) \/ Deallocate(p) \/ Access(p) \/ Prefetch(p) \/ Demote(p)
        PROVE  SweepInv'
    BY <1>2, <1>3 DEF Allocate, Deallocate, Access, Prefetch, Demote
  <1>4. ASSUME NEW p \in Pages, NEW b \in BOOLEAN, SetPinned(p, b)
        PROVE  SweepInv'
    BY <1>2, <1>4 DEF SetPinned
  <1>5. CASE SweepDecay
    BY <1>1, <1>5, CallStep DEF SweepDecay
  <1>6. CASE SweepPlan
    BY <1>1, <1>6, PlanStepHolds
  <1>7. CASE SweepEvict
    BY <1>1, <1>7, EvictStep
  <1>8. CASE SweepTurn
    BY <1>1, <1>8, TurnStep
  <1>9. CASE SweepPromote
    BY <1>1, <1>9, PromoteStep
  <1>10. CASE SweepReturn
    BY <1>1, <1>10, ReturnStep
  <1>11. CASE UNCHANGED vars
    <2>1. /\ Known' = Known /\ Resident' = Resident /\ Kept' = Kept /\ Evicted' = Evicted
          /\ Total(Kept)' = Total(Kept) /\ Planned' = Planned /\ Cap' = Cap
          /\ \A p \in Pages : Room(p)' = Room(p)
      BY <1>11 DEF vars, blockVars, Known, Resident, Kept, Evicted, Total, Planned, Cap, Room, InUse
    <2>2. rates' = rates /\ hits' = hits /\ page' = page /\ cache' = cache /\ sweep' = sweep
      BY <1>11 DEF vars, blockVars
    <2>3. PlanIsTight' /\ DisplacedByHotter'
      BY <2>1, <2>2 DEF SweepInv, PlanIsTight, DisplacedByHotter
    <2>4. (SweepTypes /\ Underway)'
      BY <2>1, <2>2, SweepIs, ListedPages DEF SweepInv, SweepTypes, Underway, Kept
    <2>5. PlacementFollowsPlan'
      BY <2>1, <2>2, SweepIs, ListedPages DEF SweepInv, SweepTypes, PlacementFollowsPlan, Kept
    <2>6. QED
      BY <1>1, <2>3, <2>4, <2>5 DEF SweepInv
  <1>12. QED
    BY <1>3, <1>4, <1>5, <1>6, <1>7, <1>8, <1>9, <1>10, <1>11 DEF Next, Sweep

(* The inductive invariant, whatever callers do between the sweeps. *)
THEOREM SweepInductive == Spec => []SweepInv
  BY InitSweep, NextSweep, PTL DEF Spec

-----------------------------------------------------------------------------
(* What a plan keeps fits under the high-water mark, or all of it is       *)
(* pinned, for any pages, sizes and budget (src/src/membrane.rs:207-219).  *)
THEOREM PlanAlwaysStaysUnderTheMark == Spec => []PlanStaysUnderTheMark
  <1>1. SweepInv => PlanStaysUnderTheMark
    BY DEF SweepInv, PlanIsTight, PlanStaysUnderTheMark
  <1>2. QED
    BY <1>1, SweepInductive, PTL

(* A resident page yields to one of its size only if that is 1.5 times as  *)
(* hot, or pinned (src/src/membrane.rs:38-45, 90-117).                     *)
THEOREM AlwaysDisplacedByHotter == Spec => []DisplacedByHotter
  BY SweepInductive, PTL DEF SweepInv

(* After a sweep that no error ended nothing evicted is in VRAM, and what  *)
(* was to be kept and is missing has no block to go to, because promoting  *)
(* one page never makes room for another, or had one and met an error of   *)
(* its own (src/src/tiered.rs:881-885, 921-934).                           *)
THEOREM PlacementAlwaysFollowsPlan == Spec => []PlacementFollowsPlan
  BY SweepInductive, PTL DEF SweepInv
=============================================================================
