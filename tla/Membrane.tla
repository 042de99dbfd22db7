------------------------------ MODULE Membrane ------------------------------
(***************************************************************************)
(* The placement policy of src/src/membrane.rs and the sweep that applies  *)
(* it, membrane_sweep of src/src/tiered.rs, on a pool with one GPU.        *)
(*                                                                         *)
(* A rate is a whole number of eighths, rounded down by each decay, so a   *)
(* hit is worth 2 when its window closes; a unit of size is 2.5 MiB, which *)
(* TierPolicy's beta charges with one eighth.  Scores are doubled, so that *)
(* the factor 1.5 of an incumbent is 3 against 2.                          *)
(*                                                                         *)
(* Of the pool only what the sweep reads or moves is here: where each page *)
(* is, the device blocks, which go to a cache by exact size and never back *)
(* to the driver, and the prefetches that access claims.  A promotion or a *)
(* demotion may fail at any of its calls, whenever it likes: a full ring,  *)
(* no DRAM to stage a cold page in, a read, a copy or a wait refused.      *)
(* Callers claim a prefetch before they drop its page.  A sweep is one     *)
(* call of the pool, a page per step.                                      *)
(***************************************************************************)
EXTENDS Integers, FiniteSets, FiniteSetsExt, SequencesExt

CONSTANTS
  Pages,        \* numbers, in the order of the pages' names
  Size,         \* the size of each
  Budget,       \* vram_budget
  VramCap,      \* what the driver has for blocks
  Cold,         \* the pages that are allocated in the spill file
  Pinnable,     \* the pages callers may pin
  MaxHits       \* bound: accesses of a page that one window counts

ASSUME PagesAssumption == Pages \subseteq Nat /\ IsFiniteSet(Pages)
ASSUME SizeAssumption == Size \in [Pages -> Nat \ {0}]
ASSUME BudgetAssumption == Budget \in Nat /\ VramCap \in Nat
ASSUME ColdAssumption == Cold \subseteq Pages /\ Pinnable \subseteq Pages
ASSUME MaxHitsAssumption == MaxHits \in Nat

VARIABLES
  rates,        \* Membrane.rates, 0 for a page it does not know
  hits,         \* Membrane.hits of this window
  page,         \* the pool's table: tier and pinned of each page
  cache,        \* vram_free: how many blocks of each size
  inflight,     \* the pages with an unclaimed prefetch, each holding a block
  lost,         \* the size of the blocks that errors have dropped
  sweep         \* the plan: phase, keep and evict in rank order, the pages
                \* still to do; was, the pages resident when it was made, and
                \* failed, those whose promotion failed though it had a block

blockVars == <<cache, inflight, lost>>
vars == <<rates, hits, page, blockVars, sweep>>

Tiers == {"None", "Vram", "Dram", "Ssd"}     \* None: not in the table
Rest == [phase |-> "rest", keep |-> << >>, evict |-> << >>, todo |-> << >>,
         was |-> {}, failed |-> {}]

Known == {p \in Pages : page[p].tier # "None"}
Resident == {p \in Pages : page[p].tier = "Vram"}
Total(S) == SumFunctionOnSet(Size, S)

-----------------------------------------------------------------------------
(* TierPolicy::score, doubled, of an unpinned page.  Mutant: no bonus for  *)
(* the incumbent.                                                          *)
ScoreLevel(p) == 2 * rates[p] - 2 * Size[p]

Score(p) == (IF p \in Resident THEN 3 ELSE 2) * rates[p] - 2 * Size[p]

(* Pinned pages score infinity; ties go by name. *)
Before(p, q) ==
  \/ page[p].pinned /\ ~page[q].pinned
  \/ /\ page[p].pinned = page[q].pinned
     /\ page[p].pinned \/ Score(p) = Score(q)
     /\ p < q
  \/ ~page[p].pinned /\ ~page[q].pinned /\ Score(p) > Score(q)

Ranked ==
  CHOOSE r \in SetToSeqs(Known) : \A i, j \in DOMAIN r : i < j => Before(r[i], r[j])

(* VRAM_HIGH_WATER *)
Cap == (85 * Budget) \div 100

(* Membrane::plan: down the ranking, a page is kept if it still fits.      *)
(* Mutant: pinned pages are not counted.                                   *)
PlanStepPinsFree(plan, p) ==
  IF page[p].pinned \/ plan.used + Size[p] <= Cap
  THEN [plan EXCEPT !.used = @ + (IF page[p].pinned THEN 0 ELSE Size[p]),
                    !.keep = Append(@, p)]
  ELSE [plan EXCEPT !.evict = Append(@, p)]

PlanStep(plan, p) ==
  IF page[p].pinned \/ plan.used + Size[p] <= Cap
  THEN [plan EXCEPT !.used = @ + Size[p], !.keep = Append(@, p)]
  ELSE [plan EXCEPT !.evict = Append(@, p)]

Plan == FoldLeft(PlanStep, [used |-> 0, keep |-> << >>, evict |-> << >>], Ranked)

-----------------------------------------------------------------------------
(* Membrane::observe *)
Observed(p) == [hits EXCEPT ![p] = IF @ < MaxHits THEN @ + 1 ELSE @]

(* Membrane::decay.  Mutant: only the pages of this window decay. *)
DecayedTouched == [p \in Pages |-> IF hits[p] = 0 THEN rates[p]
                                   ELSE (3 * rates[p]) \div 4 + 2 * hits[p]]

Decayed == [p \in Pages |-> (3 * rates[p]) \div 4 + 2 * hits[p]]

(* alloc_vram_on_gpu: a cached block of exactly this size, or the driver.  *)
InUse ==
  Total(Resident) + Total(inflight) + lost + SumFunction([s \in DOMAIN cache |-> s * cache[s]])
Room(p) == cache[Size[p]] > 0 \/ InUse + Size[p] <= VramCap

Taken(p) == [cache EXCEPT ![Size[p]] = IF @ > 0 THEN @ - 1 ELSE @]
Cached(p) == [cache EXCEPT ![Size[p]] = @ + 1]

(* A promotion of p takes a block and is done, or fails: out of DRAM the   *)
(* block is dropped with the error, out of the file it goes to the cache.  *)
Promoted(p) ==
  /\ page' = [page EXCEPT ![p].tier = "Vram"]
  /\ cache' = Taken(p)
  /\ UNCHANGED <<inflight, lost>>

Dropped(p) ==
  /\ page[p].tier = "Dram"
  /\ cache' = Taken(p)
  /\ lost' = lost + Size[p]
  /\ UNCHANGED <<page, inflight>>

GivenBack(p) ==
  /\ cache' = IF cache[Size[p]] > 0 THEN cache ELSE Cached(p)
  /\ UNCHANGED <<page, inflight, lost>>

Promote(p) ==
  IF Room(p)
  THEN Promoted(p) \/ Dropped(p) \/ (page[p].tier = "Ssd" /\ GivenBack(p))
  ELSE UNCHANGED <<page, blockVars>>

(* claim_prefetch: the block is the page's, or dropped if the wait fails.  *)
Claim(p) ==
  /\ inflight' = inflight \ {p}
  /\ \/ page' = [page EXCEPT ![p].tier = "Vram"] /\ UNCHANGED lost
     \/ lost' = lost + Size[p] /\ UNCHANGED page
  /\ UNCHANGED cache

(* TieredPool::access on GPU 0: observed before it is known whether there  *)
(* is such a page.                                                         *)
Accessed(p) ==
  /\ hits' = Observed(p)
  /\ CASE p \in inflight -> Claim(p)
       [] p \in Known \ (Resident \cup inflight) -> Promote(p)
       [] OTHER -> UNCHANGED <<page, blockVars>>

(* TieredPool::demote.  A page from the file has no DRAM chunk to go to.   *)
Demoted(p) ==
  /\ p \notin Cold
  /\ page' = [page EXCEPT ![p].tier = "Dram"]
  /\ cache' = Cached(p)
  /\ UNCHANGED <<inflight, lost>>

-----------------------------------------------------------------------------
Init ==
  /\ rates = [p \in Pages |-> 0]
  /\ hits = [p \in Pages |-> 0]
  /\ page = [p \in Pages |-> [tier |-> "None", pinned |-> FALSE]]
  /\ cache = [s \in {Size[p] : p \in Pages} |-> 0]
  /\ inflight = {} /\ lost = 0
  /\ sweep = Rest

(* Calls come between sweeps. *)
Idle == sweep.phase \in {"rest", "done", "aborted"}

Allocate(p) ==
  /\ Idle /\ p \notin Known
  /\ page' = [page EXCEPT ![p].tier = IF p \in Cold THEN "Ssd" ELSE "Dram"]
  /\ sweep' = Rest
  /\ UNCHANGED <<rates, hits, blockVars>>

(* The page's history stays: nothing calls Membrane::forget. *)
Deallocate(p) ==
  /\ Idle /\ p \in Known \ inflight
  /\ page' = [page EXCEPT ![p] = [tier |-> "None", pinned |-> FALSE]]
  /\ cache' = IF p \in Resident THEN Cached(p) ELSE cache
  /\ sweep' = Rest
  /\ UNCHANGED <<rates, hits, inflight, lost>>

SetPinned(p, pinned) ==
  /\ Idle /\ p \in Known \cap Pinnable
  /\ page' = [page EXCEPT ![p].pinned = pinned]
  /\ sweep' = Rest
  /\ UNCHANGED <<rates, hits, blockVars>>

Access(p) ==
  /\ Idle
  /\ Accessed(p)
  /\ sweep' = Rest
  /\ UNCHANGED rates

(* Only warm pages are prefetched; a refused copy gives the block back, an *)
(* event that cannot be made or recorded drops it.                         *)
Prefetch(p) ==
  /\ Idle /\ p \notin inflight /\ page[p].tier = "Dram" /\ Room(p)
  /\ \/ /\ cache' = Taken(p) /\ inflight' = inflight \cup {p}
        /\ UNCHANGED <<page, lost>>
     \/ GivenBack(p)
     \/ Dropped(p)
  /\ sweep' = Rest
  /\ UNCHANGED <<rates, hits>>

Demote(p) ==
  /\ Idle /\ p \in Resident /\ ~page[p].pinned
  /\ Demoted(p) \/ UNCHANGED <<page, blockVars>>
  /\ sweep' = Rest
  /\ UNCHANGED <<rates, hits>>

-----------------------------------------------------------------------------
(* membrane_sweep: decay, and plan with the rates that gives. *)
SweepDecay ==
  /\ Idle
  /\ rates' = Decayed
  /\ hits' = [p \in Pages |-> 0]
  /\ sweep' = [Rest EXCEPT !.phase = "plan"]
  /\ UNCHANGED <<page, blockVars>>

SweepPlan ==
  /\ sweep.phase = "plan"
  /\ sweep' = [phase |-> "evict", keep |-> Plan.keep, evict |-> Plan.evict,
               todo |-> Plan.evict, was |-> Resident, failed |-> {}]
  /\ UNCHANGED <<rates, hits, page, blockVars>>

Rested == [sweep EXCEPT !.todo = Tail(@)]

(* The next page to evict goes down if it is up; if demote fails, the      *)
(* error ends the sweep.                                                   *)
SweepEvict ==
  /\ sweep.phase = "evict" /\ sweep.todo # << >>
  /\ LET p == Head(sweep.todo)
     IN  \/ p \in Resident /\ Demoted(p) /\ sweep' = Rested
         \/ /\ p \in Resident
            /\ sweep' = [sweep EXCEPT !.phase = "aborted"]
            /\ UNCHANGED <<page, blockVars>>
         \/ p \notin Resident /\ sweep' = Rested /\ UNCHANGED <<page, blockVars>>
  /\ UNCHANGED <<rates, hits>>

SweepTurn ==
  /\ sweep.phase = "evict" /\ sweep.todo = << >>
  /\ sweep' = [sweep EXCEPT !.phase = "promote", !.todo = sweep.keep]
  /\ UNCHANGED <<rates, hits, page, blockVars>>

(* Mutant: a promotion that fails ends the loop. *)
SweepPromoteStops ==
  /\ sweep.phase = "promote" /\ sweep.todo # << >>
  /\ LET p == Head(sweep.todo)
     IN  /\ IF p \in Resident THEN UNCHANGED <<hits, page, blockVars>> ELSE Accessed(p)
         /\ sweep' = IF page'[p].tier = "Vram" THEN Rested
                     ELSE [sweep EXCEPT !.todo = << >>, !.failed = @ \cup {p}]
  /\ UNCHANGED rates

(* The next page to keep goes up if it is down; an error is ignored.       *)
SweepPromote ==
  /\ sweep.phase = "promote" /\ sweep.todo # << >>
  /\ LET p == Head(sweep.todo)
     IN  \/ /\ p \in Resident
            /\ sweep' = Rested
            /\ UNCHANGED <<hits, page, blockVars>>
         \/ /\ p \notin Resident
            /\ Accessed(p)
            /\ sweep' = [Rested EXCEPT !.failed =
                           IF page' = page /\ (p \in inflight \/ Room(p))
                           THEN @ \cup {p} ELSE @]
  /\ UNCHANGED rates

SweepReturn ==
  /\ sweep.phase = "promote" /\ sweep.todo = << >>
  /\ sweep' = [sweep EXCEPT !.phase = "done"]
  /\ UNCHANGED <<rates, hits, page, blockVars>>

Sweep == SweepDecay \/ SweepPlan \/ SweepEvict \/ SweepTurn \/ SweepPromote \/ SweepReturn

Next ==
  \/ Sweep
  \/ \E p \in Pages : Allocate(p) \/ Deallocate(p) \/ Access(p) \/ Prefetch(p) \/ Demote(p)
  \/ \E p \in Pages, pinned \in BOOLEAN : SetPinned(p, pinned)

Spec == Init /\ [][Next]_vars

(* A sweep goes on once it is called, and is called again and again.       *)
LiveSpec == Spec /\ WF_vars(Sweep)

-----------------------------------------------------------------------------
Planned == sweep.phase \in {"evict", "promote", "done", "aborted"}
Kept == Range(sweep.keep)
Evicted == Range(sweep.evict)

(* What a plan keeps fits under the high-water mark, pinned pages counted, *)
(* unless callers have pinned more than that, and then nothing else is     *)
(* kept (src/src/membrane.rs:207-219).                                     *)
PlanStaysUnderTheMark ==
  Planned => Total(Kept) <= Cap \/ \A p \in Kept : page[p].pinned

(* The comment of plan has it "return the prefix that fits" of the ranking *)
(* (src/src/membrane.rs:184-185).  It does not: it goes on past a page     *)
(* that does not fit, and keeps colder ones that do.                       *)
PlanIsPrefix == [][SweepPlan => IsPrefix(sweep'.keep, Ranked)]_vars

(* A resident page yields to one of its size only if that is 1.5 times as  *)
(* hot or pinned, cold pages whose size outweighs their rate included      *)
(* (src/src/membrane.rs:38-45, 90-117).                                    *)
DisplacedByHotter ==
  Planned =>
    \A p \in Evicted \cap sweep.was, q \in Kept \ sweep.was :
      Size[p] = Size[q] /\ ~page[q].pinned => 2 * rates[q] >= 3 * rates[p]

(* After a sweep that no error ended, the pages in VRAM are those of the   *)
(* plan: nothing evicted is left there, and each page that was to be kept  *)
(* and is missing has no block to go to or had one and met an error of its *)
(* own, not another page's and not an eviction that came too late          *)
(* (src/src/tiered.rs:881-885, 921-934).                                   *)
PlacementFollowsPlan ==
  sweep.phase = "done" =>
    /\ Evicted \cap Resident = {}
    /\ \A p \in Kept \ Resident : ~Room(p) \/ p \in sweep.failed

(* Once callers are quiet every page cools down for good, resident or not  *)
(* (src/src/membrane.rs:147-152), and the sweeps, whose promotions count   *)
(* as accesses (src/src/tiered.rs:486-490), do not keep each other hot,    *)
(* except a page that sweep after sweep means to promote and cannot.       *)
Cooling ==
  <>[][Sweep]_vars =>
    \A p \in Pages :
      <>[](rates[p] = 0) \/ []<>(sweep.phase = "done" /\ p \in Kept \ Resident)
=============================================================================
