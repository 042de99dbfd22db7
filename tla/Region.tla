------------------------------- MODULE Region -------------------------------
(***************************************************************************)
(* What any of the tiers' range allocators promises its callers, whatever  *)
(* data structure it keeps: a region [0, Capacity) from which ranges are   *)
(* handed out and to which they are given back.                            *)
(*                                                                         *)
(* A granted range is inside the region and overlaps no range still held.  *)
(* A request is refused only when no hole of its length is left anywhere   *)
(* in the region.  Giving back a range that is not held changes nothing.   *)
(*                                                                         *)
(* The module is the abstract specification that RangeAllocator            *)
(* (src/src/range_alloc.rs) is shown to implement.                         *)
(***************************************************************************)
EXTENDS Integers

CONSTANTS
  Capacity,     \* bytes in the region
  Lengths       \* the lengths, already rounded up, that are asked for

VARIABLES
  held,         \* the ranges [off, len] granted and not given back yet
  outcome       \* how the last call ended

vars == <<held, outcome>>

Range == [off : Nat, len : Nat \ {0}]

(* Two ranges share no byte. *)
Apart(r, s) == r.off + r.len <= s.off \/ s.off + s.len <= r.off

(* [lo, lo + n) lies in the region and no held range reaches into it. *)
Hole(lo, n) ==
  /\ lo + n <= Capacity
  /\ \A r \in held : Apart(r, [off |-> lo, len |-> n])

Init ==
  /\ held = {}
  /\ outcome = "idle"

Grant(n) ==
  /\ n > 0
  /\ \E lo \in 0 .. Capacity :
       /\ Hole(lo, n)
       /\ held' = held \cup {[off |-> lo, len |-> n]}
  /\ outcome' = "ok"

(* A request for no bytes is granted without holding anything. *)
GrantNothing(n) ==
  /\ n = 0
  /\ outcome' = "ok"
  /\ UNCHANGED held

Refuse(n) ==
  /\ \A lo \in 0 .. Capacity : ~Hole(lo, n)
  /\ outcome' = "oom"
  /\ UNCHANGED held

GiveBack(r) ==
  /\ held' = held \ {r}
  /\ outcome' = "idle"

Ignore ==
  /\ outcome' = "idle"
  /\ UNCHANGED held

Next ==
  \/ \E n \in Lengths : Grant(n) \/ GrantNothing(n) \/ Refuse(n)
  \/ \E r \in held : GiveBack(r)
  \/ Ignore

Spec == Init /\ [][Next]_vars
=============================================================================
