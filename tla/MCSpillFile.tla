---------------------------- MODULE MCSpillFile ----------------------------
(* Five lines of two bytes and an odd byte: sizes that are and are not     *)
(* multiples of the line, a request for nothing, one for most of the file. *)
(*                                                                         *)
(* States are compared without the bytes that no property of the run reads: *)
(* those of no page, and of pages not written or torn.                     *)
EXTENDS SpillFile

MCRequests == {0, 1, 4, 7}

MCRead ==
  [x \in DOMAIN file |->
     IF \E p \in pages : p.val \in Contents /\ p.off <= x /\ x < p.off + p.bytes
     THEN file[x] ELSE Zero]

MCView == <<offset, free_blocks, held, outcome, pages, writing, MCRead>>
=============================================================================
