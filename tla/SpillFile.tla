----------------------------- MODULE SpillFile -----------------------------
(***************************************************************************)
(* The cold tier of src/src/spill.rs: a file whose bytes are handed out by *)
(* a RangeAllocator.  Every call of the allocator is one of RangeAllocator *)
(* 's actions; this module adds what is in the file and what the callers   *)
(* believe is in it.                                                       *)
(*                                                                         *)
(* write_at_new_offset reserves, writes, and gives the range back if the   *)
(* write fails.  It is one call in two steps, with `writing` the call in   *)
(* between; nothing else happens meanwhile, the file is borrowed mutably.  *)
(* A write that fails may have put any prefix of its bytes in the file.    *)
(***************************************************************************)
EXTENDS RangeAllocator

CONSTANTS
  Contents,     \* what callers write, one value for a whole page
  Careless      \* attach_spill is called again while pages are in the file

ASSUME ContentsAssumption == Contents \subseteq Nat \ {0}
ASSUME CarelessAssumption == Careless \in BOOLEAN

VARIABLES
  file,         \* the byte at each offset; set_len fills the file with zeros
  pages,        \* what callers keep: [off, bytes, val] of each page
  writing       \* the write_at_new_offset in progress, or Nothing

fileVars == <<file, pages, writing>>
allVars == <<offset, free_blocks, held, outcome, file, pages, writing>>

Zero == 0
Torn == -1      \* a page that an overwrite failed half-way on
Nothing == [off |-> -1]

Page(off, bytes, val) == [off |-> off, bytes |-> bytes, val |-> val]

(* File::write_all_at of the first n bytes at off. *)
Written(off, n, val) ==
  [x \in DOMAIN file |-> IF off <= x /\ x < off + n THEN val ELSE file[x]]

(* SpillFile::create, on a path that had no file or an old one. *)
SpillInit ==
  /\ Init
  /\ file = [x \in 0 .. Capacity - 1 |-> Zero]
  /\ pages = {}
  /\ writing = Nothing

(* attach_spill, again: the file is truncated, its allocator starts anew. *)
Attach ==
  /\ writing = Nothing
  /\ Careless \/ pages = {}
  /\ file' = [x \in DOMAIN file |-> Zero]
  /\ offset' = 0
  /\ free_blocks' = {}
  /\ held' = {}
  /\ UNCHANGED <<outcome, pages, writing>>

(* The offset a successful allocation of these bytes returned. *)
Given(bytes) == {r.off : r \in held' \ held}

(* SpillFile::reserve: nothing is written. *)
Reserve(bytes) ==
  /\ writing = Nothing
  /\ Allocate(bytes)
  /\ pages' = pages \cup {Page(off, bytes, Zero) : off \in Given(bytes)}
  /\ UNCHANGED <<file, writing>>

-----------------------------------------------------------------------------
(* SpillFile::write_at_new_offset up to the write. *)
BeginWrite(bytes, val) ==
  /\ writing = Nothing
  /\ Allocate(bytes)
  /\ writing' = IF Given(bytes) = {} THEN Nothing
                ELSE [off |-> CHOOSE off \in Given(bytes) : TRUE,
                      bytes |-> bytes, val |-> val,
                      mark |-> offset, blocks |-> free_blocks]
  /\ UNCHANGED <<file, pages>>

EndWrite ==
  /\ writing # Nothing
  /\ file' = Written(writing.off, writing.bytes, writing.val)
  /\ pages' = pages \cup {Page(writing.off, writing.bytes, writing.val)}
  /\ writing' = Nothing
  /\ UNCHANGED <<offset, free_blocks, held, outcome>>

(* Mutant: the reservation is kept. *)
FailWriteStranding ==
  /\ writing # Nothing
  /\ \E n \in 0 .. writing.bytes - 1 : file' = Written(writing.off, n, writing.val)
  /\ writing' = Nothing
  /\ outcome' = "idle"
  /\ UNCHANGED <<offset, free_blocks, held, pages>>

(* The write fails after n bytes: the reservation is rolled back. *)
FailWrite ==
  /\ writing # Nothing
  /\ Free(Ranges(writing.off, Aligned(writing.bytes)))
  /\ \E n \in 0 .. writing.bytes - 1 : file' = Written(writing.off, n, writing.val)
  /\ writing' = Nothing
  /\ UNCHANGED pages

-----------------------------------------------------------------------------
(* Mutant: a page is written in whole lines, one too many. *)
WriteAtRounded(p, val) ==
  /\ writing = Nothing
  /\ file' = Written(p.off, Aligned(p.bytes) + ALIGN, val)
  /\ pages' = (pages \ {p}) \cup {Page(p.off, p.bytes, val)}
  /\ UNCHANGED <<offset, free_blocks, held, outcome, writing>>

(* SpillFile::write_at on a range its caller holds.  On an error the page  *)
(* is neither the old one nor the new one.                                 *)
WriteAt(p, val) ==
  /\ writing = Nothing
  /\ \E n \in 0 .. p.bytes :
       /\ file' = Written(p.off, n, val)
       /\ pages' = (pages \ {p}) \cup
            {Page(p.off, p.bytes, IF n = p.bytes THEN val ELSE Torn)}
  /\ UNCHANGED <<offset, free_blocks, held, outcome, writing>>

(* SpillFile::free of a page. *)
FreePage(p) ==
  /\ writing = Nothing
  /\ Free(Ranges(p.off, Aligned(p.bytes)))
  /\ pages' = pages \ {p}
  /\ UNCHANGED <<file, writing>>

(* SpillFile::free of a range that is not a page, as FreeAgain. *)
FreeStray(off, bytes) ==
  /\ writing = Nothing
  /\ FreeAgain(off, bytes)
  /\ UNCHANGED fileVars

SpillNext ==
  \/ Attach
  \/ \E bytes \in Requests : Reserve(bytes)
  \/ \E bytes \in Requests, val \in Contents : BeginWrite(bytes, val)
  \/ EndWrite
  \/ FailWrite
  \/ \E p \in pages, val \in Contents : WriteAt(p, val)
  \/ \E p \in pages : FreePage(p)
  \/ \E off \in 0 .. Capacity, bytes \in Requests : FreeStray(off, bytes)

SpillSpec == SpillInit /\ [][SpillNext]_allVars

-----------------------------------------------------------------------------
(* SpillFile::read_into of a whole page finds only this value. *)
ReadsAs(p, val) == \A x \in p.off .. p.off + p.bytes - 1 : file[x] = val

(* Every page reads back as what was last written to it, whatever was      *)
(* written, freed, reused or failed around it                              *)
(* (src/src/spill.rs:102-150).                                             *)
ReadsBackLastWrite == \A p \in pages : p.val \in Contents => ReadsAs(p, p.val)

(* The callers' pages and a write in progress are exactly the ranges the   *)
(* allocator has out: none is stranded, by a failed write either           *)
(* (src/src/spill.rs:131-135), and none is out twice.                      *)
NoneStranded ==
  held = {Ranges(p.off, Aligned(p.bytes)) :
            p \in pages \cup IF writing = Nothing THEN {} ELSE {writing}}

(* A write that fails leaves the allocator exactly as it was before the    *)
(* call, splits and mark included (src/src/spill.rs:131-135).              *)
FailedWriteLeavesNoTrace ==
  [][FailWrite => offset' = writing.mark /\ free_blocks' = writing.blocks]_allVars
=============================================================================
