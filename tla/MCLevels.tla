------------------------------ MODULE MCLevels ------------------------------
(* Small instances of Levels for TLC. *)
EXTENDS Levels

FullRange == {<<NoKey, PastKeys>>}
SomeRanges == FullRange \cup {<<2, 2>>}

Base == [buffer |-> 0, fileSize |-> 1, writes |-> 4, deletes |-> TRUE,
         snapshots |-> 1, seeks |-> FALSE, manual |-> "never"]

(* One-entry files; files with a range of keys, from compactions or from   *)
(* memtables; seek compactions; manual compactions, alone or not.          *)
Settings ==
  {Base,
   [Base EXCEPT !.fileSize = 2],
   [Base EXCEPT !.fileSize = 2, !.buffer = 1, !.writes = 5],
   [Base EXCEPT !.fileSize = 2, !.buffer = 1, !.writes = 11, !.deletes = FALSE, !.snapshots = 0],
   [Base EXCEPT !.seeks = TRUE],
   [Base EXCEPT !.snapshots = 0, !.manual = "alone"],
   [Base EXCEPT !.writes = 3, !.deletes = FALSE, !.snapshots = 0, !.manual = "any"]}

(* Puts, with calls of CompactRange meanwhile.                             *)
Busy == {[Base EXCEPT !.fileSize = 3, !.writes = 6, !.deletes = FALSE,
                      !.snapshots = 0, !.manual = "any"]}

(* Compactions do their work: what one deletes, or seeks have chosen, is   *)
(* in the current version, and when TEST_CompactRange is done with a level *)
(* nothing of the range is left there or above, if nobody writes.          *)
CompactionsComplete == TypeOK /\ InputsAreLive /\ RangeCompacted
=============================================================================
