------------------------------- MODULE MCLayers -------------------------------
(***************************************************************************)
(* The parts of leveldb around DBImpl, each explored by itself: which      *)
(* names the component of a behaviour.  The lock file has its own          *)
(* variables; those of the others are laid on the slots s1, s2, ...        *)
(***************************************************************************)
EXTENDS EnvLock, Sequences, TLC

VARIABLES which, s1, s2, s3, s4, s5, s6, s7, s8, s9, s10, s11, s12, s13

From11 == <<s11, s12, s13>>
From8 == <<s8, s9, s10, From11>>
From6 == <<s6, s7, From8>>
From5 == <<s5, From6>>
From4 == <<s4, From5>>
slots == <<s1, s2, s3, From4>>
layersVars == <<which, slots, vars>>

(* Slots a component does not use.                                         *)
Rest11 == s11 = 0 /\ s12 = 0 /\ s13 = 0
Rest8 == s8 = 0 /\ s9 = 0 /\ s10 = 0 /\ Rest11
Rest6 == s6 = 0 /\ s7 = 0 /\ Rest8
Rest5 == s5 = 0 /\ Rest6
Rest4 == s4 = 0 /\ Rest5

-----------------------------------------------------------------------------
(* env_posix.cc, PosixWritableFile: two threads, a buffer of two bytes.    *)
Threads == {"t1", "t2"}
Others == {"o1"}
W == INSTANCE EnvWritable WITH
       Thread <- Threads, Other <- Others, BufSize <- 2, MaxUnits <- 4, MaxOpens <- 2,
       build <- s1, kind <- s2, wf <- s3, data <- s4, durable <- s5, names <- s6, dnames <- s7,
       pc <- s8, want <- s9, failed <- s10, synced <- s11, threw <- s12, opens <- s13

(* table_cache.cc, table.cc and cache.cc: two threads, two tables, a cache *)
(* of one entry, one descriptor to keep.                                   *)
Numbers == {1, 2}
Offsets == {1}
Handles == 1 .. 4
Settings ==
  {[build |-> "posix", mmaps |-> 1, blocks |-> 1], [build |-> "posix", mmaps |-> 0, blocks |-> 0],
   [build |-> "ufs", mmaps |-> 0, blocks |-> 1], [build |-> "ufs", mmaps |-> 1, blocks |-> 0]}
C == INSTANCE TableCache WITH
       Thread <- Threads, Number <- Numbers, Offset <- Offsets, Handle <- Handles, MaxFd <- 2,
       FdLimit <- 1, TableEntries <- 1, MaxIds <- 2, MinLength <- 1,
       Hash <- LAMBDA k : k, ReadSettings <- Settings,
       build <- s1, tc <- s2, bc <- s3, disk <- s4, fds <- s5, fd_limiter <- s6,
       mmap_limiter <- s7, maxMmaps <- s8, th <- s9, threw <- s10

(* env_posix.cc, LockFile: two processes, one with two threads.            *)
Processes == {"p1", "p2"}
Clients == {"a1", "a2", "b1"}
Owner == [a1 |-> "p1", a2 |-> "p1", b1 |-> "p2"]
(* No client takes part while another component runs.                      *)
Unused == [build |-> "posix", clients |-> {}, ops |-> {}, faults |-> FALSE]
SomeLocks ==
  {Unused} \union
  [build : {"posix", "ufs"}, clients : {Clients, {"a1", "b1"}},
   ops : {{"open"}, {"open", "destroy"}}, faults : BOOLEAN]

(* skiplist.h and memtable.cc: two user keys, three entries, one reader.   *)
Keys2 == {1, 2}
Readers == {"r1"}
Deletions == {2}
M == INSTANCE MemTable WITH
       UserKey <- Keys2, MaxSeq <- 3, kMaxHeight <- 2, Reader <- Readers, MaxReads <- 2,
       Deletion <- Deletions,
       next <- s1, max_height <- s2, last <- s3, w <- s4, r <- s5

(* db_iter.cc, merger.cc and two_level_iterator.cc: three user keys.       *)
Keys3 == {1, 2, 3}
D == INSTANCE DBIter WITH UserKey <- Keys3, MaxSeq <- 3, db <- s1, iter <- s2, op <- s3

(* block_builder.cc and block.cc: up to four of the keys of two letters.   *)
Letters2 == {1, 2}
Intervals == {1, 2, 3}
L == INSTANCE BlockFormat WITH
       Letter <- Letters2, MaxLen <- 2, MaxEntries <- 4, Interval <- Intervals,
       keys <- s1, interval <- s2, block <- s3, it <- s4, last <- s5

(* coding.cc, write_batch.cc and version_edit.cc: digits of base 4, so     *)
(* that a fixed32 has two of them and a varint64 up to three.              *)
WireKeys == {<<>>, <<1>>, <<5, 0>>}
WireNumbers == {0, 31}
F == INSTANCE WireFormat WITH
       B <- 4, Max32 <- 2, W32 <- 16, Max64 <- 3, W64 <- 32, kNumLevels <- 3,
       WireKey <- WireKeys, MaxUpdates <- 3, WireNumber <- WireNumbers,
       batch <- s1, ops <- s2, edit <- s3, calls <- s4

(* log_writer.cc and log_reader.cc: blocks of a header and three bytes,    *)
(* three records, one fault.                                               *)
Sizes == {0, 1, 2, 7}
Noises == {0, 2}
G == INSTANCE LogFormat WITH
       kBlockSize <- 6, RecordSize <- Sizes, MaxRecords <- 3, MaxFaults <- 1, Noise <- Noises,
       log <- s1, block_offset <- s2, tried <- s3, past <- s4, reader <- s5, got <- s6, noise <- s7

(* table_builder.cc, filter_block.cc, comparator.cc and table.cc: blocks   *)
(* of two entries, the letter 3 for the byte 0xff.                         *)
Letters13 == {1, 3}
Seqs == {1, 2}
T == INSTANCE TableFormat WITH
       Letters <- Letters13, TopLetter <- 3, MaxKeyLen <- 2, Sequences_ <- Seqs, MaxSequence <- 9,
       MaxKeys <- 4, BlockSize <- 2, TrailerSize <- 1, FilterBase <- 2,
       r <- s1, table <- s2, filtered <- s3, added <- s4

(* repair.cc: two directories of logs and tables, the second with a        *)
(* damaged log and numbers out of order; one failing call, one rerun.      *)
Ent(k, s) == [k |-> k, s |-> s]
Rec(ents) == [size |-> 12, ents |-> ents, crc |-> TRUE]
Short == [size |-> 3, ents |-> {}, crc |-> TRUE]
Bad(ents) == [size |-> 12, ents |-> ents, crc |-> FALSE]
Tab(ents, bad) == [ext |-> "ldb", ents |-> ents, bad |-> bad, whole |-> TRUE, synced |-> TRUE]
Dir1 ==
  [logs |-> (7 :> <<Rec({Ent("a", 5)}), Short, Rec({Ent("b", 6)})>>) @@ (9 :> <<Rec({Ent("a", 8)})>>),
   tabs |-> (3 :> Tab({Ent("a", 1), Ent("b", 2)}, {Ent("b", 2)}))
            @@ (5 :> Tab({Ent("b", 3), Ent("c", 4)}, {}))]
Dir2 ==
  [logs |-> (2 :> <<>>) @@ (10 :> <<Rec({Ent("c", 8)}), Bad({Ent("b", 10)})>>),
   tabs |-> (8 :> Tab({Ent("a", 9)}, {})) @@ (4 :> Tab({Ent("c", 1)}, {Ent("c", 1)}))
            @@ (6 :> [Tab({Ent("a", 2), Ent("b", 7)}, {Ent("a", 2)}) EXCEPT !.ext = "sst"])]
Dirs == {Dir1, Dir2}
Listings == {"sorted", "any"}
R == INSTANCE Repair WITH
       Directories <- Dirs, MaxRerun <- 1, MaxFaults <- 1,
       disk <- s1, rep <- s2, env <- s3

(* memenv.cc: two names, two handles, blocks of two bytes.                 *)
FNames == {"f", "g"}
Files2 == {"h1", "h2"}
Appendables == {"existing", "missing"}
E == INSTANCE MemEnv WITH
       FName <- FNames, Handle <- Files2, MaxState <- 2, BlockSize <- 2, MaxLen <- 3,
       Appendable <- Appendables,
       fmap <- s1, state <- s2, handle <- s3, mode <- s4, got <- s5

-----------------------------------------------------------------------------
LayersInit ==
  \/ which = "lock" /\ Init /\ s1 = 0 /\ s2 = 0 /\ s3 = 0 /\ Rest4
  \/ /\ Init /\ cfg = Unused
     /\ \/ which = "writable" /\ W!Init
        \/ which = "tables" /\ C!Init /\ Rest11
        \/ which = "memtable" /\ M!Init /\ Rest6
        \/ which = "iter" /\ D!Init /\ Rest4
        \/ which = "block" /\ L!Init /\ Rest6
        \/ which = "wire" /\ F!Init /\ Rest5
        \/ which = "log" /\ G!Init /\ Rest8
        \/ which = "format" /\ T!Init /\ Rest5
        \/ which = "repair" /\ R!Init /\ Rest4
        \/ which = "memenv" /\ E!Init /\ Rest6

LayersNext ==
  /\ UNCHANGED which
  /\ \/ which = "lock" /\ Next /\ UNCHANGED slots
     \/ /\ UNCHANGED vars
        /\ \/ which = "writable" /\ W!Next
           \/ which = "tables" /\ C!Next /\ UNCHANGED From11
           \/ which = "memtable" /\ M!Next /\ UNCHANGED From6
           \/ which = "iter" /\ D!Next /\ UNCHANGED From4
           \/ which = "block" /\ L!Next /\ UNCHANGED From6
           \/ which = "wire" /\ F!Next /\ UNCHANGED From5
           \/ which = "log" /\ G!Next /\ UNCHANGED From8
           \/ which = "format" /\ T!Next /\ UNCHANGED From5
           \/ which = "repair" /\ R!Next /\ UNCHANGED From4
           \/ which = "memenv" /\ E!Next /\ UNCHANGED From6

LayersSpec == LayersInit /\ [][LayersNext]_layersVars

-----------------------------------------------------------------------------
(* A file holds what was written to it.  env_posix.cc: no thread leaves    *)
(* bytes in its own buffer of a file another takes over (:922), file and   *)
(* buffer hold the appends in order as long as no call failed, Sync covers *)
(* all of them and the MANIFEST's name, and the destroying thread has a    *)
(* buffer.  memenv.cc: a file lives as long as a name or a handle refers   *)
(* to it, nobody uses one that is gone, and a read returns what was        *)
(* appended at that place.                                                 *)
FilesHoldAppends ==
  /\ which = "writable" =>
       /\ W!TypeOK /\ W!NoStrandedBytes /\ W!FileIsAppends /\ W!SyncCovers
       /\ W!DestructorFindsBuffer
  /\ which = "memenv" =>
       E!TypeOK /\ E!RefsExact /\ E!NoUseAfterFree /\ E!ReadsWhatWasWritten

(* Readers that share the caches (cache.cc, table_cache.cc, env_posix.cc): *)
(* references, lists, chains and charges of both caches are exact, no      *)
(* descriptor is leaked or closed twice, the Limiters give back what they  *)
(* lend, and a thread reads the table and the block it asked for.          *)
ReadersShareTables ==
  which = "tables" =>
    /\ C!TypeOK /\ C!CachesConsistent /\ C!DescriptorsOwned /\ C!LimitersExact
    /\ C!RightTable

(* Readers of the memtable beside its writer (skiplist.h:337, memtable.cc) *)
(* load no link that was not stored, every level stays sorted and part of  *)
(* the one below, a Get finds the newest entry not newer than its          *)
(* snapshot, and an iterator misses no entry that was there when it moved. *)
ReadersBesideWriter ==
  which = "memtable" =>
    /\ M!TypeOK /\ M!NoUninitialised /\ M!LevelsSorted /\ M!GetFindsSnapshot
    /\ M!IteratorSkipsNothing

(* What was written is read back.  A batch update by update, an edit field *)
(* by field, a cut one refused or a prefix (write_batch.cc,                *)
(* version_edit.cc); of a log that was cut, the records it holds whole,    *)
(* of a damaged one, the records of other blocks and never one nobody      *)
(* wrote, with a report of what was lost (log_writer.cc, log_reader.cc);   *)
(* a table's keys through index and filter, each index key between its     *)
(* block and the next, offsets growing with the keys (table_builder.cc,    *)
(* filter_block.cc, table.cc).                                             *)
FormatsReadBack ==
  /\ which = "wire" => F!TypeOK /\ F!BatchReadBack /\ F!EditReadBack
  /\ which = "log" =>
       /\ G!TypeOK /\ G!CutIsPrefix /\ G!NothingMadeUp /\ G!DamageIsLocal /\ G!LossIsReported
       /\ G!OffsetIsExact
  /\ which = "format" => T!TypeOK /\ T!Separated /\ T!EveryKeyFound /\ T!OffsetsMonotone

(* Whichever call on the Env fails and wherever a repair (repair.cc)       *)
(* stops, every entry intact before it is in the directory or in lost/,    *)
(* but for what an unsynced copy held when the machine stopped.  A repair  *)
(* that succeeds leaves readable tables and hands out new sequence and     *)
(* file numbers; if no call failed its tables have every intact entry, and *)
(* level 0 is such that reads find the newest ones if logs were listed in  *)
(* order and it is the first repair.                                       *)
RepairKeepsEntries ==
  which = "repair" =>
    /\ R!TypeOK /\ R!NothingVanishes /\ R!RepairIsComplete /\ R!NumbersAreNew
    /\ R!ReadsNewest

(* Every call on DBIter moves it as it would a cursor over the snapshot's  *)
(* sorted keys, with the snapshot's values and the internal iterator where *)
(* its direction says (db_iter.cc); every call on a block's iterator finds *)
(* what it would in the list of keys added, restart_index_ being the last  *)
(* restart point at or before the entry (block.cc).                        *)
IteratorsAreCursors ==
  /\ [](which = "iter" => D!TypeOK /\ D!ValueOfKey /\ D!DirectionInvariant)
  /\ [](which = "block" => L!TypeOK /\ L!RestartIndexRight)
  /\ [][/\ which = "iter" => D!CursorStep
        /\ which = "block" => L!BlockStep]_layersVars
=============================================================================
