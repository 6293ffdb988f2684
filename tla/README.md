# A TLA+ verification of uFS-bench

The repository holds the benchmark programs of the uFS file server: a leveldb
1.22 whose `Env` can run on uFS (macro `JL_LIBCFS`), filebench with a uFS
plug-in, and two small programs (`scalefs_bench`). The file server itself is
not part of it. The modules model how leveldb accepts writes, keeps them on
disk and finds them again after a crash, the layers beneath (files, caches,
formats, iterators, the lock), and how the processes and threads of filebench
start, share memory, files and events, count what they did, and end.

`tlc -config X.cfg MCModule` runs a check and `tlapm M.tla` checks the proofs
of a module. The passing runs take from one to four
minutes with two workers; the proofs take about half an hour from nothing
(the `DBWrite` and `Fileset` modules most of it).

## 1. The system and its modules

### leveldb

| part | source | modules |
|---|---|---|
| write path: writer queue, group commit, memtable switch, stalls, destructor | `db/db_impl.cc` | `DBWrite`; `AtomicWrites` is what `DB::Write` promises, and `Abstract` in `DBWrite` is the mapping under which the one implements the other |
| durability: logs, tables, MANIFEST, CURRENT, `DB::Open`, crashes | `db/db_impl.cc`, `version_set.cc`, `builder.cc`, `filename.cc` | `DBRecovery` |
| levels: placement of memtables, compaction picking, dropped entries, `Get` | `db/version_set.cc`, `db_impl.cc` | `Levels` |
| the user's iterator | `db/db_iter.cc`, `table/merger.cc`, `two_level_iterator.cc`, `db/version_set.cc` | `DBIter` |
| memtable and skip list | `db/skiplist.h`, `memtable.cc` | `MemTable` |
| log format | `db/log_writer.cc`, `log_reader.cc` | `LogFormat` |
| encodings of batches and edits | `util/coding.cc`, `db/write_batch.cc`, `version_edit.cc` | `WireFormat` |
| blocks | `table/block_builder.cc`, `block.cc` | `BlockFormat` |
| tables, index, filters | `table/table_builder.cc`, `filter_block.cc`, `table.cc`, `util/comparator.cc`, `db/dbformat.cc` | `TableFormat` |
| caches and open tables | `util/cache.cc`, `db/table_cache.cc`, `table/table.cc`, `format.cc`, `util/env_posix.cc` | `TableCache` |
| writable files of the posix and uFS Env | `util/env_posix.cc` | `EnvWritable` |
| LOCK | `util/env_posix.cc`, `db/db_impl.cc` | `EnvLock` |
| background thread | `util/env_posix.cc` | `EnvSchedule` |
| in-memory Env | `helpers/memenv/memenv.cc` | `MemEnv` |
| `RepairDB` | `db/repair.cc` | `Repair` |
| db_bench's threads | `db/db_bench.cc` | `BenchThreads` |

### filebench

| part | source | modules |
|---|---|---|
| filesets and the flowops on their entries | `fileset.c`, `flowop_library.c` | `Fileset`; `FilesetPopulate` for the tree of entries |
| file flowops of a thread | `flowop_library.c`, `fb_localfs.c` | `FileIO` |
| block, wakeup, semblock, sempost | `flowop_library.c` | `FlowopSync` |
| event generator, limiters, finishon flowops | `eventgen.c`, `flowop_library.c` | `RateLimit` |
| definition, execution and statistics of flowops | `flowop.c`, `stats.c` | `FlowopLists` |
| processes and threads of a run | `procflow.c`, `threadflow.c`, `misc.c`, `parser_gram.y` | `RunControl` |
| shared memory | `ipc.c` | `SharedMemory` |
| AVL trees | `fb_avl.c` | `AvlTree` |
| variables, custom and random variables | `vars.c`, `fb_cvar.c`, `cvars/`, `fb_random.c` | `Variables`, `CustomVars`, `RandomVars` |
| Mersenne twister, integer and empirical distributions | `cvars/mtwist/` | `Twister` |

### scalefs_bench

| part | source | modules |
|---|---|---|
| smallfile and largefile on several cores | `smallfile.cc`, `largefile.cc`, `libutil.h` | `ScalefsBench` |

`MCDBRecovery`, `MCLevels`, `MCFileset` and `MCRunControl` are instances of one
module; `DBWrite` is run as it is. `MCLayers`, `MCFilebench` and `MCProgress` hold the
instances of several components: `which` names the component of a behaviour,
and the variables of the others are laid on slots `s1`, `s2`, ... that rest.
The components of such a run do not interact; they are explored one beside the
other. The theorems are in `DBWriteTheorems` (with their lemmas in
`DBWriteProofs` and `DBWriteDataProofs`), `FilesetProofs`, `ThreadsProofs`
(`EnvLock`, `EnvSchedule` and `BenchThreads`) and `SharedMemoryProofs`.

### How the parts meet

`DBWrite`, `DBRecovery` and `Levels` describe the same `DBImpl` at three
grains. `DBWrite` has every critical section of a write and counts log records
and syncs; `DBRecovery` makes a write one step and details everything that
touches the disk. The link is `SyncedIfAsked` (an acknowledged sync write is in
a synced log), which `DBRecovery` takes as its atomic `Write`. `Levels` has
neither groups nor a disk, but keys: `LayersOrdered` of `DBWrite` (newer layers
hold newer updates) is what lets it treat a memtable as a set of entries.

Below them, each module details a step that the ones above take for granted:

- `LogFormat` and `WireFormat`: that a record comes back whole, or not at all
  with a report (`DBRecovery` has records that are whole, torn or absent);
- `EnvWritable`: that `Append` and `Sync` cover all bytes in order, although
  every thread has a buffer of its own in each file;
- `MemTable`: that a lock-free reader finds the entries up to its snapshot;
- `TableFormat`, `BlockFormat`, `TableCache`: that a table that was
  written is found, opened and read while others evict it;
- `DBIter`: that a merged, bidirectional walk shows the snapshot (`Levels` has
  `Get` only);
- `EnvSchedule`: that scheduled work runs (`bg` in `DBWrite`);
- `EnvLock`: that only one `DBImpl` is open on a directory.

In filebench, `RunControl` brings the threads to their start; `FlowopLists` is
the list each of them runs; `Fileset`, `FileIO`, `FlowopSync` and `RateLimit`
are the flowops on it; `SharedMemory` and `AvlTree` are what filesets and
flowops are made of. `Fileset` has several threads and abstracts an open file to its slot;
`FileIO` has one thread and details descriptors, positions and sizes.

## 2. State and actions

The header of each module says what its data abstract. The map in
`PROJECT.json` gives the lines each definition stands for.

**DBWrite.** A thread stands for its `Writer` on the stack. `pc[t]` says where
it is: `queued` (asleep on `w.cv`), `delayed` (the 1 ms sleep), `bgwait`
(asleep on `background_work_finished_signal_`), `logging`, `inserting`,
`failed`, and `flushing`/`flushwait` for `TEST_CompactMemTable`. `leader` holds
the locals of the front writer. Every action is one critical section of
`mutex_` or one step made without it: `Write`, `Wake`, `Resume` contain the
whole of `MakeRoomForWrite`; `AddRecord`, `AddRecordFails`, `SyncFails`,
`InsertInto`, `EndWrite` are the group's work; `BackgroundCall`, `TableBuilt`,
`InstallTable`, `CompactionYields`, `CompactionEnds`, `InstallCompaction` are
the background thread; `Close`, `CloseResumes` are `~DBImpl`. An update is a
pair of sequence number and call, a batch a number of updates. `alive = FALSE`
after an exception: in this version `RecordBackgroundError` throws.

**AtomicWrites.** A store of updates, calls in progress and acknowledged calls.
A set of calls commits at once under consecutive sequence numbers, contiguous
per batch; a call returns OK only after its batch is in, and an error only if
it never is. `DBWrite` implements it: the store is what is visible at
`LastSequence`.

**DBRecovery.** Disk: `logs`, `tables`, `manifests` (a sequence of the version
states that its edits build up), `current`, and how much of each file is
durable. Flush, compaction, trivial move and `LogAndApply` are split wherever
the mutex is released or the disk changes, so that a crash can come between.
`doomed` is the list `DeleteObsoleteFiles` works off. Recovery is `NewDB`,
`RecoverVersions`, `ReplayToTable` or `ReuseLog` per log, `NewLog`,
`OpenSaves`, `OpenSaved`/`OpenUnsaved`. A process crash keeps what the system
has; a machine crash keeps a prefix of each file that is at least its synced
part, possibly with a torn record at its end. Assumed of the file system:
creating, renaming and deleting are durable at once and in order (leveldb syncs
the directory only with a MANIFEST); contents are durable up to the last sync.

**Levels.** An entry is its sequence number; `hist` says which key was written
under it and whether it was a deletion, and is also the reference for reads. A
file has its number, entries and smallest and largest key. `CompactMemTable`
may place a memtable while `work`, a `Compaction`, is under way.
`AutoCompaction` and `ManualCompaction` choose the inputs (or move a file);
`InstallCompactionResults` computes the outputs from the version taken at the
start. `Get` and `RecordReadSample` charge seeks; what a read returns is
`GetValue`. Errors, shutdown and stalls are in `DBWrite`.

**DBIter.** `SeekToFirst`, `SeekToLast`, `Seek`, `Next` and `Prev` on records
that stand for `DBIter`, `MergingIterator`, `TwoLevelIterator` and
`LevelFileNumIterator`, with corrupted entries and unreadable blocks or files.

**MemTable.** `Insert` takes one step per store that a reader can see, `Get`
and an iterator one per load. Acquire and release order leave only
interleavings, as the header argues.

**LogFormat.** A file is a sequence of cells. `AddRecord` emits fragments and
trailers and advances `block_offset_` as `EmitPhysicalRecord` does, also when
the append fails. `ReadRecord` and `ReadPhysicalRecord` read from any initial
offset. Faults: a failed append, a failed trailer append (ignored by
the code), a cut, a reuse of the cut file, a damaged cell, a wiped block, an
unreadable file.

**WireFormat, BlockFormat, TableFormat.** Encoders and decoders as operators,
with the code's order of fields, its restart points, separators, filter
offsets and error returns; actions add entries and then read them back.

**TableCache.** The cache is a value with its entries, hash chains,
lists and charges, and one operator per method, each under the shard's mutex.
Threads of `TableCache` interleave between them: `FindTable`, opening the file
(with the `Limiter`s and the uFS or mmap variants), reading a block through the
block cache, `Evict`, and dropping their handles.

**EnvWritable.** Per thread a buffer; `Append` with its three paths, `Flush`,
`Sync`, `SyncDirIfManifest`, `Close` and the destructor, with short and failing
writes and syncs. The clients are the log writer, handed from thread to
thread, the table builder and `WriteStringToFile`. **EnvLock**: `LockFile` in
its four steps (table insertion, open, `fcntl`, the error exits), `UnlockFile`
in its three, `DestroyDB`; POSIX record locks are external. **EnvSchedule**:
`Schedule` (which signals before it pushes) and `BackgroundThreadMain`.
**MemEnv**: the Env's map, reference counts, and handles that outlive names.

**Repair.** `FindFiles`, `ConvertLogToTable`, `ScanTable`, `CopyTable` to
`RenameCopy` (`RepairTable`), `WriteTemp` to `SetCurrentFile`
(`WriteDescriptor`). Each is split where the directory changes, and any call on
the Env may fail there (`Call`), as may the process. `Rerun` is a second repair
of what is left: after a return, a crash of the process, or one of the machine,
which may tear a table that was never synced. A log is a sequence of records
that may be too short or damaged; the reader is told not to check them.

**BenchThreads.** `RunBenchmark` and `ThreadBody` with the one condition
variable for both directions, and `Stats::Merge`.

**Fileset.** `place` is the tree an entry is in, `busy` the entries with
`FSE_BUSY`, `idle` the three idle counts. The creating thread runs
`CreatePicks`, then `CreateSkips`, `CreateAllocates` or `CreateForks`,
`CreateLeafdir` and `CreateEnds`; allocation threads run `AllocThread` and
`AllocThreadExits`. A worker's flowop is `Start` (up to the first release of
`fs_pick_lock`, with `Pick` or `Grab`), `Retry` (back from a condition wait),
`FsCall` (without the lock) and `Release` (`fileset_unbusy`). `CloseDeleted` is
closefile on a slot whose entry deletefile has forgotten, which dereferences
NULL.

**FilesetPopulate.** The recursion of `fileset_populate_subdir` with its call
stack: `Populate`, `PopulateLeaf` (a file or leaf directory), `Descend`,
`NextLoop` and `Return`, with random depths and widths and with shared memory
that runs out. `OptimalMasterCount` and `WorkerOf` are the placement of
filesets and threads on uFS workers.

**FileIO.** One thread with its `tf_fd` and `tf_fse`, the buffers of its
flowops, its list of asynchronous writes, and the sizes and positions of the
files. One action per flowop, chosen from a menu; the setting has the
varying-size build, thread memory, failing opens and transfers, missing files.

**FlowopLists.** The parser's definitions, `flowop_create_runtime_flowops`,
composites, execution `fo_iters` times, `flowop_delete_all`, and `stats_snap`/`stats_clear` of
the master while threads run. **FlowopSync**: semaphores with a value and
waiters, `pthread_cond_wait` with wake-ups, and the shutdown when semaphores run
out or no target has the name. **RateLimit**: the generator's tick, the capped
queue, each limiter's wait and payment, and `stats_clear`. The count that
limiters look at is one that their own `flowop_endop` raises too (`EndLimit`):
`FLOW_TYPE_OTHER` has the bit of `FLOW_TYPE_IO`.

**RunControl.** `run`, `shm` (flags, counts, the run lock and the procflow
mutex), `pf`, `th`, `job`. Actions of the main thread (`parser_run`), the
creator thread, each worker process and each worker thread, from fork to exit,
with `filebench_shutdown` in any of them, `SIGCHLD`-free reaping by the
creator, and kills. Faults: a fork that fails, a worker without memory for its
threads (`ThreadflowInitFails` keeps `shm_threadflow_lock`), a thread without
memory for its flowops, a flowop that shuts down, a crash, an interrupt.

**SharedMemory.** `ipc_malloc` with its bitmap scan and `ipc_free`, on a pool of
objects whose size `preallocated_entries` knows, or of attribute descriptors,
for which it takes that of a pointer (`avd_t`), and so counts more slots than
the array has objects;
`ipc_stralloc`, `ipc_pathalloc`, `ipc_cvar_heapalloc`, `ipc_ismcreate`,
`ipc_ismattach`, `ipc_ismmalloc`, `ipc_ismdelete`. **AvlTree**: `avl_insert`,
`avl_remove` with their rotations on nodes with parent and balance, and the
walks. **Variables, CustomVars, RandomVars**: what a script sets, and what a
flowop that reads the attribute gets; a probability of one, which the source
`urandom` can yield, indexes behind the table (`DrawBehind`). **Twister**: the generator's state is
shared, the factors that make doubles of its words belong to each process. The
recurrence works in place and backwards as `mts_refresh` does, `MtsLrand` and
`MtsLlrand` draw (the vector may run out between the two words of the latter),
`MtsSeed32` to `MtsBestSeed` seed, `SaveState` and `LoadState` go through a
file that may be cut short, `Revalidate` is a process that did not seed.

**ScalefsBench.** `--prep` makes the directories (`MakeDir`, `PrepSync`); each
core's process takes its keys and reports to the coordinator (`BecomesReady`),
starts with the others, and goes through the phases of `run_benchmark` or
writes its large file block by block. A call may fail, which ends the process
and may leave a file.

## 3. The runs

| run | module, cfg | expects |
|---|---|---|
| `write_path` | `DBWrite`, `DBWrite.cfg` | pass |
| `delete_during_compaction` | `DBWrite`, `DBWriteDelete.cfg` | violation |
| `recovery` | `MCDBRecovery`, `DBRecovery.cfg` | pass |
| `append_fault` | `MCDBRecovery`, `DBRecoveryAppend.cfg` | violation |
| `levels` | `MCLevels`, `Levels.cfg` | pass |
| `manual_compaction_overlap` | `MCLevels`, `LevelsManual.cfg` | violation |
| `layers` | `MCLayers`, `Layers.cfg` | pass |
| `fileset` | `MCFileset`, `Fileset.cfg` | pass |
| `fileset_stranded` | `MCFileset`, `FilesetStranded.cfg` | violation |
| `filebench` | `MCFilebench`, `Filebench.cfg` | pass |
| `run_control` | `MCRunControl`, `RunControl.cfg` | pass |
| `progress` | `MCProgress`, `Progress.cfg` | pass |

`CHECK_DEADLOCK FALSE` stands where the system may stop: every thread has made
its calls, the script is over, the database was closed or its process ended.

### write_path

Two threads, two calls each: a batch of two updates, a synced update, or the
null batch of `TEST_CompactMemTable`. A memtable is full after one update and
level 0 stops writers at two files, so that a few calls meet every branch of
`MakeRoomForWrite`; every append, sync, table build and compaction may fail.
Two threads are enough for a leader with a follower and for a writer that
sleeps while the other is at the front; `progress` has three, for a queue with
somebody behind the group.

- `FrontOnly`: only the front writer throttles, logs or inserts, and the queue
  holds each unfinished call once.
- `NoLostWakeup`: whoever may go on has been signalled; whoever waits for the
  background thread has a background call ahead.
- `WorkIsScheduled`: a full memtable or a level 0 over its trigger has a
  background call.
- `LayersOrdered`: tables, then the immutable memtable, then the memtable, in
  the order of sequence numbers. `Get` stops at the first layer with the key.
- `BatchAtomic`: no reader's sequence number falls inside a batch.
- `SyncedIfAsked`: an OK to a sync write means its updates are synced,
  whichever leader carried them.
- `WritesAreAtomic`: `DBWrite` implements `AtomicWrites`.

`delete_during_compaction` checks `DeleteIsClean`, what `doc/index.md` says of
closing a database, and finds that deleting it in the middle of a compaction
throws in the background thread.

### recovery

Two writes, six file numbers, three edits, and two crashes of the process or
the machine at any step of creating, writing, flushing, compacting, moving a
file, deleting files and opening. Settings: the defaults with machine crashes
and torn records; failing appends and syncs; `reuse_logs` with crashes of the
process. Two writes give a log that is old and one that is new; six numbers
allow a table, a compaction of it, two logs and two MANIFESTs.

- `AckedSurvive`: in an open database, after any number of crashes, every
  acknowledged write is readable, unless it was not synced and the machine
  crashed since (runs without failing appends).
- `DurableOnDisk`: at every moment the durable part of the disk holds all
  synced writes, for each version that a recovery could find.
- `NoDangling`: the tables of every version in use are there and complete; the
  obsolete-file collector never takes a file that is needed.
- `OpensInOrder`: an open fails only if the database was never created
  completely, and sequence numbers go on above all that survive: none of a
  readable update is used again.

`reuse_logs` with machine crashes is left out of the settings: appending after
a torn tail loses what follows (see section 6). `append_fault` shows the
same for a failed append: `log::Writer` goes on in the middle of a block, and
synced writes that follow are not recovered.

### levels

Two keys, three levels, up to eleven writes, in seven settings: files of one
and of two entries, larger buffers, seek compactions, a snapshot, deletions,
`CompactRange` alone and beside writers.

- `LevelsDisjoint`: files of a level above 0 are sorted and disjoint.
- `NewestOnTop`: no entry sinks below an older one of its key.
- `ReadsAreExact`: a `Get` at the newest sequence number or at a live snapshot
  returns what was last written by then.
- `CompactionsComplete`: what a compaction deletes is in the current version,
  and when `TEST_CompactRange` is done with a level nothing of the range is
  left there or above, if nobody writes.

`manual_compaction_overlap` has `CompactRange` beside writers with files of
three entries: a memtable is placed into a gap between the files of a running
manual compaction, and the assertion of `version_set.cc:746-748` fails.

### layers

Each component is small: two threads and a buffer of two bytes (`EnvWritable`);
two readers, two tables, a cache of one entry, one descriptor to keep
(`TableCache`); two processes, one of them with two threads (`EnvLock`); one
reader, three entries, heights to two (`MemTable`); three keys and three
entries (`DBIter`); four keys of two letters (`BlockFormat`, `TableFormat`);
digits of base four (`WireFormat`); log blocks of six cells, three records and
one fault (`LogFormat`); directories of logs and tables, one failing call and
a second repair (`Repair`); two names
and two handles (`MemEnv`).

- `FilesHoldAppends`: a file's bytes are what was appended, in order; after
  `Sync` returns OK they are durable; in memenv, handles and names keep a file
  as long as they should.
- `ReadersShareTables`: a handle's table is open and its own; entries, lists
  and charges of the cache agree; descriptors and maps stay within limits.
- `LockExcludes`: one caller of a process holds the lock; in the posix build,
  when each process uses the database once at a time and nobody destroys it,
  one process does; every exit of `LockFile` gives back what it took.
- `ReadersBesideWriter`: a reader of the skip list sees a sorted list with all
  entries up to its sequence number, at every step of an insertion.
- `FormatsReadBack`: records, batches, edits, blocks, tables and filters are
  read back as they were written, or an error is reported.
- `RepairKeepsEntries`: whichever call fails and wherever a repair stops, every
  entry that was intact before it is in the directory or in `lost/`, but for
  what an unsynced copy held when the machine stopped. A repair that returns OK
  has a MANIFEST of readable tables and hands out new sequence and file
  numbers; if none of its calls failed the tables have all intact entries, and
  in a first repair with logs listed in order reads find the newest ones.
- `IteratorsAreCursors`: any sequence of calls moves a database iterator and a
  block iterator as a cursor over the sorted keys would move.

### fileset

Two files, a leaf directory and a directory; two threads with three flowops
each from the lists of the workloads (varmail, networkfs, webserver, makedirs
and so on) and two lists that misuse descriptors; serial and parallel creation,
with and without failing calls.

- `BusyOwned`: a busy entry has one owner, and an owner's entry is busy.
- `IdleNotShort`: the idle counts are not below the number of idle entries, so
  a thread waits in `fileset_pick` only when every entry is taken.
- `DiskAgrees`: while no call fails, an entry that is not busy is in the
  exist tree exactly when it is on disk.
- `EntriesReady`: `fse_open_cnt` covers every slot that refers to the entry,
  and workers start after the whole set exists. It includes `DeletesOnce`,
  which the lists of the run satisfy and two theorems assume (section 4).
- `DeletesUnopened`: a file leaves the disk only while nobody but the thread
  that deletes it has it open.
- `FlowopReturns`: a flowop that waits for an entry goes on, in runs that end
  with the first thread that finds no file. `fileset_stranded` shows that this
  fails when all threads are to finish: one wake-up is swallowed.

### filebench

Two threads; pools of two objects of two words; trees over seven keys, and one over
twelve, deep enough for a removal to rotate at several levels; filesets of up
to three files and two leaf directories; scripts with composites within
composites; eight builds and menus of file flowops.

- `SharedMemoryExact`: memory is handed out once; strings and thread memory lie
  in their regions, and so do objects, of descriptors all but as many as the
  array holds; `ipc_malloc` returns NULL with at most the slot free that it
  handed out last.
- `TreeIsBalancedSet`: the tree is the set of what was added and not removed,
  sorted and balanced, and the walks visit it in order.
- `ValuesAsScripted`: an attribute reads as the script last set it (if no
  assignment changes the variable's type and no composite has locals; a random
  one keeps the distribution it was made with), custom variables draw with
  their own library and keep within their bounds, a table is followed but for
  a probability of one, and a fileset is populated with
  what was asked for, under paths that differ. The twister (six words of three
  bits; two processes; states saved fresh from a seed and in mid-vector)
  returns the words of the sequence its seed defines, each process scales them
  with factors it has set, integers stay in their interval and an empirical
  distribution has exactly its weights.
- `FlowopsMirrorScript`: a thread runs the flowops of the script in order and
  as often as asked; the global list holds every flowop once, also while
  threads delete theirs at the same time; and statistics count each operation
  once, if none ends while they are added up.
- `LimitsHold`: a limiter that returns has paid for everything counted since
  its first call, but, if it has a target and the statistics were cleared, for
  what the target had counted then and one operation; and threads overshoot
  the count at which they finish by less than one operation each, without a
  target.
- `FileFlowopsExact`: what the file flowops do to descriptors, positions,
  sizes and asynchronous writes, with opens, reads and writes that fail.

### run_control

Two processes, two threads, nine settings: each quit mode without a fault, and
one with each fault (a failing fork, no memory for threads or for flowops, a
fatal error in a worker, a crashed worker, an interrupt). `RunInStep`:
no thread executes a flowop before all are created and counted, the count of
running processes is exact, and no worker outlives the master. `RunEnds`: a
run without a fault ends, in the three modes.

### progress

Three writers with a call each, two databases that share the background
thread, three db_bench threads, two limited threads, two semaphore or condition
targets with two posters. `WritesReturn`, `ScheduledRuns`, `BenchmarkReports`
and `WaitersReleased` say that every wait ends: of a limiter, for a debt that
the capped queue can hold; in semblock and block, while the posters keep
posting, or the run is shut down. `BenchmarkReports` also covers
scalefs_bench on two cores, with directories that divide the files and that do
not, a core `--prep` was not told of, too many keys and failing calls: the
processes start together and all end, none fails because of another, files are
spread evenly, and what is reported as done is on disk.

### Fairness

Weak fairness of a thread is what a preemptive scheduler gives a thread that
can run: writers, the background thread, the main and the creator thread, the
worker processes, the threads of a fileset. A failing call, a fault or a crash
is never required. Strong fairness stands at three places where the resource a
thread waits for comes and goes: limited threads (a token may be taken by the
other), targets and posters of a semaphore, and filebench threads held back
while statistics are printed. There pthreads and System V semaphores have a
queue of waiters, and two snapshots are seconds apart.

## 4. The proofs

TLC checks the instances above; the theorems hold for any number of threads,
keys, calls, files and entries. Most are of the form
`Spec => []P`, by an inductive invariant that was model-checked before it was
proved; `WriteIsAtomic` is a refinement, and `MemoryHandedOutOnce` also says
what a step of `ipc_malloc` may answer. `PROJECT.json` lists them.

| module | theorems | inductive invariant |
|---|---|---|
| `DBWriteTheorems` (steps in `DBWriteProofs`) | `TypeCorrect`, `FrontWriterOnly`, `NobodySleepsForEver`, `WorkAlwaysScheduled` | `QueueInv`; `WakeInv` |
| `DBWriteTheorems` (steps in `DBWriteDataProofs`) | `LayersStayOrdered`, `BatchesAtomic`, `SyncIsHonoured` | `PromiseInv`: `DataInv`, `BatchInv`, `SyncInv` |
| `DBWriteTheorems` | `WriteIsAtomic` | `OutcomeInv`, with the two above |
| `FilesetProofs` | `OneOwner`, `IdleEnough`, `TreesMatchDisk`, `DeletesSpareOpen`, `EntriesAreReady` | `OwnInv`; `DiskInv`; `SlotInv`; `MakeInv` |
| `ThreadsProofs` | `LockIsExclusive` (`EnvLock`), `NoLostWork` (`EnvSchedule`), `BenchSynchronised` (`BenchThreads`) | `TInv`, `LInv`; `WakeInv`; `BenchInv` |
| `SharedMemoryProofs` | `MemoryHandedOutOnce` | `PoolInv`, `DescriptorInv`; `TextInv`; `MemInv` |

Assumed of the constants, and evaluated by TLC in the runs: `RequestAssumption`
(the shape of requests), `BoundAssumption` (bounds and sizes are natural
numbers), `TriggerAssumption` (level-0 compaction starts no later than level 0
stops writers), `FilesetAssumption`, `LockAssumption`, `MemoryAssumption`, and
the one on the number of db_bench threads.

**The write path.** `FrontOnly` is not inductive: a front writer that finishes
pops its group, and the next could be anybody if a member of the group were not
right behind it. `QueueInv` adds `CallsOpen` (calls run only while the database
is open, and a Writer is done only while its thread still waits to see it) and
`GroupInQueue` (the group is a prefix of the queue). The steps: a call that
finds the queue empty is at the front, others queue up asleep; only the front
or a finished writer wakes into work; popping a group leaves a queue without
repetitions whose front is asleep and signalled; everything else leaves the
queue alone. `WakeInv` adds who may be asleep and what `bg` promises: that a
memtable or a level 0 that needs work has a call scheduled is itself part of
why a sleeper is woken. The data proofs number a group's updates; what they use
of the numbering is `GroupsCounted`, a hypothesis of the step lemmas that
`DBWriteTheorems` proves from the library's facts about finite sets (kept in
one module because every fact in scope slows the provers down). `DataInv` has
every layer below `lastSeq` and the group above it, `BatchInv` has the updates
of a batch contiguous, and `SyncInv`/`PromiseInv` follow a synced update from
its group to the acknowledgement.

**`DBWrite` implements `AtomicWrites`.** Under the mapping `Abstract`, a call
is open from the moment `Write` is entered until it returns, the store is what
a reader at `LastSequence` can see, and a null batch is no call. `OutcomeInv`
says what the leader and its followers rely on: until it is published an active
group is whole (`GroupIsWhole`: its updates are still to be inserted or beyond
`LastSequence`), and a thread that was told OK or an error by its leader finds
all of its updates visible or none (`DoneIsTrue`). Entering `Write` maps to
`Call`; `EndWrite` of a logged group to one `Commit` of all its batches,
whatever the leader merged; a follower that wakes to `ReturnOK` or
`ReturnError`; a failed log write or a failed switch of memtables to
`ReturnError`; logging, inserting one update at a time, switching and flushing
memtables, stalls and everything in the background to stutters. That the
`Commit` is one of `AtomicWrites` is counting: `GroupIsCounted` and
`WriterIsCounted` show that a group uses consecutive sequence numbers and that
each batch has as many of them as it has updates, with no other batch's in
between.

**Filesets.** `OwnInv` says who holds which entry at which program counter, for
the creating thread, its allocation threads and the workers; `BusyOwned` and
`IdleNotShort` follow. `DiskInv` adds, for runs without faults, that an entry
that is not busy agrees with the disk, and what a holder knows of the entry it
is about to put back.

`DeletesUnopened` and `EntriesReady` are about `fse_open_cnt`, which the code
changes only at the end of a flowop, when it gives the entry back. `SlotInv`
says that the count covers the claims on an entry: the descriptor slots that
have it open, and the slot of a `deletefile` under way, which forgets its entry
before it knows whether the file goes away. Between the call and the release of
an `openfile` the count may be one behind, and then the entry is busy. So a
`deletefile` that finds a count of one, and has a slot open itself, is alone.
`MakeInv` follows the creation: `shm_fsparalloc_count` is the number of
allocation threads, or negative after a failure; an entry in a free tree is one
the creation has yet to come to or one that an allocation thread works on.
Both theorems assume `[]DeletesOnce`: no list deletes twice through a slot that
it has open. Without it they are false (section 6). The lists of the run
satisfy it, and TLC checks that as part of `EntriesReady`.

**The lock, the scheduler, shared memory, db_bench.** `TInv` ties the lock
table to the callers inside `LockFile` and `UnlockFile`, `LInv` the record lock
to their processes. `NoLostWork` holds although `Schedule` signals before it
pushes, because it does both under the mutex. `PoolInv` describes the bitmap
and who holds which slot, `TextInv` and `MemInv` the bump allocators. That an
object lies inside its array is arithmetic on `Objects` and `ObjectSize`; for
descriptors `DescriptorInv` adds that, as they are never freed, those given are
the slots up to the last, until all are. `BenchInv` counts the threads on each side of the two barriers.

### Only model-checked

- all liveness, as the prover has no rules for fairness;
- what recursive definitions compute: `Levels` (merging and dropping entries),
  `DBIter`, the formats, `AvlTree`, `CustomVars`, `RandomVars`, `FlowopLists`;
  their correctness is an induction over data;
- recovery: the four properties of `DBRecovery`. An inductive invariant has to
  speak of every version that a recovery could still find, the records of the
  MANIFEST from the last durable one on, and of the logs each would replay;
- the invariants of `RunControl`, of the caches, of `EnvWritable` and of
  `Repair`: within reach, not done.

## 5. Not modelled

- filebench's multi-client synchronisation (`multi_client_sync.c`): one
  exchange of messages with a server that is not in the repository;
- `db_bench`'s benchmark loops and flags, `do_work.cc` and
  `cxxopts.hpp`: sequential calls of what is modelled;
- `env_windows.cc` (not built here), `db/c.cc` (forwards), `dumpfile.cc` and
  `leveldbutil.cc` (print), hashes, checksums, histograms, options;
- the parser and the lexer as such; the continuous distributions on top of
  `mtwist`: a draw is any value of the range;
- the uFS server and its client library: file-system calls are modelled from
  how the code uses them, and marked external in the map.

## 6. Observations

Disagreements between the code and its documentation that a definition in the
modules states and TLC refutes (they are not runs of their own):

- `EnvLock.OneHolder`: a second `LockFile` of a process, refused, closes its
  descriptor and with it drops the record lock of the first;
- `Repair.CorruptionSkipped`: records with a bad checksum are replayed, as the
  reader is told not to check (`repair.cc:173`, against 169-172); `LogFormat.ResyncIsSilent` (`log_reader.h:97-99`);
- `MemEnv.NewFileIsThere` (`env.h:121-122`);
- `DBWrite.FlushForced` (`db_impl.cc:1331`, against `db_impl.h:57`);
- `DBRecovery.PrefixSurvives`: in bulk load, what survives need not be a prefix
  (`db_impl.cc:1391`);
- `Fileset.IdleIsNotBusy` (`flowop_library.c:2124`);
- `Fileset.DeletesUnopened`, `OpenCounted` (`flowop_library.c:1967`) for a list
  that deletes twice through one open slot (`open`, `delete`, `delete`; no
  workload does): the second `deletefile` picks another file, and takes its one
  open descriptor, which is another thread's, for its own;
- `FilesetPopulate.AllPathsDistinct`: a fileset with files and leaf directories
  counts both from one in each directory, so two entries share a name and
  creating the leaf directories fails (`fileset.c:1560-1590`);
- `Variables.LocalsArePrivate` (`parser_gram.y:3107-3111`),
  `Variables.DelayedBinding` (`vars.c:53-56`);
- `SharedMemory.PoolAsDocumented` (`ipc.c:494-496`): NULL with one slot free,
  and descriptors behind the end of their array (`ipc.c:462-465`, `vars.h:76`);
- `RunControl.FatalEnds` (`misc.c:176`), `ErrorInvalidates` (`stats.c:98`),
  `DeathReported` (`procflow.c:327`);
- `RateLimit.FinishesOnCount` (`flowop_library.c:1172-1175`): without a target,
  `finishoncount` counts its own calls and those of limiters, and stops early;
- `FlowopLists.SnapshotFrozen` (`stats.c:76-77`), `ErrorNotPrinted`;
- `FileIO.FsyncsOpenFiles`, `WholeFileRead`, `WholeFileExact`,
  `RandAppendsAtEnd` (`flowop_library.c:2054, 2421, 2567, 2713`);
- `CustomVars.UniformOrdered` (`cvar-uniform.c:56`), `CustomVars.InDomain`
  (`cvar-erlang.c:54-62`, `cvar-gamma.c:183-185`): a shape or rate of 0 is
  taken.

Read in the code while modelling:

leveldb

- with `reuse_logs`, a log with a torn tail is appended to, and what follows
  the tear is unreadable (`db_impl.cc:489-513`); `ReuseManifest` likewise
  trusts records that were never synced (`version_set.cc:1013-1042`);
- `NewDB` closes the first MANIFEST without a sync (`db_impl.cc:224-237`), and
  a MANIFEST record is flushed before the directory is synced;
- `doc/impl.md:170` says that recovery deletes all logs but the current one,
  the code keeps every log from `LogNumber()` on;
- under `JL_LIBCFS`, `LockOrUnlock` locks nothing, while `env.h:173` and
  `doc/index.md:133` promise a lock between processes; `DestroyDB` unlinks LOCK
  after unlocking it;
- in `env_posix.cc`: an `Append` of 64 KiB or more beyond the buffer copies
  from a buffer that was not filled and throws (873-879); `FlushBuffer` empties
  the buffer also when the write failed; the destructor frees the buffer of the
  calling thread only; the sign test in `PosixSequentialFile::Read` is on an
  unsigned value; the `Limiter` is negative for a moment;
- `ReadBlock` deletes with `delete[]` what `fs_malloc_pad` gave; `OpenBench` of
  db_bench deletes `db_` and calls `Open`, which asserts that it is null;
- `VersionEdit::Clear` keeps the compaction pointers; `WriteBatch::Iterate`
  applies what precedes a malformed update; the status of a trailer's append is
  ignored (`log_writer.cc:51`) and zero-filled damage is skipped silently
  (`log_reader.cc:250-255`); in a repair, a damaged table whose copy cannot be
  created stays in the directory but not in the MANIFEST, and the copy is
  renamed without a sync, after the source went to `lost/` (`repair.cc:302,
  316-337`); memenv's rename of a file to itself deletes it.

filebench

- `ipc_malloc` reports a full pool although its start slot is free
  (`ipc.c:511-524`); `ipc_ismdelete` after a failed `shmat` deadlocks on itself;
- `procflow_create_all_procs` waits for ever after a failed fork, and when a
  worker has no memory for its threads: `threadflow_init` returns with
  `shm_threadflow_lock` held and the flag unset (`threadflow.c:127-137`), so
  other workers wait too; `proc_create` and `threadflow_define` return with a
  lock held on an error; `SIGINT` while
  the main thread holds the procflow lock deadlocks; the handler that
  `procflow.c:678-681` mentions is not installed in a worker; `procflow_sleep`
  tests with a bitwise and (`procflow.c:507`); a run that is over before
  `parser_run` looks is taken for one that did not start; a failed run usually
  exits with 0;
- `threadflow_delete` reads a list node after freeing it
  (`threadflow.c:251-252, 282-283`); `fileset_delete_all_filesets` has no
  caller, and `fileset_delete_fileset` follows `fse_next`, which nothing sets;
  `fileset_pickreset` takes the successor of an entry it has just moved to
  another tree;
- the limit flowops wait for ever if they need more events than the
  generator's cap; `flowoplib_block` waits without a predicate, so a wakeup
  that comes first is lost;
  `flowoplib_sempost_init` leaves `fo_lock` held on an error;
- the minimum latency of a master flowop becomes 0 if one of its threads never
  ran it; latencies are updated without a lock;
- in the CFS build `fb_lfs_pwrite` still calls `pwrite64`; `writewholefile`
  does not seek to the beginning; changing the I/O size frees the buffer of an
  asynchronous write in progress;
- `mts_bestseed` does not mark the state initialised, so a generator that was
  never seeded goes on with the default seed (`mtwist.c:910-941`);
  `mts_ldrand` can round to 1.0, which its comment excludes, and
  `rds_iuniform` then returns its upper bound; the mask of `rds_liuniform` has
  32 bits, so a wider range is never reached (`randistrs.c:264`);
- `flowoplib_read` ends an operation that failed twice in the statistics
  (`flowop_library.c:625, 631`); a short `write` counts as a whole one;
- a probability of one reads behind the table of a random variable
  (`fb_random.c:113, 195`); a table random variable with the default minimum 0 distorts its values, and
  a uniform one without a mean is negative; erlang, lognormal and weibull
  accept 0 although their messages say "non-zero".

scalefs_bench

- `nfiles_per_dir` is 0 with more directories than files, and the first file
  ends in a division by zero (`smallfile.cc:124, 341`); if the directories do
  not divide the files, the last ones go to a directory that is not there.
