---------------------------- MODULE ScalefsBench ----------------------------
(***************************************************************************)
(* scalefs_bench: smallfile and largefile.  A first run (--prep) makes the *)
(* directories; then one process per core runs the benchmark, all started  *)
(* by a coordinator and pinned, on files of its own in directories that    *)
(* are shared or per core.                                                 *)
(*                                                                         *)
(* A file is a record of its directory, its core and its number; the file  *)
(* system is the set of directories, the size of every file in blocks, and *)
(* what has changed since it was last synced.                              *)
(***************************************************************************)
EXTENDS Integers, FiniteSets, SequencesExt

CONSTANTS
  Core,       \* cores of the benchmark: 0 .. n
  Setups,     \* command lines: programs, per_cpu, total_cores, num_dirs, num_files, sync_when,
              \* blocks of a large file, workers of the uFS server, whether calls may fail
  MaxKeys     \* MAX_SHM_KEYS

VARIABLES set, prep, fs, cl, coord, round

vars == <<set, prep, fs, cl, coord, round>>

None == -1
Small == set.programs = <<"small">>
Program == set.programs[round]

Dir(cpu, d) == [cpu |-> cpu, dir |-> d]
Top == Dir(None, None)

-----------------------------------------------------------------------------
(* The directories create_dirs() makes, in its order: smallfile's numbered  *)
(* ones below topdir or below each core's; largefile's one, or one a core.  *)
Numbered(cpu) == [k \in 1 .. set.dirs |-> Dir(cpu, k - 1)]

SmallDirs ==
  IF set.perCpu THEN FlattenSeq([c \in 1 .. set.total |-> <<Dir(c - 1, None)>> \o Numbered(c - 1)])
  ELSE Numbered(None)

LargeDirs ==
  IF set.perCpu THEN [c \in 1 .. set.total |-> Dir(c - 1, None)] ELSE <<Dir(None, 0)>>

(* Mkdir, Fsync of the new directory and of the one above it; each may fail *)
(* and end the program.                                                     *)
WithDir(d) == [fs EXCEPT !.dirs = @ \union {d}]

MakeDir ==
  /\ prep.todo # <<>>
  /\ \/ fs' = WithDir(Head(prep.todo)) /\ prep' = [prep EXCEPT !.todo = Tail(@)]
     \/ /\ set.fault
        /\ fs' \in {fs, WithDir(Head(prep.todo))}
        /\ prep' = [pc |-> "dead", todo |-> <<>>]
  /\ UNCHANGED <<set, cl, coord, round>>

PrepSync ==
  /\ prep.pc = "run" /\ prep.todo = <<>>
  /\ prep' = [prep EXCEPT !.pc = "done"]
  /\ fs' = [fs EXCEPT !.dirty = {}]
  /\ UNCHANGED <<set, cl, coord, round>>

-----------------------------------------------------------------------------
(* One process per core.                                                    *)

(* initFs(): the application's id is the first of its keys, one per worker; *)
(* 0 is no key, and too many are refused.  The keys are those that          *)
(* run_scalefs_bench.py hands out; --prep had the first of each.            *)
Keys(c) == [w \in 1 .. set.workers |-> 100 * (w - 1) + 2 + (round - 1) * Cardinality(Core) + c]
KeysRefused(keys) == Len(keys) > MaxKeys \/ \E k \in DOMAIN keys : keys[k] = 0
Target(aid) == (aid - 1) % set.workers

(* die(), and the file system it leaves.                                    *)
Dies(c, left) ==
  /\ cl' = [cl EXCEPT ![c].pc = "dead"]
  /\ fs' = left
  /\ UNCHANGED <<set, prep, coord, round>>

(* initFs(), the assignment to a worker, and the call on the coordinator.   *)
BecomesReady(c) ==
  /\ prep.pc = "done" /\ cl[c].pc = "begin"
  /\ \/ /\ ~ KeysRefused(Keys(c))
        /\ cl' = [cl EXCEPT ![c].pc = "wait", ![c].worker = Target(Keys(c)[1])]
        /\ coord' = [coord EXCEPT !.ready = @ \union {c}]
        /\ UNCHANGED <<set, prep, fs, round>>
     \/ (set.fault \/ KeysRefused(Keys(c))) /\ Dies(c, fs)

(* The coordinator (external) starts the clients once all are ready.        *)
SaysStart ==
  /\ ~ coord.go /\ coord.ready = Core
  /\ coord' = [coord EXCEPT !.go = TRUE]
  /\ UNCHANGED <<set, prep, fs, cl, round>>

(* The phases of run_benchmark() and of largefile's two.                    *)
Phases ==
  CASE Program = "small" ->
         <<"create">> \o (IF set.sync = "CREATE_UNLINK" THEN <<"sync">> ELSE <<>>) \o <<"read", "unlink">>
         \o (IF set.sync \in {"UNLINK", "CREATE_UNLINK"} THEN <<"sync">> ELSE <<>>)
    [] Program = "create" -> <<"lcreate">>
    [] Program = "overwrite" -> <<"loverwrite">>

Phase(c) == IF cl[c].pc = "run" THEN Phases[cl[c].phase] ELSE "none"

Starts(c) ==
  /\ cl[c].pc = "wait" /\ coord.go
  /\ cl' = [cl EXCEPT ![c].pc = "run", ![c].phase = 1]
  /\ UNCHANGED <<set, prep, fs, coord, round>>

Moved(r) ==
  IF r.phase = Len(Phases) THEN [r EXCEPT !.pc = "stop", !.i = 0, !.j = 0]
  ELSE [r EXCEPT !.phase = @ + 1, !.i = 0, !.j = 0]

(* The end of a loop over the files.                                        *)
LoopEnds(c) ==
  /\ Phase(c) \in {"create", "read", "unlink"} /\ cl[c].i = set.files
  /\ cl' = [cl EXCEPT ![c] = Moved(@)]
  /\ UNCHANGED <<set, prep, fs, coord, round>>

(* nfiles_per_dir, and the step to the next file, which divides by it.      *)
PerDir == set.files \div set.dirs

NextFile(r) ==
  IF PerDir = 0 THEN [r EXCEPT !.pc = "crash"]
  ELSE [r EXCEPT !.i = @ + 1, !.j = IF (r.i + 1) % PerDir = 0 THEN @ + 1 ELSE @]

SmallFile(c) == [dir |-> Dir(IF set.perCpu THEN c ELSE None, cl[c].j), core |-> c, no |-> cl[c].i]
InLoop(c, phase) == Phase(c) = phase /\ cl[c].i < set.files
Exists(f) == f \in DOMAIN fs.size

(* Open with O_CREAT and O_EXCL, Write (a short one passes), Fsync if asked *)
(* and Close.                                                               *)
WithFile(f, n) == [g \in DOMAIN fs.size \union {f} |-> IF g = f THEN n ELSE fs.size[g]]

Created(f, n, synced) ==
  [fs EXCEPT !.size = WithFile(f, n), !.dirty = IF synced THEN @ ELSE @ \union {f}]

CreateFiles(c) ==
  /\ InLoop(c, "create")
  /\ IF SmallFile(c).dir \in fs.dirs /\ ~ Exists(SmallFile(c))
     THEN \/ /\ \E n \in IF set.fault THEN {0, 1} ELSE {1} :
                  fs' = Created(SmallFile(c), n, set.sync = "FSYNC")
             /\ cl' = [cl EXCEPT ![c] = NextFile(@)]
             /\ UNCHANGED <<set, prep, coord, round>>
          \/ /\ set.fault
             /\ \E left \in {fs} \union {Created(SmallFile(c), n, FALSE) : n \in 0 .. 1} : Dies(c, left)
     ELSE Dies(c, fs)

ReadFiles(c) ==
  /\ InLoop(c, "read")
  /\ \/ /\ Exists(SmallFile(c))
        /\ cl' = [cl EXCEPT ![c] = [NextFile(@) EXCEPT !.got = fs.size[SmallFile(c)]]]
        /\ UNCHANGED <<set, prep, fs, coord, round>>
     \/ (set.fault \/ ~ Exists(SmallFile(c))) /\ Dies(c, fs)

UnlinkFiles(c) ==
  /\ InLoop(c, "unlink")
  /\ \/ /\ Exists(SmallFile(c))
        /\ fs' = [fs EXCEPT !.size = [g \in DOMAIN @ \ {SmallFile(c)} |-> @[g]], !.dirty = @ \union {SmallFile(c)}]
        /\ cl' = [cl EXCEPT ![c] = NextFile(@)]
        /\ UNCHANGED <<set, prep, coord, round>>
     \/ (set.fault \/ ~ Exists(SmallFile(c))) /\ Dies(c, fs)

SyncFiles(c) ==
  /\ Phase(c) = "sync"
  /\ fs' = [fs EXCEPT !.dirty = {}]
  /\ cl' = [cl EXCEPT ![c] = Moved(@)]
  /\ UNCHANGED <<set, prep, coord, round>>

-----------------------------------------------------------------------------
(* largefile: one file a core, a block at a time; i counts the blocks.      *)
LargeFile(c) == [dir |-> IF set.perCpu THEN Dir(c, None) ELSE Dir(None, 0), core |-> c, no |-> 0]

Opened(c) == cl[c].j = 1
Larger(m, n) == IF m > n THEN m ELSE n

OpenLarge(c, phase, here) ==
  /\ Phase(c) = phase /\ ~ Opened(c)
  /\ \/ /\ here
        /\ fs' = [fs EXCEPT !.size = IF phase = "lcreate" THEN WithFile(LargeFile(c), 0) ELSE @,
                            !.dirty = @ \union {LargeFile(c)}]
        /\ cl' = [cl EXCEPT ![c].j = 1]
        /\ UNCHANGED <<set, prep, coord, round>>
     \/ (set.fault \/ ~ here) /\ Dies(c, fs)

WriteLarge(c, phase) ==
  /\ Phase(c) = phase /\ Opened(c)
  /\ \/ /\ cl[c].i < set.blocks
        /\ fs' = [fs EXCEPT !.size[LargeFile(c)] = Larger(@, cl[c].i + 1), !.dirty = @ \union {LargeFile(c)}]
        /\ cl' = [cl EXCEPT ![c].i = @ + 1]
        /\ UNCHANGED <<set, prep, coord, round>>
     \/ /\ cl[c].i = set.blocks
        /\ fs' = [fs EXCEPT !.dirty = @ \ {LargeFile(c)}]
        /\ cl' = [cl EXCEPT ![c] = Moved(@)]
        /\ UNCHANGED <<set, prep, coord, round>>
     \/ set.fault /\ Dies(c, fs)

CreateLargeFile(c) ==
  \/ OpenLarge(c, "lcreate", LargeFile(c).dir \in fs.dirs /\ ~ Exists(LargeFile(c)))
  \/ WriteLarge(c, "lcreate")

OverwriteLargeFile(c) ==
  \/ OpenLarge(c, "loverwrite", Exists(LargeFile(c)))
  \/ WriteLarge(c, "loverwrite")

-----------------------------------------------------------------------------
Stops(c) ==
  /\ cl[c].pc = "stop"
  /\ cl' = [cl EXCEPT ![c].pc = "done"]
  /\ coord' = [coord EXCEPT !.stopped = @ \union {c}]
  /\ UNCHANGED <<set, prep, fs, round>>

Fresh == [pc |-> "begin", phase |-> 0, i |-> 0, j |-> 0, got |-> None, worker |-> None]
NoCalls == [ready |-> {}, go |-> FALSE, stopped |-> {}]

(* The next program, with processes and a coordinator of its own.           *)
NextProgram ==
  /\ coord.stopped = Core /\ round < Len(set.programs)
  /\ round' = round + 1
  /\ cl' = [c \in Core |-> Fresh] /\ coord' = NoCalls
  /\ UNCHANGED <<set, prep, fs>>

Init ==
  /\ set \in Setups
  /\ prep = [pc |-> "run", todo |-> IF Small THEN SmallDirs ELSE LargeDirs]
  /\ fs = [dirs |-> {Top}, size |-> [f \in {} |-> 0], dirty |-> {}]
  /\ cl = [c \in Core |-> Fresh] /\ coord = NoCalls /\ round = 1

Client(c) ==
  \/ BecomesReady(c) \/ Starts(c) \/ LoopEnds(c) \/ Stops(c)
  \/ CreateFiles(c) \/ ReadFiles(c) \/ UnlinkFiles(c) \/ SyncFiles(c)
  \/ CreateLargeFile(c) \/ OverwriteLargeFile(c)

Around == MakeDir \/ PrepSync \/ SaysStart \/ NextProgram

Next == Around \/ \E c \in Core : Client(c)

-----------------------------------------------------------------------------
Ended(c) == cl[c].pc \in {"done", "dead", "crash"}

TypeOK ==
  /\ \A c \in Core : /\ cl[c].pc \in {"begin", "wait", "run", "stop", "done", "dead", "crash"}
                     /\ cl[c].i \in 0 .. Larger(set.files, set.blocks)
  /\ coord.ready \subseteq Core /\ coord.stopped \subseteq Core
  /\ \A f \in DOMAIN fs.size : fs.size[f] \in 0 .. Larger(1, set.blocks)

(* No call fails for want of a directory or because of another process's    *)
(* file, if the directories divide the files, --prep was told of every core *)
(* and there are keys enough; and a process that divides by zero            *)
(* (nfiles_per_dir) has made one file.                                      *)
Fitting ==
  /\ Small => set.files % set.dirs = 0 /\ set.files > 0
  /\ set.perCpu => \A c \in Core : c < set.total
  /\ set.workers =< MaxKeys
NobodyDies ==
  /\ Fitting /\ ~ set.fault => \A c \in Core : cl[c].pc \notin {"dead", "crash"}
  /\ \A c \in Core : cl[c].pc = "crash" => set.files < set.dirs /\ cl[c].i = 0

(* After the create phase a core's files are spread evenly over the         *)
(* directories, and what is read of them is what was written.               *)
MineIn(c, d) == {f \in DOMAIN fs.size : f.core = c /\ f.dir = d}
SpreadEvenly ==
  Small /\ Fitting /\ ~ set.fault => \A c \in Core :
    /\ Phase(c) = "read" => \A d \in 0 .. set.dirs - 1 :
         Cardinality(MineIn(c, Dir(IF set.perCpu THEN c ELSE None, d))) = PerDir
    /\ Phase(c) = "read" /\ cl[c].i > 0 => cl[c].got = 1

(* A core that has reported leaves no small file behind, and of a large one *)
(* every block, synced; with a sync after unlinking, its removals were      *)
(* synced too, whatever the other cores do meanwhile.                       *)
ReportsWhatItDid ==
  \A c \in Core : cl[c].pc \in {"stop", "done"} =>
    /\ Small => {f \in DOMAIN fs.size : f.core = c} = {}
    /\ ~ Small => fs.size[LargeFile(c)] = set.blocks /\ LargeFile(c) \notin fs.dirty
    /\ Small /\ set.sync \in {"UNLINK", "CREATE_UNLINK"} => {f \in fs.dirty : f.core = c} = {}

(* No core touches a file before all of this program are ready.             *)
TogetherOrNotAtAll ==
  (\E c \in Core : cl[c].pc \in {"run", "stop", "done"}) => coord.ready = Core

(* The uFS workers get equally many cores, to within one.                   *)
WorkersBalanced ==
  coord.go => \A v, w \in 0 .. set.workers - 1 :
    Cardinality({c \in Core : cl[c].worker = v}) - Cardinality({c \in Core : cl[c].worker = w}) =< 1

Safe ==
  /\ TypeOK /\ NobodyDies /\ SpreadEvenly /\ ReportsWhatItDid /\ TogetherOrNotAtAll
  /\ WorkersBalanced
=============================================================================
