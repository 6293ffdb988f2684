------------------------------- MODULE Fileset -------------------------------
(***************************************************************************)
(* A filebench fileset (fileset.c) shared by worker threads that run       *)
(* flowops on it (flowop_library.c).  The fileset is first created, with   *)
(* parallel pre-allocation or without, and then every thread executes its  *)
(* list of flowops over and over.  Entries are files, leaf directories and *)
(* directories; a flowop makes its entry busy under fs_pick_lock, calls    *)
(* the file system without the lock, and then makes the entry idle again.  *)
(***************************************************************************)
EXTENDS Integers, Sequences, FiniteSets, FiniteSetsExt

CONSTANTS
  Thread,       \* worker threads
  Main,         \* the process that creates the fileset
  None,         \* the NULL pointer
  Count,        \* number of entries of each kind
  Script,       \* the flowop lists that threads run
  MaxFd,        \* descriptor slots of a thread are 0 .. MaxFd
  MaxOps,       \* bound on the flowops a thread executes
  MaxParalloc,  \* MAX_PARALLOC_THREADS
  Setting       \* the settings a run may have: paralloc is fs_paralloc,
                \* allDone is shm_rmode = FILEBENCH_MODE_QALLDONE, and with
                \* faults a file-system call may fail

Kind == {"file", "leafdir", "dir"}
Entry == {e \in Kind \X (0 .. Max({Count[k] : k \in Kind})) : e[2] < Count[e[1]]}
Fd == 0 .. MaxFd
OpName == {"open", "io", "create", "close", "delete", "stat",
           "makedir", "removedir", "listdir"}
Flowop == [op : OpName, fd : Fd, indexed : BOOLEAN]

ASSUME FilesetAssumption ==
  /\ Main \notin Thread /\ None \notin Entry
  /\ Count \in [Kind -> Nat]
  /\ MaxFd \in Nat /\ MaxOps \in Nat /\ MaxParalloc \in Nat \ {0}
  /\ Setting \subseteq [paralloc : BOOLEAN, allDone : BOOLEAN, faults : BOOLEAN]
  /\ Script \subseteq Seq(Flowop) \ {<<>>}

VARIABLES
  env,      \* the setting of this run
  place,    \* the tree that holds the entry, which its flags agree with
  busy,     \* entries with FSE_BUSY
  wanted,   \* entries with FSE_THRD_WAITNG
  openCnt,  \* fse_open_cnt
  idle,     \* fs_idle_files, fs_idle_leafdirs, fs_idle_dirs
  rotor,    \* the next index of each rotation (fo_rotatefd is off)
  disk,     \* entries that exist in the file system
  pc, cur,  \* of each thread: where it is, and its entry
  woken,    \* threads whose condition wait was signalled
  script, ip, ops,  \* of each thread: its list, its position, its count
  tfFd,     \* of each thread: slots that hold an open descriptor
  tfFse,    \* of each thread and slot: the entry last opened there
  allocs,   \* entries in the hands of allocation threads
  paraCnt,  \* shm_fsparalloc_count
  crashed,  \* the worker process has died
  abort     \* shm_f_abort

entryVars == <<place, busy, wanted, openCnt, idle>>
fdVars == <<tfFd, tfFse>>
createVars == <<allocs, paraCnt>>
fixed == <<env, script>>
vars == <<entryVars, rotor, disk, pc, cur, woken, ip, ops, fdVars, createVars,
          fixed, abort, crashed>>

Actor == Thread \cup {Main}
Rotor == {"file"} \X {"exist", "noex"} \cup {"leafdir"} \X {"exist", "noex"}
           \cup {<<"dir", "exist">>}

(***************************************************************************)
(* fileset_pick.  The trees are ordered by index.                          *)
(***************************************************************************)
Tree(kind, which) == {e \in Entry : e[1] = kind /\ place[e] = which}

(* The entry with the index, or the next higher one, or the lowest.        *)
FindEntry(tree, i) ==
  LET above == {e \in tree : e[2] >= i}
      from  == IF above = {} THEN tree ELSE above
  IN CHOOSE e \in from : \A f \in from : e[2] <= f[2]

PickWaits(kind) == Count[kind] > 0 /\ idle[kind] = 0

(* Actor a picks from a tree, from index i on, and becomes its owner.      *)
PickEntry(a, kind, which, i) ==
  LET tree == Tree(kind, which)
      e    == FindEntry(tree \ busy, FindEntry(tree, i)[2])
  IN
  /\ ~PickWaits(kind)
  /\ tree \ busy # {}
  /\ busy' = busy \cup {e}
  /\ idle' = [idle EXCEPT ![kind] = @ - 1]
  /\ cur' = [cur EXCEPT ![a] = e]
  /\ UNCHANGED <<place, wanted, openCnt>>

PickEmpty(kind, which) == ~PickWaits(kind) /\ Tree(kind, which) \subseteq busy

(* What a flowop picks.                                                    *)
PickOf(op) ==
  CASE op \in {"open", "io", "stat", "delete"} -> <<"file", "exist">>
    [] op = "create"    -> <<"file", "noex">>
    [] op = "makedir"   -> <<"leafdir", "noex">>
    [] op = "removedir" -> <<"leafdir", "exist">>
    [] op = "listdir"   -> <<"dir", "exist">>

(* The rotation moves on from the first candidate, busy or not; a supplied *)
(* index is any index.                                                     *)
Rotate(r) ==
  IF Tree(r[1], r[2]) = {} THEN rotor
  ELSE [rotor EXCEPT ![r] = FindEntry(Tree(r[1], r[2]), rotor[r])[2] + 1]

(***************************************************************************)
(* fileset_unbusy: actor a gives entry e up.  The entry's place becomes p, *)
(* its open count changes by incr; threads waiting for this entry are      *)
(* woken, and one thread waiting for an idle entry of its kind.            *)
(***************************************************************************)
CurOp(t) == script[t][ip[t]]
WaitsFor(kind) ==
  {t \in Thread : pc[t] = "pickwait" /\ PickOf(CurOp(t).op)[1] = kind}
    \cup {a \in {Main} : pc[a] = "pickwait" /\ kind = "file"}
Signalled(kind) ==
  LET w == WaitsFor(kind) \ woken IN IF w = {} THEN {{}} ELSE {{a} : a \in w}
BusyWaiters == {t \in Thread : pc[t] = "busywait"}

(* Mutant: the threads waiting for this very entry are not woken.          *)
UnbusyNoBroadcast(e, p, incr) ==
  /\ place' = [place EXCEPT ![e] = p]
  /\ openCnt' = [openCnt EXCEPT ![e] = @ + incr]
  /\ busy' = busy \ {e}
  /\ wanted' = wanted \ {e}
  /\ idle' = IF e \in busy THEN [idle EXCEPT ![e[1]] = @ + 1] ELSE idle
  /\ \E s \in Signalled(e[1]) : woken' = woken \cup s

Unbusy(e, p, incr) ==
  /\ place' = [place EXCEPT ![e] = p]
  /\ openCnt' = [openCnt EXCEPT ![e] = @ + incr]
  /\ busy' = busy \ {e}
  /\ wanted' = wanted \ {e}
  /\ idle' = IF e \in busy THEN [idle EXCEPT ![e[1]] = @ + 1] ELSE idle
  /\ \E s \in Signalled(e[1]) :
       woken' = IF e \notin busy THEN woken
                ELSE woken \cup s \cup (IF e \in wanted THEN BusyWaiters ELSE {})

(***************************************************************************)
(* fileset_create and fileset_createsets: every free entry is picked, from *)
(* a random index on, and allocated or left out (preallocpercent), by an   *)
(* allocation thread where fs_paralloc says so.                               *)
(***************************************************************************)
CreatePicks ==
  /\ pc[Main] = "files" \/ (pc[Main] = "pickwait" /\ Main \in woken)
  /\ \/ \E i \in 0 .. Count["file"] :
          /\ PickEntry(Main, "file", "free", i)
          /\ \E next \in {"alloc", "skip"} : pc' = [pc EXCEPT ![Main] = next]
     \/ /\ PickEmpty("file", "free")
        /\ pc' = [pc EXCEPT ![Main] = "leafdirs"]
        /\ UNCHANGED <<entryVars, cur>>
     \/ /\ PickWaits("file")
        /\ pc' = [pc EXCEPT ![Main] = "pickwait"]
        /\ UNCHANGED <<entryVars, cur>>
  /\ woken' = woken \ {Main}
  /\ UNCHANGED <<rotor, disk, fixed, crashed, ip, ops, fdVars, createVars, abort>>

(* The entry is not to be pre-allocated.                                   *)
CreateSkips ==
  /\ pc[Main] = "skip"
  /\ Unbusy(cur[Main], "noex", 0)
  /\ pc' = [pc EXCEPT ![Main] = "files"]
  /\ UNCHANGED <<rotor, disk, cur, fixed, crashed, ip, ops, fdVars, createVars, abort>>

(* fileset_alloc_file in the creating thread; where it fails, the file may *)
(* have been made already.                                                 *)
CreateAllocates ==
  /\ pc[Main] = "alloc" /\ ~env.paralloc
  /\ \/ /\ Unbusy(cur[Main], "exist", 0)
        /\ disk' = disk \cup {cur[Main]}
        /\ pc' = [pc EXCEPT ![Main] = "files"]
     \/ /\ env.faults
        /\ Unbusy(cur[Main], "noex", 0)
        /\ \E d \in {{}, {cur[Main]}} : disk' = disk \cup d
        /\ pc' = [pc EXCEPT ![Main] = "failed"]
  /\ UNCHANGED <<rotor, cur, fixed, crashed, ip, ops, fdVars, createVars, abort>>

(* An allocation thread is started once there are fewer than MaxParalloc.  *)
CreateForks ==
  /\ pc[Main] = "alloc" /\ env.paralloc
  /\ paraCnt < MaxParalloc
  /\ IF paraCnt < 0
     THEN pc' = [pc EXCEPT ![Main] = "leaked"] /\ UNCHANGED createVars
     ELSE /\ paraCnt' = paraCnt + 1
          /\ allocs' = [allocs EXCEPT ![cur[Main]] = "writing"]
          /\ pc' = [pc EXCEPT ![Main] = "files"]
  /\ UNCHANGED <<entryVars, rotor, disk, cur, woken, fixed, crashed, ip, ops, fdVars, abort>>

(* fileset_alloc_thread: fileset_alloc_file, and then the count.           *)
AllocThread(e) ==
  /\ allocs[e] = "writing"
  /\ \/ /\ Unbusy(e, "exist", 0)
        /\ disk' = disk \cup {e}
        /\ allocs' = [allocs EXCEPT ![e] = "ok"]
     \/ /\ env.faults
        /\ Unbusy(e, "noex", 0)
        /\ allocs' = [allocs EXCEPT ![e] = "error"]
        /\ \E d \in {{}, {e}} : disk' = disk \cup d
  /\ UNCHANGED <<rotor, pc, cur, fixed, crashed, ip, ops, fdVars, paraCnt, abort>>

AllocThreadExits(e) ==
  /\ allocs[e] \in {"ok", "error"}
  /\ paraCnt' = IF allocs[e] = "error" THEN -1 ELSE paraCnt - 1
  /\ allocs' = [allocs EXCEPT ![e] = "none"]
  /\ UNCHANGED <<entryVars, rotor, disk, pc, cur, woken, fixed, crashed, ip, ops, fdVars, abort>>

(* One leaf directory, which nobody else touches yet.                      *)
CreateLeafdir ==
  /\ pc[Main] = "leafdirs"
  /\ \/ \E e \in Tree("leafdir", "free") :
          \/ /\ place' = [place EXCEPT ![e] = "noex"]
             /\ UNCHANGED <<disk, pc>>
          \/ /\ place' = [place EXCEPT ![e] = "exist"]
             /\ disk' = disk \cup {e}
             /\ UNCHANGED pc
          \/ /\ env.faults
             /\ place' = [place EXCEPT ![e] = "noex"]
             /\ pc' = [pc EXCEPT ![Main] = "failed"]
             /\ UNCHANGED disk
     \/ /\ Tree("leafdir", "free") = {}
        /\ pc' = [pc EXCEPT ![Main] = "drain"]
        /\ UNCHANGED <<place, disk>>
  /\ UNCHANGED <<busy, wanted, openCnt, idle, rotor, cur, woken, fixed, crashed, ip, ops,
                 fdVars, createVars, abort>>

(* The creating thread waits for the allocation threads.                   *)
CreateEnds ==
  /\ pc[Main] = "drain" /\ paraCnt <= 0
  /\ pc' = [pc EXCEPT ![Main] = IF paraCnt < 0 THEN "failed" ELSE "done"]
  /\ UNCHANGED <<entryVars, rotor, disk, cur, woken, fixed, crashed, ip, ops, fdVars,
                 createVars, abort>>

(***************************************************************************)
(* A worker thread runs its list of flowops (flowop_start): a flowop that  *)
(* fails ends the run, one that finds no entry ends its thread or the run. *)
(***************************************************************************)
Position(t) == (ip[t] % Len(script[t])) + 1
Finish(t, s) ==
  /\ pc' = [pc EXCEPT ![t] = IF s = "ok" THEN "next"
                            ELSE IF s = "leak" THEN "leaked" ELSE "stopped"]
  /\ ip' = [ip EXCEPT ![t] = IF s = "ok" THEN Position(t) ELSE @]
  /\ ops' = [ops EXCEPT ![t] = IF s = "ok" THEN @ + 1 ELSE @]
  /\ abort' = (abort \/ s \in {"error", "leak"} \/ (s = "norsc" /\ ~env.allDone))

(* fileset_pick on behalf of thread t.                                     *)
Pick(t) ==
  LET f == CurOp(t)
      r == PickOf(f.op)
      i == IF f.indexed THEN 0 .. Count[r[1]] ELSE {rotor[r]}
  IN
  /\ woken' = woken \ {t}
  /\ \/ /\ PickWaits(r[1])
        /\ pc' = [pc EXCEPT ![t] = "pickwait"]
        /\ UNCHANGED <<entryVars, cur, rotor, tfFse, ip, ops, abort>>
     \/ /\ ~PickWaits(r[1])
        /\ rotor' = IF f.indexed THEN rotor ELSE Rotate(r)
        /\ \/ /\ \E j \in i : PickEntry(t, r[1], r[2], j)
              /\ pc' = [pc EXCEPT ![t] = "fscall"]
              /\ tfFse' = IF f.op \in {"open", "io", "create"}
                          THEN [tfFse EXCEPT ![t][f.fd] = cur'[t]] ELSE tfFse
              /\ UNCHANGED <<ip, ops, abort>>
           \/ /\ PickEmpty(r[1], r[2])
              /\ Finish(t, IF f.op = "listdir" THEN "error" ELSE "norsc")
              /\ UNCHANGED <<entryVars, cur, tfFse>>

(* Mutant: closefile takes the entry although it is busy.                  *)
GrabNoWait(t, e) ==
  /\ woken' = woken \ {t}
  /\ cur' = [cur EXCEPT ![t] = e]
  /\ busy' = busy \cup {e}
  /\ idle' = IF CurOp(t).op = "delete" \/ openCnt[e] = 1
             THEN [idle EXCEPT !["file"] = @ - 1] ELSE idle
  /\ pc' = [pc EXCEPT ![t] = "fscall"]
  /\ UNCHANGED <<wanted, place, openCnt>>

(* Mutant: the idle count goes down before the wait as well.               *)
GrabCountsEarly(t, e) ==
  /\ woken' = woken \ {t}
  /\ cur' = [cur EXCEPT ![t] = e]
  /\ idle' = IF CurOp(t).op = "delete" \/ openCnt[e] = 1
             THEN [idle EXCEPT !["file"] = @ - 1] ELSE idle
  /\ \/ /\ e \in busy
        /\ wanted' = wanted \cup {e}
        /\ pc' = [pc EXCEPT ![t] = "busywait"]
        /\ UNCHANGED busy
     \/ /\ e \notin busy
        /\ busy' = busy \cup {e}
        /\ pc' = [pc EXCEPT ![t] = "fscall"]
        /\ UNCHANGED wanted
  /\ UNCHANGED <<place, openCnt>>

(* closefile and deletefile of a given entry wait for it to be idle.       *)
Grab(t, e) ==
  /\ woken' = woken \ {t}
  /\ cur' = [cur EXCEPT ![t] = e]
  /\ \/ /\ e \in busy
        /\ wanted' = wanted \cup {e}
        /\ pc' = [pc EXCEPT ![t] = "busywait"]
        /\ UNCHANGED <<busy, idle>>
     \/ /\ e \notin busy
        /\ busy' = busy \cup {e}
        /\ idle' = IF CurOp(t).op = "delete" \/ openCnt[e] = 1
                   THEN [idle EXCEPT !["file"] = @ - 1] ELSE idle
        /\ pc' = [pc EXCEPT ![t] = "fscall"]
        /\ UNCHANGED wanted
  /\ UNCHANGED <<place, openCnt>>

(* The start of a flowop, up to the first release of the lock.             *)
Start(t) ==
  LET f   == CurOp(t)
      fse == tfFse[t][f.fd]
  IN
  /\ pc[Main] = "done" /\ pc[t] = "next" /\ ~abort /\ ops[t] < MaxOps
  /\ \/ /\ \/ f.op \in {"open", "create"} /\ f.fd \in tfFd[t]
           \/ f.op = "close" /\ f.fd \notin tfFd[t]
        /\ Finish(t, "error")
        /\ UNCHANGED <<entryVars, cur, woken, rotor, tfFse>>
     \/ /\ f.op = "io" /\ f.fd \in tfFd[t]
        /\ Finish(t, "ok")
        /\ UNCHANGED <<entryVars, cur, woken, rotor, tfFse>>
     \/ /\ \/ f.op \in {"open", "create", "io"} /\ f.fd \notin tfFd[t]
           \/ f.op = "delete" /\ (f.fd = 0 \/ fse = None)
           \/ f.op \in {"stat", "makedir", "removedir", "listdir"}
        /\ Pick(t)
     \/ /\ \/ f.op = "close" /\ f.fd \in tfFd[t] /\ fse # None
           \/ f.op = "delete" /\ f.fd > 0 /\ fse # None
        /\ Grab(t, fse)
        /\ tfFse' = IF f.op = "delete" THEN [tfFse EXCEPT ![t][f.fd] = None] ELSE tfFse
        /\ UNCHANGED <<rotor, ip, ops, abort>>
  /\ UNCHANGED <<disk, fixed, crashed, tfFd, createVars>>

(* closefile of a slot whose file was deleted while open follows a NULL    *)
(* fse pointer.                                                            *)
CloseDeleted(t) ==
  /\ pc[Main] = "done" /\ pc[t] = "next" /\ ~abort /\ ops[t] < MaxOps
  /\ CurOp(t).op = "close" /\ CurOp(t).fd \in tfFd[t]
  /\ tfFse[t][CurOp(t).fd] = None
  /\ crashed' = TRUE
  /\ UNCHANGED <<entryVars, rotor, disk, pc, cur, woken, ip, ops, fdVars,
                 createVars, fixed, abort>>

(* A thread returns from pthread_cond_wait and tries again.                *)
Retry(t) ==
  /\ t \in woken
  /\ \/ pc[t] = "pickwait" /\ Pick(t)
     \/ /\ pc[t] = "busywait" /\ Grab(t, cur[t])
        /\ UNCHANGED <<rotor, tfFse, ip, ops, abort>>
  /\ UNCHANGED <<disk, fixed, crashed, tfFd, createVars>>

(***************************************************************************)
(* The file-system call of the flowop, made without the lock.              *)
(***************************************************************************)
(* deletefile leaves a file alone that is open, but for this very thread.  *)
(* Mutant: the open count is not looked at.                                *)
DeletesAlways(t) == TRUE
Deletes(t) ==
  LET fd == CurOp(t).fd IN
  openCnt[cur[t]] <= (IF fd > 0 /\ fd \in tfFd[t] THEN 1 ELSE 0)

FsCall(t) ==
  LET f == CurOp(t)
      e == cur[t]
  IN
  /\ pc[t] = "fscall"
  /\ \/ /\ f.op \in {"open", "io"} /\ e \in disk
        /\ tfFd' = [tfFd EXCEPT ![t] = @ \cup {f.fd}]
        /\ pc' = [pc EXCEPT ![t] = "release"]
        /\ UNCHANGED disk
     \/ /\ f.op = "create"
        /\ tfFd' = [tfFd EXCEPT ![t] = @ \cup {f.fd}]
        /\ disk' = disk \cup {e}
        /\ pc' = [pc EXCEPT ![t] = "release"]
     \/ /\ f.op \in {"open", "io", "create"}
        /\ env.faults \/ (f.op # "create" /\ e \notin disk)
        /\ pc' = [pc EXCEPT ![t] = "openfailed"]
        /\ UNCHANGED <<tfFd, disk>>
     \/ /\ f.op \in {"close", "stat", "listdir", "makedir", "removedir", "delete"}
        /\ pc' = [pc EXCEPT ![t] = IF f.op = "delete" /\ ~Deletes(t)
                                   THEN "spared" ELSE "release"]
        /\ \/ disk' = CASE f.op = "makedir" -> disk \cup {e}
                        [] f.op = "removedir" \/ (f.op = "delete" /\ Deletes(t)) -> disk \ {e}
                        [] OTHER -> disk
           \/ env.faults /\ f.op \in {"makedir", "removedir", "delete"} /\ disk' = disk
        /\ UNCHANGED tfFd
  /\ UNCHANGED <<entryVars, rotor, cur, woken, fixed, crashed, ip, ops, tfFse, createVars, abort>>

(* fileset_mkdir for a new file or FB_OPENDIR failed: the flowop returns   *)
(* with its entry still busy.                                              *)
FailsBusy(t) ==
  /\ env.faults /\ pc[t] = "fscall" /\ CurOp(t).op \in {"create", "listdir"}
  /\ Finish(t, "leak")
  /\ UNCHANGED <<entryVars, rotor, disk, cur, woken, fixed, crashed, fdVars, createVars>>

(* Mutant: createfile releases its entry the way openfile does.            *)
NewPlaceOpened(t) ==
  LET op == CurOp(t).op IN
  IF pc[t] # "release" THEN place[cur[t]]
  ELSE CASE op = "makedir" -> "exist"
         [] op \in {"delete", "removedir"} -> "noex"
         [] OTHER -> place[cur[t]]

(* The end of the flowop: fileset_unbusy with what the call established.   *)
NewPlace(t) ==
  LET op == CurOp(t).op IN
  IF pc[t] # "release" THEN place[cur[t]]
  ELSE CASE op \in {"create", "makedir"}   -> "exist"
         [] op \in {"delete", "removedir"} -> "noex"
         [] OTHER -> place[cur[t]]
(* Mutant: a file that deletefile spares is counted as closed.             *)
OpenIncrSpared(t) ==
  LET op == CurOp(t).op IN
  IF pc[t] = "openfailed" THEN 0
  ELSE CASE op \in {"open", "io", "create"} -> 1
         [] op = "close" \/ pc[t] = "spared" -> -1
         [] op = "delete" -> -openCnt[cur[t]]
         [] OTHER -> 0

OpenIncr(t) ==
  LET op == CurOp(t).op IN
  IF pc[t] # "release" THEN 0
  ELSE CASE op \in {"open", "io", "create"} -> 1
         [] op = "close"  -> -1
         [] op = "delete" -> -openCnt[cur[t]]
         [] OTHER -> 0

Release(t) ==
  /\ pc[t] \in {"release", "openfailed", "spared"}
  /\ Unbusy(cur[t], NewPlace(t), OpenIncr(t))
  /\ tfFd' = IF CurOp(t).op = "close" THEN [tfFd EXCEPT ![t] = @ \ {CurOp(t).fd}] ELSE tfFd
  /\ Finish(t, IF pc[t] = "openfailed" THEN "error" ELSE "ok")
  /\ UNCHANGED <<rotor, disk, cur, fixed, crashed, tfFse, createVars>>

(* fileset_pickreset: all files and leaf directories are in the free       *)
(* trees; directories always exist.                                        *)
PickReset == [e \in Entry |-> IF e[1] = "dir" THEN "exist" ELSE "free"]

(***************************************************************************)
(* The specification.                                                      *)
(***************************************************************************)
Init ==
  /\ place = PickReset
  /\ disk = {e \in Entry : e[1] = "dir"}
  /\ busy = {} /\ wanted = {} /\ openCnt = [e \in Entry |-> 0]
  /\ idle = Count
  /\ rotor = [r \in Rotor |-> 0]
  /\ pc = [a \in Actor |-> IF a = Main THEN "files" ELSE "next"]
  /\ cur = [a \in Actor |-> None] /\ woken = {}
  /\ script \in [Thread -> Script]
  /\ ip = [t \in Thread |-> 1] /\ ops = [t \in Thread |-> 0]
  /\ tfFd = [t \in Thread |-> {}]
  /\ tfFse = [t \in Thread |-> [fd \in Fd |-> None]]
  /\ allocs = [e \in Entry |-> "none"] /\ paraCnt = 0
  /\ env \in Setting
  /\ abort = FALSE /\ crashed = FALSE

Worker(t) ==
  /\ ~crashed
  /\ Start(t) \/ CloseDeleted(t) \/ Retry(t) \/ FsCall(t) \/ FailsBusy(t) \/ Release(t)
Create == CreatePicks \/ CreateSkips \/ CreateAllocates \/ CreateForks
            \/ CreateLeafdir \/ CreateEnds
(* The run is over: the creation failed, or every thread is at its bound   *)
(* or has stopped, or waits while the run is being aborted.                *)
Over ==
  /\ \/ pc[Main] \in {"failed", "leaked"} \/ crashed
     \/ pc[Main] = "done" /\ \A t \in Thread :
          \/ pc[t] \in {"stopped", "leaked"} \/ (pc[t] = "next" /\ (abort \/ ops[t] = MaxOps))
          \/ abort /\ pc[t] \in {"pickwait", "busywait"} /\ t \notin woken
  /\ \A e \in Entry : allocs[e] = "none"
  /\ UNCHANGED vars

Next ==
  \/ Create
  \/ \E e \in Entry : AllocThread(e) \/ AllocThreadExits(e)
  \/ \E t \in Thread : Worker(t)
  \/ Over

Fairness ==
  /\ WF_vars(Create)
  /\ \A e \in Entry : WF_vars(AllocThread(e) \/ AllocThreadExits(e))
  /\ \A t \in Thread : WF_vars(Worker(t))

Spec == Init /\ [][Next]_vars
FairSpec == Spec /\ Fairness

(***************************************************************************)
(* Properties.                                                             *)
(***************************************************************************)
Holding == {"fscall", "release", "openfailed", "spared", "leaked", "alloc", "skip"}

TypeOK ==
  /\ place \in [Entry -> {"free", "exist", "noex"}]
  /\ busy \subseteq Entry /\ wanted \subseteq Entry /\ disk \subseteq Entry
  /\ openCnt \in [Entry -> Nat]
  /\ idle \in [Kind -> Nat]
  /\ rotor \in [Rotor -> Nat]
  /\ pc \in [Actor -> Holding \cup {"next", "stopped", "pickwait", "busywait",
                                    "files", "leafdirs", "drain", "done", "failed"}]
  /\ cur \in [Actor -> Entry \cup {None}] /\ woken \subseteq Actor
  /\ env \in Setting /\ script \in [Thread -> Script]
  /\ ip \in [Thread -> Nat] /\ ops \in [Thread -> 0 .. MaxOps]
  /\ tfFd \in [Thread -> SUBSET Fd]
  /\ tfFse \in [Thread -> [Fd -> Entry \cup {None}]]
  /\ allocs \in [Entry -> {"none", "writing", "ok", "error"}]
  /\ paraCnt \in Int /\ paraCnt <= MaxParalloc
  /\ abort \in BOOLEAN /\ crashed \in BOOLEAN

(* fileset_pick "is returned with its FSE_BUSY flag set": a busy entry is  *)
(* in the hands of exactly one flowop or allocation thread, so that no two *)
(* of them work on the same file at a time.                                *)
Owners(e) == {a \in Actor : pc[a] \in Holding /\ cur[a] = e}
BusyOwned == \A e \in Entry :
  Cardinality(Owners(e)) + (IF allocs[e] = "writing" THEN 1 ELSE 0)
    = (IF e \in busy THEN 1 ELSE 0)

(* fse_open_cnt of an entry that is not busy counts every descriptor slot, *)
(* of all threads, that has it open: what deletefile relies on.  It counts *)
(* more after a deletefile through an open slot, which forgets the entry   *)
(* before it knows whether the file goes away.                             *)
OpenCounted == \A e \in Entry \ busy :
  openCnt[e] >= Cardinality({s \in Thread \X Fd :
                              s[2] \in tfFd[s[1]] /\ tfFse[s[1]][s[2]] = e})

(* The trees say what is on disk: an entry that is not busy is in the      *)
(* exist tree exactly when the file system has it, as long as no call      *)
(* fails; so openfile never meets a missing file.                          *)
DiskAgrees == ~env.faults =>
  /\ \A e \in Entry \ busy : place[e] = "exist" <=> e \in disk
  /\ \A t \in Thread : pc[t] # "openfailed"

(* The idle counts never fall short of the entries that are not busy: a    *)
(* thread that waits in fileset_pick waits because every one is busy.      *)
IdleNotShort == \A k \in Kind :
  idle[k] >= Cardinality({e \in Entry : e[1] = k /\ e \notin busy})

(* fileset_createsets returns only when every entry has been allocated or  *)
(* left out, with none of them busy or counted as open.                    *)
CreateComplete == pc[Main] = "done" =>
  /\ \A e \in Entry : place[e] # "free" /\ allocs[e] = "none"
  /\ (\A t \in Thread : ops[t] = 0 /\ pc[t] = "next") =>
       busy = {} /\ idle = Count /\ ~(\E e \in Entry : openCnt[e] # 0)

(* A list deletes through an open slot at most once: a second deletefile   *)
(* would find the slot without an entry, pick any file, and allow for a    *)
(* descriptor of its own on it that is not there (flowop_library.c:1967).  *)
DeletesOnce == \A t \in Thread :
  pc[t] = "next" /\ CurOp(t).op = "delete" /\ CurOp(t).fd > 0 /\ CurOp(t).fd \in tfFd[t]
    => tfFse[t][CurOp(t).fd] # None

(* What flowops rely on: fse_open_cnt covers every slot that refers to the *)
(* entry (deletefile), and workers start after the whole set exists        *)
(* (fileset_create); of the lists, that they delete through a slot once.   *)
EntriesReady == TypeOK /\ OpenCounted /\ CreateComplete /\ DeletesOnce

(* deletefile: "don't delete if anyone (other than me) has file open".     *)
DeletesUnopened == [][
  \A e \in disk \ disk' : \A t \in Thread, fd \in Fd :
     fd \in tfFd[t] /\ tfFse[t][fd] = e => pc[t] = "fscall" /\ cur[t] = e]_vars

(* A flowop that waits for an entry goes on, unless the run is aborted or  *)
(* its process dies.                                                       *)
Waiting(t) == pc[t] \in {"pickwait", "busywait"}
FlowopReturns == \A t \in Thread :
  Waiting(t) ~> (abort \/ crashed \/ ~Waiting(t))

(* fileset.h: fs_idle_files is the "number of files NOT busy".             *)
IdleIsNotBusy == \A k \in Kind :
  idle[k] = Cardinality({e \in Entry : e[1] = k /\ e \notin busy})
=============================================================================
