---------------------------- MODULE RunControl ----------------------------
(* A filebench run: the master process (its main thread and the process    *)
(* creator thread), the worker processes it forks and their threads        *)
(* (procflow.c, threadflow.c, flowop.c, misc.c, parser_gram.y).            *)
(*                                                                         *)
(* Processes share one memory: shm_f_abort, shm_procs_running, the run     *)
(* lock the master holds as a reader until everybody has started, the      *)
(* procflow list and the mutex that protects it.  That mutex is of the     *)
(* NORMAL flavour (ipc.c): a process that dies with it never gives it      *)
(* back.  A sleep is a step without a clock, so every timeout may expire.  *)
(* At most one fault of the kind `fault' happens in a run: a fork that     *)
(* fails, a worker or a thread for which there is no shared memory left, a *)
(* worker that dies, a flowop that calls filebench_shutdown() in the       *)
(* worker, or an interrupt of the master.                                  *)
EXTENDS Integers, Sequences, FiniteSets, SequencesExt

CONSTANTS Procs,      \* the worker processes in the order they are created
          Thread,     \* the worker threads
          RunSettings,\* the runs tried: mode, periodic statistics, kind of
                      \* fault, home of each thread
          MaxOps,     \* operations a thread completes before it finds no file
          WaitSeconds \* SHUTDOWN_WAIT_SECONDS

VARIABLES run,   \* the setting of this run
          shm,   \* the shared memory
          pf,    \* the worker processes
          th,    \* the worker threads
          job,   \* where the main thread, the creator and a worker that
                 \* shuts the run down are
          out    \* what the run has shown to its user, and the ghosts

vars == <<run, shm, pf, th, job, out>>

Proc == Range(Procs)
Actor == {"main", "creator"} \union Proc
Nobody == "nobody"

OK == 0
ERROR == 1
DONE == 2
RSRC == 3
FINI == 4

Count == Cardinality({run.home[t] : t \in Thread})
Used == {Procs[i] : i \in 1 .. Count}
ThreadsOf(p) == {t \in Thread : run.home[t] = p}
Alive(p) == pf[p].st \in {"forked", "threads", "join", "leave"}
MasterUp == job["main"].pc # "exited"

---------------------------------------------------------------------------
(* The state before proc_create().                                         *)

At(pc, goal) == [pc |-> pc, goal |-> goal, rest |-> <<>>, cnt |-> 0, left |-> 0]

Init ==
  /\ run \in RunSettings
  /\ shm = [abort |-> OK, procs |-> 0, runLock |-> FALSE, defined |-> FALSE,
            quiet |-> FALSE, lock |-> Nobody, tlock |-> FALSE, list |-> <<>>]
  /\ pf = [p \in Proc |-> [st |-> "none", running |-> FALSE, tdefined |-> FALSE,
                           status |-> 0]]
  /\ th = [t \in Thread |-> [st |-> "none", ops |-> 0, abort |-> FALSE]]
  /\ job = [a \in Actor |-> At(IF a = "main" THEN "create" ELSE "off", "none")]
  /\ out = [code |-> -1, reported |-> FALSE, results |-> "none", faulted |-> FALSE,
            failed |-> FALSE, early |-> FALSE]

Go(a, pc) == job' = [job EXCEPT ![a].pc = pc]

(* The process is gone with every thread it had; a mutex it holds stays.    *)
Dies(p, status) ==
  /\ pf' = [pf EXCEPT ![p].st = "zombie", ![p].status = status]
  /\ th' = [t \in Thread |-> IF t \in ThreadsOf(p) /\ th[t].st # "gone"
                             THEN [th[t] EXCEPT !.st = "killed"] ELSE th[t]]

---------------------------------------------------------------------------
(* The main thread, up to the run lock.                                     *)

(* proc_create() up to the wait in procflow_init().                        *)
ProcCreate ==
  /\ job["main"].pc = "create"
  /\ shm' = [shm EXCEPT !.abort = OK, !.runLock = TRUE, !.defined = FALSE]
  /\ job' = [job EXCEPT !["main"].pc = "init", !["creator"].pc = "fork"]
  /\ UNCHANGED <<run, pf, th, out>>

(* The wait ends; procflow_allstarted() takes the procflow lock and keeps   *)
(* it while it looks at every process and thread.                          *)
ProcflowInit ==
  /\ job["main"].pc = "init"
  /\ shm.defined
  /\ shm.lock = Nobody
  /\ shm' = [shm EXCEPT !.lock = "main"]
  /\ Go("main", "allstarted")
  /\ UNCHANGED <<run, pf, th, out>>

(* threadflow_allstarted() for every process: a thread has set tf_running,  *)
(* or ten seconds passed, or the run is being aborted.  Then the processes  *)
(* on the list are counted.                                                 *)
AllStarted ==
  /\ job["main"].pc = "allstarted"
  /\ ~ shm.tlock
  /\ shm' = [shm EXCEPT !.procs = Len(shm.list), !.lock = Nobody]
  /\ Go("main", "unlock")
  /\ UNCHANGED <<run, pf, th, out>>

(* The end of proc_create(): the barrier opens.                             *)
ReleaseRunLock ==
  /\ job["main"].pc = "unlock"
  /\ shm' = [shm EXCEPT !.runLock = FALSE]
  /\ Go("main", "check")
  /\ UNCHANGED <<run, pf, th, out>>

---------------------------------------------------------------------------
(* The creator thread.                                                      *)

Next1 == Procs[Len(shm.list) + 1]

(* procflow_define_common(): the new procflow is the head of the list.      *)
DefineCommon(p) == <<p>> \o shm.list

(* procflow_createproc() for one instance.                                  *)
CreateProc ==
  /\ job["creator"].pc = "fork"
  /\ Len(shm.list) < Count
  /\ shm' = [shm EXCEPT !.list = DefineCommon(Next1)]
  /\ pf' = [pf EXCEPT ![Next1] = [st |-> "forked", running |-> FALSE,
                                  tdefined |-> FALSE, status |-> 0]]
  /\ UNCHANGED <<run, th, job, out>>

(* fork() fails: the procflow is on the list already, the loop stops.       *)
CreateProcFails ==
  /\ job["creator"].pc = "fork"
  /\ Len(shm.list) < Count
  /\ run.fault = "fork"
  /\ ~ out.faulted
  /\ shm' = [shm EXCEPT !.list = DefineCommon(Next1)]
  /\ out' = [out EXCEPT !.faulted = TRUE]
  /\ Go("creator", "threads")
  /\ UNCHANGED <<run, pf, th>>

CreatedAll ==
  /\ job["creator"].pc = "fork"
  /\ Len(shm.list) = Count
  /\ Go("creator", "threads")
  /\ UNCHANGED <<run, shm, pf, th, out>>

MutThreadsDefined ==
  /\ job["creator"].pc = "threads"
  /\ pf[shm.list[1]].tdefined
  /\ shm' = [shm EXCEPT !.defined = TRUE]
  /\ Go("creator", "waitid")
  /\ UNCHANGED <<run, pf, th, out>>

(* The waits for pf_threads_defined_flag of every procflow on the list.     *)
ThreadsDefined ==
  /\ job["creator"].pc = "threads"
  /\ \A p \in Range(shm.list) : pf[p].tdefined
  /\ shm' = [shm EXCEPT !.defined = TRUE]
  /\ Go("creator", "waitid")
  /\ UNCHANGED <<run, pf, th, out>>

(* waitid() returns a child that has exited, or fails without children.     *)
WaitChild(p) ==
  /\ job["creator"].pc = "waitid"
  /\ pf[p].st = "zombie"
  /\ pf' = [pf EXCEPT ![p].st = "reaped"]
  /\ job' = [job EXCEPT !["creator"].pc = "child", !["creator"].rest = <<p>>]
  /\ UNCHANGED <<run, shm, th, out>>

NoChild ==
  /\ job["creator"].pc = "waitid"
  /\ \A p \in Proc : pf[p].st \in {"none", "reaped"}
  /\ Go("creator", "off")
  /\ UNCHANGED <<run, shm, pf, th, out>>

MutChildExited ==
  /\ job["creator"].pc = "child"
  /\ shm.lock = Nobody
  /\ Go("creator", IF shm.abort # OK THEN "off" ELSE "waitid")
  /\ UNCHANGED <<run, shm, pf, th, out>>

(* What the creator does about the child it has waited for.                 *)
ChildExited ==
  /\ job["creator"].pc = "child"
  /\ shm.lock = Nobody
  /\ LET bad == pf[job["creator"].rest[1]].status # 0
         quit == shm.abort # OK
         idle == ~ quit /\ shm.procs = 0
     IN /\ shm' = [shm EXCEPT !.abort = IF idle THEN RSRC ELSE @]
        /\ out' = [out EXCEPT !.reported = @ \/ (~ quit /\ ~ idle /\ bad)]
        /\ job' = [job EXCEPT !["creator"] =
                     At(IF quit \/ idle THEN "off" ELSE IF bad THEN "mark" ELSE "waitid",
                        IF quit \/ idle \/ ~ bad THEN "none" ELSE "exit1")]
  /\ UNCHANGED <<run, pf, th>>

---------------------------------------------------------------------------
(* A worker process.                                                        *)

(* procflow_find().                                                         *)
Found(p) == p \in Range(shm.list)

(* worker_mode() exits with 1 only when procflow_exec() returns less than   *)
(* 0, which it does when the procflow is not found: else it returns the     *)
(* sum of the threads' tf_abort flags.                                      *)
WorkerMode(p, found) == Dies(p, IF found THEN 0 ELSE 1)

(* procflow_exec() up to pf_running.                                        *)
ProcflowExec(p) ==
  /\ pf[p].st = "forked"
  /\ shm.lock = Nobody
  /\ IF Found(p)
     THEN /\ pf' = [pf EXCEPT ![p].st = "threads", ![p].running = TRUE]
          /\ UNCHANGED th
     ELSE WorkerMode(p, FALSE)
  /\ UNCHANGED <<run, shm, job, out>>

(* threadflow_init() up to the flag, under shm_threadflow_lock.             *)
ThreadflowInit(p) ==
  /\ pf[p].st = "threads"
  /\ ~ shm.tlock
  /\ pf' = [pf EXCEPT ![p].st = "join", ![p].tdefined = TRUE]
  /\ th' = [t \in Thread |-> IF t \in ThreadsOf(p)
                             THEN [th[t] EXCEPT !.st = "created"] ELSE th[t]]
  /\ UNCHANGED <<run, shm, job, out>>

(* threadflow_define_common() fails: it returns with the lock held and the  *)
(* flag not set, and procflow_exec() with less than 0.                      *)
ThreadflowInitFails(p) ==
  /\ pf[p].st = "threads"
  /\ ~ shm.tlock
  /\ run.fault = "threads"
  /\ ~ out.faulted
  /\ out' = [out EXCEPT !.faulted = TRUE]
  /\ shm' = [shm EXCEPT !.tlock = TRUE, !.procs = @ - 1]
  /\ pf' = [pf EXCEPT ![p].st = "zombie", ![p].running = FALSE, ![p].status = 1]
  /\ UNCHANGED <<run, th, job>>

(* The join loop has joined every thread.                                   *)
ThreadsJoined(p) ==
  /\ pf[p].st = "join"
  /\ \A t \in ThreadsOf(p) : th[t].st = "gone"
  /\ pf' = [pf EXCEPT ![p].st = "leave", ![p].running = FALSE]
  /\ UNCHANGED <<run, shm, th, job, out>>

(* The end of procflow_exec().                                              *)
ProcflowReturn(p) ==
  /\ pf[p].st = "leave"
  /\ shm' = [shm EXCEPT !.procs = @ - 1]
  /\ WorkerMode(p, TRUE)
  /\ UNCHANGED <<run, job, out>>

(* A worker dies without being asked to.                                    *)
Crash(p) ==
  /\ run.fault = "crash"
  /\ ~ out.faulted
  /\ Alive(p)
  /\ out' = [out EXCEPT !.faulted = TRUE, !.early = shm.abort = OK]
  /\ Dies(p, 2)
  /\ UNCHANGED <<run, shm, job>>

---------------------------------------------------------------------------
(* A worker thread: flowop_start().                                         *)

SetTh(t, st) == th' = [th EXCEPT ![t].st = st]

(* The runtime flowops exist; tf_running is set.                            *)
ThreadReady(t) ==
  /\ th[t].st = "created"
  /\ SetTh(t, "ready")
  /\ UNCHANGED <<run, shm, pf, job, out>>

(* flowop_create_runtime_flowops() fails: filebench_shutdown(1), and the    *)
(* thread returns.                                                          *)
ThreadUnready(t) ==
  /\ th[t].st = "created"
  /\ run.fault = "flowops"
  /\ ~ out.faulted
  /\ out' = [out EXCEPT !.faulted = TRUE]
  /\ SetTh(t, "unready")
  /\ job' = [job EXCEPT ![run.home[t]] = At("mark", "exit1")]
  /\ UNCHANGED <<run, shm, pf>>

(* The write lock of the run lock is granted and given back.                *)
PassBarrier(t) ==
  /\ th[t].st = "ready"
  /\ ~ shm.runLock
  /\ SetTh(t, "loop")
  /\ UNCHANGED <<run, shm, pf, job, out>>

LoopAborts(t) ==
  /\ th[t].st = "loop"
  /\ th[t].abort \/ shm.abort # OK
  /\ SetTh(t, "stopping")
  /\ UNCHANGED <<run, shm, pf, job, out>>

BeginOp(t) ==
  /\ th[t].st = "loop"
  /\ ~ th[t].abort
  /\ shm.abort = OK
  /\ ~ shm.quiet
  /\ shm.procs # 0
  /\ SetTh(t, "op")
  /\ UNCHANGED <<run, shm, pf, job, out>>

(* FILEBENCH_OK, and the next turn of the loop.                             *)
OpOk(t) ==
  /\ th[t].st = "op"
  /\ th[t].ops < MaxOps
  /\ th' = [th EXCEPT ![t].st = "loop", ![t].ops = @ + 1]
  /\ UNCHANGED <<run, shm, pf, job, out>>

Quit(t, reason) ==
  /\ th' = [th EXCEPT ![t].st = "stopping", ![t].abort = TRUE]
  /\ shm' = [shm EXCEPT !.abort = reason]
  /\ UNCHANGED <<run, pf, job>>

(* FILEBENCH_ERROR: the flowop failed, the run stops.                       *)
OpError(t) ==
  /\ th[t].st = "op"
  /\ Quit(t, ERROR)
  /\ out' = [out EXCEPT !.failed = TRUE]

(* FILEBENCH_NORSC: the end of this thread, of the run, or an error.        *)
OpNoResource(t) ==
  /\ th[t].st = "op"
  /\ Quit(t, IF run.mode = "first" THEN RSRC
             ELSE IF run.mode = "timeout" THEN ERROR ELSE shm.abort)
  /\ out' = [out EXCEPT !.failed = @ \/ run.mode = "timeout"]

(* FILEBENCH_DONE: the run stops without error.                             *)
OpDone(t) ==
  /\ th[t].st = "op"
  /\ Quit(t, DONE)
  /\ UNCHANGED out

(* The flowop calls filebench_shutdown(1) in the worker.                    *)
OpFatal(t) ==
  /\ th[t].st = "op"
  /\ run.fault = "fatal"
  /\ ~ out.faulted
  /\ out' = [out EXCEPT !.faulted = TRUE]
  /\ SetTh(t, "fatal")
  /\ job' = [job EXCEPT ![run.home[t]] = At("mark", "exit1")]
  /\ UNCHANGED <<run, shm, pf>>

(* flowop_destruct_all_flows() and pthread_exit().                          *)
ThreadExit(t) ==
  /\ th[t].st = "stopping"
  /\ SetTh(t, "gone")
  /\ UNCHANGED <<run, shm, pf, job, out>>

---------------------------------------------------------------------------
(* The main thread from the barrier on: parser_run().                       *)

(* A run already stopping is taken for one that did not start.              *)
CheckStartup ==
  /\ job["main"].pc = "check"
  /\ Go("main", IF shm.abort # OK THEN "tail" ELSE "pause")
  /\ UNCHANGED <<run, shm, pf, th, out>>

(* parser_pause(): the time is over, in the mode that has one, or f_abort.  *)
Pause ==
  /\ job["main"].pc = "pause"
  /\ shm.abort # OK \/ run.mode = "timeout"
  /\ Go("main", "snap")
  /\ UNCHANGED <<run, shm, pf, th, out>>

(* parser_psrun(): the end of a period prints and goes on.                  *)
PausePeriod ==
  /\ job["main"].pc = "pause"
  /\ run.periodic
  /\ shm.abort = OK
  /\ job' = [job EXCEPT !["main"] = At("snap", "again")]
  /\ UNCHANGED <<run, shm, pf, th, out>>

(* proc_shutdown(), after the last stats_snap() of the run.                 *)
ProcShutdown(goal) == IF goal = "again" THEN At("pause", "none") ELSE At("count", "tail")

(* stats_snap(): no results after an error, else the threads are held back. *)
StatsSnap ==
  /\ job["main"].pc = "snap"
  /\ IF shm.abort = ERROR
     THEN /\ job' = [job EXCEPT !["main"] = ProcShutdown(@.goal)]
          /\ out' = [out EXCEPT !.results = "invalid"]
          /\ UNCHANGED shm
     ELSE /\ shm' = [shm EXCEPT !.quiet = TRUE]
          /\ Go("main", "snapping")
          /\ UNCHANGED out
  /\ UNCHANGED <<run, pf, th>>

StatsPrinted ==
  /\ job["main"].pc = "snapping"
  /\ shm' = [shm EXCEPT !.quiet = FALSE]
  /\ out' = [out EXCEPT !.results = "valid"]
  /\ job' = [job EXCEPT !["main"] = ProcShutdown(@.goal)]
  /\ UNCHANGED <<run, pf, th>>

(* parser_filebench_shutdown(), after the run or at the end of the script.  *)
ParserShutdown ==
  /\ job["main"].pc = "tail"
  /\ job' = [job EXCEPT !["main"] = IF shm.abort = ERROR THEN At("mark", "exit1")
                                    ELSE At("count", "exit0")]
  /\ UNCHANGED <<run, shm, pf, th, out>>

(* SIGINT: parser_abort() on top of whatever the main thread was doing.     *)
Interrupt ==
  /\ run.fault = "interrupt"
  /\ ~ out.faulted
  /\ job["main"].pc \notin {"create", "exited"}
  /\ out' = [out EXCEPT !.faulted = TRUE]
  /\ job' = [job EXCEPT !["main"] = At("mark", "exit1")]
  /\ UNCHANGED <<run, shm, pf, th>>

---------------------------------------------------------------------------
(* filebench_shutdown() and procflow_shutdown(), by any actor.              *)

(* filebench_shutdown(1) notes the error, unless the run is over: then it   *)
(* returns to its caller.                                                   *)
ShutdownMark(a) ==
  /\ job[a].pc = "mark"
  /\ shm.lock = Nobody
  /\ IF shm.abort = FINI
     THEN /\ job' = [job EXCEPT ![a] = At(CASE a = "creator" -> "waitid"
                                            [] a = "main" -> "tail"
                                            [] OTHER -> "off", "none")]
          /\ th' = [t \in Thread |->
                       IF a \in Proc /\ th[t].st \in {"fatal", "unready"} /\ run.home[t] = a
                       THEN [th[t] EXCEPT !.st = IF @ = "fatal" THEN "stopping" ELSE "gone"]
                       ELSE th[t]]
          /\ UNCHANGED shm
     ELSE /\ shm' = [shm EXCEPT !.abort = ERROR]
          /\ Go(a, "count")
          /\ UNCHANGED th
  /\ UNCHANGED <<run, pf, out>>

(* procflow_shutdown(): nothing to do when nobody is counted.               *)
ShutdownCount(a) ==
  /\ job[a].pc = "count"
  /\ Go(a, IF shm.procs <= 0 THEN "end" ELSE "lock")
  /\ UNCHANGED <<run, shm, pf, th, out>>

ShutdownLock(a) ==
  /\ job[a].pc = "lock"
  /\ shm.lock = Nobody
  /\ IF shm.abort = FINI
     THEN /\ Go(a, "end")
          /\ UNCHANGED shm
     ELSE /\ shm' = [shm EXCEPT !.lock = a, !.abort = IF @ = OK THEN DONE ELSE @]
          /\ job' = [job EXCEPT ![a].pc = "sleep", ![a].rest = shm.list,
                                ![a].cnt = WaitSeconds, ![a].left = WaitSeconds]
  /\ UNCHANGED <<run, pf, th, out>>

(* procflow_sleep(): `pf_running & wait_cnt' is a bitwise and of a flag.    *)
Sleeps(a) == pf[job[a].rest[1]].running /\ job[a].left % 2 = 1

ShutdownSleep(a) ==
  /\ job[a].pc = "sleep"
  /\ job[a].rest # <<>>
  /\ Sleeps(a)
  /\ job' = [job EXCEPT ![a].left = @ - 1]
  /\ UNCHANGED <<run, shm, pf, th, out>>

(* The loop body's end: procflow_cleanup() and the next procflow.           *)
NextProcflow(a, j) ==
  [j EXCEPT !.pc = "sleep", !.rest = SubSeq(j.rest, 2, Len(j.rest)),
            !.cnt = IF @ > 0 THEN @ - 1 ELSE @,
            !.left = IF j.cnt > 0 THEN j.cnt - 1 ELSE j.cnt]

Cleanup(q) == SelectSeq(shm.list, LAMBDA p : p # q)

(* A process that is not running any more is only cleaned up.               *)
ShutdownStopped(a) ==
  /\ job[a].pc = "sleep"
  /\ job[a].rest # <<>>
  /\ ~ pf[job[a].rest[1]].running
  /\ shm' = [shm EXCEPT !.list = Cleanup(job[a].rest[1])]
  /\ job' = [job EXCEPT ![a] = NextProcflow(a, job[a])]
  /\ UNCHANGED <<run, pf, th, out>>

(* kill(pid, SIGUSR1).  The handler procflow_cancel() is the master's: a    *)
(* worker has replaced its image since, so the signal terminates it.  A     *)
(* worker that reaches itself on the list ends here, holding the lock.      *)
ShutdownKill(a) ==
  /\ job[a].pc = "sleep"
  /\ job[a].rest # <<>>
  /\ pf[job[a].rest[1]].running
  /\ ~ Sleeps(a)
  /\ LET q == job[a].rest[1]
     IN /\ IF Alive(q) THEN Dies(q, 2) ELSE UNCHANGED <<pf, th>>
        /\ job' = [job EXCEPT ![a].pc = IF q = a THEN "off" ELSE "wait"]
  /\ UNCHANGED <<run, shm, out>>

(* procflow_wait(): waitpid() takes what has exited of the master's own     *)
(* children; a worker has none.  Then procflow_cleanup().                   *)
ShutdownWait(a) ==
  /\ job[a].pc = "wait"
  /\ LET q == job[a].rest[1]
     IN /\ pf' = [p \in Proc |->
                    [pf[p] EXCEPT !.st = IF a \notin Proc /\ @ = "zombie" THEN "reaped" ELSE @,
                                  !.running = @ /\ p # q]]
        /\ shm' = [shm EXCEPT !.list = Cleanup(q)]
        /\ job' = [job EXCEPT ![a] = NextProcflow(a, job[a])]
  /\ UNCHANGED <<run, th, out>>

ShutdownFini(a) ==
  /\ job[a].pc = "sleep"
  /\ job[a].rest = <<>>
  /\ shm' = [shm EXCEPT !.abort = FINI, !.lock = Nobody]
  /\ Go(a, "zero")
  /\ UNCHANGED <<run, pf, th, out>>

ShutdownZero(a) ==
  /\ job[a].pc = "zero"
  /\ shm' = [shm EXCEPT !.procs = 0]
  /\ Go(a, "end")
  /\ UNCHANGED <<run, pf, th, out>>

(* proc_shutdown() returns; filebench_shutdown() ends the process, which in *)
(* the master takes the other thread with it.                               *)
ShutdownEnd(a) ==
  /\ job[a].pc = "end"
  /\ IF job[a].goal = "tail"
     THEN Go(a, "tail") /\ UNCHANGED <<pf, th, out>>
     ELSE IF a \in Proc
     THEN Go(a, "off") /\ Dies(a, 1) /\ UNCHANGED out
     ELSE /\ job' = [job EXCEPT !["main"].pc = "exited", !["creator"].pc = "exited"]
          /\ out' = [out EXCEPT !.code = IF job[a].goal = "exit1" THEN 1 ELSE 0]
          /\ UNCHANGED <<pf, th>>
  /\ UNCHANGED <<run, shm>>

---------------------------------------------------------------------------
Acting(a) == a \in Proc => Alive(a)

Shutdown(a) ==
  /\ Acting(a)
  /\ \/ ShutdownMark(a) \/ ShutdownCount(a) \/ ShutdownLock(a) \/ ShutdownSleep(a)
     \/ ShutdownStopped(a) \/ ShutdownKill(a) \/ ShutdownWait(a) \/ ShutdownFini(a)
     \/ ShutdownZero(a) \/ ShutdownEnd(a)

Main ==
  \/ ProcCreate \/ ProcflowInit \/ AllStarted \/ ReleaseRunLock
  \/ CheckStartup \/ Pause \/ PausePeriod \/ StatsSnap \/ StatsPrinted \/ ParserShutdown

Creator ==
  \/ CreateProc \/ CreatedAll \/ ThreadsDefined \/ NoChild \/ ChildExited
  \/ \E p \in Proc : WaitChild(p)

Worker(p) ==
  \/ ProcflowExec(p) \/ ThreadflowInit(p) \/ ThreadsJoined(p) \/ ProcflowReturn(p)

Op(t) == OpOk(t) \/ OpError(t) \/ OpNoResource(t) \/ OpDone(t)

Runner(t) ==
  \/ ThreadReady(t) \/ PassBarrier(t) \/ LoopAborts(t) \/ BeginOp(t) \/ Op(t)
  \/ ThreadExit(t)

Fault ==
  \/ CreateProcFails \/ Interrupt
  \/ \E p \in Proc : ThreadflowInitFails(p) \/ Crash(p)
  \/ \E t \in Thread : ThreadUnready(t) \/ OpFatal(t)

Next ==
  \/ Main \/ Creator \/ Fault
  \/ \E p \in Proc : Worker(p)
  \/ \E t \in Thread : Runner(t)
  \/ \E a \in Actor : Shutdown(a)

(* Every process and thread is scheduled again and again; a thread held     *)
(* back while statistics are printed gets its turn between two snapshots,   *)
(* which are ten seconds apart.                                             *)
Fairness ==
  /\ WF_vars(Main)
  /\ WF_vars(Creator)
  /\ \A p \in Proc : WF_vars(Worker(p))
  /\ \A t \in Thread : SF_vars(Runner(t))
  /\ \A a \in Actor : WF_vars(Shutdown(a))

Spec == Init /\ [][Next]_vars /\ Fairness

---------------------------------------------------------------------------
TypeOK ==
  /\ shm.abort \in OK .. FINI
  /\ shm.procs \in -Len(Procs) .. Len(Procs)
  /\ {shm.runLock, shm.tlock, shm.defined, shm.quiet} \subseteq BOOLEAN
  /\ shm.lock \in Actor \union {Nobody}
  /\ Range(shm.list) \subseteq Proc
  /\ \A p \in Proc : pf[p].st \in {"none", "forked", "threads", "join", "leave",
                                   "zombie", "reaped"}
  /\ \A t \in Thread : th[t].ops \in 0 .. MaxOps
  /\ out.code \in -1 .. 1

Running(t) == th[t].st \in {"loop", "op", "stopping", "fatal"}

(* No thread executes a flowop before the threads of every process have     *)
(* been created and the processes have been counted: the run lock and the   *)
(* two flags make one barrier (procflow.c:206-217, flowop.c:448-458).       *)
StartTogether ==
  \A t \in Thread : Running(t) =>
     /\ \A u \in Thread : th[u].st # "none"
     /\ job["main"].pc \notin {"create", "init", "allstarted", "unlock"}

(* When procflow_allstarted() walks the list every process on it has set    *)
(* pf_running: its thirty-second wait is never taken.                       *)
NobodyToWaitFor ==
  job["main"].pc = "allstarted" => \A p \in Range(shm.list) : pf[p].running

(* From the count in procflow_allstarted() to the end of the shutdown,      *)
(* shm_procs_running is the number of processes that have not come back     *)
(* from procflow_exec(), whichever order they leave in.                     *)
CountIsExact ==
  (/\ job["main"].pc \in {"unlock", "check", "pause", "snap", "snapping"}
   /\ ~ out.faulted)
  => shm.procs = Cardinality({p \in Used : Alive(p)})

(* The master exits without leaving a worker behind that still has threads  *)
(* to run, also when the run is over before parser_run() looks at it.       *)
NoOrphans ==
  (~ MasterUp /\ ~ out.faulted) =>
     \A p \in Proc : pf[p].st \in {"none", "leave", "zombie", "reaped"}

(* A run without a fault ends, in every mode and whatever the flowops       *)
(* return: the thread that waits for f_abort is told (procflow.c:366-372).  *)
RunEnds == run.fault = "none" ~> ~ MasterUp

(* A worker that dies unexpectedly is reported before the master exits      *)
(* (the comment of procflow_createnwait, procflow.c:327).                   *)
DeathReported == (~ MasterUp /\ out.early /\ run.fault = "crash") => out.reported

(* A flowop that calls filebench_shutdown() "stops the run and exits        *)
(* filebench" (misc.c:176).                                                 *)
FatalEnds == (run.fault = "fatal" /\ out.faulted) ~> ~ MasterUp

(* Results are not printed "if run ended in error" (stats.c:98).            *)
ErrorInvalidates ==
  [][(job["main"].pc = "snap" /\ job'["main"].pc = "snapping") => ~ out.failed]_vars
===========================================================================
