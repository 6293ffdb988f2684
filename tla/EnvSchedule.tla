----------------------------- MODULE EnvSchedule -----------------------------
(***************************************************************************)
(* PosixEnv::Schedule and BackgroundThreadMain (util/env_posix.cc): one    *)
(* background thread, started by the first call, for all the databases of  *)
(* the process.  A caller holds background_work_mutex_ for the whole of    *)
(* Schedule.  A work item is a database's BGWork, which may schedule the   *)
(* next one when it runs (db_impl.cc, BackgroundCall); a database has at   *)
(* most one scheduled (background_compaction_scheduled_).                  *)
(***************************************************************************)
EXTENDS Integers, Sequences

CONSTANTS
  DB,          \* the databases of the process
  MaxItems,    \* bound on the items of each database
  NoDB

VARIABLES
  queue,       \* background_work_queue_
  started,     \* started_background_thread_
  bg,          \* the background thread: "none", "start", "wait", "run"
  signalled,   \* a Signal has reached the waiting thread
  work,        \* the database whose item runs
  scheduled,   \* per database: the items scheduled so far
  ran          \* per database: the items that have run

vars == <<queue, started, bg, signalled, work, scheduled, ran>>

MutSchedule(d) ==
  /\ scheduled[d] < MaxItems
  /\ scheduled' = [scheduled EXCEPT ![d] = @ + 1]
  /\ started' = TRUE
  /\ bg' = IF started THEN bg ELSE "start"
  /\ signalled' = (signalled \/ (Len(queue) = 1 /\ bg = "wait"))
  /\ queue' = Append(queue, d)

(* Schedule: start the thread once, signal when the queue is empty, push.  *)
Schedule(d) ==
  /\ scheduled[d] < MaxItems
  /\ scheduled' = [scheduled EXCEPT ![d] = @ + 1]
  /\ started' = TRUE
  /\ bg' = IF started THEN bg ELSE "start"
  /\ signalled' = (signalled \/ (queue = <<>> /\ bg = "wait"))
  /\ queue' = Append(queue, d)

(* MaybeScheduleCompaction of a thread that writes: only when the          *)
(* database has nothing scheduled.                                         *)
ScheduleCall(d) ==
  /\ scheduled[d] = ran[d]
  /\ Schedule(d)
  /\ UNCHANGED <<work, ran>>

(* Under the mutex: take the front item, or wait, which gives the mutex up *)
(* in the same step.                                                       *)
TakeItem ==
  IF queue = <<>>
    THEN bg' = "wait" /\ signalled' = FALSE /\ UNCHANGED <<queue, work>>
    ELSE bg' = "run" /\ work' = Head(queue) /\ queue' = Tail(queue) /\ UNCHANGED signalled

(* BackgroundThreadMain: the top of the loop, and a wait that ends because *)
(* it was signalled or spuriously.                                         *)
BackgroundThreadMain ==
  /\ bg = "start" \/ (bg = "wait" /\ signalled)
  /\ TakeItem
  /\ UNCHANGED <<started, scheduled, ran>>

SpuriousWakeup ==
  /\ bg = "wait" /\ ~signalled
  /\ TakeItem
  /\ UNCHANGED <<started, scheduled, ran>>

(* background_work_function(background_work_arg), which may schedule again *)
(* before it returns.                                                      *)
RunItem ==
  /\ bg = "run"
  /\ ran' = [ran EXCEPT ![work] = @ + 1]
  /\ work' = NoDB
  /\ \/ bg' = "start" /\ UNCHANGED <<queue, started, signalled, scheduled>>
     \/ /\ scheduled[work] < MaxItems
        /\ scheduled' = [scheduled EXCEPT ![work] = @ + 1]
        /\ queue' = Append(queue, work)
        /\ bg' = "start"
        /\ UNCHANGED <<started, signalled>>

Init ==
  /\ queue = <<>> /\ started = FALSE /\ bg = "none" /\ signalled = FALSE
  /\ work = NoDB
  /\ scheduled = [d \in DB |-> 0] /\ ran = [d \in DB |-> 0]

Next ==
  \/ \E d \in DB : ScheduleCall(d)
  \/ BackgroundThreadMain \/ SpuriousWakeup \/ RunItem

Spec == Init /\ [][Next]_vars

(* The thread runs, and a work item returns; no spurious wakeup is owed.   *)
Fairness == WF_vars(BackgroundThreadMain) /\ WF_vars(RunItem)

-----------------------------------------------------------------------------
TypeOK ==
  /\ queue \in Seq(DB)
  /\ bg \in {"none", "start", "wait", "run"}
  /\ work \in DB \union {NoDB}
  /\ \A d \in DB : ran[d] <= scheduled[d] /\ scheduled[d] <= MaxItems

(* The thread never sleeps on a queue with work in it, although Schedule   *)
(* signals before it pushes and only when the queue was empty.             *)
NoSleepOnWork ==
  queue # <<>> => bg # "none" /\ (bg = "wait" => signalled)

(* Each database's items run once each: what was scheduled has run, runs,  *)
(* or waits in the queue.                                                  *)
NothingDropped ==
  \A d \in DB :
    scheduled[d] = ran[d] + (IF work = d THEN 1 ELSE 0)
                   + Len(SelectSeq(queue, LAMBDA x : x = d))

(* No database starves: an item that is scheduled runs, also when another  *)
(* database's item schedules itself again each time.                       *)
ScheduledRuns ==
  \A d \in DB, k \in 1..MaxItems : (scheduled[d] = k) ~> (ran[d] >= k)
=============================================================================
