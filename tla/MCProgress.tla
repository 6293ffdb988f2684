------------------------------ MODULE MCProgress ------------------------------
(***************************************************************************)
(* What has to happen eventually: calls of Write return, scheduled work    *)
(* runs, a benchmark reports, and whoever waits for a filebench event,     *)
(* semaphore or wakeup is released.  which names the component             *)
(* of a behaviour, and its variables are laid on the slots s1, s2, ...;    *)
(* each component has the fairness its module states.                      *)
(***************************************************************************)
EXTENDS Integers, Sequences, FiniteSets, TLC

VARIABLES which, s1, s2, s3, s4, s5, s6, s7, s8, s9, s10, s11, s12,
          s13, s14, s15, s16, s17, s18, s19, s20, s21, s22, s23

From9 == <<s9, s10, s11, s12, s13, s14, s15, s16, s17, s18, s19, s20, s21, s22, s23>>
From8 == <<s8, From9>>
From7 == <<s7, From8>>
From6 == <<s6, From7>>
From5 == <<s5, From6>>
vars == <<which, s1, s2, s3, s4, From5>>

Rest9 == /\ s9 = 0 /\ s10 = 0 /\ s11 = 0 /\ s12 = 0 /\ s13 = 0 /\ s14 = 0 /\ s15 = 0 /\ s16 = 0
         /\ s17 = 0 /\ s18 = 0 /\ s19 = 0 /\ s20 = 0 /\ s21 = 0 /\ s22 = 0 /\ s23 = 0

-----------------------------------------------------------------------------
(* DB::Write: three threads, one call each, no faults.                     *)
Writers == {"t1", "t2", "t3"}
Requests ==
  {[null |-> FALSE, n |-> 2, sync |-> FALSE],
   [null |-> FALSE, n |-> 1, sync |-> TRUE],
   [null |-> TRUE, n |-> 0, sync |-> FALSE]}
D == INSTANCE DBWrite WITH
       Thread <- Writers, Request <- Requests,
       MaxCount <- 2, MaxOps <- 1, WriteBufferSize <- 1, SmallBatch <- 1, MaxBatch <- 3,
       L0CompactionTrigger <- 1, L0SlowdownTrigger <- 1, L0StopTrigger <- 1, Faults <- FALSE,
       writers <- s1, pc <- s2, req <- s3, opno <- s4, since <- s5, done <- s6, status <- s7,
       woken <- s8, leader <- s9, todo <- s10, lastSeq <- s11, mem <- s12, imm <- s13,
       hasImm <- s14, tables <- s15, numL0 <- s16, picked <- s17, bg <- s18, closing <- s19,
       alive <- s20, logged <- s21, synced <- s22, acked <- s23

(* PosixEnv::Schedule: two databases.                                      *)
Databases == {"d1", "d2"}
E == INSTANCE EnvSchedule WITH
       DB <- Databases, MaxItems <- 2, NoDB <- "none",
       queue <- s1, started <- s2, bg <- s3, signalled <- s4, work <- s5, scheduled <- s6, ran <- s7

(* RunBenchmark: three threads.                                            *)
B == INSTANCE BenchThreads WITH
       N <- 3, Ops <- 2,
       method <- s1, pc <- s2, waiting <- s3, num_initialized <- s4, num_done <- s5, start <- s6,
       done <- s7, merged <- s8

(* smallfile and largefile: two cores, directories that divide the files   *)
(* and ones that do not, a core --prep was not told of, too many keys.     *)
Small(perCpu, dirs, files, sync, fault) ==
  [programs |-> <<"small">>, perCpu |-> perCpu, total |-> 2, dirs |-> dirs, files |-> files,
   sync |-> sync, blocks |-> 0, workers |-> 2, fault |-> fault]
Large(perCpu, total, fault) ==
  [programs |-> <<"create", "overwrite">>, perCpu |-> perCpu, total |-> total, dirs |-> 1,
   files |-> 0, sync |-> "NONE", blocks |-> 2, workers |-> 1, fault |-> fault]
BenchSetups ==
  {Small(FALSE, 2, 4, "CREATE_UNLINK", FALSE), Small(TRUE, 2, 4, "UNLINK", FALSE),
   Small(FALSE, 2, 3, "NONE", FALSE), Small(FALSE, 2, 1, "FSYNC", FALSE),
   Small(TRUE, 1, 2, "FSYNC", TRUE), Large(FALSE, 2, FALSE), Large(TRUE, 1, FALSE),
   Large(TRUE, 2, TRUE), [Small(FALSE, 1, 1, "NONE", FALSE) EXCEPT !.workers = 3]}
S == INSTANCE ScalefsBench WITH
       Core <- {0, 1}, Setups <- BenchSetups, MaxKeys <- 2,
       set <- s1, prep <- s2, fs <- s3, cl <- s4, coord <- s5, round <- s6

(* The event generator and the limiters: two threads.                      *)
Limit(kind) == [kind |-> kind, target |-> TRUE, clears |-> 0, finish |-> 0, ops |-> 2]
Limits == {Limit("iops"), Limit("ops"), Limit("event"), Limit("bw")}
Consumers == {"x1", "x2"}
L == INSTANCE RateLimit WITH
       Consumer <- Consumers, Rate <- 1, MB <- 2, IOSize <- 3, MaxPost <- 2,
       LimitSettings <- Limits,
       set <- s1, gen <- s2, total <- s3, c <- s4

(* block, wakeup, semblock and sempost: two targets, two posters.          *)
Sync(kind, blocking, value, high, timeouts) ==
  [kind |-> kind, blocking |-> blocking, value |-> value, high |-> high, timeouts |-> timeouts,
   sems |-> 5, named |-> TRUE]
Syncs ==
  {Sync("sem", TRUE, 1, 2, 0), Sync("sem", TRUE, 2, 1, 1), Sync("sem", FALSE, 2, 1, 0),
   Sync("cond", FALSE, 1, 1, 0), [Sync("sem", TRUE, 1, 2, 0) EXCEPT !.sems = 3],
   [Sync("sem", FALSE, 1, 1, 0) EXCEPT !.named = FALSE], [Sync("cond", FALSE, 1, 1, 0) EXCEPT !.named = FALSE]}
Blocks == <<"b1", "b2">>
Posters == {"p1", "p2"}
F == INSTANCE FlowopSync WITH
       Targets <- Blocks, Poster <- Posters, SemMax <- 5, SyncSettings <- Syncs,
       set <- s1, semids <- s2, sem <- s3, tgt <- s4, post <- s5

-----------------------------------------------------------------------------
Init ==
  \/ which = "write" /\ D!Init
  \/ which = "schedule" /\ E!Init /\ s8 = 0 /\ Rest9
  \/ which = "bench" /\ B!Init /\ Rest9
  \/ which = "scalefs" /\ S!Init /\ s7 = 0 /\ s8 = 0 /\ Rest9
  \/ which = "limit" /\ L!Init /\ s5 = 0 /\ s6 = 0 /\ s7 = 0 /\ s8 = 0 /\ Rest9
  \/ which = "sync" /\ F!Init /\ s6 = 0 /\ s7 = 0 /\ s8 = 0 /\ Rest9

(* A step of component w.                                                  *)
In(w) == which = w /\ UNCHANGED which

Next ==
  \/ In("write") /\ D!Next
  \/ In("schedule") /\ E!Next /\ UNCHANGED From8
  \/ In("bench") /\ B!Next /\ UNCHANGED From9
  \/ In("scalefs") /\ S!Next /\ UNCHANGED From7
  \/ In("limit") /\ L!Next /\ UNCHANGED From5
  \/ In("sync") /\ F!Next /\ UNCHANGED From6

(* The fairness of each component, as its module states it.  which never   *)
(* changes, so a condition on steps of several components is one on those  *)
(* of the behaviour's own.                                                 *)
Weak(k) ==
  \/ In("write") /\ k \in 1 .. 3 /\ D!ThreadStep(<<"t1", "t2", "t3">>[k])
  \/ In("write") /\ k = 4 /\ D!BackgroundStep
  \/ In("write") /\ k = 5 /\ D!CloseResumes
  \/ In("schedule") /\ k = 1 /\ E!BackgroundThreadMain /\ UNCHANGED From8
  \/ In("schedule") /\ k = 2 /\ E!RunItem /\ UNCHANGED From8
  \/ In("bench") /\ k \in 1 .. 3 /\ B!Worker(k - 1) /\ UNCHANGED From9
  \/ In("bench") /\ k = 4 /\ B!MainThread /\ UNCHANGED From9
  \/ In("scalefs") /\ k \in 1 .. 2 /\ S!Client(k - 1) /\ UNCHANGED From7
  \/ In("scalefs") /\ k = 3 /\ S!Around /\ UNCHANGED From7
  \/ In("limit") /\ k = 1 /\ L!Generator /\ UNCHANGED From5

Strong(k) ==
  \/ In("limit") /\ k \in 1 .. 2 /\ L!Step(<<"x1", "x2">>[k]) /\ UNCHANGED From5
  \/ In("sync") /\ k \in 1 .. 2 /\ F!TargetStep(<<"b1", "b2">>[k]) /\ UNCHANGED From6
  \/ In("sync") /\ k \in 3 .. 4 /\ F!PosterStep(<<"p1", "p2">>[k - 2]) /\ UNCHANGED From6

Fairness == (\A k \in 1 .. 5 : WF_vars(Weak(k))) /\ (\A k \in 1 .. 4 : SF_vars(Strong(k)))

Spec == Init /\ [][Next]_vars /\ Fairness

-----------------------------------------------------------------------------
(* Every call of DBImpl::Write returns, through stalls, the level-0 stop   *)
(* and the deletion of the database (stated for one of the threads, which  *)
(* the code does not tell apart; so are the two like it below), and a full *)
(* memtable is flushed unless the database is being deleted                *)
(* (MaybeScheduleCompaction, BackgroundCall).  In groups of up to three    *)
(* batches, Write still refines AtomicWrites, and a synced call returns    *)
(* after its record is durable (BuildBatchGroup).                          *)
WritesReturn ==
  /\ [](which = "write" => D!TypeOK /\ D!SyncedIfAsked)
  /\ [][which = "write" => D!Abstract!Step]_vars
  /\ (which = "write" /\ s2["t1"] # "idle") ~> (which = "write" => s2["t1"] = "idle")
  /\ (which = "write" /\ s14) ~> (which = "write" => ~s14 \/ s19 # "open")

(* PosixEnv::Schedule, BackgroundThreadMain: an item that is scheduled     *)
(* runs, also when another database's item schedules itself again each     *)
(* time; each runs once; and the thread never sleeps on a queue with work  *)
(* in it.                                                                  *)
ScheduledRuns ==
  /\ [](which = "schedule" => E!TypeOK /\ E!NoSleepOnWork /\ E!NothingDropped)
  /\ \A k \in 1 .. 2 :
       (which = "schedule" /\ s6["d1"] = k) ~> (which = "schedule" => s7["d1"] >= k)

(* db_bench.cc, RunBenchmark and ThreadBody: a benchmark ends; no thread   *)
(* measures before all are initialized, statistics are merged after the    *)
(* last, and the report counts every operation of every reading thread     *)
(* once (Stats::Merge, ReadWhileWriting).  smallfile.cc, largefile.cc: the *)
(* processes that are started all end; they start together, fail for want  *)
(* of no directory if num_dirs divides num_files and never because of each *)
(* other, spread their files evenly, and leave and sync what they say.     *)
BenchmarkReports ==
  /\ [](which = "scalefs" => S!Safe)
  /\ (which = "scalefs" /\ s5.go) ~> (which = "scalefs" => S!Ended(0) /\ S!Ended(1))
  /\ [](which = "bench" => B!TypeOK /\ B!BenchStartsTogether /\ B!ReportComplete)
  /\ which = "bench" ~> (which = "bench" => s2[-1] = "gone")

(* A thread waiting for events the queue can hold gets them (eventgen.c:   *)
(* 121); one that waits in semblock or block is released as long as the    *)
(* posters keep posting, and a blocking poster keeps going round its list  *)
(* (flowoplib_block, flowoplib_semblock, flowoplib_sempost).  With         *)
(* blocking posts, posts not yet passed and room left add up to the high   *)
(* water mark, plus one value for every wait whose timeout was ignored.    *)
WaitersReleased ==
  /\ [](which = "limit" => L!TypeOK)
  /\ [](which = "sync" => F!TypeOK /\ F!TokensConserved)
  /\ (which = "limit" /\ L!Served("x1")) ~> (which = "limit" => L!Free("x1"))
  /\ \A t \in {"b1", "b2"} :
       (which = "sync" /\ F!Waits(t)) ~> (which = "sync" => F!Passed(t))
  /\ \A i \in 1 .. 2 : []<>(which = "sync" => F!PostsTo("p1", i))
=============================================================================
