----------------------------- MODULE BenchThreads -----------------------------
(***************************************************************************)
(* db_bench: Benchmark::RunBenchmark and ThreadBody (db/db_bench.cc).  The *)
(* main thread starts n threads, waits until all are initialized, lets     *)
(* them start, and waits until all are done; SharedState has the counters, *)
(* a mutex and one condition variable for both directions.  Then the       *)
(* threads' Stats are merged, reported and freed.                          *)
(*                                                                         *)
(* A thread's work is Ops operations, or, for thread 0 of                  *)
(* readwhilewriting, writing until the others are done.                    *)
(***************************************************************************)
EXTENDS Integers, FiniteSets

CONSTANTS
  N,           \* num_threads
  Ops          \* operations of a thread

Tid == 0..(N - 1)
Main == -1

VARIABLES
  method,      \* "each", or "rww" (ReadWhileWriting)
  pc,          \* of the main thread and of each worker
  waiting,     \* who sleeps on shared.cv
  num_initialized, num_done, start,
  done,        \* each thread's stats.done_
  merged       \* arg[0].thread->stats.done_ after the merge

vars == <<method, pc, waiting, num_initialized, num_done, start, done, merged>>

(* SignalAll, and Wait: sleep in the same step that gives up the mutex.    *)
Awake(p) == p \notin waiting

MutInitialize(i) ==
  /\ pc[i] = "init"
  /\ num_initialized' = num_initialized + 1
  /\ waiting' = (IF num_initialized + 1 > N THEN {} ELSE waiting)
                \union (IF start THEN {} ELSE {i})
  /\ pc' = [pc EXCEPT ![i] = IF start THEN "run" ELSE "wait"]
  /\ UNCHANGED <<method, num_done, start, done, merged>>

(* ThreadBody's first critical section.                                    *)
Initialize(i) ==
  /\ pc[i] = "init"
  /\ num_initialized' = num_initialized + 1
  /\ waiting' = (IF num_initialized + 1 >= N THEN {} ELSE waiting)
                \union (IF start THEN {} ELSE {i})
  /\ pc' = [pc EXCEPT ![i] = IF start THEN "run" ELSE "wait"]
  /\ UNCHANGED <<method, num_done, start, done, merged>>

(* A worker's wait loop.                                                   *)
WaitStart(i) ==
  /\ pc[i] = "wait" /\ Awake(i)
  /\ IF start
       THEN pc' = [pc EXCEPT ![i] = "run"] /\ UNCHANGED waiting
       ELSE waiting' = waiting \union {i} /\ UNCHANGED pc
  /\ UNCHANGED <<method, num_initialized, num_done, start, done, merged>>

(* The method's loop: FinishedSingleOp after each operation.               *)
RunOp(i) ==
  /\ pc[i] = "run"
  /\ ~(method = "rww" /\ i = 0)
  /\ done[i] < Ops
  /\ done' = [done EXCEPT ![i] = @ + 1]
  /\ UNCHANGED <<method, pc, waiting, num_initialized, num_done, start, merged>>

(* ReadWhileWriting of thread 0 looks at the counters under the mutex, and *)
(* writes as long as somebody else is not done.  Its own Stats are reset.  *)
WriteWhileReading(i) ==
  /\ pc[i] = "run" /\ method = "rww" /\ i = 0
  /\ num_done + 1 >= num_initialized
  /\ pc' = [pc EXCEPT ![i] = "finish"]
  /\ UNCHANGED <<method, waiting, num_initialized, num_done, start, done, merged>>

MethodReturns(i) ==
  /\ pc[i] = "run"
  /\ ~(method = "rww" /\ i = 0)
  /\ done[i] = Ops
  /\ pc' = [pc EXCEPT ![i] = "finish"]
  /\ UNCHANGED <<method, waiting, num_initialized, num_done, start, done, merged>>

(* ThreadBody's second critical section.                                   *)
Finish(i) ==
  /\ pc[i] = "finish"
  /\ num_done' = num_done + 1
  /\ waiting' = IF num_done + 1 >= N THEN {} ELSE waiting
  /\ pc' = [pc EXCEPT ![i] = "gone"]
  /\ UNCHANGED <<method, num_initialized, start, done, merged>>

(* RunBenchmark: wait for the threads, let them start.                     *)
MainStart ==
  /\ pc[Main] = "init" /\ Awake(Main)
  /\ IF num_initialized < N
       THEN waiting' = waiting \union {Main} /\ UNCHANGED <<pc, start>>
       ELSE /\ start' = TRUE
            /\ waiting' = {}
            /\ pc' = [pc EXCEPT ![Main] = "wait"]
  /\ UNCHANGED <<method, num_initialized, num_done, done, merged>>

(* ... wait until all are done.                                            *)
MainWait ==
  /\ pc[Main] = "wait" /\ Awake(Main)
  /\ IF num_done < N
       THEN waiting' = waiting \union {Main} /\ UNCHANGED pc
       ELSE pc' = [pc EXCEPT ![Main] = "report"] /\ UNCHANGED waiting
  /\ UNCHANGED <<method, num_initialized, num_done, start, done, merged>>

(* Stats::Merge, one thread after the other.                               *)
Total(n) ==
  LET sum[i \in 0..n] == IF i = 0 THEN done[0] ELSE done[i] + sum[i - 1]
  IN sum[n]

(* Stats::Merge of threads 1..n-1 into thread 0's, Report, and the frees.  *)
MainReport ==
  /\ pc[Main] = "report"
  /\ merged' = Total(N - 1)
  /\ pc' = [pc EXCEPT ![Main] = "gone"]
  /\ UNCHANGED <<method, waiting, num_initialized, num_done, start, done>>

(* A condition variable may wake up without a signal.                      *)
SpuriousWakeup(p) ==
  /\ p \in waiting
  /\ waiting' = waiting \ {p}
  /\ UNCHANGED <<method, pc, num_initialized, num_done, start, done, merged>>

Init ==
  /\ method \in {"each", "rww"}
  /\ pc = [p \in Tid \union {Main} |-> "init"]
  /\ waiting = {} /\ num_initialized = 0 /\ num_done = 0 /\ start = FALSE
  /\ done = [i \in Tid |-> 0] /\ merged = 0

Worker(i) ==
  \/ Initialize(i) \/ WaitStart(i) \/ RunOp(i) \/ WriteWhileReading(i)
  \/ MethodReturns(i) \/ Finish(i)
MainThread == MainStart \/ MainWait \/ MainReport

Next ==
  \/ \E i \in Tid : Worker(i)
  \/ MainThread
  \/ \E p \in Tid \union {Main} : SpuriousWakeup(p)

Spec == Init /\ [][Next]_vars

(* Every thread is scheduled.                                              *)
Fairness == WF_vars(MainThread) /\ \A i \in Tid : WF_vars(Worker(i))

-----------------------------------------------------------------------------
TypeOK ==
  /\ waiting \subseteq Tid \union {Main}
  /\ num_initialized \in 0..N /\ num_done \in 0..N
  /\ done \in [Tid -> 0..Ops]

(* No thread measures before all are initialized, and the Stats are merged *)
(* and freed only when no thread touches them any more.                    *)
BenchStartsTogether ==
  /\ (\E i \in Tid : pc[i] \in {"run", "finish", "gone"}) => num_initialized = N
  /\ pc[Main] \in {"report", "gone"} => \A i \in Tid : pc[i] = "gone"

(* The report counts every operation of every reading thread once.         *)
ReportComplete ==
  pc[Main] = "gone" => merged = Ops * (IF method = "rww" THEN N - 1 ELSE N)

(* The benchmark ends: no signal is lost in either direction, and the      *)
(* writer of readwhilewriting notices that the readers are done.           *)
BenchmarkReturns == <>(pc[Main] = "gone")
=============================================================================
