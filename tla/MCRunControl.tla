----------------------------- MODULE MCRunControl -----------------------------
(***************************************************************************)
(* RunControl for model checking: two processes with a thread each, or one *)
(* with both, under the ways a run may end and the faults the code handles.*)
(***************************************************************************)
EXTENDS RunControl

TwoProcs == <<"p1", "p2">>
InOne == [t \in {"t1", "t2"} |-> "p1"]
OneEach == [t1 |-> "p1", t2 |-> "p2"]

Settings ==
  [mode : {"timeout"}, periodic : {FALSE}, fault : {"fork", "flowops", "fatal"}, home : {InOne}]
  \union [mode : {"timeout"}, periodic : {FALSE}, fault : {"threads"}, home : {OneEach}]
  \union [mode : {"timeout"}, periodic : {TRUE}, fault : {"none"}, home : {InOne}]
  \union [mode : {"all"}, periodic : {TRUE}, fault : {"none"}, home : {OneEach}]
  \union [mode : {"all"}, periodic : {FALSE}, fault : {"crash"}, home : {OneEach}]
  \union [mode : {"first"}, periodic : {FALSE}, fault : {"none"}, home : {OneEach}]
  \union [mode : {"first"}, periodic : {FALSE}, fault : {"interrupt"}, home : {InOne}]

(* The processes and threads of a run keep in step: no thread executes a   *)
(* flowop before all are created and counted (procflow.c:206-217,          *)
(* flowop.c:448-458), procflow_allstarted() has nobody to wait for,        *)
(* shm_procs_running counts the processes still in procflow_exec(), and    *)
(* the master exits without leaving a worker with threads to run.          *)
RunInStep == TypeOK /\ StartTogether /\ NobodyToWaitFor /\ CountIsExact /\ NoOrphans
=============================================================================
