------------------------------- MODULE DBWrite -------------------------------
(***************************************************************************)
(* The write path of leveldb's DBImpl (db/db_impl.cc): the queue of        *)
(* writers with group commit (Write, BuildBatchGroup), the throttling and  *)
(* memtable switch in MakeRoomForWrite, the background thread that flushes *)
(* the immutable memtable and compacts level 0 (MaybeScheduleCompaction,   *)
(* BackgroundCall, CompactMemTable, DoCompactionWork), and the destructor. *)
(*                                                                         *)
(* Every action is one critical section of mutex_, or one step that the    *)
(* code takes with the mutex released.  A thread asleep on a condition     *)
(* variable has woken = FALSE until somebody signals it.                   *)
(*                                                                         *)
(* RecordBackgroundError (676) throws; no code under src/ catches, so the  *)
(* process ends: alive = FALSE.  bg_error_ is therefore never read non-OK  *)
(* by a later step and is not a variable.                                  *)
(***************************************************************************)
EXTENDS Integers, Sequences, FiniteSets

CONSTANTS
  Thread,              \* client threads that call DB::Write
  Request,             \* the calls they make: [null, n, sync]
  MaxCount,            \* bound on the updates in one batch
  MaxOps,              \* bound on the calls of one thread
  WriteBufferSize,     \* options_.write_buffer_size, in entries
  SmallBatch,          \* 128 << 10 of BuildBatchGroup, in entries
  MaxBatch,            \* 1 << 20 of BuildBatchGroup, in entries
  L0CompactionTrigger, \* config::kL0_CompactionTrigger
  L0SlowdownTrigger,   \* config::kL0_SlowdownWritesTrigger
  L0StopTrigger,       \* config::kL0_StopWritesTrigger
  Faults               \* whether calls to the file system may fail

ASSUME RequestAssumption ==
  /\ MaxCount \in Nat
  /\ Request \subseteq [null : BOOLEAN, n : 0 .. MaxCount, sync : BOOLEAN]

ASSUME BoundAssumption ==
  /\ MaxOps \in Nat /\ WriteBufferSize \in Nat
  /\ SmallBatch \in Nat /\ MaxBatch \in Nat
  /\ Faults \in BOOLEAN

ASSUME TriggerAssumption ==
  /\ L0CompactionTrigger \in Nat \ {0}
  /\ L0SlowdownTrigger \in Nat /\ L0StopTrigger \in Nat
  /\ L0CompactionTrigger <= L0StopTrigger

(* The calls of the runs: a batch of two updates, a synced update, and the *)
(* null batch of TEST_CompactMemTable.                                     *)
AllRequests ==
  {[null |-> FALSE, n |-> 2, sync |-> FALSE],
   [null |-> FALSE, n |-> 1, sync |-> TRUE],
   [null |-> TRUE,  n |-> 0, sync |-> FALSE]}

VARIABLES
  writers,   \* writers_, the queue; a thread stands for its Writer
  pc,        \* where each thread is in Write
  req,       \* the batch and the options of each thread's current call
  opno,      \* the number of calls each thread has started
  since,     \* history: LastSequence at the start of a null call
  done,      \* Writer::done
  status,    \* Writer::status
  woken,     \* FALSE while the thread sleeps on a condition variable
  leader,    \* the locals of Write and MakeRoomForWrite at the front writer
  todo,      \* entries of the front writer's group not yet in mem_
  lastSeq,   \* versions_->LastSequence()
  mem,       \* mem_: a set of entries [seq, op]
  imm,       \* imm_: a set of entries, empty when there is none
  hasImm,    \* has_imm_, equivalent to imm_ != nullptr
  tables,    \* entries in the tables of the current version
  numL0,     \* versions_->NumLevelFiles(0)
  picked,    \* level-0 inputs of the running compaction
  bg,        \* background thread; "idle" iff !background_compaction_scheduled_
  closing,   \* progress of ~DBImpl; not "open" iff shutting_down_
  alive,     \* FALSE once RecordBackgroundError has thrown
  logged,    \* calls in the current log file
  synced,    \* calls in a log file at some moment when it was synced
  acked      \* calls that have returned OK: [op, n, sync]

callVars  == <<req, opno, since>>
queueVars == <<writers, pc, callVars, done, status, woken, leader, todo>>
memVars   == <<mem, imm, hasImm>>
l0Vars    == <<tables, numL0, picked>>
dataVars  == <<lastSeq, memVars, l0Vars>>
bgVars    == <<bg, closing, alive>>
logVars   == <<logged, synced>>
vars      == <<queueVars, dataVars, bgVars, logVars, acked>>

NoReq   == [null |-> TRUE, n |-> 0, sync |-> FALSE]

Op    == Thread \X (1 .. MaxOps)
Entry == [seq : Nat, op : Op]

NeedsCompaction(l0) == l0 >= L0CompactionTrigger

(* MaybeScheduleCompaction: the new value of bg when it is called with     *)
(* has_imm_ = i and l0 level-0 files.                                      *)
MaybeSchedule(b, i, l0) ==
  IF b = "idle" /\ closing = "open" /\ (i \/ NeedsCompaction(l0))
  THEN "scheduled" ELSE b

(* SignalAll on background_work_finished_signal_.                          *)
BgWaiters == {t \in Thread : pc[t] \in {"bgwait", "flushwait"}}
SignalAll ==
  /\ woken' = [t \in Thread |-> woken[t] \/ t \in BgWaiters]
  /\ closing' = IF closing = "waiting" THEN "woken" ELSE closing

(***************************************************************************)
(* BuildBatchGroup.  The updates of the first k writers of queue q are the *)
(* pairs <<i, j>>: the j-th update of the i-th writer.                     *)
(***************************************************************************)
Updates(q, rq, k) ==
  {u \in (1 .. k) \X (1 .. MaxCount) :
     ~rq[q[u[1]]].null /\ u[2] <= rq[q[u[1]]].n}

MaxSize(size) == IF size <= SmallBatch THEN size + SmallBatch ELSE MaxBatch

(* Mutant: a sync write joins a group whose leader does not sync.          *)
JoinsAnySync(q, rq, i) ==
  \/ rq[q[i]].null
  \/ Cardinality(Updates(q, rq, i)) <= MaxSize(rq[q[1]].n)

Joins(q, rq, i) ==
  /\ ~(rq[q[i]].sync /\ ~rq[q[1]].sync)
  /\ \/ rq[q[i]].null
     \/ Cardinality(Updates(q, rq, i)) <= MaxSize(rq[q[1]].n)

(* The position of *last_writer: the loop stops at the first writer that   *)
(* does not join.                                                          *)
LastWriter(q, rq) ==
  1 + Cardinality({i \in 2 .. Len(q) : \A j \in 2 .. i : Joins(q, rq, j)})

(* The group's entries carry consecutive sequence numbers from             *)
(* LastSequence + 1, in queue order and batch order.                       *)
Precedes(u, v) == u[1] < v[1] \/ (u[1] = v[1] /\ u[2] <= v[2])
Rank(q, rq, k, u) == Cardinality({v \in Updates(q, rq, k) : Precedes(v, u)})
GroupEntries(q, rq, k, no) ==
  {[seq |-> lastSeq + Rank(q, rq, k, u), op |-> <<q[u[1]], no[q[u[1]]]>>] :
     u \in Updates(q, rq, k)}

(***************************************************************************)
(* The end of Write: the front writer pops its group of k writers from     *)
(* queue q, hands them status s and signals the new front.                 *)
(***************************************************************************)
Members(q, k) == {q[i] : i \in 1 .. k}
(* Mutant: the new front of the queue is not signalled.                    *)
NoNewFront(q, k) == {}
NewFront(q, k) == IF k < Len(q) THEN {q[k + 1]} ELSE {}
Ack(t, s, rq, no) ==
  IF s = "ok" /\ ~rq[t].null
  THEN acked \cup {[op |-> <<t, no[t]>>, n |-> rq[t].n, sync |-> rq[t].sync]}
  ELSE acked
AfterWrite(t, s, rq) == IF rq[t].null /\ s = "ok" THEN "flushing" ELSE "idle"

(* Mutant: the pop loop runs past last_writer.                             *)
PopOneTooMany(t, q, rq, no, k, s) ==
  LET others == Members(q, k) \ {t} IN
  /\ writers' = SubSeq(q, k + 2, Len(q))
  /\ done'    = [u \in Thread |-> done[u] \/ u \in others]
  /\ status'  = [u \in Thread |-> IF u \in others THEN s ELSE status[u]]
  /\ woken'   = [u \in Thread |-> woken[u] \/ u \in others \cup NewFront(q, k)]
  /\ pc'      = [pc EXCEPT ![t] = AfterWrite(t, s, rq)]
  /\ acked'   = Ack(t, s, rq, no)
  /\ todo'    = {}

PopGroup(t, q, rq, no, k, s) ==
  LET others == Members(q, k) \ {t} IN
  /\ writers' = SubSeq(q, k + 1, Len(q))
  /\ done'    = [u \in Thread |-> done[u] \/ u \in others]
  /\ status'  = [u \in Thread |-> IF u \in others THEN s ELSE status[u]]
  /\ woken'   = [u \in Thread |-> woken[u] \/ u \in others \cup NewFront(q, k)]
  /\ pc'      = [pc EXCEPT ![t] = AfterWrite(t, s, rq)]
  /\ acked'   = Ack(t, s, rq, no)
  /\ todo'    = {}

(* Past MakeRoomForWrite with an OK status: a null batch is done, another  *)
(* one becomes the head of a group and goes to the log.                    *)
StartGroup(t, q, rq, no) ==
  IF rq[t].null
  THEN PopGroup(t, q, rq, no, 1, "ok") /\ UNCHANGED leader
  ELSE LET k == LastWriter(q, rq) IN
       /\ writers' = q
       /\ todo' = GroupEntries(q, rq, k, no)
       /\ leader' = [leader EXCEPT !.last = k,
                       !.seq = lastSeq + Cardinality(Updates(q, rq, k))]
       /\ pc' = [pc EXCEPT ![t] = "logging"]
       /\ UNCHANGED <<done, status, woken, acked>>

(***************************************************************************)
(* MakeRoomForWrite, from one acquisition of the mutex to its release.     *)
(* delay is allow_delay; a switch of memtables leaves an empty mem_, so    *)
(* the loop then ends with room.                                           *)
(***************************************************************************)
SlowDown(delay) == delay /\ numL0 >= L0SlowdownTrigger
HasRoom(force) == ~force /\ Cardinality(mem) <= WriteBufferSize
MustWait == hasImm \/ numL0 >= L0StopTrigger

Suspend(t, q, force, delay, where) ==
  /\ writers' = q
  /\ pc' = [pc EXCEPT ![t] = where]
  /\ leader' = [leader EXCEPT !.force = force, !.delay = delay]
  /\ UNCHANGED <<todo, done, status, acked, memVars, bg, logged>>

SwitchMemTable ==
  /\ imm' = mem
  /\ hasImm' = TRUE
  /\ mem' = {}
  /\ logged' = {}
  /\ bg' = MaybeSchedule(bg, TRUE, numL0)

MakeRoomForWrite(t, q, rq, no, force, delay) ==
  \/ /\ SlowDown(delay)
     /\ Suspend(t, q, force, FALSE, "delayed")
     /\ UNCHANGED woken
  \/ /\ ~SlowDown(delay)
     /\ HasRoom(force)
     /\ StartGroup(t, q, rq, no)
     /\ UNCHANGED <<memVars, bg, logged>>
  \/ /\ ~SlowDown(delay) /\ ~HasRoom(force)
     /\ MustWait
     /\ Suspend(t, q, force, delay, "bgwait")
     /\ woken' = [woken EXCEPT ![t] = FALSE]
  \/ /\ ~SlowDown(delay) /\ ~HasRoom(force) /\ ~MustWait
     /\ SwitchMemTable
     /\ StartGroup(t, q, rq, no)
  \/ /\ ~SlowDown(delay) /\ ~HasRoom(force) /\ ~MustWait
     /\ Faults                       \* NewWritableFile failed
     /\ PopGroup(t, q, rq, no, 1, "error")
     /\ UNCHANGED <<leader, memVars, bg, logged>>

(***************************************************************************)
(* Write, up to the first release of the mutex.                            *)
(***************************************************************************)
Write(t, r) ==
  LET q  == Append(writers, t)
      rq == [req EXCEPT ![t] = r]
      no == [opno EXCEPT ![t] = @ + 1]
  IN
  /\ alive /\ closing = "open"
  /\ pc[t] = "idle" /\ opno[t] < MaxOps
  /\ req' = rq
  /\ opno' = no
  /\ since' = [since EXCEPT ![t] = IF r.null THEN lastSeq ELSE @]
  /\ \/ /\ writers # <<>>
        /\ writers' = q
        /\ pc' = [pc EXCEPT ![t] = "queued"]
        /\ woken' = [woken EXCEPT ![t] = FALSE]
        /\ UNCHANGED <<done, status, leader, todo, acked, memVars, bg, logged>>
     \/ /\ writers = <<>>
        /\ MakeRoomForWrite(t, q, rq, no, r.null, ~r.null)
  /\ UNCHANGED <<lastSeq, l0Vars, closing, alive, synced>>

(* A writer wakes from w.cv: done by another, or at the front of the queue. *)
Wake(t) ==
  /\ alive
  /\ pc[t] = "queued" /\ woken[t]
  /\ \/ /\ done[t]
        /\ pc' = [pc EXCEPT ![t] = AfterWrite(t, status[t], req)]
        /\ acked' = Ack(t, status[t], req, opno)
        /\ done' = [done EXCEPT ![t] = FALSE]      \* the Writer is gone
        /\ UNCHANGED <<writers, status, woken, leader, todo,
                       memVars, bg, logged>>
     \/ /\ ~done[t] /\ t = writers[1]
        /\ MakeRoomForWrite(t, writers, req, opno, req[t].null, ~req[t].null)
     \/ /\ ~done[t] /\ t # writers[1]
        /\ woken' = [woken EXCEPT ![t] = FALSE]
        /\ UNCHANGED <<writers, pc, done, status, leader, todo, acked,
                       memVars, bg, logged>>
  /\ UNCHANGED <<callVars, lastSeq, l0Vars, closing, alive, synced>>

(* The front writer has the mutex again after its 1ms sleep, or after a    *)
(* wait for background work, and goes round MakeRoomForWrite's loop.       *)
Resume(t) ==
  /\ alive
  /\ pc[t] \in {"delayed", "bgwait"} /\ woken[t]
  /\ MakeRoomForWrite(t, writers, req, opno, leader.force, leader.delay)
  /\ UNCHANGED <<callVars, lastSeq, l0Vars, closing, alive, synced>>

(***************************************************************************)
(* The group's work with the mutex released: AddRecord and, if the front   *)
(* writer asks for it, Sync; then InsertInto, one entry at a time.         *)
(***************************************************************************)
GroupOps == {<<writers[i], opno[writers[i]]>> : i \in 1 .. leader.last}

(* Mutant: the sequence number is published before the insertions.         *)
AddRecordPublishes(t) ==
  /\ alive /\ pc[t] = "logging"
  /\ pc' = [pc EXCEPT ![t] = "inserting"]
  /\ logged' = logged \cup GroupOps
  /\ synced' = IF req[t].sync THEN synced \cup logged \cup GroupOps ELSE synced
  /\ lastSeq' = leader.seq
  /\ UNCHANGED <<writers, callVars, done, status, woken, leader, todo,
                 memVars, l0Vars, bgVars, acked>>

AddRecord(t) ==
  /\ alive /\ pc[t] = "logging"
  /\ pc' = [pc EXCEPT ![t] = "inserting"]
  /\ logged' = logged \cup GroupOps
  /\ synced' = IF req[t].sync THEN synced \cup logged \cup GroupOps ELSE synced
  /\ UNCHANGED <<writers, callVars, done, status, woken, leader, todo,
                 dataVars, bgVars, acked>>

AddRecordFails(t) ==
  /\ alive /\ Faults /\ pc[t] = "logging"
  /\ pc' = [pc EXCEPT ![t] = "failed"]
  /\ UNCHANGED <<writers, callVars, done, status, woken, leader, todo,
                 dataVars, bgVars, logVars, acked>>

(* Sync failed: RecordBackgroundError throws out of Write.                 *)
SyncFails(t) ==
  /\ alive /\ Faults /\ pc[t] = "logging" /\ req[t].sync
  /\ alive' = FALSE
  /\ UNCHANGED <<queueVars, dataVars, bg, closing, logVars, acked>>

InsertInto(t) ==
  /\ alive /\ pc[t] = "inserting"
  /\ \E e \in todo :
       /\ \A f \in todo : e.seq <= f.seq
       /\ mem' = mem \cup {e}
       /\ todo' = todo \ {e}
  /\ UNCHANGED <<writers, pc, callVars, done, status, woken, leader,
                 lastSeq, imm, hasImm, l0Vars, bgVars, logVars, acked>>

(* Mutant: SetLastSequence is forgotten.                                   *)
EndWriteUnpublished(t) ==
  /\ alive
  /\ \/ pc[t] = "inserting" /\ todo = {}
     \/ pc[t] = "failed"
  /\ PopGroup(t, writers, req, opno, leader.last,
              IF pc[t] = "failed" THEN "error" ELSE "ok")
  /\ UNCHANGED <<lastSeq, callVars, leader, memVars, l0Vars, bgVars, logVars>>

(* Mutant: the group is told OK although the log write failed.             *)
EndWriteDropsError(t) ==
  /\ alive
  /\ \/ pc[t] = "inserting" /\ todo = {}
     \/ pc[t] = "failed"
  /\ lastSeq' = leader.seq
  /\ PopGroup(t, writers, req, opno, leader.last, "ok")
  /\ UNCHANGED <<callVars, leader, memVars, l0Vars,
                 bgVars, logVars>>

(* The mutex is held again: publish the last sequence number, even when    *)
(* the log write failed, and pop the group.                                *)
EndWrite(t) ==
  /\ alive
  /\ \/ pc[t] = "inserting" /\ todo = {}
     \/ pc[t] = "failed"
  /\ lastSeq' = leader.seq
  /\ PopGroup(t, writers, req, opno, leader.last,
              IF pc[t] = "failed" THEN "error" ELSE "ok")
  /\ UNCHANGED <<callVars, leader, memVars, l0Vars,
                 bgVars, logVars>>

(* TEST_CompactMemTable after its null Write: wait until imm_ is flushed.  *)
FlushWait(t) ==
  /\ alive
  /\ pc[t] = "flushing" \/ (pc[t] = "flushwait" /\ woken[t])
  /\ pc' = [pc EXCEPT ![t] = IF ~hasImm THEN "idle" ELSE "flushwait"]
  /\ woken' = [woken EXCEPT ![t] = ~hasImm]
  /\ UNCHANGED <<writers, callVars, done, status, leader, todo,
                 dataVars, bgVars, logVars, acked>>

(***************************************************************************)
(* The background thread: BackgroundCall with BackgroundCompaction.        *)
(*   scheduled    env_->Schedule has been called                           *)
(*   building     BuildTable of imm_, mutex released                       *)
(*   installing   LogAndApply of that table, mutex released                *)
(*   moving       LogAndApply of a trivial move, mutex released            *)
(*   compacting   the loop of DoCompactionWork, mutex released             *)
(*   cbuilding, cinstalling   CompactMemTable called from that loop        *)
(*   finishing    LogAndApply in InstallCompactionResults                  *)
(***************************************************************************)
bgUnchanged == <<writers, pc, callVars, done, status, leader, todo, lastSeq,
                 mem, logVars, acked>>

(* Mutant: BackgroundCall does not call MaybeScheduleCompaction again.     *)
FinishWithoutReschedule(i, l0) ==
  /\ bg' = "idle"
  /\ SignalAll

(* The end of BackgroundCall, with has_imm_ = i and l0 level-0 files left.   *)
FinishBackground(i, l0) ==
  /\ bg' = MaybeSchedule("idle", i, l0)
  /\ SignalAll

BackgroundCall ==
  /\ alive /\ bg = "scheduled"
  /\ \/ /\ closing # "open"
        /\ FinishBackground(hasImm, numL0)
        /\ UNCHANGED picked
     \/ /\ closing = "open" /\ hasImm
        /\ bg' = "building"
        /\ UNCHANGED <<picked, woken, closing>>
     \/ /\ closing = "open" /\ ~hasImm
        /\ picked' \in 1 .. numL0                   \* PickCompaction
        /\ \/ bg' = "compacting"
           \/ bg' = "moving" /\ picked' = 1          \* IsTrivialMove
        /\ UNCHANGED <<woken, closing>>
  /\ UNCHANGED <<bgUnchanged, imm, hasImm, tables, numL0, alive>>

(* WriteLevel0Table has the mutex back.  A shutdown seen by CompactMemTable *)
(* is an error, and RecordBackgroundError throws.                          *)
TableBuilt ==
  /\ alive /\ bg \in {"building", "cbuilding"}
  /\ IF closing # "open"
     THEN alive' = FALSE /\ UNCHANGED bg
     ELSE /\ bg' = IF bg = "building" THEN "installing" ELSE "cinstalling"
          /\ UNCHANGED alive
  /\ UNCHANGED <<bgUnchanged, woken, closing, imm, hasImm, l0Vars>>

(* CompactMemTable after LogAndApply.  The table goes to level 0 or, by    *)
(* PickLevelForMemTableOutput, below it; an empty one is not added.        *)
InstallTable ==
  /\ alive /\ bg \in {"installing", "cinstalling"}
  /\ tables' = tables \cup imm
  /\ imm' = {}
  /\ hasImm' = FALSE
  /\ numL0' \in IF imm = {} THEN {numL0} ELSE {numL0, numL0 + 1}
  /\ IF bg = "installing"
     THEN FinishBackground(FALSE, numL0')
     ELSE bg' = "compacting" /\ SignalAll
  /\ UNCHANGED <<bgUnchanged, picked, alive>>

(* DoCompactionWork gives the flush of imm_ priority over its own work.    *)
CompactionYields ==
  /\ alive /\ bg = "compacting" /\ hasImm
  /\ bg' = "cbuilding"
  /\ UNCHANGED <<bgUnchanged, woken, closing, alive, imm, hasImm, l0Vars>>

(* The loop ends; "Deleting DB during compaction" is an error that throws. *)
CompactionEnds ==
  /\ alive /\ bg = "compacting"
  /\ IF closing # "open"
     THEN alive' = FALSE /\ UNCHANGED bg
     ELSE bg' = "finishing" /\ UNCHANGED alive
  /\ UNCHANGED <<bgUnchanged, woken, closing, imm, hasImm, l0Vars>>

InstallCompaction ==
  /\ alive /\ bg \in {"moving", "finishing"}
  /\ numL0' = numL0 - picked
  /\ picked' = 0
  /\ FinishBackground(hasImm, numL0')
  /\ UNCHANGED <<bgUnchanged, imm, hasImm, tables, alive>>

(* Any write to a table or to the manifest fails: RecordBackgroundError.   *)
BackgroundFails ==
  /\ alive /\ Faults /\ bg \notin {"idle", "scheduled"}
  /\ alive' = FALSE
  /\ UNCHANGED <<bgUnchanged, woken, closing, bg, imm, hasImm, l0Vars>>

(***************************************************************************)
(* ~DBImpl, which the caller may run when no call is in progress.          *)
(***************************************************************************)
Close ==
  /\ alive /\ closing = "open"
  /\ \A t \in Thread : pc[t] = "idle"
  /\ closing' = IF bg = "idle" THEN "closed" ELSE "waiting"
  /\ UNCHANGED <<bgUnchanged, woken, bg, alive, imm, hasImm, l0Vars>>

CloseResumes ==
  /\ alive /\ closing = "woken"
  /\ closing' = IF bg = "idle" THEN "closed" ELSE "waiting"
  /\ UNCHANGED <<bgUnchanged, woken, bg, alive, imm, hasImm, l0Vars>>

(* The object is deleted, or the process has ended.                        *)
Terminated ==
  /\ closing = "closed" \/ ~alive
  /\ UNCHANGED vars

-----------------------------------------------------------------------------
Init ==
  /\ writers = <<>>
  /\ pc = [t \in Thread |-> "idle"]
  /\ req = [t \in Thread |-> NoReq]
  /\ opno = [t \in Thread |-> 0]
  /\ since = [t \in Thread |-> 0]
  /\ done = [t \in Thread |-> FALSE]
  /\ status = [t \in Thread |-> "ok"]
  /\ woken = [t \in Thread |-> TRUE]
  /\ leader = [force |-> FALSE, delay |-> FALSE, last |-> 0, seq |-> 0]
  /\ todo = {}
  /\ lastSeq = 0
  /\ mem = {} /\ imm = {} /\ hasImm = FALSE /\ tables = {}
  /\ numL0 = 0 /\ picked = 0
  /\ bg = "idle" /\ closing = "open" /\ alive = TRUE
  /\ logged = {} /\ synced = {} /\ acked = {}

ThreadStep(t) ==
  \/ Wake(t) \/ Resume(t)
  \/ AddRecord(t) \/ AddRecordFails(t) \/ SyncFails(t)
  \/ InsertInto(t) \/ EndWrite(t) \/ FlushWait(t)

BackgroundStep ==
  \/ BackgroundCall \/ TableBuilt \/ InstallTable
  \/ CompactionYields \/ CompactionEnds \/ InstallCompaction
  \/ BackgroundFails

Next ==
  \/ \E t \in Thread : (\E r \in Request : Write(t, r)) \/ ThreadStep(t)
  \/ BackgroundStep
  \/ Close \/ CloseResumes \/ Terminated

Spec == Init /\ [][Next]_vars

(* A thread inside a call, the background thread with work and the waiting *)
(* destructor are scheduled eventually; nobody has to make a call.         *)
Fairness ==
  /\ \A t \in Thread : WF_vars(ThreadStep(t))
  /\ WF_vars(BackgroundStep)
  /\ WF_vars(CloseResumes)

FairSpec == Spec /\ Fairness

-----------------------------------------------------------------------------
(* Properties *)

FrontPc == {"delayed", "bgwait", "logging", "inserting", "failed"}
Pc == FrontPc \cup {"idle", "queued", "flushing", "flushwait"}
BgPc == {"idle", "scheduled", "building", "installing", "moving",
         "compacting", "cbuilding", "cinstalling", "finishing"}

Layers == mem \cup imm \cup tables

(* Type correctness of every variable of the write path.                   *)
TypeOK ==
  /\ writers \in Seq(Thread)
  /\ pc \in [Thread -> Pc]
  /\ req \in [Thread -> Request \cup {NoReq}]
  /\ opno \in [Thread -> 0 .. MaxOps]
  /\ since \in [Thread -> Nat]
  /\ done \in [Thread -> BOOLEAN]
  /\ status \in [Thread -> {"ok", "error"}]
  /\ woken \in [Thread -> BOOLEAN]
  /\ leader \in [force : BOOLEAN, delay : BOOLEAN, last : Nat, seq : Nat]
  /\ todo \subseteq Entry
  /\ lastSeq \in Nat
  /\ mem \subseteq Entry /\ tables \subseteq Entry
  /\ imm \subseteq Entry /\ hasImm \in BOOLEAN
  /\ numL0 \in Nat /\ picked \in 0 .. numL0
  /\ bg \in BgPc
  /\ closing \in {"open", "waiting", "woken", "closed"}
  /\ alive \in BOOLEAN
  /\ logged \subseteq Op /\ synced \subseteq Op
  /\ acked \subseteq [op : Op, n : 0 .. MaxCount, sync : BOOLEAN]

(* Write's comment "&w is currently responsible for logging": a thread in  *)
(* MakeRoomForWrite, in the log or in the memtable without the mutex is    *)
(* the front writer, and the queue holds exactly the calls not finished,   *)
(* once each.                                                              *)
FrontOnly ==
  /\ \A t \in Thread : pc[t] \in FrontPc => writers # <<>> /\ t = writers[1]
  /\ \A i, j \in 1 .. Len(writers) : writers[i] = writers[j] => i = j
  /\ \A t \in Thread :
       (\E i \in 1 .. Len(writers) : writers[i] = t) <=>
         (pc[t] \in FrontPc \/ (pc[t] = "queued" /\ ~done[t]))

(* Nobody sleeps for ever: a writer that is done or at the front has been  *)
(* signalled, and a thread asleep on background_work_finished_signal_, or  *)
(* the destructor, has a background call ahead of it that will signal.     *)
NoLostWakeup ==
  alive =>
    /\ \A t \in Thread :
         pc[t] = "queued" /\ (done[t] \/ t = writers[1]) => woken[t]
    /\ \A t \in BgWaiters : woken[t] \/ bg # "idle"
    /\ closing = "waiting" => bg # "idle"

(* MaybeScheduleCompaction is called wherever work appears: while the      *)
(* database is open, a full memtable or a level 0 over its trigger always  *)
(* has a background call scheduled or running.                             *)
WorkIsScheduled ==
  alive /\ closing = "open" /\ (hasImm \/ NeedsCompaction(numL0))
    => bg # "idle"

(* DBImpl::Get and Version::Get stop at the first layer with the key, so   *)
(* every entry of mem_ must be newer than those of imm_, and those newer   *)
(* than the flushed ones; two updates never share a sequence number.       *)
LayersOrdered ==
  /\ \A e \in tables, f \in mem \cup imm : e.seq < f.seq
  /\ \A e \in imm, f \in mem : e.seq < f.seq
  /\ \A e, f \in Layers : e.seq = f.seq => e = f

(* A reader that takes LastSequence as its snapshot sees all of a batch or *)
(* none: no update of a batch with a visible update is beyond the snapshot *)
(* or still to be inserted, whatever the group it was merged into.         *)
BatchAtomic ==
  \A e \in Layers, f \in Layers \cup todo :
    e.op = f.op /\ e.seq <= lastSeq => f.seq <= lastSeq /\ f \notin todo

(* WriteOptions::sync: a call that asked for it and returned OK is in a    *)
(* log file that was synced after its record was added, also when another  *)
(* writer logged it.                                                       *)
SyncedIfAsked ==
  \A a \in acked : a.sync => a.op \in synced

(***************************************************************************)
(* The parts that make the safety properties inductive.                    *)
(***************************************************************************)
ActivePc == {"logging", "inserting", "failed"}
Active == \E t \in Thread : pc[t] \in ActivePc

(* Calls run only while the database is open, a Writer is done only while  *)
(* its thread still waits to see it, and an active group is a prefix of    *)
(* the queue that reserves the numbers up to leader.seq.                   *)
CallsOpen == \A t \in Thread :
  /\ pc[t] # "idle" => opno[t] >= 1 /\ closing = "open"
  /\ done[t] => pc[t] = "queued"
GroupInQueue ==
  Active => leader.last \in 1 .. Len(writers) /\ lastSeq <= leader.seq

(* Entries still to be inserted are newer than every entry there is, and   *)
(* only an active group has entries beyond LastSequence.                   *)
Newest == IF Active THEN leader.seq ELSE lastSeq
TodoIsNewer ==
  /\ ~Active => todo = {}
  /\ \A e \in todo : lastSeq < e.seq /\ e.seq <= leader.seq
  /\ \A e, f \in todo : e.seq = f.seq => e = f
  /\ \A e \in Layers : e.seq <= Newest
  /\ \A e \in Layers, f \in todo : e.seq < f.seq

(* Entries beyond LastSequence belong to the active group; no call still   *)
(* in the queue, and no later one, has a visible entry.                    *)
QueueOps == {<<writers[i], opno[writers[i]]>> : i \in 1 .. Len(writers)}
GroupIsInvisible ==
  /\ \A e \in todo : e.op \in GroupOps
  /\ \A e \in Layers : e.seq > lastSeq => Active /\ e.op \in GroupOps
  /\ \A e \in Layers : e.op[2] <= opno[e.op[1]]
  /\ \A e \in Layers : e.seq <= lastSeq => e.op \notin QueueOps

(* A group with a sync write is led by a sync write; its calls are synced  *)
(* before anyone inserts them or learns that they succeeded.               *)
GroupIsSynced ==
  /\ Active => \A i \in 1 .. leader.last :
                 req[writers[i]].sync => req[writers[1]].sync
  /\ \A t \in Thread :
       pc[t] = "inserting" /\ req[t].sync => GroupOps \subseteq synced
  /\ \A t \in Thread : done[t] /\ status[t] = "ok" /\ req[t].sync
       => <<t, opno[t]>> \in synced

(* Until it is visible, an active group is a batch in front of the queue   *)
(* whose updates are still to be inserted or beyond LastSequence; none is  *)
(* inserted before the log write, or after it failed.                      *)
GroupIsWhole ==
  /\ Active =>
       /\ ~req[writers[1]].null
       /\ leader.seq = lastSeq + Cardinality(Updates(writers, req, leader.last))
       /\ GroupEntries(writers, req, leader.last, opno) = todo \cup {e \in Layers : e.seq > lastSeq}
  /\ \A t \in Thread : pc[t] \in {"logging", "failed"} => \A e \in Layers : e.seq <= lastSeq

(* A batch that another writer logged is visible in full when its thread   *)
(* is told OK, and not at all when it is told of an error.                 *)
Visible == {e \in Layers : e.seq <= lastSeq}
CallEntries(t) == {e \in Visible : e.op = <<t, opno[t]>>}
DoneIsTrue ==
  \A t \in Thread : done[t] /\ ~req[t].null =>
    IF status[t] = "ok" THEN Cardinality(CallEntries(t)) = req[t].n ELSE CallEntries(t) = {}

QueueInv == TypeOK /\ FrontOnly /\ CallsOpen /\ GroupInQueue
WakeInv == NoLostWakeup /\ WorkIsScheduled
DataInv == LayersOrdered /\ TodoIsNewer
BatchInv == GroupIsInvisible
SyncInv == SyncedIfAsked /\ GroupIsSynced
OutcomeInv == GroupIsWhole /\ DoneIsTrue /\ (~hasImm => imm = {})

(***************************************************************************)
(* The refinement.  A batch is in a call from the moment Write is entered  *)
(* to the moment it returns; null batches, and the wait for a flush that   *)
(* follows them, are none of AtomicWrites' business.                       *)
(***************************************************************************)
OpenCalls ==
  [t \in Thread |->
     IF pc[t] \in {"idle", "flushing", "flushwait"} \/ req[t].null
     THEN [no |-> 0, n |-> 0] ELSE [no |-> opno[t], n |-> req[t].n]]
Acknowledged == {[op |-> a.op, n |-> a.n] : a \in acked}

Abstract == INSTANCE AtomicWrites WITH
  calls <- OpenCalls, store <- Visible, last <- lastSeq, acked <- Acknowledged

(* Write refines AtomicWrites: merging batches into a group, inserting     *)
(* them one update at a time and moving them from memtable to table is     *)
(* invisible to a reader at LastSequence, and every call takes effect      *)
(* between its start and its return, in full or not at all.                *)
WritesAreAtomic == Abstract!Spec

(* db_impl.h: TEST_CompactMemTable, the first step of CompactRange, shall  *)
(* "Force current memtable contents to be compacted": when its null Write  *)
(* has returned OK, nothing written before the call is left in mem_.       *)
FlushForced ==
  \A t \in Thread : pc[t] \in {"flushing", "flushwait"} =>
    \A e \in mem : e.seq > since[t]

(* Every call of Write returns, as long as the file system does not fail.  *)
WriteReturns == \A t \in Thread : pc[t] # "idle" ~> pc[t] = "idle"

(* A full memtable is flushed unless the database is being deleted.        *)
ImmIsFlushed == hasImm ~> ~hasImm \/ closing # "open"

(* "When you are done with a database, just delete the database object"    *)
(* (doc/index.md): deleting it does not end the process.                   *)
DeleteIsClean == closing # "open" => alive
=============================================================================
