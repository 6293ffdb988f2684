----------------------------- MODULE FlowopSync -----------------------------
(* filebench's synchronisation flowops (flowop_library.c): semblock and     *)
(* sempost over System V semaphores, block and wakeup over a condition      *)
(* variable. A target is a semblock or block flowop with the thread that    *)
(* executes it in a loop; a poster is a sempost or wakeup flowop with its.  *)
EXTENDS Integers, FiniteSets, Sequences

CONSTANTS Targets,      \* the target flowops, in the order of the list
          Poster,
          SyncSettings, \* kind, blocking, value, high, timeouts, sems: FILEBENCH_NSEMS,
                        \* named: the targets have the name the posters look for
          SemMax        \* the largest value of a semaphore

VARIABLES set, semids, sem, tgt, post

vars == <<set, semids, sem, tgt, post>>

Target == {Targets[i] : i \in DOMAIN Targets}
SemId == 0 .. set.sems - 1

Init ==
  /\ set \in SyncSettings
  /\ semids = [s \in SemId |-> 0]
  /\ sem = [s \in SemId |-> 0]
  /\ tgt = [t \in Target |-> [pc |-> "init", lw |-> 0, hw |-> 0, late |-> 0]]
  /\ post = [p \in Poster |-> [pc |-> "find", at |-> 1]]

---------------------------------------------------------------------------
(* ipc_semidalloc(): the first free semaphore; called under shm_flowop_lock *)
(* by a thread that creates its flowops.                                    *)
FirstFree(ids) == CHOOSE s \in SemId : ids[s] = 0 /\ \A r \in 0 .. s - 1 : ids[r] = 1

SemidAlloc(ids) == [ids EXCEPT ![FirstFree(ids)] = 1]

(* How many are free: without any, the run is shut down.                    *)
Free(ids) == Cardinality({s \in SemId : ids[s] = 0})

(* semop(): an operation that would leave the range of a semaphore fails.   *)
InRange(n) == n \in 0 .. SemMax

(* The semaphore that gets the initial highwater.                           *)
HighwaterSem(hw) == IF hw = 0 THEN set.value ELSE hw

SemblockInit(t) ==
  /\ set.kind = "sem"
  /\ tgt[t].pc = "init"
  /\ Free(semids) >= 2
  /\ \E one \in {SemidAlloc(semids)} : \E lw \in {FirstFree(semids)}, hw \in {FirstFree(one)} :
       /\ semids' = SemidAlloc(one)
       /\ tgt' = [tgt EXCEPT ![t].pc = "ready", ![t].lw = lw, ![t].hw = hw]
       /\ sem' = [sem EXCEPT ![HighwaterSem(hw)] = @ + set.high]
  /\ UNCHANGED <<set, post>>

OutOfSemaphores(t) ==
  /\ set.kind = "sem"
  /\ tgt[t].pc = "init"
  /\ Free(semids) < 2
  /\ semids' = IF Free(semids) = 1 THEN SemidAlloc(semids) ELSE semids
  /\ tgt' = [tgt EXCEPT ![t].pc = "fatal"]
  /\ UNCHANGED <<set, sem, post>>

BlockInit(t) ==
  /\ set.kind = "cond"
  /\ tgt[t].pc = "init"
  /\ tgt' = [tgt EXCEPT ![t].pc = "ready"]
  /\ UNCHANGED <<set, semids, sem, post>>

(* The barrier of the run lock: every flowop exists before any executes.    *)
Running == \A t \in Target : tgt[t].pc \notin {"init", "fatal"}

---------------------------------------------------------------------------
(* semblock: raise the high water mark, then wait for a post. The results   *)
(* of both calls, a timeout of the second included, are ignored.            *)
SemblockHw(t) ==
  /\ Running
  /\ set.kind = "sem"
  /\ tgt[t].pc = "ready"
  /\ sem' = IF InRange(sem[tgt[t].hw] + set.value)
            THEN [sem EXCEPT ![tgt[t].hw] = @ + set.value] ELSE sem
  /\ tgt' = [tgt EXCEPT ![t].pc = "waiting"]
  /\ UNCHANGED <<set, semids, post>>

SemblockLw(t) ==
  /\ tgt[t].pc = "waiting"
  /\ sem[tgt[t].lw] >= set.value
  /\ sem' = [sem EXCEPT ![tgt[t].lw] = @ - set.value]
  /\ tgt' = [tgt EXCEPT ![t].pc = "ready"]
  /\ UNCHANGED <<set, semids, post>>

SemblockTimeout(t) ==
  /\ tgt[t].pc = "waiting"
  /\ sem[tgt[t].lw] < set.value
  /\ tgt[t].late < set.timeouts
  /\ tgt' = [tgt EXCEPT ![t].pc = "ready", ![t].late = @ + 1]
  /\ UNCHANGED <<set, semids, sem, post>>

(* block: pthread_cond_wait() without a predicate.                          *)
Block(t) ==
  /\ Running
  /\ set.kind = "cond"
  /\ tgt[t].pc = "ready"
  /\ tgt' = [tgt EXCEPT ![t].pc = "blocked"]
  /\ UNCHANGED <<set, semids, sem, post>>

BlockReturn(t) ==
  /\ tgt[t].pc = "woken"
  /\ tgt' = [tgt EXCEPT ![t].pc = "ready"]
  /\ UNCHANGED <<set, semids, sem, post>>

---------------------------------------------------------------------------
(* sempost and wakeup: the first call lists the targets; every call goes    *)
(* through the list. With no target of the name the run is shut down.       *)
FindTargets(p) ==
  /\ Running
  /\ post[p].pc = "find"
  /\ post' = [post EXCEPT ![p].pc = IF set.named THEN "post" ELSE "fatal"]
  /\ UNCHANGED <<set, semids, sem, tgt>>

Advance(p) == [post EXCEPT ![p].at = (@ % Len(Targets)) + 1]

(* The post of the low and, when blocking, the wait for the high water mark *)
(* are one semop().                                                         *)
SempostBlocking(p) ==
  /\ post[p].pc = "post" /\ set.kind = "sem" /\ set.blocking
  /\ LET t == tgt[Targets[post[p].at]] IN
       /\ sem[t.hw] >= set.value
       /\ sem' = [sem EXCEPT ![t.lw] = @ + set.value, ![t.hw] = @ - set.value]
  /\ post' = Advance(p)
  /\ UNCHANGED <<set, semids, tgt>>

(* EAGAIN after the timeout is not an error either: the target is skipped.  *)
SempostTimeout(p) ==
  /\ post[p].pc = "post" /\ set.kind = "sem" /\ set.blocking
  /\ set.timeouts > 0
  /\ sem[tgt[Targets[post[p].at]].hw] < set.value
  /\ post' = Advance(p)
  /\ UNCHANGED <<set, semids, sem, tgt>>

Sempost(p) ==
  /\ post[p].pc = "post" /\ set.kind = "sem" /\ ~ set.blocking
  /\ LET t == tgt[Targets[post[p].at]] IN
       IF InRange(sem[t.lw] + set.value)
       THEN sem' = [sem EXCEPT ![t.lw] = @ + set.value] /\ post' = Advance(p)
       ELSE post' = [post EXCEPT ![p].pc = "failed"] /\ UNCHANGED sem
  /\ UNCHANGED <<set, semids, tgt>>

MutWakeup(p) ==
  /\ post[p].pc = "post" /\ set.kind = "cond"
  /\ tgt' = [tgt EXCEPT ![Targets[1]].pc = IF @ = "blocked" THEN "woken" ELSE @]
  /\ post' = Advance(p)
  /\ UNCHANGED <<set, semids, sem>>

Wakeup(p) ==
  /\ post[p].pc = "post" /\ set.kind = "cond"
  /\ tgt' = [tgt EXCEPT ![Targets[post[p].at]].pc = IF @ = "blocked" THEN "woken" ELSE @]
  /\ post' = Advance(p)
  /\ UNCHANGED <<set, semids, sem>>

---------------------------------------------------------------------------
TargetStep(t) ==
  \/ SemblockInit(t) \/ OutOfSemaphores(t) \/ BlockInit(t) \/ SemblockHw(t) \/ SemblockLw(t)
  \/ Block(t) \/ BlockReturn(t)

PosterStep(p) ==
  \/ FindTargets(p) \/ SempostBlocking(p) \/ Sempost(p) \/ Wakeup(p)

Next ==
  \/ \E t \in Target : TargetStep(t) \/ SemblockTimeout(t)
  \/ \E p \in Poster : PosterStep(p) \/ SempostTimeout(p)

(* The kernel serves the waiters of a semaphore in turn.                    *)
Fairness ==
  /\ \A t \in Target : SF_vars(TargetStep(t))
  /\ \A p \in Poster : SF_vars(PosterStep(p))

Spec == Init /\ [][Next]_vars /\ Fairness

---------------------------------------------------------------------------
TypeOK ==
  /\ sem \in [SemId -> 0 .. SemMax]
  /\ semids \in [SemId -> {0, 1}]
  /\ \A t \in Target :
       /\ tgt[t].pc \in {"init", "ready", "waiting", "blocked", "woken", "fatal"}
       /\ {tgt[t].lw, tgt[t].hw} \subseteq SemId
  /\ \A p \in Poster : post[p].pc \in {"find", "post", "failed", "fatal"} /\ post[p].at \in DOMAIN Targets

(* With blocking posts, the posts a target has not passed yet and the room  *)
(* left below its high water mark always add up to that mark, plus one      *)
(* value while the target waits and one for every wait that timed out: a    *)
(* timeout whose result flowoplib_semblock() ignores raises the mark for    *)
(* the rest of the run.                                                     *)
TokensConserved ==
  (Running /\ set.kind = "sem" /\ set.blocking) =>
    \A t \in Target :
      sem[tgt[t].lw] + sem[tgt[t].hw] =
        set.high + set.value * (tgt[t].late + (IF tgt[t].pc = "waiting" THEN 1 ELSE 0))

(* A poster has failed, or the run is shut down.                            *)
Shutdown == (\E t \in Target : tgt[t].pc = "fatal") \/ (\E p \in Poster : post[p].pc = "fatal")
Failed == Shutdown \/ \E p \in Poster : post[p].pc = "failed"
Waits(t) == tgt[t].pc \in {"waiting", "blocked"}
Passed(t) == tgt[t].pc = "ready" \/ Failed
PostsTo(p, i) == post[p].at = i \/ post[p].pc = "failed" \/ Shutdown

(* A thread that waits in semblock or block is released, as long as the     *)
(* posters keep posting.                                                    *)
WaiterPasses == \A t \in Target : Waits(t) ~> Passed(t)

(* A blocking poster is never stuck on a full target: it keeps going round  *)
(* its list.                                                                *)
PosterGoesRound == \A p \in Poster : \A i \in DOMAIN Targets : []<>PostsTo(p, i)
===========================================================================
