----------------------------- MODULE RateLimit -----------------------------
(* filebench's event generator (eventgen.c) and the flowops that consume    *)
(* its events (flowop_library.c): eventlimit, iopslimit, opslimit, bwlimit  *)
(* and the finishon flowops, in threads that loop over one I/O flowop and   *)
(* one of them.                                                             *)
(*                                                                          *)
(* The limiters compare a statistic (their target's fo_stats or the         *)
(* process's controlstats) with its value at their last call, and pay for   *)
(* the difference with events. flowop_endop() counts the limiters too:      *)
(* "fo_type & FLOW_TYPE_IO" holds of FLOW_TYPE_OTHER, which is 5.           *)
EXTENDS Integers, FiniteSets

CONSTANTS Consumer,      \* the threads
          LimitSettings, \* kind, target, clears (how many), finish, ops (I/Os of one thread)
          Rate,          \* shm_eventgen_hz
          MB,            \* the bytes of one event of a bwlimit
          IOSize,        \* bytes of one I/O
          MaxPost        \* events one wakeup of the generator posts, at most

VARIABLES set,   \* the setting of this run
          gen,   \* the generator: shm_eventgen_q and _enabled; what happened
          total, \* controlstats: fs_count, fs_rcount + fs_wcount, and bytes
          c      \* the threads

vars == <<set, gen, total, c>>

Idle == -1

Init ==
  /\ set \in LimitSettings
  /\ gen = [q |-> 0, enabled |-> FALSE, reset |-> FALSE, cleared |-> 0]
  /\ total = [count |-> 0, ios |-> 0, bytes |-> 0]
  /\ c = [x \in Consumer |->
            [pc |-> "io", ops |-> 0, bytes |-> 0, last |-> 0, bucket |-> 0, need |-> 0,
             done |-> 0, base |-> Idle, got |-> 0, seen |-> 0, waived |-> 0]]

---------------------------------------------------------------------------
(* The generator: eventgen_thread() and eventgen_reset().                   *)

EnableGen ==
  /\ ~ gen.enabled
  /\ gen' = [gen EXCEPT !.enabled = TRUE]
  /\ UNCHANGED <<set, total, c>>

(* It adds the events of the time that has passed, unless five seconds of   *)
(* them are waiting, and signals one consumer.                              *)
Posted(n) == IF gen.q < 5 * Rate THEN gen.q + n ELSE gen.q

Sleeping == {x \in Consumer : c[x].pc = "sleep"}

Post(n) ==
  /\ gen.enabled
  /\ gen' = [gen EXCEPT !.q = Posted(n)]
  /\ IF Sleeping = {} THEN UNCHANGED c
     ELSE \E x \in Sleeping : c' = [c EXCEPT ![x].pc = "woken"]
  /\ UNCHANGED <<set, total>>

(* proc_create() empties the queue without the lock, while threads already  *)
(* run: a racing update of the queue may undo it.                           *)
Racing == gen.enabled \/ \E x \in Consumer : c[x].pc = "take"

EventgenReset ==
  /\ ~ gen.reset
  /\ \E q \in {0} \cup (IF Racing THEN {gen.q} ELSE {}) :
       gen' = [gen EXCEPT !.reset = TRUE, !.q = q]
  /\ UNCHANGED <<set, total, c>>

(* stats_clear(), once the workers run and after the periods of a psrun,    *)
(* zeroes the fo_stats of every flowop without a lock: an I/O that ends may *)
(* undo it. A limiter then takes the counts before for paid.                *)
Unit == IF set.kind = "bw" THEN IOSize ELSE 1

Waived(x) ==
  IF set.target /\ set.kind \in {"iops", "ops", "bw"} THEN (c[x].ops + 1) * Unit ELSE 0

StatsClear ==
  /\ gen.cleared < set.clears
  /\ gen' = [gen EXCEPT !.cleared = @ + 1]
  /\ \E undone \in SUBSET {x \in Consumer : c[x].pc = "io"} :
       c' = [x \in Consumer |->
               IF x \in undone THEN c[x]
               ELSE [c[x] EXCEPT !.ops = 0, !.bytes = 0, !.waived = @ + Waived(x)]]
  /\ UNCHANGED <<set, total>>

---------------------------------------------------------------------------
(* A thread.                                                                *)

(* One I/O: flowop_endop() adds to the flowop's and the process's counts.   *)
Endop(x) ==
  /\ c[x].pc = "io"
  /\ c[x].done < set.ops
  /\ total' = [count |-> total.count + 1, ios |-> total.ios + 1, bytes |-> total.bytes + IOSize]
  /\ c' = [c EXCEPT ![x].ops = @ + 1, ![x].bytes = @ + IOSize, ![x].done = @ + 1,
                    ![x].pc = IF set.finish > 0 THEN "finish" ELSE "limit"]
  /\ UNCHANGED <<set, gen>>

(* flowop_endop() of the limiter or finishon flowop itself.                 *)
EndLimit(x) ==
  /\ c[x].pc \in {"end", "last"}
  /\ total' = [total EXCEPT !.count = @ + 1]
  /\ c' = [c EXCEPT ![x].pc = IF c[x].pc = "last" THEN "stopped" ELSE "io"]
  /\ UNCHANGED <<set, gen>>

(* flowoplib_event_find_target(): the statistic a flowop looks at.          *)
Measured(x) ==
  LET s == IF set.target THEN [count |-> c[x].ops, ios |-> c[x].ops, bytes |-> c[x].bytes]
           ELSE total
  IN CASE set.kind \in {"bw", "finishbytes"} -> s.bytes
       [] set.kind = "iops" -> s.ios
       [] OTHER -> s.count

(* The same, counted from the start of the run: what a limit is about.      *)
Truth(x) == IF set.target THEN c[x].done * Unit ELSE Measured(x)

SetPc(x, pc) == c' = [c EXCEPT ![x].pc = pc]

LimitOff(x) ==
  /\ c[x].pc = "limit"
  /\ ~ gen.enabled
  /\ SetPc(x, "io")
  /\ UNCHANGED <<set, gen, total>>

EventLimit(x) ==
  /\ c[x].pc = "limit"
  /\ gen.enabled
  /\ set.kind = "event"
  /\ c' = [c EXCEPT ![x].pc = "take", ![x].need = 1,
                    ![x].base = IF @ = Idle THEN c[x].done - 1 ELSE @, ![x].seen = c[x].done]
  /\ UNCHANGED <<set, gen, total>>

(* The events a negative bucket asks for.                                   *)
OpsNeeded(b) == -b

BytesNeeded(b) == ((-b) \div MB) + 1

(* What the bucket gets back for them.                                      *)
Worth(n) == IF set.kind = "bw" THEN n * MB ELSE n

MutSpend(x) == c[x].bucket - (Measured(x) - c[x].last - 1)

(* iopslimit and opslimit, which differ in the flowops they count.          *)
Spend(x) == c[x].bucket - (Measured(x) - c[x].last)

Limited(x, kinds, needed) ==
  /\ c[x].pc = "limit"
  /\ gen.enabled
  /\ set.kind \in kinds
  /\ IF c[x].last = 0
     THEN c' = [c EXCEPT ![x].pc = "io", ![x].last = Measured(x), ![x].seen = Truth(x),
                         ![x].base = IF @ = Idle THEN Truth(x) ELSE @]
     ELSE c' = [c EXCEPT ![x].pc = IF Spend(x) >= 0 THEN "end" ELSE "take",
                         ![x].bucket = Spend(x), ![x].last = Measured(x),
                         ![x].need = IF Spend(x) >= 0 THEN 0 ELSE needed,
                         ![x].seen = Truth(x)]
  /\ UNCHANGED <<set, gen, total>>

IopsLimit(x) == Limited(x, {"iops"}, OpsNeeded(Spend(x)))

OpsLimit(x) == Limited(x, {"ops"}, OpsNeeded(Spend(x)))

BwLimit(x) == Limited(x, {"bw"}, BytesNeeded(Spend(x)))

(* The loops of the limiters: take the events under the lock, or wait.      *)
TakeEvents(x) ==
  /\ c[x].pc = "take"
  /\ gen.q >= c[x].need
  /\ gen' = [gen EXCEPT !.q = @ - c[x].need]
  /\ c' = [c EXCEPT ![x].pc = "end", ![x].bucket = @ + Worth(c[x].need),
                    ![x].got = @ + Worth(c[x].need)]
  /\ UNCHANGED <<set, total>>

CondWait(x) ==
  /\ c[x].pc = "take"
  /\ gen.q < c[x].need
  /\ SetPc(x, "sleep")
  /\ UNCHANGED <<set, gen, total>>

CondWake(x) ==
  /\ c[x].pc = "woken"
  /\ SetPc(x, "take")
  /\ UNCHANGED <<set, gen, total>>

(* finishoncount stops the thread at its limit, finishonbytes past it.      *)
Finished(x) ==
  \/ set.kind = "finishcount" /\ Measured(x) >= set.finish
  \/ set.kind = "finishbytes" /\ Measured(x) > set.finish

FinishOnCount(x) ==
  /\ c[x].pc = "finish"
  /\ set.kind = "finishcount"
  /\ SetPc(x, IF Finished(x) THEN "last" ELSE "end")
  /\ UNCHANGED <<set, gen, total>>

FinishOnBytes(x) ==
  /\ c[x].pc = "finish"
  /\ set.kind = "finishbytes"
  /\ SetPc(x, IF Finished(x) THEN "last" ELSE "end")
  /\ UNCHANGED <<set, gen, total>>

---------------------------------------------------------------------------
Generator == EnableGen \/ \E n \in 1 .. MaxPost : Post(n)

Step(x) ==
  \/ Endop(x) \/ EndLimit(x) \/ LimitOff(x) \/ EventLimit(x) \/ IopsLimit(x) \/ OpsLimit(x) \/ BwLimit(x)
  \/ TakeEvents(x) \/ CondWait(x) \/ CondWake(x) \/ FinishOnCount(x) \/ FinishOnBytes(x)

Next ==
  \/ Generator \/ EventgenReset \/ StatsClear
  \/ \E x \in Consumer : Step(x)

(* The generator's thread and the workers keep running.                     *)
Fairness ==
  /\ WF_vars(Generator)
  /\ \A x \in Consumer : SF_vars(Step(x))

Spec == Init /\ [][Next]_vars /\ Fairness

---------------------------------------------------------------------------
TypeOK ==
  /\ gen.q \in 0 .. 5 * Rate + MaxPost
  /\ \A x \in Consumer :
       /\ c[x].pc \in {"io", "limit", "take", "sleep", "woken", "end", "finish", "last", "stopped"}
       /\ c[x].need \in Nat
       /\ c[x].got \in Nat

(* A limiter that returns has paid with events for everything counted since *)
(* its first call (flowop_library.c:871-875, 959-964, 1033-1039), but for   *)
(* what stats_clear() waives when it has a target: what the target had      *)
(* counted by then, and one operation of the next.                          *)
RateHeld ==
  \A x \in Consumer :
    (c[x].pc = "io" /\ c[x].base # Idle) =>
      c[x].seen - c[x].base <= c[x].got + c[x].waived

(* The threads of a process overshoot the count at which they finish by     *)
(* less than one operation each, although each checks after its own.        *)
OvershootBounded ==
  (set.kind = "finishcount" /\ ~ set.target) =>
    total.ios < set.finish + Cardinality(Consumer)

(* "Stop worker thread when specified number of I/O operations have been    *)
(* transferred" (flowop_library.c:1172-1175).                               *)
FinishesOnCount ==
  (set.kind = "finishcount" /\ \E x \in Consumer : c[x].pc = "stopped") =>
    total.ios >= set.finish

Served(x) == c[x].pc = "sleep" /\ c[x].need <= 5 * Rate
Free(x) == c[x].pc = "io"

(* A thread waiting for events the queue can hold gets them.                *)
WaiterReleased == \A x \in Consumer : Served(x) ~> Free(x)
===========================================================================
