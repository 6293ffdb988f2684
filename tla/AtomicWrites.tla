---------------------------- MODULE AtomicWrites ----------------------------
(***************************************************************************)
(* What DB::Write promises its callers, without the queue, the log or the  *)
(* memtables: at one moment between its call and its return a batch takes  *)
(* effect as a whole, together with the batches it was grouped with and    *)
(* under the next sequence numbers, or it fails and never has any effect.  *)
(***************************************************************************)
EXTENDS Integers, FiniteSets

CONSTANTS Thread, MaxCount, MaxOps

VARIABLES
  calls,  \* the call each thread is in: number and size of its batch
  store,  \* the updates readers can see: [seq, op]
  last,   \* the newest sequence number readers can see
  acked   \* the calls that returned OK: [op, n]

vars == <<calls, store, last, acked>>

NoCall == [no |-> 0, n |-> 0]
InCall == {t \in Thread : calls[t] # NoCall}
OpOf(t) == <<t, calls[t].no>>
EntriesOf(S, t) == {e \in S : e.op = OpOf(t)}
Acknowledge(t) == acked' = acked \cup {[op |-> OpOf(t), n |-> calls[t].n]}
Return(t) == calls' = [calls EXCEPT ![t] = NoCall]

Init ==
  /\ calls = [t \in Thread |-> NoCall]
  /\ store = {} /\ last = 0 /\ acked = {}

Call(t) ==
  /\ t \notin InCall
  /\ \E k \in 1 .. MaxOps, n \in 0 .. MaxCount :
       /\ \A e \in store : e.op[1] = t => e.op[2] < k
       /\ calls' = [calls EXCEPT ![t] = [no |-> k, n |-> n]]
  /\ UNCHANGED <<store, last, acked>>

(* The batches of the calls in G take effect at once; t's call returns.    *)
Commit(G, t) ==
  LET new == store' \ store IN
  /\ t \in G /\ G \subseteq InCall
  /\ \A u \in G : EntriesOf(store, u) = {}
  /\ store \subseteq store'
  /\ last' = last + Cardinality(new)
  /\ {e.seq : e \in new} = (last + 1) .. last'
  /\ \A e \in new : \E u \in G : e.op = OpOf(u)
  /\ \A u \in G :
       /\ Cardinality(EntriesOf(new, u)) = calls[u].n
       /\ \A e, f \in EntriesOf(new, u), g \in new :
            e.seq <= g.seq /\ g.seq <= f.seq => g.op = OpOf(u)
  /\ Acknowledge(t) /\ Return(t)

(* A call that took effect earlier returns OK.                             *)
ReturnOK(t) ==
  /\ t \in InCall
  /\ Cardinality(EntriesOf(store, t)) = calls[t].n
  /\ Acknowledge(t) /\ Return(t)
  /\ UNCHANGED <<store, last>>

(* A call that had no effect returns an error; sequence numbers may be     *)
(* used up.                                                                *)
ReturnError(t) ==
  /\ t \in InCall
  /\ EntriesOf(store, t) = {}
  /\ last' >= last
  /\ Return(t)
  /\ UNCHANGED <<store, acked>>

Next ==
  \E t \in Thread :
    Call(t) \/ ReturnOK(t) \/ ReturnError(t) \/ \E G \in SUBSET Thread : Commit(G, t)

Spec == Init /\ [][Next]_vars

(* What one step of an implementation may do.                              *)
Step == [Next]_vars
=============================================================================
