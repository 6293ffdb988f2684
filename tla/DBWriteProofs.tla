---------------------------- MODULE DBWriteProofs ----------------------------
(***************************************************************************)
(* Proofs about DBWrite, for any number of threads, calls, batch sizes and *)
(* triggers.                                                               *)
(***************************************************************************)
EXTENDS DBWrite, SequenceTheorems, TLAPS

(***************************************************************************)
(* BuildBatchGroup: what the steps below use of the number of updates of a *)
(* group.  Counting rests on the library's facts about finite sets, which  *)
(* are kept out of this module: DBWriteTheorems proves GroupsCounted.      *)
(***************************************************************************)
GroupsCounted ==
  /\ \A q, rq : \A k \in Nat :
       /\ Cardinality(Updates(q, rq, k)) \in Nat
       /\ \A u \in Updates(q, rq, k) :
            /\ Rank(q, rq, k, u) \in Nat
            /\ 1 <= Rank(q, rq, k, u)
            /\ Rank(q, rq, k, u) <= Cardinality(Updates(q, rq, k))
       /\ \A u, v \in Updates(q, rq, k) : Rank(q, rq, k, u) = Rank(q, rq, k, v) => u = v
  /\ \A rq : \A q \in Seq(Thread) : q # <<>> =>
       /\ LastWriter(q, rq) \in 1 .. Len(q)
       /\ \A i \in 2 .. LastWriter(q, rq) : Joins(q, rq, i)

(* The updates that BuildBatchGroup collects have a number.                *)
LEMMA UpdatesFinite ==
  ASSUME GroupsCounted, NEW q, NEW rq, NEW k \in Nat
  PROVE  Cardinality(Updates(q, rq, k)) \in Nat
BY Zenon DEF GroupsCounted

(* The sequence number of an update lies between LastSequence + 1 and      *)
(* LastSequence + Count(updates).                                          *)
LEMMA RankBounds ==
  ASSUME GroupsCounted, NEW q, NEW rq, NEW k \in Nat, NEW u \in Updates(q, rq, k)
  PROVE  /\ Rank(q, rq, k, u) \in Nat
         /\ 1 <= Rank(q, rq, k, u)
         /\ Rank(q, rq, k, u) <= Cardinality(Updates(q, rq, k))
BY Zenon DEF GroupsCounted

(* No two updates of a group get the same sequence number.                 *)
LEMMA RankInjective ==
  ASSUME GroupsCounted, NEW q, NEW rq, NEW k \in Nat,
         NEW u \in Updates(q, rq, k), NEW v \in Updates(q, rq, k),
         Rank(q, rq, k, u) = Rank(q, rq, k, v)
  PROVE  u = v
BY Zenon DEF GroupsCounted

(* last_writer is a writer of the queue.                                   *)
LEMMA LastWriterInQueue ==
  ASSUME GroupsCounted, NEW q \in Seq(Thread), q # <<>>, NEW rq
  PROVE  LastWriter(q, rq) \in 1 .. Len(q)
BY Zenon DEF GroupsCounted

(* BuildBatchGroup's loop: every writer up to last_writer joins the group. *)
LEMMA GroupJoins ==
  ASSUME GroupsCounted, NEW q \in Seq(Thread), q # <<>>, NEW rq,
         NEW i \in 2 .. LastWriter(q, rq)
  PROVE  Joins(q, rq, i)
BY Zenon DEF GroupsCounted

-----------------------------------------------------------------------------
(***************************************************************************)
(* The queue.  AtFront says that thread t is at the front of queue q, with *)
(* the requests rq and the call numbers no, and is about to run            *)
(* MakeRoomForWrite or to pop its group.                                   *)
(***************************************************************************)
Distinct(q) == \A i, j \in 1 .. Len(q) : q[i] = q[j] => i = j
InQueue(q, u) == \E i \in 1 .. Len(q) : q[i] = u

AtFront(t, q, rq, no) ==
  /\ q \in Seq(Thread) /\ q # <<>> /\ q[1] = t
  /\ Distinct(q)
  /\ \A u \in Thread : InQueue(q, u) <=> (u = t \/ (pc[u] = "queued" /\ ~done[u]))
  /\ ~done[t]
  /\ \A u \in Thread \ {t} : pc[u] \notin FrontPc
  /\ rq \in [Thread -> Request \cup {NoReq}]
  /\ no \in [Thread -> 0 .. MaxOps]
  /\ \A u \in Thread : u = t \/ pc[u] # "idle" => no[u] >= 1
  /\ closing = "open"

(* The entries of a group are entries, numbered after LastSequence.        *)
LEMMA GroupEntriesType ==
  ASSUME GroupsCounted, NEW q \in Seq(Thread), NEW rq, NEW no \in [Thread -> 0 .. MaxOps],
         NEW k \in 0 .. Len(q), \A i \in 1 .. Len(q) : no[q[i]] >= 1,
         lastSeq \in Nat, MaxOps \in Nat
  PROVE  /\ GroupEntries(q, rq, k, no) \subseteq Entry
         /\ \A e \in GroupEntries(q, rq, k, no) :
              /\ lastSeq < e.seq
              /\ e.seq <= lastSeq + Cardinality(Updates(q, rq, k))
<1>1. k \in Nat /\ Len(q) \in Nat
  BY LenProperties
<1>2. \A u \in Updates(q, rq, k) :
        /\ u[1] \in 1 .. Len(q)
        /\ lastSeq + Rank(q, rq, k, u) \in Nat
        /\ lastSeq < lastSeq + Rank(q, rq, k, u)
        /\ lastSeq + Rank(q, rq, k, u) <= lastSeq + Cardinality(Updates(q, rq, k))
  <2> TAKE u \in Updates(q, rq, k)
  <2>1. u[1] \in 1 .. Len(q)
    BY <1>1 DEF Updates
  <2>2. /\ Rank(q, rq, k, u) \in Nat
        /\ 1 <= Rank(q, rq, k, u)
        /\ Rank(q, rq, k, u) <= Cardinality(Updates(q, rq, k))
    BY Zenon, <1>1, RankBounds
  <2>3. Cardinality(Updates(q, rq, k)) \in Nat
    BY Zenon, <1>1, UpdatesFinite
  <2> QED BY <2>1, <2>2, <2>3
<1>3. \A i \in 1 .. Len(q) : <<q[i], no[q[i]]>> \in Op
  <2> TAKE i \in 1 .. Len(q)
  <2>1. q[i] \in Thread
    BY Zenon, ElementOfSeq
  <2> QED BY <2>1 DEF Op
<1> QED BY <1>2, <1>3 DEF GroupEntries, Entry

(* What is left of a queue after its first k writers are popped.           *)
LEMMA PoppedQueue ==
  ASSUME NEW q \in Seq(Thread), NEW k \in 1 .. Len(q)
  PROVE  /\ SubSeq(q, k + 1, Len(q)) \in Seq(Thread)
         /\ Len(SubSeq(q, k + 1, Len(q))) = Len(q) - k
         /\ \A i \in 1 .. Len(q) - k : SubSeq(q, k + 1, Len(q))[i] = q[k + i]
<1>1. Len(q) \in Nat /\ k \in Nat /\ k <= Len(q)
  BY LenProperties
<1> DEFINE m == k + 1
<1> DEFINE n == Len(q)
<1>2. m \in Int /\ n \in Int /\ \A i \in m .. n : q[i] \in Thread
  BY <1>1, ElementOfSeq
<1>3. m = k + 1 /\ n = Len(q)
  BY Zenon
<1> HIDE DEF m, n
<1>4. /\ SubSeq(q, m, n) \in Seq(Thread)
      /\ Len(SubSeq(q, m, n)) = IF m <= n THEN n - m + 1 ELSE 0
      /\ \A i \in 1 .. n - m + 1 : SubSeq(q, m, n)[i] = q[m + i - 1]
  BY <1>2, SubSeqProperties
<1>5. n - m + 1 = n - k /\ (~(m <= n) => n - k = 0)
  BY <1>1, <1>3
<1>6. \A i \in 1 .. n - k : SubSeq(q, m, n)[i] = q[k + i]
  <2> TAKE i \in 1 .. n - k
  <2>1. m + i - 1 = k + i
    BY <1>1, <1>3
  <2> QED BY Zenon, <1>4, <1>5, <2>1
<1>7. Len(SubSeq(q, m, n)) = n - k
  BY Zenon, <1>4, <1>5
<1> QED BY Zenon, <1>3, <1>4, <1>6, <1>7

(* Popping the group leaves a well-formed queue without its members.       *)
LEMMA PopGroupQueue ==
  ASSUME NEW t \in Thread, NEW q, NEW rq, NEW no, AtFront(t, q, rq, no),
         NEW k \in 1 .. Len(q), NEW s \in {"ok", "error"},
         TypeOK, CallsOpen, PopGroup(t, q, rq, no, k, s)
  PROVE  /\ writers' \in Seq(Thread)
         /\ Len(writers') = Len(q) - k
         /\ \A i \in 1 .. Len(q) - k : writers'[i] = q[k + i]
         /\ Distinct(writers')
         /\ \A u \in Thread : InQueue(writers', u) <=>
              (pc'[u] = "queued" /\ ~done'[u])
         /\ \A u \in Thread : pc'[u] \notin FrontPc
         /\ pc' \in [Thread -> Pc]
         /\ done' \in [Thread -> BOOLEAN]
         /\ status' \in [Thread -> {"ok", "error"}]
         /\ woken' \in [Thread -> BOOLEAN]
         /\ todo' = {}
         /\ acked' \subseteq [op : Op, n : 0 .. MaxCount, sync : BOOLEAN]
         /\ \A u \in Thread : done'[u] => pc'[u] = "queued"
         /\ \A u \in Thread : pc'[u] # "idle" => no[u] >= 1
<1>0. q \in Seq(Thread) /\ q[1] = t /\ Distinct(q)
  BY Zenon DEF AtFront
<1>1. Len(q) \in Nat /\ k \in Nat /\ k <= Len(q)
  BY <1>0, LenProperties
<1>2. \A u \in Thread : InQueue(q, u) <=> (u = t \/ (pc[u] = "queued" /\ ~done[u]))
  BY Zenon DEF AtFront
<1>3. /\ writers' \in Seq(Thread)
      /\ Len(writers') = Len(q) - k
      /\ \A i \in 1 .. Len(q) - k : writers'[i] = q[k + i]
  BY Zenon, <1>0, PoppedQueue DEF PopGroup
<1>4. Distinct(writers')
  <2> SUFFICES ASSUME NEW i \in 1 .. Len(q) - k, NEW j \in 1 .. Len(q) - k,
                      writers'[i] = writers'[j]
               PROVE  i = j
    BY Zenon, <1>3 DEF Distinct
  <2>0. k + i \in 1 .. Len(q) /\ k + j \in 1 .. Len(q)
    BY <1>1
  <2>1. q[k + i] = q[k + j]
    BY Zenon, <1>3
  <2>2. k + i = k + j
    BY Zenon, <1>0, <2>0, <2>1 DEF Distinct
  <2> QED BY <1>1, <2>2
<1>5. \A u \in Thread : pc'[u] = IF u = t THEN AfterWrite(t, s, rq) ELSE pc[u]
  BY Zenon DEF PopGroup, TypeOK
<1>6. \A u \in Thread : done'[u] = (done[u] \/ u \in Members(q, k) \ {t})
  BY Zenon DEF PopGroup
<1>7. AfterWrite(t, s, rq) \in {"idle", "flushing"}
  BY Zenon DEF AfterWrite
<1>8. \A u \in Thread : InQueue(writers', u) <=> (pc'[u] = "queued" /\ ~done'[u])
  <2> TAKE u \in Thread
  <2>1. InQueue(writers', u) <=> \E j \in k + 1 .. Len(q) : q[j] = u
    <3>1. ASSUME NEW i \in 1 .. Len(writers'), writers'[i] = u
          PROVE  \E j \in k + 1 .. Len(q) : q[j] = u
      <4>1. i \in 1 .. Len(q) - k
        BY Zenon, <1>3
      <4>2. k + i \in k + 1 .. Len(q)
        BY <1>1, <4>1
      <4>3. q[k + i] = u
        BY Zenon, <1>3, <3>1, <4>1
      <4> QED BY Zenon, <4>2, <4>3
    <3>2. ASSUME NEW j \in k + 1 .. Len(q), q[j] = u
          PROVE  \E i \in 1 .. Len(writers') : writers'[i] = u
      <4>1. j - k \in 1 .. Len(q) - k /\ k + (j - k) = j
        BY <1>1
      <4>2. writers'[j - k] = u
        BY Zenon, <1>3, <3>2, <4>1
      <4> QED BY Zenon, <1>3, <4>1, <4>2
    <3> QED BY Zenon, <3>1, <3>2 DEF InQueue
  <2>2. InQueue(q, u) <=> (u = t \/ (pc[u] = "queued" /\ ~done[u]))
    BY Zenon, <1>2
  <2>3. u \in Members(q, k) <=> \E i \in 1 .. k : q[i] = u
    BY Zenon DEF Members
  <2>4. (\E j \in k + 1 .. Len(q) : q[j] = u) <=> InQueue(q, u) /\ u \notin Members(q, k)
    <3>1. ASSUME NEW j \in k + 1 .. Len(q), q[j] = u
          PROVE  InQueue(q, u) /\ u \notin Members(q, k)
      <4>1. j \in 1 .. Len(q)
        BY <1>1
      <4>2. ASSUME NEW i \in 1 .. k, q[i] = u PROVE FALSE
        <5>1. i \in 1 .. Len(q) /\ i # j
          BY <1>1
        <5> QED BY Zenon, <1>0, <3>1, <4>1, <4>2, <5>1 DEF Distinct
      <4> QED BY Zenon, <2>3, <3>1, <4>1, <4>2 DEF InQueue
    <3>2. ASSUME InQueue(q, u), u \notin Members(q, k)
          PROVE  \E j \in k + 1 .. Len(q) : q[j] = u
      BY <1>1, <2>3, <3>2 DEF InQueue
    <3> QED BY Zenon, <3>1, <3>2
  <2>5. t \in Members(q, k)
    BY <1>0, <1>1 DEF Members
  <2> QED BY Zenon, <1>5, <1>6, <1>7, <2>1, <2>2, <2>4, <2>5
<1>9. \A u \in Thread : pc'[u] \notin FrontPc
  BY Zenon, <1>5, <1>7 DEF FrontPc, AtFront
<1>10. pc' \in [Thread -> Pc]
  BY Zenon, <1>7 DEF PopGroup, TypeOK, Pc
<1>11. /\ done' \in [Thread -> BOOLEAN]
       /\ status' \in [Thread -> {"ok", "error"}]
       /\ woken' \in [Thread -> BOOLEAN]
       /\ todo' = {}
  BY Zenon DEF PopGroup, TypeOK
<1>12. acked' \subseteq [op : Op, n : 0 .. MaxCount, sync : BOOLEAN]
  <2>1. no[t] \in 1 .. MaxOps
    BY BoundAssumption DEF AtFront
  <2>2. ~rq[t].null => rq[t].n \in 0 .. MaxCount /\ rq[t].sync \in BOOLEAN
    <3>1. rq[t] \in Request \cup {NoReq}
      BY Zenon DEF AtFront
    <3>2. NoReq.null
      BY Zenon DEF NoReq
    <3> QED BY Zenon, <3>1, <3>2, RequestAssumption
  <2>3. acked' = Ack(t, s, rq, no)
    BY Zenon DEF PopGroup
  <2>4. acked \subseteq [op : Op, n : 0 .. MaxCount, sync : BOOLEAN]
    BY Zenon DEF TypeOK
  <2>5. <<t, no[t]>> \in Op
    BY Zenon, <2>1 DEF Op
  <2>6. CASE s = "ok" /\ ~rq[t].null
    <3>1. [op |-> <<t, no[t]>>, n |-> rq[t].n, sync |-> rq[t].sync]
            \in [op : Op, n : 0 .. MaxCount, sync : BOOLEAN]
      BY Zenon, <2>2, <2>5, <2>6
    <3> QED BY Zenon, <2>3, <2>4, <2>6, <3>1 DEF Ack
  <2>7. CASE ~(s = "ok" /\ ~rq[t].null)
    BY Zenon, <2>3, <2>4, <2>7 DEF Ack
  <2> QED BY Zenon, <2>6, <2>7
<1>13. \A u \in Thread : done'[u] => pc'[u] = "queued"
  <2> SUFFICES ASSUME NEW u \in Thread, done'[u] PROVE pc'[u] = "queued"
    BY Zenon
  <2>1. CASE done[u]
    <3>1. u # t
      BY Zenon, <2>1 DEF AtFront
    <3> QED BY Zenon, <1>5, <2>1, <3>1 DEF CallsOpen
  <2>2. CASE u \in Members(q, k) \ {t}
    <3>1. InQueue(q, u)
      BY <1>1, <2>2 DEF Members, InQueue
    <3> QED BY Zenon, <1>2, <1>5, <2>2, <3>1
  <2> QED BY Zenon, <1>6, <2>1, <2>2
<1>14. \A u \in Thread : pc'[u] # "idle" => no[u] >= 1
  BY Zenon, <1>5 DEF AtFront
<1> QED BY Zenon, <1>3, <1>4, <1>8, <1>9, <1>10, <1>11, <1>12, <1>13, <1>14

(* The variables that MakeRoomForWrite, StartGroup and PopGroup leave to   *)
(* their caller.                                                           *)
CallerPart(rq, no) ==
  /\ req' = rq /\ opno' = no /\ since' \in [Thread -> Nat]
  /\ UNCHANGED <<lastSeq, l0Vars, closing, alive, synced>>

(* Popping a group re-establishes the queue invariant.                     *)
LEMMA PopGroupInv ==
  ASSUME NEW t \in Thread, NEW q, NEW rq, NEW no, AtFront(t, q, rq, no),
         NEW k \in 1 .. Len(q), NEW s \in {"ok", "error"},
         QueueInv, PopGroup(t, q, rq, no, k, s),
         req' = rq, opno' = no, since' \in [Thread -> Nat],
         leader' = leader, closing' = closing,
         lastSeq' \in Nat, mem' \subseteq Entry, imm' \subseteq Entry,
         hasImm' \in BOOLEAN, bg' \in BgPc, alive' \in BOOLEAN,
         tables' \subseteq Entry, numL0' \in Nat, picked' \in 0 .. numL0',
         logged' \subseteq Op, synced' \subseteq Op
  PROVE  QueueInv'
<1> USE DEF QueueInv
<1>0. /\ t \in Thread /\ AtFront(t, q, rq, no) /\ k \in 1 .. Len(q)
      /\ s \in {"ok", "error"} /\ TypeOK /\ CallsOpen /\ PopGroup(t, q, rq, no, k, s)
  BY Zenon
<1>1. /\ writers' \in Seq(Thread)
      /\ Distinct(writers')
      /\ \A u \in Thread : InQueue(writers', u) <=> (pc'[u] = "queued" /\ ~done'[u])
      /\ \A u \in Thread : pc'[u] \notin FrontPc
      /\ pc' \in [Thread -> Pc]
      /\ done' \in [Thread -> BOOLEAN]
      /\ status' \in [Thread -> {"ok", "error"}]
      /\ woken' \in [Thread -> BOOLEAN]
      /\ todo' = {}
      /\ acked' \subseteq [op : Op, n : 0 .. MaxCount, sync : BOOLEAN]
      /\ \A u \in Thread : done'[u] => pc'[u] = "queued"
      /\ \A u \in Thread : pc'[u] # "idle" => no[u] >= 1
  BY ONLY SMTT(30), <1>0, PopGroupQueue
<1>2. TypeOK'
  BY Zenon, <1>1 DEF TypeOK, AtFront
<1>3. FrontOnly'
  BY Zenon, <1>1 DEF FrontOnly, Distinct, InQueue
<1>4. CallsOpen'
  BY Zenon, <1>1 DEF CallsOpen, AtFront
<1>5. ~Active'
  BY Zenon, <1>1 DEF Active, ActivePc, FrontPc
<1> QED BY Zenon, <1>2, <1>3, <1>4, <1>5 DEF GroupInQueue

(* The front writer keeps its place while it waits or starts its group.    *)
LEMMA StayAtFront ==
  ASSUME NEW t \in Thread, NEW q, NEW rq, NEW no, AtFront(t, q, rq, no),
         NEW c \in FrontPc, TypeOK, CallsOpen,
         pc' = [pc EXCEPT ![t] = c], writers' = q, done' = done,
         opno' = no, closing' = closing
  PROVE  /\ FrontOnly' /\ CallsOpen'
         /\ pc' \in [Thread -> Pc]
<1> USE DEF AtFront
<1>1. pc' \in [Thread -> Pc]
  BY Zenon DEF TypeOK, Pc
<1>2. \A u \in Thread : pc'[u] = IF u = t THEN c ELSE pc[u]
  BY Zenon DEF TypeOK
<1>3. c # "queued" /\ c # "idle"
  BY Zenon DEF FrontPc
<1>4. FrontOnly'
  <2>1. \A u \in Thread : pc'[u] \in FrontPc => writers' # <<>> /\ u = writers'[1]
    BY Zenon, <1>2
  <2>2. \A u \in Thread : InQueue(writers', u) <=>
          (pc'[u] \in FrontPc \/ (pc'[u] = "queued" /\ ~done'[u]))
    <3> TAKE u \in Thread
    <3>1. InQueue(writers', u) <=> (u = t \/ (pc[u] = "queued" /\ ~done[u]))
      BY Zenon
    <3>2. u # t => pc'[u] = pc[u] /\ pc[u] \notin FrontPc
      BY Zenon, <1>2
    <3>3. pc'[t] \in FrontPc
      BY Zenon, <1>2
    <3> QED BY Zenon, <3>1, <3>2, <3>3
  <2> QED BY <2>1, <2>2 DEF FrontOnly, InQueue, Distinct
<1>5. CallsOpen'
  BY Zenon, <1>2, <1>3 DEF CallsOpen
<1> QED BY Zenon, <1>1, <1>4, <1>5

(* MakeRoomForWrite with what follows it preserves the queue invariant.    *)
LEMMA MakeRoomInv ==
  ASSUME GroupsCounted, NEW t \in Thread, NEW q, NEW rq, NEW no, AtFront(t, q, rq, no),
         pc[t] \notin ActivePc, NEW force \in BOOLEAN, NEW delay \in BOOLEAN,
         QueueInv, MakeRoomForWrite(t, q, rq, no, force, delay),
         CallerPart(rq, no)
  PROVE  QueueInv'
<1> USE DEF QueueInv
<1>0. /\ lastSeq' = lastSeq /\ lastSeq' \in Nat /\ tables' \subseteq Entry /\ numL0' \in Nat
      /\ picked' \in 0 .. numL0' /\ closing' = closing /\ alive' \in BOOLEAN
      /\ synced' \subseteq Op /\ req' = rq /\ opno' = no /\ since' \in [Thread -> Nat]
      /\ closing' \in {"open", "waiting", "woken", "closed"}
  BY Zenon DEF CallerPart, TypeOK, l0Vars
<1>1. ASSUME NEW c \in {"delayed", "bgwait"}, NEW d \in BOOLEAN,
             Suspend(t, q, force, d, c), woken' \in [Thread -> BOOLEAN]
      PROVE  QueueInv'
  <2>1. FrontOnly' /\ CallsOpen' /\ pc' \in [Thread -> Pc]
    <3>1. c \in FrontPc
      BY Zenon DEF FrontPc
    <3> QED BY Zenon, <1>0, <1>1, <3>1, StayAtFront DEF Suspend
  <2>2. TypeOK'
    BY Zenon, <1>0, <1>1, <2>1 DEF Suspend, TypeOK, AtFront, memVars
  <2>3. ~Active'
    BY Zenon, <1>1 DEF Suspend, Active, ActivePc, FrontPc, AtFront, TypeOK
  <2> QED BY Zenon, <2>1, <2>2, <2>3 DEF GroupInQueue
<1>2. ASSUME NEW s \in {"ok", "error"}, PopGroup(t, q, rq, no, 1, s),
             leader' = leader, mem' \subseteq Entry, imm' \subseteq Entry,
             hasImm' \in BOOLEAN, bg' \in BgPc, logged' \subseteq Op
      PROVE  QueueInv'
  <2>1. 1 \in 1 .. Len(q)
    <3>1. q \in Seq(Thread) /\ q # <<>>
      BY Zenon DEF AtFront
    <3>2. Len(q) \in Nat \ {0}
      BY Zenon, <3>1, EmptySeq
    <3> QED BY <3>2
  <2> QED BY Zenon, <1>0, <1>2, <2>1, PopGroupInv
<1>3. ASSUME StartGroup(t, q, rq, no), mem' \subseteq Entry, imm' \subseteq Entry,
             hasImm' \in BOOLEAN, bg' \in BgPc, logged' \subseteq Op
      PROVE  QueueInv'
  <2>1. CASE rq[t].null
    BY Zenon, <1>2, <1>3, <2>1 DEF StartGroup
  <2>2. CASE ~rq[t].null
    <3> DEFINE k == LastWriter(q, rq)
    <3>1. k \in 1 .. Len(q)
      BY Zenon, LastWriterInQueue DEF AtFront
    <3>2. /\ writers' = q
          /\ todo' = GroupEntries(q, rq, k, no)
          /\ leader' = [leader EXCEPT !.last = k,
                          !.seq = lastSeq + Cardinality(Updates(q, rq, k))]
          /\ pc' = [pc EXCEPT ![t] = "logging"]
          /\ UNCHANGED <<done, status, woken, acked>>
      BY Zenon, <1>3, <2>2 DEF StartGroup
    <3>3. FrontOnly' /\ CallsOpen' /\ pc' \in [Thread -> Pc]
      <4>1. "logging" \in FrontPc
        BY Zenon DEF FrontPc
      <4> QED BY Zenon, <1>0, <3>2, <4>1, StayAtFront
    <3>4. k \in Nat /\ Len(q) \in Nat /\ k \in 0 .. Len(q)
      BY <3>1, LenProperties DEF AtFront
    <3>5. Cardinality(Updates(q, rq, k)) \in Nat
      BY Zenon, <3>4, UpdatesFinite
    <3>6. todo' \subseteq Entry
      <4>1. \A i \in 1 .. Len(q) : no[q[i]] >= 1
        <5> TAKE i \in 1 .. Len(q)
        <5>1. q[i] \in Thread /\ InQueue(q, q[i])
          BY Zenon, ElementOfSeq DEF AtFront, InQueue
        <5> QED BY Zenon, <5>1 DEF AtFront
      <4>2. GroupEntries(q, rq, k, no) \subseteq Entry
        BY Zenon, <3>4, <4>1, GroupEntriesType, BoundAssumption DEF AtFront, TypeOK
      <4> QED BY Zenon, <3>2, <4>2
    <3>7. /\ leader' \in [force : BOOLEAN, delay : BOOLEAN, last : Nat, seq : Nat]
          /\ leader'.last = k
          /\ leader'.seq = lastSeq + Cardinality(Updates(q, rq, k))
      <4> DEFINE n == lastSeq + Cardinality(Updates(q, rq, k))
      <4>1. leader \in [force : BOOLEAN, delay : BOOLEAN, last : Nat, seq : Nat]
        BY Zenon DEF TypeOK
      <4>2. n \in Nat
        BY <3>5 DEF TypeOK
      <4>3. leader' = [leader EXCEPT !.last = k, !.seq = n]
        BY Zenon, <3>2
      <4> HIDE DEF n, k
      <4>4. leader' \in [force : BOOLEAN, delay : BOOLEAN, last : Nat, seq : Nat]
        BY Zenon, <3>4, <4>1, <4>2, <4>3
      <4>5. leader'.last = k /\ leader'.seq = n
        BY Zenon, <4>1, <4>3
      <4> QED BY Zenon, <4>4, <4>5 DEF n
    <3>8. TypeOK'
      BY Zenon, <1>0, <1>3, <3>2, <3>3, <3>6, <3>7 DEF TypeOK, AtFront
    <3>9. GroupInQueue'
      BY <1>0, <3>1, <3>2, <3>5, <3>7 DEF GroupInQueue, TypeOK
    <3> QED BY Zenon, <3>3, <3>8, <3>9
  <2> QED BY Zenon, <2>1, <2>2
<1>4. mem \subseteq Entry /\ imm \subseteq Entry /\ hasImm \in BOOLEAN /\ bg \in BgPc
      /\ logged \subseteq Op /\ woken \in [Thread -> BOOLEAN]
  BY Zenon DEF TypeOK
<1>5. CASE SlowDown(delay) /\ Suspend(t, q, force, FALSE, "delayed") /\ UNCHANGED woken
  BY Zenon, <1>1, <1>4, <1>5
<1>6. CASE StartGroup(t, q, rq, no) /\ UNCHANGED <<memVars, bg, logged>>
  BY Zenon, <1>3, <1>4, <1>6 DEF memVars
<1>7. CASE Suspend(t, q, force, delay, "bgwait") /\ woken' = [woken EXCEPT ![t] = FALSE]
  <2>1. woken' \in [Thread -> BOOLEAN]
    BY Zenon, <1>4, <1>7
  <2> QED BY Zenon, <1>1, <1>7, <2>1
<1>8. CASE SwitchMemTable /\ StartGroup(t, q, rq, no)
  <2>1. mem' \subseteq Entry /\ imm' \subseteq Entry /\ hasImm' \in BOOLEAN
        /\ bg' \in BgPc /\ logged' \subseteq Op
    BY Zenon, <1>4, <1>8 DEF SwitchMemTable, MaybeSchedule, BgPc
  <2> QED BY Zenon, <1>3, <1>8, <2>1
<1>9. CASE PopGroup(t, q, rq, no, 1, "error") /\ UNCHANGED <<leader, memVars, bg, logged>>
  BY Zenon, <1>2, <1>4, <1>9 DEF memVars
<1> QED BY Zenon, <1>5, <1>6, <1>7, <1>8, <1>9 DEF MakeRoomForWrite

(* What appending one element to a sequence of threads gives.              *)
LEMMA AppendFacts ==
  ASSUME NEW s \in Seq(Thread), NEW t \in Thread
  PROVE  /\ Append(s, t) \in Seq(Thread) /\ Append(s, t) # <<>>
         /\ Len(Append(s, t)) = Len(s) + 1
         /\ \A i \in 1 .. Len(s) : Append(s, t)[i] = s[i]
         /\ Append(s, t)[Len(s) + 1] = t
BY SMTT(30), AppendProperties

(* A queue stays free of duplicates when a thread that is not in it joins. *)
LEMMA AppendDistinct ==
  ASSUME NEW s, NEW q, NEW t, Len(s) \in Nat, Len(q) = Len(s) + 1,
         \A i \in 1 .. Len(s) : q[i] = s[i], q[Len(s) + 1] = t,
         \A i, j \in 1 .. Len(s) : s[i] = s[j] => i = j, ~InQueue(s, t)
  PROVE  Distinct(q)
BY SMTT(30) DEF Distinct, InQueue

(* A sequence of one element has no duplicates. *)
LEMMA SingletonDistinct ==
  ASSUME NEW s, Len(s) = 1
  PROVE  Distinct(s)
BY SMTT(30) DEF Distinct

(* A thread that joins an empty queue is at its front.                     *)
LEMMA JoinEmptyQueue ==
  ASSUME NEW t \in Thread, NEW r \in Request, QueueInv,
         pc[t] = "idle", opno[t] < MaxOps, closing = "open", writers = <<>>
  PROVE  AtFront(t, Append(writers, t), [req EXCEPT ![t] = r],
                 [opno EXCEPT ![t] = @ + 1])
<1> USE DEF QueueInv
<1> DEFINE q == Append(writers, t)
<1> DEFINE no == [opno EXCEPT ![t] = @ + 1]
<1>1. q \in Seq(Thread) /\ q # <<>> /\ Len(q) = 1 /\ q[1] = t
  <2>1. writers \in Seq(Thread) /\ Len(writers) = 0
    BY Zenon, EmptySeq DEF TypeOK
  <2>2. t \in Thread
    BY Zenon
  <2>3. q \in Seq(Thread) /\ q # <<>> /\ Len(q) = Len(writers) + 1 /\ q[Len(writers) + 1] = t
    BY ONLY Zenon, <2>1, <2>2, AppendFacts
  <2> HIDE DEF q
  <2> QED BY ONLY <2>1, <2>3
<1>2. Distinct(q)
  BY ONLY Zenon, <1>1, SingletonDistinct
<1>3. \A u \in Thread : pc[u] \notin FrontPc /\ ~(pc[u] = "queued" /\ ~done[u])
  <2>1. Len(writers) = 0
    BY Zenon, EmptySeq
  <2>2. FrontOnly
    BY Zenon
  <2> QED BY ONLY <2>1, <2>2 DEF FrontOnly
<1>4. \A u \in Thread : InQueue(q, u) <=> (u = t \/ (pc[u] = "queued" /\ ~done[u]))
  BY <1>1, <1>3 DEF InQueue
<1>5. ~done[t]
  BY Zenon DEF CallsOpen
<1>6. [req EXCEPT ![t] = r] \in [Thread -> Request \cup {NoReq}]
  BY Zenon DEF TypeOK
<1>7. no \in [Thread -> 0 .. MaxOps]
  BY BoundAssumption DEF TypeOK
<1>8. \A u \in Thread : u = t \/ pc[u] # "idle" => no[u] >= 1
  BY BoundAssumption DEF TypeOK, CallsOpen
<1> HIDE DEF no, q
<1> QED BY Zenon, <1>1, <1>2, <1>3, <1>4, <1>5, <1>6, <1>7, <1>8 DEF AtFront, no, q

(* The writer in front of the queue is at the front of it.                 *)
LEMMA FrontIsAtFront ==
  ASSUME NEW t \in Thread, QueueInv, writers # <<>>, t = writers[1], pc[t] # "idle", ~done[t]
  PROVE  AtFront(t, writers, req, opno)
<1> USE DEF QueueInv
<1>1. writers \in Seq(Thread) /\ 1 \in 1 .. Len(writers)
  BY EmptySeq, LenProperties DEF TypeOK
<1>2. \A u \in Thread \ {t} : pc[u] \notin FrontPc
  BY Zenon DEF FrontOnly
<1>3. pc[t] \in FrontPc \/ pc[t] = "queued"
  BY Zenon, <1>1 DEF FrontOnly
<1>4. \A u \in Thread : InQueue(writers, u) <=> (u = t \/ (pc[u] = "queued" /\ ~done[u]))
  BY Zenon, <1>1, <1>2, <1>3 DEF FrontOnly, InQueue
<1>5. \A u \in Thread : u = t \/ pc[u] # "idle" => opno[u] >= 1
  BY Zenon DEF CallsOpen
<1>6. closing = "open"
  BY Zenon DEF CallsOpen
<1> QED BY Zenon, <1>1, <1>2, <1>4, <1>5, <1>6 DEF AtFront, Distinct, FrontOnly, TypeOK

(* A thread in MakeRoomForWrite or in its group is at the front.           *)
LEMMA FrontPcAtFront ==
  ASSUME NEW t \in Thread, QueueInv, pc[t] \in FrontPc
  PROVE  AtFront(t, writers, req, opno)
<1>1. writers # <<>> /\ t = writers[1]
  BY Zenon DEF QueueInv, FrontOnly
<1>2. pc[t] # "idle" /\ pc[t] # "queued"
  BY Zenon DEF FrontPc
<1>3. ~done[t]
  BY Zenon, <1>2 DEF QueueInv, CallsOpen
<1> QED BY Zenon, <1>1, <1>2, <1>3, FrontIsAtFront

(* Write keeps the queue well formed, whichever way it goes.               *)
LEMMA WriteQueueInv ==
  ASSUME GroupsCounted, QueueInv, NEW t \in Thread, NEW r \in Request, Write(t, r)
  PROVE  QueueInv'
<1> USE DEF QueueInv
<1> DEFINE q == Append(writers, t)
<1> DEFINE rq == [req EXCEPT ![t] = r]
<1> DEFINE no == [opno EXCEPT ![t] = @ + 1]
<1>1. /\ alive /\ closing = "open" /\ pc[t] = "idle" /\ opno[t] < MaxOps
      /\ req' = rq /\ opno' = no
      /\ since' = [since EXCEPT ![t] = IF r.null THEN lastSeq ELSE @]
      /\ UNCHANGED <<lastSeq, l0Vars, closing, alive, synced>>
  BY Zenon DEF Write
<1>2. since' \in [Thread -> Nat]
  BY Zenon, <1>1 DEF TypeOK
<1>3. CASE writers = <<>> /\ MakeRoomForWrite(t, q, rq, no, r.null, ~r.null)
  <2>1. AtFront(t, q, rq, no)
    BY Zenon, <1>1, <1>3, JoinEmptyQueue
  <2>2. pc[t] \notin ActivePc
    BY Zenon, <1>1 DEF ActivePc
  <2>3. r.null \in BOOLEAN
    BY Zenon, RequestAssumption
  <2>4. CallerPart(rq, no)
    BY Zenon, <1>1, <1>2 DEF CallerPart
  <2> HIDE DEF q, rq, no
  <2> QED BY Zenon, <1>3, <2>1, <2>2, <2>3, <2>4, MakeRoomInv
<1>4. CASE /\ writers # <<>>
           /\ writers' = q
           /\ pc' = [pc EXCEPT ![t] = "queued"]
           /\ woken' = [woken EXCEPT ![t] = FALSE]
           /\ UNCHANGED <<done, status, leader, todo, acked, memVars, bg, logged>>
  <2>1. writers \in Seq(Thread) /\ Len(writers) \in Nat /\ Len(writers) >= 1
    BY <1>4, EmptySeq, LenProperties DEF TypeOK
  <2>2. /\ q \in Seq(Thread) /\ q # <<>> /\ Len(q) = Len(writers) + 1
        /\ \A i \in 1 .. Len(writers) : q[i] = writers[i]
        /\ q[Len(writers) + 1] = t
    <3>1. t \in Thread
      BY Zenon
    <3> QED BY ONLY Zenon, <2>1, <3>1, AppendFacts
  <2>3. ~InQueue(writers, t)
    <3>1. pc[t] \notin FrontPc /\ pc[t] # "queued"
      BY Zenon, <1>1 DEF FrontPc
    <3> QED BY Zenon, <3>1 DEF FrontOnly, InQueue
  <2>4. Distinct(q)
    <3>1. \A i, j \in 1 .. Len(writers) : writers[i] = writers[j] => i = j
      BY Zenon DEF FrontOnly
    <3> HIDE DEF q
    <3> QED BY ONLY Zenon, <2>1, <2>2, <2>3, <3>1, AppendDistinct
  <2>5. \A u \in Thread : InQueue(q, u) <=> (u = t \/ InQueue(writers, u))
    <3> TAKE u \in Thread
    <3>1. 1 .. Len(q) = (1 .. Len(writers)) \cup {Len(writers) + 1}
      BY <2>1, <2>2
    <3> QED BY Zenon, <2>2, <3>1 DEF InQueue
  <2>6. \A u \in Thread : pc'[u] = IF u = t THEN "queued" ELSE pc[u]
    BY Zenon, <1>4 DEF TypeOK
  <2>7. q[1] = writers[1]
    BY <2>1, <2>2
  <2>8. pc[t] \notin FrontPc /\ "queued" \notin FrontPc /\ ~done[t]
    BY Zenon, <1>1 DEF FrontPc, CallsOpen
  <2>9. FrontOnly'
    <3>1. \A u \in Thread : pc'[u] \in FrontPc => writers' # <<>> /\ u = writers'[1]
      <4>1. \A u \in Thread : pc[u] \in FrontPc => u = writers[1]
        BY Zenon DEF FrontOnly
      <4>2. writers' = q
        BY Zenon, <1>4
      <4> HIDE DEF q
      <4> QED BY ONLY Zenon, <2>2, <2>6, <2>7, <2>8, <4>1, <4>2
    <3>2. \A u \in Thread : InQueue(writers', u) <=>
            (pc'[u] \in FrontPc \/ (pc'[u] = "queued" /\ ~done'[u]))
      <4> TAKE u \in Thread
      <4>1. InQueue(writers, u) <=> (pc[u] \in FrontPc \/ (pc[u] = "queued" /\ ~done[u]))
        BY Zenon DEF FrontOnly, InQueue
      <4> QED BY Zenon, <1>4, <2>5, <2>6, <2>8, <4>1
    <3>3. writers' = q
      BY Zenon, <1>4
    <3> HIDE DEF q
    <3> QED BY ONLY <2>4, <3>1, <3>2, <3>3 DEF FrontOnly, InQueue, Distinct
  <2>10. TypeOK'
    <3>1. req' \in [Thread -> Request \cup {NoReq}] /\ opno' \in [Thread -> 0 .. MaxOps]
      BY <1>1, BoundAssumption DEF TypeOK
    <3>2. pc' \in [Thread -> Pc] /\ woken' \in [Thread -> BOOLEAN]
      BY Zenon, <1>4 DEF TypeOK, Pc
    <3> HIDE DEF q, rq, no
    <3> QED BY Zenon, <1>1, <1>2, <1>4, <2>2, <3>1, <3>2 DEF TypeOK, memVars, l0Vars
  <2>11. CallsOpen'
    <3>1. /\ \A u \in Thread : opno'[u] = IF u = t THEN opno[t] + 1 ELSE opno[u]
          /\ opno[t] + 1 >= 1 /\ closing = "open" /\ closing' = closing /\ done' = done
      <4>1. opno \in [Thread -> 0 .. MaxOps] /\ MaxOps \in Nat /\ t \in Thread
        BY Zenon, BoundAssumption DEF TypeOK
      <4>2. opno' = [opno EXCEPT ![t] = @ + 1] /\ closing = "open" /\ closing' = closing
        BY Zenon, <1>1
      <4>3. done' = done
        BY Zenon, <1>4
      <4> QED BY ONLY <4>1, <4>2, <4>3
    <3>2. CallsOpen
      BY Zenon
    <3> QED BY ONLY Zenon, <2>6, <2>8, <3>1, <3>2 DEF CallsOpen
  <2>12. GroupInQueue'
    <3>1. Active' => Active
      BY Zenon, <2>6 DEF Active, ActivePc
    <3> QED BY <1>1, <1>4, <2>1, <2>2, <3>1 DEF GroupInQueue
  <2> QED BY Zenon, <2>9, <2>10, <2>11, <2>12
<1> QED BY Zenon, <1>3, <1>4 DEF Write

(* Queue, calls and front writer are as they were.                         *)
LEMMA QueueUntouched ==
  ASSUME QueueInv, TypeOK',
         UNCHANGED <<writers, pc, callVars, done, leader, lastSeq>>,
         closing' = "open" \/ (closing' # "open" /\ \A t \in Thread : pc[t] = "idle")
  PROVE  QueueInv'
<1>1. FrontOnly'
  BY SMTT(30) DEF QueueInv, FrontOnly
<1>2. CallsOpen'
  BY Zenon DEF QueueInv, CallsOpen, callVars
<1>3. GroupInQueue'
  BY Zenon DEF QueueInv, GroupInQueue, Active
<1> QED BY Zenon, <1>1, <1>2, <1>3 DEF QueueInv

(* So does a writer that wakes from its condition variable.                *)
LEMMA WakeQueueInv ==
  ASSUME GroupsCounted, QueueInv, NEW t \in Thread, Wake(t)
  PROVE  QueueInv'
<1> USE DEF QueueInv
<1>1. /\ pc[t] = "queued"
      /\ UNCHANGED <<req, opno, since, lastSeq, tables, numL0, picked, closing, alive, synced>>
  BY Zenon DEF Wake, callVars, l0Vars
<1>2. CASE /\ done[t]
           /\ pc' = [pc EXCEPT ![t] = AfterWrite(t, status[t], req)]
           /\ acked' = Ack(t, status[t], req, opno)
           /\ done' = [done EXCEPT ![t] = FALSE]
           /\ UNCHANGED <<writers, status, woken, leader, todo, memVars, bg, logged>>
  <2>1. AfterWrite(t, status[t], req) \in {"idle", "flushing"}
    BY Zenon DEF AfterWrite
  <2>2. \A u \in Thread : /\ pc'[u] = IF u = t THEN AfterWrite(t, status[t], req) ELSE pc[u]
                          /\ done'[u] = IF u = t THEN FALSE ELSE done[u]
    BY Zenon, <1>2 DEF TypeOK
  <2>3. pc' \in [Thread -> Pc] /\ done' \in [Thread -> BOOLEAN]
    BY Zenon, <1>2, <2>1 DEF TypeOK, Pc
  <2>4. acked' \subseteq [op : Op, n : 0 .. MaxCount, sync : BOOLEAN]
    <3>1. <<t, opno[t]>> \in Op
      BY <1>1, BoundAssumption DEF CallsOpen, TypeOK, Op
    <3>2. CASE status[t] = "ok" /\ ~req[t].null
      <4>1. req[t].n \in 0 .. MaxCount /\ req[t].sync \in BOOLEAN
        BY <3>2, RequestAssumption DEF TypeOK, NoReq
      <4>2. [op |-> <<t, opno[t]>>, n |-> req[t].n, sync |-> req[t].sync]
              \in [op : Op, n : 0 .. MaxCount, sync : BOOLEAN]
        BY Zenon, <3>1, <4>1
      <4> QED BY Zenon, <1>2, <3>2, <4>2 DEF Ack, TypeOK
    <3>3. CASE ~(status[t] = "ok" /\ ~req[t].null)
      BY Zenon, <1>2, <3>3 DEF Ack, TypeOK
    <3> QED BY Zenon, <3>2, <3>3
  <2>5. TypeOK'
    BY Zenon, <1>1, <1>2, <2>3, <2>4 DEF TypeOK, memVars
  <2>6. FrontOnly'
    <3>1. \A u \in Thread : (pc'[u] \in FrontPc) <=> (pc[u] \in FrontPc)
      BY Zenon, <1>1, <2>1, <2>2 DEF FrontPc
    <3>2. \A u \in Thread : (pc'[u] = "queued" /\ ~done'[u]) <=> (pc[u] = "queued" /\ ~done[u])
      BY Zenon, <1>1, <1>2, <2>1, <2>2 DEF TypeOK
    <3>3. writers' = writers /\ FrontOnly
      BY Zenon, <1>2
    <3> QED BY ONLY Zenon, <3>1, <3>2, <3>3 DEF FrontOnly
  <2>7. CallsOpen'
    BY Zenon, <1>1, <2>1, <2>2 DEF CallsOpen
  <2>8. GroupInQueue'
    BY Zenon, <1>1, <1>2, <2>1, <2>2 DEF GroupInQueue, Active, ActivePc
  <2> QED BY Zenon, <2>5, <2>6, <2>7, <2>8
<1>3. CASE /\ ~done[t] /\ t = writers[1]
           /\ MakeRoomForWrite(t, writers, req, opno, req[t].null, ~req[t].null)
  <2>1. writers # <<>>
    <3>1. PICK i \in 1 .. Len(writers) : writers[i] = t
      BY Zenon, <1>1, <1>3 DEF FrontOnly
    <3> QED BY <3>1, EmptySeq
  <2>2. AtFront(t, writers, req, opno)
    BY Zenon, <1>1, <1>3, <2>1, FrontIsAtFront
  <2>3. pc[t] \notin ActivePc
    BY Zenon, <1>1 DEF ActivePc
  <2>5. req[t].null \in BOOLEAN
    <3>1. req[t] \in Request \cup {NoReq}
      BY Zenon DEF TypeOK
    <3>2. NoReq.null = TRUE
      BY Zenon DEF NoReq
    <3> QED BY Zenon, <3>1, <3>2, RequestAssumption
  <2>4. CallerPart(req, opno)
    BY Zenon, <1>1 DEF CallerPart, TypeOK, l0Vars
  <2> QED BY Zenon, <1>3, <2>2, <2>3, <2>4, <2>5, MakeRoomInv
<1>4. CASE /\ woken' = [woken EXCEPT ![t] = FALSE]
           /\ UNCHANGED <<writers, pc, done, status, leader, todo, acked, memVars, bg, logged>>
  <2>1. TypeOK'
    BY Zenon, <1>1, <1>4 DEF TypeOK, memVars
  <2>2. closing' = "open"
    BY Zenon, <1>1 DEF CallsOpen
  <2>3. UNCHANGED <<writers, pc, callVars, done, leader, lastSeq>>
    BY Zenon, <1>1, <1>4 DEF callVars
  <2> QED BY Zenon, <2>1, <2>2, <2>3, QueueUntouched
<1> QED BY Zenon, <1>2, <1>3, <1>4 DEF Wake

(* So does the front writer that goes round the loop of MakeRoomForWrite.  *)
LEMMA ResumeQueueInv ==
  ASSUME GroupsCounted, QueueInv, NEW t \in Thread, Resume(t)
  PROVE  QueueInv'
<1>1. /\ pc[t] \in {"delayed", "bgwait"}
      /\ MakeRoomForWrite(t, writers, req, opno, leader.force, leader.delay)
      /\ UNCHANGED <<req, opno, since, lastSeq, tables, numL0, picked, closing, alive, synced>>
  BY Zenon DEF Resume, callVars, l0Vars
<1>2. AtFront(t, writers, req, opno)
  BY Zenon, <1>1, FrontPcAtFront DEF FrontPc
<1>3. pc[t] \notin ActivePc
  BY Zenon, <1>1 DEF ActivePc
<1>4. leader.force \in BOOLEAN /\ leader.delay \in BOOLEAN
  BY Zenon DEF QueueInv, TypeOK
<1>5. CallerPart(req, opno)
  BY Zenon, <1>1 DEF CallerPart, QueueInv, TypeOK, l0Vars
<1> QED BY Zenon, <1>1, <1>2, <1>3, <1>4, <1>5, MakeRoomInv

(* The active group's calls are calls of threads in the queue.             *)
LEMMA GroupOpsType ==
  ASSUME QueueInv, Active
  PROVE  GroupOps \subseteq Op /\ GroupOps \subseteq QueueOps
<1> USE DEF QueueInv
<1>1. leader.last \in 1 .. Len(writers) /\ Len(writers) \in Nat
  BY Zenon, LenProperties DEF GroupInQueue, TypeOK
<1>2. ASSUME NEW i \in 1 .. leader.last
      PROVE  <<writers[i], opno[writers[i]]>> \in Op \cap QueueOps
  <2>1. i \in 1 .. Len(writers)
    BY SMTT(30), <1>1
  <2>2. writers[i] \in Thread
    BY Zenon, <2>1, ElementOfSeq DEF TypeOK
  <2>3. pc[writers[i]] # "idle"
    BY Zenon, <2>1, <2>2 DEF FrontOnly, FrontPc
  <2>4. opno[writers[i]] \in 1 .. MaxOps
    <3>1. opno \in [Thread -> 0 .. MaxOps] /\ MaxOps \in Nat
      BY Zenon, BoundAssumption DEF TypeOK
    <3>2. opno[writers[i]] >= 1
      BY Zenon, <2>2, <2>3 DEF CallsOpen
    <3> QED BY ONLY <2>2, <3>1, <3>2
  <2> QED BY Zenon, <2>1, <2>2, <2>4 DEF Op, QueueOps
<1> QED BY Zenon, <1>2 DEF GroupOps

(* The front writer moves from the log to the memtable.                    *)
LEMMA MoveInGroup ==
  ASSUME QueueInv, NEW t \in Thread, NEW c \in ActivePc, pc[t] \in ActivePc,
         pc' = [pc EXCEPT ![t] = c],
         UNCHANGED <<writers, callVars, done, leader, lastSeq, closing>>
  PROVE  /\ FrontOnly' /\ CallsOpen' /\ GroupInQueue'
         /\ pc' \in [Thread -> Pc]
<1> USE DEF QueueInv
<1>1. ActivePc \subseteq FrontPc /\ "idle" \notin FrontPc /\ "queued" \notin FrontPc
      /\ FrontPc \subseteq Pc
  BY Zenon DEF ActivePc, FrontPc, Pc
<1>2. \A u \in Thread : pc'[u] = IF u = t THEN c ELSE pc[u]
  BY Zenon DEF TypeOK
<1>3. pc' \in [Thread -> Pc]
  BY Zenon, <1>1 DEF TypeOK
<1>4. \A u \in Thread : pc'[u] \in FrontPc <=> pc[u] \in FrontPc
  BY Zenon, <1>1, <1>2
<1>5. \A u \in Thread : pc'[u] = "queued" <=> pc[u] = "queued"
  BY Zenon, <1>1, <1>2
<1>6. FrontOnly'
  BY Zenon, <1>4, <1>5 DEF FrontOnly, callVars
<1>7. CallsOpen'
  BY Zenon, <1>1, <1>2 DEF CallsOpen, callVars
<1>8. GroupInQueue'
  BY Zenon DEF GroupInQueue, Active, callVars
<1> QED BY Zenon, <1>3, <1>6, <1>7, <1>8

(* EndWrite pops the group that BuildBatchGroup collected.                 *)
LEMMA EndWriteQueueInv ==
  ASSUME QueueInv, NEW t \in Thread, EndWrite(t)
  PROVE  QueueInv'
<1> USE DEF QueueInv
<1>1. pc[t] \in ActivePc
  BY Zenon DEF EndWrite, ActivePc
<1>2. Active
  BY Zenon, <1>1 DEF Active
<1>3. AtFront(t, writers, req, opno)
  BY Zenon, <1>1, FrontPcAtFront DEF ActivePc, FrontPc
<1>4. leader.last \in 1 .. Len(writers)
  BY Zenon, <1>2 DEF GroupInQueue
<1> DEFINE s == IF pc[t] = "failed" THEN "error" ELSE "ok"
<1>5. s \in {"ok", "error"}
  BY Zenon
<1>6. /\ PopGroup(t, writers, req, opno, leader.last, s)
      /\ lastSeq' = leader.seq
      /\ UNCHANGED <<req, opno, since, leader, mem, imm, hasImm, tables, numL0,
                     picked, bg, closing, alive, logged, synced>>
  BY Zenon DEF EndWrite, callVars, memVars, l0Vars, bgVars, logVars
<1> HIDE DEF s
<1>7. /\ since' \in [Thread -> Nat] /\ lastSeq' \in Nat /\ mem' \subseteq Entry
      /\ imm' \subseteq Entry /\ hasImm' \in BOOLEAN /\ bg' \in BgPc
      /\ alive' \in BOOLEAN /\ tables' \subseteq Entry /\ numL0' \in Nat
      /\ picked' \in 0 .. numL0' /\ logged' \subseteq Op /\ synced' \subseteq Op
  BY Zenon, <1>6 DEF TypeOK
<1> QED BY Zenon, <1>3, <1>4, <1>5, <1>6, <1>7, PopGroupInv

(* The queue invariant holds initially.                                    *)
LEMMA QueueInit == Init => QueueInv
<1> SUFFICES ASSUME Init PROVE QueueInv
  BY Zenon
<1>1. TypeOK
  <2>1. writers \in Seq(Thread)
    BY Zenon, EmptySeq DEF Init
  <2>2. opno \in [Thread -> 0 .. MaxOps] /\ since \in [Thread -> Nat]
    BY BoundAssumption DEF Init
  <2>3. leader \in [force : BOOLEAN, delay : BOOLEAN, last : Nat, seq : Nat]
    BY Zenon DEF Init
  <2>4. /\ pc \in [Thread -> Pc]
        /\ req \in [Thread -> Request \cup {NoReq}]
        /\ done \in [Thread -> BOOLEAN] /\ woken \in [Thread -> BOOLEAN]
        /\ status \in [Thread -> {"ok", "error"}]
    BY Zenon DEF Init, Pc
  <2>5. /\ lastSeq \in Nat /\ numL0 \in Nat /\ picked \in 0 .. numL0
        /\ todo = {} /\ mem = {} /\ imm = {} /\ tables = {}
        /\ logged = {} /\ synced = {} /\ acked = {}
    BY DEF Init
  <2>6. /\ hasImm \in BOOLEAN /\ alive \in BOOLEAN /\ bg \in BgPc
        /\ closing \in {"open", "waiting", "woken", "closed"}
    BY Zenon DEF Init, BgPc
  <2> QED BY Zenon, <2>1, <2>2, <2>3, <2>4, <2>5, <2>6 DEF TypeOK
<1>2. Len(writers) = 0
  BY Zenon, EmptySeq DEF Init
<1>3. FrontOnly
  BY <1>2 DEF Init, FrontOnly, FrontPc
<1>4. CallsOpen
  BY Zenon DEF Init, CallsOpen
<1>5. GroupInQueue
  BY Zenon DEF Init, GroupInQueue, Active, ActivePc
<1> QED BY Zenon, <1>1, <1>3, <1>4, <1>5 DEF QueueInv

(* Every step preserves the queue invariant.                               *)
LEMMA QueueStep ==
  ASSUME GroupsCounted
  PROVE  QueueInv /\ [Next]_vars => QueueInv'
<1> SUFFICES ASSUME QueueInv, [Next]_vars PROVE QueueInv'
  BY Zenon
<1> USE DEF QueueInv
<1>1. ASSUME NEW t \in Thread, NEW r \in Request, Write(t, r) PROVE QueueInv'
  BY Zenon, <1>1, WriteQueueInv
<1>2. ASSUME NEW t \in Thread, Wake(t) PROVE QueueInv'
  BY Zenon, <1>2, WakeQueueInv
<1>3. ASSUME NEW t \in Thread, Resume(t) PROVE QueueInv'
  BY Zenon, <1>3, ResumeQueueInv
<1>4. ASSUME NEW t \in Thread, AddRecord(t) PROVE QueueInv'
  <2>1. /\ pc[t] \in ActivePc /\ "inserting" \in ActivePc /\ pc' = [pc EXCEPT ![t] = "inserting"]
        /\ UNCHANGED <<writers, callVars, done, leader, lastSeq, closing>>
    BY Zenon, <1>4 DEF AddRecord, ActivePc, dataVars, bgVars
  <2>2. FrontOnly' /\ CallsOpen' /\ GroupInQueue' /\ pc' \in [Thread -> Pc]
    BY Zenon, <2>1, MoveInGroup
  <2>3. GroupOps \subseteq Op
    BY Zenon, <2>1, GroupOpsType DEF Active
  <2>4. TypeOK'
    BY Zenon, <1>4, <2>2, <2>3 DEF AddRecord, TypeOK, callVars, dataVars, memVars, l0Vars, bgVars
  <2> QED BY Zenon, <2>2, <2>4
<1>5. ASSUME NEW t \in Thread, AddRecordFails(t) PROVE QueueInv'
  <2>1. /\ pc[t] \in ActivePc /\ "failed" \in ActivePc /\ pc' = [pc EXCEPT ![t] = "failed"]
        /\ UNCHANGED <<writers, callVars, done, leader, lastSeq, closing>>
    BY Zenon, <1>5 DEF AddRecordFails, ActivePc, dataVars, bgVars
  <2>2. FrontOnly' /\ CallsOpen' /\ GroupInQueue' /\ pc' \in [Thread -> Pc]
    BY Zenon, <2>1, MoveInGroup
  <2>3. TypeOK'
    BY Zenon, <1>5, <2>2 DEF AddRecordFails, TypeOK, callVars, dataVars, memVars, l0Vars, bgVars, logVars
  <2> QED BY Zenon, <2>2, <2>3
<1>6. ASSUME NEW t \in Thread, SyncFails(t) PROVE QueueInv'
  <2>1. TypeOK'
    BY Zenon, <1>6 DEF SyncFails, TypeOK, queueVars, callVars, dataVars, memVars, l0Vars, logVars
  <2>2. UNCHANGED <<writers, pc, callVars, done, leader, lastSeq, closing>>
    BY Zenon, <1>6 DEF SyncFails, queueVars, dataVars
  <2>3. closing' = "open" \/ (closing' # "open" /\ \A u \in Thread : pc[u] = "idle")
    BY Zenon, <2>2 DEF CallsOpen
  <2> QED BY Zenon, <2>1, <2>2, <2>3, QueueUntouched
<1>7. ASSUME NEW t \in Thread, InsertInto(t) PROVE QueueInv'
  <2>1. TypeOK'
    BY Zenon, <1>7 DEF InsertInto, TypeOK, callVars, l0Vars, bgVars, logVars
  <2>2. UNCHANGED <<writers, pc, callVars, done, leader, lastSeq, closing>>
    BY Zenon, <1>7 DEF InsertInto, bgVars
  <2>3. closing' = "open" \/ (closing' # "open" /\ \A u \in Thread : pc[u] = "idle")
    BY Zenon, <2>2 DEF CallsOpen
  <2> QED BY Zenon, <2>1, <2>2, <2>3, QueueUntouched
<1>8. ASSUME NEW t \in Thread, EndWrite(t) PROVE QueueInv'
  BY Zenon, <1>8, EndWriteQueueInv
<1>9. ASSUME NEW t \in Thread, FlushWait(t) PROVE QueueInv'
  <2>1. pc[t] \in {"flushing", "flushwait"}
    BY Zenon, <1>9 DEF FlushWait
  <2>2. \A u \in Thread : pc'[u] = IF u # t THEN pc[u]
                                   ELSE IF ~hasImm THEN "idle" ELSE "flushwait"
    BY Zenon, <1>9 DEF FlushWait, TypeOK
  <2>3. pc' \in [Thread -> Pc] /\ woken' \in [Thread -> BOOLEAN]
    BY Zenon, <1>9 DEF FlushWait, TypeOK, Pc
  <2>4. TypeOK'
    BY Zenon, <1>9, <2>3 DEF FlushWait, TypeOK, callVars, dataVars, memVars, l0Vars, bgVars, logVars
  <2>5. \A u \in Thread : pc'[u] \in FrontPc <=> pc[u] \in FrontPc
    BY Zenon, <2>1, <2>2 DEF FrontPc
  <2>6. \A u \in Thread : pc'[u] = "queued" <=> pc[u] = "queued"
    BY Zenon, <2>1, <2>2
  <2>7. FrontOnly'
    <3>1. writers' = writers /\ done' = done /\ FrontOnly
      BY Zenon, <1>9 DEF FlushWait
    <3> QED BY ONLY Zenon, <2>5, <2>6, <3>1 DEF FrontOnly
  <2>8. CallsOpen'
    BY Zenon, <1>9, <2>1, <2>2, <2>6 DEF FlushWait, CallsOpen, callVars, bgVars
  <2>9. GroupInQueue'
    BY <1>9, <2>1, <2>2 DEF FlushWait, GroupInQueue, Active, ActivePc, dataVars
  <2> QED BY Zenon, <2>4, <2>7, <2>8, <2>9
<1>10. CASE BackgroundStep
  <2>1. UNCHANGED <<writers, pc, callVars, done, leader, lastSeq>>
    BY Zenon, <1>10 DEF BackgroundStep, BackgroundCall, TableBuilt, InstallTable, CompactionYields,
       CompactionEnds, InstallCompaction, BackgroundFails, bgUnchanged
  <2>2. UNCHANGED <<status, todo, mem, logged, synced, acked>>
    BY Zenon, <1>10 DEF BackgroundStep, BackgroundCall, TableBuilt, InstallTable, CompactionYields,
       CompactionEnds, InstallCompaction, BackgroundFails, bgUnchanged, logVars
  <2>3. /\ woken' \in [Thread -> BOOLEAN]
        /\ closing' \in {"open", "waiting", "woken", "closed"}
        /\ closing' = "open" <=> closing = "open"
    BY Zenon, <1>10 DEF BackgroundStep, BackgroundCall, TableBuilt, InstallTable, CompactionYields,
       CompactionEnds, InstallCompaction, BackgroundFails, FinishBackground, SignalAll, TypeOK
  <2>4. bg' \in BgPc /\ alive' \in BOOLEAN
    BY Zenon, <1>10 DEF BackgroundStep, BackgroundCall, TableBuilt, InstallTable, CompactionYields,
       CompactionEnds, InstallCompaction, BackgroundFails, FinishBackground, MaybeSchedule,
       TypeOK, BgPc
  <2>5. imm' \subseteq Entry /\ hasImm' \in BOOLEAN /\ tables' \subseteq Entry
    BY Zenon, <1>10 DEF BackgroundStep, BackgroundCall, TableBuilt, InstallTable, CompactionYields,
       CompactionEnds, InstallCompaction, BackgroundFails, l0Vars, TypeOK
  <2>6. numL0' \in Nat /\ picked' \in 0 .. numL0'
    <3>1. CASE BackgroundCall
      BY <3>1 DEF BackgroundCall, TypeOK
    <3>2. CASE InstallTable
      BY <3>2 DEF InstallTable, TypeOK
    <3>3. CASE InstallCompaction
      BY <3>3 DEF InstallCompaction, TypeOK
    <3>4. CASE TableBuilt \/ CompactionYields \/ CompactionEnds \/ BackgroundFails
      BY Zenon, <3>4 DEF TableBuilt, CompactionYields, CompactionEnds, BackgroundFails, l0Vars, TypeOK
    <3> QED BY Zenon, <1>10, <3>1, <3>2, <3>3, <3>4 DEF BackgroundStep
  <2>7. TypeOK'
    BY Zenon, <2>1, <2>2, <2>3, <2>4, <2>5, <2>6 DEF TypeOK, callVars
  <2>8. closing' = "open" \/ (closing' # "open" /\ \A t \in Thread : pc[t] = "idle")
    BY Zenon, <2>3 DEF CallsOpen
  <2> QED BY Zenon, <2>1, <2>7, <2>8, QueueUntouched
<1>11. CASE Close \/ CloseResumes
  <2>1. UNCHANGED <<writers, pc, callVars, done, leader, lastSeq>>
    BY Zenon, <1>11 DEF Close, CloseResumes, bgUnchanged
  <2>2. TypeOK'
    BY Zenon, <1>11 DEF Close, CloseResumes, bgUnchanged, logVars, callVars, l0Vars, TypeOK
  <2>3. closing' = "open" \/ (closing' # "open" /\ \A t \in Thread : pc[t] = "idle")
    BY Zenon, <1>11 DEF Close, CloseResumes, CallsOpen
  <2> QED BY Zenon, <2>1, <2>2, <2>3, QueueUntouched
<1>12. CASE UNCHANGED vars
  <2>1. TypeOK'
    BY Zenon, <1>12 DEF vars, queueVars, callVars, dataVars, memVars, l0Vars, bgVars, logVars, TypeOK
  <2>2. UNCHANGED <<writers, pc, callVars, done, leader, lastSeq, closing>>
    BY Zenon, <1>12 DEF vars, queueVars, dataVars, bgVars
  <2>3. closing' = "open" \/ (closing' # "open" /\ \A u \in Thread : pc[u] = "idle")
    BY Zenon, <2>2 DEF CallsOpen
  <2> QED BY Zenon, <2>1, <2>2, <2>3, QueueUntouched
<1> QED BY Zenon, <1>1, <1>2, <1>3, <1>4, <1>5, <1>6, <1>7, <1>8, <1>9, <1>10, <1>11, <1>12
        DEF Next, ThreadStep, Terminated

-----------------------------------------------------------------------------
(***************************************************************************)
(* No wakeup of the write path is lost and no work is left unscheduled:    *)
(* the argument behind its liveness.                                       *)
(***************************************************************************)
(* The two halves of NoLostWakeup that a step of a writer can disturb.     *)
QueueAwake ==
  \A t \in Thread : pc[t] = "queued" /\ (done[t] \/ t = writers[1]) => woken[t]
WaitersServed == \A t \in BgWaiters : woken[t] \/ bg # "idle"

(* Nobody sleeps in the initial state, and there is no work.               *)
LEMMA WakeInit == Init => WakeInv
<1> SUFFICES ASSUME Init PROVE WakeInv
  BY Zenon
<1>1. NoLostWakeup
  BY Zenon DEF Init, NoLostWakeup, BgWaiters
<1>2. ~NeedsCompaction(numL0) /\ ~hasImm
  BY TriggerAssumption DEF Init, NeedsCompaction
<1> QED BY Zenon, <1>1, <1>2 DEF WakeInv, WorkIsScheduled

(* PopGroup signals the members of the group and the new front.            *)
LEMMA PopWakes ==
  ASSUME NEW t \in Thread, NEW q \in Seq(Thread), NEW rq, NEW no,
         NEW k \in 1 .. Len(q), NEW s, PopGroup(t, q, rq, no, k, s),
         TypeOK, FrontOnly',
         \A u \in Thread : pc[u] = "queued" /\ done[u] => woken[u]
  PROVE  /\ QueueAwake'
         /\ \A u \in Thread : woken[u] => woken'[u]
         /\ \A u \in Thread : pc'[u] = pc[u] \/ pc'[u] \in {"idle", "flushing"}
<1>1. /\ writers' = SubSeq(q, k + 1, Len(q))
      /\ done' = [u \in Thread |-> done[u] \/ u \in (Members(q, k) \ {t})]
      /\ woken' = [u \in Thread |-> woken[u] \/ u \in (Members(q, k) \ {t}) \cup NewFront(q, k)]
      /\ pc' = [pc EXCEPT ![t] = AfterWrite(t, s, rq)]
  BY Zenon DEF PopGroup
<1>2. AfterWrite(t, s, rq) \in {"idle", "flushing"}
  BY Zenon DEF AfterWrite
<1>3. \A u \in Thread : pc'[u] = IF u = t THEN AfterWrite(t, s, rq) ELSE pc[u]
  BY Zenon, <1>1 DEF TypeOK
<1>4. \A u \in Thread : woken[u] => woken'[u]
  BY Zenon, <1>1
<1>5. ASSUME NEW u \in Thread, pc'[u] = "queued", done'[u] \/ u = writers'[1]
      PROVE  woken'[u]
  <2>1. u # t /\ pc[u] = "queued"
    BY Zenon, <1>2, <1>3, <1>5
  <2>2. CASE done'[u]
    BY Zenon, <1>1, <2>1, <2>2
  <2>3. CASE ~done'[u]
    <3>1. PICK i \in 1 .. Len(writers') : writers'[i] = u
      BY Zenon, <1>5, <2>3 DEF FrontOnly
    <3>2. Len(writers') = Len(q) - k /\ \A j \in 1 .. Len(q) - k : writers'[j] = q[k + j]
      BY Zenon, <1>1, PoppedQueue
    <3>3. Len(q) \in Nat /\ k \in Nat
      BY LenProperties
    <3>4. k < Len(q) /\ 1 \in 1 .. Len(q) - k
      BY <3>1, <3>2, <3>3
    <3>5. u = q[k + 1]
      BY Zenon, <1>5, <2>3, <3>2, <3>4
    <3> QED BY Zenon, <1>1, <3>4, <3>5 DEF NewFront
  <2> QED BY Zenon, <2>2, <2>3
<1> QED BY Zenon, <1>2, <1>3, <1>4, <1>5 DEF QueueAwake

(* MakeRoomForWrite and what follows it.                                   *)
LEMMA MakeRoomWakes ==
  ASSUME NEW t \in Thread, NEW q, NEW rq, NEW no, AtFront(t, q, rq, no),
         NEW force, NEW delay, TypeOK, WakeInv, alive,
         MakeRoomForWrite(t, q, rq, no, force, delay), FrontOnly',
         UNCHANGED <<closing, alive, numL0>>
  PROVE  WakeInv'
<1>1. closing = "open" /\ q \in Seq(Thread) /\ q # <<>> /\ q[1] = t
  BY Zenon DEF AtFront
<1>2. QueueAwake /\ WaitersServed
  BY Zenon DEF WakeInv, NoLostWakeup, QueueAwake, WaitersServed
<1>3. 1 \in 1 .. Len(q)
  BY <1>1, EmptySeq, LenProperties
<1>4. MustWait => bg # "idle"
  BY <1>1, TriggerAssumption DEF WakeInv, WorkIsScheduled, MustWait, NeedsCompaction, TypeOK
<1>5. ASSUME QueueAwake', WaitersServed', bg # "idle" => bg' # "idle",
             hasImm' => hasImm \/ bg' # "idle"
      PROVE  WakeInv'
  <2>1. NoLostWakeup'
    BY Zenon, <1>1, <1>5 DEF NoLostWakeup, QueueAwake, WaitersServed
  <2>2. WorkIsScheduled'
    BY Zenon, <1>1, <1>5 DEF WakeInv, WorkIsScheduled, NeedsCompaction
  <2> QED BY Zenon, <2>1, <2>2 DEF WakeInv
<1>6. ASSUME writers' = q, NEW c \in {"delayed", "bgwait", "logging"},
             pc' = [pc EXCEPT ![t] = c], done' = done,
             \A u \in Thread \ {t} : woken'[u] = woken[u]
      PROVE  QueueAwake' /\ \A u \in Thread \ {t} : pc'[u] = pc[u]
  BY Zenon, <1>1, <1>2, <1>6 DEF QueueAwake, TypeOK
<1>7. ASSUME NEW s, PopGroup(t, q, rq, no, 1, s), bg # "idle" => bg' # "idle"
      PROVE  QueueAwake' /\ WaitersServed'
  <2>1. /\ QueueAwake'
        /\ \A u \in Thread : woken[u] => woken'[u]
        /\ \A u \in Thread : pc'[u] = pc[u] \/ pc'[u] \in {"idle", "flushing"}
    BY Zenon, <1>1, <1>2, <1>3, <1>7, PopWakes DEF QueueAwake
  <2>2. WaitersServed'
    BY Zenon, <1>2, <1>7, <2>1 DEF WaitersServed, BgWaiters
  <2> QED BY Zenon, <2>1, <2>2
<1>8. ASSUME StartGroup(t, q, rq, no), bg # "idle" => bg' # "idle"
      PROVE  QueueAwake' /\ WaitersServed'
  <2>1. CASE rq[t].null
    BY Zenon, <1>7, <1>8, <2>1 DEF StartGroup
  <2>2. CASE ~rq[t].null
    <3>1. writers' = q /\ pc' = [pc EXCEPT ![t] = "logging"] /\ UNCHANGED <<done, woken>>
      BY Zenon, <1>8, <2>2 DEF StartGroup
    <3>2. QueueAwake' /\ \A u \in Thread \ {t} : pc'[u] = pc[u]
      BY Zenon, <1>6, <3>1
    <3>3. pc'[t] = "logging"
      BY <3>1 DEF TypeOK
    <3>4. WaitersServed'
      BY Zenon, <1>2, <1>8, <3>1, <3>2, <3>3 DEF WaitersServed, BgWaiters
    <3> QED BY Zenon, <3>2, <3>4
  <2> QED BY Zenon, <2>1, <2>2
<1>9. CASE Suspend(t, q, force, FALSE, "delayed") /\ UNCHANGED woken
  <2>1. writers' = q /\ pc' = [pc EXCEPT ![t] = "delayed"] /\ UNCHANGED <<done, woken, bg, hasImm>>
    BY Zenon, <1>9 DEF Suspend, memVars
  <2>2. QueueAwake' /\ \A u \in Thread \ {t} : pc'[u] = pc[u]
    BY Zenon, <1>6, <2>1
  <2>3. pc'[t] = "delayed"
    BY Zenon, <2>1 DEF TypeOK
  <2>4. WaitersServed'
    BY <1>2, <2>1, <2>2, <2>3 DEF WaitersServed, BgWaiters
  <2> QED BY Zenon, <1>5, <2>1, <2>2, <2>4
<1>10. CASE MustWait /\ Suspend(t, q, force, delay, "bgwait") /\ woken' = [woken EXCEPT ![t] = FALSE]
  <2>1. writers' = q /\ pc' = [pc EXCEPT ![t] = "bgwait"] /\ UNCHANGED <<done, bg, hasImm>>
        /\ \A u \in Thread \ {t} : woken'[u] = woken[u]
    BY Zenon, <1>10 DEF Suspend, memVars, TypeOK
  <2>2. QueueAwake' /\ \A u \in Thread \ {t} : pc'[u] = pc[u]
    BY Zenon, <1>6, <2>1
  <2>3. WaitersServed'
    BY Zenon, <1>4, <1>10, <2>1 DEF WaitersServed
  <2> QED BY Zenon, <1>5, <2>1, <2>2, <2>3
<1>11. CASE StartGroup(t, q, rq, no) /\ UNCHANGED <<memVars, bg, logged>>
  BY Zenon, <1>5, <1>8, <1>11 DEF memVars
<1>12. CASE SwitchMemTable /\ StartGroup(t, q, rq, no)
  <2>1. bg' # "idle"
    BY Zenon, <1>1, <1>12 DEF SwitchMemTable, MaybeSchedule
  <2> QED BY Zenon, <1>5, <1>8, <1>12, <2>1
<1>13. CASE PopGroup(t, q, rq, no, 1, "error") /\ UNCHANGED <<leader, memVars, bg, logged>>
  BY Zenon, <1>5, <1>7, <1>13 DEF memVars
<1> QED BY Zenon, <1>9, <1>10, <1>11, <1>12, <1>13 DEF MakeRoomForWrite

(* A step of the background thread that keeps the call running, or that    *)
(* ends it with SignalAll.                                                 *)
LEMMA BackgroundWakes ==
  ASSUME QueueInv, WakeInv, alive, UNCHANGED <<writers, pc, done>>,
         \/ bg' # "idle" /\ UNCHANGED woken /\ closing' = closing
         \/ bg' # "idle" /\ SignalAll
         \/ SignalAll /\ bg' = MaybeSchedule("idle", hasImm', numL0')
  PROVE  WakeInv'
<1>1. QueueAwake /\ WaitersServed /\ (closing = "waiting" => bg # "idle")
  BY Zenon DEF WakeInv, NoLostWakeup, QueueAwake, WaitersServed
<1>2. woken \in [Thread -> BOOLEAN]
  BY Zenon DEF QueueInv, TypeOK
<1>3. CASE bg' # "idle" /\ UNCHANGED woken /\ closing' = closing
  BY Zenon, <1>1, <1>3 DEF WakeInv, NoLostWakeup, WorkIsScheduled, QueueAwake, BgWaiters
<1>4. CASE SignalAll
  <2>1. /\ \A u \in Thread : woken[u] => woken'[u]
        /\ \A u \in BgWaiters : woken'[u]
        /\ closing' # "waiting" /\ (closing' = "open" <=> closing = "open")
    BY Zenon, <1>4 DEF SignalAll, BgWaiters
  <2>2. NoLostWakeup'
    BY Zenon, <1>1, <2>1 DEF NoLostWakeup, QueueAwake, BgWaiters
  <2>3. WorkIsScheduled'
    BY Zenon, <2>1, <1>4 DEF WorkIsScheduled, MaybeSchedule
  <2> QED BY Zenon, <2>2, <2>3 DEF WakeInv
<1> QED BY Zenon, <1>3, <1>4

(* A step of one thread that leaves the background alone.                  *)
LEMMA ThreadWakes ==
  ASSUME WakeInv, QueueAwake', WaitersServed', UNCHANGED <<hasImm, numL0, bg, closing>>,
         alive
  PROVE  WakeInv'
<1>1. NoLostWakeup'
  BY Zenon DEF WakeInv, NoLostWakeup, QueueAwake, WaitersServed
<1>2. WorkIsScheduled'
  BY Zenon DEF WakeInv, WorkIsScheduled
<1> QED BY Zenon, <1>1, <1>2 DEF WakeInv

(* Every step keeps the promise, or ends the process.                      *)
LEMMA WakeStep == QueueInv /\ QueueInv' /\ WakeInv /\ [Next]_vars => WakeInv'
<1> SUFFICES ASSUME QueueInv, QueueInv', WakeInv, [Next]_vars PROVE WakeInv'
  BY Zenon
<1>q. TypeOK /\ FrontOnly /\ CallsOpen /\ GroupInQueue /\ FrontOnly'
  BY Zenon DEF QueueInv
<1>a. alive => QueueAwake /\ WaitersServed
  BY Zenon DEF WakeInv, NoLostWakeup, QueueAwake, WaitersServed
<1>d. ~alive' => WakeInv'
  BY Zenon DEF WakeInv, NoLostWakeup, WorkIsScheduled
<1>1. ASSUME NEW t \in Thread, NEW r \in Request, Write(t, r) PROVE WakeInv'
  <2> DEFINE q == Append(writers, t)
             rq == [req EXCEPT ![t] = r]
             no == [opno EXCEPT ![t] = @ + 1]
  <2>1. /\ alive /\ closing = "open" /\ pc[t] = "idle" /\ opno[t] < MaxOps
        /\ UNCHANGED <<closing, alive, numL0>>
    BY <1>1 DEF Write, l0Vars
  <2>2. CASE writers = <<>> /\ MakeRoomForWrite(t, q, rq, no, r.null, ~r.null)
    <3>1. AtFront(t, q, rq, no)
      BY <2>1, <2>2, JoinEmptyQueue
    <3> HIDE DEF q, rq, no
    <3> QED BY Zenon, <1>q, <2>1, <2>2, <3>1, MakeRoomWakes
  <2>3. CASE /\ writers # <<>> /\ writers' = q
             /\ pc' = [pc EXCEPT ![t] = "queued"]
             /\ woken' = [woken EXCEPT ![t] = FALSE]
             /\ UNCHANGED <<done, status, leader, todo, acked, memVars, bg, logged>>
    <3>1. writers \in Seq(Thread) /\ 1 \in 1 .. Len(writers)
      BY <1>q, <2>3, EmptySeq, LenProperties DEF TypeOK
    <3>2. writers'[1] = writers[1]
      BY Zenon, <2>3, <3>1, AppendFacts
    <3>3. writers[1] # t /\ ~done[t]
      BY Zenon, <1>q, <2>1, <3>1 DEF FrontOnly, CallsOpen, FrontPc
    <3>4. \A u \in Thread : u # t => pc'[u] = pc[u] /\ woken'[u] = woken[u]
      BY Zenon, <1>q, <2>3 DEF TypeOK
    <3>5. pc'[t] = "queued"
      BY Zenon, <1>q, <2>3 DEF TypeOK
    <3>6. QueueAwake'
      BY Zenon, <1>a, <2>1, <2>3, <3>2, <3>3, <3>4 DEF QueueAwake
    <3>7. WaitersServed'
      BY Zenon, <1>a, <2>1, <2>3, <3>4, <3>5 DEF WaitersServed, BgWaiters
    <3> QED BY Zenon, <2>1, <2>3, <3>6, <3>7, ThreadWakes DEF memVars
  <2> QED BY Zenon, <1>1, <2>2, <2>3 DEF Write
<1>2. ASSUME NEW t \in Thread, Wake(t) PROVE WakeInv'
  <2>1. alive /\ pc[t] = "queued" /\ woken[t] /\ UNCHANGED <<closing, alive, numL0>>
    BY Zenon, <1>2 DEF Wake, l0Vars
  <2>2. CASE /\ done[t] /\ pc' = [pc EXCEPT ![t] = AfterWrite(t, status[t], req)]
             /\ done' = [done EXCEPT ![t] = FALSE]
             /\ UNCHANGED <<writers, status, woken, leader, todo, memVars, bg, logged>>
    <3>1. AfterWrite(t, status[t], req) \in {"idle", "flushing"}
      BY Zenon DEF AfterWrite
    <3>2. \A u \in Thread : /\ u # t => pc'[u] = pc[u] /\ done'[u] = done[u]
                            /\ pc'[t] \in {"idle", "flushing"}
      BY <1>q, <2>2, <3>1 DEF TypeOK
    <3>3. QueueAwake' /\ WaitersServed'
      BY <1>a, <2>1, <2>2, <3>2 DEF QueueAwake, WaitersServed, BgWaiters
    <3> QED BY Zenon, <2>1, <2>2, <3>3, ThreadWakes DEF memVars
  <2>3. CASE /\ ~done[t] /\ t = writers[1]
             /\ MakeRoomForWrite(t, writers, req, opno, req[t].null, ~req[t].null)
    <3>1. writers # <<>>
      <4>1. PICK i \in 1 .. Len(writers) : writers[i] = t
        BY Zenon, <1>q, <2>1, <2>3 DEF FrontOnly
      <4> QED BY <4>1, EmptySeq
    <3>2. AtFront(t, writers, req, opno)
      BY <2>1, <2>3, <3>1, FrontIsAtFront
    <3> QED BY Zenon, <1>q, <2>1, <2>3, <3>2, MakeRoomWakes
  <2>4. CASE /\ ~done[t] /\ t # writers[1] /\ woken' = [woken EXCEPT ![t] = FALSE]
             /\ UNCHANGED <<writers, pc, done, status, leader, todo, acked, memVars, bg, logged>>
    <3>1. \A u \in Thread : u # t => woken'[u] = woken[u]
      BY <1>q, <2>4 DEF TypeOK
    <3>2. QueueAwake' /\ WaitersServed'
      BY Zenon, <1>a, <2>1, <2>4, <3>1 DEF QueueAwake, WaitersServed, BgWaiters
    <3> QED BY Zenon, <2>1, <2>4, <3>2, ThreadWakes DEF memVars
  <2> QED BY Zenon, <1>2, <2>2, <2>3, <2>4 DEF Wake
<1>3. ASSUME NEW t \in Thread, Resume(t) PROVE WakeInv'
  <2>1. /\ alive /\ pc[t] \in {"delayed", "bgwait"} /\ UNCHANGED <<closing, alive, numL0>>
        /\ MakeRoomForWrite(t, writers, req, opno, leader.force, leader.delay)
    BY Zenon, <1>3 DEF Resume, l0Vars
  <2>2. AtFront(t, writers, req, opno)
    BY Zenon, <2>1, FrontPcAtFront DEF FrontPc
  <2> QED BY Zenon, <1>q, <2>1, <2>2, MakeRoomWakes
<1>4. ASSUME NEW t \in Thread, AddRecord(t) \/ AddRecordFails(t) PROVE WakeInv'
  <2>1. /\ alive /\ UNCHANGED <<writers, done, woken, hasImm, numL0, bg, closing>>
        /\ \E c \in {"inserting", "failed"} : pc' = [pc EXCEPT ![t] = c]
    BY Zenon, <1>4 DEF AddRecord, AddRecordFails, dataVars, memVars, l0Vars, bgVars
  <2>2. \A u \in Thread : u # t => pc'[u] = pc[u]
    BY Zenon, <1>q, <2>1 DEF TypeOK
  <2>3. pc'[t] \in {"inserting", "failed"}
    BY <1>q, <2>1 DEF TypeOK
  <2>4. QueueAwake' /\ WaitersServed'
    BY Zenon, <1>a, <2>1, <2>2, <2>3 DEF QueueAwake, WaitersServed, BgWaiters
  <2> QED BY Zenon, <2>1, <2>4, ThreadWakes
<1>5. ASSUME NEW t \in Thread, SyncFails(t) PROVE WakeInv'
  BY Zenon, <1>5, <1>d DEF SyncFails
<1>6. ASSUME NEW t \in Thread, InsertInto(t) PROVE WakeInv'
  <2>1. alive /\ UNCHANGED <<writers, pc, done, woken, hasImm, numL0, bg, closing>>
    BY Zenon, <1>6 DEF InsertInto, l0Vars, bgVars
  <2>2. QueueAwake' /\ WaitersServed'
    BY Zenon, <1>a, <2>1 DEF QueueAwake, WaitersServed, BgWaiters
  <2> QED BY Zenon, <2>1, <2>2, ThreadWakes
<1>7. ASSUME NEW t \in Thread, EndWrite(t) PROVE WakeInv'
  <2>1. alive /\ pc[t] \in ActivePc /\ UNCHANGED <<hasImm, numL0, bg, closing>>
    BY Zenon, <1>7 DEF EndWrite, ActivePc, memVars, l0Vars, bgVars
  <2>2. writers \in Seq(Thread) /\ leader.last \in 1 .. Len(writers)
    BY Zenon, <1>q, <2>1 DEF TypeOK, GroupInQueue, Active
  <2>3. PICK s : PopGroup(t, writers, req, opno, leader.last, s)
    BY Zenon, <1>7 DEF EndWrite
  <2>4. /\ QueueAwake'
        /\ \A u \in Thread : woken[u] => woken'[u]
        /\ \A u \in Thread : pc'[u] = pc[u] \/ pc'[u] \in {"idle", "flushing"}
    BY <1>q, <1>a, <2>1, <2>2, <2>3, PopWakes DEF QueueAwake
  <2>5. WaitersServed'
    BY Zenon, <1>a, <2>1, <2>4 DEF WaitersServed, BgWaiters
  <2> QED BY Zenon, <2>1, <2>4, <2>5, ThreadWakes
<1>8. ASSUME NEW t \in Thread, FlushWait(t) PROVE WakeInv'
  <2>1. /\ alive /\ pc[t] \in {"flushing", "flushwait"}
        /\ UNCHANGED <<writers, done, hasImm, numL0, bg, closing>>
    BY Zenon, <1>8 DEF FlushWait, dataVars, memVars, l0Vars, bgVars
  <2>2. /\ \A u \in Thread : u # t => pc'[u] = pc[u] /\ woken'[u] = woken[u]
        /\ pc'[t] \in {"idle", "flushwait"} /\ (woken'[t] \/ hasImm)
    BY Zenon, <1>8, <1>q DEF FlushWait, TypeOK
  <2>3. hasImm => bg # "idle"
    BY Zenon, <1>q, <2>1 DEF WakeInv, WorkIsScheduled, CallsOpen
  <2>4. QueueAwake' /\ WaitersServed'
    BY <1>a, <2>1, <2>2, <2>3 DEF QueueAwake, WaitersServed, BgWaiters
  <2> QED BY Zenon, <2>1, <2>4, ThreadWakes
<1>9. CASE BackgroundStep
  <2>1. alive /\ UNCHANGED <<writers, pc, done>>
    BY Zenon, <1>9 DEF BackgroundStep, BackgroundCall, TableBuilt, InstallTable, CompactionYields,
       CompactionEnds, InstallCompaction, BackgroundFails, bgUnchanged
  <2>2. CASE BackgroundCall
    BY Zenon, <2>1, <2>2, BackgroundWakes DEF BackgroundCall, FinishBackground
  <2>3. CASE TableBuilt \/ CompactionEnds \/ BackgroundFails
    <3>1. ~alive' \/ (bg' # "idle" /\ UNCHANGED woken /\ closing' = closing)
      BY Zenon, <2>3 DEF TableBuilt, CompactionEnds, BackgroundFails
    <3> QED BY Zenon, <1>d, <2>1, <3>1, BackgroundWakes
  <2>4. CASE InstallTable
    BY Zenon, <2>1, <2>4, BackgroundWakes DEF InstallTable, FinishBackground
  <2>5. CASE CompactionYields
    BY Zenon, <2>1, <2>5, BackgroundWakes DEF CompactionYields
  <2>6. CASE InstallCompaction
    BY Zenon, <2>1, <2>6, BackgroundWakes DEF InstallCompaction, FinishBackground
  <2> QED BY Zenon, <1>9, <2>2, <2>3, <2>4, <2>5, <2>6 DEF BackgroundStep
<1>10. CASE Close \/ CloseResumes
  <2>1. /\ alive /\ UNCHANGED <<writers, pc, done, woken, bg, hasImm, numL0>>
        /\ closing' = IF bg = "idle" THEN "closed" ELSE "waiting"
    BY Zenon, <1>10 DEF Close, CloseResumes, bgUnchanged, l0Vars
  <2> QED BY Zenon, <2>1 DEF WakeInv, NoLostWakeup, WorkIsScheduled, BgWaiters
<1>11. CASE UNCHANGED vars
  BY Zenon, <1>11 DEF vars, queueVars, dataVars, memVars, l0Vars, bgVars, WakeInv, NoLostWakeup,
     WorkIsScheduled, BgWaiters
<1> QED BY <1>1, <1>2, <1>3, <1>4, <1>5, <1>6, <1>7, <1>8, <1>9, <1>10, <1>11
        DEF Next, ThreadStep, Terminated
=============================================================================
