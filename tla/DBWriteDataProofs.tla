-------------------------- MODULE DBWriteDataProofs --------------------------
(***************************************************************************)
(* What readers and callers of the write path are promised, for any number *)
(* of threads, calls and batch sizes: the order of the layers, the         *)
(* atomicity of batches under group commit, and WriteOptions::sync.        *)
(***************************************************************************)
EXTENDS DBWriteProofs

(***************************************************************************)
(* The order of the layers.                                                *)
(***************************************************************************)
(* There is nothing to order in the initial state.                         *)
LEMMA DataInit == Init => DataInv
BY Zenon DEF Init, DataInv, LayersOrdered, TodoIsNewer, Layers, Newest, Active, ActivePc

(* A step that leaves the entries where they are.                          *)
LEMMA DataUntouched ==
  ASSUME DataInv, TypeOK, UNCHANGED <<mem, imm, tables, todo, lastSeq>>,
         leader'.seq = leader.seq, Active' <=> Active
  PROVE  DataInv'
<1>1. Layers' = Layers /\ Newest' = Newest
  BY Zenon DEF Layers, Newest
<1>2. LayersOrdered'
  BY Zenon, <1>1 DEF DataInv, LayersOrdered
<1>3. TodoIsNewer'
  BY Zenon, <1>1 DEF DataInv, TodoIsNewer
<1> QED BY Zenon, <1>2, <1>3 DEF DataInv

(* BuildBatchGroup numbers the updates of the group from LastSequence + 1. *)
LEMMA GroupIsNumbered ==
  ASSUME GroupsCounted, NEW q \in Seq(Thread), NEW rq, NEW no, NEW k \in 1 .. Len(q), lastSeq \in Nat
  PROVE  /\ \A e \in GroupEntries(q, rq, k, no) :
              /\ e.seq \in Nat /\ lastSeq < e.seq
              /\ e.seq <= lastSeq + Cardinality(Updates(q, rq, k))
              /\ \E i \in 1 .. k : e.op = <<q[i], no[q[i]]>>
         /\ \A e, f \in GroupEntries(q, rq, k, no) : e.seq = f.seq => e = f
<1>1. k \in Nat /\ Cardinality(Updates(q, rq, k)) \in Nat
  BY UpdatesFinite, LenProperties
<1>2. ASSUME NEW e \in GroupEntries(q, rq, k, no)
      PROVE  \E u \in Updates(q, rq, k) :
               e = [seq |-> lastSeq + Rank(q, rq, k, u), op |-> <<q[u[1]], no[q[u[1]]]>>]
  BY Zenon DEF GroupEntries
<1>3. ASSUME NEW e \in GroupEntries(q, rq, k, no)
      PROVE  /\ e.seq \in Nat /\ lastSeq < e.seq
             /\ e.seq <= lastSeq + Cardinality(Updates(q, rq, k))
             /\ \E i \in 1 .. k : e.op = <<q[i], no[q[i]]>>
  <2>1. PICK u \in Updates(q, rq, k) :
          e = [seq |-> lastSeq + Rank(q, rq, k, u), op |-> <<q[u[1]], no[q[u[1]]]>>]
    BY Zenon, <1>2
  <2>2. /\ Rank(q, rq, k, u) \in Nat /\ 1 <= Rank(q, rq, k, u)
        /\ Rank(q, rq, k, u) <= Cardinality(Updates(q, rq, k))
    BY Zenon, <1>1, RankBounds
  <2>3. e.seq = lastSeq + Rank(q, rq, k, u) /\ e.op = <<q[u[1]], no[q[u[1]]]>>
    BY Zenon, <2>1
  <2>4. u[1] \in 1 .. k
    BY Zenon DEF Updates
  <2> QED BY <1>1, <2>2, <2>3, <2>4
<1>4. ASSUME NEW e \in GroupEntries(q, rq, k, no), NEW f \in GroupEntries(q, rq, k, no),
             e.seq = f.seq
      PROVE  e = f
  <2>1. PICK u \in Updates(q, rq, k) :
          e = [seq |-> lastSeq + Rank(q, rq, k, u), op |-> <<q[u[1]], no[q[u[1]]]>>]
    BY Zenon, <1>2
  <2>2. PICK v \in Updates(q, rq, k) :
          f = [seq |-> lastSeq + Rank(q, rq, k, v), op |-> <<q[v[1]], no[q[v[1]]]>>]
    BY Zenon, <1>2
  <2>3. Rank(q, rq, k, u) \in Nat /\ Rank(q, rq, k, v) \in Nat
    BY Zenon, <1>1, RankBounds
  <2>4. lastSeq + Rank(q, rq, k, u) = lastSeq + Rank(q, rq, k, v)
    BY Zenon, <1>4, <2>1, <2>2
  <2>5. Rank(q, rq, k, u) = Rank(q, rq, k, v)
    BY <2>3, <2>4
  <2>6. u = v
    BY Zenon, <1>1, <2>5, RankInjective
  <2> QED BY Zenon, <2>1, <2>2, <2>6
<1> QED BY Zenon, <1>3, <1>4

(* What StartGroup does with a batch: the locals of the front writer.      *)
LEMMA StartedGroup ==
  ASSUME GroupsCounted, NEW t \in Thread, NEW q, NEW rq, NEW no, AtFront(t, q, rq, no),
         TypeOK, ~rq[t].null, StartGroup(t, q, rq, no)
  PROVE  LET k == LastWriter(q, rq) IN
         /\ k \in 1 .. Len(q)
         /\ writers' = q /\ todo' = GroupEntries(q, rq, k, no)
         /\ leader'.last = k
         /\ leader'.seq = lastSeq + Cardinality(Updates(q, rq, k))
         /\ leader'.seq \in Nat /\ lastSeq <= leader'.seq
         /\ pc' = [pc EXCEPT ![t] = "logging"] /\ Active'
         /\ UNCHANGED <<done, status, acked>>
<1> DEFINE k == LastWriter(q, rq)
<1> DEFINE n == lastSeq + Cardinality(Updates(q, rq, k))
<1>1. k \in 1 .. Len(q) /\ k \in Nat
  BY LastWriterInQueue, LenProperties DEF AtFront
<1>2. n \in Nat /\ lastSeq <= n
  BY <1>1, UpdatesFinite DEF TypeOK
<1>3. /\ writers' = q /\ todo' = GroupEntries(q, rq, k, no)
      /\ leader' = [leader EXCEPT !.last = k, !.seq = n]
      /\ pc' = [pc EXCEPT ![t] = "logging"] /\ UNCHANGED <<done, status, acked>>
  BY Zenon DEF StartGroup
<1> HIDE DEF k, n
<1>4. leader'.last = k /\ leader'.seq = n
  BY Zenon, <1>3 DEF TypeOK
<1>5. Active'
  BY Zenon, <1>3 DEF Active, ActivePc, TypeOK
<1> QED BY Zenon, <1>1, <1>2, <1>3, <1>4, <1>5 DEF k, n

(* MakeRoomForWrite: the entries of a new group are newer than all others, *)
(* and a switch of memtables moves mem_ as a whole.                        *)
LEMMA MakeRoomData ==
  ASSUME GroupsCounted, NEW t \in Thread, NEW q, NEW rq, NEW no, AtFront(t, q, rq, no),
         pc[t] \notin ActivePc, NEW force, NEW delay, TypeOK, DataInv,
         MakeRoomForWrite(t, q, rq, no, force, delay),
         UNCHANGED <<lastSeq, tables>>
  PROVE  /\ DataInv' /\ ~Active
         /\ Layers' \subseteq Layers
<1>1. ~Active
  BY Zenon DEF Active, ActivePc, FrontPc, AtFront
<1>2. todo = {} /\ (\A e \in Layers : e.seq <= lastSeq) /\ LayersOrdered
  BY Zenon, <1>1 DEF DataInv, TodoIsNewer, Newest
<1>3. /\ Layers' \subseteq Layers
      /\ \/ UNCHANGED <<mem, imm>>
         \/ imm' = mem /\ mem' = {}
  BY Zenon DEF MakeRoomForWrite, Suspend, SwitchMemTable, memVars, Layers
<1>4. LayersOrdered'
  BY Zenon, <1>2, <1>3 DEF LayersOrdered, Layers
<1>5. /\ lastSeq \in Nat
      /\ \A e \in Layers : e.seq \in Nat
  BY Zenon DEF TypeOK, Layers, Entry
<1>6. ASSUME ~Active', todo' = {} PROVE DataInv'
  BY Zenon, <1>2, <1>3, <1>4, <1>6 DEF DataInv, TodoIsNewer, Newest
<1>7. ASSUME NEW s, PopGroup(t, q, rq, no, 1, s) PROVE DataInv'
  <2>1. todo' = {} /\ pc' = [pc EXCEPT ![t] = AfterWrite(t, s, rq)]
    BY Zenon, <1>7 DEF PopGroup
  <2>2. AfterWrite(t, s, rq) \notin ActivePc
    BY Zenon DEF AfterWrite, ActivePc
  <2>3. ~Active'
    BY Zenon, <1>1, <2>1, <2>2 DEF Active, TypeOK
  <2> QED BY Zenon, <1>6, <2>1, <2>3
<1>8. ASSUME NEW c \in {"delayed", "bgwait"}, pc' = [pc EXCEPT ![t] = c], todo' = todo
      PROVE  DataInv'
  <2>1. ~Active'
    BY Zenon, <1>1, <1>8 DEF Active, ActivePc, TypeOK
  <2> QED BY Zenon, <1>2, <1>6, <1>8, <2>1
<1>9. ASSUME StartGroup(t, q, rq, no) PROVE DataInv'
  <2>1. CASE rq[t].null
    BY Zenon, <1>7, <1>9, <2>1 DEF StartGroup
  <2>2. CASE ~rq[t].null
    <3> DEFINE k == LastWriter(q, rq)
    <3>1. /\ k \in 1 .. Len(q) /\ todo' = GroupEntries(q, rq, k, no)
          /\ leader'.seq = lastSeq + Cardinality(Updates(q, rq, k))
          /\ leader'.seq \in Nat /\ lastSeq <= leader'.seq /\ Active'
      BY Zenon, <1>9, <2>2, StartedGroup
    <3>2. q \in Seq(Thread)
      BY Zenon DEF AtFront
    <3> HIDE DEF k
    <3>3. /\ \A e \in todo' : e.seq \in Nat /\ lastSeq < e.seq /\ e.seq <= leader'.seq
          /\ \A e, f \in todo' : e.seq = f.seq => e = f
      BY Zenon, <1>5, <3>1, <3>2, GroupIsNumbered
    <3>4. \A e \in Layers' : e.seq \in Nat /\ e.seq <= lastSeq
      BY Zenon, <1>2, <1>3, <1>5
    <3>5. TodoIsNewer'
      BY <1>5, <3>1, <3>3, <3>4 DEF TodoIsNewer, Newest
    <3> QED BY Zenon, <1>4, <3>5 DEF DataInv
  <2> QED BY Zenon, <2>1, <2>2
<1>10. DataInv'
  BY Zenon, <1>7, <1>8, <1>9 DEF MakeRoomForWrite, Suspend
<1> QED BY Zenon, <1>1, <1>3, <1>10

(***************************************************************************)
(* Atomicity: entries beyond LastSequence belong to the group, and no call *)
(* still in the queue has a visible one.                                   *)
(***************************************************************************)
OpsOf(q, no) == {<<q[i], no[q[i]]>> : i \in 1 .. Len(q)}
Unstarted(q, no) ==
  \A e \in Layers : e.op \notin OpsOf(q, no) /\ e.op[2] <= no[e.op[1]]

(* There are no entries in the initial state.                              *)
LEMMA BatchInit == Init => BatchInv
BY Zenon DEF Init, BatchInv, GroupIsInvisible, Layers

(* The queue after popping k writers holds calls that were in it.          *)
LEMMA PoppedOps ==
  ASSUME NEW q \in Seq(Thread), NEW no, NEW k \in 1 .. Len(q), writers' = SubSeq(q, k + 1, Len(q)),
         opno' = no
  PROVE  \A o \in QueueOps' : \E i \in (k + 1) .. Len(q) : o = <<q[i], no[q[i]]>>
<1>1. /\ Len(writers') = Len(q) - k
      /\ \A i \in 1 .. Len(q) - k : writers'[i] = q[k + i]
  BY Zenon, PoppedQueue
<1>2. Len(q) \in Nat /\ k \in Nat
  BY LenProperties
<1>3. ASSUME NEW o \in QueueOps'
      PROVE  \E i \in (k + 1) .. Len(q) : o = <<q[i], no[q[i]]>>
  <2>1. PICK i \in 1 .. Len(writers') : o = <<writers'[i], opno'[writers'[i]]>>
    BY Zenon DEF QueueOps
  <2>2. k + i \in (k + 1) .. Len(q) /\ writers'[i] = q[k + i]
    BY <1>1, <1>2
  <2> QED BY Zenon, <2>1, <2>2
<1> QED BY Zenon, <1>3

(* MakeRoomForWrite: no call of the queue has entries yet.                 *)
LEMMA MakeRoomBatch ==
  ASSUME GroupsCounted, NEW t \in Thread, NEW q, NEW rq, NEW no, AtFront(t, q, rq, no),
         pc[t] \notin ActivePc, NEW force, NEW delay, TypeOK, DataInv,
         MakeRoomForWrite(t, q, rq, no, force, delay), Unstarted(q, no),
         UNCHANGED <<lastSeq, tables>>, opno' = no
  PROVE  BatchInv'
<1>1. ~Active /\ Layers' \subseteq Layers
  BY Zenon, MakeRoomData
<1>2. \A e \in Layers' : /\ e.seq <= lastSeq' /\ ~(e.seq > lastSeq')
                         /\ e.op \notin OpsOf(q, no) /\ e.op[2] <= opno'[e.op[1]]
  <2>1. \A e \in Layers : e.seq <= lastSeq /\ e.seq \in Nat
    BY Zenon, <1>1 DEF DataInv, TodoIsNewer, Newest, TypeOK, Layers, Entry
  <2>2. lastSeq \in Nat
    BY Zenon DEF TypeOK
  <2> QED BY <1>1, <2>1, <2>2 DEF Unstarted
<1>3. ASSUME QueueOps' \subseteq OpsOf(q, no), \A e \in todo' : e.op \in GroupOps'
      PROVE  BatchInv'
  <2>1. \A e \in Layers' : e.seq > lastSeq' => Active' /\ e.op \in GroupOps'
    BY Zenon, <1>2
  <2>2. \A e \in Layers' : e.op[2] <= opno'[e.op[1]]
    BY Zenon, <1>2
  <2>3. \A e \in Layers' : e.seq <= lastSeq' => e.op \notin QueueOps'
    BY Zenon, <1>2, <1>3
  <2> QED BY Zenon, <1>3, <2>1, <2>2, <2>3 DEF BatchInv, GroupIsInvisible
<1>4. q \in Seq(Thread) /\ 1 \in 1 .. Len(q) /\ todo = {}
  BY SMTT(30), <1>1, EmptySeq, LenProperties DEF AtFront, DataInv, TodoIsNewer
<1>5. ASSUME NEW s, PopGroup(t, q, rq, no, 1, s) PROVE BatchInv'
  <2>1. todo' = {} /\ writers' = SubSeq(q, 1 + 1, Len(q))
    BY Zenon, <1>5 DEF PopGroup
  <2>2. \A o \in QueueOps' : \E i \in (1 + 1) .. Len(q) : o = <<q[i], no[q[i]]>>
    BY Zenon, <1>4, <2>1, PoppedOps
  <2>3. \A i \in (1 + 1) .. Len(q) : i \in 1 .. Len(q)
    BY <1>4, LenProperties
  <2>4. \A i \in 1 .. Len(q) : <<q[i], no[q[i]]>> \in OpsOf(q, no)
    BY Zenon DEF OpsOf
  <2>5. QueueOps' \subseteq OpsOf(q, no)
    BY Zenon, <2>2, <2>3, <2>4
  <2> QED BY Zenon, <1>3, <2>1, <2>5
<1>6. ASSUME writers' = q PROVE QueueOps' \subseteq OpsOf(q, no)
  BY Zenon, <1>6 DEF QueueOps, OpsOf
<1>7. ASSUME StartGroup(t, q, rq, no) PROVE BatchInv'
  <2>1. CASE rq[t].null
    BY Zenon, <1>5, <1>7, <2>1 DEF StartGroup
  <2>2. CASE ~rq[t].null
    <3> DEFINE k == LastWriter(q, rq)
    <3>1. k \in 1 .. Len(q) /\ writers' = q /\ todo' = GroupEntries(q, rq, k, no) /\ leader'.last = k
      BY SMTT(30), <1>7, <2>2, StartedGroup
    <3> HIDE DEF k
    <3>2. \A e \in todo' : \E i \in 1 .. k : e.op = <<q[i], no[q[i]]>>
      BY Zenon, <1>4, <3>1, GroupIsNumbered DEF TypeOK
    <3>3. \A e \in todo' : e.op \in GroupOps'
      BY Zenon, <3>1, <3>2 DEF GroupOps
    <3> QED BY Zenon, <1>3, <1>6, <3>1, <3>3
  <2> QED BY Zenon, <2>1, <2>2
<1>8. ASSUME NEW f, NEW d, NEW c, Suspend(t, q, f, d, c) PROVE BatchInv'
  BY Zenon, <1>3, <1>4, <1>6, <1>8 DEF Suspend
<1> QED BY Zenon, <1>5, <1>7, <1>8 DEF MakeRoomForWrite

(***************************************************************************)
(* WriteOptions::sync.                                                     *)
(***************************************************************************)
(* No call has been made in the initial state.                             *)
LEMMA SyncInit == Init => SyncInv
BY Zenon DEF Init, SyncInv, SyncedIfAsked, GroupIsSynced, Active, ActivePc

(* MakeRoomForWrite: a group with a sync write is led by one, and a call   *)
(* that ends here was a null batch or failed.                              *)
LEMMA MakeRoomSync ==
  ASSUME GroupsCounted, NEW t \in Thread, NEW q, NEW rq, NEW no, AtFront(t, q, rq, no),
         NEW force, NEW delay, TypeOK, SyncInv,
         MakeRoomForWrite(t, q, rq, no, force, delay),
         \A u \in Thread \ {t} : rq[u] = req[u] /\ no[u] = opno[u],
         req' = rq, opno' = no, synced' = synced
  PROVE  SyncInv'
<1>1. /\ q \in Seq(Thread) /\ q # <<>> /\ q[1] = t /\ ~done[t]
      /\ \A u \in Thread \ {t} : pc[u] \notin FrontPc
  BY Zenon DEF AtFront
<1>2. /\ SyncedIfAsked
      /\ \A u \in Thread : done[u] /\ status[u] = "ok" /\ req[u].sync
           => <<u, opno[u]>> \in synced
  BY Zenon DEF SyncInv, GroupIsSynced
<1>3. ASSUME acked' = acked, done' = done, status' = status,
             Active' => \A i \in 1 .. leader'.last : rq[writers'[i]].sync => rq[writers'[1]].sync,
             \A u \in Thread : pc'[u] # "inserting"
      PROVE  SyncInv'
  <2>1. SyncedIfAsked'
    BY Zenon, <1>2, <1>3 DEF SyncedIfAsked
  <2>2. \A u \in Thread : done'[u] /\ status'[u] = "ok" /\ req'[u].sync
           => <<u, opno'[u]>> \in synced'
    BY Zenon, <1>1, <1>2, <1>3
  <2> QED BY Zenon, <1>3, <2>1, <2>2 DEF SyncInv, GroupIsSynced
<1>4. ASSUME NEW s, PopGroup(t, q, rq, no, 1, s), s = "error" \/ rq[t].null PROVE SyncInv'
  <2>1. Members(q, 1) \ {t} = {}
    BY <1>1 DEF Members
  <2>2. /\ done' = [u \in Thread |-> done[u]] /\ status' = [u \in Thread |-> status[u]]
        /\ acked' = acked /\ pc' = [pc EXCEPT ![t] = AfterWrite(t, s, rq)]
    <3>1. \A u \in Thread : u \notin (Members(q, 1) \ {t})
      BY Zenon, <2>1
    <3>2. /\ done' = [u \in Thread |-> done[u] \/ u \in (Members(q, 1) \ {t})]
          /\ status' = [u \in Thread |-> IF u \in (Members(q, 1) \ {t}) THEN s ELSE status[u]]
          /\ acked' = Ack(t, s, rq, no) /\ pc' = [pc EXCEPT ![t] = AfterWrite(t, s, rq)]
      BY Zenon, <1>4 DEF PopGroup
    <3>3. done' = [u \in Thread |-> done[u]]
      BY Zenon, <3>1, <3>2 DEF TypeOK
    <3>4. status' = [u \in Thread |-> status[u]]
      BY Zenon, <3>1, <3>2
    <3> QED BY Zenon, <1>4, <3>2, <3>3, <3>4 DEF Ack
  <2>3. done' = done /\ status' = status
    BY Zenon, <2>2 DEF TypeOK
  <2>4. \A u \in Thread : pc'[u] \notin FrontPc
    BY Zenon, <1>1, <2>2 DEF TypeOK, AfterWrite, FrontPc
  <2>5. ~Active' /\ \A u \in Thread : pc'[u] # "inserting"
    BY Zenon, <2>4 DEF Active, ActivePc, FrontPc
  <2> QED BY Zenon, <1>3, <2>2, <2>3, <2>5
<1>5. ASSUME StartGroup(t, q, rq, no) PROVE SyncInv'
  <2>1. CASE rq[t].null
    BY Zenon, <1>4, <1>5, <2>1 DEF StartGroup
  <2>2. CASE ~rq[t].null
    <3> DEFINE k == LastWriter(q, rq)
    <3>1. /\ k \in 1 .. Len(q) /\ writers' = q /\ leader'.last = k
          /\ pc' = [pc EXCEPT ![t] = "logging"] /\ UNCHANGED <<done, status, acked>>
      BY SMTT(30), <1>5, <2>2, StartedGroup
    <3>2. \A i \in 2 .. k : rq[q[i]].sync => rq[q[1]].sync
      BY Zenon, <1>1, GroupJoins DEF Joins
    <3>3. \A u \in Thread : pc'[u] # "inserting"
      BY Zenon, <1>1, <3>1 DEF TypeOK, FrontPc
    <3> HIDE DEF k
    <3>4. \A i \in 1 .. k : i = 1 \/ i \in 2 .. k
      BY SMTT(30), <1>1, <3>1, LenProperties
    <3>5. \A i \in 1 .. leader'.last : rq[writers'[i]].sync => rq[writers'[1]].sync
      BY Zenon, <3>1, <3>2, <3>4
    <3>6. acked' = acked /\ done' = done /\ status' = status
      BY Zenon, <3>1
    <3> QED BY Zenon, <1>3, <3>3, <3>5, <3>6
  <2> QED BY Zenon, <2>1, <2>2
<1>6. ASSUME NEW f, NEW d, NEW c \in {"delayed", "bgwait"}, Suspend(t, q, f, d, c) PROVE SyncInv'
  <2>1. pc' = [pc EXCEPT ![t] = c] /\ UNCHANGED <<done, status, acked>>
    BY Zenon, <1>6 DEF Suspend
  <2>2. \A u \in Thread : pc'[u] \notin ActivePc
    BY Zenon, <1>1, <2>1 DEF TypeOK, FrontPc, ActivePc
  <2>3. ~Active' /\ \A u \in Thread : pc'[u] # "inserting"
    BY Zenon, <2>2 DEF Active, ActivePc
  <2> QED BY Zenon, <1>3, <2>1, <2>3
<1> QED BY Zenon, <1>4, <1>5, <1>6 DEF MakeRoomForWrite

(***************************************************************************)
(* The three parts together, one step per action.                          *)
(***************************************************************************)
PromiseInv == DataInv /\ BatchInv /\ SyncInv

(* MakeRoomForWrite keeps all three.                                       *)
LEMMA MakeRoomPromise ==
  ASSUME GroupsCounted, NEW t \in Thread, NEW q, NEW rq, NEW no, AtFront(t, q, rq, no),
         pc[t] \notin ActivePc, NEW force, NEW delay, TypeOK, PromiseInv,
         MakeRoomForWrite(t, q, rq, no, force, delay), Unstarted(q, no),
         \A u \in Thread \ {t} : rq[u] = req[u] /\ no[u] = opno[u],
         req' = rq, opno' = no, UNCHANGED <<lastSeq, tables, synced>>
  PROVE  PromiseInv'
<1>1. DataInv'
  BY Zenon, MakeRoomData DEF PromiseInv
<1>2. BatchInv'
  BY Zenon, MakeRoomBatch DEF PromiseInv
<1>3. SyncInv'
  BY MakeRoomSync DEF PromiseInv
<1> QED BY Zenon, <1>1, <1>2, <1>3 DEF PromiseInv

(* A step that leaves the queue, the group and the entries alone.          *)
LEMMA BatchUntouched ==
  ASSUME BatchInv, UNCHANGED <<writers, opno, lastSeq>>, leader'.last = leader.last,
         Active' <=> Active, Layers' = Layers, todo' = todo
  PROVE  BatchInv'
<1>1. GroupOps' = GroupOps /\ QueueOps' = QueueOps
  BY Zenon DEF GroupOps, QueueOps
<1> QED BY Zenon, <1>1 DEF BatchInv, GroupIsInvisible

(* A step that neither ends a call nor starts a group.                     *)
LEMMA SyncUntouched ==
  ASSUME SyncInv, UNCHANGED <<writers, req, opno, done, status, leader, synced, acked>>,
         Active' => Active,
         \A t \in Thread : pc'[t] = "inserting" => pc[t] = "inserting"
  PROVE  SyncInv'
<1>1. GroupOps' = GroupOps
  BY Zenon DEF GroupOps
<1> QED BY Zenon, <1>1 DEF SyncInv, SyncedIfAsked, GroupIsSynced

(* Calls of the queue have no visible entries while no group is active.    *)
LEMMA QueueUnstarted ==
  ASSUME TypeOK, DataInv, BatchInv, ~Active
  PROVE  Unstarted(writers, opno)
<1>1. \A e \in Layers : e.seq <= lastSeq
  BY Zenon DEF DataInv, TodoIsNewer, Newest
<1> QED BY Zenon, <1>1 DEF Unstarted, OpsOf, QueueOps, BatchInv, GroupIsInvisible

(* A call that returns is recorded; it was synced if it asked to be.       *)
LEMMA AckedSynced ==
  ASSUME NEW t, NEW s, NEW rq, NEW no, SyncedIfAsked, UNCHANGED synced,
         acked' = Ack(t, s, rq, no), s = "ok" /\ rq[t].sync => <<t, no[t]>> \in synced
  PROVE  SyncedIfAsked'
<1> DEFINE a == [op |-> <<t, no[t]>>, n |-> rq[t].n, sync |-> rq[t].sync]
<1>1. acked' = acked \/ (s = "ok" /\ acked' = acked \cup {a})
  BY Zenon DEF Ack
<1>2. s = "ok" => (a.sync => a.op \in synced)
  BY Zenon
<1> HIDE DEF a
<1> QED BY Zenon, <1>1, <1>2 DEF SyncedIfAsked

(* Write: a new call joins the queue.                                      *)
LEMMA WritePromise ==
  ASSUME GroupsCounted, QueueInv, PromiseInv, NEW t \in Thread, NEW r \in Request, Write(t, r)
  PROVE  PromiseInv'
<1> DEFINE q == Append(writers, t)
           rq == [req EXCEPT ![t] = r]
           no == [opno EXCEPT ![t] = @ + 1]
<1>q. TypeOK /\ FrontOnly /\ CallsOpen /\ GroupInQueue
  BY Zenon DEF QueueInv
<1>1. /\ alive /\ closing = "open" /\ pc[t] = "idle" /\ opno[t] < MaxOps
      /\ req' = rq /\ opno' = no /\ UNCHANGED <<lastSeq, tables, synced>>
  BY Zenon DEF Write, l0Vars
<1>2. /\ \A u \in Thread \ {t} : rq[u] = req[u] /\ no[u] = opno[u]
      /\ no[t] = opno[t] + 1 /\ opno[t] \in Nat
  BY <1>q, BoundAssumption DEF TypeOK
<1>3. /\ writers \in Seq(Thread) /\ Len(writers) \in Nat
      /\ Len(q) = Len(writers) + 1 /\ q[Len(writers) + 1] = t
      /\ \A i \in 1 .. Len(writers) : q[i] = writers[i] /\ writers[i] \in Thread \ {t}
  <2>1. writers \in Seq(Thread) /\ Len(writers) \in Nat
    BY Zenon, <1>q, LenProperties DEF TypeOK
  <2>2. \A i \in 1 .. Len(writers) : writers[i] \in Thread /\ writers[i] # t
    BY Zenon, <1>q, <1>1, <2>1, ElementOfSeq DEF FrontOnly, FrontPc
  <2> QED BY Zenon, <2>1, <2>2, AppendFacts
<1>4. \A e \in Layers : e.op[1] \in Thread /\ e.op[2] \in Nat /\ e.op[2] <= opno[e.op[1]]
  BY <1>q, BoundAssumption DEF TypeOK, Layers, Entry, Op, PromiseInv, BatchInv, GroupIsInvisible
<1>5. \A e \in Layers : e.op # <<t, no[t]>> /\ e.op[2] <= no[e.op[1]]
  <2>1. opno \in [Thread -> Nat]
    BY <1>q, BoundAssumption DEF TypeOK
  <2> SUFFICES ASSUME NEW e \in Layers PROVE e.op # <<t, no[t]>> /\ e.op[2] <= no[e.op[1]]
    BY Zenon
  <2>2. /\ e.op[1] \in Thread /\ e.op[2] \in Nat /\ e.op[2] <= opno[e.op[1]]
        /\ opno[e.op[1]] \in Nat
    BY Zenon, <1>4, <2>1
  <2>3. CASE e.op[1] = t
    <3>1. e.op[2] <= opno[t] /\ e.op[2] # no[t]
      BY SMTT(30), <1>2, <2>2, <2>3
    <3> QED BY <1>2, <2>2, <2>3, <3>1
  <2>4. CASE e.op[1] # t
    <3>1. no[e.op[1]] = opno[e.op[1]]
      BY Zenon, <1>2, <2>2, <2>4
    <3> QED BY <2>2, <2>4, <3>1
  <2> QED BY Zenon, <2>3, <2>4
<1>6. CASE writers = <<>> /\ MakeRoomForWrite(t, q, rq, no, r.null, ~r.null)
  <2>1. AtFront(t, q, rq, no)
    BY Zenon, <1>1, <1>6, JoinEmptyQueue
  <2>2. pc[t] \notin ActivePc
    BY Zenon, <1>1 DEF ActivePc
  <2>3. OpsOf(q, no) = {<<t, no[t]>>}
    BY <1>3, <1>6, EmptySeq DEF OpsOf
  <2>4. Unstarted(q, no)
    BY Zenon, <1>5, <2>3 DEF Unstarted
  <2> HIDE DEF q, rq, no
  <2> QED BY SMTT(30), <1>q, <1>1, <1>2, <1>6, <2>1, <2>2, <2>4, MakeRoomPromise
<1>7. CASE /\ writers # <<>> /\ writers' = q
           /\ pc' = [pc EXCEPT ![t] = "queued"]
           /\ UNCHANGED <<done, status, leader, todo, acked, memVars, bg, logged>>
  <2>1. UNCHANGED <<mem, imm, tables, todo, lastSeq, leader>>
    BY Zenon, <1>1, <1>7 DEF memVars
  <2>2. \A u \in Thread : pc'[u] = IF u = t THEN "queued" ELSE pc[u]
    BY Zenon, <1>q, <1>7 DEF TypeOK
  <2>3. Active' <=> Active
    BY Zenon, <1>1, <2>2 DEF Active, ActivePc
  <2>4. DataInv'
    BY Zenon, <1>q, <2>1, <2>3, DataUntouched DEF PromiseInv
  <2>5. Layers' = Layers
    BY Zenon, <2>1 DEF Layers
  <2>6. Active => GroupOps' = GroupOps
    <3>1. Active => leader.last \in 1 .. Len(writers)
      BY Zenon, <1>q DEF GroupInQueue
    <3>2. Active => \A i \in 1 .. leader.last : writers'[i] = writers[i] /\ opno'[writers[i]] = opno[writers[i]]
      BY SMTT(30), <1>1, <1>2, <1>3, <1>7, <3>1
    <3> QED BY Zenon, <2>1, <3>2 DEF GroupOps
  <2>7. \A o \in QueueOps' : o \in QueueOps \/ o = <<t, no[t]>>
    <3>1. ASSUME NEW i \in 1 .. Len(q) PROVE <<q[i], no[q[i]]>> \in QueueOps \cup {<<t, no[t]>>}
      <4>1. i = Len(writers) + 1 \/ i \in 1 .. Len(writers)
        BY <1>3
      <4>2. CASE i \in 1 .. Len(writers)
        BY <1>2, <1>3, <4>2 DEF QueueOps
      <4> QED BY Zenon, <1>3, <4>1, <4>2
    <3> QED BY Zenon, <1>1, <1>7, <3>1 DEF QueueOps
  <2>8. BatchInv'
    <3>1. \A e \in todo' : e.op \in GroupOps'
      BY Zenon, <2>1, <2>6 DEF PromiseInv, DataInv, TodoIsNewer, BatchInv, GroupIsInvisible
    <3>2. \A e \in Layers' : e.seq > lastSeq' => Active' /\ e.op \in GroupOps'
      BY Zenon, <2>1, <2>3, <2>5, <2>6 DEF PromiseInv, BatchInv, GroupIsInvisible
    <3>3. \A e \in Layers' : e.op[2] <= opno'[e.op[1]]
      BY Zenon, <1>1, <1>5, <2>5
    <3>4. \A e \in Layers' : e.seq <= lastSeq' => e.op \notin QueueOps'
      BY Zenon, <1>5, <2>1, <2>5, <2>7 DEF PromiseInv, BatchInv, GroupIsInvisible
    <3> QED BY Zenon, <3>1, <3>2, <3>3, <3>4 DEF BatchInv, GroupIsInvisible
  <2>9. SyncInv'
    <3>1. SyncedIfAsked'
      BY Zenon, <1>1, <1>7 DEF PromiseInv, SyncInv, SyncedIfAsked
    <3>2. Active' => \A i \in 1 .. leader'.last : req'[writers'[i]].sync => req'[writers'[1]].sync
      <4>1. Active => leader.last \in 1 .. Len(writers) /\ 1 \in 1 .. leader.last
        BY <1>q, <1>3 DEF GroupInQueue
      <4>2. Active => \A i \in 1 .. leader.last : writers'[i] = writers[i] /\ req'[writers[i]] = req[writers[i]]
        BY SMTT(30), <1>1, <1>2, <1>3, <1>7, <4>1
      <4> QED BY Zenon, <2>1, <2>3, <4>1, <4>2 DEF PromiseInv, SyncInv, GroupIsSynced
    <3>3. \A u \in Thread : pc'[u] = "inserting" /\ req'[u].sync => GroupOps' \subseteq synced'
      <4> SUFFICES ASSUME NEW u \in Thread, pc'[u] = "inserting", req'[u].sync
                   PROVE  GroupOps' \subseteq synced'
        BY Zenon
      <4>1. u # t /\ pc[u] = "inserting" /\ req[u].sync
        BY Zenon, <1>1, <1>2, <2>2
      <4>2. Active
        BY Zenon, <4>1 DEF Active, ActivePc
      <4> QED BY Zenon, <1>1, <2>6, <4>1, <4>2 DEF PromiseInv, SyncInv, GroupIsSynced
    <3>4. \A u \in Thread : done'[u] /\ status'[u] = "ok" /\ req'[u].sync => <<u, opno'[u]>> \in synced'
      <4>1. ~done[t]
        BY Zenon, <1>q, <1>1 DEF CallsOpen
      <4>2. done' = done /\ status' = status /\ synced' = synced
        BY Zenon, <1>1, <1>7
      <4>3. \A u \in Thread : u # t => req'[u] = req[u] /\ opno'[u] = opno[u]
        BY Zenon, <1>1, <1>2
      <4>4. \A u \in Thread : done[u] /\ status[u] = "ok" /\ req[u].sync => <<u, opno[u]>> \in synced
        BY Zenon DEF PromiseInv, SyncInv, GroupIsSynced
      <4> QED BY Zenon, <4>1, <4>2, <4>3, <4>4
    <3> QED BY Zenon, <3>1, <3>2, <3>3, <3>4 DEF SyncInv, GroupIsSynced
  <2> QED BY Zenon, <2>4, <2>8, <2>9 DEF PromiseInv
<1> QED BY Zenon, <1>6, <1>7 DEF Write

(* A waiting writer wakes: its call is over, or it makes room, or neither. *)
LEMMA WakePromise ==
  ASSUME GroupsCounted, QueueInv, PromiseInv, NEW t \in Thread, Wake(t) \/ Resume(t)
  PROVE  PromiseInv'
<1>q. TypeOK /\ FrontOnly /\ CallsOpen /\ GroupInQueue
  BY Zenon DEF QueueInv
<1>1. /\ alive /\ pc[t] \in {"queued", "delayed", "bgwait"}
      /\ UNCHANGED <<req, opno, lastSeq, tables, synced>>
  BY Zenon DEF Wake, Resume, callVars, l0Vars
<1>2. pc[t] \notin ActivePc
  BY Zenon, <1>1 DEF ActivePc
<1>3. ASSUME AtFront(t, writers, req, opno), NEW force, NEW delay,
             MakeRoomForWrite(t, writers, req, opno, force, delay)
      PROVE  PromiseInv'
  <2>1. ~Active
    BY Zenon, <1>2, <1>3 DEF Active, ActivePc, FrontPc, AtFront
  <2>2. Unstarted(writers, opno)
    BY Zenon, <1>q, <2>1, QueueUnstarted DEF PromiseInv
  <2> QED BY Zenon, <1>q, <1>1, <1>2, <1>3, <2>2, MakeRoomPromise
<1>4. CASE Resume(t)
  <2>1. AtFront(t, writers, req, opno)
    BY Zenon, <1>4, FrontPcAtFront DEF Resume, FrontPc
  <2> QED BY Zenon, <1>3, <1>4, <2>1 DEF Resume
<1>5. CASE /\ Wake(t) /\ done[t] /\ pc' = [pc EXCEPT ![t] = AfterWrite(t, status[t], req)]
           /\ acked' = Ack(t, status[t], req, opno)
           /\ done' = [done EXCEPT ![t] = FALSE]
           /\ UNCHANGED <<writers, status, woken, leader, todo, memVars, bg, logged>>
  <2>1. UNCHANGED <<mem, imm, tables, todo, lastSeq, leader, writers, opno>> /\ Layers' = Layers
    BY Zenon, <1>1, <1>5 DEF memVars, Layers
  <2>2. AfterWrite(t, status[t], req) \in {"idle", "flushing"}
    BY Zenon DEF AfterWrite
  <2>3. \A u \in Thread : /\ pc'[u] = IF u = t THEN AfterWrite(t, status[t], req) ELSE pc[u]
                          /\ done'[u] => done[u]
    BY Zenon, <1>q, <1>5 DEF TypeOK
  <2>4. Active' <=> Active
    BY Zenon, <1>2, <2>2, <2>3 DEF Active, ActivePc
  <2>5. DataInv' /\ BatchInv'
    BY Zenon, <1>q, <2>1, <2>4, DataUntouched, BatchUntouched DEF PromiseInv
  <2>6. GroupOps' = GroupOps
    BY Zenon, <2>1 DEF GroupOps
  <2>7. SyncedIfAsked'
    <3>1. status[t] = "ok" /\ req[t].sync => <<t, opno[t]>> \in synced
      BY Zenon, <1>5 DEF PromiseInv, SyncInv, GroupIsSynced
    <3> QED BY Zenon, <1>1, <1>5, <3>1, AckedSynced DEF PromiseInv, SyncInv
  <2>8. GroupIsSynced'
    <3>1. GroupIsSynced /\ UNCHANGED <<req, opno, synced, leader, writers, status>>
      BY Zenon, <1>1, <1>5, <2>1 DEF PromiseInv, SyncInv
    <3>2. Active' => \A i \in 1 .. leader'.last : req'[writers'[i]].sync => req'[writers'[1]].sync
      BY Zenon, <2>4, <3>1 DEF GroupIsSynced
    <3>3. \A u \in Thread : pc'[u] = "inserting" => pc[u] = "inserting"
      BY Zenon, <2>2, <2>3
    <3>4. \A u \in Thread : pc'[u] = "inserting" /\ req'[u].sync => GroupOps' \subseteq synced'
      BY Zenon, <2>6, <3>1, <3>3 DEF GroupIsSynced
    <3>5. \A u \in Thread : done'[u] /\ status'[u] = "ok" /\ req'[u].sync => <<u, opno'[u]>> \in synced'
      BY Zenon, <2>3, <3>1 DEF GroupIsSynced
    <3> QED BY Zenon, <3>2, <3>4, <3>5 DEF GroupIsSynced
  <2> QED BY Zenon, <2>5, <2>7, <2>8 DEF PromiseInv, SyncInv
<1>6. CASE /\ Wake(t) /\ ~done[t] /\ t = writers[1]
           /\ MakeRoomForWrite(t, writers, req, opno, req[t].null, ~req[t].null)
  <2>1. pc[t] = "queued"
    BY Zenon, <1>6 DEF Wake
  <2>2. writers # <<>>
    <3>1. PICK i \in 1 .. Len(writers) : writers[i] = t
      BY Zenon, <1>q, <1>6, <2>1 DEF FrontOnly
    <3> QED BY <3>1, EmptySeq
  <2>3. AtFront(t, writers, req, opno)
    BY Zenon, <1>6, <2>1, <2>2, FrontIsAtFront
  <2> QED BY Zenon, <1>3, <1>6, <2>3
<1>7. CASE /\ Wake(t) /\ ~done[t] /\ t # writers[1]
           /\ UNCHANGED <<writers, pc, done, status, leader, todo, acked, memVars, bg, logged>>
  <2>1. /\ UNCHANGED <<mem, imm, tables, todo, lastSeq, leader, writers, opno>> /\ Layers' = Layers
        /\ Active' = Active
    BY Zenon, <1>1, <1>7 DEF memVars, Layers, Active
  <2>2. DataInv' /\ BatchInv'
    BY Zenon, <1>q, <2>1, DataUntouched, BatchUntouched DEF PromiseInv
  <2>3. SyncInv'
    BY Zenon, <1>1, <1>7, <2>1, SyncUntouched DEF PromiseInv
  <2> QED BY Zenon, <2>2, <2>3 DEF PromiseInv
<1> QED BY Zenon, <1>4, <1>5, <1>6, <1>7 DEF Wake

(* AddRecord and Sync: the group's calls are logged, and synced if asked.  *)
LEMMA AddRecordPromise ==
  ASSUME QueueInv, PromiseInv, NEW t \in Thread, AddRecord(t) \/ AddRecordFails(t)
  PROVE  PromiseInv'
<1>q. TypeOK /\ FrontOnly
  BY Zenon DEF QueueInv
<1>1. /\ pc[t] = "logging"
      /\ UNCHANGED <<mem, imm, tables, todo, lastSeq, leader, writers, req, opno, done, status, acked>>
      /\ \/ pc' = [pc EXCEPT ![t] = "failed"] /\ synced' = synced
         \/ /\ pc' = [pc EXCEPT ![t] = "inserting"]
            /\ synced' = IF req[t].sync THEN synced \cup logged \cup GroupOps ELSE synced
  BY Zenon DEF AddRecord, AddRecordFails, callVars, dataVars, memVars, l0Vars, logVars
<1>2. \A u \in Thread : IF u = t THEN pc'[u] \in {"failed", "inserting"} ELSE pc'[u] = pc[u]
  BY Zenon, <1>q, <1>1 DEF TypeOK
<1>3. Active' <=> Active
  BY Zenon, <1>1, <1>2 DEF Active, ActivePc
<1>4. Layers' = Layers /\ GroupOps' = GroupOps /\ synced \subseteq synced'
  BY Zenon, <1>1 DEF Layers, GroupOps
<1>5. DataInv' /\ BatchInv'
  BY Zenon, <1>q, <1>1, <1>3, <1>4, DataUntouched, BatchUntouched DEF PromiseInv
<1>6. SyncedIfAsked'
  BY Zenon, <1>1, <1>4 DEF PromiseInv, SyncInv, SyncedIfAsked
<1>7. \A u \in Thread : pc'[u] = "inserting" /\ req'[u].sync => GroupOps' \subseteq synced'
  <2> SUFFICES ASSUME NEW u \in Thread, pc'[u] = "inserting", req'[u].sync
               PROVE  GroupOps \subseteq synced'
    BY Zenon, <1>4
  <2>1. CASE u = t
    <3>1. synced' = synced \cup logged \cup GroupOps
      BY Zenon, <1>1, <1>q, <2>1 DEF TypeOK
    <3> QED BY Zenon, <3>1
  <2>2. CASE u # t
    BY Zenon, <1>1, <1>2, <1>4, <2>2 DEF PromiseInv, SyncInv, GroupIsSynced
  <2> QED BY Zenon, <2>1, <2>2
<1>8. GroupIsSynced'
  BY Zenon, <1>1, <1>3, <1>4, <1>7 DEF PromiseInv, SyncInv, GroupIsSynced
<1> QED BY Zenon, <1>5, <1>6, <1>8 DEF PromiseInv, SyncInv

(* InsertInto: the oldest entry still to be inserted goes into mem_.       *)
LEMMA InsertPromise ==
  ASSUME QueueInv, PromiseInv, NEW t \in Thread, InsertInto(t)
  PROVE  PromiseInv'
<1>q. TypeOK /\ FrontOnly /\ GroupInQueue
  BY Zenon DEF QueueInv
<1>1. /\ pc[t] = "inserting"
      /\ UNCHANGED <<imm, tables, lastSeq, leader, writers, pc, req, opno, done, status, synced, acked>>
  BY Zenon DEF InsertInto, callVars, l0Vars, logVars
<1>2. PICK e \in todo : /\ \A f \in todo : e.seq <= f.seq
                        /\ mem' = mem \cup {e} /\ todo' = todo \ {e}
  BY Zenon DEF InsertInto
<1>3. Active /\ Active'
  BY Zenon, <1>1 DEF Active, ActivePc
<1>4. /\ Layers' = Layers \cup {e} /\ GroupOps' = GroupOps /\ QueueOps' = QueueOps
      /\ Newest' = Newest /\ Newest = leader.seq
  BY Zenon, <1>1, <1>2, <1>3 DEF Layers, GroupOps, QueueOps, Newest
<1>5. /\ lastSeq \in Nat /\ leader.seq \in Nat /\ e.seq \in Nat
      /\ \A f \in Layers \cup todo : f.seq \in Nat
  BY Zenon, <1>q DEF TypeOK, Layers, Entry
<1>6. /\ lastSeq < e.seq /\ e.seq <= leader.seq
      /\ \A f \in Layers : f.seq < e.seq
      /\ \A f, g \in todo : f.seq = g.seq => f = g
      /\ \A f \in todo : lastSeq < f.seq /\ f.seq <= leader.seq
  BY Zenon DEF PromiseInv, DataInv, TodoIsNewer
<1>7. \A f \in todo' : e.seq < f.seq
  BY <1>2, <1>5, <1>6
<1>8. LayersOrdered'
  <2>1. LayersOrdered
    BY Zenon DEF PromiseInv, DataInv
  <2>2. \A f \in tables', g \in mem' \cup imm' : f.seq < g.seq
    BY Zenon, <1>1, <1>2, <1>6, <2>1 DEF LayersOrdered, Layers
  <2>3. \A f \in imm', g \in mem' : f.seq < g.seq
    BY Zenon, <1>1, <1>2, <1>6, <2>1 DEF LayersOrdered, Layers
  <2>4. \A f, g \in Layers' : f.seq = g.seq => f = g
    BY <1>4, <1>5, <1>6, <2>1 DEF LayersOrdered
  <2> QED BY Zenon, <2>2, <2>3, <2>4 DEF LayersOrdered
<1>9. TodoIsNewer'
  <2>1. \A f \in Layers' : f.seq <= Newest'
    BY Zenon, <1>4, <1>6 DEF PromiseInv, DataInv, TodoIsNewer
  <2>2. \A f \in Layers', g \in todo' : f.seq < g.seq
    BY Zenon, <1>2, <1>4, <1>7 DEF PromiseInv, DataInv, TodoIsNewer
  <2> QED BY Zenon, <1>1, <1>2, <1>3, <1>6, <2>1, <2>2 DEF TodoIsNewer
<1>10. BatchInv'
  <2>1. e.op \in GroupOps
    BY Zenon DEF PromiseInv, BatchInv, GroupIsInvisible
  <2>2. e.op[2] <= opno[e.op[1]]
    <3>1. PICK i \in 1 .. leader.last : e.op = <<writers[i], opno[writers[i]]>>
      BY Zenon, <2>1 DEF GroupOps
    <3>2. i \in 1 .. Len(writers) /\ writers \in Seq(Thread)
      BY <1>q, <1>3, LenProperties DEF GroupInQueue, TypeOK
    <3>3. opno[writers[i]] \in Nat
      BY SMTT(30), <1>q, <3>2, ElementOfSeq, BoundAssumption DEF TypeOK
    <3> QED BY <3>1, <3>3
  <2>3. \A f \in Layers' : f = e \/ f \in Layers
    BY Zenon, <1>4
  <2>4. ~(e.seq <= lastSeq)
    BY SMTT(30), <1>5, <1>6
  <2> QED BY Zenon, <1>1, <1>2, <1>3, <1>4, <2>1, <2>2, <2>3, <2>4 DEF PromiseInv, BatchInv, GroupIsInvisible
<1>11. SyncInv'
  BY Zenon, <1>1, <1>3, SyncUntouched DEF PromiseInv
<1> QED BY Zenon, <1>8, <1>9, <1>10, <1>11 DEF PromiseInv, DataInv

(* The end of Write: the group becomes visible as a whole.                 *)
LEMMA EndWritePromise ==
  ASSUME QueueInv, PromiseInv, NEW t \in Thread, EndWrite(t)
  PROVE  PromiseInv'
<1>q. TypeOK /\ FrontOnly /\ CallsOpen /\ GroupInQueue
  BY Zenon DEF QueueInv
<1> DEFINE k == leader.last
           s == IF pc[t] = "failed" THEN "error" ELSE "ok"
           others == Members(writers, k) \ {t}
<1>1. /\ pc[t] \in ActivePc /\ pc[t] \in FrontPc
      /\ s = "ok" => pc[t] = "inserting" /\ todo = {}
      /\ UNCHANGED <<mem, imm, tables, leader, req, opno, synced>> /\ lastSeq' = leader.seq
  BY Zenon DEF EndWrite, ActivePc, FrontPc, callVars, memVars, l0Vars, logVars
<1>2. /\ writers' = SubSeq(writers, k + 1, Len(writers))
      /\ done' = [u \in Thread |-> done[u] \/ u \in others]
      /\ status' = [u \in Thread |-> IF u \in others THEN s ELSE status[u]]
      /\ pc' = [pc EXCEPT ![t] = AfterWrite(t, s, req)]
      /\ acked' = Ack(t, s, req, opno) /\ todo' = {}
  BY Zenon DEF EndWrite, PopGroup
<1>3. /\ Active /\ k \in 1 .. Len(writers) /\ lastSeq <= leader.seq
      /\ writers \in Seq(Thread) /\ writers[1] = t /\ Len(writers) \in Nat
  BY Zenon, <1>q, <1>1, LenProperties DEF Active, GroupInQueue, FrontOnly, TypeOK
<1>4. AfterWrite(t, s, req) \notin FrontPc
  BY Zenon DEF AfterWrite, FrontPc
<1>5. \A u \in Thread : pc'[u] \notin FrontPc
  <2>1. \A u \in Thread : u # t => pc[u] \notin FrontPc
    BY Zenon, <1>q, <1>3 DEF FrontOnly
  <2>2. \A u \in Thread : pc'[u] = IF u = t THEN AfterWrite(t, s, req) ELSE pc[u]
    BY Zenon, <1>q, <1>2 DEF TypeOK
  <2> HIDE DEF s
  <2> QED BY Zenon, <1>4, <2>1, <2>2
<1>6. ~Active'
  BY Zenon, <1>5 DEF Active, ActivePc, FrontPc
<1>7. /\ lastSeq \in Nat /\ leader.seq \in Nat /\ Layers' = Layers
      /\ \A e \in Layers : e.seq \in Nat /\ e.seq <= leader.seq
  BY Zenon, <1>q, <1>1, <1>3 DEF TypeOK, Layers, Entry, PromiseInv, DataInv, TodoIsNewer, Newest
<1>8. DataInv'
  <2>1. LayersOrdered'
    BY Zenon, <1>1, <1>7 DEF PromiseInv, DataInv, LayersOrdered
  <2>2. TodoIsNewer'
    BY Zenon, <1>1, <1>2, <1>6, <1>7 DEF TodoIsNewer, Newest
  <2> QED BY Zenon, <2>1, <2>2 DEF DataInv
<1>9. BatchInv'
  <2>1. \A o \in QueueOps' : \E i \in (k + 1) .. Len(writers) : o = <<writers[i], opno[writers[i]]>>
    BY Zenon, <1>1, <1>2, <1>3, PoppedOps
  <2>2. ASSUME NEW e \in Layers, e.op \in QueueOps' PROVE FALSE
    <3>1. PICK i \in (k + 1) .. Len(writers) : e.op = <<writers[i], opno[writers[i]]>>
      BY Zenon, <2>1, <2>2
    <3>2. i \in 1 .. Len(writers)
      BY SMTT(30), <1>3
    <3>3. e.op \in QueueOps
      BY Zenon, <3>1, <3>2 DEF QueueOps
    <3>4. e.seq > lastSeq
      BY SMTT(30), <1>7, <3>3 DEF PromiseInv, BatchInv, GroupIsInvisible
    <3>5. e.op \in GroupOps
      BY Zenon, <3>4 DEF PromiseInv, BatchInv, GroupIsInvisible
    <3>6. PICK j \in 1 .. k : e.op = <<writers[j], opno[writers[j]]>>
      BY Zenon, <3>5 DEF GroupOps
    <3>7. j \in 1 .. Len(writers) /\ j # i
      BY <1>3
    <3> QED BY SMTT(30), <1>q, <3>1, <3>2, <3>6, <3>7 DEF FrontOnly
  <2>3. \A e \in Layers' : ~(e.seq > lastSeq')
    BY <1>1, <1>7
  <2>4. \A e \in Layers' : e.op[2] <= opno'[e.op[1]]
    BY Zenon, <1>1, <1>7 DEF PromiseInv, BatchInv, GroupIsInvisible
  <2>5. \A e \in Layers' : e.op \notin QueueOps'
    BY Zenon, <1>7, <2>2
  <2>6. todo' = {}
    BY Zenon, <1>2
  <2> QED BY Zenon, <2>3, <2>4, <2>5, <2>6 DEF BatchInv, GroupIsInvisible
<1>10. s = "ok" => \A i \in 1 .. k : req[writers[i]].sync => <<writers[i], opno[writers[i]]>> \in synced
  BY Zenon, <1>1, <1>3 DEF PromiseInv, SyncInv, GroupIsSynced, GroupOps
<1>11. SyncedIfAsked'
  <2>1. 1 \in 1 .. k
    BY SMTT(30), <1>3
  <2>2. s = "ok" /\ req[t].sync => <<t, opno[t]>> \in synced
    BY Zenon, <1>3, <1>10, <2>1
  <2> HIDE DEF s
  <2> QED BY Zenon, <1>1, <1>2, <2>2, AckedSynced DEF PromiseInv, SyncInv
<1>12. GroupIsSynced'
  <2>1. \A u \in Thread : pc'[u] # "inserting"
    BY Zenon, <1>5 DEF FrontPc
  <2>2. ASSUME NEW u \in Thread, done'[u], status'[u] = "ok", req'[u].sync
        PROVE  <<u, opno'[u]>> \in synced'
    <3>1. CASE u \in others
      <4>1. s = "ok"
        BY Zenon, <1>2, <2>2, <3>1
      <4>2. PICK i \in 1 .. k : u = writers[i]
        BY Zenon, <3>1 DEF Members
      <4> QED BY Zenon, <1>1, <1>10, <2>2, <4>1, <4>2
    <3>2. CASE u \notin others
      <4>1. done[u] /\ status[u] = "ok" /\ req[u].sync
        BY Zenon, <1>1, <1>2, <2>2, <3>2
      <4> QED BY Zenon, <1>1, <4>1 DEF PromiseInv, SyncInv, GroupIsSynced
    <3> QED BY Zenon, <3>1, <3>2
  <2> QED BY Zenon, <1>6, <2>1, <2>2 DEF GroupIsSynced
<1> QED BY Zenon, <1>8, <1>9, <1>11, <1>12 DEF PromiseInv, SyncInv

(* The flush of imm_ moves its entries to the tables of the version.       *)
LEMMA InstallPromise ==
  ASSUME QueueInv, PromiseInv, InstallTable
  PROVE  PromiseInv'
<1>1. /\ tables' = tables \cup imm /\ imm' = {}
      /\ UNCHANGED <<mem, todo, lastSeq, leader, writers, pc, req, opno, done, status, synced, acked>>
  BY Zenon DEF InstallTable, bgUnchanged, callVars, logVars
<1>2. Layers' = Layers /\ Active' = Active /\ Newest' = Newest
  BY Zenon, <1>1 DEF Layers, Active, Newest
<1>3. LayersOrdered'
  BY Zenon, <1>1, <1>2 DEF PromiseInv, DataInv, LayersOrdered
<1>4. TodoIsNewer'
  BY Zenon, <1>1, <1>2 DEF PromiseInv, DataInv, TodoIsNewer
<1>5. BatchInv'
  BY Zenon, <1>1, <1>2, BatchUntouched DEF PromiseInv
<1>6. SyncInv'
  BY Zenon, <1>1, <1>2, SyncUntouched DEF PromiseInv
<1> QED BY Zenon, <1>3, <1>4, <1>5, <1>6 DEF PromiseInv, DataInv

(* Every step keeps the three parts.                                       *)
LEMMA PromiseStep ==
  ASSUME GroupsCounted
  PROVE  QueueInv /\ PromiseInv /\ [Next]_vars => PromiseInv'
<1> SUFFICES ASSUME QueueInv, PromiseInv, [Next]_vars PROVE PromiseInv'
  BY Zenon
<1>1. ASSUME UNCHANGED <<mem, imm, tables, todo, lastSeq, leader, writers, req, opno, done,
                         status, synced, acked>>,
             \A u \in Thread : pc'[u] = pc[u] \/ {pc[u], pc'[u]} \cap ActivePc = {}
      PROVE  PromiseInv'
  <2>1. Layers' = Layers /\ (Active' <=> Active)
    BY Zenon, <1>1 DEF Layers, Active
  <2>2. \A u \in Thread : pc'[u] = "inserting" => pc[u] = "inserting"
    BY Zenon, <1>1 DEF ActivePc
  <2>3. DataInv' /\ BatchInv'
    BY Zenon, <1>1, <2>1, DataUntouched, BatchUntouched DEF PromiseInv, QueueInv
  <2>4. SyncInv'
    BY Zenon, <1>1, <2>1, <2>2, SyncUntouched DEF PromiseInv
  <2> QED BY Zenon, <2>3, <2>4 DEF PromiseInv
<1>2. ASSUME NEW t \in Thread, SyncFails(t) \/ FlushWait(t) PROVE PromiseInv'
  <2>1. UNCHANGED <<mem, imm, tables, todo, lastSeq, leader, writers, req, opno, done,
                    status, synced, acked>>
    BY Zenon, <1>2 DEF SyncFails, FlushWait, queueVars, callVars, dataVars, memVars, l0Vars, logVars
  <2>2. \A u \in Thread : pc'[u] = pc[u] \/ {pc[u], pc'[u]} \cap ActivePc = {}
    BY SMTT(30), <1>2 DEF SyncFails, FlushWait, queueVars, ActivePc, QueueInv, TypeOK
  <2> QED BY Zenon, <1>1, <2>1, <2>2
<1>3. ASSUME BackgroundCall \/ TableBuilt \/ CompactionYields \/ CompactionEnds
             \/ InstallCompaction \/ BackgroundFails \/ Close \/ CloseResumes \/ UNCHANGED vars
      PROVE  PromiseInv'
  <2> DEFINE Kept == UNCHANGED <<mem, imm, tables, todo, lastSeq, leader, writers, req, opno, done,
                                 status, synced, acked, pc>>
  <2>1. UNCHANGED <<bgUnchanged, imm, tables>> => Kept
    BY Zenon DEF bgUnchanged, callVars, logVars
  <2>2. BackgroundCall \/ TableBuilt \/ CompactionYields => Kept
    BY Zenon, <2>1 DEF BackgroundCall, TableBuilt, CompactionYields, l0Vars
  <2>3. CompactionEnds \/ InstallCompaction \/ BackgroundFails => Kept
    BY Zenon, <2>1 DEF CompactionEnds, InstallCompaction, BackgroundFails, l0Vars
  <2>4. Close \/ CloseResumes => Kept
    BY Zenon, <2>1 DEF Close, CloseResumes, l0Vars
  <2>5. UNCHANGED vars => Kept
    BY Zenon DEF vars, queueVars, callVars, dataVars, memVars, l0Vars, logVars
  <2>6. Kept
    BY ONLY Zenon, <1>3, <2>2, <2>3, <2>4, <2>5
  <2> QED BY Zenon, <1>1, <2>6
<1> QED BY Zenon, <1>2, <1>3, WritePromise, WakePromise, AddRecordPromise, InsertPromise,
        EndWritePromise, InstallPromise
        DEF Next, ThreadStep, BackgroundStep, Terminated
=============================================================================
