--------------------------- MODULE DBWriteTheorems ---------------------------
(***************************************************************************)
(* The theorems about the write path, for any number of threads, calls,    *)
(* batch sizes and triggers.  DBWriteProofs and DBWriteDataProofs prove    *)
(* that the steps preserve the invariants.                                 *)
(***************************************************************************)
EXTENDS DBWriteDataProofs, FiniteSetTheorems, FunctionTheorems

(***************************************************************************)
(* BuildBatchGroup: the updates of a group are finitely many, and their    *)
(* ranks are distinct numbers between 1 and their count.                   *)
(***************************************************************************)
(* The updates that BuildBatchGroup collects are finitely many.            *)
LEMMA FiniteUpdates ==
  ASSUME NEW q, NEW rq, NEW k \in Nat
  PROVE  /\ IsFiniteSet(Updates(q, rq, k))
         /\ Cardinality(Updates(q, rq, k)) \in Nat
<1>1. IsFiniteSet(1 .. k) /\ IsFiniteSet(1 .. MaxCount)
  BY FS_Interval, RequestAssumption
<1>2. IsFiniteSet((1 .. k) \X (1 .. MaxCount))
  BY Zenon, <1>1, FS_Product
<1>3. Updates(q, rq, k) \in SUBSET ((1 .. k) \X (1 .. MaxCount))
  BY Zenon DEF Updates
<1>4. IsFiniteSet(Updates(q, rq, k))
  BY Zenon, <1>2, <1>3, FS_Subset
<1> QED BY Zenon, <1>4, FS_CardinalityType

(* The sequence number of an update lies between LastSequence + 1 and      *)
(* LastSequence + Count(updates).                                          *)
LEMMA RankIsBounded ==
  ASSUME NEW q, NEW rq, NEW k \in Nat, NEW u \in Updates(q, rq, k)
  PROVE  /\ Rank(q, rq, k, u) \in Nat
         /\ 1 <= Rank(q, rq, k, u)
         /\ Rank(q, rq, k, u) <= Cardinality(Updates(q, rq, k))
<1> DEFINE U == Updates(q, rq, k)
<1> DEFINE B == {v \in U : Precedes(v, u)}
<1>1. IsFiniteSet(U) /\ Cardinality(U) \in Nat
  BY Zenon, FiniteUpdates
<1>2. B \in SUBSET U
  BY Zenon
<1>3. IsFiniteSet(B) /\ Cardinality(B) <= Cardinality(U)
  BY Zenon, <1>1, <1>2, FS_Subset
<1>4. Cardinality(B) \in Nat
  BY Zenon, <1>3, FS_CardinalityType
<1>5. u \in B
  <2>1. u[1] \in Int /\ u[2] \in Int
    BY RequestAssumption DEF Updates
  <2> QED BY <2>1 DEF Precedes
<1>6. Cardinality(B) # 0
  BY Zenon, <1>3, <1>5, FS_EmptySet
<1>7. Rank(q, rq, k, u) = Cardinality(B)
  BY Zenon DEF Rank
<1> HIDE DEF B, U
<1> QED BY <1>1, <1>3, <1>4, <1>6, <1>7 DEF U

(* No two updates of a group get the same sequence number.                 *)
LEMMA RankIsInjective ==
  ASSUME NEW q, NEW rq, NEW k \in Nat,
         NEW u \in Updates(q, rq, k), NEW v \in Updates(q, rq, k),
         Rank(q, rq, k, u) = Rank(q, rq, k, v)
  PROVE  u = v
<1> DEFINE U == Updates(q, rq, k)
<1> DEFINE B(x) == {w \in U : Precedes(w, x)}
<1>0. \A x \in U : x \in (1 .. k) \X (1 .. MaxCount)
  BY Zenon DEF Updates
<1>1. ASSUME NEW x \in U, NEW y \in U, Precedes(x, y), Cardinality(B(x)) = Cardinality(B(y))
      PROVE  x = y
  <2>1. B(x) \in SUBSET B(y)
    <3> SUFFICES ASSUME NEW w \in U, Precedes(w, x) PROVE Precedes(w, y)
      BY Zenon
    <3>1. w[1] \in Int /\ w[2] \in Int /\ x[1] \in Int /\ x[2] \in Int /\ y[1] \in Int /\ y[2] \in Int
      BY <1>0, RequestAssumption
    <3> QED BY <3>1, <1>1 DEF Precedes
  <2>2. IsFiniteSet(B(y))
    BY Zenon, FiniteUpdates, FS_Subset
  <2>3. B(x) = B(y)
    BY Zenon, <2>1, <2>2, <1>1, FS_Subset
  <2>4. y[1] \in Int /\ y[2] \in Int
    BY <1>0, RequestAssumption
  <2>5. y \in B(y)
    BY <2>4 DEF Precedes
  <2>6. Precedes(y, x)
    BY Zenon, <2>3, <2>5
  <2>7. x[1] = y[1] /\ x[2] = y[2]
    BY <1>0, <1>1, <2>6, RequestAssumption DEF Precedes
  <2> QED BY <1>0, <2>7
<1>2. Precedes(u, v) \/ Precedes(v, u)
  BY <1>0, RequestAssumption DEF Precedes
<1>3. Cardinality(B(u)) = Cardinality(B(v))
  BY Zenon DEF Rank
<1> QED BY Zenon, <1>1, <1>2, <1>3

(* last_writer is a writer of the queue.                                   *)
LEMMA LastWriterIsQueued ==
  ASSUME NEW q \in Seq(Thread), q # <<>>, NEW rq
  PROVE  LastWriter(q, rq) \in 1 .. Len(q)
<1> DEFINE J == {i \in 2 .. Len(q) : \A j \in 2 .. i : Joins(q, rq, j)}
<1>1. Len(q) \in Nat /\ Len(q) >= 1
  BY EmptySeq, LenProperties
<1>2. IsFiniteSet(2 .. Len(q)) /\ Cardinality(2 .. Len(q)) = Len(q) - 1
  BY <1>1, FS_Interval
<1>3. J \in SUBSET (2 .. Len(q))
  BY Zenon
<1>4. IsFiniteSet(J) /\ Cardinality(J) <= Len(q) - 1
  BY <1>2, <1>3, FS_Subset
<1>5. Cardinality(J) \in Nat
  BY Zenon, <1>4, FS_CardinalityType
<1>6. LastWriter(q, rq) = 1 + Cardinality(J)
  BY Zenon DEF LastWriter
<1> HIDE DEF J
<1> QED BY <1>1, <1>4, <1>5, <1>6


(* BuildBatchGroup's loop: every writer up to last_writer joins the group. *)
LEMMA LoopJoins ==
  ASSUME NEW q \in Seq(Thread), q # <<>>, NEW rq, NEW i \in 2 .. LastWriter(q, rq)
  PROVE  Joins(q, rq, i)
<1> DEFINE J == {m \in 2 .. Len(q) : \A j \in 2 .. m : Joins(q, rq, j)}
<1>1. Len(q) \in Nat /\ LastWriter(q, rq) = 1 + Cardinality(J)
  BY Zenon, LenProperties DEF LastWriter
<1> SUFFICES ASSUME ~Joins(q, rq, i) PROVE FALSE
  BY Zenon
<1>2. LastWriter(q, rq) \in Nat /\ i \in Int /\ 2 <= i /\ i <= LastWriter(q, rq)
  BY <1>1, LastWriterIsQueued
<1>3. J \subseteq 2 .. (i - 1)
  BY <1>1, <1>2
<1>4. IsFiniteSet(2 .. (i - 1)) /\ Cardinality(2 .. (i - 1)) = i - 2
  <2>1. 2 \in Int /\ i - 1 \in Int /\ (i - 1) - 2 + 1 = i - 2 /\ (2 > i - 1 => i - 2 = 0)
    BY <1>2
  <2> QED BY Zenon, <2>1, FS_Interval
<1>5. Cardinality(J) <= i - 2
  BY <1>3, <1>4, FS_Subset
<1>6. Cardinality(J) \in Nat
  BY Zenon, <1>3, <1>4, FS_Subset, FS_CardinalityType
<1> HIDE DEF J
<1> QED BY SMTT(30), <1>1, <1>2, <1>5, <1>6

(* All that the steps use about the number of updates of a group.          *)
LEMMA GroupsAreCounted == GroupsCounted
<1>1. ASSUME NEW q, NEW rq, NEW k \in Nat
      PROVE  /\ Cardinality(Updates(q, rq, k)) \in Nat
             /\ \A u \in Updates(q, rq, k) :
                  /\ Rank(q, rq, k, u) \in Nat
                  /\ 1 <= Rank(q, rq, k, u)
                  /\ Rank(q, rq, k, u) <= Cardinality(Updates(q, rq, k))
             /\ \A u, v \in Updates(q, rq, k) :
                  Rank(q, rq, k, u) = Rank(q, rq, k, v) => u = v
  BY Zenon, FiniteUpdates, RankIsBounded, RankIsInjective
<1>2. ASSUME NEW q \in Seq(Thread), NEW rq, q # <<>>
      PROVE  /\ LastWriter(q, rq) \in 1 .. Len(q)
             /\ \A i \in 2 .. LastWriter(q, rq) : Joins(q, rq, i)
  BY Zenon, <1>2, LastWriterIsQueued, LoopJoins
<1> QED BY Zenon, <1>1, <1>2 DEF GroupsCounted

-----------------------------------------------------------------------------
(* Type correctness of the write path, for every number of threads and     *)
(* calls and every size of batch and buffer.                               *)
THEOREM TypeCorrect == Spec => []TypeOK
<1>1. Init => QueueInv
  BY Zenon, QueueInit
<1>2. QueueInv /\ [Next]_vars => QueueInv'
  BY Zenon, QueueStep, GroupsAreCounted
<1>3. QueueInv => TypeOK
  BY Zenon DEF QueueInv
<1> QED BY <1>1, <1>2, <1>3, PTL DEF Spec

(* Mutual exclusion by the writer queue: only the front writer is in       *)
(* MakeRoomForWrite, in the log or in the memtable.                        *)
THEOREM FrontWriterOnly == Spec => []FrontOnly
<1>1. QueueInv => FrontOnly
  BY Zenon DEF QueueInv
<1> QED BY <1>1, QueueInit, QueueStep, GroupsAreCounted, PTL DEF Spec

(* Every writer that is done or in front has been signalled, and whoever   *)
(* waits for background work has a background call ahead that will signal, *)
(* for any number of threads, calls and failures.                          *)
THEOREM NobodySleepsForEver == Spec => []NoLostWakeup
<1>1. WakeInv => NoLostWakeup
  BY Zenon DEF WakeInv
<1> QED BY <1>1, QueueInit, QueueStep, GroupsAreCounted, WakeInit, WakeStep, PTL DEF Spec

(* MaybeScheduleCompaction is called wherever work appears.                *)
THEOREM WorkAlwaysScheduled == Spec => []WorkIsScheduled
<1>1. WakeInv => WorkIsScheduled
  BY Zenon DEF WakeInv
<1> QED BY <1>1, QueueInit, QueueStep, GroupsAreCounted, WakeInit, WakeStep, PTL DEF Spec

(* DBImpl::Get stops at the first layer with the key and is right to: mem_ *)
(* is newer than imm_, imm_ newer than the tables, and no two updates      *)
(* share a sequence number, however calls, groups, switches and flushes    *)
(* interleave.                                                             *)
THEOREM LayersStayOrdered == Spec => []LayersOrdered
<1>1. Init => PromiseInv
  BY Zenon, DataInit, BatchInit, SyncInit DEF PromiseInv
<1>2. PromiseInv => LayersOrdered
  BY DEF PromiseInv, DataInv
<1> QED BY <1>1, <1>2, QueueInit, QueueStep, GroupsAreCounted, PromiseStep, PTL DEF Spec

(* A batch is visible in full or not at all to a reader at LastSequence,   *)
(* whatever group it was merged into.                                      *)
THEOREM BatchesAtomic == Spec => []BatchAtomic
<1>1. Init => PromiseInv
  BY Zenon, DataInit, BatchInit, SyncInit DEF PromiseInv
<1>2. QueueInv /\ PromiseInv => BatchAtomic
  <2> SUFFICES ASSUME QueueInv, PromiseInv, NEW e \in Layers, NEW f \in Layers \cup todo,
                      e.op = f.op, e.seq <= lastSeq
               PROVE  f.seq <= lastSeq /\ f \notin todo
    BY Zenon DEF BatchAtomic
  <2>1. /\ \A g \in todo : g.op \in GroupOps /\ Active /\ lastSeq < g.seq
        /\ \A g \in Layers : g.seq > lastSeq => Active /\ g.op \in GroupOps
        /\ e.op \notin QueueOps
    BY Zenon DEF PromiseInv, BatchInv, GroupIsInvisible, DataInv, TodoIsNewer
  <2>2. Active => GroupOps \subseteq QueueOps
    <3>1. Active => leader.last \in 1 .. Len(writers) /\ Len(writers) \in Nat
      BY Zenon, LenProperties DEF QueueInv, GroupInQueue, TypeOK
    <3> QED BY <3>1 DEF GroupOps, QueueOps
  <2>3. f.seq \in Nat /\ lastSeq \in Nat
    BY Zenon DEF QueueInv, TypeOK, Layers, Entry
  <2> QED BY SMTT(30), <2>1, <2>2, <2>3
<1> QED BY <1>1, <1>2, QueueInit, QueueStep, GroupsAreCounted, PromiseStep, PTL DEF Spec

(* A call with WriteOptions::sync that returned OK is in a log file that   *)
(* was synced after its record was added, also when another call's thread  *)
(* wrote the record.                                                       *)
THEOREM SyncIsHonoured == Spec => []SyncedIfAsked
<1>1. Init => PromiseInv
  BY Zenon, DataInit, BatchInit, SyncInit DEF PromiseInv
<1>2. PromiseInv => SyncedIfAsked
  BY Zenon DEF PromiseInv, SyncInv
<1> QED BY <1>1, <1>2, QueueInit, QueueStep, GroupsAreCounted, PromiseStep, PTL DEF Spec

-----------------------------------------------------------------------------
(***************************************************************************)
(* Counting the updates of a group.                                        *)
(***************************************************************************)
(* Sets in a bijection have the same number of elements.                   *)
LEMMA SameCount ==
  ASSUME NEW S, NEW T, IsFiniteSet(S), NEW f \in [S -> T],
         \A x, y \in S : f[x] = f[y] => x = y, \A z \in T : \E x \in S : f[x] = z
  PROVE  IsFiniteSet(T) /\ Cardinality(T) = Cardinality(S)
<1>1. f \in Bijection(S, T)
  BY Zenon, Fun_IsBij
<1>2. ExistsBijection(S, T)
  BY Zenon, <1>1, Fun_ExistsBij
<1> QED BY Zenon, <1>2, FS_Bijection

(* Updates are numbered in the order of the queue and of their batches.    *)
LEMMA RankIsMonotone ==
  ASSUME NEW q, NEW rq, NEW k \in Nat,
         NEW u \in Updates(q, rq, k), NEW v \in Updates(q, rq, k),
         Rank(q, rq, k, u) <= Rank(q, rq, k, v)
  PROVE  Precedes(u, v)
<1> DEFINE U == Updates(q, rq, k)
<1> DEFINE B(x) == {w \in U : Precedes(w, x)}
<1>0. \A x \in U : x[1] \in Int /\ x[2] \in Int
  BY RequestAssumption DEF Updates
<1>1. SUFFICES ASSUME ~Precedes(u, v) PROVE FALSE
  BY Zenon
<1>2. Precedes(v, u) /\ u # v
  BY <1>0, <1>1 DEF Precedes
<1>3. B(v) \in SUBSET B(u)
  <2> SUFFICES ASSUME NEW w \in U, Precedes(w, v) PROVE Precedes(w, u)
    BY Zenon
  <2> QED BY <1>0, <1>2 DEF Precedes
<1>4. IsFiniteSet(B(u)) /\ B(u) \in SUBSET U
  BY Zenon, FiniteUpdates, FS_Subset
<1>5. Cardinality(B(v)) <= Cardinality(B(u))
  BY Zenon, <1>3, <1>4, FS_Subset
<1>6. Rank(q, rq, k, v) <= Rank(q, rq, k, u)
  BY Zenon, <1>5 DEF Rank
<1>7. Rank(q, rq, k, u) \in Nat /\ Rank(q, rq, k, v) \in Nat
  BY Zenon, RankIsBounded
<1>8. Rank(q, rq, k, u) = Rank(q, rq, k, v)
  BY <1>6, <1>7
<1> QED BY Zenon, <1>2, <1>8, RankIsInjective

(* The entries of a group are as many as its updates, and their sequence   *)
(* numbers are all those from LastSequence + 1 to that many beyond it.     *)
LEMMA GroupIsCounted ==
  ASSUME NEW q, NEW rq, NEW no, NEW k \in Nat, lastSeq \in Nat
  PROVE  LET E == GroupEntries(q, rq, k, no)
             n == Cardinality(Updates(q, rq, k))
         IN  /\ IsFiniteSet(E) /\ Cardinality(E) = n
             /\ {e.seq : e \in E} = (lastSeq + 1) .. (lastSeq + n)
<1> DEFINE U == Updates(q, rq, k)
           E == GroupEntries(q, rq, k, no)
           n == Cardinality(U)
           Of(u) == [seq |-> lastSeq + Rank(q, rq, k, u), op |-> <<q[u[1]], no[q[u[1]]]>>]
           R == {lastSeq + Rank(q, rq, k, u) : u \in U}
<1>1. IsFiniteSet(U) /\ n \in Nat
  BY Zenon, FiniteUpdates
<1>2. /\ \A u \in U : Rank(q, rq, k, u) \in Nat /\ 1 <= Rank(q, rq, k, u) /\ Rank(q, rq, k, u) <= n
      /\ \A u, v \in U : Rank(q, rq, k, u) = Rank(q, rq, k, v) => u = v
  BY Zenon, RankIsBounded, RankIsInjective
<1>3. E = {Of(u) : u \in U}
  BY Zenon DEF GroupEntries
<1>4. \A u, v \in U : lastSeq + Rank(q, rq, k, u) = lastSeq + Rank(q, rq, k, v) => u = v
  <2> SUFFICES ASSUME NEW u \in U, NEW v \in U, lastSeq + Rank(q, rq, k, u) = lastSeq + Rank(q, rq, k, v)
               PROVE  u = v
    BY Zenon
  <2> HIDE DEF U
  <2>1. Rank(q, rq, k, u) = Rank(q, rq, k, v)
    BY <1>2
  <2> QED BY Zenon, <1>2, <2>1
<1>5. \A u, v \in U : Of(u) = Of(v) => u = v
  BY Zenon, <1>4
<1> HIDE DEF U
<1>6. IsFiniteSet(E) /\ Cardinality(E) = n
  <2> DEFINE f == [u \in U |-> Of(u)]
  <2>1. f \in [U -> E] /\ (\A u, v \in U : f[u] = f[v] => u = v) /\ (\A e \in E : \E u \in U : f[u] = e)
    BY Zenon, <1>3, <1>5
  <2> HIDE DEF f, E, n
  <2> QED BY Zenon, <1>1, <2>1, SameCount DEF n
<1>7. IsFiniteSet(R) /\ Cardinality(R) = n
  <2> DEFINE f == [u \in U |-> lastSeq + Rank(q, rq, k, u)]
  <2>1. f \in [U -> R] /\ (\A u, v \in U : f[u] = f[v] => u = v) /\ (\A e \in R : \E u \in U : f[u] = e)
    BY Zenon, <1>4
  <2> HIDE DEF f, R, n
  <2> QED BY Zenon, <1>1, <2>1, SameCount DEF n
<1>8. R \in SUBSET ((lastSeq + 1) .. (lastSeq + n))
  <2> SUFFICES ASSUME NEW u \in U PROVE lastSeq + Rank(q, rq, k, u) \in (lastSeq + 1) .. (lastSeq + n)
    BY Zenon
  <2>1. Rank(q, rq, k, u) \in Nat /\ 1 <= Rank(q, rq, k, u) /\ Rank(q, rq, k, u) <= n
    BY Zenon, <1>2
  <2> HIDE DEF n
  <2> QED BY <1>1, <2>1
<1>9. IsFiniteSet((lastSeq + 1) .. (lastSeq + n)) /\ Cardinality((lastSeq + 1) .. (lastSeq + n)) = n
  <2> HIDE DEF n
  <2>1. lastSeq + 1 \in Int /\ lastSeq + n \in Int /\ (lastSeq + n) - (lastSeq + 1) + 1 = n
        /\ (lastSeq + 1 > lastSeq + n => n = 0)
    BY <1>1
  <2> QED BY Zenon, <2>1, FS_Interval
<1>10. R = (lastSeq + 1) .. (lastSeq + n)
  <2> DEFINE I == (lastSeq + 1) .. (lastSeq + n)
  <2>1. R \in SUBSET I /\ IsFiniteSet(I) /\ Cardinality(I) = Cardinality(R)
    BY Zenon, <1>7, <1>8, <1>9
  <2> HIDE DEF I, R
  <2>2. I = R
    BY Zenon, <2>1, FS_Subset
  <2> QED BY Zenon, <2>2 DEF I
<1>11. {e.seq : e \in E} = R
  <2>1. \A u \in U : Of(u).seq = lastSeq + Rank(q, rq, k, u)
    BY Zenon
  <2>2. \A e \in E : e.seq \in R
    BY Zenon, <1>3, <2>1
  <2>3. ASSUME NEW u \in U PROVE \E e \in E : e.seq = lastSeq + Rank(q, rq, k, u)
    <3>1. Of(u) \in E
      BY Zenon, <1>3
    <3> HIDE DEF E, Of
    <3> QED BY Zenon, <2>1, <3>1
  <2> HIDE DEF E, Of
  <2> QED BY Zenon, <2>2, <2>3
<1> QED BY Zenon, <1>6, <1>10, <1>11 DEF U

(* The entries of one writer's batch among E, and that no other entry is   *)
(* numbered between them.                                                  *)
BatchOf(E, u, no) == {e \in E : e.op = <<u, no[u]>>}
Together(E, u, no) ==
  \A e, f \in BatchOf(E, u, no), g \in E :
    e.seq <= g.seq /\ g.seq <= f.seq => g.op = <<u, no[u]>>

(* A writer of the group has as many entries in it as its batch has        *)
(* updates, and no other writer's entry is numbered between them.          *)
LEMMA WriterIsCounted ==
  ASSUME NEW q, NEW rq, NEW no, NEW k \in Nat, lastSeq \in Nat, NEW i \in 1 .. k,
         \A a, b \in 1 .. k : q[a] = q[b] => a = b,
         ~rq[q[i]].null, rq[q[i]].n \in 0 .. MaxCount
  PROVE  /\ Cardinality(BatchOf(GroupEntries(q, rq, k, no), q[i], no)) = rq[q[i]].n
         /\ Together(GroupEntries(q, rq, k, no), q[i], no)
<1> DEFINE U == Updates(q, rq, k)
           E == GroupEntries(q, rq, k, no)
           n == rq[q[i]].n
           Of(u) == [seq |-> lastSeq + Rank(q, rq, k, u), op |-> <<q[u[1]], no[q[u[1]]]>>]
           mine == {e \in E : e.op = <<q[i], no[q[i]]>>}
<1>1. E = {Of(u) : u \in U}
  BY Zenon DEF GroupEntries
<1>2. \A u \in U : u \in (1 .. k) \X (1 .. MaxCount) /\ u[1] \in 1 .. k /\ u[2] \in 1 .. MaxCount
  BY Zenon DEF Updates
<1>3. \A j \in 1 .. n : <<i, j>> \in U
  BY RequestAssumption DEF Updates
<1>4. ASSUME NEW e \in mine PROVE \E u \in U : e = Of(u) /\ u[1] = i /\ u[2] \in 1 .. n /\ u = <<i, u[2]>>
  <2>1. PICK u \in U : e = Of(u)
    BY Zenon, <1>1
  <2>2. q[u[1]] = q[i]
    BY Zenon, <2>1
  <2>3. u[1] = i
    BY Zenon, <1>2, <2>2
  <2>4. u[2] <= rq[q[u[1]]].n
    BY Zenon DEF Updates
  <2>5. u[2] \in 1 .. n
    BY <1>2, <2>3, <2>4, RequestAssumption
  <2>6. u = <<i, u[2]>>
    BY <1>2, <2>3
  <2> QED BY Zenon, <2>1, <2>3, <2>5, <2>6
<1>5. Cardinality(mine) = n
  <2> DEFINE f == [j \in 1 .. n |-> Of(<<i, j>>)]
  <2>1. IsFiniteSet(1 .. n) /\ Cardinality(1 .. n) = n
    <3>1. 1 \in Int /\ n \in Int /\ n - 1 + 1 = n /\ (1 > n => n = 0)
      BY RequestAssumption
    <3> HIDE DEF n
    <3> QED BY Zenon, <3>1, FS_Interval
  <2>2. \A j \in 1 .. n : Of(<<i, j>>) \in mine
    <3> SUFFICES ASSUME NEW j \in 1 .. n PROVE Of(<<i, j>>) \in mine
      BY Zenon
    <3>1. Of(<<i, j>>).op = <<q[i], no[q[i]]>>
      BY Zenon
    <3>2. Of(<<i, j>>) \in E
      BY Zenon, <1>1, <1>3
    <3> QED BY Zenon, <3>1, <3>2
  <2>3. \A j, m \in 1 .. n : Of(<<i, j>>) = Of(<<i, m>>) => j = m
    <3> SUFFICES ASSUME NEW j \in 1 .. n, NEW m \in 1 .. n, Of(<<i, j>>) = Of(<<i, m>>) PROVE j = m
      BY Zenon
    <3>1. lastSeq + Rank(q, rq, k, <<i, j>>) = lastSeq + Rank(q, rq, k, <<i, m>>)
      BY Zenon
    <3>2. Rank(q, rq, k, <<i, j>>) \in Nat /\ Rank(q, rq, k, <<i, m>>) \in Nat
      BY Zenon, <1>3, RankIsBounded
    <3>3. Rank(q, rq, k, <<i, j>>) = Rank(q, rq, k, <<i, m>>)
      BY <3>1, <3>2
    <3>4. <<i, j>> = <<i, m>>
      BY Zenon, <1>3, <3>3, RankIsInjective
    <3> QED BY Zenon, <3>4
  <2>4. \A e \in mine : \E j \in 1 .. n : Of(<<i, j>>) = e
    BY Zenon, <1>4
  <2>5. f \in [1 .. n -> mine] /\ (\A j, m \in 1 .. n : f[j] = f[m] => j = m)
        /\ (\A e \in mine : \E j \in 1 .. n : f[j] = e)
    <3> HIDE DEF mine, Of
    <3> QED BY Zenon, <2>2, <2>3, <2>4
  <2> HIDE DEF f, mine, n
  <2> QED BY Zenon, <2>1, <2>5, SameCount
<1>6. ASSUME NEW e \in mine, NEW f \in mine, NEW g \in E, e.seq <= g.seq, g.seq <= f.seq
      PROVE  g.op = <<q[i], no[q[i]]>>
  <2>1. PICK u \in U : e = Of(u) /\ u[1] = i
    BY Zenon, <1>4
  <2>2. PICK v \in U : f = Of(v) /\ v[1] = i
    BY Zenon, <1>4
  <2>3. PICK w \in U : g = Of(w)
    BY Zenon, <1>1
  <2>4. /\ lastSeq + Rank(q, rq, k, u) <= lastSeq + Rank(q, rq, k, w)
        /\ lastSeq + Rank(q, rq, k, w) <= lastSeq + Rank(q, rq, k, v)
    BY Zenon, <1>6, <2>1, <2>2, <2>3
  <2>5. Rank(q, rq, k, u) \in Nat /\ Rank(q, rq, k, v) \in Nat /\ Rank(q, rq, k, w) \in Nat
    BY Zenon, RankIsBounded
  <2>6. Rank(q, rq, k, u) <= Rank(q, rq, k, w) /\ Rank(q, rq, k, w) <= Rank(q, rq, k, v)
    BY <2>4, <2>5
  <2>7. Precedes(u, w) /\ Precedes(w, v)
    BY Zenon, <2>6, RankIsMonotone
  <2>8. w[1] = i
    BY <1>2, <2>1, <2>2, <2>7 DEF Precedes
  <2>9. g.op = <<q[w[1]], no[q[w[1]]]>>
    BY Zenon, <2>3
  <2> QED BY Zenon, <2>8, <2>9
<1> QED BY Zenon, <1>5, <1>6 DEF BatchOf, Together

-----------------------------------------------------------------------------
(***************************************************************************)
(* What the steps of AtomicWrites are, in the terms of the write path.     *)
(***************************************************************************)
NoOpenCall == [no |-> 0, n |-> 0]
CallOf(t) == [no |-> opno[t], n |-> req[t].n]
OutsidePc == {"idle", "flushing", "flushwait"}

(* AtomicWrites counts as the write path does.                             *)
LEMMA SameCardinality ==
  ASSUME NEW S
  PROVE  Abstract!Cardinality(S) = Cardinality(S)
BY Zenon DEF Cardinality, Abstract!Cardinality

LEMMA AtomicStutters ==
  ASSUME UNCHANGED <<OpenCalls, Visible, lastSeq, Acknowledged>>
  PROVE  Abstract!Step
BY Zenon DEF Abstract!Step, Abstract!vars

LEMMA AtomicCall ==
  ASSUME NEW t \in Thread, OpenCalls[t] = NoOpenCall,
         NEW k \in 1 .. MaxOps, NEW n \in 0 .. MaxCount,
         \A e \in Visible : e.op[1] = t => e.op[2] < k,
         OpenCalls' = [OpenCalls EXCEPT ![t] = [no |-> k, n |-> n]],
         UNCHANGED <<Visible, lastSeq, Acknowledged>>
  PROVE  Abstract!Step
<1>1. Abstract!Call(t)
  BY Zenon DEF Abstract!Call, Abstract!InCall, Abstract!NoCall, NoOpenCall
<1> QED BY Zenon, <1>1 DEF Abstract!Step, Abstract!Next

LEMMA AtomicError ==
  ASSUME NEW t \in Thread, OpenCalls[t] # NoOpenCall, OpenCalls[t].no = opno[t],
         CallEntries(t) = {}, lastSeq' >= lastSeq,
         OpenCalls' = [OpenCalls EXCEPT ![t] = NoOpenCall],
         UNCHANGED <<Visible, Acknowledged>>
  PROVE  Abstract!Step
<1>1. Abstract!EntriesOf(Visible, t) = {}
  BY Zenon DEF Abstract!EntriesOf, Abstract!OpOf, CallEntries
<1>2. Abstract!ReturnError(t)
  BY Zenon, <1>1 DEF Abstract!ReturnError, Abstract!InCall, Abstract!NoCall, Abstract!Return, NoOpenCall
<1> QED BY Zenon, <1>2 DEF Abstract!Step, Abstract!Next

LEMMA AtomicOK ==
  ASSUME NEW t \in Thread, OpenCalls[t] # NoOpenCall, OpenCalls[t] = CallOf(t),
         Cardinality(CallEntries(t)) = req[t].n,
         OpenCalls' = [OpenCalls EXCEPT ![t] = NoOpenCall],
         Acknowledged' = Acknowledged \cup {[op |-> <<t, opno[t]>>, n |-> req[t].n]},
         UNCHANGED <<Visible, lastSeq>>
  PROVE  Abstract!Step
<1>0. OpenCalls[t].no = opno[t] /\ OpenCalls[t].n = req[t].n
  BY SMT DEF CallOf
<1>1. Abstract!EntriesOf(Visible, t) = CallEntries(t)
  BY Zenon, <1>0 DEF Abstract!EntriesOf, Abstract!OpOf, CallEntries
<1>2. Abstract!Acknowledge(t)
  BY Zenon, <1>0 DEF Abstract!Acknowledge, Abstract!OpOf
<1>3. t \in Abstract!InCall /\ Abstract!Return(t)
  BY Zenon DEF Abstract!InCall, Abstract!NoCall, Abstract!Return, NoOpenCall
<1>4. Abstract!Cardinality(Abstract!EntriesOf(Visible, t)) = OpenCalls[t].n
  BY Zenon, <1>0, <1>1, SameCardinality
<1>5. Abstract!ReturnOK(t)
  BY Zenon, <1>2, <1>3, <1>4 DEF Abstract!ReturnOK
<1> QED BY Zenon, <1>5 DEF Abstract!Step, Abstract!Next

(* A call that returns OK is acknowledged with the size of its batch.      *)
LEMMA AckedCall ==
  ASSUME NEW t, acked' = Ack(t, "ok", req, opno), ~req[t].null
  PROVE  Acknowledged' = Acknowledged \cup {[op |-> <<t, opno[t]>>, n |-> req[t].n]}
<1> DEFINE a == [op |-> <<t, opno[t]>>, n |-> req[t].n, sync |-> req[t].sync]
<1>1. acked' = acked \cup {a}
  BY Zenon DEF Ack
<1>2. [op |-> a.op, n |-> a.n] = [op |-> <<t, opno[t]>>, n |-> req[t].n]
  BY Zenon
<1> HIDE DEF a
<1>3. Acknowledged' = Acknowledged \cup {[op |-> a.op, n |-> a.n]}
  BY Zenon, <1>1 DEF Acknowledged
<1> QED BY Zenon, <1>2, <1>3

LEMMA AtomicCommit ==
  ASSUME NEW t \in Thread, NEW G \in SUBSET Thread, t \in G, NEW E,
         \A u \in G : OpenCalls[u] # NoOpenCall /\ OpenCalls[u] = CallOf(u) /\ CallEntries(u) = {},
         Visible' = Visible \cup E, \A e \in E : e \notin Visible,
         lastSeq' = lastSeq + Cardinality(E),
         {e.seq : e \in E} = (lastSeq + 1) .. lastSeq',
         \A e \in E : \E u \in G : e.op = <<u, opno[u]>>,
         \A u \in G : Cardinality(BatchOf(E, u, opno)) = req[u].n /\ Together(E, u, opno),
         OpenCalls' = [OpenCalls EXCEPT ![t] = NoOpenCall],
         Acknowledged' = Acknowledged \cup {[op |-> <<t, opno[t]>>, n |-> req[t].n]}
  PROVE  Abstract!Step
<1>0. \A u \in G : /\ OpenCalls[u].no = opno[u] /\ OpenCalls[u].n = req[u].n
                   /\ Abstract!OpOf(u) = <<u, opno[u]>>
  <2>1. \A u : CallOf(u).no = opno[u] /\ CallOf(u).n = req[u].n
    BY SMT DEF CallOf
  <2> QED BY Zenon, <2>1 DEF Abstract!OpOf
<1>1. Visible' \ Visible = E
  BY Zenon
<1>2. \A u \in G : Abstract!EntriesOf(Visible, u) = {}
  BY Zenon, <1>0 DEF Abstract!EntriesOf, CallEntries
<1>3. \A u \in G : Abstract!EntriesOf(E, u) = BatchOf(E, u, opno)
  BY Zenon, <1>0 DEF Abstract!EntriesOf, BatchOf
<1>4. G \subseteq Abstract!InCall /\ Abstract!Return(t)
  BY Zenon DEF Abstract!InCall, Abstract!NoCall, Abstract!Return, NoOpenCall
<1>5. Abstract!Acknowledge(t)
  BY Zenon, <1>0 DEF Abstract!Acknowledge
<1>6. \A e \in E : \E u \in G : e.op = Abstract!OpOf(u)
  BY Zenon, <1>0
<1>7. ASSUME NEW u \in G
      PROVE  /\ Abstract!Cardinality(Abstract!EntriesOf(E, u)) = OpenCalls[u].n
             /\ \A e, f \in Abstract!EntriesOf(E, u), g \in E :
                  e.seq <= g.seq /\ g.seq <= f.seq => g.op = Abstract!OpOf(u)
  <2>1. Cardinality(BatchOf(E, u, opno)) = req[u].n
    BY Zenon
  <2>2. \A e, f \in BatchOf(E, u, opno), g \in E :
          e.seq <= g.seq /\ g.seq <= f.seq => g.op = <<u, opno[u]>>
    BY Zenon DEF Together
  <2>3. Abstract!Cardinality(Abstract!EntriesOf(E, u)) = OpenCalls[u].n
    BY Zenon, <1>0, <1>3, <2>1, SameCardinality
  <2> QED BY Zenon, <1>0, <1>3, <2>2, <2>3
<1>8. lastSeq' = lastSeq + Abstract!Cardinality(E)
  BY Zenon, SameCardinality
<1>9. Visible \subseteq Visible'
  BY Zenon
<1>10. Abstract!Commit(G, t)
  <2>1. t \in G /\ G \subseteq Abstract!InCall /\ \A u \in G : Abstract!EntriesOf(Visible, u) = {}
    BY Zenon, <1>2, <1>4
  <2> DEFINE new == Visible' \ Visible
  <2>0. new = E
    BY Zenon, <1>1
  <2> HIDE DEF new
  <2>2. /\ lastSeq' = lastSeq + Abstract!Cardinality(new)
        /\ {e.seq : e \in new} = (lastSeq + 1) .. lastSeq'
        /\ \A e \in new : \E u \in G : e.op = Abstract!OpOf(u)
    BY Zenon, <1>6, <1>8, <2>0
  <2>3. \A u \in G :
          /\ Abstract!Cardinality(Abstract!EntriesOf(new, u)) = OpenCalls[u].n
          /\ \A e, f \in Abstract!EntriesOf(new, u), g \in new :
               e.seq <= g.seq /\ g.seq <= f.seq => g.op = Abstract!OpOf(u)
    <3> SUFFICES ASSUME NEW u \in G
                 PROVE  /\ Abstract!Cardinality(Abstract!EntriesOf(new, u)) = OpenCalls[u].n
                        /\ \A e, f \in Abstract!EntriesOf(new, u), g \in new :
                             e.seq <= g.seq /\ g.seq <= f.seq => g.op = Abstract!OpOf(u)
      BY Zenon
    <3>1. Abstract!EntriesOf(new, u) = Abstract!EntriesOf(E, u)
      BY Zenon, <2>0
    <3>2. Abstract!Cardinality(Abstract!EntriesOf(new, u)) = OpenCalls[u].n
      BY Zenon, <1>7, <3>1
    <3>3. ASSUME NEW e \in Abstract!EntriesOf(new, u), NEW f \in Abstract!EntriesOf(new, u), NEW g \in new,
                 e.seq <= g.seq /\ g.seq <= f.seq
          PROVE  g.op = Abstract!OpOf(u)
      <4>1. e \in Abstract!EntriesOf(E, u) /\ f \in Abstract!EntriesOf(E, u) /\ g \in E
        BY Zenon, <2>0, <3>1
      <4> QED BY Zenon, <1>7, <3>3, <4>1
    <3> QED BY Zenon, <3>2, <3>3
  <2> USE DEF new
  <2> QED BY Zenon, <1>4, <1>5, <1>9, <2>1, <2>2, <2>3 DEF Abstract!Commit
<1> QED BY Zenon, <1>10 DEF Abstract!Step, Abstract!Next

-----------------------------------------------------------------------------
(***************************************************************************)
(* Steps that change no entry.                                             *)
(***************************************************************************)
(* What is open depends on where the threads are and on their requests.    *)
LEMMA OpenCallsOf ==
  ASSUME NEW t \in Thread
  PROVE  /\ pc[t] \in OutsidePc \/ req[t].null => OpenCalls[t] = NoOpenCall
         /\ pc[t] \notin OutsidePc /\ ~req[t].null => OpenCalls[t] = CallOf(t)
BY Zenon DEF OpenCalls, NoOpenCall, CallOf, OutsidePc

(* A call that is open is not NoOpenCall: calls are numbered from 1.       *)
LEMMA OpenIsOpen ==
  ASSUME TypeOK, CallsOpen, NEW t \in Thread, pc[t] \notin OutsidePc, ~req[t].null
  PROVE  OpenCalls[t] = CallOf(t) /\ OpenCalls[t] # NoOpenCall
<1>1. OpenCalls[t] = CallOf(t)
  BY Zenon, OpenCallsOf
<1>2. opno[t] >= 1 /\ opno[t] \in Int
  BY BoundAssumption DEF CallsOpen, OutsidePc, TypeOK
<1>3. CallOf(t).no # NoOpenCall.no
  BY <1>2 DEF CallOf, NoOpenCall
<1> QED BY Zenon, <1>1, <1>3

(* Threads that stay outside a call, or inside one, keep OpenCalls.        *)
LEMMA OpenCallsKept ==
  ASSUME UNCHANGED <<req, opno>>,
         \A u \in Thread : pc'[u] = pc[u] \/ {pc[u], pc'[u]} \subseteq OutsidePc
                           \/ {pc[u], pc'[u]} \cap OutsidePc = {} \/ req[u].null
  PROVE  OpenCalls' = OpenCalls
<1>1. ASSUME NEW u \in Thread
      PROVE  (pc'[u] \in OutsidePc \/ req'[u].null) <=> (pc[u] \in OutsidePc \/ req[u].null)
  <2>1. req'[u] = req[u]
    BY Zenon
  <2> QED BY Zenon, <2>1
<1> QED BY Zenon, <1>1 DEF OpenCalls, OutsidePc

(* The group and the outcomes are as they were.                            *)
LEMMA OutcomeKept ==
  ASSUME OutcomeInv, UNCHANGED <<todo, lastSeq, leader, writers, req, opno, done, status>>,
         Layers' = Layers, Active' <=> Active, ~hasImm' => imm' = {},
         \A u \in Thread : pc'[u] \in {"logging", "failed"} => pc[u] \in {"logging", "failed"}
  PROVE  OutcomeInv' /\ Visible' = Visible
<1>1. Visible' = Visible /\ \A u \in Thread : CallEntries(u)' = CallEntries(u)
  BY Zenon DEF Visible, CallEntries
<1>2. DoneIsTrue'
  BY Zenon, <1>1 DEF OutcomeInv, DoneIsTrue
<1>3. GroupIsWhole'
  <2>1. GroupEntries(writers, req, leader.last, opno)' = GroupEntries(writers, req, leader.last, opno)
    BY Zenon DEF GroupEntries
  <2> QED BY Zenon, <2>1 DEF OutcomeInv, GroupIsWhole
<1> QED BY Zenon, <1>1, <1>2, <1>3 DEF OutcomeInv

LEMMA QuietOutcome ==
  ASSUME QueueInv, OutcomeInv,
         UNCHANGED <<mem, imm, hasImm, tables, todo, lastSeq, leader, writers, req, opno, done, status, acked>>,
         \A u \in Thread : pc'[u] = pc[u] \/ {pc[u], pc'[u]} \subseteq OutsidePc
  PROVE  OutcomeInv' /\ Abstract!Step
<1>1. Layers' = Layers /\ Acknowledged' = Acknowledged
  BY Zenon DEF Layers, Acknowledged
<1>2. \A u \in Thread : /\ pc'[u] \in ActivePc <=> pc[u] \in ActivePc
                        /\ pc'[u] \in {"logging", "failed"} => pc[u] \in {"logging", "failed"}
  BY Zenon DEF ActivePc, OutsidePc
<1>3. OutcomeInv' /\ Visible' = Visible
  BY Zenon, <1>1, <1>2, OutcomeKept DEF Active, OutcomeInv
<1>4. OpenCalls' = OpenCalls
  BY Zenon, OpenCallsKept
<1> QED BY Zenon, <1>1, <1>3, <1>4, AtomicStutters

(* AddRecord and InsertInto work on a group that nobody sees.              *)
LEMMA AddRecordOutcome ==
  ASSUME QueueInv, OutcomeInv, NEW t \in Thread, AddRecord(t) \/ AddRecordFails(t)
  PROVE  OutcomeInv' /\ Abstract!Step
<1>1. /\ pc[t] = "logging"
      /\ UNCHANGED <<mem, imm, hasImm, tables, todo, lastSeq, leader, writers, req, opno, done, status, acked>>
      /\ pc' = [pc EXCEPT ![t] = "failed"] \/ pc' = [pc EXCEPT ![t] = "inserting"]
  BY Zenon DEF AddRecord, AddRecordFails, callVars, dataVars, memVars, l0Vars
<1>2. \A u \in Thread : IF u = t THEN pc'[u] \in {"failed", "inserting"} ELSE pc'[u] = pc[u]
  BY Zenon, <1>1 DEF QueueInv, TypeOK
<1>3. Layers' = Layers /\ Acknowledged' = Acknowledged /\ (Active' <=> Active)
  BY Zenon, <1>1, <1>2 DEF Layers, Acknowledged, Active, ActivePc
<1>4. OutcomeInv' /\ Visible' = Visible
  BY Zenon, <1>1, <1>2, <1>3, OutcomeKept DEF OutcomeInv
<1>5. OpenCalls' = OpenCalls
  BY Zenon, <1>1, <1>2, OpenCallsKept DEF OutsidePc
<1> QED BY Zenon, <1>1, <1>3, <1>4, <1>5, AtomicStutters

LEMMA InsertOutcome ==
  ASSUME QueueInv, PromiseInv, OutcomeInv, NEW t \in Thread, InsertInto(t)
  PROVE  OutcomeInv' /\ Abstract!Step
<1>1. /\ pc[t] = "inserting"
      /\ UNCHANGED <<imm, hasImm, tables, lastSeq, leader, writers, pc, req, opno, done, status, acked>>
  BY Zenon DEF InsertInto, callVars, l0Vars
<1>2. PICK e \in todo : mem' = mem \cup {e} /\ todo' = todo \ {e}
  BY Zenon DEF InsertInto
<1>3. Layers' = Layers \cup {e} /\ Acknowledged' = Acknowledged /\ Active' = Active
  BY Zenon, <1>1, <1>2 DEF Layers, Acknowledged, Active
<1>4. e.seq > lastSeq /\ ~(e.seq <= lastSeq)
  <2>1. lastSeq < e.seq /\ e.seq \in Nat /\ lastSeq \in Nat
    BY Zenon DEF PromiseInv, DataInv, TodoIsNewer, QueueInv, TypeOK, Entry
  <2> QED BY <2>1
<1>5. Visible' = Visible
  BY Zenon, <1>1, <1>3, <1>4 DEF Visible
<1>6. \A u \in Thread : CallEntries(u)' = CallEntries(u)
  BY Zenon, <1>1, <1>5 DEF CallEntries
<1>7. DoneIsTrue'
  BY Zenon, <1>1, <1>6 DEF OutcomeInv, DoneIsTrue
<1>8. GroupIsWhole'
  <2>1. GroupEntries(writers, req, leader.last, opno)' = GroupEntries(writers, req, leader.last, opno)
    BY Zenon, <1>1 DEF GroupEntries
  <2>2. todo \cup {f \in Layers : f.seq > lastSeq} = todo' \cup {f \in Layers' : f.seq > lastSeq'}
    BY Zenon, <1>1, <1>2, <1>3, <1>4
  <2>3. \A u \in Thread : pc[u] \notin {"logging", "failed"}
    <3>1. \A u \in Thread : pc[u] \in FrontPc => u = writers[1]
      BY Zenon DEF QueueInv, FrontOnly
    <3>2. t = writers[1]
      BY Zenon, <1>1, <3>1 DEF FrontPc
    <3> QED BY Zenon, <1>1, <3>1, <3>2 DEF FrontPc
  <2> QED BY Zenon, <1>1, <1>3, <2>1, <2>2, <2>3 DEF OutcomeInv, GroupIsWhole
<1>9. OutcomeInv'
  BY Zenon, <1>1, <1>7, <1>8 DEF OutcomeInv
<1>10. OpenCalls' = OpenCalls
  BY Zenon, <1>1, OpenCallsKept
<1> QED BY Zenon, <1>1, <1>3, <1>5, <1>9, <1>10, AtomicStutters

(* The flush of imm_ moves entries that were readable where they are       *)
(* readable.                                                               *)
LEMMA InstallOutcome ==
  ASSUME QueueInv, OutcomeInv, InstallTable
  PROVE  OutcomeInv' /\ Abstract!Step
<1>1. /\ tables' = tables \cup imm /\ imm' = {}
      /\ UNCHANGED <<mem, todo, lastSeq, leader, writers, pc, req, opno, done, status, acked>>
  BY Zenon DEF InstallTable, bgUnchanged, callVars
<1>2. Layers' = Layers /\ Acknowledged' = Acknowledged /\ Active' = Active
  BY Zenon, <1>1 DEF Layers, Acknowledged, Active
<1>3. OutcomeInv' /\ Visible' = Visible
  BY Zenon, <1>1, <1>2, OutcomeKept
<1>4. OpenCalls' = OpenCalls
  BY Zenon, <1>1, OpenCallsKept
<1> QED BY Zenon, <1>1, <1>2, <1>3, <1>4, AtomicStutters

-----------------------------------------------------------------------------
(***************************************************************************)
(* MakeRoomForWrite starts a group whose batches are whole, or ends a call *)
(* that had no effect.                                                     *)
(***************************************************************************)
LEMMA MakeRoomOutcome ==
  ASSUME GroupsCounted, NEW t \in Thread, NEW q, NEW rq, NEW no, AtFront(t, q, rq, no),
         pc[t] \notin ActivePc, NEW force, NEW delay, QueueInv, DataInv, OutcomeInv,
         MakeRoomForWrite(t, q, rq, no, force, delay),
         \A u \in Thread \ {t} : rq[u] = req[u] /\ no[u] = opno[u],
         req' = rq, opno' = no, UNCHANGED <<lastSeq, tables>>
  PROVE  /\ OutcomeInv' /\ Visible' = Visible /\ acked' = acked
         /\ \E c \in {"delayed", "bgwait", "logging", "idle", "flushing"} :
              pc' = [pc EXCEPT ![t] = c] /\ (c = "flushing" => rq[t].null)
<1>q. TypeOK /\ q \in Seq(Thread) /\ q # <<>> /\ q[1] = t /\ ~done[t] /\ (~hasImm => imm = {})
  BY Zenon DEF QueueInv, AtFront, OutcomeInv
<1>1. ~Active
  BY Zenon DEF Active, ActivePc, FrontPc, AtFront
<1>2. todo = {} /\ (\A e \in Layers : e.seq <= lastSeq)
  BY Zenon, <1>1 DEF DataInv, TodoIsNewer, Newest
<1>3. /\ UNCHANGED <<mem, imm, hasImm>> \/ (SwitchMemTable /\ ~hasImm)
      /\ \/ \E where \in {"delayed", "bgwait"} :
              /\ pc' = [pc EXCEPT ![t] = where]
              /\ UNCHANGED <<todo, done, status, acked>>
         \/ StartGroup(t, q, rq, no)
         \/ PopGroup(t, q, rq, no, 1, "error")
  BY Zenon DEF MakeRoomForWrite, Suspend, memVars, MustWait
<1>4. Layers' = Layers /\ (~hasImm' => imm' = {})
  <2>1. CASE UNCHANGED <<mem, imm, hasImm>>
    BY Zenon, <1>q, <2>1 DEF Layers
  <2>2. CASE SwitchMemTable /\ ~hasImm
    <3>1. imm = {} /\ imm' = mem /\ mem' = {} /\ hasImm'
      BY Zenon, <1>q, <2>2 DEF SwitchMemTable
    <3> QED BY Zenon, <3>1 DEF Layers
  <2> QED BY Zenon, <1>3, <2>1, <2>2
<1>5. Visible' = Visible /\ \A u \in Thread \ {t} : CallEntries(u)' = CallEntries(u)
  BY Zenon, <1>4 DEF Visible, CallEntries
<1>6. ASSUME UNCHANGED <<done, status>> PROVE DoneIsTrue'
  BY Zenon, <1>q, <1>5, <1>6 DEF OutcomeInv, DoneIsTrue
<1>7. ASSUME NEW c \in {"delayed", "bgwait", "idle", "flushing"}, pc' = [pc EXCEPT ![t] = c],
             UNCHANGED <<done, status>>
      PROVE  OutcomeInv'
  <2>1. \A u \in Thread : pc'[u] \notin ActivePc
    BY Zenon, <1>q, <1>1, <1>7 DEF TypeOK, Active, ActivePc
  <2>2. GroupIsWhole'
    BY Zenon, <2>1 DEF GroupIsWhole, Active, ActivePc
  <2> QED BY Zenon, <1>4, <1>6, <1>7, <2>2 DEF OutcomeInv
<1>8. CASE \E where \in {"delayed", "bgwait"} :
              /\ pc' = [pc EXCEPT ![t] = where]
              /\ UNCHANGED <<todo, done, status, acked>>
  BY Zenon, <1>5, <1>7, <1>8
<1>9. ASSUME NEW s \in {"ok", "error"}, PopGroup(t, q, rq, no, 1, s), s = "ok" => rq[t].null
      PROVE  /\ OutcomeInv' /\ acked' = acked
             /\ \E c \in {"idle", "flushing"} :
                  pc' = [pc EXCEPT ![t] = c] /\ (c = "flushing" => rq[t].null)
  <2>1. Members(q, 1) \ {t} = {}
    BY <1>q DEF Members
  <2>2. /\ done' = [u \in Thread |-> done[u] \/ u \in (Members(q, 1) \ {t})]
        /\ status' = [u \in Thread |-> IF u \in (Members(q, 1) \ {t}) THEN s ELSE status[u]]
        /\ pc' = [pc EXCEPT ![t] = AfterWrite(t, s, rq)] /\ acked' = Ack(t, s, rq, no)
    BY Zenon, <1>9 DEF PopGroup
  <2>3. UNCHANGED <<done, status>>
    BY SMT, <1>q, <2>1, <2>2 DEF TypeOK
  <2>4. acked' = acked
    BY Zenon, <1>9, <2>2 DEF Ack
  <2>5. AfterWrite(t, s, rq) \in {"idle", "flushing"} /\ (AfterWrite(t, s, rq) = "flushing" => rq[t].null)
    BY Zenon DEF AfterWrite
  <2> QED BY Zenon, <1>7, <2>2, <2>3, <2>4, <2>5
<1>10. CASE PopGroup(t, q, rq, no, 1, "error")
  BY Zenon, <1>5, <1>9, <1>10
<1>11. CASE StartGroup(t, q, rq, no) /\ rq[t].null
  <2>1. PopGroup(t, q, rq, no, 1, "ok")
    BY Zenon, <1>11 DEF StartGroup
  <2> QED BY Zenon, <1>5, <1>9, <1>11, <2>1
<1>12. CASE StartGroup(t, q, rq, no) /\ ~rq[t].null
  <2> DEFINE k == LastWriter(q, rq)
  <2>1. /\ writers' = q /\ todo' = GroupEntries(q, rq, k, no)
        /\ leader'.last = k
        /\ leader'.seq = lastSeq + Cardinality(Updates(q, rq, k))
        /\ pc' = [pc EXCEPT ![t] = "logging"]
    <3>1. ~rq[t].null /\ StartGroup(t, q, rq, no)
      BY Zenon, <1>12
    <3> QED BY SMT, <1>q, <3>1, StartedGroup
  <2>2. UNCHANGED <<done, status, acked>>
    BY Zenon, <1>12 DEF StartGroup
  <2> HIDE DEF k
  <2>3. GroupEntries(writers, req, leader.last, opno)' = todo'
    BY Zenon, <2>1 DEF GroupEntries
  <2>4. Updates(writers, req, leader.last)' = Updates(q, rq, k)
    BY Zenon, <2>1 DEF Updates
  <2>5. (\A e \in Layers' : e.seq <= lastSeq') /\ {e \in Layers' : e.seq > lastSeq'} = {}
    <3>1. \A e \in Layers' : e.seq <= lastSeq' /\ e.seq \in Nat /\ lastSeq' \in Nat
      BY Zenon, <1>q, <1>2, <1>4 DEF TypeOK, Layers, Entry
    <3> QED BY <3>1
  <2>6. GroupIsWhole'
    <3>1. ~req'[writers'[1]].null
      BY Zenon, <1>q, <1>12, <2>1
    <3>2. leader'.seq = lastSeq' + Cardinality(Updates(writers, req, leader.last)')
      BY Zenon, <2>1, <2>4
    <3>3. GroupEntries(writers, req, leader.last, opno)' = todo' \cup {e \in Layers' : e.seq > lastSeq'}
      BY Zenon, <2>3, <2>5
    <3> QED BY Zenon, <2>5, <3>1, <3>2, <3>3 DEF GroupIsWhole
  <2>7. OutcomeInv'
    BY Zenon, <1>4, <1>6, <2>2, <2>6 DEF OutcomeInv
  <2> QED BY Zenon, <1>5, <2>1, <2>2, <2>7
<1> QED BY Zenon, <1>3, <1>8, <1>10, <1>11, <1>12

(* A call at the front of the queue has no visible entry.                  *)
LEMMA QueuedIsInvisible ==
  ASSUME QueueInv, PromiseInv, NEW i \in 1 .. Len(writers)
  PROVE  CallEntries(writers[i]) = {}
<1>1. <<writers[i], opno[writers[i]]>> \in QueueOps
  BY Zenon DEF QueueOps
<1> QED BY Zenon, <1>1 DEF CallEntries, Visible, PromiseInv, BatchInv, GroupIsInvisible

(* Resume, and Wake at the front: the call goes on, or returns an error    *)
(* without having had an effect.                                           *)
LEMMA FrontOutcome ==
  ASSUME GroupsCounted, QueueInv, PromiseInv, OutcomeInv, NEW t \in Thread,
         AtFront(t, writers, req, opno), pc[t] \in {"queued", "delayed", "bgwait"},
         NEW force, NEW delay, MakeRoomForWrite(t, writers, req, opno, force, delay),
         UNCHANGED <<req, opno, lastSeq, tables>>
  PROVE  OutcomeInv' /\ Abstract!Step
<1>1. pc[t] \notin ActivePc /\ pc[t] \notin OutsidePc
  BY Zenon DEF ActivePc, OutsidePc
<1>2. /\ OutcomeInv' /\ Visible' = Visible /\ acked' = acked
      /\ \E c \in {"delayed", "bgwait", "logging", "idle", "flushing"} :
           pc' = [pc EXCEPT ![t] = c] /\ (c = "flushing" => req[t].null)
  BY Zenon, <1>1, MakeRoomOutcome DEF PromiseInv
<1>3. PICK c \in {"delayed", "bgwait", "logging", "idle", "flushing"} :
        pc' = [pc EXCEPT ![t] = c] /\ (c = "flushing" => req[t].null)
  BY Zenon, <1>2
<1>4. Acknowledged' = Acknowledged
  BY Zenon, <1>2 DEF Acknowledged
<1>5. \A u \in Thread : pc'[u] = IF u = t THEN c ELSE pc[u]
  BY Zenon, <1>3 DEF QueueInv, TypeOK
<1>6. CASE c # "idle" \/ req[t].null
  <2>1. {pc[t], c} \cap OutsidePc = {} \/ req[t].null
    BY Zenon, <1>1, <1>3, <1>6 DEF OutsidePc
  <2>2. OpenCalls' = OpenCalls
    BY Zenon, <1>5, <2>1, OpenCallsKept
  <2> QED BY Zenon, <1>2, <1>4, <2>2, AtomicStutters
<1>7. CASE c = "idle" /\ ~req[t].null
  <2>1. OpenCalls[t] = CallOf(t) /\ OpenCalls[t] # NoOpenCall
    BY Zenon, <1>1, <1>7, OpenIsOpen DEF QueueInv
  <2>2. OpenCalls' = [OpenCalls EXCEPT ![t] = NoOpenCall]
    BY Zenon, <1>5, <1>7 DEF OpenCalls, NoOpenCall
  <2>3. CallEntries(t) = {}
    <3>1. t = writers[1] /\ 1 \in 1 .. Len(writers)
      BY EmptySeq, LenProperties DEF AtFront
    <3> QED BY Zenon, <3>1, QueuedIsInvisible
  <2>4. lastSeq' >= lastSeq
    BY DEF QueueInv, TypeOK
  <2>5. OpenCalls[t].no = opno[t]
    BY SMT, <2>1 DEF CallOf
  <2> QED BY Zenon, <1>2, <1>4, <2>1, <2>2, <2>3, <2>4, <2>5, AtomicError
<1> QED BY Zenon, <1>6, <1>7

LEMMA WakeOutcome ==
  ASSUME GroupsCounted, QueueInv, PromiseInv, OutcomeInv, NEW t \in Thread, Wake(t) \/ Resume(t)
  PROVE  OutcomeInv' /\ Abstract!Step
<1>q. TypeOK /\ FrontOnly /\ CallsOpen
  BY Zenon DEF QueueInv
<1>1. UNCHANGED <<req, opno, lastSeq, tables>>
  BY Zenon DEF Wake, Resume, callVars, l0Vars
<1>2. CASE Resume(t)
  <2>1. /\ pc[t] \in {"delayed", "bgwait"}
        /\ MakeRoomForWrite(t, writers, req, opno, leader.force, leader.delay)
    BY Zenon, <1>2 DEF Resume
  <2>2. AtFront(t, writers, req, opno)
    BY Zenon, <2>1, FrontPcAtFront DEF FrontPc
  <2> QED BY Zenon, <1>1, <2>1, <2>2, FrontOutcome
<1>3. CASE Wake(t) /\ ~done[t] /\ t = writers[1]
  <2>1. /\ pc[t] = "queued"
        /\ MakeRoomForWrite(t, writers, req, opno, req[t].null, ~req[t].null)
    BY Zenon, <1>3 DEF Wake
  <2>2. writers # <<>>
    <3>1. \E i \in 1 .. Len(writers) : writers[i] = t
      BY Zenon, <1>q, <1>3, <2>1 DEF FrontOnly
    <3> QED BY <1>q, <3>1, EmptySeq DEF TypeOK
  <2>3. AtFront(t, writers, req, opno)
    BY Zenon, <1>3, <2>1, <2>2, FrontIsAtFront
  <2> QED BY Zenon, <1>1, <2>1, <2>3, FrontOutcome
<1>4. CASE Wake(t) /\ ~done[t] /\ t # writers[1]
  <2>1. UNCHANGED <<mem, imm, hasImm, tables, todo, lastSeq, leader, writers, req, opno, done, status, acked, pc>>
    BY Zenon, <1>1, <1>4 DEF Wake, memVars
  <2> QED BY Zenon, <2>1, QuietOutcome
<1>5. CASE Wake(t) /\ done[t]
  <2> DEFINE s == status[t]
  <2>1. /\ pc[t] = "queued" /\ pc' = [pc EXCEPT ![t] = AfterWrite(t, s, req)]
        /\ acked' = Ack(t, s, req, opno) /\ done' = [done EXCEPT ![t] = FALSE]
        /\ UNCHANGED <<mem, imm, hasImm, todo, leader, writers, status>>
    BY Zenon, <1>5 DEF Wake, memVars
  <2>2. Layers' = Layers /\ Visible' = Visible
    BY Zenon, <1>1, <2>1 DEF Layers, Visible
  <2>3. \A u \in Thread : pc'[u] = IF u = t THEN AfterWrite(t, s, req) ELSE pc[u]
    BY Zenon, <1>q, <2>1 DEF TypeOK
  <2>4. AfterWrite(t, s, req) \in {"idle", "flushing"} /\ (AfterWrite(t, s, req) = "flushing" => req[t].null)
    BY Zenon DEF AfterWrite
  <2>5. OutcomeInv'
    <3>1. \A u \in Thread : CallEntries(u)' = CallEntries(u)
      BY Zenon, <1>1, <2>2 DEF CallEntries
    <3>2. \A u \in Thread : done'[u] => done[u]
      BY Zenon, <1>q, <2>1 DEF TypeOK
    <3>3. DoneIsTrue'
      BY Zenon, <1>1, <2>1, <3>1, <3>2 DEF DoneIsTrue, OutcomeInv
    <3>4. \A u \in Thread : /\ pc'[u] \in ActivePc <=> pc[u] \in ActivePc
                            /\ pc'[u] \in {"logging", "failed"} => pc[u] \in {"logging", "failed"}
      BY Zenon, <2>1, <2>3, <2>4 DEF ActivePc
    <3>5. GroupEntries(writers, req, leader.last, opno)' = GroupEntries(writers, req, leader.last, opno)
      BY Zenon, <1>1, <2>1 DEF GroupEntries
    <3>6. GroupIsWhole'
      BY Zenon, <1>1, <2>1, <2>2, <3>4, <3>5 DEF GroupIsWhole, OutcomeInv, Active
    <3> QED BY Zenon, <2>1, <3>3, <3>6 DEF OutcomeInv
  <2>6. CASE req[t].null
    <3>1. Acknowledged' = Acknowledged
      BY Zenon, <2>1, <2>6 DEF Acknowledged, Ack
    <3>2. OpenCalls' = OpenCalls
      BY Zenon, <1>1, <2>3, <2>6, OpenCallsKept
    <3> QED BY Zenon, <1>1, <2>2, <2>5, <3>1, <3>2, AtomicStutters
  <2>7. CASE ~req[t].null
    <3>0. AfterWrite(t, s, req) = "idle" /\ pc[t] \notin OutsidePc
      BY Zenon, <2>1, <2>4, <2>7 DEF OutsidePc
    <3>1. OpenCalls[t] = CallOf(t) /\ OpenCalls[t] # NoOpenCall
      BY Zenon, <1>q, <2>7, <3>0, OpenIsOpen
    <3>2. OpenCalls' = [OpenCalls EXCEPT ![t] = NoOpenCall]
      BY Zenon, <1>1, <2>3, <3>0 DEF OpenCalls, NoOpenCall
    <3>3. IF s = "ok" THEN Cardinality(CallEntries(t)) = req[t].n ELSE CallEntries(t) = {}
      BY Zenon, <1>5, <2>7 DEF OutcomeInv, DoneIsTrue
    <3>4. CASE s = "ok"
      <4>4. Acknowledged' = Acknowledged \cup {[op |-> <<t, opno[t]>>, n |-> req[t].n]}
        BY Zenon, <2>1, <2>7, <3>4, AckedCall
      <4> QED BY Zenon, <1>1, <2>2, <2>5, <3>1, <3>2, <3>3, <3>4, <4>4, AtomicOK
    <3>5. CASE s # "ok"
      <4>1. Acknowledged' = Acknowledged
        BY Zenon, <2>1, <3>5 DEF Acknowledged, Ack
      <4>2. lastSeq' >= lastSeq
        BY <1>q, <1>1 DEF TypeOK
      <4>3. OpenCalls[t].no = opno[t]
        BY SMT, <3>1 DEF CallOf
      <4> QED BY Zenon, <2>2, <2>5, <3>1, <3>2, <3>3, <3>5, <4>1, <4>2, <4>3, AtomicError
    <3> QED BY Zenon, <3>4, <3>5
  <2> QED BY Zenon, <2>6, <2>7
<1> QED BY Zenon, <1>2, <1>3, <1>4, <1>5

(* A thread that enters Write opens a call, unless its batch is null or    *)
(* its call ends with an error in the same step.                           *)
LEMMA CallOpens ==
  ASSUME QueueInv, PromiseInv, NEW t \in Thread, NEW r \in Request,
         pc[t] = "idle", opno[t] < MaxOps,
         req' = [req EXCEPT ![t] = r], opno' = [opno EXCEPT ![t] = @ + 1],
         NEW c \in {"queued", "delayed", "bgwait", "logging", "idle", "flushing"},
         pc' = [pc EXCEPT ![t] = c], c = "flushing" => r.null,
         UNCHANGED <<Visible, lastSeq, acked>>
  PROVE  Abstract!Step
<1>q. TypeOK
  BY Zenon DEF QueueInv
<1>1. Acknowledged' = Acknowledged
  BY Zenon DEF Acknowledged
<1>2. \A u \in Thread : /\ req'[u] = IF u = t THEN r ELSE req[u]
                        /\ opno'[u] = IF u = t THEN opno[t] + 1 ELSE opno[u]
                        /\ pc'[u] = IF u = t THEN c ELSE pc[u]
  BY Zenon, <1>q DEF TypeOK
<1>3. OpenCalls[t] = NoOpenCall
  BY Zenon, OpenCallsOf DEF OutsidePc
<1>4. CASE c = "idle" \/ r.null
  <2>1. OpenCalls' = OpenCalls
    <3>1. \A u \in Thread : (IF pc'[u] \in OutsidePc \/ req'[u].null THEN NoOpenCall ELSE [no |-> opno'[u], n |-> req'[u].n])
                            = (IF pc[u] \in OutsidePc \/ req[u].null THEN NoOpenCall ELSE [no |-> opno[u], n |-> req[u].n])
      <4> TAKE u \in Thread
      <4>1. CASE u # t
        <5>1. req'[u] = req[u] /\ opno'[u] = opno[u] /\ pc'[u] = pc[u]
          BY Zenon, <1>2, <4>1
        <5> QED BY Zenon, <5>1
      <4>2. CASE u = t
        <5>1. pc'[u] \in OutsidePc \/ req'[u].null
          BY Zenon, <1>2, <1>4, <4>2 DEF OutsidePc
        <5>2. pc[u] \in OutsidePc
          BY Zenon, <4>2 DEF OutsidePc
        <5> QED BY Zenon, <5>1, <5>2
      <4> QED BY Zenon, <4>1, <4>2
    <3> QED BY Zenon, <3>1 DEF OpenCalls, OutsidePc, NoOpenCall
  <2> QED BY Zenon, <1>1, <2>1, AtomicStutters
<1>5. CASE c # "idle" /\ ~r.null
  <2> DEFINE k == opno[t] + 1
  <2>1. c \notin OutsidePc
    BY Zenon, <1>5 DEF OutsidePc
  <2>2. OpenCalls' = [OpenCalls EXCEPT ![t] = [no |-> k, n |-> r.n]]
    BY Zenon, <1>2, <1>5, <2>1 DEF OpenCalls, OutsidePc
  <2>3. k \in 1 .. MaxOps /\ r.n \in 0 .. MaxCount
    BY <1>q, BoundAssumption, RequestAssumption DEF TypeOK
  <2>4. \A e \in Visible : e.op[1] = t => e.op[2] < k
    <3>1. \A e \in Visible : e \in Layers /\ e \in Entry /\ e.op[2] <= opno[e.op[1]]
      BY Zenon, <1>q DEF Visible, PromiseInv, BatchInv, GroupIsInvisible, TypeOK, Layers
    <3>2. \A e \in Visible : e.op[1] = t => e.op[2] <= opno[t] /\ e.op[2] \in Nat
      BY SMT, <3>1 DEF Entry, Op
    <3>3. opno[t] \in Nat
      BY <1>q DEF TypeOK
    <3> QED BY <3>2, <3>3
  <2> HIDE DEF k
  <2> QED BY Zenon, <1>1, <1>3, <2>2, <2>3, <2>4, AtomicCall
<1> QED BY Zenon, <1>4, <1>5

(* The group does not notice who joins the queue behind it.                *)
LEMMA JoinKeepsGroup ==
  ASSUME QueueInv, NEW t \in Thread, NEW r, pc[t] = "idle", NEW k \in 1 .. Len(writers), leader.last = k,
         writers' = Append(writers, t), UNCHANGED <<leader, lastSeq>>,
         req' = [req EXCEPT ![t] = r], opno' = [opno EXCEPT ![t] = @ + 1]
  PROVE  /\ writers'[1] = writers[1] /\ req'[writers[1]] = req[writers[1]]
         /\ Updates(writers, req, leader.last)' = Updates(writers, req, leader.last)
         /\ GroupEntries(writers, req, leader.last, opno)' = GroupEntries(writers, req, leader.last, opno)
<1>q. TypeOK /\ FrontOnly
  BY Zenon DEF QueueInv
<1>1. Len(writers) \in Nat /\ k \in Nat /\ 1 \in 1 .. k /\ \A i \in 1 .. k : i \in 1 .. Len(writers)
  BY <1>q, LenProperties DEF TypeOK
<1>2. \A i \in 1 .. k : writers[i] \in Thread /\ writers[i] # t /\ writers'[i] = writers[i]
  <2>1. \A i \in 1 .. Len(writers) : writers[i] # t
    BY Zenon, <1>q DEF FrontOnly, FrontPc
  <2>2. \A i \in 1 .. Len(writers) : writers[i] \in Thread /\ writers'[i] = writers[i]
    <3>1. writers \in Seq(Thread)
      BY Zenon, <1>q DEF TypeOK
    <3>2. \A i \in 1 .. Len(writers) : Append(writers, t)[i] = writers[i]
      BY Zenon, <3>1, AppendFacts
    <3>3. \A i \in 1 .. Len(writers) : writers[i] \in Thread
      BY Zenon, <3>1, ElementOfSeq
    <3> QED BY Zenon, <3>2, <3>3
  <2> QED BY Zenon, <1>1, <2>1, <2>2
<1>3. \A i \in 1 .. k : /\ writers'[i] = writers[i]
                        /\ req'[writers[i]] = req[writers[i]] /\ opno'[writers[i]] = opno[writers[i]]
  BY Zenon, <1>q, <1>2 DEF TypeOK
<1>4. \A u \in (1 .. k) \X (1 .. MaxCount) : u[1] \in 1 .. k
  BY Zenon
<1>5. leader'.last = k
  BY Zenon
<1>6. Updates(writers, req, leader.last)' = Updates(writers, req, leader.last)
  <2> DEFINE D == (1 .. k) \X (1 .. MaxCount)
             P(u) == ~req[writers[u[1]]].null /\ u[2] <= req[writers[u[1]]].n
             P2(u) == ~req'[writers'[u[1]]].null /\ u[2] <= req'[writers'[u[1]]].n
  <2>1. \A u \in D : P2(u) <=> P(u)
    BY Zenon, <1>3, <1>4
  <2>2. /\ Updates(writers, req, leader.last) = {u \in D : P(u)}
        /\ Updates(writers, req, leader.last)' = {u \in D : P2(u)}
    BY Zenon, <1>5 DEF Updates
  <2> HIDE DEF D, P, P2
  <2>3. {u \in D : P2(u)} = {u \in D : P(u)}
    BY Zenon, <2>1
  <2> QED BY Zenon, <2>2, <2>3
<1>7. \A u : Rank(writers, req, leader.last, u)' = Rank(writers, req, leader.last, u)
  BY Zenon, <1>6 DEF Rank
<1>8. GroupEntries(writers, req, leader.last, opno)' = GroupEntries(writers, req, leader.last, opno)
  <2> DEFINE U == Updates(writers, req, leader.last)
             Of(u) == [seq |-> lastSeq + Rank(writers, req, leader.last, u),
                       op |-> <<writers[u[1]], opno[writers[u[1]]]>>]
             Of2(u) == [seq |-> lastSeq + Rank(writers, req, leader.last, u),
                        op |-> <<writers'[u[1]], opno'[writers'[u[1]]]>>]
  <2>1. \A u \in U : u[1] \in 1 .. k
    BY Zenon, <1>4 DEF Updates
  <2>2. \A u \in U : Of2(u) = Of(u)
    BY Zenon, <1>3, <2>1
  <2>3. GroupEntries(writers, req, leader.last, opno) = {Of(u) : u \in U}
    BY Zenon DEF GroupEntries
  <2>4. GroupEntries(writers, req, leader.last, opno)' = {Of2(u) : u \in U}
    BY Zenon, <1>6, <1>7 DEF GroupEntries
  <2> HIDE DEF U, Of, Of2
  <2>5. {Of2(u) : u \in U} = {Of(u) : u \in U}
    BY Zenon, <2>2
  <2> QED BY Zenon, <2>3, <2>4, <2>5
<1> QED BY Zenon, <1>1, <1>3, <1>6, <1>8

LEMMA WriteOutcome ==
  ASSUME GroupsCounted, QueueInv, PromiseInv, OutcomeInv, NEW t \in Thread, NEW r \in Request, Write(t, r)
  PROVE  OutcomeInv' /\ Abstract!Step
<1> DEFINE q == Append(writers, t)
           rq == [req EXCEPT ![t] = r]
           no == [opno EXCEPT ![t] = @ + 1]
<1>q. TypeOK /\ FrontOnly /\ CallsOpen /\ GroupInQueue
  BY Zenon DEF QueueInv
<1>1. /\ closing = "open" /\ pc[t] = "idle" /\ opno[t] < MaxOps
      /\ req' = rq /\ opno' = no /\ UNCHANGED <<lastSeq, tables>>
  BY Zenon DEF Write, l0Vars
<1>2. \A u \in Thread \ {t} : rq[u] = req[u] /\ no[u] = opno[u]
  BY Zenon, <1>q DEF TypeOK
<1>3. CASE writers = <<>>
  <2>1. MakeRoomForWrite(t, q, rq, no, r.null, ~r.null)
    BY Zenon, <1>3 DEF Write
  <2>2. AtFront(t, q, rq, no)
    BY Zenon, <1>1, <1>3, JoinEmptyQueue
  <2>3. pc[t] \notin ActivePc /\ rq[t] = r
    BY Zenon, <1>q, <1>1 DEF ActivePc, TypeOK
  <2> HIDE DEF q, rq, no
  <2>4. /\ OutcomeInv' /\ Visible' = Visible /\ acked' = acked
        /\ \E c \in {"delayed", "bgwait", "logging", "idle", "flushing"} :
             pc' = [pc EXCEPT ![t] = c] /\ (c = "flushing" => rq[t].null)
    <3>1. DataInv
      BY Zenon DEF PromiseInv
    <3> QED BY SMTT(30), <1>1, <1>2, <2>1, <2>2, <2>3, <3>1, MakeRoomOutcome
  <2>5. PICK c \in {"delayed", "bgwait", "logging", "idle", "flushing"} :
          pc' = [pc EXCEPT ![t] = c] /\ (c = "flushing" => r.null)
    BY Zenon, <2>3, <2>4
  <2> USE DEF q, rq, no
  <2> QED BY Zenon, <1>1, <2>4, <2>5, CallOpens
<1>4. CASE writers # <<>>
  <2>1. /\ writers' = q /\ pc' = [pc EXCEPT ![t] = "queued"]
        /\ UNCHANGED <<done, status, leader, todo, acked, mem, imm, hasImm>>
    BY Zenon, <1>4 DEF Write, memVars
  <2>2. Layers' = Layers /\ Visible' = Visible
    BY Zenon, <1>1, <2>1 DEF Layers, Visible
  <2>3. Abstract!Step
    BY Zenon, <1>1, <2>1, <2>2, CallOpens
  <2>4. DoneIsTrue'
    <3>1. ~done[t]
      BY Zenon, <1>q, <1>1 DEF CallsOpen
    <3>2. \A u \in Thread \ {t} : CallEntries(u)' = CallEntries(u)
      BY Zenon, <1>1, <1>2, <2>2 DEF CallEntries
    <3>3. \A u \in Thread \ {t} : req'[u] = req[u] /\ done'[u] = done[u] /\ status'[u] = status[u]
      BY Zenon, <1>1, <1>2, <2>1
    <3>4. ~done'[t]
      BY Zenon, <2>1, <3>1
    <3> QED BY Zenon, <3>2, <3>3, <3>4 DEF DoneIsTrue, OutcomeInv
  <2>5. \A u \in Thread : IF u = t THEN pc'[u] = "queued" ELSE pc'[u] = pc[u]
    BY Zenon, <1>q, <2>1 DEF TypeOK
  <2>6. GroupIsWhole'
    <3>1. Active' => Active
      BY Zenon, <2>5 DEF Active, ActivePc
    <3>2. ASSUME Active
          PROVE  /\ writers'[1] = writers[1] /\ req'[writers[1]] = req[writers[1]]
                 /\ Updates(writers, req, leader.last)' = Updates(writers, req, leader.last)
                 /\ GroupEntries(writers, req, leader.last, opno)' = GroupEntries(writers, req, leader.last, opno)
      <4>1. leader.last \in 1 .. Len(writers)
        BY Zenon, <1>q, <3>2 DEF GroupInQueue
      <4> QED BY Zenon, <1>1, <2>1, <4>1, JoinKeepsGroup
    <3>3. \A u \in Thread : pc'[u] \in {"logging", "failed"} => pc[u] \in {"logging", "failed"}
      BY Zenon, <2>5
    <3> QED BY Zenon, <1>1, <2>1, <2>2, <3>1, <3>2, <3>3 DEF GroupIsWhole, OutcomeInv
  <2>7. OutcomeInv'
    BY Zenon, <2>1, <2>4, <2>6 DEF OutcomeInv
  <2> QED BY Zenon, <2>3, <2>7
<1> QED BY Zenon, <1>3, <1>4

(* Writers of the queue are in a call and none of their updates is visible. *)
LEMMA MembersAreOpen ==
  ASSUME QueueInv, PromiseInv, NEW u \in Thread,
         \E i \in 1 .. Len(writers) : writers[i] = u
  PROVE  /\ CallEntries(u) = {} /\ ~done[u]
         /\ ~req[u].null => OpenCalls[u] = CallOf(u) /\ OpenCalls[u] # NoOpenCall
<1>1. pc[u] \in FrontPc \/ (pc[u] = "queued" /\ ~done[u])
  BY Zenon DEF QueueInv, FrontOnly
<1>2. pc[u] \notin OutsidePc /\ (pc[u] \in FrontPc => pc[u] # "queued")
  BY Zenon, <1>1 DEF OutsidePc, FrontPc
<1>3. ~done[u]
  BY Zenon, <1>1, <1>2 DEF QueueInv, CallsOpen
<1>4. CallEntries(u) = {}
  BY Zenon, QueuedIsInvisible
<1>5. ~req[u].null => OpenCalls[u] = CallOf(u) /\ OpenCalls[u] # NoOpenCall
  BY Zenon, <1>2, OpenIsOpen DEF QueueInv
<1> QED BY Zenon, <1>3, <1>4, <1>5

(* The leader publishes the group in one step, or tells its members of the *)
(* error without having shown any of it.                                   *)
LEMMA EndWriteOutcome ==
  ASSUME QueueInv, PromiseInv, OutcomeInv, NEW t \in Thread, EndWrite(t)
  PROVE  OutcomeInv' /\ Abstract!Step
<1>q. TypeOK /\ FrontOnly /\ CallsOpen /\ GroupInQueue
  BY Zenon DEF QueueInv
<1> DEFINE k == leader.last
           s == IF pc[t] = "failed" THEN "error" ELSE "ok"
           others == Members(writers, k) \ {t}
           E == GroupEntries(writers, req, k, opno)
           n == Cardinality(Updates(writers, req, k))
<1>1. /\ pc[t] \in ActivePc /\ pc[t] \in FrontPc /\ pc[t] \notin OutsidePc
      /\ s = "ok" => pc[t] = "inserting" /\ todo = {}
      /\ s # "ok" => pc[t] = "failed" /\ s = "error"
      /\ lastSeq' = leader.seq
      /\ PopGroup(t, writers, req, opno, k, s)
      /\ UNCHANGED <<req, opno, leader, mem, imm, hasImm, tables>>
  BY Zenon DEF EndWrite, ActivePc, FrontPc, OutsidePc, callVars, memVars, l0Vars
<1>2. Active /\ AtFront(t, writers, req, opno)
  BY Zenon, <1>1, FrontPcAtFront DEF Active
<1>3. k \in 1 .. Len(writers) /\ k \in Nat /\ Len(writers) \in Nat
  BY <1>q, <1>2, LenProperties DEF GroupInQueue, TypeOK
<1>4. writers[1] = t /\ 1 \in 1 .. k /\ \A i \in 1 .. k : i \in 1 .. Len(writers)
  BY <1>2, <1>3 DEF AtFront
<1>5. \A i \in 1 .. k : writers[i] \in Thread
  BY Zenon, <1>q, <1>4, ElementOfSeq DEF TypeOK
<1>6. \A i, j \in 1 .. k : writers[i] = writers[j] => i = j
  BY Zenon, <1>q, <1>4 DEF FrontOnly
<1>7. /\ ~req[t].null /\ leader.seq = lastSeq + n
      /\ E = todo \cup {e \in Layers : e.seq > lastSeq}
  BY Zenon, <1>2, <1>4 DEF OutcomeInv, GroupIsWhole
<1>8. \A u \in Members(writers, k) :
        /\ u \in Thread /\ CallEntries(u) = {} /\ ~done[u]
        /\ ~req[u].null => OpenCalls[u] = CallOf(u) /\ OpenCalls[u] # NoOpenCall
  BY Zenon, <1>4, <1>5, MembersAreOpen DEF Members
<1>9. t \in Members(writers, k)
  BY Zenon, <1>4 DEF Members
<1>10. /\ done' = [u \in Thread |-> done[u] \/ u \in others]
       /\ status' = [u \in Thread |-> IF u \in others THEN s ELSE status[u]]
       /\ pc' = [pc EXCEPT ![t] = AfterWrite(t, s, req)] /\ AfterWrite(t, s, req) = "idle"
       /\ acked' = Ack(t, s, req, opno)
  BY Zenon, <1>1, <1>7 DEF PopGroup, AfterWrite
<1>11. \A u \in Thread : pc'[u] = IF u = t THEN "idle" ELSE pc[u]
  BY Zenon, <1>q, <1>10 DEF TypeOK
<1>12. OpenCalls' = [OpenCalls EXCEPT ![t] = NoOpenCall]
  BY Zenon, <1>1, <1>11 DEF OpenCalls, NoOpenCall
<1>13. \A u \in Thread : pc'[u] \notin ActivePc
  BY Zenon, <1>2, <1>11 DEF AtFront, ActivePc, FrontPc
<1>14. GroupIsWhole' /\ (~hasImm' => imm' = {})
  BY Zenon, <1>1, <1>13 DEF GroupIsWhole, OutcomeInv, Active, ActivePc
<1>15. Layers' = Layers
  BY Zenon, <1>1 DEF Layers
<1>16. n \in Nat /\ lastSeq \in Nat /\ \A e \in Layers : e.seq \in Nat /\ e.seq <= leader.seq
  <2>1. n \in Nat
    BY Zenon, <1>3, FiniteUpdates
  <2>2. lastSeq \in Nat /\ \A e \in Layers : e.seq \in Nat
    BY Zenon, <1>q DEF TypeOK, Layers, Entry
  <2>3. \A e \in Layers : e.seq <= leader.seq
    BY Zenon, <1>2 DEF PromiseInv, DataInv, TodoIsNewer, Newest
  <2> QED BY Zenon, <2>1, <2>2, <2>3
<1>17. Visible' = Layers
  BY Zenon, <1>1, <1>15, <1>16 DEF Visible
<1>18. ASSUME \A u \in others : ~req[u].null =>
                IF s = "ok" THEN Cardinality(CallEntries(u)') = req[u].n ELSE CallEntries(u)' = {},
              \A u \in Thread \ Members(writers, k) : CallEntries(u)' = CallEntries(u)
       PROVE  DoneIsTrue'
  <2> SUFFICES ASSUME NEW u \in Thread, done'[u], ~req[u].null
               PROVE  IF status'[u] = "ok" THEN Cardinality(CallEntries(u)') = req[u].n ELSE CallEntries(u)' = {}
    BY Zenon, <1>1 DEF DoneIsTrue
  <2>1. CASE u \in others
    BY Zenon, <1>10, <1>18, <2>1
  <2>2. CASE u \notin others
    <3>1. done[u] /\ status'[u] = status[u]
      BY Zenon, <1>10, <2>2
    <3>2. u \notin Members(writers, k)
      BY Zenon, <1>8, <3>1
    <3>3. CallEntries(u)' = CallEntries(u)
      BY Zenon, <1>18, <3>2
    <3> QED BY Zenon, <3>1, <3>3 DEF OutcomeInv, DoneIsTrue
  <2> QED BY Zenon, <2>1, <2>2
<1>19. CASE s # "ok"
  <2>1. \A e \in Layers : e.seq <= lastSeq
    BY Zenon, <1>1, <1>19 DEF OutcomeInv, GroupIsWhole
  <2>2. Visible' = Visible
    BY Zenon, <1>17, <2>1 DEF Visible
  <2>3. \A u \in Thread : CallEntries(u)' = CallEntries(u)
    BY Zenon, <1>1, <2>2 DEF CallEntries, BatchOf
  <2>4. DoneIsTrue'
    BY Zenon, <1>8, <1>18, <1>19, <2>3
  <2>5. Acknowledged' = Acknowledged
    BY Zenon, <1>10, <1>19 DEF Acknowledged, Ack
  <2>6. lastSeq' >= lastSeq
    BY <1>1, <1>7, <1>16
  <2>7. OpenCalls[t].no = opno[t]
    <3>1. OpenCalls[t] = CallOf(t)
      BY Zenon, <1>7, <1>8, <1>9
    <3> QED BY SMT, <3>1 DEF CallOf
  <2>8. Abstract!Step
    BY Zenon, <1>7, <1>8, <1>9, <1>12, <2>2, <2>5, <2>6, <2>7, AtomicError
  <2> QED BY Zenon, <1>14, <2>4, <2>8 DEF OutcomeInv
<1>20. CASE s = "ok"
  <2> DEFINE G == {u \in Members(writers, k) : ~req[u].null}
  <2>1. E = {e \in Layers : e.seq > lastSeq}
    BY Zenon, <1>1, <1>7, <1>20
  <2>2. Visible' = Visible \cup E /\ \A e \in E : e \notin Visible
    <3>1. \A e \in Layers : e.seq > lastSeq <=> ~(e.seq <= lastSeq)
      BY <1>16
    <3> HIDE DEF E
    <3> QED BY Zenon, <1>17, <2>1, <3>1 DEF Visible
  <2>3. lastSeq' = lastSeq + Cardinality(E) /\ {e.seq : e \in E} = (lastSeq + 1) .. lastSeq'
    <3>0. k \in Nat /\ lastSeq \in Nat
      BY Zenon, <1>3, <1>16
    <3>1. {e.seq : e \in E} = (lastSeq + 1) .. (lastSeq + n)
      BY ONLY Zenon, <3>0, GroupIsCounted
    <3>3. Cardinality(E) = n
      BY ONLY SMT, <3>0, GroupIsCounted
    <3>2. lastSeq' = lastSeq + n
      BY Zenon, <1>1, <1>7
    <3> HIDE DEF E, n
    <3> QED BY Zenon, <3>1, <3>2, <3>3
  <2>4. \A e \in E : \E u \in G : e.op = <<u, opno[u]>>
    <3> SUFFICES ASSUME NEW e \in E PROVE \E u \in G : e.op = <<u, opno[u]>>
      BY Zenon
    <3>1. PICK x \in Updates(writers, req, k) :
            e = [seq |-> lastSeq + Rank(writers, req, k, x), op |-> <<writers[x[1]], opno[writers[x[1]]]>>]
      BY Zenon DEF GroupEntries
    <3>2. e.op = <<writers[x[1]], opno[writers[x[1]]]>>
      BY Zenon, <3>1
    <3>3. x[1] \in 1 .. k /\ ~req[writers[x[1]]].null
      BY Zenon DEF Updates
    <3>4. writers[x[1]] \in G
      BY Zenon, <3>3 DEF Members
    <3> QED BY Zenon, <3>2, <3>4
  <2>5. ASSUME NEW u \in G
        PROVE  Cardinality(BatchOf(E, u, opno)) = req[u].n /\ Together(E, u, opno)
    <3>1. PICK i \in 1 .. k : writers[i] = u
      BY Zenon DEF Members
    <3>2. ~req[u].null /\ req[u].n \in 0 .. MaxCount
      <4>1. u \in Thread /\ req[u] \in Request \cup {NoReq} /\ ~req[u].null
        BY Zenon, <1>q, <1>5, <3>1 DEF TypeOK
      <4>2. req[u] \in Request
        BY SMT, <4>1 DEF NoReq
      <4> QED BY Zenon, <4>1, <4>2, RequestAssumption
    <3>3. ~req[writers[i]].null /\ req[writers[i]].n \in 0 .. MaxCount
      BY Zenon, <3>1, <3>2
    <3>0. k \in Nat /\ lastSeq \in Nat
      BY Zenon, <1>3, <1>16
    <3>4. /\ Cardinality(BatchOf(E, writers[i], opno)) = req[writers[i]].n
          /\ Together(E, writers[i], opno)
      BY ONLY SMT, <1>6, <3>0, <3>1, <3>3, WriterIsCounted
    <3> HIDE DEF E
    <3> QED BY Zenon, <3>1, <3>4
  <2>6. t \in G /\ G \in SUBSET Thread
    BY Zenon, <1>7, <1>8, <1>9
  <2>7. \A u \in G : OpenCalls[u] # NoOpenCall /\ OpenCalls[u] = CallOf(u) /\ CallEntries(u) = {}
    BY Zenon, <1>8
  <2>8. Acknowledged' = Acknowledged \cup {[op |-> <<t, opno[t]>>, n |-> req[t].n]}
    BY Zenon, <1>7, <1>10, <1>20, AckedCall
  <2>9. Abstract!Step
    <3> HIDE DEF G, E
    <3> QED BY Zenon, <1>12, <2>2, <2>3, <2>4, <2>5, <2>6, <2>7, <2>8, AtomicCommit
  <2>10. DoneIsTrue'
    <3>1. ASSUME NEW u \in Thread
          PROVE  CallEntries(u)' = CallEntries(u) \cup BatchOf(E, u, opno)
      <4> HIDE DEF E
      <4> QED BY Zenon, <1>1, <2>2 DEF CallEntries, BatchOf
    <3>2. \A u \in others : ~req[u].null => Cardinality(CallEntries(u)') = req[u].n
      <4> SUFFICES ASSUME NEW u \in others, ~req[u].null PROVE Cardinality(CallEntries(u)') = req[u].n
        BY Zenon
      <4>1. u \in G /\ u \in Thread /\ CallEntries(u) = {}
        BY Zenon, <1>8
      <4>2. CallEntries(u)' = BatchOf(E, u, opno)
        BY Zenon, <3>1, <4>1
      <4> QED BY Zenon, <2>5, <4>1, <4>2
    <3>3. \A u \in Thread \ Members(writers, k) : CallEntries(u)' = CallEntries(u)
      <4> SUFFICES ASSUME NEW u \in Thread \ Members(writers, k) PROVE BatchOf(E, u, opno) = {}
        BY Zenon, <3>1
      <4> SUFFICES ASSUME NEW e \in E, e.op = <<u, opno[u]>> PROVE FALSE
        BY Zenon DEF BatchOf
      <4>1. PICK v \in G : e.op = <<v, opno[v]>>
        BY Zenon, <2>4
      <4>2. v = u
        BY SMT, <4>1
      <4> QED BY Zenon, <4>2
    <3> QED BY Zenon, <1>18, <1>20, <3>2, <3>3
  <2> QED BY Zenon, <1>14, <2>9, <2>10 DEF OutcomeInv
<1> QED BY Zenon, <1>19, <1>20

LEMMA OutcomeStep ==
  ASSUME GroupsCounted
  PROVE  QueueInv /\ PromiseInv /\ OutcomeInv /\ [Next]_vars => OutcomeInv' /\ Abstract!Step
<1> SUFFICES ASSUME QueueInv, PromiseInv, OutcomeInv, [Next]_vars PROVE OutcomeInv' /\ Abstract!Step
  BY Zenon
<1>2. ASSUME NEW t \in Thread, SyncFails(t) \/ FlushWait(t) PROVE OutcomeInv' /\ Abstract!Step
  <2>1. UNCHANGED <<mem, imm, hasImm, tables, todo, lastSeq, leader, writers, req, opno, done, status, acked>>
    BY Zenon, <1>2 DEF SyncFails, FlushWait, queueVars, callVars, dataVars, memVars, l0Vars
  <2>2. \A u \in Thread : pc'[u] = pc[u] \/ {pc[u], pc'[u]} \subseteq OutsidePc
    BY SMTT(30), <1>2 DEF SyncFails, FlushWait, queueVars, OutsidePc, QueueInv, TypeOK
  <2> QED BY Zenon, <2>1, <2>2, QuietOutcome
<1>3. ASSUME BackgroundCall \/ TableBuilt \/ CompactionYields \/ CompactionEnds
             \/ InstallCompaction \/ BackgroundFails \/ Close \/ CloseResumes \/ UNCHANGED vars
      PROVE  OutcomeInv' /\ Abstract!Step
  <2> DEFINE Kept == UNCHANGED <<mem, imm, hasImm, tables, todo, lastSeq, leader, writers, req, opno, done,
                                 status, acked, pc>>
  <2>1. UNCHANGED <<bgUnchanged, imm, hasImm, tables>> => Kept
    BY Zenon DEF bgUnchanged, callVars
  <2>2. BackgroundCall \/ TableBuilt \/ CompactionYields => Kept
    BY Zenon, <2>1 DEF BackgroundCall, TableBuilt, CompactionYields, l0Vars
  <2>3. CompactionEnds \/ InstallCompaction \/ BackgroundFails => Kept
    BY Zenon, <2>1 DEF CompactionEnds, InstallCompaction, BackgroundFails, l0Vars
  <2>4. Close \/ CloseResumes => Kept
    BY Zenon, <2>1 DEF Close, CloseResumes, l0Vars
  <2>5. UNCHANGED vars => Kept
    BY Zenon DEF vars, queueVars, callVars, dataVars, memVars, l0Vars
  <2>6. Kept
    BY ONLY Zenon, <1>3, <2>2, <2>3, <2>4, <2>5
  <2> QED BY Zenon, <2>6, QuietOutcome
<1> QED BY Zenon, <1>2, <1>3, WriteOutcome, WakeOutcome, AddRecordOutcome, InsertOutcome,
        EndWriteOutcome, InstallOutcome
        DEF Next, ThreadStep, BackgroundStep, Terminated

LEMMA OutcomeInit == Init => OutcomeInv /\ Abstract!Init
<1> SUFFICES ASSUME Init PROVE OutcomeInv /\ Abstract!Init
  BY Zenon
<1>1. OutcomeInv
  BY Zenon DEF Init, OutcomeInv, GroupIsWhole, DoneIsTrue, Active, ActivePc
<1>2. Visible = {} /\ Acknowledged = {} /\ lastSeq = 0
  BY Zenon DEF Init, Visible, Layers, Acknowledged
<1>3. OpenCalls = [t \in Thread |-> NoOpenCall]
  BY Zenon DEF Init, OpenCalls, NoOpenCall
<1> QED BY Zenon, <1>1, <1>2, <1>3 DEF Abstract!Init, Abstract!NoCall, NoOpenCall

(* DBImpl::Write implements AtomicWrites, for any number of threads, calls *)
(* and failures: whatever groups BuildBatchGroup makes, a call takes effect *)
(* at one moment, in full and under consecutive sequence numbers, before   *)
(* it returns OK, and never when it returns an error.                      *)
THEOREM WriteIsAtomic == Spec => WritesAreAtomic
<1>1. Init => PromiseInv
  BY Zenon, DataInit, BatchInit, SyncInit DEF PromiseInv
<1>2. QueueInv /\ [Next]_vars => QueueInv'
  BY Zenon, QueueStep, GroupsAreCounted
<1>3. QueueInv /\ PromiseInv /\ [Next]_vars => PromiseInv'
  BY Zenon, PromiseStep, GroupsAreCounted
<1>4. QueueInv /\ PromiseInv /\ OutcomeInv /\ [Next]_vars => OutcomeInv' /\ [Abstract!Next]_(Abstract!vars)
  BY Zenon, OutcomeStep, GroupsAreCounted DEF Abstract!Step
<1> QED BY <1>1, <1>2, <1>3, <1>4, QueueInit, OutcomeInit, PTL DEF Spec, WritesAreAtomic, Abstract!Spec
=============================================================================
