---------------------------- MODULE ThreadsProofs ----------------------------
(***************************************************************************)
(* The lock of a database excludes, for any number of processes, callers   *)
(* and calls: within a process because of the lock table, between          *)
(* processes because of the record lock, and it is given back.  And        *)
(* PosixEnv::Schedule loses no wakeup, for any number of databases and     *)
(* work items; and db_bench's threads start together and are gone when     *)
(* their Stats are merged and freed, for any number of threads.            *)
(***************************************************************************)
EXTENDS EnvLock, Sequences, TLAPS, FiniteSetTheorems

(* What LockFile relies on: every caller is in a process, and NoProcess is *)
(* none.                                                                   *)
Setting ==
  /\ ProcessOf \in [Client -> Process]
  /\ NoProcess \notin Process
  /\ MaxCalls \in Nat

Pc == {"idle", "insert", "setlk", "held", "unwind", "remove", "close", "unlink"}

Typed ==
  /\ locked_files \in [Process -> BOOLEAN]
  /\ cl \in [Client -> [pc : Pc, op : {"open", "destroy"}, ino : Nat]]
  /\ flock \in [1..MaxCalls -> Process \union {NoProcess}]
  /\ lockIno \in Nat /\ lastIno \in Nat /\ calls \in Nat

(* The callers the table has let in.                                       *)
Inside(c) == cl[c].pc \in {"setlk", "held", "unwind", "remove"}

(* The table has the file while somebody is inside, and lets in one caller *)
(* of a process at a time.                                                 *)
TableInv ==
  /\ \A c \in Client : Inside(c) => locked_files[P(c)]
  /\ \A c, d \in Client : Inside(c) /\ Inside(d) /\ P(c) = P(d) => c = d

TInv == Typed /\ TableInv

(* Setting and clearing a record lock keeps the table of locks typed.      *)
LEMMA FlockTyped ==
  ASSUME Setting, Typed, NEW c \in Client
  PROVE  /\ SetFlock(c) \in [1..MaxCalls -> Process \union {NoProcess}]
         /\ Unflock(c) \in [1..MaxCalls -> Process \union {NoProcess}]
  BY Zenon DEF Setting, Typed, SetFlock, Unflock, P

(* A step of one caller: where it is changes, what it wants does not.      *)
Advance(c, Q) ==
  /\ cl' \in [Client -> [pc : Pc, op : {"open", "destroy"}, ino : Nat]]
  /\ cl'[c].pc \in Q /\ cl'[c].ino = cl[c].ino /\ cl'[c].op = cl[c].op
  /\ \A d \in Client : d # c => cl'[d] = cl[d]

LEMMA Advances ==
  ASSUME Typed, NEW c \in Client, NEW Q \in SUBSET Pc, NEW q \in Q, To(c, q)
  PROVE  Advance(c, Q)
  BY Zenon DEF Typed, To, Advance

LEMMA TableInit == Setting /\ Init => TInv
  BY DEF Setting, Init, TInv, Typed, TableInv, Inside, Quiet, Pc, P

LEMMA TableNext == Setting /\ TInv /\ [Next]_vars => TInv'
<1> SUFFICES ASSUME Setting, TInv, [Next]_vars
             PROVE  TInv'
  BY Zenon
<1>f. ASSUME flock' \in [1..MaxCalls -> Process \union {NoProcess}],
             cl' \in [Client -> [pc : Pc, op : {"open", "destroy"}, ino : Nat]],
             locked_files' \in [Process -> BOOLEAN],
             UNCHANGED <<lockIno, lastIno, calls>>
      PROVE  Typed'
  BY Zenon, <1>f DEF TInv, Typed
<1> USE DEF TInv, Advance
<1>1. ASSUME NEW c \in Client, NEW op \in {"open", "destroy"}, OpenLockFile(c, op)
      PROVE  TInv'
  BY <1>1 DEF OpenLockFile, Typed, TableInv, Pc, Inside, P
<1>2. ASSUME NEW c \in Client, InsertLock(c)
      PROVE  TInv'
  <2>1. CASE ~locked_files[P(c)]
    <3>1. /\ locked_files' = [locked_files EXCEPT ![P(c)] = TRUE]
          /\ To(c, "setlk") /\ UNCHANGED <<lockIno, lastIno, calls, flock>>
      BY Zenon, <1>2, <2>1 DEF InsertLock
    <3>2. Advance(c, {"setlk"})
      BY Zenon, Advances, <3>1 DEF Pc
    <3>3. Typed'
      BY Zenon, <1>f, <3>1, <3>2 DEF Typed
    <3>4. /\ locked_files'[P(c)]
          /\ \A d \in Client : locked_files[P(d)] => locked_files'[P(d)]
      BY Zenon, <3>1 DEF P, Setting, Typed
    <3>5. \A d \in Client : Inside(d)' => d = c \/ Inside(d)
      BY Zenon, <3>2 DEF Inside
    <3>6. \A d \in Client : Inside(d) => P(d) # P(c)
      BY Zenon, <2>1 DEF TableInv
    <3>7. \A d \in Client : Inside(d)' => locked_files'[P(d)]
      BY Zenon, <3>4, <3>5 DEF TableInv
    <3>8. \A d, e \in Client : Inside(d)' /\ Inside(e)' /\ P(d) = P(e) => d = e
      BY Zenon, <3>5, <3>6 DEF TableInv
    <3> QED
      BY Zenon, <3>3, <3>7, <3>8 DEF TableInv, P
  <2>2. CASE locked_files[P(c)]
    <3>1. /\ CloseFd(c) /\ To(c, "idle") /\ UNCHANGED <<locked_files, lockIno, lastIno, calls>>
      BY Zenon, <1>2, <2>2 DEF InsertLock
    <3>2. Advance(c, {"idle"})
      BY Zenon, Advances, <3>1 DEF Pc
    <3>3. Typed'
      BY Zenon, <1>f, <3>1, <3>2, FlockTyped DEF Typed, CloseFd
    <3>4. TableInv'
      BY Zenon, <3>1, <3>2 DEF TableInv, Inside, P
    <3> QED
      BY Zenon, <3>3, <3>4
  <2> QED
    BY Zenon, <2>1, <2>2
<1>3. ASSUME NEW c \in Client, SetLock(c)
      PROVE  TInv'
  <2>1. Advance(c, {"held", "unwind"})
    BY Zenon, <1>3, Advances DEF SetLock, Pc
  <2>2. /\ flock' \in [1..MaxCalls -> Process \union {NoProcess}]
        /\ cl[c].pc = "setlk" /\ UNCHANGED <<locked_files, lockIno, lastIno, calls>>
    BY Zenon, <1>3, FlockTyped DEF SetLock, CloseFd
  <2>3. Typed'
    BY Zenon, <1>f, <2>1, <2>2 DEF Typed
  <2>4. TableInv'
    BY <2>1, <2>2 DEF TableInv, Inside, P
  <2> QED
    BY Zenon, <2>3, <2>4
<1>4. ASSUME NEW c \in Client, Unwind(c)
      PROVE  TInv'
  <2>1. Advance(c, {"idle"})
    BY Zenon, <1>4, Advances DEF Unwind, Pc
  <2>2. Typed'
    BY Zenon, <1>f, <1>4, <2>1 DEF Unwind, Typed
  <2>3. TableInv'
    BY Zenon, <1>4, <2>1 DEF Unwind, TableInv, Inside, P, Setting, Typed
  <2> QED
    BY Zenon, <2>2, <2>3
<1>5. ASSUME NEW c \in Client, UnlockFcntl(c)
      PROVE  TInv'
  <2>1. Advance(c, {"remove", "unlink", "idle"})
    BY Zenon, <1>5, Advances DEF UnlockFcntl, Pc
  <2>2. /\ flock' \in [1..MaxCalls -> Process \union {NoProcess}]
        /\ cl[c].pc = "held" /\ UNCHANGED <<locked_files, lockIno, lastIno, calls>>
    BY Zenon, <1>5, FlockTyped DEF UnlockFcntl, Typed
  <2>3. Typed'
    BY Zenon, <1>f, <2>1, <2>2 DEF Typed
  <2>4. TableInv'
    BY SMTT(30), <2>1, <2>2 DEF TableInv, Inside, P
  <2> QED
    BY Zenon, <2>3, <2>4
<1>6. ASSUME NEW c \in Client, UnlockRemove(c)
      PROVE  TInv'
  <2>1. Advance(c, {"close"})
    BY Zenon, <1>6, Advances DEF UnlockRemove, Pc
  <2>2. Typed'
    BY Zenon, <1>f, <1>6, <2>1 DEF UnlockRemove, Typed
  <2>3. TableInv'
    BY Zenon, <1>6, <2>1 DEF UnlockRemove, TableInv, Inside, P, Setting, Typed
  <2> QED
    BY Zenon, <2>2, <2>3
<1>7. ASSUME NEW c \in Client, UnlockClose(c)
      PROVE  TInv'
  <2>1. Advance(c, {"unlink", "idle"})
    BY Zenon, <1>7, Advances DEF UnlockClose, Pc
  <2>2. Typed'
    BY Zenon, <1>f, <1>7, <2>1, FlockTyped DEF UnlockClose, CloseFd, Typed
  <2>3. TableInv'
    BY Zenon, <1>7, <2>1 DEF UnlockClose, TableInv, Inside, P
  <2> QED
    BY Zenon, <2>2, <2>3
<1>8. ASSUME NEW c \in Client, UnlinkLock(c)
      PROVE  TInv'
  BY SMTT(30), <1>8 DEF UnlinkLock, To, Typed, TableInv, Inside, P, Pc
<1>9. ASSUME NEW p \in Process, Exit(p)
      PROVE  TInv'
  BY Zenon, <1>9 DEF Exit, Quiet, Typed, TableInv, Inside, P, Pc, Setting
<1>10. CASE UNCHANGED vars
  BY Zenon, <1>10 DEF vars, Typed, TableInv, Inside
<1> QED
  BY Zenon, <1>1, <1>2, <1>3, <1>4, <1>5, <1>6, <1>7, <1>8, <1>9, <1>10 DEF Next

(* PosixLockTable: in one process at most one caller of LockFile holds the *)
(* database, in both builds, with failing fcntl calls and exits of         *)
(* processes at any step.                                                  *)
THEOREM LockTableExcludes == ASSUME Setting PROVE Spec => []OneHolderPerProcess
<1>1. TInv => OneHolderPerProcess
  BY Zenon DEF TInv, TableInv, Inside, OneHolderPerProcess, Holders
<1> QED
  BY TableInit, TableNext, <1>1, PTL DEF Spec

-----------------------------------------------------------------------------
(* Who takes part, and the inodes there are.                               *)
CallInv ==
  /\ \A c \in Client : cl[c].pc # "idle" => c \in cfg.clients /\ cl[c].op \in cfg.ops
  /\ lockIno <= lastIno /\ lastIno <= calls /\ calls <= MaxCalls
  /\ cfg.build # "posix" => \A i \in 1..MaxCalls : flock[i] = NoProcess

(* One caller in each process, nobody destroys, fcntl locks.               *)
Alone ==
  /\ cfg.build = "posix" /\ "destroy" \notin cfg.ops
  /\ \A c, d \in cfg.clients : P(c) = P(d) => c = d

(* Then all callers use one inode, and whoever holds the database has its  *)
(* record lock.                                                            *)
FlockInv ==
  Alone =>
    \A c \in Client :
      /\ cl[c].pc # "idle" => cl[c].ino = lockIno /\ lockIno # 0 /\ cl[c].pc # "unlink"
      /\ cl[c].pc = "held" => flock[cl[c].ino] = P(c)

(* Every entry of a table and every record lock has somebody to take it    *)
(* back, as long as fcntl does not fail.                                   *)
ReleaseInv ==
  ~cfg.faults =>
    /\ \A p \in Process : locked_files[p] => \E c \in Client : P(c) = p /\ Inside(c)
    /\ \A i \in 1..MaxCalls :
         flock[i] # NoProcess =>
           \E c \in Client : P(c) = flock[i] /\ cl[c].pc = "held" /\ cl[c].ino = i

LInv == TInv /\ CallInv /\ FlockInv /\ ReleaseInv

LEMMA LockInit == Setting /\ Init => LInv
<1> SUFFICES ASSUME Setting, Init
             PROVE  LInv
  BY Zenon
<1>1. TInv
  BY Zenon, TableInit
<1>2. CallInv /\ FlockInv /\ ReleaseInv
  BY DEF Setting, Init, CallInv, FlockInv, ReleaseInv, Quiet
<1> QED
  BY Zenon, <1>1, <1>2 DEF LInv

(* What an fcntl call does to each inode's lock.                           *)
LEMMA FlockAt ==
  ASSUME Setting, Typed, NEW c \in Client, NEW i \in 1..MaxCalls
  PROVE  /\ Unflock(c)[i] = IF i = cl[c].ino /\ flock[i] = P(c) THEN NoProcess ELSE flock[i]
         /\ SetFlock(c)[i] = IF cfg.build = "posix" /\ i = cl[c].ino THEN P(c) ELSE flock[i]
  BY Zenon DEF Setting, Typed, Unflock, SetFlock

(* Giving up a lock creates none, and takes none from another holder when  *)
(* the processes have one caller each.                                     *)
LEMMA Unflocks ==
  ASSUME Setting, LInv, NEW c \in Client, cl[c].pc # "idle", flock' = Unflock(c)
  PROVE  /\ \A i \in 1..MaxCalls : flock'[i] # NoProcess => flock'[i] = flock[i]
         /\ Alone => \A d \in Client :
              d # c /\ cl[d].pc = "held" => flock'[cl[d].ino] = flock[cl[d].ino]
<1>1. Typed
  BY Zenon DEF LInv, TInv
<1>2. ASSUME NEW i \in 1..MaxCalls, flock'[i] # NoProcess
      PROVE  flock'[i] = flock[i]
  BY Zenon, <1>1, <1>2, FlockAt
<1>3. ASSUME Alone, NEW d \in Client, d # c, cl[d].pc = "held"
      PROVE  flock'[cl[d].ino] = flock[cl[d].ino]
  <2>1. cl[d].ino \in 1..MaxCalls /\ flock[cl[d].ino] = P(d)
    BY <1>1, <1>3 DEF LInv, FlockInv, CallInv, Typed, Setting
  <2>2. P(d) # P(c)
    BY Zenon, <1>3 DEF LInv, CallInv, Alone
  <2> QED
    BY Zenon, <1>1, <2>1, <2>2, FlockAt
<1> QED
  BY Zenon, <1>2, <1>3

LEMMA LockNext == Setting /\ LInv /\ [Next]_vars => LInv'
<1> SUFFICES ASSUME Setting, LInv, [Next]_vars
             PROVE  LInv'
  BY Zenon
<1>t. TInv'
  BY Zenon, TableNext DEF LInv
<1>l. Typed
  BY Zenon DEF LInv, TInv
<1>1. ASSUME NEW c \in Client, NEW op \in {"open", "destroy"}, OpenLockFile(c, op)
      PROVE  LInv'
  <2>1. /\ \A d \in Client : d # c => cl'[d] = cl[d]
        /\ cl[c].pc = "idle" /\ cl'[c].pc = "insert" /\ cl'[c].op = op /\ cl'[c].ino = lockIno'
        /\ lockIno' = (IF lockIno = 0 THEN lastIno + 1 ELSE lockIno)
        /\ lastIno' = (IF lockIno = 0 THEN lastIno + 1 ELSE lastIno)
        /\ calls < MaxCalls /\ calls' = calls + 1
        /\ c \in cfg.clients /\ op \in cfg.ops /\ UNCHANGED <<cfg, locked_files, flock>>
    BY <1>1, <1>l DEF OpenLockFile, Typed
  <2>2. CallInv'
    <3>1. /\ lockIno <= lastIno /\ lastIno <= calls
          /\ \A d \in Client : cl[d].pc # "idle" => d \in cfg.clients /\ cl[d].op \in cfg.ops
          /\ cfg.build # "posix" => \A i \in 1..MaxCalls : flock[i] = NoProcess
      BY Zenon DEF LInv, CallInv
    <3>2. lockIno' <= lastIno' /\ lastIno' <= calls' /\ calls' <= MaxCalls
      BY <2>1, <3>1, <1>l DEF Typed, Setting
    <3>3. \A d \in Client : cl'[d].pc # "idle" => d \in cfg'.clients /\ cl'[d].op \in cfg'.ops
      BY Zenon, <2>1, <3>1
    <3> QED
      BY Zenon, <2>1, <3>1, <3>2, <3>3 DEF CallInv
  <2>3. FlockInv'
    <3>1. Alone' = Alone
      BY Zenon, <2>1 DEF Alone
    <3>2. CASE lockIno = 0
      BY <2>1, <3>1, <3>2, <1>l DEF LInv, FlockInv, Typed
    <3>3. CASE lockIno # 0
      BY Zenon, <2>1, <3>1, <3>3, <1>l DEF LInv, FlockInv, Typed
    <3> QED
      BY Zenon, <3>2, <3>3
  <2>4. ReleaseInv'
    BY <2>1 DEF LInv, ReleaseInv, Inside, P
  <2> QED
    BY Zenon, <1>t, <2>2, <2>3, <2>4 DEF LInv
<1>2. ASSUME NEW c \in Client, InsertLock(c)
      PROVE  LInv'
  <2>1. CASE ~locked_files[P(c)]
    <3>1. cl[c].pc = "insert" /\ To(c, "setlk") /\ UNCHANGED <<cfg, lockIno, lastIno, calls>>
          /\ locked_files' = [locked_files EXCEPT ![P(c)] = TRUE] /\ UNCHANGED flock
      BY Zenon, <1>2, <2>1 DEF InsertLock, CloseFd
    <3>2. Advance(c, {"setlk"})
      BY Zenon, Advances, <1>l, <3>1 DEF Pc
    <3>4. CallInv'
      BY Zenon, <3>1, <3>2, <1>l DEF LInv, CallInv, Advance, Typed
    <3>5. FlockInv'
      BY <3>1, <3>2, <1>l DEF LInv, FlockInv, CallInv, Alone, P, Advance, Typed
    <3>6. ASSUME ~cfg'.faults, NEW p \in Process, locked_files'[p]
          PROVE  \E d \in Client : P(d) = p /\ Inside(d)'
      <4>1. CASE p = P(c)
        BY Zenon, <3>1, <3>2, <1>l, <4>1 DEF Inside, Advance
      <4>2. CASE p # P(c)
        <5>1. PICK d \in Client : P(d) = p /\ Inside(d)
          BY Zenon, <3>1, <3>6, <4>2, <1>l DEF LInv, ReleaseInv, Typed
        <5> QED
          BY Zenon, <5>1, <4>2, <3>2 DEF Inside, Advance
      <4> QED
        BY Zenon, <4>1, <4>2
    <3>7. ASSUME ~cfg'.faults, NEW i \in 1..MaxCalls, flock'[i] # NoProcess
          PROVE  \E d \in Client : P(d) = flock'[i] /\ cl'[d].pc = "held" /\ cl'[d].ino = i
      <4>1. PICK d \in Client : P(d) = flock[i] /\ cl[d].pc = "held" /\ cl[d].ino = i
        BY Zenon, <3>1, <3>2, <1>l, <3>7 DEF LInv, ReleaseInv
      <4> QED
        BY Zenon, <3>1, <3>2, <1>l, <3>7, <4>1 DEF Advance
    <3>8. ReleaseInv'
      BY Zenon, <3>6, <3>7 DEF ReleaseInv, Inside, P
    <3> QED
      BY Zenon, <1>t, <3>4, <3>5, <3>8 DEF LInv
  <2>2. CASE locked_files[P(c)]
    <3>1. cl[c].pc = "insert" /\ To(c, "idle") /\ UNCHANGED <<cfg, locked_files, lockIno, lastIno, calls>>
          /\ flock' = Unflock(c)
      BY Zenon, <1>2, <2>2 DEF InsertLock, CloseFd
    <3>2. Advance(c, {"idle"})
      BY Zenon, Advances, <1>l, <3>1 DEF Pc
    <3>3. /\ \A i \in 1..MaxCalls : flock'[i] # NoProcess => flock'[i] = flock[i]
          /\ Alone => \A d \in Client :
               d # c /\ cl[d].pc = "held" => flock'[cl[d].ino] = flock[cl[d].ino]
      BY Zenon, <3>1, Unflocks
    <3>4. CallInv'
      BY Zenon, <3>1, <3>2, <1>l, <3>3 DEF LInv, CallInv, Advance, Typed
    <3>5. FlockInv'
      BY <3>1, <3>2, <1>l, <3>3 DEF LInv, FlockInv, CallInv, Alone, P, Advance, Typed
    <3>6. ASSUME ~cfg'.faults, NEW p \in Process, locked_files'[p]
          PROVE  \E d \in Client : P(d) = p /\ Inside(d)'
      <4>1. PICK d \in Client : P(d) = p /\ Inside(d)
        BY Zenon, <3>1, <3>6, <1>l DEF LInv, ReleaseInv, Typed
      <4> QED
        BY Zenon, <3>1, <3>2, <1>l, <3>3, <3>6, <4>1 DEF Inside, Advance, Typed
    <3>7. ASSUME ~cfg'.faults, NEW i \in 1..MaxCalls, flock'[i] # NoProcess
          PROVE  \E d \in Client : P(d) = flock'[i] /\ cl'[d].pc = "held" /\ cl'[d].ino = i
      <4>1. PICK d \in Client : P(d) = flock[i] /\ cl[d].pc = "held" /\ cl[d].ino = i
        BY Zenon, <3>1, <3>2, <1>l, <3>3, <3>7 DEF LInv, ReleaseInv
      <4> QED
        BY Zenon, <3>1, <3>2, <1>l, <3>3, <3>7, <4>1 DEF Advance
    <3>8. ReleaseInv'
      BY Zenon, <3>6, <3>7 DEF ReleaseInv, Inside, P
    <3> QED
      BY Zenon, <1>t, <3>4, <3>5, <3>8 DEF LInv
  <2> QED
    BY Zenon, <2>1, <2>2
<1>3. ASSUME NEW c \in Client, SetLock(c)
      PROVE  LInv'
  <2>1. CASE CanLock(c)
    <3>1. cl[c].pc = "setlk" /\ To(c, "held") /\ UNCHANGED <<cfg, locked_files, lockIno, lastIno, calls>>
          /\ flock' = SetFlock(c)
      BY Zenon, <1>3, <2>1 DEF SetLock, CloseFd
    <3>2. Advance(c, {"held"})
      BY Zenon, Advances, <1>l, <3>1 DEF Pc
    <3>4. CallInv'
      <4>1. cfg.build # "posix" => flock' = flock
        BY Zenon, <3>1 DEF SetFlock
      <4> QED
        BY Zenon, <3>1, <3>2, <4>1 DEF LInv, CallInv, Advance
    <3>5. FlockInv'
      <4> SUFFICES ASSUME Alone', NEW d \in Client, cl'[d].pc # "idle"
                   PROVE  /\ cl'[d].ino = lockIno' /\ lockIno' # 0 /\ cl'[d].pc # "unlink"
                          /\ cl'[d].pc = "held" => flock'[cl'[d].ino] = P(d)
        BY Zenon DEF FlockInv, P
      <4>1. Alone /\ cl[d].pc # "idle" /\ cl'[d].ino = cl[d].ino /\ cl'[d].pc \in {cl[d].pc, "held"}
        BY Zenon, <3>1, <3>2 DEF Alone, P, Advance
      <4>2. cl[d].ino = lockIno /\ cl[c].ino = lockIno /\ lockIno # 0 /\ cl[d].pc # "unlink"
            /\ lockIno \in 1..MaxCalls
        BY <3>1, <4>1, <1>l DEF LInv, FlockInv, CallInv, Typed, Setting
      <4>3. flock'[lockIno] = P(c)
        BY Zenon, <3>1, <4>1, <4>2, <1>l, FlockAt DEF Alone
      <4>4. CASE d # c /\ cl[d].pc = "held"
        <5>1. flock[lockIno] = P(d) /\ P(d) # NoProcess
          BY Zenon, <4>1, <4>2, <4>4 DEF LInv, FlockInv, P, Setting
        <5>2. P(d) = P(c)
          BY Zenon, <2>1, <4>1, <4>2, <5>1 DEF CanLock, Alone
        <5> QED
          BY Zenon, <3>1, <4>1, <4>2, <4>3, <5>2
      <4>5. CASE d = c
        BY Zenon, <3>1, <3>2, <4>2, <4>3, <4>5 DEF Advance
      <4>6. CASE d # c /\ cl[d].pc # "held"
        BY Zenon, <3>1, <3>2, <4>2, <4>6 DEF Advance
      <4> QED
        BY Zenon, <4>4, <4>5, <4>6
    <3>6. ASSUME ~cfg'.faults, NEW p \in Process, locked_files'[p]
          PROVE  \E d \in Client : P(d) = p /\ Inside(d)'
      <4>1. PICK d \in Client : P(d) = p /\ Inside(d)
        BY Zenon, <3>1, <3>6, <1>l DEF LInv, ReleaseInv, Typed
      <4> QED
        BY Zenon, <3>1, <3>2, <1>l, <3>6, <4>1 DEF Inside, Advance, Typed
    <3>7. ASSUME ~cfg'.faults, NEW i \in 1..MaxCalls, flock'[i] # NoProcess
          PROVE  \E d \in Client : P(d) = flock'[i] /\ cl'[d].pc = "held" /\ cl'[d].ino = i
      <4>0. SetFlock(c)[i] = IF cfg.build = "posix" /\ i = cl[c].ino THEN P(c) ELSE flock[i]
        BY Zenon, FlockAt, <1>l
      <4>1. CASE cfg.build = "posix" /\ i = cl[c].ino
        BY Zenon, <4>0, <4>1, <3>1, <3>2 DEF Advance
      <4>2. CASE ~(cfg.build = "posix" /\ i = cl[c].ino)
        <5>1. PICK d \in Client : P(d) = flock[i] /\ cl[d].pc = "held" /\ cl[d].ino = i
          BY Zenon, <4>0, <4>2, <3>1, <3>7 DEF LInv, ReleaseInv
        <5> QED
          BY Zenon, <5>1, <4>0, <4>2, <3>1, <3>2 DEF Advance
      <4> QED
        BY Zenon, <4>1, <4>2
    <3>8. ReleaseInv'
      BY Zenon, <3>6, <3>7 DEF ReleaseInv, Inside, P
    <3> QED
      BY Zenon, <1>t, <3>4, <3>5, <3>8 DEF LInv
  <2>2. CASE ~CanLock(c)
    <3>1. cl[c].pc = "setlk" /\ To(c, "unwind") /\ UNCHANGED <<cfg, locked_files, lockIno, lastIno, calls>>
          /\ flock' = Unflock(c)
      BY Zenon, <1>3, <2>2 DEF SetLock, CloseFd
    <3>2. Advance(c, {"unwind"})
      BY Zenon, Advances, <1>l, <3>1 DEF Pc
    <3>3. /\ \A i \in 1..MaxCalls : flock'[i] # NoProcess => flock'[i] = flock[i]
          /\ Alone => \A d \in Client :
               d # c /\ cl[d].pc = "held" => flock'[cl[d].ino] = flock[cl[d].ino]
      BY Zenon, <3>1, Unflocks
    <3>4. CallInv'
      BY Zenon, <3>1, <3>2, <1>l, <3>3 DEF LInv, CallInv, Advance, Typed
    <3>5. FlockInv'
      BY <3>1, <3>2, <1>l, <3>3 DEF LInv, FlockInv, CallInv, Alone, P, Advance, Typed
    <3>6. ASSUME ~cfg'.faults, NEW p \in Process, locked_files'[p]
          PROVE  \E d \in Client : P(d) = p /\ Inside(d)'
      <4>1. PICK d \in Client : P(d) = p /\ Inside(d)
        BY Zenon, <3>1, <3>6, <1>l DEF LInv, ReleaseInv, Typed
      <4> QED
        BY Zenon, <3>1, <3>2, <1>l, <3>3, <3>6, <4>1 DEF Inside, Advance, Typed
    <3>7. ASSUME ~cfg'.faults, NEW i \in 1..MaxCalls, flock'[i] # NoProcess
          PROVE  \E d \in Client : P(d) = flock'[i] /\ cl'[d].pc = "held" /\ cl'[d].ino = i
      <4>1. PICK d \in Client : P(d) = flock[i] /\ cl[d].pc = "held" /\ cl[d].ino = i
        BY Zenon, <3>1, <3>2, <1>l, <3>3, <3>7 DEF LInv, ReleaseInv
      <4> QED
        BY Zenon, <3>1, <3>2, <1>l, <3>3, <3>7, <4>1 DEF Advance
    <3>8. ReleaseInv'
      BY Zenon, <3>6, <3>7 DEF ReleaseInv, Inside, P
    <3> QED
      BY Zenon, <1>t, <3>4, <3>5, <3>8 DEF LInv
  <2> QED
    BY Zenon, <2>1, <2>2
<1>4. ASSUME NEW c \in Client, Unwind(c)
      PROVE  LInv'
  <2>1. cl[c].pc = "unwind" /\ To(c, "idle") /\ UNCHANGED <<cfg, lockIno, lastIno, calls>>
        /\ locked_files' = [locked_files EXCEPT ![P(c)] = FALSE] /\ UNCHANGED flock
    BY Zenon, <1>4 DEF Unwind, CloseFd
  <2>2. Advance(c, {"idle"})
    BY Zenon, Advances, <1>l, <2>1 DEF Pc
  <2>4. CallInv'
    BY Zenon, <2>1, <2>2, <1>l DEF LInv, CallInv, Advance, Typed
  <2>5. FlockInv'
    BY <2>1, <2>2, <1>l DEF LInv, FlockInv, CallInv, Alone, P, Advance, Typed
  <2>6. ASSUME ~cfg'.faults, NEW p \in Process, locked_files'[p]
        PROVE  \E d \in Client : P(d) = p /\ Inside(d)'
    <3>1. PICK d \in Client : P(d) = p /\ Inside(d)
      BY Zenon, <2>1, <2>6, <1>l DEF LInv, ReleaseInv, Typed
    <3> QED
      BY Zenon, <2>1, <2>2, <1>l, <2>6, <3>1 DEF Inside, Advance, Typed
  <2>7. ASSUME ~cfg'.faults, NEW i \in 1..MaxCalls, flock'[i] # NoProcess
        PROVE  \E d \in Client : P(d) = flock'[i] /\ cl'[d].pc = "held" /\ cl'[d].ino = i
    <3>1. PICK d \in Client : P(d) = flock[i] /\ cl[d].pc = "held" /\ cl[d].ino = i
      BY Zenon, <2>1, <2>2, <1>l, <2>7 DEF LInv, ReleaseInv
    <3> QED
      BY Zenon, <2>1, <2>2, <1>l, <2>7, <3>1 DEF Advance
  <2>8. ReleaseInv'
    BY Zenon, <2>6, <2>7 DEF ReleaseInv, Inside, P
  <2> QED
    BY Zenon, <1>t, <2>4, <2>5, <2>8 DEF LInv
<1>5. ASSUME NEW c \in Client, UnlockFcntl(c)
      PROVE  LInv'
  <2>1. CASE cfg.build = "posix" /\ flock' = Unflock(c) /\ To(c, "remove")
    <3>1. cl[c].pc = "held" /\ To(c, "remove") /\ UNCHANGED <<cfg, locked_files, lockIno, lastIno, calls>>
          /\ flock' = Unflock(c)
      BY Zenon, <1>5, <2>1 DEF UnlockFcntl, CloseFd
    <3>2. Advance(c, {"remove"})
      BY Zenon, Advances, <1>l, <3>1 DEF Pc
    <3>3. /\ \A i \in 1..MaxCalls : flock'[i] # NoProcess => flock'[i] = flock[i]
          /\ Alone => \A d \in Client :
               d # c /\ cl[d].pc = "held" => flock'[cl[d].ino] = flock[cl[d].ino]
      BY Zenon, <3>1, Unflocks
    <3>4. CallInv'
      BY Zenon, <3>1, <3>2, <1>l, <3>3 DEF LInv, CallInv, Advance, Typed
    <3>5. FlockInv'
      BY <3>1, <3>2, <1>l, <3>3 DEF LInv, FlockInv, CallInv, Alone, P, Advance, Typed
    <3>6. ASSUME ~cfg'.faults, NEW p \in Process, locked_files'[p]
          PROVE  \E d \in Client : P(d) = p /\ Inside(d)'
      <4>1. PICK d \in Client : P(d) = p /\ Inside(d)
        BY Zenon, <3>1, <3>6, <1>l DEF LInv, ReleaseInv, Typed
      <4> QED
        BY Zenon, <3>1, <3>2, <1>l, <3>3, <3>6, <4>1 DEF Inside, Advance, Typed
    <3>7. ASSUME ~cfg'.faults, NEW i \in 1..MaxCalls, flock'[i] # NoProcess
          PROVE  \E d \in Client : P(d) = flock'[i] /\ cl'[d].pc = "held" /\ cl'[d].ino = i
      <4>1. PICK d \in Client : P(d) = flock[i] /\ cl[d].pc = "held" /\ cl[d].ino = i
        BY Zenon, <3>1, <3>2, <1>l, <3>3, <3>7 DEF LInv, ReleaseInv
      <4>2. Unflock(c)[i] = IF i = cl[c].ino /\ flock[i] = P(c) THEN NoProcess ELSE flock[i]
        BY Zenon, FlockAt, <1>l
      <4>3. d # c
        BY Zenon, <4>1, <4>2, <3>1, <3>7
      <4> QED
        BY Zenon, <3>1, <3>2, <1>l, <3>3, <3>7, <4>1, <4>3 DEF Advance
    <3>8. ReleaseInv'
      BY Zenon, <3>6, <3>7 DEF ReleaseInv, Inside, P
    <3> QED
      BY Zenon, <1>t, <3>4, <3>5, <3>8 DEF LInv
  <2>2. CASE cfg.build # "posix" /\ flock' = flock /\ To(c, "remove")
    <3>1. cl[c].pc = "held" /\ To(c, "remove") /\ UNCHANGED <<cfg, locked_files, lockIno, lastIno, calls>>
          /\ flock' = flock /\ cfg.build # "posix"
      BY Zenon, <1>5, <2>2 DEF UnlockFcntl, CloseFd
    <3>2. Advance(c, {"remove"})
      BY Zenon, Advances, <1>l, <3>1 DEF Pc
    <3>4. CallInv'
      BY Zenon, <3>1, <3>2, <1>l DEF LInv, CallInv, Advance, Typed
    <3>5. FlockInv'
      BY Zenon, <3>1, <3>2, <1>l DEF LInv, FlockInv, CallInv, Alone, P, Advance, Typed
    <3>6. ASSUME ~cfg'.faults, NEW p \in Process, locked_files'[p]
          PROVE  \E d \in Client : P(d) = p /\ Inside(d)'
      <4>1. PICK d \in Client : P(d) = p /\ Inside(d)
        BY Zenon, <3>1, <3>6, <1>l DEF LInv, ReleaseInv, Typed
      <4> QED
        BY Zenon, <3>1, <3>2, <1>l, <3>6, <4>1 DEF Inside, Advance, Typed
    <3>7. ASSUME ~cfg'.faults, NEW i \in 1..MaxCalls, flock'[i] # NoProcess
          PROVE  \E d \in Client : P(d) = flock'[i] /\ cl'[d].pc = "held" /\ cl'[d].ino = i
      <4>1. PICK d \in Client : P(d) = flock[i] /\ cl[d].pc = "held" /\ cl[d].ino = i
        BY Zenon, <3>1, <3>2, <1>l, <3>7 DEF LInv, ReleaseInv
      <4> QED
        BY Zenon, <3>1, <3>7 DEF LInv, CallInv
    <3>8. ReleaseInv'
      BY Zenon, <3>6, <3>7 DEF ReleaseInv, Inside, P
    <3> QED
      BY Zenon, <1>t, <3>4, <3>5, <3>8 DEF LInv
  <2>3. CASE cfg.faults /\ cfg.build = "posix" /\ UNCHANGED flock
            /\ To(c, IF cl[c].op = "destroy" THEN "unlink" ELSE "idle")
    <3>1. cl[c].pc = "held" /\ To(c, IF cl[c].op = "destroy" THEN "unlink" ELSE "idle") /\ UNCHANGED <<cfg, locked_files, lockIno, lastIno, calls>>
          /\ flock' = flock /\ cfg.faults
      BY Zenon, <1>5, <2>3 DEF UnlockFcntl, CloseFd
    <3>2. Advance(c, IF cl[c].op = "destroy" THEN {"unlink"} ELSE {"idle"})
      BY Zenon, Advances, <1>l, <3>1 DEF Pc
    <3>4. CallInv'
      BY Zenon, <3>1, <3>2, <1>l DEF LInv, CallInv, Advance, Typed
    <3>5. FlockInv'
      <4>1. Alone => cl'[c].pc = "idle"
        BY Zenon, <3>1, <3>2 DEF LInv, CallInv, Alone, Advance
      <4> QED
        BY <3>1, <3>2, <4>1 DEF LInv, FlockInv, Alone, P, Advance
    <3>6. ASSUME ~cfg'.faults, NEW p \in Process, locked_files'[p]
          PROVE  \E d \in Client : P(d) = p /\ Inside(d)'
      <4>1. PICK d \in Client : P(d) = p /\ Inside(d)
        BY Zenon, <3>1, <3>6, <1>l DEF LInv, ReleaseInv, Typed
      <4> QED
        BY Zenon, <3>1, <3>2, <1>l, <3>6, <4>1 DEF Inside, Advance, Typed
    <3>7. ASSUME ~cfg'.faults, NEW i \in 1..MaxCalls, flock'[i] # NoProcess
          PROVE  \E d \in Client : P(d) = flock'[i] /\ cl'[d].pc = "held" /\ cl'[d].ino = i
      <4>1. PICK d \in Client : P(d) = flock[i] /\ cl[d].pc = "held" /\ cl[d].ino = i
        BY Zenon, <3>1, <3>2, <1>l, <3>7 DEF LInv, ReleaseInv
      <4> QED
        BY Zenon, <3>1, <3>2, <1>l, <3>7, <4>1 DEF Advance
    <3>8. ReleaseInv'
      BY Zenon, <3>6, <3>7 DEF ReleaseInv, Inside, P
    <3> QED
      BY Zenon, <1>t, <3>4, <3>5, <3>8 DEF LInv
  <2> QED
    BY Zenon, <2>1, <2>2, <2>3, <1>5 DEF UnlockFcntl
<1>6. ASSUME NEW c \in Client, UnlockRemove(c)
      PROVE  LInv'
  <2>1. cl[c].pc = "remove" /\ To(c, "close") /\ UNCHANGED <<cfg, lockIno, lastIno, calls>>
        /\ locked_files' = [locked_files EXCEPT ![P(c)] = FALSE] /\ UNCHANGED flock
    BY Zenon, <1>6 DEF UnlockRemove, CloseFd
  <2>2. Advance(c, {"close"})
    BY Zenon, Advances, <1>l, <2>1 DEF Pc
  <2>4. CallInv'
    BY Zenon, <2>1, <2>2, <1>l DEF LInv, CallInv, Advance, Typed
  <2>5. FlockInv'
    BY <2>1, <2>2, <1>l DEF LInv, FlockInv, CallInv, Alone, P, Advance, Typed
  <2>6. ASSUME ~cfg'.faults, NEW p \in Process, locked_files'[p]
        PROVE  \E d \in Client : P(d) = p /\ Inside(d)'
    <3>1. PICK d \in Client : P(d) = p /\ Inside(d)
      BY Zenon, <2>1, <2>6, <1>l DEF LInv, ReleaseInv, Typed
    <3> QED
      BY Zenon, <2>1, <2>2, <1>l, <2>6, <3>1 DEF Inside, Advance, Typed
  <2>7. ASSUME ~cfg'.faults, NEW i \in 1..MaxCalls, flock'[i] # NoProcess
        PROVE  \E d \in Client : P(d) = flock'[i] /\ cl'[d].pc = "held" /\ cl'[d].ino = i
    <3>1. PICK d \in Client : P(d) = flock[i] /\ cl[d].pc = "held" /\ cl[d].ino = i
      BY Zenon, <2>1, <2>2, <1>l, <2>7 DEF LInv, ReleaseInv
    <3> QED
      BY Zenon, <2>1, <2>2, <1>l, <2>7, <3>1 DEF Advance
  <2>8. ReleaseInv'
    BY Zenon, <2>6, <2>7 DEF ReleaseInv, Inside, P
  <2> QED
    BY Zenon, <1>t, <2>4, <2>5, <2>8 DEF LInv
<1>7. ASSUME NEW c \in Client, UnlockClose(c)
      PROVE  LInv'
  <2>1. cl[c].pc = "close" /\ To(c, IF cl[c].op = "destroy" THEN "unlink" ELSE "idle") /\ UNCHANGED <<cfg, locked_files, lockIno, lastIno, calls>>
        /\ flock' = Unflock(c)
    BY Zenon, <1>7 DEF UnlockClose, CloseFd
  <2>2. Advance(c, IF cl[c].op = "destroy" THEN {"unlink"} ELSE {"idle"})
    BY Zenon, Advances, <1>l, <2>1 DEF Pc
  <2>3. /\ \A i \in 1..MaxCalls : flock'[i] # NoProcess => flock'[i] = flock[i]
        /\ Alone => \A d \in Client :
             d # c /\ cl[d].pc = "held" => flock'[cl[d].ino] = flock[cl[d].ino]
    BY Zenon, <2>1, Unflocks
  <2>4. CallInv'
    BY Zenon, <2>1, <2>2, <1>l, <2>3 DEF LInv, CallInv, Advance, Typed
  <2>5. FlockInv'
    <3>1. Alone => cl'[c].pc = "idle"
      BY Zenon, <2>1, <2>2 DEF LInv, CallInv, Alone, Advance
    <3> QED
      BY SMTT(30), <2>1, <2>2, <1>l, <2>3, <3>1 DEF LInv, FlockInv, CallInv, Alone, P, Advance, Typed
  <2>6. ASSUME ~cfg'.faults, NEW p \in Process, locked_files'[p]
        PROVE  \E d \in Client : P(d) = p /\ Inside(d)'
    <3>1. PICK d \in Client : P(d) = p /\ Inside(d)
      BY Zenon, <2>1, <2>6, <1>l DEF LInv, ReleaseInv, Typed
    <3> QED
      BY Zenon, <2>1, <2>2, <1>l, <2>3, <2>6, <3>1 DEF Inside, Advance, Typed
  <2>7. ASSUME ~cfg'.faults, NEW i \in 1..MaxCalls, flock'[i] # NoProcess
        PROVE  \E d \in Client : P(d) = flock'[i] /\ cl'[d].pc = "held" /\ cl'[d].ino = i
    <3>1. PICK d \in Client : P(d) = flock[i] /\ cl[d].pc = "held" /\ cl[d].ino = i
      BY Zenon, <2>1, <2>2, <1>l, <2>3, <2>7 DEF LInv, ReleaseInv
    <3> QED
      BY Zenon, <2>1, <2>2, <1>l, <2>3, <2>7, <3>1 DEF Advance
  <2>8. ReleaseInv'
    BY Zenon, <2>6, <2>7 DEF ReleaseInv, Inside, P
  <2> QED
    BY Zenon, <1>t, <2>4, <2>5, <2>8 DEF LInv
<1>8. ASSUME NEW c \in Client, UnlinkLock(c)
      PROVE  LInv'
  <2>1. cl[c].pc = "unlink" /\ To(c, "idle") /\ lockIno' = 0
        /\ UNCHANGED <<cfg, locked_files, lastIno, flock, calls>>
    BY Zenon, <1>8 DEF UnlinkLock, CloseFd
  <2>2. Advance(c, {"idle"})
    BY Zenon, Advances, <1>l, <2>1 DEF Pc
  <2>4. CallInv'
    <3>1. 0 <= lastIno /\ lastIno <= calls /\ calls <= MaxCalls
      BY <1>l DEF LInv, CallInv, Typed
    <3> QED
      BY Zenon, <2>1, <2>2, <3>1 DEF LInv, CallInv, Advance
  <2>5. FlockInv'
    BY Zenon, <2>1, <2>2, <1>l DEF LInv, FlockInv, CallInv, Alone, P, Advance, Typed
  <2>6. ASSUME ~cfg'.faults, NEW p \in Process, locked_files'[p]
        PROVE  \E d \in Client : P(d) = p /\ Inside(d)'
    <3>1. PICK d \in Client : P(d) = p /\ Inside(d)
      BY Zenon, <2>1, <2>6, <1>l DEF LInv, ReleaseInv, Typed
    <3> QED
      BY Zenon, <2>1, <2>2, <1>l, <2>6, <3>1 DEF Inside, Advance, Typed
  <2>7. ASSUME ~cfg'.faults, NEW i \in 1..MaxCalls, flock'[i] # NoProcess
        PROVE  \E d \in Client : P(d) = flock'[i] /\ cl'[d].pc = "held" /\ cl'[d].ino = i
    <3>1. PICK d \in Client : P(d) = flock[i] /\ cl[d].pc = "held" /\ cl[d].ino = i
      BY Zenon, <2>1, <2>2, <1>l, <2>7 DEF LInv, ReleaseInv
    <3> QED
      BY Zenon, <2>1, <2>2, <1>l, <2>7, <3>1 DEF Advance
  <2>8. ReleaseInv'
    BY Zenon, <2>6, <2>7 DEF ReleaseInv, Inside, P
  <2> QED
    BY Zenon, <1>t, <2>4, <2>5, <2>8 DEF LInv
<1>9. ASSUME NEW p \in Process, Exit(p)
      PROVE  LInv'
  <2>1. /\ UNCHANGED <<cfg, lockIno, lastIno, calls>>
        /\ \A d \in Client : P(d) = p => cl'[d] = Quiet
        /\ \A d \in Client : P(d) # p => cl'[d] = cl[d]
        /\ ~locked_files'[p] /\ \A q \in Process : q # p => locked_files'[q] = locked_files[q]
        /\ \A i \in 1..MaxCalls : flock'[i] = IF flock[i] = p THEN NoProcess ELSE flock[i]
    BY Zenon, <1>9, <1>l DEF Exit, Typed
  <2>2. CallInv'
    BY <2>1, <1>l DEF LInv, CallInv, Quiet, Typed
  <2>3. FlockInv'
    <3> SUFFICES ASSUME Alone', NEW d \in Client, cl'[d].pc # "idle"
                 PROVE  /\ cl'[d].ino = lockIno' /\ lockIno' # 0 /\ cl'[d].pc # "unlink"
                        /\ cl'[d].pc = "held" => flock'[cl'[d].ino] = P(d)
      BY Zenon DEF FlockInv, P
    <3>1. Alone /\ P(d) # p /\ cl'[d] = cl[d]
      BY <2>1 DEF Alone, Quiet, P
    <3>2. cl[d].ino \in 1..MaxCalls
      BY <3>1, <1>l DEF LInv, FlockInv, CallInv, Typed, Setting
    <3> QED
      BY Zenon, <2>1, <3>1, <3>2 DEF LInv, FlockInv
  <2>4. ASSUME ~cfg'.faults, NEW q \in Process, locked_files'[q]
        PROVE  \E d \in Client : P(d) = q /\ Inside(d)'
    <3>1. PICK d \in Client : P(d) = q /\ Inside(d)
      BY Zenon, <2>1, <2>4 DEF LInv, ReleaseInv
    <3> QED
      BY Zenon, <2>1, <2>4, <3>1 DEF Inside
  <2>5. ASSUME ~cfg'.faults, NEW i \in 1..MaxCalls, flock'[i] # NoProcess
        PROVE  \E d \in Client : P(d) = flock'[i] /\ cl'[d].pc = "held" /\ cl'[d].ino = i
    <3>1. PICK d \in Client : P(d) = flock[i] /\ cl[d].pc = "held" /\ cl[d].ino = i
      BY Zenon, <2>1, <2>5 DEF LInv, ReleaseInv
    <3> QED
      BY Zenon, <2>1, <2>5, <3>1
  <2> QED
    BY Zenon, <1>t, <2>2, <2>3, <2>4, <2>5 DEF LInv, ReleaseInv, Inside, P
<1>10. CASE UNCHANGED vars
  BY <1>t, <1>10 DEF vars, LInv, CallInv, FlockInv, Alone, ReleaseInv, Inside, P
<1> QED
  BY Zenon, <1>1, <1>2, <1>3, <1>4, <1>5, <1>6, <1>7, <1>8, <1>9, <1>10 DEF Next

(* LockFile between processes, in the posix build: as long as each process *)
(* has one caller at a time and nobody runs DestroyDB, at most one caller  *)
(* holds the database, with exits of processes at any step.                *)
THEOREM RecordLockExcludes == ASSUME Setting PROVE Spec => []OneHolderBetween
<1>1. ASSUME Setting, LInv
      PROVE  OneHolderBetween
  <2> SUFFICES ASSUME Alone, NEW c \in Holders, NEW d \in Holders
               PROVE  c = d
    BY Zenon DEF OneHolderBetween, Alone
  <2>1. P(c) = P(d)
    BY Zenon, <1>1 DEF LInv, FlockInv, Holders
  <2>2. c \in cfg.clients /\ d \in cfg.clients
    BY Zenon, <1>1 DEF LInv, CallInv, Holders
  <2> QED
    BY Zenon, <2>1, <2>2 DEF Alone
<1> QED
  BY LockInit, LockNext, <1>1, PTL DEF Spec

(* Every way out of LockFile and UnlockFile gives back the table entry and *)
(* the record lock: with nobody in a call or holding the database, none is *)
(* left, in both builds, unless fcntl(F_UNLCK) fails.                      *)
THEOREM LocksGivenBack == ASSUME Setting PROVE Spec => []NothingLeft
<1>1. ASSUME Setting, LInv
      PROVE  NothingLeft
  <2> SUFFICES ASSUME ~cfg.faults, \A c \in Client : cl[c].pc = "idle"
               PROVE  /\ \A p \in Process : ~locked_files[p]
                      /\ \A i \in DOMAIN flock : flock[i] = NoProcess
    BY Zenon DEF NothingLeft
  <2>1. DOMAIN flock = 1..MaxCalls
    BY Zenon, <1>1 DEF LInv, TInv, Typed
  <2> QED
    BY Zenon, <1>1, <2>1 DEF LInv, ReleaseInv, Inside
<1> QED
  BY LockInit, LockNext, <1>1, PTL DEF Spec

(* The lock of a database, for any processes, callers and number of calls: *)
(* LockFile lets one caller of a process in, and one process at a time     *)
(* under the conditions of OneHolderBetween, and UnlockFile leaves nothing *)
(* behind.                                                                 *)
THEOREM LockIsExclusive == Spec => []LockExcludes
<1>1. Setting
  BY Zenon, LockAssumption DEF Setting
<1>2. OneHolderPerProcess /\ OneHolderBetween /\ NothingLeft => LockExcludes
  BY Zenon DEF LockExcludes
<1> QED
  BY <1>1, <1>2, LockTableExcludes, RecordLockExcludes, LocksGivenBack, PTL

-----------------------------------------------------------------------------
(***************************************************************************)
(* The background thread.                                                  *)
(***************************************************************************)
CONSTANTS DB, MaxItems, NoDB
VARIABLES queue, started, bg, signalled, work, scheduled, ran
Work == INSTANCE EnvSchedule

(* The thread is there once somebody has called Schedule, the item it runs *)
(* is a database's, and it sleeps on work only with a signal on its way.   *)
WakeInv ==
  /\ queue \in Seq(DB)
  /\ bg \in {"none", "start", "wait", "run"}
  /\ started <=> bg # "none"
  /\ bg = "none" => queue = <<>>
  /\ bg = "run" => work \in DB
  /\ bg = "wait" /\ queue # <<>> => signalled

LEMMA WakeInit == Work!Init => WakeInv
  BY DEF Work!Init, WakeInv

(* The thread takes an item or goes to sleep on an empty queue.            *)
LEMMA TakeItemWake == WakeInv /\ Work!TakeItem /\ UNCHANGED started /\ bg # "none" => WakeInv'
<1> SUFFICES ASSUME WakeInv, Work!TakeItem, UNCHANGED started, bg # "none"
             PROVE  WakeInv'
  BY Zenon
<1>1. CASE queue = <<>>
  BY Zenon, <1>1 DEF Work!TakeItem, WakeInv
<1>2. CASE queue # <<>>
  <2>1. Head(queue) \in DB /\ Tail(queue) \in Seq(DB)
    BY <1>2 DEF WakeInv
  <2> QED
    BY Zenon, <1>2, <2>1 DEF Work!TakeItem, WakeInv
<1> QED
  BY Zenon, <1>1, <1>2

LEMMA WakeNext == WakeInv /\ [Work!Next]_(Work!vars) => WakeInv'
<1> SUFFICES ASSUME WakeInv, [Work!Next]_(Work!vars)
             PROVE  WakeInv'
  BY Zenon
<1>1. ASSUME NEW d \in DB, Work!ScheduleCall(d)
      PROVE  WakeInv'
  <2>1. Append(queue, d) \in Seq(DB)
    BY DEF WakeInv
  <2> QED
    BY Zenon, <1>1, <2>1 DEF Work!ScheduleCall, Work!Schedule, WakeInv
<1>2. CASE Work!BackgroundThreadMain
  BY Zenon, <1>2, TakeItemWake DEF Work!BackgroundThreadMain
<1>3. CASE Work!SpuriousWakeup
  BY Zenon, <1>3, TakeItemWake DEF Work!SpuriousWakeup
<1>4. CASE Work!RunItem
  <2>1. work \in DB /\ Append(queue, work) \in Seq(DB) /\ started
    BY <1>4 DEF Work!RunItem, WakeInv
  <2> QED
    BY Zenon, <1>4, <2>1 DEF Work!RunItem, WakeInv
<1>5. CASE UNCHANGED Work!vars
  BY Zenon, <1>5 DEF Work!vars, WakeInv
<1> QED
  BY Zenon, <1>1, <1>2, <1>3, <1>4, <1>5 DEF Work!Next

(* Schedule signals before it pushes and only when the queue was empty;    *)
(* still the thread never sleeps, unsignalled, on a queue with work in it, *)
(* and is there whenever there is work.                                    *)
THEOREM NoLostWork == Work!Spec => []Work!NoSleepOnWork
<1>1. WakeInv => Work!NoSleepOnWork
  BY Zenon DEF WakeInv, Work!NoSleepOnWork
<1> QED
  BY WakeInit, WakeNext, <1>1, PTL DEF Work!Spec

-----------------------------------------------------------------------------
(***************************************************************************)
(* The threads of a benchmark.                                             *)
(***************************************************************************)
CONSTANTS N, Ops
VARIABLES method, pc, waiting, num_initialized, num_done, start, done, merged
Bench == INSTANCE BenchThreads

(* FLAGS_threads is positive.                                              *)
BenchSetting == N \in Nat \ {0}

Initialized == {i \in Bench!Tid : pc[i] # "init"}
Gone == {i \in Bench!Tid : pc[i] = "gone"}

(* The counters count; start is TRUE once the main thread has seen all     *)
(* threads initialized, nobody runs before, and it merges when all have    *)
(* counted themselves done.                                                *)
BenchInv ==
  /\ pc \in [Bench!Tid \union {Bench!Main} -> {"init", "wait", "run", "finish", "gone", "report"}]
  /\ start \in BOOLEAN
  /\ num_initialized = Cardinality(Initialized)
  /\ num_done = Cardinality(Gone)
  /\ start <=> pc[Bench!Main] # "init"
  /\ start => num_initialized = N
  /\ \A i \in Bench!Tid : pc[i] \in {"run", "finish", "gone"} => start
  /\ pc[Bench!Main] \in {"report", "gone"} => num_done = N

(* Counting threads.                                                       *)
LEMMA Threads ==
  ASSUME BenchSetting
  PROVE  /\ IsFiniteSet(Bench!Tid) /\ Cardinality(Bench!Tid) = N /\ Bench!Main \notin Bench!Tid
         /\ \A S \in SUBSET Bench!Tid :
              /\ IsFiniteSet(S) /\ Cardinality(S) \in Nat
              /\ Cardinality(S) <= N
              /\ Cardinality(S) = N => S = Bench!Tid
<1>1. IsFiniteSet(Bench!Tid) /\ Cardinality(Bench!Tid) = N
  <2>1. 0 \in Int /\ N - 1 \in Int /\ ~(0 > N - 1) /\ (N - 1) - 0 + 1 = N
    BY DEF BenchSetting
  <2> QED
    BY Zenon, <2>1, FS_Interval DEF Bench!Tid
<1>2. Bench!Main \notin Bench!Tid
  BY DEF Bench!Main, Bench!Tid
<1>3. ASSUME NEW S \in SUBSET Bench!Tid
      PROVE  /\ IsFiniteSet(S) /\ Cardinality(S) \in Nat
             /\ Cardinality(S) <= N /\ (Cardinality(S) = N => S = Bench!Tid)
  BY Zenon, <1>1, FS_Subset, FS_CardinalityType
<1> QED
  BY Zenon, <1>1, <1>2, <1>3

LEMMA BenchInit == BenchSetting /\ Bench!Init => BenchInv
<1> SUFFICES ASSUME BenchSetting, Bench!Init
             PROVE  BenchInv
  BY Zenon
<1>1. Initialized = {} /\ Gone = {}
  BY Zenon DEF Bench!Init, Initialized, Gone
<1>2. Cardinality(Initialized) = 0 /\ Cardinality(Gone) = 0
  BY Zenon, <1>1, FS_EmptySet
<1> QED
  BY Zenon, <1>2 DEF Bench!Init, BenchInv, Bench!Main

(* A step that moves one thread between two places that count the same.    *)
LEMMA ThreadMoves ==
  ASSUME BenchSetting, BenchInv, NEW p \in Bench!Tid \union {Bench!Main},
         NEW q \in {"init", "wait", "run", "finish", "gone", "report"},
         pc' = [pc EXCEPT ![p] = q],
         p \in Bench!Tid => (pc[p] = "init" <=> q = "init") /\ (pc[p] = "gone" <=> q = "gone")
  PROVE  Initialized' = Initialized /\ Gone' = Gone
  BY Zenon, Threads DEF BenchInv, Initialized, Gone

LEMMA BenchNext == BenchSetting /\ BenchInv /\ [Bench!Next]_(Bench!vars) => BenchInv'
<1> SUFFICES ASSUME BenchSetting, BenchInv, [Bench!Next]_(Bench!vars)
             PROVE  BenchInv'
  BY Zenon
<1> USE Threads
<1>1. ASSUME NEW i \in Bench!Tid, Bench!Initialize(i)
      PROVE  BenchInv'
  <2>1. pc[i] = "init" /\ pc' = [pc EXCEPT ![i] = IF start THEN "run" ELSE "wait"]
        /\ num_initialized' = num_initialized + 1 /\ UNCHANGED <<num_done, start>>
    BY Zenon, <1>1 DEF Bench!Initialize
  <2>2. Initialized' = Initialized \cup {i} /\ i \notin Initialized /\ Gone' = Gone
    BY Zenon, <2>1 DEF BenchInv, Initialized, Gone
  <2>3. Initialized \in SUBSET Bench!Tid /\ Initialized # Bench!Tid
    BY Zenon, <2>2 DEF Initialized
  <2>4. ~start
    BY Zenon, <2>3 DEF BenchInv
  <2>5. Cardinality(Initialized') = Cardinality(Initialized) + 1
    BY Zenon, <2>2, <2>3, FS_AddElement
  <2> QED
    BY Zenon, <2>1, <2>2, <2>4, <2>5 DEF BenchInv
<1>2. ASSUME NEW i \in Bench!Tid, Bench!WaitStart(i)
      PROVE  BenchInv'
  <2>1. CASE start
    <3>1. pc[i] = "wait" /\ pc' = [pc EXCEPT ![i] = "run"] /\ UNCHANGED <<num_initialized, num_done, start>>
      BY Zenon, <1>2, <2>1 DEF Bench!WaitStart
    <3>2. Initialized' = Initialized /\ Gone' = Gone
      BY Zenon, <3>1, ThreadMoves
    <3> QED
      BY Zenon, <2>1, <3>1, <3>2 DEF BenchInv
  <2>2. CASE ~start
    BY Zenon, <1>2, <2>2 DEF Bench!WaitStart, BenchInv, Initialized, Gone
  <2> QED
    BY Zenon, <2>1, <2>2
<1>3. ASSUME NEW i \in Bench!Tid, Bench!WriteWhileReading(i) \/ Bench!MethodReturns(i)
      PROVE  BenchInv'
  <2>1. pc[i] = "run" /\ pc' = [pc EXCEPT ![i] = "finish"] /\ UNCHANGED <<num_initialized, num_done, start>>
    BY Zenon, <1>3 DEF Bench!WriteWhileReading, Bench!MethodReturns
  <2>2. Initialized' = Initialized /\ Gone' = Gone
    BY Zenon, <2>1, ThreadMoves
  <2> QED
    BY Zenon, <2>1, <2>2 DEF BenchInv
<1>4. ASSUME NEW i \in Bench!Tid, Bench!Finish(i)
      PROVE  BenchInv'
  <2>1. pc[i] = "finish" /\ pc' = [pc EXCEPT ![i] = "gone"]
        /\ num_done' = num_done + 1 /\ UNCHANGED <<num_initialized, start>>
    BY Zenon, <1>4 DEF Bench!Finish
  <2>2. Gone' = Gone \cup {i} /\ i \notin Gone /\ Initialized' = Initialized
    BY Zenon, <2>1 DEF BenchInv, Initialized, Gone
  <2>3. Gone \in SUBSET Bench!Tid /\ Gone # Bench!Tid
    BY Zenon, <2>2 DEF Gone
  <2>4. pc[Bench!Main] \notin {"report", "gone"}
    BY Zenon, <2>3 DEF BenchInv
  <2>5. Cardinality(Gone') = Cardinality(Gone) + 1
    BY Zenon, <2>2, <2>3, FS_AddElement
  <2> QED
    BY Zenon, <2>1, <2>2, <2>4, <2>5 DEF BenchInv
<1>5. CASE Bench!MainStart
  <2>1. CASE num_initialized < N
    BY Zenon, <1>5, <2>1 DEF Bench!MainStart, BenchInv, Initialized, Gone
  <2>2. CASE ~(num_initialized < N)
    <3>1. pc[Bench!Main] = "init" /\ pc' = [pc EXCEPT ![Bench!Main] = "wait"] /\ start' = TRUE
          /\ UNCHANGED <<num_initialized, num_done>>
      BY Zenon, <1>5, <2>2 DEF Bench!MainStart
    <3>2. Initialized' = Initialized /\ Gone' = Gone
      BY Zenon, <3>1, ThreadMoves
    <3>3. num_initialized = N
      <4>1. Initialized \in SUBSET Bench!Tid
        BY Zenon DEF Initialized
      <4>2. num_initialized \in Nat /\ num_initialized <= N
        BY Zenon, <4>1 DEF BenchInv
      <4> QED
        BY <2>2, <4>2 DEF BenchSetting
    <3> QED
      BY Zenon, <3>1, <3>2, <3>3 DEF BenchInv
  <2> QED
    BY Zenon, <2>1, <2>2
<1>6. CASE Bench!MainWait
  <2>1. CASE num_done < N
    BY Zenon, <1>6, <2>1 DEF Bench!MainWait, BenchInv, Initialized, Gone
  <2>2. CASE ~(num_done < N)
    <3>1. pc[Bench!Main] = "wait" /\ pc' = [pc EXCEPT ![Bench!Main] = "report"]
          /\ UNCHANGED <<num_initialized, num_done, start>>
      BY Zenon, <1>6, <2>2 DEF Bench!MainWait
    <3>2. Initialized' = Initialized /\ Gone' = Gone
      BY Zenon, <3>1, ThreadMoves
    <3>3. num_done = N
      <4>1. Gone \in SUBSET Bench!Tid
        BY Zenon DEF Gone
      <4>2. num_done \in Nat /\ num_done <= N
        BY Zenon, <4>1 DEF BenchInv
      <4> QED
        BY <2>2, <4>2 DEF BenchSetting
    <3> QED
      BY Zenon, <3>1, <3>2, <3>3 DEF BenchInv
  <2> QED
    BY Zenon, <2>1, <2>2
<1>7. CASE Bench!MainReport
  <2>1. pc[Bench!Main] = "report" /\ pc' = [pc EXCEPT ![Bench!Main] = "gone"]
        /\ UNCHANGED <<num_initialized, num_done, start>>
    BY Zenon, <1>7 DEF Bench!MainReport
  <2>2. Initialized' = Initialized /\ Gone' = Gone
    BY Zenon, <2>1, ThreadMoves
  <2> QED
    BY Zenon, <2>1, <2>2 DEF BenchInv
<1>8. CASE UNCHANGED <<pc, num_initialized, num_done, start>>
  BY Zenon, <1>8 DEF BenchInv, Initialized, Gone
<1> QED
  BY Zenon, <1>1, <1>2, <1>3, <1>4, <1>5, <1>6, <1>7, <1>8
     DEF Bench!Next, Bench!Worker, Bench!MainThread, Bench!RunOp, Bench!SpuriousWakeup, Bench!vars

(* RunBenchmark and ThreadBody: no thread measures before all are          *)
(* initialized, and the main thread merges and frees the Stats only when   *)
(* every thread has left, with wakeups at any time.                        *)
THEOREM BenchSynchronised == ASSUME BenchSetting PROVE Bench!Spec => []Bench!BenchStartsTogether
<1>1. ASSUME BenchSetting, BenchInv
      PROVE  Bench!BenchStartsTogether
  <2>1. Gone \in SUBSET Bench!Tid
    BY Zenon DEF Gone
  <2>2. pc[Bench!Main] \in {"report", "gone"} => Gone = Bench!Tid
    BY Zenon, <1>1, <2>1, Threads DEF BenchInv
  <2> QED
    BY Zenon, <1>1, <2>2 DEF BenchInv, Bench!BenchStartsTogether, Gone
<1> QED
  BY BenchInit, BenchNext, <1>1, PTL DEF Bench!Spec
=============================================================================
