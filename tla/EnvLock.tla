------------------------------- MODULE EnvLock -------------------------------
(***************************************************************************)
(* The lock of a database: PosixEnv::LockFile and UnlockFile with the      *)
(* process's PosixLockTable (util/env_posix.cc), as DB::Open, ~DBImpl and  *)
(* DestroyDB (db/db_impl.cc) use them, in several processes at once.       *)
(*                                                                         *)
(* External: the LOCK file is an inode that DestroyDB may unlink; fcntl    *)
(* record locks belong to a process and an inode, and closing any          *)
(* descriptor of the inode gives up the process's lock on it (POSIX).  In  *)
(* the uFS build LockOrUnlock does nothing.                                *)
(***************************************************************************)
EXTENDS Integers, FiniteSets

CONSTANTS
  Process,
  Client,        \* callers of DB::Open and DestroyDB
  ProcessOf,     \* the process of each
  LockSettings,  \* the settings to consider:
                 \*   build    "posix" or "ufs" (JL_LIBCFS)
                 \*   clients  who takes part
                 \*   ops      "open", "destroy"
                 \*   faults   fcntl(F_UNLCK) may fail
  MaxCalls,      \* bound on the calls
  NoProcess

ASSUME LockAssumption ==
  /\ ProcessOf \in [Client -> Process]
  /\ NoProcess \notin Process
  /\ MaxCalls \in Nat

VARIABLES
  cfg,           \* the setting of this behaviour
  locked_files,  \* each process's PosixLockTable: does it have the file
  lockIno,       \* external: the inode named LOCK, 0 when there is none
  lastIno,       \* external: the newest inode
  flock,         \* external: the process holding the record lock of each inode
  cl,            \* each client: where it is, what for, its descriptor's inode
  calls

vars == <<cfg, locked_files, lockIno, lastIno, flock, cl, calls>>

Quiet == [pc |-> "idle", op |-> "open", ino |-> 0]
To(c, pc) == cl' = [cl EXCEPT ![c].pc = pc]
P(c) == ProcessOf[c]
Holders == {c \in Client : cl[c].pc = "held"}

(* LockOrUnlock: F_SETLK with F_WRLCK, and with F_UNLCK.                   *)
CanLock(c) ==
  cfg.build = "posix" => flock[cl[c].ino] \in {P(c), NoProcess}
SetFlock(c) ==
  IF cfg.build = "posix" THEN [flock EXCEPT ![cl[c].ino] = P(c)] ELSE flock
Unflock(c) ==
  [flock EXCEPT ![cl[c].ino] = IF @ = P(c) THEN NoProcess ELSE @]

(* close(fd) takes the process's record lock of the inode with it.         *)
CloseFd(c) == flock' = Unflock(c)

(* LockFile: open with O_CREAT.  DB::Open has created the directory.       *)
OpenLockFile(c, op) ==
  /\ c \in cfg.clients /\ op \in cfg.ops
  /\ cl[c].pc = "idle"
  /\ calls < MaxCalls /\ calls' = calls + 1
  /\ op = "destroy" => lockIno # 0
  /\ \E ino \in {IF lockIno = 0 THEN lastIno + 1 ELSE lockIno} :
       /\ lockIno' = ino
       /\ lastIno' = IF lockIno = 0 THEN ino ELSE lastIno
       /\ cl' = [cl EXCEPT ![c] = [pc |-> "insert", op |-> op, ino |-> ino]]
  /\ UNCHANGED <<cfg, locked_files, flock>>

MutInsertLock(c) ==
  /\ cl[c].pc = "insert"
  /\ locked_files' = [locked_files EXCEPT ![P(c)] = TRUE]
  /\ To(c, "setlk")
  /\ UNCHANGED <<cfg, lockIno, lastIno, calls, flock>>

(* locks_.Insert: when the process has the file locked already, the new    *)
(* descriptor is closed and the call fails.                                *)
InsertLock(c) ==
  /\ cl[c].pc = "insert"
  /\ \/ /\ ~locked_files[P(c)]
        /\ locked_files' = [locked_files EXCEPT ![P(c)] = TRUE]
        /\ To(c, "setlk")
        /\ UNCHANGED flock
     \/ /\ locked_files[P(c)]
        /\ CloseFd(c)
        /\ To(c, "idle")
        /\ UNCHANGED locked_files
  /\ UNCHANGED <<cfg, lockIno, lastIno, calls>>

(* LockOrUnlock(fd, true); on failure close, then locks_.Remove.           *)
SetLock(c) ==
  /\ cl[c].pc = "setlk"
  /\ \/ CanLock(c) /\ flock' = SetFlock(c) /\ To(c, "held")
     \/ ~CanLock(c) /\ CloseFd(c) /\ To(c, "unwind")
  /\ UNCHANGED <<cfg, locked_files, lockIno, lastIno, calls>>

Unwind(c) ==
  /\ cl[c].pc = "unwind"
  /\ locked_files' = [locked_files EXCEPT ![P(c)] = FALSE]
  /\ To(c, "idle")
  /\ UNCHANGED <<cfg, lockIno, lastIno, flock, calls>>

(* UnlockFile, from ~DBImpl and from DestroyDB when the files are gone:    *)
(* LockOrUnlock(fd, false), locks_.Remove, close.  When fcntl fails, it    *)
(* returns with the lock kept.                                             *)
UnlockFcntl(c) ==
  /\ cl[c].pc = "held"
  /\ \/ /\ flock' = IF cfg.build = "posix" THEN Unflock(c) ELSE flock
        /\ To(c, "remove")
     \/ /\ cfg.faults /\ cfg.build = "posix"
        /\ To(c, IF cl[c].op = "destroy" THEN "unlink" ELSE "idle")
        /\ UNCHANGED flock
  /\ UNCHANGED <<cfg, locked_files, lockIno, lastIno, calls>>

UnlockRemove(c) ==
  /\ cl[c].pc = "remove"
  /\ locked_files' = [locked_files EXCEPT ![P(c)] = FALSE]
  /\ To(c, "close")
  /\ UNCHANGED <<cfg, lockIno, lastIno, flock, calls>>

UnlockClose(c) ==
  /\ cl[c].pc = "close"
  /\ CloseFd(c)
  /\ To(c, IF cl[c].op = "destroy" THEN "unlink" ELSE "idle")
  /\ UNCHANGED <<cfg, locked_files, lockIno, lastIno, calls>>

(* The end of DestroyDB: DeleteFile(lockname), DeleteDir.                  *)
UnlinkLock(c) ==
  /\ cl[c].pc = "unlink"
  /\ lockIno' = 0
  /\ To(c, "idle")
  /\ UNCHANGED <<cfg, locked_files, lastIno, flock, calls>>

(* A process exits: the system closes its descriptors.                     *)
Exit(p) ==
  /\ \E c \in Client : P(c) = p /\ cl[c].pc # "idle"
  /\ cl' = [c \in Client |-> IF P(c) = p THEN Quiet ELSE cl[c]]
  /\ locked_files' = [locked_files EXCEPT ![p] = FALSE]
  /\ flock' = [i \in DOMAIN flock |-> IF flock[i] = p THEN NoProcess ELSE flock[i]]
  /\ UNCHANGED <<cfg, lockIno, lastIno, calls>>

Init ==
  /\ cfg \in LockSettings
  /\ locked_files = [p \in Process |-> FALSE]
  /\ lockIno = 0 /\ lastIno = 0
  /\ flock = [i \in 1..MaxCalls |-> NoProcess]
  /\ cl = [c \in Client |-> Quiet]
  /\ calls = 0

Next ==
  \/ \E c \in Client :
       \/ \E op \in {"open", "destroy"} : OpenLockFile(c, op)
       \/ InsertLock(c) \/ SetLock(c) \/ Unwind(c)
       \/ UnlockFcntl(c) \/ UnlockRemove(c) \/ UnlockClose(c) \/ UnlinkLock(c)
  \/ \E p \in Process : Exit(p)

Spec == Init /\ [][Next]_vars

-----------------------------------------------------------------------------
TypeOK ==
  /\ locked_files \in [Process -> BOOLEAN]
  /\ lockIno \in 0..lastIno
  /\ flock \in [1..MaxCalls -> Process \union {NoProcess}]
  /\ \A c \in Client : cl[c].ino \in 0..lastIno

(* The lock table: in one process at most one DB::Open or DestroyDB has    *)
(* the database, in every build and interleaving.                          *)
OneHolderPerProcess ==
  \A c, d \in Holders : P(c) = P(d) => c = d

(* Between processes the lock excludes as long as it is fcntl's (posix     *)
(* build), each process uses the database once at a time, and nobody       *)
(* destroys it.                                                            *)
OneHolderBetween ==
  /\ cfg.build = "posix" /\ "destroy" \notin cfg.ops
  /\ \A c, d \in cfg.clients : P(c) = P(d) => c = d
  => \A c, d \in Holders : c = d

(* When nobody uses the database, no lock is left behind: every exit of    *)
(* LockFile and UnlockFile takes back the table entry and the record lock. *)
NothingLeft ==
  ~cfg.faults /\ (\A c \in Client : cl[c].pc = "idle") =>
    /\ \A p \in Process : ~locked_files[p]
    /\ \A i \in DOMAIN flock : flock[i] = NoProcess

(* What the lock is for: one user per process, one process at a time, and  *)
(* nothing left behind (PosixEnv::LockFile, UnlockFile, PosixLockTable).   *)
LockExcludes == OneHolderPerProcess /\ OneHolderBetween /\ NothingLeft

(* env.h, LockFile: "Used to prevent concurrent access to the same db by   *)
(* multiple processes."                                                    *)
OneHolder == \A c, d \in Holders : c = d
=============================================================================
