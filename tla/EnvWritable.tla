----------------------------- MODULE EnvWritable -----------------------------
(***************************************************************************)
(* PosixWritableFile and FSPWritableFile (util/env_posix.cc) as leveldb    *)
(* uses them.  Each thread that touches a file has a write buffer of its   *)
(* own in it (buf_map_, pos_map_); Flush, Sync and Close write out the     *)
(* buffer of the calling thread only.  The clients are the log writer      *)
(* (log_writer.cc: logs and the MANIFEST, handed from thread to thread     *)
(* between records), the table builder (one thread) and                    *)
(* WriteStringToFile (env.cc).                                             *)
(*                                                                         *)
(* Data are units numbered in the order they are appended; a buffer holds  *)
(* BufSize of them.  The file system (external) may accept part of a       *)
(* write before it fails, may fail a sync or a close, and may write back   *)
(* unsynced data and names at any time.                                    *)
(***************************************************************************)
EXTENDS Integers, Sequences, FiniteSets

CONSTANTS
  Thread,     \* the threads that use the file
  Other,      \* names other threads create in the same directory
  BufSize,    \* kWritableFileBufferSize, in units
  MaxUnits,   \* bound on the units appended and on the size of the file
  MaxOpens    \* bound on the times the file is opened

VARIABLES
  build,      \* "posix", or "ufs" (JL_LIBCFS)
  kind,       \* the client: "log", "MANIFEST", "table" (a memtable's),
              \* "output" (a compaction's) or "string"
  wf,         \* the file object
  data,       \* external: the contents of the file
  durable,    \* external: how many units survive a machine crash
  names,      \* external: the names in the directory
  dnames,     \* external: those that survive a machine crash
  pc,         \* where the running Sync is
  want,       \* the units appended with status OK, and what the file held
  failed,     \* some operation on the file object returned an error
  synced,     \* the Sync that returned OK last: what it has to cover
  threw,      \* an exception left the Env
  opens

vars == <<build, kind, wf, data, durable, names, dnames, pc, want, failed,
          synced, threw, opens>>

File == "file"   \* the name of the file
Garbage == 0     \* what an uninitialised buffer holds

Closed == [fd |-> FALSE, live |-> FALSE, turn |-> CHOOSE t \in Thread : TRUE,
           buf_map |-> {}, pos |-> [t \in Thread |-> <<>>], dirty |-> FALSE]

(* std::this_thread::get_id(): the thread that uses the file now.          *)
Me == wf.turn
IsManifest == kind = "MANIFEST"

(* An outcome of a method: what is left in the caller's buffer, what       *)
(* reached the file, and the status.                                       *)
Outcome(pos, out, st) == [pos |-> pos, out |-> out, st |-> st]

(* WriteUnbuffered: a short write is continued and EINTR retried, so all   *)
(* of d is written unless the file system returns an error on the way.     *)
WriteUnbuffered(d) ==
  {Outcome(<<>>, SubSeq(d, 1, k), IF k = Len(d) THEN "ok" ELSE "error") :
     k \in 0..Len(d)}

MutFlushKeepsPos(b) ==
  {[o EXCEPT !.pos = IF o.st = "ok" THEN <<>> ELSE b] : o \in WriteUnbuffered(b)}

(* FlushBuffer: the buffer is empty afterwards, written or not.            *)
FlushBuffer(b) == {[o EXCEPT !.pos = <<>>] : o \in WriteUnbuffered(b)}

(* The end of Append for data that do not fit a buffer even when it is     *)
(* empty.  In the uFS build a buffer is allocated, written without having  *)
(* been filled, and an exception thrown.                                   *)
AppendLarge(o, rest) ==
  IF build = "ufs"
    THEN {Outcome(<<>>, o.out \o [i \in 1..Len(w.out) |-> Garbage], "throw") :
            w \in WriteUnbuffered(rest)}
    ELSE {Outcome(<<>>, o.out \o w.out, w.st) : w \in WriteUnbuffered(rest)}

(* PosixWritableFile::Append, for a caller whose buffer holds b.           *)
Append_(b, d) ==
  LET n == BufSize - Len(b)
      rest == SubSeq(d, n + 1, Len(d))
  IN IF Len(d) <= n
       THEN {Outcome(b \o d, <<>>, "ok")}
       ELSE UNION {IF o.st # "ok" THEN {o}
                   ELSE IF Len(rest) < BufSize
                     THEN {Outcome(rest, o.out, "ok")}
                     ELSE AppendLarge(o, rest) :
                     o \in FlushBuffer(b \o SubSeq(d, 1, n))}

(* FSPWritableFile::Append: the same steps on the fs_*_ldb calls.          *)
FSPAppend(b, d) == Append_(b, d)

(* builder.cc, db_impl.cc: in the uFS build the logs and the tables of     *)
(* memtables are FSPWritableFiles; the outputs of compactions, the         *)
(* MANIFEST and CURRENT are PosixWritableFiles.                            *)
IsFSP == build = "ufs" /\ kind \in {"log", "table"}

AppendOf(b, d) == IF IsFSP THEN FSPAppend(b, d) ELSE Append_(b, d)

(* The calls f of a list, each made if the one before returned OK.         *)
Then(os, f(_)) ==
  UNION {IF o.st # "ok" THEN {o}
         ELSE {[p EXCEPT !.out = o.out \o p.out] : p \in f(o.pos)} : o \in os}

(* log::Writer::EmitPhysicalRecord: header, payload, Flush.                *)
EmitPhysicalRecord(b, header, payload) ==
  Then(Then(AppendOf(b, header), LAMBDA p : AppendOf(p, payload)), LAMBDA p : FlushBuffer(p))

(* TableBuilder::WriteRawBlock: contents and trailer, without a Flush.     *)
WriteRawBlock(b, contents, trailer) ==
  Then(AppendOf(b, contents), LAMBDA p : AppendOf(p, trailer))

-----------------------------------------------------------------------------
(* GetCurThreadBuf: the calling thread gets a buffer when it has none.     *)
GetCurThreadBuf == wf.buf_map \union {Me}

(* The effect of an outcome on the file object and the file.               *)
Apply(o) ==
  /\ wf' = [wf EXCEPT !.buf_map = GetCurThreadBuf, !.pos[Me] = o.pos, !.dirty = TRUE]
  /\ data' = data \o o.out
  /\ failed' = (failed \/ o.st # "ok")
  /\ threw' = (threw \/ o.st = "throw")

(* A client may call a method of the open file.  After an error the table  *)
(* builder and WriteStringToFile only destroy the file; the log writer     *)
(* goes on.                                                                *)
Idle ==
  /\ wf.fd /\ pc = "idle" /\ ~threw
  /\ failed => kind \in {"log", "MANIFEST"}

(* The next n units to append.                                             *)
Fresh(n) == [i \in 1..n |-> Len(want) + i]

(* One write of the client: a record of a log or MANIFEST, a block of a    *)
(* table, the string of WriteStringToFile.                                 *)
Write(n) ==
  /\ Idle
  /\ Len(want) + n <= MaxUnits /\ Len(data) + n <= MaxUnits
  /\ kind = "string" => ~wf.dirty
  /\ \E o \in CASE kind \in {"log", "MANIFEST"} ->
                     EmitPhysicalRecord(wf.pos[Me], SubSeq(Fresh(n), 1, 1), SubSeq(Fresh(n), 2, n))
              [] kind \in {"table", "output"} ->
                     WriteRawBlock(wf.pos[Me], SubSeq(Fresh(n), 1, n - 1), SubSeq(Fresh(n), n, n))
              [] OTHER -> AppendOf(wf.pos[Me], Fresh(n)) :
       /\ Apply(o)
       /\ want' = IF o.st = "ok" THEN want \o Fresh(n) ELSE want
  /\ synced' = FALSE
  /\ UNCHANGED <<build, kind, durable, names, dnames, pc, opens>>

(* TableBuilder::Flush at the end of a data block.                         *)
Flush ==
  /\ Idle
  /\ kind \in {"table", "output"}
  /\ \E o \in FlushBuffer(wf.pos[Me]) : Apply(o)
  /\ UNCHANGED <<build, kind, durable, names, dnames, pc, want, synced, opens>>

(* Sync, in three steps: the directory of a MANIFEST, the caller's buffer, *)
(* the file.  SyncDirIfManifest opens, syncs and closes the directory.     *)
SyncDirIfManifest ==
  /\ Idle
  /\ kind = "string" => wf.dirty
  /\ \/ /\ IsManifest
        /\ dnames' = names
        /\ pc' = "flush"
        /\ UNCHANGED failed
     \/ /\ IsManifest
        /\ failed' = TRUE
        /\ UNCHANGED <<dnames, pc>>
     \/ /\ ~IsManifest
        /\ pc' = "flush"
        /\ UNCHANGED <<dnames, failed>>
  /\ synced' = FALSE
  /\ UNCHANGED <<build, kind, wf, data, durable, names, want, threw, opens>>

FlushForSync ==
  /\ pc = "flush"
  /\ \E o \in FlushBuffer(wf.pos[Me]) :
       /\ Apply(o)
       /\ pc' = IF o.st = "ok" THEN "fd" ELSE "idle"
  /\ UNCHANGED <<build, kind, durable, names, dnames, want, synced, opens>>

SyncFlush == ~IsFSP /\ FlushForSync
FSPSyncFlush == IsFSP /\ FlushForSync

(* SyncFd: fdatasync or fsync.                                             *)
SyncData ==
  /\ pc = "fd"
  /\ \/ durable' = Len(data) /\ synced' = TRUE /\ UNCHANGED failed
     \/ failed' = TRUE /\ UNCHANGED <<durable, synced>>
  /\ pc' = "idle"
  /\ UNCHANGED <<build, kind, wf, data, names, dnames, want, threw, opens>>

SyncFd == ~IsFSP /\ SyncData
(* FSPWritableFile syncs with fs_wsync, which promises the same.           *)
FSPSyncFd == IsFSP /\ SyncData

(* Close: the caller's buffer, then the descriptor; fd_ = -1 in any case.  *)
Close ==
  /\ \E o \in FlushBuffer(wf.pos[Me]), st \in {"ok", "error"} :
       /\ wf' = [wf EXCEPT !.fd = FALSE, !.pos[Me] = <<>>, !.buf_map = GetCurThreadBuf]
       /\ data' = data \o o.out
       /\ failed' = (failed \/ o.st # "ok" \/ st # "ok")

(* The clients that call Close do it after Sync, in the thread that wrote. *)
CallClose ==
  /\ Idle
  /\ kind \in {"table", "output", "string"}
  /\ Close
  /\ synced' = FALSE
  /\ UNCHANGED <<build, kind, durable, names, dnames, pc, want, threw, opens>>

(* The destructor closes an open file and frees the buffer of the calling  *)
(* thread, which it asserts to exist.  A thread that ends a log            *)
(* (MakeRoomForWrite, ~DBImpl) need not have written to it.                *)
DestroyFile ==
  /\ wf.live
  /\ pc = "idle"
  /\ ~threw
  /\ IF wf.fd THEN Close ELSE UNCHANGED <<wf, data, failed>>
  /\ pc' = "destroy"
  /\ synced' = FALSE
  /\ UNCHANGED <<build, kind, durable, names, dnames, want, threw, opens>>

Destroy == ~IsFSP /\ DestroyFile
FSPDestroy == IsFSP /\ DestroyFile

(* A failed WriteStringToFile deletes the file.                            *)
FreeBuffer ==
  /\ pc = "destroy"
  /\ wf' = [wf EXCEPT !.live = FALSE, !.buf_map = @ \ {Me}]
  /\ names' = IF kind = "string" /\ failed THEN names \ {File} ELSE names
  /\ data' = IF kind = "string" /\ failed THEN <<>> ELSE data
  /\ durable' = IF kind = "string" /\ failed THEN 0 ELSE durable
  /\ pc' = "idle"
  /\ UNCHANGED <<build, kind, dnames, want, failed, synced, threw, opens>>

(* Another writer thread becomes the front of the queue, or another        *)
(* thread runs LogAndApply: between records, never within one.             *)
HandOff(t) ==
  /\ Idle
  /\ kind \in {"log", "MANIFEST"}
  /\ wf' = [wf EXCEPT !.turn = t]
  /\ UNCHANGED <<build, kind, data, durable, names, dnames, pc, want, failed, synced, threw, opens>>

Opened(t) == [Closed EXCEPT !.fd = TRUE, !.live = TRUE, !.turn = t]

(* open with O_TRUNC | O_CREAT, and with O_APPEND (for reuse_logs).        *)
OpenTrunc(t) ==
  /\ ~wf.live /\ pc = "idle" /\ ~threw
  /\ opens < MaxOpens
  /\ opens' = opens + 1
  /\ wf' = Opened(t)
  /\ names' = names \union {File}
  /\ data' = <<>> /\ want' = <<>> /\ durable' = 0
  /\ failed' = FALSE
  /\ UNCHANGED <<build, kind, dnames, pc, synced, threw>>

OpenAppend(t) ==
  /\ ~wf.live /\ pc = "idle" /\ ~threw
  /\ kind \in {"log", "MANIFEST"}
  /\ File \in names
  /\ opens < MaxOpens
  /\ opens' = opens + 1
  /\ wf' = Opened(t)
  /\ want' = data
  /\ failed' = FALSE
  /\ UNCHANGED <<build, kind, data, durable, names, dnames, pc, synced, threw>>

NewWritableFile(t) == ~IsFSP /\ OpenTrunc(t)
NewFSPWritableFile(t) == IsFSP /\ OpenTrunc(t)
NewAppendableFile(t) == ~IsFSP /\ OpenAppend(t)
NewFSPAppendableFile(t) == IsFSP /\ OpenAppend(t)

(* Another file is created in the directory: a table, the next log.        *)
CreateOther(n) ==
  /\ n \notin names /\ ~threw
  /\ names' = names \union {n}
  /\ UNCHANGED <<build, kind, wf, data, durable, dnames, pc, want, failed, synced, threw, opens>>

(* The file system writes back on its own.                                 *)
WriteBack ==
  /\ ~threw
  /\ \/ durable < Len(data) /\ durable' = durable + 1 /\ UNCHANGED dnames
     \/ \E n \in names \ dnames : dnames' = dnames \union {n} /\ UNCHANGED durable
  /\ UNCHANGED <<build, kind, wf, data, names, pc, want, failed, synced, threw, opens>>

Init ==
  /\ build \in {"posix", "ufs"}
  /\ kind \in {"log", "MANIFEST", "table", "output", "string"}
  /\ wf = Closed
  /\ data = <<>> /\ durable = 0 /\ names = {} /\ dnames = {}
  /\ pc = "idle" /\ want = <<>> /\ failed = FALSE /\ synced = FALSE
  /\ threw = FALSE /\ opens = 0

Next ==
  \/ \E n \in 1..MaxUnits : Write(n)
  \/ Flush \/ SyncDirIfManifest \/ SyncFlush \/ FSPSyncFlush \/ SyncFd \/ FSPSyncFd
  \/ CallClose \/ Destroy \/ FSPDestroy \/ FreeBuffer
  \/ \E t \in Thread :
       \/ HandOff(t) \/ NewWritableFile(t) \/ NewFSPWritableFile(t)
       \/ NewAppendableFile(t) \/ NewFSPAppendableFile(t)
  \/ \E n \in Other : CreateOther(n)
  \/ WriteBack

Spec == Init /\ [][Next]_vars

-----------------------------------------------------------------------------
TypeOK ==
  /\ build \in {"posix", "ufs"}
  /\ wf.buf_map \subseteq Thread
  /\ \A t \in Thread : wf.pos[t] \in Seq(0..MaxUnits) /\ Len(wf.pos[t]) <= BufSize
  /\ data \in Seq(0..MaxUnits)
  /\ want \in Seq(0..MaxUnits)
  /\ durable \in 0..Len(data)
  /\ dnames \subseteq names \union {File}
  /\ pc \in {"idle", "flush", "fd", "destroy"}

(* No thread leaves bytes behind in its buffer of a file when another      *)
(* thread takes the file over, or when the file is gone: Flush, Sync and   *)
(* Close would never write them (env_posix.cc:922).                        *)
NoStrandedBytes ==
  \A t \in Thread : wf.pos[t] # <<>> => wf.fd /\ t = wf.turn

(* As long as no call failed, the file and the caller's buffer together    *)
(* hold exactly what was appended, in the order of the calls, whichever    *)
(* threads made them.                                                      *)
FileIsAppends ==
  wf.live /\ ~failed => data \o wf.pos[Me] = want

(* When Sync has returned OK and no call failed before it, everything      *)
(* appended by any thread is durable, and so is the MANIFEST's own name.   *)
SyncCovers ==
  synced /\ ~failed =>
    /\ durable = Len(want)
    /\ IsManifest => File \in dnames

(* The destructor's assert(it != buf_map_.end()): the thread that destroys *)
(* a file has a buffer in it, also when it never wrote to the file.        *)
DestructorFindsBuffer ==
  pc = "destroy" => Me \in wf.buf_map
=============================================================================
