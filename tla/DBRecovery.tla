------------------------------ MODULE DBRecovery ------------------------------
(***************************************************************************)
(* What leveldb keeps on disk, and what survives a crash: write-ahead logs *)
(* (db_impl.cc), table files (builder.cc), MANIFEST and CURRENT            *)
(* (version_set.cc, filename.cc), the memtable flush and the compaction    *)
(* that replace them, DeleteObsoleteFiles, and DB::Open with Recover and   *)
(* RecoverLogFile.                                                         *)
(*                                                                         *)
(* The group commit of DBWrite is one step here: each write is one log     *)
(* record with one update of its own key, so compaction drops nothing.  A  *)
(* MANIFEST is the sequence of version states its edits build up: record i *)
(* is what VersionSet::Recover's Builder holds after i edits.              *)
(*                                                                         *)
(* File system: creating, renaming and deleting a file is durable at once  *)
(* and in order; a file's contents are durable up to the last Sync.  The   *)
(* mutex is held while obsolete files are deleted (doomed # {}).           *)
(***************************************************************************)
EXTENDS Integers, Sequences, FiniteSetsExt

CONSTANTS
  MaxWrites,    \* bound on the writes of a behaviour
  MaxFile,      \* bound on file numbers allocated while the database is open
  MaxEdits,     \* bound on the MANIFEST records before a trivial move
  MaxCrashes,   \* bound on crashes and closes
  Setting       \* the options and faults to consider:
                \*   reuse   options_.reuse_logs
                \*   power   the machine may crash, and not just the process
                \*   torn    a machine crash may leave part of a record
                \*   faults  appending to the log may fail part way

ASSUME BoundAssumption ==
  /\ MaxWrites \in Nat /\ MaxFile \in Nat /\ MaxEdits \in Nat
  /\ MaxCrashes \in Nat

ASSUME SettingAssumption ==
  Setting \subseteq
    [reuse : BOOLEAN, power : BOOLEAN, torn : BOOLEAN, faults : BOOLEAN]

VARIABLES
  env,         \* the setting of this behaviour
  logs,        \* disk: the records of each NNNNNN.log
  logSync,     \* disk: how many of them are durable
  tables,      \* disk: each NNNNNN.ldb, [data, synced]
  manifests,   \* disk: the version states recorded in each MANIFEST-NNNNNN
  manSync,     \* disk: how many of them are durable
  current,     \* disk: the MANIFEST named by CURRENT, 0 when there is none
  phase,       \* where DB::Open, or the process, is
  mem,         \* mem_
  imm,         \* imm_, {} when there is none
  hasImm,      \* imm_ != nullptr
  logNum,      \* logfile_number_
  nextFile,    \* VersionSet::next_file_number_
  lastSeq,     \* VersionSet::last_sequence_
  vLog,        \* VersionSet::log_number_
  manNum,      \* VersionSet::manifest_file_number_
  descOpen,    \* descriptor_log_ != nullptr
  cur,         \* the table files of VersionSet::current_
  pin,         \* the table files of a version held by an iterator
  pending,     \* pending_outputs_
  flush,       \* the file CompactMemTable is writing, 0 when none
  compact,     \* the running compaction: [step, inputs, base, outputs, out]
  apply,       \* the running LogAndApply: [by, step, v]
  doomed,      \* files DeleteObsoleteFiles has still to delete
  replay,      \* the locals of Recover: [logs, pos, added, save]
  writes,      \* number of writes acknowledged so far
  crashes,     \* number of crashes and closes so far
  owed,        \* history: writes acknowledged since, or synced before, the
               \* last machine crash
  promised,    \* history: synchronous writes acknowledged
  covered      \* history: what was readable when a synchronous write returned

diskVars == <<logs, logSync, tables, manifests, manSync, current>>
memVars  == <<mem, imm, hasImm, logNum>>
verVars  == <<nextFile, lastSeq, vLog, manNum, descOpen, cur>>
bgVars   == <<pending, flush, compact, apply>>
histVars == <<writes, owed, promised, covered>>
vars == <<env, diskVars, phase, memVars, verVars, pin, bgVars, doomed, replay,
          crashes, histVars>>

-----------------------------------------------------------------------------
Torn == [id |-> 0, seq |-> 0]
Entry == [id : 1 .. MaxWrites, seq : Nat]
VersionState == [files : SUBSET Nat, log : Nat, next : Nat, last : Nat]
NoCompaction ==
  [step |-> "none", inputs |-> {}, base |-> {}, outputs |-> {}, out |-> 0]
NoVersion == [files |-> {}, log |-> 0, next |-> 0, last |-> 0]
NoApply == [by |-> "none", step |-> "none", v |-> NoVersion]
NoReplay == [logs |-> {}, pos |-> 0, added |-> {}, save |-> FALSE]

Set(f, n, x) == [m \in DOMAIN f \cup {n} |-> IF m = n THEN x ELSE f[m]]

Prefix(s, n) == SubSeq(s, 1, n)

Elems(s) == {s[i] : i \in DOMAIN s}

(* log::Reader: what follows a damaged record in its block is dropped. *)
Readable(s) ==
  LET bad == {i \in DOMAIN s : s[i] = Torn}
  IN  IF bad = {} THEN s ELSE Prefix(s, Min(bad) - 1)

Data(files) == UNION {tables[n].data : n \in files}

Ids(entries) == {e.id : e \in entries}

Visible == mem \cup imm \cup Data(cur)

(* A file that BuildTable, or FinishCompactionOutputFile, has finished. *)
FinishedTable(data) == [data |-> data, synced |-> TRUE]

(* VersionSet::AddLiveFiles: the files of every version still referenced,   *)
(* by an iterator (pin) or by a compaction (held).                          *)
CurrentFilesOnly(files, held) == files

AddLiveFiles(files, held) == files \cup pin \cup held

(* The files that DeleteObsoleteFiles does not keep. *)
Obsolete(live, log) ==
  {<<"log", n>> : n \in {m \in DOMAIN logs : m < log}}
    \cup {<<"manifest", n>> : n \in {m \in DOMAIN manifests : m < manNum}}
    \cup {<<"table", n>> : n \in DOMAIN tables \ live}

LastSequenceKept(data) == lastSeq

(* Recover's max_sequence: at least what the MANIFEST recorded. *)
ReplayedSequence(data) == Max({lastSeq} \cup {e.seq : e \in data})

MarkFileNumberUsed(n) == Max({nextFile, n + 1})

-----------------------------------------------------------------------------
(* WriteSnapshot: a new MANIFEST starts from the whole version. *)
NewManifest(v) == <<v>>

(* VersionSet::LogAndApply, up to the append to the MANIFEST: the new      *)
(* version with the counters of this moment.  The first call of a process  *)
(* creates the MANIFEST.                                                   *)
LogAndApply(by, add, del, log) ==
  LET v == [files |-> (cur \ del) \cup add, log |-> log,
            next |-> nextFile', last |-> lastSeq]
  IN  /\ apply' = [by |-> by, step |-> "written", v |-> v]
      /\ manifests' = IF descOpen
                        THEN [manifests EXCEPT ![manNum] = Append(@, v)]
                        ELSE Set(manifests, manNum, NewManifest(v))
      /\ manSync' = IF descOpen THEN manSync ELSE Set(manSync, manNum, 0)
      /\ descOpen' = TRUE

(* descriptor_file_->Sync() *)
ManifestSync ==
  /\ apply.step = "written"
  /\ apply' = [apply EXCEPT !.step = "synced"]
  /\ manSync' = [manSync EXCEPT ![manNum] = Len(manifests[manNum])]
  /\ UNCHANGED <<logs, logSync, tables, manifests, current, phase, memVars,
                 verVars, pin, pending, flush, compact, doomed, replay,
                 crashes, histVars>>

(* SetCurrentFile: a synced temporary file renamed over CURRENT. *)
SetCurrentFile ==
  /\ apply.step = "synced" /\ current # manNum
  /\ current' = manNum
  /\ UNCHANGED <<logs, logSync, tables, manifests, manSync, phase, memVars,
                 verVars, pin, bgVars, doomed, replay, crashes, histVars>>

(* The end of LogAndApply, once the MANIFEST is durable and named. *)
InstallVersion(by) ==
  /\ apply.by = by /\ apply.step = "synced" /\ current = manNum
  /\ cur' = apply.v.files
  /\ vLog' = apply.v.log
  /\ apply' = NoApply

-----------------------------------------------------------------------------
Running == phase = "open" /\ doomed = {}

WriteAckedEarly(sync) ==
  /\ Running /\ writes < MaxWrites
  /\ LET e == [id |-> writes + 1, seq |-> lastSeq + 1]
     IN  /\ logs' = [logs EXCEPT ![logNum] = Append(@, e)]
         /\ mem' = mem \cup {e}
         /\ lastSeq' = e.seq
         /\ writes' = e.id
         /\ promised' = IF sync THEN promised \cup {e.id} ELSE promised
         /\ owed' = owed \cup {e.id}
  /\ UNCHANGED <<logSync, tables, manifests, manSync, current, phase, imm,
                 hasImm, logNum, nextFile, vLog, manNum, descOpen, cur, pin,
                 bgVars, doomed, replay, crashes, covered>>

WriteBuffered(sync) ==
  /\ Running /\ writes < MaxWrites
  /\ LET e == [id |-> writes + 1, seq |-> lastSeq + 1]
         log == IF sync THEN Append(logs[logNum], e) ELSE logs[logNum]
     IN  /\ logs' = [logs EXCEPT ![logNum] = log]
         /\ logSync' = IF sync THEN [logSync EXCEPT ![logNum] = Len(log)]
                               ELSE logSync
         /\ mem' = mem \cup {e}
         /\ lastSeq' = e.seq
         /\ writes' = e.id
         /\ promised' = IF sync THEN promised \cup {e.id} ELSE promised
         /\ owed' = owed \cup {e.id}
  /\ UNCHANGED <<tables, manifests, manSync, current, phase, imm, hasImm,
                 logNum, nextFile, vLog, manNum, descOpen, cur, pin, bgVars,
                 doomed, replay, crashes, covered>>

(* DBImpl::Write of one update; sync is WriteOptions::sync. *)
Write(sync) ==
  /\ Running /\ writes < MaxWrites
  /\ LET e == [id |-> writes + 1, seq |-> lastSeq + 1]
         log == Append(logs[logNum], e)
     IN  /\ logs' = [logs EXCEPT ![logNum] = log]
         /\ logSync' = IF sync THEN [logSync EXCEPT ![logNum] = Len(log)]
                               ELSE logSync
         /\ mem' = mem \cup {e}
         /\ lastSeq' = e.seq
         /\ writes' = e.id
         /\ promised' = IF sync THEN promised \cup {e.id} ELSE promised
         /\ owed' = owed \cup {e.id}
         /\ covered' = IF sync THEN covered \cup Ids(Visible) \cup {e.id}
                               ELSE covered
  /\ UNCHANGED <<tables, manifests, manSync, current, phase, imm, hasImm,
                 logNum, nextFile, vLog, manNum, descOpen, cur, pin, bgVars,
                 doomed, replay, crashes>>

(* log_->AddRecord fails after part of the record has reached the file; the *)
(* writer is told, and the next one appends to the same file.               *)
AddRecordFails ==
  /\ Running /\ env.faults /\ Torn \notin Elems(logs[logNum])
  /\ logs' = [logs EXCEPT ![logNum] = Append(@, Torn)]
  /\ UNCHANGED <<logSync, tables, manifests, manSync, current, phase, memVars,
                 verVars, pin, bgVars, doomed, replay, crashes, histVars>>

(* The memtable switch of MakeRoomForWrite: the old log is closed as it is. *)
SwitchMemTable ==
  /\ Running /\ ~hasImm /\ nextFile <= MaxFile
  /\ logs' = Set(logs, nextFile, <<>>)
  /\ logSync' = Set(logSync, nextFile, 0)
  /\ logNum' = nextFile
  /\ nextFile' = nextFile + 1
  /\ imm' = mem /\ hasImm' = TRUE /\ mem' = {}
  /\ UNCHANGED <<tables, manifests, manSync, current, phase, lastSeq, vLog,
                 manNum, descOpen, cur, pin, bgVars, doomed, replay, crashes,
                 histVars>>

(* CompactMemTable, at once or from inside a compaction: WriteLevel0Table   *)
(* takes a number and BuildTable opens the file, unless imm_ is empty.      *)
FlushBegin ==
  /\ Running /\ hasImm /\ flush = 0 /\ apply = NoApply
  /\ flush' = nextFile
  /\ nextFile' = nextFile + 1
  /\ pending' = pending \cup {nextFile}
  /\ tables' = IF imm = {} THEN tables
               ELSE Set(tables, nextFile, [data |-> {}, synced |-> FALSE])
  /\ UNCHANGED <<logs, logSync, manifests, manSync, current, phase, memVars,
                 lastSeq, vLog, manNum, descOpen, cur, pin, compact, apply,
                 doomed, replay, crashes, histVars>>

(* BuildTable is done: the number leaves pending_outputs_ and the edit,     *)
(* with the current log's number, goes to the MANIFEST.                     *)
FlushBuilt ==
  /\ Running /\ flush # 0 /\ apply = NoApply
  /\ tables' = IF imm = {} THEN tables
               ELSE [tables EXCEPT ![flush] = FinishedTable(imm)]
  /\ pending' = pending \ {flush}
  /\ UNCHANGED nextFile
  /\ LogAndApply("flush", IF imm = {} THEN {} ELSE {flush}, {}, logNum)
  /\ UNCHANGED <<logs, logSync, current, phase, memVars, lastSeq, vLog,
                 manNum, cur, pin, flush, compact, doomed, replay, crashes,
                 histVars>>

(* The end of CompactMemTable: imm_ is dropped, obsolete files go. *)
FlushInstalled ==
  /\ Running /\ InstallVersion("flush")
  /\ imm' = {} /\ hasImm' = FALSE /\ flush' = 0
  /\ doomed' = Obsolete(AddLiveFiles(apply.v.files, compact.base) \cup pending,
                        apply.v.log)
  /\ UNCHANGED <<diskVars, phase, mem, logNum, nextFile, lastSeq, manNum,
                 descOpen, pin, pending, compact, replay, crashes, histVars>>

-----------------------------------------------------------------------------
Background == Running /\ flush = 0 /\ apply = NoApply

(* BackgroundCompaction: some tables of the current version, which the     *)
(* Compaction keeps referenced, are the inputs.                            *)
PickCompaction(inputs) ==
  /\ Background /\ ~hasImm /\ compact = NoCompaction /\ nextFile <= MaxFile
  /\ compact' = [NoCompaction EXCEPT !.step = "picked", !.inputs = inputs,
                                    !.base = cur]
  /\ UNCHANGED <<diskVars, phase, memVars, verVars, pin, pending, flush,
                 apply, doomed, replay, crashes, histVars>>

(* The trivial move: the edit deletes the file from one level and adds it  *)
(* to the next.                                                            *)
TrivialMove(n) ==
  /\ Background /\ ~hasImm /\ compact = NoCompaction
  /\ Len(manifests[manNum]) < MaxEdits
  /\ UNCHANGED nextFile
  /\ LogAndApply("move", {n}, {n}, vLog)
  /\ UNCHANGED <<logs, logSync, tables, current, phase, memVars, lastSeq,
                 vLog, manNum, cur, pin, pending, flush, compact, doomed,
                 replay, crashes, histVars>>

MoveInstalled ==
  /\ Running /\ InstallVersion("move")
  /\ UNCHANGED <<diskVars, phase, memVars, nextFile, lastSeq, manNum,
                 descOpen, pin, pending, flush, compact, doomed, replay,
                 crashes, histVars>>

(* The updates of the inputs that are not in an output yet. *)
Remaining == Data(compact.inputs) \ Data(compact.outputs)

OpenCompactionOutputFile ==
  /\ Background /\ compact.step = "picked" /\ Remaining # {}
  /\ compact' = [compact EXCEPT !.step = "building", !.out = nextFile]
  /\ nextFile' = nextFile + 1
  /\ pending' = pending \cup {nextFile}
  /\ tables' = Set(tables, nextFile, [data |-> {}, synced |-> FALSE])
  /\ UNCHANGED <<logs, logSync, manifests, manSync, current, phase, memVars,
                 lastSeq, vLog, manNum, descOpen, cur, pin, flush, apply,
                 doomed, replay, crashes, histVars>>

(* An output gets some of the updates, then the file is synced and closed. *)
FinishCompactionOutputFile(data) ==
  /\ Background /\ compact.step = "building"
  /\ tables' = [tables EXCEPT ![compact.out] = FinishedTable(data)]
  /\ compact' = [compact EXCEPT !.step = "picked", !.out = 0,
                                !.outputs = @ \cup {compact.out}]
  /\ UNCHANGED <<logs, logSync, manifests, manSync, current, phase, memVars,
                 verVars, pin, pending, flush, apply, doomed, replay, crashes,
                 histVars>>

InstallCompactionResults ==
  /\ Background /\ compact.step = "picked" /\ Remaining = {}
  /\ UNCHANGED nextFile
  /\ LogAndApply("compaction", compact.outputs, compact.inputs, vLog)
  /\ UNCHANGED <<logs, logSync, tables, current, phase, memVars, lastSeq,
                 vLog, manNum, cur, pin, pending, flush, compact, doomed,
                 replay, crashes, histVars>>

(* CleanupCompaction, ReleaseInputs and DeleteObsoleteFiles *)
CompactionInstalled ==
  /\ Running /\ InstallVersion("compaction")
  /\ pending' = pending \ compact.outputs
  /\ compact' = NoCompaction
  /\ doomed' = Obsolete(AddLiveFiles(apply.v.files, {}) \cup pending',
                        apply.v.log)
  /\ UNCHANGED <<diskVars, phase, memVars, nextFile, lastSeq, manNum,
                 descOpen, pin, flush, replay, crashes, histVars>>

(* NewIterator takes a reference on the current version; one at a time. *)
NewIterator ==
  /\ Running /\ pin = {} /\ cur # {}
  /\ pin' = cur
  /\ UNCHANGED <<diskVars, phase, memVars, verVars, bgVars, doomed, replay,
                 crashes, histVars>>

DeleteIterator ==
  /\ Running /\ pin # {}
  /\ pin' = {}
  /\ UNCHANGED <<diskVars, phase, memVars, verVars, bgVars, doomed, replay,
                 crashes, histVars>>

Without(f, n) == [m \in DOMAIN f \ {n} |-> f[m]]

(* One env_->DeleteFile of DeleteObsoleteFiles, in directory order. *)
DeleteFile(f) ==
  LET n == f[2]
  IN  /\ f \in doomed
      /\ doomed' = doomed \ {f}
      /\ IF f[1] = "log"
           THEN /\ logs' = Without(logs, n) /\ logSync' = Without(logSync, n)
                /\ UNCHANGED <<tables, manifests, manSync>>
         ELSE IF f[1] = "table"
           THEN /\ tables' = Without(tables, n)
                /\ UNCHANGED <<logs, logSync, manifests, manSync>>
         ELSE /\ manifests' = Without(manifests, n)
              /\ manSync' = Without(manSync, n)
              /\ UNCHANGED <<logs, logSync, tables>>
      /\ UNCHANGED <<current, phase, memVars, verVars, pin, bgVars, replay,
                     crashes, histVars>>

-----------------------------------------------------------------------------
(* DB::Open.  NewDB writes MANIFEST-1 and closes it, then names it.  With  *)
(* CURRENT there, opening goes on as it would for an existing database.    *)
NewDB ==
  /\ phase = "down" /\ current = 0
  /\ phase' = "newdb"
  /\ manifests' = Set(manifests, 1,
                      <<[files |-> {}, log |-> 0, next |-> 2, last |-> 0]>>)
  /\ manSync' = Set(manSync, 1, 0)
  /\ UNCHANGED <<logs, logSync, tables, current, memVars, verVars, pin,
                 bgVars, doomed, replay, crashes, histVars>>

NameNewDB ==
  /\ phase = "newdb"
  /\ phase' = "down"
  /\ current' = 1
  /\ UNCHANGED <<logs, logSync, tables, manifests, manSync, memVars, verVars,
                 pin, bgVars, doomed, replay, crashes, histVars>>

(* Recover's check that a file with the number of every live table exists. *)
MissingFiles(files) ==
  files \ (DOMAIN logs \cup DOMAIN tables \cup DOMAIN manifests)

(* VersionSet::Recover, and the choice of the logs to replay. *)
RecoverVersions ==
  LET records == Readable(manifests[current])
      v == records[Len(records)]
      newer == {n \in DOMAIN logs : n >= v.log}
  IN  /\ phase = "down" /\ current # 0
      /\ records # <<>> /\ MissingFiles(v.files) = {}
      /\ phase' = IF newer = {} THEN "recovered" ELSE "replay"
      /\ cur' = v.files /\ vLog' = v.log /\ lastSeq' = v.last
      /\ nextFile' = v.next + 1
      /\ manNum' = IF env.reuse THEN current ELSE v.next
      /\ descOpen' = env.reuse
      /\ replay' = [NoReplay EXCEPT !.logs = newer, !.save = ~env.reuse]
      /\ UNCHANGED <<diskVars, memVars, pin, bgVars, doomed, crashes, histVars>>

(* Open gives up: no complete record, a damaged record before others, or   *)
(* a missing table.                                                        *)
RecoverFails ==
  LET man == manifests[current]
      records == Readable(man)
  IN  /\ phase = "down" /\ current # 0
      /\ \/ records = <<>>
         \/ Len(records) + 1 < Len(man)
         \/ records # <<>> /\ MissingFiles(records[Len(records)].files) # {}
      /\ phase' = "failed"
      /\ UNCHANGED <<diskVars, memVars, verVars, pin, bgVars, doomed, replay,
                     crashes, histVars>>

(* RecoverLogFile: records of the oldest log, as many as fill a memtable   *)
(* or the rest of them, become a level-0 table.                            *)
ReplayToTable(k) ==
  LET n == Min(replay.logs)
      records == Readable(logs[n])
      data == {records[i] : i \in replay.pos + 1 .. replay.pos + k}
  IN  /\ phase = "replay"
      /\ k >= 1 /\ replay.pos + k <= Len(records)
      /\ tables' = Set(tables, nextFile, FinishedTable(data))
      /\ nextFile' = nextFile + 1
      /\ replay' = [replay EXCEPT !.pos = @ + k, !.save = TRUE,
                                  !.added = @ \cup {nextFile}]
      /\ lastSeq' = ReplayedSequence(data)
      /\ UNCHANGED <<logs, logSync, manifests, manSync, current, phase,
                     memVars, vLog, manNum, descOpen, cur, pin, bgVars,
                     doomed, crashes, histVars>>

(* The whole log is read, and it is not kept: on to the next one. *)
ReplayNext ==
  LET n == Min(replay.logs)
  IN  /\ phase = "replay"
      /\ replay.pos = Len(Readable(logs[n]))
      /\ nextFile' = MarkFileNumberUsed(n)
      /\ replay' = [replay EXCEPT !.logs = @ \ {n}, !.pos = 0]
      /\ phase' = IF replay.logs = {n} THEN "recovered" ELSE "replay"
      /\ UNCHANGED <<diskVars, memVars, lastSeq, vLog, manNum, descOpen, cur,
                     pin, bgVars, doomed, crashes, histVars>>

(* With reuse_logs the last log, if no table was made of it, stays in use. *)
ReuseLog ==
  LET n == Min(replay.logs)
      data == Elems(Readable(logs[n]))
  IN  /\ phase = "replay" /\ env.reuse
      /\ replay.logs = {n} /\ replay.pos = 0
      /\ mem' = data /\ logNum' = n
      /\ nextFile' = MarkFileNumberUsed(n)
      /\ lastSeq' = ReplayedSequence(data)
      /\ replay' = [replay EXCEPT !.logs = {}]
      /\ phase' = "logged"
      /\ UNCHANGED <<diskVars, imm, hasImm, vLog, manNum, descOpen, cur, pin,
                     bgVars, doomed, crashes, histVars>>

(* Open creates the log of the new process... *)
NewLog ==
  /\ phase = "recovered"
  /\ logs' = Set(logs, nextFile, <<>>)
  /\ logSync' = Set(logSync, nextFile, 0)
  /\ logNum' = nextFile
  /\ nextFile' = nextFile + 1
  /\ phase' = "logged"
  /\ UNCHANGED <<tables, manifests, manSync, current, mem, imm, hasImm,
                 lastSeq, vLog, manNum, descOpen, cur, pin, bgVars, doomed,
                 replay, crashes, histVars>>

(* ... and saves the recovered version, unless everything was reused. *)
OpenSaves ==
  /\ phase = "logged" /\ replay.save
  /\ phase' = "saving"
  /\ UNCHANGED nextFile
  /\ LogAndApply("open", replay.added, {}, logNum)
  /\ UNCHANGED <<logs, logSync, tables, current, memVars, lastSeq, vLog,
                 manNum, cur, pin, pending, flush, compact, doomed, replay,
                 crashes, histVars>>

OpenSaved ==
  /\ phase = "saving" /\ InstallVersion("open")
  /\ phase' = "open"
  /\ replay' = NoReplay
  /\ doomed' = Obsolete(AddLiveFiles(apply.v.files, {}), apply.v.log)
  /\ UNCHANGED <<diskVars, memVars, nextFile, lastSeq, manNum, descOpen, pin,
                 pending, flush, compact, crashes, histVars>>

OpenUnsaved ==
  /\ phase = "logged" /\ ~replay.save
  /\ phase' = "open"
  /\ replay' = NoReplay
  /\ doomed' = Obsolete(AddLiveFiles(cur, {}), vLog)
  /\ UNCHANGED <<diskVars, memVars, verVars, pin, bgVars, crashes, histVars>>

-----------------------------------------------------------------------------
(* The process and its memory are gone. *)
LoseMemory ==
  /\ phase' = "down"
  /\ mem' = {} /\ imm' = {} /\ hasImm' = FALSE /\ logNum' = 0
  /\ nextFile' = 0 /\ lastSeq' = 0 /\ vLog' = 0 /\ manNum' = 0
  /\ descOpen' = FALSE /\ cur' = {} /\ pin' = {} /\ pending' = {}
  /\ flush' = 0 /\ compact' = NoCompaction /\ apply' = NoApply
  /\ doomed' = {} /\ replay' = NoReplay
  /\ crashes' = crashes + 1

(* ~DBImpl with no background work: the current log is synced. *)
Close ==
  /\ Background /\ compact = NoCompaction /\ crashes < MaxCrashes
  /\ logSync' = [logSync EXCEPT ![logNum] = Len(logs[logNum])]
  /\ LoseMemory
  /\ UNCHANGED <<logs, tables, manifests, manSync, current, histVars>>

(* The process dies, at any step: a signal, or the exception thrown by     *)
(* RecordBackgroundError.                                                  *)
ProcessCrash ==
  /\ phase \notin {"down", "failed"} /\ crashes < MaxCrashes
  /\ LoseMemory
  /\ UNCHANGED <<diskVars, histVars>>

(* What may be left of a file: its durable records, some of the others     *)
(* and, perhaps, part of one more.                                         *)
Survivors(s, durable) ==
  {Prefix(s, k) : k \in durable .. Len(s)}
    \cup (IF env.torn
           THEN {Append(Prefix(s, k), Torn) : k \in durable .. Len(s) - 1}
           ELSE {})

Survive(f, durable) ==
  {g \in [DOMAIN f -> UNION {Survivors(f[n], durable[n]) : n \in DOMAIN f}] :
     \A n \in DOMAIN f : g[n] \in Survivors(f[n], durable[n])}

(* The machine stops: data that was not synced may be lost, in any file.   *)
(* What is left is durable.                                                *)
MachineCrash ==
  /\ env.power /\ phase # "failed" /\ crashes < MaxCrashes
  /\ logs' \in Survive(logs, logSync)
  /\ logSync' = [n \in DOMAIN logs |-> Len(logs'[n])]
  /\ manifests' \in Survive(manifests, manSync)
  /\ manSync' = [n \in DOMAIN manifests |-> Len(manifests'[n])]
  /\ tables' = [n \in DOMAIN tables |->
                  IF tables[n].synced THEN tables[n] ELSE FinishedTable({})]
  /\ LoseMemory
  /\ owed' = promised
  /\ UNCHANGED <<current, writes, promised, covered>>

-----------------------------------------------------------------------------
Init ==
  /\ env \in Setting
  /\ logs = <<>> /\ logSync = <<>> /\ tables = <<>>
  /\ manifests = <<>> /\ manSync = <<>> /\ current = 0
  /\ phase = "down" /\ mem = {} /\ imm = {} /\ hasImm = FALSE /\ logNum = 0
  /\ nextFile = 0 /\ lastSeq = 0 /\ vLog = 0 /\ manNum = 0
  /\ descOpen = FALSE /\ cur = {} /\ pin = {} /\ pending = {} /\ flush = 0
  /\ compact = NoCompaction /\ apply = NoApply /\ doomed = {}
  /\ replay = NoReplay /\ crashes = 0
  /\ writes = 0 /\ owed = {} /\ promised = {} /\ covered = {}

Opening ==
  \/ NewDB \/ NameNewDB \/ RecoverVersions \/ RecoverFails
  \/ \E k \in 1 .. MaxWrites : ReplayToTable(k)
  \/ ReplayNext \/ ReuseLog \/ NewLog \/ OpenSaves \/ OpenSaved
  \/ OpenUnsaved

BackgroundWork ==
  \/ FlushBegin \/ FlushBuilt \/ FlushInstalled
  \/ \E inputs \in SUBSET cur \ {{}} : PickCompaction(inputs)
  \/ \E n \in cur : TrivialMove(n)
  \/ MoveInstalled \/ OpenCompactionOutputFile
  \/ \E data \in SUBSET Remaining \ {{}} : FinishCompactionOutputFile(data)
  \/ InstallCompactionResults \/ CompactionInstalled
  \/ ManifestSync \/ SetCurrentFile
  \/ \E f \in doomed : DeleteFile(f)

Clients ==
  \/ \E sync \in BOOLEAN : Write(sync)
  \/ AddRecordFails \/ SwitchMemTable \/ NewIterator \/ DeleteIterator

(* Nothing has to happen while the database is open, or has failed to. *)
Idle ==
  /\ phase \in {"open", "failed"}
  /\ UNCHANGED vars

Next ==
  /\ \/ Opening \/ BackgroundWork \/ Clients
     \/ Close \/ ProcessCrash \/ MachineCrash \/ Idle
  /\ UNCHANGED env

Spec == Init /\ [][Next]_vars

-----------------------------------------------------------------------------
(* Every variable has its type. *)
TypeOK ==
  /\ logs \in [DOMAIN logs -> Seq(Entry \cup {Torn})]
  /\ logSync \in [DOMAIN logs -> Nat]
  /\ tables \in [DOMAIN tables -> [data : SUBSET Entry, synced : BOOLEAN]]
  /\ manifests \in [DOMAIN manifests -> Seq(VersionState \cup {Torn})]
  /\ manSync \in [DOMAIN manifests -> Nat]
  /\ phase \in {"down", "newdb", "replay", "recovered", "logged", "saving",
                "open", "failed"}
  /\ mem \subseteq Entry /\ imm \subseteq Entry /\ hasImm \in BOOLEAN
  /\ {current, logNum, nextFile, lastSeq, vLog, manNum, flush} \subseteq Nat
  /\ cur \cup pin \cup pending \subseteq Nat
  /\ imm # {} => hasImm
  /\ owed \cup promised \cup covered \subseteq 1 .. writes

(* Where leveldb keeps its promises; the other settings are checked too,    *)
(* see SyncedSurvive.                                                       *)
Trusted == ~env.faults /\ ~(env.reuse /\ env.power)

(* Whenever the database is open, after any number of crashes, every write  *)
(* that returned OK is readable, unless it was not synced and the machine   *)
(* crashed since (doc/index.md:112-117): logs reach the system before Write *)
(* returns and stay until their memtable is in a live table.                *)
AckedSurvive == phase = "open" /\ Trusted => owed \subseteq Ids(Visible)

(* What a machine crash leaves of a MANIFEST at least. *)
Durable(n) == Prefix(manifests[n], manSync[n])

(* At every moment, in every step of Open, flush, compaction and deletion, *)
(* the durable part of the disk holds all synced writes: for each version  *)
(* that recovery could find, in its tables or in the logs it replays.      *)
DurableOnDisk ==
  current # 0 /\ ~env.faults /\ ~env.reuse =>
    \A k \in Len(Readable(Durable(current))) .. Len(Readable(manifests[current])) :
      LET v == manifests[current][k]
          kept == {n \in v.files \cap DOMAIN tables : tables[n].synced}
          newer == {n \in DOMAIN logs : n >= v.log}
      IN  k > 0 =>
            promised \subseteq
              Ids(Data(kept)) \cup
              UNION {Ids(Elems(Readable(Prefix(logs[n], logSync[n])))) : n \in newer}

(* No table of a version in use (the current one, an iterator's, a running *)
(* compaction's) is missing or unfinished, whatever DeleteObsoleteFiles    *)
(* and recovery's reuse of file numbers do.                                *)
NoDangling ==
  \A n \in cur \cup pin \cup compact.base :
    n \in DOMAIN tables /\ tables[n].synced

(* After a recovery sequence numbers go on above every surviving update:   *)
(* later writes have larger numbers, so a reader sees the newest.          *)
SequencesOrdered ==
  phase = "open" =>
    /\ \A e, f \in Visible : e.id < f.id => e.seq < f.seq
    /\ \A e \in Visible : e.seq <= lastSeq

(* Open fails after a crash only when the MANIFEST written by NewDB, which *)
(* is not synced, was lost.                                                *)
OpenFailsOnlyUnborn ==
  phase = "failed" => current = 1 /\ Readable(manifests[1]) = <<>>

(* What an open finds is usable: a database fails to open only if its very *)
(* creation was cut off (DBImpl::NewDB), and no sequence number is used    *)
(* twice, whatever recovery found in the logs (RecoverLogFile).            *)
OpensInOrder == TypeOK /\ SequencesOrdered /\ OpenFailsOnlyUnborn

-----------------------------------------------------------------------------
(* doc/index.md:99-102: a write that asked for sync and returned OK has     *)
(* reached persistent storage; it is readable whenever the database is open. *)
SyncedSurvive == phase = "open" => promised \subseteq Ids(Visible)

(* doc/index.md:119-124: after a crash a load can restart just after the   *)
(* last synchronous write: what was readable when it returned survives.    *)
PrefixSurvives == phase = "open" => covered \subseteq Ids(Visible)
=============================================================================
