------------------------------- MODULE Repair -------------------------------
(* RepairDB() (db/repair.cc): logs are turned into tables, damaged tables   *)
(* are copied, everything that is left goes into level 0 of a new           *)
(* descriptor. Any call on the Env may fail, the process or the machine may *)
(* crash between any two changes of the directory, and the repair is run    *)
(* again on what is left.                                                   *)
EXTENDS Integers, Sequences, FiniteSets, SequencesExt

CONSTANTS Directories,  \* the directories a repair may find
          Listings,     \* whether GetChildren() lists files in order
          MaxRerun,     \* bound: repairs after the first one
          MaxFaults     \* bound: how many calls may fail

VARIABLES disk,   \* the directory, and lost/
          rep,    \* the Repairer
          env     \* listing, reruns, failed calls, and what the run found

vars == <<disk, rep, env>>

---------------------------------------------------------------------------
(* An entry is its user key and sequence number. A table has a name (.ldb   *)
(* or .sst), entries, those among them whose blocks are damaged, its footer *)
(* if it was finished, and whether it was synced; a log has records, some   *)
(* too small to be a batch, or malformed, or written with a checksum that   *)
(* they no longer have.                                                     *)

NoFiles == [n \in {} |-> 0]
Without(f, n) == [m \in DOMAIN f \ {n} |-> f[m]]
With(f, n, x) == [m \in DOMAIN f \cup {n} |-> IF m = n THEN x ELSE f[m]]
MaxOf(S, least) == CHOOSE n \in S \cup {least} : \A k \in S \cup {least} : n >= k

Readable(t) == IF t.whole THEN t.ents \ t.bad ELSE {}
Sound(t) == t.whole /\ t.bad = {}

(* The batches that InsertInto() puts into the memtable, malformed ones up  *)
(* to where they break off. The reader is told not to look at checksums.    *)
Replay(log) == UNION {log[k].ents : k \in {j \in DOMAIN log : log[j].size >= 12}}

(* The entries of a directory's logs and tables; those of records with the  *)
(* checksum they were written with.                                         *)
Intact(log) == Replay(SelectSeq(log, LAMBDA r : r.crc))
EntriesOf(logs, tabs, Read(_)) ==
  UNION {Readable(tabs[n]) : n \in DOMAIN tabs} \cup UNION {Read(logs[n]) : n \in DOMAIN logs}
InDirectory(d) == EntriesOf(d.logs, d.tabs, Replay)
IntactIn(d) == EntriesOf(d.logs, d.tabs, Intact)
InLost(d) == EntriesOf(d.lostlogs, d.lost, Replay)

MutArchiveTable(d, n) == [d EXCEPT !.tabs = Without(@, n)]

(* ArchiveFile(): a file of that name in lost/ is replaced.                 *)
ArchiveTable(d, n) == [d EXCEPT !.tabs = Without(@, n), !.lost = With(@, <<n, d.tabs[n].ext>>, d.tabs[n])]
ArchiveLog(d, n) == [d EXCEPT !.logs = Without(@, n), !.lostlogs = With(@, n, d.logs[n])]

Idle == [pc |-> "find", logs |-> <<>>, nums |-> <<>>, tables |-> <<>>, next |-> 1, copy |-> 0]
NoManifest == [files |-> {}, last |-> 0, next |-> 0]

Go(pc) == rep' = [rep EXCEPT !.pc = pc]
NextTable == rep' = [rep EXCEPT !.pc = "logs", !.nums = Tail(@)]

(* A call on the Env succeeds, or fails and leaves the files alone.         *)
Call(ok) ==
  \/ ok /\ UNCHANGED env
  \/ ~ ok /\ env.faults < MaxFaults /\ env' = [env EXCEPT !.faults = @ + 1]

---------------------------------------------------------------------------
(* FindFiles().                                                             *)
Listed(S) == {l \in Bijection(1 .. Cardinality(S), S) :
                env.listing = "sorted" => \A i, j \in DOMAIN l : i < j => l[i] < l[j]}

NextFile(d) == 1 + MaxOf(DOMAIN d.logs \cup DOMAIN d.tabs \cup (IF d.tmp = NoManifest THEN {} ELSE {1}), 0)

FindFiles ==
  /\ rep.pc = "find"
  /\ \E l \in Listed(DOMAIN disk.logs), t \in Listed(DOMAIN disk.tabs) :
       rep' = [Idle EXCEPT !.pc = "logs", !.logs = l, !.nums = t, !.next = NextFile(disk)]
  /\ env' = [env EXCEPT !.found = InDirectory(disk), !.intact = IntactIn(disk)]
  /\ UNCHANGED disk

(* GetChildren() fails, and the repair with it.                             *)
FindFails ==
  /\ rep.pc = "find" /\ Call(FALSE) /\ Go("failed")
  /\ UNCHANGED disk

(* ConvertLogToTable(): no file number is taken if the log cannot be        *)
(* opened; BuildTable() leaves no file if there is nothing in the memtable, *)
(* or if it fails.                                                          *)
ConvertLogToTable(opened, built) ==
  /\ rep.pc = "logs" /\ rep.logs # <<>>
  /\ Call(opened /\ built)
  /\ \E mem \in {Replay(disk.logs[rep.logs[1]])} :
       IF opened /\ built /\ mem # {}
       THEN /\ disk' = [disk EXCEPT !.tabs = With(@, rep.next, [ext |-> "ldb", ents |-> mem, bad |-> {}, whole |-> TRUE, synced |-> TRUE])]
            /\ rep' = [rep EXCEPT !.pc = "archive", !.next = @ + 1, !.nums = Append(@, rep.next)]
       ELSE /\ rep' = [rep EXCEPT !.pc = "archive", !.next = IF opened THEN @ + 1 ELSE @]
            /\ UNCHANGED disk

ConvertLogFilesToTables(ok) ==
  /\ rep.pc = "archive"
  /\ Call(ok)
  /\ disk' = IF ok THEN ArchiveLog(disk, rep.logs[1]) ELSE disk
  /\ rep' = [rep EXCEPT !.pc = "logs", !.logs = Tail(@)]

(* ScanTable(), over what ExtractMetaData() lists: under its name or the    *)
(* alternate one; a table whose size cannot be had is archived.             *)
Info(n, ents) == [num |-> n, max |-> MaxOf({e.s : e \in ents}, 0)]

ScanTable(ok) ==
  /\ rep.pc = "logs" /\ rep.logs = <<>> /\ rep.nums # <<>>
  /\ Call(ok)
  /\ \E n \in {rep.nums[1]} :
       \/ ~ ok /\ disk' = ArchiveTable(disk, n) /\ NextTable
       \/ /\ ok /\ Sound(disk.tabs[n])
          /\ rep' = [rep EXCEPT !.nums = Tail(@), !.tables = Append(@, Info(n, disk.tabs[n].ents))]
          /\ UNCHANGED disk
       \/ ok /\ ~ Sound(disk.tabs[n]) /\ Go("copy") /\ UNCHANGED disk

(* RepairTable(): a copy of what can be read, begun, the source archived,   *)
(* the copy finished (it is never synced), and renamed to the source's      *)
(* number; a copy that failed is deleted, if that does not fail too.        *)
CopyTable(ok) ==
  /\ rep.pc = "copy"
  /\ Call(ok)
  /\ \/ ~ ok /\ rep' = [rep EXCEPT !.pc = "logs", !.nums = Tail(@), !.next = @ + 1] /\ UNCHANGED disk
     \/ /\ ok
        /\ disk' = [disk EXCEPT !.tabs = With(@, rep.next, [ext |-> "ldb", ents |-> Readable(disk.tabs[rep.nums[1]]), bad |-> {}, whole |-> FALSE, synced |-> FALSE])]
        /\ rep' = [rep EXCEPT !.pc = "archiveSource", !.copy = rep.next, !.next = @ + 1]

ArchiveSource(ok) ==
  /\ rep.pc = "archiveSource"
  /\ Call(ok)
  /\ disk' = IF ok THEN ArchiveTable(disk, rep.nums[1]) ELSE disk
  /\ Go("finish")

DeleteCopy == disk' \in {disk, [disk EXCEPT !.tabs = Without(@, rep.copy)]}

(* Finish() or Abandon(), and Close().                                      *)
FinishCopy(ok) ==
  /\ rep.pc = "finish"
  /\ Call(ok)
  /\ \/ ~ ok /\ DeleteCopy /\ NextTable
     \/ ok /\ disk.tabs[rep.copy].ents = {} /\ NextTable /\ UNCHANGED disk
     \/ /\ ok /\ disk.tabs[rep.copy].ents # {}
        /\ disk' = [disk EXCEPT !.tabs[rep.copy].whole = TRUE]
        /\ Go("rename")

RenameCopy(ok) ==
  /\ rep.pc = "rename"
  /\ Call(ok)
  /\ \/ ~ ok /\ DeleteCopy /\ NextTable
     \/ /\ ok
        /\ disk' = [disk EXCEPT !.tabs = With(Without(@, rep.copy), rep.nums[1], @[rep.copy])]
        /\ rep' = [rep EXCEPT !.pc = "logs", !.nums = Tail(@),
                              !.tables = Append(@, Info(rep.nums[1], disk.tabs[rep.copy].ents))]

(* WriteDescriptor(): a temporary file, the old manifests archived, the new *)
(* one renamed, CURRENT.  An error ends the repair; the temporary file is   *)
(* deleted if it had been made and that does not fail.                      *)
LastSequence(tables) == MaxOf({tables[i].max : i \in DOMAIN tables}, 0)
Descriptor == [files |-> {rep.tables[i].num : i \in DOMAIN rep.tables},
               last |-> LastSequence(rep.tables), next |-> rep.next]

WriteTemp(ok) ==
  /\ rep.pc = "logs" /\ rep.logs = <<>> /\ rep.nums = <<>>
  /\ Call(ok)
  /\ \/ ok /\ disk' = [disk EXCEPT !.tmp = Descriptor] /\ Go("archiveManifests")
     \/ ~ ok /\ disk' \in {disk, [disk EXCEPT !.tmp = Descriptor]} /\ Go("failed")

ArchiveManifests(ok) ==
  /\ rep.pc = "archiveManifests"
  /\ Call(ok)
  /\ disk' = IF ok THEN [disk EXCEPT !.manifest = NoManifest] ELSE disk
  /\ Go("install")

InstallManifest(ok) ==
  /\ rep.pc = "install"
  /\ Call(ok)
  /\ \/ ok /\ disk' = [disk EXCEPT !.manifest = disk.tmp, !.tmp = NoManifest] /\ Go("current")
     \/ ~ ok /\ disk' \in {disk, [disk EXCEPT !.tmp = NoManifest]} /\ Go("failed")

SetCurrentFile(ok) ==
  /\ rep.pc = "current"
  /\ Call(ok)
  /\ \/ ok /\ disk' = [disk EXCEPT !.current = TRUE] /\ Go("done")
     \/ ~ ok /\ Go("failed") /\ UNCHANGED disk

(* RepairDB() is called again: after it has returned, or the process ended, *)
(* or the machine did, and of a table that was not synced nothing readable  *)
(* may be left.  Renames are kept, in order.                                *)
Rerun(lost) ==
  /\ rep.pc # "find" /\ env.reruns < MaxRerun
  /\ lost \subseteq {n \in DOMAIN disk.tabs : ~ disk.tabs[n].synced}
  /\ disk' = [disk EXCEPT !.tabs = [n \in DOMAIN @ |-> [@[n] EXCEPT !.whole = @ /\ n \notin lost]]]
  /\ rep' = Idle
  /\ env' = [env EXCEPT !.reruns = @ + 1, !.torn = UNION {Readable(disk.tabs[n]) : n \in lost}]

Init ==
  /\ \E d \in Directories :
       disk = [logs |-> d.logs, tabs |-> d.tabs, manifest |-> NoManifest, current |-> FALSE, tmp |-> NoManifest,
               lost |-> NoFiles, lostlogs |-> NoFiles]
  /\ rep = Idle
  /\ \E l \in Listings :
       env = [listing |-> l, reruns |-> 0, faults |-> 0, first |-> IntactIn(disk), found |-> {},
              intact |-> {}, torn |-> {}]

Next ==
  \/ FindFiles \/ FindFails
  \/ ConvertLogToTable(TRUE, TRUE) \/ ConvertLogToTable(FALSE, TRUE) \/ ConvertLogToTable(TRUE, FALSE)
  \/ \E ok \in BOOLEAN :
       \/ ConvertLogFilesToTables(ok) \/ ScanTable(ok) \/ CopyTable(ok) \/ ArchiveSource(ok)
       \/ FinishCopy(ok) \/ RenameCopy(ok) \/ WriteTemp(ok) \/ ArchiveManifests(ok)
       \/ InstallManifest(ok) \/ SetCurrentFile(ok)
  \/ \E lost \in SUBSET DOMAIN disk.tabs : Rerun(lost)

Spec == Init /\ [][Next]_vars

---------------------------------------------------------------------------
(* Every variable has its type.                                             *)
TypeOK ==
  /\ rep.pc \in {"find", "logs", "archive", "copy", "archiveSource", "finish", "rename",
                 "archiveManifests", "install", "current", "done", "failed"}
  /\ rep.next \in Nat \ {0} /\ env.reruns \in 0 .. MaxRerun /\ env.faults \in 0 .. MaxFaults

(* No entry that was intact before the repair vanishes: it is in a log or   *)
(* table of the directory, or in lost/, whichever call fails, wherever the  *)
(* repairer stops, and however often it is run again.  The one exception    *)
(* are copies a crash of the machine tore before they reached the disk: the *)
(* next repair archives what is left of one over the source, which lost/    *)
(* still held if no call had failed.                                        *)
NothingVanishes ==
  /\ env.first \subseteq InDirectory(disk) \cup InLost(disk) \cup env.torn
  /\ rep.pc = "find" /\ env.faults = 0 => env.first \subseteq InDirectory(disk) \cup InLost(disk)

(* A repair that succeeds leaves a descriptor of tables that are there and  *)
(* can be read; unless one of its calls failed, they hold all entries that  *)
(* were intact when it began, and none that was not there.                  *)
RepairIsComplete ==
  rep.pc = "done" =>
    /\ disk.current /\ disk.manifest.files \subseteq DOMAIN disk.tabs
    /\ \A n \in disk.manifest.files : Sound(disk.tabs[n])
    /\ \E listed \in {UNION {disk.tabs[n].ents : n \in disk.manifest.files}} :
         listed \subseteq env.found /\ (env.faults = 0 => env.intact \subseteq listed)

(* What the next open of the database hands out is new: no sequence number  *)
(* of a table, and no number of a file.                                     *)
NumbersAreNew ==
  rep.pc = "done" => /\ \A n \in DOMAIN disk.tabs : n < disk.manifest.next
                     /\ \A n \in disk.manifest.files : \A e \in disk.tabs[n].ents : e.s =< disk.manifest.last

(* A Get() looks into the level-0 table with the greatest number first: it  *)
(* finds the newest entry of a key if the tables' numbers were in the order *)
(* of their entries, the logs were listed in order and it is the first      *)
(* repair.                                                                  *)
LevelZeroGet(k) ==
  LET having == {n \in disk.manifest.files : \E e \in disk.tabs[n].ents : e.k = k}
  IN MaxOf({e.s : e \in {x \in disk.tabs[MaxOf(having, 0)].ents : x.k = k}}, 0)
ReadsNewest ==
  rep.pc = "done" /\ env.listing = "sorted" /\ env.reruns = 0 =>
    \A e \in UNION {disk.tabs[n].ents : n \in disk.manifest.files} : e.s =< LevelZeroGet(e.k)

(* "We intentionally make log::Reader do checksumming so that corruptions   *)
(* cause entire commits to be skipped instead of propagating bad            *)
(* information (like overly large sequence numbers)".                       *)
Corrupt(log) == UNION {log[k].ents : k \in {j \in DOMAIN log : ~ log[j].crc}}
CorruptionSkipped ==
  \A l \in DOMAIN disk.lostlogs, n \in DOMAIN disk.tabs : disk.tabs[n].ents \cap Corrupt(disk.lostlogs[l]) = {}
===========================================================================
