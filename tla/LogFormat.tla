------------------------------ MODULE LogFormat ------------------------------
(***************************************************************************)
(* The format of logs and MANIFESTs: log::Writer (db/log_writer.cc) cuts   *)
(* records into fragments that fit a block, and log::Reader                *)
(* (db/log_reader.cc) puts them together again, from a file that a crash   *)
(* has cut, an append has left torn or the disk has damaged.               *)
(*                                                                         *)
(* A byte is a cell: <<"crc", type, payload>> (the checksum, which tells   *)
(* any two apart), <<"len", n>>, <<"type", t>>, <<"data", i, k>> (byte k   *)
(* of the i-th record), <<"zero">> (a trailer) or <<"junk">>.  A header    *)
(* is three cells; the source's is seven bytes.  noise is what a cell that *)
(* is no number gives when it is taken for one.                            *)
(***************************************************************************)
EXTENDS Integers, Sequences, FiniteSets

LOCAL INSTANCE SequencesExt

CONSTANTS
  kBlockSize,
  RecordSize,   \* the sizes of records tried
  MaxRecords,   \* bound on the records added
  MaxFaults,    \* bound on failures, crashes and damage together
  Noise         \* what other cells may look like as a number

VARIABLES log, block_offset, tried, past, reader, got, noise

vars == <<log, block_offset, tried, past, reader, got, noise>>

kHeaderSize == 3
kZeroType == 0
kFullType == 1
kFirstType == 2
kMiddleType == 3
kLastType == 4
kEof == 5
kBadRecord == 6

Payload(i, n) == [k \in 1 .. n |-> <<"data", i, k>>]
Least(a, b) == IF a < b THEN a ELSE b
From(s, i) == SubSeq(s, i, Len(s))

-----------------------------------------------------------------------------
(* The writer.                                                             *)

(* EmitPhysicalRecord: what is appended.                                   *)
PhysicalRecord(t, data) == <<<<"crc", t, data>>, <<"len", Len(data)>>, <<"type", t>>>> \o data

FragmentType(begin, end) ==
  CASE begin /\ end -> kFullType [] begin /\ ~end -> kFirstType
    [] ~begin /\ end -> kLastType [] OTHER -> kMiddleType

(* The loop of AddRecord: the trailer to fill, the cells of the fragment   *)
(* and block_offset_ after it, for each turn.                              *)
RECURSIVE Fragments(_, _, _)
Fragments(at, left, begin) ==
  LET leftover == kBlockSize - at
      start == IF leftover < kHeaderSize THEN 0 ELSE at
      n == Least(Len(left), kBlockSize - start - kHeaderSize)
      end == n = Len(left)
      f == [fill |-> IF leftover < kHeaderSize THEN leftover ELSE 0,
            cells |-> PhysicalRecord(FragmentType(begin, end), SubSeq(left, 1, n)),
            at |-> start + kHeaderSize + n]
  IN <<f>> \o (IF end THEN <<>> ELSE Fragments(f.at, From(left, n + 1), FALSE))

Cells(f) == [k \in 1 .. f.fill |-> <<"zero">>] \o f.cells
Out(fs) == FlattenSeq([j \in DOMAIN fs |-> Cells(fs[j])])

Faults == Cardinality({f \in {"failed", "crashed"} : past[f]}) + (IF past.damaged = 0 THEN 0 ELSE 1)
Writing == reader.state = "none" /\ past.crashed = past.reused /\ past.damaged = 0

(* AddRecord.  tried keeps the record, where it starts, where it ends, and *)
(* whether its caller was told that it succeeded.                          *)
AddRecord(n) ==
  /\ Writing /\ Len(tried) < MaxRecords
  /\ \E fs \in {Fragments(block_offset, Payload(Len(tried) + 1, n), TRUE)} :
       /\ log' = log \o Out(fs)
       /\ block_offset' = fs[Len(fs)].at
       /\ tried' = Append(tried, [n |-> n, start |-> Len(log) + fs[1].fill, end |-> Len(log'),
                                  ok |-> TRUE])
  /\ UNCHANGED <<past, reader, got, noise>>

(* AddRecord when the append of fragment j stops after k cells, or the     *)
(* flush after it fails: block_offset_ moves on all the same.              *)
AddRecordFails(n, j, k) ==
  /\ Writing /\ Len(tried) < MaxRecords /\ ~past.failed /\ Faults < MaxFaults
  /\ \E fs \in {Fragments(block_offset, Payload(Len(tried) + 1, n), TRUE)} :
       /\ j \in DOMAIN fs /\ k \in 0 .. Len(fs[j].cells)
       /\ log' = log \o Out(SubSeq(fs, 1, j - 1)) \o SubSeq(Cells(fs[j]), 1, fs[j].fill + k)
       /\ block_offset' = fs[j].at
       /\ tried' = Append(tried, [n |-> n, start |-> Len(log) + fs[1].fill, end |-> Len(log'),
                                  ok |-> FALSE])
  /\ past' = [past EXCEPT !.failed = TRUE]
  /\ UNCHANGED <<reader, got, noise>>

(* AddRecord when the trailer cannot be appended, which it does not look   *)
(* at.                                                                     *)
TrailerFails(n) ==
  /\ Writing /\ Len(tried) < MaxRecords /\ ~past.failed /\ Faults < MaxFaults
  /\ \E fs \in {Fragments(block_offset, Payload(Len(tried) + 1, n), TRUE)} :
       /\ fs[1].fill > 0
       /\ log' = log \o From(Out(fs), fs[1].fill + 1)
       /\ block_offset' = fs[Len(fs)].at
       /\ tried' = Append(tried, [n |-> n, start |-> Len(log), end |-> Len(log'), ok |-> TRUE])
  /\ past' = [past EXCEPT !.failed = TRUE]
  /\ UNCHANGED <<reader, got, noise>>

(* A crash keeps the first k cells (external).                             *)
Crash(k) ==
  /\ Writing /\ ~past.crashed /\ log # <<>> /\ Faults < MaxFaults /\ k \in 0 .. Len(log)
  /\ log' = SubSeq(log, 1, k)
  /\ past' = [past EXCEPT !.crashed = TRUE]
  /\ UNCHANGED <<block_offset, tried, reader, got, noise>>

(* DBImpl::RecoverLogFile and ReuseManifest with reuse_logs: a Writer on   *)
(* the old file, from its size.                                            *)
Reuse ==
  /\ reader.state = "none" /\ past.crashed /\ ~past.reused
  /\ block_offset' = Len(log) % kBlockSize
  /\ past' = [past EXCEPT !.reused = TRUE]
  /\ UNCHANGED <<log, tried, reader, got, noise>>

(* The disk changes one cell, or a whole block (external).                 *)
Damaged(c) ==
  CASE c[1] = "len" -> {<<"len", n>> : n \in (0 .. kBlockSize) \ {c[2]}}
    [] c[1] = "type" -> {<<"type", t>> : t \in (0 .. kBadRecord) \ {c[2]}}
    [] OTHER -> {<<"junk">>}

Damage(k) ==
  /\ reader.state = "none" /\ past.damaged = 0 /\ Faults < MaxFaults /\ k \in DOMAIN log
  /\ \E c \in Damaged(log[k]) : log' = [log EXCEPT ![k] = c]
  /\ past' = [past EXCEPT !.damaged = k]
  /\ UNCHANGED <<block_offset, tried, reader, got, noise>>

BlockOf(k) == (k - 1) \div kBlockSize

WipeBlock(b) ==
  /\ reader.state = "none" /\ past.damaged = 0 /\ Faults < MaxFaults
  /\ \E k \in DOMAIN log : BlockOf(k) = b
  /\ log' = [k \in DOMAIN log |-> IF BlockOf(k) = b THEN <<"junk">> ELSE log[k]]
  /\ past' = [past EXCEPT !.damaged = b * kBlockSize + 1]
  /\ UNCHANGED <<block_offset, tried, reader, got, noise>>

-----------------------------------------------------------------------------
(* The reader: pos is the file's position, drops the sizes reported, bad   *)
(* the offset from which the file cannot be read.                          *)
NoReader == [state |-> "none"]

(* A byte where a length or a type is expected.                            *)
Number(c) == IF c[1] \in {"len", "type"} THEN c[2] ELSE IF c[1] = "zero" THEN 0 ELSE noise

(* ReportDrop: unsigned, so a difference below 0 is large.                 *)
ReportDrop(r, bytes) ==
  LET at == r.end - Len(r.buffer) - bytes
  IN IF at < 0 \/ at >= r.initial THEN [r EXCEPT !.drops = Append(@, bytes)] ELSE r

Phys(r, t, data) == [r |-> r, type |-> t, data |-> data]

(* ReadPhysicalRecord.                                                     *)
RECURSIVE ReadPhysicalRecord(_)
ReadPhysicalRecord(r) ==
  LET chunk == SubSeq(log, r.pos + 1, Least(r.pos + kBlockSize, Len(log)))
      fill == [r EXCEPT !.buffer = chunk, !.pos = @ + Len(chunk), !.end = @ + Len(chunk),
                        !.eof = Len(chunk) < kBlockSize]
      fails == ReportDrop([r EXCEPT !.buffer = <<>>, !.eof = TRUE], kBlockSize)
      type == Number(r.buffer[3])
      length == Number(r.buffer[2])
      data == SubSeq(r.buffer, kHeaderSize + 1, kHeaderSize + length)
      cleared == [r EXCEPT !.buffer = <<>>]
      taken == [r EXCEPT !.buffer = From(@, kHeaderSize + length + 1)]
  IN CASE Len(r.buffer) < kHeaderSize /\ ~r.eof ->
            IF r.bad <= r.pos THEN Phys(fails, kEof, <<>>) ELSE ReadPhysicalRecord(fill)
       [] Len(r.buffer) < kHeaderSize /\ r.eof -> Phys(cleared, kEof, <<>>)
       [] OTHER ->
            CASE kHeaderSize + length > Len(r.buffer) ->
                   IF r.eof THEN Phys(cleared, kEof, <<>>)
                   ELSE Phys(ReportDrop(cleared, Len(r.buffer)), kBadRecord, <<>>)
              [] kHeaderSize + length <= Len(r.buffer) /\ type = kZeroType /\ length = 0 ->
                   Phys(cleared, kBadRecord, <<>>)
              [] OTHER ->
                   IF r.checksum /\ r.buffer[1] # <<"crc", type, data>>
                     THEN Phys(ReportDrop(cleared, Len(r.buffer)), kBadRecord, <<>>)
                   ELSE IF taken.end - Len(taken.buffer) - kHeaderSize - length < r.initial
                     THEN Phys(taken, kBadRecord, <<>>)
                   ELSE Phys(taken, type, data)

(* SkipToInitialBlock; the source writes 6 for a header less one.          *)
SkipToInitialBlock(r) ==
  LET inBlock == r.initial % kBlockSize
      start == r.initial - inBlock + (IF inBlock > kBlockSize - (kHeaderSize - 1) THEN kBlockSize ELSE 0)
  IN [r EXCEPT !.end = start, !.pos = start]

(* The loop of ReadRecord: begun is in_fragmented_record, first            *)
(* prospective_record_offset.                                              *)
RECURSIVE ReadFrom(_, _, _, _)
ReadFrom(r, begun, scratch, first) ==
  LET p == ReadPhysicalRecord(r)
      at == p.r.end - Len(p.r.buffer) - kHeaderSize - Len(p.data)
      synced == [p.r EXCEPT !.resyncing = @ /\ p.type = kMiddleType]
      partial == IF begun /\ scratch # <<>> THEN ReportDrop(synced, Len(scratch)) ELSE synced
      whole(x, data, offset) ==
        [ok |-> TRUE, data |-> data, r |-> [x EXCEPT !.last = offset]]
  IN CASE p.r.resyncing /\ p.type \in {kMiddleType, kLastType} ->
            ReadFrom(synced, begun, scratch, first)
       [] OTHER ->
            CASE p.type = kFullType -> whole(partial, p.data, at)
              [] p.type = kFirstType -> ReadFrom(partial, TRUE, p.data, at)
              [] p.type = kMiddleType ->
                   IF begun THEN ReadFrom(synced, TRUE, scratch \o p.data, first)
                   ELSE ReadFrom(ReportDrop(synced, Len(p.data)), FALSE, scratch, first)
              [] p.type = kLastType ->
                   IF begun THEN whole(synced, scratch \o p.data, first)
                   ELSE ReadFrom(ReportDrop(synced, Len(p.data)), FALSE, scratch, first)
              [] p.type = kEof -> [ok |-> FALSE, data |-> <<>>, r |-> synced]
              [] p.type = kBadRecord ->
                   ReadFrom(IF begun THEN ReportDrop(synced, Len(scratch)) ELSE synced,
                            FALSE, <<>>, first)
              [] OTHER ->
                   ReadFrom(ReportDrop(synced, Len(p.data) + (IF begun THEN Len(scratch) ELSE 0)),
                            FALSE, <<>>, first)

(* Reader::Reader.                                                         *)
OpenReader(initial, checksum, bad) ==
  /\ reader.state = "none"
  /\ reader' = [state |-> "open", checksum |-> checksum, buffer |-> <<>>, eof |-> FALSE, last |-> 0,
                end |-> 0, initial |-> initial, resyncing |-> initial > 0, pos |-> 0, drops |-> <<>>,
                bad |-> bad]
  /\ UNCHANGED <<log, block_offset, tried, past, got, noise>>

(* ReadRecord; the file's Skip to a position beyond its end succeeds.      *)
ReadRecord ==
  /\ reader.state = "open"
  /\ \E x \in {ReadFrom(IF reader.last < reader.initial THEN SkipToInitialBlock(reader) ELSE reader,
                        FALSE, <<>>, 0)} :
       /\ reader' = IF x.ok THEN x.r ELSE [x.r EXCEPT !.state = "done"]
       /\ got' = IF x.ok THEN Append(got, [data |-> x.data, at |-> x.r.last]) ELSE got
  /\ UNCHANGED <<log, block_offset, tried, past, noise>>

-----------------------------------------------------------------------------
Init ==
  /\ log = <<>> /\ block_offset = 0 /\ tried = <<>>
  /\ past = [crashed |-> FALSE, reused |-> FALSE, failed |-> FALSE, damaged |-> 0]
  /\ reader = NoReader /\ got = <<>>
  /\ noise \in Noise

Intact == ~past.failed /\ ~past.reused /\ past.damaged = 0

(* The callers of src/ read from offset 0: with checksums, but for repair, *)
(* which is followed on intact logs.  A file fails to be read, or is read  *)
(* from the middle, in logs that are whole.                                *)
StartReading ==
  \/ OpenReader(0, TRUE, Len(log) + 1)
  \/ Intact /\ OpenReader(0, FALSE, Len(log) + 1)
  \/ Intact /\ ~past.crashed /\ \E b \in 0 .. Len(log) \div kBlockSize : OpenReader(0, TRUE, b * kBlockSize)
  \/ Intact /\ ~past.crashed /\ \E o \in 1 .. Len(log) : OpenReader(o, TRUE, Len(log) + kBlockSize + 1)

Next ==
  \/ \E n \in RecordSize : AddRecord(n) \/ TrailerFails(n)
  \/ \E n \in RecordSize, j \in 1 .. 3, k \in 0 .. kBlockSize : AddRecordFails(n, j, k)
  \/ \E k \in 0 .. Len(log) : Crash(k)
  \/ Reuse
  \/ \E k \in DOMAIN log : Damage(k)
  \/ \E b \in 0 .. Len(log) \div kBlockSize : WipeBlock(b)
  \/ StartReading
  \/ ReadRecord

Spec == Init /\ [][Next]_vars

-----------------------------------------------------------------------------
TypeOK ==
  /\ block_offset \in 0 .. kBlockSize
  /\ Len(tried) <= MaxRecords /\ Len(got) <= Len(tried)
  /\ reader.state \in {"none", "open", "done"}
  /\ past.damaged \in Nat

(* The payloads of the records in S, in the order they were added.         *)
Data(S) ==
  [j \in 1 .. Cardinality(S) |->
     LET i == CHOOSE i \in S : Cardinality({h \in S : h <= i}) = j IN Payload(i, tried[i].n)]
Read == [j \in DOMAIN got |-> got[j].data]
Done == reader.state = "done"

(* A log that was written without an error and perhaps cut by a crash      *)
(* gives back the records it holds whole, and the reader complains of      *)
(* nothing (log_reader.cc:160-163, 222-227, 244-246).                      *)
CutIsPrefix ==
  Done /\ Intact /\ reader.initial = 0 /\ reader.bad > Len(log) =>
    /\ Read = Data({i \in DOMAIN tried : tried[i].end <= Len(log)})
    /\ reader.drops = <<>>

(* Whatever became of the file, a reader with checksums returns only       *)
(* records that were added, whole and in order: no two are joined          *)
(* (log_reader.cc:263-266, and log_test.cc, ErrorJoinsRecords).            *)
NothingMadeUp ==
  reader.state # "none" /\ reader.checksum =>
    \E S \in SUBSET DOMAIN tried : Read = Data(S)

(* Damage in one block costs no record that has no part in that block.     *)
Touches(i, b) == BlockOf(tried[i].start + 1) <= b /\ b <= BlockOf(tried[i].end)
Elsewhere == {i \in DOMAIN tried : ~Touches(i, BlockOf(past.damaged))}
DamageIsLocal ==
  Done /\ past.damaged # 0 /\ ~past.failed /\ ~past.crashed /\ reader.initial = 0 =>
    \E S \in SUBSET DOMAIN tried : Elsewhere \subseteq S /\ Read = Data(S)

(* A record lost to damage is reported, unless the damage is in the last   *)
(* block, where it may look like the writer's end, or like a block that    *)
(* was allocated and never written (log_reader.cc:250-255).                *)
LossIsReported ==
  Done /\ past.damaged # 0 /\ ~past.failed /\ ~past.crashed /\ reader.initial = 0
    /\ BlockOf(past.damaged) < BlockOf(Len(log)) /\ Len(got) < Len(tried)
    /\ noise # 0 /\ (\A i \in DOMAIN tried : tried[i].n > 0)
    => reader.drops # <<>>

(* A reader that starts at an offset returns the records that start there  *)
(* or later, and LastRecordOffset is where each one starts.                *)
OffsetIsExact ==
  Done /\ Intact /\ ~past.crashed /\ reader.bad > Len(log) =>
    /\ Read = Data({i \in DOMAIN tried : tried[i].start >= reader.initial})
    /\ \A j \in DOMAIN got : \E i \in DOMAIN tried :
         got[j].at = tried[i].start /\ got[j].data = Payload(i, tried[i].n)

(* "a run of kMiddleType and kLastType records can be silently skipped in  *)
(* this mode" (log_reader.h:97-99): starting in the middle of a record is  *)
(* no corruption.                                                          *)
ResyncIsSilent ==
  Done /\ Intact /\ ~past.crashed /\ reader.bad > Len(log) => reader.drops = <<>>
=============================================================================
