------------------------------ MODULE WireFormat ------------------------------
(***************************************************************************)
(* The encodings of the log and the MANIFEST: util/coding.cc, WriteBatch   *)
(* (db/write_batch.cc) and VersionEdit (db/version_edit.cc), as operators, *)
(* and what a reader makes of a whole and of a cut encoding.               *)
(*                                                                         *)
(* A byte is a number below 2 * B; the source has B = 128.  A varint of at *)
(* most Max32 (5) or Max64 (10) bytes yields a number modulo W32 (2^32) or *)
(* W64 (2^64).  Decoders give [ok, v, rest].                               *)
(***************************************************************************)
EXTENDS Integers, Sequences, FiniteSets

LOCAL INSTANCE SequencesExt

CONSTANTS
  B, Max32, W32, Max64, W64,
  kNumLevels,   \* 7
  WireKey,      \* the keys to encode, byte sequences
  MaxUpdates,   \* bound on the updates of a batch, and on the calls on an edit
  WireNumber    \* the numbers to encode

Fail == [ok |-> FALSE, v |-> 0, rest |-> <<>>]

RECURSIVE PutVarint(_)
(* EncodeVarint32, EncodeVarint64.                                         *)
PutVarint(v) == IF v < B THEN <<v>> ELSE <<(v % B) + B>> \o PutVarint(v \div B)

RECURSIVE Digits(_, _)
Digits(s, n) == IF n = 0 THEN 0 ELSE Digits(s, n - 1) + (s[n] % B) * B^(n - 1)

(* GetVarint32PtrFallback and GetVarint64Ptr.                              *)
GetVarint(s, max, w) ==
  LET stop == {n \in 1..max : n <= Len(s) /\ s[n] < B}
  IN IF stop = {} THEN Fail
     ELSE LET n == CHOOSE n \in stop : \A k \in stop : n <= k
          IN [ok |-> TRUE, v |-> Digits(s, n) % w, rest |-> SubSeq(s, n + 1, Len(s))]

GetVarint32(s) == GetVarint(s, Max32, W32)
GetVarint64(s) == GetVarint(s, Max64, W64)

PutLengthPrefixedSlice(k) == PutVarint(Len(k)) \o k
GetLengthPrefixedSlice(s) ==
  LET n == GetVarint32(s)
  IN IF n.ok /\ Len(n.rest) >= n.v
       THEN [ok |-> TRUE, v |-> SubSeq(n.rest, 1, n.v), rest |-> SubSeq(n.rest, n.v + 1, Len(n.rest))]
       ELSE Fail

(* The decoders f and g one after the other: v is the pair.                *)
Both(s, f(_), g(_)) ==
  LET a == f(s)
      b == g(a.rest)
  IN IF a.ok /\ b.ok THEN [ok |-> TRUE, v |-> <<a.v, b.v>>, rest |-> b.rest] ELSE Fail

-----------------------------------------------------------------------------
(* WriteBatch: the header's sequence and count, and the records.  An       *)
(* update is <<"put", key, value>> or <<"delete", key>>.                   *)
kTypeDeletion == 0
kTypeValue == 1
EmptyBatch == [seq |-> 0, count |-> 0, rep |-> <<>>]

BatchPut(b, k, v) ==
  [b EXCEPT !.count = @ + 1,
            !.rep = @ \o <<kTypeValue>> \o PutLengthPrefixedSlice(k) \o PutLengthPrefixedSlice(v)]
BatchDelete(b, k) ==
  [b EXCEPT !.count = @ + 1, !.rep = @ \o <<kTypeDeletion>> \o PutLengthPrefixedSlice(k)]

(* WriteBatchInternal::Append.                                             *)
BatchAppend(dst, src) == [dst EXCEPT !.count = @ + src.count, !.rep = @ \o src.rep]

RECURSIVE Records(_, _)
(* The loop of Iterate: the updates handled, and whether all of it parsed. *)
Records(s, done) ==
  IF s = <<>> THEN [ops |-> done, ok |-> TRUE]
  ELSE LET put == Both(Tail(s), GetLengthPrefixedSlice, GetLengthPrefixedSlice)
           del == GetLengthPrefixedSlice(Tail(s))
       IN CASE Head(s) = kTypeValue /\ put.ok ->
                 Records(put.rest, Append(done, <<"put", put.v[1], put.v[2]>>))
            [] Head(s) = kTypeDeletion /\ del.ok -> Records(del.rest, Append(done, <<"delete", del.v>>))
            [] OTHER -> [ops |-> done, ok |-> FALSE]

(* Iterate checks the count at the end.                                    *)
Iterate(b) ==
  LET r == Records(b.rep, <<>>)
  IN [r EXCEPT !.ok = @ /\ Len(r.ops) = b.count]

(* MemTableInserter: the sequence each update gets.                        *)
InsertInto(b) == [i \in 1..Len(Iterate(b).ops) |-> <<b.seq + i - 1, Iterate(b).ops[i]>>]

-----------------------------------------------------------------------------
(* VersionEdit: the has_ fields are NoField or the number; compact         *)
(* pointers and new files are lists, deleted files a set written in order. *)
NoField == -1
EmptyEdit == [comparator |-> <<>>, log |-> NoField, prevLog |-> NoField, nextFile |-> NoField,
              lastSeq |-> NoField, pointers |-> <<>>, deleted |-> {}, new |-> <<>>]

kComparator == 1
kLogNumber == 2
kNextFileNumber == 3
kLastSequence == 4
kCompactPointer == 5
kDeletedFile == 6
kNewFile == 7
kPrevLogNumber == 9

Field(tag, n) == IF n = NoField THEN <<>> ELSE PutVarint(tag) \o PutVarint(n)

Each(q, f(_)) == FlattenSeq([i \in 1..Len(q) |-> f(q[i])])

RECURSIVE InOrder(_)
(* The order of DeletedFileSet.                                            *)
InOrder(s) ==
  IF s = {} THEN <<>>
  ELSE LET p == CHOOSE p \in s : \A q \in s : p[1] < q[1] \/ (p[1] = q[1] /\ p[2] <= q[2])
       IN <<p>> \o InOrder(s \ {p})

EncodeTo(e) ==
  (IF e.comparator = <<>> THEN <<>> ELSE PutVarint(kComparator) \o PutLengthPrefixedSlice(e.comparator))
  \o Field(kLogNumber, e.log) \o Field(kPrevLogNumber, e.prevLog)
  \o Field(kNextFileNumber, e.nextFile) \o Field(kLastSequence, e.lastSeq)
  \o Each(e.pointers, LAMBDA p : PutVarint(kCompactPointer) \o PutVarint(p[1])
                                 \o PutLengthPrefixedSlice(p[2]))
  \o Each(InOrder(e.deleted), LAMBDA p : PutVarint(kDeletedFile) \o PutVarint(p[1]) \o PutVarint(p[2]))
  \o Each(e.new, LAMBDA f : PutVarint(kNewFile) \o PutVarint(f[1]) \o PutVarint(f[2])
                            \o PutVarint(f[3]) \o PutLengthPrefixedSlice(f[4])
                            \o PutLengthPrefixedSlice(f[5]))

GetLevel(s) ==
  LET n == GetVarint32(s)
  IN IF n.ok /\ n.v < kNumLevels THEN n ELSE Fail

(* number, size, smallest, largest of a new file.                          *)
GetFile(s) ==
  Both(s, LAMBDA a : Both(a, GetVarint64, GetVarint64),
          LAMBDA b : Both(b, GetLengthPrefixedSlice, GetLengthPrefixedSlice))

NewFile(e, v) == [e EXCEPT !.new = Append(@, <<v[1], v[2][1][1], v[2][1][2], v[2][2][1], v[2][2][2]>>)]

(* One turn of the loop of DecodeFrom, after the tag: the value decoded.   *)
Decoded(tag, s) ==
  CASE tag = kComparator -> GetLengthPrefixedSlice(s)
    [] tag \in {kLogNumber, kPrevLogNumber, kNextFileNumber, kLastSequence} -> GetVarint64(s)
    [] tag = kCompactPointer -> Both(s, GetLevel, GetLengthPrefixedSlice)
    [] tag = kDeletedFile -> Both(s, GetLevel, GetVarint64)
    [] tag = kNewFile -> Both(s, GetLevel, GetFile)
    [] OTHER -> Fail

SetField(e, tag, v) ==
  CASE tag = kComparator -> [e EXCEPT !.comparator = v]
    [] tag = kLogNumber -> [e EXCEPT !.log = v]
    [] tag = kPrevLogNumber -> [e EXCEPT !.prevLog = v]
    [] tag = kNextFileNumber -> [e EXCEPT !.nextFile = v]
    [] tag = kLastSequence -> [e EXCEPT !.lastSeq = v]
    [] tag = kCompactPointer -> [e EXCEPT !.pointers = Append(@, v)]
    [] tag = kDeletedFile -> [e EXCEPT !.deleted = @ \union {v}]
    [] OTHER -> NewFile(e, v)

RECURSIVE DecodeLoop(_, _)
DecodeLoop(e, s) ==
  LET tag == GetVarint32(s)
      d == Decoded(tag.v, tag.rest)
  IN CASE ~tag.ok -> [e |-> e, ok |-> s = <<>>]
       [] tag.ok /\ ~d.ok -> [e |-> e, ok |-> FALSE]
       [] OTHER -> DecodeLoop(SetField(e, tag.v, d.v), d.rest)

(* DecodeFrom: Clear keeps compact_pointers_.                              *)
DecodeFrom(old, s) == DecodeLoop([EmptyEdit EXCEPT !.pointers = old.pointers], s)

-----------------------------------------------------------------------------
VARIABLES
  batch,        \* a WriteBatch
  ops,          \* the updates it was made of
  edit,         \* a VersionEdit
  calls         \* the calls that built the batch or the edit

vars == <<batch, ops, edit, calls>>

Init == batch = EmptyBatch /\ ops = <<>> /\ edit = EmptyEdit /\ calls = 0

(* The caller's batch, and the batch of another writer that                *)
(* BuildBatchGroup appends to it.                                          *)
Batching(b, more) ==
  /\ edit = EmptyEdit
  /\ calls < MaxUpdates /\ calls' = calls + 1
  /\ batch' = b /\ ops' = ops \o more
  /\ UNCHANGED edit

Put(k, v) == Batching(BatchPut(batch, k, v), <<<<"put", k, v>>>>)
Delete(k) == Batching(BatchDelete(batch, k), <<<<"delete", k>>>>)
AppendBatch(k) ==
  Batching(BatchAppend(batch, BatchDelete(BatchPut(EmptyBatch, k, k), k)),
           <<<<"put", k, k>>, <<"delete", k>>>>)

(* The setters of VersionEdit (version_edit.h).                            *)
Editing(e) ==
  /\ ops = <<>>
  /\ calls < MaxUpdates /\ calls' = calls + 1
  /\ edit' = e
  /\ UNCHANGED <<batch, ops>>

SetComparatorName == Editing([edit EXCEPT !.comparator = <<1, 2>>])
SetNumber(field, n) == Editing([edit EXCEPT ![field] = n])
SetCompactPointer(level, k) == Editing([edit EXCEPT !.pointers = Append(@, <<level, k>>)])
AddFile(level, n, k, l) == Editing([edit EXCEPT !.new = Append(@, <<level, n, 5, k, l>>)])
DeleteFile(level, n) == Editing([edit EXCEPT !.deleted = @ \union {<<level, n>>}])

Next ==
  \/ \E k \in WireKey : Delete(k) \/ AppendBatch(k) \/ (\E v \in WireKey : Put(k, v))
  \/ SetComparatorName
  \/ \E n \in WireNumber :
       \/ \E f \in {"log", "prevLog", "nextFile", "lastSeq"} : SetNumber(f, n)
       \/ \E level \in 0..(kNumLevels - 1) :
            \/ DeleteFile(level, n)
            \/ \E k \in WireKey : SetCompactPointer(level, k) \/ AddFile(level, n, k, <<1>>)

Spec == Init /\ [][Next]_vars

-----------------------------------------------------------------------------
Cut(s, n) == SubSeq(s, 1, Len(s) - n)
Sequenced == [batch EXCEPT !.seq = 7]

(* The count in the header is that of the records.                         *)
TypeOK ==
  /\ batch.count = Len(ops)
  /\ \A i \in 1..Len(batch.rep) : batch.rep[i] \in 0..(2 * B - 1)
  /\ edit.log \in WireNumber \union {NoField}

(* A batch, alone or merged from several writers (BuildBatchGroup), is     *)
(* read back update by update with consecutive sequence numbers; a batch   *)
(* that lost bytes is refused, even when it ends between two updates.      *)
BatchReadBack ==
  /\ Iterate(Sequenced).ok
  /\ InsertInto(Sequenced) = [i \in 1..Len(ops) |-> <<7 + i - 1, ops[i]>>]
  /\ \A n \in 1..Len(batch.rep) : ~Iterate([batch EXCEPT !.rep = Cut(@, n)]).ok

(* An edit is read back as it was written.  A cut edit is refused, or read *)
(* as the edit without its last fields: a MANIFEST record has no count.    *)
EditReadBack ==
  LET s == EncodeTo(edit)
  IN /\ DecodeFrom(EmptyEdit, s) = [e |-> edit, ok |-> TRUE]
     /\ \A n \in 1..Len(s) :
          LET d == DecodeFrom(EmptyEdit, Cut(s, n)) IN d.ok => EncodeTo(d.e) = Cut(s, n)
=============================================================================
