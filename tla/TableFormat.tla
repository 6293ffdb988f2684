----------------------------- MODULE TableFormat -----------------------------
(***************************************************************************)
(* TableBuilder (table/table_builder.cc) with its filter block             *)
(* (table/filter_block.cc) and the separators of its index                 *)
(* (util/comparator.cc, db/dbformat.cc), and Table::InternalGet            *)
(* (table/table.cc) on the file it writes.                                 *)
(*                                                                         *)
(* A key is [u, s]: a user key, a sequence of letters, and a sequence      *)
(* number.  Block contents are lists of keys (BlockFormat has their bytes).*)
(* A key takes one unit of a block, a block's trailer TrailerSize units;   *)
(* there is a filter for every FilterBase units of the file.               *)
(***************************************************************************)
EXTENDS Integers, Sequences, FiniteSets

LOCAL INSTANCE SequencesExt

CONSTANTS
  Letters,      \* the letters of user keys, numbers
  TopLetter,    \* 0xff
  MaxKeyLen,
  Sequences_,   \* sequence numbers
  MaxSequence,  \* kMaxSequenceNumber
  MaxKeys,      \* bound on the keys of a table
  BlockSize,    \* block_size: a data block is cut when it has as many units
  TrailerSize,  \* kBlockTrailerSize
  FilterBase    \* kFilterBase

User == UNION {[1..n -> Letters] : n \in 1..MaxKeyLen}
TableKey == [u : User, s : Sequences_]

RECURSIVE BytesLess(_, _)
BytesLess(a, b) ==
  CASE b = <<>> -> FALSE
    [] a = <<>> /\ b # <<>> -> TRUE
    [] OTHER -> Head(a) < Head(b) \/ (Head(a) = Head(b) /\ BytesLess(Tail(a), Tail(b)))

(* InternalKeyComparator::Compare.                                         *)
Before(a, b) == BytesLess(a.u, b.u) \/ (a.u = b.u /\ a.s > b.s)

-----------------------------------------------------------------------------
(* The first place where two keys differ, or one past the shorter.         *)
DiffIndex(a, b) ==
  LET n == IF Len(a) < Len(b) THEN Len(a) ELSE Len(b)
      at == {i \in 1..n : a[i] # b[i]}
  IN IF at = {} THEN n + 1 ELSE CHOOSE i \in at : \A j \in at : i <= j

(* BytewiseComparatorImpl::FindShortestSeparator.                          *)
UserSeparator(a, b) ==
  LET i == DiffIndex(a, b)
  IN IF i <= Len(a) /\ i <= Len(b) /\ a[i] < TopLetter /\ a[i] + 1 < b[i]
       THEN Append(SubSeq(a, 1, i - 1), a[i] + 1) ELSE a

(* BytewiseComparatorImpl::FindShortSuccessor.                             *)
UserSuccessor(a) ==
  LET at == {i \in 1..Len(a) : a[i] # TopLetter}
  IN IF at = {} THEN a
     ELSE LET i == CHOOSE i \in at : \A j \in at : i <= j
          IN Append(SubSeq(a, 1, i - 1), a[i] + 1)

(* The internal forms: shorter and larger, with the earliest number.       *)
Shortened(k, t) ==
  IF Len(t) < Len(k.u) /\ BytesLess(k.u, t) THEN [u |-> t, s |-> MaxSequence] ELSE k
MutFindShortestSeparator(k, limit) == Shortened(k, UserSuccessor(k.u))
FindShortestSeparator(k, limit) == Shortened(k, UserSeparator(k.u, limit.u))
FindShortSuccessor(k) == Shortened(k, UserSuccessor(k.u))

-----------------------------------------------------------------------------
(* FilterBlockBuilder: filters (each the set of its user keys, as          *)
(* InternalFilterPolicy makes it) and the keys since the last one.  A      *)
(* policy (external) matches at least the keys it was given.               *)
GenerateFilter(f) == [f EXCEPT !.filters = Append(@, f.keys), !.keys = {}]

RECURSIVE StartBlock(_, _)
StartBlock(f, offset) ==
  IF offset \div FilterBase > Len(f.filters) THEN StartBlock(GenerateFilter(f), offset) ELSE f

FilterAddKey(f, k) == [f EXCEPT !.keys = @ \union {k.u}]

FilterFinish(f) == IF f.keys = {} THEN f.filters ELSE GenerateFilter(f).filters

(* FilterBlockReader::KeyMayMatch: no filter for the offset is a match.    *)
KeyMayMatch(filters, offset, k) ==
  LET i == offset \div FilterBase IN i < Len(filters) => k.u \in filters[i + 1]

-----------------------------------------------------------------------------
VARIABLES
  r,            \* the builder's Rep
  table,        \* the file: block contents by offset, index, filters
  filtered,     \* options.filter_policy is set
  added         \* the keys added

vars == <<r, table, filtered, added>>

NoTable == [blocks |-> <<>>, index |-> <<>>, filters |-> <<>>, footer |-> FALSE]
NewRep == [data |-> <<>>, offset |-> 0, last |-> [u |-> <<>>, s |-> 0], pending |-> FALSE,
           handle |-> 0, filter |-> [filters |-> <<>>, keys |-> {}], ok |-> TRUE, closed |-> FALSE]

Init == r = NewRep /\ table = NoTable /\ filtered \in BOOLEAN /\ added = <<>>

(* The pending index entry, under the separator k.                         *)
EmitIndex(rep, t, k) ==
  IF rep.pending THEN [t EXCEPT !.index = Append(@, [key |-> k, handle |-> rep.handle])] ELSE t

(* WriteRawBlock of the data block, in full or (error) not.                *)
WriteBlock(rep, t, ok) ==
  IF ok
    THEN [rep |-> [rep EXCEPT !.handle = rep.offset, !.offset = @ + Len(rep.data) + TrailerSize,
                              !.data = <<>>],
          t |-> [t EXCEPT !.blocks = [o \in DOMAIN @ \union {rep.offset} |->
                                        IF o = rep.offset THEN rep.data ELSE @[o]]]]
    ELSE [rep |-> [rep EXCEPT !.handle = rep.offset, !.ok = FALSE, !.data = <<>>], t |-> t]

(* Flush: the block, the pending entry, the file's Flush, the filter.      *)
Flush(rep, t, ok, flushed) ==
  IF ~rep.ok \/ rep.data = <<>> THEN [rep |-> rep, t |-> t]
  ELSE LET x == WriteBlock(rep, t, ok)
       IN [x EXCEPT !.rep.pending = ok, !.rep.ok = ok /\ flushed,
                    !.rep.filter = IF filtered THEN StartBlock(@, x.rep.offset) ELSE @]

(* Add.                                                                    *)
Add(k, ok, flushed) ==
  /\ ~r.closed
  /\ Len(added) < MaxKeys
  /\ added # <<>> => Before(Last(added), k)
  /\ added' = Append(added, k)
  /\ IF ~r.ok THEN UNCHANGED <<r, table>>
     ELSE \E rep \in {[r EXCEPT !.pending = FALSE, !.last = k, !.data = Append(@, k),
                                !.filter = IF filtered THEN FilterAddKey(@, k) ELSE @]},
             t \in {EmitIndex(r, table, FindShortestSeparator(r.last, k))} :
            \E x \in {IF Len(rep.data) >= BlockSize THEN Flush(rep, t, ok, flushed)
                      ELSE [rep |-> rep, t |-> t]} :
              r' = x.rep /\ table' = x.t
  /\ UNCHANGED filtered

(* Finish: Flush, filter block, metaindex, the last index entry, index,    *)
(* footer; each only after the ones before succeeded.                      *)
Finish(ok, flushed, meta) ==
  /\ ~r.closed
  /\ \E x \in {Flush(r, table, ok, flushed)} :
       /\ r' = [x.rep EXCEPT !.closed = TRUE, !.ok = @ /\ meta,
                             !.pending = x.rep.pending /\ ~(x.rep.ok /\ meta)]
       /\ table' = IF ~x.rep.ok THEN x.t
                   ELSE IF ~meta THEN x.t
                   ELSE [EmitIndex(x.rep, x.t, FindShortSuccessor(x.rep.last)) EXCEPT
                           !.filters = IF filtered THEN FilterFinish(x.rep.filter) ELSE <<>>,
                           !.footer = TRUE]
  /\ UNCHANGED <<filtered, added>>

(* Abandon.                                                                *)
Abandon ==
  /\ ~r.closed
  /\ r' = [r EXCEPT !.closed = TRUE]
  /\ UNCHANGED <<table, filtered, added>>

Next ==
  \/ \E k \in TableKey, ok \in BOOLEAN, flushed \in BOOLEAN : Add(k, ok, flushed)
  \/ \E ok \in BOOLEAN, flushed \in BOOLEAN, meta \in BOOLEAN : Finish(ok, flushed, meta)
  \/ Abandon

Spec == Init /\ [][Next]_vars

-----------------------------------------------------------------------------
(* The first of a sorted list at or after k, as <<element>>, or <<>>.      *)
SeekIn(q, k, key(_)) ==
  LET at == {i \in 1..Len(q) : ~Before(key(q[i]), k)}
  IN IF at = {} THEN <<>> ELSE <<q[CHOOSE i \in at : \A j \in at : i <= j]>>

(* Table::InternalGet: index, filter, block; <<>> when nothing is handed   *)
(* to handle_result.                                                       *)
InternalGet(k) ==
  LET i == SeekIn(table.index, k, LAMBDA e : e.key)
  IN IF i = <<>> THEN <<>>
     ELSE IF filtered /\ ~KeyMayMatch(table.filters, i[1].handle, k) THEN <<>>
     ELSE SeekIn(table.blocks[i[1].handle], k, LAMBDA e : e)

(* Table::ApproximateOffsetOf; for a key past the last, where the          *)
(* metaindex block is: behind all data blocks.                             *)
ApproximateOffsetOf(k) ==
  LET i == SeekIn(table.index, k, LAMBDA e : e.key) IN IF i = <<>> THEN r.offset ELSE i[1].handle

Finished == table.footer /\ r.ok

TypeOK ==
  /\ r.offset \in 0..(MaxKeys * (1 + TrailerSize))
  /\ Len(r.data) <= BlockSize
  /\ DOMAIN table.blocks \subseteq 0..r.offset

(* The key of an index entry is at or after the keys of its block and      *)
(* before those of the next, shortened or not.                             *)
Separated ==
  \A i \in 1..Len(table.index) :
    LET e == table.index[i]
    IN /\ \A k \in ToSet(table.blocks[e.handle]) : ~Before(e.key, k)
       /\ \A o \in DOMAIN table.blocks :
            o > e.handle => \A k \in ToSet(table.blocks[o]) : Before(e.key, k)

(* A finished table gives back every key that was added, through index and *)
(* filter, and a search between the keys never gives another key of the    *)
(* user key it asks for: what Version::Get relies on.                      *)
EveryKeyFound ==
  Finished =>
    /\ \A k \in ToSet(added) : InternalGet(k) = <<k>>
    /\ \A k \in TableKey :
         LET newer == SeekIn(added, k, LAMBDA e : e)
         IN newer # <<>> /\ newer[1].u = k.u => InternalGet(k) = newer

(* Offsets grow with the keys, past the last one too: the differences      *)
(* GetApproximateSizes takes of them are never negative.                   *)
OffsetsMonotone ==
  Finished => \A j, k \in TableKey : Before(j, k) => ApproximateOffsetOf(j) <= ApproximateOffsetOf(k)
=============================================================================
