----------------------------- MODULE BlockFormat -----------------------------
(***************************************************************************)
(* BlockBuilder (table/block_builder.cc) and the iterator of the block it  *)
(* makes, Block::Iter (table/block.cc): prefix compression, restart        *)
(* points, binary search.                                                  *)
(*                                                                         *)
(* A key is a sequence of letters.  The buffer is kept as a function from  *)
(* the offset of each entry to [shared, rest, vlen, ok]; an entry takes    *)
(* three length bytes, the rest of its key and its value.  ok = FALSE is   *)
(* an entry whose lengths no longer decode (DecodeEntry gives nullptr).    *)
(***************************************************************************)
EXTENDS Integers, Sequences, FiniteSets

LOCAL INSTANCE SequencesExt

CONSTANTS
  Letter,       \* a set of numbers
  MaxLen,       \* longest key
  MaxEntries,   \* most entries of a block
  Interval      \* the values of block_restart_interval to consider

BlockKey == UNION {[1..n -> Letter] : n \in 1..MaxLen}

RECURSIVE KeyLess(_, _)
(* BytewiseComparator.                                                     *)
KeyLess(a, b) ==
  CASE b = <<>> -> FALSE
    [] a = <<>> /\ b # <<>> -> TRUE
    [] OTHER -> Head(a) < Head(b) \/ (Head(a) = Head(b) /\ KeyLess(Tail(a), Tail(b)))

-----------------------------------------------------------------------------
(* BlockBuilder: buffer_ (entry and its size), restarts_, counter_,        *)
(* last_key_.                                                              *)
NewBlockBuilder == [entry |-> <<>>, size |-> 0, restarts |-> <<0>>, counter |-> 0, last_key |-> <<>>]

(* The length of the common prefix.                                        *)
Shared(a, b) ==
  LET same == {n \in 0..Len(a) : n <= Len(b) /\ SubSeq(a, 1, n) = SubSeq(b, 1, n)}
  IN CHOOSE n \in same : \A k \in same : k <= n

EntrySize(e) == 3 + Len(e.rest) + e.vlen

(* The end of Add, for an entry that shares n letters with the last key.   *)
Emit(b, key, vlen, n) ==
  LET e == [shared |-> n, rest |-> SubSeq(key, n + 1, Len(key)), vlen |-> vlen, ok |-> TRUE]
  IN [b EXCEPT !.entry = [o \in DOMAIN b.entry \union {b.size} |->
                            IF o = b.size THEN e ELSE b.entry[o]],
               !.size = @ + EntrySize(e), !.counter = @ + 1, !.last_key = key]

(* Add: a restart point after every interval entries.                      *)
Add(b, interval, key, vlen) ==
  IF b.counter < interval
    THEN Emit(b, key, vlen, Shared(b.last_key, key))
    ELSE Emit([b EXCEPT !.restarts = Append(@, b.size), !.counter = 0], key, vlen, 0)

-----------------------------------------------------------------------------
(* Block::Iter on a finished block: current_, restart_index_ (from 0),     *)
(* key_, the end of value_ and status_.                                    *)
NewIter(b) == [current |-> b.size, restart |-> Len(b.restarts), key |-> <<>>, end |-> 0, err |-> FALSE]
Valid(b, i) == i.current < b.size
GetRestartPoint(b, n) == b.restarts[n + 1]
SeekToRestartPoint(b, i, n) == [i EXCEPT !.key = <<>>, !.restart = n, !.end = GetRestartPoint(b, n)]

CorruptionError(b, i) ==
  [i EXCEPT !.current = b.size, !.restart = Len(b.restarts), !.err = TRUE, !.key = <<>>]

RECURSIVE RestartIndex(_, _, _)
(* The loop at the end of ParseNextKey.                                    *)
RestartIndex(b, n, current) ==
  IF n + 1 < Len(b.restarts) /\ GetRestartPoint(b, n + 1) < current
    THEN RestartIndex(b, n + 1, current) ELSE n

(* ParseNextKey; it returned true when the result is valid.                *)
ParseNextKey(b, i) ==
  IF i.end >= b.size
    THEN [i EXCEPT !.current = b.size, !.restart = Len(b.restarts)]
  ELSE LET e == b.entry[i.end]
       IN IF ~e.ok \/ Len(i.key) < e.shared
            THEN CorruptionError(b, i)
            ELSE [i EXCEPT !.current = i.end, !.key = SubSeq(@, 1, e.shared) \o e.rest,
                           !.end = @ + EntrySize(e),
                           !.restart = RestartIndex(b, @, i.end)]

RECURSIVE ScanTo(_, _, _), ScanToKey(_, _, _), RestartBefore(_, _, _)
(* Entry by entry until the next one begins at limit or later.             *)
ScanTo(b, i, limit) ==
  LET j == ParseNextKey(b, i)
  IN IF Valid(b, j) /\ j.end < limit THEN ScanTo(b, j, limit) ELSE j

ScanToKey(b, i, target) ==
  LET j == ParseNextKey(b, i)
  IN IF ~Valid(b, j) \/ ~KeyLess(j.key, target) THEN j ELSE ScanToKey(b, j, target)

(* The loop of Prev: -1 when there is no entry before.                     *)
RestartBefore(b, n, original) ==
  IF GetRestartPoint(b, n) < original THEN n
  ELSE IF n = 0 THEN -1 ELSE RestartBefore(b, n - 1, original)

Prev(b, i) ==
  LET n == RestartBefore(b, i.restart, i.current)
  IN IF n = -1 THEN [i EXCEPT !.current = b.size, !.restart = Len(b.restarts)]
     ELSE ScanTo(b, SeekToRestartPoint(b, i, n), i.current)

RECURSIVE BinarySearch(_, _, _, _)
Mid(left, right) == (left + right + 1) \div 2

(* Seek's search of the restart array: -1 for a damaged entry.             *)
BinarySearch(b, target, left, right) ==
  IF left >= right THEN left
  ELSE LET mid == Mid(left, right)
           e == b.entry[GetRestartPoint(b, mid)]
       IN IF ~e.ok \/ e.shared # 0 THEN -1
          ELSE IF KeyLess(e.rest, target) THEN BinarySearch(b, target, mid, right)
          ELSE BinarySearch(b, target, left, mid - 1)

Seek(b, i, target) ==
  LET n == BinarySearch(b, target, 0, Len(b.restarts) - 1)
  IN IF n = -1 THEN CorruptionError(b, i)
     ELSE ScanToKey(b, SeekToRestartPoint(b, i, n), target)
SeekToFirst(b, i) == ParseNextKey(b, SeekToRestartPoint(b, i, 0))
SeekToLast(b, i) == ScanTo(b, SeekToRestartPoint(b, i, Len(b.restarts) - 1), b.size)

-----------------------------------------------------------------------------
VARIABLES
  keys,         \* the keys added
  interval,     \* block_restart_interval
  block,        \* the builder, and then the block
  it,           \* the iterator; <<>> while the block is being built
  last          \* the last call and its target

vars == <<keys, interval, block, it, last>>

Init ==
  /\ keys = <<>> /\ interval \in Interval
  /\ block = NewBlockBuilder
  /\ it = <<>>
  /\ last = <<"build", <<>>>>

(* The table builder adds keys in order.                                   *)
AddKey(k, vlen) ==
  /\ it = <<>>
  /\ Len(keys) < MaxEntries
  /\ keys # <<>> => KeyLess(Last(keys), k)
  /\ keys' = Append(keys, k)
  /\ block' = Add(block, interval, k, vlen)
  /\ UNCHANGED <<interval, it, last>>

(* Finish, and the block is read back, whole or with a damaged entry.      *)
Finish ==
  /\ it = <<>> /\ keys # <<>>
  /\ \/ UNCHANGED block
     \/ \E o \in DOMAIN block.entry : block' = [block EXCEPT !.entry[o].ok = FALSE]
  /\ it' = NewIter(block)
  /\ UNCHANGED <<keys, interval, last>>

Call(name, target, i) ==
  /\ it' = i /\ last' = <<name, target>>
  /\ UNCHANGED <<keys, interval, block>>

Next ==
  \/ \E k \in BlockKey, v \in {0, 2} : AddKey(k, v)
  \/ Finish
  \/ /\ it # <<>>
     /\ \/ Call("first", <<>>, SeekToFirst(block, it))
        \/ Call("last", <<>>, SeekToLast(block, it))
        \/ \E k \in BlockKey : Call("seek", k, Seek(block, it, k))
        \/ Valid(block, it) /\ Call("next", <<>>, ParseNextKey(block, it))
        \/ Valid(block, it) /\ Call("prev", <<>>, Prev(block, it))

Spec == Init /\ [][Next]_vars

-----------------------------------------------------------------------------
TypeOK ==
  /\ Len(block.restarts) <= MaxEntries
  /\ block.counter \in 0..interval
  /\ it # <<>> => it.current \in DOMAIN block.entry \union {block.size}

(* The place of the iterator among the keys added, 0 when not valid.       *)
At(b, i) == IF ~Valid(b, i) THEN 0 ELSE CHOOSE n \in 1..Len(keys) : keys[n] = i.key
FirstFrom(k) ==
  LET at == {n \in 1..Len(keys) : ~KeyLess(keys[n], k)}
  IN IF at = {} THEN 0 ELSE CHOOSE n \in at : \A m \in at : n <= m

(* Every call finds what it would find in the list of keys that were added,*)
(* for every restart interval and from every position; a damaged block     *)
(* makes the iterator invalid with an error, never wrong.                  *)
BlockStep ==
  it # <<>> /\ ~it'.err =>
    At(block, it') = CASE last'[1] = "first" -> 1
                       [] last'[1] = "last" -> Len(keys)
                       [] last'[1] = "seek" -> FirstFrom(last'[2])
                       [] last'[1] = "next" -> (At(block, it) + 1) % (Len(keys) + 1)
                       [] last'[1] = "prev" -> At(block, it) - 1
BlockIsList == [][BlockStep]_vars

(* restart_index_ is the last restart point at or before the entry: Prev   *)
(* starts its search from it.                                              *)
RestartIndexRight ==
  it # <<>> /\ Valid(block, it) =>
    /\ GetRestartPoint(block, it.restart) <= it.current
    /\ \A n \in 0..(Len(block.restarts) - 1) :
         n > it.restart => GetRestartPoint(block, n) >= it.current
=============================================================================
