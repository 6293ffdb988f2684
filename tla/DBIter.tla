-------------------------------- MODULE DBIter --------------------------------
(***************************************************************************)
(* A user's iterator, as DBImpl::NewIterator builds it: DBIter             *)
(* (db/db_iter.cc) over MergingIterator (table/merger.cc) over a memtable  *)
(* and either a table or a level; both are iterated by a TwoLevelIterator  *)
(* (table/two_level_iterator.cc), over the blocks of the table or, by      *)
(* LevelFileNumIterator (db/version_set.cc), over the files of the level.  *)
(* Some of them cannot be read.                                            *)
(*                                                                         *)
(* An entry is [u, s, t]: user key, sequence, type ("value", "deletion",   *)
(* or "corrupt" when ParseInternalKey rejects it); its value is its        *)
(* sequence.  An iterator is a record; a method maps a record to the next. *)
(***************************************************************************)
EXTENDS Integers, Sequences, FiniteSets

LOCAL INSTANCE SequencesExt

CONSTANTS
  UserKey,      \* a set of positive numbers
  MaxSeq        \* entries of the database

NoKey == 0
EntryLess(a, b) == a.u < b.u \/ (a.u = b.u /\ a.s > b.s)

(* Where a user's Seek at sequence s lands: kValueTypeForSeek sorts first. *)
Target(u, s) == [u |-> u, s |-> s, t |-> "value"]

-----------------------------------------------------------------------------
(* TwoLevelIterator: blocks (or files), bad ones, separators reach up to   *)
(* the next block (gap), the index position i, the data iterator (has, its *)
(* block h, its position d) and the saved error.  Position 0 is "not       *)
(* valid".  A block or file that cannot be read is an empty iterator with  *)
(* an error (BlockReader, GetFileIterator).                                *)
Data(c) == IF c.h \in c.bad THEN <<>> ELSE c.blocks[c.h]
DataValid(c) == c.has /\ c.d # 0
Entry(c) == Data(c)[c.d]

SetDataIterator(c, has, h) ==
  [c EXCEPT !.err = @ \/ (c.has /\ c.h \in c.bad), !.has = has, !.h = h, !.d = 0]

(* InitDataBlock: the iterator of the same block is kept as it is.         *)
InitDataBlock(c) ==
  CASE c.i = 0 -> SetDataIterator(c, FALSE, 0)
    [] c.i # 0 /\ c.has /\ c.h = c.i -> c
    [] OTHER -> SetDataIterator(c, TRUE, c.i)

(* The first position of a sorted sequence at or after a target.           *)
FirstAtOrAfter(q, x) ==
  LET at == {k \in 1..Len(q) : ~EntryLess(q[k], x)}
  IN IF at = {} THEN 0 ELSE CHOOSE k \in at : \A j \in at : k <= j

(* Seek of the index: the keys of an index block separate the blocks, the  *)
(* key of a file in a level is its largest.                                *)
SeekIndex(c, x) ==
  LET reaches(k) == \/ ~EntryLess(Last(c.blocks[k]), x)
                    \/ c.gap /\ k < Len(c.blocks) /\ EntryLess(x, c.blocks[k + 1][1])
      at == {k \in 1..Len(c.blocks) : reaches(k)}
  IN IF at = {} THEN 0 ELSE CHOOSE k \in at : \A j \in at : k <= j

IndexToFirst(c) == [c EXCEPT !.i = IF c.blocks = <<>> THEN 0 ELSE 1]
IndexToLast(c) == [c EXCEPT !.i = Len(c.blocks)]
IndexNext(c) == [c EXCEPT !.i = IF c.i < Len(c.blocks) THEN c.i + 1 ELSE 0]
IndexPrev(c) == [c EXCEPT !.i = c.i - 1]

DataSeek(c, x) == IF c.has THEN [c EXCEPT !.d = FirstAtOrAfter(Data(c), x)] ELSE c
DataToFirst(c) == IF c.has THEN [c EXCEPT !.d = IF Data(c) = <<>> THEN 0 ELSE 1] ELSE c
DataToLast(c) == IF c.has THEN [c EXCEPT !.d = Len(Data(c))] ELSE c
DataNext(c) == [c EXCEPT !.d = IF c.d < Len(Data(c)) THEN c.d + 1 ELSE 0]
DataPrev(c) == [c EXCEPT !.d = c.d - 1]

RECURSIVE SkipEmptyDataBlocksForward(_), SkipEmptyDataBlocksBackward(_)
SkipEmptyDataBlocksForward(c) ==
  CASE DataValid(c) -> c
    [] ~DataValid(c) /\ c.i = 0 -> SetDataIterator(c, FALSE, 0)
    [] OTHER -> SkipEmptyDataBlocksForward(DataToFirst(InitDataBlock(IndexNext(c))))
SkipEmptyDataBlocksBackward(c) ==
  CASE DataValid(c) -> c
    [] ~DataValid(c) /\ c.i = 0 -> SetDataIterator(c, FALSE, 0)
    [] OTHER -> SkipEmptyDataBlocksBackward(DataToLast(InitDataBlock(IndexPrev(c))))

ChildSeek(c, x) ==
  SkipEmptyDataBlocksForward(DataSeek(InitDataBlock([c EXCEPT !.i = SeekIndex(c, x)]), x))
ChildToFirst(c) ==
  SkipEmptyDataBlocksForward(DataToFirst(InitDataBlock(IndexToFirst(c))))
ChildToLast(c) ==
  SkipEmptyDataBlocksBackward(DataToLast(InitDataBlock(IndexToLast(c))))
ChildNext(c) == SkipEmptyDataBlocksForward(DataNext(c))
ChildPrev(c) == SkipEmptyDataBlocksBackward(DataPrev(c))

(* status(): the index block is sound.                                     *)
ChildError(c) == c.err \/ (c.has /\ c.h \in c.bad)

-----------------------------------------------------------------------------
(* MergingIterator: children ch, current_ cur (0 for nullptr), direction_. *)
FindSmallest(ch) ==
  LET valid == {k \in 1..Len(ch) : DataValid(ch[k])}
  IN IF valid = {} THEN 0
     ELSE CHOOSE k \in valid : \A j \in valid : j = k \/ EntryLess(Entry(ch[k]), Entry(ch[j]))
FindLargest(ch) ==
  LET valid == {k \in 1..Len(ch) : DataValid(ch[k])}
  IN IF valid = {} THEN 0
     ELSE CHOOSE k \in valid : \A j \in valid : j = k \/ EntryLess(Entry(ch[j]), Entry(ch[k]))

AtSmallest(ch) == [ch |-> ch, cur |-> FindSmallest(ch), dir |-> "forward"]
AtLargest(ch) == [ch |-> ch, cur |-> FindLargest(ch), dir |-> "reverse"]
Each(ch, f(_)) == [k \in 1..Len(ch) |-> f(ch[k])]

MValid(m) == m.cur # 0
MEntry(m) == Entry(m.ch[m.cur])
MSeekToFirst(m) == AtSmallest(Each(m.ch, ChildToFirst))
MSeekToLast(m) == AtLargest(Each(m.ch, ChildToLast))
MSeek(m, x) == AtSmallest(Each(m.ch, LAMBDA c : ChildSeek(c, x)))

(* Next and Prev: after a change of direction the other children are       *)
(* placed after, or before, the current key.                               *)
After(c, e) ==
  LET d == ChildSeek(c, e)
  IN IF DataValid(d) /\ Entry(d) = e THEN ChildNext(d) ELSE d

Before(c, e) ==
  LET d == ChildSeek(c, e)
  IN IF DataValid(d) THEN ChildPrev(d) ELSE ChildToLast(d)

MNext(m) ==
  AtSmallest([k \in 1..Len(m.ch) |->
            CASE k = m.cur -> ChildNext(m.ch[k])
              [] k # m.cur /\ m.dir = "forward" -> m.ch[k]
              [] OTHER -> After(m.ch[k], MEntry(m))])
MPrev(m) ==
  AtLargest([k \in 1..Len(m.ch) |->
            CASE k = m.cur -> ChildPrev(m.ch[k])
              [] k # m.cur /\ m.dir = "reverse" -> m.ch[k]
              [] OTHER -> Before(m.ch[k], MEntry(m))])
MError(m) == \E k \in 1..Len(m.ch) : ChildError(m.ch[k])

-----------------------------------------------------------------------------
(* DBIter: iter_ (m), direction_, valid_, saved_key_, saved_value_,        *)
(* status_ (err) and sequence_.                                            *)
Clear(it) == [it EXCEPT !.saved_key = NoKey]
ClearAll(it) == [it EXCEPT !.saved_key = NoKey, !.saved_value = 0]

(* ParseKey, and whether the entry is one the snapshot sees.               *)
Parsed(it) == IF MEntry(it.m).t = "corrupt" THEN [it EXCEPT !.err = TRUE] ELSE it
Seen(it) == MEntry(it.m).t # "corrupt" /\ MEntry(it.m).s <= it.sequence

MutHidden(it, skipping) == skipping /\ MEntry(it.m).u < it.saved_key

(* An entry of a key that was passed or deleted.                           *)
Hidden(it, skipping) == skipping /\ MEntry(it.m).u <= it.saved_key

(* A visible entry of a smaller key ends the search backwards.             *)
Passed(it, t) == Seen(it) /\ t = "value" /\ MEntry(it.m).u < it.saved_key

RECURSIVE FindNextUserEntry(_, _), FindPrevUserEntry(_, _), ScanBack(_)
FindNextUserEntry(it, skipping) ==
  IF ~MValid(it.m) THEN [Clear(it) EXCEPT !.valid = FALSE]
  ELSE CASE Seen(it) /\ MEntry(it.m).t = "deletion" ->
              FindNextUserEntry([it EXCEPT !.saved_key = MEntry(it.m).u, !.m = MNext(it.m)], TRUE)
         [] Seen(it) /\ MEntry(it.m).t = "value" /\ ~Hidden(it, skipping) ->
              [Clear(it) EXCEPT !.valid = TRUE]
         [] OTHER -> FindNextUserEntry([Parsed(it) EXCEPT !.m = MNext(it.m)], skipping)

(* FindPrevUserEntry with value_type t.                                    *)
FindPrevUserEntry(it, t) ==
  IF MValid(it.m) => Passed(it, t)
    THEN IF t = "deletion" THEN [ClearAll(it) EXCEPT !.valid = FALSE, !.dir = "forward"]
         ELSE [it EXCEPT !.valid = TRUE]
  ELSE CASE ~Seen(it) -> FindPrevUserEntry([Parsed(it) EXCEPT !.m = MPrev(it.m)], t)
         [] Seen(it) /\ MEntry(it.m).t = "deletion" ->
              FindPrevUserEntry([ClearAll(it) EXCEPT !.m = MPrev(it.m)], "deletion")
         [] OTHER ->
              FindPrevUserEntry([it EXCEPT !.saved_key = MEntry(it.m).u,
                                           !.saved_value = MEntry(it.m).s, !.m = MPrev(it.m)], "value")

(* The change to the reverse direction, in Prev.                           *)
ScanBack(it) ==
  CASE ~MValid(it.m) -> [ClearAll(it) EXCEPT !.valid = FALSE]
    [] MValid(it.m) /\ MEntry(it.m).u < it.saved_key ->
         FindPrevUserEntry([it EXCEPT !.dir = "reverse"], "deletion")
    [] OTHER -> ScanBack([it EXCEPT !.m = MPrev(it.m)])

Next_(it) ==
  IF it.dir = "forward"
    THEN FindNextUserEntry([it EXCEPT !.saved_key = MEntry(it.m).u], TRUE)
  ELSE FindNextUserEntry([it EXCEPT !.dir = "forward",
                            !.m = IF MValid(it.m) THEN MNext(it.m) ELSE MSeekToFirst(it.m)], TRUE)
Prev(it) ==
  IF it.dir = "forward"
    THEN ScanBack([it EXCEPT !.saved_key = MEntry(it.m).u, !.m = MPrev(it.m)])
    ELSE FindPrevUserEntry(it, "deletion")
Seek(it, u) ==
  FindNextUserEntry([ClearAll(it) EXCEPT !.dir = "forward", !.valid = FALSE,
                       !.m = MSeek(it.m, Target(u, it.sequence))], FALSE)
SeekToFirst(it) ==
  FindNextUserEntry([it EXCEPT !.saved_value = 0, !.dir = "forward", !.valid = FALSE,
                       !.m = MSeekToFirst(it.m)], FALSE)

SeekToLast(it) ==
  FindPrevUserEntry([it EXCEPT !.saved_value = 0, !.dir = "reverse", !.m = MSeekToLast(it.m)], "deletion")

Key(it) == IF ~it.valid THEN NoKey ELSE IF it.dir = "forward" THEN MEntry(it.m).u ELSE it.saved_key
Value(it) == IF it.dir = "forward" THEN MEntry(it.m).s ELSE it.saved_value
Error(it) == it.err \/ MError(it.m)

-----------------------------------------------------------------------------
VARIABLES
  db,           \* the entries
  iter,         \* the user's DBIter
  op            \* the last call: <<method, target>>

vars == <<db, iter, op>>

Sorted(es) == SetToSortSeq(es, EntryLess)

(* The entries es in blocks or files of n, of which bad cannot be read.    *)
Child(es, n, bad, gap) ==
  LET q == Sorted(es)
      count == (Len(q) + n - 1) \div n
  IN [blocks |-> [k \in 1..count |->
                    SubSeq(q, (k - 1) * n + 1, IF k * n < Len(q) THEN k * n ELSE Len(q))],
      bad |-> bad, gap |-> gap, i |-> 0, has |-> FALSE, h |-> 0, d |-> 0, err |-> FALSE]

(* The tables of level 0 get iterators of their own, another level one     *)
(* that concatenates its files; here there is one or the other.            *)
AddIterators(es, n, bad) == <<Child(es, n, bad, n = 1)>>

NewInternalIterator(new, old, n, bad) ==
  <<Child(new, MaxSeq, {}, FALSE)>> \o AddIterators(old, n, bad)

NewDBIterator(ch, s) ==
  [m |-> [ch |-> ch, cur |-> 0, dir |-> "forward"], dir |-> "forward", valid |-> FALSE,
   saved_key |-> NoKey, saved_value |-> 0, err |-> FALSE, sequence |-> s]

(* Any database of MaxSeq updates of which the newest are in the memtable, *)
(* and a table or level whose oldest entry, or one block or file, may be   *)
(* damaged.                                                                *)
Init ==
  /\ \E f \in [1..MaxSeq -> [u : UserKey, t : {"value", "deletion"}]], corrupt \in BOOLEAN :
       db = {[u |-> f[s].u, s |-> s,
              t |-> IF s = 1 /\ corrupt THEN "corrupt" ELSE f[s].t] : s \in 1..MaxSeq}
  /\ \E cut \in 1..MaxSeq, n \in 1..2, bad \in {{}, {1}, {2}}, s \in {MaxSeq - 1, MaxSeq} :
       iter = NewDBIterator(NewInternalIterator({e \in db : e.s > cut},
                                                {e \in db : e.s <= cut}, n, bad), s)
  /\ op = <<"none", NoKey>>

Call(name, u, it) == iter' = it /\ op' = <<name, u>> /\ UNCHANGED db

Next ==
  \/ Call("first", NoKey, SeekToFirst(iter))
  \/ Call("last", NoKey, SeekToLast(iter))
  \/ \E u \in UserKey : Call("seek", u, Seek(iter, u))
  \/ iter.valid /\ Call("next", NoKey, Next_(iter))
  \/ iter.valid /\ Call("prev", NoKey, Prev(iter))

Spec == Init /\ [][Next]_vars

-----------------------------------------------------------------------------
(* What the snapshot sees: the newest entry of each key, unless it is a    *)
(* deletion.                                                               *)
Newest(u) ==
  LET es == {e \in db : e.u = u /\ e.s <= iter.sequence}
  IN IF es = {} THEN [u |-> u, s |-> 0, t |-> "deletion"]
     ELSE CHOOSE e \in es : \A f \in es : f.s <= e.s
Visible == {u \in UserKey : Newest(u).t = "value"}
Least(us) == IF us = {} THEN NoKey ELSE CHOOSE u \in us : \A v \in us : u <= v
Greatest(us) == IF us = {} THEN NoKey ELSE CHOOSE u \in us : \A v \in us : u >= v

TypeOK ==
  /\ iter.m.cur \in 0..2
  /\ iter.dir \in {"forward", "reverse"}
  /\ iter.valid /\ iter.dir = "forward" => MValid(iter.m)
  /\ Key(iter) \in UserKey \union {NoKey}

(* A call on an iterator moves it as it would a cursor over the snapshot's *)
(* sorted keys, whatever calls and changes of direction went before; where *)
(* it does not, status() is an error.                                      *)
CursorStep ==
  ~Error(iter)' =>
    Key(iter)' = CASE op'[1] = "first" -> Least(Visible)
                   [] op'[1] = "last" -> Greatest(Visible)
                   [] op'[1] = "seek" -> Least({u \in Visible : u >= op'[2]})
                   [] op'[1] = "next" -> Least({u \in Visible : u > Key(iter)})
                   [] op'[1] = "prev" -> Greatest({u \in Visible : u < Key(iter)})
IteratorIsCursor == [][CursorStep]_vars

(* The value under a key is the one the snapshot has for it, also when     *)
(* blocks of the table were skipped, unless status() says so.              *)
ValueOfKey ==
  iter.valid /\ ~Error(iter) => Value(iter) = Newest(Key(iter)).s

(* The invariants db_iter.cc states of its two directions: forward, the    *)
(* internal iterator is at the entry it yields; in reverse, just before    *)
(* the entries of the key.                                                 *)
DirectionInvariant ==
  iter.valid /\ iter.dir = "reverse" =>
    ~MValid(iter.m) \/ MEntry(iter.m).u < iter.saved_key
=============================================================================
