------------------------------- MODULE MemTable -------------------------------
(***************************************************************************)
(* MemTable (db/memtable.cc) on its skip list (db/skiplist.h): one thread  *)
(* adds entries, with ever larger sequence numbers, while readers that     *)
(* hold no lock search and iterate.                                        *)
(*                                                                         *)
(* A node is an internal key <<user key, sequence>>; the comparator orders *)
(* by user key, newer sequences first.  Insert takes a step per store that *)
(* a reader can see (max_height_, and each level's two links); a reader    *)
(* takes a step per load.  There is one writer, readers store nothing, the *)
(* links are loaded with acquire and stored with release, and max_height_  *)
(* is loaded before the links: what a reader can see is an interleaving.   *)
(***************************************************************************)
EXTENDS Integers

CONSTANTS
  UserKey,      \* user keys, a set of positive numbers
  MaxSeq,       \* bound on the entries added
  kMaxHeight,   \* 12 in the source
  Reader,       \* the reading threads
  Deletion,     \* the sequences whose entry is a deletion
  MaxReads      \* bound on the operations of a reader

Key == UserKey \X (1..MaxSeq)
(* head_, nullptr, and a link that was never stored.                      *)
HeadNode == <<0, 0>>
Nil == <<0, 1>>
Uninit == <<0, 2>>
Level == 0..(kMaxHeight - 1)

(* InternalKeyComparator, on the keys of nodes; MaxSeq + 1 stands for a    *)
(* target newer than all.                                                  *)
Less(a, b) == a[1] < b[1] \/ (a[1] = b[1] /\ a[2] > b[2])

VARIABLES
  next,         \* next_ of each allocated node
  max_height,   \* max_height_
  last,         \* the entries added and published as the last sequence
  w,            \* the writer: where it is in Insert
  r             \* each reader: operation, position, result

vars == <<next, max_height, last, w, r>>

NoInsert == [pc |-> "idle", key |-> HeadNode, height |-> 0, level |-> 0,
             prev |-> [l \in Level |-> HeadNode]]

(* KeyIsAfterNode: a null node is infinite.                                *)
KeyIsAfterNode(k, n) == n # Nil /\ Less(n, k)

RECURSIVE PrevAt(_, _, _)
(* FindGreaterOrEqual of the writer, which sees its own stores: the last   *)
(* node before k at a level, from x on.                                    *)
PrevAt(k, l, x) ==
  IF KeyIsAfterNode(k, next[x][l]) THEN PrevAt(k, l, next[x][l]) ELSE x

(* RandomHeight: a height the coin tosses can give.                        *)
RandomHeight == 1..kMaxHeight

(* prev[], from FindGreaterOrEqual and, above max_height_, the head.       *)
FindPrev(k) == [l \in Level |-> IF l < max_height THEN PrevAt(k, l, HeadNode) ELSE HeadNode]

(* MemTable::Add with the next sequence, up to the insertion: FindGreater- *)
(* OrEqual(key, prev), RandomHeight, max_height_.                          *)
Add(u, h) ==
  /\ w.pc = "idle"
  /\ last < MaxSeq
  /\ w' = [pc |-> "link", key |-> <<u, last + 1>>, height |-> h, level |-> 0,
           prev |-> FindPrev(<<u, last + 1>>)]
  /\ max_height' = IF h > max_height THEN h ELSE max_height
  /\ next' = [n \in DOMAIN next \union {<<u, last + 1>>} |->
                IF n \in DOMAIN next THEN next[n] ELSE [l \in Level |-> Uninit]]
  /\ UNCHANGED <<last, r>>

MutLinkNode ==
  /\ w.pc = "link"
  /\ w' = [w EXCEPT !.pc = "publish"]
  /\ next' = [next EXCEPT ![w.key][w.level] = Nil]
  /\ UNCHANGED <<max_height, last, r>>

(* x->NoBarrier_SetNext(i, prev[i]->NoBarrier_Next(i)).                    *)
LinkNode ==
  /\ w.pc = "link"
  /\ w' = [w EXCEPT !.pc = "publish"]
  /\ next' = [next EXCEPT ![w.key][w.level] = next[w.prev[w.level]][w.level]]
  /\ UNCHANGED <<max_height, last, r>>

(* prev[i]->SetNext(i, x); after the top level Insert and Add return, and  *)
(* the write makes the sequence the last one (DBImpl::Write).              *)
PublishNode ==
  /\ w.pc = "publish"
  /\ next' = [next EXCEPT ![w.prev[w.level]][w.level] = w.key]
  /\ w' = IF w.level + 1 < w.height
            THEN [w EXCEPT !.pc = "link", !.level = @ + 1] ELSE NoInsert
  /\ last' = IF w.level + 1 < w.height THEN last ELSE w.key[2]
  /\ UNCHANGED <<max_height, r>>

-----------------------------------------------------------------------------
(* Readers.  op: "get" (MemTable::Get), "prev" (FindLessThan), "last"      *)
(* (FindLast).  from is where the iterator stood, snap the last sequence   *)
(* when the operation began.                                               *)
NoOp == [pc |-> "idle", op |-> "none", key |-> HeadNode, x |-> HeadNode, level |-> 0,
         node |-> Nil, from |-> Nil, snap |-> 0, reads |-> 0]

(* The operations that descend from the head at GetMaxHeight() - 1.        *)
Begin(p, op, k) ==
  /\ r[p].pc = "idle" /\ r[p].reads < MaxReads
  /\ r' = [r EXCEPT ![p] = [NoOp EXCEPT !.pc = "search", !.op = op, !.key = k,
                              !.level = max_height - 1, !.node = r[p].node,
                              !.from = r[p].node, !.snap = last,
                              !.reads = r[p].reads + 1]]
  /\ UNCHANGED <<next, max_height, last, w>>

(* MemTable::Get with the LookupKey of a snapshot no newer than last.      *)
Get(p, u, s) == s <= last /\ Begin(p, "get", <<u, s>>)
IterSeek(p, k) == Begin(p, "seek", k)
IterPrev(p) == r[p].node # Nil /\ Begin(p, "prev", r[p].node)
IterSeekToLast(p) == Begin(p, "last", HeadNode)

(* One load of FindGreaterOrEqual, FindLessThan or FindLast: go right, go  *)
(* down, or return.                                                        *)
GoesRight(p, n) == n # Nil /\ (r[p].op = "last" \/ Less(n, r[p].key))

(* What a search returns; FindLessThan and FindLast give the node before,  *)
(* and the iterator turns the head into nullptr.                           *)
Found(p, n) ==
  IF r[p].op \in {"get", "seek"} THEN n ELSE IF r[p].x = HeadNode THEN Nil ELSE r[p].x

Search(p) ==
  /\ r[p].pc = "search"
  /\ \E n \in {next[r[p].x][r[p].level]} :
       r' = [r EXCEPT ![p] =
              IF GoesRight(p, n) THEN [@ EXCEPT !.x = n]
              ELSE IF r[p].level > 0 THEN [@ EXCEPT !.level = @ - 1]
              ELSE [@ EXCEPT !.pc = "done", !.node = Found(p, n)]]
  /\ UNCHANGED <<next, max_height, last, w>>

(* Iterator::Next and SeekToFirst: one load.                               *)
IterStep(p, op) ==
  /\ r[p].pc = "idle" /\ r[p].reads < MaxReads
  /\ op = "next" => r[p].node # Nil
  /\ r' = [r EXCEPT ![p] = [NoOp EXCEPT !.pc = "done", !.op = op, !.from = r[p].node, !.snap = last,
                              !.node = next[IF op = "next" THEN r[p].node ELSE HeadNode][0],
                              !.reads = r[p].reads + 1]]
  /\ UNCHANGED <<next, max_height, last, w>>

Return(p) ==
  /\ r[p].pc = "done"
  /\ r' = [r EXCEPT ![p] = [NoOp EXCEPT !.node = r[p].node, !.reads = r[p].reads]]
  /\ UNCHANGED <<next, max_height, last, w>>

(* SkipList(): the head has all levels.                                    *)
Init ==
  /\ next = [n \in {HeadNode} |-> [l \in Level |-> Nil]]
  /\ max_height = 1
  /\ last = 0
  /\ w = NoInsert
  /\ r = [p \in Reader |-> NoOp]

Next ==
  \/ \E u \in UserKey, h \in RandomHeight : Add(u, h)
  \/ LinkNode \/ PublishNode
  \/ \E p \in Reader :
       \/ \E u \in UserKey, s \in 0..MaxSeq : Get(p, u, s)
       \/ \E k \in DOMAIN next \ {HeadNode} : IterSeek(p, k)
       \/ IterPrev(p) \/ IterSeekToLast(p)
       \/ \E op \in {"next", "first"} : IterStep(p, op)
       \/ Search(p) \/ Return(p)

Spec == Init /\ [][Next]_vars

-----------------------------------------------------------------------------
(* The entries a reader that began when last was s must see.               *)
Published(s) == {k \in DOMAIN next \ {HeadNode} : k[2] <= s}

TypeOK ==
  /\ max_height \in 1..kMaxHeight
  /\ last \in 0..MaxSeq
  /\ DOMAIN next \subseteq Key \union {HeadNode}
  /\ \A n \in DOMAIN next, l \in Level : next[n][l] \in DOMAIN next \union {Nil, Uninit}

(* A reader never loads a link that was not stored yet.                    *)
NoUninitialised ==
  \A p \in Reader : r[p].x # Uninit /\ r[p].node # Uninit /\
    (r[p].pc = "search" => next[r[p].x][r[p].level] # Uninit)

(* Every level is sorted, and what a level links is linked on the level    *)
(* below: half of an insertion leaves a list readers can walk.             *)
LevelsSorted ==
  \A n \in DOMAIN next, l \in Level :
    next[n][l] \in DOMAIN next =>
      /\ n # HeadNode => Less(n, next[n][l])
      /\ l > 0 => \E m \in DOMAIN next : next[m][l - 1] = next[n][l]

(* What MemTable::Get tells its caller.                                    *)
Outcome(p) ==
  IF r[p].node = Nil \/ r[p].node[1] # r[p].key[1] THEN "absent"
  ELSE IF r[p].node[2] \in Deletion THEN "deleted" ELSE "found"

(* MemTable::Get at a snapshot: the newest entry of the user key that is   *)
(* not newer than the snapshot decides, whatever is added meanwhile.       *)
GetFindsSnapshot ==
  \A p \in Reader :
    r[p].pc = "done" /\ r[p].op = "get" =>
      LET seen == {k \in Published(r[p].key[2]) : k[1] = r[p].key[1]}
          newest == CHOOSE k \in seen : \A j \in seen : j[2] <= k[2]
      IN Outcome(p) = IF seen = {} THEN "absent"
                      ELSE IF newest[2] \in Deletion THEN "deleted" ELSE "found"

(* An iterator misses no entry that was there when the operation began:    *)
(* a step goes in its direction, and nothing published lies between where  *)
(* it stood, or was sent, and where it comes to stand.                     *)
IteratorSkipsNothing ==
  \A p \in Reader :
    r[p].pc = "done" =>
      LET to == r[p].node
          old == Published(r[p].snap)
      IN CASE r[p].op = "next" ->
                /\ to # Nil => Less(r[p].from, to)
                /\ ~\E k \in old : Less(r[p].from, k) /\ (to = Nil \/ Less(k, to))
         [] r[p].op = "prev" ->
                /\ to # Nil => Less(to, r[p].from)
                /\ ~\E k \in old : Less(k, r[p].from) /\ (to = Nil \/ Less(to, k))
         [] r[p].op = "first" -> ~\E k \in old : to = Nil \/ Less(k, to)
         [] r[p].op = "last" -> ~\E k \in old : to = Nil \/ Less(to, k)
         [] OTHER ->
                /\ to # Nil => ~Less(to, r[p].key)
                /\ ~\E k \in old : ~Less(k, r[p].key) /\ (to = Nil \/ Less(k, to))
=============================================================================
