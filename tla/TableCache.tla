------------------------------ MODULE TableCache ------------------------------
(***************************************************************************)
(* Threads that read tables: TableCache::FindTable and its callers         *)
(* (table_cache.cc), the read-only files and the Limiters of the Env       *)
(* (env_posix.cc), Table::Open and Table::BlockReader (table.cc,           *)
(* format.cc), over two LRU caches (util/cache.cc): the table cache, keyed *)
(* by file number, and the block cache, keyed by the table's cache_id and  *)
(* the block's offset.                                                     *)
(*                                                                         *)
(* The caches and the Limiters are shared; between their steps the threads *)
(* interleave.  A table has Offsets blocks, each of charge 1.  The file    *)
(* system (external) may fail an open, and a read; a table may be corrupt. *)
(***************************************************************************)
EXTENDS Integers, Sequences, FiniteSets

LOCAL INSTANCE FiniteSetsExt
LOCAL INSTANCE SequencesExt

CONSTANTS
  Thread,       \* the readers: Get, iterators and compactions
  Number,       \* table file numbers, from 1
  Offset,       \* block offsets, from 1
  MaxFd,        \* descriptors the process may have open
  FdLimit,      \* MaxOpenFiles()
  ReadSettings, \* the settings to consider: build ("posix" or "ufs"), mmaps
                \* (MaxMmaps(): 0 by default, tests set it in the posix build) and
                \* blocks (the capacity of the block cache's shard)
  TableEntries, \* capacity of the table cache's shard
  MaxIds,       \* bound on the tables opened
  Handle,       \* the LRUHandles that can be allocated, a set of numbers
  Hash(_),      \* HashSlice
  MinLength     \* the smallest hash table: 4 in the source

-----------------------------------------------------------------------------
(***************************************************************************)
(* One shard of ShardedLRUCache as operators on a cache value.  Every      *)
(* method holds the shard's mutex_ from beginning to end, so each is one   *)
(* step of whoever calls it.                                               *)
(*                                                                         *)
(* A cache c has its entries c.ent (a function on the allocated LRUHandles *)
(* to [key, val, charge, refs, in_cache]), the hash table's buckets c.list *)
(* (each a chain of handles), lru_ (oldest first), in_use_, usage_,        *)
(* capacity_, last_id_, and the values c.dead that the deleter was called  *)
(* on and the caller has not disposed of yet.                              *)
(***************************************************************************)
Null == 0

(* LRUCache(), HandleTable().                                              *)
NewLRUCache(capacity) ==
  [ent |-> <<>>, list |-> [b \in 0..(MinLength - 1) |-> <<>>], lru |-> <<>>,
   in_use |-> {}, usage |-> 0, capacity |-> capacity, last_id |-> 0, dead |-> {}]

-----------------------------------------------------------------------------
(* HandleTable.                                                            *)
Length(c) == Cardinality(DOMAIN c.list)
Bucket(c, key) == Hash(key) % Length(c)
Elems(c) == FoldSet(LAMBDA b, n : n + Len(c.list[b]), 0, DOMAIN c.list)

(* FindPointer: the place of the key in its chain, or the trailing slot.   *)
FindPointer(c, key) ==
  LET chain == c.list[Bucket(c, key)]
  IN Min({i \in 1..Len(chain) : c.ent[chain[i]].key = key} \union {Len(chain) + 1})

(* The handle FindPointer leads to.                                        *)
TableLookup(c, key) ==
  LET chain == c.list[Bucket(c, key)]
  IN IF FindPointer(c, key) <= Len(chain) THEN chain[FindPointer(c, key)] ELSE Null

(* The length Resize chooses: doubled from MinLength until it holds all.   *)
Doubled(elems) == Min({n \in {MinLength * 2^i : i \in 0..elems} : n >= elems})

(* Resize: the chains in order, each handle put in front of its new chain. *)
Resize(c, n) ==
  [c EXCEPT !.list =
    FoldLeft(LAMBDA l, h : [l EXCEPT ![Hash(c.ent[h].key) % n] = <<h>> \o @],
             [b \in 0..(n - 1) |-> <<>>],
             FoldLeft(LAMBDA s, b : s \o c.list[b - 1], <<>>, [i \in 1..Length(c) |-> i]))]

(* Insert: h takes the place of an entry with its key, or the end of the   *)
(* chain; only then the table may grow.                                    *)
TableInsert(c, h, i) ==
  LET b == Bucket(c, c.ent[h].key)
  IN IF i <= Len(c.list[b])
       THEN [c EXCEPT !.list[b][i] = h]
     ELSE IF Elems(c) + 1 > Length(c)
       THEN Resize([c EXCEPT !.list[b] = Append(@, h)], Doubled(Elems(c) + 1))
       ELSE [c EXCEPT !.list[b] = Append(@, h)]

TableRemove(c, key) ==
  [c EXCEPT !.list[Bucket(c, key)] = RemoveAt(@, FindPointer(c, key))]

-----------------------------------------------------------------------------
(* LRU_Remove: out of whichever list the handle is in.                     *)
LRU_Remove(c, h) ==
  [c EXCEPT !.lru = SelectSeq(@, LAMBDA x : x # h), !.in_use = @ \ {h}]

Ref(c, h) ==
  IF c.ent[h].refs = 1 /\ c.ent[h].in_cache
    THEN [LRU_Remove(c, h) EXCEPT !.in_use = @ \union {h}, !.ent[h].refs = @ + 1]
    ELSE [c EXCEPT !.ent[h].refs = @ + 1]

(* Unref: the last reference calls the deleter and frees the handle; the   *)
(* last one but the cache's moves it to the newest end of lru_.            *)
Unref(c, h) ==
  CASE c.ent[h].refs = 1 ->
         [c EXCEPT !.ent = [x \in DOMAIN c.ent \ {h} |-> c.ent[x]],
                   !.dead = @ \union {c.ent[h].val}]
    [] c.ent[h].refs = 2 /\ c.ent[h].in_cache ->
         [LRU_Remove(c, h) EXCEPT !.lru = Append(@, h), !.ent[h].refs = 1]
    [] OTHER -> [c EXCEPT !.ent[h].refs = @ - 1]

(* FinishErase: h has left the hash table; nothing to do for nullptr.      *)
FinishErase(c, h) ==
  IF h = Null THEN c
  ELSE Unref([LRU_Remove(c, h) EXCEPT !.ent[h].in_cache = FALSE,
                                      !.usage = @ - c.ent[h].charge], h)

EraseHandle(c, h) == FinishErase(TableRemove(c, c.ent[h].key), h)

(* The loop of Insert: the oldest unreferenced entries go until the charge *)
(* fits.                                                                   *)
EvictToCapacity(c) ==
  FoldLeft(LAMBDA d, h : IF d.usage > d.capacity THEN EraseHandle(d, h) ELSE d, c, c.lru)

(* Lookup: [c, h] with h = Null on a miss.                                 *)
LookupHandle(c, h) == [c |-> IF h = Null THEN c ELSE Ref(c, h), h |-> h]
Lookup(c, key) == LookupHandle(c, TableLookup(c, key))

Release(c, h) == Unref(c, h)

NewHandle(c) == Min(Handle \ DOMAIN c.ent)

(* Insert, when caching is on and when capacity_ is 0.                     *)
InsertHandle(c, h, key, val, charge, i, old) ==
  LET entry(n, in) == [x \in DOMAIN c.ent \union {h} |->
                        IF x = h THEN [key |-> key, val |-> val, charge |-> charge,
                                       refs |-> n, in_cache |-> in]
                        ELSE c.ent[x]]
  IN IF c.capacity > 0
       THEN EvictToCapacity(FinishErase(
              TableInsert([c EXCEPT !.ent = entry(2, TRUE), !.usage = @ + charge,
                                    !.in_use = @ \union {h}], h, i), old))
       ELSE EvictToCapacity([c EXCEPT !.ent = entry(1, FALSE)])

Insert(c, key, val, charge) ==
  LET h == NewHandle(c)
  IN [c |-> InsertHandle(c, h, key, val, charge, FindPointer(c, key), TableLookup(c, key)),
      h |-> h]

(* Erase, by key.                                                          *)
Erase(c, key) == IF TableLookup(c, key) = Null THEN c ELSE EraseHandle(c, TableLookup(c, key))

(* Prune: every entry no client holds.                                     *)
Prune(c) == FoldLeft(EraseHandle, c, c.lru)

(* NewId, under id_mutex_.                                                 *)
NewId(c) == [c EXCEPT !.last_id = @ + 1]

-----------------------------------------------------------------------------
(* What the comments of cache.cc promise of the lists, the hash table and  *)
(* the charge, for clients that hold held(h) references to handle h: each  *)
(* entry's count is exact, the two lists split the cached entries by       *)
(* whether a client holds them, each cached entry is found under its key,  *)
(* and usage_ is their total charge.                                       *)
CacheConsistent(c, held(_)) ==
  LET cached == {h \in DOMAIN c.ent : c.ent[h].in_cache}
  IN /\ \A h \in DOMAIN c.ent :
          c.ent[h].refs = held(h) + (IF c.ent[h].in_cache THEN 1 ELSE 0)
     /\ \A h \in Handle : held(h) > 0 => h \in DOMAIN c.ent
     /\ ToSet(c.lru) = {h \in cached : held(h) = 0} /\ IsInjective(c.lru)
     /\ c.in_use = {h \in cached : held(h) > 0}
     /\ c.usage = FoldSet(LAMBDA h, n : n + c.ent[h].charge, 0, cached)
     /\ \A h \in cached : TableLookup(c, c.ent[h].key) = h
     /\ Elems(c) = Cardinality(cached)

-----------------------------------------------------------------------------
VARIABLES
  build,        \* "posix", or "ufs" (JL_LIBCFS)
  tc, bc,       \* the table cache and the block cache
  disk,         \* external: each number's file, "ldb", "sst" or "none"
  fds,          \* external: the open descriptors
  fd_limiter,   \* acquires_allowed_ of fd_limiter_
  mmap_limiter, \* acquires_allowed_ of mmap_limiter_
  maxMmaps,
  th,           \* each thread: where it is and what it holds
  threw         \* an exception left the Env

vars == <<build, tc, bc, disk, fds, fd_limiter, mmap_limiter, maxMmaps, th, threw>>

(* A RandomAccessFile: mapped, or with a descriptor of its own, or opened  *)
(* on every read.  NoFd is -1.                                             *)
NoFd == 0
NoFile == [kind |-> "none", fd |-> NoFd]
FreeFds == 1..MaxFd \ fds
LowestFd == CHOOSE f \in FreeFds : \A g \in FreeFds : f <= g

Idle == [pc |-> "idle", n |-> 0, file |-> NoFile, tmp |-> NoFd, h |-> Null, off |-> 0, bh |-> Null]

(* BlockReader: cache_id and offset, one after the other.                  *)
BlockKey(id, off) == 10 * id + off

(* The table a thread holds a handle to.                                   *)
Value(t) == tc.ent[th[t].h].val

To(t, pc) == th' = [th EXCEPT ![t].pc = pc]
Run(t, pc) == ~threw /\ th[t].pc = pc

-----------------------------------------------------------------------------
(* FindTable, from Get or NewIterator: the cache first.                    *)
FindTable(t, n) ==
  /\ Run(t, "idle")
  /\ disk[n] # "none"
  /\ \E r \in {Lookup(tc, n)} :
       /\ tc' = r.c
       /\ th' = [th EXCEPT ![t].pc = IF r.h = Null THEN "open" ELSE "using",
                           ![t].n = n, ![t].h = r.h]
  /\ UNCHANGED <<build, bc, disk, fds, fd_limiter, mmap_limiter, maxMmaps, threw>>

(* NewRandomAccessFile / NewFSPRandomAccessFile: open, under the .ldb name *)
(* and then under the .sst one.  Without a descriptor FindTable returns    *)
(* the error.                                                              *)
OpenFile(t) ==
  /\ Run(t, "open")
  /\ \/ /\ FreeFds # {}
        /\ fds' = fds \union {LowestFd}
        /\ th' = [th EXCEPT ![t].pc = "mmap", ![t].tmp = LowestFd]
     \/ /\ th' = [th EXCEPT ![t] = Idle]
        /\ UNCHANGED fds
  /\ UNCHANGED <<build, tc, bc, disk, fd_limiter, mmap_limiter, maxMmaps, threw>>

(* Limiter::Acquire of mmap_limiter_: fetch_sub, and fetch_add when there  *)
(* was none left.                                                          *)
MmapAcquire(t) ==
  /\ build = "posix"
  /\ Run(t, "mmap")
  /\ mmap_limiter' = mmap_limiter - 1
  /\ To(t, IF mmap_limiter > 0 THEN "map" ELSE "mmapBack")
  /\ UNCHANGED <<build, tc, bc, disk, fds, fd_limiter, maxMmaps, threw>>

(* NewFSPRandomAccessFile throws when a mapping would be allowed.          *)
FSPMmapAcquire(t) ==
  /\ build = "ufs"
  /\ Run(t, "mmap")
  /\ mmap_limiter' = mmap_limiter - 1
  /\ threw' = (mmap_limiter > 0)
  /\ To(t, IF mmap_limiter > 0 THEN "map" ELSE "mmapBack")
  /\ UNCHANGED <<build, tc, bc, disk, fds, fd_limiter, maxMmaps>>

MmapBack(t) ==
  /\ Run(t, "mmapBack")
  /\ mmap_limiter' = mmap_limiter + 1
  /\ To(t, "limit")
  /\ UNCHANGED <<build, tc, bc, disk, fds, fd_limiter, maxMmaps, threw>>

(* GetFileSize and mmap, either of which may fail; the descriptor is       *)
(* closed in both cases.                                                   *)
MapFile(t) ==
  /\ Run(t, "map")
  /\ fds' = fds \ {th[t].tmp}
  /\ \/ /\ th' = [th EXCEPT ![t].pc = "table", ![t].tmp = NoFd,
                            ![t].file = [kind |-> "mmap", fd |-> NoFd]]
        /\ UNCHANGED mmap_limiter
     \/ /\ th' = [th EXCEPT ![t] = Idle]
        /\ mmap_limiter' = mmap_limiter + 1
  /\ UNCHANGED <<build, tc, bc, disk, fd_limiter, maxMmaps, threw>>

(* The constructor of PosixRandomAccessFile: fd_limiter_->Acquire().       *)
FdAcquire(t) ==
  /\ Run(t, "limit")
  /\ fd_limiter' = fd_limiter - 1
  /\ IF fd_limiter > 0
       THEN th' = [th EXCEPT ![t].pc = "table", ![t].tmp = NoFd,
                             ![t].file = [kind |-> "fd", fd |-> th[t].tmp]]
       ELSE To(t, "limitBack")
  /\ UNCHANGED <<build, tc, bc, disk, fds, mmap_limiter, maxMmaps, threw>>

MutFdBack(t) ==
  /\ Run(t, "limitBack")
  /\ fd_limiter' = fd_limiter + 1
  /\ th' = [th EXCEPT ![t].pc = "table", ![t].tmp = NoFd,
                      ![t].file = [kind |-> "reopen", fd |-> NoFd]]
  /\ UNCHANGED <<build, tc, bc, disk, fds, mmap_limiter, maxMmaps, threw>>

(* ... without success: the descriptor is closed, the file will be opened  *)
(* on every read.                                                          *)
FdBack(t) ==
  /\ Run(t, "limitBack")
  /\ fd_limiter' = fd_limiter + 1
  /\ fds' = fds \ {th[t].tmp}
  /\ th' = [th EXCEPT ![t].pc = "table", ![t].tmp = NoFd,
                      ![t].file = [kind |-> "reopen", fd |-> NoFd]]
  /\ UNCHANGED <<build, tc, bc, disk, mmap_limiter, maxMmaps, threw>>

(* FSPRandomAccessFile has the same constructor, on fs_close.              *)
FSPFdAcquire(t) == build = "ufs" /\ FdAcquire(t)

(* The destructors of a file: the descriptor and the Limiter.              *)
CloseFiles(fs) == fds' = fds \ {f.fd : f \in fs}
ReleaseLimiters(fs) ==
  /\ fd_limiter' = fd_limiter + Cardinality({f \in fs : f.kind = "fd"})
  /\ mmap_limiter' = mmap_limiter + Cardinality({f \in fs : f.kind = "mmap"})

(* Table::Open: footer, index and filter are read and found sound, or the  *)
(* file is deleted and the error returned.  An entry the Insert displaces  *)
(* or evicts is deleted with its file (DeleteEntry).                       *)
OpenTable(t) ==
  /\ Run(t, "table")
  /\ bc.last_id < MaxIds
  /\ bc' = NewId(bc)
  /\ \E r \in {Insert(tc, th[t].n, [n |-> th[t].n, id |-> bc.last_id + 1, file |-> th[t].file], 1)} :
       /\ tc' = [r.c EXCEPT !.dead = {}]
       /\ CloseFiles({v.file : v \in r.c.dead})
       /\ fd_limiter' = fd_limiter + Cardinality({v \in r.c.dead : v.file.kind = "fd"})
       /\ mmap_limiter' = mmap_limiter + Cardinality({v \in r.c.dead : v.file.kind = "mmap"})
       /\ th' = [th EXCEPT ![t].pc = "using", ![t].h = r.h, ![t].file = NoFile]
  /\ UNCHANGED <<build, disk, maxMmaps, threw>>

OpenTableFails(t) ==
  /\ Run(t, "table")
  /\ CloseFiles({th[t].file})
  /\ ReleaseLimiters({th[t].file})
  /\ th' = [th EXCEPT ![t] = Idle]
  /\ UNCHANGED <<build, tc, bc, disk, maxMmaps, threw>>

-----------------------------------------------------------------------------
(* BlockReader: the block cache first.                                     *)
BlockReader(t, off) ==
  /\ Run(t, "using")
  /\ \E r \in {Lookup(bc, BlockKey(Value(t).id, off))} :
       /\ bc' = r.c
       /\ th' = [th EXCEPT ![t].pc = IF r.h = Null THEN "read" ELSE "block",
                           ![t].off = off, ![t].bh = r.h]
  /\ UNCHANGED <<build, tc, disk, fds, fd_limiter, mmap_limiter, maxMmaps, threw>>

(* Read of a file without a permanent descriptor: open, pread, close.      *)
ReopenFile(t) ==
  /\ Run(t, "read")
  /\ Value(t).file.kind = "reopen"
  /\ \/ /\ FreeFds # {} /\ disk[th[t].n] # "none"
        /\ fds' = fds \union {LowestFd}
        /\ th' = [th EXCEPT ![t].pc = "pread", ![t].tmp = LowestFd]
     \/ /\ To(t, "using")
        /\ UNCHANGED fds
  /\ UNCHANGED <<build, tc, bc, disk, fd_limiter, mmap_limiter, maxMmaps, threw>>

(* FSPRandomAccessFile opens with fs_open2 what it had opened as an ldb    *)
(* file; the steps are the same.                                           *)
FSPReopenFile(t) == build = "ufs" /\ ReopenFile(t)

(* pread, of the permanent descriptor or the temporary one, or a slice of  *)
(* the mapping.  A failing pread throws.                                   *)
Pread(t) ==
  /\ \/ Run(t, "read") /\ Value(t).file.kind # "reopen"
     \/ Run(t, "pread")
  /\ fds' = fds \ {th[t].tmp}
  /\ \/ /\ th' = [th EXCEPT ![t].pc = "checked", ![t].tmp = NoFd]
        /\ UNCHANGED threw
     \/ /\ Value(t).file.kind # "mmap"
        /\ threw' = TRUE
        /\ th' = [th EXCEPT ![t].tmp = NoFd]
  /\ UNCHANGED <<build, tc, bc, disk, fd_limiter, mmap_limiter, maxMmaps>>

FSPPread(t) == build = "ufs" /\ Pread(t)

(* The rest of ReadBlock, and the Insert.  A truncated or corrupt block is *)
(* an error of the read; a mapped block, or one read without fill_cache,   *)
(* is not cached and belongs to the iterator.                              *)
InsertBlock(t) ==
  /\ Run(t, "checked")
  /\ \/ To(t, "using") /\ UNCHANGED bc
     \/ To(t, "block") /\ UNCHANGED bc
     \/ /\ Value(t).file.kind # "mmap"
        /\ \E r \in {Insert(bc, BlockKey(Value(t).id, th[t].off), <<th[t].n, th[t].off>>, 1)} :
             /\ bc' = [r.c EXCEPT !.dead = {}]
             /\ th' = [th EXCEPT ![t].pc = "block", ![t].bh = r.h]
  /\ UNCHANGED <<build, tc, disk, fds, fd_limiter, mmap_limiter, maxMmaps, threw>>

(* The cleanup of a block iterator: ReleaseBlock, or DeleteBlock.          *)
ReleaseBlock(t) ==
  /\ Run(t, "block")
  /\ bc' = IF th[t].bh = Null THEN bc ELSE [Release(bc, th[t].bh) EXCEPT !.dead = {}]
  /\ th' = [th EXCEPT ![t].pc = "using", ![t].bh = Null, ![t].off = 0]
  /\ UNCHANGED <<build, tc, disk, fds, fd_limiter, mmap_limiter, maxMmaps, threw>>

(* The end of Get, and the cleanup of a table iterator (UnrefEntry).       *)
ReleaseTable(t) ==
  /\ Run(t, "using")
  /\ \E c \in {Release(tc, th[t].h)} :
       /\ tc' = [c EXCEPT !.dead = {}]
       /\ CloseFiles({v.file : v \in c.dead})
       /\ ReleaseLimiters({v.file : v \in c.dead})
  /\ th' = [th EXCEPT ![t] = Idle]
  /\ UNCHANGED <<build, bc, disk, maxMmaps, threw>>

(* DeleteObsoleteFiles: the table cache drops the entry, then the file     *)
(* goes.  No version, and so no reader, has the file any more.             *)
Evict(n) ==
  /\ ~threw
  /\ disk[n] # "none"
  /\ \A t \in Thread : th[t].n # n
  /\ \E c \in {Erase(tc, n)} :
       /\ tc' = [c EXCEPT !.dead = {}]
       /\ CloseFiles({v.file : v \in c.dead})
       /\ ReleaseLimiters({v.file : v \in c.dead})
  /\ disk' = [disk EXCEPT ![n] = "none"]
  /\ UNCHANGED <<build, bc, maxMmaps, th, threw>>

(* Cache::Prune of the block cache.                                        *)
PruneBlocks ==
  /\ ~threw
  /\ bc.lru # <<>>
  /\ bc' = [Prune(bc) EXCEPT !.dead = {}]
  /\ UNCHANGED <<build, tc, disk, fds, fd_limiter, mmap_limiter, maxMmaps, th, threw>>

Init ==
  /\ \E s \in ReadSettings :
       build = s.build /\ maxMmaps = s.mmaps /\ bc = NewLRUCache(s.blocks)
  /\ tc = NewLRUCache(TableEntries)
  /\ disk = [n \in Number |-> IF n = 1 THEN "sst" ELSE "ldb"]
  /\ fds = {}
  /\ fd_limiter = FdLimit
  /\ mmap_limiter = maxMmaps
  /\ th = [t \in Thread |-> Idle]
  /\ threw = FALSE

Step(t) ==
  \/ \E n \in Number : FindTable(t, n)
  \/ OpenFile(t) \/ MmapAcquire(t) \/ FSPMmapAcquire(t) \/ MmapBack(t) \/ MapFile(t)
  \/ (build = "posix" /\ FdAcquire(t)) \/ FSPFdAcquire(t) \/ FdBack(t)
  \/ OpenTable(t) \/ OpenTableFails(t)
  \/ \E off \in Offset : BlockReader(t, off)
  \/ (build = "posix" /\ ReopenFile(t)) \/ FSPReopenFile(t)
  \/ (build = "posix" /\ Pread(t)) \/ FSPPread(t) \/ InsertBlock(t) \/ ReleaseBlock(t) \/ ReleaseTable(t)

Next == (\E t \in Thread : Step(t)) \/ (\E n \in Number : Evict(n)) \/ PruneBlocks

Spec == Init /\ [][Next]_vars

-----------------------------------------------------------------------------
Files == {tc.ent[h].val.file : h \in DOMAIN tc.ent} \union {th[t].file : t \in Thread}

TypeOK ==
  /\ build \in {"posix", "ufs"}
  /\ DOMAIN tc.ent \subseteq Handle /\ DOMAIN bc.ent \subseteq Handle
  /\ tc.dead = {} /\ bc.dead = {}
  /\ fds \subseteq 1..MaxFd
  /\ fd_limiter \in Int /\ mmap_limiter \in Int
  /\ \A t \in Thread : th[t].n \in Number \union {0} /\ th[t].tmp \in 0..MaxFd

(* The references, lists, hash chains and charges of both caches are exact *)
(* after every interleaving of Lookup, Insert, Release, Erase and Prune:   *)
(* no handle is freed while a thread holds it, and none is kept for good.  *)
CachesConsistent ==
  /\ CacheConsistent(tc, LAMBDA h : Cardinality({t \in Thread : th[t].h = h}))
  /\ CacheConsistent(bc, LAMBDA h : Cardinality({t \in Thread : th[t].bh = h}))

(* The descriptors that are open are those of tables somebody can still    *)
(* use and of calls in progress, each owned once: no path through open,    *)
(* limit, map, error and eviction leaks one or closes it twice.            *)
DescriptorsOwned ==
  LET perm == {f.fd : f \in {g \in Files : g.kind = "fd"}}
      temp == {th[t].tmp : t \in Thread} \ {NoFd}
  IN /\ fds = perm \union temp
     /\ perm \intersect temp = {}
     /\ \A h, g \in DOMAIN tc.ent :
          h # g /\ tc.ent[h].val.file.kind = "fd" =>
            tc.ent[h].val.file.fd # tc.ent[g].val.file.fd

(* The Limiters give back what they lend: what is left, what files hold    *)
(* and what failing Acquires have taken for a moment add up to the limit,  *)
(* and no more files than the limit hold one.                              *)
LimitersExact ==
  LET held(k) == Cardinality({h \in DOMAIN tc.ent : tc.ent[h].val.file.kind = k})
                 + Cardinality({t \in Thread : th[t].file.kind = k})
      at(p) == Cardinality({t \in Thread : th[t].pc = p})
  IN /\ fd_limiter + held("fd") + at("limitBack") = FdLimit
     /\ mmap_limiter + held("mmap") + at("map") + at("mmapBack") = maxMmaps
     /\ held("fd") <= FdLimit /\ held("mmap") <= maxMmaps

(* A thread reads the table it asked for and, under a cached block, the    *)
(* block of that table: two threads that open a number at once, evictions  *)
(* and recycled handles do not mix tables up.                              *)
RightTable ==
  \A t \in Thread :
    /\ th[t].h # Null => Value(t).n = th[t].n
    /\ th[t].bh # Null => bc.ent[th[t].bh].val = <<th[t].n, th[t].off>>
=============================================================================
