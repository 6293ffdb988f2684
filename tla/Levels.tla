------------------------------- MODULE Levels -------------------------------
(***************************************************************************)
(* leveldb's levels: to which level a memtable is flushed, which files a   *)
(* compaction takes, which entries it drops, and how Get finds the newest  *)
(* entry a snapshot may see (db/version_set.cc, db/db_impl.cc).  Sizes are *)
(* counted in entries.  An entry is its sequence number; hist says what    *)
(* was written under it.                                                   *)
(***************************************************************************)
EXTENDS Naturals, FiniteSets, FiniteSetsExt, Sequences, SequencesExt

CONSTANTS
  Key,                  \* user keys, ordered as numbers
  MaxSeq,               \* bound on the number of writes
  NumLevels,            \* config::kNumLevels
  MaxMemCompactLevel,   \* config::kMaxMemCompactLevel
  L0CompactionTrigger,  \* config::kL0_CompactionTrigger
  GrandParentLimit,     \* MaxGrandParentOverlapBytes
  ExpandLimit,          \* ExpandedCompactionByteSizeLimit
  LevelBase, LevelFactor, \* MaxBytesForLevel: the limit of level 1, growth
  Ranges,               \* the pairs of begin and end that CompactRange is called with
  Setting               \* options and clients, see the assumption

(* A setting gives options.write_buffer_size and max_file_size, and says   *)
(* what clients do: the number of writes, whether there are deletions, how *)
(* many snapshots are held at a time, whether reads use up the seeks of a  *)
(* file, and whether CompactRange is called: never, only while nobody      *)
(* writes ("alone"), or at any time.                                       *)
ASSUME LevelsAssumption ==
  /\ Key \subseteq Nat \ {0} /\ IsFiniteSet(Key) /\ Key # {}
  /\ NumLevels \in Nat /\ MaxMemCompactLevel \in 0 .. NumLevels - 2
  /\ L0CompactionTrigger \in Nat \ {0} /\ LevelBase \in Nat \ {0}
  /\ LevelFactor \in Nat \ {0}
  /\ {MaxSeq, GrandParentLimit, ExpandLimit} \subseteq Nat
  /\ Ranges \subseteq Nat \X Nat
  /\ Setting \subseteq [buffer : Nat, fileSize : Nat \ {0},
                       writes : 0 .. MaxSeq, deletes : BOOLEAN, snapshots : Nat,
                       seeks : BOOLEAN, manual : {"never", "alone", "any"}]

VARIABLES
  hist,       \* hist[s]: the key written under sequence number s, and whether deleted
  mem, imm,   \* entries of mem_ and imm_
  hasImm,     \* imm_ # nullptr
  snapshots,  \* snapshots_, oldest first
  levels,     \* current_->files_: level -> set of files
  pointer,    \* compact_pointer_: level -> internal key, or NoPointer
  seekFile,   \* current_->file_to_compact_ with its level, or NoSeek
  work,       \* the Compaction in DoCompactionWork, or NoWork
  caller,     \* the client in DBImpl::CompactRange
  manual,     \* the ManualCompaction, manual.set says manual_compaction_ points to it
  env         \* the Setting

dataVars == <<hist, mem, imm, hasImm, snapshots>>
versionVars == <<levels, pointer, seekFile>>
vars == <<dataVars, versionVars, work, caller, manual, env>>

Level == 0 .. NumLevels - 1
NoPointer == <<0, 0>>     \* below every internal key
NoSeek == [level |-> 0, files |-> {}]
NoWork == [level |-> 0, in0 |-> {}, in1 |-> {}]
NoCaller == [at |-> "idle", begin |-> 0, end |-> 0, max |-> 0]
NoManual == [set |-> FALSE, done |-> FALSE, level |-> 0, begin |-> 0, end |-> 0]
NoKey == 0                \* a null begin
PastKeys == Max(Key) + 1  \* a null end
LastSequence == Len(hist)

-----------------------------------------------------------------------------
(* Internal keys, files and key ranges *)

IKey(e) == <<hist[e].key, e>>
(* InternalKeyComparator: by user key, then by decreasing sequence number. *)
Less(a, b) == a[1] < b[1] \/ (a[1] = b[1] /\ a[2] > b[2])

LeastKey(keys) == CHOOSE k \in keys : \A j \in keys : j = k \/ Less(k, j)
GreatestKey(keys) == CHOOSE k \in keys : \A j \in keys : j = k \/ Less(j, k)
(* FileMetaData, with what is in the table.                                *)
File(n, entries) ==
  [num |-> n, data |-> entries,
   smallest |-> LeastKey({IKey(e) : e \in entries}),
   largest |-> GreatestKey({IKey(e) : e \in entries})]

BySmallestKey(f, g) ==
  Less(f.smallest, g.smallest) \/ (f.smallest = g.smallest /\ f.num < g.num)
InOrder(S, Lt(_, _)) == SortSeq(FoldSet(LAMBDA x, s : Append(s, x), <<>>, S), Lt)
Sorted(files) == InOrder(files, BySmallestKey)

Entries(files) == UNION {f.data : f \in files}
TotalFileSize(files) == Cardinality(Entries(files))
GetRange(files) ==
  [lo |-> LeastKey({f.smallest : f \in files}),
   hi |-> GreatestKey({f.largest : f \in files})]

(* The number of files of the sorted list that end before ikey.            *)
FindFile(list, ikey) ==
  LET search[left \in 0 .. Len(list), right \in 0 .. Len(list)] ==
        LET mid == (left + right) \div 2 IN
        IF left >= right THEN right
        ELSE IF Less(list[mid + 1].largest, ikey) THEN search[mid + 1, right]
        ELSE search[left, mid]
  IN search[0, Len(list)]

(* The files with a user key range that meets begin .. end.                *)
Overlapping(files, begin, end) ==
  {f \in files : f.largest[1] >= begin /\ f.smallest[1] <= end}

(* In level 0 the range grows with the files found, until it is stable.    *)
GetOverlappingInputs(v, level, begin, end) ==
  LET range[n \in 0 .. Cardinality(v[level])] ==
        IF n = 0 THEN <<begin, end>>
        ELSE LET r == range[n - 1]
                 found == Overlapping(v[level], r[1], r[2])
             IN <<Min({r[1]} \cup {f.smallest[1] : f \in found}),
                  Max({r[2]} \cup {f.largest[1] : f \in found})>>
      last == IF level = 0 THEN range[Cardinality(v[level])] ELSE <<begin, end>>
  IN Overlapping(v[level], last[1], last[2])

(* SomeFileOverlapsRange: below level 0 by binary search.                  *)
OverlapInLevel(v, level, begin, end) ==
  IF level = 0 THEN Overlapping(v[0], begin, end) # {}
  ELSE LET list == Sorted(v[level])
           index == FindFile(list, <<begin, MaxSeq + 1>>)
       IN index < Len(list) /\ end >= list[index + 1].smallest[1]

-----------------------------------------------------------------------------
(* Reads *)

(* The newest entry for the key that the snapshot may see, 0 if none.      *)
Seek(data, key, snapshot) ==
  Max({0} \cup {e \in data : hist[e].key = key /\ e <= snapshot})

(* The files Version::Get and ForEachOverlapping look into, and in which   *)
(* order: level 0 newest first, then at most one file of each level.       *)
Candidates(v, key, snapshot) ==
  {[level |-> 0, file |-> f] : f \in Overlapping(v[0], key, key)} \cup
  UNION {LET list == Sorted(v[level])
             index == FindFile(list, <<key, snapshot>>)
         IN IF index < Len(list) /\ key >= list[index + 1].smallest[1]
            THEN {[level |-> level, file |-> list[index + 1]]} ELSE {} :
           level \in 1 .. NumLevels - 1}
SearchedBefore(c, d) ==
  c.level < d.level \/ (c.level = d.level /\ c.file.num > d.file.num)
FirstSearched(cs) == CHOOSE c \in cs : \A d \in cs : d = c \/ SearchedBefore(c, d)

Hits(cs, key, snapshot) == {c \in cs : Seek(c.file.data, key, snapshot) # 0}
VersionGet(v, key, snapshot) ==
  LET hits == Hits(Candidates(v, key, snapshot), key, snapshot)
  IN IF hits = {} THEN 0 ELSE Seek(FirstSearched(hits).file.data, key, snapshot)

Value(e) == IF e = 0 \/ hist[e].del THEN 0 ELSE e
GetValue(key, snapshot) ==
  LET inMem == Seek(mem, key, snapshot)
      inImm == Seek(imm, key, snapshot)
  IN Value(IF inMem # 0 THEN inMem ELSE IF inImm # 0 THEN inImm
           ELSE VersionGet(levels, key, snapshot))

(* UpdateStats: the first file read was read in vain, and has no seeks     *)
(* left.  (How many seeks a file is allowed is left open.)                 *)
Charge(c) ==
  /\ env.seeks /\ seekFile = NoSeek
  /\ seekFile' = [level |-> c.level, files |-> {c.file}]
  /\ UNCHANGED <<dataVars, levels, pointer, work, caller, manual, env>>

Get(key, snapshot) ==
  /\ Seek(mem, key, snapshot) = 0 /\ Seek(imm, key, snapshot) = 0
  /\ LET cs == Candidates(levels, key, snapshot)
         hits == Hits(cs, key, snapshot)
     IN /\ Cardinality(cs) >= 2
        /\ hits # {} => FirstSearched(hits) # FirstSearched(cs)
        /\ Charge(FirstSearched(cs))

(* An iterator samples an entry it reads; two files meet its key.          *)
RecordReadSample(e) ==
  LET cs == Candidates(levels, hist[e].key, e)
  IN Cardinality(cs) >= 2 /\ Charge(FirstSearched(cs))

GetSnapshot ==
  /\ Len(snapshots) < env.snapshots
  /\ snapshots' = Append(snapshots, LastSequence)
  /\ UNCHANGED <<hist, mem, imm, hasImm, versionVars, work, caller, manual, env>>

ReleaseSnapshot(i) ==
  /\ snapshots' = RemoveAt(snapshots, i)
  /\ UNCHANGED <<hist, mem, imm, hasImm, versionVars, work, caller, manual, env>>

-----------------------------------------------------------------------------
(* Writes and the flush of a memtable *)

(* MakeRoomForWrite switches memtables when mem_ is full, and waits while  *)
(* the previous one is not flushed.                                        *)
Write(key, del) ==
  /\ LastSequence < env.writes /\ (del => env.deletes)
  /\ env.manual = "alone" => caller.at = "idle"
  /\ hist' = Append(hist, [key |-> key, del |-> del])
  /\ \/ Cardinality(mem) <= env.buffer
        /\ mem' = mem \cup {LastSequence + 1} /\ UNCHANGED <<imm, hasImm>>
     \/ Cardinality(mem) > env.buffer /\ ~hasImm
        /\ mem' = {LastSequence + 1} /\ imm' = mem /\ hasImm' = TRUE
  /\ UNCHANGED <<snapshots, versionVars, work, caller, manual, env>>

(* LogAndApply: Builder deletes and adds files; the new Version has no     *)
(* file_to_compact_.                                                       *)
LogAndApply(level, del0, del1, add, to) ==
  /\ levels' = [l \in Level |->
       (levels[l] \ (IF l = level THEN del0 ELSE IF l = level + 1 THEN del1 ELSE {}))
         \cup (IF l = to THEN add ELSE {})]
  /\ seekFile' = NoSeek

(* Numbers of files that are gone are not compared with any more, so the   *)
(* next one need only exceed those in use.                                 *)
NewFileNumber == 1 + Max({0} \cup {f.num : f \in UNION {levels[l] : l \in Level}})

(* The memtable goes down while it overlaps nothing on its way and not too *)
(* much below.                                                             *)
PickLevelUnchecked(v, begin, end) == MaxMemCompactLevel
PickLevelForMemTableOutput(v, begin, end) ==
  LET MayPush(level) ==
        /\ ~OverlapInLevel(v, level + 1, begin, end)
        /\ level + 2 < NumLevels =>
             TotalFileSize(GetOverlappingInputs(v, level + 2, begin, end)) <= GrandParentLimit
  IN IF OverlapInLevel(v, 0, begin, end) THEN 0
     ELSE Max({l \in 0 .. MaxMemCompactLevel : \A i \in 0 .. l - 1 : MayPush(i)})

(* WriteLevel0Table and its installation.  The background thread does it   *)
(* before anything else, also in the middle of a compaction.  Clients do   *)
(* not touch imm_ or the version while the table is written.               *)
CompactMemTable ==
  /\ hasImm
  /\ \/ imm = {} /\ LogAndApply(0, {}, {}, {}, 0)
     \/ imm # {} /\ \E f \in {File(NewFileNumber, imm)} :
          LogAndApply(0, {}, {}, {f},
                      PickLevelForMemTableOutput(levels, f.smallest[1], f.largest[1]))
  /\ imm' = {} /\ hasImm' = FALSE
  /\ UNCHANGED <<hist, mem, snapshots, pointer, work, caller, manual, env>>

-----------------------------------------------------------------------------
(* Choosing a compaction *)

MaxBytesForLevel(level) == LevelBase * LevelFactor ^ (level - 1)

(* Finalize: the scores as fractions, and the first level with the best.   *)
Score(level) ==
  IF level = 0 THEN <<Cardinality(levels[0]), L0CompactionTrigger>>
  ELSE <<TotalFileSize(levels[level]), MaxBytesForLevel(level)>>
CompactionLevel == CHOOSE l \in 0 .. NumLevels - 2 : \A m \in 0 .. NumLevels - 2 :
  LET a == Score(l) b == Score(m)
  IN a[1] * b[2] > b[1] * a[2] \/ (a[1] * b[2] = b[1] * a[2] /\ l <= m)
SizeCompaction == Score(CompactionLevel)[1] >= Score(CompactionLevel)[2]
SeekCompaction == seekFile # NoSeek

(* The first file after compact_pointer_[level], or the first of all.      *)
AfterPointer(level) ==
  LET list == Sorted(levels[level])
      after == {i \in 1 .. Len(list) : Less(pointer[level], list[i].largest)}
  IN IF after = {} THEN list[1] ELSE list[Min(after)]

(* Files that start with the user key with which the inputs end: their     *)
(* entries are older, and would hide the newer ones once those move down.  *)
AddNoBoundaryInputs(files, inputs) == inputs
AddBoundaryInputs(files, inputs) ==
  LET grow[n \in 0 .. Cardinality(files)] ==
        IF n = 0 THEN inputs
        ELSE LET largest == GetRange(grow[n - 1]).hi
                 boundary == {f \in files : /\ Less(largest, f.smallest)
                                            /\ f.smallest[1] = largest[1]}
             IN IF boundary = {} THEN grow[n - 1]
                ELSE grow[n - 1] \cup {Sorted(boundary)[1]}
  IN grow[Cardinality(files)]

Overlaps(level, files) ==
  LET r == GetRange(files) IN GetOverlappingInputs(levels, level, r.lo[1], r.hi[1])

Inputs(level, in0, in1) ==
  [level |-> level, in0 |-> in0, in1 |-> in1,
   grandparents |-> IF level + 2 < NumLevels THEN Overlaps(level + 2, in0 \cup in1) ELSE {}]

(* The inputs of the upper level are extended if that takes no further     *)
(* file of the lower one.                                                  *)
ExpandedInputs(level, in0, in1, expanded0) ==
  IF /\ Cardinality(expanded0) > Cardinality(in0)
     /\ TotalFileSize(in1) + TotalFileSize(expanded0) < ExpandLimit
     /\ Cardinality(Overlaps(level + 1, expanded0)) = Cardinality(in1)
  THEN Inputs(level, expanded0, Overlaps(level + 1, expanded0))
  ELSE Inputs(level, in0, in1)
InputsOf(level, in0, in1) ==
  IF in1 = {} THEN Inputs(level, in0, in1)
  ELSE ExpandedInputs(level, in0, in1,
         AddBoundaryInputs(levels[level], Overlaps(level, in0 \cup in1)))
SetupInputs(level, in0) == InputsOf(level, in0, Overlaps(level + 1, in0))
SetupOtherInputs(level, inputs) ==
  SetupInputs(level, AddBoundaryInputs(levels[level], inputs))

(* Size compactions come before seek compactions.                          *)
CompactFile(level, file) ==
  SetupOtherInputs(level, IF level = 0 THEN Overlaps(0, file) ELSE file)
PickCompaction ==
  IF SizeCompaction THEN CompactFile(CompactionLevel, {AfterPointer(CompactionLevel)})
  ELSE CompactFile(seekFile.level, seekFile.files)

(* VersionSet::CompactRange: below level 0 only so many files at a time.   *)
ManualInputs ==
  LET found == GetOverlappingInputs(levels, manual.level, manual.begin, manual.end)
      list == Sorted(found)
      First(n) == {list[i] : i \in 1 .. n}
      full == {n \in 1 .. Len(list) : TotalFileSize(First(n)) >= env.fileSize}
  IN IF manual.level = 0 \/ full = {} THEN found ELSE First(Min(full))

IsTrivialMove(c) ==
  /\ Cardinality(c.in0) = 1 /\ c.in1 = {}
  /\ TotalFileSize(c.grandparents) <= GrandParentLimit

SetPointer(c) == pointer' = [pointer EXCEPT ![c.level] = GetRange(c.in0).hi]

-----------------------------------------------------------------------------
(* The compaction *)

IsBaseLevelForKey(c, key) ==
  \A level \in c.level + 2 .. NumLevels - 1 : Overlapping(c.version[level], key, key) = {}

(* The rules for dropping entry e, when last is the entry before it for    *)
(* the same key.                                                           *)
DropEntryAtLatest(c, last, e) ==
  \/ last <= LastSequence
  \/ hist[e].del /\ e <= c.snapshot /\ IsBaseLevelForKey(c, hist[e].key)
DropEntry(c, last, e) ==
  \/ last <= c.snapshot
  \/ hist[e].del /\ e <= c.snapshot /\ IsBaseLevelForKey(c, hist[e].key)

(* ShouldStopBefore: the output overlaps too much two levels down.         *)
Before(s, passed, overlap) ==
  IF overlap > GrandParentLimit
  THEN [s EXCEPT !.outs = IF s.cur = {} THEN @ ELSE Append(@, s.cur),
                 !.cur = {}, !.passed = passed, !.overlap = 0]
  ELSE [s EXCEPT !.passed = passed, !.overlap = overlap]
ShouldStopBefore(s, passed) ==
  Before(s, passed, IF s.last = 0 THEN 0 ELSE s.overlap + TotalFileSize(passed \ s.passed))

AddEntry(s, e, cur) ==
  IF Cardinality(cur) >= env.fileSize
  THEN [s EXCEPT !.outs = Append(@, cur), !.cur = {}, !.last = e]
  ELSE [s EXCEPT !.cur = cur, !.last = e]
HandleEntry(c, s, e) ==
  IF DropEntry(c, IF s.last # 0 /\ hist[s.last].key = hist[e].key THEN s.last ELSE MaxSeq + 1, e)
  THEN [s EXCEPT !.last = e]
  ELSE AddEntry(s, e, s.cur \cup {e})
CompactEntry(c, s, e) ==
  HandleEntry(c, ShouldStopBefore(s, {g \in c.grandparents : Less(g.largest, IKey(e))}), e)

(* The output files: all inputs merged in the order of internal keys.      *)
DoCompactionWork(c) ==
  LET input == InOrder(Entries(c.in0 \cup c.in1), LAMBDA d, e : Less(IKey(d), IKey(e)))
      loop[n \in 0 .. Len(input)] ==
        IF n = 0 THEN [outs |-> <<>>, cur |-> {}, last |-> 0, passed |-> {}, overlap |-> 0]
        ELSE CompactEntry(c, loop[n - 1], input[n])
      end == loop[Len(input)]
  IN IF end.cur = {} THEN end.outs ELSE Append(end.outs, end.cur)

StartCompaction(c, isManual) ==
  /\ SetPointer(c)
  /\ work' = [level |-> c.level, in0 |-> c.in0, in1 |-> c.in1,
              grandparents |-> c.grandparents, version |-> levels, manual |-> isManual,
              snapshot |-> IF snapshots = <<>> THEN LastSequence ELSE Head(snapshots)]
  /\ UNCHANGED <<dataVars, levels, seekFile, caller, env>>

(* BackgroundCompaction without a memtable to flush.                       *)
BackgroundIdle == work = NoWork /\ ~hasImm

ManualCompaction ==
  /\ BackgroundIdle /\ manual.set
  /\ \/ /\ ManualInputs = {}
        /\ manual' = [manual EXCEPT !.done = TRUE, !.set = FALSE]
        /\ UNCHANGED <<dataVars, versionVars, work, caller, env>>
     \/ /\ ManualInputs # {}
        /\ \E c \in {SetupOtherInputs(manual.level, ManualInputs)} : StartCompaction(c, TRUE)
        /\ UNCHANGED manual

AutoCompaction ==
  /\ BackgroundIdle /\ ~manual.set /\ (SizeCompaction \/ SeekCompaction)
  /\ \E c \in {PickCompaction} :
       \/ /\ IsTrivialMove(c)
          /\ LogAndApply(c.level, c.in0, {}, c.in0, c.level + 1)
          /\ SetPointer(c)
          /\ UNCHANGED <<dataVars, work, caller, manual, env>>
       \/ ~IsTrivialMove(c) /\ StartCompaction(c, FALSE) /\ UNCHANGED manual

(* A manual compaction covers the range up to the last of its inputs; the  *)
(* caller asks for the rest.                                               *)
ManualDoneAtOnce(key) == [manual EXCEPT !.set = FALSE, !.done = TRUE]
ManualGoesOn(key) == [manual EXCEPT !.set = FALSE, !.begin = key]

InstallCompactionResults ==
  /\ work # NoWork
  /\ \E outs \in {DoCompactionWork(work)} :
       LogAndApply(work.level, work.in0, work.in1,
                   {File(NewFileNumber + i, outs[i]) : i \in 1 .. Len(outs)}, work.level + 1)
  /\ manual' = IF work.manual THEN ManualGoesOn(Last(Sorted(work.in0)).largest[1]) ELSE manual
  /\ work' = NoWork
  /\ UNCHANGED <<dataVars, pointer, caller, env>>

-----------------------------------------------------------------------------
(* DBImpl::CompactRange, by one client *)

CompactRange(begin, end) ==
  /\ env.manual # "never" /\ caller.at = "idle"
  /\ caller' =
       [at |-> "write", begin |-> begin, end |-> end,
        max |-> Max({1} \cup {l \in Level \ {0} : OverlapInLevel(levels, l, begin, end)})]
  /\ UNCHANGED <<dataVars, versionVars, work, manual, env>>

(* The null Write of TEST_CompactMemTable switches memtables, unless it    *)
(* joins the group of another write.                                       *)
CompactRangeWrites ==
  /\ caller.at = "write"
  /\ caller' = [caller EXCEPT !.at = "flush"]
  /\ \/ ~hasImm /\ imm' = mem /\ mem' = {} /\ hasImm' = TRUE
     \/ env.manual = "any" /\ UNCHANGED <<mem, imm, hasImm>>
  /\ UNCHANGED <<hist, snapshots, versionVars, work, manual, env>>

ManualAt(level) ==
  [set |-> FALSE, done |-> FALSE, level |-> level, begin |-> caller.begin, end |-> caller.end]

CompactRangeFlushed ==
  /\ caller.at = "flush" /\ ~hasImm
  /\ caller' = [caller EXCEPT !.at = "levels"]
  /\ manual' = ManualAt(0)
  /\ UNCHANGED <<dataVars, versionVars, work, env>>

MoreLevels == manual.level + 1 < caller.max

(* TEST_CompactRange, level after level.                                   *)
TestCompactRange ==
  /\ caller.at = "levels" /\ ~manual.set
  /\ \/ ~manual.done /\ manual' = [manual EXCEPT !.set = TRUE] /\ UNCHANGED caller
     \/ manual.done /\ MoreLevels /\ manual' = ManualAt(manual.level + 1) /\ UNCHANGED caller
     \/ manual.done /\ ~MoreLevels /\ manual' = NoManual /\ caller' = NoCaller
  /\ UNCHANGED <<dataVars, versionVars, work, env>>

-----------------------------------------------------------------------------
Init ==
  /\ hist = <<>> /\ mem = {} /\ imm = {} /\ hasImm = FALSE /\ snapshots = <<>>
  /\ levels = [l \in Level |-> {}] /\ pointer = [l \in Level |-> NoPointer]
  /\ seekFile = NoSeek /\ work = NoWork /\ caller = NoCaller /\ manual = NoManual
  /\ env \in Setting

Readable == {LastSequence} \cup Range(snapshots)

Clients ==
  \/ \E key \in Key, del \in BOOLEAN : Write(key, del)
  \/ \E key \in Key, s \in Readable : Get(key, s)
  \/ \E e \in 1 .. LastSequence : RecordReadSample(e)
  \/ GetSnapshot
  \/ \E i \in 1 .. Len(snapshots) : ReleaseSnapshot(i)
  \/ \E r \in Ranges : CompactRange(r[1], r[2])

Caller == CompactRangeWrites \/ CompactRangeFlushed \/ TestCompactRange

Background ==
  CompactMemTable \/ ManualCompaction \/ AutoCompaction \/ InstallCompactionResults

(* Nothing is left to do: writes and snapshots have reached their bounds.  *)
Rest == LastSequence = env.writes /\ UNCHANGED vars

Next == Clients \/ Caller \/ Background \/ Rest

Spec == Init /\ [][Next]_vars

-----------------------------------------------------------------------------
(* Properties *)

Internal == (Key \cup {0}) \X (0 .. MaxSeq)
IsFile(f) == f.num \in Nat \ {0} /\ f.data # {} /\ f.data \subseteq 1 .. LastSequence

(* Every variable has its type, and no file lies below the last level.     *)
TypeOK ==
  /\ hist \in Seq([key : Key, del : BOOLEAN]) /\ LastSequence <= MaxSeq
  /\ mem \cup imm \subseteq 1 .. LastSequence /\ hasImm \in BOOLEAN
  /\ imm # {} => hasImm
  /\ snapshots \in Seq(0 .. LastSequence)
  /\ DOMAIN levels = Level /\ \A l \in Level : \A f \in levels[l] : IsFile(f)
  /\ pointer \in [Level -> Internal]
  /\ work # NoWork => work.level + 1 \in Level /\ work.snapshot \in 0 .. LastSequence
  /\ caller.at \in {"idle", "write", "flush", "levels"}
  /\ manual.level + 1 \in Level

(* Builder::MaybeAddFile, "Must not overlap": the files of a level other   *)
(* than level 0 have disjoint ranges of internal keys, which the binary    *)
(* search of Get relies on.                                                *)
LevelsDisjoint ==
  \A l \in Level \ {0} : \A f, g \in levels[l] :
    f # g => Less(f.largest, g.smallest) \/ Less(g.largest, f.smallest)

(* "Entries never hop across levels" (Version::Get): of two entries for a  *)
(* key the newer one is never in a deeper level, nor in the older of two   *)
(* files of level 0, nor below a memtable with an older one.               *)
NewestOnTop ==
  /\ \A l, m \in Level : \A f \in levels[l], g \in levels[m] :
       l < m \/ (l = m /\ l = 0 /\ f.num > g.num) =>
         \A e \in f.data, d \in g.data : hist[e].key = hist[d].key => e > d
  /\ \A e \in mem \cup imm, l \in Level : \A d \in Entries(levels[l]) :
       hist[e].key = hist[d].key => e > d

(* Get at the current state or at any snapshot held returns what the last  *)
(* write to the key before it wrote, whatever has been flushed, moved,     *)
(* merged and dropped since.                                               *)
ReadsAreExact ==
  \A s \in Readable, key \in Key :
    GetValue(key, s) = Value(Seek(1 .. LastSequence, key, s))

(* What a compaction is about to delete, and the file that seeks have      *)
(* chosen, are in the current version, with a level below to move to.      *)
InputsAreLive ==
  /\ work # NoWork => work.in0 \subseteq levels[work.level]
                      /\ work.in1 \subseteq levels[work.level + 1]
  /\ seekFile.files \subseteq levels[seekFile.level] /\ seekFile.level + 1 \in Level

(* Once TEST_CompactRange is done with a level, no entry in the caller's   *)
(* range is left in that level or above it, however many manual            *)
(* compactions it took and whatever the background thread did in between,  *)
(* if nobody writes meanwhile.                                             *)
RangeCompacted ==
  env.manual = "alone" /\ caller.at = "levels" =>
    \A l \in 0 .. IF manual.done THEN manual.level ELSE manual.level - 1 :
      \A e \in mem \cup imm \cup Entries(levels[l]) :
        hist[e].key \notin caller.begin .. caller.end
=============================================================================
