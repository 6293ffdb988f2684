------------------------------- MODULE MemEnv -------------------------------
(* The in-memory Env (helpers/memenv): names for reference-counted file     *)
(* states, the handles that read and write them, and threads that rename,   *)
(* delete and truncate files under those handles. Each operation on the     *)
(* Env holds its mutex, each one on a file the file's; Skip() does not hold *)
(* the file's between its two looks at the size.                            *)
EXTENDS Integers, Sequences, FiniteSets, SequencesExt, TLC

CONSTANTS FName,      \* file names
          Handle,     \* handles the clients can have
          MaxState,   \* bound: file states
          BlockSize,  \* kBlockSize
          MaxLen,     \* bound: length of a file
          Appendable  \* whether the clients open files for appending, and missing ones

VARIABLES fmap,    \* file_map_; 0 is a null pointer
          state,   \* the file states
          handle,  \* the handles that are open
          mode,    \* which of Appendable
          got      \* whether the last read returned what was written there

vars == <<fmap, state, handle, mode, got>>

State == 1 .. MaxState
Fresh == CHOOSE n \in State : state[n].refs = -1 /\ \A k \in State : state[k].refs = -1 => n =< k
SomeFresh == \E n \in State : state[n].refs = -1
NoHandle == [kind |-> "none", file |-> 0, pos |-> 0, skip |-> 0]

---------------------------------------------------------------------------
(* FileState.                                                               *)

(* A new one; "gone" once it was deleted. "log" is what was appended to it  *)
(* since it was last truncated.                                             *)
NewState == [refs |-> 0, blocks |-> <<>>, size |-> 0, log |-> <<>>]
Unborn == [NewState EXCEPT !.refs = -1]
Gone == [NewState EXCEPT !.refs = -2]

Ref(st, n) == [st EXCEPT ![n].refs = @ + 1]

Unref(st, n) == IF st[n].refs = 1 THEN [st EXCEPT ![n] = Gone] ELSE [st EXCEPT ![n].refs = @ - 1]

Truncate(f) == [f EXCEPT !.blocks = <<>>, !.size = 0, !.log = <<>>]

(* Append(): into the room of the last block, or a new one.                 *)
Room(f) == f.size % BlockSize # 0

AppendByte(f, b) ==
  [f EXCEPT !.blocks = IF Room(f) THEN [@ EXCEPT ![Len(@)] = Append(@, b)] ELSE Append(@, <<b>>),
            !.size = @ + 1, !.log = Append(@, b)]

AppendTo(f, data) == FoldLeft(AppendByte, f, data)

(* Read(): of what is available, block by block.                            *)
Available(f, off, n) == IF n > f.size - off THEN f.size - off ELSE n

ByteAt(f, p) == f.blocks[(p \div BlockSize) + 1][(p % BlockSize) + 1]

ReadFrom(f, off, n) == [k \in 1 .. Available(f, off, n) |-> ByteAt(f, off + k - 1)]

(* The n bytes from off on of what was appended, or as many as there are.   *)
Written(log, off, n) == SubSeq(log, off + 1, IF off + n > Len(log) THEN Len(log) ELSE off + n)

---------------------------------------------------------------------------
(* The handles.                                                             *)

Free(h) == handle[h].kind = "none"
Has(h, kinds) == handle[h].kind \in kinds

(* SequentialFileImpl::Read() and RandomAccessFileImpl::Read().             *)
Read(h, off, n) ==
  /\ IF Has(h, {"seq"}) THEN off = handle[h].pos ELSE Has(h, {"random"})
  /\ handle[h].skip = 0
  /\ IF off > state[handle[h].file].size
     THEN UNCHANGED <<handle, got>>
     ELSE \E data \in {ReadFrom(state[handle[h].file], off, n)} :
            /\ got' = (data = Written(state[handle[h].file].log, off, n))
            /\ handle' = IF Has(h, {"seq"}) THEN [handle EXCEPT ![h].pos = @ + Len(data)] ELSE handle
  /\ UNCHANGED <<fmap, state, mode>>

(* SequentialFileImpl::Skip(): the size is looked at twice; the difference  *)
(* is unsigned, so that a file truncated in between has all available.      *)
SkipBegin(h, n) ==
  /\ Has(h, {"seq"}) /\ handle[h].skip = 0
  /\ handle[h].pos =< state[handle[h].file].size
  /\ handle' = [handle EXCEPT ![h].skip = n]
  /\ UNCHANGED <<fmap, state, mode, got>>

Skipped(pos, size, n) == IF pos > size \/ n =< size - pos THEN n ELSE size - pos

SkipEnd(h) ==
  /\ Has(h, {"seq"}) /\ handle[h].skip # 0
  /\ handle' = [handle EXCEPT ![h].skip = 0,
                  ![h].pos = @ + Skipped(@, state[handle[h].file].size, handle[h].skip)]
  /\ UNCHANGED <<fmap, state, mode, got>>

(* WritableFileImpl::Append().                                              *)
Write(h, data) ==
  /\ Has(h, {"write"}) /\ state[handle[h].file].size + Len(data) =< MaxLen
  /\ state' = [state EXCEPT ![handle[h].file] = AppendTo(@, data)]
  /\ UNCHANGED <<fmap, handle, mode, got>>

(* The destructors of the handles.                                          *)
Close(h) ==
  /\ ~ Free(h) /\ handle[h].skip = 0
  /\ state' = Unref(state, handle[h].file)
  /\ handle' = [handle EXCEPT ![h] = NoHandle]
  /\ UNCHANGED <<fmap, mode, got>>

---------------------------------------------------------------------------
(* The Env. The operations on a missing name return an error and change     *)
(* nothing.                                                                 *)

Exists(f) == f \in DOMAIN fmap
Without(f) == [g \in DOMAIN fmap \ {f} |-> fmap[g]]
Opened(h, kind, n) == handle' = [handle EXCEPT ![h] = [NoHandle EXCEPT !.kind = kind, !.file = n]]

(* NewSequentialFile() and NewRandomAccessFile().                           *)
NewReader(h, kind, f) ==
  /\ Free(h) /\ Exists(f) /\ fmap[f] # 0
  /\ state' = Ref(state, fmap[f])
  /\ Opened(h, kind, fmap[f])
  /\ UNCHANGED <<fmap, mode, got>>

(* NewWritableFile(): a new state with the map's reference, or the old one, *)
(* truncated.                                                               *)
NewWritableFile(h, f) ==
  /\ Free(h)
  /\ IF Exists(f)
     THEN /\ fmap[f] # 0
          /\ state' = Ref([state EXCEPT ![fmap[f]] = Truncate(@)], fmap[f])
          /\ Opened(h, "write", fmap[f])
          /\ UNCHANGED fmap
     ELSE /\ SomeFresh
          /\ state' = [state EXCEPT ![Fresh] = [NewState EXCEPT !.refs = 2]]
          /\ Opened(h, "write", Fresh)
          /\ fmap' = fmap @@ (f :> Fresh)
  /\ UNCHANGED <<mode, got>>

(* NewAppendableFile(): a new state never gets into the map, which is left  *)
(* with a null pointer under the name.                                      *)
NewAppendableFile(h, f) ==
  /\ Free(h) /\ mode # "no" /\ (mode = "existing" => Exists(f))
  /\ IF Exists(f) /\ fmap[f] # 0
     THEN state' = Ref(state, fmap[f]) /\ Opened(h, "write", fmap[f]) /\ UNCHANGED fmap
     ELSE /\ SomeFresh
          /\ state' = [state EXCEPT ![Fresh] = [NewState EXCEPT !.refs = 2]]
          /\ Opened(h, "write", Fresh)
          /\ fmap' = Without(f) @@ (f :> 0)
  /\ UNCHANGED <<mode, got>>

(* DeleteFileInternal() and DeleteFile().                                   *)
Dropped(f) == IF Exists(f) THEN Unref(state, fmap[f]) ELSE state

DeleteFile(f) ==
  /\ Exists(f) /\ fmap[f] # 0
  /\ state' = Dropped(f)
  /\ fmap' = Without(f)
  /\ UNCHANGED <<handle, mode, got>>

(* RenameFile(): the target is deleted first; a file renamed to itself is   *)
(* deleted, and the null pointer that takes its place erased.               *)
RenameFile(src, target) ==
  /\ Exists(src) /\ fmap[src] # 0 /\ (Exists(target) => fmap[target] # 0)
  /\ state' = Dropped(target)
  /\ fmap' = IF src = target THEN Without(src)
             ELSE [g \in (DOMAIN fmap \ {src}) \cup {target} |-> IF g = target THEN fmap[src] ELSE fmap[g]]
  /\ UNCHANGED <<handle, mode, got>>

Init ==
  /\ fmap = [f \in {} |-> 0]
  /\ state = [n \in State |-> Unborn]
  /\ handle = [h \in Handle |-> NoHandle]
  /\ mode \in Appendable
  /\ got = TRUE

Next ==
  \/ \E h \in Handle : \/ \E off \in 0 .. MaxLen, n \in 1 .. MaxLen : Read(h, off, n)
                       \/ SkipBegin(h, 2)
                       \/ SkipEnd(h) \/ Close(h)
                       \/ \E data \in {<<1>>, <<2, 1>>} : Write(h, data)
                       \/ \E f \in FName : \/ \E kind \in {"seq", "random"} : NewReader(h, kind, f)
                                           \/ NewWritableFile(h, f) \/ NewAppendableFile(h, f)
  \/ \E f \in FName : DeleteFile(f) \/ \E g \in FName : RenameFile(f, g)

Spec == Init /\ [][Next]_vars

---------------------------------------------------------------------------
(* Every variable has its type.                                             *)
TypeOK ==
  /\ DOMAIN fmap \subseteq FName /\ \A f \in DOMAIN fmap : fmap[f] \in 0 .. MaxState
  /\ \A n \in State : state[n].refs \in -2 .. Cardinality(FName) + Cardinality(Handle) + 1 /\ state[n].size =< MaxLen
  /\ \A h \in Handle : handle[h].kind \in {"none", "seq", "random", "write"} /\ handle[h].pos =< 2 * MaxLen + 2

(* A file lives as long as a name or a handle refers to it, and no longer:  *)
(* its count is exact through renames over it, deletes of open files and    *)
(* handles that outlive their names (Unref() deletes at zero). A state that *)
(* NewAppendableFile() made for a missing name is left out.                 *)
Holders(n) == Cardinality({f \in DOMAIN fmap : fmap[f] = n}) + Cardinality({h \in Handle : handle[h].file = n})
RefsExact ==
  mode # "missing" => \A n \in State : IF Holders(n) > 0 THEN state[n].refs = Holders(n) ELSE state[n].refs < 0

(* Nobody reads or writes a file that was deleted, whatever mode.           *)
NoUseAfterFree == \A h \in Handle : ~ Free(h) => state[handle[h].file].refs > 0

(* A read returns what was appended at that place of the file since it was  *)
(* last truncated, across the boundaries of its blocks.                     *)
ReadsWhatWasWritten == got

(* "Create an object that either appends to an existing file, or writes to  *)
(* a new file (if the file does not exist to begin with)": the new file is  *)
(* there under its name.                                                    *)
NewFileIsThere == \A f \in DOMAIN fmap : fmap[f] # 0
===========================================================================
