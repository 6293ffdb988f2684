------------------------------- MODULE FileIO -------------------------------
(* The flowops of flowop_library.c and fb_localfs.c that open, read, write, *)
(* synchronise, delete and close files, as one thread runs them: its table  *)
(* of descriptors and fileset entries, the buffers of its flowops, its list *)
(* of asynchronous writes, and the sizes and positions of the files         *)
(* beneath. Which entry a fileset hands out, and what several threads do to *)
(* its counts, is the subject of Fileset.                                   *)
EXTENDS Integers, Sequences, FiniteSets, SequencesExt

CONSTANTS SetOf,     \* the fileset of each file; the file of "raw" is a device
          FileSize,  \* fse_size of a file, fs_size of the device
          MaxFd,     \* THREADFLOW_MAXFD
          MaxSize,   \* bound: no file grows past this
          MaxAio,    \* bound: writes outstanding, at most (below MAXREAP)
          Sector,    \* 512, the alignment of direct I/O
          Builds     \* [var: built for varmail, mem: tf_constmemsize, menu: flowops,
                     \*  fault: opens and transfers may fail, missing: files not created yet]

VARIABLES build,   \* the setting, fixed
          tf,      \* tf_fd, tf_fse, tf_fdrotor
          fs,      \* the file system: inodes of names, sizes, descriptors
          cnt,     \* fse_open_cnt
          buf,     \* fo_buf and fo_buf_size of each flowop
          aio,     \* tf_aiolist
          io       \* what the last flowop did

vars == <<build, tf, fs, cnt, buf, aio, io>>

File == DOMAIN SetOf
Inode == 1 .. Cardinality(File) + MaxFd
None == "none"
Slot == 0 .. MaxFd - 1
Menu == build.menu
NoIO == [i |-> 0, ret |-> "OK", off |-> 0, bytes |-> 0, want |-> 0, wss |-> 0, at |-> 0,
         fits |-> TRUE, synced |-> {}]

---------------------------------------------------------------------------
(* The file system: names, inodes, and descriptors with their positions.    *)

Nums == 1 .. MaxFd
NoDesc == [ino |-> 0, pos |-> 0, append |-> FALSE]
Least(S) == CHOOSE n \in S : \A k \in S : n =< k
FreeNum(f) == Least({n \in Nums : f.desc[n].ino = 0})
FreeInode(f) == Least(Inode \ ({f.name[x] : x \in File} \cup {f.desc[n].ino : n \in Nums}))

SysCreate(f, x) == [f EXCEPT !.name[x] = FreeInode(f), !.size[FreeInode(f)] = 0]
SysOpen(f, x, append) == [f EXCEPT !.desc[FreeNum(f)] = [ino |-> f.name[x], pos |-> 0, append |-> append]]
SysClose(f, n) == [f EXCEPT !.desc[n] = NoDesc]
SysUnlink(f, x) == [f EXCEPT !.name[x] = 0]
SizeOf(f, n) == f.size[f.desc[n].ino]
Got(f, n, off, len) == Least({len, IF off >= SizeOf(f, n) THEN 0 ELSE SizeOf(f, n) - off})
SysPwrite(f, n, end) == [f EXCEPT !.size[f.desc[n].ino] = IF end > @ THEN end ELSE @]
SysSeek(f, n, pos) == [f EXCEPT !.desc[n].pos = pos]
WriteAt(f, n) == IF f.desc[n].append THEN SizeOf(f, n) ELSE f.desc[n].pos
SysWrite(f, n, len) == SysSeek(SysPwrite(f, n, WriteAt(f, n) + len), n, WriteAt(f, n) + len)

---------------------------------------------------------------------------
(* Descriptors.                                                             *)

(* flowoplib_fdnum(): the slot, and tf_fdrotor after it.                    *)
Rotates(f) == f.fd = 0 /\ f.rotate
FdNum(f) == IF Rotates(f) THEN (IF tf.rotor = 0 THEN MaxFd ELSE tf.rotor) - 1 ELSE f.fd
Rotor(f) == IF Rotates(f) THEN FdNum(f) ELSE tf.rotor

(* flowoplib_pickfile(): an entry of the fileset whose file exists, or not. *)
Pick(f, exists) == {x \in File : SetOf[x] = f.set /\ (fs.name[x] # 0) = exists}

Setup(ret, fd) == [ret |-> ret, fd |-> fd, tf |-> tf, fs |-> fs, cnt |-> cnt]

(* fileset_openfile() and fb_lfs_open(), or the open of a device. The entry *)
(* is in the slot before the open, and the descriptor is -1 if that fails.  *)
Entry(x) == IF SetOf[x] = "raw" THEN None ELSE x

Opened(x, fd, append) ==
  [Setup("OK", fd) EXCEPT !.tf.fd[fd] = FreeNum(fs), !.tf.fse[fd] = Entry(x),
     !.fs = SysOpen(IF fs.name[x] = 0 THEN SysCreate(fs, x) ELSE fs, x, append),
     !.cnt[x] = IF SetOf[x] = "raw" THEN @ ELSE @ + 1]

OpenFails(x, fd) ==
  [Setup("ERROR", fd) EXCEPT !.tf.fd[fd] = -1, !.tf.fse[fd] = IF SetOf[x] = "raw" THEN @ ELSE x]

Opens(x, fd, append) == {Opened(x, fd, append)} \cup (IF build.fault THEN {OpenFails(x, fd)} ELSE {})

(* flowoplib_openfile_common(), and flowoplib_openfile_ws(), which differs  *)
(* from it by O_APPEND.                                                     *)
OpenFile(f, fd, append) ==
  IF tf.fd[fd] # 0 THEN {Setup("ERROR", fd)}
  ELSE IF Pick(f, TRUE) = {} THEN {Setup("NORSC", fd)}
  ELSE UNION {Opens(x, fd, append) : x \in Pick(f, TRUE)}

OpenFileWs(f, fd) == OpenFile(f, fd, TRUE)

(* flowoplib_filesetup(): the slot's file, or one that is opened for it.    *)
Conflict(f, fd) == fd > 0 /\ tf.fse[fd] # None /\ SetOf[tf.fse[fd]] # f.set

FileSetup(f) ==
  IF Conflict(f, FdNum(f)) THEN {Setup("ERROR", FdNum(f))}
  ELSE IF tf.fd[FdNum(f)] # 0 THEN {Setup("OK", FdNum(f))}
  ELSE OpenFile(f, FdNum(f), FALSE)

(* flowoplib_filesetup_ws().                                                *)
FileSetupWs(f) ==
  IF Conflict(f, FdNum(f)) THEN {Setup("ERROR", FdNum(f))}
  ELSE IF tf.fd[FdNum(f)] # 0 THEN {Setup("OK", FdNum(f))}
  ELSE OpenFileWs(f, FdNum(f))

(* The working set: fo_constwss, the entry's size or the device's.          *)
WssOf(f, s) == IF f.wss # 0 THEN f.wss
               ELSE IF s.tf.fse[s.fd] # None THEN FileSize[s.tf.fse[s.fd]] ELSE FileSize["dev"]

(* fb_random64(): a multiple of the I/O size.                               *)
Offsets(max, round) == {(r \div round) * round : r \in 0 .. (max - round)}

---------------------------------------------------------------------------
(* Buffers.                                                                 *)

Padded(f, n) == IF f.direct THEN n + Sector ELSE n

Aligned(f, p) == IF f.direct THEN ((p + Sector) \div Sector) * Sector ELSE p

(* The private buffer of a flowop, reallocated when it was last used for    *)
(* less.                                                                    *)
Freed(b, n) == b.cap # 0 /\ b.size < n
Kept(b, n) == [cap |-> IF b.cap = 0 \/ Freed(b, n) THEN n ELSE b.cap, size |-> n]

(* flowoplib_iobufsetup(): a random place of tf_mem or the flowop's own     *)
(* buffer, at any address "a"; "room" is what is left of it where the I/O   *)
(* starts.                                                                  *)
NoBuf == [buf |-> buf, freed |-> FALSE, room |-> 0]

BufSetup(i, n) ==
  LET f == Menu[i]
      p == Padded(f, n)
  IN IF n = 0 \/ (build.mem # 0 /\ build.mem < p) THEN {}
     ELSE IF build.mem # 0
     THEN {[NoBuf EXCEPT !.room = build.mem + a - Aligned(f, a + o)] : o \in Offsets(build.mem, p), a \in 1 .. Sector}
     ELSE {[buf |-> [buf EXCEPT ![i] = Kept(@, p)], freed |-> Freed(buf[i], p),
            room |-> Kept(buf[i], p).cap + a - Aligned(f, a)] : a \in 1 .. Sector}

(* A buffer that is freed is not there for the writes in progress.          *)
Dangle(i, freed) == [k \in DOMAIN aio |-> [aio[k] EXCEPT !.live = @ /\ ~ (freed /\ aio[k].from = i)]]

---------------------------------------------------------------------------
(* What a flowop comes down to: the setup s, the file system f2 and buffers *)
(* b it leaves, and what it reports. An error ends the thread.              *)

Running == io.ret = "OK"
Is(i, op) == Running /\ Menu[i].op = op
Small(f, n, end) == end =< MaxSize /\ (end > SizeOf(f, n) => f.desc[n].ino # fs.name["dev"])

Does(i, s, f2, b, r) ==
  /\ tf' = [s.tf EXCEPT !.rotor = Rotor(Menu[i])]
  /\ fs' = f2 /\ cnt' = s.cnt /\ buf' = b.buf /\ aio' = Dangle(i, b.freed)
  /\ io' = [r EXCEPT !.i = i]
  /\ UNCHANGED build

Stops(i, s, b, ret) == Does(i, s, s.fs, b, [NoIO EXCEPT !.ret = ret])

(* The system call fails, in f2: the flowop reports an error.               *)
Fails(i, s, f2, b) == build.fault /\ Does(i, s, f2, b, [NoIO EXCEPT !.ret = "ERROR"])

(* flowoplib_iosetup() and flowoplib_iosetup_ws(): the file, then a buffer  *)
(* for n bytes; only where both are there does the transfer follow.         *)
Readied(s, b, len, ret) == [s |-> s, b |-> b, len |-> len, ret |-> ret]

BufferFor(i, s, n) ==
  IF BufSetup(i, n) = {} THEN {Readied(s, NoBuf, n, "ERROR")}
  ELSE {Readied(s, b, n, "OK") : b \in BufSetup(i, n)}

IOSetup(i, n, setups) ==
  UNION {IF s.ret # "OK" THEN {Readied(s, NoBuf, n, s.ret)} ELSE BufferFor(i, s, n) : s \in setups}

Open(i) ==
  /\ Is(i, "open")
  /\ \E s \in OpenFile(Menu[i], FdNum(Menu[i]), FALSE) : Stops(i, s, NoBuf, s.ret)

(* flowoplib_createfile().                                                  *)
CreateFile(f, fd) ==
  IF tf.fd[fd] # 0 \/ f.set = "raw" THEN {Setup("ERROR", fd)}
  ELSE IF Pick(f, FALSE) = {} THEN {Setup("NORSC", fd)}
  ELSE UNION {Opens(x, fd, FALSE) : x \in Pick(f, FALSE)}

Create(i) ==
  /\ Is(i, "create")
  /\ \E s \in CreateFile(Menu[i], FdNum(Menu[i])) : Stops(i, s, NoBuf, s.ret)

(* flowoplib_read(): at a random offset, or at the next location, which is  *)
(* the beginning after the end of the file.                                 *)
AfterRead(f, n, got, random) ==
  IF got = 0 THEN SysSeek(f, n, 0) ELSE IF random THEN f ELSE SysSeek(f, n, f.desc[n].pos + got)

Read(i, n) ==
  LET f == Menu[i]
      step(s, b) ==
        IF f.random /\ n > WssOf(f, s) THEN Stops(i, s, b, "ERROR")
        ELSE \/ Fails(i, s, s.fs, b)
             \/ \E d \in {s.tf.fd[s.fd]} :
                \E off \in IF f.random THEN Offsets(WssOf(f, s), n) ELSE {s.fs.desc[d].pos} :
                  Does(i, s, AfterRead(s.fs, d, Got(s.fs, d, off, n), f.random), b,
                       [NoIO EXCEPT !.off = off, !.bytes = Got(s.fs, d, off, n), !.want = n,
                                    !.wss = IF f.random THEN WssOf(f, s) ELSE 0, !.fits = b.room >= n])
  IN /\ Is(i, "read")
     /\ \E x \in IOSetup(i, n, FileSetup(f)) :
          IF x.ret # "OK" THEN Stops(i, x.s, NoBuf, x.ret) ELSE step(x.s, x.b)

(* flowoplib_write().                                                       *)
Write(i, n) ==
  LET f == Menu[i]
      step(s, b) ==
        IF f.random /\ n > WssOf(f, s) THEN Stops(i, s, b, "ERROR")
        ELSE \/ Fails(i, s, s.fs, b)
             \/ \E d \in {s.tf.fd[s.fd]} :
                \E off \in IF f.random THEN Offsets(WssOf(f, s), n) ELSE {WriteAt(s.fs, d)} :
                  /\ Small(s.fs, d, off + n)
                  /\ Does(i, s, IF f.random THEN SysPwrite(s.fs, d, off + n) ELSE SysWrite(s.fs, d, n), b,
                          [NoIO EXCEPT !.off = off, !.bytes = n, !.want = n,
                                       !.wss = IF f.random THEN WssOf(f, s) ELSE 0, !.fits = b.room >= n])
  IN /\ Is(i, "write")
     /\ \E x \in IOSetup(i, n, FileSetup(f)) :
          IF x.ret # "OK" THEN Stops(i, x.s, NoBuf, x.ret) ELSE step(x.s, x.b)

(* flowoplib_appendfile(): to the end, and write; a short write is an error *)
(* as well.                                                                 *)
ToEnd(f, n) == SysSeek(f, n, SizeOf(f, n))

Appends(i, s, b, n, at) ==
  \E d \in {s.tf.fd[s.fd]} :
    \/ \E k \in 0 .. n - 1 : Small(at, d, WriteAt(at, d) + k) /\ Fails(i, s, SysWrite(at, d, k), b)
    \/ Small(at, d, WriteAt(at, d) + n) /\
       Does(i, s, SysWrite(at, d, n), b,
            [NoIO EXCEPT !.off = WriteAt(at, d), !.at = SizeOf(s.fs, d), !.bytes = n, !.want = n,
                         !.fits = b.room >= n])

AppendFile(i, n) ==
  LET step(s, b) == Appends(i, s, b, n, ToEnd(s.fs, s.tf.fd[s.fd]))
  IN /\ Is(i, "append")
     /\ \E x \in IOSetup(i, n, FileSetup(Menu[i])) :
          IF x.ret # "OK" THEN Stops(i, x.s, NoBuf, x.ret) ELSE step(x.s, x.b)

(* flowoplib_appendfilerand(): only the varmail build seeks; the other      *)
(* opens the file for appending, if it is not open.                         *)
AppendFileRand(i, n) ==
  LET step(s, b) == Appends(i, s, b, n, IF build.var THEN ToEnd(s.fs, s.tf.fd[s.fd]) ELSE s.fs)
  IN /\ Is(i, "appendrand")
     /\ IF n = 0 THEN io' = [NoIO EXCEPT !.i = i, !.ret = "ERROR"] /\ UNCHANGED <<build, tf, fs, cnt, buf, aio>>
        ELSE \E x \in IOSetup(i, n, IF build.var THEN FileSetup(Menu[i]) ELSE FileSetupWs(Menu[i])) :
               IF x.ret # "OK" THEN Stops(i, x.s, NoBuf, x.ret) ELSE step(x.s, x.b)

(* The set-up of the two flowops for whole files: an I/O size of zero is    *)
(* the working set's, and without any there is no buffer.                   *)
WholeSetup(i, n) ==
  LET len(s) == IF n = 0 THEN WssOf(Menu[i], s) ELSE n
  IN UNION {IF s.ret # "OK" THEN {Readied(s, NoBuf, 0, s.ret)}
            ELSE IF len(s) = 0 THEN {Readied(s, NoBuf, 0, "OK")}
            ELSE BufferFor(i, s, len(s)) : s \in FileSetup(Menu[i])}

(* flowoplib_readwholefile(): one read, from the beginning.                 *)
ReadWholeFile(i, n) ==
  LET step(s, b, len) ==
        \E d \in {s.tf.fd[s.fd]} : \E got \in {Got(s.fs, d, 0, len)} :
          \/ Fails(i, s, IF build.var THEN SysSeek(s.fs, d, 0) ELSE s.fs, b)
          \/ Does(i, s, IF build.var THEN SysSeek(s.fs, d, got) ELSE s.fs, b,
               [NoIO EXCEPT !.bytes = got, !.want = SizeOf(s.fs, d)])
  IN /\ Is(i, "readwhole")
     /\ \E x \in WholeSetup(i, n) :
          IF x.ret # "OK" THEN Stops(i, x.s, NoBuf, x.ret) ELSE step(x.s, x.b, x.len)

(* The writes of flowoplib_writewholefile(): the next one's size is         *)
(* computed before "seek" is moved on, and by that size.                    *)
RECURSIVE Chunks(_, _, _, _)
Chunks(wss, iosize, seek, wsize) ==
  IF seek >= wss THEN <<>>
  ELSE <<wsize>> \o Chunks(wss, iosize, seek + Least({wss - seek, iosize}), Least({wss - seek, iosize}))

WholeChunks(wss, iosize) == Chunks(wss, iosize, 0, Least({wss, iosize}))

Written(f, d, w) == FoldLeft(LAMBDA x, y : SysWrite(x, d, y), f, w)

(* flowoplib_writewholefile(): the size is the source entry's, slot 0's     *)
(* where none is given; with a size and no I/O size it never ends.          *)
WriteWholeFile(i, n) ==
  LET f == Menu[i]
      step(s, b, len) ==
        LET src == s.tf.fse[f.src]
            wss == IF src # None THEN FileSize[src] ELSE WssOf(f, s)
            d == s.tf.fd[s.fd]
        IN IF f.src # 0 /\ src = None THEN Stops(i, s, b, "ERROR")
           ELSE IF len = 0 /\ wss > 0 THEN Stops(i, s, b, "LOOPS")
           ELSE \E w \in {IF wss = 0 THEN <<>> ELSE WholeChunks(wss, len)} :
                  /\ Small(s.fs, d, WriteAt(s.fs, d) + FoldLeft(+, 0, w))
                  /\ \/ \E k \in DOMAIN w : \E short \in 0 .. w[k] - 1 :
                          Fails(i, s, Written(s.fs, d, Append(SubSeq(w, 1, k - 1), short)), b)
                     \/ Does(i, s, Written(s.fs, d, w), b,
                             [NoIO EXCEPT !.bytes = FoldLeft(+, 0, w), !.want = wss, !.at = len])
  IN /\ Is(i, "writewhole")
     /\ \E x \in WholeSetup(i, n) :
          IF x.ret # "OK" THEN Stops(i, x.s, NoBuf, x.ret) ELSE step(x.s, x.b, x.len)

(* flowoplib_fsync().                                                       *)
Fsync(i) ==
  /\ Is(i, "fsync")
  /\ \E s \in {Setup("OK", FdNum(Menu[i]))} :
       IF tf.fd[s.fd] = 0 \/ tf.fse[s.fd] = None THEN Stops(i, s, NoBuf, "ERROR")
       ELSE Does(i, s, fs, NoBuf, [NoIO EXCEPT !.synced = {tf.fd[s.fd]}])

(* flowoplib_fsyncset(): every slot with an entry of the fileset.           *)
FsyncSet(i) ==
  /\ Is(i, "fsyncset")
  /\ io' = [NoIO EXCEPT !.i = i, !.synced =
              {tf.fd[k] : k \in {j \in Slot : tf.fse[j] # None /\ SetOf[tf.fse[j]] = Menu[i].set}}]
  /\ UNCHANGED <<build, tf, fs, cnt, buf, aio>>

(* flowoplib_statfile(): of some file; fstat() is not used.                 *)
StatFile(i) ==
  /\ Is(i, "stat")
  /\ Stops(i, Setup("OK", 0), NoBuf, IF Menu[i].set = "raw" THEN "ERROR"
                                     ELSE IF Pick(Menu[i], TRUE) = {} THEN "NORSC" ELSE "OK")

MutCloseFile(s) == [s EXCEPT !.tf.fd[s.fd] = 0, !.cnt[tf.fse[s.fd]] = @ - 1]

(* flowoplib_closefile(): the entry stays in the slot; where there is none, *)
(* the code follows a null pointer.                                         *)
CloseFile(s) == [s EXCEPT !.tf.fd[s.fd] = 0, !.fs = SysClose(fs, tf.fd[s.fd]), !.cnt[tf.fse[s.fd]] = @ - 1]

Close(i) ==
  /\ Is(i, "close")
  /\ \E s \in {Setup("OK", FdNum(Menu[i]))} :
       IF tf.fd[s.fd] = 0 THEN Stops(i, s, NoBuf, "ERROR")
       ELSE IF tf.fse[s.fd] = None THEN Stops(i, s, NoBuf, "CRASH")
       ELSE Stops(i, CloseFile(s), NoBuf, "OK")

(* flowoplib_deletefile(): the slot's entry, which leaves the slot, or any; *)
(* not one that is open elsewhere.                                          *)
Mine(s) == s.fd > 0 /\ tf.fse[s.fd] # None
Unslotted(s) == IF Mine(s) THEN [s EXCEPT !.tf.fse[s.fd] = None] ELSE s
OpenElsewhere(s, x) == cnt[x] > (IF s.fd > 0 /\ tf.fd[s.fd] > 0 THEN 1 ELSE 0)

DeleteFile(f, s) ==
  IF ~ Mine(s) /\ f.set = "raw" THEN {[s EXCEPT !.ret = "ERROR"]}
  ELSE IF ~ Mine(s) /\ Pick(f, TRUE) = {} THEN {[s EXCEPT !.ret = "NORSC"]}
  ELSE {IF OpenElsewhere(s, x) THEN Unslotted(s)
        ELSE [Unslotted(s) EXCEPT !.fs = SysUnlink(fs, x), !.cnt[x] = 0]
          : x \in IF Mine(s) THEN {tf.fse[s.fd]} ELSE Pick(f, TRUE)}

Delete(i) ==
  /\ Is(i, "delete")
  /\ \E s \in DeleteFile(Menu[i], Setup("OK", FdNum(Menu[i]))) : Stops(i, s, NoBuf, s.ret)

---------------------------------------------------------------------------
(* Asynchronous writes.                                                     *)

(* aio_allocate(): a new element at the head of the list.                   *)
AioAllocate(list, new) == <<new>> \o list

(* fb_lfsflow_aiowrite(): at random offsets only.                           *)
AioWrite(i, n) ==
  LET f == Menu[i]
      step(s, b) ==
        IF ~ f.random \/ n > WssOf(f, s) THEN Stops(i, s, b, "ERROR")
        ELSE \E off \in Offsets(WssOf(f, s), n), d \in {s.tf.fd[s.fd]} :
               /\ Len(aio) < MaxAio /\ Small(s.fs, d, off + n)
               /\ tf' = [s.tf EXCEPT !.rotor = Rotor(f)] /\ fs' = s.fs /\ cnt' = s.cnt /\ buf' = b.buf
               /\ aio' = AioAllocate(Dangle(i, b.freed),
                            [num |-> d, ino |-> s.fs.desc[d].ino, end |-> off + n, state |-> "running",
                             from |-> IF build.mem = 0 THEN i ELSE 0, live |-> TRUE])
               /\ io' = [NoIO EXCEPT !.i = i, !.off = off, !.bytes = n, !.want = n, !.wss = WssOf(f, s),
                                     !.fits = b.room >= n]
               /\ UNCHANGED build
  IN /\ Is(i, "aiowrite")
     /\ \E x \in IOSetup(i, n, FileSetup(f)) :
          IF x.ret # "OK" THEN Stops(i, x.s, NoBuf, x.ret) ELSE step(x.s, x.b)

(* A write in progress ends: on what is now open under its number.          *)
AioEnds(k, how) ==
  /\ k \in DOMAIN aio /\ aio[k].state = "running"
  /\ how = "done" => fs.desc[aio[k].num].ino # 0
  /\ aio' = [aio EXCEPT ![k].state = how]
  /\ fs' = IF how = "done" THEN SysPwrite(fs, aio[k].num, aio[k].end) ELSE fs
  /\ UNCHANGED <<build, tf, cnt, buf, io>>

(* fb_lfsflow_aiowait(): one walk over the list, which takes the writes     *)
(* that are done off it, until those are half of the outstanding ones.      *)
Todo == IF Len(aio) \div 2 = 0 THEN 1 ELSE Len(aio) \div 2

Reaped ==
  LET done == {k \in DOMAIN aio : aio[k].state = "done"}
  IN {k \in done : Cardinality({j \in done : j < k}) < Todo}

(* aio_deallocate().                                                        *)
AioDeallocate(list, gone) == FoldRight(LAMBDA k, l : IF k \in gone THEN l ELSE <<list[k]>> \o l,
                                       [k \in DOMAIN list |-> k], <<>>)

AioWait(i) ==
  /\ Is(i, "aiowait")
  /\ aio' = AioDeallocate(aio, Reaped)
  /\ io' = [NoIO EXCEPT !.i = i, !.bytes = Cardinality(Reaped), !.want = Todo]
  /\ UNCHANGED <<build, tf, fs, cnt, buf>>

---------------------------------------------------------------------------
(* The files of the entries are there, or not yet; the device is.           *)
FileNo == CHOOSE b \in Bijection(File, 1 .. Cardinality(File)) : TRUE

Init ==
  /\ build \in Builds
  /\ tf = [fd |-> [k \in Slot |-> 0], fse |-> [k \in Slot |-> None], rotor |-> 0]
  /\ fs = [name |-> [x \in File |-> IF x \in build.missing THEN 0 ELSE FileNo[x]],
           size |-> [n \in Inode |-> IF n \in {FileNo[x] : x \in File}
                                     THEN FileSize[CHOOSE x \in File : FileNo[x] = n] ELSE 0],
           desc |-> [n \in Nums |-> NoDesc]]
  /\ cnt = [x \in File |-> 0]
  /\ buf = [i \in DOMAIN Menu |-> [cap |-> 0, size |-> 0]]
  /\ aio = <<>>
  /\ io = NoIO

Next ==
  \/ \E i \in DOMAIN Menu :
       \/ Open(i) \/ Create(i) \/ Fsync(i) \/ FsyncSet(i) \/ StatFile(i) \/ Close(i) \/ Delete(i) \/ AioWait(i)
       \/ \E n \in Menu[i].sizes : \/ Read(i, n) \/ Write(i, n) \/ AppendFile(i, n) \/ AppendFileRand(i, n)
                                   \/ ReadWholeFile(i, n) \/ WriteWholeFile(i, n) \/ AioWrite(i, n)
  \/ \E k \in 1 .. MaxAio, how \in {"done", "failed"} : AioEnds(k, how)

Spec == Init /\ [][Next]_vars

---------------------------------------------------------------------------
(* Every variable has its type.                                             *)
TypeOK ==
  /\ build \in Builds
  /\ tf \in [fd : [Slot -> {-1, 0} \cup Nums], fse : [Slot -> File \cup {None}], rotor : Slot]
  /\ fs.name \in [File -> 0 .. Cardinality(Inode)] /\ fs.size \in [Inode -> 0 .. MaxSize]
  /\ fs.desc \in [Nums -> [ino : 0 .. Cardinality(Inode), pos : 0 .. MaxSize, append : BOOLEAN]]
  /\ cnt \in [File -> Int] /\ Len(aio) =< MaxAio
  /\ io.ret \in {"OK", "ERROR", "NORSC", "CRASH", "LOOPS"}

(* No descriptor is leaked and none is used by two slots: while the thread  *)
(* runs, the numbers in tf_fd are those the file system has open, each in   *)
(* one slot (open checks the slot, close empties it, through rotation and   *)
(* the opens that reads and writes do by themselves).                       *)
SlotsOwnDescriptors ==
  Running => /\ {n \in Nums : fs.desc[n].ino # 0} = {tf.fd[k] : k \in Slot} \ {0}
             /\ \A j, k \in Slot : tf.fd[j] = tf.fd[k] /\ tf.fd[j] # 0 => j = k

(* The slot's entry is the file its descriptor is open on, so that sizes    *)
(* and counts are charged to the right file, unless some slot was deleted   *)
(* through while it was open: that one has no entry, and a second deletefile *)
(* through it may take a file another slot has open.                        *)
DeletedThrough(k) == tf.fd[k] > 0 /\ tf.fse[k] = None /\ fs.desc[tf.fd[k]].ino # fs.name["dev"]

EntryIsOpenFile ==
  Running => \/ \E k \in Slot : DeletedThrough(k)
             \/ \A k \in Slot : tf.fd[k] # 0 /\ tf.fse[k] # None
                                  => fs.desc[tf.fd[k]].ino = fs.name[tf.fse[k]]

(* The open counts of the entries are what deletefile takes them for: the   *)
(* slots that have the file open, again unless one was deleted through.     *)
CountsAreSlots ==
  Running => \/ \E k \in Slot : DeletedThrough(k)
             \/ \A x \in File : cnt[x] = Cardinality({k \in Slot : tf.fd[k] # 0 /\ tf.fse[k] = x})

(* Random reads and writes, asynchronous ones included, stay within the     *)
(* working set.                                                             *)
WithinWorkingSet == io.wss # 0 => io.off + io.want =< io.wss

(* No transfer runs past the end of its buffer, wherever in tf_mem or in    *)
(* its own buffer the flowop starts, with the alignment of direct I/O, and  *)
(* after I/O of other sizes.                                                *)
BufferFits == io.fits

(* A flowop that reads a file sequentially does not stay at its end: two    *)
(* reads in a row from one slot find nothing only in an empty file.         *)
ReadStep ==
  \A i \in DOMAIN Menu :
    Menu[i].op = "read" /\ ~ Menu[i].random /\ ~ Rotates(Menu[i])
    /\ io.i = i /\ io'.i = i /\ io'.ret = "OK" /\ io.want > 0 /\ io'.want > 0
    /\ io.bytes = 0 /\ io'.bytes = 0
      => fs.size[fs.desc[tf.fd[Menu[i].fd]].ino] = 0
ReadsGoRound == [][ReadStep]_vars

(* writewholefile writes all of the file's size, and less than one I/O more *)
(* than that.                                                               *)
WholeFileWritten ==
  Running /\ io.i # 0 /\ Menu[io.i].op = "writewhole"
    => io.bytes >= io.want /\ (io.bytes > 0 => io.bytes < io.want + io.at)

(* An appendfile, and in the varmail build an appendfilerand, writes at the *)
(* end of the file, whoever opened it and whatever was read or written      *)
(* through the descriptor before.                                           *)
AppendsAtEnd ==
  Running /\ io.i # 0 /\ (Menu[io.i].op = "append" \/ (Menu[io.i].op = "appendrand" /\ build.var))
    => io.off = io.at

KeepsRunning ==
  Len(aio') < Len(aio) =>
    Cardinality({k \in DOMAIN aio' : aio'[k].state = "running"})
    = Cardinality({k \in DOMAIN aio : aio[k].state = "running"})

(* aiowait forgets no write that is in progress.                            *)
RunningKept == [][KeepsRunning]_vars

(* The buffer of a write in progress is not freed, when the flowop's I/O    *)
(* size is constant.                                                        *)
AioBufferLive ==
  \A k \in DOMAIN aio : aio[k].state = "running" /\ aio[k].from # 0
    /\ Cardinality(Menu[aio[k].from].sizes) = 1 => aio[k].live

---------------------------------------------------------------------------
(* Claims of the comments that the code does not keep.                      *)

(* "doing fsync() on each open file that belongs to the flowop's fileset".  *)
FsyncsOpenFiles == 0 \notin io.synced

(* "reads fs_iosize bytes at a time until the end of the file".             *)
WholeFileRead == Running /\ io.i # 0 /\ Menu[io.i].op = "readwhole" => io.bytes = io.want

(* "Does multiple writes of fo_iosize length length until full file has     *)
(* been written": and no more than the file.                                *)
WholeFileExact == Running /\ io.i # 0 /\ Menu[io.i].op = "writewhole" => io.bytes = io.want

(* "A logical seek to the end of file is done", in every build.             *)
RandAppendsAtEnd == Running /\ io.i # 0 /\ Menu[io.i].op = "appendrand" => io.off = io.at
===========================================================================
