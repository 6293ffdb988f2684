------------------------------ MODULE MCFilebench ------------------------------
(***************************************************************************)
(* filebench's components below run control, each explored by itself:      *)
(* which names the component of a behaviour.  The shared memory has its    *)
(* own variables; those of the others are laid on the slots s1, s2, ...    *)
(***************************************************************************)
EXTENDS SharedMemory, Sequences, TLC

VARIABLES which, s1, s2, s3, s4, s5, s6, s7, s8, s9

From9 == <<s9>>
From8 == <<s8, s9>>
From7 == <<s7, s8, s9>>
From5 == <<s5, s6, s7, s8, s9>>
From3 == <<s3, s4, s5, s6, s7, s8, s9>>
slots == <<s1, s2, From3>>
benchVars == <<which, slots, vars>>

-----------------------------------------------------------------------------
(* ipc.c: pools of two objects of two words, strings and thread memory.    *)
BothPools == {"object", "avd"}
TextLengths == {1, 2}
Clients == {"t1", "t2"}
SomeFaults == {"none", "shmget", "shmat"}

(* fb_avl.c: every tree over seven keys, and one over twelve, deep enough  *)
(* for a removal to rotate at several levels.                              *)
SmallKeys == 1 .. 7
DeepTree == <<8, 5, 11, 3, 7, 10, 12, 2, 4, 6, 9, 1>>
A == INSTANCE AvlTree WITH
       MaxKey <- 12, GrowKeys <- SmallKeys, FullOrder <- DeepTree,
       tree <- s1, held <- s2, mode <- s3, cookie <- s4

(* vars.c: two names, one descriptor; fewer values with local variables.   *)
VarNames == {"x", "y"}
VarTyped(t, vs) == {[type |-> t, val |-> v] : v \in vs}
VarValues ==
  [l \in BOOLEAN |->
     IF l THEN VarTyped("int", {3}) \cup VarTyped("rand", {"r1"})
     ELSE VarTyped("int", {0, 3}) \cup VarTyped("str", {"s"}) \cup VarTyped("rand", {"r1", "r2"})]
V == INSTANCE Variables WITH
       Name <- VarNames, Value <- VarValues, MaxVars <- 3, MaxAvds <- 1, WithLocals <- BOOLEAN,
       var <- s1, list <- s2, lvars <- s3, pending <- s4, avd <- s5, assigned <- s6,
       stopped <- s7, locals <- s8

(* fb_cvar.c and cvars/: the libraries, and parameters of up to three      *)
(* symbols.                                                                *)
CvarLibs == <<"erlang", "exponential", "gamma", "lognormal", "normal", "triangular", "uniform",
              "weibull">>
CvarWorkers == {"w1"}
CvarParams ==
  UNION {[1 .. n -> {"k1", "bad", ":", ";", "1", "-1"}] : n \in 0 .. 3}
  \union {<<"k1", ":", "3", ";", "k2", ":", "1">>, <<"k1", ":", "1", ";", "k1", ":", "1">>,
          <<"k3", ":", "3">>}
CvarRaw == {-1, 0, 2, 4, 7}
CvarBroken == {{}, {"gamma"}}
CvarBounds == [min : {0}, max : {4}, round : {0, 3}] \union [min : {1}, max : {1010}, round : {2}]
C == INSTANCE CustomVars WITH
       Libs <- CvarLibs, Worker <- CvarWorkers, Params <- CvarParams, Bounds <- CvarBounds,
       Raw <- CvarRaw, Broken <- CvarBroken,
       info <- s1, broken <- s2, libs <- s3, proc <- s4, cvar <- s5, drawn <- s6

(* cvars/mtwist/: a state of six words of three bits, doubles of five bits, *)
(* and every list of up to four small weights.                             *)
TwistSeeds == {[i \in 0 .. 5 |-> (3 * i + 1) % 8]}
Between(kind, lower, upper) == [kind |-> kind, lower |-> lower, upper |-> upper]
Uniforms == {Between("iuniform", -1, 1), Between("iuniform", -4, 3), Between("liuniform", -3, 2),
             Between("liuniform", 0, 20)}
WeightLists == {w \in UNION {[1 .. n -> 0 .. 3] : n \in 1 .. 4} : \E i \in DOMAIN w : w[i] # 0}
T == INSTANCE Twister WITH
       StateSize <- 6, Offset <- 3, Width <- 3, Precision <- 5, MatrixA <- 5, MultOld <- 5,
       MultNew <- 5, KnuthShift <- 1, DefaultSeed <- 3, Threshold <- 2,
       Temper <- [u |-> 1, s |-> 1, b |-> 6, t |-> 2, c |-> 4, l |-> 2],
       Main <- "p1", Worker <- {"p2"}, Seeds <- {0, 6}, Fulls <- TwistSeeds, Uniforms <- Uniforms,
       Weights <- WeightLists, MaxNext <- 14, SavePoints <- {0, 11},
       gen <- s1, scale <- s2, users <- s3, file <- s4, ask <- s5, last <- s6, src <- s7

(* fb_random.c: 4-bit integers, tables of up to two entries.               *)
Regions == [max : {0, 1, 3, 7, 10}, round : {0, 1, 2, 3, 8}]
TableEntries == [percent : {1, 2}, min : {2, 4}, max : {4, 7}]
AllScripts ==
  [type : {"", "uniform", "tabular", "gamma"}, src : {"rand48", "urandom"}, mean : {0, 5},
   min : {0, 2}, round : {0, 3},
   table : {<<>>} \union {<<e>> : e \in TableEntries}
           \union {<<[percent |-> 2, min |-> 2, max |-> 4], e>> : e \in TableEntries}]
Scripts == {s \in AllScripts : s.src = "urandom" => s.round = 0}
N == INSTANCE RandomVars WITH
       W <- 16, TabSize <- 4, Steps <- 8, Regions <- Regions, Scripts <- Scripts,
       rnd <- s1, last <- s2

(* fileset.c: up to three files and two leaf directories in directories of *)
(* one to three entries, and up to six applications at four uFS workers.   *)
Filesets ==
  {[file |-> f, leafdir |-> l, depths |-> {0, 2, 3}, widths |-> {0, 2, 3}] :
     f \in 0 .. 3, l \in {0, 2}}
Placements ==
  [apps : 1 .. 6, workers : 1 .. 4,
   ratio : {[num |-> 2, den |-> 5], [num |-> 1, den |-> 5], [num |-> 0, den |-> 1]}]
P == INSTANCE FilesetPopulate WITH
       Asked <- Filesets, Placed <- Placements, Entries <- 12, Paths <- 11,
       asked <- s1, node <- s2, stack <- s3, real <- s4, idle <- s5, status <- s6

-----------------------------------------------------------------------------
(* flowop.c and stats.c: two threads; a composite flowop, one within       *)
(* another, and a flowop called like another's type.                       *)
Fo(t, n) == [type |-> t, name |-> n, iters |-> 1]
Twice(f) == [f EXCEPT !.iters = 2]
Nested ==
  <<[name |-> "c", inner |-> <<Fo("write", "w")>>],
    [name |-> "d", inner |-> <<Fo("c", "k")>>]>>
Single == [comps |-> <<[name |-> "c", inner |-> <<Fo("write", "w")>>]>>,
           flow |-> <<Fo("read", "c"), Twice(Fo("c", "b"))>>]
Inside == [comps |-> Nested, flow |-> <<Fo("d", "b")>>]
Namesake == [comps |-> <<>>, flow |-> <<Twice(Fo("read", "write")), Fo("write", "y")>>]
Flow(script, quits, fails, periods, reset) ==
  [script |-> script, quits |-> quits, fails |-> fails, periods |-> periods, reset |-> reset]
Flows == {Flow(Single, TRUE, FALSE, 1, FALSE), Flow(Inside, FALSE, TRUE, 1, FALSE),
          Flow(Namesake, FALSE, FALSE, 2, TRUE)}
Latencies == [t1 |-> 2, t2 |-> 3]
F == INSTANCE FlowopLists WITH
       Thread <- Clients, Latency <- Latencies, Settings <- Flows, MaxOps <- 2,
       set <- s1, st <- s2, th <- s3, main <- s4, quiet <- s5, abort <- s6, total <- s7,
       done <- s8, seen <- s9

(* flowop_library.c's file flowops: a thread with two slots, two filesets  *)
(* and a raw device.                                                       *)
SetOf == [f1 |-> "s", f2 |-> "s", g |-> "t", dev |-> "raw"]
FileSize == [f1 |-> 3, f2 |-> 2, g |-> 0, dev |-> 4]
Op(op) == [op |-> op, fd |-> 0, rotate |-> FALSE, set |-> "s", sizes |-> {1}, random |-> FALSE,
           wss |-> 0, src |-> 0, direct |-> FALSE]
On(f, k) == [f EXCEPT !.fd = k]
Of(f, z) == [f EXCEPT !.sizes = z]
At(f, x) == [f EXCEPT !.set = x]
Random(f) == [f EXCEPT !.random = TRUE]
Rotated(f) == [f EXCEPT !.rotate = TRUE]
Direct(f) == [f EXCEPT !.direct = TRUE]
From(f, k) == [f EXCEPT !.src = k]
Opening == <<Rotated(Op("open")), Rotated(Op("close")), Rotated(Of(Op("read"), {2})),
             Op("fsyncset"), Op("stat"), On(Op("delete"), 1), Op("delete"), Op("create")>>
Moving == <<On(Of(Op("read"), {1, 2}), 1), On(Random(Of(Op("write"), {1, 4})), 1),
            Of(Op("append"), {2}), On(Of(Op("appendrand"), {0, 2}), 1), On(Op("close"), 1),
            Op("close")>>
Whole == <<On(Of(Op("readwhole"), {0, 2}), 1), Of(At(Op("writewhole"), "t"), {0, 2}),
           From(On(Of(Op("writewhole"), {0, 1, 2}), 1), 1), On(Op("fsync"), 1), Op("close"),
           On(At(Op("read"), "t"), 1)>>
Raw == <<At(Direct(Random(Of(Op("aiowrite"), {2}))), "raw"), Op("aiowait"),
         At(Direct(Of(Random(Op("read")), {1, 3})), "raw"), At(Op("create"), "raw"), Op("fsync"),
         Op("close")>>
Async == <<On(Random(Of(Op("aiowrite"), {1, 2})), 1), On(Op("aiowrite"), 1), Op("aiowait"),
           On(Op("close"), 1)>>
Built(menu, varmail, room, fault, missing) ==
  [var |-> varmail, mem |-> room, menu |-> menu, fault |-> fault, missing |-> missing]
Builds ==
  {Built(Opening, FALSE, 0, TRUE, {"f2"}), Built(Async, FALSE, 0, FALSE, {"f2"}),
   Built(Moving, FALSE, 5, FALSE, {}), Built(Moving, TRUE, 0, TRUE, {}),
   Built(Whole, FALSE, 5, FALSE, {}), Built(Whole, TRUE, 0, TRUE, {}),
   Built(Raw, FALSE, 0, FALSE, {}), Built(Raw, FALSE, 9, FALSE, {})}
I == INSTANCE FileIO WITH
       MaxFd <- 2, MaxSize <- 6, MaxAio <- 3, Sector <- 2,
       build <- s1, tf <- s2, fs <- s3, cnt <- s4, buf <- s5, aio <- s6, io <- s7

(* eventgen.c and the limiters: two threads, statistics cleared as run     *)
(* does, and again as psrun may.                                           *)
Limit(kind, target, clears, finish, ops) ==
  [kind |-> kind, target |-> target, clears |-> clears, finish |-> finish, ops |-> ops]
Limits == {Limit("iops", TRUE, 1, 0, 2), Limit("ops", FALSE, 1, 0, 2), Limit("event", FALSE, 1, 0, 2),
           Limit("bw", TRUE, 2, 0, 2), Limit("bw", FALSE, 1, 0, 2),
           Limit("finishcount", FALSE, 1, 3, 3), Limit("finishcount", TRUE, 1, 2, 3),
           Limit("finishbytes", FALSE, 1, 5, 3)}
Consumers == {"x1", "x2"}
L == INSTANCE RateLimit WITH
       Consumer <- Consumers, LimitSettings <- Limits, Rate <- 1, MB <- 2, IOSize <- 3,
       MaxPost <- 2,
       set <- s1, gen <- s2, total <- s3, c <- s4

-----------------------------------------------------------------------------
Rest7 == s7 = 0 /\ s8 = 0 /\ s9 = 0
Rest5 == s5 = 0 /\ s6 = 0 /\ Rest7
Rest3 == s3 = 0 /\ s4 = 0 /\ Rest5

FilebenchInit ==
  /\ Init
  /\ \/ which = "memory" /\ s1 = 0 /\ s2 = 0 /\ Rest3
     \/ which = "tree" /\ A!Init /\ Rest5
     \/ which = "vars" /\ V!Init /\ s9 = 0
     \/ which = "cvars" /\ C!Init /\ Rest7
     \/ which = "twister" /\ T!Init /\ s8 = 0 /\ s9 = 0
     \/ which = "random" /\ N!Init /\ Rest3
     \/ which = "populate" /\ P!Init /\ Rest7
     \/ which = "flowops" /\ F!Init
     \/ which = "fileio" /\ I!Init /\ s8 = 0 /\ s9 = 0
     \/ which = "limit" /\ L!Init /\ Rest5
  /\ which # "memory" => pool.type = "object"

FilebenchNext ==
  /\ UNCHANGED which
  /\ \/ which = "memory" /\ Next /\ UNCHANGED slots
     \/ /\ UNCHANGED vars
        /\ \/ which = "tree" /\ A!Next /\ UNCHANGED From5
           \/ which = "vars" /\ V!Next /\ UNCHANGED From9
           \/ which = "cvars" /\ C!Next /\ UNCHANGED From7
           \/ which = "twister" /\ T!Next /\ UNCHANGED From8
           \/ which = "random" /\ N!Next /\ UNCHANGED From3
           \/ which = "populate" /\ P!Next /\ UNCHANGED From7
           \/ which = "flowops" /\ F!Next
           \/ which = "fileio" /\ I!Next /\ UNCHANGED From8
           \/ which = "limit" /\ L!Next /\ UNCHANGED From5

FilebenchSpec == FilebenchInit /\ [][FilebenchNext]_benchVars

-----------------------------------------------------------------------------
(* fb_avl.c: whatever is inserted and removed, an infix walk yields the    *)
(* keys put in and not taken out, in order; balances and parent pointers   *)
(* are right; searches give the neighbours of any key; and                 *)
(* avl_destroy_nodes() returns every node once.                            *)
TreeIsBalancedSet ==
  which = "tree" =>
    A!TypeOK /\ A!TreeIsSet /\ A!Balanced /\ A!NeighboursFound /\ A!DestroyedOnce

(* A workload gets the values and the files its script asks for.  vars.c:  *)
(* a variable keeps its last value under its name and a descriptor yields  *)
(* it whenever made, as long as no composite flowop has locals and no      *)
(* assignment changes a type; one of a random variable keeps the           *)
(* distribution it was made with.  fb_cvar.c, cvars/: every process draws  *)
(* with the library of the variable's type (:376), within the bounds after *)
(* rounding (:405), from parameters all of which were taken, a triangle's  *)
(* mode between its bounds.                                                *)
(* cvars/mtwist/: the words drawn are the sequence of the seed, however    *)
(* drawn, saved and loaded (mts_refresh, mts_llrand), each process scales  *)
(* them by factors of its own, integers stay in their interval and are     *)
(* fair where masked (rds_iuniform), and an empirical distribution has the *)
(* weights it was given (rd_empirical_setup).                              *)
(* fb_random.c: a random I/O lies in its region, aligned to its size       *)
(* (:66-71), a table given is drawn from, faithfully but for a probability *)
(* of one, and a uniform number lies in its range.  fileset.c: a populated *)
(* fileset is a tree with just the files and leaf directories asked for,   *)
(* indexed without gaps, under paths of their own (if it has one kind),    *)
(* and uFS workers share it out.                                           *)
ValuesAsScripted ==
  /\ which = "vars" => V!TypeOK /\ V!GlobalsKept /\ V!LateBinding
  /\ which = "cvars" =>
       C!TypeOK /\ C!RightLibrary /\ C!WithinBounds /\ C!ParamsTaken /\ C!ModeBetween
  /\ which = "twister" => T!TypeOK /\ T!DrawsAreTheSequence /\ T!FactorsAreSet /\ T!UniformInInterval
  /\ which = "twister" /\ s1 = T!Unseeded /\ s4 = T!NoFile => T!MaskIsFair /\ T!EmpiricalIsExact
  /\ which = "random" =>
       N!TypeOK /\ N!FitsRegion /\ N!TableIsUsed /\ N!TableFaithful /\ N!UniformInRange
  /\ which = "populate" =>
       P!TypeOK /\ P!PopulatedExactly /\ P!TreeIsFilled /\ P!PathsDistinct /\ P!WorkersBalanced

(* flowop.c, stats.c: every thread runs the operations the script asks     *)
(* for, in order and fo_iters times, on flowops of its own and of the type *)
(* asked for; a search of its list finds its own; the global list holds    *)
(* every flowop that is not freed, once, and no other, also while several  *)
(* threads delete (:660); and statistics are exact when no operation ends  *)
(* while they are added up.                                                *)
FlowopsMirrorScript ==
  which = "flowops" =>
    /\ F!TypeOK /\ F!RuntimeMirrorsScript /\ F!RightType /\ F!FindsOwn /\ F!ListIntact
    /\ F!SnapshotExact

(* A limiter that returns has paid for everything counted since its first  *)
(* call (flowop_library.c:871-875); with a target, but for what the target *)
(* had counted when run or psrun cleared the statistics (stats_clear) and  *)
(* one operation more. Threads overshoot the count at which they finish by *)
(* less than one operation each (flowoplib_finishoncount, without target). *)
LimitsHold ==
  which = "limit" => L!TypeOK /\ L!RateHeld /\ L!OvershootBounded

(* The file flowops of a thread (flowop_library.c, fb_localfs.c).  No      *)
(* descriptor is leaked or used by two slots; entries and open counts are  *)
(* those of the slots, unless one was deleted through; random I/O stays    *)
(* within the working set and no transfer runs past its buffer; whole      *)
(* files are written whole and appends go to the end; the buffer of a      *)
(* write in progress lives, for constant I/O sizes; sequential reads start *)
(* over at the end of the file; and aiowait forgets no write in progress.  *)
FileFlowopsExact ==
  /\ [](which = "fileio" =>
          /\ I!TypeOK /\ I!SlotsOwnDescriptors /\ I!EntryIsOpenFile /\ I!CountsAreSlots
          /\ I!WithinWorkingSet /\ I!BufferFits /\ I!WholeFileWritten /\ I!AppendsAtEnd
          /\ I!AioBufferLive)
  /\ [][which = "fileio" => I!ReadStep /\ I!KeepsRunning]_benchVars
=============================================================================
