--------------------------- MODULE FilesetPopulate ---------------------------
(***************************************************************************)
(* The tree of a fileset before anything is created on disk                *)
(* (fileset_populate in fileset.c), and the uFS workers that filesets and  *)
(* threads are assigned to (fileset_createsets, flowop_start).             *)
(*                                                                         *)
(* fileset_populate_subdir calls itself: stack holds a frame for each call *)
(* in progress.  Depth and width are drawn anew for every directory; a     *)
(* width is given by the number of turns it allows, the draw rounded up.   *)
(* Shared memory ends a call early when entries or path strings run out.   *)
(***************************************************************************)
EXTENDS Integers, Sequences, FiniteSets, FiniteSetsExt

CONSTANTS
  Asked,    \* filesets: file and leafdir are the numbers asked for, depths
            \* and widths what may be drawn
  Placed,   \* uFS runs: number of applications and workers, and the ratio
  Entries,  \* filesetentries that shared memory has room for
  Paths     \* path strings that it has room for

VARIABLES
  asked,    \* the fileset
  node,     \* its filesetentries, in the order of their creation
  stack,    \* the calls of fileset_populate_subdir in progress
  real,     \* fs_realfiles, fs_realleafdirs
  idle,     \* fs_idle_files, fs_idle_leafdirs, fs_idle_dirs
  status    \* what fileset_populate has returned

vars == <<asked, node, stack, real, idle, status>>

Leaf == {"file", "leafdir"}
Kind == Leaf \cup {"dir"}
Root == 1
Top == stack[Len(stack)]
Callers == SubSeq(stack, 1, Len(stack) - 1)

Init ==
  /\ asked \in Asked
  /\ node = <<>> /\ stack = <<>> /\ status = "defined"
  /\ real = [k \in Leaf |-> 0]
  /\ idle = [k \in Kind |-> 0]

-----------------------------------------------------------------------------
(* ipc_malloc or ipc_pathalloc has no room: every call returns the error.  *)
Fails == stack' = <<>> /\ status' = "error"

(* The index of an entry is the number of idle entries of its kind.        *)
Entry(kind, parent, serial) ==
  [kind |-> kind, parent |-> parent, serial |-> serial, index |-> idle[kind]]

Drawn(n) == IF n = 0 THEN 1 ELSE n

(* A call of fileset_populate_subdir up to its loops; callers is the stack *)
(* it is made from.  A directory without a path stays outside the lists.   *)
PopulateSubdir(callers, parent, serial, depth) ==
  IF Len(node) = Entries THEN Fails /\ UNCHANGED <<node, idle>>
  ELSE /\ idle' = [idle EXCEPT !["dir"] = @ + 1]
       /\ IF Len(node) = Paths THEN Fails /\ UNCHANGED node
          ELSE /\ node' = Append(node, Entry("dir", parent, serial))
               /\ \E d \in asked.depths, w \in asked.widths :
                    stack' = Append(callers,
                      [dir |-> Len(node) + 1, loop |-> "file", i |-> 1, depth |-> depth,
                       leaf |-> depth >= Drawn(d), width |-> Drawn(w)])
               /\ status' = "populating"

Populate ==
  /\ status = "defined"
  /\ PopulateSubdir(<<>>, 0, 1, 1)
  /\ UNCHANGED <<asked, real>>

(* The condition of both loops: the root goes on until all are there.      *)
More(f) == (f.dir = Root \/ f.i <= f.width) /\ real[f.loop] < asked[f.loop]

FillsItself(f) == f.dir # Root /\ f.leaf

(* fileset_populate_file and fileset_populate_leafdir: the entry is on its *)
(* lists before it has a path.                                             *)
PopulateLeaf ==
  /\ stack # <<>> /\ More(Top) /\ FillsItself(Top)
  /\ IF Len(node) = Entries THEN Fails /\ UNCHANGED <<node, idle, real>>
     ELSE /\ node' = Append(node, Entry(Top.loop, Top.dir, Top.i))
          /\ idle' = [idle EXCEPT ![Top.loop] = @ + 1]
          /\ IF Len(node) = Paths THEN Fails /\ UNCHANGED real
             ELSE /\ real' = [real EXCEPT ![Top.loop] = @ + 1]
                  /\ stack' = [stack EXCEPT ![Len(stack)].i = @ + 1]
                  /\ UNCHANGED status
  /\ UNCHANGED asked

Descend ==
  /\ stack # <<>> /\ More(Top) /\ ~FillsItself(Top)
  /\ PopulateSubdir([stack EXCEPT ![Len(stack)].i = @ + 1], Top.dir, Top.i, Top.depth + 1)
  /\ UNCHANGED <<asked, real>>

(* The second loop counts from one again.                                  *)
NextLoop ==
  /\ stack # <<>> /\ ~More(Top) /\ Top.loop = "file"
  /\ stack' = [stack EXCEPT ![Len(stack)].loop = "leafdir", ![Len(stack)].i = 1]
  /\ UNCHANGED <<asked, node, real, idle, status>>

Return ==
  /\ stack # <<>> /\ ~More(Top) /\ Top.loop = "leafdir"
  /\ stack' = Callers
  /\ status' = IF Callers = <<>> THEN "ok" ELSE status
  /\ UNCHANGED <<asked, node, real, idle>>

Next == Populate \/ PopulateLeaf \/ Descend \/ NextLoop \/ Return
Spec == Init /\ [][Next]_vars

-----------------------------------------------------------------------------
(* A loop in fileset_createsets and in flowop_start (VAR builds): how many *)
(* of the applications the first worker gets, so that the ratio to the     *)
(* share of each other worker comes nearest to num/den.  There is no ratio *)
(* to a share of none.                                                     *)
Share(apps, workers, i) == (apps - i) \div (workers - 1)

Gap(apps, workers, ratio, i) ==
  LET share == Share(apps, workers, i)
      g == i * ratio.den - ratio.num * share
  IN  [num |-> IF g < 0 THEN -g ELSE g, den |-> ratio.den * share]

Below(p, q) == p.num * q.den < q.num * p.den

OptimalMasterCount(apps, workers, ratio) ==
  LET best[n \in 0 .. apps] ==
        IF n = 0 THEN [diff |-> ratio, count |-> 0]
        ELSE LET gap == Gap(apps, workers, ratio, n - 1)
             IN  IF gap.den > 0 /\ Below(gap, best[n - 1].diff)
                   THEN [diff |-> gap, count |-> n - 1]
                   ELSE best[n - 1]
  IN  best[apps].count

(* The worker of application k: of its fileset and of its threads.         *)
WorkerOf(k, apps, workers, ratio) ==
  IF workers = 1 \/ k < OptimalMasterCount(apps, workers, ratio) THEN 0
  ELSE (k % (workers - 1)) + 1

-----------------------------------------------------------------------------
OfKind(k) == {n \in DOMAIN node : node[n].kind = k}
Dirs == OfKind("dir")
In(d) == {n \in DOMAIN node : node[n].parent = d}

TypeOK ==
  /\ status \in {"defined", "populating", "ok", "error"}
  /\ \A n \in DOMAIN node :
       node[n] \in [kind : Kind, parent : 0 .. Len(node), serial : Nat \ {0}, index : Nat]
  /\ \A j \in DOMAIN stack : stack[j].dir \in Dirs /\ stack[j].loop \in Leaf
  /\ idle \in [Kind -> Nat] /\ real \in [Leaf -> Nat]

(* fileset_populate returns 0 with the files and leaf directories asked    *)
(* for, no more and no fewer; the indexes of each kind are 0, 1, 2, ... as *)
(* the picks by index and by rotation expect; and an entry is idle for     *)
(* every one there is, however often directories were given up half full.  *)
PopulatedExactly ==
  /\ \A k \in Leaf : real[k] <= asked[k]
  /\ \A k \in Kind :
       {node[n].index : n \in OfKind(k)} = 0 .. Cardinality(OfKind(k)) - 1
  /\ status = "ok" =>
       /\ \A k \in Leaf : real[k] = asked[k] /\ Cardinality(OfKind(k)) = asked[k]
       /\ \A k \in Kind : idle[k] = Cardinality(OfKind(k))

(* The entries form a tree under the root: an entry comes after its        *)
(* directory, files and leaf directories lie in directories without        *)
(* subdirectories, no directory but the root is empty, and the tree is no  *)
(* deeper than the deepest draw.                                           *)
TreeIsFilled ==
  /\ \A n \in DOMAIN node \ {Root} : node[n].parent \in Dirs /\ node[n].parent < n
  /\ Dirs # {} => Root \in Dirs /\ node[Root].parent = 0
  /\ \A d \in Dirs : In(d) \subseteq Dirs \/ (d # Root /\ In(d) \cap Dirs = {})
  /\ status = "ok" => \A d \in Dirs \ {Root} : In(d) # {}
  /\ Len(stack) <= Max(asked.depths \cup {2})

(* No two entries of a fileset of files alone, or of leaf directories      *)
(* alone, share a path.                                                    *)
PathsDistinct ==
  asked["file"] = 0 \/ asked["leafdir"] = 0 =>
    \A m, n \in DOMAIN node :
      node[m].parent = node[n].parent /\ node[m].serial = node[n].serial => m = n

(* uFS: every application is given a worker there is, and no other number  *)
(* of applications at the first worker comes nearer to the ratio.          *)
WorkersBalanced ==
  status = "defined" =>
    \A p \in Placed :
      LET c == OptimalMasterCount(p.apps, p.workers, p.ratio)
      IN  /\ \A k \in 0 .. p.apps - 1 :
               WorkerOf(k, p.apps, p.workers, p.ratio) \in 0 .. p.workers - 1
          /\ \A i \in 0 .. p.apps - 1 :
               p.workers > 1 /\ Share(p.apps, p.workers, i) > 0 =>
                 ~Below(Gap(p.apps, p.workers, p.ratio, i), Gap(p.apps, p.workers, p.ratio, c))

(* With both, the loops give the same names twice, and creating the leaf   *)
(* directories fails.                                                      *)
AllPathsDistinct ==
  \A m, n \in DOMAIN node :
    node[m].parent = node[n].parent /\ node[m].serial = node[n].serial => m = n
=============================================================================
