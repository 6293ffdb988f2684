---------------------------- MODULE FilesetProofs ----------------------------
(***************************************************************************)
(* Entries of a fileset have one owner at a time, for any number of worker *)
(* threads, entries, flowop lists and allocation threads, and whichever    *)
(* file-system calls fail; and the trees agree with the disk if none does. *)
(* fse_open_cnt covers the open descriptors, deletefile takes no file from *)
(* under another thread, and the creation ends with everything in place.   *)
(***************************************************************************)
EXTENDS Fileset, FiniteSetTheorems, WellFoundedInduction, TLAPS

(* Three numbers have a greatest.                                          *)
LEMMA GreatestOfThree ==
  ASSUME NEW x \in Nat, NEW y \in Nat, NEW z \in Nat
  PROVE  Max({x, y, z}) \in Nat
<1>1. CASE x >= y /\ x >= z
  <2>1. \A w \in {x, y, z} : x >= w
    BY <1>1
  <2>2. \E v \in {x, y, z} : \A w \in {x, y, z} : v >= w
    BY Zenon, <2>1
  <2> QED BY Zenon, <2>2 DEF Max
<1>2. CASE y >= x /\ y >= z
  <2>1. \A w \in {x, y, z} : y >= w
    BY <1>2
  <2>2. \E v \in {x, y, z} : \A w \in {x, y, z} : v >= w
    BY Zenon, <2>1
  <2> QED BY Zenon, <2>2 DEF Max
<1>3. CASE z >= x /\ z >= y
  <2>1. \A w \in {x, y, z} : z >= w
    BY <1>3
  <2>2. \E v \in {x, y, z} : \A w \in {x, y, z} : v >= w
    BY Zenon, <2>1
  <2> QED BY Zenon, <2>2 DEF Max
<1> QED BY <1>1, <1>2, <1>3

(* The entries of a fileset are finitely many pairs of kind and index.     *)
LEMMA EntryShape ==
  /\ IsFiniteSet(Entry)
  /\ \A e \in Entry : e[1] \in Kind /\ e[2] \in Nat
<1> DEFINE C == {Count[k] : k \in Kind}
           m == Max(C)
<1>1. Count["file"] \in Nat /\ Count["leafdir"] \in Nat /\ Count["dir"] \in Nat
      /\ C = {Count["file"], Count["leafdir"], Count["dir"]}
  BY Zenon, FilesetAssumption DEF Kind
<1>3. m \in Nat
  BY Zenon, <1>1, GreatestOfThree
<1> HIDE DEF m
<1>4. IsFiniteSet(Kind) /\ IsFiniteSet(0 .. m)
  <2>1. IsFiniteSet({}) /\ IsFiniteSet({"file"})
    BY Zenon, FS_EmptySet, FS_Singleton
  <2>2. IsFiniteSet({"file"} \cup {"leafdir"})
    BY Zenon, <2>1, FS_AddElement
  <2>3. IsFiniteSet(({"file"} \cup {"leafdir"}) \cup {"dir"})
    BY Zenon, <2>2, FS_AddElement
  <2>4. Kind = ({"file"} \cup {"leafdir"}) \cup {"dir"}
    BY Zenon DEF Kind
  <2> QED BY <1>3, <2>3, <2>4, FS_Interval
<1>5. IsFiniteSet(Kind \X (0 .. m))
  BY Zenon, <1>4, FS_Product
<1>6. Entry = {e \in Kind \X (0 .. m) : e[2] < Count[e[1]]}
  BY Zenon DEF Entry, m
<1>7. IsFiniteSet(Entry)
  BY Zenon, <1>5, <1>6, FS_Subset
<1>8. \A e \in Entry : e[1] \in Kind /\ e[2] \in Nat
  BY <1>3, <1>6
<1> QED BY Zenon, <1>7, <1>8

(* The search finds an entry of the tree it is given.                      *)
LEMMA FoundEntry ==
  ASSUME NEW tree, tree \subseteq Entry, tree # {}, NEW i
  PROVE  FindEntry(tree, i) \in tree
<1> DEFINE above == {e \in tree : e[2] >= i}
           from == IF above = {} THEN tree ELSE above
           R == {ss \in Nat \X Nat : ss[1] < ss[2]}
           X == {e[2] : e \in from}
<1>1. from \subseteq tree /\ from # {}
  BY Zenon
<1>2. \A e \in from : e[2] \in Nat
  BY Zenon, <1>1, EntryShape
<1>3. X \subseteq Nat /\ X # {}
  BY Zenon, <1>1, <1>2
<1>4. IsWellFoundedOn(R, Nat)
  <2>1. OpToRel(<, Nat) = R
    BY Zenon DEF OpToRel
  <2> QED BY Zenon, <2>1, NatLessThanWellFounded
<1> HIDE DEF R, X
<1>5. PICK x \in X : \A y \in X : ~(<<y, x>> \in R)
  BY Zenon, <1>3, <1>4, WFMin
<1> USE DEF R, X
<1>6. PICK e \in from : e[2] = x
  BY Zenon
<1>7. \A f \in from : e[2] <= f[2]
  <2> TAKE f \in from
  <2>1. f[2] \in X /\ f[2] \in Nat /\ e[2] \in Nat
    BY Zenon, <1>2
  <2>2. ~(<<f[2], e[2]>> \in R)
    BY Zenon, <1>5, <1>6, <2>1
  <2>3. ~(f[2] < e[2])
    BY Zenon, <2>1, <2>2
  <2> QED BY <2>1, <2>3
<1> HIDE DEF R, X, from
<1>8. (CHOOSE g \in from : \A f \in from : g[2] <= f[2]) \in from
  BY Zenon, <1>6, <1>7
<1>9. FindEntry(tree, i) = CHOOSE g \in from : \A f \in from : g[2] <= f[2]
  BY Zenon DEF FindEntry, from
<1> QED BY Zenon, <1>1, <1>8, <1>9

-----------------------------------------------------------------------------
(***************************************************************************)
(* Ownership.  Shape is what the argument needs of the types.              *)
(***************************************************************************)
File == {e \in Entry : e[1] = "file"}
OtherPc == {"next", "stopped", "pickwait", "busywait", "files", "leafdirs", "drain", "done",
            "failed"}
Shape ==
  /\ pc \in [Actor -> Holding \cup OtherPc]
  /\ cur \in [Actor -> Entry \cup {None}]
  /\ allocs \in [Entry -> {"none", "writing", "ok", "error"}]
  /\ busy \subseteq Entry
  /\ script \in [Thread -> Script]
  /\ ip \in [Thread -> Nat] /\ \A t \in Thread : ip[t] \in 1 .. Len(script[t])
  /\ tfFse \in [Thread -> [Fd -> File \cup {None}]]
  /\ \A t \in Thread : pc[t] = "busywait" => cur[t] \in File

Holds(a) == pc[a] \in Holding
Owned ==
  /\ \A a \in Actor : Holds(a) => cur[a] \in busy /\ allocs[cur[a]] # "writing"
  /\ \A a, b \in Actor : Holds(a) /\ Holds(b) /\ cur[a] = cur[b] => a = b
  /\ \A e \in Entry : allocs[e] = "writing" => e \in busy
  /\ \A e \in busy : allocs[e] = "writing" \/ \E a \in Actor : Holds(a) /\ cur[a] = e

(* An actor becomes the owner of an entry that is not busy.                *)
LEMMA TakesEntry ==
  ASSUME Shape, Owned, NEW a \in Actor, NEW e \in Entry, e \notin busy, ~Holds(a),
         NEW h \in Holding, busy' = busy \cup {e}, cur' = [cur EXCEPT ![a] = e],
         pc' = [pc EXCEPT ![a] = h], allocs' = allocs
  PROVE  Owned'
<1>1. /\ \A b \in Actor : pc'[b] = IF b = a THEN h ELSE pc[b]
      /\ \A b \in Actor : cur'[b] = IF b = a THEN e ELSE cur[b]
  BY Zenon DEF Shape
<1>2. \A b \in Actor : Holds(b)' <=> (b = a \/ Holds(b))
  BY Zenon, <1>1 DEF Holds
<1>3. allocs[e] # "writing"
  BY Zenon DEF Owned
<1>4. \A b \in Actor : Holds(b) => b # a /\ cur[b] # e
  BY Zenon DEF Owned
<1>5. \A b \in Actor : Holds(b)' => cur'[b] \in busy' /\ allocs'[cur'[b]] # "writing"
  BY <1>1, <1>2, <1>3 DEF Owned
<1>6. \A b, c \in Actor : Holds(b)' /\ Holds(c)' /\ cur'[b] = cur'[c] => b = c
  BY <1>1, <1>2, <1>4 DEF Owned
<1>7. \A f \in Entry : allocs'[f] = "writing" => f \in busy'
  BY Zenon DEF Owned
<1>8. \A f \in busy' : allocs'[f] = "writing" \/ \E b \in Actor : Holds(b)' /\ cur'[b] = f
  <2> TAKE f \in busy'
  <2>1. CASE f = e
    BY Zenon, <1>1, <1>2, <2>1
  <2>2. CASE f \in busy
    <3>1. CASE allocs[f] = "writing"
      BY Zenon, <3>1
    <3>2. CASE \E b \in Actor : Holds(b) /\ cur[b] = f
      BY Zenon, <1>1, <1>2, <1>4, <3>2
    <3> QED BY Zenon, <2>2, <3>1, <3>2 DEF Owned
  <2> QED BY Zenon, <2>1, <2>2
<1> QED BY Zenon, <1>5, <1>6, <1>7, <1>8 DEF Owned

(* An actor gives its entry up.                                            *)
LEMMA GivesEntry ==
  ASSUME Shape, Owned, NEW a \in Actor, Holds(a), NEW p, p \notin Holding,
         busy' = busy \ {cur[a]}, cur' = cur, pc' = [pc EXCEPT ![a] = p], allocs' = allocs
  PROVE  Owned'
<1>1. \A b \in Actor : pc'[b] = IF b = a THEN p ELSE pc[b]
  BY Zenon DEF Shape
<1>2. \A b \in Actor : Holds(b)' <=> (b # a /\ Holds(b))
  BY Zenon, <1>1 DEF Holds
<1>3. \A b \in Actor : Holds(b)' => cur'[b] \in busy' /\ allocs'[cur'[b]] # "writing"
  BY Zenon, <1>2 DEF Owned
<1>4. \A b, c \in Actor : Holds(b)' /\ Holds(c)' /\ cur'[b] = cur'[c] => b = c
  BY Zenon, <1>2 DEF Owned
<1>5. \A f \in Entry : allocs'[f] = "writing" => f \in busy'
  BY Zenon DEF Owned
<1>6. \A f \in busy' : allocs'[f] = "writing" \/ \E b \in Actor : Holds(b)' /\ cur'[b] = f
  BY Zenon, <1>2 DEF Owned
<1> QED BY Zenon, <1>3, <1>4, <1>5, <1>6 DEF Owned

(* Nothing changes hands.                                                  *)
LEMMA KeepsEntries ==
  ASSUME Owned, UNCHANGED busy,
         \A e \in Entry : allocs'[e] = "writing" <=> allocs[e] = "writing",
         \A a \in Actor : Holds(a)' <=> Holds(a),
         \A a \in Actor : Holds(a) => cur'[a] = cur[a], busy \subseteq Entry
  PROVE  Owned'
<1>1. \A b \in Actor : Holds(b)' => cur'[b] \in busy' /\ allocs'[cur'[b]] # "writing"
  BY DEF Owned
<1>2. \A b, c \in Actor : Holds(b)' /\ Holds(c)' /\ cur'[b] = cur'[c] => b = c
  BY DEF Owned
<1>3. \A f \in Entry : allocs'[f] = "writing" => f \in busy'
  BY Zenon DEF Owned
<1>4. \A f \in busy' : allocs'[f] = "writing" \/ \E b \in Actor : Holds(b)' /\ cur'[b] = f
  BY Zenon DEF Owned
<1> QED BY Zenon, <1>1, <1>2, <1>3, <1>4 DEF Owned

(***************************************************************************)
(* The idle counts.                                                        *)
(***************************************************************************)
Loose(k) == {e \in Entry : e[1] = k /\ e \notin busy}
IdleInv ==
  /\ idle \in [Kind -> Int]
  /\ \A k \in Kind : idle[k] >= Cardinality(Loose(k))

(* What is not busy is finite.                                             *)
LEMMA LooseFinite == \A k : IsFiniteSet(Loose(k)) /\ Cardinality(Loose(k)) \in Nat
BY Zenon, EntryShape, FS_Subset, FS_CardinalityType DEF Loose

(* An entry becomes busy, and its count goes down by one or not at all.    *)
LEMMA TakesIdle ==
  ASSUME IdleInv, NEW e \in Entry, e \notin busy, busy' = busy \cup {e},
         idle' = idle \/ idle' = [idle EXCEPT ![e[1]] = @ - 1]
  PROVE  IdleInv'
<1>1. e[1] \in Kind
  BY Zenon, EntryShape
<1>2. ASSUME NEW k \in Kind, k # e[1] PROVE Loose(k)' = Loose(k) /\ idle'[k] = idle[k]
  BY Zenon, <1>1, <1>2 DEF Loose, IdleInv
<1>3. Loose(e[1])' = Loose(e[1]) \ {e} /\ e \in Loose(e[1])
  BY Zenon DEF Loose
<1>4. Cardinality(Loose(e[1])') = Cardinality(Loose(e[1])) - 1
  BY Zenon, <1>3, LooseFinite, FS_RemoveElement
<1>5. idle'[e[1]] >= idle[e[1]] - 1 /\ idle' \in [Kind -> Int]
  BY <1>1 DEF IdleInv
<1>6. idle'[e[1]] >= Cardinality(Loose(e[1])')
  BY <1>1, <1>4, <1>5, LooseFinite DEF IdleInv
<1>7. \A k \in Kind : idle'[k] >= Cardinality(Loose(k)')
  BY Zenon, <1>2, <1>6 DEF IdleInv
<1> QED BY Zenon, <1>5, <1>7 DEF IdleInv

(* fileset_unbusy counts its entry as idle again.                          *)
LEMMA GivesIdle ==
  ASSUME IdleInv, NEW e \in Entry, busy' = busy \ {e},
         idle' = IF e \in busy THEN [idle EXCEPT ![e[1]] = @ + 1] ELSE idle
  PROVE  IdleInv'
<1>1. e[1] \in Kind
  BY Zenon, EntryShape
<1>2. CASE e \notin busy
  <2>1. busy' = busy /\ idle' = idle
    BY Zenon, <1>2
  <2>2. \A k : Loose(k)' = Loose(k)
    BY Zenon, <2>1 DEF Loose
  <2> QED BY Zenon, <2>1, <2>2 DEF IdleInv
<1>3. CASE e \in busy
  <2>1. ASSUME NEW k \in Kind, k # e[1] PROVE Loose(k)' = Loose(k) /\ idle'[k] = idle[k]
    BY Zenon, <1>1, <1>3, <2>1 DEF Loose, IdleInv
  <2>2. Loose(e[1])' = Loose(e[1]) \cup {e} /\ e \notin Loose(e[1])
    BY Zenon, <1>3 DEF Loose
  <2>3. Cardinality(Loose(e[1])') = Cardinality(Loose(e[1])) + 1
    BY Zenon, <2>2, LooseFinite, FS_AddElement
  <2>4. idle'[e[1]] = idle[e[1]] + 1 /\ idle' \in [Kind -> Int] /\ idle[e[1]] \in Int
    BY <1>1, <1>3 DEF IdleInv
  <2>5. idle'[e[1]] >= Cardinality(Loose(e[1])')
    BY <1>1, <2>3, <2>4, LooseFinite DEF IdleInv
  <2>6. \A k \in Kind : idle'[k] >= Cardinality(Loose(k)')
    BY Zenon, <2>1, <2>5 DEF IdleInv
  <2> QED BY Zenon, <2>4, <2>6 DEF IdleInv
<1> QED BY Zenon, <1>2, <1>3

(* Nothing becomes busy or idle.                                           *)
LEMMA KeepsIdle ==
  ASSUME IdleInv, UNCHANGED <<busy, idle>>
  PROVE  IdleInv'
<1>1. \A k : Loose(k)' = Loose(k)
  BY Zenon DEF Loose
<1> QED BY Zenon, <1>1 DEF IdleInv

(***************************************************************************)
(* One lemma per piece of a flowop or of the creation.                     *)
(***************************************************************************)
OwnInv == Shape /\ Owned /\ IdleInv

(* The current flowop is one of the thread's list, and so is the next.     *)
LEMMA CurrentFlowop ==
  ASSUME Shape, NEW t \in Thread
  PROVE  CurOp(t) \in Flowop /\ Position(t) \in 1 .. Len(script[t])
<1>1. script[t] \in Seq(Flowop) /\ ip[t] \in 1 .. Len(script[t]) /\ Len(script[t]) \in Nat
  BY FilesetAssumption DEF Shape
<1>2. CurOp(t) \in Flowop
  BY <1>1 DEF CurOp
<1> DEFINE n == Len(script[t])
<1>3. n \in Nat \ {0} /\ ip[t] \in Nat
  BY <1>1
<1> HIDE DEF n
<1>4. ip[t] % n \in 0 .. (n - 1)
  BY <1>3
<1>5. (ip[t] % n) + 1 \in 1 .. n
  BY <1>3, <1>4
<1> QED BY Zenon, <1>2, <1>5 DEF Position, n

(* What Finish leaves of the shape.                                        *)
LEMMA FinishShape ==
  ASSUME Shape, NEW t \in Thread, NEW s, Finish(t, s), script' = script
  PROVE  /\ pc' = [pc EXCEPT ![t] = IF s = "ok" THEN "next"
                                    ELSE IF s = "leak" THEN "leaked" ELSE "stopped"]
         /\ pc' \in [Actor -> Holding \cup OtherPc]
         /\ ip' \in [Thread -> Nat] /\ \A u \in Thread : ip'[u] \in 1 .. Len(script'[u])
<1>1. pc' = [pc EXCEPT ![t] = IF s = "ok" THEN "next"
                              ELSE IF s = "leak" THEN "leaked" ELSE "stopped"]
  BY Zenon DEF Finish
<1>2. pc' \in [Actor -> Holding \cup OtherPc]
  BY Zenon, <1>1 DEF Shape, Holding, OtherPc
<1>3. ip' = [ip EXCEPT ![t] = IF s = "ok" THEN Position(t) ELSE ip[t]]
  BY Zenon DEF Finish
<1>4. Position(t) \in 1 .. Len(script[t]) /\ Len(script[t]) \in Nat /\ Position(t) \in Nat
  BY CurrentFlowop, FilesetAssumption DEF Shape
<1>5. ip' \in [Thread -> Nat] /\ \A u \in Thread : ip'[u] \in 1 .. Len(script'[u])
  BY Zenon, <1>3, <1>4 DEF Shape
<1> QED BY Zenon, <1>1, <1>2, <1>5

(* fileset_pick hands out an entry of the right kind that is not busy.     *)
LEMMA PickedEntry ==
  ASSUME Shape, NEW a \in Actor, NEW kind, NEW which, NEW i, PickEntry(a, kind, which, i)
  PROVE  \E e \in Entry : /\ e \notin busy /\ e[1] = kind /\ place[e] = which
                          /\ busy' = busy \cup {e} /\ cur' = [cur EXCEPT ![a] = e]
                          /\ idle' = [idle EXCEPT ![e[1]] = @ - 1]
<1> DEFINE tree == Tree(kind, which)
           e == FindEntry(tree \ busy, FindEntry(tree, i)[2])
<1>1. tree \ busy # {} /\ tree \ busy \subseteq Entry
  BY Zenon DEF PickEntry, Tree
<1>2. e \in tree \ busy
  BY Zenon, <1>1, FoundEntry
<1>3. e \in Entry /\ e[1] = kind /\ place[e] = which /\ e \notin busy
  BY Zenon, <1>2 DEF Tree
<1>4. busy' = busy \cup {e} /\ cur' = [cur EXCEPT ![a] = e] /\ idle' = [idle EXCEPT ![kind] = @ - 1]
  BY Zenon DEF PickEntry
<1> HIDE DEF e
<1> QED BY Zenon, <1>3, <1>4

(* The shape after a step that moves one actor.                            *)
LEMMA MoveShape ==
  ASSUME Shape, NEW a \in Actor, NEW p \in Holding \cup OtherPc, pc' = [pc EXCEPT ![a] = p],
         NEW e \in Entry \cup {None}, cur' = cur \/ cur' = [cur EXCEPT ![a] = e],
         busy' \subseteq Entry, UNCHANGED <<script, ip>>,
         tfFse' \in [Thread -> [Fd -> File \cup {None}]],
         allocs' \in [Entry -> {"none", "writing", "ok", "error"}],
         p = "busywait" => cur'[a] \in File
  PROVE  Shape'
<1>1. \A b \in Actor : pc'[b] = IF b = a THEN p ELSE pc[b]
  BY Zenon DEF Shape
<1>2. \A b \in Actor : b # a => cur'[b] = cur[b]
  BY Zenon DEF Shape
<1>3. \A t \in Thread : pc'[t] = "busywait" => cur'[t] \in File
  BY Zenon, <1>1, <1>2 DEF Shape, Actor
<1> QED BY Zenon, <1>3 DEF Shape

(* fileset_pick on behalf of a thread.                                     *)
LEMMA PickOwned ==
  ASSUME OwnInv, NEW t \in Thread, pc[t] \in {"next", "pickwait"}, Pick(t),
         UNCHANGED <<script, allocs>>
  PROVE  OwnInv'
<1> DEFINE f == CurOp(t)
           r == PickOf(f.op)
<1>0. Shape /\ Owned /\ IdleInv /\ t \in Actor /\ ~Holds(t) /\ f \in Flowop
  BY Zenon, CurrentFlowop DEF OwnInv, Actor, Holds, Holding
<1>t. /\ busy \subseteq Entry /\ tfFse \in [Thread -> [Fd -> File \cup {None}]]
      /\ allocs' \in [Entry -> {"none", "writing", "ok", "error"}]
      /\ pc \in [Actor -> Holding \cup OtherPc] /\ cur \in [Actor -> Entry \cup {None}]
  BY Zenon, <1>0 DEF Shape
<1>1. CASE /\ pc' = [pc EXCEPT ![t] = "pickwait"]
           /\ UNCHANGED <<entryVars, cur, rotor, tfFse, ip, ops, abort>>
  <2>1. UNCHANGED <<busy, idle, cur, tfFse, ip>>
    BY Zenon, <1>1 DEF entryVars
  <2>2. "pickwait" \in OtherPc /\ "pickwait" \notin Holding
    BY Zenon DEF OtherPc, Holding
  <2>3. Shape'
    <3>1. cur[t] \in Entry \cup {None}
      BY Zenon, <1>0, <1>t
    <3> QED BY Zenon, <1>0, <1>1, <1>t, <2>1, <2>2, <3>1, MoveShape
  <2>4. \A a \in Actor : Holds(a)' <=> Holds(a)
    BY Zenon, <1>0, <1>1, <1>t, <2>2 DEF Holds
  <2>5. Owned'
    BY Zenon, <1>0, <1>t, <2>1, <2>4, KeepsEntries
  <2> QED BY Zenon, <1>0, <2>1, <2>3, <2>5, KeepsIdle DEF OwnInv
<1>2. CASE /\ \E j \in (IF f.indexed THEN 0 .. Count[r[1]] ELSE {rotor[r]}) : PickEntry(t, r[1], r[2], j)
           /\ pc' = [pc EXCEPT ![t] = "fscall"]
           /\ tfFse' = IF f.op \in {"open", "io", "create"}
                       THEN [tfFse EXCEPT ![t][f.fd] = cur'[t]] ELSE tfFse
           /\ UNCHANGED <<ip, ops, abort>>
  <2>1. PICK e \in Entry : /\ e \notin busy /\ e[1] = r[1]
                           /\ busy' = busy \cup {e} /\ cur' = [cur EXCEPT ![t] = e]
                           /\ idle' = [idle EXCEPT ![e[1]] = @ - 1]
    BY <1>0, <1>2, PickedEntry
  <2>2. "fscall" \in Holding /\ cur'[t] = e
    BY Zenon, <1>0, <1>t, <2>1 DEF Holding
  <2>3. Owned'
    BY Zenon, <1>0, <1>2, <2>1, <2>2, TakesEntry
  <2>4. IdleInv'
    BY Zenon, <1>0, <2>1, TakesIdle
  <2>5. tfFse' \in [Thread -> [Fd -> File \cup {None}]]
    <3>1. f.op \in {"open", "io", "create"} => e \in File
      BY Zenon, <2>1 DEF PickOf, File
    <3>2. f.fd \in Fd
      BY Zenon, <1>0 DEF Flowop
    <3> HIDE DEF f
    <3> QED BY Zenon, <1>2, <1>t, <2>2, <3>1, <3>2
  <2>6. Shape'
    <3>1. busy' \subseteq Entry /\ UNCHANGED <<script, ip>> /\ pc' = [pc EXCEPT ![t] = "fscall"]
      BY Zenon, <1>t, <1>2, <2>1
    <3>2. cur' = [cur EXCEPT ![t] = e] /\ e \in Entry \cup {None} /\ "fscall" # "busywait"
      BY Zenon, <2>1
    <3>3. "fscall" \in Holding \cup OtherPc
      BY Zenon, <2>2
    <3> QED BY ONLY Zenon, <1>0, <1>t, <2>5, <3>1, <3>2, <3>3, MoveShape
  <2> QED BY Zenon, <2>3, <2>4, <2>6 DEF OwnInv
<1>3. CASE /\ Finish(t, IF f.op = "listdir" THEN "error" ELSE "norsc")
           /\ UNCHANGED <<entryVars, cur, tfFse>>
  <2>1. /\ pc' = [pc EXCEPT ![t] = "stopped"]
        /\ pc' \in [Actor -> Holding \cup OtherPc]
        /\ ip' \in [Thread -> Nat] /\ \A u \in Thread : ip'[u] \in 1 .. Len(script'[u])
    BY <1>0, <1>3, FinishShape
  <2>2. UNCHANGED <<busy, idle, cur, tfFse>>
    BY Zenon, <1>3 DEF entryVars
  <2>3. \A a \in Actor : pc'[a] = IF a = t THEN "stopped" ELSE pc[a]
    BY Zenon, <1>t, <2>1
  <2>4. \A a \in Actor : Holds(a)' <=> Holds(a)
    BY Zenon, <1>0, <2>3 DEF Holds, Holding
  <2>5. Owned'
    BY Zenon, <1>0, <1>t, <2>2, <2>4, KeepsEntries
  <2>6. Shape'
    BY Zenon, <1>0, <1>t, <2>1, <2>2, <2>3 DEF Shape, Actor
  <2> QED BY Zenon, <1>0, <2>2, <2>5, <2>6, KeepsIdle DEF OwnInv
<1> QED BY Zenon, <1>1, <1>2, <1>3 DEF Pick

(* closefile and deletefile of a given entry.                              *)
LEMMA GrabOwned ==
  ASSUME OwnInv, NEW t \in Thread, pc[t] \in {"next", "busywait"}, NEW e \in File, Grab(t, e),
         tfFse' \in [Thread -> [Fd -> File \cup {None}]], UNCHANGED <<script, ip, allocs>>
  PROVE  OwnInv'
<1>0. Shape /\ Owned /\ IdleInv /\ t \in Actor /\ ~Holds(t) /\ e \in Entry /\ e[1] = "file"
  BY Zenon DEF OwnInv, Actor, Holds, Holding, File
<1>t. /\ busy \subseteq Entry /\ allocs' \in [Entry -> {"none", "writing", "ok", "error"}]
      /\ pc \in [Actor -> Holding \cup OtherPc] /\ cur \in [Actor -> Entry \cup {None}]
  BY Zenon, <1>0 DEF Shape
<1>1. cur' = [cur EXCEPT ![t] = e] /\ cur'[t] = e /\ e \in Entry \cup {None}
  BY Zenon, <1>0, <1>t DEF Grab
<1>2. CASE pc' = [pc EXCEPT ![t] = "busywait"] /\ UNCHANGED <<busy, idle>>
  <2>1. "busywait" \in Holding \cup OtherPc /\ "busywait" \notin Holding
    BY Zenon DEF OtherPc, Holding
  <2>2. Shape'
    <3>1. busy' \subseteq Entry /\ cur'[t] \in File
      BY Zenon, <1>t, <1>1, <1>2
    <3> QED BY Zenon, <1>0, <1>t, <1>1, <1>2, <2>1, <3>1, MoveShape
  <2>3. /\ \A a \in Actor : Holds(a)' <=> Holds(a)
        /\ \A a \in Actor : Holds(a) => cur'[a] = cur[a]
    BY Zenon, <1>0, <1>1, <1>2, <1>t, <2>1 DEF Holds
  <2>4. Owned'
    BY Zenon, <1>0, <1>2, <1>t, <2>3, KeepsEntries
  <2> QED BY Zenon, <1>0, <1>2, <2>2, <2>4, KeepsIdle DEF OwnInv
<1>3. CASE /\ e \notin busy /\ busy' = busy \cup {e}
           /\ idle' = IF CurOp(t).op = "delete" \/ openCnt[e] = 1
                      THEN [idle EXCEPT !["file"] = @ - 1] ELSE idle
           /\ pc' = [pc EXCEPT ![t] = "fscall"]
  <2>1. "fscall" \in Holding /\ "fscall" \in Holding \cup OtherPc /\ "fscall" # "busywait"
    BY Zenon DEF Holding
  <2>2. Owned'
    BY Zenon, <1>0, <1>1, <1>3, <2>1, TakesEntry
  <2>3. idle' = idle \/ idle' = [idle EXCEPT ![e[1]] = @ - 1]
    BY Zenon, <1>0, <1>3
  <2>4. IdleInv'
    BY Zenon, <1>0, <1>3, <2>3, TakesIdle
  <2>5. busy' \subseteq Entry /\ pc' = [pc EXCEPT ![t] = "fscall"]
    BY Zenon, <1>0, <1>3, <1>t
  <2>6. Shape'
    BY Zenon, <1>0, <1>t, <1>1, <2>1, <2>5, MoveShape
  <2> QED BY Zenon, <2>2, <2>4, <2>6 DEF OwnInv
<1> QED BY Zenon, <1>2, <1>3 DEF Grab

(* A step in which a thread moves on without giving or taking an entry.    *)
LEMMA StayOwned ==
  ASSUME OwnInv, NEW a \in Actor, NEW p \in Holding \cup OtherPc, pc' = [pc EXCEPT ![a] = p],
         p # "busywait", p \in Holding <=> Holds(a),
         UNCHANGED <<busy, idle, cur, script, allocs, tfFse>>,
         ip' \in [Thread -> Nat], \A u \in Thread : ip'[u] \in 1 .. Len(script[u])
  PROVE  OwnInv'
<1>0. Shape /\ Owned /\ IdleInv
  BY Zenon DEF OwnInv
<1>1. \A b \in Actor : pc'[b] = IF b = a THEN p ELSE pc[b]
  BY Zenon, <1>0 DEF Shape
<1>2. \A b \in Actor : Holds(b)' <=> Holds(b)
  BY Zenon, <1>1 DEF Holds
<1>3. Owned'
  BY Zenon, <1>0, <1>2, KeepsEntries DEF Shape
<1>4. \A t \in Thread : pc'[t] = "busywait" => cur'[t] \in File
  BY Zenon, <1>0, <1>1 DEF Shape, Actor
<1>5. Shape'
  BY Zenon, <1>0, <1>4 DEF Shape
<1> QED BY Zenon, <1>0, <1>3, <1>5, KeepsIdle DEF OwnInv

(* A step in which an actor gives its entry up through fileset_unbusy.     *)
LEMMA UnbusyOwned ==
  ASSUME OwnInv, NEW a \in Actor, Holds(a), NEW p \in OtherPc, p # "busywait",
         pc' = [pc EXCEPT ![a] = p], NEW q, NEW i, Unbusy(cur[a], q, i),
         UNCHANGED <<cur, script, allocs, tfFse>>,
         ip' \in [Thread -> Nat], \A u \in Thread : ip'[u] \in 1 .. Len(script[u])
  PROVE  OwnInv'
<1>0. Shape /\ Owned /\ IdleInv
  BY Zenon DEF OwnInv
<1>1. p \notin Holding /\ p \in Holding \cup OtherPc
  BY Zenon DEF OtherPc, Holding
<1>2. /\ busy' = busy \ {cur[a]}
      /\ idle' = IF cur[a] \in busy THEN [idle EXCEPT ![cur[a][1]] = @ + 1] ELSE idle
  BY Zenon DEF Unbusy
<1>3. cur[a] \in Entry
  BY Zenon, <1>0 DEF Owned, Shape
<1>4. Owned'
  BY Zenon, <1>0, <1>1, <1>2, GivesEntry
<1>5. IdleInv'
  BY Zenon, <1>0, <1>2, <1>3, GivesIdle
<1>6. \A b \in Actor : pc'[b] = IF b = a THEN p ELSE pc[b]
  BY Zenon, <1>0 DEF Shape
<1>7. \A t \in Thread : pc'[t] = "busywait" => cur'[t] \in File
  BY Zenon, <1>0, <1>6 DEF Shape, Actor
<1>8. Shape'
  BY Zenon, <1>0, <1>1, <1>2, <1>7 DEF Shape
<1> QED BY Zenon, <1>4, <1>5, <1>8 DEF OwnInv

(* The worker threads.                                                     *)
LEMMA WorkerOwned ==
  ASSUME OwnInv, NEW t \in Thread, Worker(t)
  PROVE  OwnInv'
<1>0. Shape /\ Owned /\ IdleInv /\ t \in Actor
  BY Zenon DEF OwnInv, Actor
<1>f. CurOp(t) \in Flowop /\ CurOp(t).fd \in Fd
  BY Zenon, <1>0, CurrentFlowop DEF Flowop
<1>t. /\ tfFse \in [Thread -> [Fd -> File \cup {None}]]
      /\ ip \in [Thread -> Nat] /\ \A u \in Thread : ip[u] \in 1 .. Len(script[u])
      /\ pc \in [Actor -> Holding \cup OtherPc]
  BY Zenon, <1>0 DEF Shape
<1>1. CASE Start(t)
  <2>1. pc[t] = "next" /\ UNCHANGED <<script, allocs>> /\ ~Holds(t)
    BY Zenon, <1>1 DEF Start, fixed, createVars, Holds, Holding
  <2>2. ASSUME NEW s \in {"ok", "error"}, Finish(t, s), UNCHANGED <<entryVars, cur, tfFse>>
        PROVE  OwnInv'
    <3> DEFINE p == IF s = "ok" THEN "next" ELSE "stopped"
    <3>1. /\ pc' = [pc EXCEPT ![t] = p] /\ ip' \in [Thread -> Nat]
          /\ \A u \in Thread : ip'[u] \in 1 .. Len(script[u])
      BY Zenon, <1>0, <2>1, <2>2, FinishShape
    <3>2. p \in Holding \cup OtherPc /\ p # "busywait" /\ p \notin Holding
      BY Zenon DEF OtherPc, Holding
    <3> HIDE DEF p
    <3> QED BY Zenon, <1>0, <2>1, <2>2, <3>1, <3>2, StayOwned DEF entryVars
  <2>3. CASE Pick(t)
    BY Zenon, <2>1, <2>3, PickOwned
  <2>4. ASSUME Grab(t, tfFse[t][CurOp(t).fd]), tfFse[t][CurOp(t).fd] # None,
               tfFse' = IF CurOp(t).op = "delete"
                        THEN [tfFse EXCEPT ![t][CurOp(t).fd] = None] ELSE tfFse,
               UNCHANGED ip
        PROVE  OwnInv'
    <3>1. tfFse[t][CurOp(t).fd] \in File
      BY Zenon, <1>f, <1>t, <2>4
    <3>2. tfFse' \in [Thread -> [Fd -> File \cup {None}]]
      BY Zenon, <1>f, <1>t, <2>4
    <3> QED BY Zenon, <2>1, <2>4, <3>1, <3>2, GrabOwned
  <2> QED BY Zenon, <1>1, <2>2, <2>3, <2>4 DEF Start
<1>2. CASE CloseDeleted(t)
  <2>1. UNCHANGED <<busy, idle, cur, script, allocs, tfFse, pc, ip>>
    BY Zenon, <1>2 DEF CloseDeleted, entryVars, fdVars, createVars, fixed
  <2>2. Owned'
    BY Zenon, <1>0, <2>1, KeepsEntries DEF Holds, Shape
  <2>3. Shape'
    BY Zenon, <1>0, <2>1 DEF Shape
  <2> QED BY Zenon, <1>0, <2>1, <2>2, <2>3, KeepsIdle DEF OwnInv
<1>3. CASE Retry(t)
  <2>1. UNCHANGED <<script, allocs>>
    BY Zenon, <1>3 DEF Retry, fixed, createVars
  <2>2. CASE pc[t] = "pickwait" /\ Pick(t)
    BY Zenon, <2>1, <2>2, PickOwned
  <2>3. CASE pc[t] = "busywait" /\ Grab(t, cur[t]) /\ UNCHANGED <<tfFse, ip>>
    <3>1. cur[t] \in File
      BY Zenon, <1>0, <2>3 DEF Shape
    <3> QED BY Zenon, <1>t, <2>1, <2>3, <3>1, GrabOwned
  <2> QED BY Zenon, <1>3, <2>2, <2>3 DEF Retry
<1>4. CASE FsCall(t)
  <2>1. UNCHANGED <<busy, idle, cur, script, allocs, tfFse, ip>> /\ Holds(t)
    BY Zenon, <1>4 DEF FsCall, entryVars, fixed, createVars, Holds, Holding
  <2>2. PICK p \in {"release", "openfailed", "spared"} : pc' = [pc EXCEPT ![t] = p]
    BY Zenon, <1>4 DEF FsCall
  <2>3. p \in Holding /\ p \in Holding \cup OtherPc /\ p # "busywait"
    BY Zenon DEF Holding
  <2> QED BY Zenon, <1>0, <1>t, <2>1, <2>2, <2>3, StayOwned
<1>5. CASE FailsBusy(t)
  <2>1. UNCHANGED <<busy, idle, cur, script, allocs, tfFse>> /\ Holds(t) /\ Finish(t, "leak")
    BY Zenon, <1>5 DEF FailsBusy, entryVars, fixed, fdVars, createVars, Holds, Holding
  <2>2. /\ pc' = [pc EXCEPT ![t] = "leaked"] /\ ip' \in [Thread -> Nat]
        /\ \A u \in Thread : ip'[u] \in 1 .. Len(script[u])
    BY Zenon, <1>0, <2>1, FinishShape
  <2>3. "leaked" \in Holding /\ "leaked" \in Holding \cup OtherPc /\ "leaked" # "busywait"
    BY Zenon DEF Holding
  <2> QED BY Zenon, <1>0, <2>1, <2>2, <2>3, StayOwned
<1>6. CASE Release(t)
  <2>1. /\ UNCHANGED <<cur, script, allocs, tfFse>> /\ Holds(t)
        /\ Unbusy(cur[t], NewPlace(t), OpenIncr(t))
        /\ Finish(t, IF pc[t] = "openfailed" THEN "error" ELSE "ok")
    BY Zenon, <1>6 DEF Release, fixed, createVars, Holds, Holding
  <2> DEFINE p == IF pc[t] = "openfailed" THEN "stopped" ELSE "next"
  <2>2. /\ pc' = [pc EXCEPT ![t] = p] /\ ip' \in [Thread -> Nat]
        /\ \A u \in Thread : ip'[u] \in 1 .. Len(script[u])
    BY <1>0, <2>1, FinishShape
  <2>3. p \in OtherPc /\ p # "busywait"
    BY Zenon DEF OtherPc
  <2> HIDE DEF p
  <2> QED BY Zenon, <1>0, <2>1, <2>2, <2>3, UnbusyOwned
<1> QED BY Zenon, <1>1, <1>2, <1>3, <1>4, <1>5, <1>6 DEF Worker

(* The creation of the fileset, with its allocation threads.               *)
LEMMA CreateOwned ==
  ASSUME OwnInv, Create \/ \E e \in Entry : AllocThread(e) \/ AllocThreadExits(e)
  PROVE  OwnInv'
<1>0. Shape /\ Owned /\ IdleInv /\ Main \in Actor
  BY Zenon DEF OwnInv, Actor
<1>t. /\ tfFse \in [Thread -> [Fd -> File \cup {None}]]
      /\ ip \in [Thread -> Nat] /\ \A u \in Thread : ip[u] \in 1 .. Len(script[u])
      /\ pc \in [Actor -> Holding \cup OtherPc] /\ cur \in [Actor -> Entry \cup {None}]
      /\ allocs \in [Entry -> {"none", "writing", "ok", "error"}] /\ busy \subseteq Entry
  BY Zenon, <1>0 DEF Shape
<1>1. CASE CreatePicks
  <2>1. UNCHANGED <<script, ip, tfFse, allocs>> /\ ~Holds(Main)
    BY Zenon, <1>1 DEF CreatePicks, fixed, fdVars, createVars, Holds, Holding
  <2>2. CASE \E i \in 0 .. Count["file"] :
               /\ PickEntry(Main, "file", "free", i)
               /\ \E next \in {"alloc", "skip"} : pc' = [pc EXCEPT ![Main] = next]
    <3>1. PICK e \in Entry : /\ e \notin busy /\ busy' = busy \cup {e}
                             /\ cur' = [cur EXCEPT ![Main] = e]
                             /\ idle' = [idle EXCEPT ![e[1]] = @ - 1]
      BY Zenon, <1>0, <2>2, PickedEntry
    <3>2. PICK h \in {"alloc", "skip"} : pc' = [pc EXCEPT ![Main] = h]
      BY Zenon, <2>2
    <3>3. h \in Holding /\ h \in Holding \cup OtherPc /\ h # "busywait"
      BY Zenon DEF Holding
    <3>4. Owned'
      BY Zenon, <1>0, <2>1, <3>1, <3>2, <3>3, TakesEntry
    <3>5. IdleInv'
      BY Zenon, <1>0, <3>1, TakesIdle
    <3>6. busy' \subseteq Entry /\ e \in Entry \cup {None}
      BY Zenon, <1>t, <3>1
    <3>7. Shape'
      BY Zenon, <1>0, <1>t, <2>1, <3>1, <3>2, <3>3, <3>6, MoveShape
    <3> QED BY Zenon, <3>4, <3>5, <3>7 DEF OwnInv
  <2>3. ASSUME NEW p \in {"leafdirs", "pickwait"}, pc' = [pc EXCEPT ![Main] = p],
               UNCHANGED <<entryVars, cur>>
        PROVE  OwnInv'
    <3>1. p \in Holding \cup OtherPc /\ p # "busywait" /\ p \notin Holding
      BY Zenon DEF OtherPc, Holding
    <3> QED BY Zenon, <1>0, <1>t, <2>1, <2>3, <3>1, StayOwned DEF entryVars
  <2> QED BY Zenon, <1>1, <2>2, <2>3 DEF CreatePicks
<1>2. CASE CreateSkips \/ CreateAllocates
  <2>1. /\ UNCHANGED <<cur, script, ip, tfFse, allocs>> /\ Holds(Main)
        /\ \E q, i : Unbusy(cur[Main], q, i)
        /\ \E p \in {"files", "failed"} : pc' = [pc EXCEPT ![Main] = p]
    BY Zenon, <1>2 DEF CreateSkips, CreateAllocates, fixed, fdVars, createVars, Holds, Holding
  <2>2. PICK p \in {"files", "failed"} : pc' = [pc EXCEPT ![Main] = p]
    BY Zenon, <2>1
  <2>3. p \in OtherPc /\ p # "busywait"
    BY Zenon DEF OtherPc
  <2> QED BY Zenon, <1>0, <1>t, <2>1, <2>2, <2>3, UnbusyOwned
<1>3. CASE CreateForks
  <2>1. /\ UNCHANGED <<busy, idle, cur, script, ip, tfFse>> /\ Holds(Main)
    BY Zenon, <1>3 DEF CreateForks, entryVars, fixed, fdVars, Holds, Holding
  <2>2. CASE pc' = [pc EXCEPT ![Main] = "leaked"] /\ UNCHANGED createVars
    <3>1. "leaked" \in Holding /\ "leaked" \in Holding \cup OtherPc /\ "leaked" # "busywait"
      BY Zenon DEF Holding
    <3> QED BY Zenon, <1>0, <1>t, <2>1, <2>2, <3>1, StayOwned DEF createVars
  <2>3. CASE /\ allocs' = [allocs EXCEPT ![cur[Main]] = "writing"]
             /\ pc' = [pc EXCEPT ![Main] = "files"]
    <3>1. cur[Main] \in Entry /\ cur[Main] \in busy
      BY Zenon, <1>0, <1>t, <2>1 DEF Owned
    <3>2. \A b \in Actor : Holds(b)' <=> (b # Main /\ Holds(b))
      BY Zenon, <1>t, <2>3 DEF Holds, Holding
    <3>3. \A e \in Entry : allocs'[e] = IF e = cur[Main] THEN "writing" ELSE allocs[e]
      BY Zenon, <1>t, <2>3
    <3>4. Owned'
      <4>1. \A b \in Actor : Holds(b)' => cur'[b] \in busy' /\ allocs'[cur'[b]] # "writing"
        BY Zenon, <1>0, <1>t, <2>1, <3>2, <3>3 DEF Owned
      <4>2. \A b, c \in Actor : Holds(b)' /\ Holds(c)' /\ cur'[b] = cur'[c] => b = c
        BY Zenon, <1>0, <2>1, <3>2 DEF Owned
      <4>3. \A f \in Entry : allocs'[f] = "writing" => f \in busy'
        BY Zenon, <1>0, <2>1, <3>1, <3>3 DEF Owned
      <4>4. \A f \in busy' : allocs'[f] = "writing" \/ \E b \in Actor : Holds(b)' /\ cur'[b] = f
        BY Zenon, <1>0, <1>t, <2>1, <3>2, <3>3 DEF Owned
      <4> QED BY Zenon, <4>1, <4>2, <4>3, <4>4 DEF Owned
    <3>5. allocs' \in [Entry -> {"none", "writing", "ok", "error"}]
      BY Zenon, <1>t, <2>3, <3>1
    <3>6. "files" \in Holding \cup OtherPc /\ "files" # "busywait"
      BY Zenon DEF OtherPc
    <3>7. Shape'
      BY Zenon, <1>0, <1>t, <2>1, <2>3, <3>1, <3>5, <3>6, MoveShape
    <3> QED BY Zenon, <1>0, <2>1, <3>4, <3>7, KeepsIdle DEF OwnInv
  <2> QED BY Zenon, <1>3, <2>2, <2>3 DEF CreateForks
<1>4. CASE CreateLeafdir \/ CreateEnds
  <2>1. UNCHANGED <<busy, idle, cur, script, ip, tfFse, allocs>> /\ ~Holds(Main)
    BY Zenon, <1>4 DEF CreateLeafdir, CreateEnds, entryVars, fixed, fdVars, createVars, Holds, Holding
  <2>2. \E p \in {pc[Main], "drain", "done", "failed"} : pc' = [pc EXCEPT ![Main] = p]
    <3>1. pc' = pc => pc' = [pc EXCEPT ![Main] = pc[Main]]
      BY Zenon, <1>0, <1>t
    <3> QED BY Zenon, <1>4, <3>1 DEF CreateLeafdir, CreateEnds
  <2>3. PICK p \in {pc[Main], "drain", "done", "failed"} : pc' = [pc EXCEPT ![Main] = p]
    BY Zenon, <2>2
  <2>4. p \in Holding \cup OtherPc /\ p # "busywait" /\ p \notin Holding
    BY Zenon, <1>4, <2>1 DEF OtherPc, Holding, Holds, CreateLeafdir, CreateEnds
  <2> QED BY Zenon, <1>0, <1>t, <2>1, <2>3, <2>4, StayOwned
<1>5. ASSUME NEW e \in Entry, AllocThread(e) PROVE OwnInv'
  <2>1. /\ UNCHANGED <<pc, cur, script, ip, tfFse>> /\ allocs[e] = "writing"
        /\ busy' = busy \ {e}
        /\ idle' = IF e \in busy THEN [idle EXCEPT ![e[1]] = @ + 1] ELSE idle
        /\ \E s \in {"ok", "error"} : allocs' = [allocs EXCEPT ![e] = s]
    BY Zenon, <1>5 DEF AllocThread, Unbusy, fixed, fdVars
  <2>2. PICK s \in {"ok", "error"} : allocs' = [allocs EXCEPT ![e] = s]
    BY Zenon, <2>1
  <2>3. \A f \in Entry : allocs'[f] = IF f = e THEN s ELSE allocs[f]
    BY Zenon, <1>t, <2>2
  <2>4. \A b \in Actor : Holds(b)' <=> Holds(b)
    BY Zenon, <2>1 DEF Holds
  <2>5. \A b \in Actor : Holds(b) => cur[b] # e
    BY Zenon, <1>0, <2>1 DEF Owned
  <2>6. Owned'
    <3>1. \A b \in Actor : Holds(b)' => cur'[b] \in busy' /\ allocs'[cur'[b]] # "writing"
      BY SMTT(30), <1>0, <1>t, <2>1, <2>3, <2>4, <2>5 DEF Owned
    <3>2. \A b, c \in Actor : Holds(b)' /\ Holds(c)' /\ cur'[b] = cur'[c] => b = c
      BY Zenon, <1>0, <2>1, <2>4 DEF Owned
    <3>3. \A f \in Entry : allocs'[f] = "writing" => f \in busy'
      BY Zenon, <1>0, <2>1, <2>3 DEF Owned
    <3>4. \A f \in busy' : allocs'[f] = "writing" \/ \E b \in Actor : Holds(b)' /\ cur'[b] = f
      BY Zenon, <1>0, <1>t, <2>1, <2>3, <2>4 DEF Owned
    <3> QED BY Zenon, <3>1, <3>2, <3>3, <3>4 DEF Owned
  <2>7. Shape'
    <3>1. allocs' \in [Entry -> {"none", "writing", "ok", "error"}] /\ busy' \subseteq Entry
      BY Zenon, <1>t, <2>1, <2>2
    <3> QED BY Zenon, <1>0, <2>1, <3>1 DEF Shape
  <2>8. IdleInv'
    BY Zenon, <1>0, <2>1, GivesIdle
  <2> QED BY Zenon, <2>6, <2>7, <2>8 DEF OwnInv
<1>6. ASSUME NEW e \in Entry, AllocThreadExits(e) PROVE OwnInv'
  <2>1. /\ UNCHANGED <<busy, idle, pc, cur, script, ip, tfFse>> /\ allocs[e] \in {"ok", "error"}
        /\ allocs' = [allocs EXCEPT ![e] = "none"]
    BY Zenon, <1>6 DEF AllocThreadExits, entryVars, fixed, fdVars
  <2>2. \A f \in Entry : allocs'[f] = "writing" <=> allocs[f] = "writing"
    BY Zenon, <1>t, <2>1
  <2>3. Owned'
    BY Zenon, <1>0, <1>t, <2>1, <2>2, KeepsEntries DEF Holds
  <2>4. Shape'
    <3>1. allocs' \in [Entry -> {"none", "writing", "ok", "error"}]
      BY Zenon, <1>t, <2>1
    <3> QED BY Zenon, <1>0, <2>1, <3>1 DEF Shape
  <2> QED BY Zenon, <1>0, <2>1, <2>3, <2>4, KeepsIdle DEF OwnInv
<1> QED BY Zenon, <1>1, <1>2, <1>3, <1>4, <1>5, <1>6 DEF Create

(* At the start nobody has anything and everything is idle.                *)
LEMMA OwnInit == Init => OwnInv
<1> SUFFICES ASSUME Init PROVE OwnInv
  BY Zenon
<1>1. Shape
  <2>1. \A t \in Thread : script[t] \in Seq(Flowop) /\ script[t] # <<>>
    BY Zenon, FilesetAssumption DEF Init
  <2>2. \A t \in Thread : Len(script[t]) \in Nat \ {0}
    BY <2>1
  <2>3. \A t \in Thread : pc[t] = "next"
    BY Zenon, FilesetAssumption DEF Init, Actor
  <2> QED BY <2>2, <2>3 DEF Init, PickReset, Shape, OtherPc
<1>2. \A a \in Actor : ~Holds(a)
  BY Zenon DEF Init, Holds, Holding
<1>3. Owned
  BY Zenon, <1>2 DEF Init, Owned
<1>4. IdleInv
  <2>1. ASSUME NEW k \in Kind PROVE idle[k] >= Cardinality(Loose(k))
    <3>1. Count[k] \in Nat /\ idle[k] = Count[k]
      BY Zenon, FilesetAssumption DEF Init
    <3> DEFINE S == {k} \X (0 .. (Count[k] - 1))
    <3>2. Loose(k) \subseteq S
      <4> SUFFICES ASSUME NEW e \in Loose(k) PROVE e \in S
        BY Zenon
      <4>1. e \in Entry /\ e[1] = k /\ e[2] \in Nat /\ e[2] < Count[k] /\ e = <<e[1], e[2]>>
        BY EntryShape DEF Loose, Entry
      <4> QED BY <3>1, <4>1
    <3>3. IsFiniteSet({k}) /\ Cardinality({k}) = 1
      BY Zenon, FS_Singleton
    <3>4. IsFiniteSet(0 .. (Count[k] - 1)) /\ Cardinality(0 .. (Count[k] - 1)) = Count[k]
      <4> DEFINE b == Count[k] - 1
      <4>1. b \in Int /\ b - 0 + 1 = Count[k] /\ (0 > b => Count[k] = 0)
        BY <3>1
      <4> HIDE DEF b
      <4>2. IsFiniteSet(0 .. b) /\ Cardinality(0 .. b) = IF 0 > b THEN 0 ELSE b - 0 + 1
        BY <4>1, FS_Interval
      <4> QED BY Zenon, <4>1, <4>2 DEF b
    <3>5. IsFiniteSet(S) /\ Cardinality(S) = 1 * Count[k]
      <4> DEFINE A == {k}
                 B == 0 .. (Count[k] - 1)
      <4>1. S = A \X B /\ IsFiniteSet(A) /\ IsFiniteSet(B) /\ Cardinality(A) = 1 /\ Cardinality(B) = Count[k]
        BY Zenon, <3>3, <3>4
      <4> HIDE DEF A, B, S
      <4>2. IsFiniteSet(A \X B) /\ Cardinality(A \X B) = Cardinality(A) * Cardinality(B)
        BY Zenon, <4>1, FS_Product
      <4> QED BY Zenon, <4>1, <4>2
    <3>6. Cardinality(Loose(k)) <= Cardinality(S)
      BY Zenon, <3>2, <3>5, FS_Subset
    <3> HIDE DEF S
    <3> QED BY SMTT(30), <3>1, <3>5, <3>6, LooseFinite
  <2>2. idle \in [Kind -> Int]
    BY SMTT(30), FilesetAssumption DEF Init
  <2> QED BY Zenon, <2>1, <2>2 DEF IdleInv
<1> QED BY Zenon, <1>1, <1>3, <1>4 DEF OwnInv

(* Every step keeps the ownership of entries.                              *)
LEMMA OwnStep == OwnInv /\ [Next]_vars => OwnInv'
<1> SUFFICES ASSUME OwnInv, [Next]_vars PROVE OwnInv'
  BY Zenon
<1>1. ASSUME UNCHANGED vars PROVE OwnInv'
  <2>1. UNCHANGED <<busy, idle, pc, cur, script, ip, tfFse, allocs>>
    BY Zenon, <1>1 DEF vars, entryVars, fixed, fdVars, createVars
  <2>2. Owned'
    BY Zenon, <2>1, KeepsEntries DEF OwnInv, Holds, Shape
  <2>3. Shape'
    BY Zenon, <2>1 DEF OwnInv, Shape
  <2> QED BY Zenon, <2>1, <2>2, <2>3, KeepsIdle DEF OwnInv
<1> QED BY Zenon, <1>1, CreateOwned, WorkerOwned DEF Next, Over

(* A busy entry has exactly one owner, a flowop or an allocation thread,   *)
(* and an entry that is not busy has none: no two of them ever work on the *)
(* same file.                                                              *)
THEOREM OneOwner == Spec => []BusyOwned
<1>1. OwnInv => BusyOwned
  <2> SUFFICES ASSUME OwnInv, NEW e \in Entry
               PROVE  Cardinality(Owners(e)) + (IF allocs[e] = "writing" THEN 1 ELSE 0)
                        = (IF e \in busy THEN 1 ELSE 0)
    BY Zenon DEF BusyOwned
  <2>1. Owned
    BY Zenon DEF OwnInv
  <2>2. Owners(e) = {a \in Actor : Holds(a) /\ cur[a] = e}
    BY Zenon DEF Owners, Holds
  <2>3. CASE e \notin busy \/ allocs[e] = "writing"
    <3>1. Owners(e) = {} /\ (allocs[e] = "writing" <=> e \in busy)
      BY <2>1, <2>2, <2>3 DEF Owned
    <3>2. Cardinality(Owners(e)) = 0
      BY Zenon, <3>1, FS_EmptySet
    <3> QED BY <3>1, <3>2
  <2>4. CASE e \in busy /\ allocs[e] # "writing"
    <3>1. PICK a \in Actor : Holds(a) /\ cur[a] = e
      BY Zenon, <2>1, <2>4 DEF Owned
    <3>2. Owners(e) = {a}
      BY <2>1, <2>2, <3>1 DEF Owned
    <3>3. Cardinality(Owners(e)) = 1
      BY Zenon, <3>2, FS_Singleton
    <3> QED BY <2>4, <3>3
  <2> QED BY Zenon, <2>3, <2>4
<1> QED BY <1>1, OwnInit, OwnStep, PTL DEF Spec

(* fs_idle_files and its siblings never fall short of the entries that are *)
(* not busy, so that nobody waits in fileset_pick for an entry that is     *)
(* there.                                                                  *)
THEOREM IdleEnough == Spec => []IdleNotShort
<1>1. OwnInv => IdleNotShort
  BY Zenon DEF OwnInv, IdleInv, IdleNotShort, Loose
<1> QED BY <1>1, OwnInit, OwnStep, PTL DEF Spec

-----------------------------------------------------------------------------
(* What the trees say of the disk, when no file-system call fails: an      *)
(* entry agrees unless its owner is between its call and its release, and  *)
(* then the release makes it agree.                                        *)
Agrees(e) == place[e] = "exist" <=> e \in disk
Ready(t) ==
  /\ pc[t] \in {"fscall", "spared"} => Agrees(cur[t])
  /\ pc[t] = "fscall" /\ CurOp(t).op \in {"open", "io"} => place[cur[t]] = "exist"
  /\ pc[t] = "release" => (NewPlace(t) = "exist" <=> cur[t] \in disk)
  /\ pc[t] # "openfailed"
  /\ pc[t] = "busywait" => CurOp(t).op \in {"close", "delete"}
Creating ==
  /\ pc[Main] \in {"alloc", "skip"} => cur[Main] \in File
  /\ pc[Main] = "skip" => cur[Main] \notin disk
  /\ \A e \in Entry : allocs[e] = "writing" => e \in File
  /\ pc[Main] # "done" => \A t \in Thread : pc[t] = "next"
DiskInv ==
  /\ place \in [Entry -> {"free", "exist", "noex"}]
  /\ ~env.faults =>
       /\ \A e \in Entry \ busy : Agrees(e)
       /\ \A t \in Thread : Ready(t)
       /\ Creating

(* What other actors do leaves a thread ready.                             *)
LEMMA ReadyKept ==
  ASSUME NEW t, Ready(t), pc'[t] = pc[t], cur'[t] = cur[t], UNCHANGED script, ip'[t] = ip[t],
         pc[t] \in Holding => /\ place'[cur[t]] = place[cur[t]]
                              /\ cur[t] \in disk' <=> cur[t] \in disk
  PROVE  Ready(t)'
<1>1. CurOp(t)' = CurOp(t)
  BY Zenon DEF CurOp
<1>2. pc[t] = "release" => NewPlace(t)' = NewPlace(t)
  BY Zenon, <1>1 DEF NewPlace, Holding
<1>3. pc[t] \in {"fscall", "spared", "release"} => pc[t] \in Holding
  BY Zenon DEF Holding
<1> QED BY Zenon, <1>1, <1>2, <1>3 DEF Ready, Agrees

(* At the start the directories are there, and nothing else.               *)
LEMMA DiskInit == Init => DiskInv
<1> SUFFICES ASSUME Init PROVE DiskInv
  BY Zenon
<1>1. \A t \in Thread : pc[t] = "next"
  BY Zenon, FilesetAssumption DEF Init, Actor
<1>2. \A t \in Thread : Ready(t)
  BY Zenon, <1>1 DEF Ready
<1>3. Creating
  BY Zenon, <1>1 DEF Init, Creating, Actor
<1>4. \A e \in Entry : Agrees(e)
  BY Zenon DEF Init, PickReset, Agrees
<1>5. place \in [Entry -> {"free", "exist", "noex"}]
  BY Zenon DEF Init, PickReset
<1> QED BY Zenon, <1>2, <1>3, <1>4, <1>5 DEF DiskInv

(* A thread takes an entry that agrees, for a flowop that it suits.        *)
LEMMA TakesDisk ==
  ASSUME Shape, Owned, DiskInv, NEW t \in Thread, pc[Main] = "done", NEW e \in Entry, e \notin busy,
         CurOp(t).op \in {"open", "io"} => place[e] = "exist",
         busy' = busy \cup {e}, cur' = [cur EXCEPT ![t] = e], pc' = [pc EXCEPT ![t] = "fscall"],
         UNCHANGED <<place, disk, env, script, ip, allocs>>
  PROVE  DiskInv'
<1> SUFFICES ASSUME ~env.faults
             PROVE  (\A f \in Entry \ busy' : Agrees(f)') /\ (\A u \in Thread : Ready(u)') /\ Creating'
  BY Zenon DEF DiskInv
<1>0. (\A f \in Entry \ busy : Agrees(f)) /\ (\A u \in Thread : Ready(u)) /\ Creating
  BY Zenon DEF DiskInv
<1>1. /\ \A u \in Actor : pc'[u] = IF u = t THEN "fscall" ELSE pc[u]
      /\ \A u \in Actor : cur'[u] = IF u = t THEN e ELSE cur[u]
      /\ t \in Actor /\ Main \in Actor /\ t # Main
  BY Zenon, FilesetAssumption DEF Shape, Actor
<1>2. \A f \in Entry \ busy' : Agrees(f)'
  BY Zenon, <1>0 DEF Agrees
<1>3. CurOp(t)' = CurOp(t)
  BY Zenon DEF CurOp
<1>4. Ready(t)'
  <2>1. pc'[t] = "fscall" /\ cur'[t] = e /\ place' = place /\ disk' = disk
    BY Zenon, <1>1
  <2>2. Agrees(e)
    BY Zenon, <1>0
  <2> QED BY Zenon, <1>3, <2>1, <2>2 DEF Ready, Agrees
<1>5. ASSUME NEW u \in Thread, u # t PROVE Ready(u)'
  BY Zenon, <1>0, <1>1, <1>5, ReadyKept DEF Actor
<1>6. Creating'
  BY Zenon, <1>0, <1>1 DEF Creating
<1> QED BY Zenon, <1>2, <1>4, <1>5, <1>6

(* A thread moves without taking an entry, and without touching the disk.  *)
LEMMA StayDisk ==
  ASSUME Shape, DiskInv, NEW t \in Thread, pc[Main] = "done",
         NEW p \in {"next", "stopped", "pickwait", "busywait"}, pc' = [pc EXCEPT ![t] = p],
         p = "busywait" => CurOp(t).op \in {"close", "delete"} /\ ip' = ip,
         \A u \in Thread : u # t => ip'[u] = ip[u],
         NEW e, cur' = cur \/ cur' = [cur EXCEPT ![t] = e],
         UNCHANGED <<busy, place, disk, env, script, allocs>>
  PROVE  DiskInv'
<1> SUFFICES ASSUME ~env.faults
             PROVE  (\A f \in Entry \ busy' : Agrees(f)') /\ (\A u \in Thread : Ready(u)') /\ Creating'
  BY Zenon DEF DiskInv
<1>0. (\A f \in Entry \ busy : Agrees(f)) /\ (\A u \in Thread : Ready(u)) /\ Creating
  BY Zenon DEF DiskInv
<1>1. /\ \A u \in Actor : pc'[u] = IF u = t THEN p ELSE pc[u]
      /\ \A u \in Actor : u # t => cur'[u] = cur[u]
      /\ t \in Actor /\ Main \in Actor /\ t # Main
  BY Zenon, FilesetAssumption DEF Shape, Actor
<1>2. \A f \in Entry \ busy' : Agrees(f)'
  BY Zenon, <1>0 DEF Agrees
<1>3. ip' = ip => CurOp(t)' = CurOp(t)
  BY Zenon DEF CurOp
<1>4. Ready(t)'
  BY Zenon, <1>0, <1>1, <1>3 DEF Ready
<1>5. ASSUME NEW u \in Thread, u # t PROVE Ready(u)'
  BY Zenon, <1>0, <1>1, <1>5, ReadyKept DEF Actor
<1>6. Creating'
  BY Zenon, <1>0, <1>1 DEF Creating
<1> QED BY Zenon, <1>2, <1>4, <1>5, <1>6

(* fileset_pick on behalf of a thread.                                     *)
LEMMA PickDisk ==
  ASSUME OwnInv, DiskInv, NEW t \in Thread, pc[t] \in {"next", "pickwait"}, pc[Main] = "done",
         Pick(t), UNCHANGED <<disk, env, script, allocs>>
  PROVE  DiskInv'
<1> DEFINE f == CurOp(t)
           r == PickOf(f.op)
<1>0. Shape /\ Owned /\ t \in Actor
  BY Zenon DEF OwnInv, Actor
<1>1. CASE /\ pc' = [pc EXCEPT ![t] = "pickwait"]
           /\ UNCHANGED <<entryVars, cur, rotor, tfFse, ip, ops, abort>>
  BY Zenon, <1>0, <1>1, StayDisk DEF entryVars
<1>2. CASE /\ \E j \in (IF f.indexed THEN 0 .. Count[r[1]] ELSE {rotor[r]}) : PickEntry(t, r[1], r[2], j)
           /\ pc' = [pc EXCEPT ![t] = "fscall"]
           /\ UNCHANGED <<ip, ops, abort>>
  <2>0. PICK j : PickEntry(t, r[1], r[2], j)
    BY Zenon, <1>2
  <2>1. PICK e \in Entry : /\ e \notin busy /\ place[e] = r[2]
                           /\ busy' = busy \cup {e} /\ cur' = [cur EXCEPT ![t] = e]
    <3> HIDE DEF r
    <3> QED BY <1>0, <2>0, PickedEntry
  <2>2. f.op \in {"open", "io"} => place[e] = "exist"
    BY Zenon, <2>1 DEF PickOf
  <2>3. UNCHANGED <<place, ip>>
    BY Zenon, <1>2 DEF PickEntry
  <2> QED BY Zenon, <1>0, <1>2, <2>1, <2>2, <2>3, TakesDisk
<1>3. CASE /\ Finish(t, IF f.op = "listdir" THEN "error" ELSE "norsc")
           /\ UNCHANGED <<entryVars, cur, tfFse>>
  <2>1. pc' = [pc EXCEPT ![t] = "stopped"]
    BY SMTT(30), <1>0, <1>3, FinishShape
  <2>2. \A u \in Thread : u # t => ip'[u] = ip[u]
    BY Zenon, <1>0, <1>3 DEF Finish, Shape
  <2> QED BY Zenon, <1>0, <1>3, <2>1, <2>2, StayDisk DEF entryVars
<1> QED BY Zenon, <1>1, <1>2, <1>3 DEF Pick

(* closefile and deletefile of a given entry.                              *)
LEMMA GrabDisk ==
  ASSUME OwnInv, DiskInv, NEW t \in Thread, pc[Main] = "done", NEW e \in Entry, Grab(t, e),
         CurOp(t).op \in {"close", "delete"}, UNCHANGED <<disk, env, script, ip, allocs>>
  PROVE  DiskInv'
<1>0. Shape /\ Owned
  BY Zenon DEF OwnInv
<1>1. CASE pc' = [pc EXCEPT ![t] = "busywait"] /\ UNCHANGED <<busy, idle>>
  BY Zenon, <1>0, <1>1, StayDisk DEF Grab
<1>2. CASE e \notin busy /\ busy' = busy \cup {e} /\ pc' = [pc EXCEPT ![t] = "fscall"]
  BY Zenon, <1>0, <1>2, TakesDisk DEF Grab
<1> QED BY Zenon, <1>1, <1>2 DEF Grab

(* The file-system call: only the owner's entry changes on the disk.       *)
LEMMA CallDisk ==
  ASSUME OwnInv, DiskInv, NEW t \in Thread, FsCall(t)
  PROVE  DiskInv'
<1>0. Shape /\ Owned /\ t \in Actor /\ Main \in Actor /\ t # Main
  BY Zenon, FilesetAssumption DEF OwnInv, Actor
<1>1. /\ pc[t] = "fscall" /\ UNCHANGED <<place, busy, cur, env, script, ip, allocs>>
  BY Zenon DEF FsCall, entryVars, fixed, createVars
<1> SUFFICES ASSUME ~env.faults
             PROVE  (\A f \in Entry \ busy' : Agrees(f)') /\ (\A u \in Thread : Ready(u)') /\ Creating'
  BY Zenon, <1>1 DEF DiskInv
<1>2. (\A f \in Entry \ busy : Agrees(f)) /\ (\A u \in Thread : Ready(u)) /\ Creating
  BY Zenon DEF DiskInv
<1>3. Holds(t) /\ cur[t] \in busy /\ pc[Main] = "done"
  BY Zenon, <1>0, <1>1, <1>2 DEF Holds, Holding, Owned, Creating
<1>4. PICK p \in {"release", "openfailed", "spared"} : pc' = [pc EXCEPT ![t] = p]
  BY Zenon DEF FsCall
<1>5. \A u \in Actor : pc'[u] = IF u = t THEN p ELSE pc[u]
  BY Zenon, <1>0, <1>4 DEF Shape
<1>6. \A f : f # cur[t] => (f \in disk' <=> f \in disk)
  BY Zenon DEF FsCall
<1>7. \A f \in Entry \ busy' : Agrees(f)'
  BY Zenon, <1>1, <1>2, <1>3, <1>6 DEF Agrees
<1>8. CurOp(t)' = CurOp(t) /\ cur'[t] = cur[t] /\ place' = place
  BY Zenon, <1>1 DEF CurOp
<1>9. Ready(t)'
  <2>1. Agrees(cur[t]) /\ (CurOp(t).op \in {"open", "io"} => place[cur[t]] = "exist")
    BY Zenon, <1>1, <1>2 DEF Ready
  <2>m. pc'[t] = p /\ \A x : pc' = [pc EXCEPT ![t] = x] => p = x
    BY Zenon, <1>0, <1>5 DEF Shape
  <2>2. p # "openfailed"
    <3> SUFFICES ASSUME p = "openfailed" PROVE FALSE
      BY Zenon
    <3>1. CurOp(t).op \in {"open", "io"} /\ cur[t] \notin disk
      BY Zenon, <2>m DEF FsCall
    <3> QED BY Zenon, <2>1, <3>1 DEF Agrees
  <2>3. CASE p = "spared"
    <3>1. disk' = disk
      <4>1. CurOp(t).op = "delete" /\ ~Deletes(t)
        BY Zenon, <2>m, <2>3 DEF FsCall
      <4> QED BY Zenon, <4>1 DEF FsCall
    <3> QED BY Zenon, <1>0, <1>5, <1>8, <2>1, <2>3, <3>1 DEF Ready, Agrees
  <2>4. CASE p = "release"
    <3> DEFINE op == CurOp(t).op
    <3>1. NewPlace(t)' = CASE op \in {"create", "makedir"} -> "exist"
                           [] op \in {"delete", "removedir"} -> "noex"
                           [] OTHER -> place[cur[t]]
      BY Zenon, <1>0, <1>5, <1>8, <2>4 DEF NewPlace
    <3>2. op \in OpName
      BY Zenon, <1>0, CurrentFlowop DEF Flowop
    <3>3. op \in {"create", "makedir"} => cur[t] \in disk'
      BY Zenon DEF FsCall
    <3>4. op \in {"delete", "removedir"} => cur[t] \notin disk'
      <4>1. op = "delete" => Deletes(t)
        BY Zenon, <2>m, <2>4 DEF FsCall
      <4> QED BY Zenon, <4>1 DEF FsCall
    <3>5. op \notin {"create", "makedir", "delete", "removedir"} => disk' = disk
      BY Zenon DEF FsCall
    <3>6. NewPlace(t)' = "exist" <=> cur'[t] \in disk'
      BY Zenon, <1>8, <2>1, <3>1, <3>2, <3>3, <3>4, <3>5 DEF OpName, Agrees
    <3> QED BY Zenon, <1>0, <1>5, <2>4, <3>6 DEF Ready
  <2> QED BY Zenon, <2>2, <2>3, <2>4
<1>10. ASSUME NEW u \in Thread, u # t PROVE Ready(u)'
  <2>1. u \in Actor /\ pc'[u] = pc[u] /\ cur'[u] = cur[u] /\ ip'[u] = ip[u] /\ script' = script
    BY Zenon, <1>1, <1>5, <1>10 DEF Actor
  <2>2. pc[u] \in Holding => cur[u] # cur[t]
    BY Zenon, <1>0, <1>3, <1>10, <2>1 DEF Owned, Holds
  <2> QED BY Zenon, <1>2, <1>6, <1>8, <2>1, <2>2, ReadyKept
<1>11. Creating'
  BY Zenon, <1>0, <1>1, <1>2, <1>3, <1>5 DEF Creating
<1> QED BY Zenon, <1>7, <1>9, <1>10, <1>11

(* The release: the owner's entry agrees again.                            *)
LEMMA ReleaseDisk ==
  ASSUME OwnInv, DiskInv, NEW t \in Thread, Release(t)
  PROVE  DiskInv'
<1>0. Shape /\ Owned /\ t \in Actor /\ Main \in Actor /\ t # Main
  BY Zenon, FilesetAssumption DEF OwnInv, Actor
<1>1. /\ pc[t] \in {"release", "openfailed", "spared"} /\ UNCHANGED <<disk, cur, env, script, allocs>>
      /\ place' = [place EXCEPT ![cur[t]] = NewPlace(t)] /\ busy' = busy \ {cur[t]}
      /\ Finish(t, IF pc[t] = "openfailed" THEN "error" ELSE "ok")
  BY Zenon DEF Release, Unbusy, fixed, createVars
<1>2. Holds(t) /\ cur[t] \in busy /\ cur[t] \in Entry
  BY Zenon, <1>0, <1>1 DEF Holds, Holding, Owned, Shape
<1>3. place \in [Entry -> {"free", "exist", "noex"}] /\ NewPlace(t) \in {"free", "exist", "noex"}
  <2>1. place \in [Entry -> {"free", "exist", "noex"}]
    BY Zenon DEF DiskInv
  <2>2. place[cur[t]] \in {"free", "exist", "noex"}
    BY Zenon, <1>2, <2>1
  <2> QED BY Zenon, <2>1, <2>2 DEF NewPlace
<1>4. place' \in [Entry -> {"free", "exist", "noex"}]
  BY Zenon, <1>1, <1>3
<1> SUFFICES ASSUME ~env.faults
             PROVE  (\A f \in Entry \ busy' : Agrees(f)') /\ (\A u \in Thread : Ready(u)') /\ Creating'
  BY Zenon, <1>1, <1>4 DEF DiskInv
<1>5. (\A f \in Entry \ busy : Agrees(f)) /\ (\A u \in Thread : Ready(u)) /\ Creating
  BY Zenon DEF DiskInv
<1>6. pc[Main] = "done"
  BY Zenon, <1>1, <1>5 DEF Creating
<1> DEFINE p == IF pc[t] = "openfailed" THEN "stopped" ELSE "next"
<1>7. \A u \in Actor : pc'[u] = IF u = t THEN p ELSE pc[u]
  <2>1. pc' = [pc EXCEPT ![t] = p]
    BY SMTT(30), <1>0, <1>1, FinishShape
  <2> QED BY Zenon, <1>0, <2>1 DEF Shape
<1>8. NewPlace(t) = "exist" <=> cur[t] \in disk
  <2>1. pc[t] = "spared" => NewPlace(t) = place[cur[t]] /\ Agrees(cur[t])
    BY Zenon, <1>5 DEF NewPlace, Ready
  <2> QED BY Zenon, <1>1, <1>5, <2>1 DEF Ready, Agrees
<1>9. \A f \in Entry : place'[f] = IF f = cur[t] THEN NewPlace(t) ELSE place[f]
  BY Zenon, <1>1, <1>3
<1>10. \A f \in Entry \ busy' : Agrees(f)'
  BY Zenon, <1>1, <1>5, <1>8, <1>9 DEF Agrees
<1>11. Ready(t)'
  BY Zenon, <1>0, <1>7 DEF Ready
<1>12. ASSUME NEW u \in Thread, u # t PROVE Ready(u)'
  <2>1. u \in Actor /\ pc'[u] = pc[u] /\ cur'[u] = cur[u] /\ script' = script
    BY Zenon, <1>1, <1>7, <1>12 DEF Actor
  <2>2. ip'[u] = ip[u]
    BY Zenon, <1>0, <1>1, <1>12 DEF Finish, Shape
  <2>3. pc[u] \in Holding => cur[u] # cur[t] /\ cur[u] \in Entry
    BY Zenon, <1>0, <1>2, <1>12, <2>1 DEF Owned, Holds, Shape
  <2> QED BY Zenon, <1>1, <1>5, <1>9, <2>1, <2>2, <2>3, ReadyKept
<1>13. Creating'
  BY Zenon, <1>0, <1>1, <1>5, <1>6, <1>7 DEF Creating
<1> QED BY Zenon, <1>10, <1>11, <1>12, <1>13

(* The worker threads.                                                     *)
LEMMA WorkerDisk ==
  ASSUME OwnInv, DiskInv, NEW t \in Thread, Worker(t)
  PROVE  DiskInv'
<1>0. Shape /\ Owned /\ t \in Actor /\ Main \in Actor
  BY Zenon DEF OwnInv, Actor
<1>f. CurOp(t).fd \in Fd /\ tfFse \in [Thread -> [Fd -> File \cup {None}]] /\ File \subseteq Entry
  BY Zenon, <1>0, CurrentFlowop DEF Flowop, Shape, File
<1>1. CASE Start(t)
  <2>1. pc[Main] = "done" /\ pc[t] = "next" /\ UNCHANGED <<disk, env, script, allocs>>
    BY Zenon, <1>1 DEF Start, fixed, createVars
  <2>2. ASSUME NEW s \in {"ok", "error"}, Finish(t, s), UNCHANGED <<entryVars, cur, tfFse>>
        PROVE  DiskInv'
    <3> DEFINE p == IF s = "ok" THEN "next" ELSE "stopped"
    <3>1. pc' = [pc EXCEPT ![t] = p] /\ p \in {"next", "stopped", "pickwait", "busywait"}
          /\ p # "busywait"
      BY Zenon, <1>0, <2>1, <2>2, FinishShape
    <3>2. \A u \in Thread : u # t => ip'[u] = ip[u]
      BY Zenon, <1>0, <2>2 DEF Finish, Shape
    <3>3. UNCHANGED <<busy, place, cur>>
      BY Zenon, <2>2 DEF entryVars
    <3> HIDE DEF p
    <3> QED BY Zenon, <1>0, <2>1, <3>1, <3>2, <3>3, StayDisk
  <2>3. CASE Pick(t)
    BY Zenon, <2>1, <2>3, PickDisk
  <2>4. ASSUME Grab(t, tfFse[t][CurOp(t).fd]), tfFse[t][CurOp(t).fd] # None,
               CurOp(t).op \in {"close", "delete"}, UNCHANGED ip
        PROVE  DiskInv'
    <3>1. tfFse[t][CurOp(t).fd] \in Entry
      BY Zenon, <1>f, <2>4
    <3> QED BY Zenon, <2>1, <2>4, <3>1, GrabDisk
  <2> QED BY Zenon, <1>1, <2>2, <2>3, <2>4 DEF Start
<1>2. CASE CloseDeleted(t)
  <2>1. /\ UNCHANGED <<busy, place, disk, env, cur, script, allocs, ip, pc>>
        /\ pc[Main] = "done" /\ pc[t] = "next"
    BY Zenon, <1>2 DEF CloseDeleted, entryVars, createVars, fixed
  <2>2. pc' = [pc EXCEPT ![t] = "next"]
    BY Zenon, <1>0, <2>1 DEF Shape
  <2> QED BY Zenon, <1>0, <2>1, <2>2, StayDisk
<1>3. CASE Retry(t) /\ ~env.faults
  <2>1. pc[t] \in {"pickwait", "busywait"} /\ UNCHANGED <<disk, env, script, allocs>>
    BY Zenon, <1>3 DEF Retry, fixed, createVars
  <2>2. pc[Main] = "done" /\ Ready(t)
    BY Zenon, <1>3, <2>1 DEF DiskInv, Creating
  <2>3. CASE pc[t] = "pickwait" /\ Pick(t)
    BY Zenon, <2>1, <2>2, <2>3, PickDisk
  <2>4. CASE pc[t] = "busywait" /\ Grab(t, cur[t]) /\ UNCHANGED <<tfFse, ip>>
    <3>1. cur[t] \in Entry /\ CurOp(t).op \in {"close", "delete"}
      BY Zenon, <1>0, <1>f, <2>2, <2>4 DEF Shape, Ready
    <3> QED BY Zenon, <2>1, <2>2, <2>4, <3>1, GrabDisk
  <2> QED BY Zenon, <1>3, <2>3, <2>4 DEF Retry
<1>4. CASE Retry(t) /\ env.faults
  <2>1. UNCHANGED <<place, env>>
    BY Zenon, <1>4 DEF Retry, Pick, Grab, PickEntry, entryVars, fixed
  <2> QED BY Zenon, <1>4, <2>1 DEF DiskInv
<1>5. CASE FailsBusy(t)
  <2>1. env.faults /\ UNCHANGED <<place, env>>
    BY Zenon, <1>5 DEF FailsBusy, entryVars, fixed
  <2> QED BY Zenon, <2>1 DEF DiskInv
<1> QED BY Zenon, <1>1, <1>2, <1>3, <1>4, <1>5, CallDisk, ReleaseDisk DEF Worker

(* The creation: threads have not started, and only files are picked.      *)
LEMMA CreateDisk ==
  ASSUME OwnInv, DiskInv, Create \/ \E e \in Entry : AllocThread(e) \/ AllocThreadExits(e)
  PROVE  DiskInv'
<1>0. Shape /\ Owned /\ Main \in Actor /\ \A t \in Thread : t \in Actor /\ t # Main
  BY Zenon, FilesetAssumption DEF OwnInv, Actor
<1>t. /\ pc \in [Actor -> Holding \cup OtherPc] /\ cur \in [Actor -> Entry \cup {None}]
      /\ allocs \in [Entry -> {"none", "writing", "ok", "error"}] /\ busy \subseteq Entry
      /\ place \in [Entry -> {"free", "exist", "noex"}]
  BY Zenon, <1>0 DEF Shape, DiskInv
<1>e. UNCHANGED <<env, script, ip>>
  BY Zenon DEF Create, CreatePicks, CreateSkips, CreateAllocates, CreateForks, CreateLeafdir,
     CreateEnds, AllocThread, AllocThreadExits, fixed
<1>h. Holds(Main) => cur[Main] \in Entry /\ cur[Main] \in busy
  BY Zenon, <1>0, <1>t DEF Owned
<1>p. place' \in [Entry -> {"free", "exist", "noex"}]
  <2>1. ASSUME NEW e, place' = [place EXCEPT ![e] = "exist"] \/ place' = [place EXCEPT ![e] = "noex"]
        PROVE  place' \in [Entry -> {"free", "exist", "noex"}]
    BY Zenon, <1>t, <2>1
  <2>2. place' = place \/ \E e : place' = [place EXCEPT ![e] = "exist"] \/ place' = [place EXCEPT ![e] = "noex"]
    BY Zenon DEF Create, CreatePicks, CreateSkips, CreateAllocates, CreateForks, CreateLeafdir,
       CreateEnds, AllocThread, AllocThreadExits, Unbusy, PickEntry, entryVars
  <2> QED BY Zenon, <1>t, <2>1, <2>2
<1> SUFFICES ASSUME ~env.faults
             PROVE  (\A f \in Entry \ busy' : Agrees(f)') /\ (\A u \in Thread : Ready(u)') /\ Creating'
  BY Zenon, <1>e, <1>p DEF DiskInv
<1>1. (\A f \in Entry \ busy : Agrees(f)) /\ (\A u \in Thread : Ready(u)) /\ Creating
  BY Zenon DEF DiskInv
<1>2. ASSUME NEW p, pc' = [pc EXCEPT ![Main] = p], pc[Main] # "done",
             \A f \in Entry \ busy' : Agrees(f)',
             p \in {"alloc", "skip"} => cur'[Main] \in File,
             p = "skip" => cur'[Main] \notin disk',
             \A e \in Entry : allocs'[e] = "writing" => e \in File
      PROVE  (\A f \in Entry \ busy' : Agrees(f)') /\ (\A u \in Thread : Ready(u)') /\ Creating'
  <2>1. (\A u \in Thread : pc'[u] = "next") /\ pc'[Main] = p
    BY Zenon, <1>0, <1>t, <1>1, <1>2 DEF Creating
  <2> QED BY Zenon, <1>2, <2>1 DEF Ready, Creating
<1>3. CASE CreatePicks
  <2>1. UNCHANGED <<place, disk, allocs>> /\ pc[Main] # "done"
    BY Zenon, <1>3 DEF CreatePicks, PickEntry, entryVars, createVars
  <2>2. CASE \E i \in 0 .. Count["file"] :
               /\ PickEntry(Main, "file", "free", i)
               /\ \E next \in {"alloc", "skip"} : pc' = [pc EXCEPT ![Main] = next]
    <3>0. PICK i : PickEntry(Main, "file", "free", i)
      BY Zenon, <2>2
    <3>1. PICK e \in Entry : /\ e \notin busy /\ e[1] = "file" /\ place[e] = "free"
                             /\ busy' = busy \cup {e} /\ cur' = [cur EXCEPT ![Main] = e]
      BY SMTT(30), <1>0, <3>0, PickedEntry
    <3>2. PICK h \in {"alloc", "skip"} : pc' = [pc EXCEPT ![Main] = h]
      BY Zenon, <2>2
    <3>a. cur'[Main] = e
      BY Zenon, <1>0, <1>t, <3>1
    <3>b. e \in File
      BY Zenon, <3>1 DEF File
    <3>c. Agrees(e)
      BY Zenon, <1>1, <3>1
    <3>d. e \notin disk
      BY Zenon, <3>1, <3>c DEF Agrees
    <3>3. cur'[Main] = e /\ e \in File /\ e \notin disk'
      BY Zenon, <2>1, <3>a, <3>b, <3>d
    <3>4. \A f \in Entry \ busy' : Agrees(f)'
      BY Zenon, <1>1, <2>1, <3>1 DEF Agrees
    <3>5. \A f \in Entry : allocs'[f] = "writing" => f \in File
      BY Zenon, <1>1, <2>1 DEF Creating
    <3> QED BY Zenon, <1>2, <2>1, <3>2, <3>3, <3>4, <3>5
  <2>3. ASSUME NEW p \in {"leafdirs", "pickwait"}, pc' = [pc EXCEPT ![Main] = p],
               UNCHANGED <<entryVars, cur>>
        PROVE  (\A f \in Entry \ busy' : Agrees(f)') /\ (\A u \in Thread : Ready(u)') /\ Creating'
    <3>1. \A f \in Entry \ busy' : Agrees(f)'
      BY Zenon, <1>1, <2>1, <2>3 DEF Agrees, entryVars
    <3>2. \A f \in Entry : allocs'[f] = "writing" => f \in File
      BY Zenon, <1>1, <2>1 DEF Creating
    <3> QED BY Zenon, <1>2, <2>1, <2>3, <3>1, <3>2
  <2> QED BY Zenon, <1>3, <2>2, <2>3 DEF CreatePicks
<1>4. CASE CreateSkips \/ CreateAllocates
  <2>1. /\ UNCHANGED <<cur, allocs>> /\ Holds(Main) /\ pc[Main] # "done"
        /\ busy' = busy \ {cur[Main]} /\ pc' = [pc EXCEPT ![Main] = "files"]
        /\ \/ place' = [place EXCEPT ![cur[Main]] = "noex"] /\ disk' = disk /\ pc[Main] = "skip"
           \/ place' = [place EXCEPT ![cur[Main]] = "exist"] /\ disk' = disk \cup {cur[Main]}
    BY Zenon, <1>4 DEF CreateSkips, CreateAllocates, Unbusy, createVars, Holds, Holding
  <2>2. /\ \A f \in Entry : f # cur[Main] => place'[f] = place[f] /\ (f \in disk' <=> f \in disk)
        /\ place'[cur[Main]] = "exist" <=> cur[Main] \in disk'
    BY Zenon, <1>h, <1>t, <1>1, <2>1 DEF Creating
  <2>3. \A f \in Entry \ busy' : Agrees(f)'
    BY Zenon, <1>1, <2>1, <2>2 DEF Agrees
  <2>4. \A f \in Entry : allocs'[f] = "writing" => f \in File
    BY Zenon, <1>1, <2>1 DEF Creating
  <2> QED BY Zenon, <1>2, <2>1, <2>3, <2>4
<1>5. CASE CreateForks
  <2>1. /\ UNCHANGED <<place, busy, disk, cur>> /\ pc[Main] = "alloc" /\ Holds(Main)
        /\ \/ pc' = [pc EXCEPT ![Main] = "leaked"] /\ allocs' = allocs
           \/ pc' = [pc EXCEPT ![Main] = "files"] /\ allocs' = [allocs EXCEPT ![cur[Main]] = "writing"]
    BY Zenon, <1>5 DEF CreateForks, entryVars, createVars, Holds, Holding
  <2>2. \A f \in Entry \ busy' : Agrees(f)'
    BY Zenon, <1>1, <2>1 DEF Agrees
  <2>3. \A f \in Entry : allocs'[f] = "writing" => f \in File
    BY Zenon, <1>t, <1>1, <2>1 DEF Creating
  <2> QED BY Zenon, <1>2, <2>1, <2>2, <2>3
<1>6. CASE CreateLeafdir
  <2>1. /\ UNCHANGED <<busy, cur, allocs>> /\ pc[Main] = "leafdirs"
    BY Zenon, <1>6 DEF CreateLeafdir, createVars
  <2>2. PICK p \in {"leafdirs", "drain", "failed"} : pc' = [pc EXCEPT ![Main] = p]
    <3>1. pc' = pc => pc' = [pc EXCEPT ![Main] = "leafdirs"]
      BY Zenon, <1>0, <1>t, <2>1
    <3> QED BY Zenon, <1>6, <3>1 DEF CreateLeafdir
  <2>3. \A f \in Entry : f[1] = "leafdir" => f \notin busy
    <3> SUFFICES ASSUME NEW f \in Entry, f[1] = "leafdir", f \in busy PROVE FALSE
      BY Zenon
    <3>1. allocs[f] # "writing"
      BY Zenon, <1>1 DEF Creating, File
    <3>2. PICK a \in Actor : Holds(a)
      BY Zenon, <1>0, <3>1 DEF Owned
    <3>3. pc[a] \in {"leafdirs", "next"}
      BY Zenon, <1>1, <2>1 DEF Actor, Creating
    <3> QED BY Zenon, <3>2, <3>3 DEF Holds, Holding
  <2>4. \A f \in Entry \ busy' : Agrees(f)'
    <3>1. CASE UNCHANGED <<place, disk>>
      BY Zenon, <1>1, <2>1, <3>1 DEF Agrees
    <3>2. CASE \E e \in Tree("leafdir", "free") :
                 \/ place' = [place EXCEPT ![e] = "noex"] /\ UNCHANGED disk
                 \/ place' = [place EXCEPT ![e] = "exist"] /\ disk' = disk \cup {e}
      <4>1. PICK e \in Tree("leafdir", "free") :
                 \/ place' = [place EXCEPT ![e] = "noex"] /\ UNCHANGED disk
                 \/ place' = [place EXCEPT ![e] = "exist"] /\ disk' = disk \cup {e}
        BY Zenon, <3>2
      <4>2. e \in Entry /\ e \notin busy /\ e \notin disk
        BY Zenon, <1>1, <2>3 DEF Tree, Agrees
      <4>3. \A f \in Entry : f # e => place'[f] = place[f] /\ (f \in disk' <=> f \in disk)
        BY Zenon, <1>t, <4>1
      <4>4. place'[e] = "exist" <=> e \in disk'
        BY Zenon, <1>t, <4>1, <4>2
      <4> QED BY Zenon, <1>1, <2>1, <4>3, <4>4 DEF Agrees
    <3> QED BY Zenon, <1>6, <3>1, <3>2 DEF CreateLeafdir
  <2>5. \A f \in Entry : allocs'[f] = "writing" => f \in File
    BY Zenon, <1>1, <2>1 DEF Creating
  <2> QED BY Zenon, <1>2, <2>1, <2>2, <2>4, <2>5
<1>7. CASE CreateEnds
  <2>1. /\ UNCHANGED <<place, busy, disk, cur, allocs>> /\ pc[Main] = "drain"
        /\ \E p \in {"failed", "done"} : pc' = [pc EXCEPT ![Main] = p]
    BY Zenon, <1>7 DEF CreateEnds, entryVars, createVars
  <2>2. \A f \in Entry \ busy' : Agrees(f)'
    BY Zenon, <1>1, <2>1 DEF Agrees
  <2>3. \A f \in Entry : allocs'[f] = "writing" => f \in File
    BY Zenon, <1>1, <2>1 DEF Creating
  <2> QED BY Zenon, <1>2, <2>1, <2>2, <2>3
<1>8. ASSUME NEW e \in Entry, AllocThread(e) \/ AllocThreadExits(e)
      PROVE  (\A f \in Entry \ busy' : Agrees(f)') /\ (\A u \in Thread : Ready(u)') /\ Creating'
  <2>1. /\ UNCHANGED <<pc, cur>> /\ \E s \in {"ok", "none"} : allocs' = [allocs EXCEPT ![e] = s]
        /\ \/ UNCHANGED <<place, busy, disk>>
           \/ /\ place' = [place EXCEPT ![e] = "exist"] /\ disk' = disk \cup {e}
              /\ busy' = busy \ {e} /\ allocs[e] = "writing"
    BY Zenon, <1>8 DEF AllocThread, AllocThreadExits, Unbusy, entryVars
  <2>2. \A f \in Entry : allocs'[f] = "writing" => f \in File
    BY Zenon, <1>t, <1>1, <2>1 DEF Creating
  <2>3. CASE UNCHANGED <<place, busy, disk>>
    <3>1. \A f \in Entry \ busy' : Agrees(f)'
      BY Zenon, <1>1, <2>3 DEF Agrees
    <3>2. \A u \in Thread : Ready(u)'
      BY Zenon, <1>1, <1>e, <2>1, <2>3, ReadyKept
    <3>3. Creating'
      BY Zenon, <1>1, <2>1, <2>2, <2>3 DEF Creating
    <3> QED BY Zenon, <3>1, <3>2, <3>3
  <2>4. CASE /\ place' = [place EXCEPT ![e] = "exist"] /\ disk' = disk \cup {e}
             /\ busy' = busy \ {e} /\ allocs[e] = "writing"
    <3>1. /\ \A f \in Entry : f # e => place'[f] = place[f] /\ (f \in disk' <=> f \in disk)
          /\ place'[e] = "exist" /\ e \in disk'
      BY Zenon, <1>t, <2>4
    <3>2. \A f \in Entry \ busy' : Agrees(f)'
      BY Zenon, <1>1, <2>4, <3>1 DEF Agrees
    <3>3. \A a \in Actor : pc[a] \in Holding => cur[a] # e /\ cur[a] \in Entry
      BY Zenon, <1>0, <1>t, <2>4 DEF Owned, Holds
    <3>4. \A u \in Thread : Ready(u)'
      BY Zenon, <1>0, <1>1, <1>e, <2>1, <3>1, <3>3, ReadyKept
    <3>5. Creating'
      <4>1. pc[Main] = "skip" => cur[Main] # e /\ cur[Main] \in Entry
        BY Zenon, <1>0, <3>3 DEF Holding
      <4> QED BY Zenon, <1>1, <2>1, <2>2, <3>1, <4>1 DEF Creating
    <3> QED BY Zenon, <3>2, <3>4, <3>5
  <2> QED BY Zenon, <2>1, <2>3, <2>4
<1> QED BY Zenon, <1>3, <1>4, <1>5, <1>6, <1>7, <1>8 DEF Create

(* Every step keeps the trees true to the disk.                            *)
LEMMA DiskStep == OwnInv /\ DiskInv /\ [Next]_vars => DiskInv'
<1> SUFFICES ASSUME OwnInv, DiskInv, [Next]_vars PROVE DiskInv'
  BY Zenon
<1>1. ASSUME UNCHANGED vars PROVE DiskInv'
  <2>1. UNCHANGED <<place, busy, disk, env, pc, cur, script, ip, allocs>>
    BY Zenon, <1>1 DEF vars, entryVars, fixed, createVars
  <2>2. \A u \in Thread : Ready(u) => Ready(u)'
    BY Zenon, <2>1, ReadyKept
  <2> QED BY Zenon, <2>1, <2>2 DEF DiskInv, Agrees, Creating
<1> QED BY Zenon, <1>1, CreateDisk, WorkerDisk DEF Next, Over

(* The trees agree with the disk about every entry that is not busy, and   *)
(* openfile never meets a missing file, as long as no call fails.          *)
THEOREM TreesMatchDisk == Spec => []DiskAgrees
<1>1. DiskInv => DiskAgrees
  BY Zenon DEF DiskInv, DiskAgrees, Agrees, Ready
<1> QED BY <1>1, OwnInit, OwnStep, DiskInit, DiskStep, PTL DEF Spec

-----------------------------------------------------------------------------
(***************************************************************************)
(* The open counts.  A slot claims the entry it has open, also while a     *)
(* deletefile through it, which has forgotten the entry, waits or decides. *)
(* fse_open_cnt covers the claims; between the open and the release of an  *)
(* openfile or createfile it may be one behind.                            *)
(***************************************************************************)
Opens == {"open", "io", "create"}
Deleting(t, fd, e) ==
  /\ pc[t] \in {"busywait", "fscall"} /\ cur[t] = e
  /\ CurOp(t).op = "delete" /\ CurOp(t).fd = fd /\ fd > 0
Claim(t, fd, e) == fd \in tfFd[t] /\ (tfFse[t][fd] = e \/ Deleting(t, fd, e))
Claims(e) == {s \in Thread \X Fd : Claim(s[1], s[2], e)}
Opening(e) == \E t \in Thread : pc[t] = "release" /\ CurOp(t).op \in Opens /\ cur[t] = e
Covered(e) ==
  /\ IsFiniteSet(Claims(e))
  /\ Cardinality(Claims(e)) <= openCnt[e] + (IF Opening(e) THEN 1 ELSE 0)

(* What a thread knows of the slot of its flowop.                          *)
Tidy(t) ==
  LET op == CurOp(t).op
      fd == CurOp(t).fd
  IN
  /\ pc[t] \in {"pickwait", "fscall"} /\ op \in Opens => fd \notin tfFd[t]
  /\ pc[t] \in {"fscall", "release"} /\ op \in Opens => tfFse[t][fd] = cur[t]
  /\ pc[t] = "pickwait" => op # "close" /\ (op = "delete" => fd = 0 \/ fd \notin tfFd[t])
  /\ pc[t] \in {"busywait", "fscall", "release"} /\ op = "close" =>
       fd \in tfFd[t] /\ tfFse[t][fd] = cur[t]
  /\ pc[t] = "busywait" => op \in {"close", "delete"}
  /\ pc[t] \in {"busywait", "fscall"} /\ op = "delete" => fd = 0 \/ fd \notin tfFd[t] \/ tfFse[t][fd] = None
  /\ pc[t] = "fscall" /\ op = "removedir" => cur[t] \notin File
  /\ pc[t] = "release" /\ op = "delete" =>
       \A e \in Entry : e = cur[t] => Claims(e) = {}
SlotInv ==
  /\ openCnt \in [Entry -> Nat] /\ tfFd \in [Thread -> SUBSET Fd]
  /\ \A e \in Entry : Covered(e)
  /\ \A t \in Thread : Tidy(t)

(* Nobody but thread t moves.                                              *)
OnlyMoves(t) ==
  /\ script' = script
  /\ \A u \in Thread \ {t} : /\ pc'[u] = pc[u] /\ cur'[u] = cur[u] /\ ip'[u] = ip[u]
                             /\ tfFd'[u] = tfFd[u] /\ tfFse'[u] = tfFse[u]

(* The other threads keep their claims.                                    *)
LEMMA OthersClaim ==
  ASSUME NEW t \in Thread, OnlyMoves(t), NEW u \in Thread, u # t, NEW fd, NEW e
  PROVE  Claim(u, fd, e)' <=> Claim(u, fd, e)
<1>1. /\ pc'[u] = pc[u] /\ cur'[u] = cur[u] /\ tfFd'[u] = tfFd[u] /\ tfFse'[u] = tfFse[u]
      /\ CurOp(u)' = CurOp(u)
  BY Zenon DEF OnlyMoves, CurOp
<1> QED BY Zenon, <1>1 DEF Claim, Deleting

(* The claims on an entry after a step in which thread t gets none.        *)
LEMMA FewerClaims ==
  ASSUME NEW t \in Thread, OnlyMoves(t), NEW e,
         \A fd \in Fd : Claim(t, fd, e)' => Claim(t, fd, e)
  PROVE  Claims(e)' \subseteq Claims(e)
<1> SUFFICES ASSUME NEW s \in Thread \X Fd, Claim(s[1], s[2], e)'
             PROVE  Claim(s[1], s[2], e)
  BY Zenon DEF Claims
<1>1. s[1] \in Thread /\ s[2] \in Fd
  BY Zenon
<1>2. CASE s[1] = t
  BY Zenon, <1>1, <1>2
<1>3. CASE s[1] # t
  BY Zenon, <1>1, <1>3, OthersClaim
<1> QED BY Zenon, <1>2, <1>3

(* Fewer claims are covered by the same count.                             *)
LEMMA CoveredKept ==
  ASSUME NEW e, Covered(e), Claims(e)' \subseteq Claims(e), openCnt[e] \in Nat, openCnt'[e] = openCnt[e],
         Opening(e) => Opening(e)'
  PROVE  Covered(e)'
<1>1. /\ IsFiniteSet(Claims(e)') /\ Cardinality(Claims(e)') <= Cardinality(Claims(e))
      /\ Cardinality(Claims(e)') \in Nat /\ Cardinality(Claims(e)) \in Nat
  BY Zenon, FS_Subset, FS_CardinalityType DEF Covered
<1> DEFINE a == IF Opening(e) THEN 1 ELSE 0
           b == IF Opening(e)' THEN 1 ELSE 0
<1>2. a \in Nat /\ b \in Nat /\ a <= b
  OBVIOUS
<1>3. Cardinality(Claims(e)) <= openCnt[e] + a
  BY Zenon DEF Covered
<1> HIDE DEF a, b
<1>4. Cardinality(Claims(e)') <= openCnt'[e] + b
  BY <1>1, <1>2, <1>3
<1> QED BY Zenon, <1>1, <1>4 DEF Covered, b

(* What thread t does leaves another one tidy.                             *)
LEMMA OthersTidy ==
  ASSUME NEW t \in Thread, OnlyMoves(t), NEW u \in Thread, u # t, Tidy(u),
         \A e \in Entry : pc[u] = "release" /\ cur[u] = e => Claims(e)' \subseteq Claims(e)
  PROVE  Tidy(u)'
<1>1. /\ pc'[u] = pc[u] /\ cur'[u] = cur[u] /\ tfFd'[u] = tfFd[u] /\ tfFse'[u] = tfFse[u]
      /\ CurOp(u)' = CurOp(u)
  BY Zenon DEF OnlyMoves, CurOp
<1>2. \A e \in Entry : pc[u] = "release" /\ e = cur[u] /\ Claims(e) = {} => Claims(e)' = {}
  <2> SUFFICES ASSUME NEW e \in Entry, pc[u] = "release", cur[u] = e, Claims(e) = {}
               PROVE  Claims(e)' = {}
    BY Zenon
  <2>1. Claims(e)' \subseteq Claims(e)
    BY Zenon
  <2> QED BY Zenon, <2>1
<1> QED BY <1>1, <1>2 DEF Tidy

(* A step in which a thread moves without opening, closing or counting.    *)
LEMMA QuietSlots ==
  ASSUME SlotInv, NEW t \in Thread, OnlyMoves(t), pc[t] # "release",
         openCnt' = openCnt, tfFd' = tfFd, Tidy(t)',
         \A e \in Entry, fd \in Fd : Claim(t, fd, e)' => Claim(t, fd, e)
  PROVE  SlotInv'
<1>0. /\ openCnt \in [Entry -> Nat] /\ tfFd \in [Thread -> SUBSET Fd]
      /\ \A e \in Entry : Covered(e)
      /\ \A u \in Thread : Tidy(u)
  BY Zenon DEF SlotInv
<1>1. \A e \in Entry : Claims(e)' \subseteq Claims(e)
  BY Zenon, FewerClaims
<1>2. ASSUME NEW e, Opening(e) PROVE Opening(e)'
  <2>1. PICK u \in Thread : pc[u] = "release" /\ CurOp(u).op \in Opens /\ cur[u] = e
    BY Zenon, <1>2 DEF Opening
  <2>2. pc'[u] = pc[u] /\ CurOp(u)' = CurOp(u) /\ cur'[u] = cur[u]
    BY Zenon, <2>1 DEF OnlyMoves, CurOp
  <2> QED BY Zenon, <2>1, <2>2 DEF Opening
<1>3. \A e \in Entry : Covered(e)'
  BY Zenon, <1>0, <1>1, <1>2, CoveredKept
<1>4. \A u \in Thread : Tidy(u)'
  <2> SUFFICES ASSUME NEW u \in Thread, u # t PROVE Tidy(u)'
    BY Zenon
  <2> QED BY Zenon, <1>0, <1>1, OthersTidy
<1> QED BY Zenon, <1>0, <1>3, <1>4 DEF SlotInv

(* A step that moves thread t in the usual form.                           *)
LEMMA Moves ==
  ASSUME Shape, NEW t \in Thread, script' = script, NEW p, pc' = [pc EXCEPT ![t] = p],
         NEW c, cur' = cur \/ cur' = [cur EXCEPT ![t] = c],
         \A u \in Thread \ {t} : ip'[u] = ip[u] /\ tfFd'[u] = tfFd[u] /\ tfFse'[u] = tfFse[u]
  PROVE  OnlyMoves(t) /\ pc'[t] = p /\ t \in Actor
<1>1. t \in Actor /\ \A u \in Actor : pc'[u] = IF u = t THEN p ELSE pc[u]
  BY Zenon DEF Shape, Actor
<1>2. \A u \in Actor \ {t} : cur'[u] = cur[u]
  BY Zenon DEF Shape
<1> QED BY Zenon, <1>1, <1>2 DEF OnlyMoves, Actor

(* fileset_pick on behalf of a thread.                                     *)
LEMMA PickSlots ==
  ASSUME OwnInv, SlotInv, NEW t \in Thread, pc[t] \in {"next", "pickwait"}, Pick(t),
         CurOp(t).op # "close", CurOp(t).op \in Opens => CurOp(t).fd \notin tfFd[t],
         CurOp(t).op = "delete" => CurOp(t).fd = 0 \/ CurOp(t).fd \notin tfFd[t],
         UNCHANGED <<script, tfFd>>
  PROVE  SlotInv'
<1> DEFINE f == CurOp(t)
           r == PickOf(f.op)
<1>0. Shape /\ t \in Actor /\ f \in Flowop /\ f.fd \in Fd
  BY Zenon, CurrentFlowop DEF OwnInv, Actor, Flowop
<1>t. /\ tfFse \in [Thread -> [Fd -> File \cup {None}]] /\ cur \in [Actor -> Entry \cup {None}]
      /\ pc[t] # "release"
  BY Zenon, <1>0 DEF Shape
<1>1. CASE /\ pc' = [pc EXCEPT ![t] = "pickwait"]
           /\ UNCHANGED <<entryVars, cur, rotor, tfFse, ip, ops, abort>>
  <2>1. OnlyMoves(t) /\ pc'[t] = "pickwait" /\ openCnt' = openCnt /\ CurOp(t)' = CurOp(t)
    BY Zenon, <1>0, <1>1, Moves DEF entryVars, CurOp
  <2>2. Tidy(t)'
    BY <2>1 DEF Tidy
  <2>3. \A e \in Entry, fd \in Fd : Claim(t, fd, e)' => Claim(t, fd, e)
    BY Zenon, <1>1, <2>1 DEF Claim, Deleting
  <2> QED BY Zenon, <1>t, <2>1, <2>2, <2>3, QuietSlots
<1>2. CASE /\ \E j \in (IF f.indexed THEN 0 .. Count[r[1]] ELSE {rotor[r]}) : PickEntry(t, r[1], r[2], j)
           /\ pc' = [pc EXCEPT ![t] = "fscall"]
           /\ tfFse' = IF f.op \in {"open", "io", "create"}
                       THEN [tfFse EXCEPT ![t][f.fd] = cur'[t]] ELSE tfFse
           /\ UNCHANGED <<ip, ops, abort>>
  <2>0. PICK j : PickEntry(t, r[1], r[2], j)
    BY Zenon, <1>2
  <2>1. PICK c \in Entry : c[1] = r[1] /\ cur' = [cur EXCEPT ![t] = c]
    <3> HIDE DEF r
    <3> QED BY <1>0, <2>0, PickedEntry
  <2>2. /\ \A u \in Thread \ {t} : tfFse'[u] = tfFse[u]
        /\ \A fd \in Fd : fd # f.fd => tfFse'[t][fd] = tfFse[t][fd]
        /\ f.op \in Opens => tfFse'[t][f.fd] = cur'[t]
        /\ f.op \notin Opens => tfFse' = tfFse
    <3> HIDE DEF f
    <3> QED BY Zenon, <1>0, <1>2, <1>t DEF Opens
  <2>3. OnlyMoves(t) /\ pc'[t] = "fscall" /\ CurOp(t)' = CurOp(t) /\ openCnt' = openCnt
    <3>1. openCnt' = openCnt
      BY Zenon, <2>0 DEF PickEntry
    <3>2. \A u \in Thread \ {t} : ip'[u] = ip[u] /\ tfFd'[u] = tfFd[u] /\ tfFse'[u] = tfFse[u]
      BY Zenon, <1>2, <2>2
    <3>3. pc' = [pc EXCEPT ![t] = "fscall"] /\ script' = script /\ ip' = ip
      BY Zenon, <1>2
    <3>4. OnlyMoves(t) /\ pc'[t] = "fscall"
      BY ONLY Zenon, <1>0, <2>1, <3>2, <3>3, t \in Thread, Moves
    <3> QED BY Zenon, <3>1, <3>3, <3>4 DEF CurOp
  <2>4. f.op = "removedir" => cur'[t] \notin File
    <3>1. cur'[t] = c
      BY Zenon, <1>0, <1>t, <2>1
    <3> QED BY Zenon, <2>1, <3>1 DEF PickOf, File
  <2>5. Tidy(t)'
    BY Zenon, <2>2, <2>3, <2>4 DEF Tidy
  <2>6. ASSUME NEW e \in Entry, NEW fd \in Fd, Claim(t, fd, e)' PROVE Claim(t, fd, e)
    <3>1. fd \in tfFd[t]
      BY Zenon, <2>6 DEF Claim
    <3>2. ~Deleting(t, fd, e)'
      <4>1. f.op = "delete" /\ f.fd = fd => fd = 0
        BY Zenon, <3>1
      <4>2. fd = 0 => ~(fd > 0)
        OBVIOUS
      <4> QED BY Zenon, <2>3, <4>1, <4>2 DEF Deleting
    <3>3. tfFse'[t][fd] = e
      BY Zenon, <2>6, <3>2 DEF Claim
    <3>4. tfFse'[t][fd] = tfFse[t][fd]
      BY Zenon, <2>2, <3>1
    <3> QED BY Zenon, <3>1, <3>3, <3>4 DEF Claim
  <2> QED BY Zenon, <1>t, <2>3, <2>5, <2>6, QuietSlots
<1>3. CASE /\ Finish(t, IF f.op = "listdir" THEN "error" ELSE "norsc")
           /\ UNCHANGED <<entryVars, cur, tfFse>>
  <2>1. pc' = [pc EXCEPT ![t] = "stopped"]
    BY SMTT(30), <1>0, <1>3, FinishShape
  <2>2. \A u \in Thread \ {t} : ip'[u] = ip[u]
    BY Zenon, <1>0, <1>3 DEF Finish, Shape
  <2>3. OnlyMoves(t) /\ pc'[t] = "stopped" /\ openCnt' = openCnt
    BY Zenon, <1>0, <1>3, <2>1, <2>2, Moves DEF entryVars
  <2>4. Tidy(t)'
    BY Zenon, <2>3 DEF Tidy
  <2>5. \A e \in Entry, fd \in Fd : Claim(t, fd, e)' => Claim(t, fd, e)
    BY Zenon, <1>3, <2>3 DEF Claim, Deleting
  <2> QED BY Zenon, <1>t, <2>3, <2>4, <2>5, QuietSlots
<1> QED BY Zenon, <1>1, <1>2, <1>3 DEF Pick

(* closefile and deletefile of a given entry: a deletefile that forgets    *)
(* the entry of its slot goes on claiming it.                              *)
LEMMA GrabSlots ==
  ASSUME OwnInv, SlotInv, NEW t \in Thread, pc[t] \in {"next", "busywait"}, NEW c \in File, Grab(t, c),
         CurOp(t).op \in {"close", "delete"},
         CurOp(t).op = "close" => /\ CurOp(t).fd \in tfFd[t] /\ tfFse[t][CurOp(t).fd] = c
                                  /\ tfFse' = tfFse,
         CurOp(t).op = "delete" /\ pc[t] = "next" =>
           /\ tfFse[t][CurOp(t).fd] = c /\ tfFse'[t][CurOp(t).fd] = None
           /\ \A fd \in Fd : fd # CurOp(t).fd => tfFse'[t][fd] = tfFse[t][fd],
         pc[t] = "busywait" => cur[t] = c /\ tfFse' = tfFse,
         \A u \in Thread \ {t} : tfFse'[u] = tfFse[u],
         UNCHANGED <<script, ip, tfFd>>
  PROVE  SlotInv'
<1>0. Shape /\ t \in Actor /\ CurOp(t).fd \in Fd /\ pc[t] # "release"
  BY Zenon, CurrentFlowop DEF OwnInv, Actor, Flowop
<1>1. PICK p \in {"busywait", "fscall"} : pc' = [pc EXCEPT ![t] = p]
  BY Zenon DEF Grab
<1>2. cur' = [cur EXCEPT ![t] = c] /\ cur'[t] = c /\ openCnt' = openCnt
  BY Zenon, <1>0 DEF Grab, Shape
<1>3. OnlyMoves(t) /\ pc'[t] = p /\ CurOp(t)' = CurOp(t)
  BY Zenon, <1>0, <1>1, <1>2, Moves DEF CurOp
<1>d. CurOp(t).op = "delete" => \/ CurOp(t).fd = 0 \/ CurOp(t).fd \notin tfFd[t]
                                \/ tfFse'[t][CurOp(t).fd] = None
  BY Zenon DEF SlotInv, Tidy
<1>4. Tidy(t)'
  BY Zenon, <1>2, <1>3, <1>d DEF Tidy, Opens
<1>5. ASSUME NEW e \in Entry, NEW fd \in Fd, Claim(t, fd, e)' PROVE Claim(t, fd, e)
  <2>1. fd \in tfFd[t] /\ (tfFse'[t][fd] = e \/ Deleting(t, fd, e)')
    BY Zenon, <1>5 DEF Claim
  <2>2. CASE Deleting(t, fd, e)'
    <3>1. CurOp(t).op = "delete" /\ CurOp(t).fd = fd /\ fd > 0 /\ c = e
      BY Zenon, <1>2, <1>3, <2>2 DEF Deleting
    <3>2. CASE pc[t] = "next"
      BY Zenon, <2>1, <3>1, <3>2 DEF Claim
    <3>3. CASE pc[t] = "busywait"
      BY Zenon, <2>1, <3>1, <3>3 DEF Claim, Deleting
    <3> QED BY Zenon, <3>2, <3>3
  <2>3. CASE tfFse'[t][fd] = e
    <3>1. CASE tfFse' = tfFse
      BY Zenon, <2>1, <2>3, <3>1 DEF Claim
    <3>2. CASE tfFse' # tfFse
      <4>1. CurOp(t).op = "delete" /\ pc[t] = "next"
        BY Zenon, <3>2
      <4>2. CASE fd = CurOp(t).fd
        <5>1. e = None
          BY Zenon, <2>3, <4>1, <4>2
        <5> QED BY Zenon, <5>1, FilesetAssumption
      <4>3. CASE fd # CurOp(t).fd
        BY Zenon, <2>1, <2>3, <4>1, <4>3 DEF Claim
      <4> QED BY Zenon, <4>2, <4>3
    <3> QED BY Zenon, <3>1, <3>2
  <2> QED BY Zenon, <2>1, <2>2, <2>3
<1> QED BY Zenon, <1>0, <1>2, <1>3, <1>4, <1>5, QuietSlots

(* Only the owner of an entry may have opened it and not counted it yet.   *)
LEMMA OwnerOpens ==
  ASSUME OwnInv, NEW t \in Thread, Holds(t), NEW c \in Entry, cur[t] = c, Opening(c)
  PROVE  pc[t] = "release" /\ CurOp(t).op \in Opens
<1>1. PICK u \in Thread : pc[u] = "release" /\ CurOp(u).op \in Opens /\ cur[u] = c
  BY Zenon DEF Opening
<1>2. Holds(u) /\ u \in Actor /\ t \in Actor
  BY Zenon, <1>1 DEF Holds, Holding, Actor
<1>3. u = t
  BY Zenon, <1>1, <1>2 DEF OwnInv, Owned
<1> QED BY Zenon, <1>1, <1>3

(* Threads at their release hold entries of their own.                     *)
LEMMA ReleasesApart ==
  ASSUME OwnInv, NEW t \in Thread, Holds(t), NEW u \in Thread, u # t, pc[u] = "release"
  PROVE  cur[u] # cur[t]
BY Zenon DEF OwnInv, Owned, Holds, Holding, Actor

(* openfile and createfile have opened their file, and a slot more has it. *)
LEMMA OpenSlots ==
  ASSUME OwnInv, SlotInv, NEW t \in Thread, pc[t] = "fscall", CurOp(t).op \in Opens,
         tfFd' = [tfFd EXCEPT ![t] = @ \cup {CurOp(t).fd}], pc' = [pc EXCEPT ![t] = "release"],
         UNCHANGED <<openCnt, cur, script, ip, tfFse>>
  PROVE  SlotInv'
<1> DEFINE x == CurOp(t).fd
<1>0. Shape /\ Owned /\ t \in Actor /\ x \in Fd /\ Holds(t)
  BY Zenon, CurrentFlowop DEF OwnInv, Actor, Flowop, Holds, Holding
<1>s. /\ openCnt \in [Entry -> Nat] /\ tfFd \in [Thread -> SUBSET Fd]
      /\ \A e \in Entry : Covered(e)
      /\ \A u \in Thread : Tidy(u)
  BY Zenon DEF SlotInv
<1>1. PICK c \in Entry : c = cur[t]
  BY Zenon, <1>0 DEF Owned, Shape
<1>2. x \notin tfFd[t] /\ tfFse[t][x] = c
  BY Zenon, <1>s, <1>1 DEF Tidy
<1>3. /\ tfFd' \in [Thread -> SUBSET Fd] /\ tfFd'[t] = tfFd[t] \cup {x}
      /\ \A u \in Thread \ {t} : tfFd'[u] = tfFd[u]
  <2> HIDE DEF x
  <2>1. tfFd' = [tfFd EXCEPT ![t] = tfFd[t] \cup {x}]
    BY Zenon DEF x
  <2>2. tfFd[t] \cup {x} \in SUBSET Fd
    BY Zenon, <1>0, <1>s
  <2> QED BY Zenon, <1>s, <2>1, <2>2
<1>4. OnlyMoves(t) /\ pc'[t] = "release" /\ CurOp(t)' = CurOp(t) /\ cur'[t] = c
  BY Zenon, <1>0, <1>1, <1>3, Moves DEF CurOp
<1>5. \A fd, e : ~Deleting(t, fd, e)'
  BY Zenon, <1>4 DEF Deleting
<1>6. \A fd \in Fd, e \in Entry : Claim(t, fd, e)' => Claim(t, fd, e) \/ (fd = x /\ e = c)
  <2> HIDE DEF x
  <2> QED BY Zenon, <1>2, <1>3, <1>5 DEF Claim
<1>7. ASSUME NEW e \in Entry, e # c PROVE Claims(e)' \subseteq Claims(e)
  BY Zenon, <1>4, <1>6, <1>7, FewerClaims
<1>8. ASSUME NEW e \in Entry, Opening(e) PROVE Opening(e)'
  <2>1. PICK u \in Thread : pc[u] = "release" /\ CurOp(u).op \in Opens /\ cur[u] = e
    BY Zenon, <1>8 DEF Opening
  <2>2. pc'[u] = pc[u] /\ CurOp(u)' = CurOp(u) /\ cur'[u] = cur[u]
    BY Zenon, <1>4, <2>1 DEF OnlyMoves, CurOp
  <2> QED BY Zenon, <2>1, <2>2 DEF Opening
<1>9. ASSUME NEW e \in Entry, e # c PROVE Covered(e)'
  BY Zenon, <1>s, <1>7, <1>8, <1>9, CoveredKept
<1>10. Covered(c)'
  <2>1. Opening(c)'
    BY Zenon, <1>4 DEF Opening
  <2>2. ~Opening(c)
    BY Zenon, <1>0, <1>1, OwnerOpens
  <2>3. IsFiniteSet(Claims(c)) /\ Cardinality(Claims(c)) <= openCnt[c] + 0 /\ Cardinality(Claims(c)) \in Nat
    BY Zenon, <1>s, <2>2, FS_CardinalityType DEF Covered
  <2>4. <<t, x>> \notin Claims(c)
    BY Zenon, <1>2 DEF Claims, Claim
  <2> DEFINE S == Claims(c) \cup {<<t, x>>}
  <2>5. IsFiniteSet(S) /\ Cardinality(S) = Cardinality(Claims(c)) + 1
    BY Zenon, <2>3, <2>4, FS_AddElement
  <2>6. Claims(c)' \subseteq S
    <3> SUFFICES ASSUME NEW s \in Thread \X Fd, Claim(s[1], s[2], c)', s # <<t, x>>
                 PROVE  Claim(s[1], s[2], c)
      BY Zenon DEF Claims
    <3>1. s[1] \in Thread /\ s[2] \in Fd /\ s = <<s[1], s[2]>>
      BY SMT
    <3>2. CASE s[1] = t
      BY Zenon, <1>6, <3>1, <3>2
    <3>3. CASE s[1] # t
      BY Zenon, <1>4, <3>1, <3>3, OthersClaim
    <3> QED BY Zenon, <3>2, <3>3
  <2>7. /\ IsFiniteSet(Claims(c)') /\ Cardinality(Claims(c)') <= Cardinality(S)
        /\ Cardinality(Claims(c)') \in Nat
    BY Zenon, <2>5, <2>6, FS_Subset, FS_CardinalityType
  <2>8. openCnt[c] \in Nat /\ openCnt'[c] = openCnt[c]
    BY Zenon, <1>s
  <2> HIDE DEF S
  <2>9. Cardinality(Claims(c)') <= openCnt'[c] + 1
    BY <2>3, <2>5, <2>7, <2>8
  <2> QED BY Zenon, <2>1, <2>7, <2>9 DEF Covered
<1>11. Tidy(t)'
  BY Zenon, <1>2, <1>4 DEF Tidy, Opens
<1>12. ASSUME NEW u \in Thread, u # t PROVE Tidy(u)'
  <2>1. \A e \in Entry : pc[u] = "release" /\ cur[u] = e => Claims(e)' \subseteq Claims(e)
    BY Zenon, <1>0, <1>1, <1>7, <1>12, ReleasesApart
  <2> QED BY Zenon, <1>s, <1>4, <1>12, <2>1, OthersTidy
<1>13. openCnt' \in [Entry -> Nat] /\ tfFd' \in [Thread -> SUBSET Fd]
  BY Zenon, <1>s, <1>3
<1>14. \A e \in Entry : Covered(e)'
  BY Zenon, <1>9, <1>10
<1>15. \A u \in Thread : Tidy(u)'
  BY Zenon, <1>11, <1>12
<1> QED BY Zenon, <1>13, <1>14, <1>15 DEF SlotInv

(* deletefile goes on only if no slot but its own claims the file.         *)
LEMMA DeletesAlone ==
  ASSUME OwnInv, SlotInv, NEW t \in Thread, pc[t] = "fscall", CurOp(t).op = "delete", Deletes(t),
         NEW c \in Entry, cur[t] = c
  PROVE  Claims(c) \subseteq {<<t, CurOp(t).fd>>}
<1> DEFINE x == CurOp(t).fd
<1>0. Holds(t) /\ x \in Fd /\ x \in Nat /\ openCnt[c] \in Nat /\ Covered(c)
  <2>1. Holds(t) /\ x \in Fd /\ openCnt[c] \in Nat /\ Covered(c)
    BY Zenon, CurrentFlowop DEF OwnInv, Flowop, Holds, Holding, SlotInv
  <2> QED BY <2>1, FilesetAssumption DEF Fd
<1>1. ~Opening(c)
  BY Zenon, <1>0, OwnerOpens
<1>2. IsFiniteSet(Claims(c)) /\ Cardinality(Claims(c)) <= openCnt[c] + 0 /\ Cardinality(Claims(c)) \in Nat
  BY Zenon, <1>0, <1>1, FS_CardinalityType DEF Covered
<1>3. openCnt[c] <= (IF x > 0 /\ x \in tfFd[t] THEN 1 ELSE 0)
  BY Zenon DEF Deletes
<1> HIDE DEF x
<1>4. CASE x > 0 /\ x \in tfFd[t]
  <2>1. <<t, x>> \in Claims(c)
    BY Zenon, <1>0, <1>4 DEF Claims, Claim, Deleting, x
  <2>2. Cardinality(Claims(c) \ {<<t, x>>}) = Cardinality(Claims(c)) - 1 /\ IsFiniteSet(Claims(c) \ {<<t, x>>})
    BY Zenon, <1>2, <2>1, FS_RemoveElement
  <2>3. Cardinality(Claims(c) \ {<<t, x>>}) \in Nat
    BY Zenon, <2>2, FS_CardinalityType
  <2>4. Cardinality(Claims(c) \ {<<t, x>>}) = 0
    BY <1>0, <1>2, <1>3, <1>4, <2>2, <2>3
  <2>5. Claims(c) \ {<<t, x>>} = {}
    BY Zenon, <2>2, <2>4, FS_EmptySet
  <2> QED BY Zenon, <2>5 DEF x
<1>5. CASE ~(x > 0 /\ x \in tfFd[t])
  <2>1. Cardinality(Claims(c)) = 0
    BY <1>0, <1>2, <1>3, <1>5
  <2>2. Claims(c) = {}
    BY Zenon, <1>2, <2>1, FS_EmptySet
  <2> QED BY Zenon, <2>2
<1> QED BY Zenon, <1>4, <1>5

(* The file-system call.                                                   *)
LEMMA CallSlots ==
  ASSUME OwnInv, SlotInv, NEW t \in Thread, FsCall(t)
  PROVE  SlotInv'
<1> DEFINE x == CurOp(t).fd
           op == CurOp(t).op
<1>0. Shape /\ Owned /\ t \in Actor /\ x \in Fd /\ op \in OpName /\ Tidy(t)
  BY Zenon, CurrentFlowop DEF OwnInv, Actor, Flowop, SlotInv
<1>1. pc[t] = "fscall" /\ UNCHANGED <<openCnt, cur, script, ip, tfFse>> /\ CurOp(t)' = CurOp(t)
  BY Zenon DEF FsCall, entryVars, fixed, CurOp
<1>2. CASE /\ op \in Opens /\ tfFd' = [tfFd EXCEPT ![t] = @ \cup {x}]
           /\ pc' = [pc EXCEPT ![t] = "release"]
  BY Zenon, <1>1, <1>2, OpenSlots
<1>3. ASSUME NEW p \in {"openfailed", "release", "spared"}, pc' = [pc EXCEPT ![t] = p], tfFd' = tfFd,
             p = "release" => op \notin Opens /\ (op = "delete" => Deletes(t))
      PROVE  SlotInv'
  <2>1. OnlyMoves(t) /\ pc'[t] = p
    BY Zenon, <1>0, <1>1, <1>3, Moves
  <2>2. \A fd, e : ~Deleting(t, fd, e)'
    BY Zenon, <2>1 DEF Deleting
  <2>3. \A e \in Entry, fd \in Fd : Claim(t, fd, e)' => Claim(t, fd, e)
    BY Zenon, <1>1, <1>3, <2>2 DEF Claim
  <2>4. ASSUME p = "release", op = "delete", NEW e \in Entry, e = cur'[t] PROVE Claims(e)' = {}
    <3>1. Claims(e) \subseteq {<<t, x>>}
      BY Zenon, <1>1, <1>3, <2>4, DeletesAlone
    <3>2. Claims(e)' \subseteq Claims(e)
      BY Zenon, <2>1, <2>3, FewerClaims
    <3>3. <<t, x>> \notin Claims(e)'
      <4>y. PICK y \in Fd : y = x
        BY Zenon, <1>0
      <4> SUFFICES ASSUME Claim(t, y, e)' PROVE FALSE
        BY Zenon, <4>y DEF Claims
      <4>1. x \in tfFd[t] /\ tfFse[t][x] = e
        BY Zenon, <1>1, <1>3, <2>2, <4>y DEF Claim
      <4>2. tfFse[t][x] # None
        BY Zenon, <4>1, FilesetAssumption
      <4>3. x = 0
        BY Zenon, <1>0, <1>1, <2>4, <4>1, <4>2 DEF Tidy
      <4>4. <<t, x>> \in Claims(e)
        BY Zenon, <1>0, <4>1 DEF Claims, Claim
      <4>5. ~(x > 0) /\ Deletes(t)
        BY <1>3, <2>4, <4>3
      <4>6. openCnt[e] <= 0
        BY Zenon, <1>1, <2>4, <4>5 DEF Deletes
      <4>7. Holds(t) /\ ~Opening(e) /\ Covered(e) /\ openCnt[e] \in Nat
        BY Zenon, <1>1, <2>4, OwnerOpens DEF Holds, Holding, SlotInv
      <4>8. IsFiniteSet(Claims(e)) /\ Cardinality(Claims(e)) <= openCnt[e] + 0 /\ Cardinality(Claims(e)) \in Nat
        BY Zenon, <4>7, FS_CardinalityType DEF Covered
      <4>9. Cardinality(Claims(e)) = 0
        BY <4>6, <4>7, <4>8
      <4> QED BY Zenon, <4>4, <4>8, <4>9, FS_EmptySet
    <3> QED BY Zenon, <3>1, <3>2, <3>3
  <2>5. Tidy(t)'
    <3>1. CASE p # "release"
      BY Zenon, <2>1, <3>1 DEF Tidy
    <3>2. CASE p = "release"
      <4>1. pc'[t] = "release" /\ op \notin Opens
        BY Zenon, <1>3, <2>1, <3>2
      <4>2. op = "close" => x \in tfFd'[t] /\ tfFse'[t][x] = cur'[t]
        BY Zenon, <1>0, <1>1, <1>3 DEF Tidy
      <4>3. op = "delete" => \A e \in Entry : e = cur'[t] => Claims(e)' = {}
        BY Zenon, <2>4, <3>2
      <4> QED BY <1>1, <4>1, <4>2, <4>3 DEF Tidy
    <3> QED BY Zenon, <3>1, <3>2
  <2> QED BY Zenon, <1>1, <1>3, <2>1, <2>3, <2>5, QuietSlots
<1>4. CASE /\ op \in Opens /\ pc' = [pc EXCEPT ![t] = "openfailed"] /\ tfFd' = tfFd
  BY Zenon, <1>3, <1>4
<1>5. CASE /\ op \in {"close", "stat", "listdir", "makedir", "removedir", "delete"} /\ tfFd' = tfFd
           /\ pc' = [pc EXCEPT ![t] = IF op = "delete" /\ ~Deletes(t) THEN "spared" ELSE "release"]
  <2>1. op \notin Opens
    BY Zenon, <1>5 DEF Opens
  <2> QED BY Zenon, <1>3, <1>5, <2>1
<1> QED BY Zenon, <1>2, <1>4, <1>5 DEF FsCall, Opens

(* The release counts what the call did.                                   *)
LEMMA ReleaseSlots ==
  ASSUME OwnInv, SlotInv, NEW t \in Thread, Release(t)
  PROVE  SlotInv'
<1> DEFINE x == CurOp(t).fd
           op == CurOp(t).op
<1>0. Shape /\ Owned /\ t \in Actor /\ x \in Fd /\ op \in OpName /\ Holds(t)
  BY Zenon, CurrentFlowop DEF OwnInv, Actor, Flowop, Holds, Holding, Release
<1>s. /\ openCnt \in [Entry -> Nat] /\ tfFd \in [Thread -> SUBSET Fd]
      /\ \A e \in Entry : Covered(e)
      /\ \A u \in Thread : Tidy(u)
  BY Zenon DEF SlotInv
<1>1. PICK c \in Entry : c = cur[t]
  BY Zenon, <1>0 DEF Owned, Shape
<1>2. /\ pc[t] \in {"release", "openfailed", "spared"} /\ UNCHANGED <<cur, script, tfFse>>
      /\ openCnt' = [openCnt EXCEPT ![c] = @ + OpenIncr(t)]
      /\ tfFd' = IF op = "close" THEN [tfFd EXCEPT ![t] = @ \ {x}] ELSE tfFd
      /\ Finish(t, IF pc[t] = "openfailed" THEN "error" ELSE "ok")
  BY Zenon, <1>1 DEF Release, Unbusy, fixed
<1>3. /\ tfFd' \in [Thread -> SUBSET Fd]
      /\ tfFd'[t] = IF op = "close" THEN tfFd[t] \ {x} ELSE tfFd[t]
      /\ \A u \in Thread \ {t} : tfFd'[u] = tfFd[u]
  <2> HIDE DEF x, op
  <2>1. tfFd' = IF op = "close" THEN [tfFd EXCEPT ![t] = tfFd[t] \ {x}] ELSE tfFd
    BY Zenon, <1>2
  <2>2. tfFd[t] \ {x} \in SUBSET Fd
    BY Zenon, <1>s
  <2> QED BY Zenon, <1>s, <2>1, <2>2
<1> DEFINE p == IF pc[t] = "openfailed" THEN "stopped" ELSE "next"
<1>4. OnlyMoves(t) /\ pc'[t] = p
  <2>1. pc' = [pc EXCEPT ![t] = p]
    BY SMTT(30), <1>0, <1>2, FinishShape
  <2>2. \A u \in Thread \ {t} : ip'[u] = ip[u]
    BY Zenon, <1>0, <1>2 DEF Finish, Shape
  <2> HIDE DEF p
  <2> QED BY Zenon, <1>0, <1>2, <1>3, <2>1, <2>2, Moves
<1>5. \A fd, e : ~Deleting(t, fd, e)'
  BY Zenon, <1>4 DEF Deleting
<1>6. \A e, fd : Claim(t, fd, e)' => Claim(t, fd, e) /\ (op = "close" => fd # x)
  <2> HIDE DEF x, op
  <2> QED BY Zenon, <1>2, <1>3, <1>5 DEF Claim
<1>7. \A e : Claims(e)' \subseteq Claims(e)
  BY Zenon, <1>4, <1>6, FewerClaims
<1>8. ASSUME NEW e \in Entry, e # c PROVE Covered(e)' /\ openCnt'[e] = openCnt[e]
  <2>1. openCnt'[e] = openCnt[e] /\ openCnt[e] \in Nat
    BY Zenon, <1>s, <1>2, <1>8
  <2>2. ASSUME Opening(e) PROVE Opening(e)'
    <3>1. PICK u \in Thread : pc[u] = "release" /\ CurOp(u).op \in Opens /\ cur[u] = e
      BY Zenon, <2>2 DEF Opening
    <3>2. u # t
      BY Zenon, <1>1, <1>8, <3>1
    <3>3. pc'[u] = pc[u] /\ CurOp(u)' = CurOp(u) /\ cur'[u] = cur[u]
      BY Zenon, <1>4, <3>1, <3>2 DEF OnlyMoves, CurOp
    <3> QED BY Zenon, <3>1, <3>3 DEF Opening
  <2> QED BY Zenon, <1>s, <1>7, <2>1, <2>2, CoveredKept
<1>9. Covered(c)' /\ openCnt'[c] \in Nat
  <2>0. /\ IsFiniteSet(Claims(c)) /\ Cardinality(Claims(c)) \in Nat /\ openCnt[c] \in Nat
        /\ IsFiniteSet(Claims(c)') /\ Cardinality(Claims(c)') \in Nat
        /\ Cardinality(Claims(c)') <= Cardinality(Claims(c))
        /\ Cardinality(Claims(c)) <= openCnt[c] + (IF Opening(c) THEN 1 ELSE 0)
    BY Zenon, <1>s, <1>7, FS_Subset, FS_CardinalityType DEF Covered
  <2>1. openCnt'[c] = openCnt[c] + OpenIncr(t)
    BY Zenon, <1>s, <1>2
  <2>2. Opening(c) => pc[t] = "release" /\ op \in Opens
    BY Zenon, <1>0, <1>1, OwnerOpens
  <2>3. SUFFICES openCnt'[c] \in Nat /\ Cardinality(Claims(c)') <= openCnt'[c]
    <3>1. ASSUME openCnt'[c] \in Nat, Cardinality(Claims(c)') <= openCnt'[c]
          PROVE  Cardinality(Claims(c)') <= openCnt'[c] + (IF Opening(c)' THEN 1 ELSE 0)
      BY <2>0, <3>1
    <3> QED BY Zenon, <2>0, <2>3, <3>1 DEF Covered
  <2>4. CASE pc[t] = "release" /\ op \in Opens
    <3>1. OpenIncr(t) = 1
      BY Zenon, <2>4 DEF OpenIncr, Opens
    <3> QED BY <2>0, <2>1, <3>1
  <2>5. CASE pc[t] = "release" /\ op = "close"
    <3>1. OpenIncr(t) = -1
      BY Zenon, <2>5 DEF OpenIncr
    <3>2. ~Opening(c)
      BY Zenon, <2>2, <2>5 DEF Opens
    <3>3. x \in tfFd[t] /\ tfFse[t][x] = c
      BY Zenon, <1>s, <1>1, <2>5 DEF Tidy
    <3>4. <<t, x>> \in Claims(c)
      BY Zenon, <1>0, <3>3 DEF Claims, Claim
    <3>5. <<t, x>> \notin Claims(c)'
      BY Zenon, <1>6, <2>5 DEF Claims
    <3> DEFINE S == Claims(c) \ {<<t, x>>}
    <3>6. IsFiniteSet(S) /\ Cardinality(S) = Cardinality(Claims(c)) - 1
      BY Zenon, <2>0, <3>4, FS_RemoveElement
    <3>7. Claims(c)' \subseteq S
      BY Zenon, <1>7, <3>5
    <3>8. Cardinality(Claims(c)') <= Cardinality(S)
      BY Zenon, <3>6, <3>7, FS_Subset
    <3> HIDE DEF S
    <3> QED BY <2>0, <2>1, <3>1, <3>2, <3>6, <3>8
  <2>6. CASE pc[t] = "release" /\ op = "delete"
    <3>1. OpenIncr(t) = -openCnt[c]
      BY Zenon, <1>1, <2>6 DEF OpenIncr
    <3>2. Claims(c) = {}
      BY Zenon, <1>s, <1>1, <2>6 DEF Tidy
    <3>3. Cardinality(Claims(c)) = 0
      BY Zenon, <3>2, FS_EmptySet
    <3> QED BY <2>0, <2>1, <3>1, <3>3
  <2>7. CASE pc[t] # "release" \/ op \notin Opens \cup {"close", "delete"}
    <3>1. OpenIncr(t) = 0
      BY Zenon, <2>7 DEF OpenIncr, Opens
    <3>2. ~Opening(c)
      BY Zenon, <2>2, <2>7
    <3> QED BY <2>0, <2>1, <3>1, <3>2
  <2> QED BY Zenon, <2>4, <2>5, <2>6, <2>7
<1>10. openCnt' \in [Entry -> Nat]
  <2> DEFINE v == openCnt[c] + OpenIncr(t)
  <2>1. openCnt' = [openCnt EXCEPT ![c] = v] /\ openCnt'[c] = v
    BY Zenon, <1>s, <1>2
  <2> HIDE DEF v
  <2> QED BY Zenon, <1>s, <1>9, <2>1
<1>11. Tidy(t)'
  BY Zenon, <1>4 DEF Tidy
<1>12. \A u \in Thread : Tidy(u)'
  BY Zenon, <1>s, <1>4, <1>7, <1>11, OthersTidy
<1> QED BY Zenon, <1>3, <1>8, <1>9, <1>10, <1>12 DEF SlotInv

(* The worker threads.                                                     *)
LEMMA WorkerSlots ==
  ASSUME OwnInv, SlotInv, DeletesOnce, NEW t \in Thread, Worker(t)
  PROVE  SlotInv'
<1> DEFINE f == CurOp(t)
           fse == tfFse[t][f.fd]
<1>0. Shape /\ t \in Actor /\ f \in Flowop /\ f.fd \in Fd /\ f.op \in OpName /\ Tidy(t)
  BY Zenon, CurrentFlowop DEF OwnInv, Actor, Flowop, SlotInv
<1>t. tfFse \in [Thread -> [Fd -> File \cup {None}]]
  BY Zenon, <1>0 DEF Shape
<1>z. f.fd = 0 \/ f.fd > 0
  BY <1>0, FilesetAssumption DEF Fd
<1>1. CASE Start(t)
  <2>1. pc[t] = "next" /\ UNCHANGED <<script, tfFd>>
    BY Zenon, <1>1 DEF Start, fixed
  <2>2. ASSUME NEW s \in {"ok", "error"}, Finish(t, s), UNCHANGED <<entryVars, cur, tfFse>>
        PROVE  SlotInv'
    <3> DEFINE p == IF s = "ok" THEN "next" ELSE "stopped"
    <3>1. pc' = [pc EXCEPT ![t] = p] /\ p \in {"next", "stopped"}
      BY Zenon, <1>0, <2>1, <2>2, FinishShape
    <3>2. \A u \in Thread \ {t} : ip'[u] = ip[u]
      BY Zenon, <1>0, <2>2 DEF Finish, Shape
    <3> HIDE DEF p
    <3>3. OnlyMoves(t) /\ pc'[t] = p /\ openCnt' = openCnt
      BY Zenon, <1>0, <2>1, <2>2, <3>1, <3>2, Moves DEF entryVars
    <3>4. Tidy(t)'
      BY Zenon, <3>1, <3>3 DEF Tidy
    <3>5. \A e \in Entry, fd \in Fd : Claim(t, fd, e)' => Claim(t, fd, e)
      BY Zenon, <2>1, <2>2, <3>1, <3>3 DEF Claim, Deleting
    <3> QED BY Zenon, <2>1, <3>3, <3>4, <3>5, QuietSlots
  <2>3. CASE Pick(t) /\ \/ f.op \in Opens /\ f.fd \notin tfFd[t]
                        \/ f.op = "delete" /\ (f.fd = 0 \/ fse = None)
                        \/ f.op \in {"stat", "makedir", "removedir", "listdir"}
    <3>1. f.op # "close" /\ (f.op \in Opens => f.fd \notin tfFd[t])
      BY Zenon, <2>3 DEF Opens
    <3>2. f.op = "delete" => f.fd = 0 \/ f.fd \notin tfFd[t]
      BY Zenon, <1>z, <2>1, <2>3 DEF Opens, DeletesOnce
    <3> QED BY Zenon, <2>1, <2>3, <3>1, <3>2, PickSlots
  <2>4. CASE /\ \/ f.op = "close" /\ f.fd \in tfFd[t] /\ fse # None
                \/ f.op = "delete" /\ f.fd > 0 /\ fse # None
             /\ Grab(t, fse)
             /\ tfFse' = IF f.op = "delete" THEN [tfFse EXCEPT ![t][f.fd] = None] ELSE tfFse
             /\ UNCHANGED ip
    <3>1. PICK c \in File : c = fse
      BY Zenon, <1>0, <1>t, <2>4
    <3>2. f.op = "close" => f.fd \in tfFd[t] /\ fse = c /\ tfFse' = tfFse
      BY Zenon, <2>4, <3>1
    <3>3. f.op = "delete" => /\ tfFse'[t][f.fd] = None
                             /\ \A fd \in Fd : fd # f.fd => tfFse'[t][fd] = tfFse[t][fd]
      <4> HIDE DEF f
      <4> QED BY Zenon, <1>0, <1>t, <2>4
    <3>4. \A u \in Thread \ {t} : tfFse'[u] = tfFse[u]
      <4> HIDE DEF f
      <4> QED BY Zenon, <1>t, <2>4
    <3>5. Grab(t, c) /\ f.op \in {"close", "delete"}
      BY Zenon, <2>4, <3>1
    <3> QED BY Zenon, <2>1, <2>4, <3>1, <3>2, <3>3, <3>4, <3>5, GrabSlots
  <2> QED BY Zenon, <1>1, <2>2, <2>3, <2>4 DEF Start, Opens
<1>2. CASE CloseDeleted(t)
  <2>1. UNCHANGED <<openCnt, pc, cur, script, ip, tfFd, tfFse>> /\ pc[t] = "next"
    BY Zenon, <1>2 DEF CloseDeleted, entryVars, fdVars, fixed
  <2>2. OnlyMoves(t) /\ pc'[t] = "next"
    BY Zenon, <2>1 DEF OnlyMoves
  <2>3. Tidy(t)'
    BY Zenon, <2>2 DEF Tidy
  <2>4. \A e \in Entry, fd \in Fd : Claim(t, fd, e)' => Claim(t, fd, e)
    BY Zenon, <2>1, <2>2 DEF Claim, Deleting
  <2> QED BY Zenon, <2>1, <2>2, <2>3, <2>4, QuietSlots
<1>3. CASE Retry(t)
  <2>1. UNCHANGED <<script, tfFd>>
    BY Zenon, <1>3 DEF Retry, fixed
  <2>2. CASE pc[t] = "pickwait" /\ Pick(t)
    <3>1. f.op # "close" /\ (f.op \in Opens => f.fd \notin tfFd[t])
          /\ (f.op = "delete" => f.fd = 0 \/ f.fd \notin tfFd[t])
      BY Zenon, <1>0, <2>2 DEF Tidy
    <3> QED BY Zenon, <2>1, <2>2, <3>1, PickSlots
  <2>3. CASE pc[t] = "busywait" /\ Grab(t, cur[t]) /\ UNCHANGED <<tfFse, ip>>
    <3>1. PICK c \in File : c = cur[t]
      BY Zenon, <1>0, <2>3 DEF Shape
    <3>2. Grab(t, c) /\ f.op \in {"close", "delete"}
      BY Zenon, <1>0, <2>3, <3>1 DEF Tidy
    <3>3. f.op = "close" => f.fd \in tfFd[t] /\ fse = c /\ tfFse' = tfFse
      BY Zenon, <1>0, <2>3, <3>1 DEF Tidy
    <3>4. \A u \in Thread \ {t} : tfFse'[u] = tfFse[u]
      BY Zenon, <2>3
    <3>5. pc[t] = "busywait" => cur[t] = c /\ tfFse' = tfFse
      BY Zenon, <2>3, <3>1
    <3> QED BY Zenon, <2>1, <2>3, <3>1, <3>2, <3>3, <3>4, <3>5, GrabSlots
  <2> QED BY Zenon, <1>3, <2>2, <2>3 DEF Retry
<1>4. CASE FailsBusy(t)
  <2>1. /\ UNCHANGED <<openCnt, cur, script, tfFd, tfFse>> /\ pc[t] = "fscall" /\ Finish(t, "leak")
        /\ f.op \in {"create", "listdir"}
    BY Zenon, <1>4 DEF FailsBusy, entryVars, fixed, fdVars
  <2>2. pc' = [pc EXCEPT ![t] = "leaked"] /\ \A u \in Thread \ {t} : ip'[u] = ip[u]
    BY Zenon, <1>0, <2>1, FinishShape DEF Finish, Shape
  <2>3. OnlyMoves(t) /\ pc'[t] = "leaked"
    BY Zenon, <1>0, <2>1, <2>2, Moves
  <2>4. Tidy(t)'
    BY Zenon, <2>3 DEF Tidy
  <2>5. \A e \in Entry, fd \in Fd : Claim(t, fd, e)' => Claim(t, fd, e)
    BY Zenon, <2>1, <2>3 DEF Claim, Deleting
  <2> QED BY Zenon, <2>1, <2>3, <2>4, <2>5, QuietSlots
<1> QED BY Zenon, <1>1, <1>2, <1>3, <1>4, CallSlots, ReleaseSlots DEF Worker

(* The threads' slots and flowops stay as they are, and so do the counts.  *)
LEMMA SlotsKept ==
  ASSUME SlotInv, UNCHANGED <<openCnt, script, ip, tfFd, tfFse>>,
         \A u \in Thread : pc'[u] = pc[u] /\ cur'[u] = cur[u]
  PROVE  SlotInv'
<1>1. \A u \in Thread : CurOp(u)' = CurOp(u) /\ cur'[u] = cur[u]
  BY Zenon DEF CurOp
<1>2. \A u \in Thread : \A fd, e : Claim(u, fd, e)' <=> Claim(u, fd, e)
  BY Zenon, <1>1 DEF Claim, Deleting
<1>3. ASSUME NEW e PROVE Claims(e)' = Claims(e)
  <2>1. \A s \in Thread \X Fd : Claim(s[1], s[2], e)' <=> Claim(s[1], s[2], e)
    BY Zenon, <1>2
  <2> QED BY Zenon, <2>1 DEF Claims
<1>4. \A e : Opening(e)' <=> Opening(e)
  BY Zenon, <1>1 DEF Opening
<1>5. \A e \in Entry : Covered(e)'
  <2> SUFFICES ASSUME NEW e \in Entry PROVE Covered(e)'
    BY Zenon
  <2>1. Covered(e) /\ Claims(e)' \subseteq Claims(e) /\ openCnt[e] \in Nat /\ openCnt'[e] = openCnt[e]
    BY Zenon, <1>3 DEF SlotInv
  <2> QED BY Zenon, <1>4, <2>1, CoveredKept
<1>6. ASSUME NEW u \in Thread PROVE Tidy(u)'
  <2>1. /\ Tidy(u) /\ pc'[u] = pc[u] /\ CurOp(u)' = CurOp(u) /\ cur'[u] = cur[u]
        /\ tfFd'[u] = tfFd[u] /\ tfFse'[u] = tfFse[u] /\ \A e \in Entry : Claims(e)' = Claims(e)
    BY Zenon, <1>1, <1>3 DEF SlotInv
  <2> QED BY <2>1 DEF Tidy
<1> QED BY Zenon, <1>5, <1>6 DEF SlotInv

(* The creation of the fileset opens nothing, and moves no worker.         *)
LEMMA CreateKeeps ==
  ASSUME Shape, openCnt \in [Entry -> Nat],
         Create \/ \E e \in Entry : AllocThread(e) \/ AllocThreadExits(e)
  PROVE  /\ UNCHANGED <<openCnt, script, ip, ops, tfFd, tfFse>>
         /\ \A u \in Thread : pc'[u] = pc[u] /\ cur'[u] = cur[u]
<1>1. UNCHANGED <<script, ip, ops, tfFd, tfFse>>
  BY Zenon DEF Create, CreatePicks, CreateSkips, CreateAllocates, CreateForks, CreateLeafdir, CreateEnds,
    AllocThread, AllocThreadExits, fixed, fdVars
<1>2. \E a : pc' = [pc EXCEPT ![Main] = a]
  <2>1. pc' = pc => pc' = [pc EXCEPT ![Main] = pc[Main]]
    BY Zenon DEF Shape, Actor
  <2> QED BY Zenon, <2>1 DEF Create, CreatePicks, CreateSkips, CreateAllocates, CreateForks, CreateLeafdir,
    CreateEnds, AllocThread, AllocThreadExits
<1>3. \A u \in Thread : pc'[u] = pc[u]
  BY Zenon, <1>2, FilesetAssumption DEF Shape, Actor
<1>4. cur' = cur \/ \E e : cur' = [cur EXCEPT ![Main] = e]
  BY Zenon DEF Create, CreatePicks, CreateSkips, CreateAllocates, CreateForks, CreateLeafdir, CreateEnds,
    AllocThread, AllocThreadExits, PickEntry
<1>5. \A u \in Thread : cur'[u] = cur[u]
  BY Zenon, <1>4, FilesetAssumption DEF Shape, Actor
<1>6. openCnt' = openCnt
  <2>1. ASSUME NEW e, NEW p, Unbusy(e, p, 0) PROVE openCnt' = openCnt
    <3>1. openCnt' = [openCnt EXCEPT ![e] = openCnt[e] + 0]
      BY Zenon, <2>1 DEF Unbusy
    <3> QED BY <3>1
  <2> QED BY Zenon, <2>1 DEF Create, CreatePicks, CreateSkips, CreateAllocates, CreateForks, CreateLeafdir,
    CreateEnds, AllocThread, AllocThreadExits, PickEntry, entryVars
<1> QED BY Zenon, <1>1, <1>3, <1>5, <1>6

(* So the slots stay in order.                                             *)
LEMMA CreateSlots ==
  ASSUME OwnInv, SlotInv, Create \/ \E e \in Entry : AllocThread(e) \/ AllocThreadExits(e)
  PROVE  SlotInv'
<1>1. Shape /\ openCnt \in [Entry -> Nat]
  BY Zenon DEF OwnInv, SlotInv
<1>2. /\ UNCHANGED <<openCnt, script, ip, ops, tfFd, tfFse>>
      /\ \A u \in Thread : pc'[u] = pc[u] /\ cur'[u] = cur[u]
  BY Zenon, <1>1, CreateKeeps
<1> QED BY Zenon, <1>2, SlotsKept

(* At the start nothing is open.                                           *)
LEMMA SlotInit == Init => SlotInv
<1> SUFFICES ASSUME Init PROVE SlotInv
  BY Zenon
<1>1. /\ openCnt \in [Entry -> Nat] /\ tfFd \in [Thread -> SUBSET Fd]
      /\ \A t \in Thread : pc[t] = "next" /\ tfFd[t] = {}
  BY SMTT(30), FilesetAssumption DEF Init, Actor
<1>2. ASSUME NEW e \in Entry PROVE Covered(e)
  <2>1. Claims(e) = {}
    BY <1>1 DEF Claims, Claim
  <2>2. IsFiniteSet(Claims(e)) /\ Cardinality(Claims(e)) = 0
    BY Zenon, <2>1, FS_EmptySet
  <2>3. 0 <= openCnt[e] + (IF Opening(e) THEN 1 ELSE 0)
    BY <1>1
  <2> QED BY Zenon, <2>2, <2>3 DEF Covered
<1>3. \A t \in Thread : Tidy(t)
  BY Zenon, <1>1 DEF Tidy
<1> QED BY Zenon, <1>1, <1>2, <1>3 DEF SlotInv

(* Every step keeps the slots in order.                                    *)
LEMMA SlotStep == OwnInv /\ SlotInv /\ DeletesOnce /\ [Next]_vars => SlotInv'
<1> SUFFICES ASSUME OwnInv, SlotInv, DeletesOnce, [Next]_vars PROVE SlotInv'
  BY Zenon
<1>1. ASSUME UNCHANGED vars PROVE SlotInv'
  BY Zenon, <1>1, SlotsKept DEF vars, entryVars, fixed, fdVars
<1> QED BY Zenon, <1>1, CreateSlots, WorkerSlots DEF Next, Over

(* A file leaves the disk only when no slot has it open but the one of the *)
(* thread that deletes it.                                                 *)
LEMMA OnlyUnopened ==
  ASSUME OwnInv, SlotInv, [Next]_vars, NEW e \in disk \ disk',
         NEW u \in Thread, NEW y \in Fd, y \in tfFd[u], tfFse[u][y] = e
  PROVE  pc[u] = "fscall" /\ cur[u] = e
<1>1. \E t \in Thread : FsCall(t)
  <2>1. ~(Create \/ \E f \in Entry : AllocThread(f) \/ AllocThreadExits(f))
    BY Zenon DEF Create, CreatePicks, CreateSkips, CreateAllocates, CreateForks, CreateLeafdir, CreateEnds,
      AllocThread, AllocThreadExits
  <2>2. ~UNCHANGED vars
    BY Zenon DEF vars
  <2>3. PICK t \in Thread : Worker(t)
    BY Zenon, <2>1, <2>2 DEF Next, Over
  <2> QED BY Zenon, <2>3 DEF Worker, Start, CloseDeleted, Retry, FailsBusy, Release
<1>2. PICK t \in Thread : FsCall(t)
  BY Zenon, <1>1
<1>3. /\ pc[t] = "fscall" /\ e = cur[t]
      /\ \/ CurOp(t).op = "removedir"
         \/ CurOp(t).op = "delete" /\ Deletes(t)
  BY Zenon, <1>2 DEF FsCall
<1>4. e \in Entry /\ tfFse[u][y] \in File \cup {None}
  <2>1. t \in Actor /\ Holds(t) /\ Shape /\ Owned
    BY Zenon, <1>3 DEF OwnInv, Holds, Holding, Actor
  <2>2. cur[t] \in busy /\ busy \subseteq Entry
    BY Zenon, <2>1 DEF Shape, Owned
  <2>3. tfFse \in [Thread -> [Fd -> File \cup {None}]]
    BY Zenon, <2>1 DEF Shape
  <2> QED BY Zenon, <1>3, <2>2, <2>3
<1>5. e \in File
  BY Zenon, <1>4, FilesetAssumption
<1>6. CurOp(t).op = "delete" /\ Deletes(t)
  BY Zenon, <1>3, <1>5 DEF SlotInv, Tidy
<1>7. Claims(e) \subseteq {<<t, CurOp(t).fd>>}
  BY Zenon, <1>3, <1>4, <1>6, DeletesAlone
<1>8. <<u, y>> \in Claims(e)
  BY Zenon DEF Claims, Claim
<1>9. u = t
  BY <1>7, <1>8
<1> QED BY Zenon, <1>3, <1>9

(* deletefile takes no file from under another thread's descriptor, for    *)
(* every list of flowops that deletes through an open slot only once.      *)
THEOREM DeletesSpareOpen == Spec /\ []DeletesOnce => DeletesUnopened
<1>1. OwnInv /\ SlotInv /\ [Next]_vars =>
        [\A e \in disk \ disk' : \A t \in Thread, fd \in Fd :
           fd \in tfFd[t] /\ tfFse[t][fd] = e => pc[t] = "fscall" /\ cur[t] = e]_vars
  BY Zenon, OnlyUnopened
<1> QED BY <1>1, OwnInit, OwnStep, SlotInit, SlotStep, PTL DEF Spec, DeletesUnopened


-----------------------------------------------------------------------------
(***************************************************************************)
(* The creation of the fileset.  shm_fsparalloc_count is the number of the *)
(* allocation threads, and negative once one of them has failed; an entry  *)
(* that is still in a free tree is one the creation has yet to come to, or *)
(* one that an allocation thread is at work on.                            *)
(***************************************************************************)
Forked == {e \in Entry : allocs[e] # "none"}
Fresh == \A t \in Thread : ops[t] = 0 /\ pc[t] = "next"
Busies(k) == {e \in Entry : e[1] = k /\ e \in busy}
CountInv ==
  /\ paraCnt \in Int /\ paraCnt <= MaxParalloc
  /\ paraCnt >= 0 => paraCnt = Cardinality(Forked)
  /\ pc[Main] = "done" => Forked = {}
Unmade(e) ==
  /\ e[1] # "dir"
  /\ pc[Main] \in {"leafdirs", "drain", "done"} => e[1] = "leafdir" \/ allocs[e] = "writing"
  /\ pc[Main] \in {"drain", "done"} => e[1] # "leafdir"
PlaceInv ==
  /\ pc[Main] = "alloc" => place[cur[Main]] = "free" /\ allocs[cur[Main]] = "none"
  /\ \A e \in Entry : allocs[e] \in {"ok", "error"} => place[e] # "free"
  /\ \A e \in Entry : place[e] = "free" => Unmade(e)
FreshInv ==
  /\ pc[Main] # "done" => Fresh
  /\ Fresh => /\ \A e \in Entry : openCnt[e] = 0
              /\ \A k \in Kind : idle[k] + Cardinality(Busies(k)) = Count[k]
MakeInv == CountInv /\ PlaceInv /\ FreshInv

(* The creation's bookkeeping does not see the workers.                    *)
LEMMA WorkerMakes ==
  ASSUME OwnInv, MakeInv, place \in [Entry -> {"free", "exist", "noex"}],
         ops \in [Thread -> Nat], NEW t \in Thread, Worker(t)
  PROVE  MakeInv'
<1>0. Shape /\ Owned /\ t \in Actor /\ Main \in Actor /\ t # Main
  BY Zenon, FilesetAssumption DEF OwnInv, Actor
<1>1. pc[Main] = "done"
  BY Zenon DEF MakeInv, FreshInv, Fresh, Worker, Start, CloseDeleted, Retry, FsCall, FailsBusy, Release
<1>2. UNCHANGED <<allocs, paraCnt>>
  BY Zenon DEF Worker, Start, CloseDeleted, Retry, FsCall, FailsBusy, Release, createVars
<1>3. \E p : pc' = [pc EXCEPT ![t] = p]
  <2>1. pc' = pc => pc' = [pc EXCEPT ![t] = pc[t]]
    BY Zenon, <1>0 DEF Shape
  <2> QED BY Zenon, <2>1 DEF Worker, Start, CloseDeleted, Retry, FsCall, FailsBusy, Release, Pick, Grab, Finish
<1>4. pc'[Main] = "done"
  BY Zenon, <1>0, <1>1, <1>3 DEF Shape
<1>5. ASSUME NEW e \in Entry, place'[e] = "free" PROVE place[e] = "free"
  <2>1. CASE place' = place
    BY Zenon, <1>5, <2>1
  <2>2. CASE Release(t)
    <3>1. place' = [place EXCEPT ![cur[t]] = NewPlace(t)]
      BY Zenon, <2>2 DEF Release, Unbusy
    <3>2. NewPlace(t) = "free" => place[cur[t]] = "free"
      BY Zenon DEF NewPlace
    <3> QED BY Zenon, <1>5, <3>1, <3>2
  <2> QED BY Zenon, <2>1, <2>2 DEF Worker, Start, CloseDeleted, Retry, FsCall, FailsBusy, Pick, PickEntry,
    Grab, entryVars
<1>6. ASSUME Fresh' PROVE Fresh /\ UNCHANGED <<openCnt, idle, busy>>
  <2>1. pc'[t] = "next" /\ ops'[t] = 0
    BY Zenon, <1>6 DEF Fresh
  <2>2. ASSUME NEW s \in {"ok", "error", "leak", "norsc"}, Finish(t, s) PROVE FALSE
    <3>1. pc'[t] = IF s = "ok" THEN "next" ELSE IF s = "leak" THEN "leaked" ELSE "stopped"
      BY Zenon, <1>0, <2>2 DEF Finish, Shape
    <3>2. s = "ok"
      BY Zenon, <2>1, <3>1
    <3>3. ops'[t] = ops[t] + 1
      BY Zenon, <2>2, <3>2 DEF Finish
    <3> QED BY <2>1, <3>3
  <2>3. ASSUME NEW p \in {"pickwait", "fscall", "busywait", "release", "openfailed", "spared"},
               pc' = [pc EXCEPT ![t] = p]
        PROVE  FALSE
    BY Zenon, <1>0, <2>1, <2>3 DEF Shape
  <2>4. ~Pick(t) /\ (\A e : ~Grab(t, e))
    BY Zenon, <2>2, <2>3 DEF Pick, Grab
  <2>5. ~Start(t) /\ ~Retry(t)
    BY Zenon, <2>2, <2>4 DEF Start, Retry
  <2>6. ~FsCall(t) /\ ~FailsBusy(t) /\ ~Release(t)
    BY Zenon, <2>2, <2>3 DEF FsCall, FailsBusy, Release
  <2>7. UNCHANGED <<pc, ops, openCnt, idle, busy>>
    BY Zenon, <2>5, <2>6 DEF Worker, CloseDeleted, entryVars
  <2> QED BY Zenon, <1>6, <2>7 DEF Fresh
<1>7. CountInv'
  BY Zenon, <1>1, <1>2, <1>4 DEF MakeInv, CountInv, Forked
<1>8. PlaceInv'
  BY Zenon, <1>1, <1>2, <1>4, <1>5 DEF MakeInv, PlaceInv, Unmade
<1>9. FreshInv'
  BY Zenon, <1>4, <1>6 DEF MakeInv, FreshInv, Busies
<1> QED BY Zenon, <1>7, <1>8, <1>9 DEF MakeInv

(* The entries of one kind that are busy, when one more is, or one fewer.  *)
LEMMA BusyCounted ==
  ASSUME NEW e \in Entry, idle \in [Kind -> Int],
         \A k \in Kind : idle[k] + Cardinality(Busies(k)) = Count[k],
         \/ e \notin busy /\ busy' = busy \cup {e} /\ idle' = [idle EXCEPT ![e[1]] = @ - 1]
         \/ e \in busy /\ busy' = busy \ {e} /\ idle' = [idle EXCEPT ![e[1]] = @ + 1]
  PROVE  \A k \in Kind : idle'[k] + Cardinality(Busies(k)') = Count[k]
<1>0. e[1] \in Kind /\ IsFiniteSet(Entry)
  BY Zenon, EntryShape
<1>1. \A k : IsFiniteSet(Busies(k)) /\ Cardinality(Busies(k)) \in Nat
  BY Zenon, <1>0, FS_Subset, FS_CardinalityType DEF Busies
<1>2. ASSUME NEW k \in Kind, k # e[1] PROVE Busies(k)' = Busies(k) /\ idle'[k] = idle[k]
  BY Zenon, <1>0, <1>2 DEF Busies
<1> DEFINE S == Busies(e[1])
<1>3. CASE e \notin busy /\ busy' = busy \cup {e} /\ idle' = [idle EXCEPT ![e[1]] = @ - 1]
  <2>1. Busies(e[1])' = S \cup {e} /\ e \notin S
    BY Zenon, <1>3 DEF Busies
  <2>2. Cardinality(Busies(e[1])') = Cardinality(S) + 1
    BY Zenon, <1>1, <2>1, FS_AddElement
  <2>3. idle'[e[1]] = idle[e[1]] - 1 /\ idle[e[1]] \in Int
    BY Zenon, <1>0, <1>3
  <2>4. idle[e[1]] + Cardinality(S) = Count[e[1]]
    BY Zenon, <1>0
  <2> HIDE DEF S
  <2>5. idle'[e[1]] + Cardinality(Busies(e[1])') = Count[e[1]]
    BY <1>1, <2>2, <2>3, <2>4 DEF S
  <2> QED BY Zenon, <1>2, <2>5
<1>4. CASE e \in busy /\ busy' = busy \ {e} /\ idle' = [idle EXCEPT ![e[1]] = @ + 1]
  <2>1. Busies(e[1])' = S \ {e} /\ e \in S
    BY Zenon, <1>4 DEF Busies
  <2>2. Cardinality(Busies(e[1])') = Cardinality(S) - 1
    <3>1. IsFiniteSet(S)
      BY Zenon, <1>1
    <3> HIDE DEF S
    <3>2. Cardinality(S \ {e}) = IF e \in S THEN Cardinality(S) - 1 ELSE Cardinality(S)
      BY Zenon, <3>1, FS_RemoveElement
    <3> QED BY Zenon, <2>1, <3>2
  <2>3. idle'[e[1]] = idle[e[1]] + 1 /\ idle[e[1]] \in Int
    BY Zenon, <1>0, <1>4
  <2>4. idle[e[1]] + Cardinality(S) = Count[e[1]]
    BY Zenon, <1>0
  <2> HIDE DEF S
  <2>5. idle'[e[1]] + Cardinality(Busies(e[1])') = Count[e[1]]
    BY <1>1, <2>2, <2>3, <2>4 DEF S
  <2> QED BY Zenon, <1>2, <2>5
<1> QED BY Zenon, <1>3, <1>4

(* The creation counts what it makes busy.                                 *)
LEMMA CreateFresh ==
  ASSUME OwnInv, MakeInv, openCnt \in [Entry -> Nat], pc[Main] # "done",
         Create \/ \E e \in Entry : AllocThread(e) \/ AllocThreadExits(e)
  PROVE  FreshInv'
<1>0. Shape /\ Owned /\ Main \in Actor /\ idle \in [Kind -> Int] /\ busy \subseteq Entry
  BY Zenon DEF OwnInv, Actor, Shape, IdleInv
<1>1. UNCHANGED <<openCnt, ops>> /\ \A u \in Thread : pc'[u] = pc[u]
  BY Zenon, <1>0, CreateKeeps
<1>2. Fresh /\ Fresh'
  BY Zenon, <1>1 DEF MakeInv, FreshInv, Fresh
<1>3. /\ \A e \in Entry : openCnt[e] = 0
      /\ \A k \in Kind : idle[k] + Cardinality(Busies(k)) = Count[k]
  BY Zenon, <1>2 DEF MakeInv, FreshInv
<1>4. SUFFICES \A k \in Kind : idle'[k] + Cardinality(Busies(k)') = Count[k]
  BY Zenon, <1>1, <1>2, <1>3, <1>4 DEF FreshInv
<1>5. CASE UNCHANGED <<idle, busy>>
  BY Zenon, <1>3, <1>5 DEF Busies
<1>6. ASSUME NEW i, PickEntry(Main, "file", "free", i) PROVE \A k \in Kind : idle'[k] + Cardinality(Busies(k)') = Count[k]
  <2>1. PICK e \in Entry : /\ e \notin busy /\ busy' = busy \cup {e}
                           /\ idle' = [idle EXCEPT ![e[1]] = @ - 1]
    BY Zenon, <1>0, <1>6, PickedEntry
  <2> QED BY Zenon, <1>0, <1>3, <2>1, BusyCounted
<1>7. ASSUME NEW e \in busy, NEW p, NEW i, Unbusy(e, p, i)
      PROVE  \A k \in Kind : idle'[k] + Cardinality(Busies(k)') = Count[k]
  <2>1. e \in Entry /\ busy' = busy \ {e} /\ idle' = [idle EXCEPT ![e[1]] = @ + 1]
    BY Zenon, <1>0, <1>7 DEF Unbusy
  <2> QED BY Zenon, <1>0, <1>3, <2>1, BusyCounted
<1>8. pc[Main] \in {"alloc", "skip"} => cur[Main] \in busy
  BY Zenon, <1>0 DEF Owned, Holds, Holding
<1>9. CASE Create
  BY Zenon, <1>5, <1>6, <1>7, <1>8, <1>9 DEF Create, CreatePicks, CreateSkips, CreateAllocates, CreateForks,
    CreateLeafdir, CreateEnds, entryVars
<1>10. CASE \E e \in Entry : AllocThread(e) \/ AllocThreadExits(e)
  <2>1. \A e \in Entry : allocs[e] = "writing" => e \in busy
    BY Zenon, <1>0 DEF Owned
  <2> QED BY Zenon, <1>5, <1>7, <1>10, <2>1 DEF AllocThread, AllocThreadExits, entryVars
<1> QED BY Zenon, <1>9, <1>10

(* The creation takes its entries out of the free trees.                   *)
LEMMA CreatePlaces ==
  ASSUME OwnInv, MakeInv, place \in [Entry -> {"free", "exist", "noex"}], pc[Main] # "done",
         Create \/ \E e \in Entry : AllocThread(e) \/ AllocThreadExits(e)
  PROVE  PlaceInv'
<1>0. /\ Shape /\ Owned /\ Main \in Actor /\ PlaceInv
      /\ pc \in [Actor -> Holding \cup OtherPc] /\ cur \in [Actor -> Entry \cup {None}]
      /\ allocs \in [Entry -> {"none", "writing", "ok", "error"}] /\ busy \subseteq Entry
  BY Zenon DEF OwnInv, Actor, Shape, MakeInv
<1>p. /\ pc[Main] = "alloc" => place[cur[Main]] = "free" /\ allocs[cur[Main]] = "none"
      /\ \A e \in Entry : allocs[e] \in {"ok", "error"} => place[e] # "free"
      /\ \A e \in Entry : place[e] = "free" => Unmade(e)
  BY Zenon, <1>0 DEF PlaceInv
<1>n. \A b \in Actor : Holds(b) => b = Main
  BY Zenon DEF MakeInv, FreshInv, Fresh, Holds, Holding, Actor
<1>1. CASE CreatePicks
  <2>1. UNCHANGED <<place, allocs>> /\ pc[Main] \in {"files", "pickwait"}
    BY Zenon, <1>1 DEF CreatePicks, PickEntry, entryVars, createVars
  <2>2. CASE \E i \in 0 .. Count["file"] :
               /\ PickEntry(Main, "file", "free", i)
               /\ \E next \in {"alloc", "skip"} : pc' = [pc EXCEPT ![Main] = next]
    <3>0. PICK i : PickEntry(Main, "file", "free", i)
      BY Zenon, <2>2
    <3>1. PICK e \in Entry : e \notin busy /\ place[e] = "free" /\ cur' = [cur EXCEPT ![Main] = e]
      <4>1. Shape /\ Main \in Actor
        BY Zenon, <1>0
      <4> QED BY ONLY Zenon, <3>0, <4>1, PickedEntry
    <3>2. allocs[e] = "none"
      BY Zenon, <1>0, <1>p, <3>1 DEF Owned
    <3>3. pc'[Main] \in {"alloc", "skip"} /\ cur'[Main] = e
      BY Zenon, <1>0, <2>2, <3>1
    <3>4. \A f \in Entry : place[f] = "free" => Unmade(f)'
      BY Zenon, <1>p, <3>3 DEF Unmade
    <3> QED BY Zenon, <1>p, <2>1, <3>1, <3>2, <3>3, <3>4 DEF PlaceInv
  <2>3. CASE PickEmpty("file", "free") /\ pc' = [pc EXCEPT ![Main] = "leafdirs"]
    <3>1. pc'[Main] = "leafdirs"
      BY Zenon, <1>0, <2>3
    <3>2. ASSUME NEW e \in Entry, place[e] = "free" PROVE Unmade(e)'
      <4>1. e[1] # "dir" /\ e[1] \in Kind
        BY Zenon, <1>p, <3>2, EntryShape DEF Unmade
      <4>2. CASE e[1] = "file"
        <5>1. e \in busy /\ ~Holds(Main)
          BY Zenon, <2>1, <2>3, <3>2, <4>2 DEF PickEmpty, Tree, Holds, Holding
        <5>2. allocs[e] = "writing"
          BY Zenon, <1>0, <1>n, <5>1 DEF Owned
        <5> QED BY Zenon, <2>1, <3>1, <4>1, <5>2 DEF Unmade
      <4> QED BY Zenon, <3>1, <4>1, <4>2 DEF Unmade, Kind
    <3> QED BY Zenon, <1>p, <2>1, <3>1, <3>2 DEF PlaceInv
  <2>4. CASE pc' = [pc EXCEPT ![Main] = "pickwait"]
    <3>1. pc'[Main] = "pickwait"
      BY Zenon, <1>0, <2>4
    <3> QED BY Zenon, <1>p, <2>1, <3>1 DEF PlaceInv, Unmade
  <2> QED BY Zenon, <1>1, <2>2, <2>3, <2>4 DEF CreatePicks
<1>2. ASSUME allocs' = allocs, NEW e, NEW q \in {"exist", "noex"}, place' = [place EXCEPT ![e] = q],
             pc'[Main] \in {"files", "failed", pc[Main]}, pc'[Main] # "alloc"
      PROVE  PlaceInv'
  <2>1. \A f \in Entry : place'[f] = "free" => place[f] = "free"
    BY Zenon, <1>2
  <2> QED BY Zenon, <1>p, <1>2, <2>1 DEF PlaceInv, Unmade
<1>3. CASE CreateSkips \/ CreateAllocates
  <2>1. pc'[Main] \in {"files", "failed"} /\ allocs' = allocs
    BY Zenon, <1>0, <1>3 DEF CreateSkips, CreateAllocates, createVars
  <2>2. \E q \in {"exist", "noex"} : place' = [place EXCEPT ![cur[Main]] = q]
    BY Zenon, <1>3 DEF CreateSkips, CreateAllocates, Unbusy
  <2> QED BY Zenon, <1>2, <2>1, <2>2
<1>4. CASE CreateForks
  <2>1. place' = place /\ pc'[Main] \in {"leaked", "files"}
    BY Zenon, <1>0, <1>4 DEF CreateForks, entryVars
  <2>2. \A f \in Entry : allocs'[f] \in {"ok", "error"} => allocs[f] \in {"ok", "error"}
    BY Zenon, <1>0, <1>4 DEF CreateForks, createVars
  <2> QED BY Zenon, <1>p, <2>1, <2>2 DEF PlaceInv, Unmade
<1>5. CASE CreateLeafdir
  <2>1. pc[Main] = "leafdirs" /\ allocs' = allocs /\ cur' = cur
    BY Zenon, <1>5 DEF CreateLeafdir, createVars
  <2>2. CASE Tree("leafdir", "free") = {} /\ pc' = [pc EXCEPT ![Main] = "drain"] /\ place' = place
    <3>1. pc'[Main] = "drain"
      BY Zenon, <1>0, <2>2
    <3>2. \A e \in Entry : place[e] = "free" => e[1] # "leafdir"
      BY Zenon, <2>2 DEF Tree
    <3> QED BY Zenon, <1>p, <2>1, <2>2, <3>1, <3>2 DEF PlaceInv, Unmade
  <2>3. CASE \E e \in Tree("leafdir", "free") :
               /\ \E q \in {"exist", "noex"} : place' = [place EXCEPT ![e] = q]
               /\ pc' = pc \/ pc' = [pc EXCEPT ![Main] = "failed"]
    <3>1. pc'[Main] \in {"failed", pc[Main]}
      BY Zenon, <1>0, <2>3
    <3> QED BY Zenon, <1>2, <2>1, <2>3, <3>1
  <2> QED BY Zenon, <1>5, <2>2, <2>3 DEF CreateLeafdir
<1>6. CASE CreateEnds
  <2>1. UNCHANGED <<place, allocs>> /\ pc[Main] = "drain" /\ pc'[Main] \in {"done", "failed"}
    BY Zenon, <1>0, <1>6 DEF CreateEnds, entryVars, createVars
  <2> QED BY Zenon, <1>p, <2>1 DEF PlaceInv, Unmade
<1>7. ASSUME NEW e \in Entry, AllocThread(e) PROVE PlaceInv'
  <2>1. /\ allocs[e] = "writing" /\ UNCHANGED <<pc, cur>>
        /\ \E q \in {"exist", "noex"} : place' = [place EXCEPT ![e] = q]
        /\ \E s \in {"ok", "error"} : allocs' = [allocs EXCEPT ![e] = s]
    BY Zenon, <1>7 DEF AllocThread, Unbusy
  <2>2. place'[e] \in {"exist", "noex"}
    BY Zenon, <2>1
  <2>3. \A f : f # e => place'[f] = place[f] /\ allocs'[f] = allocs[f]
    BY <1>0, <2>1
  <2>4. pc[Main] = "alloc" => cur[Main] # e
    BY Zenon, <1>p, <2>1
  <2> QED BY Zenon, <1>p, <2>1, <2>2, <2>3, <2>4 DEF PlaceInv, Unmade
<1>8. ASSUME NEW e \in Entry, AllocThreadExits(e) PROVE PlaceInv'
  <2>1. /\ allocs[e] \in {"ok", "error"} /\ UNCHANGED <<pc, cur, place>>
        /\ allocs' = [allocs EXCEPT ![e] = "none"]
    BY Zenon, <1>8 DEF AllocThreadExits, entryVars
  <2>2. \A f : f # e => allocs'[f] = allocs[f]
    BY <1>0, <2>1
  <2>3. place[e] # "free" /\ allocs'[e] = "none"
    BY Zenon, <1>0, <1>p, <2>1
  <2> QED BY Zenon, <1>p, <2>1, <2>2, <2>3 DEF PlaceInv, Unmade
<1> QED BY Zenon, <1>1, <1>3, <1>4, <1>5, <1>6, <1>7, <1>8 DEF Create

(* The count of the allocation threads.                                    *)
LEMMA CreateCounts ==
  ASSUME OwnInv, MakeInv, pc[Main] # "done",
         Create \/ \E e \in Entry : AllocThread(e) \/ AllocThreadExits(e)
  PROVE  CountInv'
<1>0. /\ Shape /\ Owned /\ Main \in Actor
      /\ pc \in [Actor -> Holding \cup OtherPc] /\ cur \in [Actor -> Entry \cup {None}]
      /\ allocs \in [Entry -> {"none", "writing", "ok", "error"}] /\ busy \subseteq Entry
  BY Zenon DEF OwnInv, Actor, Shape
<1>c. paraCnt \in Int /\ paraCnt <= MaxParalloc /\ (paraCnt >= 0 => paraCnt = Cardinality(Forked))
  BY Zenon DEF MakeInv, CountInv
<1>f. IsFiniteSet(Forked) /\ Cardinality(Forked) \in Nat
  BY Zenon, EntryShape, FS_Subset, FS_CardinalityType DEF Forked
<1>1. ASSUME pc'[Main] # "done", UNCHANGED <<allocs, paraCnt>> PROVE CountInv'
  BY Zenon, <1>c, <1>1 DEF CountInv, Forked
<1>2. CASE CreatePicks \/ CreateSkips \/ CreateAllocates \/ CreateLeafdir
  <2>1. UNCHANGED <<allocs, paraCnt>>
    BY Zenon, <1>2 DEF CreatePicks, CreateSkips, CreateAllocates, CreateLeafdir, createVars
  <2>2. pc'[Main] # "done"
    BY Zenon, <1>0, <1>2 DEF CreatePicks, CreateSkips, CreateAllocates, CreateLeafdir
  <2> QED BY Zenon, <1>1, <2>1, <2>2
<1>3. CASE CreateForks
  <2>1. pc'[Main] # "done" /\ pc[Main] = "alloc" /\ paraCnt < MaxParalloc
    BY Zenon, <1>0, <1>3 DEF CreateForks
  <2>2. CASE UNCHANGED createVars
    BY Zenon, <1>1, <2>1, <2>2 DEF createVars
  <2>3. CASE /\ ~(paraCnt < 0) /\ paraCnt' = paraCnt + 1
             /\ allocs' = [allocs EXCEPT ![cur[Main]] = "writing"]
    <3>1. cur[Main] \in Entry /\ allocs[cur[Main]] = "none"
      BY Zenon, <1>0, <2>1 DEF MakeInv, PlaceInv, Owned, Holds, Holding
    <3>2. Forked' = Forked \cup {cur[Main]} /\ cur[Main] \notin Forked
      BY Zenon, <1>0, <2>3, <3>1 DEF Forked
    <3>3. Cardinality(Forked') = Cardinality(Forked) + 1
      BY Zenon, <1>f, <3>2, FS_AddElement
    <3>4. paraCnt' = Cardinality(Forked') /\ paraCnt' \in Int /\ paraCnt' <= MaxParalloc
      BY <1>c, <1>f, <2>1, <2>3, <3>3, FilesetAssumption
    <3> QED BY Zenon, <2>1, <3>4 DEF CountInv
  <2> QED BY Zenon, <1>3, <2>2, <2>3 DEF CreateForks
<1>4. CASE CreateEnds
  <2>1. UNCHANGED <<allocs, paraCnt>> /\ paraCnt <= 0
        /\ pc'[Main] = IF paraCnt < 0 THEN "failed" ELSE "done"
    BY Zenon, <1>0, <1>4 DEF CreateEnds, createVars
  <2>2. CASE paraCnt < 0
    BY Zenon, <1>1, <2>1, <2>2
  <2>3. CASE ~(paraCnt < 0)
    <3>1. Cardinality(Forked) = 0
      BY <1>c, <2>1, <2>3
    <3>2. Forked = {}
      BY Zenon, <1>f, <3>1, FS_EmptySet
    <3> QED BY Zenon, <1>c, <2>1, <3>2 DEF CountInv, Forked
  <2> QED BY Zenon, <2>2, <2>3
<1>5. ASSUME NEW e \in Entry, AllocThread(e) PROVE CountInv'
  <2>1. /\ allocs[e] = "writing" /\ UNCHANGED <<pc, paraCnt>>
        /\ \E s \in {"ok", "error"} : allocs' = [allocs EXCEPT ![e] = s]
    BY Zenon, <1>5 DEF AllocThread
  <2>2. Forked' = Forked
    BY Zenon, <1>0, <2>1 DEF Forked
  <2> QED BY Zenon, <1>c, <2>1, <2>2 DEF CountInv
<1>6. ASSUME NEW e \in Entry, AllocThreadExits(e) PROVE CountInv'
  <2>1. /\ allocs[e] \in {"ok", "error"} /\ pc' = pc
        /\ paraCnt' = IF allocs[e] = "error" THEN -1 ELSE paraCnt - 1
        /\ allocs' = [allocs EXCEPT ![e] = "none"]
    BY Zenon, <1>6 DEF AllocThreadExits
  <2>2. Forked' = Forked \ {e} /\ e \in Forked
    BY Zenon, <1>0, <2>1 DEF Forked
  <2>3. Cardinality(Forked') = Cardinality(Forked) - 1
    BY Zenon, <1>f, <2>2, FS_RemoveElement
  <2>4. paraCnt' \in Int /\ paraCnt' <= MaxParalloc /\ (paraCnt' >= 0 => paraCnt' = Cardinality(Forked'))
    BY <1>c, <1>f, <2>1, <2>3, FilesetAssumption
  <2> QED BY Zenon, <2>1, <2>4 DEF CountInv
<1> QED BY Zenon, <1>2, <1>3, <1>4, <1>5, <1>6 DEF Create

(* At the start the creation has everything before it.                     *)
LEMMA MakeInit == Init => MakeInv
<1> SUFFICES ASSUME Init PROVE MakeInv
  BY Zenon
<1>1. /\ pc[Main] = "files" /\ \A t \in Thread : pc[t] = "next" /\ ops[t] = 0
      /\ \A e \in Entry : allocs[e] = "none" /\ openCnt[e] = 0
      /\ busy = {} /\ paraCnt = 0 /\ idle = Count /\ \A e \in Entry : place[e] = "free" => e[1] # "dir"
  BY Zenon, FilesetAssumption DEF Init, Actor, PickReset
<1>2. Forked = {} /\ \A k : Busies(k) = {}
  BY Zenon, <1>1 DEF Forked, Busies
<1>3. Cardinality(Forked) = 0 /\ \A k : Cardinality(Busies(k)) = 0
  BY Zenon, <1>2, FS_EmptySet
<1>4. CountInv
  BY <1>1, <1>2, <1>3, FilesetAssumption DEF CountInv
<1>5. PlaceInv
  BY Zenon, <1>1 DEF PlaceInv, Unmade
<1>6. \A k \in Kind : idle[k] + Cardinality(Busies(k)) = Count[k]
  BY <1>1, <1>3, FilesetAssumption
<1>7. FreshInv
  BY Zenon, <1>1, <1>6 DEF FreshInv, Fresh
<1> QED BY Zenon, <1>4, <1>5, <1>7 DEF MakeInv


(* The rest of the types.                                                  *)
AtWork == {"pickwait", "busywait", "fscall", "release", "openfailed", "spared"}
RangeInv ==
  /\ wanted \subseteq Entry /\ disk \subseteq Entry /\ woken \subseteq Actor
  /\ rotor \in [Rotor -> Nat] /\ env \in Setting
  /\ ops \in [Thread -> 0 .. MaxOps] /\ \A t \in Thread : pc[t] \in AtWork => ops[t] < MaxOps
  /\ abort \in BOOLEAN /\ crashed \in BOOLEAN

(* The rotation stays among the indices.                                   *)
LEMMA RotorKept ==
  ASSUME rotor \in [Rotor -> Nat], NEW r
  PROVE  Rotate(r) \in [Rotor -> Nat]
<1> DEFINE e == FindEntry(Tree(r[1], r[2]), rotor[r])
           n == e[2] + 1
<1>1. CASE Tree(r[1], r[2]) # {}
  <2>1. Tree(r[1], r[2]) \subseteq Entry
    BY Zenon DEF Tree
  <2>2. e \in Entry
    BY Zenon, <1>1, <2>1, FoundEntry
  <2>3. e[2] \in Nat
    BY Zenon, <2>2, EntryShape
  <2>4. n \in Nat
    <3> HIDE DEF e
    <3> QED BY <2>3
  <2>5. Rotate(r) = [rotor EXCEPT ![r] = n]
    BY Zenon, <1>1 DEF Rotate
  <2> HIDE DEF n
  <2> QED BY Zenon, <2>4, <2>5
<1> QED BY Zenon, <1>1 DEF Rotate

(* fileset_unbusy wakes threads.                                           *)
LEMMA WakesActors ==
  ASSUME woken \subseteq Actor, wanted \subseteq Entry, NEW e, NEW p, NEW i, Unbusy(e, p, i)
  PROVE  woken' \subseteq Actor /\ wanted' \subseteq Entry
<1>1. WaitsFor(e[1]) \subseteq Actor /\ BusyWaiters \subseteq Actor
  BY Zenon DEF WaitsFor, BusyWaiters, Actor
<1>2. \A s \in Signalled(e[1]) : s \subseteq Actor
  BY Zenon, <1>1 DEF Signalled
<1>3. PICK s \in Signalled(e[1]) :
        woken' = IF e \notin busy THEN woken
                 ELSE woken \cup s \cup (IF e \in wanted THEN BusyWaiters ELSE {})
  BY Zenon DEF Unbusy
<1>4. s \subseteq Actor
  BY Zenon, <1>2
<1>5. woken' \subseteq Actor
  BY Zenon, <1>1, <1>3, <1>4
<1>6. wanted' \subseteq Entry
  BY Zenon DEF Unbusy
<1> QED BY Zenon, <1>5, <1>6

(* A worker's step.                                                        *)
LEMMA WorkerRange ==
  ASSUME OwnInv, RangeInv, NEW t \in Thread, Worker(t)
  PROVE  RangeInv'
<1>0. Shape /\ t \in Actor /\ CurOp(t) \in Flowop
  BY Zenon, CurrentFlowop DEF OwnInv, Actor
<1>r. /\ wanted \subseteq Entry /\ disk \subseteq Entry /\ woken \subseteq Actor
      /\ rotor \in [Rotor -> Nat] /\ env \in Setting
      /\ ops \in [Thread -> 0 .. MaxOps] /\ \A u \in Thread : pc[u] \in AtWork => ops[u] < MaxOps
      /\ abort \in BOOLEAN /\ crashed \in BOOLEAN
  BY Zenon DEF RangeInv
<1>1. env' = env /\ crashed' \in BOOLEAN
  BY Zenon, <1>r DEF Worker, Start, CloseDeleted, Retry, FsCall, FailsBusy, Release, fixed
<1>2. rotor' \in [Rotor -> Nat]
  <2>1. Pick(t) => rotor' \in [Rotor -> Nat]
    BY Zenon, <1>r, RotorKept DEF Pick
  <2> QED BY Zenon, <1>r, <2>1 DEF Worker, Start, CloseDeleted, Retry, FsCall, FailsBusy, Release
<1>3. wanted' \subseteq Entry /\ woken' \subseteq Actor
  <2>1. Pick(t) => wanted' = wanted /\ woken' \subseteq Actor
    BY Zenon, <1>r DEF Pick, PickEntry, entryVars
  <2>2. ASSUME NEW e \in File, Grab(t, e) PROVE wanted' \subseteq Entry /\ woken' \subseteq Actor
    <3>1. e \in Entry
      BY Zenon DEF File
    <3> QED BY Zenon, <1>r, <2>2, <3>1 DEF Grab
  <2>3. CASE Start(t)
    <3>1. ASSUME tfFse[t][CurOp(t).fd] # None PROVE tfFse[t][CurOp(t).fd] \in File
      <4>1. tfFse \in [Thread -> [Fd -> File \cup {None}]] /\ CurOp(t).fd \in Fd
        BY Zenon, <1>0 DEF Shape, Flowop
      <4> QED BY Zenon, <3>1, <4>1
    <3> QED BY Zenon, <1>r, <2>1, <2>2, <2>3, <3>1 DEF Start, entryVars
  <2>4. CASE Retry(t)
    <3>1. pc[t] = "busywait" => cur[t] \in File
      BY Zenon, <1>0 DEF Shape
    <3> QED BY Zenon, <1>r, <2>1, <2>2, <2>4, <3>1 DEF Retry
  <2>5. CASE Release(t)
    BY Zenon, <1>r, <2>5, WakesActors DEF Release
  <2> QED BY Zenon, <1>r, <2>3, <2>4, <2>5 DEF Worker, CloseDeleted, FsCall, FailsBusy, entryVars
<1>4. disk' \subseteq Entry
  <2>1. CASE FsCall(t)
    <3>1. cur[t] \in Entry
      BY Zenon, <1>0, <2>1 DEF OwnInv, Shape, Owned, Holds, Holding, FsCall
    <3>2. disk' \subseteq disk \cup {cur[t]}
      BY Zenon, <2>1 DEF FsCall
    <3> QED BY Zenon, <1>r, <3>1, <3>2
  <2> QED BY Zenon, <1>r, <2>1 DEF Worker, Start, CloseDeleted, Retry, FailsBusy, Release
<1>5. ops[t] < MaxOps
  BY Zenon, <1>r DEF Worker, Start, CloseDeleted, Retry, FsCall, FailsBusy, Release, AtWork
<1>6. (UNCHANGED <<ops, abort>>) \/ \E s : Finish(t, s)
  BY Zenon DEF Worker, Start, CloseDeleted, Retry, FsCall, FailsBusy, Release, Pick
<1>7. abort' \in BOOLEAN
  BY Zenon, <1>r, <1>6 DEF Finish
<1>8. \E p : pc' = [pc EXCEPT ![t] = p]
  <2>1. pc' = pc => pc' = [pc EXCEPT ![t] = pc[t]]
    BY Zenon, <1>0 DEF Shape
  <2> QED BY Zenon, <2>1 DEF Worker, Start, CloseDeleted, Retry, FsCall, FailsBusy, Release, Pick, Grab, Finish
<1>9. \A u \in Thread \ {t} : pc'[u] = pc[u]
  BY Zenon, <1>0, <1>8 DEF Shape, Actor
<1>10. ops' \in [Thread -> 0 .. MaxOps] /\ \A u \in Thread : pc'[u] \in AtWork => ops'[u] < MaxOps
  <2>1. CASE ops' = ops
    BY Zenon, <1>r, <1>5, <1>9, <2>1
  <2>2. CASE \E s : Finish(t, s)
    <3>1. PICK n \in {ops[t], ops[t] + 1} : ops' = [ops EXCEPT ![t] = n]
      BY Zenon, <2>2 DEF Finish
    <3>2. n \in 0 .. MaxOps
      BY <1>r, <1>5, <3>1, FilesetAssumption
    <3>3. pc'[t] \notin AtWork
      BY Zenon, <1>0, <2>2 DEF Finish, Shape, AtWork
    <3>4. ops' \in [Thread -> 0 .. MaxOps]
      BY Zenon, <1>r, <3>1, <3>2
    <3> QED BY Zenon, <1>r, <1>9, <3>1, <3>3, <3>4
  <2> QED BY Zenon, <1>6, <2>1, <2>2
<1> QED BY Zenon, <1>1, <1>2, <1>3, <1>4, <1>7, <1>10, <1>r DEF RangeInv

(* A step of the creation.                                                 *)
LEMMA CreateRange ==
  ASSUME OwnInv, RangeInv, openCnt \in [Entry -> Nat],
         Create \/ \E e \in Entry : AllocThread(e) \/ AllocThreadExits(e)
  PROVE  RangeInv'
<1>0. Shape /\ Main \in Actor
  BY Zenon DEF OwnInv, Actor
<1>r. /\ wanted \subseteq Entry /\ disk \subseteq Entry /\ woken \subseteq Actor
      /\ ops \in [Thread -> 0 .. MaxOps] /\ \A u \in Thread : pc[u] \in AtWork => ops[u] < MaxOps
  BY Zenon DEF RangeInv
<1>1. UNCHANGED <<env, crashed, rotor, abort>>
  BY Zenon DEF Create, CreatePicks, CreateSkips, CreateAllocates, CreateForks, CreateLeafdir, CreateEnds,
    AllocThread, AllocThreadExits, fixed
<1>2. ops' = ops /\ \A u \in Thread : pc'[u] = pc[u]
  BY Zenon, <1>0, CreateKeeps DEF OwnInv
<1>3. wanted' \subseteq Entry /\ woken' \subseteq Actor
  <2>1. \A e, p, i : Unbusy(e, p, i) => wanted' \subseteq Entry /\ woken' \subseteq Actor
    BY Zenon, <1>r, WakesActors
  <2>2. CreatePicks => wanted' = wanted /\ woken' \subseteq woken
    BY Zenon DEF CreatePicks, PickEntry, entryVars
  <2> QED BY Zenon, <1>r, <2>1, <2>2 DEF Create, CreateSkips, CreateAllocates, CreateForks, CreateLeafdir,
    CreateEnds, AllocThread, AllocThreadExits, entryVars
<1>4. disk' \subseteq Entry
  <2>1. pc[Main] = "alloc" => cur[Main] \in Entry
    BY Zenon, <1>0 DEF OwnInv, Shape, Owned, Holds, Holding
  <2>2. Tree("leafdir", "free") \subseteq Entry
    BY Zenon DEF Tree
  <2>3. disk' = disk \/ \E e \in Entry : disk' \subseteq disk \cup {e}
    BY Zenon, <2>1, <2>2 DEF Create, CreatePicks, CreateSkips, CreateAllocates, CreateForks, CreateLeafdir,
      CreateEnds, AllocThread, AllocThreadExits
  <2> QED BY Zenon, <1>r, <2>3
<1> QED BY Zenon, <1>r, <1>1, <1>2, <1>3, <1>4 DEF RangeInv

(* Every step keeps the books of the creation and the types.               *)
LEMMA ReadyStep ==
  OwnInv /\ DiskInv /\ SlotInv /\ MakeInv /\ RangeInv /\ [Next]_vars => MakeInv' /\ RangeInv'
<1> SUFFICES ASSUME OwnInv, DiskInv, SlotInv, MakeInv, RangeInv, [Next]_vars PROVE MakeInv' /\ RangeInv'
  BY Zenon
<1>0. place \in [Entry -> {"free", "exist", "noex"}] /\ openCnt \in [Entry -> Nat]
  BY Zenon DEF DiskInv, SlotInv
<1>1. ASSUME NEW t \in Thread, Worker(t) PROVE MakeInv' /\ RangeInv'
  <2>1. ops \in [Thread -> Nat]
    BY FilesetAssumption DEF RangeInv
  <2> QED BY Zenon, <1>0, <1>1, <2>1, WorkerMakes, WorkerRange
<1>2. ASSUME Create \/ \E e \in Entry : AllocThread(e) \/ AllocThreadExits(e) PROVE MakeInv' /\ RangeInv'
  <2>1. pc[Main] # "done"
    <3>1. \A e \in Entry : allocs[e] # "none" => pc[Main] # "done"
      BY Zenon DEF MakeInv, CountInv, Forked
    <3> QED BY Zenon, <1>2, <3>1 DEF Create, CreatePicks, CreateSkips, CreateAllocates, CreateForks,
      CreateLeafdir, CreateEnds, AllocThread, AllocThreadExits
  <2> QED BY Zenon, <1>0, <1>2, <2>1, CreateCounts, CreatePlaces, CreateFresh, CreateRange DEF MakeInv
<1>3. ASSUME UNCHANGED vars PROVE MakeInv' /\ RangeInv'
  <2>1. UNCHANGED <<place, busy, wanted, openCnt, idle, rotor, disk, pc, cur, woken, ops, allocs, paraCnt,
                    env, abort, crashed>>
    BY Zenon, <1>3 DEF vars, entryVars, fixed, createVars
  <2>2. RangeInv'
    BY Zenon, <2>1 DEF RangeInv
  <2>3. CountInv' /\ PlaceInv' /\ FreshInv'
    BY Zenon, <2>1 DEF MakeInv, CountInv, PlaceInv, FreshInv, Forked, Unmade, Fresh, Busies
  <2> QED BY Zenon, <2>2, <2>3 DEF MakeInv
<1> QED BY Zenon, <1>1, <1>2, <1>3 DEF Next, Over

(* At the start the types are right.                                       *)
LEMMA RangeInit == Init => RangeInv
<1> SUFFICES ASSUME Init PROVE RangeInv
  BY Zenon
<1>1. \A t \in Thread : pc[t] = "next"
  BY Zenon, FilesetAssumption DEF Init, Actor
<1>2. rotor \in [Rotor -> Nat] /\ ops \in [Thread -> 0 .. MaxOps]
  BY SMTT(30), FilesetAssumption DEF Init
<1>3. disk \subseteq Entry
  BY Zenon DEF Init
<1> QED BY Zenon, <1>1, <1>2, <1>3 DEF Init, RangeInv, AtWork

(* The counts of open descriptors, the end of the creation and the types   *)
(* follow.                                                                 *)
LEMMA ReadyEntries ==
  ASSUME OwnInv, DiskInv, SlotInv, MakeInv, RangeInv, DeletesOnce
  PROVE  EntriesReady
<1>0. Shape /\ Owned /\ IdleInv
  BY Zenon DEF OwnInv
<1>1. TypeOK
  <2>1. idle \in [Kind -> Nat]
    <3>1. \A k \in Kind : idle[k] \in Int /\ idle[k] >= Cardinality(Loose(k)) /\ Cardinality(Loose(k)) \in Nat
      BY Zenon, <1>0, LooseFinite DEF IdleInv
    <3>2. \A k \in Kind : idle[k] \in Nat
      BY <3>1
    <3> QED BY Zenon, <1>0, <3>2 DEF IdleInv
  <2>2. tfFse \in [Thread -> [Fd -> Entry \cup {None}]]
    <3>1. File \cup {None} \subseteq Entry \cup {None} /\ tfFse \in [Thread -> [Fd -> File \cup {None}]]
      BY Zenon, <1>0 DEF Shape, File
    <3>2. \A t \in Thread : tfFse[t] \in [Fd -> Entry \cup {None}]
      BY Zenon, <3>1
    <3> QED BY Zenon, <3>1, <3>2
  <2> QED BY Zenon, <1>0, <2>1, <2>2 DEF TypeOK, Shape, OtherPc, DiskInv, SlotInv, MakeInv, CountInv, RangeInv
<1>2. OpenCounted
  <2> SUFFICES ASSUME NEW e \in Entry \ busy
               PROVE  openCnt[e] >= Cardinality({s \in Thread \X Fd : s[2] \in tfFd[s[1]] /\ tfFse[s[1]][s[2]] = e})
    BY Zenon DEF OpenCounted
  <2> DEFINE S == {s \in Thread \X Fd : s[2] \in tfFd[s[1]] /\ tfFse[s[1]][s[2]] = e}
  <2>1. ~Opening(e)
    <3>1. ASSUME NEW t \in Thread, pc[t] = "release" PROVE cur[t] \in busy
      <4>1. t \in Actor /\ Holds(t)
        BY Zenon, <3>1 DEF Holds, Holding, Actor
      <4> QED BY Zenon, <1>0, <4>1 DEF Owned
    <3> QED BY Zenon, <3>1 DEF Opening
  <2>2. S \subseteq Claims(e)
    BY Zenon DEF Claims, Claim
  <2>3. IsFiniteSet(Claims(e)) /\ Cardinality(Claims(e)) <= openCnt[e] + 0 /\ openCnt[e] \in Nat
    BY Zenon, <2>1 DEF SlotInv, Covered
  <2>4. IsFiniteSet(S) /\ Cardinality(S) <= Cardinality(Claims(e))
    BY Zenon, <2>2, <2>3, FS_Subset
  <2>5. Cardinality(S) \in Nat /\ Cardinality(Claims(e)) \in Nat
    BY Zenon, <2>3, <2>4, FS_CardinalityType
  <2> HIDE DEF S
  <2> QED BY <2>3, <2>4, <2>5 DEF S
<1>3. CreateComplete
  <2> SUFFICES ASSUME pc[Main] = "done"
               PROVE  /\ \A e \in Entry : place[e] # "free" /\ allocs[e] = "none"
                      /\ Fresh => busy = {} /\ idle = Count /\ ~(\E e \in Entry : openCnt[e] # 0)
    BY Zenon DEF CreateComplete, Fresh
  <2>1. \A e \in Entry : allocs[e] = "none"
    BY Zenon DEF MakeInv, CountInv, Forked
  <2>2. \A e \in Entry : place[e] # "free"
    BY Zenon, <2>1 DEF MakeInv, PlaceInv, Unmade
  <2>3. ASSUME Fresh PROVE busy = {} /\ idle = Count /\ ~(\E e \in Entry : openCnt[e] # 0)
    <3>1. \A a \in Actor : ~Holds(a)
      BY Zenon, <2>3 DEF Fresh, Holds, Holding, Actor
    <3>2. busy = {}
      BY Zenon, <1>0, <2>1, <3>1 DEF Owned, Shape
    <3>3. \A k \in Kind : Cardinality(Busies(k)) = 0
      <4>1. \A k : Busies(k) = {}
        BY Zenon, <3>2 DEF Busies
      <4> QED BY Zenon, <4>1, FS_EmptySet
    <3>4. /\ \A k \in Kind : idle[k] + Cardinality(Busies(k)) = Count[k]
          /\ \A e \in Entry : openCnt[e] = 0
      BY Zenon, <2>3 DEF MakeInv, FreshInv
    <3>5. idle \in [Kind -> Int] /\ Count \in [Kind -> Nat]
      BY Zenon, <1>0, FilesetAssumption DEF IdleInv
    <3>6. \A k \in Kind : idle[k] = Count[k]
      BY <3>3, <3>4, <3>5
    <3>7. idle = Count
      BY <3>5, <3>6
    <3> QED BY Zenon, <3>2, <3>4, <3>7
  <2> QED BY Zenon, <2>1, <2>2, <2>3
<1> QED BY Zenon, <1>1, <1>2, <1>3 DEF EntriesReady

(* What flowops rely on: fse_open_cnt of an entry that is not busy covers  *)
(* every descriptor slot that has it open, and fileset_createsets returns  *)
(* with every entry allocated or left out and nothing busy; for every list *)
(* of flowops that deletes through an open slot only once.                 *)
THEOREM EntriesAreReady == Spec /\ []DeletesOnce => []EntriesReady
<1>1. OwnInv /\ DiskInv /\ SlotInv /\ MakeInv /\ RangeInv /\ DeletesOnce => EntriesReady
  BY Zenon, ReadyEntries
<1> QED BY <1>1, OwnInit, OwnStep, DiskInit, DiskStep, SlotInit, SlotStep, MakeInit, RangeInit, ReadyStep,
           PTL DEF Spec
=============================================================================
