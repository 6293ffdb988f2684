------------------------------ MODULE AvlTree ------------------------------
(* filebench's AVL trees (fb_avl.c), which hold the entries of a fileset,   *)
(* at the level of the pointers: every node has two children, a parent, the *)
(* side it hangs on and a balance. A node is named by its key.              *)
EXTENDS Integers, Sequences, FiniteSets, SequencesExt

CONSTANTS MaxKey,    \* keys are 1 .. MaxKey
          GrowKeys,  \* the keys that are added, in any order, to an empty tree
          FullOrder  \* the order of the insertions that build the full tree

VARIABLES tree,   \* avl_root, avl_numnodes and the nodes
          held,   \* the keys the tree should hold
          mode,   \* "grow": add and remove; "drain": only remove
          cookie  \* of avl_destroy_nodes()

vars == <<tree, held, mode, cookie>>

NIL == 0
TMP == MaxKey + 1            \* the node on avl_remove()'s stack
Key == 1 .. MaxKey
Side == {0, 1}
Blank == [child |-> [s \in Side |-> NIL], parent |-> NIL, which |-> 0, bal |-> 0]
Empty == [root |-> NIL, num |-> 0, n |-> [k \in Key \cup {TMP} |-> Blank]]

Child2Balance(s) == IF s = 0 THEN -1 ELSE 1
Balance2Child(b) == IF b = 1 THEN 1 ELSE 0

---------------------------------------------------------------------------
(* Pointers.                                                                *)

(* The pointer to a subtree: the parent's or the root.                      *)
SetPointer(T, p, s, x) ==
  IF p = NIL THEN [T EXCEPT !.root = x] ELSE [T EXCEPT !.n[p].child[s] = x]

(* AVL_SETPARENT and AVL_SETCHILD.                                          *)
SetUp(T, x, p, s) ==
  IF x = NIL THEN T ELSE [T EXCEPT !.n[x].parent = p, !.n[x].which = s]

Link(T, p, s, x) == SetUp(SetPointer(T, p, s, x), x, p, s)

SetBalance(T, x, b) == [T EXCEPT !.n[x].bal = b]

RECURSIVE Furthest(_, _, _)
Furthest(T, x, s) == IF T.n[x].child[s] = NIL THEN x ELSE Furthest(T, T.n[x].child[s], s)

First(T) == IF T.root = NIL THEN NIL ELSE Furthest(T, T.root, 0)

(* Up to the first ancestor on the other side.                              *)
RECURSIVE Ascend(_, _, _)
Ascend(T, x, side) ==
  IF T.n[x].parent = NIL THEN NIL
  ELSE IF T.n[x].which = side THEN T.n[x].parent ELSE Ascend(T, T.n[x].parent, side)

(* avl_walk(): the neighbour of x on side "left" (0: previous, 1: next).    *)
Walk(T, x, left) ==
  IF T.n[x].child[left] # NIL THEN Furthest(T, T.n[x].child[left], 1 - left)
  ELSE Ascend(T, x, 1 - left)

(* avl_find(): the node, or the place where it would be inserted.           *)
RECURSIVE Search(_, _, _, _, _)
Search(T, v, x, prev, s) ==
  IF x = NIL THEN [node |-> NIL, at |-> prev, side |-> s]
  ELSE IF x = v THEN [node |-> x, at |-> NIL, side |-> 0]
  ELSE LET d == Balance2Child(IF v < x THEN -1 ELSE 1)
       IN Search(T, v, T.n[x].child[d], x, d)

Find(T, v) == Search(T, v, T.root, NIL, 0)

(* avl_nearest() to an insertion point.                                     *)
Nearest(T, at, side, direction) ==
  IF at = NIL THEN NIL ELSE IF side # direction THEN at ELSE Walk(T, at, direction)

---------------------------------------------------------------------------
(* avl_rotation(): the tree, and whether the subtree became shorter.        *)

SingleRotation(T, x, left, rh) ==
  LET right == 1 - left
      c == T.n[x].child[left]
      cbal == T.n[c].bal + rh
      T1 == Link(T, x, left, T.n[c].child[right])
      T2 == Link(T1, c, right, x)
      T3 == Link(T2, T.n[x].parent, T.n[x].which, c)
  IN [tree |-> SetBalance(SetBalance(T3, x, -cbal), c, cbal), shorter |-> cbal = 0]

MutDoubleRotation(T, x, left, rh) ==
  LET right == 1 - left
      c == T.n[x].child[left]
      g == T.n[c].child[right]
      T1 == Link(T, x, left, T.n[g].child[right])
      T2 == Link(T1, c, right, T.n[g].child[left])
      T3 == Link(Link(T2, g, left, c), g, right, x)
      T4 == Link(T3, T.n[x].parent, T.n[x].which, g)
  IN [tree |-> SetBalance(SetBalance(SetBalance(T4, c, 0), x, 0), g, 0), shorter |-> TRUE]

DoubleRotation(T, x, left, rh) ==
  LET right == 1 - left
      c == T.n[x].child[left]
      g == T.n[c].child[right]
      b == T.n[g].bal
      T1 == Link(T, x, left, T.n[g].child[right])
      T2 == Link(T1, c, right, T.n[g].child[left])
      T3 == Link(Link(T2, g, left, c), g, right, x)
      T4 == Link(T3, T.n[x].parent, T.n[x].which, g)
      T5 == SetBalance(T4, c, IF b = rh THEN -rh ELSE 0)
      T6 == SetBalance(T5, x, IF b = -rh THEN rh ELSE 0)
  IN [tree |-> SetBalance(T6, g, 0), shorter |-> TRUE]

Rotation(T, x, balance) ==
  LET left == IF balance < 0 THEN 0 ELSE 1
      rh == IF balance < 0 THEN 1 ELSE -1
  IN IF T.n[T.n[x].child[left]].bal # rh
     THEN SingleRotation(T, x, left, rh) ELSE DoubleRotation(T, x, left, rh)

---------------------------------------------------------------------------
(* avl_insert(): hang the leaf up, then correct the balances above it.      *)

RECURSIVE ClimbInsert(_, _, _)
ClimbInsert(T, x, s) ==
  IF x = NIL THEN T
  ELSE LET b == T.n[x].bal + Child2Balance(s)
       IN IF b = 0 THEN SetBalance(T, x, 0)
          ELSE IF T.n[x].bal # 0 THEN Rotation(T, x, b).tree
          ELSE ClimbInsert(SetBalance(T, x, b), T.n[x].parent, T.n[x].which)

Insert(T, k, p, s) ==
  ClimbInsert(Link([T EXCEPT !.num = @ + 1, !.n[k] = Blank], p, s, k), p, s)

(* avl_add() of a key that is there already reports an error.               *)
AvlAdd(T, k) ==
  LET f == Find(T, k) IN IF f.node # NIL THEN T ELSE Insert(T, k, f.at, f.side)

(* avl_insert_here(): next to a given node.                                 *)
AvlInsertHere(T, k, here, dir) ==
  IF T.n[here].child[dir] = NIL THEN Insert(T, k, here, dir)
  ELSE Insert(T, k, Furthest(T, T.n[here].child[dir], 1 - dir), 1 - dir)

---------------------------------------------------------------------------
(* avl_remove().                                                            *)

(* A node with two children changes places with its neighbour on the        *)
(* heavier side: the neighbour moves up and TMP takes its old place.        *)
SwapDown(T, x) ==
  LET left == Balance2Child(T.n[x].bal)
      right == 1 - left
      y == Furthest(T, T.n[x].child[left], right)
      moved == IF T.n[x].child[left] = y THEN [T.n[x] EXCEPT !.child[left] = TMP] ELSE T.n[x]
      T1 == [T EXCEPT !.n[TMP] = T.n[y], !.n[y] = moved]
      T2 == SetPointer(T1, moved.parent, moved.which, y)
      T3 == [T2 EXCEPT !.n[moved.child[left]].parent = y, !.n[moved.child[right]].parent = y]
      T4 == SetPointer(T3, T3.n[TMP].parent, T3.n[TMP].which, TMP)
      only == T4.n[TMP].child[IF T4.n[TMP].child[1] # NIL THEN 1 ELSE 0]
  IN IF only = NIL THEN T4 ELSE [T4 EXCEPT !.n[only].parent = TMP]

(* Back up while the subtree has become shorter.                            *)
RECURSIVE ClimbRemove(_, _, _)
ClimbRemove(T, x, s) ==
  IF x = NIL THEN T
  ELSE LET b == T.n[x].bal - Child2Balance(s)
           p == T.n[x].parent
           w == T.n[x].which
       IN IF T.n[x].bal = 0 THEN SetBalance(T, x, b)
          ELSE IF b = 0 THEN ClimbRemove(SetBalance(T, x, 0), p, w)
          ELSE LET r == Rotation(T, x, b)
               IN IF r.shorter THEN ClimbRemove(r.tree, p, w) ELSE r.tree

(* A node with at most one child is bridged.                                *)
Unlink(T, d) ==
  LET node == T.n[d].child[IF T.n[d].child[0] # NIL THEN 0 ELSE 1]
      T1 == Link([T EXCEPT !.num = @ - 1], T.n[d].parent, T.n[d].which, node)
  IN ClimbRemove(T1, T.n[d].parent, T.n[d].which)

AvlRemove(T, x) ==
  LET two == T.n[x].child[0] # NIL /\ T.n[x].child[1] # NIL
      T1 == IF two THEN Unlink(SwapDown(T, x), TMP) ELSE Unlink(T, x)
  IN [T1 EXCEPT !.n[x] = Blank, !.n[TMP] = Blank]   \* dead memory, forgotten

---------------------------------------------------------------------------
(* avl_destroy_nodes(): one call returns one node, children first. The      *)
(* cookie names the parent of the node returned last and its side.          *)
Start == [parent |-> NIL, side |-> 0, done |-> FALSE, gone |-> {}]

Whole == cookie = Start

Visit(T, x, p) ==
  [T |-> T, node |-> x, parent |-> p, side |-> T.n[x].which]

CheckRight(T, x, p) ==
  IF T.n[x].child[1] # NIL THEN Visit(T, T.n[x].child[1], x) ELSE Visit(T, x, p)

DestroyNode(T, ck) ==
  IF ck.gone = {} THEN CheckRight(T, First(T), T.n[First(T)].parent)
  ELSE LET p == ck.parent
           T1 == [T EXCEPT !.n[p].child[ck.side] = NIL, !.num = @ - 1]
           right == T1.n[p].child[1]
           low == Furthest(T1, right, 0)
       IN IF ck.side = 1 \/ right = NIL THEN Visit(T1, p, T1.n[p].parent)
          ELSE CheckRight(T1, low, T1.n[low].parent)

---------------------------------------------------------------------------
Full == FoldLeft(AvlAdd, Empty, FullOrder)

Init ==
  /\ \/ mode = "grow" /\ tree = Empty /\ held = {}
     \/ mode = "drain" /\ tree = Full /\ held = Range(FullOrder)
  /\ cookie = Start

AddKey(k) ==
  /\ mode = "grow" /\ Whole
  /\ tree' = AvlAdd(tree, k)
  /\ held' = held \cup {k}
  /\ UNCHANGED <<mode, cookie>>

(* The caller knows its neighbour.                                          *)
InsertHere(k, here, dir) ==
  /\ mode = "grow" /\ Whole
  /\ here \in held /\ k \notin held
  /\ (IF k < here THEN 0 ELSE 1) = dir
  /\ \A j \in held : ~ (k < j /\ j < here) /\ ~ (here < j /\ j < k)
  /\ tree' = AvlInsertHere(tree, k, here, dir)
  /\ held' = held \cup {k}
  /\ UNCHANGED <<mode, cookie>>

RemoveKey(k) ==
  /\ Whole
  /\ k \in held
  /\ tree' = AvlRemove(tree, k)
  /\ held' = held \ {k}
  /\ UNCHANGED <<mode, cookie>>

Destroy ==
  /\ held # {} /\ ~ cookie.done
  /\ Whole \/ cookie.parent # NIL
  /\ \E v \in {DestroyNode(tree, cookie)} :
       /\ tree' = v.T
       /\ cookie' = [cookie EXCEPT !.parent = v.parent, !.side = v.side,
                                   !.gone = @ \cup {v.node}]
  /\ UNCHANGED <<held, mode>>

(* The call that finds no parent to return to ends the walk.                *)
DestroyEnd ==
  /\ cookie.gone # {} /\ cookie.parent = NIL /\ ~ cookie.done
  /\ tree' = [tree EXCEPT !.root = NIL, !.num = 0]
  /\ cookie' = [cookie EXCEPT !.done = TRUE]
  /\ UNCHANGED <<held, mode>>

Next ==
  \/ \E k \in GrowKeys : AddKey(k) \/ \E h \in GrowKeys, d \in Side : InsertHere(k, h, d)
  \/ \E k \in Key : RemoveKey(k)
  \/ Destroy \/ DestroyEnd

Spec == Init /\ [][Next]_vars

---------------------------------------------------------------------------
RECURSIVE InOrder(_, _)
InOrder(T, x) ==
  IF x = NIL THEN <<>>
  ELSE InOrder(T, T.n[x].child[0]) \o <<x>> \o InOrder(T, T.n[x].child[1])

RECURSIVE Height(_, _)
Height(T, x) ==
  IF x = NIL THEN 0
  ELSE LET l == Height(T, T.n[x].child[0])
           r == Height(T, T.n[x].child[1])
       IN 1 + (IF l < r THEN r ELSE l)

TypeOK ==
  /\ tree.root \in Key \cup {NIL}
  /\ tree.num \in 0 .. MaxKey
  /\ held \subseteq Key
  /\ cookie.gone \subseteq held

(* Whatever the order of insertions and removals, an infix walk of the tree *)
(* yields exactly the keys put in and not taken out, in order, and          *)
(* avl_numnodes() counts them.                                              *)
TreeIsSet ==
  Whole => /\ tree.num = Cardinality(held)
           /\ Len(InOrder(tree, tree.root)) = Cardinality(held)
           /\ Range(InOrder(tree, tree.root)) = held
           /\ \A i \in 2 .. Cardinality(held) :
                InOrder(tree, tree.root)[i - 1] < InOrder(tree, tree.root)[i]

(* Each balance is the difference of the heights below it, at most one, and *)
(* each child points back at its parent and side: what the rotations of     *)
(* avl_insert() and avl_remove() have to restore on every path.             *)
Balanced ==
  Whole => \A x \in held :
    /\ tree.n[x].bal \in -1 .. 1
    /\ tree.n[x].bal = Height(tree, tree.n[x].child[1]) - Height(tree, tree.n[x].child[0])
    /\ \A s \in Side : tree.n[x].child[s] # NIL =>
         tree.n[tree.n[x].child[s]].parent = x /\ tree.n[tree.n[x].child[s]].which = s
    /\ tree.n[x].parent = NIL <=> tree.root = x

(* avl_find() with avl_nearest() and avl_walk() give the neighbours of any  *)
(* key, present or not: what fileset_find_entry() and fileset_pick() need.  *)
Neighbour(v, dir) ==
  LET beyond == {k \in held : IF dir = 1 THEN k > v ELSE k < v}
  IN IF beyond = {} THEN NIL
     ELSE CHOOSE k \in beyond : \A j \in beyond : IF dir = 1 THEN k <= j ELSE k >= j

NeighboursFound ==
  Whole => \A v \in Key : LET f == Find(tree, v) IN
    /\ (f.node = v) = (v \in held)
    /\ v \notin held => \A d \in Side : Nearest(tree, f.at, f.side, d) = Neighbour(v, d)
    /\ v \in held => \A d \in Side : Walk(tree, v, d) = Neighbour(v, d)

(* avl_destroy_nodes() returns every node once, and only then reports the   *)
(* tree empty.                                                              *)
DestroyedOnce ==
  /\ cookie.done => cookie.gone = held /\ tree.root = NIL
  /\ ~ Whole => tree.num + Cardinality(cookie.gone) = Cardinality(held) + (IF cookie.done THEN 0 ELSE 1)
===========================================================================
