---------------------------- MODULE RedBlackTree ----------------------------
(***************************************************************************)
(* The left-leaning red-black tree of src/rb.c: the recursive functions of *)
(* the source as operators that return the changed subtree, and a state    *)
(* machine in which a caller uses one tree in any way it likes.            *)
(*                                                                         *)
(* The pointer to a node that a function of the source changes is here the *)
(* subtree it returns.  A function that follows a null pointer has no      *)
(* value, and TLC stops with an error: the runs also show that none does.  *)
(*                                                                         *)
(* A tree made with key_free and data_free owns what is inserted.  An      *)
(* object that was freed while a node still points to it is fatal to the   *)
(* next operation; the model ends there.                                   *)
(***************************************************************************)
EXTENDS Integers, FiniteSets

CONSTANT Pairs   \* the pairs of a key and a datum that may be inserted

Keys == {p[1] : p \in Pairs}
Data == {p[2] : p \in Pairs}
Null == << >>   \* the null pointer of a link

ASSUME TreeAssumption == IsFiniteSet(Pairs) /\ Keys \subseteq Int

VARIABLES owned,    \* key_free and data_free were given to rb_create
          root,     \* t->root
          freed,    \* objects the last operation freed
          clearing, \* rb_remove_tree is in its loop
          asked     \* history: the last operation and its arguments

treeVars == <<owned, root, freed, clearing, asked>>

-----------------------------------------------------------------------------
(* NODES                                                                   *)

rb_node_create(k, d) ==
  [key |-> k, data |-> d, red |-> TRUE, size |-> 1, left |-> Null, right |-> Null]

rb_is_red(n) == n # Null /\ n.red
rb_size_n(n) == IF n = Null THEN 0 ELSE n.size
Sized(n) == [n EXCEPT !.size = 1 + rb_size_n(n.left) + rb_size_n(n.right)]

(* The trees of at most h levels.  A tree of distinct keys has no more     *)
(* levels than there are keys.                                             *)
TreesUpTo[h \in Nat] ==
  IF h = 0 THEN {Null}
  ELSE LET T == TreesUpTo[h - 1]
       IN  {Null} \cup [key : Keys, data : Data, red : BOOLEAN, size : Nat, left : T, right : T]

Trees == TreesUpTo[Cardinality(Keys)]

rb_find(n, k) ==
  LET find[x \in Trees] ==
        IF x = Null THEN Null
        ELSE IF x.key = k THEN x
        ELSE IF x.key < k THEN find[x.right]
        ELSE find[x.left]
  IN  find[n]

rb_contain(n, k) == rb_find(n, k) # Null

rb_min_n(n) ==
  LET min[x \in Trees \ {Null}] == IF x.left = Null THEN x ELSE min[x.left]
  IN  min[n]

rb_max_n(n) ==
  LET max[x \in Trees \ {Null}] == IF x.right = Null THEN x ELSE max[x.right]
  IN  max[n]

(* The nodes of a subtree.                                                 *)
NodesOf(n) ==
  LET nodes[x \in Trees] ==
        IF x = Null THEN {} ELSE {x} \cup nodes[x.left] \cup nodes[x.right]
  IN  nodes[n]

(* The number of black nodes on the way down to a null link, and -1 if it  *)
(* is not the same on all ways.                                            *)
BlackHeight(n) ==
  LET height[x \in Trees] ==
        IF x = Null THEN 0
        ELSE LET l == height[x.left]
             IN  IF l = -1 \/ l # height[x.right] THEN -1
                 ELSE l + (IF x.red THEN 0 ELSE 1)
  IN  height[n]

KeysOf(n) == {x.key : x \in NodesOf(n)}

(* A search tree: what is on the left is less, and on the right greater.   *)
Ordered(n) ==
  \A x \in NodesOf(n) :
    /\ \A y \in NodesOf(x.left) : y.key < x.key
    /\ \A y \in NodesOf(x.right) : x.key < y.key

(* Every way down has as many black nodes as every other, no red node has  *)
(* a red child, and red links lean left.                                   *)
RedBlack(n) ==
  /\ BlackHeight(n) # -1
  /\ \A x \in NodesOf(n) :
       ~rb_is_red(x.right) /\ (rb_is_red(x) => ~rb_is_red(x.left))

-----------------------------------------------------------------------------
(* ROTATIONS AND COLORS                                                    *)

(* Mutated: the size of the node that goes down is not counted anew.       *)
RotateLeftUnsized(n) ==
  [n.right EXCEPT !.left = [n EXCEPT !.right = n.right.left, !.red = TRUE],
                  !.red = n.red, !.size = n.size]

rb_rotate_left(n) ==
  [n.right EXCEPT !.left = Sized([n EXCEPT !.right = n.right.left, !.red = TRUE]),
                  !.red = n.red, !.size = n.size]

rb_rotate_right(n) ==
  [n.left EXCEPT !.right = Sized([n EXCEPT !.left = n.left.right, !.red = TRUE]),
                 !.red = n.red, !.size = n.size]

rb_color_flip(n) ==
  [n EXCEPT !.red = ~@, !.left.red = ~@, !.right.red = ~@]

(* Mutated: two red children are left as they are.                         *)
FixUpWithoutFlip(n) ==
  LET a == IF rb_is_red(n.right) /\ ~rb_is_red(n.left) THEN rb_rotate_left(n) ELSE n
  IN  Sized(IF rb_is_red(a.left) /\ rb_is_red(a.left.left) THEN rb_rotate_right(a) ELSE a)

fix_up(n) ==
  LET a == IF rb_is_red(n.right) /\ ~rb_is_red(n.left) THEN rb_rotate_left(n) ELSE n
      b == IF rb_is_red(a.left) /\ rb_is_red(a.left.left) THEN rb_rotate_right(a) ELSE a
      c == IF rb_is_red(b.left) /\ rb_is_red(b.right) THEN rb_color_flip(b) ELSE b
  IN  Sized(c)

(* Only a child that is not red is asked for its left link.                *)
TwoBlack(n) == ~rb_is_red(n) /\ ~rb_is_red(n.left)

rb_move_red_left(n) ==
  LET a == rb_color_flip(n)
  IN  IF rb_is_red(a.right.left)
      THEN rb_color_flip(rb_rotate_left([a EXCEPT !.right = rb_rotate_right(a.right)]))
      ELSE a

rb_move_red_right(n) ==
  LET a == rb_color_flip(n)
  IN  IF rb_is_red(a.left.left) THEN rb_color_flip(rb_rotate_right(a)) ELSE a

-----------------------------------------------------------------------------
(* OPERATIONS ON A SUBTREE: the subtree they leave, the objects they free. *)

KeyObject(n) == <<"key", n.key>>
DataObject(n) == <<"data", n.key, n.data>>

free_key_and_data(n) == IF owned THEN {KeyObject(n), DataObject(n)} ELSE {}

Result(n, f) == [n |-> n, freed |-> f]
OnLeft(n, r) == Result(fix_up([n EXCEPT !.left = r.n]), r.freed)
OnRight(n, r) == Result(fix_up([n EXCEPT !.right = r.n]), r.freed)

(* For a key that is there only the data is replaced: the new key is not   *)
(* stored, and not freed either.                                           *)
_rb_insert(n, k, d) ==
  LET insert[x \in Trees] ==
        IF x = Null THEN Result(rb_node_create(k, d), {})
        ELSE IF x.key = k
             THEN Result([x EXCEPT !.data = d], IF owned THEN {DataObject(x)} ELSE {})
        ELSE IF x.key < k THEN OnRight(x, insert[x.right])
        ELSE OnLeft(x, insert[x.left])
  IN  insert[n]

(* The subtrees a removal is called for.  Moving a red link down may leave *)
(* a right link red.  For another node the functions below would follow a  *)
(* null pointer, and have no value.                                        *)
Removable ==
  {x \in Trees \ {Null} :
     /\ Ordered(x)
     /\ RedBlack(x.left) /\ RedBlack(x.right)
     /\ BlackHeight(x.left) = BlackHeight(x.right)
     /\ rb_is_red(x.left) => ~rb_is_red(x) /\ ~rb_is_red(x.right)
     /\ rb_is_red(x.right) => ~rb_is_red(x)}

_rb_remove_min(n) ==
  LET remove[x \in {y \in Removable : ~rb_is_red(y.right)}] ==
        IF x.left = Null THEN Result(Null, free_key_and_data(x))
        ELSE LET a == IF TwoBlack(x.left) THEN rb_move_red_left(x) ELSE x
             IN  OnLeft(a, remove[a.left])
  IN  remove[n]

_rb_remove_max(n) ==
  LET remove[x \in Removable] ==
        LET a == IF rb_is_red(x.left) THEN rb_rotate_right(x) ELSE x
            b == IF TwoBlack(a.right) THEN rb_move_red_right(a) ELSE a
        IN  IF a.right = Null THEN Result(Null, free_key_and_data(a))
            ELSE OnRight(b, remove[b.right])
  IN  remove[n]

(* Mutated: the key of the successor is moved up, its data is not.         *)
ReplaceKeyOnly(n) ==
  LET tmp == rb_min_n(n.right)
      r == _rb_remove_min(n.right)
  IN  OnRight([n EXCEPT !.key = tmp.key],
              Result(r.n, free_key_and_data(n) \cup r.freed))

(* Mutated: not the least but the greatest key of the right subtree.       *)
ReplaceByLast(n) ==
  LET tmp == rb_max_n(n.right)
      r == _rb_remove_min(n.right)
  IN  OnRight([n EXCEPT !.key = tmp.key, !.data = tmp.data],
              Result(r.n, free_key_and_data(n) \cup r.freed))

(* The node's objects are freed and its successor's pointers are copied    *)
(* into it; removing the successor then frees the objects just copied.     *)
ReplaceBySuccessor(n) ==
  LET tmp == rb_min_n(n.right)
      r == _rb_remove_min(n.right)
  IN  OnRight([n EXCEPT !.key = tmp.key, !.data = tmp.data],
              Result(r.n, free_key_and_data(n) \cup r.freed))

_rb_remove(n, k) ==
  LET remove[x \in {y \in Removable :
                      /\ k \in KeysOf(y)
                      /\ rb_is_red(y.right) => k >= y.key}] ==
        IF k < x.key
        THEN LET a == IF TwoBlack(x.left) THEN rb_move_red_left(x) ELSE x
             IN  OnLeft(a, remove[a.left])
        ELSE LET a == IF rb_is_red(x.left) THEN rb_rotate_right(x) ELSE x
                 b == IF TwoBlack(a.right) THEN rb_move_red_right(a) ELSE a
             IN  IF k = a.key /\ a.right = Null THEN Result(Null, free_key_and_data(a))
                 ELSE IF k = b.key THEN ReplaceBySuccessor(b)
                 ELSE OnRight(b, remove[b.right])
  IN  remove[n]

-----------------------------------------------------------------------------
(* A TREE AND ITS CALLER                                                   *)

Objects(n) == UNION {{KeyObject(x), DataObject(x)} : x \in NodesOf(n)}

(* No node points to an object that was freed.                             *)
Sound == freed \cap Objects(root) = {}

Blackened(n) == IF n = Null THEN n ELSE [n EXCEPT !.red = FALSE]

Becomes(r) ==
  /\ root' = Blackened(r.n)
  /\ freed' = r.freed

TreeInit ==
  /\ owned \in BOOLEAN
  /\ root = Null
  /\ freed = {}
  /\ clearing = FALSE
  /\ asked = <<"create">>

Callable == Sound /\ ~clearing

(* The caller does not hand over an object the tree already owns.          *)
rb_insert(k, d) ==
  /\ Callable
  /\ owned => <<"data", k, d>> \notin Objects(root)
  /\ Becomes(_rb_insert(root, k, d))
  /\ asked' = <<"insert", k, d>>
  /\ UNCHANGED <<owned, clearing>>

rb_remove(k) ==
  /\ Callable
  /\ Becomes(IF rb_contain(root, k) THEN _rb_remove(root, k) ELSE Result(root, {}))
  /\ asked' = <<"remove", k>>
  /\ UNCHANGED <<owned, clearing>>

rb_remove_min ==
  /\ Callable
  /\ root # Null
  /\ Becomes(_rb_remove_min(root))
  /\ asked' = <<"remove_min">>
  /\ UNCHANGED <<owned, clearing>>

(* Mutated: the objects of the node are not freed.                         *)
rb_remove_max_leaking ==
  /\ Callable
  /\ root # Null
  /\ root' = Blackened(_rb_remove_max(root).n)
  /\ freed' = {}
  /\ asked' = <<"remove_max">>
  /\ UNCHANGED <<owned, clearing>>

rb_remove_max ==
  /\ Callable
  /\ root # Null
  /\ Becomes(_rb_remove_max(root))
  /\ asked' = <<"remove_max">>
  /\ UNCHANGED <<owned, clearing>>

(* One turn of rb_remove_tree's loop; after the last one free(t), and a    *)
(* caller that goes on does so with a new tree.                            *)
rb_remove_tree ==
  /\ Sound
  /\ root # Null
  /\ Becomes(_rb_remove(root, root.key))
  /\ clearing' = (root' # Null)
  /\ asked' = <<"remove_tree">>
  /\ UNCHANGED owned

TreeNext ==
  \/ \E p \in Pairs : rb_insert(p[1], p[2])
  \/ \E k \in Keys : rb_remove(k)
  \/ rb_remove_min \/ rb_remove_max \/ rb_remove_tree

TreeSpec == TreeInit /\ [][TreeNext]_treeVars

-----------------------------------------------------------------------------
(* PROPERTIES                                                              *)

NodeOf(k) == CHOOSE x \in NodesOf(root) : x.key = k

(* Every variable and every field of a node has its type, and the size a   *)
(* node keeps is the number of nodes under it, though rotations hand it on *)
(* from node to node.                                                      *)
TreeTypeOK ==
  /\ owned \in BOOLEAN /\ clearing \in BOOLEAN
  /\ freed \subseteq ({"key"} \X Keys) \cup ({"data"} \X Keys \X Data)
  /\ \A x \in NodesOf(root) :
       /\ x.key \in Keys /\ x.data \in Data /\ x.red \in BOOLEAN
       /\ x.size = Cardinality(NodesOf(x))

(* What makes a search short, after any sequence of operations: the        *)
(* rotations of a removal break it all on the way down, and fix_up has to  *)
(* mend it on the way back.                                                *)
Balanced == RedBlack(root) /\ ~rb_is_red(root)

(* A search finds exactly the keys that are somewhere in the tree, with    *)
(* the node that holds them, and the ends of the tree are the least and    *)
(* the greatest of them.                                                   *)
SearchFinds ==
  /\ \A k \in Keys :
       rb_find(root, k) = IF k \in KeysOf(root) THEN NodeOf(k) ELSE Null
  /\ root # Null => \A k \in KeysOf(root) :
       rb_min_n(root).key <= k /\ k <= rb_max_n(root).key

(* A tree that owns its objects frees in each step the objects that its    *)
(* nodes pointed to and point to no more, each of them and nothing else,   *)
(* and a tree that does not own them frees nothing.  There is one          *)
(* exception: the removal of a key whose node has a right subtree also     *)
(* frees the objects of the next key, which stays in the tree.  No other   *)
(* removal does: not of a leaf, not of the least or of the greatest key.   *)
(* (A key handed over for one that is there never gets into a node.)       *)
Successors(k) ==
  {y \in KeysOf(root) : y > k /\ \A x \in KeysOf(root) : x > k => y <= x}

(* The step is a call that removes the key k.                              *)
Removes(k) ==
  \/ asked' = <<"remove", k>>
  \/ asked' = <<"remove_tree">> /\ k = root.key

DropsAndFrees ==
  LET dropped == Objects(root) \ Objects(root)'
      replaced == {k \in KeysOf(root) : Removes(k) /\ NodeOf(k).right # Null}
  IN  IF ~owned THEN freed' = {}
      ELSE IF replaced = {} THEN freed' = dropped
      ELSE \E k \in replaced : \E y \in Successors(k) :
             freed' = dropped \cup {KeyObject(NodeOf(y)), DataObject(NodeOf(y))}

FreesWhatItDrops == [][DropsAndFrees]_treeVars

(* The tree is a map: each operation has the effect asked for and no other *)
(* on the pairs, whatever it does to the nodes.                            *)
M == INSTANCE OrderedMap WITH map <- [k \in KeysOf(root) |-> NodeOf(k).data]
ImplementsMap == M!MapSpec
=============================================================================
