--------------------------- MODULE RedBlackPrint ---------------------------
(***************************************************************************)
(* The inorder and the level print of a red-black tree (src/rb.c).  The    *)
(* level print goes through the linked queue of src/queue.c.               *)
(***************************************************************************)
EXTENDS RedBlackTree, Sequences, LinkedQueue

RECURSIVE _print_inorder(_)
_print_inorder(n) ==
  IF n = Null THEN << >>
  ELSE _print_inorder(n.left) \o <<n.key>> \o _print_inorder(n.right)

PushChild(q, n) == IF n = Null THEN q ELSE qpush(q, n)

(* `left` nodes of the depth are still in the queue, in front of their     *)
(* children.                                                               *)
RECURSIVE PrintDepth(_, _, _)
PrintDepth(q, left, line) ==
  IF left = 0 THEN [q |-> q, line |-> line]
  ELSE LET tmp == qfront(q)
       IN  PrintDepth(PushChild(PushChild(qpop(q), tmp.left), tmp.right),
                      left - 1, Append(line, tmp.key))

RECURSIVE PrintDepths(_)
PrintDepths(q) ==
  IF qsize(q) = 0 THEN << >>
  ELSE LET printed == PrintDepth(q, qsize(q), << >>)
       IN  <<printed.line>> \o PrintDepths(printed.q)

_print_level(n) == PrintDepths(qpush(qcreate, n))

(* How far each key is below the root.                                     *)
RECURSIVE Depths(_, _)
Depths(n, depth) ==
  IF n = Null THEN {}
  ELSE {<<n.key, depth>>} \cup Depths(n.left, depth + 1) \cup Depths(n.right, depth + 1)

(* The level print, which goes through the linked queue while nodes of the *)
(* queue are freed and allocated again, prints each key once, in the line  *)
(* of its depth and in the order in which the inorder print has them.      *)
LevelsPrinted ==
  LET order == _print_inorder(root)
      OfDepth(d) == SelectSeq(order, LAMBDA k : <<k, d>> \in Depths(root, 1))
      lines == _print_level(root)
  IN  root # Null => lines = [d \in 1..Len(lines) |-> OfDepth(d)]
                     /\ OfDepth(Len(lines) + 1) = << >>
=============================================================================
