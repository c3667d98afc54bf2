---------------------------- MODULE LinkedQueue ----------------------------
(***************************************************************************)
(* The linked queue of src/queue.c, as operators on a queue: the fields of *)
(* queue_t and the heap that holds its nodes.  malloc returns the lowest   *)
(* address not in use, so the address of a freed node is soon given out    *)
(* again, also while q->tail still holds it: qpop leaves q->tail alone     *)
(* when it takes the last node, for qpush decides by q->head.              *)
(***************************************************************************)
EXTENDS Naturals, FiniteSets, TLC

NULL == 0

qcreate == [head |-> NULL, tail |-> NULL, size |-> 0, heap |-> << >>]

qsize(q) == q.size

Malloc(heap) ==
  CHOOSE a \in 1..(Cardinality(DOMAIN heap) + 1) :
    a \notin DOMAIN heap /\ \A b \in 1..(a - 1) : b \in DOMAIN heap

(* Mutated: the node is put before the first one.                          *)
qpushAtHead(q, d) ==
  LET a == Malloc(q.heap)
      heap == (a :> [data |-> d, next |-> q.head]) @@ q.heap
  IN  [q EXCEPT !.head = a, !.size = @ + 1, !.heap = heap]

qpush(q, d) ==
  LET a == Malloc(q.heap)
      heap == (a :> [data |-> d, next |-> NULL]) @@ q.heap
  IN  IF q.head = NULL
      THEN [head |-> a, tail |-> a, size |-> q.size + 1, heap |-> heap]
      ELSE [q EXCEPT !.tail = a, !.size = @ + 1,
                     !.heap = [heap EXCEPT ![q.tail].next = a]]

qfront(q) == q.heap[q.head].data

(* qpop of an empty queue only prints a message.                           *)
qpop(q) ==
  IF q.head = NULL THEN q
  ELSE [q EXCEPT !.head = q.heap[q.head].next, !.size = @ - 1,
                 !.heap = [a \in DOMAIN q.heap \ {q.head} |-> q.heap[a]]]
=============================================================================
