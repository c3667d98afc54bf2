------------------------------ MODULE TaskFifo ------------------------------
(***************************************************************************)
(* What the thread pool of thread_queue.c promises to the code that hands  *)
(* it work: a bounded first-in first-out queue of tasks.  An accepted task *)
(* is started once, in the order of acceptance, or discarded after the     *)
(* queue has been closed; nothing is accepted by a full or closed queue.   *)
(* ThreadQueue implements this specification.                              *)
(***************************************************************************)
EXTENDS Naturals, Sequences

CONSTANTS Capacity,  \* tasks that may be pending at a time
          Tasks      \* the tasks

VARIABLES pending,   \* accepted and not yet started, oldest first
          started,   \* the tasks being executed
          closed     \* no more tasks are accepted

fifoVars == <<pending, started, closed>>

FifoInit ==
  /\ pending = << >>
  /\ started = {}
  /\ closed = FALSE

Accept(k) ==
  /\ ~closed
  /\ Len(pending) < Capacity
  /\ \A i \in 1..Len(pending) : pending[i] # k
  /\ k \notin started
  /\ pending' = Append(pending, k)
  /\ UNCHANGED <<started, closed>>

Start ==
  /\ pending # << >>
  /\ Head(pending) \notin started
  /\ started' = started \cup {Head(pending)}
  /\ pending' = Tail(pending)
  /\ UNCHANGED closed

Finish(k) ==
  /\ k \in started
  /\ started' = started \ {k}
  /\ UNCHANGED <<pending, closed>>

Discard ==
  /\ closed
  /\ pending # << >>
  /\ pending' = Tail(pending)
  /\ UNCHANGED <<started, closed>>

Close ==
  /\ ~closed
  /\ closed' = TRUE
  /\ UNCHANGED <<pending, started>>

FifoNext ==
  \/ \E k \in Tasks : Accept(k) \/ Finish(k)
  \/ Start
  \/ Discard
  \/ Close

FifoSpec == FifoInit /\ [][FifoNext]_fifoVars
=============================================================================
