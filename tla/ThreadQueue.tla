----------------------------- MODULE ThreadQueue -----------------------------
(***************************************************************************)
(* The thread pool of src/thread_queue.c: a ring of MAX_QUEUE_SIZE tasks   *)
(* behind one mutex and two condition variables, MAX_CPU worker threads    *)
(* that take tasks from it, and the threads that hand it tasks.            *)
(*                                                                         *)
(* Everything a thread does between taking tq->lock and releasing it (by   *)
(* unlocking or by pthread_cond_wait) is one action.  The two accesses the *)
(* code makes without the lock, the read of tq->count in the drain loop    *)
(* and the joins of destroy_thread_queue, are actions of their own.        *)
(*                                                                         *)
(* A worker is also a producer: a task that logs calls do_log, which calls *)
(* enqueue_task(logging_task, msg) (log.c).  process_retry_task, the other *)
(* task that enqueues, is enqueued by no function of this program and is   *)
(* left out here.                                                          *)
(***************************************************************************)
EXTENDS Naturals, Sequences, FiniteSets

CONSTANTS MaxQueueSize,  \* MAX_QUEUE_SIZE
          Workers,       \* the MAX_CPU threads running worker_thread
          Clients,       \* the websocket threads, which only enqueue
          Main,          \* the user interface's thread; it runs clean_up
          Tasks,         \* the task arguments that can be alive at a time
          LogTasks,      \* those whose task_function is logging_task
          NoTask,        \* the content of a slot or variable never written
          MaxLogs        \* bound: do_log calls of one execution of a task

ASSUME QueueAssumption ==
  /\ MaxQueueSize \in Nat \ {0}
  /\ IsFiniteSet(Workers)
  /\ Workers # {}
  /\ IsFiniteSet(Clients)
  /\ Workers \cap Clients = {}
  /\ Main \notin Workers \cup Clients
  /\ LogTasks \subseteq Tasks
  /\ NoTask \notin Tasks
  /\ MaxLogs \in Nat

Producers == Clients \cup {Main}
Threads == Workers \cup Producers
Slots == 0..(MaxQueueSize - 1)

VARIABLES queue,     \* tq->queue
          front,     \* tq->front
          rear,      \* tq->rear
          count,     \* tq->count
          shutdown,  \* tq->shutdown
          pc,        \* where each thread is
          arg,       \* the task each thread is passing to enqueue_task
          cur,       \* the task each worker is executing
          logs,      \* do_log calls made by the task each worker executes
          accepted,  \* enqueue_task returned true, nobody has taken it yet
          lost       \* refused by enqueue_task or thrown away by the drain

ring == <<queue, front, rear, count>>
vars == <<queue, front, rear, count, shutdown, pc, arg, cur, logs, accepted, lost>>

Held == {cur[w] : w \in Workers} \cup {arg[t] : t \in Threads}
Fresh == Tasks \ (accepted \cup lost \cup Held)

(* The threads at a place of the code.                                     *)
At(place) == {t \in Threads : pc[t] = place}

Succ(i) == (i + 1) % MaxQueueSize

Init ==
  /\ queue = [i \in Slots |-> NoTask]
  /\ front = 0
  /\ rear = 0
  /\ count = 0
  /\ shutdown = FALSE
  /\ pc = [t \in Threads |-> IF t \in Workers THEN "dequeue" ELSE "running"]
  /\ arg = [t \in Threads |-> NoTask]
  /\ cur = [w \in Workers |-> NoTask]
  /\ logs = [w \in Workers |-> 0]
  /\ accepted = {}
  /\ lost = {}

-----------------------------------------------------------------------------
(* Mutated: an enqueue signals not_full.                                   *)
SignalNotEmptyOnWrongCondition(t, next) ==
  \/ /\ At("wait_not_full") = {}
     /\ pc' = [pc EXCEPT ![t] = next]
  \/ \E u \in At("wait_not_full") :
       pc' = [pc EXCEPT ![t] = next, ![u] = "enqueue"]

(* pthread_cond_signal by a thread t that goes on to `next`: one waiting   *)
(* thread, if there is one, goes back for the lock to test its loop        *)
(* condition again.                                                        *)
SignalNotEmpty(t, next) ==
  \/ /\ At("wait_not_empty") = {}
     /\ pc' = [pc EXCEPT ![t] = next]
  \/ \E u \in At("wait_not_empty") :
       pc' = [pc EXCEPT ![t] = next, ![u] = "dequeue"]

(* Mutated: a dequeue signals not_empty.                                   *)
SignalNotFullOnWrongCondition(t, next) == SignalNotEmpty(t, next)

SignalNotFull(t, next) ==
  \/ /\ At("wait_not_full") = {}
     /\ pc' = [pc EXCEPT ![t] = next]
  \/ \E u \in At("wait_not_full") :
       pc' = [pc EXCEPT ![t] = next, ![u] = "enqueue"]

(* pthread_cond_wait may return without a signal; the while loops of both  *)
(* functions are there for that.                                           *)
SpuriousWakeup(t) ==
  /\ \/ /\ pc[t] = "wait_not_empty"
        /\ pc' = [pc EXCEPT ![t] = "dequeue"]
     \/ /\ pc[t] = "wait_not_full"
        /\ pc' = [pc EXCEPT ![t] = "enqueue"]
  /\ UNCHANGED <<ring, shutdown, arg, cur, logs, accepted, lost>>

-----------------------------------------------------------------------------
(* enqueue_task                                                            *)
EnqueueWaits(t) ==
  /\ pc[t] = "enqueue"
  /\ count = MaxQueueSize
  /\ ~shutdown
  /\ pc' = [pc EXCEPT ![t] = "wait_not_full"]
  /\ UNCHANGED <<ring, shutdown, arg, cur, logs, accepted, lost>>

(* The task is never seen again: do_log frees the message that is refused, *)
(* the other callers do not look at the false that enqueue_task returns.   *)
EnqueueRefused(t) ==
  /\ pc[t] = "enqueue"
  /\ shutdown
  /\ pc' = [pc EXCEPT ![t] = "running"]
  /\ arg' = [arg EXCEPT ![t] = NoTask]
  /\ lost' = lost \cup {arg[t]}
  /\ UNCHANGED <<ring, shutdown, cur, logs, accepted>>

(* Mutated: shutdown is not tested after the loop.                         *)
EnqueueAcceptedAfterShutdown(t) ==
  /\ pc[t] = "enqueue"
  /\ count # MaxQueueSize
  /\ queue' = [queue EXCEPT ![rear] = arg[t]]
  /\ rear' = Succ(rear)
  /\ count' = count + 1
  /\ SignalNotEmpty(t, "running")
  /\ arg' = [arg EXCEPT ![t] = NoTask]
  /\ accepted' = accepted \cup {arg[t]}
  /\ UNCHANGED <<front, shutdown, cur, logs, lost>>

EnqueueAccepted(t) ==
  /\ pc[t] = "enqueue"
  /\ count # MaxQueueSize
  /\ ~shutdown
  /\ queue' = [queue EXCEPT ![rear] = arg[t]]
  /\ rear' = Succ(rear)
  /\ count' = count + 1
  /\ SignalNotEmpty(t, "running")
  /\ arg' = [arg EXCEPT ![t] = NoTask]
  /\ accepted' = accepted \cup {arg[t]}
  /\ UNCHANGED <<front, shutdown, cur, logs, lost>>

Enqueue(t) == EnqueueWaits(t) \/ EnqueueRefused(t) \/ EnqueueAccepted(t)

-----------------------------------------------------------------------------
(* dequeue_task, called by a worker                                        *)
DequeueWaits(w) ==
  /\ pc[w] = "dequeue"
  /\ count = 0
  /\ ~shutdown
  /\ pc' = [pc EXCEPT ![w] = "wait_not_empty"]
  /\ UNCHANGED <<ring, shutdown, arg, cur, logs, accepted, lost>>

(* dequeue_task returns false and worker_thread breaks out of its loop.    *)
DequeueEnds(w) ==
  /\ pc[w] = "dequeue"
  /\ count = 0
  /\ shutdown
  /\ pc' = [pc EXCEPT ![w] = "done"]
  /\ UNCHANGED <<ring, shutdown, arg, cur, logs, accepted, lost>>

DequeueTakes(w) ==
  /\ pc[w] = "dequeue"
  /\ count # 0
  /\ front' = Succ(front)
  /\ count' = count - 1
  /\ SignalNotFull(w, "running")
  /\ cur' = [cur EXCEPT ![w] = queue[front]]
  /\ accepted' = accepted \ {queue[front]}
  /\ UNCHANGED <<queue, rear, shutdown, arg, logs, lost>>

Dequeue(w) == DequeueWaits(w) \/ DequeueEnds(w) \/ DequeueTakes(w)

-----------------------------------------------------------------------------
(* worker_thread: t.task_function(t.arg), which may log, and its return.   *)
TaskLogs(w) ==
  /\ pc[w] = "running"
  /\ cur[w] \notin LogTasks
  /\ logs[w] < MaxLogs
  /\ \E k \in Fresh \cap LogTasks : arg' = [arg EXCEPT ![w] = k]
  /\ logs' = [logs EXCEPT ![w] = logs[w] + 1]
  /\ pc' = [pc EXCEPT ![w] = "enqueue"]
  /\ UNCHANGED <<ring, shutdown, cur, accepted, lost>>

TaskReturns(w) ==
  /\ pc[w] = "running"
  /\ pc' = [pc EXCEPT ![w] = "dequeue"]
  /\ cur' = [cur EXCEPT ![w] = NoTask]
  /\ logs' = [logs EXCEPT ![w] = 0]
  /\ UNCHANGED <<ring, shutdown, arg, accepted, lost>>

(* The user interface and the websocket callbacks call enqueue_task.       *)
Submit(p) ==
  /\ pc[p] = "running"
  /\ \E k \in Fresh : arg' = [arg EXCEPT ![p] = k]
  /\ pc' = [pc EXCEPT ![p] = "enqueue"]
  /\ UNCHANGED <<ring, shutdown, cur, logs, accepted, lost>>

ClientEnds(c) ==
  /\ pc[c] = "running"
  /\ pc' = [pc EXCEPT ![c] = "done"]
  /\ UNCHANGED <<ring, shutdown, arg, cur, logs, accepted, lost>>

-----------------------------------------------------------------------------
(* Mutated: one of the two broadcasts is missing.                          *)
DestroyBeginsWakingOnly(place, next) ==
  /\ pc[Main] = "running"
  /\ \A c \in Clients : pc[c] = "done"
  /\ shutdown' = TRUE
  /\ pc' = [t \in Threads |->
              CASE t = Main -> "drain"
                [] pc[t] = place -> next
                [] OTHER -> pc[t]]
  /\ UNCHANGED <<ring, arg, cur, logs, accepted, lost>>

DestroyBeginsWakingDequeuers == DestroyBeginsWakingOnly("wait_not_empty", "dequeue")

(* destroy_thread_queue.  clean_up has joined the websocket threads before *)
(* it gets here: RES_WEBSOCKET is tracked last and so destroyed first.     *)
DestroyBegins ==
  /\ pc[Main] = "running"
  /\ \A c \in Clients : pc[c] = "done"
  /\ shutdown' = TRUE
  /\ pc' = [t \in Threads |->
              CASE t = Main -> "drain"
                [] pc[t] = "wait_not_empty" -> "dequeue"
                [] pc[t] = "wait_not_full" -> "enqueue"
                [] OTHER -> pc[t]]
  /\ UNCHANGED <<ring, arg, cur, logs, accepted, lost>>

(* `while (tq->count > 0)`, read without the lock: what it saw may have    *)
(* been taken by a worker when dequeue_task gets the lock.                 *)
DrainTests ==
  /\ pc[Main] = "drain"
  /\ pc' = [pc EXCEPT ![Main] = IF count > 0 THEN "drain_dequeue" ELSE "join"]
  /\ UNCHANGED <<ring, shutdown, arg, cur, logs, accepted, lost>>

DrainTakes ==
  /\ pc[Main] = "drain_dequeue"
  /\ count # 0
  /\ front' = Succ(front)
  /\ count' = count - 1
  /\ SignalNotFull(Main, "drain")
  /\ accepted' = accepted \ {queue[front]}
  /\ lost' = lost \cup {queue[front]}
  /\ UNCHANGED <<queue, rear, shutdown, arg, cur, logs>>

(* dequeue_task returns false and leaves `t` unset; the comparison of      *)
(* t.task_function with process_retry_task has no effect in a program that *)
(* enqueues no retry task.                                                 *)
DrainFindsNothing ==
  /\ pc[Main] = "drain_dequeue"
  /\ count = 0
  /\ pc' = [pc EXCEPT ![Main] = "drain"]
  /\ UNCHANGED <<ring, shutdown, arg, cur, logs, accepted, lost>>

(* Mutated: the workers are not joined.                                    *)
DestroyFreesWithoutJoin ==
  /\ pc[Main] = "join"
  /\ pc' = [pc EXCEPT ![Main] = "freed"]
  /\ UNCHANGED <<ring, shutdown, arg, cur, logs, accepted, lost>>

DestroyFrees ==
  /\ pc[Main] = "join"
  /\ \A w \in Workers : pc[w] = "done"
  /\ pc' = [pc EXCEPT ![Main] = "freed"]
  /\ UNCHANGED <<ring, shutdown, arg, cur, logs, accepted, lost>>

-----------------------------------------------------------------------------
Worker(w) == Enqueue(w) \/ Dequeue(w) \/ TaskLogs(w) \/ TaskReturns(w)

Destroy == DestroyBegins \/ DrainTests \/ DrainTakes \/ DrainFindsNothing \/ DestroyFrees

(* The program has ended; nothing more happens.                            *)
Terminated ==
  /\ pc[Main] = "freed"
  /\ UNCHANGED vars

Next ==
  \/ \E w \in Workers : Worker(w)
  \/ \E p \in Producers : Enqueue(p) \/ Submit(p)
  \/ \E c \in Clients : ClientEnds(c)
  \/ \E t \in Threads : SpuriousWakeup(t)
  \/ Destroy
  \/ Terminated

Spec == Init /\ [][Next]_vars

(* Every thread that can run does so: the operating system schedules it    *)
(* and the mutex does not starve it, and a task does not run forever.      *)
(* Nothing obliges the user to submit a task or to quit, and nothing is    *)
(* assumed of spurious wakeups.                                            *)
Fairness ==
  /\ \A w \in Workers : WF_vars(Worker(w))
  /\ \A p \in Producers : WF_vars(Enqueue(p))
  /\ WF_vars(DrainTests \/ DrainTakes \/ DrainFindsNothing \/ DestroyFrees)

FairSpec == Spec /\ Fairness

-----------------------------------------------------------------------------
(* PROPERTIES                                                              *)

PCs == {"running", "enqueue", "wait_not_full", "dequeue", "wait_not_empty",
        "done", "drain", "drain_dequeue", "join", "freed"}

(* Every variable has its type, and the ring indices stay in the ring.     *)
TypeOK ==
  /\ queue \in [Slots -> Tasks \cup {NoTask}]
  /\ front \in Slots
  /\ rear \in Slots
  /\ count \in 0..MaxQueueSize
  /\ shutdown \in BOOLEAN
  /\ pc \in [Threads -> PCs]
  /\ arg \in [Threads -> Tasks \cup {NoTask}]
  /\ cur \in [Workers -> Tasks \cup {NoTask}]
  /\ logs \in [Workers -> 0..MaxLogs]
  /\ accepted \subseteq Tasks
  /\ lost \subseteq Tasks

(* The slot i places after slot f, and the slot of the i-th pending task,  *)
(* the oldest being 0.                                                     *)
SlotAfter(f, i) == (f + i) % MaxQueueSize
Slot(i) == SlotAfter(front, i)

(* The ring holds, between front and rear, the accepted tasks nobody has   *)
(* taken, each once: wrapping around, a full ring (front = rear) and the   *)
(* drain's concurrent dequeues neither lose, repeat nor invent a task.     *)
RingHoldsAccepted ==
  /\ rear = Slot(count)
  /\ accepted = {queue[Slot(i)] : i \in 0..(count - 1)}
  /\ \A i, j \in 0..(count - 1) : queue[Slot(i)] = queue[Slot(j)] => i = j

(* A task has one owner: it is pending, or executed by one worker, or in   *)
(* the hands of one thread that enqueues it, or lost.  Its argument, which *)
(* its executor frees, is never executed (and freed) by two workers.       *)
OneOwner ==
  \A k \in Tasks :
    /\ \A v, w \in Workers : cur[v] = k /\ cur[w] = k => v = w
    /\ \A t, u \in Threads : arg[t] = k /\ arg[u] = k => t = u
    /\ \A w \in Workers, t \in Threads : ~(cur[w] = k /\ arg[t] = k)
    /\ k \in accepted \cup lost => k \notin Held
    /\ ~(k \in accepted /\ k \in lost)

(* No wakeup is lost, although each enqueue and dequeue signals a single   *)
(* waiter and another thread may get the lock first: while a thread waits  *)
(* for not_empty there are as many threads on their way to dequeue as      *)
(* pending tasks, and dually for not_full.                                 *)
NoLostWakeup ==
  /\ At("wait_not_empty") # {} => count <= Cardinality(At("dequeue"))
  /\ At("wait_not_full") # {} => MaxQueueSize <= count + Cardinality(At("enqueue"))

(* The only way the whole pool can be asleep with work to do: every worker *)
(* is itself waiting inside enqueue_task on a full queue.  Otherwise, when *)
(* nobody is on the way to enqueue, all of them wait for not_empty and     *)
(* there is no work: a mixture of both kinds of sleepers cannot be stuck.  *)
AsleepOnlyIfIdleOrStalled ==
  /\ \A w \in Workers : pc[w] \in {"wait_not_empty", "wait_not_full"}
  /\ \A p \in Producers : pc[p] # "enqueue"
  => \/ count = 0 /\ \A w \in Workers : pc[w] = "wait_not_empty"
     \/ count = MaxQueueSize /\ \A w \in Workers : pc[w] = "wait_not_full"

(* destroy_thread_queue frees the ring, its mutex and its condition        *)
(* variables only when no thread can touch them again, and by then every   *)
(* accepted task has been executed or discarded.                           *)
FreedWhenQuiet ==
  pc[Main] = "freed" =>
    /\ \A t \in Threads \ {Main} : pc[t] = "done"
    /\ count = 0
    /\ accepted = {}

(* What each place of the code says about the thread's task and argument.  *)
ThreadShape ==
  /\ \A w \in Workers :
       /\ pc[w] \in {"running", "enqueue", "wait_not_full",
                    "dequeue", "wait_not_empty", "done"}
       /\ cur[w] = NoTask <=> pc[w] \in {"dequeue", "wait_not_empty", "done"}
  /\ \A c \in Clients : pc[c] \in {"running", "enqueue", "wait_not_full", "done"}
  /\ pc[Main] \in {"running", "enqueue", "wait_not_full",
                   "drain", "drain_dequeue", "join", "freed"}
  /\ \A t \in Threads : arg[t] = NoTask <=> pc[t] \notin {"enqueue", "wait_not_full"}

(* What is known once destroy_thread_queue has begun.                      *)
ShutdownShape ==
  /\ shutdown <=> pc[Main] \in {"drain", "drain_dequeue", "join", "freed"}
  /\ shutdown => /\ \A c \in Clients : pc[c] = "done"
                 /\ At("wait_not_empty") = {}
                 /\ At("wait_not_full") = {}
  /\ \A w \in Workers : pc[w] = "done" => shutdown /\ count = 0
  /\ pc[Main] \in {"join", "freed"} => count = 0
  /\ pc[Main] = "freed" => \A w \in Workers : pc[w] = "done"

(* The inductive invariant from which the others follow.                   *)
QueueInv ==
  /\ TypeOK
  /\ ThreadShape
  /\ ShutdownShape
  /\ RingHoldsAccepted
  /\ OneOwner
  /\ NoLostWakeup

(* Every worker is inside enqueue_task and the ring is full: the pool      *)
(* cannot move before the queue is shut down.                              *)
Stalled ==
  /\ count = MaxQueueSize
  /\ \A w \in Workers : pc[w] \in {"enqueue", "wait_not_full"}

(* An accepted task is eventually executed or discarded, unless the pool   *)
(* stalls on its own log messages.                                         *)
AcceptedIsServed ==
  \A k \in Tasks : (k \in accepted) ~> (k \notin accepted \/ Stalled)


-----------------------------------------------------------------------------
(* The abstract queue this pool implements.                                *)
Pending == [i \in 1..count |-> queue[Slot(i - 1)]]

Fifo == INSTANCE TaskFifo WITH
          Capacity <- MaxQueueSize,
          pending <- Pending,
          started <- {cur[w] : w \in Workers} \ {NoTask},
          closed <- shutdown

(* The pool is a bounded first-in first-out queue: tasks are started in    *)
(* the order their enqueue_task returned true, none is accepted after      *)
(* shutdown and none is discarded before it.                               *)
ImplementsFifo == Fifo!FifoSpec
=============================================================================
