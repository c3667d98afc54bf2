----------------------------- MODULE Lifecycle -----------------------------
(***************************************************************************)
(* The life of the process, from set_up to clean_up (src/main.c), and the  *)
(* list of tracked resources that ties it together (include/common.h):     *)
(* components are pushed when they are up, MALLOC pushes and FREE removes  *)
(* temporary objects, and clean_up walks the list from its head, destroys  *)
(* the components, joins their threads and frees the objects, holding      *)
(* g_resources_mtx from beginning to end.                                  *)
(*                                                                         *)
(* clean_up is also the exit handler: any thread that calls exit() runs it *)
(* (update_account does, with account_mtx held, for a currency it does not *)
(* know, and a rotation of the log, with log_mutex held, if it fails).     *)
(* The task queue is here a sequence of task arguments with its limit: who *)
(* enqueues, and whoever logs, waits while it is full.  Its ring and its   *)
(* wakeups are the subject of ThreadQueue.                                 *)
(***************************************************************************)
EXTENDS Naturals, Sequences, FiniteSets

SeqExt == INSTANCE SequencesExt

CONSTANTS Main,              \* main's thread, which is the user interface's
          Public, Private,   \* the websocket threads
          Workers,           \* the threads of the pool
          Objects,           \* addresses MALLOC can return
          NoObject, NoThread,
          OtherCurrencies,   \* the account holds a currency not in the table
          LogTask,           \* a task that logs; its argument is not tracked
          Exits,             \* Bound: threads that may call exit() from a task or a message
          MAX_QUEUE_SIZE     \* tasks the queue holds

Threads == {Main, Public, Private} \cup Workers

ASSUME LifecycleAssumption ==
  /\ NoObject \notin Objects
  /\ NoThread \notin {Main, Public, Private} \cup Workers
  /\ Main \notin {Public, Private} \cup Workers
  /\ Public # Private
  /\ {Public, Private} \cap Workers = {}
  /\ OtherCurrencies \in BOOLEAN
  /\ Exits \subseteq {Private} \cup Workers
  /\ LogTask \notin Objects \cup {NoObject}
  /\ MAX_QUEUE_SIZE \in Nat \ {0}

VARIABLES step,        \* the component set_up is at
          list,        \* g_resources, its head first
          mtx,         \* the holder of g_resources_mtx
          account_mtx, \* the holder of account_mtx
          log_mutex,   \* the holder of log_mutex
          txn_mutex,   \* the holder of txn_mutex
          flag,        \* g_shutdown_flag
          running,     \* ws_public_running and ws_private_running
          closed,      \* tq->shutdown
          queue,       \* arguments of the tasks in the queue
          pc,          \* where each thread is
          arg,         \* the argument of the task a thread passes on or executes
          buf,         \* the response buffer of that task
          destroyed,   \* the components destroyed
          freed,       \* objects freed by clean_up
          touched      \* history: the threads that used one of these afterwards

lifeVars == <<step, list, mtx, account_mtx, log_mutex, txn_mutex, flag, running, closed, queue,
              pc, arg, buf, destroyed, freed, touched>>
memory == <<arg, buf, freed, touched>>
leafLocks == <<account_mtx, log_mutex, txn_mutex>>

(* Mutated: the workers are started before the handles they use.           *)
ComponentsWorkersFirst ==
  <<"log", "sig", "txn", "json", "order", "sym", "account", "queue", "curl", "ui", "websocket">>

(* The order of set_up.                                                    *)
Components ==
  <<"log", "sig", "txn", "json", "order", "sym", "account", "curl", "queue", "ui", "websocket">>

ComponentNames == {Components[k] : k \in DOMAIN Components}

ASSUME ObjectsAssumption == Objects \cap ComponentNames = {}

AllUp == step > Len(Components)
Ended == \A t \in Threads : pc[t] = "ended"

Listed == {list[i] : i \in DOMAIN list}
Unused == Objects \ (Listed \cup freed \cup {queue[i] : i \in DOMAIN queue}
                       \cup {arg[t] : t \in Threads} \cup {buf[t] : t \in Threads})

(* Bound: an address is left for every thread inside MALLOC, which so      *)
(* never fails.                                                            *)
CanAllocate == Cardinality(Unused) > Cardinality({t \in Threads : pc[t] = "alloc"})

LifeInit ==
  /\ step = 1
  /\ list = << >>
  /\ mtx = NoThread
  /\ account_mtx = NoThread
  /\ log_mutex = NoThread
  /\ txn_mutex = NoThread
  /\ flag = FALSE
  /\ running = [t \in {Public, Private} |-> TRUE]
  /\ closed = FALSE
  /\ queue = << >>
  /\ pc = [t \in Threads |-> IF t = Main THEN "init" ELSE "unborn"]
  /\ arg = [t \in Threads |-> NoObject]
  /\ buf = [t \in Threads |-> NoObject]
  /\ destroyed = {}
  /\ freed = {}
  /\ touched = {}

-----------------------------------------------------------------------------
(* set_up                                                                  *)
InitComponent ==
  /\ pc[Main] = "init"
  /\ pc' = [t \in Threads |->
              CASE t = Main -> IF Components[step] = "websocket" THEN "init_private"
                               ELSE "track"
                [] t \in Workers /\ Components[step] = "queue" -> "idle"
                [] t = Public /\ Components[step] = "websocket" -> "service"
                [] OTHER -> pc[t]]
  /\ UNCHANGED <<step, list, mtx, leafLocks, flag, running, closed, queue, memory, destroyed>>

InitPrivate ==
  /\ pc[Main] = "init_private"
  /\ pc' = [pc EXCEPT ![Main] = "track", ![Private] = "service"]
  /\ UNCHANGED <<step, list, mtx, leafLocks, flag, running, closed, queue, memory, destroyed>>

(* Every init function calls exit() when it fails, a websocket's after it  *)
(* has logged.  (A websocket that does not connect is destroyed first; the *)
(* join of its thread, which was never created, is taken to return.)       *)
InitFails ==
  /\ pc[Main] \in {"init", "init_private"}
  /\ pc' = [pc EXCEPT ![Main] = IF Components[step] = "websocket" THEN "exit_log" ELSE "clean"]
  /\ UNCHANGED <<step, list, mtx, leafLocks, flag, running, closed, queue, memory, destroyed>>

TRACK_RESOURCE(r) ==
  /\ mtx = NoThread
  /\ list' = <<r>> \o list

Track ==
  /\ pc[Main] = "track"
  /\ TRACK_RESOURCE(Components[step])
  /\ step' = step + 1
  /\ pc' = [pc EXCEPT ![Main] = IF step = Len(Components) THEN "ui" ELSE "init"]
  /\ UNCHANGED <<mtx, leafLocks, flag, running, closed, queue, memory, destroyed>>

-----------------------------------------------------------------------------
(* The user interface's thread: main's loop, which tests the flag at "ui", *)
(* and a menu entry that makes an object and enqueues a task with it.      *)
MenuAllocates ==
  /\ pc[Main] = "ui"
  /\ ~flag
  /\ CanAllocate
  /\ pc' = [pc EXCEPT ![Main] = "alloc"]
  /\ UNCHANGED <<step, list, mtx, leafLocks, flag, running, closed, queue, memory, destroyed>>

LoopEnds ==
  /\ pc[Main] = "ui"
  /\ flag
  /\ pc' = [pc EXCEPT ![Main] = "clean"]
  /\ UNCHANGED <<step, list, mtx, leafLocks, flag, running, closed, queue, memory, destroyed>>

(* [q], or a signal once its handler is installed.                         *)
RaiseFlag ==
  /\ ~flag
  /\ pc[Main] = "ui" \/ "sig" \in Listed
  /\ flag' = TRUE
  /\ UNCHANGED <<step, list, mtx, leafLocks, running, closed, queue, pc, memory, destroyed>>

(* MALLOC by the two threads that make task arguments.                     *)
Allocate(t) ==
  /\ t \in {Main, Private}
  /\ pc[t] = "alloc"
  /\ \E x \in Unused :
       /\ TRACK_RESOURCE(x)
       /\ arg' = [arg EXCEPT ![t] = x]
  /\ pc' = [pc EXCEPT ![t] = "make"]
  /\ UNCHANGED <<step, mtx, leafLocks, flag, running, closed, queue, buf, freed,
                 touched, destroyed>>

(* The thread uses what it was given, which clean_up may have freed.       *)
Touches(t) == touched' = IF {arg[t], buf[t]} \cap freed # {} THEN touched \cup {t} ELSE touched

(* The object is filled in, by create_txn or make_order, with no lock held.*)
Makes(t) ==
  /\ pc[t] = "make"
  /\ Touches(t)
  /\ pc' = [pc EXCEPT ![t] = "enqueue"]
  /\ UNCHANGED <<step, list, mtx, leafLocks, flag, running, closed, queue, arg, buf,
                 freed, destroyed>>

(* The queue is full: whoever enqueues waits, until it is closed.          *)
Full == Len(queue) = MAX_QUEUE_SIZE /\ ~closed

enqueue_task(task) ==
  /\ ~Full
  /\ queue' = IF closed THEN queue ELSE Append(queue, task)

Enqueue(t) ==
  /\ pc[t] = "enqueue"
  /\ enqueue_task(arg[t])
  /\ arg' = [arg EXCEPT ![t] = NoObject]
  /\ pc' = [pc EXCEPT ![t] = IF t = Main THEN "ui" ELSE "service"]
  /\ UNCHANGED <<step, list, mtx, leafLocks, flag, running, closed, buf, freed,
                 touched, destroyed>>

-----------------------------------------------------------------------------
(* The websocket threads, which test their flag at "service".  (A call of  *)
(* lws_service that handles several messages is several calls here: only   *)
(* its thread reads the flag, and to clear it between two of the messages  *)
(* is to clear it after the last.)  A trade event makes a transaction      *)
(* record.                                                                 *)
ReceiveTrade ==
  /\ pc[Private] = "service"
  /\ running[Private]
  /\ CanAllocate
  /\ pc' = [pc EXCEPT ![Private] = "alloc"]
  /\ UNCHANGED <<step, list, mtx, leafLocks, flag, running, closed, queue, memory, destroyed>>

ConnectionCloses(t) ==
  /\ t \in {Public, Private}
  /\ pc[t] = "service"
  /\ running[t]
  /\ flag' = TRUE
  /\ running' = [running EXCEPT ![t] = FALSE]
  /\ UNCHANGED <<step, list, mtx, leafLocks, closed, queue, pc, memory, destroyed>>

ServiceEnds(t) ==
  /\ t \in {Public, Private}
  /\ pc[t] = "service"
  /\ ~running[t]
  /\ pc' = [pc EXCEPT ![t] = "done"]
  /\ UNCHANGED <<step, list, mtx, leafLocks, flag, running, closed, queue, memory, destroyed>>

(* Who is in update_account: the private websocket thread, and a worker    *)
(* with the answer to get_account_info.                                    *)
HasBalance(t) ==
  \/ t = Private /\ pc[t] = "service" /\ running[t]
  \/ t \in Workers /\ pc[t] = "use" /\ buf[t] # NoObject

(* update_account finds no entry for the currency: exit() without unlock.  *)
UnknownCurrency(t) ==
  /\ OtherCurrencies
  /\ t \in Exits
  /\ HasBalance(t)
  /\ account_mtx = NoThread
  /\ account_mtx' = t
  /\ pc' = [pc EXCEPT ![t] = "clean"]
  /\ UNCHANGED <<step, list, mtx, log_mutex, txn_mutex, flag, running, closed, queue, memory,
                 destroyed>>

(* Who calls update_account from then on waits for good.                   *)
WaitForAccount(t) ==
  /\ HasBalance(t)
  /\ account_mtx # NoThread
  /\ pc' = [pc EXCEPT ![t] = "account"]
  /\ UNCHANGED <<step, list, mtx, leafLocks, flag, running, closed, queue, memory, destroyed>>

(* A message or a request logs; a frame of the user interface does not.    *)
(* Bound: a request logs once, and has the last use of its memory still to *)
(* come.                                                                   *)
do_log(t) ==
  /\ \/ t \in {Public, Private} /\ pc[t] = "service" /\ running[t]
     \/ t \in Workers /\ pc[t] = "use" /\ buf[t] # NoObject
  /\ pc' = [pc EXCEPT ![t] = "logging"]
  /\ UNCHANGED <<step, list, mtx, leafLocks, flag, running, closed, queue, memory, destroyed>>

EnqueueLog(t) ==
  /\ pc[t] = "logging"
  /\ enqueue_task(LogTask)
  /\ Touches(t)
  /\ pc' = [pc EXCEPT ![t] = IF t \in Workers THEN "free" ELSE "service"]
  /\ UNCHANGED <<step, list, mtx, leafLocks, flag, running, closed, arg, buf, freed, destroyed>>

(* The message before an exit(); a rotation of the transactions logs it    *)
(* with txn_mutex held, and gives the lock up before it exits.             *)
LogsAndExits(t) ==
  /\ pc[t] = "exit_log"
  /\ enqueue_task(LogTask)
  /\ txn_mutex' = IF txn_mutex = t THEN NoThread ELSE txn_mutex
  /\ pc' = [pc EXCEPT ![t] = "clean"]
  /\ UNCHANGED <<step, list, mtx, account_mtx, log_mutex, flag, running, closed, memory, destroyed>>

-----------------------------------------------------------------------------
(* The workers: a task with a tracked argument, and with a tracked buffer  *)
(* if it is a request; a task without one saves a transaction.  Which of   *)
(* the two it is, is told when it is taken.                                *)
TakeTask(w) ==
  /\ pc[w] = "idle"
  /\ queue # << >>
  /\ Head(queue) # LogTask
  /\ arg' = [arg EXCEPT ![w] = Head(queue)]
  /\ queue' = Tail(queue)
  /\ \E request \in {FALSE, CanAllocate} :
       pc' = [pc EXCEPT ![w] = IF request THEN "alloc" ELSE "use"]
  /\ UNCHANGED <<step, list, mtx, leafLocks, flag, running, closed, buf, freed,
                 touched, destroyed>>

TakeLogTask(w) ==
  /\ pc[w] = "idle"
  /\ queue # << >>
  /\ Head(queue) = LogTask
  /\ queue' = Tail(queue)
  /\ pc' = [pc EXCEPT ![w] = "log"]
  /\ UNCHANGED <<step, list, mtx, leafLocks, flag, running, closed, memory, destroyed>>

(* logging_task: the message is written under log_mutex.                   *)
Log(w) ==
  /\ pc[w] = "log"
  /\ log_mutex = NoThread
  /\ pc' = [pc EXCEPT ![w] = "idle"]
  /\ UNCHANGED <<step, list, mtx, leafLocks, flag, running, closed, queue, memory, destroyed>>

(* rotate_log_file cannot open the new file: exit() without unlock.        *)
RotateFails(w) ==
  /\ w \in Exits
  /\ pc[w] = "log"
  /\ log_mutex = NoThread
  /\ log_mutex' = w
  /\ pc' = [pc EXCEPT ![w] = "clean"]
  /\ UNCHANGED <<step, list, mtx, account_mtx, txn_mutex, flag, running, closed, queue, memory,
                 destroyed>>

AllocateBuffer(w) ==
  /\ w \in Workers
  /\ pc[w] = "alloc"
  /\ \E x \in Unused :
       /\ TRACK_RESOURCE(x)
       /\ buf' = [buf EXCEPT ![w] = x]
  /\ pc' = [pc EXCEPT ![w] = "use"]
  /\ UNCHANGED <<step, mtx, leafLocks, flag, running, closed, queue, arg, freed,
                 touched, destroyed>>

Saves(w) == pc[w] = "use" /\ buf[w] = NoObject

(* rotate_txn_file cannot open the new file.                               *)
RotateTxnFails(w) ==
  /\ w \in Exits
  /\ Saves(w)
  /\ txn_mutex = NoThread
  /\ txn_mutex' = w
  /\ pc' = [pc EXCEPT ![w] = "exit_log"]
  /\ UNCHANGED <<step, list, mtx, account_mtx, log_mutex, flag, running, closed, queue, memory,
                 destroyed>>

(* A transaction is saved under txn_mutex.                                 *)
UseMemory(w) ==
  /\ pc[w] = "use"
  /\ Saves(w) => txn_mutex = NoThread
  /\ Touches(w)
  /\ pc' = [pc EXCEPT ![w] = "free"]
  /\ UNCHANGED <<step, list, mtx, leafLocks, flag, running, closed, queue, arg, buf,
                 freed, destroyed>>

(* FREE, of the buffer and then of the argument: the first node with the   *)
(* object leaves the list, its address may be used again and the pointer   *)
(* is NULL.                                                                *)
Freed(x) ==
  /\ mtx = NoThread
  /\ \/ x \notin Listed /\ UNCHANGED list
     \/ \E n \in DOMAIN list :
          /\ list[n] = x /\ \A k \in 1..(n - 1) : list[k] # x
          /\ list' = SeqExt!RemoveAt(list, n)

FreeBuffer(w) ==
  /\ pc[w] = "free"
  /\ buf[w] # NoObject
  /\ Freed(buf[w])
  /\ buf' = [buf EXCEPT ![w] = NoObject]
  /\ UNCHANGED <<step, mtx, leafLocks, flag, running, closed, queue, pc, arg, freed,
                 touched, destroyed>>

(* Mutated: UNTRACK_RESOURCE does not take the lock.                       *)
FreeArgumentUnlocked(w) ==
  /\ pc[w] = "free"
  /\ buf[w] = NoObject
  /\ list' = SelectSeq(list, LAMBDA r : r # arg[w])
  /\ arg' = [arg EXCEPT ![w] = NoObject]
  /\ pc' = [pc EXCEPT ![w] = "idle"]
  /\ UNCHANGED <<step, mtx, leafLocks, flag, running, closed, queue, buf, freed,
                 touched, destroyed>>

(* Mutated: FREE does not set its argument to NULL.                        *)
FreeArgumentDangling(w) ==
  /\ pc[w] = "free"
  /\ buf[w] = NoObject
  /\ Freed(arg[w])
  /\ pc' = [pc EXCEPT ![w] = "idle"]
  /\ UNCHANGED <<step, mtx, leafLocks, flag, running, closed, queue, memory, destroyed>>

FreeArgument(w) ==
  /\ pc[w] = "free"
  /\ buf[w] = NoObject
  /\ Freed(arg[w])
  /\ arg' = [arg EXCEPT ![w] = NoObject]
  /\ pc' = [pc EXCEPT ![w] = "idle"]
  /\ UNCHANGED <<step, mtx, leafLocks, flag, running, closed, queue, buf, freed,
                 touched, destroyed>>

WorkerEnds(w) ==
  /\ pc[w] = "idle"
  /\ queue = << >>
  /\ closed
  /\ pc' = [pc EXCEPT ![w] = "done"]
  /\ UNCHANGED <<step, list, mtx, leafLocks, flag, running, closed, queue, memory, destroyed>>

-----------------------------------------------------------------------------
(* clean_up, run by the thread t.                                          *)

BeginCleanUp(t) ==
  /\ pc[t] = "clean"
  /\ mtx = NoThread
  /\ mtx' = t
  /\ pc' = [pc EXCEPT ![t] = "walk"]
  /\ UNCHANGED <<step, list, leafLocks, flag, running, closed, queue, memory, destroyed>>

FreeObject(t) ==
  /\ pc[t] = "walk"
  /\ list # << >>
  /\ Head(list) \in Objects
  /\ freed' = freed \cup {Head(list)}
  /\ list' = Tail(list)
  /\ UNCHANGED <<step, mtx, leafLocks, flag, running, closed, queue, pc, arg, buf,
                 touched, destroyed>>

(* The node of component c is at the head of the list.                     *)
At(t, c) == pc[t] = "walk" /\ list # << >> /\ Head(list) = c

Destroyed(c) ==
  /\ destroyed' = destroyed \cup {c}
  /\ list' = Tail(list)

(* destroy_account takes account_mtx, destroy_log log_mutex, destroy_txn   *)
(* txn_mutex; the others have no lock a thread could still hold.           *)
DestroyComponent(t) ==
  /\ \E c \in ComponentNames \ {"websocket", "queue"} :
       /\ At(t, c)
       /\ c = "account" => account_mtx = NoThread
       /\ c = "log" => log_mutex = NoThread
       /\ c = "txn" => txn_mutex = NoThread
       /\ Destroyed(c)
  /\ UNCHANGED <<step, mtx, leafLocks, flag, running, closed, queue, pc, memory>>

StopPublic(t) ==
  /\ At(t, "websocket")
  /\ running' = [running EXCEPT ![Public] = FALSE]
  /\ pc' = [pc EXCEPT ![t] = "join_public"]
  /\ UNCHANGED <<step, list, mtx, leafLocks, flag, closed, queue, memory, destroyed>>

(* pthread_join of a thread that has ended; of oneself it fails at once.   *)
Joinable(t, u) == u = t \/ pc[u] = "done"

(* Mutated: ws_private_running stays true.                                 *)
StopPrivateUntold(t) ==
  /\ pc[t] = "join_public"
  /\ Joinable(t, Public)
  /\ pc' = [pc EXCEPT ![t] = "join_private"]
  /\ UNCHANGED <<step, list, mtx, leafLocks, flag, running, closed, queue, memory, destroyed>>

StopPrivate(t) ==
  /\ pc[t] = "join_public"
  /\ Joinable(t, Public)
  /\ running' = [running EXCEPT ![Private] = FALSE]
  /\ pc' = [pc EXCEPT ![t] = "join_private"]
  /\ UNCHANGED <<step, list, mtx, leafLocks, flag, closed, queue, memory, destroyed>>

JoinPrivate(t) ==
  /\ pc[t] = "join_private"
  /\ Joinable(t, Private)
  /\ Destroyed("websocket")
  /\ pc' = [pc EXCEPT ![t] = "walk"]
  /\ UNCHANGED <<step, mtx, leafLocks, flag, running, closed, queue, memory>>

CloseQueue(t) ==
  /\ At(t, "queue")
  /\ closed' = TRUE
  /\ pc' = [pc EXCEPT ![t] = "drain"]
  /\ UNCHANGED <<step, list, mtx, leafLocks, flag, running, queue, memory, destroyed>>

(* The arguments of the tasks thrown away stay where they are.             *)
DrainQueue(t) ==
  /\ pc[t] = "drain"
  /\ IF queue = << >>
     THEN pc' = [pc EXCEPT ![t] = "join_workers"] /\ UNCHANGED queue
     ELSE queue' = Tail(queue) /\ UNCHANGED pc
  /\ UNCHANGED <<step, list, mtx, leafLocks, flag, running, closed, memory, destroyed>>

JoinWorkers(t) ==
  /\ pc[t] = "join_workers"
  /\ \A w \in Workers : Joinable(t, w)
  /\ Destroyed("queue")
  /\ pc' = [pc EXCEPT ![t] = "walk"]
  /\ UNCHANGED <<step, mtx, leafLocks, flag, running, closed, queue, memory>>

(* The process ends, whatever its other threads were doing.                *)
EndCleanUp(t) ==
  /\ pc[t] = "walk"
  /\ list = << >>
  /\ mtx' = NoThread
  /\ pc' = [u \in Threads |-> "ended"]
  /\ UNCHANGED <<step, list, leafLocks, flag, running, closed, queue, memory, destroyed>>

-----------------------------------------------------------------------------
(* The components the code of each thread uses: main draws all of them.    *)
Needs(t) ==
  CASE t = Main -> {"ui", "order", "account", "sym", "curl", "queue", "log"}
    [] t = Public -> {"sym", "json", "queue", "log"}
    [] t = Private -> {"order", "account", "json", "queue", "txn", "log"}
    [] OTHER -> {"order", "account", "curl", "txn", "queue", "log"}

Active(t) == pc[t] \in {"ui", "service", "idle", "alloc", "make", "enqueue", "use", "logging",
                        "free", "account", "log", "exit_log"}

(* A thread that used what clean_up has freed or destroyed may have broken *)
(* the process: it dies, or goes on as if nothing had happened.            *)
Dies ==
  /\ \/ touched # {}
     \/ \E t \in Threads : Active(t) /\ Needs(t) \cap destroyed # {}
  /\ mtx' = NoThread
  /\ pc' = [t \in Threads |-> "dead"]
  /\ UNCHANGED <<step, list, leafLocks, flag, running, closed, queue, memory, destroyed>>

SetUp == InitComponent \/ InitPrivate \/ Track

clean_up(t) ==
  \/ BeginCleanUp(t) \/ FreeObject(t) \/ DestroyComponent(t)
  \/ StopPublic(t) \/ StopPrivate(t) \/ JoinPrivate(t)
  \/ CloseQueue(t) \/ DrainQueue(t) \/ JoinWorkers(t) \/ EndCleanUp(t)

Enqueues(t) == Enqueue(t) \/ EnqueueLog(t) \/ LogsAndExits(t)

(* What a thread does without waiting for the user or the exchange.        *)
Goes(t) ==
  \/ Allocate(t) \/ Makes(t) \/ Enqueues(t) \/ ServiceEnds(t)
  \/ TakeTask(t) \/ TakeLogTask(t) \/ Log(t) \/ AllocateBuffer(t) \/ UseMemory(t)
  \/ FreeBuffer(t) \/ FreeArgument(t) \/ WorkerEnds(t)
  \/ clean_up(t)

Happens ==
  \/ InitFails \/ MenuAllocates \/ RaiseFlag \/ ReceiveTrade \/ Dies
  \/ \E t \in Threads :
       \/ ConnectionCloses(t) \/ UnknownCurrency(t) \/ WaitForAccount(t) \/ do_log(t)
       \/ RotateFails(t) \/ RotateTxnFails(t)

LifeNext == SetUp \/ LoopEnds \/ Happens \/ \E t \in Threads : Goes(t)

LifeSpec == LifeInit /\ [][LifeNext]_lifeVars

(* Threads are scheduled; main's loop tests the flag ten times a second.   *)
(* A mutex is not kept from a thread that is the only one to want it, but  *)
(* no order is assumed among threads that do.  A websocket thread that     *)
(* waits for a place in the queue gets one if there is one again and again.*)
LifeFairSpec ==
  /\ LifeSpec
  /\ WF_lifeVars(SetUp \/ LoopEnds)
  /\ \A t \in Threads : WF_lifeVars(Goes(t))
  /\ \A t \in {Public, Private} : SF_lifeVars(Enqueues(t))

-----------------------------------------------------------------------------
(* PROPERTIES                                                              *)

LifePCs == {"unborn", "init", "init_private", "track", "ui", "service", "idle", "alloc", "make",
            "enqueue", "use", "logging", "free", "account", "log", "exit_log", "clean",
            "walk", "join_public", "join_private", "drain", "join_workers", "done", "ended", "dead"}

(* Every variable has its type, and a thread has a pointer to an object    *)
(* exactly where the code has one that is not NULL.                        *)
LifeTypeOK ==
  /\ step \in 1..(Len(Components) + 1)
  /\ Listed \subseteq Objects \cup ComponentNames
  /\ mtx \in Threads \cup {NoThread}
  /\ account_mtx \in Threads \cup {NoThread} /\ log_mutex \in Workers \cup {NoThread}
  /\ txn_mutex \in Workers \cup {NoThread}
  /\ flag \in BOOLEAN /\ closed \in BOOLEAN
  /\ running \in [{Public, Private} -> BOOLEAN]
  /\ Len(queue) <= MAX_QUEUE_SIZE /\ \A i \in DOMAIN queue : queue[i] \in Objects \cup {LogTask}
  /\ pc \in [Threads -> LifePCs]
  /\ arg \in [Threads -> Objects \cup {NoObject}]
  /\ buf \in [Threads -> Objects \cup {NoObject}]
  /\ destroyed \subseteq ComponentNames
  /\ freed \subseteq Objects /\ touched \subseteq Threads
  /\ \A w \in Workers : pc[w] \in {"unborn", "idle", "log", "done"} => arg[w] = NoObject /\ buf[w] = NoObject

(* No component is destroyed while a thread that uses it runs: the reverse *)
(* of the order of set_up is a safe order of destruction, whichever thread *)
(* cleans up and whichever init function failed.  Two exceptions.  The     *)
(* websocket threads of a set_up that is not over: until RES_WEBSOCKET is  *)
(* tracked no node of the list would have them joined, and an exit then    *)
(* (the private connection fails, an early event names an unknown          *)
(* currency) pulls their data from under them.  And main, which nobody     *)
(* joins: another thread's exit() destroys what main goes on to draw.      *)
ThreadsOutlived ==
  \A t \in Threads :
    Active(t) /\ Needs(t) \cap destroyed # {} =>
      \/ t \in {Public, Private} /\ ~AllUp
      \/ t = Main /\ mtx # Main

(* Joined threads are waited for by the thread that holds the lock.        *)
WaitsFor(t, u) ==
  \/ pc[t] = "join_public" /\ u = Public
  \/ pc[t] = "join_private" /\ u = Private
  \/ pc[t] = "join_workers" /\ u \in Workers
  \/ pc[t] = "walk" /\ list # << >> /\ Head(list) = "account" /\ u = account_mtx
  \/ pc[t] = "walk" /\ list # << >> /\ Head(list) = "log" /\ u = log_mutex

NeedsLock(u) ==
  pc[u] \in {"alloc", "free", "clean", "account"} \/ (pc[u] = "log" /\ log_mutex # NoThread)

WaitsForRoom(u) == pc[u] \in {"enqueue", "logging", "exit_log"} /\ Full

(* No worker of the pool but t's own takes another task: each has ended,   *)
(* needs a lock that is not given up, waits for room in the queue itself,  *)
(* or waits for the txn_mutex of one that does.                            *)
NobodyTakes(t) ==
  \A w \in Workers \ {t} :
    \/ pc[w] \in {"unborn", "done"}
    \/ NeedsLock(w)
    \/ WaitsForRoom(w)
    \/ Saves(w) /\ txn_mutex # NoThread /\ WaitsForRoom(txn_mutex)

(* clean_up waits for a thread that waits for g_resources_mtx, or for one  *)
(* of the two locks that a thread in exit() never gives up: account_mtx    *)
(* and log_mutex.  The thread in exit() may be its own.  Or it waits for   *)
(* one that waits for room in the full queue, which no worker empties any  *)
(* more.                                                                   *)
Deadlocked ==
  \E t, u \in Threads :
    /\ mtx = t /\ WaitsFor(t, u)
    /\ \/ u # t /\ NeedsLock(u)
       \/ pc[t] = "walk"
       \/ u # t /\ WaitsForRoom(u) /\ NobodyTakes(t)

Dead == \A t \in Threads : pc[t] = "dead"

(* Who is deadlocked stays so: nothing another thread does, and nothing    *)
(* the user or the exchange does, gets clean_up going again.               *)
DeadlockedForGood == [][Deadlocked => (Deadlocked \/ Dead)']_lifeVars

(* clean_up comes to its end, from any point of set_up or of the program's *)
(* run, unless it runs into one of the deadlocks above or the process has  *)
(* died of memory used after it was freed: there is no other way for it to *)
(* hang.                                                                   *)
CleanUpEnds == (mtx # NoThread) ~> (Ended \/ Dead \/ Deadlocked)

(* A clean_up that comes to its end has not freed an object under a task   *)
(* that used it afterwards: the task would have had to FREE it, and so     *)
(* would never have been joined.  The threads that make the objects do not *)
(* have to: they may fill in one that clean_up has freed since MALLOC.     *)
EndedUntouched == Ended => touched \cap Workers = {}

(* sig_handler.c: "[Signal] %s received. Shutdown..."                      *)
ShutdownEnds == flag ~> Ended
=============================================================================
