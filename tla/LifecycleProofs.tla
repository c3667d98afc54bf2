--------------------------- MODULE LifecycleProofs ---------------------------
(* Proofs about the life of the process, for any number of workers and of  *)
(* objects: whichever thread cleans up, and whichever init function        *)
(* failed, no component is destroyed under a thread that uses it.          *)
EXTENDS Lifecycle, TLAPS

Cleaning == {"walk", "join_public", "join_private", "drain", "join_workers"}
Serving == {Public, Private}

LifeTypes ==
  /\ step \in 1..(Len(Components) + 1)
  /\ list \in Seq(Objects \cup ComponentNames)
  /\ mtx \in Threads \cup {NoThread}
  /\ account_mtx \in Threads \cup {NoThread} /\ log_mutex \in Workers \cup {NoThread}
  /\ txn_mutex \in Workers \cup {NoThread}
  /\ flag \in BOOLEAN /\ closed \in BOOLEAN
  /\ running \in [{Public, Private} -> BOOLEAN]
  /\ queue \in Seq(Objects \cup {LogTask}) /\ Len(queue) <= MAX_QUEUE_SIZE
  /\ pc \in [Threads -> LifePCs]
  /\ arg \in [Threads -> Objects \cup {NoObject}]
  /\ buf \in [Threads -> Objects \cup {NoObject}]
  /\ destroyed \subseteq ComponentNames
  /\ freed \subseteq Objects /\ touched \subseteq Threads

Gone == {"ended", "dead"}
Over == \A t \in Threads : pc[t] \in Gone

(* A thread has the pointers that the code it is in uses.                  *)
PointersInv ==
  /\ \A t \in Threads : pc[t] \in {"make", "enqueue"} => arg[t] \in Objects
  /\ \A w \in Workers : pc[w] \in {"alloc", "use", "logging", "free"} => arg[w] \in Objects
  /\ \A w \in Workers : pc[w] \in {"unborn", "idle", "log", "done"} =>
       arg[w] = NoObject /\ buf[w] = NoObject

(* Where set_up is, and which threads it has started.                      *)
SetUpInv ==
  /\ pc[Main] \in {"init", "init_private", "track", "exit_log"} => step <= 11
  /\ pc[Main] = "init_private" => step = 11 /\ pc[Private] \in {"unborn"} \cup Gone
  /\ pc[Main] = "exit_log" => step = 11
  /\ pc[Main] \in {"ui", "alloc", "make", "enqueue"} => step = 12
  /\ pc[Main] \notin {"unborn", "service", "idle", "use", "logging", "free", "account", "log", "done"}
  /\ \A w \in Workers : pc[w] \notin {"unborn"} \cup Gone =>
       step > 9 \/ (step = 9 /\ pc[Main] = "track")
  /\ \A t \in Serving : pc[t] \notin {"unborn"} \cup Gone =>
       step > 11 \/ (step = 11 /\ pc[Main] # "init")
  /\ \A t \in Serving : pc[t] \notin {"idle", "use", "free", "log", "exit_log"}
  /\ pc[Public] \notin {"alloc", "make", "enqueue", "account"}
  /\ \A w \in Workers : pc[w] \notin {"make", "enqueue", "service"}

(* Before the first websocket nothing has been enqueued, so no worker has  *)
(* had anything to do.                                                     *)
QuietInv ==
  step < 11 =>
    /\ queue = << >>
    /\ \A w \in Workers : pc[w] \in {"unborn", "idle", "done"} \cup Gone

(* The list is a stack: components are in it in the order of set_up, last  *)
(* first, and the ones that are not have been destroyed, last first.       *)
StackInv ==
  /\ \A a, b \in DOMAIN list : \A k, l \in DOMAIN Components :
       list[a] = Components[k] /\ list[b] = Components[l] /\ a < b => k > l
  /\ \A k \in DOMAIN Components :
       Components[k] \in Listed <=> k < step /\ Components[k] \notin destroyed
  /\ \A k \in DOMAIN Components : Components[k] \in destroyed => k < step
  /\ \A k, l \in DOMAIN Components :
       Components[k] \in destroyed /\ k < l /\ l < step => Components[l] \in destroyed

(* One thread cleans up, and only while it does is anything destroyed or   *)
(* freed.                                                                  *)
CleanInv ==
  /\ \A t \in Threads : mtx = t <=> pc[t] \in Cleaning
  /\ destroyed \cup freed # {} => mtx # NoThread \/ Over
  /\ \A t \in Threads :
       /\ pc[t] \in {"join_public", "join_private"} => list # << >> /\ Head(list) = "websocket"
       /\ pc[t] \in {"drain", "join_workers"} => list # << >> /\ Head(list) = "queue"
  /\ (\E t \in Threads : pc[t] \in Gone) => Over

(* A component with threads is destroyed when these have been joined.      *)
JoinInv ==
  /\ "queue" \in destroyed => \A w \in Workers : ~Active(w)
  /\ "websocket" \in destroyed => \A t \in Serving : ~Active(t)
  /\ (\E t \in Threads : pc[t] = "join_private") => ~Active(Public)

(* A task that has used what clean_up freed waits for the lock to FREE it. *)
TouchInv ==
  /\ touched # {} => freed # {}
  /\ touched \cap Workers # {} => ~Ended /\ (Dead \/ \E w \in Workers : pc[w] = "free")

LifeIInv ==
  /\ LifeTypes
  /\ PointersInv
  /\ SetUpInv
  /\ QuietInv
  /\ StackInv
  /\ CleanInv
  /\ JoinInv
  /\ TouchInv

-----------------------------------------------------------------------------
LEMMA ComponentsKnown ==
  /\ Len(Components) = 11 /\ DOMAIN Components = 1..11
  /\ Components[9] = "queue" /\ Components[11] = "websocket"
  /\ \A k \in 1..11 : Components[k] \in ComponentNames
  /\ \A k, l \in 1..11 : Components[k] = Components[l] => k = l
  BY DEF Components, ComponentNames

(* The three ways in which the list changes.                               *)
LEMMA ListPushed ==
  ASSUME NEW S, NEW s \in Seq(S), NEW r \in S
  PROVE  /\ <<r>> \o s \in Seq(S)
         /\ Len(<<r>> \o s) = Len(s) + 1
         /\ (<<r>> \o s)[1] = r
         /\ \A k \in DOMAIN s : (<<r>> \o s)[k + 1] = s[k]
  OBVIOUS

LEMMA ListPopped ==
  ASSUME NEW S, NEW s \in Seq(S), s # << >>
  PROVE  /\ Tail(s) \in Seq(S) /\ Head(s) \in S /\ Head(s) = s[1]
         /\ Len(s) \in Nat /\ Len(s) >= 1
         /\ Len(Tail(s)) = Len(s) - 1
         /\ \A k \in DOMAIN Tail(s) : Tail(s)[k] = s[k + 1]
  OBVIOUS

LEMMA ListCut ==
  ASSUME NEW S, NEW s \in Seq(S), NEW n \in DOMAIN s
  PROVE  /\ SeqExt!RemoveAt(s, n) \in Seq(S)
         /\ Len(SeqExt!RemoveAt(s, n)) = Len(s) - 1
         /\ \A k \in 1..(Len(s) - 1) :
              SeqExt!RemoveAt(s, n)[k] = IF k < n THEN s[k] ELSE s[k + 1]
  <1>1. /\ SubSeq(s, 1, n - 1) \in Seq(S) /\ Len(SubSeq(s, 1, n - 1)) = n - 1
        /\ SubSeq(s, n + 1, Len(s)) \in Seq(S) /\ Len(SubSeq(s, n + 1, Len(s))) = Len(s) - n
        /\ \A k \in 1..(n - 1) : SubSeq(s, 1, n - 1)[k] = s[k]
        /\ \A k \in 1..(Len(s) - n) : SubSeq(s, n + 1, Len(s))[k] = s[n + k]
    OBVIOUS
  <1> DEFINE a == SubSeq(s, 1, n - 1)
             b == SubSeq(s, n + 1, Len(s))
  <1>2. a \in Seq(S) /\ b \in Seq(S)
    BY <1>1
  <1>3. /\ a \o b \in Seq(S) /\ Len(a \o b) = Len(a) + Len(b)
        /\ \A k \in 1..(Len(a) + Len(b)) :
             (a \o b)[k] = IF k <= Len(a) THEN a[k] ELSE b[k - Len(a)]
    <2> HIDE DEF a, b
    <2> QED
      BY <1>2
  <1>4. SeqExt!RemoveAt(s, n) = a \o b
    BY DEF SeqExt!RemoveAt
  <1>5. /\ Len(s) \in Nat /\ n \in Nat /\ n >= 1 /\ n <= Len(s)
        /\ Len(a) = n - 1 /\ Len(b) = Len(s) - n
    BY <1>1
  <1>6. /\ \A k \in 1..(n - 1) : a[k] = s[k]
        /\ \A k \in 1..(Len(s) - n) : b[k] = s[n + k]
    BY <1>1
  <1> DEFINE l == Len(s)
  <1>7. l \in Nat /\ n \in Nat /\ n >= 1 /\ n <= l /\ Len(a) = n - 1 /\ Len(b) = l - n
    BY <1>5
  <1> HIDE DEF a, b, l
  <1>8. ASSUME NEW k \in 1..(l - 1)
        PROVE  (a \o b)[k] = IF k < n THEN s[k] ELSE s[k + 1]
    <2>1. CASE k < n
      <3>1. k \in 1..(n - 1)
        BY <1>7, <2>1
      <3> QED
        BY <1>3, <1>6, <1>7, <2>1, <3>1, SMTT(30)
    <2>2. CASE ~(k < n)
      <3>1. /\ k - (n - 1) \in 1..(l - n) /\ n + (k - (n - 1)) = k + 1
            /\ k \in 1..((n - 1) + (l - n)) /\ ~(k <= n - 1)
        <4>1. k \in Nat /\ k >= n /\ k <= l - 1 /\ l \in Nat /\ n \in Nat /\ n >= 1
          BY <1>7, <2>2
        <4>2. k - (n - 1) >= 1 /\ k - (n - 1) <= l - n /\ k - (n - 1) \in Nat
          BY <4>1
        <4>3. (n - 1) + (l - n) = l - 1
          BY <4>1
        <4> QED
          BY <4>1, <4>2, <4>3
      <3>2. b[k - (n - 1)] = s[k + 1]
        BY <1>6, <3>1 DEF l
      <3> QED
        BY <1>3, <1>7, <2>2, <3>1, <3>2
    <2> QED
      BY <2>1, <2>2
  <1>9. Len(a \o b) = l - 1
    BY <1>3, <1>7
  <1> QED
    BY <1>3, <1>4, <1>8, <1>9 DEF l

LEMMA PushStep ==
  ASSUME LifeTypes, NEW r \in Objects \cup ComponentNames, TRACK_RESOURCE(r)
  PROVE  /\ list' \in Seq(Objects \cup ComponentNames)
         /\ DOMAIN list' = 1..(Len(list) + 1) /\ DOMAIN list = 1..Len(list) /\ Len(list) \in Nat
         /\ list'[1] = r /\ \A k \in DOMAIN list : list'[k + 1] = list[k]
         /\ Listed' = Listed \cup {r}
  <1>1. list \in Seq(Objects \cup ComponentNames) /\ list' = <<r>> \o list
    BY DEF LifeTypes, TRACK_RESOURCE
  <1>2. /\ list' \in Seq(Objects \cup ComponentNames) /\ Len(list') = Len(list) + 1
        /\ list'[1] = r /\ \A k \in DOMAIN list : list'[k + 1] = list[k]
    BY <1>1, ListPushed
  <1>3. DOMAIN list' = 1..(Len(list) + 1) /\ DOMAIN list = 1..Len(list) /\ Len(list) \in Nat
    BY <1>1, <1>2
  <1>4. ASSUME NEW k \in DOMAIN list'
        PROVE  k = 1 \/ (k - 1 \in DOMAIN list /\ (k - 1) + 1 = k)
    BY <1>3
  <1>5. ASSUME NEW k \in DOMAIN list
        PROVE  k + 1 \in DOMAIN list'
    BY <1>3
  <1>6. 1 \in DOMAIN list'
    BY <1>3
  <1>7. Listed' \subseteq Listed \cup {r}
    BY <1>2, <1>4 DEF Listed
  <1>8. Listed \cup {r} \subseteq Listed'
    BY <1>2, <1>5, <1>6 DEF Listed
  <1> QED
    BY <1>2, <1>3, <1>7, <1>8

LEMMA PopStep ==
  ASSUME LifeTypes, list # << >>, list' = Tail(list)
  PROVE  /\ list' \in Seq(Objects \cup ComponentNames)
         /\ DOMAIN list' = 1..(Len(list) - 1) /\ DOMAIN list = 1..Len(list)
         /\ Len(list) \in Nat /\ Len(list) >= 1
         /\ Head(list) = list[1] /\ Head(list) \in Objects \cup ComponentNames
         /\ \A k \in DOMAIN list' : list'[k] = list[k + 1]
         /\ Listed = Listed' \cup {Head(list)}
  <1>1. list \in Seq(Objects \cup ComponentNames)
    BY DEF LifeTypes
  <1>2. /\ list' \in Seq(Objects \cup ComponentNames) /\ Len(list') = Len(list) - 1
        /\ Head(list) = list[1] /\ Head(list) \in Objects \cup ComponentNames
        /\ Len(list) \in Nat /\ Len(list) >= 1
        /\ \A k \in DOMAIN list' : list'[k] = list[k + 1]
    BY <1>1, ListPopped
  <1>3. DOMAIN list' = 1..(Len(list) - 1) /\ DOMAIN list = 1..Len(list)
    BY <1>1, <1>2
  <1>4. ASSUME NEW k \in DOMAIN list
        PROVE  k = 1 \/ (k - 1 \in DOMAIN list' /\ (k - 1) + 1 = k)
    BY <1>2, <1>3
  <1>5. ASSUME NEW k \in DOMAIN list'
        PROVE  k + 1 \in DOMAIN list
    BY <1>2, <1>3
  <1>6. 1 \in DOMAIN list
    BY <1>2, <1>3
  <1>7. Listed \subseteq Listed' \cup {Head(list)}
    BY <1>2, <1>4 DEF Listed
  <1>8. Listed' \cup {Head(list)} \subseteq Listed
    BY <1>2, <1>5, <1>6 DEF Listed
  <1> QED
    BY <1>2, <1>3, <1>7, <1>8

(* What FREE takes from the list is one object: the components keep their  *)
(* order.                                                                  *)
LEMMA FreedStep ==
  ASSUME LifeTypes, NEW x \in Objects, Freed(x)
  PROVE  /\ list' \in Seq(Objects \cup ComponentNames)
         /\ Listed \ {x} \subseteq Listed' /\ Listed' \subseteq Listed
         /\ \A a, b \in DOMAIN list' : a < b =>
              \E c, d \in DOMAIN list : c < d /\ list[c] = list'[a] /\ list[d] = list'[b]
  <1>1. list \in Seq(Objects \cup ComponentNames) /\ Len(list) \in Nat /\ DOMAIN list = 1..Len(list)
    BY DEF LifeTypes
  <1>2. CASE UNCHANGED list
    BY <1>1, <1>2 DEF Listed
  <1>3. CASE \E n \in DOMAIN list : list[n] = x /\ list' = SeqExt!RemoveAt(list, n)
    <2>1. PICK n \in DOMAIN list : list[n] = x /\ list' = SeqExt!RemoveAt(list, n)
      BY <1>3
    <2>2. /\ list' \in Seq(Objects \cup ComponentNames) /\ Len(list') = Len(list) - 1
          /\ \A k \in 1..(Len(list) - 1) :
               list'[k] = IF k < n THEN list[k] ELSE list[k + 1]
      BY <1>1, <2>1, ListCut
    <2>3. DOMAIN list' = 1..(Len(list) - 1) /\ n \in 1..Len(list)
      BY <1>1, <2>1, <2>2
    <2> DEFINE from(k) == IF k < n THEN k ELSE k + 1
    <2>4. \A k \in DOMAIN list' : from(k) \in DOMAIN list /\ list'[k] = list[from(k)]
      BY <1>1, <2>2, <2>3
    <2>5. \A a, b \in DOMAIN list' : a < b => from(a) < from(b)
      BY <1>1, <2>3
    <2>6. ASSUME NEW k \in DOMAIN list, k # n
          PROVE  \E a \in DOMAIN list' : list'[a] = list[k]
      <3>1. CASE k < n
        <4>1. k \in DOMAIN list' /\ list'[k] = list[k]
          BY <1>1, <2>2, <2>3, <3>1
        <4> QED
          BY <4>1
      <3>2. CASE k > n
        <4>1. k - 1 \in DOMAIN list' /\ list'[k - 1] = list[(k - 1) + 1] /\ (k - 1) + 1 = k
          BY <1>1, <2>2, <2>3, <3>2
        <4> QED
          BY <4>1
      <3> QED
        BY <1>1, <2>3, <2>6, <3>1, <3>2
    <2> HIDE DEF from
    <2>7. Listed \ {x} \subseteq Listed'
      BY <2>1, <2>6 DEF Listed
    <2>8. Listed' \subseteq Listed
      BY <2>4 DEF Listed
    <2>9. \A a, b \in DOMAIN list' : a < b =>
            \E c, d \in DOMAIN list : c < d /\ list[c] = list'[a] /\ list[d] = list'[b]
      BY <2>4, <2>5
    <2> QED
      BY <2>2, <2>7, <2>8, <2>9
  <1> QED
    BY <1>2, <1>3 DEF Freed

LEMMA WorkersOnly ==
  ASSUME SetUpInv, NEW t \in Threads, pc[t] \in {"idle", "use", "free", "log"}
  PROVE  t \in Workers
  BY LifecycleAssumption DEF SetUpInv, Threads, Serving

(* What is put in the queue, or taken from it, leaves a queue.             *)
LEMMA EnqueueStep ==
  ASSUME LifeTypes, NEW x \in Objects \cup {LogTask}, closed \/ Len(queue) # MAX_QUEUE_SIZE,
         queue' = IF closed THEN queue ELSE Append(queue, x)
  PROVE  queue' \in Seq(Objects \cup {LogTask}) /\ Len(queue') <= MAX_QUEUE_SIZE
  <1>1. queue \in Seq(Objects \cup {LogTask}) /\ Len(queue) <= MAX_QUEUE_SIZE
        /\ MAX_QUEUE_SIZE \in Nat /\ Len(queue) \in Nat
    BY LifecycleAssumption DEF LifeTypes
  <1>2. /\ Append(queue, x) \in Seq(Objects \cup {LogTask})
        /\ Len(Append(queue, x)) = Len(queue) + 1
    BY <1>1
  <1> QED
    BY <1>1, <1>2

LEMMA DequeueStep ==
  ASSUME LifeTypes, queue # << >>, queue' = Tail(queue)
  PROVE  /\ queue' \in Seq(Objects \cup {LogTask}) /\ Len(queue') <= MAX_QUEUE_SIZE
         /\ Head(queue) \in Objects \cup {LogTask}
  <1>1. queue \in Seq(Objects \cup {LogTask}) /\ Len(queue) <= MAX_QUEUE_SIZE
        /\ MAX_QUEUE_SIZE \in Nat
    BY LifecycleAssumption DEF LifeTypes
  <1>2. /\ Tail(queue) \in Seq(Objects \cup {LogTask}) /\ Len(Tail(queue)) = Len(queue) - 1
        /\ Head(queue) \in Objects \cup {LogTask} /\ Len(queue) \in Nat
    BY <1>1, ListPopped
  <1> QED
    BY <1>1, <1>2

(* Steps of threads that do not clean up leave the thread that does alone. *)
LEMMA CleanFrame ==
  ASSUME LifeTypes, CleanInv, UNCHANGED <<mtx, destroyed, freed>>,
         UNCHANGED list \/ mtx = NoThread, ~Over,
         pc' \in [Threads -> LifePCs],
         \A t \in Threads :
           \/ pc'[t] = pc[t]
           \/ pc[t] \notin Cleaning /\ pc'[t] \notin Cleaning \cup Gone
  PROVE  CleanInv'
  <1>1. \A t \in Threads : pc[t] \notin Gone
    BY DEF CleanInv
  <1>2. \A t \in Threads : pc'[t] \in Cleaning <=> pc[t] \in Cleaning
    OBVIOUS
  <1>3. \A t \in Threads : pc[t] \in Cleaning => pc'[t] = pc[t]
    OBVIOUS
  <1>4. ASSUME NEW t \in Threads,
                  pc'[t] \in {"join_public", "join_private", "drain", "join_workers"}
        PROVE  pc[t] = pc'[t] /\ UNCHANGED list
    <2>1. pc'[t] \in Cleaning
      BY <1>4 DEF Cleaning
    <2>2. pc[t] = pc'[t] /\ mtx = t
      BY <1>2, <1>3, <2>1 DEF CleanInv
    <2> QED
      BY <2>2, LifecycleAssumption DEF Threads
  <1>5. \A t \in Threads : mtx' = t <=> pc'[t] \in Cleaning
    BY <1>2 DEF CleanInv
  <1>6. \A t \in Threads : pc'[t] \notin Gone
    BY <1>1
  <1>7. destroyed' \cup freed' # {} => mtx' # NoThread \/ Over'
    BY DEF CleanInv
  <1>8. \A t \in Threads :
          /\ pc'[t] \in {"join_public", "join_private"} =>
               list' # << >> /\ Head(list') = "websocket"
          /\ pc'[t] \in {"drain", "join_workers"} => list' # << >> /\ Head(list') = "queue"
    BY <1>4 DEF CleanInv
  <1> QED
    BY <1>5, <1>6, <1>7, <1>8 DEF CleanInv

-----------------------------------------------------------------------------
LEMMA TypesNext ==
  ASSUME LifeTypes, PointersInv, SetUpInv, CleanInv, [LifeNext]_lifeVars
  PROVE  LifeTypes'
  <1> USE LifecycleAssumption, ObjectsAssumption, ComponentsKnown
          DEF LifeTypes, LifePCs, Threads, memory, leafLocks
  <1>0. ASSUME NEW x \in Objects \cup {LogTask}, enqueue_task(x)
        PROVE  queue' \in Seq(Objects \cup {LogTask}) /\ Len(queue') <= MAX_QUEUE_SIZE
    BY <1>0, EnqueueStep DEF enqueue_task, Full
  <1>1. CASE InitComponent
    BY <1>1 DEF InitComponent
  <1>2. CASE InitPrivate
    BY <1>2 DEF InitPrivate
  <1>3. CASE InitFails
    BY <1>3 DEF InitFails
  <1>4. CASE MenuAllocates
    BY <1>4 DEF MenuAllocates
  <1>5. CASE LoopEnds
    BY <1>5 DEF LoopEnds
  <1>6. CASE RaiseFlag
    BY <1>6 DEF RaiseFlag
  <1>7. CASE ReceiveTrade
    BY <1>7 DEF ReceiveTrade
  <1>8. ASSUME NEW t \in Threads, Enqueue(t)
        PROVE  LifeTypes'
    <2>1. arg[t] \in Objects
      BY <1>8 DEF Enqueue, PointersInv
    <2>2. queue' \in Seq(Objects \cup {LogTask}) /\ Len(queue') <= MAX_QUEUE_SIZE
      BY <1>0, <1>8, <2>1 DEF Enqueue
    <2> QED
      BY <1>8, <2>2 DEF Enqueue
  <1>9. ASSUME NEW t \in Threads, ConnectionCloses(t)
        PROVE  LifeTypes'
    BY <1>9 DEF ConnectionCloses
  <1>10. ASSUME NEW t \in Threads, ServiceEnds(t)
        PROVE  LifeTypes'
    BY <1>10 DEF ServiceEnds
  <1>11. ASSUME NEW t \in Threads, UnknownCurrency(t)
        PROVE  LifeTypes'
    BY <1>11 DEF UnknownCurrency
  <1>12. ASSUME NEW t \in Threads, WaitForAccount(t)
        PROVE  LifeTypes'
    BY <1>12 DEF WaitForAccount
  <1>13. ASSUME NEW t \in Threads, do_log(t)
        PROVE  LifeTypes'
    BY <1>13 DEF do_log
  <1>14. ASSUME NEW t \in Threads, TakeTask(t)
        PROVE  LifeTypes'
    <2>1. queue' \in Seq(Objects \cup {LogTask}) /\ Len(queue') <= MAX_QUEUE_SIZE
          /\ Head(queue) \in Objects
      BY <1>14, DequeueStep DEF TakeTask
    <2> QED
      BY <1>14, <2>1 DEF TakeTask
  <1>15. ASSUME NEW t \in Threads, TakeLogTask(t)
        PROVE  LifeTypes'
    <2>1. queue' \in Seq(Objects \cup {LogTask}) /\ Len(queue') <= MAX_QUEUE_SIZE
      BY <1>15, DequeueStep DEF TakeLogTask
    <2> QED
      BY <1>15, <2>1 DEF TakeLogTask
  <1>16. ASSUME NEW t \in Threads, Log(t)
        PROVE  LifeTypes'
    BY <1>16 DEF Log
  <1>17. ASSUME NEW t \in Threads, RotateFails(t)
        PROVE  LifeTypes'
    <2>1. t \in Workers
      BY <1>17, WorkersOnly DEF RotateFails
    <2> QED
      BY <1>17, <2>1 DEF RotateFails
  <1>18. ASSUME NEW t \in Threads, UseMemory(t)
        PROVE  LifeTypes'
    BY <1>18 DEF UseMemory, Touches
  <1>19. ASSUME NEW t \in Threads, WorkerEnds(t)
        PROVE  LifeTypes'
    BY <1>19 DEF WorkerEnds
  <1>20. ASSUME NEW t \in Threads, BeginCleanUp(t)
        PROVE  LifeTypes'
    BY <1>20 DEF BeginCleanUp
  <1>21. ASSUME NEW t \in Threads, StopPublic(t)
        PROVE  LifeTypes'
    BY <1>21 DEF StopPublic
  <1>22. ASSUME NEW t \in Threads, StopPrivate(t)
        PROVE  LifeTypes'
    BY <1>22 DEF StopPrivate
  <1>23. ASSUME NEW t \in Threads, CloseQueue(t)
        PROVE  LifeTypes'
    BY <1>23 DEF CloseQueue
  <1>24. ASSUME NEW t \in Threads, DrainQueue(t)
        PROVE  LifeTypes'
    <2>1. queue' = queue \/ (queue # << >> /\ queue' = Tail(queue))
      BY <1>24 DEF DrainQueue
    <2>2. queue' \in Seq(Objects \cup {LogTask}) /\ Len(queue') <= MAX_QUEUE_SIZE
      BY <2>1, DequeueStep
    <2> QED
      BY <1>24, <2>2 DEF DrainQueue
  <1>25. ASSUME NEW t \in Threads, EndCleanUp(t)
        PROVE  LifeTypes'
    BY <1>25 DEF EndCleanUp
  <1>26. CASE UNCHANGED lifeVars
    BY <1>26 DEF lifeVars
  <1>27. CASE Track
    <2>1. Components[step] \in ComponentNames /\ TRACK_RESOURCE(Components[step])
      BY <1>27 DEF Track, SetUpInv
    <2>2. list' \in Seq(Objects \cup ComponentNames)
      BY <2>1, PushStep
    <2> QED
      BY <1>27, <2>2 DEF Track, SetUpInv
  <1>28. ASSUME NEW t \in Threads, Allocate(t)
        PROVE  LifeTypes'
    <2>1. PICK x \in Objects : TRACK_RESOURCE(x) /\ arg' = [arg EXCEPT ![t] = x]
      BY <1>28 DEF Allocate, Unused
    <2>2. list' \in Seq(Objects \cup ComponentNames)
      BY <2>1, PushStep
    <2> QED
      BY <1>28, <2>1, <2>2 DEF Allocate
  <1>29. ASSUME NEW t \in Threads, AllocateBuffer(t)
        PROVE  LifeTypes'
    <2>1. PICK x \in Objects : TRACK_RESOURCE(x) /\ buf' = [buf EXCEPT ![t] = x]
      BY <1>29 DEF AllocateBuffer, Unused
    <2>2. list' \in Seq(Objects \cup ComponentNames)
      BY <2>1, PushStep
    <2> QED
      BY <1>29, <2>1, <2>2 DEF AllocateBuffer
  <1>30. ASSUME NEW t \in Threads, FreeBuffer(t)
        PROVE  LifeTypes'
    <2>1. buf[t] \in Objects /\ Freed(buf[t])
      BY <1>30, WorkersOnly DEF FreeBuffer, PointersInv
    <2>2. list' \in Seq(Objects \cup ComponentNames)
      BY <2>1, FreedStep
    <2> QED
      BY <1>30, <2>1, <2>2 DEF FreeBuffer
  <1>31. ASSUME NEW t \in Threads, FreeArgument(t)
        PROVE  LifeTypes'
    <2>1. arg[t] \in Objects /\ Freed(arg[t])
      BY <1>31, WorkersOnly DEF FreeArgument, PointersInv
    <2>2. list' \in Seq(Objects \cup ComponentNames)
      BY <2>1, FreedStep
    <2> QED
      BY <1>31, <2>1, <2>2 DEF FreeArgument
  <1>32. ASSUME NEW t \in Threads, FreeObject(t)
        PROVE  LifeTypes'
    <2>1. list' \in Seq(Objects \cup ComponentNames)
      BY <1>32, PopStep DEF FreeObject
    <2> QED
      BY <1>32, <2>1 DEF FreeObject
  <1>33. ASSUME NEW t \in Threads, DestroyComponent(t)
        PROVE  LifeTypes'
    <2>1. PICK c \in ComponentNames : At(t, c) /\ Destroyed(c)
      BY <1>33 DEF DestroyComponent
    <2>2. list' \in Seq(Objects \cup ComponentNames)
      BY <2>1, PopStep DEF At, Destroyed
    <2> QED
      BY <1>33, <2>1, <2>2 DEF DestroyComponent, Destroyed
  <1>34. ASSUME NEW t \in Threads, JoinPrivate(t)
        PROVE  LifeTypes'
    <2>1. list # << >> /\ list' = Tail(list) /\ "websocket" \in ComponentNames
      BY <1>34 DEF JoinPrivate, Destroyed, CleanInv
    <2>2. list' \in Seq(Objects \cup ComponentNames)
      BY <2>1, PopStep
    <2> QED
      BY <1>34, <2>1, <2>2 DEF JoinPrivate, Destroyed
  <1>35. ASSUME NEW t \in Threads, JoinWorkers(t)
        PROVE  LifeTypes'
    <2>1. list # << >> /\ list' = Tail(list) /\ "queue" \in ComponentNames
      BY <1>35 DEF JoinWorkers, Destroyed, CleanInv
    <2>2. list' \in Seq(Objects \cup ComponentNames)
      BY <2>1, PopStep
    <2> QED
      BY <1>35, <2>1, <2>2 DEF JoinWorkers, Destroyed
  <1>36. ASSUME NEW t \in Threads, Makes(t)
        PROVE  LifeTypes'
    BY <1>36 DEF Makes, Touches
  <1>37. ASSUME NEW t \in Threads, EnqueueLog(t)
        PROVE  LifeTypes'
    <2>1. queue' \in Seq(Objects \cup {LogTask}) /\ Len(queue') <= MAX_QUEUE_SIZE
      BY <1>0, <1>37 DEF EnqueueLog
    <2> QED
      BY <1>37, <2>1 DEF EnqueueLog, Touches
  <1>38. ASSUME NEW t \in Threads, LogsAndExits(t)
        PROVE  LifeTypes'
    <2>1. queue' \in Seq(Objects \cup {LogTask}) /\ Len(queue') <= MAX_QUEUE_SIZE
      BY <1>0, <1>38 DEF LogsAndExits
    <2> QED
      BY <1>38, <2>1 DEF LogsAndExits
  <1>39. ASSUME NEW t \in Threads, RotateTxnFails(t)
        PROVE  LifeTypes'
    <2>1. t \in Workers
      BY <1>39, WorkersOnly DEF RotateTxnFails, Saves
    <2> QED
      BY <1>39, <2>1 DEF RotateTxnFails
  <1>40. CASE Dies
    BY <1>40 DEF Dies
  <1> QED
    BY <1>1, <1>2, <1>3, <1>4, <1>5, <1>6, <1>7, <1>8, <1>9, <1>10, <1>11, <1>12, <1>13, <1>14,
       <1>15, <1>16, <1>17, <1>18, <1>19, <1>20, <1>21, <1>22, <1>23, <1>24, <1>25, <1>26,
       <1>27, <1>28, <1>29, <1>30, <1>31, <1>32, <1>33, <1>34, <1>35,
       <1>36, <1>37, <1>38, <1>39, <1>40
       DEF LifeNext, SetUp, Happens, Goes, Enqueues, clean_up

LEMMA SetUpNext ==
  ASSUME LifeTypes, SetUpInv, CleanInv, [LifeNext]_lifeVars
  PROVE  SetUpInv'
  <1> USE LifecycleAssumption, ComponentsKnown
          DEF LifeTypes, SetUpInv, Serving, Gone, Threads, memory, leafLocks
  <1>1. CASE InitComponent
    BY <1>1 DEF InitComponent
  <1>2. CASE InitPrivate
    BY <1>2 DEF InitPrivate
  <1>3. CASE InitFails
    BY <1>3 DEF InitFails
  <1>4. CASE Track
    BY <1>4 DEF Track
  <1>5. CASE MenuAllocates
    BY <1>5 DEF MenuAllocates
  <1>6. CASE LoopEnds
    BY <1>6 DEF LoopEnds
  <1>7. CASE RaiseFlag
    BY <1>7 DEF RaiseFlag
  <1>8. CASE ReceiveTrade
    BY <1>8 DEF ReceiveTrade
  <1>9. ASSUME NEW t \in Threads, Allocate(t)
        PROVE  SetUpInv'
    BY <1>9 DEF Allocate
  <1>10. ASSUME NEW t \in Threads, Enqueue(t)
        PROVE  SetUpInv'
    BY <1>10 DEF Enqueue
  <1>11. ASSUME NEW t \in Threads, ConnectionCloses(t)
        PROVE  SetUpInv'
    BY <1>11 DEF ConnectionCloses
  <1>12. ASSUME NEW t \in Threads, ServiceEnds(t)
        PROVE  SetUpInv'
    BY <1>12 DEF ServiceEnds
  <1>13. ASSUME NEW t \in Threads, UnknownCurrency(t)
        PROVE  SetUpInv'
    BY <1>13 DEF UnknownCurrency, HasBalance
  <1>14. ASSUME NEW t \in Threads, WaitForAccount(t)
        PROVE  SetUpInv'
    BY <1>14 DEF WaitForAccount, HasBalance
  <1>15. ASSUME NEW t \in Threads, do_log(t)
        PROVE  SetUpInv'
    BY <1>15 DEF do_log
  <1>16. ASSUME NEW t \in Threads, TakeTask(t)
        PROVE  SetUpInv'
    BY <1>16 DEF TakeTask
  <1>17. ASSUME NEW t \in Threads, TakeLogTask(t)
        PROVE  SetUpInv'
    BY <1>17 DEF TakeLogTask
  <1>18. ASSUME NEW t \in Threads, Log(t)
        PROVE  SetUpInv'
    BY <1>18 DEF Log
  <1>19. ASSUME NEW t \in Threads, RotateFails(t)
        PROVE  SetUpInv'
    BY <1>19 DEF RotateFails
  <1>20. ASSUME NEW t \in Threads, AllocateBuffer(t)
        PROVE  SetUpInv'
    BY <1>20 DEF AllocateBuffer
  <1>21. ASSUME NEW t \in Threads, UseMemory(t)
        PROVE  SetUpInv'
    BY <1>21 DEF UseMemory
  <1>22. ASSUME NEW t \in Threads, FreeBuffer(t)
        PROVE  SetUpInv'
    BY <1>22 DEF FreeBuffer
  <1>23. ASSUME NEW t \in Threads, FreeArgument(t)
        PROVE  SetUpInv'
    BY <1>23 DEF FreeArgument
  <1>24. ASSUME NEW t \in Threads, WorkerEnds(t)
        PROVE  SetUpInv'
    BY <1>24 DEF WorkerEnds
  <1>25. ASSUME NEW t \in Threads, BeginCleanUp(t)
        PROVE  SetUpInv'
    BY <1>25 DEF BeginCleanUp
  <1>26. ASSUME NEW t \in Threads, FreeObject(t)
        PROVE  SetUpInv'
    BY <1>26 DEF FreeObject
  <1>27. ASSUME NEW t \in Threads, DestroyComponent(t)
        PROVE  SetUpInv'
    BY <1>27 DEF DestroyComponent
  <1>28. ASSUME NEW t \in Threads, StopPublic(t)
        PROVE  SetUpInv'
    BY <1>28 DEF StopPublic, At
  <1>29. ASSUME NEW t \in Threads, StopPrivate(t)
        PROVE  SetUpInv'
    BY <1>29 DEF StopPrivate
  <1>30. ASSUME NEW t \in Threads, JoinPrivate(t)
        PROVE  SetUpInv'
    BY <1>30 DEF JoinPrivate
  <1>31. ASSUME NEW t \in Threads, CloseQueue(t)
        PROVE  SetUpInv'
    BY <1>31 DEF CloseQueue, At
  <1>32. ASSUME NEW t \in Threads, DrainQueue(t)
        PROVE  SetUpInv'
    <2>1. pc' = [pc EXCEPT ![t] = "join_workers"] \/ UNCHANGED pc
      BY <1>32 DEF DrainQueue
    <2>2. UNCHANGED step /\ pc[t] = "drain"
      BY <1>32 DEF DrainQueue
    <2> QED
      BY <2>1, <2>2
  <1>33. ASSUME NEW t \in Threads, JoinWorkers(t)
        PROVE  SetUpInv'
    BY <1>33 DEF JoinWorkers
  <1>34. ASSUME NEW t \in Threads, EndCleanUp(t)
        PROVE  SetUpInv'
    BY <1>34 DEF EndCleanUp
  <1>35. CASE UNCHANGED lifeVars
    BY <1>35 DEF lifeVars
  <1>36. ASSUME NEW t \in Threads, Makes(t)
        PROVE  SetUpInv'
    BY <1>36 DEF Makes
  <1>37. ASSUME NEW t \in Threads, EnqueueLog(t)
        PROVE  SetUpInv'
    BY <1>37 DEF EnqueueLog
  <1>38. ASSUME NEW t \in Threads, LogsAndExits(t)
        PROVE  SetUpInv'
    BY <1>38 DEF LogsAndExits
  <1>39. ASSUME NEW t \in Threads, RotateTxnFails(t)
        PROVE  SetUpInv'
    BY <1>39 DEF RotateTxnFails, Saves
  <1>40. CASE Dies
    BY <1>40 DEF Dies
  <1> QED
    BY <1>1, <1>2, <1>3, <1>4, <1>5, <1>6, <1>7, <1>8, <1>9, <1>10, <1>11, <1>12, <1>13, <1>14,
       <1>15, <1>16, <1>17, <1>18, <1>19, <1>20, <1>21, <1>22, <1>23, <1>24, <1>25, <1>26,
       <1>27, <1>28, <1>29, <1>30, <1>31, <1>32, <1>33, <1>34, <1>35,
       <1>36, <1>37, <1>38, <1>39, <1>40
       DEF LifeNext, SetUp, Happens, Goes, Enqueues, clean_up

LEMMA PointersNext ==
  ASSUME LifeTypes, PointersInv, SetUpInv, CleanInv, [LifeNext]_lifeVars
  PROVE  PointersInv'
  <1> USE LifecycleAssumption
          DEF LifeTypes, PointersInv, Gone, Threads, memory, leafLocks
  <1>1. CASE InitComponent
    <2>1. \A w \in Workers : pc'[w] = pc[w] \/ (pc[w] \in {"unborn"} \cup Gone /\ pc'[w] = "idle")
      BY <1>1, ComponentsKnown DEF InitComponent, SetUpInv
    <2>2. ~Over
      BY <1>1 DEF InitComponent, Over
    <2>3. \A t \in Threads : pc'[t] \notin {"make", "enqueue"} \/ pc'[t] = pc[t]
      BY <1>1 DEF InitComponent
    <2>4. UNCHANGED <<arg, buf>>
      BY <1>1 DEF InitComponent
    <2> QED
      BY <2>1, <2>2, <2>3, <2>4 DEF CleanInv
  <1>2. CASE InitPrivate
    BY <1>2 DEF InitPrivate
  <1>3. CASE InitFails
    BY <1>3 DEF InitFails
  <1>4. CASE Track
    BY <1>4 DEF Track
  <1>5. CASE MenuAllocates
    BY <1>5 DEF MenuAllocates
  <1>6. CASE LoopEnds
    BY <1>6 DEF LoopEnds
  <1>7. CASE RaiseFlag
    BY <1>7 DEF RaiseFlag
  <1>8. CASE ReceiveTrade
    BY <1>8 DEF ReceiveTrade
  <1>9. ASSUME NEW t \in Threads, Allocate(t)
        PROVE  PointersInv'
    <2>1. t \notin Workers /\ pc' = [pc EXCEPT ![t] = "make"] /\ UNCHANGED buf
      BY <1>9 DEF Allocate
    <2>2. PICK x \in Objects : arg' = [arg EXCEPT ![t] = x]
      BY <1>9 DEF Allocate, Unused
    <2> QED
      BY <2>1, <2>2
  <1>10. ASSUME NEW t \in Threads, Enqueue(t)
        PROVE  PointersInv'
    BY <1>10 DEF Enqueue
  <1>11. ASSUME NEW t \in Threads, ConnectionCloses(t)
        PROVE  PointersInv'
    BY <1>11 DEF ConnectionCloses
  <1>12. ASSUME NEW t \in Threads, ServiceEnds(t)
        PROVE  PointersInv'
    BY <1>12 DEF ServiceEnds
  <1>13. ASSUME NEW t \in Threads, UnknownCurrency(t)
        PROVE  PointersInv'
    BY <1>13 DEF UnknownCurrency
  <1>14. ASSUME NEW t \in Threads, WaitForAccount(t)
        PROVE  PointersInv'
    BY <1>14 DEF WaitForAccount
  <1>15. ASSUME NEW t \in Threads, do_log(t)
        PROVE  PointersInv'
    BY <1>15 DEF do_log
  <1>16. ASSUME NEW t \in Threads, TakeTask(t)
        PROVE  PointersInv'
    BY <1>16 DEF TakeTask
  <1>17. ASSUME NEW t \in Threads, TakeLogTask(t)
        PROVE  PointersInv'
    BY <1>17 DEF TakeLogTask
  <1>18. ASSUME NEW t \in Threads, Log(t)
        PROVE  PointersInv'
    BY <1>18 DEF Log
  <1>19. ASSUME NEW t \in Threads, RotateFails(t)
        PROVE  PointersInv'
    BY <1>19 DEF RotateFails
  <1>20. ASSUME NEW t \in Threads, AllocateBuffer(t)
        PROVE  PointersInv'
    <2>1. t \in Workers /\ pc[t] = "alloc" /\ pc' = [pc EXCEPT ![t] = "use"] /\ UNCHANGED arg
      BY <1>20 DEF AllocateBuffer
    <2>2. \E x \in Objects : buf' = [buf EXCEPT ![t] = x]
      BY <1>20 DEF AllocateBuffer, Unused
    <2> QED
      BY <2>1, <2>2
  <1>21. ASSUME NEW t \in Threads, UseMemory(t)
        PROVE  PointersInv'
    BY <1>21 DEF UseMemory
  <1>22. ASSUME NEW t \in Threads, FreeBuffer(t)
        PROVE  PointersInv'
    BY <1>22 DEF FreeBuffer
  <1>23. ASSUME NEW t \in Threads, FreeArgument(t)
        PROVE  PointersInv'
    BY <1>23 DEF FreeArgument
  <1>24. ASSUME NEW t \in Threads, WorkerEnds(t)
        PROVE  PointersInv'
    BY <1>24 DEF WorkerEnds
  <1>25. ASSUME NEW t \in Threads, BeginCleanUp(t)
        PROVE  PointersInv'
    BY <1>25 DEF BeginCleanUp
  <1>26. ASSUME NEW t \in Threads, FreeObject(t)
        PROVE  PointersInv'
    BY <1>26 DEF FreeObject
  <1>27. ASSUME NEW t \in Threads, DestroyComponent(t)
        PROVE  PointersInv'
    BY <1>27 DEF DestroyComponent
  <1>28. ASSUME NEW t \in Threads, StopPublic(t)
        PROVE  PointersInv'
    BY <1>28 DEF StopPublic
  <1>29. ASSUME NEW t \in Threads, StopPrivate(t)
        PROVE  PointersInv'
    BY <1>29 DEF StopPrivate
  <1>30. ASSUME NEW t \in Threads, JoinPrivate(t)
        PROVE  PointersInv'
    BY <1>30 DEF JoinPrivate
  <1>31. ASSUME NEW t \in Threads, CloseQueue(t)
        PROVE  PointersInv'
    BY <1>31 DEF CloseQueue
  <1>32. ASSUME NEW t \in Threads, DrainQueue(t)
        PROVE  PointersInv'
    BY <1>32 DEF DrainQueue
  <1>33. ASSUME NEW t \in Threads, JoinWorkers(t)
        PROVE  PointersInv'
    BY <1>33 DEF JoinWorkers
  <1>34. ASSUME NEW t \in Threads, EndCleanUp(t)
        PROVE  PointersInv'
    BY <1>34 DEF EndCleanUp
  <1>35. CASE UNCHANGED lifeVars
    BY <1>35 DEF lifeVars
  <1>36. ASSUME NEW t \in Threads, Makes(t)
        PROVE  PointersInv'
    BY <1>36 DEF Makes
  <1>37. ASSUME NEW t \in Threads, EnqueueLog(t)
        PROVE  PointersInv'
    BY <1>37 DEF EnqueueLog
  <1>38. ASSUME NEW t \in Threads, LogsAndExits(t)
        PROVE  PointersInv'
    BY <1>38 DEF LogsAndExits
  <1>39. ASSUME NEW t \in Threads, RotateTxnFails(t)
        PROVE  PointersInv'
    BY <1>39 DEF RotateTxnFails, Saves
  <1>40. CASE Dies
    BY <1>40 DEF Dies
  <1> QED
    BY <1>1, <1>2, <1>3, <1>4, <1>5, <1>6, <1>7, <1>8, <1>9, <1>10, <1>11, <1>12, <1>13, <1>14,
       <1>15, <1>16, <1>17, <1>18, <1>19, <1>20, <1>21, <1>22, <1>23, <1>24, <1>25, <1>26,
       <1>27, <1>28, <1>29, <1>30, <1>31, <1>32, <1>33, <1>34, <1>35,
       <1>36, <1>37, <1>38, <1>39, <1>40
       DEF LifeNext, SetUp, Happens, Goes, Enqueues, clean_up

LEMMA QuietNext ==
  ASSUME LifeTypes, QuietInv, SetUpInv, [LifeNext]_lifeVars
  PROVE  QuietInv'
  <1> USE LifecycleAssumption, ComponentsKnown
          DEF LifeTypes, QuietInv, SetUpInv, Serving, Gone, Threads, memory, leafLocks
  <1>1. CASE InitComponent
    BY <1>1 DEF InitComponent
  <1>2. CASE InitPrivate
    BY <1>2 DEF InitPrivate
  <1>3. CASE InitFails
    BY <1>3 DEF InitFails
  <1>4. CASE Track
    BY <1>4 DEF Track
  <1>5. CASE MenuAllocates
    BY <1>5 DEF MenuAllocates
  <1>6. CASE LoopEnds
    BY <1>6 DEF LoopEnds
  <1>7. CASE RaiseFlag
    BY <1>7 DEF RaiseFlag
  <1>8. CASE ReceiveTrade
    BY <1>8 DEF ReceiveTrade
  <1>9. ASSUME NEW t \in Threads, Allocate(t)
        PROVE  QuietInv'
    BY <1>9 DEF Allocate
  <1>10. ASSUME NEW t \in Threads, Enqueue(t)
        PROVE  QuietInv'
    BY <1>10 DEF Enqueue
  <1>11. ASSUME NEW t \in Threads, ConnectionCloses(t)
        PROVE  QuietInv'
    BY <1>11 DEF ConnectionCloses
  <1>12. ASSUME NEW t \in Threads, ServiceEnds(t)
        PROVE  QuietInv'
    BY <1>12 DEF ServiceEnds
  <1>13. ASSUME NEW t \in Threads, UnknownCurrency(t)
        PROVE  QuietInv'
    BY <1>13 DEF UnknownCurrency, HasBalance
  <1>14. ASSUME NEW t \in Threads, WaitForAccount(t)
        PROVE  QuietInv'
    BY <1>14 DEF WaitForAccount, HasBalance
  <1>15. ASSUME NEW t \in Threads, do_log(t)
        PROVE  QuietInv'
    BY <1>15 DEF do_log
  <1>16. ASSUME NEW t \in Threads, TakeTask(t)
        PROVE  QuietInv'
    BY <1>16 DEF TakeTask
  <1>17. ASSUME NEW t \in Threads, TakeLogTask(t)
        PROVE  QuietInv'
    BY <1>17 DEF TakeLogTask
  <1>18. ASSUME NEW t \in Threads, Log(t)
        PROVE  QuietInv'
    BY <1>18 DEF Log
  <1>19. ASSUME NEW t \in Threads, RotateFails(t)
        PROVE  QuietInv'
    BY <1>19 DEF RotateFails
  <1>20. ASSUME NEW t \in Threads, AllocateBuffer(t)
        PROVE  QuietInv'
    BY <1>20 DEF AllocateBuffer
  <1>21. ASSUME NEW t \in Threads, UseMemory(t)
        PROVE  QuietInv'
    BY <1>21 DEF UseMemory
  <1>22. ASSUME NEW t \in Threads, FreeBuffer(t)
        PROVE  QuietInv'
    BY <1>22 DEF FreeBuffer
  <1>23. ASSUME NEW t \in Threads, FreeArgument(t)
        PROVE  QuietInv'
    BY <1>23 DEF FreeArgument
  <1>24. ASSUME NEW t \in Threads, WorkerEnds(t)
        PROVE  QuietInv'
    BY <1>24 DEF WorkerEnds
  <1>25. ASSUME NEW t \in Threads, BeginCleanUp(t)
        PROVE  QuietInv'
    BY <1>25 DEF BeginCleanUp
  <1>26. ASSUME NEW t \in Threads, FreeObject(t)
        PROVE  QuietInv'
    BY <1>26 DEF FreeObject
  <1>27. ASSUME NEW t \in Threads, DestroyComponent(t)
        PROVE  QuietInv'
    BY <1>27 DEF DestroyComponent
  <1>28. ASSUME NEW t \in Threads, StopPublic(t)
        PROVE  QuietInv'
    BY <1>28 DEF StopPublic, At
  <1>29. ASSUME NEW t \in Threads, StopPrivate(t)
        PROVE  QuietInv'
    BY <1>29 DEF StopPrivate
  <1>30. ASSUME NEW t \in Threads, JoinPrivate(t)
        PROVE  QuietInv'
    BY <1>30 DEF JoinPrivate
  <1>31. ASSUME NEW t \in Threads, CloseQueue(t)
        PROVE  QuietInv'
    BY <1>31 DEF CloseQueue, At
  <1>32. ASSUME NEW t \in Threads, DrainQueue(t)
        PROVE  QuietInv'
    BY ZenonT(30), <1>32 DEF DrainQueue
  <1>33. ASSUME NEW t \in Threads, JoinWorkers(t)
        PROVE  QuietInv'
    BY <1>33 DEF JoinWorkers
  <1>34. ASSUME NEW t \in Threads, EndCleanUp(t)
        PROVE  QuietInv'
    BY <1>34 DEF EndCleanUp
  <1>35. CASE UNCHANGED lifeVars
    BY <1>35 DEF lifeVars
  <1>36. ASSUME NEW t \in Threads, Makes(t)
        PROVE  QuietInv'
    BY <1>36 DEF Makes
  <1>37. ASSUME NEW t \in Threads, EnqueueLog(t)
        PROVE  QuietInv'
    BY <1>37 DEF EnqueueLog
  <1>38. ASSUME NEW t \in Threads, LogsAndExits(t)
        PROVE  QuietInv'
    BY <1>38 DEF LogsAndExits
  <1>39. ASSUME NEW t \in Threads, RotateTxnFails(t)
        PROVE  QuietInv'
    BY <1>39 DEF RotateTxnFails, Saves
  <1>40. CASE Dies
    BY <1>40 DEF Dies
  <1> QED
    BY <1>1, <1>2, <1>3, <1>4, <1>5, <1>6, <1>7, <1>8, <1>9, <1>10, <1>11, <1>12, <1>13, <1>14,
       <1>15, <1>16, <1>17, <1>18, <1>19, <1>20, <1>21, <1>22, <1>23, <1>24, <1>25, <1>26,
       <1>27, <1>28, <1>29, <1>30, <1>31, <1>32, <1>33, <1>34, <1>35,
       <1>36, <1>37, <1>38, <1>39, <1>40
       DEF LifeNext, SetUp, Happens, Goes, Enqueues, clean_up

-----------------------------------------------------------------------------
LEMMA CleanNext ==
  ASSUME LifeTypes, LifeTypes', SetUpInv, CleanInv, [LifeNext]_lifeVars
  PROVE  CleanInv'
  <1> USE LifecycleAssumption, ComponentsKnown
          DEF LifeTypes, Threads, memory, leafLocks, CleanInv, Cleaning, Over, Gone
  <1>1. CASE InitComponent
    <2>1. /\ UNCHANGED <<mtx, destroyed, freed, list>> /\ pc[Main] = "init"
          /\ \A t \in Threads :
               \/ pc'[t] = pc[t]
               \/ /\ pc[t] \in {"init", "unborn"} \cup Gone
                  /\ pc'[t] \in {"init_private", "track", "idle", "service"}
      BY <1>1 DEF InitComponent, SetUpInv, Serving
    <2>2. ~Over
      BY <2>1 DEF Over
    <2>3. \A t \in Threads :
            \/ pc'[t] = pc[t]
            \/ pc[t] \notin Cleaning /\ pc'[t] \notin Cleaning \cup Gone
      BY <2>1 DEF Cleaning
    <2> QED
      BY <2>1, <2>2, <2>3, CleanFrame
  <1>2. CASE InitPrivate
    <2>1. /\ UNCHANGED <<mtx, destroyed, freed, list>> /\ pc[Main] = "init_private"
          /\ pc' = [pc EXCEPT ![Main] = "track", ![Private] = "service"]
      BY <1>2 DEF InitPrivate
    <2>2. ~Over
      BY <2>1 DEF Over
    <2>3. pc[Private] \notin Cleaning
      BY <2>1 DEF SetUpInv
    <2>4. \A t \in Threads :
            \/ pc'[t] = pc[t]
            \/ pc[t] \notin Cleaning /\ pc'[t] \notin Cleaning \cup Gone
      BY <2>1, <2>3 DEF Cleaning
    <2> QED
      BY <2>1, <2>2, <2>4, CleanFrame
  <1>3. CASE InitFails
    BY <1>3 DEF InitFails
  <1>4. CASE Track
    <2>1. /\ UNCHANGED <<mtx, destroyed, freed>> /\ (UNCHANGED list \/ mtx = NoThread)
          /\ pc[Main] \notin Cleaning \cup Gone /\ Main \in Threads
          /\ \A u \in Threads \ {Main} :
               pc'[u] = pc[u] \/ (pc[u] \notin Cleaning /\ pc'[u] = "service")
          /\ pc'[Main] \notin Cleaning \cup Gone
      BY <1>4 DEF Track, TRACK_RESOURCE, Cleaning
    <2> QED
      BY <2>1, CleanFrame
  <1>5. CASE MenuAllocates
    BY <1>5 DEF MenuAllocates
  <1>6. CASE LoopEnds
    BY <1>6 DEF LoopEnds
  <1>7. CASE RaiseFlag
    BY <1>7 DEF RaiseFlag
  <1>8. CASE ReceiveTrade
    BY <1>8 DEF ReceiveTrade
  <1>9. ASSUME NEW t \in Threads, Allocate(t)
        PROVE  CleanInv'
    <2>1. /\ UNCHANGED <<mtx, destroyed, freed>> /\ (UNCHANGED list \/ mtx = NoThread)
          /\ pc[t] \notin Cleaning \cup Gone /\ t \in Threads
          /\ \A u \in Threads \ {t} :
               pc'[u] = pc[u] \/ (pc[u] \notin Cleaning /\ pc'[u] = "service")
          /\ pc'[t] \notin Cleaning \cup Gone
      BY <1>9 DEF Allocate, TRACK_RESOURCE, Cleaning
    <2> QED
      BY <2>1, CleanFrame
  <1>10. ASSUME NEW t \in Threads, Enqueue(t)
        PROVE  CleanInv'
    BY <1>10 DEF Enqueue
  <1>11. ASSUME NEW t \in Threads, ConnectionCloses(t)
        PROVE  CleanInv'
    BY <1>11 DEF ConnectionCloses
  <1>12. ASSUME NEW t \in Threads, ServiceEnds(t)
        PROVE  CleanInv'
    BY <1>12 DEF ServiceEnds
  <1>13. ASSUME NEW t \in Threads, UnknownCurrency(t)
        PROVE  CleanInv'
    <2>1. /\ UNCHANGED <<mtx, destroyed, freed>> /\ (UNCHANGED list \/ mtx = NoThread)
          /\ pc[t] \notin Cleaning \cup Gone /\ t \in Threads
          /\ \A u \in Threads \ {t} :
               pc'[u] = pc[u] \/ (pc[u] \notin Cleaning /\ pc'[u] = "service")
          /\ pc'[t] \notin Cleaning \cup Gone
      BY <1>13 DEF UnknownCurrency, HasBalance, Cleaning
    <2> QED
      BY <2>1, CleanFrame
  <1>14. ASSUME NEW t \in Threads, WaitForAccount(t)
        PROVE  CleanInv'
    <2>1. /\ UNCHANGED <<mtx, destroyed, freed>> /\ (UNCHANGED list \/ mtx = NoThread)
          /\ pc[t] \notin Cleaning \cup Gone /\ t \in Threads
          /\ \A u \in Threads \ {t} :
               pc'[u] = pc[u] \/ (pc[u] \notin Cleaning /\ pc'[u] = "service")
          /\ pc'[t] \notin Cleaning \cup Gone
      BY <1>14 DEF WaitForAccount, HasBalance, Cleaning
    <2> QED
      BY <2>1, CleanFrame
  <1>15. ASSUME NEW t \in Threads, do_log(t)
        PROVE  CleanInv'
    BY <1>15 DEF do_log
  <1>16. ASSUME NEW t \in Threads, TakeTask(t)
        PROVE  CleanInv'
    <2>1. /\ UNCHANGED <<mtx, destroyed, freed, list>>
          /\ pc[t] = "idle" /\ ~Over
          /\ pc' = [pc EXCEPT ![t] = "alloc"] \/ pc' = [pc EXCEPT ![t] = "use"]
      BY <1>16 DEF TakeTask
    <2>2. \A u \in Threads :
            \/ pc'[u] = pc[u]
            \/ pc[u] \notin Cleaning /\ pc'[u] \notin Cleaning \cup Gone
      BY <2>1
    <2> QED
      BY <2>1, <2>2, CleanFrame
  <1>17. ASSUME NEW t \in Threads, TakeLogTask(t)
        PROVE  CleanInv'
    BY <1>17 DEF TakeLogTask
  <1>18. ASSUME NEW t \in Threads, Log(t)
        PROVE  CleanInv'
    BY <1>18 DEF Log
  <1>19. ASSUME NEW t \in Threads, RotateFails(t)
        PROVE  CleanInv'
    BY <1>19 DEF RotateFails
  <1>20. ASSUME NEW t \in Threads, AllocateBuffer(t)
        PROVE  CleanInv'
    <2>1. /\ UNCHANGED <<mtx, destroyed, freed>> /\ (UNCHANGED list \/ mtx = NoThread)
          /\ pc[t] \notin Cleaning \cup Gone /\ t \in Threads
          /\ \A u \in Threads \ {t} :
               pc'[u] = pc[u] \/ (pc[u] \notin Cleaning /\ pc'[u] = "service")
          /\ pc'[t] \notin Cleaning \cup Gone
      BY <1>20 DEF AllocateBuffer, TRACK_RESOURCE, Cleaning
    <2> QED
      BY <2>1, CleanFrame
  <1>21. ASSUME NEW t \in Threads, UseMemory(t)
        PROVE  CleanInv'
    BY <1>21 DEF UseMemory
  <1>22. ASSUME NEW t \in Threads, FreeBuffer(t)
        PROVE  CleanInv'
    <2>1. /\ UNCHANGED <<mtx, destroyed, freed>> /\ (UNCHANGED list \/ mtx = NoThread)
          /\ pc[t] \notin Cleaning \cup Gone /\ t \in Threads
          /\ \A u \in Threads \ {t} :
               pc'[u] = pc[u] \/ (pc[u] \notin Cleaning /\ pc'[u] = "service")
          /\ pc'[t] \notin Cleaning \cup Gone
      BY <1>22 DEF FreeBuffer, Freed, Cleaning
    <2> QED
      BY <2>1, CleanFrame
  <1>23. ASSUME NEW t \in Threads, FreeArgument(t)
        PROVE  CleanInv'
    <2>1. /\ UNCHANGED <<mtx, destroyed, freed>> /\ (UNCHANGED list \/ mtx = NoThread)
          /\ pc[t] \notin Cleaning \cup Gone /\ t \in Threads
          /\ \A u \in Threads \ {t} :
               pc'[u] = pc[u] \/ (pc[u] \notin Cleaning /\ pc'[u] = "service")
          /\ pc'[t] \notin Cleaning \cup Gone
      BY <1>23 DEF FreeArgument, Freed, Cleaning
    <2> QED
      BY <2>1, CleanFrame
  <1>24. ASSUME NEW t \in Threads, WorkerEnds(t)
        PROVE  CleanInv'
    BY <1>24 DEF WorkerEnds
  <1>25. ASSUME NEW t \in Threads, BeginCleanUp(t)
        PROVE  CleanInv'
    BY <1>25 DEF BeginCleanUp
  <1>26. ASSUME NEW t \in Threads, FreeObject(t)
        PROVE  CleanInv'
    BY <1>26 DEF FreeObject
  <1>27. ASSUME NEW t \in Threads, DestroyComponent(t)
        PROVE  CleanInv'
    BY <1>27 DEF DestroyComponent, At, Destroyed
  <1>28. ASSUME NEW t \in Threads, StopPublic(t)
        PROVE  CleanInv'
    BY <1>28 DEF StopPublic, At
  <1>29. ASSUME NEW t \in Threads, StopPrivate(t)
        PROVE  CleanInv'
    BY <1>29 DEF StopPrivate
  <1>30. ASSUME NEW t \in Threads, JoinPrivate(t)
        PROVE  CleanInv'
    BY <1>30 DEF JoinPrivate
  <1>31. ASSUME NEW t \in Threads, CloseQueue(t)
        PROVE  CleanInv'
    BY <1>31 DEF CloseQueue, At
  <1>32. ASSUME NEW t \in Threads, DrainQueue(t)
        PROVE  CleanInv'
    BY <1>32, SMTT(30) DEF DrainQueue
  <1>33. ASSUME NEW t \in Threads, JoinWorkers(t)
        PROVE  CleanInv'
    BY <1>33 DEF JoinWorkers
  <1>34. ASSUME NEW t \in Threads, EndCleanUp(t)
        PROVE  CleanInv'
    BY <1>34 DEF EndCleanUp
  <1>35. CASE UNCHANGED lifeVars
    BY <1>35 DEF lifeVars
  <1>36. ASSUME NEW t \in Threads, Makes(t)
        PROVE  CleanInv'
    BY <1>36 DEF Makes
  <1>37. ASSUME NEW t \in Threads, EnqueueLog(t)
        PROVE  CleanInv'
    BY <1>37 DEF EnqueueLog
  <1>38. ASSUME NEW t \in Threads, LogsAndExits(t)
        PROVE  CleanInv'
    BY <1>38 DEF LogsAndExits
  <1>39. ASSUME NEW t \in Threads, RotateTxnFails(t)
        PROVE  CleanInv'
    BY <1>39 DEF RotateTxnFails, Saves
  <1>40. CASE Dies
    BY <1>40 DEF Dies
  <1> QED
    BY <1>1, <1>2, <1>3, <1>4, <1>5, <1>6, <1>7, <1>8, <1>9, <1>10, <1>11, <1>12, <1>13, <1>14,
       <1>15, <1>16, <1>17, <1>18, <1>19, <1>20, <1>21, <1>22, <1>23, <1>24, <1>25, <1>26,
       <1>27, <1>28, <1>29, <1>30, <1>31, <1>32, <1>33, <1>34, <1>35,
       <1>36, <1>37, <1>38, <1>39, <1>40
       DEF LifeNext, SetUp, Happens, Goes, Enqueues, clean_up

LEMMA JoinNext ==
  ASSUME LifeTypes, SetUpInv, CleanInv, JoinInv, StackInv, [LifeNext]_lifeVars
  PROVE  JoinInv'
  <1> USE LifecycleAssumption, ComponentsKnown
          DEF LifeTypes, Threads, memory, leafLocks, JoinInv, Active, Cleaning, Serving, Gone
  <1>1. CASE InitComponent
    <2>1. /\ UNCHANGED <<destroyed, list, mtx>>
          /\ \A t \in Threads : pc'[t] # pc[t] =>
               \/ t = Main
               \/ t \in Workers /\ step = 9
               \/ t = Public /\ step = 11
          /\ \A t \in Threads : pc'[t] = "join_private" => pc[t] = "join_private"
      <3>1. step \in 1..11
        BY <1>1 DEF InitComponent, SetUpInv
      <3>2. /\ Components[step] = "queue" <=> step = 9
            /\ Components[step] = "websocket" <=> step = 11
        BY <3>1
      <3> QED
        BY <1>1, <3>2 DEF InitComponent
    <2>2. step = 9 => "queue" \notin destroyed
      BY DEF StackInv
    <2>3. step = 11 => "websocket" \notin destroyed /\ "websocket" \notin Listed
      BY DEF StackInv
    <2>4. step = 11 => \A t \in Threads : pc[t] # "join_private"
      <3>1. ASSUME NEW t \in Threads, pc[t] = "join_private", step = 11
            PROVE  FALSE
        <4>1. list # << >> /\ Head(list) = "websocket"
          BY <3>1 DEF CleanInv
        <4>2. 1 \in DOMAIN list /\ list[1] = "websocket"
          BY <4>1, ListPopped
        <4> QED
          BY <2>3, <3>1, <4>2 DEF Listed
      <3> QED
        BY <3>1
    <2> QED
      BY <2>1, <2>2, <2>3, <2>4
  <1>2. CASE InitPrivate
    <2>1. step = 11
      BY <1>2 DEF InitPrivate, SetUpInv
    <2>2. "websocket" \notin destroyed
      BY <2>1 DEF StackInv
    <2> QED
      BY <1>2, <2>2 DEF InitPrivate
  <1>3. CASE InitFails
    BY <1>3 DEF InitFails
  <1>4. CASE Track
    BY <1>4 DEF Track
  <1>5. CASE MenuAllocates
    BY <1>5 DEF MenuAllocates
  <1>6. CASE LoopEnds
    BY <1>6 DEF LoopEnds
  <1>7. CASE RaiseFlag
    BY <1>7 DEF RaiseFlag
  <1>8. CASE ReceiveTrade
    BY <1>8 DEF ReceiveTrade
  <1>9. ASSUME NEW t \in Threads, Allocate(t)
        PROVE  JoinInv'
    BY <1>9 DEF Allocate
  <1>10. ASSUME NEW t \in Threads, Enqueue(t)
        PROVE  JoinInv'
    BY <1>10 DEF Enqueue
  <1>11. ASSUME NEW t \in Threads, ConnectionCloses(t)
        PROVE  JoinInv'
    BY <1>11 DEF ConnectionCloses
  <1>12. ASSUME NEW t \in Threads, ServiceEnds(t)
        PROVE  JoinInv'
    BY <1>12 DEF ServiceEnds
  <1>13. ASSUME NEW t \in Threads, UnknownCurrency(t)
        PROVE  JoinInv'
    BY <1>13 DEF UnknownCurrency
  <1>14. ASSUME NEW t \in Threads, WaitForAccount(t)
        PROVE  JoinInv'
    BY <1>14 DEF WaitForAccount, HasBalance
  <1>15. ASSUME NEW t \in Threads, do_log(t)
        PROVE  JoinInv'
    BY <1>15 DEF do_log
  <1>16. ASSUME NEW t \in Threads, TakeTask(t)
        PROVE  JoinInv'
    BY <1>16 DEF TakeTask
  <1>17. ASSUME NEW t \in Threads, TakeLogTask(t)
        PROVE  JoinInv'
    BY <1>17 DEF TakeLogTask
  <1>18. ASSUME NEW t \in Threads, Log(t)
        PROVE  JoinInv'
    BY <1>18 DEF Log
  <1>19. ASSUME NEW t \in Threads, RotateFails(t)
        PROVE  JoinInv'
    BY <1>19 DEF RotateFails
  <1>20. ASSUME NEW t \in Threads, AllocateBuffer(t)
        PROVE  JoinInv'
    BY <1>20 DEF AllocateBuffer
  <1>21. ASSUME NEW t \in Threads, UseMemory(t)
        PROVE  JoinInv'
    BY <1>21 DEF UseMemory
  <1>22. ASSUME NEW t \in Threads, FreeBuffer(t)
        PROVE  JoinInv'
    BY <1>22 DEF FreeBuffer
  <1>23. ASSUME NEW t \in Threads, FreeArgument(t)
        PROVE  JoinInv'
    BY <1>23 DEF FreeArgument
  <1>24. ASSUME NEW t \in Threads, WorkerEnds(t)
        PROVE  JoinInv'
    BY <1>24 DEF WorkerEnds
  <1>25. ASSUME NEW t \in Threads, BeginCleanUp(t)
        PROVE  JoinInv'
    BY <1>25 DEF BeginCleanUp
  <1>26. ASSUME NEW t \in Threads, FreeObject(t)
        PROVE  JoinInv'
    BY <1>26 DEF FreeObject
  <1>27. ASSUME NEW t \in Threads, DestroyComponent(t)
        PROVE  JoinInv'
    <2>1. PICK c \in ComponentNames \ {"websocket", "queue"} : destroyed' = destroyed \cup {c}
      BY <1>27 DEF DestroyComponent, Destroyed
    <2>2. UNCHANGED pc
      BY <1>27 DEF DestroyComponent
    <2> QED
      BY <2>1, <2>2
  <1>28. ASSUME NEW t \in Threads, StopPublic(t)
        PROVE  JoinInv'
    BY <1>28 DEF StopPublic
  <1>29. ASSUME NEW t \in Threads, StopPrivate(t)
        PROVE  JoinInv'
    BY <1>29 DEF StopPrivate, Joinable
  <1>30. ASSUME NEW t \in Threads, JoinPrivate(t)
        PROVE  JoinInv'
    <2>1. /\ pc[t] = "join_private" /\ pc' = [pc EXCEPT ![t] = "walk"]
          /\ Private = t \/ pc[Private] = "done"
          /\ destroyed' = destroyed \cup {"websocket"}
      BY <1>30 DEF JoinPrivate, Joinable, Destroyed
    <2> QED
      BY <2>1
  <1>31. ASSUME NEW t \in Threads, CloseQueue(t)
        PROVE  JoinInv'
    BY <1>31 DEF CloseQueue
  <1>32. ASSUME NEW t \in Threads, DrainQueue(t)
        PROVE  JoinInv'
    BY <1>32 DEF DrainQueue
  <1>33. ASSUME NEW t \in Threads, JoinWorkers(t)
        PROVE  JoinInv'
    <2>1. /\ pc[t] = "join_workers" /\ pc' = [pc EXCEPT ![t] = "walk"]
          /\ \A w \in Workers : w = t \/ pc[w] = "done"
          /\ destroyed' = destroyed \cup {"queue"}
      BY <1>33 DEF JoinWorkers, Joinable, Destroyed
    <2> QED
      BY <2>1
  <1>34. ASSUME NEW t \in Threads, EndCleanUp(t)
        PROVE  JoinInv'
    BY <1>34 DEF EndCleanUp
  <1>35. CASE UNCHANGED lifeVars
    BY <1>35 DEF lifeVars
  <1>36. ASSUME NEW t \in Threads, Makes(t)
        PROVE  JoinInv'
    BY <1>36 DEF Makes
  <1>37. ASSUME NEW t \in Threads, EnqueueLog(t)
        PROVE  JoinInv'
    BY <1>37 DEF EnqueueLog
  <1>38. ASSUME NEW t \in Threads, LogsAndExits(t)
        PROVE  JoinInv'
    BY <1>38 DEF LogsAndExits
  <1>39. ASSUME NEW t \in Threads, RotateTxnFails(t)
        PROVE  JoinInv'
    BY <1>39 DEF RotateTxnFails, Saves
  <1>40. CASE Dies
    BY <1>40 DEF Dies
  <1> QED
    BY <1>1, <1>2, <1>3, <1>4, <1>5, <1>6, <1>7, <1>8, <1>9, <1>10, <1>11, <1>12, <1>13, <1>14,
       <1>15, <1>16, <1>17, <1>18, <1>19, <1>20, <1>21, <1>22, <1>23, <1>24, <1>25, <1>26,
       <1>27, <1>28, <1>29, <1>30, <1>31, <1>32, <1>33, <1>34, <1>35,
       <1>36, <1>37, <1>38, <1>39, <1>40
       DEF LifeNext, SetUp, Happens, Goes, Enqueues, clean_up

-----------------------------------------------------------------------------
LEMMA StackFrame ==
  ASSUME StackInv, UNCHANGED <<step, list, destroyed>>
  PROVE  StackInv'
  <1>1. Listed' = Listed
    BY DEF Listed
  <1> QED
    BY <1>1 DEF StackInv

(* Objects come and go anywhere in the list.                               *)
LEMMA StackAllocate ==
  ASSUME LifeTypes, StackInv, NEW x \in Objects, TRACK_RESOURCE(x), UNCHANGED <<step, destroyed>>
  PROVE  StackInv'
  <1>1. /\ DOMAIN list' = 1..(Len(list) + 1) /\ DOMAIN list = 1..Len(list) /\ Len(list) \in Nat
        /\ list'[1] = x /\ \A k \in DOMAIN list : list'[k + 1] = list[k]
        /\ Listed' = Listed \cup {x}
    BY PushStep
  <1>2. \A k \in DOMAIN Components : Components[k] # x
    BY ComponentsKnown, ObjectsAssumption
  <1>3. \A k \in DOMAIN Components : Components[k] \in Listed' <=> Components[k] \in Listed
    BY <1>1, <1>2
  <1>4. ASSUME NEW a \in DOMAIN list', NEW b \in DOMAIN list',
               NEW k \in DOMAIN Components, NEW l \in DOMAIN Components,
               list'[a] = Components[k], list'[b] = Components[l], a < b
        PROVE  k > l
    <2>1. a # 1 /\ b # 1
      BY <1>1, <1>2, <1>4
    <2>2. /\ a - 1 \in DOMAIN list /\ (a - 1) + 1 = a
          /\ b - 1 \in DOMAIN list /\ (b - 1) + 1 = b /\ a - 1 < b - 1
      BY <1>1, <1>4, <2>1
    <2>3. list[a - 1] = Components[k] /\ list[b - 1] = Components[l]
      BY <1>1, <1>4, <2>2
    <2> QED
      BY <2>2, <2>3 DEF StackInv
  <1> QED
    BY <1>3, <1>4 DEF StackInv

LEMMA StackFree ==
  ASSUME LifeTypes, StackInv, NEW x \in Objects, Freed(x), UNCHANGED <<step, destroyed>>
  PROVE  StackInv'
  <1>1. /\ Listed \ {x} \subseteq Listed' /\ Listed' \subseteq Listed
        /\ \A a, b \in DOMAIN list' : a < b =>
             \E c, d \in DOMAIN list : c < d /\ list[c] = list'[a] /\ list[d] = list'[b]
    BY FreedStep
  <1>2. \A k \in DOMAIN Components : Components[k] # x
    BY ComponentsKnown, ObjectsAssumption
  <1>3. \A k \in DOMAIN Components : Components[k] \in Listed' <=> Components[k] \in Listed
    BY <1>1, <1>2
  <1>4. ASSUME NEW a \in DOMAIN list', NEW b \in DOMAIN list',
               NEW k \in DOMAIN Components, NEW l \in DOMAIN Components,
               list'[a] = Components[k], list'[b] = Components[l], a < b
        PROVE  k > l
    <2>1. PICK c, d \in DOMAIN list : c < d /\ list[c] = list'[a] /\ list[d] = list'[b]
      BY <1>1, <1>4
    <2> QED
      BY <1>4, <2>1 DEF StackInv
  <1> QED
    BY <1>3, <1>4 DEF StackInv

(* A component that comes up is put on top, and none has been destroyed.   *)
LEMMA StackTrack ==
  ASSUME LifeTypes, StackInv, SetUpInv, CleanInv, Track
  PROVE  StackInv'
  <1>1. /\ pc[Main] = "track" /\ step \in 1..11 /\ step' = step + 1 /\ mtx = NoThread
        /\ TRACK_RESOURCE(Components[step]) /\ UNCHANGED destroyed
        /\ Components[step] \in ComponentNames
    BY ComponentsKnown DEF Track, SetUpInv, LifeTypes, TRACK_RESOURCE
  <1>2. destroyed = {}
    <2>1. ~Over
      BY <1>1 DEF Over, Gone, Threads
    <2> QED
      BY <1>1, <2>1 DEF CleanInv
  <1>3. /\ DOMAIN list' = 1..(Len(list) + 1) /\ DOMAIN list = 1..Len(list) /\ Len(list) \in Nat
        /\ list'[1] = Components[step] /\ \A k \in DOMAIN list : list'[k + 1] = list[k]
        /\ Listed' = Listed \cup {Components[step]}
    BY <1>1, PushStep
  <1>4. \A k \in 1..11 : Components[k] \in Listed <=> k < step
    BY <1>2, ComponentsKnown DEF StackInv
  <1>5. \A k \in 1..11 : Components[k] \in Listed' <=> k < step'
    BY <1>1, <1>3, <1>4, ComponentsKnown
  <1>6. ASSUME NEW a \in DOMAIN list', NEW b \in DOMAIN list', NEW k \in 1..11, NEW l \in 1..11,
               list'[a] = Components[k], list'[b] = Components[l], a < b
        PROVE  k > l
    <2>1. b # 1 /\ b - 1 \in DOMAIN list /\ (b - 1) + 1 = b
      BY <1>3, <1>6
    <2>2. list[b - 1] = Components[l]
      BY <1>3, <1>6, <2>1
    <2>3. CASE a = 1
      <3>1. k = step
        BY <1>1, <1>3, <1>6, <2>3, ComponentsKnown, SMTT(30)
      <3>2. l < step
        BY <1>4, <2>1, <2>2 DEF Listed
      <3> QED
        BY <3>1, <3>2
    <2>4. CASE a # 1
      <3>1. a - 1 \in DOMAIN list /\ (a - 1) + 1 = a /\ a - 1 < b - 1
        BY <1>3, <1>6, <2>4
      <3>2. list[a - 1] = Components[k]
        BY <1>3, <1>6, <3>1
      <3> QED
        BY <2>1, <2>2, <3>1, <3>2, ComponentsKnown DEF StackInv
    <2> QED
      BY <2>3, <2>4
  <1> QED
    BY <1>1, <1>2, <1>5, <1>6, ComponentsKnown DEF StackInv

(* Positions in what is left of the list.                                  *)
LEMMA StackPopped ==
  ASSUME LifeTypes, StackInv, list # << >>, list' = Tail(list)
  PROVE  \A a, b \in DOMAIN list' : \A k, l \in DOMAIN Components :
           list'[a] = Components[k] /\ list'[b] = Components[l] /\ a < b => k > l
  <1>1. /\ DOMAIN list' = 1..(Len(list) - 1) /\ DOMAIN list = 1..Len(list) /\ Len(list) \in Nat
        /\ \A k \in DOMAIN list' : list'[k] = list[k + 1]
    BY PopStep
  <1> SUFFICES ASSUME NEW a \in DOMAIN list', NEW b \in DOMAIN list',
                      NEW k \in DOMAIN Components, NEW l \in DOMAIN Components,
                      list'[a] = Components[k], list'[b] = Components[l], a < b
               PROVE  k > l
    OBVIOUS
  <1>2. a + 1 \in DOMAIN list /\ b + 1 \in DOMAIN list /\ a + 1 < b + 1
    BY <1>1
  <1>3. list[a + 1] = Components[k] /\ list[b + 1] = Components[l]
    BY <1>1
  <1> QED
    BY <1>2, <1>3 DEF StackInv

LEMMA StackFreeObject ==
  ASSUME LifeTypes, StackInv, list # << >>, Head(list) \in Objects, list' = Tail(list),
         UNCHANGED <<step, destroyed>>
  PROVE  StackInv'
  <1>1. Listed = Listed' \cup {Head(list)}
    BY PopStep
  <1>2. \A k \in DOMAIN Components : Components[k] # Head(list)
    BY ComponentsKnown, ObjectsAssumption
  <1>3. \A k \in DOMAIN Components : Components[k] \in Listed' <=> Components[k] \in Listed
    BY <1>1, <1>2
  <1> QED
    BY <1>3, StackPopped DEF StackInv

(* The component on top is the last one of those that are left.            *)
LEMMA StackDestroy ==
  ASSUME LifeTypes, StackInv, NEW c \in ComponentNames, list # << >>, Head(list) = c,
         Destroyed(c), UNCHANGED step
  PROVE  StackInv'
  <1>1. PICK n \in 1..11 : c = Components[n]
    BY ComponentsKnown DEF ComponentNames
  <1>2. list' = Tail(list) /\ destroyed' = destroyed \cup {c}
    BY DEF Destroyed
  <1>3. /\ DOMAIN list' = 1..(Len(list) - 1) /\ DOMAIN list = 1..Len(list) /\ Len(list) \in Nat
        /\ Len(list) >= 1 /\ list[1] = c
        /\ \A k \in DOMAIN list' : list'[k] = list[k + 1]
        /\ Listed = Listed' \cup {c}
    BY <1>2, PopStep
  <1>4. 1 \in DOMAIN list /\ c \in Listed
    BY <1>3
  <1>5. ASSUME NEW l \in 1..11, Components[l] \in Listed'
        PROVE  n > l
    <2>1. PICK b \in DOMAIN list' : list'[b] = Components[l]
      BY <1>5 DEF Listed
    <2>2. b + 1 \in DOMAIN list /\ 1 < b + 1 /\ list[b + 1] = Components[l]
      BY <1>3, <2>1
    <2> QED
      BY <1>1, <1>3, <1>4, <2>2, ComponentsKnown, ZenonT(30) DEF StackInv
  <1>6. c \notin Listed'
    BY <1>1, <1>5
  <1>7. \A l \in 1..11 : n < l /\ l < step => Components[l] \in destroyed
    <2> SUFFICES ASSUME NEW l \in 1..11, n < l, l < step, Components[l] \notin destroyed
                 PROVE  FALSE
      OBVIOUS
    <2>1. Components[l] \in Listed
      BY ComponentsKnown DEF StackInv
    <2>2. Components[l] # c
      BY <1>1, ComponentsKnown
    <2>3. n > l
      BY <1>3, <1>5, <2>1, <2>2
    <2> QED
      BY <2>3
  <1>8. \A k \in 1..11 : Components[k] \in Listed' <=> k < step' /\ Components[k] \notin destroyed'
    BY <1>2, <1>3, <1>6, ComponentsKnown DEF StackInv
  <1>9. \A k \in 1..11 : Components[k] \in destroyed' => k < step'
    BY <1>1, <1>2, <1>4, ComponentsKnown DEF StackInv
  <1>10. \A k, l \in 1..11 :
           Components[k] \in destroyed' /\ k < l /\ l < step' => Components[l] \in destroyed'
    <2> SUFFICES ASSUME NEW k \in 1..11, NEW l \in 1..11,
                        Components[k] \in destroyed', k < l, l < step
                 PROVE  Components[l] \in destroyed'
      OBVIOUS
    <2>1. CASE Components[k] \in destroyed
      BY <1>2, <2>1, ComponentsKnown DEF StackInv
    <2>2. CASE Components[k] = c
      <3>1. k = n
        BY <1>1, <2>2, ComponentsKnown
      <3> QED
        BY <1>2, <1>7, <3>1
    <2> QED
      BY <1>2, <2>1, <2>2
  <1>11. \A a, b \in DOMAIN list' : \A k, l \in DOMAIN Components :
           list'[a] = Components[k] /\ list'[b] = Components[l] /\ a < b => k > l
    BY <1>2, StackPopped
  <1> QED
    BY <1>8, <1>9, <1>10, <1>11, ComponentsKnown DEF StackInv

LEMMA StackNext ==
  ASSUME LifeTypes, PointersInv, SetUpInv, CleanInv, StackInv, [LifeNext]_lifeVars
  PROVE  StackInv'
  <1>1. CASE InitComponent \/ InitPrivate \/ InitFails \/ MenuAllocates \/ LoopEnds
          \/ RaiseFlag \/ ReceiveTrade \/ Dies \/ UNCHANGED lifeVars
    <2>1. UNCHANGED <<step, list, destroyed>>
      BY <1>1 DEF InitComponent, InitPrivate, InitFails, MenuAllocates, LoopEnds, RaiseFlag,
             ReceiveTrade, Dies, lifeVars, memory
    <2> QED
      BY <2>1, StackFrame
  <1>2. ASSUME NEW t \in Threads,
                  Enqueue(t) \/ ConnectionCloses(t) \/ ServiceEnds(t) \/ UnknownCurrency(t)
               \/ WaitForAccount(t) \/ do_log(t) \/ TakeTask(t) \/ TakeLogTask(t) \/ Log(t)
               \/ RotateFails(t) \/ UseMemory(t) \/ WorkerEnds(t) \/ BeginCleanUp(t)
               \/ StopPublic(t) \/ StopPrivate(t) \/ CloseQueue(t) \/ DrainQueue(t)
               \/ EndCleanUp(t) \/ Makes(t) \/ EnqueueLog(t) \/ LogsAndExits(t)
               \/ RotateTxnFails(t)
        PROVE  StackInv'
    <2>1. UNCHANGED <<step, list, destroyed>>
      BY <1>2 DEF Enqueue, ConnectionCloses, ServiceEnds, UnknownCurrency, WaitForAccount, do_log,
             TakeTask, TakeLogTask, Log, RotateFails, UseMemory, WorkerEnds, BeginCleanUp,
             StopPublic, StopPrivate, CloseQueue, DrainQueue, EndCleanUp, Makes, EnqueueLog,
             LogsAndExits, RotateTxnFails, memory
    <2> QED
      BY <2>1, StackFrame
  <1>3. CASE Track
    BY <1>3, StackTrack
  <1>4. ASSUME NEW t \in Threads, Allocate(t)
        PROVE  StackInv'
    <2>1. \E x \in Objects : TRACK_RESOURCE(x)
      BY <1>4 DEF Allocate, Unused
    <2>2. UNCHANGED <<step, destroyed>>
      BY <1>4 DEF Allocate
    <2> QED
      BY <2>1, <2>2, StackAllocate
  <1>5. ASSUME NEW t \in Threads, AllocateBuffer(t)
        PROVE  StackInv'
    <2>1. \E x \in Objects : TRACK_RESOURCE(x)
      BY <1>5 DEF AllocateBuffer, Unused
    <2>2. UNCHANGED <<step, destroyed>>
      BY <1>5 DEF AllocateBuffer
    <2> QED
      BY <2>1, <2>2, StackAllocate
  <1>6. ASSUME NEW t \in Threads, FreeBuffer(t)
        PROVE  StackInv'
    <2>1. buf[t] \in Objects /\ Freed(buf[t]) /\ UNCHANGED <<step, destroyed>>
      BY <1>6, WorkersOnly DEF FreeBuffer, PointersInv, LifeTypes
    <2> QED
      BY <2>1, StackFree
  <1>7. ASSUME NEW t \in Threads, FreeArgument(t)
        PROVE  StackInv'
    <2>1. arg[t] \in Objects /\ Freed(arg[t]) /\ UNCHANGED <<step, destroyed>>
      BY <1>7, WorkersOnly DEF FreeArgument, PointersInv, LifeTypes
    <2> QED
      BY <2>1, StackFree
  <1>8. ASSUME NEW t \in Threads, FreeObject(t)
        PROVE  StackInv'
    <2>1. /\ list # << >> /\ Head(list) \in Objects
          /\ list' = Tail(list) /\ UNCHANGED <<step, destroyed>>
      BY <1>8 DEF FreeObject
    <2> QED
      BY <2>1, StackFreeObject
  <1>9. ASSUME NEW t \in Threads, DestroyComponent(t)
        PROVE  StackInv'
    <2>1. PICK c \in ComponentNames : At(t, c) /\ Destroyed(c)
      BY <1>9 DEF DestroyComponent
    <2>2. list # << >> /\ Head(list) = c /\ UNCHANGED step
      BY <1>9, <2>1 DEF DestroyComponent, At
    <2> QED
      BY <2>1, <2>2, StackDestroy
  <1>10. ASSUME NEW t \in Threads, JoinPrivate(t)
        PROVE  StackInv'
    <2>1. /\ list # << >> /\ Head(list) = "websocket" /\ "websocket" \in ComponentNames
          /\ Destroyed("websocket") /\ UNCHANGED step
      BY <1>10, ComponentsKnown DEF JoinPrivate, CleanInv
    <2> QED
      BY <2>1, StackDestroy
  <1>11. ASSUME NEW t \in Threads, JoinWorkers(t)
        PROVE  StackInv'
    <2>1. /\ list # << >> /\ Head(list) = "queue" /\ "queue" \in ComponentNames
          /\ Destroyed("queue") /\ UNCHANGED step
      BY <1>11, ComponentsKnown DEF JoinWorkers, CleanInv
    <2> QED
      BY <2>1, StackDestroy
  <1> QED
    BY <1>1, <1>2, <1>3, <1>4, <1>5, <1>6, <1>7, <1>8, <1>9, <1>10, <1>11
       DEF LifeNext, SetUp, Happens, Goes, Enqueues, clean_up

(* A worker that uses memory goes on to FREE it.                           *)
LEMMA FreeingTouch ==
  ASSUME LifeTypes, TouchInv, NEW w \in Workers, Touches(w), UNCHANGED freed,
         pc' = [pc EXCEPT ![w] = "free"]
  PROVE  TouchInv'
  <1>1. w \in Threads /\ pc'[w] = "free"
    BY DEF LifeTypes, Threads
  <1>2. ~Ended'
    BY <1>1 DEF Ended
  <1>3. touched' # {} => freed' # {}
    BY DEF Touches, TouchInv
  <1> QED
    BY <1>1, <1>2, <1>3 DEF TouchInv

LEMMA TouchNext ==
  ASSUME LifeTypes, SetUpInv, QuietInv, CleanInv, StackInv, JoinInv, TouchInv, [LifeNext]_lifeVars
  PROVE  TouchInv'
  <1> USE LifecycleAssumption DEF LifeTypes, Threads, memory, leafLocks, TouchInv, Ended, Dead, Over, Gone
  <1>1. CASE InitComponent
    <2>1. pc[Main] = "init" /\ UNCHANGED touched
      BY <1>1 DEF InitComponent
    <2> SUFFICES ASSUME touched \cap Workers # {}
                 PROVE  ~Ended' /\ \E w \in Workers : pc'[w] = "free"
      BY <1>1, <2>1 DEF InitComponent
    <2>2. PICK w \in Workers : pc[w] = "free"
      BY <2>1
    <2>3. step \in 1..11 /\ Components[step] # "queue"
      BY SMTT(30), <2>1, <2>2, ComponentsKnown DEF SetUpInv
    <2>4. pc'[w] = "free"
      BY <1>1, <2>2, <2>3 DEF InitComponent
    <2> QED
      BY <2>4
  <1>2. CASE InitPrivate
    BY <1>2 DEF InitPrivate
  <1>3. CASE InitFails
    BY <1>3 DEF InitFails
  <1>4. CASE Track
    BY <1>4 DEF Track
  <1>5. CASE MenuAllocates
    BY <1>5 DEF MenuAllocates
  <1>6. CASE LoopEnds
    BY <1>6 DEF LoopEnds
  <1>7. CASE RaiseFlag
    BY <1>7 DEF RaiseFlag
  <1>8. CASE ReceiveTrade
    BY <1>8 DEF ReceiveTrade
  <1>9. ASSUME NEW t \in Threads, Allocate(t)
        PROVE  TouchInv'
    BY <1>9 DEF Allocate
  <1>10. ASSUME NEW t \in Threads, Enqueue(t)
        PROVE  TouchInv'
    BY <1>10 DEF Enqueue
  <1>11. ASSUME NEW t \in Threads, ConnectionCloses(t)
        PROVE  TouchInv'
    BY <1>11 DEF ConnectionCloses
  <1>12. ASSUME NEW t \in Threads, ServiceEnds(t)
        PROVE  TouchInv'
    BY <1>12 DEF ServiceEnds
  <1>13. ASSUME NEW t \in Threads, UnknownCurrency(t)
        PROVE  TouchInv'
    BY <1>13 DEF UnknownCurrency, HasBalance
  <1>14. ASSUME NEW t \in Threads, WaitForAccount(t)
        PROVE  TouchInv'
    BY <1>14 DEF WaitForAccount, HasBalance
  <1>15. ASSUME NEW t \in Threads, do_log(t)
        PROVE  TouchInv'
    BY <1>15 DEF do_log
  <1>16. ASSUME NEW t \in Threads, TakeTask(t)
        PROVE  TouchInv'
    BY <1>16 DEF TakeTask
  <1>17. ASSUME NEW t \in Threads, TakeLogTask(t)
        PROVE  TouchInv'
    BY <1>17 DEF TakeLogTask
  <1>18. ASSUME NEW t \in Threads, Log(t)
        PROVE  TouchInv'
    BY <1>18 DEF Log
  <1>19. ASSUME NEW t \in Threads, RotateFails(t)
        PROVE  TouchInv'
    BY <1>19 DEF RotateFails
  <1>20. ASSUME NEW t \in Threads, AllocateBuffer(t)
        PROVE  TouchInv'
    BY <1>20 DEF AllocateBuffer
  <1>21. ASSUME NEW t \in Threads, FreeBuffer(t)
        PROVE  TouchInv'
    BY <1>21 DEF FreeBuffer
  <1>22. ASSUME NEW t \in Threads, WorkerEnds(t)
        PROVE  TouchInv'
    BY <1>22 DEF WorkerEnds
  <1>23. ASSUME NEW t \in Threads, BeginCleanUp(t)
        PROVE  TouchInv'
    BY <1>23 DEF BeginCleanUp
  <1>24. ASSUME NEW t \in Threads, FreeObject(t)
        PROVE  TouchInv'
    BY <1>24 DEF FreeObject
  <1>25. ASSUME NEW t \in Threads, DestroyComponent(t)
        PROVE  TouchInv'
    BY <1>25 DEF DestroyComponent
  <1>26. ASSUME NEW t \in Threads, StopPublic(t)
        PROVE  TouchInv'
    BY <1>26 DEF StopPublic, At
  <1>27. ASSUME NEW t \in Threads, StopPrivate(t)
        PROVE  TouchInv'
    BY <1>27 DEF StopPrivate
  <1>28. ASSUME NEW t \in Threads, JoinPrivate(t)
        PROVE  TouchInv'
    BY <1>28 DEF JoinPrivate
  <1>29. ASSUME NEW t \in Threads, CloseQueue(t)
        PROVE  TouchInv'
    BY <1>29 DEF CloseQueue, At
  <1>30. ASSUME NEW t \in Threads, DrainQueue(t)
        PROVE  TouchInv'
    BY <1>30 DEF DrainQueue
  <1>31. ASSUME NEW t \in Threads, JoinWorkers(t)
        PROVE  TouchInv'
    BY <1>31 DEF JoinWorkers
  <1>32. CASE UNCHANGED lifeVars
    BY <1>32 DEF lifeVars
  <1>33. ASSUME NEW t \in Threads, UseMemory(t)
        PROVE  TouchInv'
    <2>1. /\ pc[t] = "use" /\ pc' = [pc EXCEPT ![t] = "free"] /\ t \in Workers
          /\ Touches(t) /\ UNCHANGED freed
      BY <1>33, WorkersOnly DEF UseMemory
    <2> QED
      BY <2>1, FreeingTouch
  <1>34. ASSUME NEW t \in Threads, FreeArgument(t)
        PROVE  TouchInv'
    <2>1. mtx = NoThread /\ pc[t] = "free" /\ UNCHANGED <<touched, freed>>
      BY <1>34 DEF FreeArgument, Freed
    <2>2. ~Over
      BY <2>1 DEF Over
    <2>3. freed = {} /\ touched = {}
      BY <2>1, <2>2 DEF CleanInv, LifeTypes
    <2> QED
      BY <2>1, <2>3 DEF TouchInv
  <1>35. ASSUME NEW t \in Threads, EndCleanUp(t)
        PROVE  TouchInv'
    <2>1. pc[t] = "walk" /\ list = << >> /\ UNCHANGED <<touched, freed>>
      BY <1>35 DEF EndCleanUp, memory
    <2> SUFFICES ASSUME touched \cap Workers # {}
                 PROVE  FALSE
      BY <2>1 DEF TouchInv
    <2>2. PICK w \in Workers : pc[w] = "free"
      BY <2>1 DEF TouchInv
    <2>3. step > 9
      BY <2>2 DEF QuietInv, LifeTypes
    <2>4. "queue" \notin destroyed
      BY <2>2 DEF JoinInv, Active
    <2>5. "queue" \in Listed
      BY <2>3, <2>4, ComponentsKnown DEF StackInv
    <2> QED
      BY <2>1, <2>5 DEF Listed
  <1>36. ASSUME NEW t \in Threads, Makes(t)
        PROVE  TouchInv'
    <2>1. /\ t \notin Workers /\ pc' = [pc EXCEPT ![t] = "enqueue"] /\ pc[t] = "make"
          /\ Touches(t) /\ UNCHANGED freed
      BY <1>36 DEF Makes, SetUpInv
    <2>2. touched' \cap Workers = touched \cap Workers
      BY <2>1 DEF Touches
    <2>3. touched' # {} => freed' # {}
      BY <2>1 DEF Touches, TouchInv
    <2>4. ~Ended' /\ \A w \in Workers : pc[w] = "free" => pc'[w] = "free"
      BY <2>1 DEF Ended
    <2>5. ~Dead
      BY <2>1 DEF Dead
    <2> QED
      BY <2>2, <2>3, <2>4, <2>5 DEF TouchInv
  <1>37. ASSUME NEW t \in Threads, EnqueueLog(t)
        PROVE  TouchInv'
    <2>1. pc[t] = "logging" /\ Touches(t) /\ UNCHANGED <<arg, buf, freed>>
      BY <1>37 DEF EnqueueLog
    <2>2. CASE t \in Workers
      <3>1. pc' = [pc EXCEPT ![t] = "free"]
        BY <1>37, <2>2 DEF EnqueueLog
      <3> QED
        BY <2>1, <2>2, <3>1, FreeingTouch
    <2>3. CASE t \notin Workers
      <3>1. pc' = [pc EXCEPT ![t] = "service"]
        BY <1>37, <2>3 DEF EnqueueLog
      <3>2. touched' \cap Workers = touched \cap Workers
        BY <2>1, <2>3 DEF Touches
      <3>3. touched' # {} => freed' # {}
        BY <2>1 DEF Touches, TouchInv
      <3>4. ~Ended' /\ \A w \in Workers : pc[w] = "free" => pc'[w] = "free"
        BY <2>1, <3>1 DEF Ended
      <3>5. ~Dead
        BY <2>1 DEF Dead
      <3> QED
        BY <3>2, <3>3, <3>4, <3>5 DEF TouchInv
    <2> QED
      BY <2>2, <2>3
  <1>38. ASSUME NEW t \in Threads, LogsAndExits(t)
        PROVE  TouchInv'
    BY <1>38 DEF LogsAndExits
  <1>39. ASSUME NEW t \in Threads, RotateTxnFails(t)
        PROVE  TouchInv'
    BY <1>39 DEF RotateTxnFails, Saves
  <1>40. CASE Dies
    BY <1>40 DEF Dies
  <1> QED
    BY <1>1, <1>2, <1>3, <1>4, <1>5, <1>6, <1>7, <1>8, <1>9, <1>10, <1>11, <1>12, <1>13, <1>14,
       <1>15, <1>16, <1>17, <1>18, <1>19, <1>20, <1>21, <1>22, <1>23, <1>24, <1>25, <1>26,
       <1>27, <1>28, <1>29, <1>30, <1>31, <1>32, <1>33, <1>34, <1>35,
       <1>36, <1>37, <1>38, <1>39, <1>40
       DEF LifeNext, SetUp, Happens, Goes, Enqueues, clean_up

-----------------------------------------------------------------------------
LEMMA LifeIInvInit == LifeInit => LifeIInv
  <1> SUFFICES ASSUME LifeInit
               PROVE  LifeIInv
    OBVIOUS
  <1> USE LifecycleAssumption, ComponentsKnown DEF LifeInit, Threads
  <1>1. LifeTypes
    <2>1. step \in 1..(Len(Components) + 1)
      OBVIOUS
    <2>2. /\ list \in Seq(Objects \cup ComponentNames)
          /\ queue \in Seq(Objects \cup {LogTask}) /\ Len(queue) <= MAX_QUEUE_SIZE
      OBVIOUS
    <2>3. /\ pc \in [Threads -> LifePCs] /\ running \in [{Public, Private} -> BOOLEAN]
          /\ arg \in [Threads -> Objects \cup {NoObject}]
          /\ buf \in [Threads -> Objects \cup {NoObject}]
      BY DEF LifePCs
    <2> QED
      BY <2>1, <2>2, <2>3 DEF LifeTypes
  <1>2. PointersInv
    BY DEF PointersInv
  <1>3. SetUpInv
    BY DEF SetUpInv, Serving
  <1>4. QuietInv
    BY DEF QuietInv
  <1>5. StackInv
    BY DEF StackInv, Listed
  <1>6. CleanInv
    BY DEF CleanInv, Cleaning, Over, Gone
  <1>7. JoinInv
    BY DEF JoinInv, Active, Serving
  <1>8. TouchInv
    BY DEF TouchInv
  <1> QED
    BY <1>1, <1>2, <1>3, <1>4, <1>5, <1>6, <1>7, <1>8 DEF LifeIInv

LEMMA LifeIInvNext == LifeIInv /\ [LifeNext]_lifeVars => LifeIInv'
  <1> SUFFICES ASSUME LifeIInv, [LifeNext]_lifeVars
               PROVE  LifeIInv'
    OBVIOUS
  <1>1. /\ LifeTypes /\ PointersInv /\ SetUpInv /\ QuietInv
        /\ StackInv /\ CleanInv /\ JoinInv /\ TouchInv
    BY DEF LifeIInv
  <1>2. LifeTypes'
    BY <1>1, TypesNext
  <1>3. PointersInv' /\ SetUpInv' /\ QuietInv'
    BY <1>1, PointersNext, SetUpNext, QuietNext
  <1>4. StackInv' /\ CleanInv' /\ JoinInv' /\ TouchInv'
    BY <1>1, <1>2, StackNext, CleanNext, JoinNext, TouchNext
  <1> QED
    BY <1>2, <1>3, <1>4 DEF LifeIInv

(* The stack of components, the one thread that cleans up and the order in *)
(* which threads are joined are kept by every step of every thread.        *)
THEOREM LifeIInvariant == LifeSpec => []LifeIInv
  BY LifeIInvInit, LifeIInvNext, PTL DEF LifeSpec

LEMMA TypesHold == LifeIInv => LifeTypeOK
  <1> SUFFICES ASSUME LifeIInv
               PROVE  LifeTypeOK
    OBVIOUS
  <1>1. LifeTypes /\ PointersInv
    BY DEF LifeIInv
  <1>2. Listed \subseteq Objects \cup ComponentNames
    BY <1>1 DEF Listed, LifeTypes
  <1>3. \A k \in DOMAIN queue : queue[k] \in Objects \cup {LogTask}
    BY <1>1 DEF LifeTypes
  <1> QED
    BY <1>1, <1>2, <1>3 DEF LifeTypes, PointersInv, LifeTypeOK

(* Every variable has its type, and a thread has a pointer to an object    *)
(* exactly where the code has one that is not NULL: FREE leaves none.      *)
THEOREM LifeTypeCorrect == LifeSpec => []LifeTypeOK
  BY LifeIInvariant, TypesHold, PTL

(* A worker that runs was started after everything it uses and its queue   *)
(* has not been destroyed: nothing below it in the stack has been.         *)
LEMMA OutlivedHolds == LifeIInv => ThreadsOutlived
  <1>0. LifeIInv /\ Active(Main) => mtx # Main
    BY DEF LifeIInv, CleanInv, Cleaning, Active, Threads
  <1> SUFFICES ASSUME LifeIInv, NEW t \in Threads \ {Main}, Active(t),
                      t \in {Public, Private} => AllUp, NEW c \in Needs(t), c \in destroyed
               PROVE  FALSE
    BY <1>0 DEF ThreadsOutlived
  <1>1. /\ LifeTypes /\ SetUpInv /\ QuietInv /\ StackInv /\ CleanInv /\ JoinInv
        /\ step \in 1..12
    BY ComponentsKnown DEF LifeIInv, LifeTypes
  <1>2. t \in Workers \/ t \in Serving
    BY DEF Threads, Serving
  <1>3. PICK n \in 1..9 : c = Components[n]
    <2>1. Needs(t) \subseteq {"sym", "json", "queue", "log", "order", "account", "txn", "curl"}
      BY <1>2, LifecycleAssumption DEF Needs, Serving
    <2>2. /\ "sym" = Components[6] /\ "json" = Components[4] /\ "queue" = Components[9]
          /\ "log" = Components[1] /\ "order" = Components[5] /\ "account" = Components[7]
          /\ "txn" = Components[3] /\ "curl" = Components[8]
      BY DEF Components
    <2> QED
      BY <2>1, <2>2
  <1>4. ~Over
    BY DEF Over, Gone, Active
  <1>5. CASE t \in Serving
    <2>1. step = 12
      BY <1>1, <1>5, ComponentsKnown DEF AllUp, Serving
    <2>2. "websocket" \in destroyed
      BY <1>1, <1>3, <2>1, ComponentsKnown DEF StackInv
    <2> QED
      BY <1>1, <1>5, <2>2 DEF JoinInv
  <1>6. CASE t \in Workers
    <2>1. "queue" \notin destroyed
      BY <1>1, <1>6 DEF JoinInv
    <2>2. n # 9
      BY <1>3, <2>1, ComponentsKnown
    <2>3. step > 9 \/ (step = 9 /\ pc[Main] = "track")
      BY <1>1, <1>6 DEF SetUpInv, Active, Gone
    <2>4. CASE step > 9
      <3>1. Components[9] \in destroyed
        BY <1>1, <1>3, <2>2, <2>4, ComponentsKnown DEF StackInv
      <3> QED
        BY <2>1, <3>1, ComponentsKnown
    <2>5. CASE step = 9 /\ pc[Main] = "track"
      <3>1. mtx # NoThread /\ mtx \in Threads
        BY <1>1, <1>4 DEF CleanInv, LifeTypes
      <3>2. pc[mtx] \in Cleaning
        BY <1>1, <3>1 DEF CleanInv
      <3>3. mtx # Main
        BY <2>5, <3>2 DEF Cleaning
      <3>4. mtx \notin Serving
        BY <1>1, <2>5, <3>2 DEF SetUpInv, Serving, Cleaning, Gone
      <3>5. mtx \in Workers
        BY <3>1, <3>3, <3>4 DEF Threads, Serving
      <3>6. pc[mtx] \in {"unborn", "idle", "done"} \cup Gone
        BY <1>1, <2>5, <3>5 DEF QuietInv
      <3> QED
        BY <3>2, <3>6 DEF Cleaning, Gone
    <2> QED
      BY <2>3, <2>4, <2>5
  <1> QED
    BY <1>2, <1>5, <1>6

(* clean_up, run by whichever thread and after whatever part of set_up,    *)
(* destroys no component while a worker runs that uses it, nor, once       *)
(* set_up is over, while a websocket thread does.                          *)
THEOREM NothingPulledAway == LifeSpec => []ThreadsOutlived
  BY LifeIInvariant, OutlivedHolds, PTL

(* A clean_up that comes to its end has freed no object that a task used   *)
(* afterwards: that task waits in FREE for g_resources_mtx, which clean_up *)
(* holds while it waits to join the task's worker.                         *)
THEOREM EndsUntouched == LifeSpec => []EndedUntouched
  <1>1. LifeIInv => EndedUntouched
    BY DEF LifeIInv, TouchInv, EndedUntouched
  <1> QED
    BY <1>1, LifeIInvariant, PTL
=============================================================================
