------------------------- MODULE ThreadQueueProofs -------------------------
(* Proofs about the thread pool of thread_queue.c, for every size of the   *)
(* ring and every set of workers, clients and tasks.                       *)
EXTENDS ThreadQueue, TLAPS, FiniteSetTheorems, SequenceTheorems

-----------------------------------------------------------------------------
(* The arithmetic of the ring: slots follow each other around it, and the  *)
(* MaxQueueSize slots after any slot are different.                        *)
LEMMA ModOnce ==
  ASSUME NEW x \in 0..(2 * MaxQueueSize - 1)
  PROVE  x % MaxQueueSize = IF x < MaxQueueSize THEN x ELSE x - MaxQueueSize
  BY QueueAssumption

LEMMA SlotAfterFacts ==
  ASSUME NEW f \in Slots
  PROVE  /\ SlotAfter(f, 0) = f
         /\ \A i \in 0..MaxQueueSize : SlotAfter(f, i) \in Slots
         /\ \A i \in 0..(MaxQueueSize - 1) :
              /\ Succ(SlotAfter(f, i)) = SlotAfter(f, i + 1)
              /\ SlotAfter(Succ(f), i) = SlotAfter(f, i + 1)
         /\ \A i, j \in 0..(MaxQueueSize - 1) :
              SlotAfter(f, i) = SlotAfter(f, j) => i = j
  <1>1. MaxQueueSize \in Nat \ {0}
    BY QueueAssumption
  <1>2. \A i \in 0..MaxQueueSize :
          SlotAfter(f, i) = IF f + i < MaxQueueSize THEN f + i ELSE f + i - MaxQueueSize
    <2>1. \A i \in 0..MaxQueueSize : f + i \in 0..(2 * MaxQueueSize - 1)
      BY <1>1 DEF Slots
    <2>2. ASSUME NEW i \in 0..MaxQueueSize
          PROVE  SlotAfter(f, i) = IF f + i < MaxQueueSize THEN f + i
                                                      ELSE f + i - MaxQueueSize
      <3> DEFINE x == f + i
      <3>1. x \in 0..(2 * MaxQueueSize - 1)
        BY <2>1
      <3> HIDE DEF x
      <3>2. x % MaxQueueSize = IF x < MaxQueueSize THEN x ELSE x - MaxQueueSize
        BY <3>1, ModOnce
      <3>3. QED
        BY <3>1, <3>2, <1>1 DEF x, SlotAfter, Slots
    <2>3. QED
      BY <2>2
  <1>3. \A s \in Slots : Succ(s) = IF s + 1 < MaxQueueSize THEN s + 1 ELSE 0
    <2>1. \A s \in Slots : s + 1 \in 0..(2 * MaxQueueSize - 1) /\ s + 1 <= MaxQueueSize
      BY <1>1 DEF Slots
    <2>2. ASSUME NEW s \in Slots
          PROVE  Succ(s) = IF s + 1 < MaxQueueSize THEN s + 1
                                               ELSE s + 1 - MaxQueueSize
      <3> DEFINE x == s + 1
      <3>1. x \in 0..(2 * MaxQueueSize - 1)
        BY <2>1
      <3> HIDE DEF x
      <3>2. x % MaxQueueSize = IF x < MaxQueueSize THEN x ELSE x - MaxQueueSize
        BY <3>1, ModOnce
      <3>3. QED
        BY <3>1, <3>2, <1>1 DEF x, Succ, Slots
    <2>3. QED
      BY <1>1, <2>1, <2>2 DEF Slots
  <1>4. \A i \in 0..MaxQueueSize : SlotAfter(f, i) \in Slots
    BY <1>1, <1>2 DEF Slots
  <1>5. ASSUME NEW i \in 0..(MaxQueueSize - 1)
        PROVE  /\ Succ(SlotAfter(f, i)) = SlotAfter(f, i + 1)
               /\ SlotAfter(Succ(f), i) = SlotAfter(f, i + 1)
    <2>1. i \in 0..MaxQueueSize /\ i + 1 \in 0..MaxQueueSize
      BY <1>1
    <2>2. Succ(SlotAfter(f, i)) = SlotAfter(f, i + 1)
      BY <1>1, <1>2, <1>3, <1>4, <2>1 DEF Slots
    <2>3. Succ(f) + i \in 0..(2 * MaxQueueSize - 1) /\ Succ(f) \in Slots
      BY <1>1, <1>3 DEF Slots
    <2>4. SlotAfter(Succ(f), i) = IF Succ(f) + i < MaxQueueSize THEN Succ(f) + i
                                                 ELSE Succ(f) + i - MaxQueueSize
      <3> DEFINE x == Succ(f) + i
      <3>1. x \in 0..(2 * MaxQueueSize - 1)
        BY <2>3
      <3> HIDE DEF x
      <3>2. x % MaxQueueSize = IF x < MaxQueueSize THEN x ELSE x - MaxQueueSize
        BY <3>1, ModOnce
      <3>3. QED
        BY <3>1, <3>2, <1>1, <2>3 DEF x, SlotAfter, Slots
    <2>5. SlotAfter(Succ(f), i) = SlotAfter(f, i + 1)
      BY <1>1, <1>2, <1>3, <2>1, <2>4 DEF Slots
    <2>6. QED
      BY <2>2, <2>5
  <1>6. SlotAfter(f, 0) = f
    BY <1>1, <1>2 DEF Slots
  <1>7. \A i, j \in 0..(MaxQueueSize - 1) : SlotAfter(f, i) = SlotAfter(f, j) => i = j
    BY <1>1, <1>2 DEF Slots
  <1>8. QED
    BY <1>4, <1>5, <1>6, <1>7

-----------------------------------------------------------------------------
(* The threads are finitely many, so the threads at a place can be counted. *)
LEMMA PlacesFinite ==
  /\ IsFiniteSet(Threads)
  /\ \A S \in SUBSET Threads : IsFiniteSet(S) /\ Cardinality(S) \in Nat
  <1>1. IsFiniteSet(Producers)
    BY QueueAssumption, FS_AddElement DEF Producers
  <1>2. IsFiniteSet(Threads)
    BY <1>1, QueueAssumption, FS_Union DEF Threads
  <1>3. QED
    BY <1>2, FS_Subset, FS_CardinalityType

(* Workers, clients and the main thread are different threads.             *)
LEMMA ThreadKinds ==
  /\ Main \in Threads /\ Main \in Producers
  /\ Workers \subseteq Threads /\ Clients \subseteq Threads
  /\ Producers \subseteq Threads
  /\ \A t \in Threads : t \in Workers \/ t \in Clients \/ t = Main
  /\ Main \notin Workers /\ Main \notin Clients
  /\ \A w \in Workers : w \notin Clients /\ w \notin Producers
  BY QueueAssumption DEF Threads, Producers

(* The oldest task and its slot, of a ring that is not empty.              *)
LEMMA FrontTask ==
  ASSUME TypeOK, RingHoldsAccepted, count # 0
  PROVE  queue[front] \in accepted /\ queue[front] \in Tasks
  <1>1. front \in Slots /\ 0 \in 0..(count - 1) /\ Slot(0) = front
    BY SlotAfterFacts, QueueAssumption DEF TypeOK, Slot
  <1>2. QED
    BY <1>1 DEF TypeOK, RingHoldsAccepted

-----------------------------------------------------------------------------
(* The ring.  Only three actions touch it.                                 *)
LEMMA RingSteps ==
  ASSUME [Next]_vars
  PROVE  \/ \E t \in Threads : EnqueueAccepted(t)
         \/ \E w \in Workers : DequeueTakes(w)
         \/ DrainTakes
         \/ UNCHANGED <<ring, accepted>>
  BY ThreadKinds
     DEF Next, Worker, Enqueue, EnqueueWaits, EnqueueRefused, Dequeue,
         DequeueWaits, DequeueEnds, TaskLogs, TaskReturns, Submit, ClientEnds,
         SpuriousWakeup, Destroy, DestroyBegins, DrainTests,
         DrainFindsNothing, DestroyFrees, Terminated, vars, ring

(* Writing a task into the slot at rear leaves the pending ones alone.     *)
LEMMA PutSlots ==
  ASSUME TypeOK, RingHoldsAccepted, count # MaxQueueSize, NEW k \in Tasks,
         queue' = [queue EXCEPT ![rear] = k], front' = front
  PROVE  /\ \A i \in 0..MaxQueueSize : Slot(i) \in Slots /\ Slot(i)' = Slot(i)
         /\ rear = Slot(count)
         /\ \A i \in 0..(count - 1) : queue'[Slot(i)] = queue[Slot(i)]
         /\ queue'[Slot(count)] = k
  <1>1. /\ MaxQueueSize \in Nat \ {0} /\ front \in Slots
        /\ count \in 0..(MaxQueueSize - 1)
        /\ queue \in [Slots -> Tasks \cup {NoTask}]
    BY QueueAssumption DEF TypeOK
  <1>2. \A i \in 0..MaxQueueSize : Slot(i) \in Slots /\ Slot(i)' = Slot(i)
    BY <1>1, SlotAfterFacts DEF Slot
  <1>3. rear = Slot(count)
    BY DEF RingHoldsAccepted
  <1>4. \A i \in 0..(count - 1) : Slot(i) # rear
    <2>1. \A i \in 0..(count - 1) : i \in 0..(MaxQueueSize - 1) /\ i # count
      BY <1>1
    <2>2. QED
      BY <1>1, <1>3, <2>1, SlotAfterFacts DEF Slot
  <1>5. \A i \in 0..(count - 1) : queue'[Slot(i)] = queue[Slot(i)]
    <2>1. \A i \in 0..(count - 1) : i \in 0..MaxQueueSize
      BY <1>1
    <2>2. QED
      BY <1>1, <1>2, <1>4, <2>1
  <1>6. queue'[Slot(count)] = k
    BY <1>1, <1>2, <1>3
  <1>7. QED
    BY <1>2, <1>3, <1>5, <1>6

(* Putting a task that is not pending behind the others keeps the ring.    *)
LEMMA PutKeepsRing ==
  ASSUME TypeOK, RingHoldsAccepted, count # MaxQueueSize,
         NEW k \in Tasks, k \notin accepted,
         queue' = [queue EXCEPT ![rear] = k], rear' = Succ(rear),
         front' = front, count' = count + 1, accepted' = accepted \cup {k}
  PROVE  RingHoldsAccepted' /\ count' \in 0..MaxQueueSize /\ rear' \in Slots
         /\ queue' \in [Slots -> Tasks \cup {NoTask}]
  <1>1. /\ MaxQueueSize \in Nat \ {0} /\ front \in Slots
        /\ count \in 0..(MaxQueueSize - 1)
        /\ queue \in [Slots -> Tasks \cup {NoTask}]
    BY QueueAssumption DEF TypeOK
  <1>2. /\ \A i \in 0..MaxQueueSize : Slot(i) \in Slots /\ Slot(i)' = Slot(i)
        /\ \A i \in 0..(count - 1) : queue'[Slot(i)] = queue[Slot(i)]
        /\ queue'[Slot(count)] = k
    BY PutSlots
  <1>3. rear = Slot(count) /\ rear' = Slot(count + 1)
    BY <1>1, SlotAfterFacts DEF Slot, RingHoldsAccepted
  <1>4. 0..(count' - 1) = 0..(count - 1) \cup {count}
    BY <1>1
  <1>5. \A i \in 0..(count' - 1) : Slot(i)' = Slot(i)
    BY <1>1, <1>2, <1>4
  <1>6. accepted' = {queue'[Slot(i)'] : i \in 0..(count' - 1)}
    <2>1. accepted = {queue[Slot(i)] : i \in 0..(count - 1)}
      BY DEF RingHoldsAccepted
    <2>2. {queue'[Slot(i)'] : i \in 0..(count' - 1)}
            = {queue[Slot(i)] : i \in 0..(count - 1)} \cup {k}
      BY <1>2, <1>4, <1>5
    <2>3. QED
      BY <2>1, <2>2
  <1>7. ASSUME NEW i \in 0..(count' - 1), NEW j \in 0..(count' - 1),
                queue'[Slot(i)'] = queue'[Slot(j)']
         PROVE  i = j
    <2>1. \A m \in 0..(count - 1) : queue[Slot(m)] \in accepted
      BY DEF RingHoldsAccepted
    <2>2. CASE i \in 0..(count - 1) /\ j \in 0..(count - 1)
      BY <1>2, <1>5, <1>7, <2>2 DEF RingHoldsAccepted
    <2>3. CASE i = count /\ j \in 0..(count - 1)
      BY <1>2, <1>5, <1>7, <2>1, <2>3
    <2>4. CASE i \in 0..(count - 1) /\ j = count
      BY <1>2, <1>5, <1>7, <2>1, <2>4
    <2>5. QED
      BY <1>4, <2>2, <2>3, <2>4
  <1>8. rear' = Slot(count)'
    BY <1>1, <1>3 DEF Slot
  <1>9. count' \in 0..MaxQueueSize /\ rear' \in Slots
    BY <1>1, <1>2, <1>3
  <1>10. queue' \in [Slots -> Tasks \cup {NoTask}]
    BY <1>1
  <1>11. QED
    BY <1>6, <1>7, <1>8, <1>9, <1>10 DEF RingHoldsAccepted

(* Taking the oldest task keeps the ring.                                  *)
LEMMA TakeKeepsRing ==
  ASSUME TypeOK, RingHoldsAccepted, count # 0,
         front' = Succ(front), count' = count - 1,
         UNCHANGED <<queue, rear>>, accepted' = accepted \ {queue[front]}
  PROVE  RingHoldsAccepted' /\ count' \in 0..MaxQueueSize /\ front' \in Slots
  <1>1. /\ MaxQueueSize \in Nat \ {0} /\ front \in Slots
        /\ count \in 1..MaxQueueSize
    BY QueueAssumption DEF TypeOK
  <1>2. Slot(0) = front
    BY <1>1, SlotAfterFacts DEF Slot
  <1>3. \A i \in 0..(MaxQueueSize - 1) : Slot(i)' = Slot(i + 1)
    BY <1>1, SlotAfterFacts DEF Slot
  <1>4. \A i \in 0..(count' - 1) : i + 1 \in 0..(count - 1) /\ i \in 0..(MaxQueueSize - 1)
                                   /\ i \in Int
    BY <1>1
  <1>5. \A m \in 0..(count - 1) : m = 0 \/ (m - 1 \in 0..(count' - 1) /\ (m - 1) + 1 = m)
    BY <1>1
  <1>6. accepted' = {queue'[Slot(i)'] : i \in 0..(count' - 1)}
    <2>1. ASSUME NEW k \in accepted'
          PROVE  \E i \in 0..(count' - 1) : k = queue'[Slot(i)']
      <3>1. PICK m \in 0..(count - 1) : k = queue[Slot(m)]
        BY <2>1 DEF RingHoldsAccepted
      <3>2. m # 0
        BY <1>2, <2>1, <3>1
      <3>3. m - 1 \in 0..(count' - 1) /\ (m - 1) + 1 = m
        BY <1>5, <3>2
      <3>4. queue'[Slot(m - 1)'] = k
        BY <1>3, <1>4, <3>1, <3>3
      <3>5. QED
        BY <3>3, <3>4
    <2>2. ASSUME NEW i \in 0..(count' - 1)
          PROVE  queue'[Slot(i)'] \in accepted'
      <3>1. queue'[Slot(i)'] = queue[Slot(i + 1)] /\ i + 1 \in 0..(count - 1)
            /\ i + 1 # 0 /\ 0 \in 0..(count - 1)
        BY <1>1, <1>3, <1>4
      <3>2. queue[Slot(i + 1)] \in accepted /\ queue[Slot(i + 1)] # queue[Slot(0)]
        BY <3>1 DEF RingHoldsAccepted
      <3>3. QED
        BY <1>2, <3>1, <3>2
    <2>3. QED
      BY <2>1, <2>2
  <1>7. ASSUME NEW i \in 0..(count' - 1), NEW j \in 0..(count' - 1),
               queue'[Slot(i)'] = queue'[Slot(j)']
        PROVE  i = j
    <2>1. queue[Slot(i + 1)] = queue[Slot(j + 1)]
      BY <1>3, <1>4, <1>7
    <2>2. i + 1 = j + 1
      BY <1>4, <2>1 DEF RingHoldsAccepted
    <2>3. QED
      BY <1>4, <2>2
  <1>8. rear' = Slot(count)'
    <2>1. count' \in 0..(MaxQueueSize - 1) /\ count' + 1 = count
      BY <1>1
    <2>2. SlotAfter(front', count') = SlotAfter(front, count' + 1)
      BY <1>1, <2>1, SlotAfterFacts
    <2>3. QED
      BY <2>1, <2>2 DEF Slot, RingHoldsAccepted
  <1>9. count' \in 0..MaxQueueSize /\ front' \in Slots
    <2>1. 0 \in 0..(MaxQueueSize - 1) /\ 0 + 1 \in 0..MaxQueueSize
      BY <1>1
    <2>2. front' = SlotAfter(front, 0 + 1)
      BY <1>1, <2>1, SlotAfterFacts
    <2>3. QED
      BY <1>1, <2>1, <2>2, SlotAfterFacts
  <1>10. QED
    BY <1>6, <1>7, <1>8, <1>9 DEF RingHoldsAccepted

-----------------------------------------------------------------------------
(* What a signal does to the threads: the caller goes on, and at most one  *)
(* sleeper goes back to test its condition.                                *)
LEMMA SignalEffect ==
  ASSUME TypeOK, NEW t \in Threads, NEW next \in PCs,
         SignalNotEmpty(t, next) \/ SignalNotFull(t, next),
         pc[t] # "wait_not_empty", pc[t] # "wait_not_full"
  PROVE  /\ pc' \in [Threads -> PCs]
         /\ pc'[t] = next
         /\ \A u \in Threads \ {t} :
              \/ pc'[u] = pc[u]
              \/ pc[u] = "wait_not_empty" /\ pc'[u] = "dequeue"
              \/ pc[u] = "wait_not_full" /\ pc'[u] = "enqueue"
  BY DEF SignalNotEmpty, SignalNotFull, At, TypeOK, PCs

(* The task a thread brings to enqueue_task is nobody else's.              *)
LEMMA ArgFact ==
  ASSUME QueueInv, NEW t \in Threads, pc[t] = "enqueue"
  PROVE  /\ arg[t] \in Tasks
         /\ arg[t] \notin accepted \cup lost
         /\ \A w \in Workers : cur[w] # arg[t]
         /\ \A u \in Threads : arg[u] = arg[t] => u = t
  BY DEF QueueInv, TypeOK, ThreadShape, OneOwner, Held

(* The oldest task is nobody's.                                            *)
LEMMA FrontFact ==
  ASSUME QueueInv, count # 0
  PROVE  /\ queue[front] \in Tasks /\ queue[front] # NoTask
         /\ queue[front] \in accepted /\ queue[front] \notin lost
         /\ \A w \in Workers : cur[w] # queue[front]
         /\ \A t \in Threads : arg[t] # queue[front]
  BY FrontTask, QueueAssumption DEF QueueInv, OneOwner, Held

-----------------------------------------------------------------------------
(* The initial states satisfy the invariant.                               *)
LEMMA QueueInvInit == Init => QueueInv
  <1> SUFFICES ASSUME Init
               PROVE  QueueInv
    OBVIOUS
  <1>1. MaxQueueSize \in Nat \ {0} /\ MaxLogs \in Nat /\ 0 \in Slots
        /\ 0 \in 0..MaxQueueSize /\ 0 \in 0..MaxLogs
    BY QueueAssumption DEF Slots
  <1>2. TypeOK
    BY <1>1 DEF Init, TypeOK, PCs
  <1>3. ThreadShape
    BY ThreadKinds DEF Init, ThreadShape
  <1>4. At("wait_not_empty") = {} /\ At("wait_not_full") = {}
    BY DEF Init, At
  <1>5. ShutdownShape
    BY <1>4, ThreadKinds DEF Init, ShutdownShape
  <1>6. RingHoldsAccepted
    <2>1. Slot(0) = 0
      BY <1>1, SlotAfterFacts DEF Init, Slot
    <2>2. 0..(count - 1) = {}
      BY DEF Init
    <2>3. QED
      BY <2>1, <2>2 DEF Init, RingHoldsAccepted
  <1>7. OneOwner
    BY QueueAssumption DEF Init, OneOwner
  <1>8. NoLostWakeup
    BY <1>4 DEF NoLostWakeup
  <1>9. QED
    BY <1>2, <1>3, <1>5, <1>6, <1>7, <1>8 DEF QueueInv

(* Every step keeps the types.                                             *)
LEMMA TypeNext == QueueInv /\ [Next]_vars => TypeOK'
  <1> SUFFICES ASSUME QueueInv, [Next]_vars
               PROVE  TypeOK'
    OBVIOUS
  <1> USE DEF ring
  <1>0. TypeOK
    BY DEF QueueInv
  <1>1. ASSUME NEW t \in Threads, EnqueueWaits(t)
        PROVE  TypeOK'
    BY <1>0, <1>1 DEF EnqueueWaits, TypeOK, PCs
  <1>2. ASSUME NEW t \in Threads, EnqueueRefused(t)
        PROVE  TypeOK'
    <2>1. arg[t] \in Tasks
      BY <1>2, ArgFact DEF EnqueueRefused
    <2>2. QED
      BY <1>0, <1>2, <2>1 DEF EnqueueRefused, TypeOK, PCs
  <1>3. ASSUME NEW t \in Threads, EnqueueAccepted(t)
        PROVE  TypeOK'
    <2>1. arg[t] \in Tasks /\ arg[t] \notin accepted
      BY <1>3, ArgFact DEF EnqueueAccepted
    <2>2. count' \in 0..MaxQueueSize /\ rear' \in Slots
          /\ queue' \in [Slots -> Tasks \cup {NoTask}]
      BY <1>0, <1>3, <2>1, PutKeepsRing DEF EnqueueAccepted, QueueInv
    <2>3. pc' \in [Threads -> PCs]
      BY <1>0, <1>3, SignalEffect DEF EnqueueAccepted, PCs
    <2>4. QED
      BY <1>0, <1>3, <2>1, <2>2, <2>3 DEF EnqueueAccepted, TypeOK
  <1>4. ASSUME NEW w \in Workers, DequeueWaits(w) \/ DequeueEnds(w)
        PROVE  TypeOK'
    BY <1>0, <1>4 DEF DequeueWaits, DequeueEnds, TypeOK, PCs
  <1>5. ASSUME NEW w \in Workers, DequeueTakes(w)
        PROVE  TypeOK'
    <2>1. count' \in 0..MaxQueueSize /\ front' \in Slots /\ queue[front] \in Tasks
      BY <1>0, <1>5, TakeKeepsRing, FrontFact DEF DequeueTakes, QueueInv
    <2>2. pc' \in [Threads -> PCs]
      BY <1>0, <1>5, SignalEffect, ThreadKinds DEF DequeueTakes, PCs
    <2>3. QED
      BY <1>0, <1>5, <2>1, <2>2 DEF DequeueTakes, TypeOK
  <1>6. ASSUME NEW w \in Workers, TaskLogs(w)
        PROVE  TypeOK'
    <2>1. logs[w] + 1 \in 0..MaxLogs
      BY <1>0, <1>6, QueueAssumption DEF TaskLogs, TypeOK
    <2>2. QED
      BY <1>0, <1>6, <2>1, ThreadKinds DEF TaskLogs, TypeOK, PCs, Fresh
  <1>7. ASSUME NEW w \in Workers, TaskReturns(w)
        PROVE  TypeOK'
    <2>1. 0 \in 0..MaxLogs
      BY QueueAssumption
    <2>2. QED
      BY <1>0, <1>7, <2>1 DEF TaskReturns, TypeOK, PCs
  <1>8. ASSUME NEW p \in Producers, Submit(p)
        PROVE  TypeOK'
    BY <1>0, <1>8, ThreadKinds DEF Submit, TypeOK, PCs, Fresh
  <1>9. ASSUME NEW c \in Clients, ClientEnds(c)
        PROVE  TypeOK'
    BY <1>0, <1>9 DEF ClientEnds, TypeOK, PCs
  <1>10. ASSUME NEW t \in Threads, SpuriousWakeup(t)
         PROVE  TypeOK'
    BY <1>0, <1>10 DEF SpuriousWakeup, TypeOK, PCs
  <1>11. ASSUME DestroyBegins
         PROVE  TypeOK'
    <2>1. pc' \in [Threads -> PCs]
      BY <1>0, <1>11 DEF DestroyBegins, TypeOK, PCs
    <2>2. QED
      BY <1>0, <1>11, <2>1 DEF DestroyBegins, TypeOK
  <1>12. ASSUME DrainTests \/ DrainFindsNothing \/ DestroyFrees
         PROVE  TypeOK'
    BY <1>0, <1>12 DEF DrainTests, DrainFindsNothing, DestroyFrees, TypeOK, PCs
  <1>13. ASSUME DrainTakes
         PROVE  TypeOK'
    <2>1. count' \in 0..MaxQueueSize /\ front' \in Slots /\ queue[front] \in Tasks
      BY <1>0, <1>13, TakeKeepsRing, FrontFact DEF DrainTakes, QueueInv
    <2>2. pc' \in [Threads -> PCs]
      BY <1>0, <1>13, SignalEffect, ThreadKinds DEF DrainTakes, PCs
    <2>3. QED
      BY <1>0, <1>13, <2>1, <2>2 DEF DrainTakes, TypeOK
  <1>14. CASE UNCHANGED vars
    BY <1>0, <1>14 DEF vars, TypeOK
  <1>15. QED
    BY <1>1, <1>2, <1>3, <1>4, <1>5, <1>6, <1>7, <1>8, <1>9, <1>10, <1>11,
       <1>12, <1>13, <1>14, ThreadKinds
       DEF Next, Worker, Enqueue, Dequeue, Destroy, Terminated

(* Every step keeps the ring.                                              *)
LEMMA RingNext == QueueInv /\ [Next]_vars => RingHoldsAccepted'
  <1> SUFFICES ASSUME QueueInv, [Next]_vars
               PROVE  RingHoldsAccepted'
    OBVIOUS
  <1>1. ASSUME NEW t \in Threads, EnqueueAccepted(t)
        PROVE  RingHoldsAccepted'
    <2>1. arg[t] \in Tasks /\ arg[t] \notin accepted
      BY <1>1, ArgFact DEF EnqueueAccepted
    <2>2. QED
      BY <1>1, <2>1, PutKeepsRing DEF EnqueueAccepted, QueueInv
  <1>2. ASSUME NEW w \in Workers, DequeueTakes(w)
        PROVE  RingHoldsAccepted'
    BY <1>2, TakeKeepsRing DEF DequeueTakes, QueueInv
  <1>3. ASSUME DrainTakes
        PROVE  RingHoldsAccepted'
    BY <1>3, TakeKeepsRing DEF DrainTakes, QueueInv
  <1>4. CASE UNCHANGED <<ring, accepted>>
    BY <1>4 DEF QueueInv, ring, RingHoldsAccepted, Slot
  <1>5. QED
    BY <1>1, <1>2, <1>3, <1>4, RingSteps

(* Every step keeps what the places of the code say of the threads.        *)
LEMMA ShapeNext == QueueInv /\ [Next]_vars => ThreadShape'
  <1> SUFFICES ASSUME QueueInv, [Next]_vars
               PROVE  ThreadShape'
    OBVIOUS
  <1> USE DEF ring
  <1>0. TypeOK /\ ThreadShape
    BY DEF QueueInv
  <1>1. ASSUME NEW t \in Threads, EnqueueWaits(t)
        PROVE  ThreadShape'
    BY <1>0, <1>1, ThreadKinds DEF EnqueueWaits, TypeOK, ThreadShape
  <1>2. ASSUME NEW t \in Threads, EnqueueRefused(t)
        PROVE  ThreadShape'
    BY <1>0, <1>2, ThreadKinds DEF EnqueueRefused, TypeOK, ThreadShape
  <1>3. ASSUME NEW t \in Threads, EnqueueAccepted(t)
        PROVE  ThreadShape'
    <2>1. /\ pc'[t] = "running"
          /\ \A u \in Threads \ {t} :
               \/ pc'[u] = pc[u]
               \/ pc[u] = "wait_not_empty" /\ pc'[u] = "dequeue"
               \/ pc[u] = "wait_not_full" /\ pc'[u] = "enqueue"
      BY <1>0, <1>3, SignalEffect DEF EnqueueAccepted, PCs
    <2>2. /\ pc[t] = "enqueue" /\ arg' = [arg EXCEPT ![t] = NoTask] /\ cur' = cur
      BY <1>3 DEF EnqueueAccepted
    <2>3. QED
      BY <1>0, <2>1, <2>2, ThreadKinds DEF TypeOK, ThreadShape
  <1>4. ASSUME NEW w \in Workers, DequeueWaits(w) \/ DequeueEnds(w)
        PROVE  ThreadShape'
    BY <1>0, <1>4, ThreadKinds DEF DequeueWaits, DequeueEnds, TypeOK, ThreadShape
  <1>5. ASSUME NEW w \in Workers, DequeueTakes(w)
        PROVE  ThreadShape'
    <2>1. /\ pc'[w] = "running"
          /\ \A u \in Threads \ {w} :
               \/ pc'[u] = pc[u]
               \/ pc[u] = "wait_not_empty" /\ pc'[u] = "dequeue"
               \/ pc[u] = "wait_not_full" /\ pc'[u] = "enqueue"
      BY <1>0, <1>5, SignalEffect, ThreadKinds DEF DequeueTakes, PCs
    <2>2. /\ pc[w] = "dequeue" /\ cur' = [cur EXCEPT ![w] = queue[front]]
          /\ arg' = arg /\ queue[front] # NoTask
      BY <1>5, FrontFact DEF DequeueTakes
    <2>3. QED
      BY <1>0, <2>1, <2>2, ThreadKinds DEF TypeOK, ThreadShape
  <1>6. ASSUME NEW w \in Workers, TaskLogs(w)
        PROVE  ThreadShape'
    BY <1>0, <1>6, ThreadKinds, QueueAssumption DEF TaskLogs, TypeOK, ThreadShape, Fresh
  <1>7. ASSUME NEW w \in Workers, TaskReturns(w)
        PROVE  ThreadShape'
    BY <1>0, <1>7, ThreadKinds DEF TaskReturns, TypeOK, ThreadShape
  <1>8. ASSUME NEW p \in Producers, Submit(p)
        PROVE  ThreadShape'
    BY <1>0, <1>8, ThreadKinds, QueueAssumption DEF Submit, TypeOK, ThreadShape, Fresh
  <1>9. ASSUME NEW c \in Clients, ClientEnds(c)
        PROVE  ThreadShape'
    BY <1>0, <1>9, ThreadKinds DEF ClientEnds, TypeOK, ThreadShape
  <1>10. ASSUME NEW t \in Threads, SpuriousWakeup(t)
         PROVE  ThreadShape'
    BY <1>0, <1>10, ThreadKinds DEF SpuriousWakeup, TypeOK, ThreadShape
  <1>11. ASSUME DestroyBegins
         PROVE  ThreadShape'
    BY <1>0, <1>11, ThreadKinds DEF DestroyBegins, TypeOK, ThreadShape
  <1>12. ASSUME DrainTests \/ DrainFindsNothing \/ DestroyFrees
         PROVE  ThreadShape'
    BY <1>0, <1>12, ThreadKinds
       DEF DrainTests, DrainFindsNothing, DestroyFrees, TypeOK, ThreadShape
  <1>13. ASSUME DrainTakes
         PROVE  ThreadShape'
    <2>1. /\ pc'[Main] = "drain"
          /\ \A u \in Threads \ {Main} :
               \/ pc'[u] = pc[u]
               \/ pc[u] = "wait_not_empty" /\ pc'[u] = "dequeue"
               \/ pc[u] = "wait_not_full" /\ pc'[u] = "enqueue"
      BY <1>0, <1>13, SignalEffect, ThreadKinds DEF DrainTakes, PCs
    <2>2. pc[Main] = "drain_dequeue" /\ cur' = cur /\ arg' = arg
      BY <1>13 DEF DrainTakes
    <2>3. QED
      BY <1>0, <2>1, <2>2, ThreadKinds DEF TypeOK, ThreadShape
  <1>14. CASE UNCHANGED vars
    BY <1>0, <1>14 DEF vars, ThreadShape
  <1>15. QED
    BY <1>1, <1>2, <1>3, <1>4, <1>5, <1>6, <1>7, <1>8, <1>9, <1>10, <1>11,
       <1>12, <1>13, <1>14, ThreadKinds
       DEF Next, Worker, Enqueue, Dequeue, Destroy, Terminated

(* Every step keeps the facts about the shutdown.                          *)
LEMMA ShutdownNext == QueueInv /\ [Next]_vars => ShutdownShape'
  <1> SUFFICES ASSUME QueueInv, [Next]_vars
               PROVE  ShutdownShape'
    OBVIOUS
  <1> USE DEF ring, At
  <1>0. TypeOK /\ ThreadShape /\ ShutdownShape
    BY DEF QueueInv
  <1>1. ASSUME NEW t \in Threads, EnqueueWaits(t)
        PROVE  ShutdownShape'
    BY <1>0, <1>1, ThreadKinds DEF EnqueueWaits, TypeOK, ShutdownShape
  <1>2. ASSUME NEW t \in Threads, EnqueueRefused(t)
        PROVE  ShutdownShape'
    BY <1>0, <1>2, ThreadKinds DEF EnqueueRefused, TypeOK, ShutdownShape
  <1>3. ASSUME NEW t \in Threads, EnqueueAccepted(t)
        PROVE  ShutdownShape'
    <2>1. /\ pc'[t] = "running"
          /\ \A u \in Threads \ {t} :
               \/ pc'[u] = pc[u]
               \/ pc[u] = "wait_not_empty" /\ pc'[u] = "dequeue"
               \/ pc[u] = "wait_not_full" /\ pc'[u] = "enqueue"
      BY <1>0, <1>3, SignalEffect DEF EnqueueAccepted, PCs
    <2>2. pc[t] = "enqueue" /\ ~shutdown /\ shutdown' = shutdown
      BY <1>3 DEF EnqueueAccepted
    <2>3. QED
      BY <1>0, <2>1, <2>2, ThreadKinds DEF TypeOK, ShutdownShape
  <1>4. ASSUME NEW w \in Workers, DequeueWaits(w) \/ DequeueEnds(w)
        PROVE  ShutdownShape'
    BY <1>0, <1>4, ThreadKinds DEF DequeueWaits, DequeueEnds, TypeOK, ShutdownShape
  <1>5. ASSUME NEW w \in Workers, DequeueTakes(w)
        PROVE  ShutdownShape'
    <2>1. /\ pc'[w] = "running"
          /\ \A u \in Threads \ {w} :
               \/ pc'[u] = pc[u]
               \/ pc[u] = "wait_not_empty" /\ pc'[u] = "dequeue"
               \/ pc[u] = "wait_not_full" /\ pc'[u] = "enqueue"
      BY <1>0, <1>5, SignalEffect, ThreadKinds DEF DequeueTakes, PCs
    <2>2. pc[w] = "dequeue" /\ count # 0 /\ shutdown' = shutdown
      BY <1>5 DEF DequeueTakes
    <2>3. QED
      BY <1>0, <2>1, <2>2, ThreadKinds DEF TypeOK, ShutdownShape
  <1>6. ASSUME NEW w \in Workers, TaskLogs(w) \/ TaskReturns(w)
        PROVE  ShutdownShape'
    BY <1>0, <1>6, ThreadKinds DEF TaskLogs, TaskReturns, TypeOK, ShutdownShape
  <1>8. ASSUME NEW p \in Producers, Submit(p)
        PROVE  ShutdownShape'
    BY <1>0, <1>8, ThreadKinds DEF Submit, TypeOK, ShutdownShape
  <1>9. ASSUME NEW c \in Clients, ClientEnds(c)
        PROVE  ShutdownShape'
    BY <1>0, <1>9, ThreadKinds DEF ClientEnds, TypeOK, ShutdownShape
  <1>10. ASSUME NEW t \in Threads, SpuriousWakeup(t)
         PROVE  ShutdownShape'
    BY <1>0, <1>10, ThreadKinds DEF SpuriousWakeup, TypeOK, ThreadShape, ShutdownShape
  <1>11. ASSUME DestroyBegins
         PROVE  ShutdownShape'
    BY <1>0, <1>11, ThreadKinds DEF DestroyBegins, TypeOK, ShutdownShape
  <1>12. ASSUME DrainTests \/ DrainFindsNothing \/ DestroyFrees
         PROVE  ShutdownShape'
    BY <1>0, <1>12, ThreadKinds
       DEF DrainTests, DrainFindsNothing, DestroyFrees, TypeOK, ShutdownShape
  <1>13. ASSUME DrainTakes
         PROVE  ShutdownShape'
    <2>1. /\ pc'[Main] = "drain"
          /\ \A u \in Threads \ {Main} :
               \/ pc'[u] = pc[u]
               \/ pc[u] = "wait_not_empty" /\ pc'[u] = "dequeue"
               \/ pc[u] = "wait_not_full" /\ pc'[u] = "enqueue"
      BY <1>0, <1>13, SignalEffect, ThreadKinds DEF DrainTakes, PCs
    <2>2. pc[Main] = "drain_dequeue" /\ count # 0 /\ shutdown' = shutdown
      BY <1>13 DEF DrainTakes
    <2>3. QED
      BY <1>0, <2>1, <2>2, ThreadKinds DEF TypeOK, ShutdownShape
  <1>14. CASE UNCHANGED vars
    BY <1>0, <1>14 DEF vars, ShutdownShape
  <1>15. QED
    BY <1>1, <1>2, <1>3, <1>4, <1>5, <1>6, <1>8, <1>9, <1>10, <1>11,
       <1>12, <1>13, <1>14, ThreadKinds
       DEF Next, Worker, Enqueue, Dequeue, Destroy, Terminated

(* Every step leaves each task with one owner.                             *)
LEMMA OwnerNext == QueueInv /\ [Next]_vars => OneOwner'
  <1> SUFFICES ASSUME QueueInv, [Next]_vars
               PROVE  OneOwner'
    OBVIOUS
  <1> USE DEF ring, Held
  <1>0. TypeOK /\ ThreadShape /\ OneOwner
    BY DEF QueueInv
  <1>1. ASSUME UNCHANGED <<cur, arg, accepted, lost>>
        PROVE  OneOwner'
    BY <1>0, <1>1 DEF OneOwner
  <1>2. ASSUME NEW t \in Threads, EnqueueRefused(t)
        PROVE  OneOwner'
    <2>1. /\ arg' = [arg EXCEPT ![t] = NoTask] /\ lost' = lost \cup {arg[t]}
          /\ UNCHANGED <<cur, accepted>> /\ pc[t] = "enqueue"
      BY <1>2 DEF EnqueueRefused
    <2>2. QED
      BY <1>0, <2>1, ArgFact, QueueAssumption DEF TypeOK, OneOwner
  <1>3. ASSUME NEW t \in Threads, EnqueueAccepted(t)
        PROVE  OneOwner'
    <2>1. /\ arg' = [arg EXCEPT ![t] = NoTask] /\ accepted' = accepted \cup {arg[t]}
          /\ UNCHANGED <<cur, lost>> /\ pc[t] = "enqueue"
      BY <1>3 DEF EnqueueAccepted
    <2>2. QED
      BY <1>0, <2>1, ArgFact, QueueAssumption DEF TypeOK, OneOwner
  <1>4. ASSUME NEW w \in Workers, DequeueTakes(w)
        PROVE  OneOwner'
    <2>1. /\ cur' = [cur EXCEPT ![w] = queue[front]]
          /\ accepted' = accepted \ {queue[front]}
          /\ UNCHANGED <<arg, lost>> /\ count # 0
      BY <1>4 DEF DequeueTakes
    <2>2. QED
      BY <1>0, <2>1, FrontFact DEF TypeOK, OneOwner
  <1>5. ASSUME DrainTakes
        PROVE  OneOwner'
    <2>1. /\ lost' = lost \cup {queue[front]}
          /\ accepted' = accepted \ {queue[front]}
          /\ UNCHANGED <<arg, cur>> /\ count # 0
      BY <1>5 DEF DrainTakes
    <2>2. QED
      BY <1>0, <2>1, FrontFact DEF TypeOK, OneOwner
  <1>6. ASSUME NEW t \in Threads, NEW k \in Fresh, arg' = [arg EXCEPT ![t] = k],
               UNCHANGED <<cur, accepted, lost>>
        PROVE  OneOwner'
    BY <1>0, <1>6 DEF TypeOK, OneOwner, Fresh
  <1>7. ASSUME NEW w \in Workers, TaskReturns(w)
        PROVE  OneOwner'
    <2>1. cur' = [cur EXCEPT ![w] = NoTask] /\ UNCHANGED <<arg, accepted, lost>>
      BY <1>7 DEF TaskReturns
    <2>2. QED
      BY <1>0, <2>1, QueueAssumption DEF TypeOK, OneOwner
  <1>8. ASSUME NEW w \in Workers, TaskLogs(w)
        PROVE  OneOwner'
    BY <1>6, <1>8, ThreadKinds DEF TaskLogs
  <1>9. ASSUME NEW p \in Producers, Submit(p)
        PROVE  OneOwner'
    BY <1>6, <1>9, ThreadKinds DEF Submit
  <1>10. QED
    BY <1>1, <1>2, <1>3, <1>4, <1>5, <1>7, <1>8, <1>9, ThreadKinds
       DEF Next, Worker, Enqueue, EnqueueWaits, Dequeue, DequeueWaits,
           DequeueEnds, ClientEnds, SpuriousWakeup, Destroy, DestroyBegins,
           DrainTests, DrainFindsNothing, DestroyFrees, Terminated, vars

-----------------------------------------------------------------------------
(* Wakeups.  Each half of NoLostWakeup speaks of one waiting place, the    *)
(* place its sleepers wake up to, and the number of turns open to them:    *)
(* tasks to take, or slots to fill.  It is kept when no sleeper is left,   *)
(* when the turns do not grow and nobody leaves, when a turn opens and one *)
(* more thread is on its way, and when a thread on its way uses a turn.    *)
LEMMA TurnsKept ==
  ASSUME NEW A \in SUBSET Threads, NEW B \in SUBSET Threads,
         NEW m \in Int, NEW n \in Int, m <= Cardinality(A),
         \/ A \subseteq B /\ n <= m
         \/ \E u \in B : u \notin A /\ A \cup {u} \subseteq B /\ n <= m + 1
         \/ \E t \in A : A \ {t} \subseteq B /\ n <= m - 1
  PROVE  n <= Cardinality(B)
  <1>1. /\ IsFiniteSet(A) /\ Cardinality(A) \in Nat
        /\ IsFiniteSet(B) /\ Cardinality(B) \in Nat
    BY PlacesFinite
  <1>2. \A C \in SUBSET B : Cardinality(C) <= Cardinality(B)
    BY <1>1, FS_Subset
  <1>3. CASE A \subseteq B /\ n <= m
    BY <1>1, <1>2, <1>3
  <1>4. ASSUME NEW u \in B, u \notin A, A \cup {u} \subseteq B, n <= m + 1
        PROVE  n <= Cardinality(B)
    <2>1. Cardinality(A \cup {u}) = Cardinality(A) + 1
      BY <1>1, <1>4, FS_AddElement
    <2>2. Cardinality(A \cup {u}) <= Cardinality(B)
      BY <1>2, <1>4
    <2>3. QED
      BY <1>1, <1>4, <2>1, <2>2
  <1>5. ASSUME NEW t \in A, A \ {t} \subseteq B, n <= m - 1
        PROVE  n <= Cardinality(B)
    <2>1. Cardinality(A \ {t}) = Cardinality(A) - 1
      BY <1>1, <1>5, FS_RemoveElement
    <2>2. Cardinality(A \ {t}) <= Cardinality(B)
      BY <1>2, <1>5
    <2>3. QED
      BY <1>1, <1>5, <2>1, <2>2
  <1>6. QED
    BY <1>3, <1>4, <1>5

(* While a worker waits for not_empty, as many threads are on their way to *)
(* dequeue as there are tasks.                                             *)
LEMMA NotEmptyNext ==
  ASSUME QueueInv, [Next]_vars, At("wait_not_empty")' # {}
  PROVE  count' <= Cardinality(At("dequeue")')
  <1> USE DEF ring
  <1>0. /\ TypeOK /\ ThreadShape /\ ShutdownShape /\ TypeOK' /\ ShutdownShape'
        /\ count \in Int /\ count' \in Int
    BY TypeNext, ShutdownNext, QueueAssumption DEF QueueInv, TypeOK
  <1>1. /\ ~shutdown' /\ ~shutdown
    <2>1. ~shutdown'
      BY <1>0 DEF ShutdownShape
    <2>2. shutdown => shutdown'
      BY DEF Next, Worker, Enqueue, EnqueueWaits, EnqueueRefused, EnqueueAccepted,
             Dequeue, DequeueWaits, DequeueEnds, DequeueTakes, TaskLogs,
             TaskReturns, Submit, ClientEnds, SpuriousWakeup, Destroy,
             DestroyBegins, DrainTests, DrainTakes, DrainFindsNothing,
             DestroyFrees, Terminated, vars
    <2>3. QED
      BY <2>1, <2>2
  <1>2. At("wait_not_empty") # {} => count <= Cardinality(At("dequeue"))
    BY DEF QueueInv, NoLostWakeup
  <1>3. At("dequeue") \in SUBSET Threads /\ At("dequeue")' \in SUBSET Threads
    BY DEF At
  <1>4. ASSUME count' = count, At("dequeue") \subseteq At("dequeue")',
               At("wait_not_empty")' \subseteq At("wait_not_empty")
        PROVE  count' <= Cardinality(At("dequeue")')
    BY <1>0, <1>2, <1>3, <1>4, TurnsKept
  <1>5. ASSUME NEW w \in Workers, DequeueWaits(w)
        PROVE  count' <= Cardinality(At("dequeue")')
    <2>1. count' = 0
      BY <1>5 DEF DequeueWaits
    <2>2. QED
      BY <1>3, <2>1, PlacesFinite
  <1>6. ASSUME NEW t \in Threads, EnqueueAccepted(t)
        PROVE  count' <= Cardinality(At("dequeue")')
    <2>1. pc[t] = "enqueue" /\ count' = count + 1
      BY <1>6 DEF EnqueueAccepted
    <2>2. PICK u \in At("wait_not_empty") :
            pc' = [pc EXCEPT ![t] = "running", ![u] = "dequeue"]
      <3>1. ~ (At("wait_not_empty") = {} /\ pc' = [pc EXCEPT ![t] = "running"])
        BY <1>0 DEF At, TypeOK
      <3>2. QED
        BY <1>6, <3>1 DEF EnqueueAccepted, SignalNotEmpty
    <2>3. /\ u \in At("dequeue")' /\ u \notin At("dequeue")
          /\ At("dequeue") \cup {u} \subseteq At("dequeue")'
      BY <1>0, <2>1, <2>2 DEF At, TypeOK
    <2>4. count <= Cardinality(At("dequeue"))
      BY <1>2, <2>2
    <2>5. count + 1 <= Cardinality(At("dequeue")')
      BY <1>0, <1>3, <2>1, <2>3, <2>4, TurnsKept
    <2>6. QED
      BY <2>1, <2>5
  <1>7. ASSUME NEW w \in Workers, DequeueTakes(w)
        PROVE  count' <= Cardinality(At("dequeue")')
    <2>1. pc[w] = "dequeue" /\ count' = count - 1 /\ w \in At("dequeue")
      BY <1>7, ThreadKinds DEF DequeueTakes, At
    <2>2. \A u \in Threads \ {w} :
            \/ pc'[u] = pc[u]
            \/ pc[u] = "wait_not_empty" /\ pc'[u] = "dequeue"
            \/ pc[u] = "wait_not_full" /\ pc'[u] = "enqueue"
      BY <1>0, <1>7, SignalEffect, ThreadKinds DEF DequeueTakes, PCs
    <2>3. pc'[w] = "running"
      BY <1>0, <1>7, SignalEffect, ThreadKinds DEF DequeueTakes, PCs
    <2>4. At("dequeue") \ {w} \subseteq At("dequeue")'
          /\ At("wait_not_empty")' \subseteq At("wait_not_empty")
      BY <2>2, <2>3 DEF At
    <2>5. QED
      BY <1>0, <1>2, <1>3, <2>1, <2>4, TurnsKept
  <1>8. ASSUME NEW t \in Threads,
               \/ EnqueueWaits(t) \/ EnqueueRefused(t) \/ TaskLogs(t)
               \/ TaskReturns(t) \/ Submit(t) \/ ClientEnds(t) \/ SpuriousWakeup(t)
        PROVE  count' <= Cardinality(At("dequeue")')
    BY <1>0, <1>4, <1>8
       DEF EnqueueWaits, EnqueueRefused, TaskLogs, TaskReturns, Submit,
           ClientEnds, SpuriousWakeup, At, TypeOK
  <1>9. ~ DrainTakes /\ ~ DestroyBegins /\ ~ DrainTests /\ ~ DrainFindsNothing
        /\ ~ DestroyFrees /\ \A w \in Workers : ~ DequeueEnds(w)
    BY <1>0, <1>1 DEF DrainTakes, DestroyBegins, DrainTests, DrainFindsNothing,
                      DestroyFrees, DequeueEnds, ShutdownShape
  <1>10. CASE UNCHANGED vars
    BY <1>4, <1>10 DEF vars, At
  <1>11. QED
    BY <1>5, <1>6, <1>7, <1>8, <1>9, <1>10, ThreadKinds
       DEF Next, Worker, Enqueue, Dequeue, Destroy, Terminated

(* While a thread waits for not_full, as many threads are on their way to  *)
(* enqueue as there are free slots.                                        *)
LEMMA NotFullNext ==
  ASSUME QueueInv, [Next]_vars, At("wait_not_full")' # {}
  PROVE  MaxQueueSize - count' <= Cardinality(At("enqueue")')
  <1> USE DEF ring
  <1>0. /\ TypeOK /\ ThreadShape /\ ShutdownShape /\ TypeOK' /\ ShutdownShape'
        /\ count \in Int /\ count' \in Int /\ MaxQueueSize \in Int
        /\ MaxQueueSize - count \in Int /\ MaxQueueSize - count' \in Int
    BY TypeNext, ShutdownNext, QueueAssumption DEF QueueInv, TypeOK
  <1>1. ~shutdown' /\ ~shutdown
    <2>1. ~shutdown'
      BY <1>0 DEF ShutdownShape
    <2>2. shutdown => shutdown'
      BY DEF Next, Worker, Enqueue, EnqueueWaits, EnqueueRefused, EnqueueAccepted,
             Dequeue, DequeueWaits, DequeueEnds, DequeueTakes, TaskLogs,
             TaskReturns, Submit, ClientEnds, SpuriousWakeup, Destroy,
             DestroyBegins, DrainTests, DrainTakes, DrainFindsNothing,
             DestroyFrees, Terminated, vars
    <2>3. QED
      BY <2>1, <2>2
  <1>2. At("wait_not_full") # {} => MaxQueueSize - count <= Cardinality(At("enqueue"))
    <2>1. Cardinality(At("enqueue")) \in Nat
      BY PlacesFinite DEF At
    <2>2. QED
      BY <1>0, <2>1 DEF QueueInv, NoLostWakeup
  <1>3. At("enqueue") \in SUBSET Threads /\ At("enqueue")' \in SUBSET Threads
    BY DEF At
  <1>4. ASSUME count' = count, At("enqueue") \subseteq At("enqueue")',
               At("wait_not_full")' \subseteq At("wait_not_full")
        PROVE  MaxQueueSize - count' <= Cardinality(At("enqueue")')
    BY <1>0, <1>2, <1>3, <1>4, TurnsKept
  <1>5. ASSUME NEW t \in Threads, EnqueueWaits(t)
        PROVE  MaxQueueSize - count' <= Cardinality(At("enqueue")')
    <2>1. MaxQueueSize - count' = 0
      BY <1>0, <1>5 DEF EnqueueWaits
    <2>2. QED
      BY <1>3, <2>1, PlacesFinite
  <1>6. ASSUME NEW w \in Workers, DequeueTakes(w)
        PROVE  MaxQueueSize - count' <= Cardinality(At("enqueue")')
    <2>1. pc[w] = "dequeue" /\ count' = count - 1 /\ w \in Threads
      BY <1>6, ThreadKinds DEF DequeueTakes
    <2>2. PICK u \in At("wait_not_full") :
            pc' = [pc EXCEPT ![w] = "running", ![u] = "enqueue"]
      <3>1. ~ (At("wait_not_full") = {} /\ pc' = [pc EXCEPT ![w] = "running"])
        BY <1>0 DEF At, TypeOK
      <3>2. QED
        BY <1>6, <3>1 DEF DequeueTakes, SignalNotFull
    <2>3. /\ u \in At("enqueue")' /\ u \notin At("enqueue")
          /\ At("enqueue") \cup {u} \subseteq At("enqueue")'
      BY <1>0, <2>1, <2>2 DEF At, TypeOK
    <2>4. MaxQueueSize - count <= Cardinality(At("enqueue"))
      BY <1>2, <2>2
    <2>5. MaxQueueSize - count' <= (MaxQueueSize - count) + 1
      BY <1>0, <2>1
    <2>6. QED
      BY <1>0, <1>3, <2>3, <2>4, <2>5, TurnsKept
  <1>7. ASSUME NEW t \in Threads, EnqueueAccepted(t)
        PROVE  MaxQueueSize - count' <= Cardinality(At("enqueue")')
    <2>1. pc[t] = "enqueue" /\ count' = count + 1 /\ t \in At("enqueue")
      BY <1>7 DEF EnqueueAccepted, At
    <2>2. /\ pc'[t] = "running"
          /\ \A u \in Threads \ {t} :
               \/ pc'[u] = pc[u]
               \/ pc[u] = "wait_not_empty" /\ pc'[u] = "dequeue"
               \/ pc[u] = "wait_not_full" /\ pc'[u] = "enqueue"
      BY <1>0, <1>7, SignalEffect DEF EnqueueAccepted, PCs
    <2>3. At("enqueue") \ {t} \subseteq At("enqueue")'
          /\ At("wait_not_full")' \subseteq At("wait_not_full")
      BY <2>2 DEF At
    <2>4. MaxQueueSize - count' <= (MaxQueueSize - count) - 1
      BY <1>0, <2>1
    <2>5. QED
      BY <1>0, <1>2, <1>3, <2>1, <2>3, <2>4, TurnsKept
  <1>8. ASSUME NEW t \in Threads,
               \/ DequeueWaits(t) \/ TaskLogs(t)
               \/ TaskReturns(t) \/ Submit(t) \/ ClientEnds(t) \/ SpuriousWakeup(t)
        PROVE  MaxQueueSize - count' <= Cardinality(At("enqueue")')
    BY <1>0, <1>4, <1>8
       DEF DequeueWaits, TaskLogs, TaskReturns, Submit,
           ClientEnds, SpuriousWakeup, At, TypeOK
  <1>9. ~ DrainTakes /\ ~ DestroyBegins /\ ~ DrainTests /\ ~ DrainFindsNothing
        /\ ~ DestroyFrees /\ (\A w \in Workers : ~ DequeueEnds(w))
        /\ (\A t \in Threads : ~ EnqueueRefused(t))
    BY <1>0, <1>1 DEF DrainTakes, DestroyBegins, DrainTests, DrainFindsNothing,
                      DestroyFrees, DequeueEnds, EnqueueRefused, ShutdownShape
  <1>10. CASE UNCHANGED vars
    BY <1>4, <1>10 DEF vars, At
  <1>11. QED
    BY <1>5, <1>6, <1>7, <1>8, <1>9, <1>10, ThreadKinds
       DEF Next, Worker, Enqueue, Dequeue, Destroy, Terminated

LEMMA WakeupNext == QueueInv /\ [Next]_vars => NoLostWakeup'
  <1> SUFFICES ASSUME QueueInv, [Next]_vars
               PROVE  NoLostWakeup'
    OBVIOUS
  <1>1. count' \in Int /\ MaxQueueSize \in Int
    BY TypeNext, QueueAssumption DEF TypeOK
  <1>2. Cardinality(At("enqueue")') \in Nat
    BY PlacesFinite DEF At
  <1>3. At("wait_not_full")' # {} =>
          MaxQueueSize <= count' + Cardinality(At("enqueue")')
    BY <1>1, <1>2, NotFullNext
  <1>4. QED
    BY <1>3, NotEmptyNext DEF NoLostWakeup

-----------------------------------------------------------------------------
(* The invariant of the pool, in every reachable state.                    *)
THEOREM QueueInvariant == Spec => []QueueInv
  <1>1. QueueInv /\ [Next]_vars => QueueInv'
    BY TypeNext, ShapeNext, ShutdownNext, RingNext, OwnerNext, WakeupNext
       DEF QueueInv
  <1>2. QED
    BY <1>1, QueueInvInit, PTL DEF Spec

(* The ring indices stay in the ring and every variable has its type.      *)
THEOREM TypeCorrect == Spec => []TypeOK
  <1>1. QueueInv => TypeOK
    BY DEF QueueInv
  <1>2. QED
    BY <1>1, QueueInvariant, PTL

(* The ring holds exactly the accepted tasks, each once.                   *)
THEOREM RingCorrect == Spec => []RingHoldsAccepted
  <1>1. QueueInv => RingHoldsAccepted
    BY DEF QueueInv
  <1>2. QED
    BY <1>1, QueueInvariant, PTL

(* No task is ever executed by two workers, nor executed and pending.      *)
THEOREM OneOwnerAlways == Spec => []OneOwner
  <1>1. QueueInv => OneOwner
    BY DEF QueueInv
  <1>2. QED
    BY <1>1, QueueInvariant, PTL

(* One signal per operation is enough: no wakeup is lost.                  *)
THEOREM WakeupsSuffice == Spec => []NoLostWakeup
  <1>1. QueueInv => NoLostWakeup
    BY DEF QueueInv
  <1>2. QED
    BY <1>1, QueueInvariant, PTL

(* The pool sleeps as a whole only when it has no work, or when the ring   *)
(* is full and every worker sleeps in enqueue_task itself.                 *)
THEOREM SleepIsIdleOrStall == Spec => []AsleepOnlyIfIdleOrStalled
  <1>1. QueueInv => AsleepOnlyIfIdleOrStalled
    <2> SUFFICES ASSUME QueueInv,
                        \A w \in Workers : pc[w] \in {"wait_not_empty", "wait_not_full"},
                        \A p \in Producers : pc[p] # "enqueue"
                 PROVE  \/ count = 0 /\ \A w \in Workers : pc[w] = "wait_not_empty"
                        \/ count = MaxQueueSize /\ \A w \in Workers : pc[w] = "wait_not_full"
      BY DEF AsleepOnlyIfIdleOrStalled
    <2>1. MaxQueueSize \in Nat \ {0} /\ count \in 0..MaxQueueSize
      BY QueueAssumption DEF QueueInv, TypeOK
    <2>2. Cardinality(At("dequeue")) = 0 /\ Cardinality(At("enqueue")) = 0
      <3>1. \A t \in Threads : pc[t] # "dequeue" /\ pc[t] # "enqueue"
        BY ThreadKinds DEF QueueInv, ThreadShape, Producers
      <3>2. At("dequeue") = {} /\ At("enqueue") = {}
        BY <3>1 DEF At
      <3>3. QED
        BY <3>2, FS_EmptySet
    <2>3. At("wait_not_empty") # {} => count = 0
      BY <2>1, <2>2 DEF QueueInv, NoLostWakeup
    <2>4. At("wait_not_full") # {} => count = MaxQueueSize
      BY <2>1, <2>2 DEF QueueInv, NoLostWakeup
    <2>5. \A w \in Workers : w \in At("wait_not_empty") \/ w \in At("wait_not_full")
      BY ThreadKinds DEF At
    <2>6. QED
      BY <2>1, <2>3, <2>4, <2>5, QueueAssumption DEF At
  <1>2. QED
    BY <1>1, QueueInvariant, PTL

(* destroy_thread_queue frees the pool only when no thread can touch it    *)
(* any more and every accepted task has been executed or discarded.        *)
THEOREM FreedSafely == Spec => []FreedWhenQuiet
  <1>1. QueueInv => FreedWhenQuiet
    <2> SUFFICES ASSUME QueueInv, pc[Main] = "freed"
                 PROVE  /\ \A t \in Threads \ {Main} : pc[t] = "done"
                        /\ count = 0
                        /\ accepted = {}
      BY DEF FreedWhenQuiet
    <2>1. count = 0 /\ shutdown
      BY DEF QueueInv, ShutdownShape
    <2>2. (\A w \in Workers : pc[w] = "done") /\ (\A c \in Clients : pc[c] = "done")
      BY <2>1 DEF QueueInv, ShutdownShape
    <2>3. accepted = {}
      <3>1. \A i \in 0..(count - 1) : FALSE
        BY <2>1
      <3>2. accepted = {queue[Slot(i)] : i \in 0..(count - 1)}
        BY DEF QueueInv, RingHoldsAccepted
      <3>3. QED
        BY <3>1, <3>2
    <2>4. QED
      BY <2>1, <2>2, <2>3, ThreadKinds
  <1>2. QED
    BY <1>1, QueueInvariant, PTL

-----------------------------------------------------------------------------
(* THE POOL AS A QUEUE                                                     *)

Started == {cur[w] : w \in Workers} \ {NoTask}

(* The ring read from front on is a sequence of count accepted tasks.      *)
PendingTasks ==
  /\ Pending \in Seq(accepted) /\ accepted \subseteq Tasks
  /\ Len(Pending) = count
  /\ \A i \in 1..count : Pending[i] = queue[Slot(i - 1)]

LEMMA PendingFacts == QueueInv => PendingTasks
  <1> SUFFICES ASSUME QueueInv
               PROVE  PendingTasks
    OBVIOUS
  <1>1. count \in Nat /\ accepted \subseteq Tasks
    BY QueueAssumption DEF QueueInv, TypeOK
  <1>2. \A i \in 1..count : queue[Slot(i - 1)] \in accepted
    <2>1. \A i \in 1..count : i - 1 \in 0..(count - 1)
      BY <1>1
    <2>2. QED
      BY <2>1 DEF QueueInv, RingHoldsAccepted
  <1>3. Pending \in [1..count -> accepted]
    BY <1>2 DEF Pending
  <1>4. QED
    BY <1>1, <1>3 DEF Pending, PendingTasks

LEMMA PutPending ==
  ASSUME QueueInv, QueueInv', NEW t \in Threads, EnqueueAccepted(t)
  PROVE  Pending' = Append(Pending, arg[t])
  <1>1. PendingTasks /\ PendingTasks'
    BY PendingFacts, PTL
  <1>2. /\ pc[t] = "enqueue" /\ count # MaxQueueSize
        /\ queue' = [queue EXCEPT ![rear] = arg[t]] /\ front' = front
        /\ count' = count + 1 /\ arg[t] \in Tasks
    BY ArgFact DEF EnqueueAccepted
  <1>3. /\ \A i \in 0..MaxQueueSize : Slot(i)' = Slot(i)
        /\ \A i \in 0..(count - 1) : queue'[Slot(i)] = queue[Slot(i)]
        /\ queue'[Slot(count)] = arg[t]
    BY <1>2, PutSlots DEF QueueInv
  <1>4. count \in 0..MaxQueueSize /\ MaxQueueSize \in Nat
    BY QueueAssumption DEF QueueInv, TypeOK
  <1>5. \A i \in 1..count : Pending'[i] = Pending[i]
    <2>1. \A i \in 1..count : i - 1 \in 0..(count - 1) /\ i - 1 \in 0..MaxQueueSize
                              /\ i \in 1..(count + 1)
      BY <1>4
    <2>2. QED
      BY <1>1, <1>2, <1>3, <2>1 DEF PendingTasks
  <1>6. Pending'[count + 1] = arg[t]
    <2>1. (count + 1) - 1 = count /\ count + 1 \in 1..(count + 1)
      BY <1>4
    <2>2. QED
      BY <1>1, <1>2, <1>3, <1>4, <2>1 DEF PendingTasks
  <1>7. Pending \in Seq(Tasks) /\ Pending' \in Seq(Tasks)
    BY <1>1 DEF PendingTasks
  <1> DEFINE longer == Append(Pending, arg[t])
  <1>8. /\ longer \in Seq(Tasks) /\ Len(longer) = count + 1
        /\ \A i \in 1..count : longer[i] = Pending[i]
        /\ longer[count + 1] = arg[t]
    BY <1>1, <1>2, <1>7, AppendProperties DEF PendingTasks
  <1> HIDE DEF longer
  <1>9. Len(Pending') = Len(longer) /\ \A i \in 1..Len(Pending') : Pending'[i] = longer[i]
    <2>1. Len(Pending') = count + 1
      BY <1>1, <1>2 DEF PendingTasks
    <2>2. \A i \in 1..(count + 1) : i \in 1..count \/ i = count + 1
      BY <1>4
    <2>3. QED
      BY <1>5, <1>6, <1>8, <2>1, <2>2
  <1>10. Pending' = longer
    BY <1>7, <1>8, <1>9, SeqEqual
  <1>11. QED
    BY <1>10 DEF longer

LEMMA TakePending ==
  ASSUME QueueInv, QueueInv', count # 0, front' = Succ(front), count' = count - 1,
         queue' = queue
  PROVE  /\ Pending # << >>
         /\ Head(Pending) = queue[front]
         /\ Pending' = Tail(Pending)
  <1>1. PendingTasks /\ PendingTasks'
    BY PendingFacts, PTL
  <1>2. count \in 1..MaxQueueSize /\ MaxQueueSize \in Nat \ {0} /\ front \in Slots
    BY QueueAssumption DEF QueueInv, TypeOK
  <1>3. Slot(0) = front /\ \A i \in 0..(MaxQueueSize - 1) : Slot(i)' = Slot(i + 1)
    BY <1>2, SlotAfterFacts DEF Slot
  <1>4. Pending \in Seq(Tasks) /\ Pending' \in Seq(Tasks) /\ Len(Pending) = count
        /\ Len(Pending') = count - 1
    BY <1>1 DEF PendingTasks
  <1>5. Pending # << >> /\ Head(Pending) = Pending[1]
    BY <1>2, <1>4
  <1>6. Pending[1] = queue[front]
    <2>1. 1 \in 1..count /\ 1 - 1 = 0
      BY <1>2
    <2>2. QED
      BY <1>1, <1>3, <2>1 DEF PendingTasks
  <1>7. \A i \in 1..(count - 1) : Pending'[i] = Pending[i + 1]
    <2>1. \A i \in 1..(count - 1) :
            i + 1 \in 1..count /\ i - 1 \in 0..(MaxQueueSize - 1)
            /\ (i - 1) + 1 = i /\ (i + 1) - 1 = i
      BY <1>2
    <2>2. ASSUME NEW i \in 1..(count - 1)
          PROVE  Pending'[i] = Pending[i + 1]
      <3>1. Pending'[i] = queue[Slot(i - 1)']
        BY <1>1 DEF PendingTasks
      <3>2. Slot(i - 1)' = Slot(i)
        BY <1>3, <2>1
      <3>3. Pending[i + 1] = queue[Slot(i)]
        BY <1>1, <2>1 DEF PendingTasks
      <3>4. QED
        BY <3>1, <3>2, <3>3
    <2>3. QED
      BY <2>2
  <1> DEFINE rest == Tail(Pending)
  <1>8. /\ rest \in Seq(Tasks) /\ Len(rest) = count - 1
        /\ \A i \in 1..(count - 1) : rest[i] = Pending[i + 1]
    BY <1>4, <1>5, HeadTailProperties
  <1> HIDE DEF rest
  <1>9. Pending' = rest
    BY <1>4, <1>7, <1>8, SeqEqual
  <1>10. QED
    BY <1>5, <1>6, <1>9 DEF rest

(* Each step of the pool is a step of the queue, or leaves it as it is.    *)
LEMMA FifoStep ==
  QueueInv /\ QueueInv' /\ [Next]_vars =>
    Fifo!FifoNext \/ UNCHANGED <<Pending, Started, shutdown>>
  <1> SUFFICES ASSUME QueueInv, QueueInv', [Next]_vars
               PROVE  Fifo!FifoNext \/ UNCHANGED <<Pending, Started, shutdown>>
    OBVIOUS
  <1>1. PendingTasks
    BY PendingFacts
  <1>2. UNCHANGED ring => UNCHANGED Pending
    BY DEF ring, Pending, Slot
  <1>3. UNCHANGED cur => UNCHANGED Started
    BY DEF Started
  <1>4. ASSUME NEW t \in Threads, EnqueueAccepted(t)
        PROVE  Fifo!Accept(arg[t]) /\ arg[t] \in Tasks
    <2>1. arg[t] \in Tasks /\ arg[t] \notin accepted /\ arg[t] \notin Started
      BY <1>4, ArgFact DEF EnqueueAccepted, Started
    <2>2. \A i \in 1..Len(Pending) : Pending[i] # arg[t]
      BY <1>1, <2>1 DEF PendingTasks
    <2>3. Len(Pending) < MaxQueueSize
      BY <1>1, <1>4, QueueAssumption DEF PendingTasks, EnqueueAccepted, QueueInv, TypeOK
    <2>4. Pending' = Append(Pending, arg[t])
      BY <1>4, PutPending
    <2>5. ~shutdown /\ UNCHANGED <<Started, shutdown>>
      BY <1>3, <1>4 DEF EnqueueAccepted
    <2>6. QED
      BY <2>1, <2>2, <2>3, <2>4, <2>5 DEF Fifo!Accept, Started
  <1>5. ASSUME NEW w \in Workers, DequeueTakes(w)
        PROVE  Fifo!Start
    <2> DEFINE k == queue[front]
    <2>1. count # 0 /\ front' = Succ(front) /\ count' = count - 1 /\ queue' = queue
          /\ cur' = [cur EXCEPT ![w] = k] /\ shutdown' = shutdown
      BY <1>5 DEF DequeueTakes
    <2>2. Pending # << >> /\ Head(Pending) = k /\ Pending' = Tail(Pending)
      BY <2>1, TakePending
    <2>3. k # NoTask /\ k \notin Started
      BY <2>1, FrontFact DEF Started
    <2>4. cur[w] = NoTask /\ cur \in [Workers -> Tasks \cup {NoTask}]
      BY <1>5 DEF DequeueTakes, QueueInv, ThreadShape, TypeOK
    <2> HIDE DEF k
    <2>5. Started' = Started \cup {k}
      BY <2>1, <2>3, <2>4 DEF Started
    <2>6. QED
      BY <2>1, <2>2, <2>3, <2>5 DEF Fifo!Start, Started
  <1>6. ASSUME DrainTakes
        PROVE  Fifo!Discard
    <2>1. count # 0 /\ front' = Succ(front) /\ count' = count - 1 /\ queue' = queue
          /\ cur' = cur /\ shutdown' = shutdown
      BY <1>6 DEF DrainTakes
    <2>2. Pending # << >> /\ Pending' = Tail(Pending)
      BY <2>1, TakePending
    <2>3. shutdown
      BY <1>6 DEF DrainTakes, QueueInv, ShutdownShape
    <2>4. QED
      BY <1>3, <2>1, <2>2, <2>3 DEF Fifo!Discard, Started
  <1>7. ASSUME NEW w \in Workers, TaskReturns(w)
        PROVE  \E k \in Tasks : Fifo!Finish(k)
    <2>1. UNCHANGED <<Pending, shutdown>> /\ cur' = [cur EXCEPT ![w] = NoTask]
      BY <1>2, <1>7 DEF TaskReturns
    <2>2. cur[w] # NoTask /\ cur \in [Workers -> Tasks \cup {NoTask}]
      BY <1>7 DEF TaskReturns, QueueInv, ThreadShape, TypeOK
    <2>3. \A v \in Workers : cur[v] = cur[w] => v = w
      BY <2>2 DEF QueueInv, OneOwner
    <2>4. PICK k \in Tasks : k = cur[w]
      BY <2>2
    <2>5. Started' = Started \ {k}
      BY <2>1, <2>2, <2>3, <2>4 DEF Started
    <2>6. k \in Started
      BY <2>2, <2>4 DEF Started
    <2>7. QED
      BY <2>1, <2>5, <2>6 DEF Fifo!Finish, Started
  <1>8. ASSUME DestroyBegins
        PROVE  Fifo!Close
    <2>1. ~shutdown /\ shutdown' = TRUE
      BY <1>8 DEF DestroyBegins, QueueInv, ShutdownShape
    <2>2. UNCHANGED <<Pending, Started>>
      BY <1>2, <1>3, <1>8 DEF DestroyBegins
    <2>3. QED
      BY <2>1, <2>2 DEF Fifo!Close, Started
  <1>9. CASE UNCHANGED <<ring, cur, shutdown>>
    BY <1>2, <1>3, <1>9
  <1>10. \/ \E t \in Threads : EnqueueAccepted(t)
         \/ \E w \in Workers : DequeueTakes(w) \/ TaskReturns(w)
         \/ DrainTakes \/ DestroyBegins
         \/ UNCHANGED <<ring, cur, shutdown>>
    BY ThreadKinds
    DEF Next, Worker, Enqueue, EnqueueWaits, EnqueueRefused, Dequeue, DequeueWaits,
        DequeueEnds, TaskLogs, Submit, ClientEnds, SpuriousWakeup, Destroy, DrainTests,
        DrainFindsNothing, DestroyFrees, Terminated, vars, ring
  <1>11. \A k \in Tasks : (Fifo!Accept(k) => Fifo!FifoNext) /\ (Fifo!Finish(k) => Fifo!FifoNext)
    BY DEF Fifo!FifoNext
  <1>12. Fifo!Start \/ Fifo!Discard \/ Fifo!Close => Fifo!FifoNext
    BY DEF Fifo!FifoNext
  <1>13. ASSUME NEW t \in Threads, EnqueueAccepted(t)
         PROVE  Fifo!FifoNext
    <2>1. arg[t] \in Tasks /\ Fifo!Accept(arg[t])
      BY <1>4, <1>13
    <2>2. QED
      BY <1>11, <2>1
  <1>14. ASSUME NEW w \in Workers, DequeueTakes(w) \/ TaskReturns(w)
         PROVE  Fifo!FifoNext
    <2>1. CASE DequeueTakes(w)
      BY <1>5, <1>12, <2>1
    <2>2. CASE TaskReturns(w)
      <3>1. PICK k \in Tasks : Fifo!Finish(k)
        BY <1>7, <2>2
      <3>2. QED
        BY <1>11, <3>1
    <2>3. QED
      BY <1>14, <2>1, <2>2
  <1>15. DrainTakes \/ DestroyBegins => Fifo!FifoNext
    BY <1>6, <1>8, <1>12
  <1>16. QED
    BY <1>9, <1>10, <1>13, <1>14, <1>15

LEMMA FifoStart == Init => Fifo!FifoInit
  <1> SUFFICES ASSUME Init
               PROVE  Fifo!FifoInit
    OBVIOUS
  <1>1. Pending = << >>
    BY DEF Init, Pending
  <1>2. Started = {}
    BY DEF Init, Started
  <1>3. QED
    BY <1>1, <1>2 DEF Init, Fifo!FifoInit, Started

(* The pool is a bounded first-in first-out queue: tasks start in the      *)
(* order their enqueue_task returned true, none is accepted after shutdown *)
(* and none is discarded before it.                                        *)
THEOREM PoolIsAFifo == Spec => ImplementsFifo
  <1>1. QueueInv /\ QueueInv' /\ [Next]_vars => [Fifo!FifoNext]_<<Pending, Started, shutdown>>
    BY FifoStep
  <1>2. QED
    BY <1>1, FifoStart, QueueInvariant, PTL
    DEF Spec, ImplementsFifo, Fifo!FifoSpec, Fifo!fifoVars, Started
=============================================================================
