-------------------------- MODULE OrderTableProofs --------------------------
(* Proofs about the order table of order_handler.c, for every size of the  *)
(* table and every set of order ids, states and volumes.                   *)
EXTENDS OrderTable, TLAPS, FiniteSetTheorems, FunctionTheorems, WellFoundedInduction

(* The search loops of order_handler.c stop at a slot of the set they      *)
(* search, when it is not empty, and at the smallest.                      *)
LEMMA FirstIsLeast ==
  ASSUME NEW S, S \subseteq OrderSlots, S # {}
  PROVE  First(S) \in S /\ \A j \in S : First(S) <= j
  <1> DEFINE R == OpToRel(<, Nat)
  <1>1. IsWellFoundedOn(R, Nat)
    BY NatLessThanWellFounded
  <1>2. S \subseteq Nat
    BY TableAssumption DEF OrderSlots
  <1>3. \A a, b \in Nat : a < b => <<a, b>> \in R
    BY DEF OpToRel
  <1> HIDE DEF R
  <1>4. PICK x \in S : \A y \in S : <<y, x>> \notin R
    BY <1>1, <1>2, WFMin
  <1>5. ASSUME NEW y \in S
        PROVE  x <= y
    <2>1. x \in Nat /\ y \in Nat
      BY <1>2
    <2>2. ~ (y < x)
      BY <1>3, <1>4, <2>1, Zenon
    <2>3. QED
      BY <2>1, <2>2
  <1>6. QED
    BY <1>5 DEF First

(* The slots are a finite set of MaxOrderNum numbers, so is any part.      *)
LEMMA SlotsFinite ==
  /\ IsFiniteSet(OrderSlots)
  /\ Cardinality(OrderSlots) = MaxOrderNum
  /\ \A S \in SUBSET OrderSlots :
       /\ IsFiniteSet(S)
       /\ Cardinality(S) \in 0..MaxOrderNum
       /\ Cardinality(S) = MaxOrderNum => S = OrderSlots
  <1>1. MaxOrderNum \in Nat \ {0} /\ 0 \in Int /\ MaxOrderNum - 1 \in Int
    BY TableAssumption
  <1>2. IsFiniteSet(OrderSlots) /\ Cardinality(OrderSlots) = MaxOrderNum
    BY <1>1, FS_Interval DEF OrderSlots
  <1>3. ASSUME NEW S \in SUBSET OrderSlots
        PROVE  /\ IsFiniteSet(S)
               /\ Cardinality(S) \in 0..MaxOrderNum
               /\ Cardinality(S) = MaxOrderNum => S = OrderSlots
    <2>1. /\ IsFiniteSet(S)
          /\ Cardinality(S) <= MaxOrderNum
          /\ Cardinality(S) = MaxOrderNum => S = OrderSlots
      BY <1>2, FS_Subset
    <2>2. Cardinality(S) \in Nat
      BY <2>1, FS_CardinalityType
    <2>3. QED
      BY <1>1, <2>1, <2>2
  <1>4. QED
    BY <1>2, <1>3

-----------------------------------------------------------------------------
LEMMA TableInvInit == TableInit => TableInv
  <1> SUFFICES ASSUME TableInit
               PROVE  TableInv
    OBVIOUS
  <1>1. Occupied = {}
    BY DEF TableInit, Occupied
  <1>2. TableTypeOK
    <2>1. 0 \in 0..MaxOrderNum
      BY TableAssumption
    <2>2. QED
      BY <2>1 DEF TableInit, TableTypeOK
  <1>3. CountersMatchTable
    BY <1>1, FS_EmptySet DEF TableInit, CountersMatchTable
  <1>4. OneSlotPerOrder
    BY <1>1 DEF OneSlotPerOrder
  <1>5. QED
    BY <1>2, <1>3, <1>4 DEF TableInv

(* An insertion that finds room fills one free slot.                       *)
LEMMA InsertPreserves ==
  ASSUME TableInv, NEW u \in Uuids \ Tracked, NEW v \in Volumes, NEW s \in Statuses,
         insert_order(u, v, s)
  PROVE  TableInv'
  <1> DEFINE free == First(OrderSlots \ Occupied)
             new == [uuid |-> u, volume |-> v, status |-> s]
  <1>1. CASE UNCHANGED tableVars
    BY <1>1 DEF TableInv, TableTypeOK, CountersMatchTable, OneSlotPerOrder,
                tableVars, Occupied
  <1>2. CASE size # MaxOrderNum /\ ~ UNCHANGED tableVars
    <2>1. Occupied \in SUBSET OrderSlots
      BY DEF Occupied
    <2>2. Occupied # OrderSlots
      BY <1>2, SlotsFinite DEF TableInv, CountersMatchTable
    <2>3. free \in OrderSlots \ Occupied
      BY <2>1, <2>2, FirstIsLeast
    <2>4. new \in Order /\ new # Null
      BY TableAssumption DEF Order
    <2> HIDE DEF free, new
    <2>5. /\ orders' = [orders EXCEPT ![free] = new]
          /\ size' = size + 1
          /\ is_empty' = IF size = 0 THEN FALSE ELSE is_empty
          /\ is_full' = IF size + 1 = MaxOrderNum THEN TRUE ELSE is_full
      BY <1>2 DEF insert_order, free, new
    <2>6. Occupied' = Occupied \cup {free}
      BY <2>3, <2>4, <2>5 DEF TableInv, TableTypeOK, Occupied
    <2>7. Cardinality(Occupied') = size + 1 /\ Occupied' \in SUBSET OrderSlots
      BY <2>1, <2>3, <2>6, SlotsFinite, FS_AddElement
         DEF TableInv, CountersMatchTable
    <2>8. TableTypeOK'
      <3>1. orders' \in [OrderSlots -> Order \cup {Null}]
        BY <2>3, <2>4, <2>5 DEF TableInv, TableTypeOK
      <3>2. size' \in 0..MaxOrderNum
        BY <2>5, <2>7, SlotsFinite
      <3>3. QED
        BY <2>5, <3>1, <3>2 DEF TableInv, TableTypeOK
    <2>9. CountersMatchTable'
      <3>1. is_empty' <=> Occupied' = {}
        <4>1. Occupied = {} => size = 0
          BY FS_EmptySet DEF TableInv, CountersMatchTable
        <4>2. QED
          BY <2>5, <2>6, <4>1 DEF TableInv, CountersMatchTable
      <3>2. is_full' => Occupied' = OrderSlots
        <4>1. CASE size + 1 = MaxOrderNum
          BY <4>1, <2>7, SlotsFinite
        <4>2. CASE size + 1 # MaxOrderNum
          BY <4>2, <2>1, <2>2, <2>5 DEF TableInv, CountersMatchTable
        <4>3. QED
          BY <4>1, <4>2
      <3>3. QED
        BY <2>5, <2>7, <3>1, <3>2 DEF CountersMatchTable
    <2>10. OneSlotPerOrder'
      <3>1. \A i \in Occupied : orders'[i] = orders[i] /\ orders[i].uuid # u
        BY <2>1, <2>3, <2>5 DEF TableInv, TableTypeOK, Tracked
      <3>2. orders'[free].uuid = u
        BY <2>3, <2>5 DEF TableInv, TableTypeOK, new
      <3>3. QED
        BY <2>6, <3>1, <3>2 DEF OneSlotPerOrder, TableInv
    <2>11. QED
      BY <2>8, <2>9, <2>10 DEF TableInv
  <1>3. QED
    BY <1>1, <1>2 DEF insert_order

(* A removal empties the slot of the order, if there is one.               *)
LEMMA RemovePreserves ==
  ASSUME TableInv, NEW u \in Uuids, remove_order(u)
  PROVE  TableInv'
  <1> DEFINE slot == First(Matches(u))
  <1>1. CASE UNCHANGED tableVars
    BY <1>1 DEF TableInv, TableTypeOK, CountersMatchTable, OneSlotPerOrder,
                tableVars, Occupied
  <1>2. CASE size # 0 /\ Matches(u) = {} /\ ~ UNCHANGED tableVars
    <2>1. /\ orders' = orders /\ size' = size
          /\ is_full' = IF size = MaxOrderNum THEN FALSE ELSE is_full
          /\ is_empty' = is_empty
      BY <1>2 DEF remove_order
    <2>2. Occupied' = Occupied
      BY <2>1 DEF Occupied
    <2>3. QED
      BY <2>1, <2>2 DEF TableInv, TableTypeOK, CountersMatchTable, OneSlotPerOrder
  <1>3. CASE size # 0 /\ Matches(u) # {} /\ ~ UNCHANGED tableVars
    <2>1. Occupied \in SUBSET OrderSlots /\ Matches(u) \subseteq Occupied
      BY DEF Occupied, Matches
    <2>2. slot \in Occupied
      BY <1>3, <2>1, FirstIsLeast
    <2> HIDE DEF slot
    <2>3. /\ orders' = [orders EXCEPT ![slot] = Null]
          /\ size' = size - 1
          /\ is_full' = IF size = MaxOrderNum THEN FALSE ELSE is_full
          /\ is_empty' = IF size' = 0 THEN TRUE ELSE is_empty
      BY <1>3 DEF remove_order, slot
    <2>4. Occupied' = Occupied \ {slot}
      BY <2>1, <2>2, <2>3 DEF TableInv, TableTypeOK, Occupied
    <2>5. Cardinality(Occupied') = size - 1 /\ IsFiniteSet(Occupied')
      BY <2>1, <2>2, <2>4, SlotsFinite, FS_RemoveElement
         DEF TableInv, CountersMatchTable
    <2>6. TableTypeOK'
      <3>1. orders' \in [OrderSlots -> Order \cup {Null}]
        BY <2>1, <2>2, <2>3 DEF TableInv, TableTypeOK
      <3>2. size' \in 0..MaxOrderNum
        BY <1>3, <2>3, TableAssumption DEF TableInv, TableTypeOK
      <3>3. QED
        BY <2>3, <3>1, <3>2 DEF TableInv, TableTypeOK
    <2>7. CountersMatchTable'
      <3>1. is_empty' <=> Occupied' = {}
        <4>1. size' = 0 <=> Occupied' = {}
          BY <2>3, <2>5, FS_EmptySet
        <4>2. ~ is_empty
          BY <2>2 DEF TableInv, CountersMatchTable
        <4>3. QED
          BY <2>3, <4>1, <4>2
      <3>2. ~ is_full'
        <4>1. is_full => size = MaxOrderNum
          BY SlotsFinite DEF TableInv, CountersMatchTable
        <4>2. QED
          BY <2>3, <4>1
      <3>3. QED
        BY <2>3, <2>5, <3>1, <3>2 DEF CountersMatchTable
    <2>8. OneSlotPerOrder'
      <3>1. \A i \in Occupied' : i \in Occupied /\ orders'[i] = orders[i]
        BY <2>1, <2>3, <2>4 DEF TableInv, TableTypeOK
      <3>2. QED
        BY <3>1 DEF OneSlotPerOrder, TableInv
    <2>9. QED
      BY <2>6, <2>7, <2>8 DEF TableInv
  <1>4. QED
    BY <1>1, <1>2, <1>3 DEF remove_order

(* An update changes neither which slots are occupied nor any uuid.        *)
LEMMA UpdatePreserves ==
  ASSUME TableInv, UNCHANGED <<size, is_full, is_empty>>,
         orders' \in [OrderSlots -> Order \cup {Null}],
         \A i \in OrderSlots : (orders'[i] # Null) <=> (orders[i] # Null),
         \A i \in Occupied : orders'[i].uuid = orders[i].uuid
  PROVE  TableInv'
  <1>1. Occupied' = Occupied
    BY DEF Occupied
  <1>2. QED
    BY <1>1 DEF TableInv, TableTypeOK, CountersMatchTable, OneSlotPerOrder

(* What both updates write over an order is an order with the same uuid.   *)
LEMMA UpdatedOrder ==
  ASSUME TableTypeOK, NEW u \in Uuids, Matches(u) # {}
  PROVE  LET i == First(Matches(u)) IN
         /\ i \in Occupied /\ i \in OrderSlots
         /\ orders[i] \in Order
         /\ \A s \in Statuses :
              LET o == [orders[i] EXCEPT !.status = s]
              IN  o \in Order /\ o # Null /\ o.uuid = orders[i].uuid
         /\ \A v \in Volumes :
              LET o == [orders[i] EXCEPT !.volume = v]
              IN  o \in Order /\ o # Null /\ o.uuid = orders[i].uuid
  <1> DEFINE i == First(Matches(u))
  <1>1. Matches(u) \subseteq Occupied /\ Occupied \subseteq OrderSlots
    BY DEF Matches, Occupied
  <1>2. i \in Occupied /\ i \in OrderSlots
    BY <1>1, FirstIsLeast
  <1> HIDE DEF i
  <1>3. orders[i] \in Order
    BY <1>2 DEF TableTypeOK, Occupied
  <1>4. ASSUME NEW s \in Statuses
        PROVE  LET o == [orders[i] EXCEPT !.status = s]
               IN  o \in Order /\ o # Null /\ o.uuid = orders[i].uuid
    BY <1>3, TableAssumption DEF Order
  <1>5. ASSUME NEW v \in Volumes
        PROVE  LET o == [orders[i] EXCEPT !.volume = v]
               IN  o \in Order /\ o # Null /\ o.uuid = orders[i].uuid
    BY <1>3, TableAssumption DEF Order
  <1>6. QED
    BY <1>2, <1>3, <1>4, <1>5 DEF i

LEMMA UpdateStatusPreserves ==
  ASSUME TableInv, NEW u \in Uuids, NEW s \in Statuses, update_order_status(u, s)
  PROVE  TableInv'
  <1> DEFINE i == First(Matches(u))
             o == [orders[i] EXCEPT !.status = s]
  <1>1. CASE Matches(u) = {}
    BY <1>1, UpdatePreserves DEF update_order_status, TableInv, TableTypeOK
  <1>2. CASE Matches(u) # {}
    <2>1. i \in Occupied /\ i \in OrderSlots /\ o \in Order /\ o # Null
          /\ o.uuid = orders[i].uuid
      BY <1>2, UpdatedOrder DEF TableInv
    <2>2. orders' = [orders EXCEPT ![i] = o] /\ UNCHANGED <<size, is_full, is_empty>>
      BY <1>2 DEF update_order_status
    <2> HIDE DEF i, o
    <2>3. orders \in [OrderSlots -> Order \cup {Null}] /\ Occupied \subseteq OrderSlots
      BY DEF TableInv, TableTypeOK, Occupied
    <2>4. QED
      BY <2>1, <2>2, <2>3, UpdatePreserves DEF Occupied
  <1>3. QED
    BY <1>1, <1>2

LEMMA UpdateVolumePreserves ==
  ASSUME TableInv, NEW u \in Uuids, NEW v \in Volumes, update_order_volume(u, v)
  PROVE  TableInv'
  <1> DEFINE i == First(Matches(u))
             o == [orders[i] EXCEPT !.volume = v]
  <1>1. CASE Matches(u) = {}
    BY <1>1, UpdatePreserves DEF update_order_volume, TableInv, TableTypeOK
  <1>2. CASE Matches(u) # {}
    <2>1. i \in Occupied /\ i \in OrderSlots /\ o \in Order /\ o # Null
          /\ o.uuid = orders[i].uuid
      BY <1>2, UpdatedOrder DEF TableInv
    <2>2. orders' = [orders EXCEPT ![i] = o] /\ UNCHANGED <<size, is_full, is_empty>>
      BY <1>2 DEF update_order_volume
    <2> HIDE DEF i, o
    <2>3. orders \in [OrderSlots -> Order \cup {Null}] /\ Occupied \subseteq OrderSlots
      BY DEF TableInv, TableTypeOK, Occupied
    <2>4. QED
      BY <2>1, <2>2, <2>3, UpdatePreserves DEF Occupied
  <1>3. QED
    BY <1>1, <1>2

LEMMA TableInvNext == TableInv /\ [TableNext]_tableVars => TableInv'
  <1> SUFFICES ASSUME TableInv, [TableNext]_tableVars
               PROVE  TableInv'
    OBVIOUS
  <1>1. ASSUME NEW u \in Uuids \ Tracked, NEW v \in Volumes, NEW s \in Statuses,
               insert_order(u, v, s)
        PROVE  TableInv'
    BY <1>1, InsertPreserves
  <1>2. ASSUME NEW u \in Uuids, remove_order(u)
        PROVE  TableInv'
    BY <1>2, RemovePreserves
  <1>3. ASSUME NEW u \in Uuids, NEW s \in Statuses, update_order_status(u, s)
        PROVE  TableInv'
    BY <1>3, UpdateStatusPreserves
  <1>4. ASSUME NEW u \in Uuids, NEW v \in Volumes, update_order_volume(u, v)
        PROVE  TableInv'
    BY <1>4, UpdateVolumePreserves
  <1>5. CASE UNCHANGED tableVars
    BY <1>5 DEF TableInv, TableTypeOK, CountersMatchTable, OneSlotPerOrder,
                tableVars, Occupied
  <1>6. QED
    BY <1>1, <1>2, <1>3, <1>4, <1>5 DEF TableNext

(* The whole invariant of the table, in every reachable state.             *)
THEOREM TableInvariant == TableSpec => []TableInv
  BY TableInvInit, TableInvNext, PTL DEF TableSpec

(* The order table is well typed.                                          *)
THEOREM TableTypeCorrect == TableSpec => []TableTypeOK
  <1>1. TableInv => TableTypeOK
    BY DEF TableInv
  <1>2. QED
    BY <1>1, TableInvariant, PTL

(* size, is_empty and is_full agree with the array after any sequence of   *)
(* insertions, removals and updates.                                       *)
THEOREM CountersAlwaysMatch == TableSpec => []CountersMatchTable
  <1>1. TableInv => CountersMatchTable
    BY DEF TableInv
  <1>2. QED
    BY <1>1, TableInvariant, PTL

(* No order is ever tracked twice.                                         *)
THEOREM OrdersAreUnique == TableSpec => []OneSlotPerOrder
  <1>1. TableInv => OneSlotPerOrder
    BY DEF TableInv
  <1>2. QED
    BY <1>1, TableInvariant, PTL

-----------------------------------------------------------------------------
(* What the table shows of its orders, a map by their ids.                 *)
Shown == [u \in Tracked |->
            LET o == orders[First(Matches(u))]
            IN  [volume |-> o.volume, status |-> o.status]]

(* An id is found in the one slot that holds it, so the map has for each   *)
(* occupied slot the entry of that slot.                                   *)
ShownBySlots ==
  /\ DOMAIN Shown = Tracked
  /\ \A i \in Occupied :
       /\ Matches(orders[i].uuid) = {i}
       /\ First(Matches(orders[i].uuid)) = i
       /\ Shown[orders[i].uuid] = [volume |-> orders[i].volume, status |-> orders[i].status]

LEMMA ShownRows == TableInv => ShownBySlots
  <1> SUFFICES ASSUME TableInv, NEW i \in Occupied
               PROVE  /\ Matches(orders[i].uuid) = {i}
                      /\ First(Matches(orders[i].uuid)) = i
                      /\ Shown[orders[i].uuid] =
                           [volume |-> orders[i].volume, status |-> orders[i].status]
    BY DEF Shown, ShownBySlots
  <1>1. Matches(orders[i].uuid) = {i}
    BY DEF Matches, TableInv, OneSlotPerOrder
  <1>2. {i} \subseteq OrderSlots
    BY DEF Occupied
  <1>3. First(Matches(orders[i].uuid)) = i
    BY <1>1, <1>2, FirstIsLeast
  <1>4. orders[i].uuid \in Tracked
    BY DEF Tracked
  <1>5. QED
    BY <1>1, <1>3, <1>4 DEF Shown

(* Fewer orders than slots: the map has room where the array has.          *)
LEMMA TrackedFits ==
  TableInv => Cardinality(Tracked) \in Nat /\ Cardinality(Tracked) <= size
  <1> SUFFICES ASSUME TableInv
               PROVE  Cardinality(Tracked) \in Nat /\ Cardinality(Tracked) <= size
    OBVIOUS
  <1> DEFINE idOf == [i \in Occupied |-> orders[i].uuid]
  <1>1. Occupied \in SUBSET OrderSlots
    BY DEF Occupied
  <1>2. IsFiniteSet(Occupied) /\ Cardinality(Occupied) = size
    BY <1>1, SlotsFinite DEF TableInv, CountersMatchTable
  <1>3. idOf \in Surjection(Occupied, Tracked)
    <2>1. idOf \in [Occupied -> Tracked] /\ \A u \in Tracked : \E i \in Occupied : idOf[i] = u
      BY DEF Tracked
    <2>2. QED
      BY <2>1, Fun_IsSurj
  <1>4. IsFiniteSet(Tracked) /\ Cardinality(Tracked) <= Cardinality(Occupied)
    BY <1>2, <1>3, FS_Surjection
  <1>5. QED
    BY <1>2, <1>4, FS_CardinalityType

(* The map is made of its rows, before and after a step.                   *)
LEMMA ShownIsItsRows ==
  Shown = [x \in Tracked |-> Shown[x]]
  BY DEF Shown

(* A step that changes no occupied slot's uuid, nor its volume or status,  *)
(* leaves the map as it is.                                                *)
LEMMA SameShown == tableVars' = tableVars => Shown' = Shown
  BY DEF tableVars, Shown, Tracked, Matches, Occupied

(* An order that stays as it is in its slot keeps its row.                 *)
LEMMA SameRow ==
  ASSUME ShownBySlots, ShownBySlots', NEW i \in Occupied, i \in Occupied',
         orders'[i] = orders[i]
  PROVE  Shown'[orders[i].uuid] = Shown[orders[i].uuid]
  <1>1. Shown[orders[i].uuid] = [volume |-> orders[i].volume, status |-> orders[i].status]
    BY DEF ShownBySlots
  <1>2. Shown'[orders'[i].uuid] =
          [volume |-> orders'[i].volume, status |-> orders'[i].status]
    BY DEF ShownBySlots
  <1>3. QED
    BY <1>1, <1>2

(* An insertion adds the order to the map, or finds the table full.        *)
LEMMA InsertRefines ==
  ASSUME TableInv, ShownBySlots, ShownBySlots', NEW u \in Uuids \ Tracked,
         NEW v \in Volumes, NEW s \in Statuses, insert_order(u, v, s)
  PROVE  \/ size = MaxOrderNum /\ UNCHANGED Shown /\ UNCHANGED Tracked
         \/ /\ size # MaxOrderNum
            /\ Cardinality(Tracked) < MaxOrderNum
            /\ Tracked' = Tracked \cup {u}
            /\ Shown' = [x \in Tracked \cup {u} |->
                           IF x = u THEN [volume |-> v, status |-> s] ELSE Shown[x]]
  <1> DEFINE free == First(OrderSlots \ Occupied)
             new == [uuid |-> u, volume |-> v, status |-> s]
  <1>1. CASE size = MaxOrderNum
    <2>1. tableVars' = tableVars
      BY <1>1 DEF insert_order
    <2>2. Tracked' = Tracked
      BY <2>1 DEF tableVars, Tracked, Occupied
    <2>3. QED
      BY <1>1, <2>1, <2>2, SameShown
  <1>2. CASE size # MaxOrderNum
    <2>1. Occupied \in SUBSET OrderSlots
      BY DEF Occupied
    <2>2. Occupied # OrderSlots
      BY <1>2, SlotsFinite DEF TableInv, CountersMatchTable
    <2>3. free \in OrderSlots \ Occupied
      BY <2>1, <2>2, FirstIsLeast
    <2>4. new # Null
      BY TableAssumption
    <2>5. orders' = [orders EXCEPT ![free] = new]
      BY <1>2 DEF insert_order
    <2> HIDE DEF free
    <2>6. Occupied' = Occupied \cup {free} /\ orders'[free] = new
      BY <2>3, <2>4, <2>5 DEF TableInv, TableTypeOK, Occupied
    <2>7. \A i \in Occupied : i \in Occupied' /\ orders'[i] = orders[i] /\ orders[i].uuid # u
      BY <2>1, <2>3, <2>5, <2>6 DEF TableInv, TableTypeOK, Tracked
    <2>8. Tracked' = Tracked \cup {u}
      BY <2>6, <2>7 DEF Tracked
    <2>9. Shown'[u] = [volume |-> v, status |-> s]
      BY <2>6 DEF ShownBySlots
    <2>10. \A x \in Tracked : x # u /\ Shown'[x] = Shown[x]
      <3>1. \A i \in Occupied : Shown'[orders[i].uuid] = Shown[orders[i].uuid]
        BY <2>7, SameRow
      <3>2. QED
        BY <2>7, <3>1 DEF Tracked
    <2>11. Shown' = [x \in Tracked' |-> Shown'[x]]
      BY DEF Shown
    <2>12. Cardinality(Tracked) < MaxOrderNum
      BY <1>2, TrackedFits, TableAssumption DEF TableInv, TableTypeOK
    <2>13. QED
      BY <1>2, <2>8, <2>9, <2>10, <2>11, <2>12
  <1>3. QED
    BY <1>1, <1>2

(* A removal takes the order's row out of the map, if it is there, and no  *)
(* other.                                                                  *)
LEMMA RemoveRefines ==
  ASSUME TableInv, ShownBySlots, ShownBySlots', NEW u \in Uuids, remove_order(u)
  PROVE  /\ Tracked' = Tracked \ {u}
         /\ Shown' = [x \in Tracked \ {u} |-> Shown[x]]
  <1> DEFINE slot == First(Matches(u))
  <1>1. Occupied \in SUBSET OrderSlots /\ Matches(u) \subseteq Occupied
    BY DEF Occupied, Matches
  <1>2. CASE Matches(u) = {}
    <2>1. orders' = orders
      BY <1>2 DEF remove_order, tableVars
    <2>2. Shown' = Shown /\ Tracked' = Tracked
      BY <2>1 DEF Shown, Tracked, Matches, Occupied
    <2>3. u \notin Tracked
      BY <1>2 DEF Tracked, Matches
    <2>4. QED
      BY <2>2, <2>3, ShownIsItsRows
  <1>3. CASE Matches(u) # {}
    <2>1. slot \in Occupied /\ orders[slot].uuid = u
      BY <1>1, <1>3, FirstIsLeast DEF Matches
    <2>2. orders' = [orders EXCEPT ![slot] = Null]
      <3>1. size # 0
        BY <1>1, <2>1, SlotsFinite, FS_EmptySet DEF TableInv, CountersMatchTable
      <3>2. QED
        BY <1>3, <3>1 DEF remove_order
    <2> HIDE DEF slot
    <2>3. Occupied' = Occupied \ {slot}
      BY <1>1, <2>1, <2>2 DEF TableInv, TableTypeOK, Occupied
    <2>4. \A i \in Occupied' : i \in Occupied /\ orders'[i] = orders[i] /\ orders[i].uuid # u
      BY <1>1, <2>1, <2>2, <2>3 DEF TableInv, TableTypeOK, OneSlotPerOrder
    <2>5. Tracked' = Tracked \ {u}
      BY <2>1, <2>3, <2>4 DEF Tracked
    <2>6. \A x \in Tracked' : Shown'[x] = Shown[x]
      <3>1. \A i \in Occupied' : Shown'[orders'[i].uuid] = Shown[orders'[i].uuid]
        BY <2>4, SameRow
      <3>2. QED
        BY <3>1 DEF Tracked
    <2>7. Shown' = [x \in Tracked' |-> Shown'[x]]
      BY DEF Shown
    <2>8. QED
      BY <2>5, <2>6, <2>7
  <1>4. QED
    BY <1>2, <1>3

(* An update that finds the order, in whichever field, writes its row only.*)
LEMMA UpdateRefines ==
  ASSUME TableInv, ShownBySlots, ShownBySlots', NEW u \in Uuids, NEW o \in Order,
         Matches(u) # {}, o.uuid = u, orders' = [orders EXCEPT ![First(Matches(u))] = o]
  PROVE  /\ u \in Tracked
         /\ Tracked' = Tracked
         /\ Shown' = [Shown EXCEPT ![u] = [volume |-> o.volume, status |-> o.status]]
  <1> DEFINE slot == First(Matches(u))
  <1>1. Occupied \in SUBSET OrderSlots /\ Matches(u) \subseteq Occupied
    BY DEF Occupied, Matches
  <1>2. slot \in Occupied /\ orders[slot].uuid = u
    BY <1>1, FirstIsLeast DEF Matches
  <1>3. orders' = [orders EXCEPT ![slot] = o]
    OBVIOUS
  <1> HIDE DEF slot
  <1>4. Occupied' = Occupied /\ orders'[slot] = o
    BY <1>1, <1>2, <1>3, TableAssumption DEF TableInv, TableTypeOK, Occupied, Order
  <1>5. \A i \in Occupied \ {slot} : orders'[i] = orders[i] /\ orders[i].uuid # u
    BY <1>1, <1>2, <1>3 DEF TableInv, TableTypeOK, OneSlotPerOrder
  <1>6. u \in Tracked /\ Tracked' = Tracked
    BY <1>2, <1>4, <1>5 DEF Tracked
  <1>7. Shown'[u] = [volume |-> o.volume, status |-> o.status]
    BY <1>2, <1>4 DEF ShownBySlots
  <1>8. \A x \in Tracked \ {u} : Shown'[x] = Shown[x]
    <2>1. \A i \in Occupied \ {slot} : Shown'[orders[i].uuid] = Shown[orders[i].uuid]
      BY <1>4, <1>5, SameRow
    <2>2. QED
      BY <1>2, <2>1 DEF Tracked
  <1>9. Shown' = [x \in Tracked' |-> Shown'[x]]
    BY DEF Shown
  <1>10. QED
    BY <1>6, <1>7, <1>8, <1>9, ShownIsItsRows

(* The two updates, by the field they write.                               *)
LEMMA StatusRefines ==
  ASSUME TableInv, ShownBySlots, ShownBySlots', NEW u \in Uuids, NEW s \in Statuses,
         update_order_status(u, s)
  PROVE  /\ Tracked' = Tracked
         /\ Shown' = IF u \in Tracked THEN [Shown EXCEPT ![u].status = s] ELSE Shown
  <1>1. CASE Matches(u) = {}
    <2>1. tableVars' = tableVars
      BY <1>1 DEF update_order_status, tableVars
    <2>2. u \notin Tracked
      BY <1>1 DEF Tracked, Matches
    <2>3. Tracked' = Tracked
      BY <2>1 DEF tableVars, Tracked, Occupied
    <2>4. QED
      BY <2>1, <2>2, <2>3, SameShown
  <1>2. CASE Matches(u) # {}
    <2> DEFINE slot == First(Matches(u))
               o == [orders[slot] EXCEPT !.status = s]
    <2>1. slot \in Occupied /\ orders[slot].uuid = u /\ orders[slot] \in Order
      <3>1. slot \in Matches(u)
        BY <1>2, FirstIsLeast DEF Matches, Occupied
      <3>2. QED
        BY <1>2, <3>1, UpdatedOrder DEF TableInv, Matches
    <2>2. o \in Order /\ o.uuid = u
      BY <2>1 DEF Order
    <2>3. orders' = [orders EXCEPT ![slot] = o]
      BY <1>2 DEF update_order_status
    <2>4. /\ u \in Tracked
          /\ Tracked' = Tracked
          /\ Shown' = [Shown EXCEPT ![u] = [volume |-> o.volume, status |-> o.status]]
      BY <1>2, <2>2, <2>3, UpdateRefines
    <2>5. Shown[u] = [volume |-> orders[slot].volume, status |-> orders[slot].status]
      BY <2>1 DEF ShownBySlots
    <2>6. [volume |-> o.volume, status |-> o.status] = [Shown[u] EXCEPT !.status = s]
      BY <2>1, <2>5 DEF Order
    <2>7. Shown' = [Shown EXCEPT ![u].status = s]
      BY <2>4, <2>6 DEF Shown
    <2>8. QED
      BY <2>4, <2>7
  <1>3. QED
    BY <1>1, <1>2

LEMMA VolumeRefines ==
  ASSUME TableInv, ShownBySlots, ShownBySlots', NEW u \in Uuids, NEW v \in Volumes,
         update_order_volume(u, v)
  PROVE  /\ Tracked' = Tracked
         /\ Shown' = IF u \in Tracked THEN [Shown EXCEPT ![u].volume = v] ELSE Shown
  <1>1. CASE Matches(u) = {}
    <2>1. tableVars' = tableVars
      BY <1>1 DEF update_order_volume, tableVars
    <2>2. u \notin Tracked
      BY <1>1 DEF Tracked, Matches
    <2>3. Tracked' = Tracked
      BY <2>1 DEF tableVars, Tracked, Occupied
    <2>4. QED
      BY <2>1, <2>2, <2>3, SameShown
  <1>2. CASE Matches(u) # {}
    <2> DEFINE slot == First(Matches(u))
               o == [orders[slot] EXCEPT !.volume = v]
    <2>1. slot \in Occupied /\ orders[slot].uuid = u /\ orders[slot] \in Order
      <3>1. slot \in Matches(u)
        BY <1>2, FirstIsLeast DEF Matches, Occupied
      <3>2. QED
        BY <1>2, <3>1, UpdatedOrder DEF TableInv, Matches
    <2>2. o \in Order /\ o.uuid = u
      BY <2>1 DEF Order
    <2>3. orders' = [orders EXCEPT ![slot] = o]
      BY <1>2 DEF update_order_volume
    <2>4. /\ u \in Tracked
          /\ Tracked' = Tracked
          /\ Shown' = [Shown EXCEPT ![u] = [volume |-> o.volume, status |-> o.status]]
      BY <1>2, <2>2, <2>3, UpdateRefines
    <2>5. Shown[u] = [volume |-> orders[slot].volume, status |-> orders[slot].status]
      BY <2>1 DEF ShownBySlots
    <2>6. [volume |-> o.volume, status |-> o.status] = [Shown[u] EXCEPT !.volume = v]
      BY <2>1, <2>5 DEF Order
    <2>7. Shown' = [Shown EXCEPT ![u].volume = v]
      BY <2>4, <2>6 DEF Shown
    <2>8. QED
      BY <2>4, <2>7
  <1>3. QED
    BY <1>1, <1>2

(* What the operations do to the orders listed and their volumes.          *)
LEMMA InsertListed ==
  ASSUME TableInv, TableInv', NEW u \in Uuids \ Tracked, NEW v \in Volumes, NEW s \in Statuses,
         insert_order(u, v, s)
  PROVE  /\ Tracked' = IF size = MaxOrderNum THEN Tracked ELSE Tracked \cup {u}
         /\ size # MaxOrderNum => Shown'[u].volume = v
         /\ \A x \in Tracked : Shown'[x].volume = Shown[x].volume
  <1>1. ShownBySlots /\ ShownBySlots'
    BY ShownRows, PTL
  <1>2. CASE size = MaxOrderNum
    <2>1. Tracked' = Tracked /\ Shown' = Shown
      BY <1>1, <1>2, InsertRefines
    <2>2. QED
      BY <1>2, <2>1
  <1>3. CASE size # MaxOrderNum
    <2> DEFINE row == [volume |-> v, status |-> s]
    <2>1. /\ Tracked' = Tracked \cup {u}
          /\ Shown' = [x \in Tracked \cup {u} |-> IF x = u THEN row ELSE Shown[x]]
      BY <1>1, <1>3, InsertRefines
    <2>2. Shown'[u] = row
      BY <2>1
    <2>3. \A x \in Tracked : x # u /\ Shown'[x] = Shown[x]
      BY <2>1
    <2>4. row.volume = v
      OBVIOUS
    <2>5. QED
      BY <1>3, <2>1, <2>2, <2>3, <2>4
  <1>4. QED
    BY <1>2, <1>3

LEMMA RemoveListed ==
  ASSUME TableInv, TableInv', NEW u \in Uuids, remove_order(u)
  PROVE  /\ Tracked' = Tracked \ {u}
         /\ \A x \in Tracked \ {u} : Shown'[x].volume = Shown[x].volume
  <1>1. ShownBySlots /\ ShownBySlots'
    BY ShownRows, PTL
  <1>2. QED
    BY <1>1, RemoveRefines

LEMMA StatusListed ==
  ASSUME TableInv, TableInv', NEW u \in Uuids, NEW s \in Statuses, update_order_status(u, s)
  PROVE  /\ Tracked' = Tracked
         /\ \A x \in Tracked : Shown'[x].volume = Shown[x].volume
  <1>1. ShownBySlots /\ ShownBySlots'
    BY ShownRows, PTL
  <1>2. \A x \in Tracked : Shown[x].volume = [Shown[x] EXCEPT !.status = s].volume
    BY DEF Shown
  <1>3. /\ Tracked' = Tracked
        /\ Shown' = IF u \in Tracked THEN [Shown EXCEPT ![u].status = s] ELSE Shown
    BY <1>1, StatusRefines
  <1>4. \A x \in Tracked : Shown'[x] = Shown[x] \/ Shown'[x] = [Shown[x] EXCEPT !.status = s]
    BY <1>3 DEF Shown
  <1>5. QED
    BY <1>2, <1>3, <1>4

LEMMA VolumeListed ==
  ASSUME TableInv, TableInv', NEW u \in Uuids, NEW v \in Volumes, update_order_volume(u, v)
  PROVE  /\ Tracked' = Tracked
         /\ \A x \in Tracked : Shown'[x].volume = IF x = u THEN v ELSE Shown[x].volume
  <1>1. ShownBySlots /\ ShownBySlots'
    BY ShownRows, PTL
  <1>2. \A x \in Tracked : [Shown[x] EXCEPT !.volume = v].volume = v
    BY DEF Shown
  <1>3. /\ Tracked' = Tracked
        /\ Shown' = IF u \in Tracked THEN [Shown EXCEPT ![u].volume = v] ELSE Shown
    BY <1>1, VolumeRefines
  <1>4. /\ u \in Tracked => Shown'[u] = [Shown[u] EXCEPT !.volume = v]
        /\ \A x \in Tracked \ {u} : Shown'[x] = Shown[x]
    BY <1>3 DEF Shown
  <1>5. ASSUME NEW x \in Tracked
        PROVE  Shown'[x].volume = IF x = u THEN v ELSE Shown[x].volume
    <2>1. CASE x = u
      BY <1>2, <1>4, <2>1
    <2>2. CASE x # u
      BY <1>4, <2>2
    <2>3. QED
      BY <2>1, <2>2
  <1>6. QED
    BY <1>3, <1>5

(* While an order is tracked it stays in its slot.                         *)
LEMMA OrdersStayPut ==
  ASSUME TableInv, TableInv', [TableNext]_tableVars, NEW i \in Occupied,
         orders[i].uuid \in Tracked'
  PROVE  i \in Occupied' /\ orders'[i].uuid = orders[i].uuid
  <1>0. i \in OrderSlots /\ orders \in [OrderSlots -> Order \cup {Null}]
    BY DEF TableInv, TableTypeOK, Occupied
  <1>7. ShownBySlots /\ ShownBySlots'
    BY ShownRows, PTL
  <1>1. ASSUME NEW u \in Uuids \ Tracked, NEW v \in Volumes, NEW s \in Statuses,
               insert_order(u, v, s)
        PROVE  i \in Occupied' /\ orders'[i].uuid = orders[i].uuid
    <2>1. CASE size = MaxOrderNum
      BY <1>1, <2>1 DEF insert_order, tableVars, Occupied
    <2>2. CASE size # MaxOrderNum
      <3> DEFINE free == First(OrderSlots \ Occupied)
      <3>1. OrderSlots \ Occupied # {}
        BY <2>2, SlotsFinite DEF TableInv, CountersMatchTable, Occupied
      <3>2. free \in OrderSlots \ Occupied
        BY <3>1, FirstIsLeast
      <3>3. orders' = [orders EXCEPT ![free] = [uuid |-> u, volume |-> v, status |-> s]]
        BY <1>1, <2>2 DEF insert_order
      <3> HIDE DEF free
      <3>4. QED
        BY <1>0, <3>2, <3>3 DEF Occupied
    <2>3. QED
      BY <2>1, <2>2
  <1>2. ASSUME NEW u \in Uuids, remove_order(u)
        PROVE  i \in Occupied' /\ orders'[i].uuid = orders[i].uuid
    <2>1. orders[i].uuid # u
      BY <1>2, <1>7, RemoveRefines
    <2>2. Matches(u) # {} => First(Matches(u)) \in Matches(u)
      BY FirstIsLeast DEF Matches, Occupied
    <2>3. orders'[i] = orders[i]
      BY <1>0, <1>2, <2>1, <2>2 DEF remove_order, Matches, tableVars
    <2>4. QED
      BY <2>3 DEF Occupied
  <1>3. ASSUME NEW u \in Uuids, NEW s \in Statuses, update_order_status(u, s)
        PROVE  i \in Occupied' /\ orders'[i].uuid = orders[i].uuid
    <2>1. CASE Matches(u) = {}
      BY <1>3, <2>1 DEF update_order_status, Occupied
    <2>2. CASE Matches(u) # {}
      <3> DEFINE slot == First(Matches(u))
                 o == [orders[slot] EXCEPT !.status = s]
      <3>1. slot \in Occupied /\ o # Null /\ o.uuid = orders[slot].uuid
        BY <2>2, UpdatedOrder DEF TableInv
      <3>2. orders' = [orders EXCEPT ![slot] = o]
        BY <1>3, <2>2 DEF update_order_status
      <3> HIDE DEF slot, o
      <3>3. QED
        BY <1>0, <3>1, <3>2 DEF Occupied
    <2>3. QED
      BY <2>1, <2>2
  <1>4. ASSUME NEW u \in Uuids, NEW v \in Volumes, update_order_volume(u, v)
        PROVE  i \in Occupied' /\ orders'[i].uuid = orders[i].uuid
    <2>1. CASE Matches(u) = {}
      BY <1>4, <2>1 DEF update_order_volume, Occupied
    <2>2. CASE Matches(u) # {}
      <3> DEFINE slot == First(Matches(u))
                 o == [orders[slot] EXCEPT !.volume = v]
      <3>1. slot \in Occupied /\ o # Null /\ o.uuid = orders[slot].uuid
        BY <2>2, UpdatedOrder DEF TableInv
      <3>2. orders' = [orders EXCEPT ![slot] = o]
        BY <1>4, <2>2 DEF update_order_volume
      <3> HIDE DEF slot, o
      <3>3. QED
        BY <1>0, <3>1, <3>2 DEF Occupied
    <2>3. QED
      BY <2>1, <2>2
  <1>5. CASE UNCHANGED tableVars
    BY <1>5 DEF tableVars, Occupied
  <1>8. QED
    BY <1>1, <1>2, <1>3, <1>4, <1>5 DEF TableNext

(* Every step of the table is a step of the map, or leaves it as it is.    *)
LEMMA TableRefines ==
  TableInv /\ TableInv' /\ [TableNext]_tableVars => View!TrackedNext \/ UNCHANGED Shown
  <1> SUFFICES ASSUME TableInv, TableInv', [TableNext]_tableVars
               PROVE  View!TrackedNext \/ UNCHANGED Shown
    OBVIOUS
  <1>1. ShownBySlots /\ ShownBySlots'
    BY ShownRows, PTL
  <1>2. ASSUME NEW u \in Uuids \ Tracked, NEW v \in Volumes, NEW s \in Statuses,
               insert_order(u, v, s)
        PROVE  View!Track(u, v, s) \/ UNCHANGED Shown
    <2>1. View!Cardinality(Tracked) = Cardinality(Tracked)
      BY DEF View!Cardinality, Cardinality
    <2>2. CASE UNCHANGED Shown
      BY <2>2
    <2>3. CASE ~ UNCHANGED Shown
      <3>1. /\ u \notin DOMAIN Shown
            /\ View!Cardinality(DOMAIN Shown) < MaxOrderNum
            /\ Shown' = [x \in DOMAIN Shown \cup {u} |->
                           IF x = u THEN [volume |-> v, status |-> s] ELSE Shown[x]]
        BY <1>1, <1>2, <2>1, <2>3, InsertRefines DEF ShownBySlots
      <3>2. QED
        BY <3>1 DEF View!Track, Shown
    <2>4. QED
      BY <2>2, <2>3
  <1>3. ASSUME NEW u \in Uuids, remove_order(u)
        PROVE  View!Untrack(u) \/ UNCHANGED Shown
    <2>1. Shown' = [x \in Tracked \ {u} |-> Shown[x]]
      BY <1>1, <1>3, RemoveRefines
    <2>2. CASE u \in Tracked
      BY <2>1, <2>2 DEF View!Untrack, Shown
    <2>3. CASE u \notin Tracked
      BY <2>1, <2>3, ShownIsItsRows
    <2>4. QED
      BY <2>2, <2>3
  <1>4. ASSUME NEW u \in Uuids, NEW s \in Statuses, update_order_status(u, s)
        PROVE  View!Restate(u, s) \/ UNCHANGED Shown
    <2>1. Shown' = IF u \in Tracked THEN [Shown EXCEPT ![u].status = s] ELSE Shown
      BY <1>1, <1>4, StatusRefines
    <2>2. QED
      BY <2>1 DEF View!Restate, Shown
  <1>5. ASSUME NEW u \in Uuids, NEW v \in Volumes, update_order_volume(u, v)
        PROVE  View!Refill(u, v) \/ UNCHANGED Shown
    <2>1. Shown' = IF u \in Tracked THEN [Shown EXCEPT ![u].volume = v] ELSE Shown
      BY <1>1, <1>5, VolumeRefines
    <2>2. QED
      BY <2>1 DEF View!Refill, Shown
  <1>6. CASE UNCHANGED tableVars
    BY <1>6, SameShown
  <1>7. QED
    BY <1>2, <1>3, <1>4, <1>5, <1>6 DEF TableNext, View!TrackedNext

LEMMA ViewInit == TableInit => View!TrackedInit
  BY DEF TableInit, View!TrackedInit, Tracked, Occupied

(* The table of slots implements the map from order ids to orders, which   *)
(* is what the rest of the program takes it for.                           *)
THEOREM TableIsAMap == TableSpec => ImplementsTracked
  <1>1. TableInv /\ TableInv' /\ [TableNext]_tableVars => [View!TrackedNext]_Shown
    BY TableRefines
  <1>2. QED
    BY <1>1, ViewInit, TableInvariant, PTL
    DEF TableSpec, ImplementsTracked, View!TrackedSpec, Shown
=============================================================================
