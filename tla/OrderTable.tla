----------------------------- MODULE OrderTable -----------------------------
(***************************************************************************)
(* The table of the program's open orders, src/order_handler.c: an array   *)
(* of MAX_ORDER_NUM slots, its size, and two atomic flags that the user    *)
(* interface reads without the lock.                                       *)
(*                                                                         *)
(* insert_order, remove_order, update_order_status and update_order_volume *)
(* run from their first statement to their last with order_mtx held, so    *)
(* each is one action.  They are called by the workers (REST responses)    *)
(* and by the private websocket thread (order events), with any uuid the   *)
(* exchange mentions, tracked or not.  Of an order the table keeps what    *)
(* the program later changes or compares: uuid, volume and status.         *)
(*                                                                         *)
(* The flags are stored at points of their own inside the two operations,  *)
(* and menu_ui reads them there without the lock.  An operation stores at  *)
(* most one of them, for with ten slots no insertion makes an empty table  *)
(* full and no removal a full one empty; size and slots are reached only   *)
(* with the lock.  So the action stands at the store of the flag: who read *)
(* the flag earlier ran before it, who read it later after it.             *)
(***************************************************************************)
EXTENDS Naturals, FiniteSets

CONSTANTS MaxOrderNum,  \* MAX_ORDER_NUM
          Uuids,        \* order ids given out by the exchange
          Statuses,     \* order states named by the exchange
          Volumes,      \* remaining volumes
          Null          \* the empty slot

ASSUME TableAssumption ==
  /\ MaxOrderNum \in Nat \ {0}
  /\ Null \notin [uuid : Uuids, volume : Volumes, status : Statuses]

OrderSlots == 0..(MaxOrderNum - 1)
Order == [uuid : Uuids, volume : Volumes, status : Statuses]

VARIABLES orders,    \* g_my_orders->orders
          size,      \* g_my_orders->size
          is_full,   \* g_my_orders->is_full
          is_empty   \* g_my_orders->is_empty

tableVars == <<orders, size, is_full, is_empty>>

Occupied == {i \in OrderSlots : orders[i] # Null}
Tracked == {orders[i].uuid : i \in Occupied}

(* The first slot that satisfies P, for the loops over the array.          *)
First(S) == CHOOSE i \in S : \A j \in S : i <= j

(* The slot a search by uuid stops at.                                     *)
Matches(u) == {i \in Occupied : orders[i].uuid = u}

TableInit ==
  /\ orders = [i \in OrderSlots |-> Null]
  /\ size = 0
  /\ is_full = FALSE
  /\ is_empty = TRUE

(* Mutated: the loop takes the first slot without looking into it.         *)
insert_order_unchecked(u, v, s) ==
  /\ size # MaxOrderNum
  /\ orders' = [orders EXCEPT ![0] = [uuid |-> u, volume |-> v, status |-> s]]
  /\ size' = size + 1
  /\ is_empty' = FALSE
  /\ is_full' = (size + 1 = MaxOrderNum)

(* Mutated: newest first, the orders in front of the free slot move down.  *)
insert_order_newest_first(u, v, s) ==
  /\ size # MaxOrderNum
  /\ orders' = [i \in OrderSlots |->
                  CASE i = 0 -> [uuid |-> u, volume |-> v, status |-> s]
                    [] i > 0 /\ i <= First(OrderSlots \ Occupied) -> orders[i - 1]
                    [] OTHER -> orders[i]]
  /\ size' = size + 1
  /\ is_empty' = FALSE
  /\ is_full' = (size + 1 = MaxOrderNum)

insert_order(u, v, s) ==
  \/ /\ size = MaxOrderNum
     /\ UNCHANGED tableVars
  \/ /\ size # MaxOrderNum
     /\ orders' = [orders EXCEPT ![First(OrderSlots \ Occupied)] =
                     [uuid |-> u, volume |-> v, status |-> s]]
     /\ size' = size + 1
     /\ is_empty' = IF size = 0 THEN FALSE ELSE is_empty
     /\ is_full' = IF size + 1 = MaxOrderNum THEN TRUE ELSE is_full

(* Mutated: size is decremented for an order that is not in the table.     *)
remove_order_uncounted(u) ==
  /\ size # 0
  /\ orders' = [i \in OrderSlots |-> IF i \in Matches(u) THEN Null ELSE orders[i]]
  /\ size' = size - 1
  /\ is_full' = FALSE
  /\ is_empty' = (size' = 0)

(* The full flag is cleared before the table is searched, whether or not   *)
(* the order is in it.                                                     *)
remove_order(u) ==
  \/ /\ size = 0
     /\ UNCHANGED tableVars
  \/ /\ size # 0
     /\ IF Matches(u) = {}
        THEN UNCHANGED <<orders, size>>
        ELSE /\ orders' = [orders EXCEPT ![First(Matches(u))] = Null]
             /\ size' = size - 1
     /\ is_full' = IF size = MaxOrderNum THEN FALSE ELSE is_full
     /\ is_empty' = IF size' = 0 THEN TRUE ELSE is_empty

update_order_status(u, s) ==
  /\ orders' = IF Matches(u) = {} THEN orders
               ELSE [orders EXCEPT ![First(Matches(u))].status = s]
  /\ UNCHANGED <<size, is_full, is_empty>>

update_order_volume(u, v) ==
  /\ orders' = IF Matches(u) = {} THEN orders
               ELSE [orders EXCEPT ![First(Matches(u))].volume = v]
  /\ UNCHANGED <<size, is_full, is_empty>>

(* The exchange gives every order an id of its own, and one response to    *)
(* place_order mentions it: an id is not inserted while it is tracked.     *)
TableNext ==
  \/ \E u \in Uuids \ Tracked, v \in Volumes, s \in Statuses : insert_order(u, v, s)
  \/ \E u \in Uuids : remove_order(u)
  \/ \E u \in Uuids, s \in Statuses : update_order_status(u, s)
  \/ \E u \in Uuids, v \in Volumes : update_order_volume(u, v)

TableSpec == TableInit /\ [][TableNext]_tableVars

-----------------------------------------------------------------------------
(* PROPERTIES                                                              *)

(* Every variable has its type.                                            *)
TableTypeOK ==
  /\ orders \in [OrderSlots -> Order \cup {Null}]
  /\ size \in 0..MaxOrderNum
  /\ is_full \in BOOLEAN
  /\ is_empty \in BOOLEAN

(* The counter and the flags that the operations maintain by increments    *)
(* agree with the array: size is the number of orders in it (so            *)
(* insert_order always finds a free slot when size is below the maximum    *)
(* and never writes behind the array), is_empty says exactly that there is *)
(* none, and is_full is never raised while there is room.                  *)
CountersMatchTable ==
  /\ size = Cardinality(Occupied)
  /\ is_empty <=> Occupied = {}
  /\ is_full => Occupied = OrderSlots

(* No order is in two slots: remove_order and the updates, which stop at   *)
(* the first match, leave no second copy behind.                           *)
OneSlotPerOrder ==
  \A i, j \in Occupied : orders[i].uuid = orders[j].uuid => i = j

(* All of this is inductive: each of the three parts needs the others.  The *)
(* free slot that insert_order relies on exists because size counts the    *)
(* occupied slots, and size counts them because a removal, which stops at  *)
(* the first match, empties one slot.                                      *)
TableInv == TableTypeOK /\ CountersMatchTable /\ OneSlotPerOrder

(* The slot by slot table is a map from order ids to orders: an insertion  *)
(* loses no other order, a removal takes away exactly the named one, an    *)
(* update touches no other.                                                *)
View == INSTANCE TrackedOrders WITH
          Capacity <- MaxOrderNum,
          tracked <- [u \in Tracked |->
                        LET o == orders[First(Matches(u))]
                        IN  [volume |-> o.volume, status |-> o.status]]

ImplementsTracked == View!TrackedSpec
=============================================================================
