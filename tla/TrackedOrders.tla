---------------------------- MODULE TrackedOrders ----------------------------
(***************************************************************************)
(* What order_handler.c is for: the program's view of its open orders, a   *)
(* partial map from the exchange's order ids to what is known of the       *)
(* order, with room for Capacity of them.  OrderTable implements it.       *)
(***************************************************************************)
EXTENDS Naturals, FiniteSets

CONSTANTS Capacity, Uuids, Statuses, Volumes

VARIABLE tracked   \* [a subset of Uuids -> status and volume]

TrackedInit == DOMAIN tracked = {}

Track(u, v, s) ==
  /\ u \notin DOMAIN tracked
  /\ Cardinality(DOMAIN tracked) < Capacity
  /\ tracked' = [x \in DOMAIN tracked \cup {u} |->
                   IF x = u THEN [volume |-> v, status |-> s] ELSE tracked[x]]

Untrack(u) ==
  /\ u \in DOMAIN tracked
  /\ tracked' = [x \in DOMAIN tracked \ {u} |-> tracked[x]]

Restate(u, s) ==
  /\ u \in DOMAIN tracked
  /\ tracked' = [tracked EXCEPT ![u].status = s]

Refill(u, v) ==
  /\ u \in DOMAIN tracked
  /\ tracked' = [tracked EXCEPT ![u].volume = v]

TrackedNext ==
  \E u \in Uuids :
    \/ \E v \in Volumes, s \in Statuses : Track(u, v, s)
    \/ Untrack(u)
    \/ \E s \in Statuses : Restate(u, s)
    \/ \E v \in Volumes : Refill(u, v)

TrackedSpec == TrackedInit /\ [][TrackedNext]_tracked
=============================================================================
