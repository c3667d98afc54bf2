----------------------------- MODULE OrderedMap -----------------------------
(***************************************************************************)
(* What a search tree promises its caller: a partial function from keys to *)
(* data that does what it was last asked to do, and nothing else.          *)
(***************************************************************************)
EXTENDS Integers

CONSTANTS Keys, Data

VARIABLES map,   \* the pairs in the tree
          asked  \* the operation last asked for, with its arguments

Without(k) == [x \in DOMAIN map \ {k} |-> map[x]]

MapInit == map = << >> /\ asked = <<"create">>

Insert(k, d) ==
  /\ asked' = <<"insert", k, d>>
  /\ map' = [x \in DOMAIN map \cup {k} |-> IF x = k THEN d ELSE map[x]]

Remove(k) ==
  /\ asked' = <<"remove", k>>
  /\ map' = Without(k)

RemoveMin ==
  /\ asked' = <<"remove_min">>
  /\ \E k \in DOMAIN map : (\A x \in DOMAIN map : k <= x) /\ map' = Without(k)

RemoveMax ==
  /\ asked' = <<"remove_max">>
  /\ \E k \in DOMAIN map : (\A x \in DOMAIN map : x <= k) /\ map' = Without(k)

(* Emptying the map takes one pair after the other, in any order.          *)
RemoveAll ==
  /\ asked' = <<"remove_tree">>
  /\ \E k \in DOMAIN map : map' = Without(k)

MapNext ==
  \/ \E k \in Keys, d \in Data : Insert(k, d)
  \/ \E k \in Keys : Remove(k)
  \/ RemoveMin \/ RemoveMax \/ RemoveAll

MapSpec == MapInit /\ [][MapNext]_<<map, asked>>
=============================================================================
