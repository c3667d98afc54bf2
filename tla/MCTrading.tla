----------------------------- MODULE MCTrading -----------------------------
(* Instances of Trading for TLC.                                           *)
EXTENDS Trading, TLC

(* Requests of one kind, and order ids, are interchangeable.               *)
Interchangeable == Permutations(Places) \cup Permutations(Cancels) \cup Permutations(Uuids)
=============================================================================
