--------------------------- MODULE MCRedBlackTree ---------------------------
(* An instance of RedBlackTree for TLC.                                    *)
EXTENDS RedBlackPrint

(* Eight keys, so that a removal meets subtrees of black height two on both*)
(* sides; neighbours have different data, and two keys may have either.    *)
EightPairs ==
  {<<k, IF k % 2 = 0 THEN "even" ELSE "odd">> : k \in 1..8} \cup {<<2, "odd">>, <<5, "even">>}
=============================================================================
