------------------------- MODULE RedBlackTreeProofs -------------------------
(* Proofs about the red-black tree, for any finite set of pairs with       *)
(* integer keys: however its operations follow each other, the tree stays  *)
(* a red-black search tree, is a map, and frees what it drops.             *)
(*                                                                         *)
(* The operations are recursive functions, and what such a function does   *)
(* is proved by induction over the nodes below: an insertion or a removal  *)
(* is followed one step down, and is right there if it is right for the    *)
(* subtree it goes on with.                                                *)
EXTENDS RedBlackTree, FiniteSetTheorems, NaturalsInduction, WellFoundedInduction, TLAPS

(* Induction for a set of numbers.                                         *)
LEMMA NumbersInduction ==
  ASSUME NEW S \in SUBSET Nat, 0 \in S, \A n \in S : n + 1 \in S
  PROVE  S = Nat
  <1> DEFINE T == Nat \ S
             less == OpToRel(<, Nat)
  <1> SUFFICES ASSUME T # {} PROVE FALSE
    OBVIOUS
  <1>1. PICK x \in T : \A y \in T : <<y, x>> \notin less
    <2>1. T \subseteq Nat
      OBVIOUS
    <2> HIDE DEF T
    <2> QED
      BY <2>1, WFMin, NatLessThanWellFounded
  <1>2. x \in Nat /\ x # 0 /\ x - 1 \in Nat /\ x - 1 < x
    OBVIOUS
  <1>3. x - 1 \notin T
    BY <1>1, <1>2 DEF OpToRel
  <1>4. x - 1 \in S
    BY <1>2, <1>3
  <1>5. x - 1 + 1 = x
    BY <1>2
  <1> QED
    BY <1>4, <1>5

(* Induction by a measure.                                                 *)
Hereditary(D, m, S) == \A x \in D : (\A y \in D : m[y] < m[x] => y \in S) => x \in S

(* What descends has an end, so a hereditary property holds everywhere.    *)
LEMMA Descent ==
  ASSUME NEW D, NEW m \in [D -> Nat], NEW S \in SUBSET D, Hereditary(D, m, S)
  PROVE  S = D
  <1> DEFINE Below(n) == \A y \in D : m[y] < n => y \in S
             N == {n \in Nat : Below(n)}
  <1>1. Below(0)
    OBVIOUS
  <1>2. ASSUME NEW n \in Nat, Below(n)
        PROVE  Below(n + 1)
    <2> SUFFICES ASSUME NEW x \in D, m[x] < n + 1
                 PROVE  x \in S
      OBVIOUS
    <2>1. m[x] \in Nat /\ m[x] <= n
      OBVIOUS
    <2>2. \A y \in D : m[y] < m[x] => y \in S
      <3> SUFFICES ASSUME NEW y \in D, m[y] < m[x]
                   PROVE  y \in S
        OBVIOUS
      <3>1. m[y] \in Nat /\ m[y] < n
        BY <2>1
      <3> QED
        BY <1>2, <3>1
    <2> QED
      BY <2>2 DEF Hereditary
  <1> HIDE DEF Below
  <1>3. N \in SUBSET Nat /\ 0 \in N /\ \A n \in N : n + 1 \in N
    BY <1>1, <1>2
  <1>4. N = Nat
    <2> HIDE DEF N
    <2> QED
      BY <1>3, NumbersInduction
  <1>5. ASSUME NEW x \in D
        PROVE  x \in S
    <2>1. m[x] \in Nat /\ m[x] + 1 \in Nat /\ m[x] < m[x] + 1
      OBVIOUS
    <2>2. Below(m[x] + 1)
      BY <1>4, <2>1
    <2> QED
      BY <2>1, <2>2 DEF Below
  <1> QED
    BY <1>5

(* A function may be defined by a recursion that descends.                 *)
Descends(D, V, m, G) ==
  \A x \in D : \A f \in [D -> V], g \in [D -> V] :
    (\A y \in D : m[y] < m[x] => f[y] = g[y]) => G[x][f] = G[x][g]

Recursive(D, V, m, G) ==
  /\ V # {} /\ m \in [D -> Nat] /\ G \in [D -> [[D -> V] -> V]]
  /\ Descends(D, V, m, G)

Solvable(D, V, G) == \E f \in [D -> V] : \A x \in D : f[x] = G[x][f]

(* The solution is the limit of functions that are right up to a measure.  *)
LEMMA Recursion ==
  ASSUME NEW D, NEW V, NEW m, NEW G, Recursive(D, V, m, G)
  PROVE  Solvable(D, V, G)
  <1> USE DEF Recursive, Solvable
  <1> SUFFICES ASSUME NEW v \in V, m \in [D -> Nat], G \in [D -> [[D -> V] -> V]],
                      Descends(D, V, m, G)
               PROVE  \E f \in [D -> V] : \A x \in D : f[x] = G[x][f]
    OBVIOUS
  <1> HIDE DEF Recursive, Solvable
  <1> DEFINE Solves(f, n) == \A x \in D : m[x] < n => f[x] = G[x][f]
             Next(f) == [x \in D |-> G[x][f]]
             N == {n \in Nat : \E f \in [D -> V] : Solves(f, n)}
  <1>1. ASSUME NEW f \in [D -> V]
        PROVE  Next(f) \in [D -> V]
    OBVIOUS
  <1>2. ASSUME NEW f \in [D -> V], NEW n \in Nat, Solves(f, n)
        PROVE  Solves(Next(f), n + 1)
    <2> SUFFICES ASSUME NEW x \in D, m[x] < n + 1
                 PROVE  G[x][f] = G[x][Next(f)]
      OBVIOUS
    <2>1. \A y \in D : m[y] < m[x] => f[y] = Next(f)[y]
      <3> SUFFICES ASSUME NEW y \in D, m[y] < m[x]
                   PROVE  f[y] = G[y][f]
        OBVIOUS
      <3>1. m[y] \in Nat /\ m[x] \in Nat /\ m[y] < n
        OBVIOUS
      <3> QED
        BY <1>2, <3>1
    <2> DEFINE g == Next(f)
    <2>2. g \in [D -> V] /\ \A y \in D : m[y] < m[x] => f[y] = g[y]
      BY <1>1, <2>1
    <2> HIDE DEF g
    <2>3. G[x][f] = G[x][g]
      BY <2>2 DEF Descends
    <2> QED
      BY <2>3 DEF g
  <1> HIDE DEF Next
  <1>3. N \in SUBSET Nat /\ 0 \in N /\ \A n \in N : n + 1 \in N
    <2>1. [x \in D |-> v] \in [D -> V] /\ Solves([x \in D |-> v], 0)
      OBVIOUS
    <2>2. ASSUME NEW n \in Nat, NEW f \in [D -> V], Solves(f, n)
          PROVE  \E g \in [D -> V] : Solves(g, n + 1)
      BY <1>1, <1>2, <2>2
    <2> HIDE DEF Solves
    <2> QED
      BY <2>1, <2>2
  <1>4. N = Nat
    <2> HIDE DEF N
    <2> QED
      BY <1>3, NumbersInduction
  (* Two solutions agree as far as both are solutions. *)
  <1>5. ASSUME NEW f \in [D -> V], NEW g \in [D -> V], NEW n \in Nat, Solves(f, n), Solves(g, n)
        PROVE  \A x \in D : m[x] < n => f[x] = g[x]
    <2> DEFINE S == {x \in D : m[x] < n => f[x] = g[x]}
    <2>1. ASSUME NEW x \in D, \A y \in D : m[y] < m[x] => y \in S
          PROVE  x \in S
      <3> SUFFICES ASSUME m[x] < n
                   PROVE  f[x] = g[x]
        OBVIOUS
      <3>1. \A y \in D : m[y] < m[x] => f[y] = g[y]
        <4> SUFFICES ASSUME NEW y \in D, m[y] < m[x]
                     PROVE  f[y] = g[y]
          OBVIOUS
        <4>1. m[y] \in Nat /\ m[x] \in Nat /\ m[y] < n
          OBVIOUS
        <4> QED
          BY <2>1, <4>1
      <3>2. G[x][f] = G[x][g]
        BY <3>1 DEF Descends
      <3>3. f[x] = G[x][f] /\ g[x] = G[x][g]
        BY <1>5
      <3> QED
        BY <3>2, <3>3
    <2>2. S \in SUBSET D /\ Hereditary(D, m, S)
      BY <2>1 DEF Hereditary
    <2>3. S = D
      <3> HIDE DEF S
      <3> QED
        BY <2>2, Descent
    <2> QED
      BY <2>3
  <1> DEFINE Some(n) == CHOOSE f \in [D -> V] : Solves(f, n)
             F == [x \in D |-> Some(m[x] + 1)[x]]
  <1>6. ASSUME NEW n \in Nat
        PROVE  Some(n) \in [D -> V] /\ Solves(Some(n), n)
    <2>1. \E f \in [D -> V] : Solves(f, n)
      BY <1>4
    <2> HIDE DEF Solves
    <2> QED
      BY <2>1
  <1>7. F \in [D -> V]
    <2>1. ASSUME NEW x \in D
          PROVE  Some(m[x] + 1)[x] \in V
      <3>1. m[x] + 1 \in Nat
        OBVIOUS
      <3> HIDE DEF Some
      <3> QED
        BY <1>6, <3>1
    <2> HIDE DEF Some
    <2> QED
      BY <2>1
  <1> HIDE DEF Some
  <1>8. ASSUME NEW x \in D
        PROVE  F[x] = G[x][F]
    <2> DEFINE f == Some(m[x] + 1)
    <2>1. m[x] \in Nat /\ m[x] + 1 \in Nat /\ m[x] < m[x] + 1
      OBVIOUS
    <2>2. f \in [D -> V] /\ Solves(f, m[x] + 1)
      BY <1>6, <2>1
    <2>3. F[x] = f[x]
      OBVIOUS
    <2> HIDE DEF f
    <2>4. f[x] = G[x][f]
      BY <2>1, <2>2
    <2>5. ASSUME NEW y \in D, m[y] < m[x]
          PROVE  f[y] = F[y]
      <3> DEFINE h == Some(m[y] + 1)
      <3>1. m[y] \in Nat /\ m[y] + 1 \in Nat /\ m[y] < m[y] + 1 /\ m[y] + 1 <= m[x] + 1
        BY <2>1, <2>5
      <3>2. h \in [D -> V] /\ Solves(h, m[y] + 1)
        BY <1>6, <3>1
      <3>3. F[y] = h[y]
        OBVIOUS
      <3> HIDE DEF h, F
      <3>4. Solves(f, m[y] + 1)
        <4> SUFFICES ASSUME NEW z \in D, m[z] < m[y] + 1
                     PROVE  f[z] = G[z][f]
          OBVIOUS
        <4>1. m[z] \in Nat /\ m[z] < m[x] + 1
          BY <2>1, <3>1
        <4> QED
          BY <2>2, <4>1
      <3> HIDE DEF Solves
      <3> QED
        BY <1>5, <2>2, <3>1, <3>2, <3>3, <3>4
    <2> HIDE DEF F
    <2>6. G[x][f] = G[x][F]
      BY <1>7, <2>2, <2>5 DEF Descends
    <2> QED
      BY <2>3, <2>4, <2>6
  <1> HIDE DEF F
  <1> QED
    BY <1>7, <1>8

-----------------------------------------------------------------------------
(* TREES                                                                   *)

(* One level more.                                                         *)
Grown(T) ==
  {Null} \cup [key : Keys, data : Data, red : BOOLEAN, size : Nat, left : T, right : T]

(* TreesUpTo is a recursive function, so it has to be shown to exist.      *)
LEMMA LevelsExist ==
  \E f : f = [h \in Nat |-> IF h = 0 THEN {Null} ELSE Grown(f[h - 1])]
  <1> DEFINE Is(f, n) == f = [h \in 0..n |-> IF h = 0 THEN {Null} ELSE Grown(f[h - 1])]
             N == {n \in Nat : \E f : Is(f, n)}
  <1>1. \E f : Is(f, 0)
    <2>1. Is([h \in 0..0 |-> {Null}], 0)
      OBVIOUS
    <2> QED
      BY <2>1
  <1>2. ASSUME NEW n \in Nat, NEW f, Is(f, n)
        PROVE  \E g : Is(g, n + 1)
    <2> DEFINE g == [h \in 0..(n + 1) |-> IF h = n + 1 THEN Grown(f[n]) ELSE f[h]]
    <2>1. \A h \in 0..n : f[h] = IF h = 0 THEN {Null} ELSE Grown(f[h - 1])
      BY <1>2, Zenon
    <2>2. ASSUME NEW h \in 0..(n + 1)
          PROVE  g[h] = IF h = 0 THEN {Null} ELSE Grown(g[h - 1])
      <3>1. CASE h = n + 1
        <4>1. h # 0 /\ h - 1 = n /\ n \in 0..(n + 1) /\ n # n + 1
          BY <3>1
        <4> QED
          BY <3>1, <4>1
      <3>2. CASE h # n + 1
        <4>1. h \in 0..n /\ (h # 0 => h - 1 \in 0..(n + 1) /\ h - 1 # n + 1)
          BY <3>2
        <4> QED
          BY <2>1, <3>2, <4>1
      <3> QED
        BY <3>1, <3>2
    <2>3. g = [h \in 0..(n + 1) |-> IF h = 0 THEN {Null} ELSE Grown(g[h - 1])]
      <3>1. g = [h \in 0..(n + 1) |-> g[h]]
        OBVIOUS
      <3> HIDE DEF g
      <3> QED
        BY <2>2, <3>1, Zenon
    <2> QED
      BY <2>3
  <1> HIDE DEF Is
  <1>3. N \in SUBSET Nat /\ 0 \in N /\ \A n \in N : n + 1 \in N
    BY <1>1, <1>2
  <1>4. N = Nat
    <2> HIDE DEF N
    <2> QED
      BY <1>3, NumbersInduction
  <1> DEFINE L(n) == CHOOSE f : Is(f, n)
             F == [n \in Nat |-> L(n)[n]]
  <1>5. ASSUME NEW n \in Nat
        PROVE  Is(L(n), n)
    <2>1. \E f : Is(f, n)
      BY <1>4
    <2> QED
      BY <2>1
  <1> HIDE DEF L
  <1>6. ASSUME NEW n \in Nat
        PROVE  \A h \in 0..n : L(n)[h] = IF h = 0 THEN {Null} ELSE Grown(L(n)[h - 1])
    BY <1>5, Zenon DEF Is
  <1>7. ASSUME NEW n \in Nat
        PROVE  \A h \in 0..n : L(n)[h] = L(n + 1)[h]
    <2> DEFINE S == {h \in Nat : h <= n => L(n)[h] = L(n + 1)[h]}
    <2>1. 0 \in S
      <3>1. 0 \in 0..n /\ 0 \in 0..(n + 1) /\ n + 1 \in Nat
        OBVIOUS
      <3>2. L(n)[0] = {Null} /\ L(n + 1)[0] = {Null}
        BY <1>6, <3>1
      <3> QED
        BY <3>2
    <2>2. ASSUME NEW h \in S
          PROVE  h + 1 \in S
      <3> SUFFICES ASSUME h + 1 <= n
                   PROVE  L(n)[h + 1] = L(n + 1)[h + 1]
        OBVIOUS
      <3>1. h \in Nat /\ L(n)[h] = L(n + 1)[h]
        OBVIOUS
      <3> HIDE DEF S
      <3>2. PICK k \in 0..n : k = h + 1 /\ k # 0 /\ k - 1 = h /\ k \in 0..(n + 1) /\ n + 1 \in Nat
        BY <3>1
      <3>3. L(n)[k] = Grown(L(n)[k - 1])
        BY <1>6, <3>2
      <3>4. L(n + 1)[k] = Grown(L(n + 1)[k - 1])
        BY <1>6, <3>2
      <3> QED
        BY <3>1, <3>2, <3>3, <3>4
    <2>3. S \in SUBSET Nat
      OBVIOUS
    <2>4. S = Nat
      <3> HIDE DEF S
      <3> QED
        BY <2>1, <2>2, <2>3, NumbersInduction
    <2> QED
      BY <2>4
  <1>8. ASSUME NEW h \in Nat
        PROVE  F[h] = IF h = 0 THEN {Null} ELSE Grown(F[h - 1])
    <2>1. CASE h = 0
      <3>1. 0 \in 0..0
        OBVIOUS
      <3>2. L(0)[0] = {Null}
        BY <1>6, <3>1
      <3> QED
        BY <2>1, <3>2
    <2>2. CASE h # 0
      <3>1. h - 1 \in Nat /\ h - 1 + 1 = h /\ h \in 0..h /\ h - 1 \in 0..(h - 1)
        BY <2>2
      <3>2. L(h)[h] = Grown(L(h)[h - 1])
        BY <1>6, <2>2, <3>1
      <3>3. L(h - 1)[h - 1] = L(h - 1 + 1)[h - 1]
        BY <1>7, <3>1
      <3>4. F[h - 1] = L(h)[h - 1]
        BY <3>1, <3>3
      <3> QED
        BY <2>2, <3>1, <3>2, <3>4
    <2> QED
      BY <2>1, <2>2
  <1>9. F = [h \in Nat |-> IF h = 0 THEN {Null} ELSE Grown(F[h - 1])]
    <2>1. F = [h \in Nat |-> F[h]]
      OBVIOUS
    <2> HIDE DEF F
    <2> QED
      BY <1>8, <2>1, Zenon
  <1> QED
    BY <1>9

(* What TreesUpTo is, level by level.                                      *)
LEMMA Levels ==
  /\ TreesUpTo[0] = {Null}
  /\ \A h \in Nat : TreesUpTo[h + 1] = Grown(TreesUpTo[h])
  <1> DEFINE Is(f) == f = [h \in Nat |-> IF h = 0 THEN {Null} ELSE Grown(f[h - 1])]
  <1>1. TreesUpTo = CHOOSE f : Is(f)
    BY Zenon DEF TreesUpTo, Grown
  <1>2. Is(TreesUpTo)
    <2>1. \E f : Is(f)
      BY LevelsExist
    <2> HIDE DEF Is
    <2> QED
      BY <1>1, <2>1
  <1>3. \A h \in Nat : TreesUpTo[h] = IF h = 0 THEN {Null} ELSE Grown(TreesUpTo[h - 1])
    BY <1>2, Zenon
  <1>4. ASSUME NEW h \in Nat
        PROVE  TreesUpTo[h + 1] = Grown(TreesUpTo[h])
    <2>1. h + 1 \in Nat /\ h + 1 # 0 /\ h + 1 - 1 = h
      OBVIOUS
    <2>2. TreesUpTo[h + 1] = Grown(TreesUpTo[h + 1 - 1])
      BY <1>3, <2>1
    <2> QED
      BY <2>1, <2>2
  <1> QED
    BY <1>3, <1>4

LEMMA NullIsNoNode ==
  ASSUME NEW T, NEW n \in [key : Keys, data : Data, red : BOOLEAN, size : Nat, left : T, right : T]
  PROVE  n # Null
  <1>1. DOMAIN n = {"key", "data", "red", "size", "left", "right"}
    OBVIOUS
  <1>2. DOMAIN Null = {}
    BY DEF Null
  <1> QED
    BY <1>1, <1>2

(* All the trees, and those with a node.                                   *)
Tree == UNION {TreesUpTo[h] : h \in Nat}
Node == [key : Keys, data : Data, red : BOOLEAN, size : Nat, left : Tree, right : Tree]

(* A tree of few levels is also one of at most more.                       *)
LEMMA LevelsGrow ==
  ASSUME NEW h \in Nat, NEW g \in Nat, h <= g
  PROVE  TreesUpTo[h] \subseteq TreesUpTo[g]
  <1> DEFINE Up(n) == TreesUpTo[n] \subseteq TreesUpTo[n + 1]
             N == {n \in Nat : Up(n)}
             P == {n \in Nat : TreesUpTo[h] \subseteq TreesUpTo[h + n]}
  <1>1. Up(0)
    <2>1. TreesUpTo[0] = {Null} /\ TreesUpTo[0 + 1] = Grown(TreesUpTo[0])
      BY Levels
    <2> QED
      BY <2>1 DEF Grown
  <1>2. ASSUME NEW n \in Nat, Up(n)
        PROVE  Up(n + 1)
    <2> DEFINE T == TreesUpTo[n]
               U == TreesUpTo[n + 1]
    <2>1. n + 1 \in Nat /\ U = Grown(T) /\ TreesUpTo[n + 1 + 1] = Grown(U) /\ T \subseteq U
      BY <1>2, Levels
    <2> HIDE DEF T, U
    <2>2. Grown(T) \subseteq Grown(U)
      BY <2>1 DEF Grown
    <2> QED
      BY <2>1, <2>2 DEF U
  <1> HIDE DEF Up
  <1>3. N \in SUBSET Nat /\ 0 \in N /\ \A n \in N : n + 1 \in N
    BY <1>1, <1>2
  <1>4. N = Nat
    <2> HIDE DEF N
    <2> QED
      BY <1>3, NumbersInduction
  <1>5. ASSUME NEW n \in P
        PROVE  n + 1 \in P
    <2>1. n \in Nat /\ TreesUpTo[h] \subseteq TreesUpTo[h + n]
      OBVIOUS
    <2>2. h + n \in Nat /\ h + (n + 1) = h + n + 1
      BY <2>1
    <2>3. TreesUpTo[h + n] \subseteq TreesUpTo[h + n + 1]
      BY <1>4, <2>2 DEF Up
    <2> QED
      BY <2>1, <2>2, <2>3
  <1>6. P \in SUBSET Nat /\ 0 \in P
    <2>1. h + 0 = h
      OBVIOUS
    <2> QED
      BY <2>1
  <1>7. P = Nat
    <2> HIDE DEF P
    <2> QED
      BY <1>5, <1>6, NumbersInduction
  <1>8. g - h \in Nat /\ h + (g - h) = g
    OBVIOUS
  <1>9. g - h \in P
    BY <1>7, <1>8
  <1>10. TreesUpTo[h] \subseteq TreesUpTo[h + (g - h)]
    BY <1>9
  <1> QED
    BY <1>8, <1>10

LEMMA LevelNodes ==
  ASSUME NEW h \in Nat
  PROVE  TreesUpTo[h + 1] = {Null} \cup [key : Keys, data : Data, red : BOOLEAN, size : Nat,
                                         left : TreesUpTo[h], right : TreesUpTo[h]]
  BY Levels DEF Grown

(* A tree is empty or a node.                                              *)
LEMMA TreeNodes ==
  /\ Null \in Tree /\ Null \notin Node
  /\ Node \subseteq Tree
  /\ \A n \in Tree : n = Null \/ n \in Node
  <1>1. Null \in Tree
    BY Levels DEF Tree
  <1>2. Null \notin Node
    BY NullIsNoNode DEF Node
  <1>3. ASSUME NEW n \in Node
        PROVE  n \in Tree
    <2>1. PICK g \in Nat : n.left \in TreesUpTo[g]
      BY DEF Node, Tree
    <2>2. PICK h \in Nat : n.right \in TreesUpTo[h]
      BY DEF Node, Tree
    <2>3. PICK m \in Nat : g <= m /\ h <= m
      <3>1. g <= g + h /\ h <= g + h /\ g + h \in Nat
        OBVIOUS
      <3> QED
        BY <3>1
    <2>4. n.left \in TreesUpTo[m] /\ n.right \in TreesUpTo[m]
      BY <2>1, <2>2, <2>3, LevelsGrow
    <2>5. n \in TreesUpTo[m + 1]
      BY <2>4, LevelNodes DEF Node
    <2>6. m + 1 \in Nat
      OBVIOUS
    <2> QED
      BY <2>5, <2>6 DEF Tree
  <1>4. ASSUME NEW n \in Tree, n # Null
        PROVE  n \in Node
    <2>1. PICK h \in Nat : n \in TreesUpTo[h]
      BY DEF Tree
    <2>2. h # 0
      BY <1>4, <2>1, Levels
    <2>3. PICK g \in Nat : h = g + 1
      <3>1. h - 1 \in Nat /\ h = h - 1 + 1
        BY <2>2
      <3> QED
        BY <3>1
    <2>4. n \in [key : Keys, data : Data, red : BOOLEAN, size : Nat,
                 left : TreesUpTo[g], right : TreesUpTo[g]]
      BY <1>4, <2>1, <2>3, LevelNodes
    <2>5. TreesUpTo[g] \subseteq Tree
      BY DEF Tree
    <2> QED
      BY <2>4, <2>5 DEF Node
  <1> QED
    BY <1>1, <1>2, <1>3, <1>4

(* The number of levels of a tree.                                         *)
HasLevels(n, h) == n \in TreesUpTo[h] /\ \A g \in Nat : g < h => n \notin TreesUpTo[g]
Height == [n \in Tree |-> CHOOSE h \in Nat : HasLevels(n, h)]

(* Every tree has a least number of levels.                                *)
LEMMA HeightOf ==
  /\ Height \in [Tree -> Nat]
  /\ \A n \in Tree : HasLevels(n, Height[n])
  <1>1. ASSUME NEW n \in Tree
        PROVE  \E h \in Nat : HasLevels(n, h)
    <2> DEFINE S == {h \in Nat : n \in TreesUpTo[h]}
               less == OpToRel(<, Nat)
    <2>1. S # {} /\ S \subseteq Nat
      BY DEF Tree
    <2>2. PICK h \in S : \A g \in S : <<g, h>> \notin less
      <3> HIDE DEF S
      <3> QED
        BY <2>1, WFMin, NatLessThanWellFounded
    <2>3. ASSUME NEW g \in Nat, g < h
          PROVE  n \notin TreesUpTo[g]
      BY <2>2, <2>3 DEF OpToRel
    <2> QED
      BY <2>3 DEF HasLevels
  <1>2. ASSUME NEW n \in Tree
        PROVE  Height[n] \in Nat /\ HasLevels(n, Height[n])
    BY <1>1 DEF Height
  <1>3. Height = [n \in Tree |-> Height[n]]
    BY DEF Height
  <1> QED
    BY <1>2, <1>3

(* A subtree has fewer levels.                                             *)
LEMMA HeightFalls ==
  ASSUME NEW n \in Node
  PROVE  /\ n.left \in Tree /\ n.right \in Tree /\ n \in Tree
         /\ Height[n.left] < Height[n] /\ Height[n.right] < Height[n]
  <1>1. n \in Tree /\ n # Null /\ n.left \in Tree /\ n.right \in Tree
    BY TreeNodes DEF Node
  <1>2. Height[n] \in Nat /\ Height[n.left] \in Nat /\ Height[n.right] \in Nat
    BY <1>1, HeightOf
  <1>3. n \in TreesUpTo[Height[n]]
    BY <1>1, HeightOf DEF HasLevels
  <1>4. Height[n] # 0
    BY <1>1, <1>3, Levels
  <1>5. PICK g \in Nat : Height[n] = g + 1
    <2>1. Height[n] - 1 \in Nat /\ Height[n] = Height[n] - 1 + 1
      BY <1>2, <1>4
    <2> QED
      BY <2>1
  <1>6. n.left \in TreesUpTo[g] /\ n.right \in TreesUpTo[g]
    BY <1>1, <1>3, <1>5, LevelNodes
  <1>7. ~(g < Height[n.left]) /\ ~(g < Height[n.right])
    BY <1>1, <1>2, <1>6, HeightOf DEF HasLevels
  <1> QED
    BY <1>1, <1>2, <1>5, <1>7

(* Induction over trees.                                                   *)
LEMMA TreeInduction ==
  ASSUME NEW S \in SUBSET Tree, Null \in S,
         \A n \in Node : n.left \in S /\ n.right \in S => n \in S
  PROVE  S = Tree
  <1>1. ASSUME NEW x \in Tree, \A y \in Tree : Height[y] < Height[x] => y \in S
        PROVE  x \in S
    <2>1. CASE x = Null
      BY <2>1
    <2>2. CASE x \in Node
      BY <1>1, <2>2, HeightFalls
    <2> QED
      BY <2>1, <2>2, TreeNodes
  <1>2. Hereditary(Tree, Height, S)
    BY <1>1 DEF Hereditary
  <1> QED
    BY <1>2, HeightOf, Descent

(* A set of trees that has the subtrees of each.                           *)
Closed(D) ==
  /\ D \subseteq Tree /\ Null \in D
  /\ \A n \in D : n # Null => n \in Node /\ n.left \in D /\ n.right \in D

LEMMA TreeIsClosed == Closed(Tree)
  BY TreeNodes DEF Closed, Node

(* The trees of the model have as many levels as there are keys.           *)
LEMMA TreesIsClosed == Closed(Trees)
  <1>1. Cardinality(Keys) \in Nat
    <2>1. IsFiniteSet(Keys)
      <3> DEFINE f == [p \in Pairs |-> p[1]]
      <3>1. f \in Surjection(Pairs, Keys)
        BY DEF Surjection, Keys
      <3> QED
        BY <3>1, TreeAssumption, FS_Surjection
    <2> QED
      BY <2>1, FS_CardinalityType
  <1>2. Trees \subseteq Tree /\ Null \in Trees
    <2>1. TreesUpTo[0] \subseteq TreesUpTo[Cardinality(Keys)]
      BY <1>1, LevelsGrow
    <2> QED
      BY <1>1, <2>1, Levels DEF Trees, Tree
  <1>3. ASSUME NEW n \in Trees, n # Null
        PROVE  n \in Node /\ n.left \in Trees /\ n.right \in Trees
    <2>1. n \in Node
      BY <1>2, <1>3, TreeNodes
    <2>2. Cardinality(Keys) # 0
      BY <1>3, Levels DEF Trees
    <2>3. PICK g \in Nat : Cardinality(Keys) = g + 1
      <3>1. Cardinality(Keys) - 1 \in Nat /\ Cardinality(Keys) = Cardinality(Keys) - 1 + 1
        BY <1>1, <2>2
      <3> QED
        BY <3>1
    <2>4. n.left \in TreesUpTo[g] /\ n.right \in TreesUpTo[g]
      BY <1>3, <2>3, LevelNodes DEF Trees
    <2>5. TreesUpTo[g] \subseteq Trees
      BY <1>1, <2>3, LevelsGrow DEF Trees
    <2> QED
      BY <2>1, <2>4, <2>5
  <1> QED
    BY <1>2, <1>3 DEF Closed

(* A function may be defined by what it is at a node and at its subtrees.  *)
Folds(D, V, v, H) ==
  \E f \in [D -> V] : \A n \in D : f[n] = IF n = Null THEN v ELSE H[n][f[n.left]][f[n.right]]
Fold(V, v, H) == v \in V /\ H \in [Node -> [V -> [V -> V]]]

(* Recursion over the levels.                                              *)
LEMMA Folding ==
  ASSUME NEW D, Closed(D), NEW V, NEW v, NEW H, Fold(V, v, H)
  PROVE  Folds(D, V, v, H)
  <1> USE DEF Folds, Fold
  <1> SUFFICES ASSUME v \in V, H \in [Node -> [V -> [V -> V]]]
               PROVE  \E f \in [D -> V] : \A n \in D :
                        f[n] = IF n = Null THEN v ELSE H[n][f[n.left]][f[n.right]]
    OBVIOUS
  <1> HIDE DEF Folds, Fold
  <1> DEFINE At(x, f) == IF x = Null THEN v ELSE H[x][f[x.left]][f[x.right]]
             G == [x \in D |-> [f \in [D -> V] |-> At(x, f)]]
             m == [x \in D |-> Height[x]]
  <1>1. ASSUME NEW x \in D, x # Null
        PROVE  x \in Node /\ x.left \in D /\ x.right \in D /\ m[x.left] < m[x] /\ m[x.right] < m[x]
    BY <1>1, HeightFalls DEF Closed
  <1>2. m \in [D -> Nat]
    BY HeightOf DEF Closed
  <1>3. ASSUME NEW x \in D, NEW f \in [D -> V]
        PROVE  At(x, f) \in V
    <2>1. CASE x = Null
      BY <2>1
    <2>2. CASE x # Null
      <3>1. x \in Node /\ f[x.left] \in V /\ f[x.right] \in V
        BY <1>1, <2>2
      <3>2. H[x] \in [V -> [V -> V]]
        BY <3>1
      <3>3. H[x][f[x.left]] \in [V -> V]
        BY <3>1, <3>2
      <3> QED
        BY <2>2, <3>1, <3>3
    <2> QED
      BY <2>1, <2>2
  <1>4. ASSUME NEW x \in D, NEW f \in [D -> V], NEW g \in [D -> V],
               \A y \in D : m[y] < m[x] => f[y] = g[y]
        PROVE  At(x, f) = At(x, g)
    <2>1. CASE x = Null
      BY <2>1
    <2>2. CASE x # Null
      <3>1. f[x.left] = g[x.left] /\ f[x.right] = g[x.right]
        BY <1>1, <1>4, <2>2
      <3> QED
        BY <3>1
    <2> QED
      BY <2>1, <2>2
  <1> HIDE DEF At, m
  <1>5. G \in [D -> [[D -> V] -> V]] /\ Descends(D, V, m, G)
    <2>1. \A x \in D, f \in [D -> V] : G[x][f] = At(x, f)
      OBVIOUS
    <2>2. G \in [D -> [[D -> V] -> V]]
      BY <1>3
    <2> HIDE DEF G
    <2>3. ASSUME NEW x \in D, NEW f \in [D -> V], NEW g \in [D -> V],
                 \A y \in D : m[y] < m[x] => f[y] = g[y]
          PROVE  G[x][f] = G[x][g]
      <3>1. At(x, f) = At(x, g)
        BY <1>4, <2>3
      <3> QED
        BY <2>1, <3>1, Zenon
    <2>4. Descends(D, V, m, G)
      BY <2>3, Zenon DEF Descends
    <2> QED
      BY <2>2, <2>4, Zenon
  <1>6. PICK f \in [D -> V] : \A x \in D : f[x] = G[x][f]
    <2> HIDE DEF G
    <2>1. Recursive(D, V, m, G)
      BY <1>2, <1>5 DEF Recursive
    <2>2. Solvable(D, V, G)
      BY <2>1, Recursion
    <2> QED
      BY <2>2 DEF Solvable
  <1>7. \A x \in D : f[x] = At(x, f)
    BY <1>6
  <1> QED
    BY <1>7 DEF At

-----------------------------------------------------------------------------
(* WHAT IS IN A TREE                                                       *)

(* The nodes of a tree, their number, and its black height.                *)
Under[n \in Tree] == IF n = Null THEN {} ELSE {n} \cup Under[n.left] \cup Under[n.right]

Weight[n \in Tree] == IF n = Null THEN 0 ELSE 1 + Weight[n.left] + Weight[n.right]

Black[n \in Tree] ==
  IF n = Null THEN 0
  ELSE IF Black[n.left] = -1 \/ Black[n.left] # Black[n.right] THEN -1
       ELSE Black[n.left] + (IF n.red THEN 0 ELSE 1)

(* The three functions exist.                                              *)
LEMMA UnderFolds ==
  \E f \in [Tree -> SUBSET Tree] :
    f = [n \in Tree |-> IF n = Null THEN {} ELSE {n} \cup f[n.left] \cup f[n.right]]
  <1> DEFINE V == SUBSET Tree
             H == [n \in Node |-> [a \in V |-> [b \in V |-> {n} \cup a \cup b]]]
  <1>1. {} \in V /\ H \in [Node -> [V -> [V -> V]]]
    BY TreeNodes
  <1>2. PICK f \in [Tree -> V] :
          \A n \in Tree : f[n] = IF n = Null THEN {} ELSE H[n][f[n.left]][f[n.right]]
    <2> HIDE DEF H, V
    <2>1. Folds(Tree, V, {}, H)
      BY <1>1, TreeIsClosed, Folding DEF Fold
    <2> QED
      BY <2>1, Zenon DEF Folds
  <1>3. ASSUME NEW n \in Tree
        PROVE  f[n] = IF n = Null THEN {} ELSE {n} \cup f[n.left] \cup f[n.right]
    <2>1. n # Null => n \in Node /\ n.left \in Tree /\ n.right \in Tree
      BY TreeIsClosed DEF Closed
    <2> QED
      BY <1>2, <2>1
  <1>4. f = [n \in Tree |-> f[n]]
    OBVIOUS
  <1> HIDE DEF H
  <1>5. f = [n \in Tree |-> IF n = Null THEN {} ELSE {n} \cup f[n.left] \cup f[n.right]]
    BY <1>3, <1>4, Zenon
  <1> QED
    BY <1>5

LEMMA WeightFolds ==
  \E f \in [Tree -> Nat] :
    f = [n \in Tree |-> IF n = Null THEN 0 ELSE 1 + f[n.left] + f[n.right]]
  <1> DEFINE V == Nat
             H == [n \in Node |-> [a \in V |-> [b \in V |-> 1 + a + b]]]
  <1>1. 0 \in V /\ H \in [Node -> [V -> [V -> V]]]
    BY TreeNodes DEF Node
  <1>2. PICK f \in [Tree -> V] :
          \A n \in Tree : f[n] = IF n = Null THEN 0 ELSE H[n][f[n.left]][f[n.right]]
    <2> HIDE DEF H, V
    <2>1. Folds(Tree, V, 0, H)
      BY <1>1, TreeIsClosed, Folding DEF Fold
    <2> QED
      BY <2>1, Zenon DEF Folds
  <1>3. ASSUME NEW n \in Tree
        PROVE  f[n] = IF n = Null THEN 0 ELSE 1 + f[n.left] + f[n.right]
    <2>1. n # Null => n \in Node /\ n.left \in Tree /\ n.right \in Tree
      BY TreeIsClosed DEF Closed
    <2> QED
      BY <1>2, <2>1
  <1>4. f = [n \in Tree |-> f[n]]
    OBVIOUS
  <1> HIDE DEF H
  <1>5. f = [n \in Tree |-> IF n = Null THEN 0 ELSE 1 + f[n.left] + f[n.right]]
    BY <1>3, <1>4, Zenon
  <1> QED
    BY <1>5

LEMMA BlackFolds ==
  \E f \in [Tree -> Int] :
    f = [n \in Tree |->
          IF n = Null THEN 0
          ELSE IF f[n.left] = -1 \/ f[n.left] # f[n.right] THEN -1
               ELSE f[n.left] + (IF n.red THEN 0 ELSE 1)]
  <1> DEFINE V == Int
             H == [n \in Node |-> [a \in V |-> [b \in V |->
                     IF a = -1 \/ a # b THEN -1 ELSE a + (IF n.red THEN 0 ELSE 1)]]]
  <1>1. 0 \in V /\ H \in [Node -> [V -> [V -> V]]]
    BY TreeNodes DEF Node
  <1>2. PICK f \in [Tree -> V] :
          \A n \in Tree : f[n] = IF n = Null THEN 0 ELSE H[n][f[n.left]][f[n.right]]
    <2> HIDE DEF H, V
    <2>1. Folds(Tree, V, 0, H)
      BY <1>1, TreeIsClosed, Folding DEF Fold
    <2> QED
      BY <2>1, Zenon DEF Folds
  <1>3. ASSUME NEW n \in Tree
        PROVE  f[n] =
                 IF n = Null THEN 0
                 ELSE IF f[n.left] = -1 \/ f[n.left] # f[n.right] THEN -1
                      ELSE f[n.left] + (IF n.red THEN 0 ELSE 1)
    <2>1. n # Null => n \in Node /\ n.left \in Tree /\ n.right \in Tree
      BY TreeIsClosed DEF Closed
    <2> QED
      BY <1>2, <2>1
  <1>4. f = [n \in Tree |-> f[n]]
    OBVIOUS
  <1> HIDE DEF H
  <1>5. f = [n \in Tree |->
               IF n = Null THEN 0
               ELSE IF f[n.left] = -1 \/ f[n.left] # f[n.right] THEN -1
                    ELSE f[n.left] + (IF n.red THEN 0 ELSE 1)]
    BY <1>3, <1>4, Zenon
  <1> QED
    BY <1>5

(* And are what their definitions say.                                     *)
LEMMA UnderOf ==
  /\ Under \in [Tree -> SUBSET Tree]
  /\ \A n \in Tree : Under[n] = IF n = Null THEN {} ELSE {n} \cup Under[n.left] \cup Under[n.right]
  <1> DEFINE Is(f) == f = [n \in Tree |->
                        IF n = Null THEN {} ELSE {n} \cup f[n.left] \cup f[n.right]]
             Typed(f) == f \in [Tree -> SUBSET Tree]
  <1>1. PICK f : Is(f) /\ Typed(f)
    BY UnderFolds
  <1>2. Under = CHOOSE g : Is(g)
    BY Zenon DEF Under
  <1>3. Is(Under)
    <2> HIDE DEF Is
    <2> QED
      BY <1>1, <1>2
  <1>4. ASSUME NEW n \in Tree
        PROVE  Under[n] = IF n = Null THEN {} ELSE {n} \cup Under[n.left] \cup Under[n.right]
    BY <1>3, Zenon
  <1>5. ASSUME NEW n \in Tree
        PROVE  f[n] = IF n = Null THEN {} ELSE {n} \cup f[n.left] \cup f[n.right]
    BY <1>1, Zenon
  <1> DEFINE S == {n \in Tree : Under[n] = f[n]}
  <1>6. S = Tree
    <2>1. Null \in S
      BY <1>4, <1>5, TreeNodes
    <2>2. ASSUME NEW n \in Node, n.left \in S, n.right \in S
          PROVE  n \in S
      <3>1. n \in Tree /\ n # Null
        BY TreeNodes
      <3>2. Under[n.left] = f[n.left] /\ Under[n.right] = f[n.right]
        BY <2>2
      <3>3. Under[n] = {n} \cup Under[n.left] \cup Under[n.right]
        BY <1>4, <3>1
      <3>4. f[n] = {n} \cup f[n.left] \cup f[n.right]
        BY <1>5, <3>1
      <3>5. Under[n] = f[n]
        BY <3>2, <3>3, <3>4, Zenon
      <3> QED
        BY <3>1, <3>5
    <2> HIDE DEF S
    <2>3. S \in SUBSET Tree
      BY DEF S
    <2> QED
      BY <2>1, <2>2, <2>3, TreeInduction
  <1>7. Under = [n \in Tree |-> Under[n]]
    BY <1>3, Zenon
  <1>8. Under \in [Tree -> SUBSET Tree]
    BY <1>1, <1>6, <1>7
  <1> QED
    BY <1>4, <1>8

LEMMA WeightOf ==
  /\ Weight \in [Tree -> Nat]
  /\ \A n \in Tree : Weight[n] = IF n = Null THEN 0 ELSE 1 + Weight[n.left] + Weight[n.right]
  <1> DEFINE Is(f) == f = [n \in Tree |-> IF n = Null THEN 0 ELSE 1 + f[n.left] + f[n.right]]
             Typed(f) == f \in [Tree -> Nat]
  <1>1. PICK f : Is(f) /\ Typed(f)
    BY WeightFolds
  <1>2. Weight = CHOOSE g : Is(g)
    BY Zenon DEF Weight
  <1>3. Is(Weight)
    <2> HIDE DEF Is
    <2> QED
      BY <1>1, <1>2
  <1>4. ASSUME NEW n \in Tree
        PROVE  Weight[n] = IF n = Null THEN 0 ELSE 1 + Weight[n.left] + Weight[n.right]
    BY <1>3, Zenon
  <1>5. ASSUME NEW n \in Tree
        PROVE  f[n] = IF n = Null THEN 0 ELSE 1 + f[n.left] + f[n.right]
    BY <1>1, Zenon
  <1> DEFINE S == {n \in Tree : Weight[n] = f[n]}
  <1>6. S = Tree
    <2>1. Null \in S
      BY <1>4, <1>5, TreeNodes
    <2>2. ASSUME NEW n \in Node, n.left \in S, n.right \in S
          PROVE  n \in S
      <3>1. n \in Tree /\ n # Null
        BY TreeNodes
      <3>2. Weight[n.left] = f[n.left] /\ Weight[n.right] = f[n.right]
        BY <2>2
      <3> QED
        BY <1>4, <1>5, <3>1, <3>2
    <2> HIDE DEF S
    <2>3. S \in SUBSET Tree
      BY DEF S
    <2> QED
      BY <2>1, <2>2, <2>3, TreeInduction
  <1>7. Weight = [n \in Tree |-> Weight[n]]
    BY <1>3, Zenon
  <1>8. Weight \in [Tree -> Nat]
    BY <1>1, <1>6, <1>7
  <1> QED
    BY <1>4, <1>8

LEMMA BlackOf ==
  /\ Black \in [Tree -> Int]
  /\ \A n \in Tree : Black[n] =
       IF n = Null THEN 0
       ELSE IF Black[n.left] = -1 \/ Black[n.left] # Black[n.right] THEN -1
            ELSE Black[n.left] + (IF n.red THEN 0 ELSE 1)
  <1> DEFINE Is(f) == f = [n \in Tree |->
                        IF n = Null THEN 0
                        ELSE IF f[n.left] = -1 \/ f[n.left] # f[n.right] THEN -1
                             ELSE f[n.left] + (IF n.red THEN 0 ELSE 1)]
             Typed(f) == f \in [Tree -> Int]
  <1>1. PICK f : Is(f) /\ Typed(f)
    BY BlackFolds
  <1>2. Black = CHOOSE g : Is(g)
    BY Zenon DEF Black
  <1>3. Is(Black)
    <2> HIDE DEF Is
    <2> QED
      BY <1>1, <1>2
  <1>4. ASSUME NEW n \in Tree
        PROVE  Black[n] =
                 IF n = Null THEN 0
                 ELSE IF Black[n.left] = -1 \/ Black[n.left] # Black[n.right] THEN -1
                      ELSE Black[n.left] + (IF n.red THEN 0 ELSE 1)
    BY <1>3, Zenon
  <1>5. ASSUME NEW n \in Tree
        PROVE  f[n] =
                 IF n = Null THEN 0
                 ELSE IF f[n.left] = -1 \/ f[n.left] # f[n.right] THEN -1
                      ELSE f[n.left] + (IF n.red THEN 0 ELSE 1)
    BY <1>1, Zenon
  <1> DEFINE S == {n \in Tree : Black[n] = f[n]}
  <1>6. S = Tree
    <2>1. Null \in S
      BY <1>4, <1>5, TreeNodes
    <2>2. ASSUME NEW n \in Node, n.left \in S, n.right \in S
          PROVE  n \in S
      <3>1. n \in Tree /\ n # Null
        BY TreeNodes
      <3>2. Black[n.left] = f[n.left] /\ Black[n.right] = f[n.right]
        BY <2>2
      <3> QED
        BY <1>4, <1>5, <3>1, <3>2
    <2> HIDE DEF S
    <2>3. S \in SUBSET Tree
      BY DEF S
    <2> QED
      BY <2>1, <2>2, <2>3, TreeInduction
  <1>7. Black = [n \in Tree |-> Black[n]]
    BY <1>3, Zenon
  <1>8. Black \in [Tree -> Int]
    BY <1>1, <1>6, <1>7
  <1> QED
    BY <1>4, <1>8

LEMMA UnderNodes == \A n \in Tree : Under[n] \subseteq Node
  <1> DEFINE S == {n \in Tree : Under[n] \subseteq Node}
  <1>1. Null \in S
    BY UnderOf, TreeNodes
  <1>2. ASSUME NEW n \in Node, n.left \in S, n.right \in S
        PROVE  n \in S
    <2>1. n \in Tree /\ n # Null
      BY TreeNodes
    <2>2. Under[n] = {n} \cup Under[n.left] \cup Under[n.right]
      BY <2>1, UnderOf
    <2> QED
      BY <1>2, <2>1, <2>2
  <1>3. S = Tree
    <2> HIDE DEF S
    <2>1. S \in SUBSET Tree
      BY DEF S
    <2> QED
      BY <1>1, <1>2, <2>1, TreeInduction
  <1> QED
    BY <1>3

LEMMA UnderTrees == \A n \in Trees : n \in Tree /\ Under[n] \subseteq Trees
  <1> DEFINE S == {n \in Tree : n \in Trees => Under[n] \subseteq Trees}
  <1>1. Null \in S
    BY UnderOf, TreeNodes
  <1>2. ASSUME NEW n \in Node, n.left \in S, n.right \in S
        PROVE  n \in S
    <2>1. n \in Tree /\ n # Null
      BY TreeNodes
    <2>2. Under[n] = {n} \cup Under[n.left] \cup Under[n.right]
      BY <2>1, UnderOf
    <2>3. n \in Trees => n.left \in Trees /\ n.right \in Trees
      BY <2>1, TreesIsClosed DEF Closed
    <2> QED
      BY <1>2, <2>1, <2>2, <2>3
  <1>3. S = Tree
    <2> HIDE DEF S
    <2>1. S \in SUBSET Tree
      BY DEF S
    <2> QED
      BY <1>1, <1>2, <2>1, TreeInduction
  <1> QED
    BY <1>3, TreesIsClosed DEF Closed

(* What a tree holds, and the conditions on its nodes, each as a condition *)
(* on the node at the top and on its subtrees.                             *)
Held(n) == {<<x.key, x.data>> : x \in Under[n]}

Less(n, k) == \A p \in Held(n) : p[1] < k
More(n, k) == \A p \in Held(n) : k < p[1]

Search(n) ==
  \A x \in Under[n] :
    /\ \A y \in Under[x.left] : y.key < x.key
    /\ \A y \in Under[x.right] : x.key < y.key

Sizes(n) == \A x \in Under[n] : x.size = Weight[x]

Tops(n) == \A x \in Under[n] : ~rb_is_red(x.right) /\ (rb_is_red(x) => ~rb_is_red(x.left))
Shape(n, h) == Black[n] = h /\ h # -1 /\ Tops(n)

(* The empty tree.                                                         *)
LEMMA NullHolds ==
  /\ Held(Null) = {} /\ Search(Null) /\ Sizes(Null)
  /\ \A h : Shape(Null, h) <=> h = 0
  <1>1. Under[Null] = {} /\ Black[Null] = 0
    BY UnderOf, BlackOf, TreeNodes
  <1> QED
    BY <1>1 DEF Held, Search, Sizes, Shape, Tops

LEMMA LessMore ==
  ASSUME NEW n \in Tree, NEW k
  PROVE  /\ Less(n, k) <=> \A y \in Under[n] : y.key < k
         /\ More(n, k) <=> \A y \in Under[n] : k < y.key
  <1>1. ASSUME NEW y \in Under[n]
        PROVE  \E p \in Held(n) : p[1] = y.key
    <2>1. <<y.key, y.data>> \in Held(n)
      BY DEF Held
    <2> QED
      BY <2>1
  <1>2. ASSUME NEW p \in Held(n)
        PROVE  \E y \in Under[n] : p[1] = y.key
    BY DEF Held
  <1> QED
    BY <1>1, <1>2, Zenon DEF Less, More

(* What a node holds is its pair and what its subtrees hold.               *)
LEMMA HeldOf ==
  ASSUME NEW n \in Node
  PROVE  Held(n) = {<<n.key, n.data>>} \cup Held(n.left) \cup Held(n.right)
  <1>1. n \in Tree /\ n # Null
    BY TreeNodes
  <1>2. Under[n] = {n} \cup Under[n.left] \cup Under[n.right]
    BY <1>1, UnderOf
  <1> QED
    BY <1>2 DEF Held

(* A search tree, by its top.                                              *)
LEMMA SearchOf ==
  ASSUME NEW n \in Node
  PROVE  Search(n) <=> /\ Search(n.left) /\ Search(n.right)
                       /\ Less(n.left, n.key) /\ More(n.right, n.key)
  <1>1. n \in Tree /\ n # Null /\ n.left \in Tree /\ n.right \in Tree
    BY TreeNodes DEF Node
  <1>2. Under[n] = {n} \cup Under[n.left] \cup Under[n.right]
    BY <1>1, UnderOf
  <1>3. Less(n.left, n.key) <=> \A y \in Under[n.left] : y.key < n.key
    BY <1>1, LessMore
  <1>4. More(n.right, n.key) <=> \A y \in Under[n.right] : n.key < y.key
    BY <1>1, LessMore
  <1> QED
    BY <1>2, <1>3, <1>4, Zenon DEF Search

(* The sizes kept, by the top.                                             *)
LEMMA SizesOf ==
  ASSUME NEW n \in Node
  PROVE  /\ Weight[n] = 1 + Weight[n.left] + Weight[n.right]
         /\ Weight[n.left] \in Nat /\ Weight[n.right] \in Nat /\ Weight[n] \in Nat
         /\ Sizes(n) <=> Sizes(n.left) /\ Sizes(n.right) /\ n.size = Weight[n]
  <1>1. n \in Tree /\ n # Null /\ n.left \in Tree /\ n.right \in Tree
    BY TreeNodes DEF Node
  <1>2. Under[n] = {n} \cup Under[n.left] \cup Under[n.right]
    BY <1>1, UnderOf
  <1>3. Weight[n] = 1 + Weight[n.left] + Weight[n.right]
    BY <1>1, WeightOf
  <1>4. Weight[n.left] \in Nat /\ Weight[n.right] \in Nat /\ Weight[n] \in Nat
    BY <1>1, WeightOf
  <1>5. Sizes(n) <=> Sizes(n.left) /\ Sizes(n.right) /\ n.size = Weight[n]
    BY <1>2, Zenon DEF Sizes
  <1> QED
    BY <1>3, <1>4, <1>5

LEMMA BlackIsNat == \A n \in Tree : Black[n] \in Int /\ Black[n] >= -1
  <1> DEFINE S == {n \in Tree : Black[n] \in Int /\ Black[n] >= -1}
  <1>1. Null \in S
    BY BlackOf, TreeNodes
  <1>2. ASSUME NEW n \in Node, n.left \in S, n.right \in S
        PROVE  n \in S
    <2>1. n \in Tree /\ n # Null
      BY TreeNodes
    <2> QED
      BY <1>2, <2>1, BlackOf
  <1>3. S = Tree
    <2> HIDE DEF S
    <2>1. S \in SUBSET Tree
      BY DEF S
    <2> QED
      BY <1>1, <1>2, <2>1, TreeInduction
  <1> QED
    BY <1>3

(* The black nodes a node adds to the ways that go through it.             *)
Mark(n) == IF n.red THEN 0 ELSE 1

(* The shape of a tree of black height h, by its top.                      *)
LEMMA ShapeOf ==
  ASSUME NEW n \in Node, NEW h \in Int
  PROVE  Shape(n, h + Mark(n)) <=>
           /\ Shape(n.left, h) /\ Shape(n.right, h)
           /\ ~rb_is_red(n.right) /\ (n.red => ~rb_is_red(n.left))
  <1>1. n \in Tree /\ n # Null /\ n.left \in Tree /\ n.right \in Tree /\ n.red \in BOOLEAN
    BY TreeNodes DEF Node
  <1>2. Under[n] = {n} \cup Under[n.left] \cup Under[n.right]
    BY <1>1, UnderOf
  <1>3. Tops(n) <=> /\ Tops(n.left) /\ Tops(n.right)
                    /\ ~rb_is_red(n.right) /\ (rb_is_red(n) => ~rb_is_red(n.left))
    BY <1>2, Zenon DEF Tops
  <1>4. rb_is_red(n) <=> n.red
    BY <1>1 DEF rb_is_red
  <1>5. /\ Black[n] = IF Black[n.left] = -1 \/ Black[n.left] # Black[n.right] THEN -1
                      ELSE Black[n.left] + Mark(n)
    BY <1>1, BlackOf DEF Mark
  <1>6. /\ Black[n.left] \in Int /\ Black[n.left] >= -1
        /\ Black[n.right] \in Int /\ Black[n.right] >= -1
    BY <1>1, BlackIsNat
  <1>7. Mark(n) \in {0, 1}
    BY <1>1 DEF Mark
  <1>8. Black[n] = h + Mark(n) /\ h + Mark(n) # -1 <=>
          Black[n.left] = h /\ h # -1 /\ Black[n.right] = h
    BY <1>5, <1>6, <1>7
  <1> QED
    BY <1>3, <1>4, <1>8 DEF Shape

(* A link that is not red, of black height nought, is a null pointer.      *)
LEMMA ShapeBounds ==
  ASSUME NEW n \in Tree, NEW h, Shape(n, h)
  PROVE  h \in Nat /\ (h = 0 /\ ~rb_is_red(n) => n = Null)
  <1>1. h \in Nat
    BY BlackIsNat DEF Shape
  <1>2. ASSUME n # Null, ~rb_is_red(n), h = 0
        PROVE  FALSE
    <2>1. n \in Node /\ n.left \in Tree /\ n.red = FALSE
      BY <1>2, TreeNodes DEF rb_is_red, Node
    <2>2. -1 \in Int /\ -1 + Mark(n) = h
      BY <1>2, <2>1 DEF Mark
    <2>3. Shape(n.left, -1)
      BY <2>1, <2>2, ShapeOf
    <2> QED
      BY <2>3 DEF Shape
  <1> QED
    BY <1>1, <1>2

-----------------------------------------------------------------------------
(* THE FUNCTIONS OF THE MODEL                                              *)

(* The functions of the model are these, on the trees it has them for.     *)
LEMMA NodesAreUnder ==
  ASSUME NEW n \in Trees
  PROVE  NodesOf(n) = Under[n]
  <1> DEFINE Is(f) == f = [x \in Trees |->
                        IF x = Null THEN {} ELSE {x} \cup f[x.left] \cup f[x.right]]
             nodes == CHOOSE f : Is(f)
             u == [x \in Trees |-> Under[x]]
  <1>1. \A x \in Trees : x \in Tree /\ (x # Null => x \in Node /\ x.left \in Trees /\ x.right \in Trees)
    BY TreesIsClosed DEF Closed
  <1>2. Is(u)
    <2>1. ASSUME NEW x \in Trees
          PROVE  Under[x] = IF x = Null THEN {} ELSE {x} \cup u[x.left] \cup u[x.right]
      <3>1. Under[x] = IF x = Null THEN {} ELSE {x} \cup Under[x.left] \cup Under[x.right]
        BY <1>1, UnderOf
      <3>2. x # Null => u[x.left] = Under[x.left] /\ u[x.right] = Under[x.right]
        BY <1>1
      <3> QED
        BY <3>1, <3>2, Zenon
    <2> QED
      BY <2>1, Zenon
  <1>3. Is(nodes)
    <2> HIDE DEF Is
    <2> QED
      BY <1>2
  <1>4. ASSUME NEW x \in Trees
        PROVE  nodes[x] = IF x = Null THEN {} ELSE {x} \cup nodes[x.left] \cup nodes[x.right]
    <2> HIDE DEF nodes
    <2> QED
      BY <1>3, Zenon
  <1>5. NodesOf(n) = nodes[n]
    BY Zenon DEF NodesOf
  <1> HIDE DEF nodes
  <1> DEFINE S == {x \in Tree : x \in Trees => nodes[x] = Under[x]}
  <1>6. Null \in S
    BY <1>4, UnderOf, TreeNodes
  <1>7. ASSUME NEW x \in Node, x.left \in S, x.right \in S
        PROVE  x \in S
    <2>1. x \in Tree /\ x # Null
      BY TreeNodes
    <2>2. Under[x] = {x} \cup Under[x.left] \cup Under[x.right]
      BY <2>1, UnderOf
    <2>3. x \in Trees => nodes[x] = {x} \cup nodes[x.left] \cup nodes[x.right]
      BY <1>4, <2>1
    <2>4. x \in Trees => nodes[x.left] = Under[x.left] /\ nodes[x.right] = Under[x.right]
      BY <1>1, <1>7, <2>1
    <2>5. x \in Trees => nodes[x] = Under[x]
      BY <2>2, <2>3, <2>4, Zenon
    <2> QED
      BY <2>1, <2>5
  <1>8. S = Tree
    <2> HIDE DEF S
    <2>1. S \in SUBSET Tree
      BY DEF S
    <2> QED
      BY <1>6, <1>7, <2>1, TreeInduction
  <1> QED
    BY <1>1, <1>5, <1>8

(* BlackHeight is the function Black.                                      *)
LEMMA HeightIsBlack ==
  ASSUME NEW n \in Trees
  PROVE  BlackHeight(n) = Black[n]
  <1> DEFINE At(f, x) == IF x = Null THEN 0
                         ELSE LET l == f[x.left]
                              IN  IF l = -1 \/ l # f[x.right] THEN -1
                                  ELSE l + (IF x.red THEN 0 ELSE 1)
             Is(f) == f = [x \in Trees |-> At(f, x)]
             height == CHOOSE f : Is(f)
             u == [x \in Trees |-> Black[x]]
  <1>1. \A x \in Trees : x \in Tree /\ (x # Null => x \in Node /\ x.left \in Trees /\ x.right \in Trees)
    BY TreesIsClosed DEF Closed
  <1>2. Is(u)
    <2>1. ASSUME NEW x \in Trees
          PROVE  Black[x] = At(u, x)
      <3>1. x # Null => u[x.left] = Black[x.left] /\ u[x.right] = Black[x.right]
        BY <1>1
      <3> QED
        BY <1>1, <3>1, BlackOf
    <2> HIDE DEF At
    <2> QED
      BY <2>1, Zenon
  <1>3. Is(height)
    <2> HIDE DEF Is
    <2> QED
      BY <1>2
  <1>4. ASSUME NEW x \in Trees
        PROVE  height[x] = At(height, x)
    <2> HIDE DEF height, At
    <2> QED
      BY <1>3, Zenon
  <1>5. BlackHeight(n) = height[n]
    BY Zenon DEF BlackHeight
  <1> HIDE DEF height
  <1> DEFINE S == {x \in Tree : x \in Trees => height[x] = Black[x]}
  <1>6. Null \in S
    BY <1>4, BlackOf, TreeNodes
  <1>7. ASSUME NEW x \in Node, x.left \in S, x.right \in S
        PROVE  x \in S
    <2>1. x \in Tree /\ x # Null
      BY TreeNodes
    <2>2. ASSUME x \in Trees
          PROVE  height[x] = Black[x]
      <3>1. height[x.left] = Black[x.left] /\ height[x.right] = Black[x.right]
        BY <1>1, <1>7, <2>1, <2>2
      <3> QED
        BY <1>4, <2>1, <2>2, <3>1, BlackOf
    <2> QED
      BY <2>1, <2>2
  <1>8. S = Tree
    <2> HIDE DEF S
    <2>1. S \in SUBSET Tree
      BY DEF S
    <2> QED
      BY <1>6, <1>7, <2>1, TreeInduction
  <1> QED
    BY <1>1, <1>5, <1>8

HeldKeys(n) == {p[1] : p \in Held(n)}

(* What the model calls ordered and red-black.                             *)
LEMMA TreesAgree ==
  ASSUME NEW n \in Trees
  PROVE  /\ KeysOf(n) = HeldKeys(n)
         /\ Ordered(n) <=> Search(n)
         /\ RedBlack(n) <=> Shape(n, Black[n])
  <1>1. NodesOf(n) = Under[n] /\ BlackHeight(n) = Black[n] /\ n \in Tree /\ Under[n] \subseteq Trees
    BY NodesAreUnder, HeightIsBlack, UnderTrees
  <1>2. KeysOf(n) = HeldKeys(n)
    <2>1. ASSUME NEW x \in Under[n]
          PROVE  x.key \in HeldKeys(n)
      <3>1. <<x.key, x.data>> \in Held(n)
        BY DEF Held
      <3> QED
        BY <3>1 DEF HeldKeys
    <2>2. ASSUME NEW k \in HeldKeys(n)
          PROVE  \E x \in Under[n] : x.key = k
      BY DEF HeldKeys, Held
    <2> QED
      BY <1>1, <2>1, <2>2 DEF KeysOf
  <1>3. ASSUME NEW x \in Under[n]
        PROVE  NodesOf(x.left) = Under[x.left] /\ NodesOf(x.right) = Under[x.right]
    <2>1. x \in Trees /\ x # Null
      BY <1>1, UnderNodes, TreeNodes
    <2>2. x.left \in Trees /\ x.right \in Trees
      BY <2>1, TreesIsClosed DEF Closed
    <2> QED
      BY <2>2, NodesAreUnder
  <1>4. Ordered(n) <=> Search(n)
    BY <1>1, <1>3, Zenon DEF Ordered, Search
  <1>5. RedBlack(n) <=> Shape(n, Black[n])
    BY <1>1 DEF RedBlack, Shape, Tops
  <1> QED
    BY <1>2, <1>4, <1>5

(* A search tree has a key for each node, and so no more levels than keys. *)
LEMMA ThreeParts ==
  ASSUME NEW A, NEW B, IsFiniteSet(A), IsFiniteSet(B), A \cap B = {}, NEW x, x \notin A, x \notin B
  PROVE  /\ IsFiniteSet({x} \cup A \cup B)
         /\ Cardinality({x} \cup A \cup B) = 1 + Cardinality(A) + Cardinality(B)
  <1>1. IsFiniteSet(A \cup B) /\ Cardinality(A \cup B) = Cardinality(A) + Cardinality(B)
    <2>1. /\ IsFiniteSet(A \cup B)
          /\ Cardinality(A \cup B) = Cardinality(A) + Cardinality(B) - Cardinality(A \cap B)
      BY FS_Union
    <2>2. Cardinality(A \cap B) = 0
      BY FS_EmptySet
    <2>3. Cardinality(A) \in Nat /\ Cardinality(B) \in Nat
      BY FS_CardinalityType
    <2> QED
      BY <2>1, <2>2, <2>3
  <1>2. x \notin A \cup B
    OBVIOUS
  <1>3. /\ IsFiniteSet((A \cup B) \cup {x})
        /\ Cardinality((A \cup B) \cup {x}) = Cardinality(A \cup B) + 1
    BY <1>1, <1>2, FS_AddElement
  <1>4. (A \cup B) \cup {x} = {x} \cup A \cup B
    OBVIOUS
  <1>5. Cardinality(A) \in Nat /\ Cardinality(B) \in Nat
    BY FS_CardinalityType
  <1> QED
    BY <1>1, <1>3, <1>4, <1>5

(* The pairs of a tree are pairs of a key and a datum.                     *)
LEMMA HeldTypes ==
  ASSUME NEW n \in Tree
  PROVE  /\ Held(n) \subseteq Keys \X Data
         /\ HeldKeys(n) \subseteq Keys /\ HeldKeys(n) \subseteq Int
  <1>1. Held(n) \subseteq Keys \X Data
    <2>1. \A x \in Under[n] : x.key \in Keys /\ x.data \in Data
      BY UnderNodes DEF Node
    <2> QED
      BY <2>1 DEF Held
  <1>2. \A p \in Keys \X Data : p[1] \in Keys
    OBVIOUS
  <1>3. HeldKeys(n) \subseteq Keys
    BY <1>1, <1>2 DEF HeldKeys
  <1> QED
    BY <1>1, <1>3, TreeAssumption

(* In a search tree the keys on the left are less, those on the right      *)
(* greater.                                                                *)
LEMMA HeldKeysOf ==
  ASSUME NEW n \in Node
  PROVE  /\ HeldKeys(n) = {n.key} \cup HeldKeys(n.left) \cup HeldKeys(n.right)
         /\ n.key \in Int
         /\ Search(n) => /\ \A k \in HeldKeys(n.left) : k \in Int /\ k < n.key
                         /\ \A k \in HeldKeys(n.right) : k \in Int /\ n.key < k
  <1>1. Held(n) = {<<n.key, n.data>>} \cup Held(n.left) \cup Held(n.right)
    BY HeldOf
  <1>2. <<n.key, n.data>>[1] = n.key
    OBVIOUS
  <1>3. n.left \in Tree /\ n.right \in Tree /\ n.key \in Keys
    BY DEF Node
  <1>4. HeldKeys(n.left) \subseteq Int /\ HeldKeys(n.right) \subseteq Int
    BY <1>3, HeldTypes
  <1>5. HeldKeys(n) = {n.key} \cup HeldKeys(n.left) \cup HeldKeys(n.right)
    BY <1>1, <1>2 DEF HeldKeys
  <1>6. Search(n) => Less(n.left, n.key) /\ More(n.right, n.key)
    BY SearchOf
  <1> QED
    BY <1>3, <1>4, <1>5, <1>6, TreeAssumption DEF HeldKeys, Less, More

(* A search tree has a node for each key.                                  *)
LEMMA WeightCounts ==
  ASSUME NEW n \in Tree, Search(n)
  PROVE  /\ IsFiniteSet(HeldKeys(n)) /\ Cardinality(HeldKeys(n)) = Weight[n]
         /\ IsFiniteSet(Under[n]) /\ Cardinality(Under[n]) = Weight[n]
  <1> DEFINE Counts(x) == /\ IsFiniteSet(HeldKeys(x)) /\ Cardinality(HeldKeys(x)) = Weight[x]
                          /\ IsFiniteSet(Under[x]) /\ Cardinality(Under[x]) = Weight[x]
             S == {x \in Tree : Search(x) => Counts(x)}
  <1>1. Null \in S
    <2>1. Under[Null] = {} /\ HeldKeys(Null) = {} /\ Weight[Null] = 0 /\ Null \in Tree
      <3>1. Held(Null) = {}
        BY NullHolds
      <3>2. HeldKeys(Null) = {}
        BY <3>1 DEF HeldKeys
      <3> QED
        BY <3>2, UnderOf, WeightOf, TreeNodes
    <2> QED
      BY <2>1, FS_EmptySet
  <1>2. ASSUME NEW x \in Node, x.left \in S, x.right \in S
        PROVE  x \in S
    <2> SUFFICES ASSUME Search(x)
                 PROVE  Counts(x)
      BY TreeNodes
    <2>1. x \in Tree /\ x # Null /\ x.left \in Tree /\ x.right \in Tree
      BY TreeNodes DEF Node
    <2>2. Search(x.left) /\ Search(x.right) /\ Less(x.left, x.key) /\ More(x.right, x.key)
      BY SearchOf
    <2>3. Counts(x.left) /\ Counts(x.right)
      BY <1>2, <2>2
    <2>4. Weight[x] = 1 + Weight[x.left] + Weight[x.right]
      BY SizesOf
    <2>5. IsFiniteSet(HeldKeys(x)) /\ Cardinality(HeldKeys(x)) = Weight[x]
      <3>1. /\ x.key \notin HeldKeys(x.left) /\ x.key \notin HeldKeys(x.right)
            /\ HeldKeys(x.left) \cap HeldKeys(x.right) = {}
        BY HeldKeysOf
      <3>2. HeldKeys(x) = {x.key} \cup HeldKeys(x.left) \cup HeldKeys(x.right)
        BY HeldKeysOf
      <3> DEFINE A == HeldKeys(x.left)
                 B == HeldKeys(x.right)
                 k == x.key
      <3>3. /\ IsFiniteSet(A) /\ IsFiniteSet(B) /\ A \cap B = {} /\ k \notin A /\ k \notin B
            /\ Cardinality(A) = Weight[x.left] /\ Cardinality(B) = Weight[x.right]
        BY <2>3, <3>1
      <3>4. HeldKeys(x) = {k} \cup A \cup B
        BY <3>2
      <3> HIDE DEF A, B, k
      <3>5. /\ IsFiniteSet({k} \cup A \cup B)
            /\ Cardinality({k} \cup A \cup B) = 1 + Cardinality(A) + Cardinality(B)
        BY <3>3, ThreeParts
      <3> QED
        BY <2>4, <3>3, <3>4, <3>5
    <2>6. IsFiniteSet(Under[x]) /\ Cardinality(Under[x]) = Weight[x]
      <3>1. /\ \A y \in Under[x.left] : y.key < x.key
            /\ \A y \in Under[x.right] : x.key < y.key
        BY <2>1, <2>2, LessMore
      <3>2. /\ x.key \in Int
            /\ \A y \in Under[x.left] : y.key \in Int
            /\ \A y \in Under[x.right] : y.key \in Int
        BY <2>1, UnderNodes, TreeAssumption DEF Node
      <3>3. x \notin Under[x.left] /\ x \notin Under[x.right] /\ Under[x.left] \cap Under[x.right] = {}
        BY <3>1, <3>2
      <3>4. Under[x] = {x} \cup Under[x.left] \cup Under[x.right]
        BY <2>1, UnderOf
      <3> QED
        BY <2>3, <2>4, <3>3, <3>4, ThreeParts
    <2> QED
      BY <2>5, <2>6
  <1>3. S = Tree
    <2> HIDE DEF S
    <2>1. S \in SUBSET Tree
      BY DEF S
    <2> QED
      BY <1>1, <1>2, <2>1, TreeInduction
  <1> QED
    BY <1>3

LEMMA WeightLevels == \A n \in Tree : n \in TreesUpTo[Weight[n]]
  <1> DEFINE S == {n \in Tree : n \in TreesUpTo[Weight[n]]}
  <1>1. Null \in S
    BY WeightOf, TreeNodes, Levels
  <1>2. ASSUME NEW n \in Node, n.left \in S, n.right \in S
        PROVE  n \in S
    <2> DEFINE w == Weight[n.left] + Weight[n.right]
    <2>1. /\ Weight[n.left] \in Nat /\ Weight[n.right] \in Nat
          /\ w \in Nat /\ Weight[n] = w + 1 /\ Weight[n.left] <= w /\ Weight[n.right] <= w
      BY SizesOf
    <2> HIDE DEF w
    <2>2. n.left \in TreesUpTo[w] /\ n.right \in TreesUpTo[w]
      BY <1>2, <2>1, LevelsGrow
    <2>3. n \in TreesUpTo[w + 1]
      BY <2>1, <2>2, LevelNodes DEF Node
    <2> QED
      BY <2>1, <2>3, TreeNodes
  <1>3. S = Tree
    <2> HIDE DEF S
    <2>1. S \in SUBSET Tree
      BY DEF S
    <2> QED
      BY <1>1, <1>2, <2>1, TreeInduction
  <1> QED
    BY <1>3

(* A search tree is therefore one of the trees of the model.               *)
LEMMA SearchTrees ==
  ASSUME NEW n \in Tree, Search(n)
  PROVE  n \in Trees
  <1>1. IsFiniteSet(Keys)
    <2> DEFINE f == [p \in Pairs |-> p[1]]
    <2>1. f \in Surjection(Pairs, Keys)
      BY DEF Surjection, Keys
    <2> QED
      BY <2>1, TreeAssumption, FS_Surjection
  <1>2. Cardinality(HeldKeys(n)) <= Cardinality(Keys)
    BY <1>1, HeldTypes, FS_Subset
  <1>3. Weight[n] <= Cardinality(Keys) /\ Weight[n] \in Nat /\ Cardinality(Keys) \in Nat
    BY <1>1, <1>2, WeightCounts, WeightOf, FS_CardinalityType
  <1> QED
    BY <1>3, WeightLevels, LevelsGrow DEF Trees

-----------------------------------------------------------------------------
(* ROTATIONS                                                               *)

SizesBelow(n) == Sizes(n.left) /\ Sizes(n.right)

(* The same pairs in other nodes.                                          *)
Rearranged(n, m) ==
  /\ m \in Node /\ Held(m) = Held(n) /\ Weight[m] = Weight[n]
  /\ Search(n) => Search(m)
  /\ SizesBelow(n) => SizesBelow(m)

LEMMA RearrangedTwice ==
  ASSUME NEW n, NEW m, NEW l, Rearranged(n, m), Rearranged(m, l)
  PROVE  Rearranged(n, l)
  BY DEF Rearranged

LEMMA RearrangedNot ==
  ASSUME NEW n \in Node
  PROVE  Rearranged(n, n)
  BY DEF Rearranged

LEMMA LessMoreOf ==
  ASSUME NEW n \in Node, NEW k
  PROVE  /\ Less(n, k) <=> n.key < k /\ Less(n.left, k) /\ Less(n.right, k)
         /\ More(n, k) <=> k < n.key /\ More(n.left, k) /\ More(n.right, k)
  <1>1. Held(n) = {<<n.key, n.data>>} \cup Held(n.left) \cup Held(n.right)
    BY HeldOf
  <1>2. <<n.key, n.data>>[1] = n.key
    OBVIOUS
  <1> QED
    BY <1>1, <1>2 DEF Less, More

LEMMA LessMoreFar ==
  ASSUME NEW n \in Tree, NEW k \in Int, NEW j \in Int, k < j
  PROVE  /\ Less(n, k) => Less(n, j)
         /\ More(n, j) => More(n, k)
  <1>1. \A p \in Held(n) : p[1] \in Int
    BY HeldTypes DEF HeldKeys
  <1> QED
    BY <1>1 DEF Less, More

(* The size a node keeps of a subtree.                                     *)
LEMMA SizeN ==
  ASSUME NEW n \in Tree
  PROVE  rb_size_n(n) \in Nat /\ (Sizes(n) => rb_size_n(n) = Weight[n])
  <1>1. CASE n = Null
    BY <1>1, WeightOf, TreeNodes DEF rb_size_n
  <1>2. CASE n # Null
    <2>1. n \in Node
      BY <1>2, TreeNodes
    <2> QED
      BY <1>2, <2>1, SizesOf DEF rb_size_n, Node
  <1> QED
    BY <1>1, <1>2

(* A node that differs in color and size only.                             *)
Alike(n, m) ==
  /\ m \in Node /\ m.key = n.key /\ m.data = n.data
  /\ m.left = n.left /\ m.right = n.right

(* It holds what the other holds.                                          *)
LEMMA AlikeHolds ==
  ASSUME NEW n \in Node, NEW m, Alike(n, m)
  PROVE  Rearranged(n, m) /\ (m.size = n.size => (Sizes(n) <=> Sizes(m)))
  <1>1. m \in Node /\ m.key = n.key /\ m.data = n.data /\ m.left = n.left /\ m.right = n.right
    BY DEF Alike
  <1>2. Held(m) = Held(n)
    <2>1. Held(n) = {<<n.key, n.data>>} \cup Held(n.left) \cup Held(n.right)
      BY HeldOf
    <2>2. Held(m) = {<<m.key, m.data>>} \cup Held(m.left) \cup Held(m.right)
      BY <1>1, HeldOf
    <2> QED
      BY <1>1, <2>1, <2>2
  <1>3. Search(n) => Search(m)
    BY <1>1, SearchOf
  <1>4. Weight[m] = Weight[n] /\ (m.size = n.size => (Sizes(n) <=> Sizes(m)))
    BY <1>1, SizesOf
  <1> QED
    BY <1>1, <1>2, <1>3, <1>4 DEF Rearranged, SizesBelow

LEMMA SizedHolds ==
  ASSUME NEW n \in Node
  PROVE  /\ Alike(n, Sized(n)) /\ Sized(n).red = n.red
         /\ Rearranged(n, Sized(n))
         /\ SizesBelow(n) => Sizes(Sized(n))
  <1> DEFINE m == Sized(n)
  <1>1. n.left \in Tree /\ n.right \in Tree
    BY DEF Node
  <1>2. rb_size_n(n.left) \in Nat /\ rb_size_n(n.right) \in Nat
    BY <1>1, SizeN
  <1>3. Alike(n, m) /\ m.red = n.red /\ m.size = 1 + rb_size_n(n.left) + rb_size_n(n.right)
    BY <1>2 DEF Sized, Alike, Node
  <1> HIDE DEF m
  <1>4. Rearranged(n, m)
    BY <1>3, AlikeHolds
  <1>5. ASSUME SizesBelow(n)
        PROVE  Sizes(m)
    <2>1. m \in Node /\ Sizes(m.left) /\ Sizes(m.right) /\ m.left = n.left /\ m.right = n.right
      BY <1>3, <1>5 DEF Alike, SizesBelow
    <2>2. m.size = 1 + Weight[m.left] + Weight[m.right]
      BY <1>1, <1>3, <2>1, SizeN
    <2> QED
      BY <2>1, <2>2, SizesOf
  <1> QED
    BY <1>3, <1>4, <1>5 DEF m

(* What a rotation and a flip make of a node.                              *)
LEMMA RotateLeft ==
  ASSUME NEW n \in Node, n.right \in Node
  PROVE  LET m == rb_rotate_left(n)
         IN  /\ m \in Node /\ m.key = n.right.key /\ m.data = n.right.data
             /\ m.red = n.red /\ m.size = n.size /\ m.right = n.right.right
             /\ m.left \in Node /\ m.left.key = n.key /\ m.left.data = n.data
             /\ m.left.red = TRUE /\ m.left.left = n.left /\ m.left.right = n.right.left
             /\ m.left.size = 1 + rb_size_n(n.left) + rb_size_n(n.right.left)
  <1> DEFINE a == [n EXCEPT !.right = n.right.left, !.red = TRUE]
  <1>1. n.left \in Tree /\ n.right.left \in Tree /\ n.right.right \in Tree
    BY DEF Node
  <1>2. /\ a \in Node /\ a.key = n.key /\ a.data = n.data /\ a.red = TRUE
        /\ a.left = n.left /\ a.right = n.right.left
    BY <1>1 DEF Node
  <1> HIDE DEF a
  <1>3. /\ Sized(a) \in Node /\ Sized(a).key = n.key /\ Sized(a).data = n.data
        /\ Sized(a).red = TRUE /\ Sized(a).left = n.left /\ Sized(a).right = n.right.left
        /\ Sized(a).size = 1 + rb_size_n(n.left) + rb_size_n(n.right.left)
    <2>1. Alike(a, Sized(a)) /\ Sized(a).red = a.red
      BY <1>2, SizedHolds
    <2>2. Sized(a).size = 1 + rb_size_n(a.left) + rb_size_n(a.right)
      BY <1>2 DEF Sized, Node
    <2> QED
      BY <1>2, <2>1, <2>2 DEF Alike
  <1> DEFINE l == Sized(a)
  <1>4. rb_rotate_left(n) = [n.right EXCEPT !.left = l, !.red = n.red, !.size = n.size]
    BY Zenon DEF rb_rotate_left, a
  <1> HIDE DEF l
  <1>5. l \in Tree /\ n.red \in BOOLEAN /\ n.size \in Nat
    BY <1>3, TreeNodes DEF l, Node
  <1>6. LET m == [n.right EXCEPT !.left = l, !.red = n.red, !.size = n.size]
        IN  /\ m \in Node /\ m.key = n.right.key /\ m.data = n.right.data
            /\ m.red = n.red /\ m.size = n.size /\ m.right = n.right.right /\ m.left = l
    BY <1>5 DEF Node
  <1> QED
    BY <1>3, <1>4, <1>6 DEF l

(* The fields of a node that was rotated to the right.                     *)
LEMMA RotateRight ==
  ASSUME NEW n \in Node, n.left \in Node
  PROVE  LET m == rb_rotate_right(n)
         IN  /\ m \in Node /\ m.key = n.left.key /\ m.data = n.left.data
             /\ m.red = n.red /\ m.size = n.size /\ m.left = n.left.left
             /\ m.right \in Node /\ m.right.key = n.key /\ m.right.data = n.data
             /\ m.right.red = TRUE /\ m.right.right = n.right /\ m.right.left = n.left.right
             /\ m.right.size = 1 + rb_size_n(n.left.right) + rb_size_n(n.right)
  <1> DEFINE a == [n EXCEPT !.left = n.left.right, !.red = TRUE]
  <1>1. n.right \in Tree /\ n.left.left \in Tree /\ n.left.right \in Tree
    BY DEF Node
  <1>2. /\ a \in Node /\ a.key = n.key /\ a.data = n.data /\ a.red = TRUE
        /\ a.right = n.right /\ a.left = n.left.right
    BY <1>1 DEF Node
  <1> HIDE DEF a
  <1>3. /\ Sized(a) \in Node /\ Sized(a).key = n.key /\ Sized(a).data = n.data
        /\ Sized(a).red = TRUE /\ Sized(a).right = n.right /\ Sized(a).left = n.left.right
        /\ Sized(a).size = 1 + rb_size_n(n.left.right) + rb_size_n(n.right)
    <2>1. Alike(a, Sized(a)) /\ Sized(a).red = a.red
      BY <1>2, SizedHolds
    <2>2. Sized(a).size = 1 + rb_size_n(a.left) + rb_size_n(a.right)
      BY <1>2 DEF Sized, Node
    <2> QED
      BY <1>2, <2>1, <2>2 DEF Alike
  <1> DEFINE r == Sized(a)
  <1>4. rb_rotate_right(n) = [n.left EXCEPT !.right = r, !.red = n.red, !.size = n.size]
    BY Zenon DEF rb_rotate_right, a
  <1> HIDE DEF r
  <1>5. r \in Tree /\ n.red \in BOOLEAN /\ n.size \in Nat
    BY <1>3, TreeNodes DEF r, Node
  <1>6. LET m == [n.left EXCEPT !.right = r, !.red = n.red, !.size = n.size]
        IN  /\ m \in Node /\ m.key = n.left.key /\ m.data = n.left.data
            /\ m.red = n.red /\ m.size = n.size /\ m.left = n.left.left /\ m.right = r
    BY <1>5 DEF Node
  <1> QED
    BY <1>3, <1>4, <1>6 DEF r

Flipped(n) == [n EXCEPT !.red = ~n.red]

LEMMA FlippedHolds ==
  ASSUME NEW n \in Node
  PROVE  Alike(n, Flipped(n)) /\ Flipped(n).red = ~n.red /\ Flipped(n).size = n.size
  BY DEF Flipped, Alike, Node

(* The fields of a node whose colors were flipped.                         *)
LEMMA ColorFlip ==
  ASSUME NEW n \in Node, n.left \in Node, n.right \in Node
  PROVE  LET m == rb_color_flip(n)
         IN  /\ m \in Node /\ m.key = n.key /\ m.data = n.data /\ m.red = ~n.red
             /\ m.left = Flipped(n.left) /\ m.right = Flipped(n.right)
  <1> DEFINE l == Flipped(n.left)
             r == Flipped(n.right)
  <1>1. l \in Tree /\ r \in Tree
    BY FlippedHolds, TreeNodes DEF Alike
  <1>2. rb_color_flip(n) = [n EXCEPT !.red = ~n.red, !.left = l, !.right = r]
    BY DEF rb_color_flip, Node, Flipped
  <1> HIDE DEF l, r
  <1>3. LET m == [n EXCEPT !.red = ~n.red, !.left = l, !.right = r]
        IN  /\ m \in Node /\ m.key = n.key /\ m.data = n.data /\ m.red = ~n.red
            /\ m.left = l /\ m.right = r
    BY <1>1 DEF Node
  <1> QED
    BY <1>2, <1>3 DEF l, r

LEMMA KeyIsInt == \A n \in Node : n.key \in Int
  BY TreeAssumption DEF Node

(* A left rotation changes no pair, no order and no size.                  *)
LEMMA RotateLeftRearranges ==
  ASSUME NEW n \in Node, n.right \in Node
  PROVE  /\ Rearranged(n, rb_rotate_left(n))
         /\ Sizes(n) => Sizes(rb_rotate_left(n))
  <1> DEFINE m == rb_rotate_left(n)
  <1>1. /\ m \in Node /\ m.key = n.right.key /\ m.data = n.right.data
        /\ m.size = n.size /\ m.right = n.right.right
        /\ m.left \in Node /\ m.left.key = n.key /\ m.left.data = n.data
        /\ m.left.left = n.left /\ m.left.right = n.right.left
        /\ m.left.size = 1 + rb_size_n(n.left) + rb_size_n(n.right.left)
    BY RotateLeft
  <1> HIDE DEF m
  <1>2. /\ n.left \in Tree /\ n.right.left \in Tree /\ n.right.right \in Tree
        /\ n.key \in Int /\ n.right.key \in Int
    BY KeyIsInt DEF Node
  <1>3. Held(m) = Held(n)
    <2>1. Held(n) = {<<n.key, n.data>>} \cup Held(n.left) \cup Held(n.right)
      BY HeldOf
    <2>2. Held(n.right) = {<<n.right.key, n.right.data>>} \cup Held(n.right.left) \cup Held(n.right.right)
      BY HeldOf
    <2>3. Held(m) = {<<m.key, m.data>>} \cup Held(m.left) \cup Held(m.right)
      BY <1>1, HeldOf
    <2>4. Held(m.left) = {<<m.left.key, m.left.data>>} \cup Held(m.left.left) \cup Held(m.left.right)
      BY <1>1, HeldOf
    <2> QED
      BY <1>1, <2>1, <2>2, <2>3, <2>4
  <1>4. ASSUME Search(n)
        PROVE  Search(m)
    <2>1. Search(n.left) /\ Search(n.right) /\ Less(n.left, n.key) /\ More(n.right, n.key)
      BY <1>4, SearchOf
    <2>2. /\ Search(n.right.left) /\ Search(n.right.right)
          /\ Less(n.right.left, n.right.key) /\ More(n.right.right, n.right.key)
      BY <2>1, SearchOf
    <2>3. n.key < n.right.key /\ More(n.right.left, n.key)
      BY <2>1, LessMoreOf
    <2>4. Less(n.left, n.right.key)
      BY <1>2, <2>1, <2>3, LessMoreFar
    <2>5. Search(m.left)
      BY <1>1, <2>1, <2>2, <2>3, SearchOf
    <2>6. Less(m.left, m.key)
      BY <1>1, <2>2, <2>3, <2>4, LessMoreOf
    <2> QED
      BY <1>1, <2>2, <2>5, <2>6, SearchOf
  <1>5. Weight[m] = Weight[n] /\ (SizesBelow(n) => SizesBelow(m))
    <2>1. /\ Weight[n] = 1 + Weight[n.left] + Weight[n.right]
          /\ Weight[n.left] \in Nat
      BY SizesOf
    <2>2. /\ Weight[n.right] = 1 + Weight[n.right.left] + Weight[n.right.right]
          /\ Weight[n.right.left] \in Nat /\ Weight[n.right.right] \in Nat
          /\ Sizes(n.right) => Sizes(n.right.left) /\ Sizes(n.right.right)
      BY SizesOf
    <2>3. Weight[m] = 1 + Weight[m.left] + Weight[n.right.right]
      BY <1>1, SizesOf
    <2>4. /\ Weight[m.left] = 1 + Weight[n.left] + Weight[n.right.left]
          /\ Sizes(m.left) <=> Sizes(n.left) /\ Sizes(n.right.left) /\ m.left.size = Weight[m.left]
      BY <1>1, SizesOf
    <2>5. SizesBelow(n) => m.left.size = 1 + Weight[n.left] + Weight[n.right.left]
      BY <1>1, <1>2, <2>2, SizeN DEF SizesBelow
    <2>6. Weight[m] = Weight[n]
      BY <2>1, <2>2, <2>3, <2>4
    <2> QED
      BY <1>1, <2>2, <2>4, <2>5, <2>6 DEF SizesBelow
  <1>6. Sizes(n) => Sizes(m)
    BY <1>1, <1>5, SizesOf DEF SizesBelow
  <1> QED
    BY <1>1, <1>3, <1>4, <1>5, <1>6 DEF Rearranged, m

(* Nor does a right rotation.                                              *)
LEMMA RotateRightRearranges ==
  ASSUME NEW n \in Node, n.left \in Node
  PROVE  /\ Rearranged(n, rb_rotate_right(n))
         /\ Sizes(n) => Sizes(rb_rotate_right(n))
  <1> DEFINE m == rb_rotate_right(n)
  <1>1. /\ m \in Node /\ m.key = n.left.key /\ m.data = n.left.data
        /\ m.size = n.size /\ m.left = n.left.left
        /\ m.right \in Node /\ m.right.key = n.key /\ m.right.data = n.data
        /\ m.right.right = n.right /\ m.right.left = n.left.right
        /\ m.right.size = 1 + rb_size_n(n.left.right) + rb_size_n(n.right)
    BY RotateRight
  <1> HIDE DEF m
  <1>2. /\ n.right \in Tree /\ n.left.right \in Tree /\ n.left.left \in Tree
        /\ n.key \in Int /\ n.left.key \in Int
    BY KeyIsInt DEF Node
  <1>3. Held(m) = Held(n)
    <2>1. Held(n) = {<<n.key, n.data>>} \cup Held(n.left) \cup Held(n.right)
      BY HeldOf
    <2>2. Held(n.left) = {<<n.left.key, n.left.data>>} \cup Held(n.left.left) \cup Held(n.left.right)
      BY HeldOf
    <2>3. Held(m) = {<<m.key, m.data>>} \cup Held(m.left) \cup Held(m.right)
      BY <1>1, HeldOf
    <2>4. Held(m.right) = {<<m.right.key, m.right.data>>} \cup Held(m.right.left) \cup Held(m.right.right)
      BY <1>1, HeldOf
    <2> QED
      BY <1>1, <2>1, <2>2, <2>3, <2>4
  <1>4. ASSUME Search(n)
        PROVE  Search(m)
    <2>1. Search(n.left) /\ Search(n.right) /\ Less(n.left, n.key) /\ More(n.right, n.key)
      BY <1>4, SearchOf
    <2>2. /\ Search(n.left.left) /\ Search(n.left.right)
          /\ Less(n.left.left, n.left.key) /\ More(n.left.right, n.left.key)
      BY <2>1, SearchOf
    <2>3. n.left.key < n.key /\ Less(n.left.right, n.key)
      BY <2>1, LessMoreOf
    <2>4. More(n.right, n.left.key)
      BY <1>2, <2>1, <2>3, LessMoreFar
    <2>5. Search(m.right)
      BY <1>1, <2>1, <2>2, <2>3, SearchOf
    <2>6. More(m.right, m.key)
      BY <1>1, <2>2, <2>3, <2>4, LessMoreOf
    <2> QED
      BY <1>1, <2>2, <2>5, <2>6, SearchOf
  <1>5. Weight[m] = Weight[n] /\ (SizesBelow(n) => SizesBelow(m))
    <2>1. /\ Weight[n] = 1 + Weight[n.left] + Weight[n.right]
          /\ Weight[n.right] \in Nat
      BY SizesOf
    <2>2. /\ Weight[n.left] = 1 + Weight[n.left.left] + Weight[n.left.right]
          /\ Weight[n.left.left] \in Nat /\ Weight[n.left.right] \in Nat
          /\ Sizes(n.left) => Sizes(n.left.left) /\ Sizes(n.left.right)
      BY SizesOf
    <2>3. Weight[m] = 1 + Weight[n.left.left] + Weight[m.right]
      BY <1>1, SizesOf
    <2>4. /\ Weight[m.right] = 1 + Weight[n.left.right] + Weight[n.right]
          /\ Sizes(m.right) <=> Sizes(n.left.right) /\ Sizes(n.right) /\ m.right.size = Weight[m.right]
      BY <1>1, SizesOf
    <2>5. SizesBelow(n) => m.right.size = 1 + Weight[n.left.right] + Weight[n.right]
      BY <1>1, <1>2, <2>2, SizeN DEF SizesBelow
    <2>6. Weight[m] = Weight[n]
      BY <2>1, <2>2, <2>3, <2>4
    <2> QED
      BY <1>1, <2>2, <2>4, <2>5, <2>6 DEF SizesBelow
  <1>6. Sizes(n) => Sizes(m)
    BY <1>1, <1>5, SizesOf DEF SizesBelow
  <1> QED
    BY <1>1, <1>3, <1>4, <1>5, <1>6 DEF Rearranged, m

(* A node whose subtrees are rearranged.                                   *)
LEMMA BelowRearranged ==
  ASSUME NEW n \in Node, NEW m \in Node, m.key = n.key, m.data = n.data,
         \/ m.left = n.left
         \/ n.left \in Node /\ Rearranged(n.left, m.left) /\ (Sizes(n.left) => Sizes(m.left)),
         \/ m.right = n.right
         \/ n.right \in Node /\ Rearranged(n.right, m.right) /\ (Sizes(n.right) => Sizes(m.right))
  PROVE  Rearranged(n, m)
  <1>1. /\ Held(m.left) = Held(n.left) /\ Weight[m.left] = Weight[n.left]
        /\ Search(n.left) => Search(m.left)
        /\ Sizes(n.left) => Sizes(m.left)
    BY DEF Rearranged
  <1>2. /\ Held(m.right) = Held(n.right) /\ Weight[m.right] = Weight[n.right]
        /\ Search(n.right) => Search(m.right)
        /\ Sizes(n.right) => Sizes(m.right)
    BY DEF Rearranged
  <1>3. Held(m) = Held(n)
    <2>1. Held(n) = {<<n.key, n.data>>} \cup Held(n.left) \cup Held(n.right)
      BY HeldOf
    <2>2. Held(m) = {<<m.key, m.data>>} \cup Held(m.left) \cup Held(m.right)
      BY HeldOf
    <2> QED
      BY <1>1, <1>2, <2>1, <2>2
  <1>4. Less(m.left, m.key) <=> Less(n.left, n.key)
    BY <1>1 DEF Less
  <1>5. More(m.right, m.key) <=> More(n.right, n.key)
    BY <1>2 DEF More
  <1>6. Search(n) => Search(m)
    BY <1>1, <1>2, <1>4, <1>5, SearchOf
  <1>7. Weight[m] = Weight[n]
    BY <1>1, <1>2, SizesOf
  <1> QED
    BY <1>1, <1>2, <1>3, <1>6, <1>7 DEF Rearranged, SizesBelow

LEMMA FlippedRearranges ==
  ASSUME NEW n \in Node
  PROVE  /\ Flipped(n) \in Node /\ Rearranged(n, Flipped(n)) /\ (Sizes(n) => Sizes(Flipped(n)))
         /\ Flipped(n).key = n.key /\ Flipped(n).data = n.data /\ Flipped(n).red = ~n.red
         /\ Flipped(n).left = n.left /\ Flipped(n).right = n.right
  BY FlippedHolds, AlikeHolds DEF Alike

(* Nor does a color flip.                                                  *)
LEMMA ColorFlipRearranges ==
  ASSUME NEW n \in Node, n.left \in Node, n.right \in Node
  PROVE  Rearranged(n, rb_color_flip(n))
  <1> DEFINE m == rb_color_flip(n)
  <1>1. /\ m \in Node /\ m.key = n.key /\ m.data = n.data
        /\ m.left = Flipped(n.left) /\ m.right = Flipped(n.right)
    BY ColorFlip
  <1>2. /\ Rearranged(n.left, Flipped(n.left)) /\ (Sizes(n.left) => Sizes(Flipped(n.left)))
        /\ Rearranged(n.right, Flipped(n.right)) /\ (Sizes(n.right) => Sizes(Flipped(n.right)))
    BY FlippedRearranges
  <1> HIDE DEF m
  <1>3. Rearranged(n, m)
    BY <1>1, <1>2, BelowRearranged
  <1> QED
    BY <1>3 DEF m

(* Nor does fix_up, which also counts the size of the top anew.            *)
LEMMA FixUpRearranges ==
  ASSUME NEW n \in Node
  PROVE  /\ fix_up(n) \in Node /\ Rearranged(n, fix_up(n))
         /\ SizesBelow(n) => Sizes(fix_up(n))
  <1> DEFINE a == IF rb_is_red(n.right) /\ ~rb_is_red(n.left) THEN rb_rotate_left(n) ELSE n
             b == IF rb_is_red(a.left) /\ rb_is_red(a.left.left) THEN rb_rotate_right(a) ELSE a
             c == IF rb_is_red(b.left) /\ rb_is_red(b.right) THEN rb_color_flip(b) ELSE b
  <1>1. \A x \in Node : /\ rb_is_red(x.left) => x.left \in Node
                        /\ rb_is_red(x.right) => x.right \in Node
    BY TreeNodes DEF rb_is_red, Node
  <1>2. Rearranged(n, a) /\ a \in Node
    <2>1. CASE rb_is_red(n.right) /\ ~rb_is_red(n.left)
      <3>1. Rearranged(n, rb_rotate_left(n))
        BY <1>1, <2>1, RotateLeftRearranges
      <3> QED
        BY <2>1, <3>1 DEF Rearranged
    <2>2. CASE ~(rb_is_red(n.right) /\ ~rb_is_red(n.left))
      BY <2>2, RearrangedNot
    <2> QED
      BY <2>1, <2>2
  <1> HIDE DEF a
  <1>3. Rearranged(a, b) /\ b \in Node
    <2>1. CASE rb_is_red(a.left) /\ rb_is_red(a.left.left)
      <3>1. Rearranged(a, rb_rotate_right(a))
        BY <1>1, <1>2, <2>1, RotateRightRearranges
      <3> QED
        BY <2>1, <3>1 DEF Rearranged
    <2>2. CASE ~(rb_is_red(a.left) /\ rb_is_red(a.left.left))
      BY <1>2, <2>2, RearrangedNot
    <2> QED
      BY <2>1, <2>2
  <1> HIDE DEF b
  <1>4. Rearranged(b, c) /\ c \in Node
    <2>1. CASE rb_is_red(b.left) /\ rb_is_red(b.right)
      <3>1. Rearranged(b, rb_color_flip(b))
        BY <1>1, <1>3, <2>1, ColorFlipRearranges
      <3> QED
        BY <2>1, <3>1 DEF Rearranged
    <2>2. CASE ~(rb_is_red(b.left) /\ rb_is_red(b.right))
      BY <1>3, <2>2, RearrangedNot
    <2> QED
      BY <2>1, <2>2
  <1> HIDE DEF c
  <1>5. Rearranged(n, c)
    BY <1>2, <1>3, <1>4, RearrangedTwice
  <1>6. Rearranged(n, Sized(c)) /\ (SizesBelow(c) => Sizes(Sized(c)))
    BY <1>4, <1>5, SizedHolds, RearrangedTwice
  <1>7. fix_up(n) = Sized(c)
    BY Zenon DEF fix_up, a, b, c
  <1> QED
    BY <1>5, <1>6, <1>7 DEF Rearranged

-----------------------------------------------------------------------------
(* COLORS                                                                  *)

(* Two subtrees of one black height.                                       *)
Even(n, h) == n \in Node /\ h \in Int /\ Shape(n.left, h) /\ Shape(n.right, h)

(* A tree has a shape if its subtrees have, and its top does not spoil it. *)
LEMMA ShapeSplits ==
  ASSUME NEW n \in Node, NEW h \in Int, Shape(n, h)
  PROVE  /\ Even(n, h - Mark(n)) /\ ~rb_is_red(n.right) /\ (n.red => ~rb_is_red(n.left))
  <1>1. Mark(n) \in Int /\ h - Mark(n) \in Int /\ h - Mark(n) + Mark(n) = h
    BY DEF Mark
  <1> QED
    BY <1>1, ShapeOf DEF Even

LEMMA ShapeJoins ==
  ASSUME NEW n, NEW h, Even(n, h), ~rb_is_red(n.right), n.red => ~rb_is_red(n.left)
  PROVE  Shape(n, h + Mark(n))
  BY ShapeOf DEF Even

LEMMA RedShape ==
  ASSUME NEW n \in Tree, NEW h \in Int, Shape(n, h), rb_is_red(n)
  PROVE  n \in Node /\ n.red = TRUE /\ Even(n, h) /\ ~rb_is_red(n.left) /\ ~rb_is_red(n.right)
  <1>1. n \in Node /\ n.red = TRUE
    BY TreeNodes DEF rb_is_red, Node
  <1>2. Mark(n) = 0 /\ h - 0 = h
    BY <1>1 DEF Mark
  <1> QED
    BY <1>1, <1>2, ShapeSplits

LEMMA BlackShape ==
  ASSUME NEW n \in Node, NEW h \in Int, Shape(n, h), ~rb_is_red(n)
  PROVE  n.red = FALSE /\ Even(n, h - 1) /\ ~rb_is_red(n.right)
  <1>1. n.red = FALSE
    BY TreeNodes DEF rb_is_red, Node
  <1>2. Mark(n) = 1
    BY <1>1 DEF Mark
  <1> QED
    BY <1>1, <1>2, ShapeSplits

LEMMA RedIs == \A n \in Node : (rb_is_red(n) <=> n.red) /\ n.red \in BOOLEAN
  BY TreeNodes DEF rb_is_red, Node

(* A red node painted black, and a black node painted red.                 *)
LEMMA FlippedBlack ==
  ASSUME NEW n \in Node, NEW h, Even(n, h), n.red = TRUE, ~rb_is_red(n.right)
  PROVE  Shape(Flipped(n), h + 1) /\ ~rb_is_red(Flipped(n))
  <1>1. /\ Flipped(n) \in Node /\ Flipped(n).red = FALSE
        /\ Flipped(n).left = n.left /\ Flipped(n).right = n.right
    BY FlippedRearranges
  <1>2. Even(Flipped(n), h) /\ Mark(Flipped(n)) = 1
    BY <1>1 DEF Even, Mark
  <1> QED
    BY <1>1, <1>2, ShapeJoins, RedIs

LEMMA FlippedRed ==
  ASSUME NEW n \in Node, NEW h \in Int, Even(n, h), n.red = FALSE,
         ~rb_is_red(n.left), ~rb_is_red(n.right)
  PROVE  Shape(Flipped(n), h) /\ rb_is_red(Flipped(n))
  <1>1. /\ Flipped(n) \in Node /\ Flipped(n).red = TRUE
        /\ Flipped(n).left = n.left /\ Flipped(n).right = n.right
    BY FlippedRearranges
  <1>2. Even(Flipped(n), h) /\ Mark(Flipped(n)) = 0 /\ h + 0 = h
    BY <1>1 DEF Even, Mark
  <1> QED
    BY <1>1, <1>2, ShapeJoins, RedIs

(* What fix_up makes of a node by the colors of its children.              *)
LEMMA SizedColors ==
  ASSUME NEW n \in Node
  PROVE  /\ Sized(n) \in Node /\ Sized(n).red = n.red
         /\ Sized(n).left = n.left /\ Sized(n).right = n.right
  BY SizedHolds DEF Alike

(* fix_up of a node with two red children moves the red link up.           *)
LEMMA FixUpFlips ==
  ASSUME NEW n \in Node, NEW h, Even(n, h), rb_is_red(n.left), rb_is_red(n.right)
  PROVE  LET m == fix_up(n)
         IN  /\ Even(m, h + 1) /\ m.red = ~n.red
             /\ ~rb_is_red(m.left) /\ ~rb_is_red(m.right)
  <1> DEFINE c == rb_color_flip(n)
  <1>1. /\ n.left \in Node /\ n.left.red = TRUE /\ Even(n.left, h)
        /\ ~rb_is_red(n.left.left) /\ ~rb_is_red(n.left.right)
    BY RedShape DEF Even, Node
  <1>2. /\ n.right \in Node /\ n.right.red = TRUE /\ Even(n.right, h)
        /\ ~rb_is_red(n.right.left) /\ ~rb_is_red(n.right.right)
    BY RedShape DEF Even, Node
  <1>3. /\ c \in Node /\ c.red = ~n.red
        /\ c.left = Flipped(n.left) /\ c.right = Flipped(n.right)
    BY <1>1, <1>2, ColorFlip
  <1>4. fix_up(n) = Sized(c)
    BY <1>1 DEF fix_up
  <1> HIDE DEF c
  <1>5. /\ Shape(Flipped(n.left), h + 1) /\ ~rb_is_red(Flipped(n.left))
        /\ Shape(Flipped(n.right), h + 1) /\ ~rb_is_red(Flipped(n.right))
    BY <1>1, <1>2, FlippedBlack
  <1>6. Even(c, h + 1)
    BY <1>3, <1>5 DEF Even
  <1> QED
    BY <1>3, <1>4, <1>5, <1>6, SizedColors DEF Even

(* fix_up of a node with a red right child alone turns it to the left.     *)
LEMMA FixUpLeans ==
  ASSUME NEW n \in Node, NEW h, Even(n, h), ~(rb_is_red(n.left) /\ rb_is_red(n.right))
  PROVE  LET m == fix_up(n)
         IN  /\ Even(m, h) /\ m.red = n.red /\ ~rb_is_red(m.right)
             /\ rb_is_red(m.left) <=> rb_is_red(n.left) \/ rb_is_red(n.right)
  <1>1. CASE rb_is_red(n.right)
    <2> DEFINE a == rb_rotate_left(n)
    <2>1. /\ n.right \in Node /\ n.right.red = TRUE /\ Even(n.right, h)
          /\ ~rb_is_red(n.right.left) /\ ~rb_is_red(n.right.right)
      BY <1>1, RedShape DEF Even, Node
    <2>2. /\ a \in Node /\ a.red = n.red /\ a.right = n.right.right
          /\ a.left \in Node /\ a.left.red = TRUE
          /\ a.left.left = n.left /\ a.left.right = n.right.left
      BY <2>1, RotateLeft
    <2>3. fix_up(n) = Sized(a)
      BY <1>1, <2>1, <2>2 DEF fix_up
    <2> HIDE DEF a
    <2>4. Even(a.left, h) /\ Mark(a.left) = 0 /\ h + 0 = h
      BY <2>1, <2>2 DEF Even, Mark
    <2>5. Shape(a.left, h) /\ rb_is_red(a.left)
      BY <1>1, <2>1, <2>2, <2>4, ShapeJoins, RedIs
    <2>6. Even(a, h)
      BY <2>1, <2>2, <2>5 DEF Even
    <2> QED
      BY <1>1, <2>1, <2>2, <2>3, <2>5, <2>6, SizedColors DEF Even
  <1>2. CASE ~rb_is_red(n.right)
    <2>1. rb_is_red(n.left) => ~rb_is_red(n.left.left)
      BY RedShape DEF Even, Node
    <2>2. fix_up(n) = Sized(n)
      BY <1>2, <2>1 DEF fix_up
    <2> QED
      BY <1>2, <2>2, SizedColors DEF Even
  <1> QED
    BY <1>1, <1>2

(* fix_up of two red links in a row splits them over the node between.     *)
LEMMA FixUpSplits ==
  ASSUME NEW n \in Node, NEW h, n.left \in Node, n.left.red = TRUE, Even(n.left, h),
         rb_is_red(n.left.left), ~rb_is_red(n.left.right),
         Shape(n.right, h), ~rb_is_red(n.right), n.red = FALSE
  PROVE  LET m == fix_up(n)
         IN  /\ Even(m, h + 1) /\ m.red = TRUE
             /\ ~rb_is_red(m.left) /\ ~rb_is_red(m.right)
  <1> DEFINE b == rb_rotate_right(n)
             c == rb_color_flip(b)
  <1>1. /\ n.left.left \in Node /\ n.left.left.red = TRUE /\ Even(n.left.left, h)
        /\ ~rb_is_red(n.left.left.left) /\ ~rb_is_red(n.left.left.right)
    BY RedShape DEF Even, Node
  <1>2. /\ b \in Node /\ b.red = FALSE /\ b.left = n.left.left
        /\ b.right \in Node /\ b.right.red = TRUE
        /\ b.right.left = n.left.right /\ b.right.right = n.right
    BY RotateRight
  <1>3. fix_up(n) = Sized(c)
    <2>1. rb_is_red(n.left) /\ rb_is_red(b.left) /\ rb_is_red(b.right)
      BY <1>1, <1>2, RedIs
    <2> HIDE DEF b
    <2> QED
      BY <2>1 DEF fix_up, b
  <1> HIDE DEF b
  <1>4. /\ c \in Node /\ c.red = TRUE
        /\ c.left = Flipped(b.left) /\ c.right = Flipped(b.right)
    BY <1>1, <1>2, ColorFlip
  <1> HIDE DEF c
  <1>5. Even(b.right, h)
    BY <1>2 DEF Even
  <1>6. /\ Shape(c.left, h + 1) /\ ~rb_is_red(c.left)
        /\ Shape(c.right, h + 1) /\ ~rb_is_red(c.right)
    BY <1>1, <1>2, <1>4, <1>5, FlippedBlack
  <1>7. Even(c, h + 1)
    BY <1>4, <1>6, <1>1 DEF Even
  <1> QED
    BY <1>3, <1>4, <1>6, <1>7, SizedColors DEF Even

(* A subtree a removal may be called for: its own children are even, and a *)
(* red link from it may lean right.                                        *)
Loose(x, h) ==
  /\ Even(x, h)
  /\ rb_is_red(x.left) => ~rb_is_red(x) /\ ~rb_is_red(x.right)
  /\ rb_is_red(x.right) => ~rb_is_red(x)

HasRed(x) == rb_is_red(x) \/ rb_is_red(x.left) \/ rb_is_red(x.right)

(* What a removal makes of it: with a red link to spend the black height   *)
(* stays; without, a node whose own color is the caller's to mend.         *)
Mended(x, h, m) ==
  /\ HasRed(x) => Shape(m, h + Mark(x)) /\ (rb_is_red(m) => x.red)
  /\ \/ m = Null
     \/ ~rb_is_red(m.right) /\ \E g : Even(m, g)

(* A removal that leaves a red-black tree mends nothing.                   *)
LEMMA MendedAsWas ==
  ASSUME NEW x \in Node, NEW h, NEW m, Even(m, h), ~rb_is_red(m.right),
         x.red => ~rb_is_red(m.left), m.red = x.red
  PROVE  Mended(x, h, m)
  <1>1. Shape(m, h + Mark(m)) /\ Mark(m) = Mark(x) /\ m \in Node
    BY ShapeJoins DEF Mark, Even
  <1> QED
    BY <1>1, RedIs DEF Mended

(* The node took the red link the removal spent.                           *)
LEMMA MendedDarker ==
  ASSUME NEW x \in Node, NEW h \in Int, NEW m, Even(m, h - 1), ~rb_is_red(m.right),
         m.red = ~x.red, HasRed(x) => x.red
  PROVE  Mended(x, h, m)
  <1>1. m \in Node /\ m.red \in BOOLEAN /\ x.red \in BOOLEAN
    BY RedIs DEF Even
  <1>2. ASSUME x.red = TRUE
        PROVE  Shape(m, h + Mark(x)) /\ ~rb_is_red(m)
    <2>1. m.red = FALSE
      BY <1>1, <1>2
    <2>2. Mark(m) = 1 /\ Mark(x) = 0 /\ h - 1 + 1 = h + 0
      BY <1>2, <2>1 DEF Mark
    <2>3. Shape(m, h - 1 + Mark(m))
      BY <2>1, ShapeJoins
    <2> QED
      BY <1>1, <2>1, <2>2, <2>3, RedIs
  <1> QED
    BY <1>1, <1>2 DEF Mended

(* Where the way ends.                                                     *)
LEMMA EndMended ==
  ASSUME NEW x, NEW h, Loose(x, h),
         \/ x.left = Null /\ ~rb_is_red(x.right)
         \/ x.right = Null /\ ~rb_is_red(x.left)
  PROVE  x.left = Null /\ x.right = Null /\ Mended(x, h, Null)
  <1>1. x \in Node /\ x.left \in Tree /\ x.right \in Tree /\ Shape(x.left, h) /\ Shape(x.right, h)
    BY DEF Loose, Even, Node
  <1>2. h = 0
    BY <1>1, NullHolds
  <1>3. x.left = Null /\ x.right = Null
    BY <1>1, <1>2, ShapeBounds
  <1>4. ~rb_is_red(Null)
    BY DEF rb_is_red
  <1>5. ASSUME HasRed(x)
        PROVE  Shape(Null, h + Mark(x))
    <2>1. x.red = TRUE
      BY <1>1, <1>3, <1>4, <1>5, RedIs DEF HasRed
    <2>2. h + Mark(x) = 0
      BY <1>2, <2>1 DEF Mark
    <2> QED
      BY <2>2, NullHolds
  <1> QED
    BY <1>3, <1>4, <1>5 DEF Mended

-----------------------------------------------------------------------------
(* THE WAY DOWN                                                            *)

(* A red link is moved down to the left.                                   *)
Leftward(x) == IF TwoBlack(x.left) THEN rb_move_red_left(x) ELSE x

LeftReady(x, h, a) ==
  /\ a \in Node /\ Rearranged(x, a) /\ Held(x.left) \subseteq Held(a.left)
  /\ \E g \in Int :
       /\ Loose(a.left, g) /\ ~rb_is_red(a.left.right) /\ HasRed(a.left)
       /\ \A n \in Node :
            n.right = a.right /\ n.red = a.red
            /\ Shape(n.left, g + Mark(a.left)) /\ (rb_is_red(n.left) => a.left.red)
            => Mended(x, h, fix_up(n))

LEMMA LooseRed ==
  ASSUME NEW x \in Tree, NEW h \in Int, Shape(x, h), rb_is_red(x)
  PROVE  /\ Loose(x, h) /\ ~rb_is_red(x.right) /\ HasRed(x) /\ h + Mark(x) = h
  <1>1. x \in Node /\ x.red = TRUE /\ Even(x, h) /\ ~rb_is_red(x.left) /\ ~rb_is_red(x.right)
    BY RedShape
  <1> QED
    BY <1>1 DEF Loose, HasRed, Mark

LEMMA LooseBlack ==
  ASSUME NEW x \in Node, NEW h \in Int, Shape(x, h), ~rb_is_red(x), rb_is_red(x.left)
  PROVE  /\ Loose(x, h - 1) /\ ~rb_is_red(x.right) /\ HasRed(x) /\ h - 1 + Mark(x) = h
  <1>1. x.red = FALSE /\ Even(x, h - 1) /\ ~rb_is_red(x.right)
    BY BlackShape
  <1> QED
    BY <1>1 DEF Loose, HasRed, Mark

LEMMA BothNodes ==
  ASSUME NEW x \in Node, NEW h, Even(x, h), ~rb_is_red(x.left), ~rb_is_red(x.right)
  PROVE  x.left # Null <=> x.right # Null
  <1>1. x.left \in Tree /\ x.right \in Tree /\ Shape(x.left, h) /\ Shape(x.right, h)
    BY DEF Even, Node
  <1>2. x.left = Null => h = 0
    BY <1>1, NullHolds
  <1>3. x.right = Null => h = 0
    BY <1>1, NullHolds
  <1> QED
    BY <1>1, <1>2, <1>3, ShapeBounds

(* There is a red link on the left already.                                *)
LEMMA LeftStays ==
  ASSUME NEW x \in Node, NEW h, Loose(x, h), ~rb_is_red(x.right), x.left # Null, ~TwoBlack(x.left)
  PROVE  LeftReady(x, h, x)
  <1>1. Even(x, h) /\ h \in Int /\ x.left \in Node /\ x.left \in Tree /\ Shape(x.left, h) /\ Shape(x.right, h)
    BY TreeNodes DEF Loose, Even, Node
  <1>2. CASE rb_is_red(x.left)
    <2>1. x.red = FALSE
      BY <1>2, RedIs DEF Loose
    <2>2. Loose(x.left, h) /\ ~rb_is_red(x.left.right) /\ HasRed(x.left) /\ h + Mark(x.left) = h
      BY <1>1, <1>2, LooseRed
    <2>3. ASSUME NEW n \in Node, n.right = x.right, n.red = x.red, Shape(n.left, h + Mark(x.left))
          PROVE  Mended(x, h, fix_up(n))
      <3>1. Even(n, h) /\ ~rb_is_red(n.right)
        BY <1>1, <2>2, <2>3 DEF Even
      <3>2. LET m == fix_up(n) IN Even(m, h) /\ m.red = n.red /\ ~rb_is_red(m.right)
        BY <3>1, FixUpLeans
      <3> QED
        BY <2>1, <2>3, <3>2, MendedAsWas
    <2> QED
      BY <1>1, <2>2, <2>3, RearrangedNot DEF LeftReady
  <1>3. CASE ~rb_is_red(x.left)
    <2>1. rb_is_red(x.left.left)
      BY <1>3 DEF TwoBlack
    <2>2. /\ Loose(x.left, h - 1) /\ ~rb_is_red(x.left.right) /\ HasRed(x.left)
          /\ h - 1 + Mark(x.left) = h /\ h - 1 \in Int
      BY <1>1, <1>3, <2>1, LooseBlack
    <2>3. ASSUME NEW n \in Node, n.right = x.right, n.red = x.red, Shape(n.left, h - 1 + Mark(x.left)),
                 rb_is_red(n.left) => x.left.red
          PROVE  Mended(x, h, fix_up(n))
      <3>1. Even(n, h) /\ ~rb_is_red(n.right) /\ ~rb_is_red(n.left)
        BY <1>1, <1>3, <2>2, <2>3, RedIs DEF Even
      <3>2. LET m == fix_up(n)
            IN  Even(m, h) /\ m.red = n.red /\ ~rb_is_red(m.right) /\ ~rb_is_red(m.left)
        BY <3>1, FixUpLeans
      <3> QED
        BY <2>3, <3>2, MendedAsWas
    <2> QED
      BY <1>1, <2>2, <2>3, RearrangedNot DEF LeftReady
  <1> QED
    BY <1>2, <1>3

(* rb_move_red_left takes the red link from above.                         *)
LEMMA LeftFlips ==
  ASSUME NEW x \in Node, NEW h, Loose(x, h), ~rb_is_red(x.right), x.left # Null, TwoBlack(x.left),
         ~rb_is_red(x.right.left)
  PROVE  LeftReady(x, h, rb_move_red_left(x))
  <1> DEFINE a == rb_color_flip(x)
  <1>1. /\ Even(x, h) /\ h \in Int /\ h - 1 \in Int /\ h - 1 + 1 = h
        /\ ~rb_is_red(x.left) /\ ~rb_is_red(x.left.left)
        /\ Shape(x.left, h) /\ Shape(x.right, h)
    BY DEF Loose, Even, TwoBlack
  <1>2. x.left \in Node /\ x.right \in Node
    BY <1>1, BothNodes, TreeNodes DEF Node
  <1>3. /\ x.left.red = FALSE /\ Even(x.left, h - 1) /\ ~rb_is_red(x.left.right)
        /\ x.right.red = FALSE /\ Even(x.right, h - 1) /\ ~rb_is_red(x.right.right)
    BY <1>1, <1>2, BlackShape
  <1>4. /\ a \in Node /\ a.red = ~x.red
        /\ a.left = Flipped(x.left) /\ a.right = Flipped(x.right)
    BY <1>2, ColorFlip
  <1>5. Rearranged(x, a)
    BY <1>2, ColorFlipRearranges
  <1>6. rb_move_red_left(x) = a
    <2>1. a.right.left = x.right.left
      BY <1>2, <1>4, FlippedRearranges
    <2> HIDE DEF a
    <2> QED
      BY <2>1 DEF rb_move_red_left, a
  <1> HIDE DEF a
  <1>7. /\ Shape(a.left, h - 1) /\ rb_is_red(a.left)
        /\ Shape(a.right, h - 1) /\ rb_is_red(a.right)
    BY <1>1, <1>2, <1>3, <1>4, FlippedRed
  <1>8. /\ Loose(a.left, h - 1) /\ ~rb_is_red(a.left.right) /\ HasRed(a.left)
        /\ h - 1 + Mark(a.left) = h - 1
    BY <1>1, <1>2, <1>4, <1>7, LooseRed, FlippedRearranges, TreeNodes
  <1>9. ASSUME NEW n \in Node, n.right = a.right, n.red = a.red, Shape(n.left, h - 1 + Mark(a.left))
        PROVE  Mended(x, h, fix_up(n))
    <2>1. Even(n, h - 1) /\ rb_is_red(n.right)
      BY <1>1, <1>7, <1>8, <1>9 DEF Even
    <2>2. CASE rb_is_red(n.left)
      <3>1. LET m == fix_up(n)
            IN  Even(m, h - 1 + 1) /\ m.red = ~n.red /\ ~rb_is_red(m.left) /\ ~rb_is_red(m.right)
        BY <2>1, <2>2, FixUpFlips
      <3>2. fix_up(n).red = x.red
        BY <1>4, <1>9, <3>1, RedIs
      <3> QED
        BY <1>1, <3>1, <3>2, MendedAsWas
    <2>3. CASE ~rb_is_red(n.left)
      <3>1. LET m == fix_up(n)
            IN  Even(m, h - 1) /\ m.red = n.red /\ ~rb_is_red(m.right)
        BY <2>1, <2>3, FixUpLeans
      <3>2. HasRed(x) => x.red
        BY <1>1, RedIs DEF HasRed
      <3> QED
        BY <1>1, <1>4, <1>9, <3>1, <3>2, MendedDarker
    <2> QED
      BY <2>2, <2>3
  <1>10. Held(x.left) \subseteq Held(a.left)
    BY <1>2, <1>4, FlippedRearranges DEF Rearranged
  <1> QED
    BY <1>1, <1>4, <1>5, <1>6, <1>8, <1>9, <1>10 DEF LeftReady

(* rb_move_red_left takes the red link from the other side.                *)
LEMMA LeftTurns ==
  ASSUME NEW x \in Node, NEW h, Loose(x, h), ~rb_is_red(x.right), x.left # Null, TwoBlack(x.left),
         rb_is_red(x.right.left)
  PROVE  LeftReady(x, h, rb_move_red_left(x))
  <1> DEFINE a == rb_color_flip(x)
             r == rb_rotate_right(a.right)
             b == [a EXCEPT !.right = r]
             c == rb_rotate_left(b)
             t == rb_color_flip(c)
  <1>1. /\ Even(x, h) /\ h \in Int /\ h - 1 \in Int /\ h - 1 + 1 = h
        /\ ~rb_is_red(x.left) /\ ~rb_is_red(x.left.left)
        /\ Shape(x.left, h) /\ Shape(x.right, h)
    BY DEF Loose, Even, TwoBlack
  <1>2. x.left \in Node /\ x.right \in Node
    BY <1>1, BothNodes, TreeNodes DEF Node
  <1>3. /\ x.left.red = FALSE /\ Even(x.left, h - 1) /\ ~rb_is_red(x.left.right)
        /\ x.right.red = FALSE /\ Even(x.right, h - 1) /\ ~rb_is_red(x.right.right)
    BY <1>1, <1>2, BlackShape
  <1>4. /\ x.right.left \in Node /\ Even(x.right.left, h - 1)
        /\ ~rb_is_red(x.right.left.left) /\ ~rb_is_red(x.right.left.right)
    BY <1>1, <1>2, <1>3, RedShape DEF Even, Node
  <1>5. /\ a \in Node /\ a.red = ~x.red /\ a.left = Flipped(x.left) /\ a.right = Flipped(x.right)
        /\ a.key = x.key /\ a.data = x.data /\ Rearranged(x, a)
    BY <1>2, ColorFlip, ColorFlipRearranges
  <1>6. rb_move_red_left(x) = t
    <2>1. a.right.left = x.right.left
      BY <1>2, <1>5, FlippedRearranges
    <2> HIDE DEF a
    <2> QED
      BY <2>1 DEF rb_move_red_left, a
  <1> HIDE DEF a
  <1>7. /\ a.right \in Node /\ a.right.red = TRUE /\ a.right.left = x.right.left
        /\ a.right.right = x.right.right
    <2>1. a.right = Flipped(x.right) /\ x.right \in Node /\ x.right.red = FALSE
      BY <1>2, <1>3, <1>5
    <2>2. /\ Flipped(x.right) \in Node /\ Flipped(x.right).red = ~x.right.red
          /\ Flipped(x.right).left = x.right.left /\ Flipped(x.right).right = x.right.right
      BY <2>1, FlippedRearranges
    <2> QED
      BY <2>1, <2>2
  <1>8. /\ r \in Node /\ r.red = TRUE /\ r.left = x.right.left.left
        /\ r.right \in Node /\ r.right.red = TRUE
        /\ r.right.left = x.right.left.right /\ r.right.right = x.right.right
        /\ Rearranged(a.right, r) /\ (Sizes(a.right) => Sizes(r))
    <2> DEFINE s == a.right
    <2>1. s \in Node /\ s.left \in Node /\ s.red = TRUE
      BY <1>4, <1>7
    <2>2. s.left = x.right.left /\ s.right = x.right.right
      BY <1>7
    <2>3. r = rb_rotate_right(s)
      OBVIOUS
    <2> HIDE DEF s, r
    <2>4. /\ r \in Node /\ r.red = s.red /\ r.left = s.left.left
          /\ r.right \in Node /\ r.right.red = TRUE
          /\ r.right.left = s.left.right /\ r.right.right = s.right
      BY <2>1, <2>3, RotateRight
    <2>5. Rearranged(s, r) /\ (Sizes(s) => Sizes(r))
      BY <2>1, <2>3, RotateRightRearranges
    <2> QED
      BY <2>1, <2>2, <2>4, <2>5 DEF s
  <1> HIDE DEF r
  <1>9. /\ b \in Node /\ b.key = a.key /\ b.data = a.data /\ b.red = a.red
        /\ b.left = a.left /\ b.right = r
    BY <1>5, <1>8, TreeNodes DEF Node
  <1> HIDE DEF b
  <1>10. Rearranged(a, b)
    BY <1>5, <1>7, <1>8, <1>9, BelowRearranged
  <1>11. /\ c \in Node /\ c.red = ~x.red /\ c.right = r.right
         /\ c.left \in Node /\ c.left.red = TRUE
         /\ c.left.left = a.left /\ c.left.right = r.left /\ Rearranged(b, c)
    BY <1>5, <1>8, <1>9, RotateLeft, RotateLeftRearranges
  <1> HIDE DEF c
  <1>12. /\ t \in Node /\ t.red = x.red /\ t.left = Flipped(c.left) /\ t.right = Flipped(c.right)
         /\ Rearranged(c, t)
    BY <1>8, <1>11, ColorFlip, ColorFlipRearranges, RedIs
  <1> HIDE DEF t
  <1>13. Rearranged(x, t)
    BY <1>5, <1>10, <1>11, <1>12, RearrangedTwice
  <1>14. Shape(a.left, h - 1) /\ rb_is_red(a.left) /\ a.left \in Node
    <2>1. Flipped(x.left) \in Node
      BY <1>2, FlippedRearranges
    <2>2. Shape(Flipped(x.left), h - 1) /\ rb_is_red(Flipped(x.left))
      BY <1>1, <1>2, <1>3, FlippedRed
    <2> QED
      BY <1>5, <2>1, <2>2
  <1>15. /\ Even(c.left, h - 1) /\ ~rb_is_red(c.left.right)
         /\ Even(c.right, h - 1) /\ ~rb_is_red(c.right.right) /\ c.right.red = TRUE
    BY <1>1, <1>3, <1>4, <1>8, <1>11, <1>14 DEF Even
  <1>16. /\ Shape(t.left, h) /\ ~rb_is_red(t.left) /\ t.left \in Node
         /\ Shape(t.right, h) /\ ~rb_is_red(t.right)
         /\ t.left.left = a.left /\ rb_is_red(t.left.left)
    <2>1. Shape(t.left, h - 1 + 1) /\ ~rb_is_red(t.left)
      BY <1>11, <1>12, <1>15, FlippedBlack
    <2>2. Shape(t.right, h - 1 + 1) /\ ~rb_is_red(t.right)
      BY <1>8, <1>11, <1>12, <1>15, FlippedBlack
    <2>3. t.left \in Node /\ t.left.left = a.left
      BY <1>11, <1>12, FlippedRearranges
    <2> QED
      BY <1>1, <1>14, <2>1, <2>2, <2>3
  <1>17. /\ Loose(t.left, h - 1) /\ ~rb_is_red(t.left.right) /\ HasRed(t.left)
         /\ h - 1 + Mark(t.left) = h
    BY <1>1, <1>16, LooseBlack
  <1>18. ASSUME NEW n \in Node, n.right = t.right, n.red = t.red, Shape(n.left, h - 1 + Mark(t.left)),
                rb_is_red(n.left) => t.left.red
         PROVE  Mended(x, h, fix_up(n))
    <2>1. Even(n, h) /\ ~rb_is_red(n.right) /\ ~rb_is_red(n.left)
      BY <1>1, <1>16, <1>17, <1>18, RedIs DEF Even
    <2>2. LET m == fix_up(n)
          IN  Even(m, h) /\ m.red = n.red /\ ~rb_is_red(m.right) /\ ~rb_is_red(m.left)
      BY <2>1, FixUpLeans
    <2> QED
      BY <1>12, <1>18, <2>2, MendedAsWas
  <1>19. Held(x.left) \subseteq Held(t.left)
    <2>1. Held(a.left) = Held(x.left)
      BY <1>2, <1>5, FlippedRearranges DEF Rearranged
    <2>2. Held(t.left) = {<<t.left.key, t.left.data>>} \cup Held(t.left.left) \cup Held(t.left.right)
      BY <1>16, HeldOf
    <2> QED
      BY <1>16, <2>1, <2>2
  <1> QED
    BY <1>1, <1>6, <1>12, <1>13, <1>17, <1>18, <1>19 DEF LeftReady

(* Either way the left subtree is ready for a removal from it.             *)
LEMMA MovesLeft ==
  ASSUME NEW x \in Node, NEW h, Loose(x, h), ~rb_is_red(x.right), x.left # Null
  PROVE  LeftReady(x, h, Leftward(x))
  BY LeftStays, LeftFlips, LeftTurns DEF Leftward

(* And to the right.                                                       *)
Leaned(x) == IF rb_is_red(x.left) THEN rb_rotate_right(x) ELSE x
Rightward(a) == IF TwoBlack(a.right) THEN rb_move_red_right(a) ELSE a

RightReady(x, h, b) ==
  /\ b \in Node /\ Rearranged(x, b) /\ Held(x.right) \subseteq Held(b.right)
  /\ \E g \in Int :
       /\ Loose(b.right, g) /\ HasRed(b.right)
       /\ \A n \in Node :
            n.left = b.left /\ n.red = b.red
            /\ Shape(n.right, g + Mark(b.right)) /\ (rb_is_red(n.right) => b.right.red)
            => Mended(x, h, fix_up(n))
  /\ Search(x) => /\ rb_is_red(b.right.right) => b.key < x.key /\ b.right.key = x.key
                  /\ b.key <= x.key

(* A red left link is turned to the right first.                           *)
LEMMA RightLeans ==
  ASSUME NEW x \in Node, NEW h, Loose(x, h), rb_is_red(x.left)
  PROVE  /\ Leaned(x) \in Node /\ Leaned(x).right # Null /\ ~TwoBlack(Leaned(x).right)
         /\ Search(x) => Leaned(x).key < x.key
         /\ RightReady(x, h, Leaned(x))
  <1> DEFINE a == rb_rotate_right(x)
  <1>1. /\ Even(x, h) /\ h \in Int /\ Shape(x.left, h) /\ Shape(x.right, h)
        /\ x.red = FALSE /\ ~rb_is_red(x.right)
    BY RedIs DEF Loose, Even
  <1>2. /\ x.left \in Node /\ x.left.red = TRUE /\ Even(x.left, h)
        /\ ~rb_is_red(x.left.left) /\ ~rb_is_red(x.left.right)
    BY <1>1, RedShape DEF Node
  <1>3. /\ a \in Node /\ a.red = FALSE /\ a.left = x.left.left /\ a.key = x.left.key
        /\ a.right \in Node /\ a.right.red = TRUE
        /\ a.right.left = x.left.right /\ a.right.right = x.right /\ Rearranged(x, a)
    BY <1>1, <1>2, RotateRight, RotateRightRearranges
  <1>4. Leaned(x) = a
    BY DEF Leaned
  <1> HIDE DEF a
  <1>5. /\ Even(a.right, h) /\ ~rb_is_red(a.right.left) /\ ~rb_is_red(a.right.right)
        /\ rb_is_red(a.right) /\ Mark(a.right) = 0 /\ h + 0 = h
    BY <1>1, <1>2, <1>3, RedIs DEF Even, Mark
  <1>6. Loose(a.right, h) /\ HasRed(a.right) /\ ~TwoBlack(a.right) /\ a.right # Null
    BY <1>3, <1>5, TreeNodes DEF Loose, HasRed, TwoBlack
  <1>7. ASSUME NEW n \in Node, n.left = a.left, n.red = a.red, Shape(n.right, h + Mark(a.right))
        PROVE  Mended(x, h, fix_up(n))
    <2>1. Even(n, h) /\ ~rb_is_red(n.left)
      BY <1>1, <1>2, <1>3, <1>5, <1>7 DEF Even
    <2>2. LET m == fix_up(n) IN Even(m, h) /\ m.red = n.red /\ ~rb_is_red(m.right)
      BY <2>1, FixUpLeans
    <2> QED
      BY <1>1, <1>3, <1>7, <2>2, MendedAsWas
  <1>8. Held(x.right) \subseteq Held(a.right)
    BY <1>3, HeldOf
  <1>9. ASSUME Search(x)
        PROVE  a.key < x.key
    BY <1>2, <1>3, <1>9, SearchOf, LessMoreOf
  <1>10. x.key \in Int /\ a.key \in Int
    BY <1>3, KeyIsInt
  <1> QED
    BY <1>1, <1>3, <1>4, <1>5, <1>6, <1>7, <1>8, <1>9, <1>10 DEF RightReady

(* There is a red link on the right already.                               *)
LEMMA RightStays ==
  ASSUME NEW x \in Node, NEW h, Loose(x, h), ~rb_is_red(x.left), x.right # Null, ~TwoBlack(x.right)
  PROVE  RightReady(x, h, x)
  <1>1. /\ Even(x, h) /\ h \in Int /\ x.right \in Node /\ x.right \in Tree
        /\ Shape(x.left, h) /\ Shape(x.right, h) /\ x.key \in Int
    BY TreeNodes, KeyIsInt DEF Loose, Even, Node
  <1>2. CASE rb_is_red(x.right)
    <2>1. x.red = FALSE
      BY <1>2, RedIs DEF Loose
    <2>2. Loose(x.right, h) /\ ~rb_is_red(x.right.right) /\ HasRed(x.right) /\ h + Mark(x.right) = h
      BY <1>1, <1>2, LooseRed
    <2>3. ASSUME NEW n \in Node, n.left = x.left, n.red = x.red, Shape(n.right, h + Mark(x.right))
          PROVE  Mended(x, h, fix_up(n))
      <3>1. Even(n, h) /\ ~rb_is_red(n.left)
        BY <1>1, <2>2, <2>3 DEF Even
      <3>2. LET m == fix_up(n) IN Even(m, h) /\ m.red = n.red /\ ~rb_is_red(m.right)
        BY <3>1, FixUpLeans
      <3> QED
        BY <2>1, <2>3, <3>2, MendedAsWas
    <2> QED
      BY <1>1, <2>2, <2>3, RearrangedNot DEF RightReady
  <1>3. CASE ~rb_is_red(x.right)
    <2>1. rb_is_red(x.right.left)
      BY <1>3 DEF TwoBlack
    <2>2. /\ Loose(x.right, h - 1) /\ ~rb_is_red(x.right.right) /\ HasRed(x.right)
          /\ h - 1 + Mark(x.right) = h /\ h - 1 \in Int
      BY <1>1, <1>3, <2>1, LooseBlack
    <2>3. ASSUME NEW n \in Node, n.left = x.left, n.red = x.red, Shape(n.right, h - 1 + Mark(x.right)),
                 rb_is_red(n.right) => x.right.red
          PROVE  Mended(x, h, fix_up(n))
      <3>1. Even(n, h) /\ ~rb_is_red(n.right) /\ ~rb_is_red(n.left)
        BY <1>1, <1>3, <2>2, <2>3, RedIs DEF Even
      <3>2. LET m == fix_up(n)
            IN  Even(m, h) /\ m.red = n.red /\ ~rb_is_red(m.right) /\ ~rb_is_red(m.left)
        BY <3>1, FixUpLeans
      <3> QED
        BY <2>3, <3>2, MendedAsWas
    <2> QED
      BY <1>1, <2>2, <2>3, RearrangedNot DEF RightReady
  <1> QED
    BY <1>2, <1>3

(* rb_move_red_right takes the red link from above.                        *)
LEMMA RightFlips ==
  ASSUME NEW x \in Node, NEW h, Loose(x, h), ~rb_is_red(x.left), x.right # Null, TwoBlack(x.right),
         ~rb_is_red(x.left.left)
  PROVE  RightReady(x, h, rb_move_red_right(x))
  <1> DEFINE a == rb_color_flip(x)
  <1>1. /\ Even(x, h) /\ h \in Int /\ h - 1 \in Int /\ h - 1 + 1 = h
        /\ ~rb_is_red(x.right) /\ ~rb_is_red(x.right.left)
        /\ Shape(x.left, h) /\ Shape(x.right, h) /\ x.key \in Int
    BY KeyIsInt DEF Loose, Even, TwoBlack
  <1>2. x.left \in Node /\ x.right \in Node
    BY <1>1, BothNodes, TreeNodes DEF Node
  <1>3. /\ x.left.red = FALSE /\ Even(x.left, h - 1) /\ ~rb_is_red(x.left.right)
        /\ x.right.red = FALSE /\ Even(x.right, h - 1) /\ ~rb_is_red(x.right.right)
    BY <1>1, <1>2, BlackShape
  <1>4. /\ a \in Node /\ a.red = ~x.red /\ a.key = x.key
        /\ a.left = Flipped(x.left) /\ a.right = Flipped(x.right)
    BY <1>2, ColorFlip
  <1>5. Rearranged(x, a)
    BY <1>2, ColorFlipRearranges
  <1>6. rb_move_red_right(x) = a
    <2>1. a.left.left = x.left.left
      BY <1>2, <1>4, FlippedRearranges
    <2> HIDE DEF a
    <2> QED
      BY <2>1 DEF rb_move_red_right, a
  <1> HIDE DEF a
  <1>7. /\ Shape(a.left, h - 1) /\ rb_is_red(a.left)
        /\ Shape(a.right, h - 1) /\ rb_is_red(a.right)
    BY <1>1, <1>2, <1>3, <1>4, FlippedRed
  <1>8. /\ Loose(a.right, h - 1) /\ ~rb_is_red(a.right.right) /\ HasRed(a.right)
        /\ h - 1 + Mark(a.right) = h - 1
    BY <1>1, <1>2, <1>4, <1>7, LooseRed, FlippedRearranges, TreeNodes
  <1>9. ASSUME NEW n \in Node, n.left = a.left, n.red = a.red, Shape(n.right, h - 1 + Mark(a.right))
        PROVE  Mended(x, h, fix_up(n))
    <2>1. Even(n, h - 1) /\ rb_is_red(n.left)
      BY <1>1, <1>7, <1>8, <1>9 DEF Even
    <2>2. CASE rb_is_red(n.right)
      <3>1. LET m == fix_up(n)
            IN  Even(m, h - 1 + 1) /\ m.red = ~n.red /\ ~rb_is_red(m.left) /\ ~rb_is_red(m.right)
        BY <2>1, <2>2, FixUpFlips
      <3>2. fix_up(n).red = x.red
        BY <1>4, <1>9, <3>1, RedIs
      <3> QED
        BY <1>1, <3>1, <3>2, MendedAsWas
    <2>3. CASE ~rb_is_red(n.right)
      <3>1. LET m == fix_up(n)
            IN  Even(m, h - 1) /\ m.red = n.red /\ ~rb_is_red(m.right)
        BY <2>1, <2>3, FixUpLeans
      <3>2. HasRed(x) => x.red
        BY <1>1, RedIs DEF HasRed
      <3> QED
        BY <1>1, <1>4, <1>9, <3>1, <3>2, MendedDarker
    <2> QED
      BY <2>2, <2>3
  <1>10. Held(x.right) \subseteq Held(a.right)
    BY <1>2, <1>4, FlippedRearranges DEF Rearranged
  <1> QED
    BY <1>1, <1>4, <1>5, <1>6, <1>8, <1>9, <1>10 DEF RightReady

(* rb_move_red_right takes the red link from the other side.               *)
LEMMA RightTurns ==
  ASSUME NEW x \in Node, NEW h, Loose(x, h), ~rb_is_red(x.left), x.right # Null, TwoBlack(x.right),
         rb_is_red(x.left.left)
  PROVE  RightReady(x, h, rb_move_red_right(x))
  <1> DEFINE a == rb_color_flip(x)
             c == rb_rotate_right(a)
             t == rb_color_flip(c)
  <1>1. /\ Even(x, h) /\ h \in Int /\ h - 1 \in Int /\ h - 1 + 1 = h
        /\ ~rb_is_red(x.right) /\ ~rb_is_red(x.right.left)
        /\ Shape(x.left, h) /\ Shape(x.right, h) /\ x.key \in Int
    BY KeyIsInt DEF Loose, Even, TwoBlack
  <1>2. x.left \in Node /\ x.right \in Node
    BY <1>1, BothNodes, TreeNodes DEF Node
  <1>3. /\ x.left.red = FALSE /\ Even(x.left, h - 1) /\ ~rb_is_red(x.left.right)
        /\ x.right.red = FALSE /\ Even(x.right, h - 1) /\ ~rb_is_red(x.right.right)
    BY <1>1, <1>2, BlackShape
  <1>4. /\ x.left.left \in Node /\ x.left.left.red = TRUE /\ Even(x.left.left, h - 1)
        /\ ~rb_is_red(x.left.left.left) /\ ~rb_is_red(x.left.left.right)
    BY <1>1, <1>2, <1>3, RedShape DEF Even, Node
  <1>5. /\ a \in Node /\ a.red = ~x.red /\ a.left = Flipped(x.left) /\ a.right = Flipped(x.right)
        /\ a.key = x.key /\ Rearranged(x, a)
    BY <1>2, ColorFlip, ColorFlipRearranges
  <1>6. rb_move_red_right(x) = t
    <2>1. a.left.left = x.left.left
      BY <1>2, <1>5, FlippedRearranges
    <2> HIDE DEF a
    <2> QED
      BY <2>1 DEF rb_move_red_right, a
  <1> HIDE DEF a
  <1>7. /\ a.left \in Node /\ a.left.key = x.left.key /\ a.left.left = x.left.left
        /\ a.left.right = x.left.right
    BY <1>2, <1>5, FlippedRearranges
  <1>8. /\ c \in Node /\ c.red = ~x.red /\ c.left = x.left.left /\ c.key = x.left.key
        /\ c.right \in Node /\ c.right.red = TRUE /\ c.right.key = x.key
        /\ c.right.left = x.left.right /\ c.right.right = a.right /\ Rearranged(a, c)
    BY <1>5, <1>7, RotateRight, RotateRightRearranges
  <1> HIDE DEF c
  <1>9. /\ t \in Node /\ t.red = x.red /\ t.key = x.left.key
        /\ t.left = Flipped(c.left) /\ t.right = Flipped(c.right) /\ Rearranged(c, t)
    BY <1>4, <1>8, ColorFlip, ColorFlipRearranges, RedIs
  <1> HIDE DEF t
  <1>10. Rearranged(x, t)
    BY <1>5, <1>8, <1>9, RearrangedTwice
  <1>11. Shape(a.right, h - 1) /\ rb_is_red(a.right)
    BY <1>1, <1>2, <1>3, <1>5, FlippedRed
  <1>12. Shape(t.left, h) /\ ~rb_is_red(t.left)
    BY <1>1, <1>4, <1>8, <1>9, FlippedBlack
  <1>13. /\ t.right \in Node /\ t.right.red = FALSE /\ t.right.key = x.key
         /\ t.right.left = x.left.right /\ t.right.right = a.right
    <2>1. /\ Flipped(c.right) \in Node /\ Flipped(c.right).red = ~c.right.red
          /\ Flipped(c.right).key = c.right.key
          /\ Flipped(c.right).left = c.right.left /\ Flipped(c.right).right = c.right.right
      BY <1>8, FlippedRearranges
    <2>2. Flipped(c.right).red = FALSE
      BY <1>8, <2>1
    <2> QED
      BY <1>8, <1>9, <2>1, <2>2
  <1>14. /\ Loose(t.right, h - 1) /\ HasRed(t.right) /\ h - 1 + Mark(t.right) = h
    BY <1>1, <1>3, <1>11, <1>13, RedIs DEF Loose, HasRed, Even, Mark
  <1>15. ASSUME NEW n \in Node, n.left = t.left, n.red = t.red, Shape(n.right, h - 1 + Mark(t.right)),
                rb_is_red(n.right) => t.right.red
         PROVE  Mended(x, h, fix_up(n))
    <2>1. Even(n, h) /\ ~rb_is_red(n.right) /\ ~rb_is_red(n.left)
      BY <1>1, <1>12, <1>13, <1>14, <1>15 DEF Even
    <2>2. LET m == fix_up(n)
          IN  Even(m, h) /\ m.red = n.red /\ ~rb_is_red(m.right) /\ ~rb_is_red(m.left)
      BY <2>1, FixUpLeans
    <2> QED
      BY <1>9, <1>15, <2>2, MendedAsWas
  <1>16. Held(x.right) \subseteq Held(t.right)
    <2>1. Held(a.right) = Held(x.right)
      BY <1>2, <1>5, FlippedRearranges DEF Rearranged
    <2>2. Held(t.right) = {<<t.right.key, t.right.data>>} \cup Held(t.right.left) \cup Held(t.right.right)
      BY <1>13, HeldOf
    <2> QED
      BY <1>13, <2>1, <2>2
  <1>17. ASSUME Search(x)
         PROVE  t.key < x.key
    BY <1>2, <1>9, <1>17, SearchOf, LessMoreOf
  <1>18. t.key \in Int
    BY <1>9, KeyIsInt
  <1> QED
    BY <1>1, <1>6, <1>9, <1>10, <1>13, <1>14, <1>15, <1>16, <1>17, <1>18 DEF RightReady

(* Either way the right subtree is ready for a removal from it.            *)
LEMMA MovesRight ==
  ASSUME NEW x \in Node, NEW h, Loose(x, h), Leaned(x).right # Null
  PROVE  /\ RightReady(x, h, Rightward(Leaned(x)))
         /\ Leaned(x) \in Node
         /\ Search(x) => Leaned(x).key <= x.key
  <1>1. CASE rb_is_red(x.left)
    <2>1. RightReady(x, h, Leaned(x)) /\ ~TwoBlack(Leaned(x).right) /\ Leaned(x) \in Node
      BY <1>1, RightLeans
    <2>2. Search(x) => Leaned(x).key <= x.key
      BY <2>1 DEF RightReady
    <2> QED
      BY <2>1, <2>2 DEF Rightward
  <1>2. CASE ~rb_is_red(x.left)
    <2>1. Leaned(x) = x /\ x.key <= x.key
      BY <1>2, KeyIsInt DEF Leaned
    <2> QED
      BY <1>2, <2>1, RightStays, RightFlips, RightTurns DEF Rightward
  <1> QED
    BY <1>1, <1>2

Freeable == ({"key"} \X Keys) \cup ({"data"} \X Keys \X Data)
Results == [n : Tree, freed : SUBSET Freeable]

(* What an operation on a subtree returns.                                 *)
LEMMA ResultsAre ==
  ASSUME NEW n \in Tree, NEW f \in SUBSET Freeable
  PROVE  Result(n, f) \in Results /\ Result(n, f).n = n /\ Result(n, f).freed = f
  BY DEF Result, Results

LEMMA ObjectsAreFreeable ==
  ASSUME NEW n \in Node
  PROVE  /\ KeyObject(n) \in Freeable /\ DataObject(n) \in Freeable
         /\ free_key_and_data(n) \in SUBSET Freeable
  BY DEF KeyObject, DataObject, free_key_and_data, Freeable, Node

(* A node with another left, or right, subtree, and what fix_up makes of   *)
(* it.                                                                     *)
LEMMA OnLeftHolds ==
  ASSUME NEW x \in Node, NEW l \in Tree
  PROVE  LET n == [x EXCEPT !.left = l]
             m == fix_up(n)
         IN  /\ n \in Node /\ n.left = l /\ n.right = x.right /\ n.red = x.red
             /\ m \in Node /\ m \in Tree
             /\ Held(m) = {<<x.key, x.data>>} \cup Held(l) \cup Held(x.right)
             /\ Search(x) /\ Search(l) /\ Less(l, x.key) => Search(m)
             /\ Sizes(l) /\ Sizes(x.right) => Sizes(m)
  <1> DEFINE n == [x EXCEPT !.left = l]
             m == fix_up(n)
  <1>1. /\ n \in Node /\ n.left = l /\ n.right = x.right /\ n.red = x.red
        /\ n.key = x.key /\ n.data = x.data
    BY DEF Node
  <1> HIDE DEF n
  <1>2. m \in Node /\ Rearranged(n, m) /\ (SizesBelow(n) => Sizes(m))
    BY <1>1, FixUpRearranges
  <1> HIDE DEF m
  <1>3. Held(m) = {<<x.key, x.data>>} \cup Held(l) \cup Held(x.right)
    BY <1>1, <1>2, HeldOf DEF Rearranged
  <1>4. ASSUME Search(x), Search(l), Less(l, x.key)
        PROVE  Search(m)
    <2>1. Search(n)
      BY <1>1, <1>4, SearchOf
    <2> QED
      BY <1>2, <2>1 DEF Rearranged
  <1>5. Sizes(l) /\ Sizes(x.right) => Sizes(m)
    BY <1>1, <1>2 DEF SizesBelow
  <1> QED
    BY <1>1, <1>2, <1>3, <1>4, <1>5, TreeNodes DEF n, m

LEMMA OnRightHolds ==
  ASSUME NEW x \in Node, NEW r \in Tree
  PROVE  LET n == [x EXCEPT !.right = r]
             m == fix_up(n)
         IN  /\ n \in Node /\ n.right = r /\ n.left = x.left /\ n.red = x.red
             /\ m \in Node /\ m \in Tree
             /\ Held(m) = {<<x.key, x.data>>} \cup Held(x.left) \cup Held(r)
             /\ Search(x.left) /\ Less(x.left, x.key) /\ Search(r) /\ More(r, x.key) => Search(m)
             /\ Sizes(r) /\ Sizes(x.left) => Sizes(m)
  <1> DEFINE n == [x EXCEPT !.right = r]
             m == fix_up(n)
  <1>1. /\ n \in Node /\ n.right = r /\ n.left = x.left /\ n.red = x.red
        /\ n.key = x.key /\ n.data = x.data
    BY DEF Node
  <1> HIDE DEF n
  <1>2. m \in Node /\ Rearranged(n, m) /\ (SizesBelow(n) => Sizes(m))
    BY <1>1, FixUpRearranges
  <1> HIDE DEF m
  <1>3. Held(m) = {<<x.key, x.data>>} \cup Held(x.left) \cup Held(r)
    BY <1>1, <1>2, HeldOf DEF Rearranged
  <1>4. ASSUME Search(x.left), Less(x.left, x.key), Search(r), More(r, x.key)
        PROVE  Search(m)
    <2>1. Search(n)
      BY <1>1, <1>4, SearchOf
    <2> QED
      BY <1>2, <2>1 DEF Rearranged
  <1>5. Sizes(r) /\ Sizes(x.left) => Sizes(m)
    BY <1>1, <1>2 DEF SizesBelow
  <1> QED
    BY <1>1, <1>2, <1>3, <1>4, <1>5, TreeNodes DEF n, m

-----------------------------------------------------------------------------
(* INSERTION                                                               *)

InsertAt(f, x, k, d) ==
  IF x = Null THEN Result(rb_node_create(k, d), {})
  ELSE IF x.key = k
       THEN Result([x EXCEPT !.data = d], IF owned THEN {DataObject(x)} ELSE {})
  ELSE IF x.key < k THEN OnRight(x, f[x.right])
  ELSE OnLeft(x, f[x.left])

LEMMA InsertTypes ==
  ASSUME NEW k \in Keys, NEW d \in Data
  PROVE  /\ rb_node_create(k, d) \in Node
         /\ Result(rb_node_create(k, d), {}) \in Results
         /\ \A x \in Node : /\ [x EXCEPT !.data = d] \in Node
                            /\ Result([x EXCEPT !.data = d], IF owned THEN {DataObject(x)} ELSE {})
                                 \in Results
         /\ \A x \in Node, r \in Results : OnRight(x, r) \in Results /\ OnLeft(x, r) \in Results
  <1>1. rb_node_create(k, d) \in Node
    BY TreeNodes DEF rb_node_create, Node
  <1>2. Result(rb_node_create(k, d), {}) \in Results
    BY <1>1, TreeNodes, ResultsAre
  <1>3. ASSUME NEW x \in Node
        PROVE  /\ [x EXCEPT !.data = d] \in Node
               /\ Result([x EXCEPT !.data = d], IF owned THEN {DataObject(x)} ELSE {}) \in Results
    <2>1. [x EXCEPT !.data = d] \in Node
      BY DEF Node
    <2>2. (IF owned THEN {DataObject(x)} ELSE {}) \in SUBSET Freeable
      BY ObjectsAreFreeable
    <2> QED
      BY <2>1, <2>2, TreeNodes, ResultsAre
  <1>4. ASSUME NEW x \in Node, NEW r \in Results
        PROVE  OnRight(x, r) \in Results /\ OnLeft(x, r) \in Results
    <2>1. r.n \in Tree /\ r.freed \in SUBSET Freeable
      BY DEF Results
    <2>2. fix_up([x EXCEPT !.right = r.n]) \in Tree
      BY <2>1, OnRightHolds
    <2>3. fix_up([x EXCEPT !.left = r.n]) \in Tree
      BY <2>1, OnLeftHolds
    <2> QED
      BY <2>1, <2>2, <2>3, ResultsAre DEF OnLeft, OnRight
  <1> QED
    BY <1>1, <1>2, <1>3, <1>4

(* _rb_insert is the function its definition asks for.                     *)
LEMMA InsertIs ==
  ASSUME NEW k \in Keys, NEW d \in Data
  PROVE  \E f : /\ \A x \in Trees : f[x] = InsertAt(f, x, k, d)
               /\ \A n : _rb_insert(n, k, d) = f[n]
  <1> DEFINE v == Result(rb_node_create(k, d), {})
             here(x) == Result([x EXCEPT !.data = d], IF owned THEN {DataObject(x)} ELSE {})
             H == [x \in Node |-> [a \in Results |-> [b \in Results |->
                    IF x.key = k THEN here(x)
                    ELSE IF x.key < k THEN OnRight(x, b)
                    ELSE OnLeft(x, a)]]]
             Is(f) == f = [x \in Trees |-> InsertAt(f, x, k, d)]
             insert == CHOOSE f : Is(f)
  <1>1. \A x \in Trees : x # Null => x \in Node /\ x.left \in Trees /\ x.right \in Trees
    BY TreesIsClosed DEF Closed
  <1>2. v \in Results /\ H \in [Node -> [Results -> [Results -> Results]]]
    BY InsertTypes
  <1>3. PICK f \in [Trees -> Results] :
          \A n \in Trees : f[n] = IF n = Null THEN v ELSE H[n][f[n.left]][f[n.right]]
    <2> HIDE DEF H, v
    <2>1. Folds(Trees, Results, v, H)
      BY <1>2, TreesIsClosed, Folding DEF Fold
    <2> QED
      BY <2>1, Zenon DEF Folds
  <1>4. ASSUME NEW x \in Trees
        PROVE  f[x] = InsertAt(f, x, k, d)
    <2>1. CASE x = Null
      BY <1>3, <2>1 DEF InsertAt
    <2>2. CASE x # Null
      <3>1. x \in Node /\ f[x.left] \in Results /\ f[x.right] \in Results
        BY <1>1, <2>2
      <3>2. f[x] = H[x][f[x.left]][f[x.right]]
        BY <1>3, <2>2
      <3>3. H[x][f[x.left]][f[x.right]] = IF x.key = k THEN here(x)
                                          ELSE IF x.key < k THEN OnRight(x, f[x.right])
                                          ELSE OnLeft(x, f[x.left])
        BY <3>1
      <3> QED
        BY <2>2, <3>2, <3>3, Zenon DEF InsertAt
    <2> QED
      BY <2>1, <2>2
  <1>5. Is(f)
    <2>1. f = [x \in Trees |-> f[x]]
      OBVIOUS
    <2> QED
      BY <1>4, <2>1, Zenon
  <1>6. Is(insert)
    <2> HIDE DEF Is
    <2> QED
      BY <1>5
  <1>7. \A n : _rb_insert(n, k, d) = insert[n]
    BY Zenon DEF _rb_insert, InsertAt
  <1> HIDE DEF insert
  <1>8. ASSUME NEW x \in Trees
        PROVE  insert[x] = InsertAt(insert, x, k, d)
    BY <1>6, Zenon
  <1> QED
    BY <1>7, <1>8, Zenon

(* What an insertion does to what a tree holds, and what it frees.         *)
Apart(S, k) == {p \in S : p[1] # k}
DataObjects(S) == {<<"data", p[1], p[2]>> : p \in S}
Replaced(S, k) == {p \in S : p[1] = k}

InsertHolds(x, k, d, r) ==
  /\ Search(x) => /\ Search(r.n)
                  /\ Held(r.n) = Apart(Held(x), k) \cup {<<k, d>>}
                  /\ r.freed = IF owned THEN DataObjects(Replaced(Held(x), k)) ELSE {}
  /\ Search(x) /\ Sizes(x) => Sizes(r.n)

(* And to its colors: the top may be red above a red left child, if it was *)
(* red.                                                                    *)
InsertColors(x, h, m) ==
  /\ \E g \in Int : Even(m, g) /\ h = g + Mark(m)
  /\ ~rb_is_red(m.right)
  /\ m.red /\ rb_is_red(m.left) => rb_is_red(x)

InsertOK(x, k, d, r) ==
  /\ r \in Results /\ r.n \in Node
  /\ InsertHolds(x, k, d, r)
  /\ \A h \in Int : Shape(x, h) => InsertColors(x, h, r.n)

(* Where the way of an insertion ends: a new node, or a key that is there. *)
LEMMA InsertNew ==
  ASSUME NEW k \in Keys, NEW d \in Data
  PROVE  InsertOK(Null, k, d, Result(rb_node_create(k, d), {}))
  <1> DEFINE m == rb_node_create(k, d)
             r == Result(m, {})
  <1>1. /\ m \in Node /\ m.key = k /\ m.data = d /\ m.red = TRUE /\ m.size = 1
        /\ m.left = Null /\ m.right = Null
    BY InsertTypes DEF rb_node_create
  <1>2. r.n = m /\ r.freed = {} /\ r \in Results
    BY <1>1, TreeNodes, ResultsAre
  <1> HIDE DEF m
  <1>3. Held(m) = {<<k, d>>} /\ Held(Null) = {}
    BY <1>1, NullHolds, HeldOf
  <1>4. Search(m)
    <2>1. Less(Null, k) /\ More(Null, k)
      BY NullHolds DEF Less, More
    <2> QED
      BY <1>1, <2>1, NullHolds, SearchOf
  <1>5. Sizes(m)
    <2>1. Weight[Null] = 0
      BY WeightOf, TreeNodes
    <2> QED
      BY <1>1, <2>1, NullHolds, SizesOf
  <1>6. InsertHolds(Null, k, d, r)
    <2>1. Apart(Held(Null), k) = {} /\ DataObjects(Replaced(Held(Null), k)) = {}
      BY <1>3 DEF Apart, DataObjects, Replaced
    <2> HIDE DEF r
    <2> QED
      BY <1>2, <1>3, <1>4, <1>5, <2>1 DEF InsertHolds
  <1>7. ASSUME NEW h \in Int, Shape(Null, h)
        PROVE  InsertColors(Null, h, m)
    <2>1. h = 0 /\ Even(m, 0) /\ Mark(m) = 0 /\ ~rb_is_red(Null)
      BY <1>1, <1>7, NullHolds DEF Even, Mark, rb_is_red
    <2> QED
      BY <1>1, <2>1 DEF InsertColors
  <1> HIDE DEF r
  <1> QED
    BY <1>1, <1>2, <1>6, <1>7 DEF InsertOK, r, m

LEMMA InsertHere ==
  ASSUME NEW d \in Data, NEW x \in Node
  PROVE  InsertOK(x, x.key, d,
                  Result([x EXCEPT !.data = d], IF owned THEN {DataObject(x)} ELSE {}))
  <1> DEFINE m == [x EXCEPT !.data = d]
             f == IF owned THEN {DataObject(x)} ELSE {}
             r == Result(m, f)
             k == x.key
  <1>1. /\ m \in Node /\ m.key = k /\ m.data = d /\ m.red = x.red /\ m.size = x.size
        /\ m.left = x.left /\ m.right = x.right
    BY DEF Node
  <1>2. f \in SUBSET Freeable
    BY ObjectsAreFreeable
  <1> HIDE DEF m, f
  <1>3. r.n = m /\ r.freed = f /\ r \in Results
    BY <1>1, <1>2, TreeNodes, ResultsAre
  <1> HIDE DEF r
  <1>4. ASSUME Search(x)
        PROVE  /\ Search(m) /\ Held(m) = Apart(Held(x), k) \cup {<<k, d>>}
               /\ f = IF owned THEN DataObjects(Replaced(Held(x), k)) ELSE {}
    <2>1. /\ Held(x) = {<<k, x.data>>} \cup Held(x.left) \cup Held(x.right)
          /\ Held(m) = {<<k, d>>} \cup Held(x.left) \cup Held(x.right)
      BY <1>1, HeldOf
    <2>2. /\ k \in Int
          /\ \A p \in Held(x.left) : p[1] \in Int /\ p[1] < k
          /\ \A p \in Held(x.right) : p[1] \in Int /\ k < p[1]
      BY <1>4, HeldKeysOf DEF HeldKeys
    <2>3. \A p \in Held(x.left) \cup Held(x.right) : p[1] # k
      BY <2>2
    <2>4. <<k, x.data>>[1] = k /\ <<k, x.data>>[2] = x.data
      OBVIOUS
    <2> HIDE DEF k
    <2>5. Apart(Held(x), k) = Held(x.left) \cup Held(x.right)
      BY <2>1, <2>3, <2>4 DEF Apart
    <2>6. Replaced(Held(x), k) = {<<k, x.data>>}
      BY <2>1, <2>3, <2>4 DEF Replaced
    <2>7. DataObjects({<<k, x.data>>}) = {DataObject(x)}
      BY DEF DataObjects, DataObject, k
    <2>8. Held(m) = Apart(Held(x), k) \cup {<<k, d>>}
      BY <2>1, <2>5
    <2>9. Search(m)
      BY <1>1, <1>4, SearchOf DEF k
    <2> QED
      BY <2>6, <2>7, <2>8, <2>9 DEF f
  <1>5. Sizes(x) => Sizes(m)
    BY <1>1, SizesOf
  <1>6. InsertHolds(x, k, d, r)
    BY <1>3, <1>4, <1>5 DEF InsertHolds
  <1>7. ASSUME NEW h \in Int, Shape(x, h)
        PROVE  InsertColors(x, h, m)
    <2>1. Even(x, h - Mark(x)) /\ ~rb_is_red(x.right) /\ (x.red => ~rb_is_red(x.left))
      BY <1>7, ShapeSplits
    <2>2. Even(m, h - Mark(x)) /\ Mark(m) = Mark(x) /\ h - Mark(x) \in Int /\ h = h - Mark(x) + Mark(x)
      BY <1>1, <2>1 DEF Even, Mark
    <2> QED
      BY <1>1, <2>1, <2>2 DEF InsertColors
  <1> QED
    BY <1>1, <1>3, <1>6, <1>7 DEF InsertOK, r, m, f, k

(* The data of a key are on one side of a node only.                       *)
LEMMA OneSide ==
  ASSUME NEW x \in Node, Search(x), NEW k \in Int
  PROVE  /\ k < x.key => /\ Apart(Held(x), k) =
                              {<<x.key, x.data>>} \cup Apart(Held(x.left), k) \cup Held(x.right)
                         /\ Replaced(Held(x), k) = Replaced(Held(x.left), k)
         /\ x.key < k => /\ Apart(Held(x), k) =
                              {<<x.key, x.data>>} \cup Held(x.left) \cup Apart(Held(x.right), k)
                         /\ Replaced(Held(x), k) = Replaced(Held(x.right), k)
  <1>1. Held(x) = {<<x.key, x.data>>} \cup Held(x.left) \cup Held(x.right)
    BY HeldOf
  <1>2. /\ x.key \in Int
        /\ \A p \in Held(x.left) : p[1] \in Int /\ p[1] < x.key
        /\ \A p \in Held(x.right) : p[1] \in Int /\ x.key < p[1]
    BY HeldKeysOf DEF HeldKeys
  <1>3. <<x.key, x.data>>[1] = x.key
    OBVIOUS
  <1>4. ASSUME k < x.key
        PROVE  x.key # k /\ \A p \in Held(x.right) : p[1] # k
    BY <1>2, <1>4
  <1>5. ASSUME x.key < k
        PROVE  x.key # k /\ \A p \in Held(x.left) : p[1] # k
    BY <1>2, <1>5
  <1> DEFINE top == <<x.key, x.data>>
  <1>6. top[1] = x.key
    BY <1>3
  <1> HIDE DEF top
  <1>7. Held(x) = {top} \cup Held(x.left) \cup Held(x.right)
    BY <1>1 DEF top
  <1>8. ASSUME k < x.key
        PROVE  /\ Apart(Held(x), k) = {top} \cup Apart(Held(x.left), k) \cup Held(x.right)
               /\ Replaced(Held(x), k) = Replaced(Held(x.left), k)
    BY <1>4, <1>6, <1>7, <1>8 DEF Apart, Replaced
  <1>9. ASSUME x.key < k
        PROVE  /\ Apart(Held(x), k) = {top} \cup Held(x.left) \cup Apart(Held(x.right), k)
               /\ Replaced(Held(x), k) = Replaced(Held(x.right), k)
    BY <1>5, <1>6, <1>7, <1>9 DEF Apart, Replaced
  <1> QED
    BY <1>8, <1>9 DEF top

(* On the way back from the left.                                          *)
LEMMA InsertOnLeft ==
  ASSUME NEW k \in Keys, NEW d \in Data, NEW x \in Node, k < x.key, NEW r, InsertOK(x.left, k, d, r)
  PROVE  InsertOK(x, k, d, OnLeft(x, r))
  <1> DEFINE n == [x EXCEPT !.left = r.n]
             m == fix_up(n)
             q == OnLeft(x, r)
  <1>1. /\ r \in Results /\ r.n \in Node /\ r.n \in Tree /\ r.freed \in SUBSET Freeable
        /\ InsertHolds(x.left, k, d, r)
        /\ \A h \in Int : Shape(x.left, h) => InsertColors(x.left, h, r.n)
    BY TreeNodes DEF InsertOK, Results
  <1>2. /\ n \in Node /\ n.left = r.n /\ n.right = x.right /\ n.red = x.red
        /\ m \in Node /\ m \in Tree
        /\ Held(m) = {<<x.key, x.data>>} \cup Held(r.n) \cup Held(x.right)
        /\ Search(x) /\ Search(r.n) /\ Less(r.n, x.key) => Search(m)
        /\ Sizes(r.n) /\ Sizes(x.right) => Sizes(m)
    BY <1>1, OnLeftHolds
  <1>3. q.n = m /\ q.freed = r.freed /\ q \in Results
    BY <1>1, <1>2, ResultsAre DEF OnLeft
  <1> HIDE DEF q, n, m
  <1>4. k \in Int /\ x.key \in Int
    BY KeyIsInt, TreeAssumption
  <1>5. ASSUME Search(x)
        PROVE  /\ Search(m) /\ Held(m) = Apart(Held(x), k) \cup {<<k, d>>}
               /\ q.freed = IF owned THEN DataObjects(Replaced(Held(x), k)) ELSE {}
               /\ Sizes(x) => Sizes(m)
    <2>1. Search(x.left) /\ Less(x.left, x.key)
      BY <1>5, SearchOf
    <2>2. /\ Search(r.n) /\ Held(r.n) = Apart(Held(x.left), k) \cup {<<k, d>>}
          /\ r.freed = IF owned THEN DataObjects(Replaced(Held(x.left), k)) ELSE {}
          /\ Sizes(x.left) => Sizes(r.n)
      BY <1>1, <2>1 DEF InsertHolds
    <2>3. /\ Apart(Held(x), k) =
               {<<x.key, x.data>>} \cup Apart(Held(x.left), k) \cup Held(x.right)
          /\ Replaced(Held(x), k) = Replaced(Held(x.left), k)
      BY <1>4, <1>5, OneSide
    <2>4. Less(r.n, x.key)
      <3>1. \A p \in Held(r.n) : p \in Held(x.left) \/ p[1] = k
        BY <2>2 DEF Apart
      <3> QED
        BY <2>1, <3>1 DEF Less
    <2>5. Held(m) = Apart(Held(x), k) \cup {<<k, d>>}
      BY <1>2, <2>2, <2>3
    <2>6. Sizes(x) => Sizes(m)
      BY <1>2, <2>2, SizesOf
    <2> QED
      BY <1>2, <1>3, <1>5, <2>2, <2>3, <2>4, <2>5, <2>6
  <1>6. ASSUME NEW h \in Int, Shape(x, h)
        PROVE  InsertColors(x, h, m)
    <2> DEFINE g == h - Mark(x)
    <2>1. /\ Even(x, g) /\ g \in Int /\ h = g + Mark(x) /\ Shape(x.left, g) /\ Shape(x.right, g)
          /\ ~rb_is_red(x.right) /\ (x.red => ~rb_is_red(x.left))
      BY <1>6, ShapeSplits DEF Even, Mark
    <2> HIDE DEF g
    <2>2. InsertColors(x.left, g, r.n)
      BY <1>1, <2>1
    <2>3. PICK e \in Int : Even(r.n, e) /\ g = e + Mark(r.n)
      BY <2>2 DEF InsertColors
    <2>4. ~rb_is_red(r.n.right) /\ (r.n.red /\ rb_is_red(r.n.left) => rb_is_red(x.left))
      BY <2>2 DEF InsertColors
    <2>5. CASE r.n.red /\ rb_is_red(r.n.left)
      <3>1. r.n.red = TRUE /\ e = g /\ x.red = FALSE
        BY <1>1, <2>1, <2>3, <2>4, <2>5, RedIs DEF Mark
      <3>2. Even(m, g + 1) /\ m.red = TRUE /\ ~rb_is_red(m.left) /\ ~rb_is_red(m.right)
        BY <1>1, <1>2, <2>1, <2>3, <2>4, <2>5, <3>1, FixUpSplits DEF m
      <3>3. Mark(m) = 0 /\ Mark(x) = 1 /\ g + 1 \in Int
        BY <2>1, <3>1, <3>2 DEF Mark
      <3> QED
        BY <2>1, <3>2, <3>3 DEF InsertColors
    <2>6. CASE ~(r.n.red /\ rb_is_red(r.n.left))
      <3>1. Shape(r.n, g)
        BY <2>3, <2>4, <2>6, ShapeJoins
      <3>2. Even(n, g) /\ ~rb_is_red(n.right)
        BY <1>2, <2>1, <3>1 DEF Even
      <3>3. Even(m, g) /\ m.red = n.red /\ ~rb_is_red(m.right)
        BY <1>2, <3>2, FixUpLeans DEF m
      <3>4. Mark(m) = Mark(x) /\ (m.red => rb_is_red(x))
        BY <1>2, <3>3, RedIs DEF Mark
      <3> QED
        BY <2>1, <3>3, <3>4 DEF InsertColors
    <2> QED
      BY <2>5, <2>6
  <1> QED
    BY <1>2, <1>3, <1>5, <1>6 DEF InsertOK, InsertHolds, q

(* On the way back from the right.                                         *)
LEMMA InsertOnRight ==
  ASSUME NEW k \in Keys, NEW d \in Data, NEW x \in Node, x.key < k, NEW r, InsertOK(x.right, k, d, r)
  PROVE  InsertOK(x, k, d, OnRight(x, r))
  <1> DEFINE n == [x EXCEPT !.right = r.n]
             m == fix_up(n)
             q == OnRight(x, r)
  <1>1. /\ r \in Results /\ r.n \in Node /\ r.n \in Tree /\ r.freed \in SUBSET Freeable
        /\ InsertHolds(x.right, k, d, r)
        /\ \A h \in Int : Shape(x.right, h) => InsertColors(x.right, h, r.n)
    BY TreeNodes DEF InsertOK, Results
  <1>2. /\ n \in Node /\ n.right = r.n /\ n.left = x.left /\ n.red = x.red
        /\ m \in Node /\ m \in Tree
        /\ Held(m) = {<<x.key, x.data>>} \cup Held(x.left) \cup Held(r.n)
        /\ Search(x.left) /\ Less(x.left, x.key) /\ Search(r.n) /\ More(r.n, x.key) => Search(m)
        /\ Sizes(r.n) /\ Sizes(x.left) => Sizes(m)
    BY <1>1, OnRightHolds
  <1>3. q.n = m /\ q.freed = r.freed /\ q \in Results
    BY <1>1, <1>2, ResultsAre DEF OnRight
  <1> HIDE DEF q, n, m
  <1>4. k \in Int /\ x.key \in Int
    BY KeyIsInt, TreeAssumption
  <1>5. ASSUME Search(x)
        PROVE  /\ Search(m) /\ Held(m) = Apart(Held(x), k) \cup {<<k, d>>}
               /\ q.freed = IF owned THEN DataObjects(Replaced(Held(x), k)) ELSE {}
               /\ Sizes(x) => Sizes(m)
    <2>1. Search(x.right) /\ More(x.right, x.key) /\ Search(x.left) /\ Less(x.left, x.key)
      BY <1>5, SearchOf
    <2>2. /\ Search(r.n) /\ Held(r.n) = Apart(Held(x.right), k) \cup {<<k, d>>}
          /\ r.freed = IF owned THEN DataObjects(Replaced(Held(x.right), k)) ELSE {}
          /\ Sizes(x.right) => Sizes(r.n)
      BY <1>1, <2>1 DEF InsertHolds
    <2>3. /\ Apart(Held(x), k) =
               {<<x.key, x.data>>} \cup Held(x.left) \cup Apart(Held(x.right), k)
          /\ Replaced(Held(x), k) = Replaced(Held(x.right), k)
      BY <1>4, <1>5, OneSide
    <2>4. More(r.n, x.key)
      <3>1. \A p \in Held(r.n) : p \in Held(x.right) \/ p[1] = k
        BY <2>2 DEF Apart
      <3> QED
        BY <2>1, <3>1 DEF More
    <2>5. Held(m) = Apart(Held(x), k) \cup {<<k, d>>}
      BY <1>2, <2>2, <2>3
    <2>6. Sizes(x) => Sizes(m)
      BY <1>2, <2>2, SizesOf
    <2> QED
      BY <1>2, <1>3, <1>5, <2>1, <2>2, <2>3, <2>4, <2>5, <2>6
  <1>6. ASSUME NEW h \in Int, Shape(x, h)
        PROVE  InsertColors(x, h, m)
    <2> DEFINE g == h - Mark(x)
    <2>1. /\ Even(x, g) /\ g \in Int /\ h = g + Mark(x) /\ Shape(x.left, g) /\ Shape(x.right, g)
          /\ ~rb_is_red(x.right) /\ (x.red => ~rb_is_red(x.left))
      BY <1>6, ShapeSplits DEF Even, Mark
    <2> HIDE DEF g
    <2>2. InsertColors(x.right, g, r.n)
      BY <1>1, <2>1
    <2>3. PICK e \in Int : Even(r.n, e) /\ g = e + Mark(r.n)
      BY <2>2 DEF InsertColors
    <2>4. ~rb_is_red(r.n.right) /\ (r.n.red => ~rb_is_red(r.n.left))
      BY <2>1, <2>2 DEF InsertColors
    <2>5. Even(n, g)
      <3>1. Shape(r.n, g)
        BY <2>3, <2>4, ShapeJoins
      <3> QED
        BY <1>2, <2>1, <3>1 DEF Even
    <2>6. CASE rb_is_red(n.left) /\ rb_is_red(n.right)
      <3>1. x.red = FALSE
        BY <1>2, <2>1, <2>6, RedIs
      <3>2. Even(m, g + 1) /\ m.red = ~n.red /\ ~rb_is_red(m.left) /\ ~rb_is_red(m.right)
        BY <2>5, <2>6, FixUpFlips DEF m, Even
      <3>3. Mark(m) = 0 /\ Mark(x) = 1 /\ g + 1 \in Int
        BY <1>2, <2>1, <3>1, <3>2 DEF Mark
      <3> QED
        BY <2>1, <3>2, <3>3 DEF InsertColors
    <2>7. CASE ~(rb_is_red(n.left) /\ rb_is_red(n.right))
      <3>1. Even(m, g) /\ m.red = n.red /\ ~rb_is_red(m.right)
        BY <1>2, <2>5, <2>7, FixUpLeans DEF m
      <3>2. Mark(m) = Mark(x) /\ (m.red => rb_is_red(x))
        BY <1>2, <3>1, RedIs DEF Mark
      <3> QED
        BY <2>1, <3>1, <3>2 DEF InsertColors
    <2> QED
      BY <2>6, <2>7
  <1> QED
    BY <1>2, <1>3, <1>5, <1>6 DEF InsertOK, InsertHolds, q

(* Insertion, for every tree.                                              *)
LEMMA InsertDoes ==
  ASSUME NEW k \in Keys, NEW d \in Data, NEW n \in Trees
  PROVE  InsertOK(n, k, d, _rb_insert(n, k, d))
  <1>1. PICK f : /\ \A x \in Trees : f[x] = InsertAt(f, x, k, d)
                 /\ \A y : _rb_insert(y, k, d) = f[y]
    BY InsertIs
  <1> DEFINE S == {x \in Tree : x \in Trees => InsertOK(x, k, d, f[x])}
  <1>2. Null \in S
    <2>1. Null \in Trees => f[Null] = Result(rb_node_create(k, d), {})
      BY <1>1 DEF InsertAt
    <2> QED
      BY <2>1, InsertNew, TreeNodes
  <1>3. ASSUME NEW x \in Node, x.left \in S, x.right \in S
        PROVE  x \in S
    <2> SUFFICES ASSUME x \in Trees
                 PROVE  InsertOK(x, k, d, f[x])
      BY TreeNodes
    <2>1. x # Null /\ x.left \in Trees /\ x.right \in Trees
      BY TreesIsClosed, TreeNodes DEF Closed
    <2>2. InsertOK(x.left, k, d, f[x.left]) /\ InsertOK(x.right, k, d, f[x.right])
      BY <1>3, <2>1
    <2>3. f[x] = InsertAt(f, x, k, d)
      BY <1>1
    <2>4. k \in Int /\ x.key \in Int
      BY KeyIsInt, TreeAssumption
    <2>5. CASE x.key = k
      <3>1. f[x] = Result([x EXCEPT !.data = d], IF owned THEN {DataObject(x)} ELSE {})
        BY <2>1, <2>3, <2>5 DEF InsertAt
      <3> QED
        BY <2>5, <3>1, InsertHere
    <2>6. CASE x.key < k
      <3>1. f[x] = OnRight(x, f[x.right])
        BY <2>1, <2>3, <2>4, <2>6 DEF InsertAt
      <3> QED
        BY <2>2, <2>6, <3>1, InsertOnRight
    <2>7. CASE k < x.key
      <3>1. f[x] = OnLeft(x, f[x.left])
        BY <2>1, <2>3, <2>4, <2>7 DEF InsertAt
      <3> QED
        BY <2>2, <2>7, <3>1, InsertOnLeft
    <2> QED
      BY <2>4, <2>5, <2>6, <2>7
  <1>4. S = Tree
    <2> HIDE DEF S
    <2>1. S \in SUBSET Tree
      BY DEF S
    <2> QED
      BY <1>2, <1>3, <2>1, TreeInduction
  <1> QED
    BY <1>1, <1>4, UnderTrees

-----------------------------------------------------------------------------
(* SEARCHES                                                                *)

(* rb_find is the function its definition asks for.                        *)
LEMMA FindIs ==
  ASSUME NEW k
  PROVE  \E f : /\ \A x \in Trees : f[x] = IF x = Null THEN Null
                                           ELSE IF x.key = k THEN x
                                           ELSE IF x.key < k THEN f[x.right]
                                           ELSE f[x.left]
               /\ \A n : rb_find(n, k) = f[n]
  <1> DEFINE At(f, x) == IF x = Null THEN Null
                         ELSE IF x.key = k THEN x
                         ELSE IF x.key < k THEN f[x.right]
                         ELSE f[x.left]
             H == [x \in Node |-> [a \in Tree |-> [b \in Tree |->
                    IF x.key = k THEN x ELSE IF x.key < k THEN b ELSE a]]]
             Is(f) == f = [x \in Trees |-> At(f, x)]
             find == CHOOSE f : Is(f)
  <1>1. \A x \in Trees : x # Null => x \in Node /\ x.left \in Trees /\ x.right \in Trees
    BY TreesIsClosed DEF Closed
  <1>2. Null \in Tree /\ H \in [Node -> [Tree -> [Tree -> Tree]]]
    BY TreeNodes
  <1>3. PICK f \in [Trees -> Tree] :
          \A n \in Trees : f[n] = IF n = Null THEN Null ELSE H[n][f[n.left]][f[n.right]]
    <2> HIDE DEF H
    <2>1. Folds(Trees, Tree, Null, H)
      BY <1>2, TreesIsClosed, Folding DEF Fold
    <2> QED
      BY <2>1, Zenon DEF Folds
  <1>4. ASSUME NEW x \in Trees
        PROVE  f[x] = At(f, x)
    <2>1. CASE x = Null
      BY <1>3, <2>1
    <2>2. CASE x # Null
      <3>1. x \in Node /\ f[x.left] \in Tree /\ f[x.right] \in Tree
        BY <1>1, <2>2
      <3>2. f[x] = H[x][f[x.left]][f[x.right]]
        BY <1>3, <2>2
      <3> QED
        BY <2>2, <3>1, <3>2
    <2> QED
      BY <2>1, <2>2
  <1>5. Is(f)
    <2>1. f = [x \in Trees |-> f[x]]
      OBVIOUS
    <2> HIDE DEF At
    <2> QED
      BY <1>4, <2>1, Zenon
  <1>6. Is(find)
    <2> HIDE DEF Is
    <2> QED
      BY <1>5
  <1>7. \A n : rb_find(n, k) = find[n]
    BY Zenon DEF rb_find
  <1> HIDE DEF find
  <1>8. ASSUME NEW x \in Trees
        PROVE  find[x] = At(find, x)
    <2> HIDE DEF At
    <2> QED
      BY <1>6, Zenon
  <1> QED
    BY <1>7, <1>8

(* It finds the keys that a search tree holds, and no others.              *)
LEMMA Finds ==
  ASSUME NEW n \in Trees, Search(n), NEW k \in Int
  PROVE  IF k \in HeldKeys(n) THEN rb_find(n, k) \in Under[n] /\ rb_find(n, k).key = k
                              ELSE rb_find(n, k) = Null
  <1>1. PICK f : /\ \A x \in Trees : f[x] = IF x = Null THEN Null
                                            ELSE IF x.key = k THEN x
                                            ELSE IF x.key < k THEN f[x.right]
                                            ELSE f[x.left]
                 /\ \A y : rb_find(y, k) = f[y]
    BY FindIs
  <1> DEFINE Found(x) == IF k \in HeldKeys(x) THEN f[x] \in Under[x] /\ f[x].key = k
                                              ELSE f[x] = Null
             S == {x \in Tree : x \in Trees /\ Search(x) => Found(x)}
  <1>2. Null \in S
    <2>1. HeldKeys(Null) = {}
      <3>1. Held(Null) = {}
        BY NullHolds
      <3> QED
        BY <3>1 DEF HeldKeys
    <2> QED
      BY <1>1, <2>1, TreeNodes
  <1>3. ASSUME NEW x \in Node, x.left \in S, x.right \in S
        PROVE  x \in S
    <2> SUFFICES ASSUME x \in Trees, Search(x)
                 PROVE  Found(x)
      BY TreeNodes
    <2>1. x # Null /\ x.left \in Trees /\ x.right \in Trees /\ x \in Tree
      BY TreesIsClosed, TreeNodes DEF Closed
    <2>2. Search(x.left) /\ Search(x.right)
      BY SearchOf
    <2>3. Found(x.left) /\ Found(x.right)
      BY <1>3, <2>1, <2>2
    <2>4. /\ HeldKeys(x) = {x.key} \cup HeldKeys(x.left) \cup HeldKeys(x.right)
          /\ x.key \in Int
          /\ \A j \in HeldKeys(x.left) : j \in Int /\ j < x.key
          /\ \A j \in HeldKeys(x.right) : j \in Int /\ x.key < j
      BY HeldKeysOf
    <2>5. Under[x] = {x} \cup Under[x.left] \cup Under[x.right]
      BY <2>1, UnderOf
    <2>6. CASE x.key = k
      <3>1. f[x] = x
        BY <1>1, <2>1, <2>6
      <3> QED
        BY <2>4, <2>5, <2>6, <3>1
    <2>7. CASE x.key < k
      <3>1. f[x] = f[x.right]
        BY <1>1, <2>1, <2>4, <2>7
      <3>2. k \in HeldKeys(x) <=> k \in HeldKeys(x.right)
        BY <2>4, <2>7
      <3> QED
        BY <2>3, <2>5, <3>1, <3>2
    <2>8. CASE k < x.key
      <3>1. f[x] = f[x.left]
        BY <1>1, <2>1, <2>4, <2>8
      <3>2. k \in HeldKeys(x) <=> k \in HeldKeys(x.left)
        BY <2>4, <2>8
      <3> QED
        BY <2>3, <2>5, <3>1, <3>2
    <2> QED
      BY <2>4, <2>6, <2>7, <2>8
  <1>4. S = Tree
    <2> HIDE DEF S
    <2>1. S \in SUBSET Tree
      BY DEF S
    <2> QED
      BY <1>2, <1>3, <2>1, TreeInduction
  <1>5. Found(n)
    BY <1>4, UnderTrees
  <1> QED
    BY <1>1, <1>5

(* One node for one key.                                                   *)
LEMMA OneNode ==
  ASSUME NEW n \in Tree, Search(n)
  PROVE  \A x, y \in Under[n] : x.key = y.key => x = y
  <1> DEFINE Once(x) == \A y, z \in Under[x] : y.key = z.key => y = z
             S == {x \in Tree : Search(x) => Once(x)}
  <1>1. Null \in S
    BY UnderOf, TreeNodes
  <1>2. ASSUME NEW x \in Node, x.left \in S, x.right \in S
        PROVE  x \in S
    <2> SUFFICES ASSUME Search(x)
                 PROVE  Once(x)
      BY TreeNodes
    <2>1. x # Null /\ x \in Tree /\ x.left \in Tree /\ x.right \in Tree
      BY TreeNodes DEF Node
    <2>2. Search(x.left) /\ Search(x.right) /\ Less(x.left, x.key) /\ More(x.right, x.key)
      BY SearchOf
    <2>3. Once(x.left) /\ Once(x.right)
      BY <1>2, <2>2
    <2>4. /\ \A y \in Under[x.left] : y.key < x.key
          /\ \A y \in Under[x.right] : x.key < y.key
      BY <2>1, <2>2, LessMore
    <2>5. /\ x.key \in Int
          /\ \A y \in Under[x.left] : y.key \in Int
          /\ \A y \in Under[x.right] : y.key \in Int
      BY <2>1, KeyIsInt, UnderNodes
    <2>6. Under[x] = {x} \cup Under[x.left] \cup Under[x.right]
      BY <2>1, UnderOf
    <2>7. ASSUME NEW y \in Under[x], NEW z \in Under[x], y.key = z.key
          PROVE  y = z
      <3>1. \/ y = x /\ z = x
            \/ y \in Under[x.left] /\ z \in Under[x.left]
            \/ y \in Under[x.right] /\ z \in Under[x.right]
        BY <2>4, <2>5, <2>6, <2>7
      <3> QED
        BY <2>3, <2>7, <3>1
    <2> QED
      BY <2>7
  <1>3. S = Tree
    <2> HIDE DEF S
    <2>1. S \in SUBSET Tree
      BY DEF S
    <2> QED
      BY <1>1, <1>2, <2>1, TreeInduction
  <1> QED
    BY <1>3

(* rb_min_n is the function its definition asks for.                       *)
LEMMA MinIs ==
  \E f : /\ \A x \in Trees : x # Null => f[x] = IF x.left = Null THEN x ELSE f[x.left]
        /\ \A n : rb_min_n(n) = f[n]
  <1> DEFINE At(f, x) == IF x.left = Null THEN x ELSE f[x.left]
             H == [x \in Node |-> [a \in Tree |-> [b \in Tree |-> IF x.left = Null THEN x ELSE a]]]
             Is(f) == f = [x \in Trees \ {Null} |-> At(f, x)]
             end == CHOOSE f : Is(f)
  <1>1. \A x \in Trees : x # Null => x \in Node /\ x.left \in Trees /\ x.right \in Trees
    BY TreesIsClosed DEF Closed
  <1>2. Null \in Tree /\ H \in [Node -> [Tree -> [Tree -> Tree]]]
    BY TreeNodes
  <1>3. PICK f \in [Trees -> Tree] :
          \A n \in Trees : f[n] = IF n = Null THEN Null ELSE H[n][f[n.left]][f[n.right]]
    <2> HIDE DEF H
    <2>1. Folds(Trees, Tree, Null, H)
      BY <1>2, TreesIsClosed, Folding DEF Fold
    <2> QED
      BY <2>1, Zenon DEF Folds
  <1> DEFINE g == [x \in Trees \ {Null} |-> f[x]]
  <1>4. ASSUME NEW x \in Trees \ {Null}
        PROVE  g[x] = At(g, x)
    <2>1. x \in Node /\ f[x.left] \in Tree /\ f[x.right] \in Tree /\ x.left \in Trees
      BY <1>1
    <2>2. f[x] = H[x][f[x.left]][f[x.right]]
      BY <1>3
    <2>3. f[x] = At(f, x)
      BY <2>1, <2>2
    <2>4. x.left # Null => g[x.left] = f[x.left]
      BY <2>1
    <2> QED
      BY <2>3, <2>4
  <1>5. Is(g)
    <2>1. g = [x \in Trees \ {Null} |-> g[x]]
      OBVIOUS
    <2> HIDE DEF At, g
    <2> QED
      BY <1>4, <2>1, Zenon
  <1>6. Is(end)
    <2> HIDE DEF Is
    <2> QED
      BY <1>5
  <1>7. \A n : rb_min_n(n) = end[n]
    BY Zenon DEF rb_min_n
  <1> HIDE DEF end
  <1>8. ASSUME NEW x \in Trees, x # Null
        PROVE  end[x] = At(end, x)
    <2>1. x \in Trees \ {Null}
      BY <1>8
    <2> HIDE DEF At
    <2> QED
      BY <1>6, <2>1, Zenon
  <1> QED
    BY <1>7, <1>8

(* It returns the node of the least key.                                   *)
LEMMA MinIsLeast ==
  ASSUME NEW n \in Trees, n # Null, Search(n)
  PROVE  /\ rb_min_n(n) \in Under[n]
         /\ \A k \in HeldKeys(n) : rb_min_n(n).key <= k
  <1>1. PICK f : /\ \A x \in Trees : x # Null => f[x] = IF x.left = Null THEN x ELSE f[x.left]
                 /\ \A y : rb_min_n(y) = f[y]
    BY MinIs
  <1> DEFINE End(x) == f[x] \in Under[x] /\ \A k \in HeldKeys(x) : f[x].key <= k
             S == {x \in Tree : x \in Trees /\ x # Null /\ Search(x) => End(x)}
  <1>2. Null \in S
    BY TreeNodes
  <1>3. ASSUME NEW x \in Node, x.left \in S, x.right \in S
        PROVE  x \in S
    <2> SUFFICES ASSUME x \in Trees, Search(x)
                 PROVE  End(x)
      BY TreeNodes
    <2>1. x # Null /\ x.left \in Trees /\ x.right \in Trees /\ x \in Tree
      BY TreesIsClosed, TreeNodes DEF Closed
    <2>2. /\ HeldKeys(x) = {x.key} \cup HeldKeys(x.left) \cup HeldKeys(x.right)
          /\ x.key \in Int
          /\ \A j \in HeldKeys(x.left) : j \in Int /\ j < x.key
          /\ \A j \in HeldKeys(x.right) : j \in Int /\ x.key < j
      BY HeldKeysOf
    <2>3. Under[x] = {x} \cup Under[x.left] \cup Under[x.right]
      BY <2>1, UnderOf
    <2>4. CASE x.left = Null
      <3>1. f[x] = x
        BY <1>1, <2>1, <2>4
      <3>2. HeldKeys(x.left) = {}
        <4>1. Held(x.left) = {}
          BY <2>4, NullHolds
        <4> QED
          BY <4>1 DEF HeldKeys
      <3> QED
        BY <2>2, <2>3, <3>1, <3>2
    <2>5. CASE x.left # Null
      <3>1. f[x] = f[x.left]
        BY <1>1, <2>1, <2>5
      <3>2. End(x.left)
        BY <1>3, <2>1, <2>5, SearchOf
      <3>3. f[x.left].key \in HeldKeys(x.left)
        <4>1. <<f[x.left].key, f[x.left].data>> \in Held(x.left)
          BY <3>2 DEF Held
        <4>2. <<f[x.left].key, f[x.left].data>>[1] = f[x.left].key
          OBVIOUS
        <4> QED
          BY <4>1, <4>2 DEF HeldKeys
      <3> DEFINE e == f[x.left]
      <3>4. e \in Under[x.left] /\ e.key \in HeldKeys(x.left) /\ \A k \in HeldKeys(x.left) : e.key <= k
        BY <3>2, <3>3
      <3>5. f[x] = e
        BY <3>1
      <3> HIDE DEF e
      <3>6. e \in Under[x] /\ \A k \in HeldKeys(x) : e.key <= k
        BY <2>2, <2>3, <3>4
      <3> QED
        BY <3>5, <3>6
    <2> QED
      BY <2>4, <2>5
  <1>4. S = Tree
    <2> HIDE DEF S
    <2>1. S \in SUBSET Tree
      BY DEF S
    <2> QED
      BY <1>2, <1>3, <2>1, TreeInduction
  <1>5. End(n)
    BY <1>4, UnderTrees
  <1> QED
    BY <1>1, <1>5

(* rb_max_n is the function its definition asks for.                       *)
LEMMA MaxIs ==
  \E f : /\ \A x \in Trees : x # Null => f[x] = IF x.right = Null THEN x ELSE f[x.right]
        /\ \A n : rb_max_n(n) = f[n]
  <1> DEFINE At(f, x) == IF x.right = Null THEN x ELSE f[x.right]
             H == [x \in Node |-> [a \in Tree |-> [b \in Tree |-> IF x.right = Null THEN x ELSE b]]]
             Is(f) == f = [x \in Trees \ {Null} |-> At(f, x)]
             end == CHOOSE f : Is(f)
  <1>1. \A x \in Trees : x # Null => x \in Node /\ x.left \in Trees /\ x.right \in Trees
    BY TreesIsClosed DEF Closed
  <1>2. Null \in Tree /\ H \in [Node -> [Tree -> [Tree -> Tree]]]
    BY TreeNodes
  <1>3. PICK f \in [Trees -> Tree] :
          \A n \in Trees : f[n] = IF n = Null THEN Null ELSE H[n][f[n.left]][f[n.right]]
    <2> HIDE DEF H
    <2>1. Folds(Trees, Tree, Null, H)
      BY <1>2, TreesIsClosed, Folding DEF Fold
    <2> QED
      BY <2>1, Zenon DEF Folds
  <1> DEFINE g == [x \in Trees \ {Null} |-> f[x]]
  <1>4. ASSUME NEW x \in Trees \ {Null}
        PROVE  g[x] = At(g, x)
    <2>1. x \in Node /\ f[x.left] \in Tree /\ f[x.right] \in Tree /\ x.right \in Trees
      BY <1>1
    <2>2. f[x] = H[x][f[x.left]][f[x.right]]
      BY <1>3
    <2>3. f[x] = At(f, x)
      BY <2>1, <2>2
    <2>4. x.right # Null => g[x.right] = f[x.right]
      BY <2>1
    <2> QED
      BY <2>3, <2>4
  <1>5. Is(g)
    <2>1. g = [x \in Trees \ {Null} |-> g[x]]
      OBVIOUS
    <2> HIDE DEF At, g
    <2> QED
      BY <1>4, <2>1, Zenon
  <1>6. Is(end)
    <2> HIDE DEF Is
    <2> QED
      BY <1>5
  <1>7. \A n : rb_max_n(n) = end[n]
    BY Zenon DEF rb_max_n
  <1> HIDE DEF end
  <1>8. ASSUME NEW x \in Trees, x # Null
        PROVE  end[x] = At(end, x)
    <2>1. x \in Trees \ {Null}
      BY <1>8
    <2> HIDE DEF At
    <2> QED
      BY <1>6, <2>1, Zenon
  <1> QED
    BY <1>7, <1>8

(* It returns the node of the greatest key.                                *)
LEMMA MaxIsGreatest ==
  ASSUME NEW n \in Trees, n # Null, Search(n)
  PROVE  /\ rb_max_n(n) \in Under[n]
         /\ \A k \in HeldKeys(n) : k <= rb_max_n(n).key
  <1>1. PICK f : /\ \A x \in Trees : x # Null => f[x] = IF x.right = Null THEN x ELSE f[x.right]
                 /\ \A y : rb_max_n(y) = f[y]
    BY MaxIs
  <1> DEFINE End(x) == f[x] \in Under[x] /\ \A k \in HeldKeys(x) : k <= f[x].key
             S == {x \in Tree : x \in Trees /\ x # Null /\ Search(x) => End(x)}
  <1>2. Null \in S
    BY TreeNodes
  <1>3. ASSUME NEW x \in Node, x.left \in S, x.right \in S
        PROVE  x \in S
    <2> SUFFICES ASSUME x \in Trees, Search(x)
                 PROVE  End(x)
      BY TreeNodes
    <2>1. x # Null /\ x.left \in Trees /\ x.right \in Trees /\ x \in Tree
      BY TreesIsClosed, TreeNodes DEF Closed
    <2>2. /\ HeldKeys(x) = {x.key} \cup HeldKeys(x.left) \cup HeldKeys(x.right)
          /\ x.key \in Int
          /\ \A j \in HeldKeys(x.left) : j \in Int /\ j < x.key
          /\ \A j \in HeldKeys(x.right) : j \in Int /\ x.key < j
      BY HeldKeysOf
    <2>3. Under[x] = {x} \cup Under[x.left] \cup Under[x.right]
      BY <2>1, UnderOf
    <2>4. CASE x.right = Null
      <3>1. f[x] = x
        BY <1>1, <2>1, <2>4
      <3>2. HeldKeys(x.right) = {}
        <4>1. Held(x.right) = {}
          BY <2>4, NullHolds
        <4> QED
          BY <4>1 DEF HeldKeys
      <3> QED
        BY <2>2, <2>3, <3>1, <3>2
    <2>5. CASE x.right # Null
      <3>1. f[x] = f[x.right]
        BY <1>1, <2>1, <2>5
      <3>2. End(x.right)
        BY <1>3, <2>1, <2>5, SearchOf
      <3>3. f[x.right].key \in HeldKeys(x.right)
        <4>1. <<f[x.right].key, f[x.right].data>> \in Held(x.right)
          BY <3>2 DEF Held
        <4>2. <<f[x.right].key, f[x.right].data>>[1] = f[x.right].key
          OBVIOUS
        <4> QED
          BY <4>1, <4>2 DEF HeldKeys
      <3> DEFINE e == f[x.right]
      <3>4. e \in Under[x.right] /\ e.key \in HeldKeys(x.right) /\ \A k \in HeldKeys(x.right) : k <= e.key
        BY <3>2, <3>3
      <3>5. f[x] = e
        BY <3>1
      <3> HIDE DEF e
      <3>6. e \in Under[x] /\ \A k \in HeldKeys(x) : k <= e.key
        BY <2>2, <2>3, <3>4
      <3> QED
        BY <3>5, <3>6
    <2> QED
      BY <2>4, <2>5
  <1>4. S = Tree
    <2> HIDE DEF S
    <2>1. S \in SUBSET Tree
      BY DEF S
    <2> QED
      BY <1>2, <1>3, <2>1, TreeInduction
  <1>5. End(n)
    BY <1>4, UnderTrees
  <1> QED
    BY <1>1, <1>5

-----------------------------------------------------------------------------
(* REMOVALS                                                                *)

(* Removable: search trees that are loose.                                 *)
LEMMA RemovableIs ==
  ASSUME NEW x
  PROVE  x \in Removable <=>
           x \in Trees /\ x \in Node /\ Search(x) /\ \E h : Loose(x, h)
  <1> SUFFICES ASSUME x \in Trees, x # Null
               PROVE  x \in Removable <=> x \in Node /\ Search(x) /\ \E h : Loose(x, h)
    BY TreeNodes DEF Removable
  <1>1. x \in Node /\ x.left \in Trees /\ x.right \in Trees
    BY TreesIsClosed DEF Closed
  <1>2. x.left \in Tree /\ x.right \in Tree
    BY <1>1, UnderTrees
  <1>3. /\ Ordered(x) <=> Search(x)
        /\ RedBlack(x.left) <=> Shape(x.left, Black[x.left])
        /\ RedBlack(x.right) <=> Shape(x.right, Black[x.right])
        /\ BlackHeight(x.left) = Black[x.left] /\ BlackHeight(x.right) = Black[x.right]
    BY <1>1, TreesAgree, HeightIsBlack
  <1> DEFINE Links == /\ rb_is_red(x.left) => ~rb_is_red(x) /\ ~rb_is_red(x.right)
                      /\ rb_is_red(x.right) => ~rb_is_red(x)
  <1>4. x \in Removable <=>
          /\ Search(x)
          /\ Shape(x.left, Black[x.left]) /\ Shape(x.right, Black[x.right])
          /\ Black[x.left] = Black[x.right]
          /\ Links
    BY <1>3 DEF Removable
  <1>5. ASSUME Shape(x.left, Black[x.left]), Shape(x.right, Black[x.right]),
               Black[x.left] = Black[x.right], Links
        PROVE  Loose(x, Black[x.left])
    <2>1. Black[x.left] \in Int
      BY <1>2, BlackIsNat
    <2> QED
      BY <1>1, <1>5, <2>1 DEF Loose, Even
  <1>6. ASSUME NEW h, Loose(x, h)
        PROVE  /\ Shape(x.left, Black[x.left]) /\ Shape(x.right, Black[x.right])
               /\ Black[x.left] = Black[x.right] /\ Links
    BY <1>6 DEF Loose, Even, Shape
  <1> HIDE DEF Links
  <1> QED
    BY <1>1, <1>4, <1>5, <1>6

(* A search tree that is loose may be removed from.                        *)
LEMMA IsRemovable ==
  ASSUME NEW x \in Node, Search(x), NEW h, Loose(x, h)
  PROVE  x \in Removable
  BY RemovableIs, SearchTrees, TreeNodes

PairObjects(p) == {<<"key", p[1]>>, <<"data", p[1], p[2]>>}

LEMMA FreesPair ==
  ASSUME NEW n \in Node
  PROVE  free_key_and_data(n) = IF owned THEN PairObjects(<<n.key, n.data>>) ELSE {}
  BY DEF free_key_and_data, PairObjects, KeyObject, DataObject

(* A subtree loses a pair, and so does the tree.                           *)
LEMMA DropLeft ==
  ASSUME NEW a \in Node, Search(a), NEW p \in Held(a.left),
         NEW l \in Tree, Held(l) = Held(a.left) \ {p}, Search(l)
  PROVE  LET m == fix_up([a EXCEPT !.left = l])
         IN  /\ m \in Tree /\ p \in Held(a) /\ Held(m) = Held(a) \ {p} /\ Search(m)
             /\ Sizes(l) /\ SizesBelow(a) => Sizes(m)
             /\ p[1] \in Int /\ p[1] < a.key
  <1> DEFINE m == fix_up([a EXCEPT !.left = l])
             top == <<a.key, a.data>>
  <1>1. /\ m \in Tree
        /\ Held(m) = {top} \cup Held(l) \cup Held(a.right)
        /\ Search(a) /\ Search(l) /\ Less(l, a.key) => Search(m)
        /\ Sizes(l) /\ Sizes(a.right) => Sizes(m)
    BY OnLeftHolds
  <1> HIDE DEF m
  <1>2. /\ a.key \in Int
        /\ \A q \in Held(a.left) : q[1] \in Int /\ q[1] < a.key
        /\ \A q \in Held(a.right) : q[1] \in Int /\ a.key < q[1]
    BY HeldKeysOf DEF HeldKeys
  <1>3. Held(a) = {top} \cup Held(a.left) \cup Held(a.right) /\ top[1] = a.key
    BY HeldOf
  <1> HIDE DEF top
  <1>4. p # top /\ p \notin Held(a.right)
    BY <1>2, <1>3
  <1>5. Held(m) = Held(a) \ {p} /\ p \in Held(a)
    BY <1>1, <1>3, <1>4
  <1>6. Less(l, a.key)
    BY <1>2 DEF Less
  <1> QED
    BY <1>1, <1>2, <1>5, <1>6 DEF m, SizesBelow

LEMMA DropRight ==
  ASSUME NEW a \in Node, Search(a), NEW p \in Held(a.right),
         NEW r \in Tree, Held(r) = Held(a.right) \ {p}, Search(r)
  PROVE  LET m == fix_up([a EXCEPT !.right = r])
         IN  /\ m \in Tree /\ p \in Held(a) /\ Held(m) = Held(a) \ {p} /\ Search(m)
             /\ Sizes(r) /\ SizesBelow(a) => Sizes(m)
             /\ p[1] \in Int /\ a.key < p[1]
  <1> DEFINE m == fix_up([a EXCEPT !.right = r])
             top == <<a.key, a.data>>
  <1>1. /\ m \in Tree
        /\ Held(m) = {top} \cup Held(a.left) \cup Held(r)
        /\ Search(a.left) /\ Less(a.left, a.key) /\ Search(r) /\ More(r, a.key) => Search(m)
        /\ Sizes(r) /\ Sizes(a.left) => Sizes(m)
    BY OnRightHolds
  <1> HIDE DEF m
  <1>2. /\ a.key \in Int
        /\ \A q \in Held(a.left) : q[1] \in Int /\ q[1] < a.key
        /\ \A q \in Held(a.right) : q[1] \in Int /\ a.key < q[1]
    BY HeldKeysOf DEF HeldKeys
  <1>3. Held(a) = {top} \cup Held(a.left) \cup Held(a.right) /\ top[1] = a.key
    BY HeldOf
  <1> HIDE DEF top
  <1>4. p # top /\ p \notin Held(a.left)
    BY <1>2, <1>3
  <1>5. Held(m) = Held(a) \ {p} /\ p \in Held(a)
    BY <1>1, <1>3, <1>4
  <1>6. More(r, a.key) /\ Less(a.left, a.key)
    BY <1>2 DEF Less, More
  <1> QED
    BY <1>1, <1>2, <1>5, <1>6, SearchOf DEF m, SizesBelow

(* A node without children.                                                *)
LEMMA Last ==
  ASSUME NEW x \in Node, x.left = Null, x.right = Null
  PROVE  Held(x) = {<<x.key, x.data>>}
  BY HeldOf, NullHolds

-----------------------------------------------------------------------------
(* THE LEAST AND THE GREATEST KEY                                          *)

MinDomain == {y \in Removable : ~rb_is_red(y.right)}

MinAt(f, x) ==
  IF x.left = Null THEN Result(Null, free_key_and_data(x))
  ELSE LET a == IF TwoBlack(x.left) THEN rb_move_red_left(x) ELSE x
       IN  OnLeft(a, f[a.left])

(* The way of _rb_remove_min down the tree stays in its domain, so no null *)
(* pointer is followed.                                                    *)
LEMMA MinDescends ==
  ASSUME NEW x \in MinDomain
  PROVE  /\ x \in Node /\ Search(x) /\ Weight[x] \in Nat
         /\ \E h : Loose(x, h) /\ ~rb_is_red(x.right)
         /\ x.left # Null =>
              /\ Leftward(x) \in Node /\ Rearranged(x, Leftward(x)) /\ Search(Leftward(x))
              /\ Leftward(x).left \in MinDomain
              /\ Weight[Leftward(x).left] < Weight[x]
  <1>1. PICK h : x \in Node /\ Search(x) /\ Loose(x, h) /\ ~rb_is_red(x.right)
    BY RemovableIs DEF MinDomain
  <1>2. Weight[x] \in Nat
    BY <1>1, SizesOf
  <1>3. ASSUME x.left # Null
        PROVE  /\ Leftward(x) \in Node /\ Rearranged(x, Leftward(x)) /\ Search(Leftward(x))
               /\ Leftward(x).left \in MinDomain
               /\ Weight[Leftward(x).left] < Weight[x]
    <2> DEFINE a == Leftward(x)
    <2>1. LeftReady(x, h, a)
      BY <1>1, <1>3, MovesLeft
    <2> HIDE DEF a
    <2>2. a \in Node /\ Rearranged(x, a) /\ Search(a)
      BY <1>1, <2>1 DEF LeftReady, Rearranged
    <2>3. PICK g \in Int : Loose(a.left, g) /\ ~rb_is_red(a.left.right)
      BY <2>1 DEF LeftReady
    <2>4. a.left \in Node /\ Search(a.left)
      BY <2>2, <2>3, SearchOf DEF Loose, Even
    <2>5. a.left \in MinDomain
      BY <2>3, <2>4, IsRemovable DEF MinDomain
    <2>6. Weight[a.left] < Weight[x]
      BY <2>2, SizesOf DEF Rearranged
    <2> QED
      BY <2>2, <2>5, <2>6 DEF a
  <1> QED
    BY <1>1, <1>2, <1>3

(* _rb_remove_min is the function its definition asks for.                 *)
LEMMA RemoveMinIs ==
  \E f : /\ \A x \in MinDomain : f[x] = MinAt(f, x)
         /\ \A n : _rb_remove_min(n) = f[n]
  <1> DEFINE D == MinDomain
             G == [x \in D |-> [f \in [D -> Results] |-> MinAt(f, x)]]
             m == [x \in D |-> Weight[x]]
             Is(f) == f = [x \in MinDomain |-> MinAt(f, x)]
             remove == CHOOSE f : Is(f)
  <1>1. ASSUME NEW x \in D, NEW f \in [D -> Results]
        PROVE  MinAt(f, x) \in Results
    <2>1. CASE x.left = Null
      <3>1. free_key_and_data(x) \in SUBSET Freeable
        BY MinDescends, ObjectsAreFreeable
      <3> QED
        BY <2>1, <3>1, ResultsAre, TreeNodes DEF MinAt
    <2>2. CASE x.left # Null
      <3> DEFINE a == Leftward(x)
      <3>1. a \in Node /\ a.left \in MinDomain
        BY <2>2, MinDescends
      <3>2. MinAt(f, x) = OnLeft(a, f[a.left])
        BY <2>2 DEF MinAt, Leftward
      <3> HIDE DEF a
      <3>3. f[a.left] \in Results
        BY <3>1
      <3>4. f[a.left].n \in Tree /\ f[a.left].freed \in SUBSET Freeable
        BY <3>3 DEF Results
      <3> QED
        BY <3>1, <3>2, <3>4, OnLeftHolds, ResultsAre DEF OnLeft
    <2> QED
      BY <2>1, <2>2
  <1>2. m \in [D -> Nat]
    BY MinDescends
  <1>3. ASSUME NEW x \in D, NEW f \in [D -> Results], NEW g \in [D -> Results],
               \A y \in D : m[y] < m[x] => f[y] = g[y]
        PROVE  MinAt(f, x) = MinAt(g, x)
    <2>1. CASE x.left = Null
      BY <2>1 DEF MinAt
    <2>2. CASE x.left # Null
      <3> DEFINE a == Leftward(x)
      <3>1. a.left \in D /\ m[a.left] < m[x]
        BY <2>2, MinDescends
      <3>2. \A e : MinAt(e, x) = OnLeft(a, e[a.left])
        BY <2>2 DEF MinAt, Leftward
      <3>3. f[a.left] = g[a.left]
        BY <1>3, <3>1
      <3> HIDE DEF a
      <3> QED
        BY <3>2, <3>3
    <2> QED
      BY <2>1, <2>2
  <1> HIDE DEF m
  <1>4. \A x \in D, f \in [D -> Results] : G[x][f] = MinAt(f, x)
    OBVIOUS
  <1>5. G \in [D -> [[D -> Results] -> Results]]
    BY <1>1
  <1> HIDE DEF G, D
  <1>6. Descends(D, Results, m, G)
    <2>1. ASSUME NEW x \in D, NEW f \in [D -> Results], NEW g \in [D -> Results],
                 \A y \in D : m[y] < m[x] => f[y] = g[y]
          PROVE  G[x][f] = G[x][g]
      <3>1. MinAt(f, x) = MinAt(g, x)
        BY <1>3, <2>1
      <3> QED
        BY <1>4, <3>1, Zenon
    <2> QED
      BY <2>1, Zenon DEF Descends
  <1>7. Results # {}
    BY ResultsAre, TreeNodes
  <1>8. Solvable(D, Results, G)
    BY <1>2, <1>5, <1>6, <1>7, Recursion DEF Recursive
  <1>9. PICK f \in [D -> Results] : \A x \in D : f[x] = G[x][f]
    BY <1>8 DEF Solvable
  <1>10. Is(f)
    <2>1. f = [x \in D |-> f[x]]
      OBVIOUS
    <2>2. \A x \in D : f[x] = MinAt(f, x)
      BY <1>4, <1>9
    <2> QED
      BY <2>1, <2>2, Zenon DEF D
  <1>11. Is(remove)
    <2> HIDE DEF Is
    <2> QED
      BY <1>10
  <1>12. \A n : _rb_remove_min(n) = remove[n]
    BY Zenon DEF _rb_remove_min, MinAt, MinDomain
  <1> HIDE DEF remove
  <1>13. ASSUME NEW x \in MinDomain
         PROVE  remove[x] = MinAt(remove, x)
    BY <1>11, Zenon
  <1> QED
    BY <1>12, <1>13

(* The least pair goes, with its objects.                                  *)
MinOK(x, r) ==
  /\ r \in Results
  /\ \E p \in Held(x) :
       /\ \A q \in Held(x) : p[1] <= q[1]
       /\ Held(r.n) = Held(x) \ {p}
       /\ r.freed = IF owned THEN PairObjects(p) ELSE {}
  /\ Search(r.n) /\ (Sizes(x) => Sizes(r.n))
  /\ \A h : Loose(x, h) => Mended(x, h, r.n)

(* Where the way ends.                                                     *)
LEMMA MinHere ==
  ASSUME NEW x \in MinDomain, x.left = Null
  PROVE  MinOK(x, Result(Null, free_key_and_data(x)))
  <1> DEFINE r == Result(Null, free_key_and_data(x))
             p == <<x.key, x.data>>
  <1>1. PICK h : x \in Node /\ Loose(x, h) /\ ~rb_is_red(x.right)
    BY MinDescends
  <1>2. x.right = Null
    BY <1>1, EndMended
  <1>3. Held(x) = {p} /\ Held(Null) = {} /\ Search(Null) /\ Sizes(Null)
    BY <1>1, <1>2, Last, NullHolds
  <1>4. r \in Results /\ r.n = Null /\ r.freed = IF owned THEN PairObjects(p) ELSE {}
    <2>1. free_key_and_data(x) \in SUBSET Freeable
      BY <1>1, ObjectsAreFreeable
    <2> QED
      BY <1>1, <2>1, ResultsAre, TreeNodes, FreesPair
  <1>5. p[1] = x.key /\ p[1] \in Int
    BY <1>1, KeyIsInt
  <1> HIDE DEF r, p
  <1>6. \A g : Loose(x, g) => Mended(x, g, Null)
    BY <1>1, EndMended
  <1>7. \A q \in Held(x) : p[1] <= q[1]
    BY <1>3, <1>5
  <1> QED
    BY <1>3, <1>4, <1>6, <1>7 DEF MinOK, r

(* On the way back.                                                        *)
LEMMA MinBelow ==
  ASSUME NEW x \in MinDomain, x.left # Null, NEW r, MinOK(Leftward(x).left, r)
  PROVE  MinOK(x, OnLeft(Leftward(x), r))
  <1> DEFINE a == Leftward(x)
             n == [a EXCEPT !.left = r.n]
             m == fix_up(n)
             q == OnLeft(a, r)
  <1>1. x \in Node /\ Search(x) /\ a \in Node /\ Rearranged(x, a) /\ Search(a)
    BY MinDescends
  <1>2. MinOK(a.left, r)
    OBVIOUS
  <1>3. ASSUME NEW h, Loose(x, h)
        PROVE  LeftReady(x, h, a)
    <2>1. ~rb_is_red(x.right)
      BY MinDescends
    <2> QED
      BY <1>1, <1>3, <2>1, MovesLeft
  <1> HIDE DEF a
  <1>4. r.n \in Tree /\ r.freed \in SUBSET Freeable /\ Search(r.n) /\ (Sizes(a.left) => Sizes(r.n))
    BY <1>2 DEF MinOK, Results
  <1>5. PICK p \in Held(a.left) :
          /\ \A e \in Held(a.left) : p[1] <= e[1]
          /\ Held(r.n) = Held(a.left) \ {p}
          /\ r.freed = IF owned THEN PairObjects(p) ELSE {}
    BY <1>2 DEF MinOK
  <1>6. /\ m \in Tree /\ p \in Held(a) /\ Held(m) = Held(a) \ {p} /\ Search(m)
        /\ Sizes(r.n) /\ SizesBelow(a) => Sizes(m)
        /\ p[1] \in Int /\ p[1] < a.key
    BY <1>1, <1>4, <1>5, DropLeft
  <1>7. /\ n \in Node /\ n.left = r.n /\ n.right = a.right /\ n.red = a.red
    BY <1>1, <1>4, OnLeftHolds
  <1> HIDE DEF n
  <1>8. q.n = m /\ q.freed = r.freed /\ q \in Results
    BY <1>4, <1>6, ResultsAre DEF OnLeft, n
  <1>9. \A e \in Held(a) : p[1] <= e[1]
    <2>1. /\ Held(a) = {<<a.key, a.data>>} \cup Held(a.left) \cup Held(a.right)
          /\ <<a.key, a.data>>[1] = a.key /\ a.key \in Int
      BY <1>1, HeldOf, KeyIsInt
    <2>2. \A e \in Held(a.right) : e[1] \in Int /\ a.key < e[1]
      BY <1>1, HeldKeysOf DEF HeldKeys
    <2>3. \A e \in Held(a.right) : p[1] <= e[1]
      BY <1>6, <2>1, <2>2
    <2>4. p[1] <= a.key
      BY <1>6, <2>1
    <2> QED
      BY <1>5, <2>1, <2>3, <2>4
  <1>10. Sizes(x) => Sizes(m)
    <2>1. Sizes(x) => SizesBelow(a)
      BY <1>1, SizesOf DEF Rearranged, SizesBelow
    <2> QED
      BY <1>4, <1>6, <2>1 DEF SizesBelow
  <1>11. ASSUME NEW h, Loose(x, h)
         PROVE  Mended(x, h, m)
    <2>1. PICK g \in Int :
            /\ Loose(a.left, g) /\ HasRed(a.left)
            /\ \A e \in Node :
                 e.right = a.right /\ e.red = a.red
                 /\ Shape(e.left, g + Mark(a.left)) /\ (rb_is_red(e.left) => a.left.red)
                 => Mended(x, h, fix_up(e))
      BY <1>3, <1>11 DEF LeftReady
    <2>2. Mended(a.left, g, r.n)
      BY <1>2, <2>1 DEF MinOK
    <2>3. Shape(r.n, g + Mark(a.left)) /\ (rb_is_red(r.n) => a.left.red)
      BY <2>1, <2>2 DEF Mended
    <2> QED
      BY <1>7, <2>1, <2>3
  <1>12. Held(a) = Held(x)
    BY <1>1 DEF Rearranged
  <1> HIDE DEF q, m
  <1> QED
    BY <1>5, <1>6, <1>8, <1>9, <1>10, <1>11, <1>12 DEF MinOK, q, a

(* Removal of the least key, for every tree in the domain.                 *)
LEMMA RemoveMinDoes ==
  ASSUME NEW n \in MinDomain
  PROVE  MinOK(n, _rb_remove_min(n))
  <1>1. PICK f : /\ \A x \in MinDomain : f[x] = MinAt(f, x)
                 /\ \A y : _rb_remove_min(y) = f[y]
    BY RemoveMinIs
  <1> DEFINE m == [x \in MinDomain |-> Weight[x]]
             S == {x \in MinDomain : MinOK(x, f[x])}
  <1>2. ASSUME NEW x \in MinDomain, \A y \in MinDomain : m[y] < m[x] => y \in S
        PROVE  x \in S
    <2>1. f[x] = MinAt(f, x)
      BY <1>1
    <2>2. CASE x.left = Null
      <3>1. f[x] = Result(Null, free_key_and_data(x))
        BY <2>1, <2>2 DEF MinAt
      <3> QED
        BY <2>2, <3>1, MinHere
    <2>3. CASE x.left # Null
      <3>1. Leftward(x).left \in MinDomain /\ Weight[Leftward(x).left] < Weight[x]
        BY <2>3, MinDescends
      <3>2. f[x] = OnLeft(Leftward(x), f[Leftward(x).left])
        BY <2>1, <2>3 DEF MinAt, Leftward
      <3>3. MinOK(Leftward(x).left, f[Leftward(x).left])
        BY <1>2, <3>1
      <3> QED
        BY <2>3, <3>2, <3>3, MinBelow
    <2> QED
      BY <2>2, <2>3
  <1>3. m \in [MinDomain -> Nat]
    BY MinDescends
  <1>4. Hereditary(MinDomain, m, S)
    <2> HIDE DEF m, S
    <2> QED
      BY <1>2 DEF Hereditary
  <1>5. S = MinDomain
    <2>1. S \in SUBSET MinDomain
      OBVIOUS
    <2> HIDE DEF m, S
    <2> QED
      BY <1>3, <1>4, <2>1, Descent
  <1> QED
    BY <1>1, <1>5

(* The way of _rb_remove_max down the tree stays in its domain.            *)
LEMMA RightDescends ==
  ASSUME NEW x \in Removable
  PROVE  /\ x \in Node /\ Search(x) /\ Weight[x] \in Nat /\ Leaned(x) \in Node
         /\ \E h : Loose(x, h)
         /\ Leaned(x).right = Null => Leaned(x) = x /\ x.left = Null /\ x.right = Null
         /\ Leaned(x).right # Null =>
              LET b == Rightward(Leaned(x))
              IN  /\ b \in Node /\ Rearranged(x, b) /\ Search(b)
                  /\ b.right \in Removable /\ Weight[b.right] < Weight[x]
  <1>1. PICK h : x \in Node /\ Search(x) /\ Loose(x, h)
    BY RemovableIs
  <1>2. Weight[x] \in Nat
    BY <1>1, SizesOf
  <1>3. ASSUME Leaned(x).right # Null
        PROVE  LET b == Rightward(Leaned(x))
               IN  /\ b \in Node /\ Rearranged(x, b) /\ Search(b)
                   /\ b.right \in Removable /\ Weight[b.right] < Weight[x]
    <2> DEFINE b == Rightward(Leaned(x))
    <2>1. RightReady(x, h, b)
      BY <1>1, <1>3, MovesRight
    <2> HIDE DEF b
    <2>2. b \in Node /\ Rearranged(x, b) /\ Search(b)
      BY <1>1, <2>1 DEF RightReady, Rearranged
    <2>3. PICK g \in Int : Loose(b.right, g)
      BY <2>1 DEF RightReady
    <2>4. b.right \in Node /\ Search(b.right)
      BY <2>2, <2>3, SearchOf DEF Loose, Even
    <2>5. b.right \in Removable
      BY <2>3, <2>4, IsRemovable
    <2>6. Weight[b.right] < Weight[x]
      BY <2>2, SizesOf DEF Rearranged
    <2> QED
      BY <2>2, <2>5, <2>6 DEF b
  <1>4. CASE rb_is_red(x.left)
    <2>1. Leaned(x) \in Node /\ Leaned(x).right # Null
      BY <1>1, <1>4, RightLeans
    <2> QED
      BY <1>1, <1>2, <1>3, <2>1
  <1>5. CASE ~rb_is_red(x.left)
    <2>1. Leaned(x) = x
      BY <1>5 DEF Leaned
    <2>2. x.right = Null => x.left = Null
      BY <1>1, <1>5, EndMended
    <2> QED
      BY <1>1, <1>2, <1>3, <2>1, <2>2
  <1> QED
    BY <1>4, <1>5

MaxAt(f, x) ==
  LET a == IF rb_is_red(x.left) THEN rb_rotate_right(x) ELSE x
      b == IF TwoBlack(a.right) THEN rb_move_red_right(a) ELSE a
  IN  IF a.right = Null THEN Result(Null, free_key_and_data(a))
      ELSE OnRight(b, f[b.right])

LEMMA MaxAtIs ==
  ASSUME NEW f, NEW x
  PROVE  MaxAt(f, x) = IF Leaned(x).right = Null THEN Result(Null, free_key_and_data(Leaned(x)))
                       ELSE OnRight(Rightward(Leaned(x)), f[Rightward(Leaned(x)).right])
  BY Zenon DEF MaxAt, Leaned, Rightward

(* _rb_remove_max is the function its definition asks for.                 *)
LEMMA RemoveMaxIs ==
  \E f : /\ \A x \in Removable : f[x] = MaxAt(f, x)
         /\ \A n : _rb_remove_max(n) = f[n]
  <1> DEFINE D == Removable
             G == [x \in D |-> [f \in [D -> Results] |-> MaxAt(f, x)]]
             m == [x \in D |-> Weight[x]]
             Is(f) == f = [x \in Removable |-> MaxAt(f, x)]
             remove == CHOOSE f : Is(f)
  <1>1. ASSUME NEW x \in D, NEW f \in [D -> Results]
        PROVE  MaxAt(f, x) \in Results
    <2>1. CASE Leaned(x).right = Null
      <3>1. free_key_and_data(Leaned(x)) \in SUBSET Freeable
        BY RightDescends, ObjectsAreFreeable
      <3> QED
        BY <2>1, <3>1, ResultsAre, TreeNodes, MaxAtIs
    <2>2. CASE Leaned(x).right # Null
      <3> DEFINE a == Rightward(Leaned(x))
      <3>1. a \in Node /\ a.right \in Removable
        BY <2>2, RightDescends
      <3>2. MaxAt(f, x) = OnRight(a, f[a.right])
        BY <2>2, MaxAtIs
      <3> HIDE DEF a
      <3>3. f[a.right] \in Results
        BY <3>1
      <3>4. f[a.right].n \in Tree /\ f[a.right].freed \in SUBSET Freeable
        BY <3>3 DEF Results
      <3> QED
        BY <3>1, <3>2, <3>4, OnRightHolds, ResultsAre DEF OnRight
    <2> QED
      BY <2>1, <2>2
  <1>2. m \in [D -> Nat]
    BY RightDescends
  <1>3. ASSUME NEW x \in D, NEW f \in [D -> Results], NEW g \in [D -> Results],
               \A y \in D : m[y] < m[x] => f[y] = g[y]
        PROVE  MaxAt(f, x) = MaxAt(g, x)
    <2>1. CASE Leaned(x).right = Null
      BY <2>1, MaxAtIs
    <2>2. CASE Leaned(x).right # Null
      <3> DEFINE a == Rightward(Leaned(x))
      <3>1. a.right \in D /\ m[a.right] < m[x]
        BY <2>2, RightDescends
      <3>2. \A e : MaxAt(e, x) = OnRight(a, e[a.right])
        BY <2>2, MaxAtIs
      <3>3. f[a.right] = g[a.right]
        BY <1>3, <3>1
      <3> HIDE DEF a
      <3> QED
        BY <3>2, <3>3
    <2> QED
      BY <2>1, <2>2
  <1> HIDE DEF m
  <1>4. \A x \in D, f \in [D -> Results] : G[x][f] = MaxAt(f, x)
    OBVIOUS
  <1>5. G \in [D -> [[D -> Results] -> Results]]
    BY <1>1
  <1> HIDE DEF G, D
  <1>6. Descends(D, Results, m, G)
    <2>1. ASSUME NEW x \in D, NEW f \in [D -> Results], NEW g \in [D -> Results],
                 \A y \in D : m[y] < m[x] => f[y] = g[y]
          PROVE  G[x][f] = G[x][g]
      <3>1. MaxAt(f, x) = MaxAt(g, x)
        BY <1>3, <2>1
      <3> QED
        BY <1>4, <3>1, Zenon
    <2> QED
      BY <2>1, Zenon DEF Descends
  <1>7. Results # {}
    BY ResultsAre, TreeNodes
  <1>8. Solvable(D, Results, G)
    BY <1>2, <1>5, <1>6, <1>7, Recursion DEF Recursive
  <1>9. PICK f \in [D -> Results] : \A x \in D : f[x] = G[x][f]
    BY <1>8 DEF Solvable
  <1>10. Is(f)
    <2>1. f = [x \in D |-> f[x]]
      OBVIOUS
    <2>2. \A x \in D : f[x] = MaxAt(f, x)
      BY <1>4, <1>9
    <2> QED
      BY <2>1, <2>2, Zenon DEF D
  <1>11. Is(remove)
    <2> HIDE DEF Is
    <2> QED
      BY <1>10
  <1>12. \A n : _rb_remove_max(n) = remove[n]
    BY Zenon DEF _rb_remove_max, MaxAt
  <1> HIDE DEF remove
  <1>13. ASSUME NEW x \in Removable
         PROVE  remove[x] = MaxAt(remove, x)
    BY <1>11, Zenon
  <1> QED
    BY <1>12, <1>13

(* The greatest pair goes, with its objects.                               *)
MaxOK(x, r) ==
  /\ r \in Results
  /\ \E p \in Held(x) :
       /\ \A q \in Held(x) : q[1] <= p[1]
       /\ Held(r.n) = Held(x) \ {p}
       /\ r.freed = IF owned THEN PairObjects(p) ELSE {}
  /\ Search(r.n) /\ (Sizes(x) => Sizes(r.n))
  /\ \A h : Loose(x, h) => Mended(x, h, r.n)

(* Where the way ends.                                                     *)
LEMMA MaxHere ==
  ASSUME NEW x \in Removable, Leaned(x).right = Null
  PROVE  MaxOK(x, Result(Null, free_key_and_data(Leaned(x))))
  <1> DEFINE r == Result(Null, free_key_and_data(Leaned(x)))
             p == <<x.key, x.data>>
  <1>1. PICK h : x \in Node /\ Loose(x, h)
    BY RightDescends
  <1>2. Leaned(x) = x /\ x.left = Null /\ x.right = Null /\ ~rb_is_red(Null)
    BY RightDescends DEF rb_is_red
  <1>3. Held(x) = {p} /\ Held(Null) = {} /\ Search(Null) /\ Sizes(Null)
    BY <1>1, <1>2, Last, NullHolds
  <1>4. r \in Results /\ r.n = Null /\ r.freed = IF owned THEN PairObjects(p) ELSE {}
    <2>1. free_key_and_data(x) \in SUBSET Freeable
      BY <1>1, ObjectsAreFreeable
    <2>2. r = Result(Null, free_key_and_data(x))
      BY <1>2
    <2>3. free_key_and_data(x) = IF owned THEN PairObjects(p) ELSE {}
      BY <1>1, FreesPair
    <2> HIDE DEF r, p
    <2> QED
      BY <2>1, <2>2, <2>3, ResultsAre, TreeNodes
  <1>5. p[1] = x.key /\ p[1] \in Int
    BY <1>1, KeyIsInt
  <1> HIDE DEF r, p
  <1>6. \A g : Loose(x, g) => Mended(x, g, Null)
    BY <1>1, <1>2, EndMended
  <1>7. \A q \in Held(x) : q[1] <= p[1]
    BY <1>3, <1>5
  <1> QED
    BY <1>3, <1>4, <1>6, <1>7 DEF MaxOK, r

(* On the way back.                                                        *)
LEMMA MaxBelow ==
  ASSUME NEW x \in Removable, Leaned(x).right # Null, NEW r,
         MaxOK(Rightward(Leaned(x)).right, r)
  PROVE  MaxOK(x, OnRight(Rightward(Leaned(x)), r))
  <1> DEFINE a == Rightward(Leaned(x))
             n == [a EXCEPT !.right = r.n]
             m == fix_up(n)
             q == OnRight(a, r)
  <1>1. x \in Node /\ Search(x) /\ a \in Node /\ Rearranged(x, a) /\ Search(a)
    BY RightDescends
  <1>2. MaxOK(a.right, r)
    OBVIOUS
  <1>3. ASSUME NEW h, Loose(x, h)
        PROVE  RightReady(x, h, a)
    BY <1>1, <1>3, MovesRight
  <1> HIDE DEF a
  <1>4. r.n \in Tree /\ r.freed \in SUBSET Freeable /\ Search(r.n) /\ (Sizes(a.right) => Sizes(r.n))
    BY <1>2 DEF MaxOK, Results
  <1>5. PICK p \in Held(a.right) :
          /\ \A e \in Held(a.right) : e[1] <= p[1]
          /\ Held(r.n) = Held(a.right) \ {p}
          /\ r.freed = IF owned THEN PairObjects(p) ELSE {}
    BY <1>2 DEF MaxOK
  <1>6. /\ m \in Tree /\ p \in Held(a) /\ Held(m) = Held(a) \ {p} /\ Search(m)
        /\ Sizes(r.n) /\ SizesBelow(a) => Sizes(m)
        /\ p[1] \in Int /\ a.key < p[1]
    BY <1>1, <1>4, <1>5, DropRight
  <1>7. /\ n \in Node /\ n.right = r.n /\ n.left = a.left /\ n.red = a.red
    BY <1>1, <1>4, OnRightHolds
  <1> HIDE DEF n
  <1>8. q.n = m /\ q.freed = r.freed /\ q \in Results
    BY <1>4, <1>6, ResultsAre DEF OnRight, n
  <1>9. \A e \in Held(a) : e[1] <= p[1]
    <2>1. /\ Held(a) = {<<a.key, a.data>>} \cup Held(a.left) \cup Held(a.right)
          /\ <<a.key, a.data>>[1] = a.key /\ a.key \in Int
      BY <1>1, HeldOf, KeyIsInt
    <2>2. \A e \in Held(a.left) : e[1] \in Int /\ e[1] < a.key
      BY <1>1, HeldKeysOf DEF HeldKeys
    <2>3. \A e \in Held(a.left) : e[1] <= p[1]
      BY <1>6, <2>1, <2>2
    <2>4. a.key <= p[1]
      BY <1>6, <2>1
    <2> QED
      BY <1>5, <2>1, <2>3, <2>4
  <1>10. Sizes(x) => Sizes(m)
    <2>1. Sizes(x) => SizesBelow(a)
      BY <1>1, SizesOf DEF Rearranged, SizesBelow
    <2> QED
      BY <1>4, <1>6, <2>1 DEF SizesBelow
  <1>11. ASSUME NEW h, Loose(x, h)
         PROVE  Mended(x, h, m)
    <2>1. PICK g \in Int :
            /\ Loose(a.right, g) /\ HasRed(a.right)
            /\ \A e \in Node :
                 e.left = a.left /\ e.red = a.red
                 /\ Shape(e.right, g + Mark(a.right)) /\ (rb_is_red(e.right) => a.right.red)
                 => Mended(x, h, fix_up(e))
      BY <1>3, <1>11 DEF RightReady
    <2>2. Mended(a.right, g, r.n)
      BY <1>2, <2>1 DEF MaxOK
    <2>3. Shape(r.n, g + Mark(a.right)) /\ (rb_is_red(r.n) => a.right.red)
      BY <2>1, <2>2 DEF Mended
    <2> QED
      BY <1>7, <2>1, <2>3
  <1>12. Held(a) = Held(x)
    BY <1>1 DEF Rearranged
  <1> HIDE DEF q, m
  <1> QED
    BY <1>5, <1>6, <1>8, <1>9, <1>10, <1>11, <1>12 DEF MaxOK, q, a

(* Removal of the greatest key, for every tree in the domain.              *)
LEMMA RemoveMaxDoes ==
  ASSUME NEW n \in Removable
  PROVE  MaxOK(n, _rb_remove_max(n))
  <1>1. PICK f : /\ \A x \in Removable : f[x] = MaxAt(f, x)
                 /\ \A y : _rb_remove_max(y) = f[y]
    BY RemoveMaxIs
  <1> DEFINE m == [x \in Removable |-> Weight[x]]
             S == {x \in Removable : MaxOK(x, f[x])}
  <1>2. ASSUME NEW x \in Removable, \A y \in Removable : m[y] < m[x] => y \in S
        PROVE  x \in S
    <2>1. f[x] = MaxAt(f, x)
      BY <1>1
    <2>2. CASE Leaned(x).right = Null
      <3>1. f[x] = Result(Null, free_key_and_data(Leaned(x)))
        BY <2>1, <2>2, MaxAtIs
      <3> QED
        BY <2>2, <3>1, MaxHere
    <2>3. CASE Leaned(x).right # Null
      <3>1. Rightward(Leaned(x)).right \in Removable /\ Weight[Rightward(Leaned(x)).right] < Weight[x]
        BY <2>3, RightDescends
      <3>2. f[x] = OnRight(Rightward(Leaned(x)), f[Rightward(Leaned(x)).right])
        BY <2>1, <2>3, MaxAtIs
      <3>3. MaxOK(Rightward(Leaned(x)).right, f[Rightward(Leaned(x)).right])
        BY <1>2, <3>1
      <3> QED
        BY <2>3, <3>2, <3>3, MaxBelow
    <2> QED
      BY <2>2, <2>3
  <1>3. m \in [Removable -> Nat]
    BY RightDescends
  <1>4. Hereditary(Removable, m, S)
    <2> HIDE DEF m, S
    <2> QED
      BY <1>2 DEF Hereditary
  <1>5. S = Removable
    <2>1. S \in SUBSET Removable
      OBVIOUS
    <2> HIDE DEF m, S
    <2> QED
      BY <1>3, <1>4, <2>1, Descent
  <1> QED
    BY <1>1, <1>5

-----------------------------------------------------------------------------
(* A KEY                                                                   *)

RemoveDomain(k) ==
  {y \in Removable : /\ k \in KeysOf(y)
                     /\ rb_is_red(y.right) => k >= y.key}

RemoveAt(f, x, k) ==
  IF k < x.key
  THEN LET a == IF TwoBlack(x.left) THEN rb_move_red_left(x) ELSE x
       IN  OnLeft(a, f[a.left])
  ELSE LET a == IF rb_is_red(x.left) THEN rb_rotate_right(x) ELSE x
           b == IF TwoBlack(a.right) THEN rb_move_red_right(a) ELSE a
       IN  IF k = a.key /\ a.right = Null THEN Result(Null, free_key_and_data(a))
           ELSE IF k = b.key THEN ReplaceBySuccessor(b)
           ELSE OnRight(b, f[b.right])

LEMMA RemoveAtIs ==
  ASSUME NEW f, NEW x, NEW k
  PROVE  LET a == Leaned(x)
             b == Rightward(Leaned(x))
         IN  /\ k < x.key => RemoveAt(f, x, k) = OnLeft(Leftward(x), f[Leftward(x).left])
             /\ ~(k < x.key) /\ k = a.key /\ a.right = Null =>
                  RemoveAt(f, x, k) = Result(Null, free_key_and_data(a))
             /\ ~(k < x.key) /\ a.right # Null /\ k = b.key =>
                  RemoveAt(f, x, k) = ReplaceBySuccessor(b)
             /\ ~(k < x.key) /\ a.right # Null /\ k # b.key =>
                  RemoveAt(f, x, k) = OnRight(b, f[b.right])
  BY Zenon DEF RemoveAt, Leftward, Leaned, Rightward

(* The domain of _rb_remove, in terms of what a tree holds.                *)
LEMMA InDomain ==
  ASSUME NEW x, NEW k \in Int
  PROVE  x \in RemoveDomain(k) <=>
           /\ x \in Removable /\ k \in HeldKeys(x)
           /\ rb_is_red(x.right) => k >= x.key
  <1>1. x \in Removable => x \in Trees
    BY RemovableIs
  <1> QED
    BY <1>1, TreesAgree DEF RemoveDomain

(* The ways the removal of a key goes on.                                  *)
LEMMA RemoveDescends ==
  ASSUME NEW k \in Int, NEW x \in RemoveDomain(k)
  PROVE  LET a == Leaned(x)
             b == Rightward(Leaned(x))
         IN  /\ x \in Removable /\ x \in Node /\ x.key \in Int /\ Weight[x] \in Nat
             /\ \/ /\ k < x.key /\ x \in MinDomain /\ x.left # Null
                   /\ Leftward(x).left \in RemoveDomain(k)
                   /\ Weight[Leftward(x).left] < Weight[x]
                \/ /\ ~(k < x.key) /\ k = a.key /\ a.right = Null
                \/ /\ ~(k < x.key) /\ a.right # Null /\ k = b.key
                   /\ b.right \in MinDomain
                \/ /\ ~(k < x.key) /\ a.right # Null /\ k # b.key
                   /\ b.right \in RemoveDomain(k)
                   /\ Weight[b.right] < Weight[x]
  <1> DEFINE a == Leaned(x)
             b == Rightward(Leaned(x))
             c == Leftward(x)
  <1>1. /\ x \in Removable /\ k \in HeldKeys(x)
        /\ rb_is_red(x.right) => k >= x.key
    BY InDomain
  <1>2. /\ x \in Node /\ Search(x) /\ x.key \in Int /\ Weight[x] \in Nat
    BY <1>1, RightDescends, KeyIsInt
  <1>3. PICK h : Loose(x, h)
    BY <1>1, RightDescends
  <1>4. /\ HeldKeys(x) = {x.key} \cup HeldKeys(x.left) \cup HeldKeys(x.right)
        /\ \A j \in HeldKeys(x.left) : j \in Int /\ j < x.key
        /\ \A j \in HeldKeys(x.right) : j \in Int /\ x.key < j
    BY <1>2, HeldKeysOf
  <1>5. CASE k < x.key
    <2>1. ~rb_is_red(x.right) /\ x \in MinDomain
      BY <1>1, <1>2, <1>5 DEF MinDomain
    <2>2. k \in HeldKeys(x.left)
      BY <1>1, <1>2, <1>4, <1>5
    <2>3. x.left # Null
      BY <2>2, NullHolds DEF HeldKeys
    <2>4. c.left \in MinDomain /\ Weight[c.left] < Weight[x]
      BY <2>1, <2>3, MinDescends
    <2>5. Held(x.left) \subseteq Held(c.left)
      BY <1>2, <1>3, <2>1, <2>3, MovesLeft DEF LeftReady
    <2> HIDE DEF c
    <2>6. k \in HeldKeys(c.left)
      BY <2>2, <2>5 DEF HeldKeys
    <2>7. c.left \in RemoveDomain(k)
      BY <2>4, <2>6, InDomain DEF MinDomain
    <2> QED
      BY <1>1, <1>2, <1>5, <2>1, <2>3, <2>4, <2>7 DEF c
  <1>6. CASE ~(k < x.key) /\ a.right = Null
    <2>1. a = x /\ x.left = Null /\ x.right = Null
      BY <1>1, <1>6, RightDescends
    <2>2. Held(x) = {<<x.key, x.data>>} /\ <<x.key, x.data>>[1] = x.key
      BY <1>2, <2>1, Last
    <2>3. k = x.key
      BY <1>1, <2>2 DEF HeldKeys
    <2> HIDE DEF a
    <2> QED
      BY <1>1, <1>2, <1>6, <2>1, <2>3 DEF a
  <1>7. CASE ~(k < x.key) /\ a.right # Null
    <2>1. /\ b \in Node /\ Rearranged(x, b) /\ Search(b)
          /\ b.right \in Removable /\ Weight[b.right] < Weight[x]
      BY <1>1, <1>7, RightDescends
    <2>2. RightReady(x, h, b)
      BY <1>2, <1>3, <1>7, MovesRight
    <2> HIDE DEF b, a
    <2>3. /\ rb_is_red(b.right.right) => b.key < x.key /\ b.right.key = x.key
          /\ b.key <= x.key /\ b.key \in Int
      BY <1>2, <2>1, <2>2, KeyIsInt DEF RightReady
    <2>4. CASE k = b.key
      <3>1. ~rb_is_red(b.right.right)
        BY <1>2, <1>7, <2>3, <2>4
      <3>2. b.right \in MinDomain
        BY <2>1, <3>1 DEF MinDomain
      <3> QED
        BY <1>1, <1>2, <1>7, <2>4, <3>2 DEF a, b
    <2>5. CASE k # b.key
      <3>1. k \in HeldKeys(b)
        BY <1>1, <2>1 DEF Rearranged, HeldKeys
      <3>2. b.key < k
        BY <1>2, <1>7, <2>3, <2>5
      <3>3. /\ HeldKeys(b) = {b.key} \cup HeldKeys(b.left) \cup HeldKeys(b.right)
            /\ \A j \in HeldKeys(b.left) : j \in Int /\ j < b.key
        BY <2>1, HeldKeysOf
      <3>4. k \in HeldKeys(b.right)
        BY <2>3, <3>1, <3>2, <3>3
      <3>5. rb_is_red(b.right.right) => k >= b.right.key
        BY <1>2, <1>7, <2>3
      <3>6. b.right \in RemoveDomain(k)
        BY <2>1, <3>4, <3>5, InDomain
      <3> QED
        BY <1>1, <1>2, <1>7, <2>1, <2>5, <3>6 DEF a, b
    <2> QED
      BY <2>4, <2>5
  <1> QED
    BY <1>5, <1>6, <1>7

(* One pair for one key.                                                   *)
LEMMA OnePair ==
  ASSUME NEW n \in Tree, Search(n), NEW p \in Held(n), NEW q \in Held(n), p[1] = q[1]
  PROVE  p = q
  <1>1. PICK x \in Under[n] : p = <<x.key, x.data>>
    BY DEF Held
  <1>2. PICK y \in Under[n] : q = <<y.key, y.data>>
    BY DEF Held
  <1>3. x.key = y.key
    BY <1>1, <1>2
  <1>4. x = y
    BY <1>3, OneNode
  <1> QED
    BY <1>1, <1>2, <1>4

(* The pair of the key goes, with its objects or with its objects and      *)
(* those of the next pair.                                                 *)
NextPair(S, p, q) == q \in S /\ p[1] < q[1] /\ \A e \in S : p[1] < e[1] => q[1] <= e[1]

FreesFor(S, p, both, f) ==
  IF ~owned THEN f = {}
  ELSE IF both THEN \E q \in S : NextPair(S, p, q) /\ f = PairObjects(p) \cup PairObjects(q)
  ELSE f = PairObjects(p)

(* The keys of the nodes that have a right subtree.                        *)
InnerKeys(n) == {x.key : x \in {y \in Under[n] : y.right # Null}}

RemoveOK(x, k, r) ==
  /\ r \in Results
  /\ \E p \in Held(x) : /\ p[1] = k
                        /\ Held(r.n) = Held(x) \ {p}
                        /\ FreesFor(Held(x), p, k \in InnerKeys(x), r.freed)
  /\ Search(r.n) /\ (Sizes(x) => Sizes(r.n))
  /\ \A h : Loose(x, h) => Mended(x, h, r.n)

(* The successor takes the place of the pair that goes.                    *)
LEMMA SuccessorDoes ==
  ASSUME NEW b \in Node, Search(b), b.right \in MinDomain
  PROVE  LET r == _rb_remove_min(b.right)
             q == ReplaceBySuccessor(b)
             p == <<b.key, b.data>>
         IN  /\ q \in Results /\ Held(q.n) = Held(b) \ {p} /\ p \in Held(b)
             /\ FreesFor(Held(b), p, TRUE, q.freed)
             /\ Search(q.n) /\ (SizesBelow(b) => Sizes(q.n))
             /\ MinOK(b.right, r)
             /\ \E n \in Node : /\ n.left = b.left /\ n.right = r.n /\ n.red = b.red
                                /\ q.n = fix_up(n)
  <1> DEFINE r == _rb_remove_min(b.right)
             q == ReplaceBySuccessor(b)
             p == <<b.key, b.data>>
             tmp == rb_min_n(b.right)
             n == [b EXCEPT !.key = tmp.key, !.data = tmp.data]
             s == Result(r.n, free_key_and_data(b) \cup r.freed)
  <1>1. MinOK(b.right, r)
    BY RemoveMinDoes
  <1>2. b.right \in Trees /\ b.right \in Node /\ b.right # Null /\ Search(b.right) /\ b.right \in Tree
    BY RemovableIs, TreeNodes DEF MinDomain
  <1>3. tmp \in Under[b.right] /\ \A k \in HeldKeys(b.right) : tmp.key <= k
    BY <1>2, MinIsLeast
  <1>4. q = OnRight(n, s)
    BY Zenon DEF ReplaceBySuccessor
  <1> HIDE DEF q, r, tmp
  <1>5. tmp \in Node
    BY <1>2, <1>3, UnderNodes
  <1>6. /\ n \in Node /\ n.key = tmp.key /\ n.data = tmp.data /\ n.red = b.red
        /\ n.left = b.left /\ n.right = b.right
    BY <1>5 DEF Node
  <1>7. PICK e \in Held(b.right) :
          /\ \A o \in Held(b.right) : e[1] <= o[1]
          /\ Held(r.n) = Held(b.right) \ {e}
          /\ r.freed = IF owned THEN PairObjects(e) ELSE {}
    BY <1>1 DEF MinOK
  <1>8. /\ r.n \in Tree /\ r.freed \in SUBSET Freeable /\ Search(r.n)
        /\ Sizes(b.right) => Sizes(r.n)
    BY <1>1 DEF MinOK, Results
  <1>9. /\ b.key \in Int /\ tmp.key \in Int
        /\ \A o \in Held(b.left) : o[1] \in Int /\ o[1] < b.key
        /\ \A o \in Held(b.right) : o[1] \in Int /\ b.key < o[1]
    BY <1>5, HeldKeysOf, KeyIsInt DEF HeldKeys
  <1>10. e = <<tmp.key, tmp.data>>
    <2>1. <<tmp.key, tmp.data>> \in Held(b.right)
      BY <1>3 DEF Held
    <2>2. e[1] <= tmp.key
      BY <1>7, <2>1
    <2>3. tmp.key <= e[1]
      BY <1>3 DEF HeldKeys
    <2>4. e[1] = <<tmp.key, tmp.data>>[1]
      BY <1>9, <2>2, <2>3
    <2> QED
      BY <1>2, <2>1, <2>4, OnePair
  <1>11. s.n = r.n /\ s.freed = free_key_and_data(b) \cup r.freed /\ s \in Results
    BY <1>8, ObjectsAreFreeable, ResultsAre
  <1> HIDE DEF n, s
  <1> DEFINE w == [n EXCEPT !.right = r.n]
             m == fix_up(w)
  <1>12. /\ w \in Node /\ w.right = r.n /\ w.left = n.left /\ w.red = n.red
         /\ m \in Node /\ m \in Tree
         /\ Held(m) = {<<n.key, n.data>>} \cup Held(n.left) \cup Held(r.n)
         /\ Search(n.left) /\ Less(n.left, n.key) /\ Search(r.n) /\ More(r.n, n.key) => Search(m)
         /\ Sizes(r.n) /\ Sizes(n.left) => Sizes(m)
    BY <1>6, <1>8, OnRightHolds
  <1>13. q = Result(m, s.freed)
    BY <1>4, <1>11 DEF OnRight
  <1> HIDE DEF w, m
  <1>14. q.n = m /\ q.freed = s.freed /\ q \in Results
    BY <1>11, <1>12, <1>13, ResultsAre DEF Results
  <1>15. p[1] = b.key /\ e[1] = tmp.key /\ p \notin Held(b.left) /\ p \notin Held(b.right)
    BY <1>9, <1>10
  <1>16. Held(b) = {p} \cup Held(b.left) \cup Held(b.right)
    BY HeldOf
  <1> HIDE DEF p
  <1>17. Held(m) = Held(b) \ {p}
    BY <1>6, <1>7, <1>10, <1>12, <1>15, <1>16
  <1>18. Search(m)
    <2>1. Search(b.left)
      BY SearchOf
    <2>2. Less(b.left, tmp.key)
      BY <1>7, <1>9, <1>15 DEF Less
    <2>3. ASSUME NEW o \in Held(r.n)
          PROVE  tmp.key < o[1]
      <3>1. o \in Held(b.right) /\ o # e /\ e[1] <= o[1] /\ o[1] \in Int
        BY <1>7, <1>9
      <3>2. o[1] # e[1]
        BY <1>2, <3>1, OnePair
      <3> QED
        BY <1>9, <1>15, <3>1, <3>2
    <2>4. More(r.n, tmp.key)
      BY <2>3 DEF More
    <2> QED
      BY <1>6, <1>8, <1>12, <2>1, <2>2, <2>4
  <1>19. SizesBelow(b) => Sizes(m)
    BY <1>6, <1>8, <1>12 DEF SizesBelow
  <1>20. NextPair(Held(b), p, e) /\ e \in Held(b)
    <2>1. e \in Held(b) /\ p[1] < e[1]
      BY <1>7, <1>9, <1>15, <1>16
    <2>2. ASSUME NEW o \in Held(b), p[1] < o[1]
          PROVE  e[1] <= o[1]
      <3>1. o \in Held(b.right)
        BY <1>9, <1>15, <1>16, <2>2
      <3> QED
        BY <1>7, <3>1
    <2> QED
      BY <2>1, <2>2 DEF NextPair
  <1>21. FreesFor(Held(b), p, TRUE, s.freed)
    <2>1. free_key_and_data(b) = IF owned THEN PairObjects(p) ELSE {}
      BY FreesPair DEF p
    <2> QED
      BY <1>7, <1>11, <1>20, <2>1 DEF FreesFor
  <1>22. p \in Held(b)
    BY <1>16
  <1>23. \E y \in Node : y.left = b.left /\ y.right = r.n /\ y.red = b.red /\ q.n = fix_up(y)
    BY <1>6, <1>12, <1>14 DEF m
  <1> QED
    BY <1>1, <1>14, <1>17, <1>18, <1>19, <1>21, <1>22, <1>23 DEF q, r, p

(* _rb_remove is the function its definition asks for.                     *)
LEMMA RemoveIs ==
  ASSUME NEW k \in Int
  PROVE  \E f : /\ \A x \in RemoveDomain(k) : f[x] = RemoveAt(f, x, k)
                /\ \A n : _rb_remove(n, k) = f[n]
  <1> DEFINE D == RemoveDomain(k)
             G == [x \in D |-> [f \in [D -> Results] |-> RemoveAt(f, x, k)]]
             m == [x \in D |-> Weight[x]]
             Is(f) == f = [x \in RemoveDomain(k) |-> RemoveAt(f, x, k)]
             remove == CHOOSE f : Is(f)
  <1>1. ASSUME NEW x \in D, NEW f \in [D -> Results]
        PROVE  RemoveAt(f, x, k) \in Results
    <2>1. x \in Removable /\ x \in Node /\ x.key \in Int
      BY RemoveDescends
    <2>2. CASE k < x.key
      <3> DEFINE a == Leftward(x)
      <3>1. x \in MinDomain /\ x.left # Null /\ a.left \in D
        BY <2>1, <2>2, RemoveDescends
      <3>2. a \in Node
        BY <3>1, MinDescends
      <3>3. RemoveAt(f, x, k) = OnLeft(a, f[a.left])
        BY <2>2, RemoveAtIs
      <3> HIDE DEF a
      <3>4. f[a.left] \in Results
        BY <3>1
      <3>5. f[a.left].n \in Tree /\ f[a.left].freed \in SUBSET Freeable
        BY <3>4 DEF Results
      <3> QED
        BY <3>2, <3>3, <3>5, OnLeftHolds, ResultsAre DEF OnLeft
    <2>3. CASE ~(k < x.key) /\ k = Leaned(x).key /\ Leaned(x).right = Null
      <3>1. free_key_and_data(Leaned(x)) \in SUBSET Freeable
        BY <2>1, RightDescends, ObjectsAreFreeable
      <3> QED
        BY <2>3, <3>1, ResultsAre, TreeNodes, RemoveAtIs
    <2>4. CASE ~(k < x.key) /\ Leaned(x).right # Null /\ k = Rightward(Leaned(x)).key
      <3> DEFINE b == Rightward(Leaned(x))
      <3>1. b \in Node /\ Search(b)
        BY <2>1, <2>4, RightDescends
      <3>2. b.right \in MinDomain
        BY <2>4, RemoveDescends
      <3>3. RemoveAt(f, x, k) = ReplaceBySuccessor(b)
        BY <2>4, RemoveAtIs
      <3> HIDE DEF b
      <3> QED
        BY <3>1, <3>2, <3>3, SuccessorDoes
    <2>5. CASE ~(k < x.key) /\ Leaned(x).right # Null /\ k # Rightward(Leaned(x)).key
      <3> DEFINE b == Rightward(Leaned(x))
      <3>1. b \in Node
        BY <2>1, <2>5, RightDescends
      <3>2. b.right \in D
        BY <2>5, RemoveDescends
      <3>3. RemoveAt(f, x, k) = OnRight(b, f[b.right])
        BY <2>5, RemoveAtIs
      <3> HIDE DEF b
      <3>4. f[b.right] \in Results
        BY <3>2
      <3>5. f[b.right].n \in Tree /\ f[b.right].freed \in SUBSET Freeable
        BY <3>4 DEF Results
      <3> QED
        BY <3>1, <3>3, <3>5, OnRightHolds, ResultsAre DEF OnRight
    <2> QED
      BY <2>2, <2>3, <2>4, <2>5, RemoveDescends
  <1>2. m \in [D -> Nat]
    BY RemoveDescends
  <1>3. ASSUME NEW x \in D, NEW f \in [D -> Results], NEW g \in [D -> Results],
               \A y \in D : m[y] < m[x] => f[y] = g[y]
        PROVE  RemoveAt(f, x, k) = RemoveAt(g, x, k)
    <2>1. CASE k < x.key
      <3> DEFINE a == Leftward(x)
      <3>1. a.left \in D /\ m[a.left] < m[x]
        BY <2>1, RemoveDescends
      <3>2. \A e : RemoveAt(e, x, k) = OnLeft(a, e[a.left])
        BY <2>1, RemoveAtIs
      <3>3. f[a.left] = g[a.left]
        BY <1>3, <3>1
      <3> HIDE DEF a
      <3> QED
        BY <3>2, <3>3
    <2>2. CASE ~(k < x.key) /\ k = Leaned(x).key /\ Leaned(x).right = Null
      BY <2>2, RemoveAtIs
    <2>3. CASE ~(k < x.key) /\ Leaned(x).right # Null /\ k = Rightward(Leaned(x)).key
      BY <2>3, RemoveAtIs
    <2>4. CASE ~(k < x.key) /\ Leaned(x).right # Null /\ k # Rightward(Leaned(x)).key
      <3> DEFINE b == Rightward(Leaned(x))
      <3>1. b.right \in D /\ m[b.right] < m[x]
        BY <2>4, RemoveDescends
      <3>2. \A e : RemoveAt(e, x, k) = OnRight(b, e[b.right])
        BY <2>4, RemoveAtIs
      <3>3. f[b.right] = g[b.right]
        BY <1>3, <3>1
      <3> HIDE DEF b
      <3> QED
        BY <3>2, <3>3
    <2> QED
      BY <2>1, <2>2, <2>3, <2>4, RemoveDescends
  <1> HIDE DEF m
  <1>4. \A x \in D, f \in [D -> Results] : G[x][f] = RemoveAt(f, x, k)
    OBVIOUS
  <1>5. G \in [D -> [[D -> Results] -> Results]]
    BY <1>1
  <1> HIDE DEF G, D
  <1>6. Descends(D, Results, m, G)
    <2>1. ASSUME NEW x \in D, NEW f \in [D -> Results], NEW g \in [D -> Results],
                 \A y \in D : m[y] < m[x] => f[y] = g[y]
          PROVE  G[x][f] = G[x][g]
      <3>1. RemoveAt(f, x, k) = RemoveAt(g, x, k)
        BY <1>3, <2>1
      <3> QED
        BY <1>4, <3>1, Zenon
    <2> QED
      BY <2>1, Zenon DEF Descends
  <1>7. Results # {}
    BY ResultsAre, TreeNodes
  <1>8. Solvable(D, Results, G)
    BY <1>2, <1>5, <1>6, <1>7, Recursion DEF Recursive
  <1>9. PICK f \in [D -> Results] : \A x \in D : f[x] = G[x][f]
    BY <1>8 DEF Solvable
  <1>10. Is(f)
    <2>1. f = [x \in D |-> f[x]]
      OBVIOUS
    <2>2. \A x \in D : f[x] = RemoveAt(f, x, k)
      BY <1>4, <1>9
    <2> QED
      BY <2>1, <2>2, Zenon DEF D
  <1>11. Is(remove)
    <2> HIDE DEF Is
    <2> QED
      BY <1>10
  <1>12. \A n : _rb_remove(n, k) = remove[n]
    BY Zenon DEF _rb_remove, RemoveAt, RemoveDomain
  <1> HIDE DEF remove
  <1>13. ASSUME NEW x \in RemoveDomain(k)
         PROVE  remove[x] = RemoveAt(remove, x, k)
    BY <1>11, Zenon
  <1> QED
    BY <1>12, <1>13

-----------------------------------------------------------------------------
(* THE NODES WITH A RIGHT SUBTREE                                          *)

LEMMA InnerKeysOf ==
  ASSUME NEW n \in Node
  PROVE  /\ InnerKeys(n) = (IF n.right # Null THEN {n.key} ELSE {})
                             \cup InnerKeys(n.left) \cup InnerKeys(n.right)
         /\ InnerKeys(n.left) \subseteq HeldKeys(n.left)
         /\ InnerKeys(n.right) \subseteq HeldKeys(n.right)
  <1>1. Under[n] = {n} \cup Under[n.left] \cup Under[n.right]
    BY UnderOf, TreeNodes
  <1>2. \A m : InnerKeys(m) \subseteq HeldKeys(m)
    <2> SUFFICES ASSUME NEW m, NEW x \in Under[m]
                 PROVE  x.key \in HeldKeys(m)
      BY DEF InnerKeys
    <2>1. <<x.key, x.data>> \in Held(m) /\ <<x.key, x.data>>[1] = x.key
      BY DEF Held
    <2> QED
      BY <2>1 DEF HeldKeys
  <1> QED
    BY <1>1, <1>2 DEF InnerKeys

(* Colors do not matter.                                                   *)
LEMMA InnerAlike ==
  ASSUME NEW n \in Node, NEW m \in Node,
         m.key = n.key, m.right = Null <=> n.right = Null,
         InnerKeys(m.left) = InnerKeys(n.left), InnerKeys(m.right) = InnerKeys(n.right)
  PROVE  InnerKeys(m) = InnerKeys(n)
  BY InnerKeysOf

LEMMA InnerFlipped ==
  ASSUME NEW n \in Node
  PROVE  Flipped(n) \in Node /\ InnerKeys(Flipped(n)) = InnerKeys(n)
  <1>1. Alike(n, Flipped(n))
    BY FlippedHolds
  <1> QED
    BY <1>1, InnerAlike DEF Alike

LEMMA InnerColorFlip ==
  ASSUME NEW n \in Node, n.left \in Node, n.right \in Node
  PROVE  InnerKeys(rb_color_flip(n)) = InnerKeys(n)
  <1> DEFINE m == rb_color_flip(n)
  <1>1. /\ m \in Node /\ m.key = n.key
        /\ m.left = Flipped(n.left) /\ m.right = Flipped(n.right)
    BY ColorFlip
  <1> HIDE DEF m
  <1>2. m.right # Null /\ n.right # Null
    BY <1>1, InnerFlipped, TreeNodes
  <1> QED
    BY <1>1, <1>2, InnerFlipped, InnerAlike DEF m

LEMMA InnerRotateRight ==
  ASSUME NEW n \in Node, n.left \in Node
  PROVE  InnerKeys(rb_rotate_right(n)) = InnerKeys(n) \cup {n.left.key}
  <1> DEFINE m == rb_rotate_right(n)
  <1>1. /\ m \in Node /\ m.key = n.left.key /\ m.left = n.left.left
        /\ m.right \in Node /\ m.right.key = n.key
        /\ m.right.right = n.right /\ m.right.left = n.left.right
    BY RotateRight
  <1> HIDE DEF m
  <1>2. m.right # Null
    BY <1>1, TreeNodes
  <1>3. InnerKeys(m) = {m.key} \cup InnerKeys(m.left) \cup InnerKeys(m.right)
    BY <1>1, <1>2, InnerKeysOf
  <1>4. InnerKeys(m.right) = (IF n.right # Null THEN {n.key} ELSE {})
                               \cup InnerKeys(n.left.right) \cup InnerKeys(n.right)
    BY <1>1, InnerKeysOf
  <1>5. InnerKeys(n) = (IF n.right # Null THEN {n.key} ELSE {})
                         \cup InnerKeys(n.left) \cup InnerKeys(n.right)
    BY InnerKeysOf
  <1>6. InnerKeys(n.left) = (IF n.left.right # Null THEN {n.left.key} ELSE {})
                              \cup InnerKeys(n.left.left) \cup InnerKeys(n.left.right)
    BY InnerKeysOf
  <1> QED
    BY <1>1, <1>3, <1>4, <1>5, <1>6 DEF m

LEMMA InnerRotateLeft ==
  ASSUME NEW n \in Node, n.right \in Node
  PROVE  InnerKeys(n) = InnerKeys(rb_rotate_left(n)) \cup {n.key}
  <1> DEFINE m == rb_rotate_left(n)
  <1>1. /\ m \in Node /\ m.key = n.right.key /\ m.right = n.right.right
        /\ m.left \in Node /\ m.left.key = n.key
        /\ m.left.left = n.left /\ m.left.right = n.right.left
    BY RotateLeft
  <1> HIDE DEF m
  <1>2. n.right # Null
    BY TreeNodes
  <1>3. InnerKeys(m) = (IF n.right.right # Null THEN {n.right.key} ELSE {})
                         \cup InnerKeys(m.left) \cup InnerKeys(n.right.right)
    BY <1>1, InnerKeysOf
  <1>4. InnerKeys(m.left) = (IF n.right.left # Null THEN {n.key} ELSE {})
                              \cup InnerKeys(n.left) \cup InnerKeys(n.right.left)
    BY <1>1, InnerKeysOf
  <1>5. InnerKeys(n) = {n.key} \cup InnerKeys(n.left) \cup InnerKeys(n.right)
    BY <1>2, InnerKeysOf
  <1>6. InnerKeys(n.right) = (IF n.right.right # Null THEN {n.right.key} ELSE {})
                               \cup InnerKeys(n.right.left) \cup InnerKeys(n.right.right)
    BY InnerKeysOf
  <1> QED
    BY <1>3, <1>4, <1>5, <1>6 DEF m

(* On the way down to a key that is less, only nodes of other keys lose or *)
(* get a right subtree.                                                    *)
LEMMA InnerLeftward ==
  ASSUME NEW k \in Int, NEW x \in MinDomain, x.left # Null, k < x.key
  PROVE  k \in InnerKeys(x) <=> k \in InnerKeys(Leftward(x))
  <1>1. PICK h : x \in Node /\ Search(x) /\ Loose(x, h) /\ ~rb_is_red(x.right)
    BY MinDescends
  <1>2. CASE ~TwoBlack(x.left)
    BY <1>2 DEF Leftward
  <1>3. CASE TwoBlack(x.left)
    <2> DEFINE a == rb_color_flip(x)
               s == a.right
               r == rb_rotate_right(s)
               b == [a EXCEPT !.right = r]
               c == rb_rotate_left(b)
               t == rb_color_flip(c)
    <2>1. x.left \in Node /\ x.right \in Node
      BY <1>1, <1>3, BothNodes, TreeNodes DEF Loose, Even, TwoBlack, Node
    <2>2. /\ a \in Node /\ a.key = x.key /\ a.left = Flipped(x.left) /\ s = Flipped(x.right)
          /\ InnerKeys(a) = InnerKeys(x)
      BY <1>1, <2>1, ColorFlip, InnerColorFlip
    <2>3. Leftward(x) = IF rb_is_red(s.left) THEN t ELSE a
      BY <1>3, Zenon DEF Leftward, rb_move_red_left
    <2> HIDE DEF a
    <2>4. s \in Node /\ s.left = x.right.left /\ s.left \in Tree /\ a.left \in Node
      BY <2>1, <2>2, FlippedRearranges DEF Node
    <2>5. CASE ~rb_is_red(s.left)
      BY <2>2, <2>3, <2>5
    <2>6. CASE rb_is_red(s.left)
      <3> HIDE DEF s
      <3>1. s.left \in Node
        BY <2>4, <2>6, TreeNodes DEF rb_is_red
      <3>2. r \in Node /\ r.right \in Node /\ InnerKeys(r) = InnerKeys(s) \cup {s.left.key}
        BY <2>4, <3>1, RotateRight, InnerRotateRight
      <3> HIDE DEF r
      <3>3. b \in Node /\ b.key = a.key /\ b.left = a.left /\ b.right = r
        BY <2>2, <3>2, TreeNodes DEF Node
      <3> HIDE DEF b
      <3>4. InnerKeys(b) = InnerKeys(a) \cup {s.left.key}
        <4>1. r # Null /\ s # Null /\ s = a.right
          BY <2>4, <3>2, TreeNodes DEF s
        <4>2. InnerKeys(b) = {b.key} \cup InnerKeys(b.left) \cup InnerKeys(b.right)
          BY <3>3, <4>1, InnerKeysOf
        <4>3. InnerKeys(a) = {a.key} \cup InnerKeys(a.left) \cup InnerKeys(a.right)
          BY <2>2, <4>1, InnerKeysOf
        <4> QED
          BY <3>2, <3>3, <4>1, <4>2, <4>3
      <3>5. /\ c \in Node /\ c.left \in Node /\ c.right \in Node
            /\ InnerKeys(b) = InnerKeys(c) \cup {b.key}
        BY <3>2, <3>3, RotateLeft, InnerRotateLeft
      <3> HIDE DEF c
      <3>6. InnerKeys(t) = InnerKeys(c)
        BY <3>5, InnerColorFlip
      <3> HIDE DEF t
      <3>7. s.left.key > x.key
        <4>1. HeldKeys(x.right.left) \subseteq HeldKeys(x.right)
          BY <2>1, HeldKeysOf
        <4>2. s.left.key \in HeldKeys(s.left)
          BY <3>1, HeldKeysOf
        <4> QED
          BY <1>1, <2>4, <4>1, <4>2, HeldKeysOf
      <3>8. k # b.key /\ k # s.left.key
        BY <1>1, <2>2, <3>1, <3>3, <3>7, KeyIsInt
      <3> QED
        BY <2>2, <2>3, <2>6, <3>4, <3>5, <3>6, <3>8
    <2> QED
      BY <2>5, <2>6
  <1> QED
    BY <1>2, <1>3

(* And on the way down to the key or to one that is greater.               *)
LEMMA InnerRightward ==
  ASSUME NEW k \in Int, NEW x \in Removable, Leaned(x).right # Null, ~(k < x.key)
  PROVE  k \in InnerKeys(x) <=> k \in InnerKeys(Rightward(Leaned(x)))
  <1>1. PICK h : x \in Node /\ Search(x) /\ Loose(x, h)
    BY RightDescends
  <1>2. x.left \in Node => x.left.key < x.key /\ k # x.left.key
    <2> SUFFICES ASSUME x.left \in Node
                 PROVE  x.left.key < x.key /\ k # x.left.key
      OBVIOUS
    <2>1. x.left.key \in HeldKeys(x.left)
      BY HeldKeysOf
    <2>2. x.left.key < x.key /\ x.left.key \in Int /\ x.key \in Int
      BY <1>1, <2>1, HeldKeysOf
    <2> QED
      BY <2>2
  <1>3. CASE rb_is_red(x.left)
    <2>1. x.left \in Node
      BY <1>1, <1>3, TreeNodes DEF rb_is_red, Node
    <2>2. Leaned(x) = rb_rotate_right(x)
      BY <1>3 DEF Leaned
    <2>3. Rightward(Leaned(x)) = Leaned(x)
      BY <1>1, <1>3, RightLeans DEF Rightward
    <2>4. InnerKeys(Leaned(x)) = InnerKeys(x) \cup {x.left.key}
      BY <1>1, <2>1, <2>2, InnerRotateRight
    <2> QED
      BY <1>2, <2>1, <2>3, <2>4
  <1>4. CASE ~rb_is_red(x.left) /\ ~TwoBlack(x.right)
    BY <1>4 DEF Leaned, Rightward
  <1>5. CASE ~rb_is_red(x.left) /\ TwoBlack(x.right)
    <2> DEFINE a == rb_color_flip(x)
               l == a.left
               c == rb_rotate_right(a)
               t == rb_color_flip(c)
    <2>1. Leaned(x) = x
      BY <1>5 DEF Leaned
    <2>2. x.left \in Node /\ x.right \in Node
      BY <1>1, <1>5, <2>1, BothNodes, TreeNodes DEF Loose, Even, TwoBlack, Node
    <2>3. a \in Node /\ l = Flipped(x.left) /\ a.right = Flipped(x.right) /\ InnerKeys(a) = InnerKeys(x)
      BY <1>1, <2>2, ColorFlip, InnerColorFlip
    <2>4. Rightward(x) = IF rb_is_red(l.left) THEN t ELSE a
      BY <1>5, Zenon DEF Rightward, rb_move_red_right
    <2> HIDE DEF a
    <2>5. l \in Node /\ l.key = x.left.key /\ l.left \in Tree
      BY <2>2, <2>3, FlippedRearranges DEF Node
    <2>6. CASE ~rb_is_red(l.left)
      BY <2>1, <2>3, <2>4, <2>6
    <2>7. CASE rb_is_red(l.left)
      <3>1. l.left \in Node
        BY <2>5, <2>7, TreeNodes DEF rb_is_red
      <3>2. /\ c \in Node /\ c.left \in Node /\ c.right \in Node
            /\ InnerKeys(c) = InnerKeys(a) \cup {l.key}
        BY <2>3, <2>5, <3>1, RotateRight, InnerRotateRight
      <3> HIDE DEF c
      <3>3. InnerKeys(t) = InnerKeys(c)
        BY <3>2, InnerColorFlip
      <3> HIDE DEF t, l
      <3> QED
        BY <1>2, <2>1, <2>2, <2>3, <2>4, <2>5, <2>7, <3>2, <3>3
    <2> QED
      BY <2>6, <2>7
  <1> QED
    BY <1>3, <1>4, <1>5

(* Whether the key has a right subtree shows in the part it is in.         *)
LEMMA InnerOnLeft ==
  ASSUME NEW k \in Int, NEW x \in MinDomain, x.left # Null, k < x.key,
         k \in HeldKeys(Leftward(x).left)
  PROVE  k \in InnerKeys(x) <=> k \in InnerKeys(Leftward(x).left)
  <1> DEFINE a == Leftward(x)
  <1>1. a \in Node /\ Search(a)
    BY MinDescends
  <1>2. (k \in InnerKeys(x) <=> k \in InnerKeys(a)) /\ k \in HeldKeys(a.left)
    BY InnerLeftward
  <1> HIDE DEF a
  <1>3. k < a.key /\ a.key \in Int /\ k \notin HeldKeys(a.right)
    BY <1>1, <1>2, HeldKeysOf
  <1>4. k \in InnerKeys(a) <=> k \in InnerKeys(a.left)
    BY <1>1, <1>3, InnerKeysOf
  <1> QED
    BY <1>2, <1>4 DEF a

LEMMA InnerOnRight ==
  ASSUME NEW k \in Int, NEW x \in Removable, Leaned(x).right # Null, ~(k < x.key),
         k \in HeldKeys(Rightward(Leaned(x)).right)
  PROVE  k \in InnerKeys(x) <=> k \in InnerKeys(Rightward(Leaned(x)).right)
  <1> DEFINE a == Rightward(Leaned(x))
  <1>1. a \in Node /\ Search(a)
    BY RightDescends
  <1>2. (k \in InnerKeys(x) <=> k \in InnerKeys(a)) /\ k \in HeldKeys(a.right)
    BY InnerRightward
  <1> HIDE DEF a
  <1>3. a.key < k /\ a.key \in Int /\ k \notin HeldKeys(a.left)
    BY <1>1, <1>2, HeldKeysOf
  <1>4. k \in InnerKeys(a) <=> k \in InnerKeys(a.right)
    BY <1>1, <1>3, InnerKeysOf
  <1> QED
    BY <1>2, <1>4 DEF a

(* What is next in a subtree is next in the tree.                          *)
LEMMA NextOnLeft ==
  ASSUME NEW a \in Node, Search(a), NEW p \in Held(a.left), NEW both, NEW f,
         FreesFor(Held(a.left), p, both, f)
  PROVE  FreesFor(Held(a), p, both, f)
  <1> DEFINE top == <<a.key, a.data>>
  <1>1. /\ a.key \in Int
        /\ \A q \in Held(a.left) : q[1] \in Int /\ q[1] < a.key
        /\ \A q \in Held(a.right) : q[1] \in Int /\ a.key < q[1]
    BY HeldKeysOf DEF HeldKeys
  <1>2. Held(a) = {top} \cup Held(a.left) \cup Held(a.right) /\ top[1] = a.key
    BY HeldOf
  <1> HIDE DEF top
  <1>3. ASSUME NEW q, NextPair(Held(a.left), p, q)
        PROVE  NextPair(Held(a), p, q) /\ q \in Held(a)
    <2>1. /\ q \in Held(a.left) /\ p[1] < q[1] /\ q[1] < a.key
          /\ \A e \in Held(a.left) : p[1] < e[1] => q[1] <= e[1]
      BY <1>1, <1>3 DEF NextPair
    <2>2. \A e \in Held(a.right) : q[1] <= e[1]
      BY <1>1, <2>1
    <2>3. q[1] <= top[1]
      BY <1>1, <1>2, <2>1
    <2> QED
      BY <1>2, <2>1, <2>2, <2>3 DEF NextPair
  <1> QED
    BY <1>3 DEF FreesFor, NextPair

LEMMA NextOnRight ==
  ASSUME NEW a \in Node, Search(a), NEW p \in Held(a.right), NEW both, NEW f,
         FreesFor(Held(a.right), p, both, f)
  PROVE  FreesFor(Held(a), p, both, f)
  <1> DEFINE top == <<a.key, a.data>>
  <1>1. /\ a.key \in Int
        /\ \A q \in Held(a.left) : q[1] \in Int /\ q[1] < a.key
        /\ \A q \in Held(a.right) : q[1] \in Int /\ a.key < q[1]
    BY HeldKeysOf DEF HeldKeys
  <1>2. Held(a) = {top} \cup Held(a.left) \cup Held(a.right) /\ top[1] = a.key
    BY HeldOf
  <1> HIDE DEF top
  <1>3. ASSUME NEW q, NextPair(Held(a.right), p, q)
        PROVE  NextPair(Held(a), p, q) /\ q \in Held(a)
    <2>1. /\ q \in Held(a.right) /\ p[1] < q[1]
          /\ \A e \in Held(a.right) : p[1] < e[1] => q[1] <= e[1]
      BY <1>3 DEF NextPair
    <2>2. \A e \in Held(a.left) : ~(p[1] < e[1])
      BY <1>1
    <2>3. ~(p[1] < top[1])
      BY <1>1, <1>2
    <2> QED
      BY <1>2, <2>1, <2>2, <2>3 DEF NextPair
  <1> QED
    BY <1>3 DEF FreesFor, NextPair

(* Where the way ends.                                                     *)
LEMMA RemoveHere ==
  ASSUME NEW k \in Int, NEW x \in RemoveDomain(k),
         k = Leaned(x).key, Leaned(x).right = Null
  PROVE  RemoveOK(x, k, Result(Null, free_key_and_data(Leaned(x))))
  <1> DEFINE r == Result(Null, free_key_and_data(Leaned(x)))
  <1>1. x \in Removable /\ x \in Node
    BY RemoveDescends
  <1>2. Leaned(x) = x /\ x.left = Null /\ x.right = Null
    BY <1>1, RightDescends
  <1>3. MaxOK(x, r)
    BY <1>1, MaxHere
  <1>4. Held(x) = {<<x.key, x.data>>} /\ <<x.key, x.data>>[1] = k
    BY <1>1, <1>2, Last
  <1> HIDE DEF r
  <1>5. PICK p \in Held(x) : Held(r.n) = Held(x) \ {p} /\ r.freed = IF owned THEN PairObjects(p) ELSE {}
    BY <1>3 DEF MaxOK
  <1>6. p[1] = k
    BY <1>4
  <1>7. k \notin InnerKeys(x)
    <2>1. HeldKeys(Null) = {}
      BY NullHolds DEF HeldKeys
    <2> QED
      BY <1>1, <1>2, <2>1, InnerKeysOf
  <1>8. FreesFor(Held(x), p, k \in InnerKeys(x), r.freed)
    BY <1>5, <1>7 DEF FreesFor
  <1> QED
    BY <1>3, <1>5, <1>6, <1>8 DEF MaxOK, RemoveOK, r

(* On the way back from the left.                                          *)
LEMMA RemoveOnLeft ==
  ASSUME NEW k \in Int, NEW x \in MinDomain, x.left # Null, k < x.key, NEW r,
         RemoveOK(Leftward(x).left, k, r)
  PROVE  RemoveOK(x, k, OnLeft(Leftward(x), r))
  <1> DEFINE a == Leftward(x)
             n == [a EXCEPT !.left = r.n]
             m == fix_up(n)
             q == OnLeft(a, r)
  <1>1. x \in Node /\ Search(x) /\ a \in Node /\ Rearranged(x, a) /\ Search(a)
    BY MinDescends
  <1>2. RemoveOK(a.left, k, r)
    OBVIOUS
  <1>3. ASSUME NEW h, Loose(x, h)
        PROVE  LeftReady(x, h, a)
    <2>1. ~rb_is_red(x.right)
      BY MinDescends
    <2> QED
      BY <1>1, <1>3, <2>1, MovesLeft
  <1> HIDE DEF a
  <1>4. r.n \in Tree /\ r.freed \in SUBSET Freeable /\ Search(r.n) /\ (Sizes(a.left) => Sizes(r.n))
    BY <1>2 DEF RemoveOK, Results
  <1>5. PICK p \in Held(a.left) :
          /\ p[1] = k
          /\ Held(r.n) = Held(a.left) \ {p}
          /\ FreesFor(Held(a.left), p, k \in InnerKeys(a.left), r.freed)
    BY <1>2 DEF RemoveOK
  <1>6. /\ m \in Tree /\ p \in Held(a) /\ Held(m) = Held(a) \ {p} /\ Search(m)
        /\ Sizes(r.n) /\ SizesBelow(a) => Sizes(m)
    BY <1>1, <1>4, <1>5, DropLeft
  <1>7. /\ n \in Node /\ n.left = r.n /\ n.right = a.right /\ n.red = a.red
    BY <1>1, <1>4, OnLeftHolds
  <1> HIDE DEF n
  <1>8. q.n = m /\ q.freed = r.freed /\ q \in Results
    BY <1>4, <1>6, ResultsAre DEF OnLeft, n
  <1>9. FreesFor(Held(a), p, k \in InnerKeys(x), r.freed)
    <2>1. k \in HeldKeys(a.left)
      BY <1>5 DEF HeldKeys
    <2>2. k \in InnerKeys(x) <=> k \in InnerKeys(a.left)
      BY <2>1, InnerOnLeft DEF a
    <2>3. FreesFor(Held(a), p, k \in InnerKeys(a.left), r.freed)
      BY <1>1, <1>5, NextOnLeft
    <2> QED
      BY <2>2, <2>3, Zenon DEF FreesFor
  <1>10. Sizes(x) => Sizes(m)
    <2>1. Sizes(x) => SizesBelow(a)
      BY <1>1, SizesOf DEF Rearranged, SizesBelow
    <2> QED
      BY <1>4, <1>6, <2>1 DEF SizesBelow
  <1>11. ASSUME NEW h, Loose(x, h)
         PROVE  Mended(x, h, m)
    <2>1. PICK g \in Int :
            /\ Loose(a.left, g) /\ HasRed(a.left)
            /\ \A e \in Node :
                 e.right = a.right /\ e.red = a.red
                 /\ Shape(e.left, g + Mark(a.left)) /\ (rb_is_red(e.left) => a.left.red)
                 => Mended(x, h, fix_up(e))
      BY <1>3, <1>11 DEF LeftReady
    <2>2. Mended(a.left, g, r.n)
      BY <1>2, <2>1 DEF RemoveOK
    <2>3. Shape(r.n, g + Mark(a.left)) /\ (rb_is_red(r.n) => a.left.red)
      BY <2>1, <2>2 DEF Mended
    <2> QED
      BY <1>7, <2>1, <2>3
  <1>12. Held(a) = Held(x)
    BY <1>1 DEF Rearranged
  <1> HIDE DEF q, m
  <1> QED
    BY <1>4, <1>5, <1>6, <1>8, <1>9, <1>10, <1>11, <1>12 DEF RemoveOK, q, a

(* On the way back from the right.                                         *)
LEMMA RemoveOnRight ==
  ASSUME NEW k \in Int, NEW x \in Removable, Leaned(x).right # Null, ~(k < x.key), NEW r,
         RemoveOK(Rightward(Leaned(x)).right, k, r)
  PROVE  RemoveOK(x, k, OnRight(Rightward(Leaned(x)), r))
  <1> DEFINE a == Rightward(Leaned(x))
             n == [a EXCEPT !.right = r.n]
             m == fix_up(n)
             q == OnRight(a, r)
  <1>1. x \in Node /\ Search(x) /\ a \in Node /\ Rearranged(x, a) /\ Search(a)
    BY RightDescends
  <1>2. RemoveOK(a.right, k, r)
    OBVIOUS
  <1>3. ASSUME NEW h, Loose(x, h)
        PROVE  RightReady(x, h, a)
    BY <1>1, <1>3, MovesRight
  <1> HIDE DEF a
  <1>4. r.n \in Tree /\ r.freed \in SUBSET Freeable /\ Search(r.n) /\ (Sizes(a.right) => Sizes(r.n))
    BY <1>2 DEF RemoveOK, Results
  <1>5. PICK p \in Held(a.right) :
          /\ p[1] = k
          /\ Held(r.n) = Held(a.right) \ {p}
          /\ FreesFor(Held(a.right), p, k \in InnerKeys(a.right), r.freed)
    BY <1>2 DEF RemoveOK
  <1>6. /\ m \in Tree /\ p \in Held(a) /\ Held(m) = Held(a) \ {p} /\ Search(m)
        /\ Sizes(r.n) /\ SizesBelow(a) => Sizes(m)
    BY <1>1, <1>4, <1>5, DropRight
  <1>7. /\ n \in Node /\ n.right = r.n /\ n.left = a.left /\ n.red = a.red
    BY <1>1, <1>4, OnRightHolds
  <1> HIDE DEF n
  <1>8. q.n = m /\ q.freed = r.freed /\ q \in Results
    BY <1>4, <1>6, ResultsAre DEF OnRight, n
  <1>9. FreesFor(Held(a), p, k \in InnerKeys(x), r.freed)
    <2>1. k \in HeldKeys(a.right)
      BY <1>5 DEF HeldKeys
    <2>2. k \in InnerKeys(x) <=> k \in InnerKeys(a.right)
      BY <2>1, InnerOnRight DEF a
    <2>3. FreesFor(Held(a), p, k \in InnerKeys(a.right), r.freed)
      BY <1>1, <1>5, NextOnRight
    <2> QED
      BY <2>2, <2>3, Zenon DEF FreesFor
  <1>10. Sizes(x) => Sizes(m)
    <2>1. Sizes(x) => SizesBelow(a)
      BY <1>1, SizesOf DEF Rearranged, SizesBelow
    <2> QED
      BY <1>4, <1>6, <2>1 DEF SizesBelow
  <1>11. ASSUME NEW h, Loose(x, h)
         PROVE  Mended(x, h, m)
    <2>1. PICK g \in Int :
            /\ Loose(a.right, g) /\ HasRed(a.right)
            /\ \A e \in Node :
                 e.left = a.left /\ e.red = a.red
                 /\ Shape(e.right, g + Mark(a.right)) /\ (rb_is_red(e.right) => a.right.red)
                 => Mended(x, h, fix_up(e))
      BY <1>3, <1>11 DEF RightReady
    <2>2. Mended(a.right, g, r.n)
      BY <1>2, <2>1 DEF RemoveOK
    <2>3. Shape(r.n, g + Mark(a.right)) /\ (rb_is_red(r.n) => a.right.red)
      BY <2>1, <2>2 DEF Mended
    <2> QED
      BY <1>7, <2>1, <2>3
  <1>12. Held(a) = Held(x)
    BY <1>1 DEF Rearranged
  <1> HIDE DEF q, m
  <1> QED
    BY <1>4, <1>5, <1>6, <1>8, <1>9, <1>10, <1>11, <1>12 DEF RemoveOK, q, a

(* Where the successor takes the place of the pair.                        *)
LEMMA RemoveReplaces ==
  ASSUME NEW k \in Int, NEW x \in Removable, Leaned(x).right # Null, ~(k < x.key),
         k = Rightward(Leaned(x)).key, Rightward(Leaned(x)).right \in MinDomain
  PROVE  RemoveOK(x, k, ReplaceBySuccessor(Rightward(Leaned(x))))
  <1> DEFINE b == Rightward(Leaned(x))
             q == ReplaceBySuccessor(b)
             r == _rb_remove_min(b.right)
             p == <<b.key, b.data>>
  <1>1. x \in Node /\ Search(x) /\ b \in Node /\ Rearranged(x, b) /\ Search(b)
    BY RightDescends
  <1>2. ASSUME NEW h, Loose(x, h)
        PROVE  RightReady(x, h, b)
    BY <1>1, <1>2, MovesRight
  <1>3. k = b.key /\ b.right \in MinDomain
    OBVIOUS
  <1> HIDE DEF b
  <1>4. /\ q \in Results /\ Held(q.n) = Held(b) \ {p} /\ p \in Held(b)
        /\ FreesFor(Held(b), p, TRUE, q.freed)
        /\ Search(q.n) /\ (SizesBelow(b) => Sizes(q.n))
        /\ MinOK(b.right, r)
        /\ \E n \in Node : /\ n.left = b.left /\ n.right = r.n /\ n.red = b.red
                           /\ q.n = fix_up(n)
    BY <1>1, <1>3, SuccessorDoes
  <1>5. p[1] = k
    BY <1>3
  <1> HIDE DEF q, r, p
  <1>6. Sizes(x) => Sizes(q.n)
    BY <1>1, <1>4, SizesOf DEF Rearranged, SizesBelow
  <1>7. ASSUME NEW h, Loose(x, h)
        PROVE  Mended(x, h, q.n)
    <2>1. PICK g \in Int :
            /\ Loose(b.right, g) /\ HasRed(b.right)
            /\ \A e \in Node :
                 e.left = b.left /\ e.red = b.red
                 /\ Shape(e.right, g + Mark(b.right)) /\ (rb_is_red(e.right) => b.right.red)
                 => Mended(x, h, fix_up(e))
      BY <1>2, <1>7 DEF RightReady
    <2>2. Mended(b.right, g, r.n)
      BY <1>4, <2>1 DEF MinOK
    <2>3. Shape(r.n, g + Mark(b.right)) /\ (rb_is_red(r.n) => b.right.red)
      BY <2>1, <2>2 DEF Mended
    <2>4. PICK n \in Node : /\ n.left = b.left /\ n.right = r.n /\ n.red = b.red
                            /\ q.n = fix_up(n)
      BY <1>4
    <2> QED
      BY <2>1, <2>3, <2>4
  <1>8. Held(b) = Held(x)
    BY <1>1 DEF Rearranged
  <1>9. k \in InnerKeys(x)
    <2>1. b.right # Null
      BY <1>3, MinDescends, TreeNodes
    <2>2. k \in InnerKeys(b)
      BY <1>1, <1>3, <2>1, InnerKeysOf
    <2> QED
      BY <2>2, InnerRightward DEF b
  <1>10. FreesFor(Held(x), p, k \in InnerKeys(x), q.freed)
    BY <1>4, <1>8, <1>9 DEF FreesFor
  <1> QED
    BY <1>4, <1>5, <1>6, <1>7, <1>8, <1>10 DEF RemoveOK, q, b

(* Removal of a key, for every tree in the domain.                         *)
LEMMA RemoveDoes ==
  ASSUME NEW k \in Int, NEW n \in RemoveDomain(k)
  PROVE  RemoveOK(n, k, _rb_remove(n, k))
  <1>1. PICK f : /\ \A x \in RemoveDomain(k) : f[x] = RemoveAt(f, x, k)
                 /\ \A y : _rb_remove(y, k) = f[y]
    BY RemoveIs
  <1> DEFINE D == RemoveDomain(k)
             m == [x \in D |-> Weight[x]]
             S == {x \in D : RemoveOK(x, k, f[x])}
  <1>2. ASSUME NEW x \in D, \A y \in D : m[y] < m[x] => y \in S
        PROVE  x \in S
    <2>1. f[x] = RemoveAt(f, x, k) /\ x \in Removable
      BY <1>1, RemoveDescends
    <2>2. CASE k < x.key
      <3>1. /\ x \in MinDomain /\ x.left # Null
            /\ Leftward(x).left \in D /\ Weight[Leftward(x).left] < Weight[x]
        BY <2>2, RemoveDescends
      <3>2. f[x] = OnLeft(Leftward(x), f[Leftward(x).left])
        BY <2>1, <2>2, RemoveAtIs
      <3>3. RemoveOK(Leftward(x).left, k, f[Leftward(x).left])
        BY <1>2, <3>1
      <3> QED
        BY <2>2, <3>1, <3>2, <3>3, RemoveOnLeft
    <2>3. CASE ~(k < x.key) /\ k = Leaned(x).key /\ Leaned(x).right = Null
      <3>1. f[x] = Result(Null, free_key_and_data(Leaned(x)))
        BY <2>1, <2>3, RemoveAtIs
      <3> QED
        BY <2>3, <3>1, RemoveHere
    <2>4. CASE ~(k < x.key) /\ Leaned(x).right # Null /\ k = Rightward(Leaned(x)).key
      <3>1. f[x] = ReplaceBySuccessor(Rightward(Leaned(x)))
        BY <2>1, <2>4, RemoveAtIs
      <3>2. Rightward(Leaned(x)).right \in MinDomain
        BY <2>4, RemoveDescends
      <3> QED
        BY <2>1, <2>4, <3>1, <3>2, RemoveReplaces
    <2>5. CASE ~(k < x.key) /\ Leaned(x).right # Null /\ k # Rightward(Leaned(x)).key
      <3>1. /\ Rightward(Leaned(x)).right \in D
            /\ Weight[Rightward(Leaned(x)).right] < Weight[x]
        BY <2>5, RemoveDescends
      <3>2. f[x] = OnRight(Rightward(Leaned(x)), f[Rightward(Leaned(x)).right])
        BY <2>1, <2>5, RemoveAtIs
      <3>3. RemoveOK(Rightward(Leaned(x)).right, k, f[Rightward(Leaned(x)).right])
        BY <1>2, <3>1
      <3> QED
        BY <2>1, <2>5, <3>2, <3>3, RemoveOnRight
    <2> QED
      BY <2>2, <2>3, <2>4, <2>5, RemoveDescends
  <1>3. m \in [D -> Nat]
    BY RemoveDescends
  <1>4. Hereditary(D, m, S)
    <2> HIDE DEF m, S, D
    <2> QED
      BY <1>2 DEF Hereditary
  <1>5. S = D
    <2>1. S \in SUBSET D
      OBVIOUS
    <2> HIDE DEF m, S, D
    <2> QED
      BY <1>3, <1>4, <2>1, Descent
  <1> QED
    BY <1>1, <1>5

-----------------------------------------------------------------------------
(* THE ROOT                                                                *)

(* The tree between two operations.                                        *)
Settled(n) ==
  /\ n \in Tree /\ Search(n) /\ Sizes(n)
  /\ ~rb_is_red(n) /\ \E h \in Int : Shape(n, h)

(* What an operation may leave to be colored at the root.                  *)
Settling(n) ==
  /\ n \in Tree /\ Search(n) /\ Sizes(n)
  /\ \/ n = Null
     \/ ~rb_is_red(n.right) /\ \E g : Even(n, g)

(* The black root makes a red-black tree of what the operation left.       *)
LEMMA BlackRoot ==
  ASSUME NEW n, Settling(n)
  PROVE  Settled(Blackened(n)) /\ Held(Blackened(n)) = Held(n)
  <1>1. CASE n = Null
    <2>1. Blackened(n) = Null /\ ~rb_is_red(Null) /\ Null \in Tree
      BY <1>1, TreeNodes DEF Blackened, rb_is_red
    <2>2. Shape(Null, 0) /\ Search(Null) /\ Sizes(Null)
      BY NullHolds
    <2> QED
      BY <1>1, <2>1, <2>2 DEF Settled
  <1>2. CASE n # Null
    <2> DEFINE m == Blackened(n)
    <2>1. n \in Node /\ Search(n) /\ Sizes(n) /\ ~rb_is_red(n.right)
      BY <1>2, TreeNodes DEF Settling
    <2>2. PICK g : Even(n, g)
      BY <1>2 DEF Settling
    <2>3. /\ m \in Node /\ m.key = n.key /\ m.data = n.data /\ m.size = n.size
          /\ m.left = n.left /\ m.right = n.right /\ m.red = FALSE
      BY <1>2, <2>1 DEF Blackened, Node
    <2>4. m \in Tree
      BY <2>3, TreeNodes
    <2> HIDE DEF m
    <2>5. Held(m) = Held(n)
      BY <2>1, <2>3, HeldOf
    <2>6. Search(m)
      BY <2>1, <2>3, SearchOf
    <2>7. Sizes(m)
      BY <2>1, <2>3, SizesOf
    <2>8. Even(m, g)
      BY <2>2, <2>3 DEF Even
    <2>9. Shape(m, g + Mark(m)) /\ g + Mark(m) \in Int
      BY <2>1, <2>3, <2>8, ShapeJoins DEF Mark, Even
    <2>10. ~rb_is_red(m)
      BY <2>3 DEF rb_is_red
    <2> QED
      BY <2>4, <2>5, <2>6, <2>7, <2>9, <2>10 DEF Settled, m
  <1> QED
    BY <1>1, <1>2

(* Such a tree is one every operation may be called for.                   *)
LEMMA Serves ==
  ASSUME NEW n, Settled(n)
  PROVE  /\ n \in Tree /\ n \in Trees
         /\ n # Null => /\ n \in Node /\ n \in Removable /\ n \in MinDomain
                        /\ \E h : Loose(n, h)
                        /\ \A k \in HeldKeys(n) : k \in Int /\ n \in RemoveDomain(k)
  <1>1. n \in Tree /\ Search(n) /\ n \in Trees
    BY SearchTrees DEF Settled
  <1>2. ASSUME n # Null
        PROVE  /\ n \in Node /\ n \in Removable /\ n \in MinDomain
               /\ \E h : Loose(n, h)
               /\ \A k \in HeldKeys(n) : k \in Int /\ n \in RemoveDomain(k)
    <2>1. n \in Node
      BY <1>1, <1>2, TreeNodes
    <2>2. PICK h \in Int : Shape(n, h)
      BY DEF Settled
    <2>3. /\ Even(n, h - Mark(n)) /\ ~rb_is_red(n.right)
      BY <2>1, <2>2, ShapeSplits
    <2>4. Loose(n, h - Mark(n))
      BY <2>3 DEF Loose, Settled
    <2>5. n \in Removable /\ n \in MinDomain
      BY <1>1, <2>1, <2>3, <2>4, IsRemovable DEF MinDomain
    <2>6. ASSUME NEW k \in HeldKeys(n)
          PROVE  k \in Int /\ n \in RemoveDomain(k)
      <3>1. k \in Int
        BY <1>1, HeldTypes
      <3> QED
        BY <2>3, <2>5, <3>1, InDomain
    <2> QED
      BY <2>1, <2>4, <2>5, <2>6
  <1> QED
    BY <1>1, <1>2

(* What each operation on a subtree does to such a tree.                   *)
LEMMA InsertSettles ==
  ASSUME NEW n, Settled(n), NEW k \in Keys, NEW d \in Data
  PROVE  LET r == _rb_insert(n, k, d)
         IN  /\ Settling(r.n) /\ r.freed \in SUBSET Freeable
             /\ Held(r.n) = Apart(Held(n), k) \cup {<<k, d>>}
             /\ r.freed = IF owned THEN DataObjects(Replaced(Held(n), k)) ELSE {}
  <1> DEFINE r == _rb_insert(n, k, d)
  <1>1. InsertOK(n, k, d, r)
    BY Serves, InsertDoes
  <1> HIDE DEF r
  <1>2. PICK h \in Int : Shape(n, h)
    BY DEF Settled
  <1>3. Search(n) /\ Sizes(n)
    BY DEF Settled
  <1>4. r \in Results /\ r.n \in Node /\ InsertHolds(n, k, d, r) /\ InsertColors(n, h, r.n)
    BY <1>1, <1>2 DEF InsertOK
  <1>5. r.n \in Tree /\ r.freed \in SUBSET Freeable
    BY <1>4 DEF Results
  <1>6. ~rb_is_red(r.n.right) /\ \E g : Even(r.n, g)
    BY <1>4 DEF InsertColors
  <1> QED
    BY <1>3, <1>4, <1>5, <1>6 DEF InsertHolds, Settling, r

LEMMA RemoveSettles ==
  ASSUME NEW n, Settled(n), n # Null, NEW k \in HeldKeys(n)
  PROVE  LET r == _rb_remove(n, k)
         IN  /\ Settling(r.n) /\ r.freed \in SUBSET Freeable
             /\ \E p \in Held(n) : /\ p[1] = k /\ Held(r.n) = Held(n) \ {p}
                                   /\ FreesFor(Held(n), p, k \in InnerKeys(n), r.freed)
  <1> DEFINE r == _rb_remove(n, k)
  <1>1. RemoveOK(n, k, r)
    BY Serves, RemoveDoes
  <1>2. PICK h : Loose(n, h)
    BY Serves
  <1> HIDE DEF r
  <1>3. Mended(n, h, r.n) /\ Sizes(n) /\ r \in Results
    BY <1>1, <1>2 DEF RemoveOK, Settled
  <1>4. r.n \in Tree /\ r.freed \in SUBSET Freeable
    BY <1>3 DEF Results
  <1> QED
    BY <1>1, <1>3, <1>4 DEF RemoveOK, Mended, Settling, r

LEMMA RemoveMinSettles ==
  ASSUME NEW n, Settled(n), n # Null
  PROVE  LET r == _rb_remove_min(n)
         IN  /\ Settling(r.n) /\ r.freed \in SUBSET Freeable
             /\ \E p \in Held(n) : /\ \A q \in Held(n) : p[1] <= q[1]
                                   /\ Held(r.n) = Held(n) \ {p}
                                   /\ r.freed = IF owned THEN PairObjects(p) ELSE {}
  <1> DEFINE r == _rb_remove_min(n)
  <1>1. MinOK(n, r)
    BY Serves, RemoveMinDoes
  <1>2. PICK h : Loose(n, h)
    BY Serves
  <1> HIDE DEF r
  <1>3. Mended(n, h, r.n) /\ Sizes(n) /\ r \in Results
    BY <1>1, <1>2 DEF MinOK, Settled
  <1>4. r.n \in Tree /\ r.freed \in SUBSET Freeable
    BY <1>3 DEF Results
  <1> QED
    BY <1>1, <1>3, <1>4 DEF MinOK, Mended, Settling, r

LEMMA RemoveMaxSettles ==
  ASSUME NEW n, Settled(n), n # Null
  PROVE  LET r == _rb_remove_max(n)
         IN  /\ Settling(r.n) /\ r.freed \in SUBSET Freeable
             /\ \E p \in Held(n) : /\ \A q \in Held(n) : q[1] <= p[1]
                                   /\ Held(r.n) = Held(n) \ {p}
                                   /\ r.freed = IF owned THEN PairObjects(p) ELSE {}
  <1> DEFINE r == _rb_remove_max(n)
  <1>1. MaxOK(n, r)
    BY Serves, RemoveMaxDoes
  <1>2. PICK h : Loose(n, h)
    BY Serves
  <1> HIDE DEF r
  <1>3. Mended(n, h, r.n) /\ Sizes(n) /\ r \in Results
    BY <1>1, <1>2 DEF MaxOK, Settled
  <1>4. r.n \in Tree /\ r.freed \in SUBSET Freeable
    BY <1>3 DEF Results
  <1> QED
    BY <1>1, <1>3, <1>4 DEF MaxOK, Mended, Settling, r

-----------------------------------------------------------------------------
(* THE STATE MACHINE                                                       *)

TreeInv ==
  /\ owned \in BOOLEAN /\ clearing \in BOOLEAN /\ freed \in SUBSET Freeable
  /\ Settled(root)

LEMMA BecomesSettled ==
  ASSUME NEW r, Settling(r.n), r.freed \in SUBSET Freeable, Becomes(r)
  PROVE  /\ Settled(root') /\ Held(root') = Held(r.n)
         /\ freed' = r.freed /\ freed' \in SUBSET Freeable
  BY BlackRoot DEF Becomes

(* rb_contain tells the keys of the tree.                                  *)
LEMMA Contains ==
  ASSUME NEW n, Settled(n), NEW k \in Int
  PROVE  rb_contain(n, k) <=> k \in HeldKeys(n)
  <1>1. n \in Tree /\ n \in Trees /\ Search(n)
    BY Serves DEF Settled
  <1>2. IF k \in HeldKeys(n) THEN rb_find(n, k) \in Under[n] ELSE rb_find(n, k) = Null
    BY <1>1, Finds
  <1>3. Null \notin Under[n]
    BY <1>1, UnderNodes, TreeNodes
  <1> QED
    BY <1>2, <1>3 DEF rb_contain

(* What each operation does to the pairs in the tree, and what it frees.   *)
Inserted(S, T, k, d, f) ==
  /\ T = Apart(S, k) \cup {<<k, d>>}
  /\ f = IF owned THEN DataObjects(Replaced(S, k)) ELSE {}

Removed(S, T, k, both, f) ==
  \E p \in S : p[1] = k /\ T = S \ {p} /\ FreesFor(S, p, both, f)

LeastRemoved(S, T, f) ==
  \E p \in S : /\ \A q \in S : p[1] <= q[1]
               /\ T = S \ {p} /\ f = IF owned THEN PairObjects(p) ELSE {}

GreatestRemoved(S, T, f) ==
  \E p \in S : /\ \A q \in S : q[1] <= p[1]
               /\ T = S \ {p} /\ f = IF owned THEN PairObjects(p) ELSE {}

(* The operations of the tree, by what they do to the pairs.               *)
LEMMA InsertStep ==
  ASSUME TreeInv, NEW k \in Keys, NEW d \in Data, rb_insert(k, d)
  PROVE  /\ Settled(root') /\ freed' \in SUBSET Freeable
         /\ Inserted(Held(root), Held(root'), k, d, freed')
  <1> DEFINE r == _rb_insert(root, k, d)
  <1>1. /\ Settling(r.n) /\ r.freed \in SUBSET Freeable
        /\ Inserted(Held(root), Held(r.n), k, d, r.freed)
    BY InsertSettles DEF TreeInv, Inserted
  <1>2. Becomes(r)
    BY DEF rb_insert
  <1> HIDE DEF r
  <1>3. Settled(root') /\ Held(root') = Held(r.n) /\ freed' = r.freed
    BY <1>1, <1>2, BecomesSettled
  <1> QED
    BY <1>1, <1>3

LEMMA RemoveStep ==
  ASSUME TreeInv, NEW k \in Keys, rb_remove(k)
  PROVE  /\ Settled(root') /\ freed' \in SUBSET Freeable
         /\ \/ k \notin HeldKeys(root) /\ Held(root') = Held(root) /\ freed' = {}
            \/ Removed(Held(root), Held(root'), k, k \in InnerKeys(root), freed')
  <1> DEFINE r == _rb_remove(root, k)
  <1>1. Settled(root) /\ k \in Int
    BY TreeAssumption DEF TreeInv
  <1>2. CASE k \in HeldKeys(root)
    <2>1. root # Null
      BY <1>2, NullHolds DEF HeldKeys
    <2>2. /\ Settling(r.n) /\ r.freed \in SUBSET Freeable
          /\ Removed(Held(root), Held(r.n), k, k \in InnerKeys(root), r.freed)
      BY <1>1, <1>2, <2>1, RemoveSettles DEF Removed
    <2>3. Becomes(r)
      BY <1>1, <1>2, Contains DEF rb_remove
    <2> HIDE DEF r
    <2>4. Settled(root') /\ Held(root') = Held(r.n) /\ freed' = r.freed
      BY <2>2, <2>3, BecomesSettled
    <2> QED
      BY <2>2, <2>4
  <1>3. CASE k \notin HeldKeys(root)
    <2> DEFINE u == Result(root, {})
    <2>1. u.n = root /\ u.freed = {}
      BY DEF Result
    <2>2. Becomes(u)
      BY <1>1, <1>3, Contains DEF rb_remove
    <2> HIDE DEF u
    <2>3. Settling(root)
      <3>1. CASE root = Null
        BY <1>1, <3>1 DEF Settling, Settled
      <3>2. CASE root # Null
        <4>1. root \in Node
          BY <1>1, <3>2, Serves
        <4>2. PICK h \in Int : Shape(root, h)
          BY <1>1 DEF Settled
        <4> QED
          BY <1>1, <4>1, <4>2, ShapeSplits DEF Settling, Settled
      <3> QED
        BY <3>1, <3>2
    <2>4. Settled(root') /\ Held(root') = Held(u.n) /\ freed' = u.freed
      BY <2>1, <2>2, <2>3, BecomesSettled
    <2> QED
      BY <1>3, <2>1, <2>4
  <1> QED
    BY <1>2, <1>3

LEMMA RemoveMinStep ==
  ASSUME TreeInv, rb_remove_min
  PROVE  /\ Settled(root') /\ freed' \in SUBSET Freeable
         /\ LeastRemoved(Held(root), Held(root'), freed')
  <1> DEFINE r == _rb_remove_min(root)
  <1>1. root # Null /\ Becomes(r) /\ Settled(root)
    BY DEF rb_remove_min, TreeInv
  <1>2. /\ Settling(r.n) /\ r.freed \in SUBSET Freeable
        /\ LeastRemoved(Held(root), Held(r.n), r.freed)
    BY <1>1, RemoveMinSettles DEF LeastRemoved
  <1> HIDE DEF r
  <1>3. Settled(root') /\ Held(root') = Held(r.n) /\ freed' = r.freed
    BY <1>1, <1>2, BecomesSettled
  <1> QED
    BY <1>2, <1>3

LEMMA RemoveMaxStep ==
  ASSUME TreeInv, rb_remove_max
  PROVE  /\ Settled(root') /\ freed' \in SUBSET Freeable
         /\ GreatestRemoved(Held(root), Held(root'), freed')
  <1> DEFINE r == _rb_remove_max(root)
  <1>1. root # Null /\ Becomes(r) /\ Settled(root)
    BY DEF rb_remove_max, TreeInv
  <1>2. /\ Settling(r.n) /\ r.freed \in SUBSET Freeable
        /\ GreatestRemoved(Held(root), Held(r.n), r.freed)
    BY <1>1, RemoveMaxSettles DEF GreatestRemoved
  <1> HIDE DEF r
  <1>3. Settled(root') /\ Held(root') = Held(r.n) /\ freed' = r.freed
    BY <1>1, <1>2, BecomesSettled
  <1> QED
    BY <1>2, <1>3

LEMMA RemoveTreeStep ==
  ASSUME TreeInv, rb_remove_tree
  PROVE  /\ Settled(root') /\ freed' \in SUBSET Freeable /\ clearing' \in BOOLEAN
         /\ \E k \in HeldKeys(root) :
               /\ k = root.key
               /\ Removed(Held(root), Held(root'), k, k \in InnerKeys(root), freed')
  <1> DEFINE k == root.key
             r == _rb_remove(root, k)
  <1>1. root # Null /\ Becomes(r) /\ Settled(root) /\ clearing' \in BOOLEAN
    BY DEF rb_remove_tree, TreeInv
  <1>2. k \in HeldKeys(root) /\ k = root.key
    BY <1>1, Serves, HeldKeysOf
  <1> HIDE DEF k
  <1>3. /\ Settling(r.n) /\ r.freed \in SUBSET Freeable
        /\ Removed(Held(root), Held(r.n), k, k \in InnerKeys(root), r.freed)
    BY <1>1, <1>2, RemoveSettles DEF Removed
  <1> HIDE DEF r
  <1>4. Settled(root') /\ Held(root') = Held(r.n) /\ freed' = r.freed
    BY <1>1, <1>3, BecomesSettled
  <1> QED
    BY <1>1, <1>2, <1>3, <1>4

LEMMA PairsAre ==
  ASSUME NEW p \in Pairs
  PROVE  p[1] \in Keys /\ p[2] \in Data
  BY DEF Keys, Data

(* The invariant holds of a new tree, and every operation keeps it.        *)
LEMMA TreeInvInit ==
  ASSUME TreeInit
  PROVE  TreeInv
  <1>1. Settled(Null)
    BY NullHolds, TreeNodes DEF Settled, rb_is_red
  <1> QED
    BY <1>1 DEF TreeInit, TreeInv

LEMMA TreeInvNext ==
  ASSUME TreeInv, [TreeNext]_treeVars
  PROVE  TreeInv'
  <1>1. ASSUME NEW p \in Pairs, rb_insert(p[1], p[2])
        PROVE  TreeInv'
    <2>1. Settled(root') /\ freed' \in SUBSET Freeable
      BY <1>1, PairsAre, InsertStep
    <2> QED
      BY <1>1, <2>1 DEF rb_insert, TreeInv
  <1>2. ASSUME NEW k \in Keys, rb_remove(k)
        PROVE  TreeInv'
    <2>1. Settled(root') /\ freed' \in SUBSET Freeable
      BY <1>2, RemoveStep
    <2> QED
      BY <1>2, <2>1 DEF rb_remove, TreeInv
  <1>3. CASE rb_remove_min
    <2>1. Settled(root') /\ freed' \in SUBSET Freeable
      BY <1>3, RemoveMinStep
    <2> QED
      BY <1>3, <2>1 DEF rb_remove_min, TreeInv
  <1>4. CASE rb_remove_max
    <2>1. Settled(root') /\ freed' \in SUBSET Freeable
      BY <1>4, RemoveMaxStep
    <2> QED
      BY <1>4, <2>1 DEF rb_remove_max, TreeInv
  <1>5. CASE rb_remove_tree
    <2>1. Settled(root') /\ freed' \in SUBSET Freeable /\ clearing' \in BOOLEAN
      BY <1>5, RemoveTreeStep
    <2> QED
      BY <1>5, <2>1 DEF rb_remove_tree, TreeInv
  <1>6. CASE UNCHANGED treeVars
    BY <1>6 DEF treeVars, TreeInv
  <1> QED
    BY <1>1, <1>2, <1>3, <1>4, <1>5, <1>6 DEF TreeNext

(* The inductive invariant: between operations the tree is a search tree   *)
(* with the right sizes, red-black, and with a root that is not red.       *)
THEOREM TreeStaysSettled == TreeSpec => []TreeInv
  <1>1. TreeInit => TreeInv
    BY TreeInvInit
  <1>2. TreeInv /\ [TreeNext]_treeVars => TreeInv'
    BY TreeInvNext
  <1> QED
    BY <1>1, <1>2, PTL DEF TreeSpec

(* A node below a node of the tree is a node of the tree.                  *)
LEMMA UnderUnder ==
  \A n \in Tree : \A x \in Under[n] : Under[x] \subseteq Under[n]
  <1> DEFINE S == {n \in Tree : \A x \in Under[n] : Under[x] \subseteq Under[n]}
  <1>1. Null \in S
    BY UnderOf, TreeNodes
  <1>2. ASSUME NEW n \in Node, n.left \in S, n.right \in S
        PROVE  n \in S
    <2>1. n \in Tree /\ n # Null
      BY TreeNodes
    <2>2. Under[n] = {n} \cup Under[n.left] \cup Under[n.right]
      BY <2>1, UnderOf
    <2> QED
      BY <1>2, <2>1, <2>2
  <1>3. S = Tree
    <2> HIDE DEF S
    <2>1. S \in SUBSET Tree
      BY DEF S
    <2> QED
      BY <1>1, <1>2, <2>1, TreeInduction
  <1> QED
    BY <1>3

(* What the invariant says of the properties the runs check.               *)
LEMMA InvTypeOK ==
  ASSUME TreeInv
  PROVE  TreeTypeOK
  <1>1. root \in Tree /\ root \in Trees /\ Search(root) /\ Sizes(root)
    BY Serves DEF TreeInv, Settled
  <1>2. NodesOf(root) = Under[root]
    BY <1>1, NodesAreUnder
  <1>3. ASSUME NEW x \in Under[root]
        PROVE  /\ x.key \in Keys /\ x.data \in Data /\ x.red \in BOOLEAN
               /\ x.size = Cardinality(NodesOf(x))
    <2>1. x \in Node /\ x \in Trees /\ x \in Tree
      BY <1>1, UnderNodes, UnderTrees, TreeNodes
    <2>2. Search(x)
      BY <1>1, UnderUnder DEF Search
    <2>3. Cardinality(NodesOf(x)) = Weight[x]
      BY <2>1, <2>2, NodesAreUnder, WeightCounts
    <2>4. x.size = Weight[x]
      BY <1>1 DEF Sizes
    <2> QED
      BY <2>1, <2>3, <2>4 DEF Node
  <1> QED
    BY <1>2, <1>3 DEF TreeInv, TreeTypeOK, Freeable

LEMMA InvBalanced ==
  ASSUME TreeInv
  PROVE  Balanced
  <1>1. Settled(root) /\ root \in Trees /\ root \in Tree
    BY Serves DEF TreeInv
  <1>2. Shape(root, Black[root])
    BY <1>1 DEF Settled, Shape
  <1> QED
    BY <1>1, <1>2, TreesAgree DEF Balanced, Settled

(* The node of a key.                                                      *)
LEMMA NodeOfIs ==
  ASSUME Settled(root), NEW k \in HeldKeys(root)
  PROVE  /\ NodeOf(k) \in Under[root] /\ NodeOf(k).key = k
         /\ <<k, NodeOf(k).data>> \in Held(root)
         /\ \A x \in Under[root] : x.key = k => x = NodeOf(k)
  <1>1. root \in Tree /\ root \in Trees /\ Search(root)
    BY Serves DEF Settled
  <1>2. NodesOf(root) = Under[root]
    BY <1>1, NodesAreUnder
  <1>3. PICK p \in Held(root) : p[1] = k
    BY DEF HeldKeys
  <1>4. PICK x \in Under[root] : p = <<x.key, x.data>>
    BY DEF Held
  <1>5. x.key = k
    BY <1>3, <1>4
  <1>6. NodeOf(k) \in Under[root] /\ NodeOf(k).key = k
    BY <1>2, <1>5, Zenon DEF NodeOf
  <1>7. <<k, NodeOf(k).data>> \in Held(root)
    BY <1>6 DEF Held
  <1>8. \A y \in Under[root] : y.key = k => y = NodeOf(k)
    BY <1>1, <1>6, OneNode
  <1> QED
    BY <1>6, <1>7, <1>8

LEMMA InvSearchFinds ==
  ASSUME TreeInv
  PROVE  SearchFinds
  <1>1. Settled(root) /\ root \in Tree /\ root \in Trees /\ Search(root)
    BY Serves DEF TreeInv, Settled
  <1>2. KeysOf(root) = HeldKeys(root)
    BY <1>1, TreesAgree
  <1>3. ASSUME NEW k \in Keys
        PROVE  rb_find(root, k) = IF k \in KeysOf(root) THEN NodeOf(k) ELSE Null
    <2>1. k \in Int
      BY TreeAssumption
    <2>2. IF k \in HeldKeys(root)
            THEN rb_find(root, k) \in Under[root] /\ rb_find(root, k).key = k
            ELSE rb_find(root, k) = Null
      BY <1>1, <2>1, Finds
    <2> QED
      BY <1>1, <1>2, <2>2, NodeOfIs
  <1>4. ASSUME root # Null, NEW k \in KeysOf(root)
        PROVE  rb_min_n(root).key <= k /\ k <= rb_max_n(root).key
    BY <1>1, <1>2, <1>4, MinIsLeast, MaxIsGreatest
  <1> QED
    BY <1>3, <1>4 DEF SearchFinds

(* TreeTypeOK for any finite set of pairs: the fields of every node have   *)
(* their types, and the size a node keeps is the number of nodes under it. *)
THEOREM TreeIsTyped == TreeSpec => []TreeTypeOK
  <1>1. TreeInv => TreeTypeOK
    BY InvTypeOK
  <1> QED
    BY <1>1, TreeStaysSettled, PTL

(* Balanced for any finite set of pairs: after every operation each way    *)
(* down has as many black nodes as every other, no red node has a red      *)
(* child, and red links lean left.                                         *)
THEOREM TreeIsBalanced == TreeSpec => []Balanced
  <1>1. TreeInv => Balanced
    BY InvBalanced
  <1> QED
    BY <1>1, TreeStaysSettled, PTL

(* SearchFinds for any finite set of pairs: rb_contain, rb_find and the    *)
(* ends of the tree find the nodes that are there.                         *)
THEOREM SearchesFind == TreeSpec => []SearchFinds
  <1>1. TreeInv => SearchFinds
    BY InvSearchFinds
  <1> QED
    BY <1>1, TreeStaysSettled, PTL

-----------------------------------------------------------------------------
(* WHAT IS FREED                                                           *)

(* The objects of a set of pairs.                                          *)
ObjectsOf(S) == UNION {PairObjects(p) : p \in S}

(* The objects of a tree are those of its pairs.                           *)
LEMMA ObjectsHeld ==
  ASSUME NEW n, Settled(n)
  PROVE  Objects(n) = ObjectsOf(Held(n))
  <1>1. NodesOf(n) = Under[n]
    BY Serves, NodesAreUnder
  <1>2. \A x \in Under[n] : {KeyObject(x), DataObject(x)} = PairObjects(<<x.key, x.data>>)
    BY DEF KeyObject, DataObject, PairObjects
  <1>3. Objects(n) = UNION {PairObjects(<<x.key, x.data>>) : x \in Under[n]}
    BY <1>1, <1>2 DEF Objects
  <1> QED
    BY <1>3 DEF ObjectsOf, Held

LEMMA ObjectsApart ==
  ASSUME NEW p, NEW q
  PROVE  /\ \A k : <<"key", k>> \in PairObjects(p) <=> k = p[1]
         /\ \A k, d : <<"data", k, d>> \in PairObjects(p) <=> k = p[1] /\ d = p[2]
         /\ p[1] # q[1] => PairObjects(p) \cap PairObjects(q) = {}
  <1>1. \A k, j, e : <<"key", k>> # <<"data", j, e>>
    <2>1. ASSUME NEW k, NEW j, NEW e, <<"key", k>> = <<"data", j, e>>
          PROVE  FALSE
      <3>1. <<"key", k>>[1] = <<"data", j, e>>[1]
        BY <2>1
      <3>2. "key" = "data"
        BY <3>1
      <3> QED
        BY <3>2
    <2> QED
      BY <2>1
  <1>2. \A k : <<"key", k>> \in PairObjects(p) <=> k = p[1]
    BY <1>1 DEF PairObjects
  <1>3. \A k, d : <<"data", k, d>> \in PairObjects(p) <=> k = p[1] /\ d = p[2]
    BY <1>1 DEF PairObjects
  <1>4. p[1] # q[1] => PairObjects(p) \cap PairObjects(q) = {}
    BY <1>1 DEF PairObjects
  <1> QED
    BY <1>2, <1>3, <1>4

LEMMA PairObjectsInside ==
  ASSUME NEW S, NEW p \in S
  PROVE  PairObjects(p) \subseteq ObjectsOf(S)
  BY DEF ObjectsOf

(* Taking a pair away takes its objects away.                              *)
LEMMA ObjectsWithout ==
  ASSUME NEW S, NEW p \in S, \A q \in S : q[1] = p[1] => q = p
  PROVE  ObjectsOf(S) \ ObjectsOf(S \ {p}) = PairObjects(p)
  <1>1. \A q \in S \ {p} : PairObjects(q) \cap PairObjects(p) = {}
    BY ObjectsApart
  <1>2. ObjectsOf(S) = PairObjects(p) \cup ObjectsOf(S \ {p})
    BY DEF ObjectsOf
  <1>3. ObjectsOf(S \ {p}) \cap PairObjects(p) = {}
    BY <1>1 DEF ObjectsOf
  <1> QED
    BY <1>2, <1>3

(* An insertion drops the data that were replaced, if they are other data. *)
LEMMA ObjectsInserted ==
  ASSUME NEW S, NEW k, NEW d, <<"data", k, d>> \notin ObjectsOf(S)
  PROVE  ObjectsOf(S) \ ObjectsOf(Apart(S, k) \cup {<<k, d>>}) = DataObjects(Replaced(S, k))
  <1> DEFINE T == Apart(S, k) \cup {<<k, d>>}
  <1>1. <<k, d>>[1] = k /\ <<k, d>>[2] = d
    OBVIOUS
  <1>2. T \subseteq S \cup {<<k, d>>}
    BY DEF Apart
  <1>3. ASSUME NEW o \in ObjectsOf(S), o \notin ObjectsOf(T)
        PROVE  o \in DataObjects(Replaced(S, k))
    <2>1. PICK p \in S : o \in PairObjects(p)
      BY DEF ObjectsOf
    <2>2. p[1] = k
      <3>1. CASE p[1] # k
        <4>1. p \in T
          BY <3>1 DEF Apart
        <4> QED
          BY <1>3, <2>1, <4>1, PairObjectsInside
      <3> QED
        BY <3>1
    <2>3. <<"key", k>> \in ObjectsOf(T)
      <3>1. <<"key", k>> \in PairObjects(<<k, d>>)
        BY <1>1, ObjectsApart
      <3>2. <<k, d>> \in T
        OBVIOUS
      <3> HIDE DEF T
      <3> QED
        BY <3>1, <3>2, PairObjectsInside
    <2>4. o = <<"data", p[1], p[2]>>
      BY <1>3, <2>1, <2>2, <2>3 DEF PairObjects
    <2> QED
      BY <2>2, <2>4 DEF DataObjects, Replaced
  <1>4. ASSUME NEW o \in DataObjects(Replaced(S, k))
        PROVE  o \in ObjectsOf(S) /\ o \notin ObjectsOf(T)
    <2>1. PICK p \in S : p[1] = k /\ o = <<"data", p[1], p[2]>>
      BY DEF DataObjects, Replaced
    <2>2. o \in ObjectsOf(S)
      <3>1. o \in PairObjects(p)
        BY <2>1, ObjectsApart
      <3> QED
        BY <3>1, PairObjectsInside
    <2>3. ASSUME NEW q \in T, o \in PairObjects(q)
          PROVE  FALSE
      <3>1. q[1] = p[1] /\ q[2] = p[2]
        BY <2>1, <2>3, ObjectsApart
      <3>2. q = <<k, d>>
        BY <2>1, <3>1 DEF Apart
      <3>3. o = <<"data", k, d>>
        BY <2>1, <3>1, <3>2
      <3> QED
        BY <2>2, <3>3
    <2> QED
      BY <2>2, <2>3 DEF ObjectsOf
  <1> HIDE DEF T
  <1> QED
    BY <1>3, <1>4 DEF T

(* The next pair is the one the property allows to be freed too.           *)
LEMMA NextIsSuccessor ==
  ASSUME Settled(root), NEW p \in Held(root), NEW q, NextPair(Held(root), p, q)
  PROVE  /\ q[1] \in Successors(p[1])
         /\ PairObjects(q) = {KeyObject(NodeOf(q[1])), DataObject(NodeOf(q[1]))}
  <1>1. root \in Tree /\ root \in Trees /\ Search(root)
    BY Serves DEF Settled
  <1>2. KeysOf(root) = HeldKeys(root) /\ HeldKeys(root) \subseteq Int
    BY <1>1, TreesAgree, HeldTypes
  <1>3. /\ q \in Held(root) /\ p[1] < q[1]
        /\ \A e \in Held(root) : p[1] < e[1] => q[1] <= e[1]
    BY DEF NextPair
  <1>4. p[1] \in Int /\ q[1] \in HeldKeys(root) /\ q[1] \in Int
    BY <1>2, <1>3 DEF HeldKeys
  <1>5. q[1] \in Successors(p[1])
    <2>1. ASSUME NEW j \in HeldKeys(root), j > p[1]
          PROVE  q[1] <= j
      <3>1. PICK e \in Held(root) : j = e[1]
        BY DEF HeldKeys
      <3>2. j \in Int
        BY <1>2
      <3>3. p[1] < e[1]
        BY <1>4, <2>1, <3>1, <3>2
      <3> QED
        BY <1>3, <3>1, <3>3
    <2> QED
      BY <1>2, <1>3, <1>4, <2>1 DEF Successors
  <1>6. PICK x \in Under[root] : q = <<x.key, x.data>>
    BY <1>3 DEF Held
  <1>7. x = NodeOf(q[1])
    BY <1>4, <1>6, NodeOfIs
  <1>8. PairObjects(q) = {KeyObject(x), DataObject(x)}
    BY <1>6 DEF PairObjects, KeyObject, DataObject
  <1> QED
    BY <1>5, <1>7, <1>8

(* The calls that remove a key are told apart from the others.             *)
LEMMA CallsApart ==
  /\ \A k, d : asked' = <<"insert", k, d>> => \A j : ~Removes(j)
  /\ \A k : asked' = <<"remove", k>> => \A j : Removes(j) <=> j = k
  /\ asked' = <<"remove_min">> => \A j : ~Removes(j)
  /\ asked' = <<"remove_max">> => \A j : ~Removes(j)
  /\ asked' = <<"remove_tree">> => \A j : Removes(j) <=> j = root.key
  <1>1. ASSUME NEW k, NEW d, asked' = <<"insert", k, d>>, NEW j
        PROVE  ~Removes(j)
    <2>1. asked'[1] = "insert"
      BY <1>1
    <2> QED
      BY <2>1 DEF Removes
  <1>2. ASSUME NEW k, asked' = <<"remove", k>>, NEW j
        PROVE  Removes(j) <=> j = k
    <2>1. asked'[1] = "remove" /\ asked'[2] = k
      BY <1>2
    <2> QED
      BY <1>2, <2>1 DEF Removes
  <1>3. ASSUME NEW s \in {"remove_min", "remove_max"}, asked' = <<s>>, NEW j
        PROVE  ~Removes(j)
    <2>1. asked'[1] = s
      BY <1>3
    <2> QED
      BY <2>1 DEF Removes
  <1>4. ASSUME asked' = <<"remove_tree">>, NEW j
        PROVE  Removes(j) <=> j = root.key
    <2>1. asked'[1] = "remove_tree"
      BY <1>4
    <2> QED
      BY <1>4, <2>1 DEF Removes
  <1> QED
    BY <1>1, <1>2, <1>3, <1>4

(* The model says of a key's node what the proofs say of the key.          *)
LEMMA InnerIs ==
  ASSUME Settled(root), NEW k \in HeldKeys(root)
  PROVE  k \in InnerKeys(root) <=> NodeOf(k).right # Null
  BY NodeOfIs DEF InnerKeys

(* One pair goes, and the objects freed are its own, and also those of the *)
(* next where the property wants them to be.                               *)
LEMMA FreesForDrop ==
  ASSUME Settled(root), Settled(root'), NEW p \in Held(root),
         Held(root') = Held(root) \ {p}, NEW both \in BOOLEAN, FreesFor(Held(root), p, both, freed'),
         {k \in KeysOf(root) : Removes(k) /\ NodeOf(k).right # Null} = IF both THEN {p[1]} ELSE {}
  PROVE  DropsAndFrees
  <1>1. root \in Tree /\ Search(root)
    BY DEF Settled
  <1>2. \A q \in Held(root) : q[1] = p[1] => q = p
    BY <1>1, OnePair
  <1> DEFINE dropped == Objects(root) \ Objects(root')
             replaced == {k \in KeysOf(root) : Removes(k) /\ NodeOf(k).right # Null}
  <1>3. dropped = PairObjects(p)
    BY <1>2, ObjectsHeld, ObjectsWithout
  <1>4. replaced = IF both THEN {p[1]} ELSE {}
    OBVIOUS
  <1> HIDE DEF dropped, replaced
  <1>5. CASE ~owned
    BY <1>5 DEF FreesFor, DropsAndFrees
  <1>6. CASE owned /\ ~both
    <2>1. freed' = dropped /\ replaced = {}
      BY <1>3, <1>4, <1>6 DEF FreesFor
    <2> QED
      BY <1>6, <2>1 DEF DropsAndFrees, dropped, replaced
  <1>7. CASE owned /\ both
    <2>1. PICK q \in Held(root) : /\ NextPair(Held(root), p, q)
                                  /\ freed' = PairObjects(p) \cup PairObjects(q)
      BY <1>7 DEF FreesFor
    <2>2. /\ q[1] \in Successors(p[1])
          /\ PairObjects(q) = {KeyObject(NodeOf(q[1])), DataObject(NodeOf(q[1]))}
      BY <2>1, NextIsSuccessor
    <2>3. freed' = dropped \cup {KeyObject(NodeOf(q[1])), DataObject(NodeOf(q[1]))}
      BY <1>3, <2>1, <2>2
    <2>4. replaced = {p[1]}
      BY <1>4, <1>7
    <2>5. /\ replaced # {}
          /\ \E k \in replaced : \E y \in Successors(k) :
               freed' = dropped \cup {KeyObject(NodeOf(y)), DataObject(NodeOf(y))}
      BY <2>2, <2>3, <2>4
    <2> QED
      BY <1>7, <2>5 DEF DropsAndFrees, dropped, replaced
  <1> QED
    BY <1>5, <1>6, <1>7

(* The removal of a key that is asked for.                                 *)
LEMMA FreesForRemoved ==
  ASSUME Settled(root), Settled(root'), NEW k, \A j : Removes(j) <=> j = k,
         NEW p \in Held(root), p[1] = k, Held(root') = Held(root) \ {p},
         FreesFor(Held(root), p, k \in InnerKeys(root), freed')
  PROVE  DropsAndFrees
  <1> DEFINE both == k \in InnerKeys(root)
  <1>1. KeysOf(root) = HeldKeys(root)
    BY Serves, TreesAgree
  <1>2. k \in HeldKeys(root)
    BY DEF HeldKeys
  <1>3. both <=> NodeOf(k).right # Null
    BY <1>2, InnerIs
  <1>4. {j \in KeysOf(root) : Removes(j) /\ NodeOf(j).right # Null} = IF both THEN {p[1]} ELSE {}
    BY <1>1, <1>2, <1>3
  <1>5. both \in BOOLEAN /\ FreesFor(Held(root), p, both, freed')
    OBVIOUS
  <1> HIDE DEF both
  <1> QED
    BY <1>4, <1>5, FreesForDrop

(* Each step frees what it drops.                                          *)
LEMMA StepDropsAndFrees ==
  ASSUME TreeInv, [TreeNext]_treeVars
  PROVE  [DropsAndFrees]_treeVars
  <1>1. Settled(root)
    BY DEF TreeInv
  <1>2. ASSUME NEW e \in Pairs, rb_insert(e[1], e[2])
        PROVE  DropsAndFrees
    <2> DEFINE k == e[1]
               d == e[2]
    <2>1. Settled(root') /\ Inserted(Held(root), Held(root'), k, d, freed')
      BY <1>2, PairsAre, InsertStep
    <2>2. owned => <<"data", k, d>> \notin Objects(root)
      BY <1>2 DEF rb_insert
    <2> HIDE DEF k, d
    <2>3. CASE owned
      <3>1. Objects(root) \ Objects(root') = DataObjects(Replaced(Held(root), k))
        BY <1>1, <2>1, <2>2, <2>3, ObjectsHeld, ObjectsInserted DEF Inserted
      <3>2. \A j : ~Removes(j)
        BY <1>2, CallsApart DEF rb_insert
      <3> QED
        BY <2>1, <2>3, <3>1, <3>2 DEF Inserted, DropsAndFrees
    <2>4. CASE ~owned
      BY <2>1, <2>4 DEF Inserted, DropsAndFrees
    <2> QED
      BY <2>3, <2>4
  <1>3. ASSUME NEW k \in Keys, rb_remove(k)
        PROVE  DropsAndFrees
    <2>1. /\ Settled(root')
          /\ \/ k \notin HeldKeys(root) /\ Held(root') = Held(root) /\ freed' = {}
             \/ Removed(Held(root), Held(root'), k, k \in InnerKeys(root), freed')
      BY <1>3, RemoveStep
    <2>2. \A j : Removes(j) <=> j = k
      BY <1>3, CallsApart DEF rb_remove
    <2>3. CASE k \notin HeldKeys(root) /\ Held(root') = Held(root) /\ freed' = {}
      <3>1. Objects(root) \ Objects(root') = {}
        BY <1>1, <2>1, <2>3, ObjectsHeld
      <3>2. \A j \in KeysOf(root) : ~Removes(j)
        BY <1>1, <2>2, <2>3, Serves, TreesAgree
      <3> QED
        BY <2>3, <3>1, <3>2 DEF DropsAndFrees
    <2>4. CASE Removed(Held(root), Held(root'), k, k \in InnerKeys(root), freed')
      <3>1. PICK p \in Held(root) :
              /\ p[1] = k /\ Held(root') = Held(root) \ {p}
              /\ FreesFor(Held(root), p, k \in InnerKeys(root), freed')
        BY <2>4 DEF Removed
      <3> QED
        BY <1>1, <2>1, <2>2, <3>1, FreesForRemoved
    <2> QED
      BY <2>1, <2>3, <2>4
  <1>4. CASE rb_remove_min
    <2>1. Settled(root') /\ LeastRemoved(Held(root), Held(root'), freed')
      BY <1>4, RemoveMinStep
    <2>2. \A j : ~Removes(j)
      BY <1>4, CallsApart DEF rb_remove_min
    <2> QED
      BY <1>1, <2>1, <2>2, FreesForDrop DEF LeastRemoved, FreesFor
  <1>5. CASE rb_remove_max
    <2>1. Settled(root') /\ GreatestRemoved(Held(root), Held(root'), freed')
      BY <1>5, RemoveMaxStep
    <2>2. \A j : ~Removes(j)
      BY <1>5, CallsApart DEF rb_remove_max
    <2> QED
      BY <1>1, <2>1, <2>2, FreesForDrop DEF GreatestRemoved, FreesFor
  <1>6. CASE rb_remove_tree
    <2>1. Settled(root')
      BY <1>6, RemoveTreeStep
    <2>2. PICK k \in HeldKeys(root) :
            /\ k = root.key
            /\ Removed(Held(root), Held(root'), k, k \in InnerKeys(root), freed')
      BY <1>6, RemoveTreeStep
    <2>3. \A j : Removes(j) <=> j = k
      BY <1>6, <2>2, CallsApart DEF rb_remove_tree
    <2>4. PICK p \in Held(root) :
            /\ p[1] = k /\ Held(root') = Held(root) \ {p}
            /\ FreesFor(Held(root), p, k \in InnerKeys(root), freed')
      BY <2>2 DEF Removed
    <2> QED
      BY <1>1, <2>1, <2>3, <2>4, FreesForRemoved
  <1> QED
    BY <1>2, <1>3, <1>4, <1>5, <1>6 DEF TreeNext

(* FreesWhatItDrops for any finite set of pairs: a tree that owns its      *)
(* objects frees in each step the objects its nodes lose, and no others    *)
(* but those of the next key when the key removed is in a node that has a  *)
(* right subtree; a tree that does not own them frees nothing.             *)
THEOREM TreeFreesWhatItDrops == TreeSpec => FreesWhatItDrops
  <1>1. TreeInv /\ [TreeNext]_treeVars => [DropsAndFrees]_treeVars
    BY StepDropsAndFrees
  <1> QED
    BY <1>1, TreeStaysSettled, PTL DEF TreeSpec, FreesWhatItDrops

-----------------------------------------------------------------------------
(* THE MAP                                                                 *)

(* The map a tree stands for.                                              *)
MapOf(n) == [k \in KeysOf(n) |-> (CHOOSE x \in NodesOf(n) : x.key = k).data]

(* A map without a key, and with a key and its datum.                      *)
Lacking(f, k) == [x \in DOMAIN f \ {k} |-> f[x]]
Having(f, k, d) == [x \in DOMAIN f \cup {k} |-> IF x = k THEN d ELSE f[x]]

(* The map has the pairs of the tree.                                      *)
LEMMA MapOfIs ==
  ASSUME NEW n, Settled(n)
  PROVE  /\ DOMAIN MapOf(n) = HeldKeys(n) /\ MapOf(n) = [k \in HeldKeys(n) |-> MapOf(n)[k]]
         /\ \A p \in Held(n) : p[1] \in HeldKeys(n) /\ MapOf(n)[p[1]] = p[2]
  <1>1. n \in Tree /\ n \in Trees /\ Search(n)
    BY Serves DEF Settled
  <1>2. NodesOf(n) = Under[n] /\ KeysOf(n) = HeldKeys(n)
    BY <1>1, NodesAreUnder, TreesAgree
  <1>3. MapOf(n) = [k \in HeldKeys(n) |-> (CHOOSE x \in Under[n] : x.key = k).data]
    BY <1>2 DEF MapOf
  <1>4. ASSUME NEW p \in Held(n)
        PROVE  p[1] \in HeldKeys(n) /\ MapOf(n)[p[1]] = p[2]
    <2>1. PICK x \in Under[n] : p = <<x.key, x.data>>
      BY DEF Held
    <2>2. p[1] \in HeldKeys(n)
      BY DEF HeldKeys
    <2> DEFINE y == CHOOSE z \in Under[n] : z.key = p[1]
    <2>3. y \in Under[n] /\ y.key = p[1]
      BY <2>1
    <2>4. MapOf(n)[p[1]] = y.data
      BY <1>3, <2>2
    <2> HIDE DEF y
    <2>5. y = x
      BY <1>1, <2>1, <2>3, OneNode
    <2> QED
      BY <2>1, <2>2, <2>4, <2>5
  <1> QED
    BY <1>3, <1>4

LEMMA MapAt ==
  ASSUME NEW n, Settled(n), NEW k \in HeldKeys(n)
  PROVE  <<k, MapOf(n)[k]>> \in Held(n)
  <1>1. PICK p \in Held(n) : p[1] = k
    BY DEF HeldKeys
  <1>2. Held(n) \subseteq Keys \X Data
    BY HeldTypes DEF Settled
  <1>3. p = <<p[1], p[2]>>
    BY <1>2
  <1>4. MapOf(n)[p[1]] = p[2]
    BY MapOfIs
  <1> QED
    BY <1>1, <1>3, <1>4

LEMMA MapIsPlain ==
  /\ [k \in KeysOf(root) |-> NodeOf(k).data] = MapOf(root)
  /\ [k \in KeysOf(root) |-> NodeOf(k).data]' = MapOf(root')
  BY DEF MapOf, NodeOf

(* What inserting and removing pairs does to the map.                      *)
LEMMA MapInserts ==
  ASSUME NEW n, Settled(n), NEW m, Settled(m), NEW k, NEW d,
         Held(m) = Apart(Held(n), k) \cup {<<k, d>>}
  PROVE  MapOf(m) = Having(MapOf(n), k, d)
  <1>1. <<k, d>>[1] = k /\ <<k, d>>[2] = d
    OBVIOUS
  <1>2. HeldKeys(m) = HeldKeys(n) \cup {k}
    <2>1. ASSUME NEW p \in Held(m)
          PROVE  p[1] \in HeldKeys(n) \cup {k}
      BY <1>1 DEF Apart, HeldKeys
    <2>2. ASSUME NEW p \in Held(n)
          PROVE  p[1] \in HeldKeys(m)
      <3>1. CASE p[1] = k
        BY <1>1, <3>1 DEF HeldKeys
      <3>2. CASE p[1] # k
        BY <3>2 DEF HeldKeys, Apart
      <3> QED
        BY <3>1, <3>2
    <2>3. k \in HeldKeys(m)
      BY <1>1 DEF HeldKeys
    <2> QED
      BY <2>1, <2>2, <2>3 DEF HeldKeys
  <1>3. MapOf(m)[k] = d
    <2>1. <<k, d>> \in Held(m)
      OBVIOUS
    <2> QED
      BY <1>1, <2>1, MapOfIs
  <1>4. ASSUME NEW x \in HeldKeys(n), x # k
        PROVE  MapOf(m)[x] = MapOf(n)[x]
    <2> DEFINE p == <<x, MapOf(n)[x]>>
    <2>1. p \in Held(n) /\ p[1] = x /\ p[2] = MapOf(n)[x]
      BY MapAt
    <2>2. p \in Held(m)
      BY <1>4, <2>1 DEF Apart
    <2> HIDE DEF p
    <2>3. MapOf(m)[p[1]] = p[2]
      BY <2>2, MapOfIs
    <2> QED
      BY <2>1, <2>3
  <1>5. DOMAIN MapOf(n) = HeldKeys(n) /\ MapOf(m) = [x \in HeldKeys(m) |-> MapOf(m)[x]]
    BY MapOfIs
  <1>6. \A x \in HeldKeys(m) : MapOf(m)[x] = IF x = k THEN d ELSE MapOf(n)[x]
    BY <1>2, <1>3, <1>4
  <1> DEFINE f == MapOf(m)
             g == MapOf(n)
  <1>7. f = [x \in HeldKeys(m) |-> IF x = k THEN d ELSE g[x]]
    <2> HIDE DEF f, g
    <2>1. f = [x \in HeldKeys(m) |-> f[x]]
      BY <1>5 DEF f
    <2>2. \A x \in HeldKeys(m) : f[x] = IF x = k THEN d ELSE g[x]
      BY <1>6 DEF f, g
    <2> QED
      BY <2>1, <2>2
  <1> QED
    BY <1>2, <1>5, <1>7 DEF Having

LEMMA MapRemoves ==
  ASSUME NEW n, Settled(n), NEW m, Settled(m), NEW p \in Held(n), Held(m) = Held(n) \ {p}
  PROVE  MapOf(m) = Lacking(MapOf(n), p[1])
  <1>1. n \in Tree /\ Search(n)
    BY DEF Settled
  <1>2. \A q \in Held(n) : q[1] = p[1] => q = p
    BY <1>1, OnePair
  <1>3. HeldKeys(m) = HeldKeys(n) \ {p[1]}
    BY <1>2 DEF HeldKeys
  <1>4. ASSUME NEW x \in HeldKeys(m)
        PROVE  MapOf(m)[x] = MapOf(n)[x]
    <2>1. <<x, MapOf(m)[x]>> \in Held(m)
      BY MapAt
    <2>2. <<x, MapOf(m)[x]>> \in Held(n)
      BY <2>1
    <2> QED
      BY <2>2, MapOfIs
  <1>5. DOMAIN MapOf(n) = HeldKeys(n) /\ MapOf(m) = [x \in HeldKeys(m) |-> MapOf(m)[x]]
    BY MapOfIs
  <1> QED
    BY <1>3, <1>4, <1>5 DEF Lacking

LEMMA MapKeeps ==
  ASSUME NEW n, Settled(n), NEW m, Settled(m), NEW k, k \notin HeldKeys(n), Held(m) = Held(n)
  PROVE  MapOf(m) = Lacking(MapOf(n), k)
  <1>1. HeldKeys(m) = HeldKeys(n) \ {k} /\ HeldKeys(m) = HeldKeys(n)
    BY DEF HeldKeys
  <1>2. ASSUME NEW x \in HeldKeys(m)
        PROVE  MapOf(m)[x] = MapOf(n)[x]
    <2>1. <<x, MapOf(m)[x]>> \in Held(n)
      BY <1>1, MapAt
    <2> QED
      BY <2>1, MapOfIs
  <1>3. DOMAIN MapOf(n) = HeldKeys(n) /\ MapOf(m) = [x \in HeldKeys(m) |-> MapOf(m)[x]]
    BY MapOfIs
  <1> QED
    BY <1>1, <1>2, <1>3 DEF Lacking

LEMMA InitIsMapInit ==
  ASSUME TreeInit
  PROVE  M!MapInit
  <1>1. KeysOf(root) = {}
    <2>1. Null \in Trees /\ HeldKeys(Null) = {}
      BY NullHolds, TreesIsClosed DEF Closed, HeldKeys
    <2> QED
      BY <2>1, TreesAgree DEF TreeInit
  <1>2. [k \in KeysOf(root) |-> NodeOf(k).data] = << >>
    BY <1>1
  <1>3. asked = <<"create">>
    BY DEF TreeInit
  <1> QED
    BY <1>2, <1>3 DEF M!MapInit

(* A pair of the map goes for a pair of the tree.                          *)
LEMMA WithoutIs ==
  ASSUME Settled(root), Settled(root'), NEW p \in Held(root), Held(root') = Held(root) \ {p}
  PROVE  /\ p[1] \in DOMAIN [k \in KeysOf(root) |-> NodeOf(k).data]
         /\ [k \in KeysOf(root) |-> NodeOf(k).data]' = M!Without(p[1])
  <1>1. MapOf(root') = Lacking(MapOf(root), p[1])
    BY MapRemoves
  <1>2. DOMAIN MapOf(root) = HeldKeys(root) /\ p[1] \in HeldKeys(root)
    BY MapOfIs DEF HeldKeys
  <1> QED
    BY <1>1, <1>2, MapIsPlain DEF M!Without, Lacking

(* Each operation is the one asked of the map.                             *)
LEMMA StepIsMapNext ==
  ASSUME TreeInv, [TreeNext]_treeVars
  PROVE  [M!MapNext]_<<[k \in KeysOf(root) |-> NodeOf(k).data], asked>>
  <1> DEFINE map == [k \in KeysOf(root) |-> NodeOf(k).data]
  <1>1. Settled(root) /\ DOMAIN map = HeldKeys(root)
    BY MapIsPlain, MapOfIs DEF TreeInv
  <1>2. ASSUME NEW e \in Pairs, rb_insert(e[1], e[2])
        PROVE  M!MapNext
    <2>1. Settled(root') /\ Inserted(Held(root), Held(root'), e[1], e[2], freed')
      BY <1>2, PairsAre, InsertStep
    <2>2. MapOf(root') = Having(MapOf(root), e[1], e[2])
      BY <1>1, <2>1, MapInserts DEF Inserted
    <2>3. M!Insert(e[1], e[2])
      BY <1>2, <2>2, MapIsPlain DEF M!Insert, rb_insert, Having
    <2> QED
      BY <2>3, PairsAre DEF M!MapNext
  <1>3. ASSUME NEW k \in Keys, rb_remove(k)
        PROVE  M!MapNext
    <2>1. /\ Settled(root')
          /\ \/ k \notin HeldKeys(root) /\ Held(root') = Held(root)
             \/ Removed(Held(root), Held(root'), k, k \in InnerKeys(root), freed')
      BY <1>3, RemoveStep
    <2>2. map' = M!Without(k)
      <3>1. CASE k \notin HeldKeys(root) /\ Held(root') = Held(root)
        <4>1. MapOf(root') = Lacking(MapOf(root), k)
          BY <1>1, <2>1, <3>1, MapKeeps
        <4> QED
          BY <4>1, MapIsPlain DEF M!Without, Lacking
      <3>2. CASE Removed(Held(root), Held(root'), k, k \in InnerKeys(root), freed')
        BY <1>1, <2>1, <3>2, WithoutIs DEF Removed
      <3> QED
        BY <2>1, <3>1, <3>2
    <2>3. M!Remove(k)
      BY <1>3, <2>2 DEF M!Remove, rb_remove
    <2> QED
      BY <2>3 DEF M!MapNext
  <1>4. CASE rb_remove_min
    <2>1. Settled(root') /\ LeastRemoved(Held(root), Held(root'), freed')
      BY <1>4, RemoveMinStep
    <2>2. PICK p \in Held(root) : (\A q \in Held(root) : p[1] <= q[1])
                                  /\ Held(root') = Held(root) \ {p}
      BY <2>1 DEF LeastRemoved
    <2>3. p[1] \in DOMAIN map /\ map' = M!Without(p[1])
      BY <1>1, <2>1, <2>2, WithoutIs
    <2>4. \A x \in DOMAIN map : p[1] <= x
      BY <1>1, <2>2 DEF HeldKeys
    <2>5. M!RemoveMin
      BY <1>4, <2>3, <2>4 DEF M!RemoveMin, rb_remove_min
    <2> QED
      BY <2>5 DEF M!MapNext
  <1>5. CASE rb_remove_max
    <2>1. Settled(root') /\ GreatestRemoved(Held(root), Held(root'), freed')
      BY <1>5, RemoveMaxStep
    <2>2. PICK p \in Held(root) : (\A q \in Held(root) : q[1] <= p[1])
                                  /\ Held(root') = Held(root) \ {p}
      BY <2>1 DEF GreatestRemoved
    <2>3. p[1] \in DOMAIN map /\ map' = M!Without(p[1])
      BY <1>1, <2>1, <2>2, WithoutIs
    <2>4. \A x \in DOMAIN map : x <= p[1]
      BY <1>1, <2>2 DEF HeldKeys
    <2>5. M!RemoveMax
      BY <1>5, <2>3, <2>4 DEF M!RemoveMax, rb_remove_max
    <2> QED
      BY <2>5 DEF M!MapNext
  <1>6. CASE rb_remove_tree
    <2>1. /\ Settled(root')
          /\ \E k \in HeldKeys(root) :
               /\ k = root.key
               /\ Removed(Held(root), Held(root'), k, k \in InnerKeys(root), freed')
      BY <1>6, RemoveTreeStep
    <2>2. PICK p \in Held(root) : Held(root') = Held(root) \ {p}
      BY <2>1 DEF Removed
    <2>3. p[1] \in DOMAIN map /\ map' = M!Without(p[1])
      BY <1>1, <2>1, <2>2, WithoutIs
    <2>4. M!RemoveAll
      BY <1>6, <2>3 DEF M!RemoveAll, rb_remove_tree
    <2> QED
      BY <2>4 DEF M!MapNext
  <1>7. CASE UNCHANGED treeVars
    <2>1. root' = root /\ asked' = asked
      BY <1>7 DEF treeVars
    <2> QED
      BY <2>1, MapIsPlain
  <1> QED
    BY <1>2, <1>3, <1>4, <1>5, <1>6, <1>7 DEF TreeNext

(* ImplementsMap for any finite set of pairs: rb_insert, rb_remove,        *)
(* rb_remove_min, rb_remove_max and each turn of rb_remove_tree do to the  *)
(* pairs what was asked and nothing else, whatever they do to the nodes.   *)
THEOREM TreeIsAMap == TreeSpec => ImplementsMap
  <1>1. TreeInit => M!MapInit
    BY InitIsMapInit
  <1>2. TreeInv /\ [TreeNext]_treeVars
          => [M!MapNext]_<<[k \in KeysOf(root) |-> NodeOf(k).data], asked>>
    BY StepIsMapNext
  <1> QED
    BY <1>1, <1>2, TreeStaysSettled, PTL DEF TreeSpec, ImplementsMap, M!MapSpec
=============================================================================
