---------------------------- MODULE MerkleTreeProofs ----------------------------
(***************************************************************************)
(* What the note tree computes, for every depth and all leaves: a path     *)
(* leads up to the root, and a root tells the leaves below it.             *)
(*                                                                         *)
(* Span, the levels and the circuit's climb are recursive functions, which *)
(* TLA+ defines by CHOOSE: that something satisfies such a recursion has   *)
(* to be shown first (SpanRecursion, LevelsRecursion, PathRecursion).  All *)
(* inductions are Recursion's Climb.                                       *)
(***************************************************************************)
EXTENDS MerkleTree, Recursion

\* The recursion that defines Span has a solution.
LEMMA SpanRecursion ==
  /\ DOMAIN Span = 0 .. Depth
  /\ \A d \in 0 .. Depth : Span[d] = IF d = 0 THEN 1 ELSE 2 * Span[d - 1]
<1> DEFINE Solves(g, n) == g = [d \in 0 .. n |-> IF d = 0 THEN 1 ELSE 2 * g[d - 1]]
           S == {n \in Nat : \E g : Solves(g, n)}
<1>1. 0 \in S
  <2>1. Solves([d \in 0 .. 0 |-> 1], 0)
    OBVIOUS
  <2> QED
    BY <2>1
<1>2. ASSUME NEW n \in 1 .. Depth, n - 1 \in S
      PROVE  n \in S
  <2>1. PICK g : Solves(g, n - 1)
    BY <1>2
  <2> DEFINE h == [d \in 0 .. n |-> IF d = n THEN 2 * g[n - 1] ELSE g[d]]
  <2>2. Solves(h, n)
    BY <2>1, TreeAssumption DEF TreeAssumption
  <2> HIDE DEF h
  <2> QED
    BY <2>2, TreeAssumption DEF TreeAssumption
<1>3. \E g : Solves(g, Depth)
  <2>1. Depth \in S
    <3> HIDE DEF S
    <3> QED
      BY <1>1, <1>2, Climb, TreeAssumption DEF TreeAssumption
  <2> QED
    BY <2>1
<1>4. Solves(Span, Depth)
  BY <1>3 DEF Span
<1> QED
  BY <1>4

\* The numbers of leaves are positive.
LEMMA SpanType == \A d \in 0 .. Depth : Span[d] \in Nat \ {0}
<1> DEFINE S == {d \in 0 .. Depth : Span[d] \in Nat \ {0}}
<1>1. 0 \in S
  BY SpanRecursion, TreeAssumption DEF TreeAssumption
<1>2. \A d \in 1 .. Depth : d - 1 \in S => d \in S
  BY SpanRecursion, TreeAssumption DEF TreeAssumption
<1> HIDE DEF S
<1>3. \A d \in 0 .. Depth : d \in S
  BY <1>1, <1>2, Climb, TreeAssumption DEF TreeAssumption
<1> QED
  BY <1>3 DEF S

\* One level up, a node has twice the leaves below it.
LEMMA SpanDoubles ==
  ASSUME NEW d \in 1 .. Depth
  PROVE  /\ Span[d] = 2 * Span[d - 1]
         /\ Span[d - 1] \in Nat \ {0} /\ Span[d] \in Nat \ {0}
<1>1. d \in 0 .. Depth /\ d - 1 \in 0 .. Depth /\ d # 0
  BY TreeAssumption DEF TreeAssumption
<1> QED
  BY <1>1, SpanRecursion, SpanType

\* The ends of the recursion.
LEMMA SpanEnds == Span[0] = 1 /\ Width = Span[Depth] /\ Width \in Nat \ {0}
<1>1. 0 \in 0 .. Depth /\ Depth \in 0 .. Depth
  BY TreeAssumption DEF TreeAssumption
<1> QED
  BY <1>1, SpanRecursion, SpanType DEF Width

-----------------------------------------------------------------------------

\* The recursion that defines the levels of a tree has a solution.
LEMMA LevelsRecursion ==
  ASSUME NEW leaves
  PROVE  \A d \in 0 .. Depth :
           Levels(leaves)[d] =
             IF d = 0
               THEN Padded(leaves)
               ELSE [k \in 0 .. Span[Depth - d] - 1 |->
                       merkle_node(Levels(leaves)[d - 1][2 * k],
                                   Levels(leaves)[d - 1][2 * k + 1])]
<1> DEFINE Above(below, d) ==
             [k \in 0 .. Span[Depth - d] - 1 |-> merkle_node(below[2 * k], below[2 * k + 1])]
           Solves(g, n) ==
             g = [d \in 0 .. n |-> IF d = 0 THEN Padded(leaves) ELSE Above(g[d - 1], d)]
           S == {n \in Nat : \E g : Solves(g, n)}
<1>0. Levels(leaves) = CHOOSE g : Solves(g, Depth)
  BY DEF Levels
<1> HIDE DEF Above
<1>1. 0 \in S
  <2>1. Solves([d \in 0 .. 0 |-> Padded(leaves)], 0)
    OBVIOUS
  <2> QED
    BY <2>1
<1>2. ASSUME NEW n \in 1 .. Depth, n - 1 \in S
      PROVE  n \in S
  <2>1. PICK g : Solves(g, n - 1)
    BY <1>2
  <2> DEFINE h == [d \in 0 .. n |-> IF d = n THEN Above(g[n - 1], n) ELSE g[d]]
  <2>2. Solves(h, n)
    BY <2>1, TreeAssumption DEF TreeAssumption
  <2> HIDE DEF h
  <2> QED
    BY <2>2, TreeAssumption DEF TreeAssumption
<1>3. \E g : Solves(g, Depth)
  <2>1. Depth \in S
    <3> HIDE DEF S
    <3> QED
      BY <1>1, <1>2, Climb, TreeAssumption DEF TreeAssumption
  <2> QED
    BY <2>1
<1>4. Solves(Levels(leaves), Depth)
  <2> HIDE DEF Solves
  <2> QED
    BY <1>0, <1>3
<1> QED
  BY <1>4 DEF Above

\* The leaves are the lowest level,
LEMMA LowestLevel == ASSUME NEW leaves PROVE Levels(leaves)[0] = Padded(leaves)
<1>1. 0 \in 0 .. Depth /\ 0 = 0
  BY TreeAssumption DEF TreeAssumption
<1> QED
  BY <1>1, LevelsRecursion, Zenon

\* ... and every other node is above two of the level below.
LEMMA NextLevel ==
  ASSUME NEW leaves, NEW d \in 1 .. Depth, NEW k \in 0 .. Span[Depth - d] - 1
  PROVE  Levels(leaves)[d][k] =
           merkle_node(Levels(leaves)[d - 1][2 * k], Levels(leaves)[d - 1][2 * k + 1])
<1>1. Levels(leaves)[d] =
        [n \in 0 .. Span[Depth - d] - 1 |->
           merkle_node(Levels(leaves)[d - 1][2 * n], Levels(leaves)[d - 1][2 * n + 1])]
  <2>1. d \in 0 .. Depth /\ d # 0
    OBVIOUS
  <2> QED
    BY <2>1, LevelsRecursion
<1> QED
  BY <1>1

\* The recursion that leads up a path has a solution: `up` is it.
LEMMA PathRecursion ==
  ASSUME NEW leaf, NEW index, NEW siblings
  PROVE  \E up :
           /\ compute_merkle_root(leaf, index, siblings) = up[Depth]
           /\ \A d \in 0 .. Depth :
                up[d] = IF d = 0
                          THEN leaf
                          ELSE IF (index \div Span[d - 1]) % 2 = 1
                                 THEN merkle_node(siblings[d - 1], up[d - 1])
                                 ELSE merkle_node(up[d - 1], siblings[d - 1])
<1> DEFINE Above(below, d) == IF (index \div Span[d - 1]) % 2 = 1
                                THEN merkle_node(siblings[d - 1], below)
                                ELSE merkle_node(below, siblings[d - 1])
           Solves(g, n) == g = [d \in 0 .. n |-> IF d = 0 THEN leaf ELSE Above(g[d - 1], d)]
           S == {n \in Nat : \E g : Solves(g, n)}
           up == CHOOSE g : Solves(g, Depth)
<1>0. compute_merkle_root(leaf, index, siblings) = up[Depth]
  BY DEF compute_merkle_root
<1> HIDE DEF Above
<1>1. 0 \in S
  <2>1. Solves([d \in 0 .. 0 |-> leaf], 0)
    OBVIOUS
  <2> QED
    BY <2>1
<1>2. ASSUME NEW n \in 1 .. Depth, n - 1 \in S
      PROVE  n \in S
  <2>1. PICK g : Solves(g, n - 1)
    BY <1>2
  <2> DEFINE h == [d \in 0 .. n |-> IF d = n THEN Above(g[n - 1], n) ELSE g[d]]
  <2>2. Solves(h, n)
    BY <2>1, TreeAssumption DEF TreeAssumption
  <2> HIDE DEF h
  <2> QED
    BY <2>2, TreeAssumption DEF TreeAssumption
<1>3. \E g : Solves(g, Depth)
  <2>1. Depth \in S
    <3> HIDE DEF S
    <3> QED
      BY <1>1, <1>2, Climb, TreeAssumption DEF TreeAssumption
  <2> QED
    BY <2>1
<1>4. Solves(up, Depth)
  <2> HIDE DEF Solves
  <2> QED
    BY <1>3
<1> HIDE DEF up
<1> QED
  BY <1>0, <1>4 DEF Above

-----------------------------------------------------------------------------

\* Halving a number that was divided by p.
LEMMA Halve ==
  ASSUME NEW i \in Nat, NEW p \in Nat \ {0}
  PROVE  i \div (2 * p) = (i \div p) \div 2 /\ i \div p \in Nat
  OBVIOUS

\* The nodes above leaf i are in the tree, the last of them is the root.
LEMMA NodeAbove ==
  ASSUME NEW i \in 0 .. Width - 1
  PROVE  \A d \in 0 .. Depth : i \div Span[d] \in 0 .. Span[Depth - d] - 1
<1> DEFINE S == {d \in 0 .. Depth : i \div Span[d] \in 0 .. Span[Depth - d] - 1}
<1>0. i \in Nat
  BY SpanEnds
<1>1. 0 \in S
  <2>1. Depth - 0 = Depth /\ 0 \in 0 .. Depth
    BY TreeAssumption DEF TreeAssumption
  <2>2. i \div Span[0] = i
    BY <1>0, SpanEnds
  <2> QED
    BY <2>1, <2>2, SpanEnds
<1>2. ASSUME NEW d \in 1 .. Depth, d - 1 \in S
      PROVE  d \in S
  <2> DEFINE e == Depth - (d - 1)
  <2>0. e \in 1 .. Depth /\ e - 1 = Depth - d
    BY TreeAssumption DEF TreeAssumption
  <2>1. /\ Span[d] = 2 * Span[d - 1] /\ Span[e] = 2 * Span[Depth - d]
        /\ Span[d - 1] \in Nat \ {0} /\ Span[Depth - d] \in Nat \ {0}
    <3> HIDE DEF e
    <3>1. Span[e] = 2 * Span[e - 1] /\ Span[e - 1] \in Nat \ {0}
      BY <2>0, SpanDoubles
    <3> QED
      BY <2>0, <3>1, SpanDoubles
  <2>2. i \div Span[d] = (i \div Span[d - 1]) \div 2
    BY <1>0, <2>1, Halve
  <2>3. i \div Span[d - 1] \in 0 .. 2 * Span[Depth - d] - 1
    BY <1>2, <2>1
  <2> QED
    BY <2>1, <2>2, <2>3
<1> HIDE DEF S
<1>3. \A d \in 0 .. Depth : d \in S
  BY <1>1, <1>2, Climb, TreeAssumption DEF TreeAssumption
<1> QED
  BY <1>3 DEF S

\* The tree builder of the issuer and the circuit that checks a spend agree: from any
\* leaf of the tree, or the zero of an empty place, the siblings of computeMerklePath
\* lead compute_merkle_root to the root that the tree builder returned with them.
THEOREM PathLeadsUp ==
  ASSUME NEW leaves, NEW i \in 0 .. Width - 1
  PROVE  compute_merkle_root(Padded(leaves)[i], i, MerklePath(leaves, i)) = TreeRoot(leaves)
<1> DEFINE level == Levels(leaves)
           path == MerklePath(leaves, i)
<1>1. PICK up :
        /\ compute_merkle_root(Padded(leaves)[i], i, path) = up[Depth]
        /\ \A d \in 0 .. Depth :
             up[d] = IF d = 0
                       THEN Padded(leaves)[i]
                       ELSE IF (i \div Span[d - 1]) % 2 = 1
                              THEN merkle_node(path[d - 1], up[d - 1])
                              ELSE merkle_node(up[d - 1], path[d - 1])
  BY PathRecursion
<1>2. \A d \in 0 .. Depth - 1 : path[d] = level[d][Sibling(i \div Span[d])]
  BY DEF MerklePath
<1> DEFINE S == {d \in 0 .. Depth : up[d] = level[d][i \div Span[d]]}
<1> HIDE DEF level, path
<1>3. 0 \in S
  <2>1. up[0] = Padded(leaves)[i] /\ level[0] = Padded(leaves)
    BY <1>1, LowestLevel, TreeAssumption DEF TreeAssumption, level
  <2>2. i \div Span[0] = i /\ 0 \in 0 .. Depth
    BY SpanEnds, TreeAssumption DEF TreeAssumption
  <2> QED
    BY <2>1, <2>2
<1>4. ASSUME NEW d \in 1 .. Depth, d - 1 \in S
      PROVE  d \in S
  <2> DEFINE t == i \div Span[d - 1]
             k == i \div Span[d]
  <2>1. Span[d] = 2 * Span[d - 1] /\ Span[d - 1] \in Nat \ {0} /\ i \in Nat
    BY SpanDoubles, SpanEnds
  <2>2. k = t \div 2 /\ t \in Nat
    BY <2>1, Halve
  <2>3. k \in 0 .. Span[Depth - d] - 1
    BY NodeAbove
  <2>4. up[d - 1] = level[d - 1][t] /\ path[d - 1] = level[d - 1][Sibling(t)]
    <3>1. d - 1 \in 0 .. Depth - 1
      BY TreeAssumption DEF TreeAssumption
    <3>2. path[d - 1] = level[d - 1][Sibling(t)]
      BY <1>2, <3>1
    <3> QED
      BY <1>4, <3>2
  <2>6. level[d][k] = merkle_node(level[d - 1][2 * k], level[d - 1][2 * k + 1])
    <3> HIDE DEF k
    <3> QED
      BY <2>3, NextLevel DEF level
  <2>7. up[d] = IF t % 2 = 1 THEN merkle_node(path[d - 1], up[d - 1])
                             ELSE merkle_node(up[d - 1], path[d - 1])
    BY <1>1
  <2> HIDE DEF t, k
  <2>8. CASE t % 2 = 1
    <3>1. Sibling(t) = 2 * k /\ t = 2 * k + 1
      BY <2>2, <2>8 DEF Sibling
    <3> QED
      BY <2>4, <2>6, <2>7, <2>8, <3>1 DEF k
  <2>9. CASE t % 2 # 1
    <3>1. Sibling(t) = 2 * k + 1 /\ t = 2 * k
      BY <2>2, <2>9 DEF Sibling
    <3> QED
      BY <2>4, <2>6, <2>7, <2>9, <3>1 DEF k
  <2> QED
    BY <2>8, <2>9
<1>5. Depth \in S
  <2> HIDE DEF S
  <2> QED
    BY <1>3, <1>4, Climb, TreeAssumption DEF TreeAssumption
<1>6. i \div Span[Depth] = 0
  BY NodeAbove, SpanRecursion, TreeAssumption DEF TreeAssumption
<1> QED
  BY <1>1, <1>5, <1>6 DEF TreeRoot, level, path

\* The root that the operator signs for a deposit tells the leaves it was computed
\* from: trees with the same root are the same, padding included.
THEOREM RootsTell ==
  ASSUME NEW leaves, NEW others, TreeRoot(leaves) = TreeRoot(others)
  PROVE  Padded(leaves) = Padded(others)
<1> DEFINE one == Levels(leaves)
           two == Levels(others)
           S == {e \in 0 .. Depth : \A k \in 0 .. Span[e] - 1 :
                                      one[Depth - e][k] = two[Depth - e][k]}
<1>1. 0 \in S
  BY SpanRecursion, TreeAssumption DEF TreeAssumption, TreeRoot
<1> HIDE DEF one, two
<1>2. ASSUME NEW e \in 1 .. Depth, e - 1 \in S
      PROVE  e \in S
  <2> DEFINE d == Depth - e
  <2>1. /\ d \in 0 .. Depth - 1 /\ Depth - (e - 1) = d + 1 /\ Depth - (d + 1) = e - 1
        /\ Span[e] = 2 * Span[e - 1] /\ Span[e - 1] \in Nat
    BY SpanDoubles, TreeAssumption DEF TreeAssumption
  <2> HIDE DEF d
  <2>2. ASSUME NEW n \in 0 .. Span[e - 1] - 1
        PROVE  /\ one[d + 1][n] = merkle_node(one[d][2 * n], one[d][2 * n + 1])
               /\ two[d + 1][n] = merkle_node(two[d][2 * n], two[d][2 * n + 1])
    <3>1. d + 1 \in 1 .. Depth /\ (d + 1) - 1 = d
      BY <2>1, TreeAssumption DEF TreeAssumption
    <3> QED
      BY <2>1, <3>1, NextLevel DEF one, two
  <2>3. ASSUME NEW n \in 0 .. Span[e - 1] - 1
        PROVE  one[d][2 * n] = two[d][2 * n] /\ one[d][2 * n + 1] = two[d][2 * n + 1]
    <3>1. one[d + 1][n] = two[d + 1][n]
      BY <1>2, <2>1
    <3> QED
      BY <2>2, <3>1 DEF merkle_node
  <2>4. ASSUME NEW k \in 0 .. Span[e] - 1
        PROVE  one[d][k] = two[d][k]
    <3>1. PICK n \in 0 .. Span[e - 1] - 1 : k = 2 * n \/ k = 2 * n + 1
      <4>1. k \div 2 \in 0 .. Span[e - 1] - 1 /\ (k = 2 * (k \div 2) \/ k = 2 * (k \div 2) + 1)
        BY <2>1
      <4> QED
        BY <4>1
    <3> QED
      BY <2>3, <3>1
  <2> QED
    BY <2>4 DEF d
<1>3. Depth \in S
  <2> HIDE DEF S
  <2> QED
    BY <1>1, <1>2, Climb, TreeAssumption DEF TreeAssumption
<1>4. one[0] = Padded(leaves) /\ two[0] = Padded(others)
  BY LowestLevel DEF one, two
<1>5. \A k \in 0 .. Width - 1 : Padded(leaves)[k] = Padded(others)[k]
  <2>1. Depth - Depth = 0
    BY TreeAssumption DEF TreeAssumption
  <2> QED
    BY <1>3, <1>4, <2>1 DEF Width
<1> HIDE DEF S
<1> QED
  BY <1>5 DEF Padded

\* Leaves that fit into the tree and have the root of others are the same, but for zeros.
THEOREM SameRootSameLeaves ==
  ASSUME NEW S, NEW leaves \in Seq(S), NEW others \in Seq(S),
         Fits(leaves), Fits(others), TreeRoot(leaves) = TreeRoot(others)
  PROVE  /\ \A i \in 1 .. Len(leaves) :
              leaves[i] = IF i <= Len(others) THEN others[i] ELSE Zero
         /\ \A i \in 1 .. Len(others) :
              others[i] = IF i <= Len(leaves) THEN leaves[i] ELSE Zero
<1>1. Padded(leaves) = Padded(others)
  BY RootsTell
<1>2. /\ Len(leaves) \in Nat /\ Len(leaves) <= Width
      /\ Len(others) \in Nat /\ Len(others) <= Width
      /\ Width \in Nat
  BY SpanType, TreeAssumption DEF TreeAssumption, Width, Fits
<1>3. ASSUME NEW i \in 1 .. Width
      PROVE  /\ Padded(leaves)[i - 1] = IF i <= Len(leaves) THEN leaves[i] ELSE Zero
             /\ Padded(others)[i - 1] = IF i <= Len(others) THEN others[i] ELSE Zero
  BY <1>2 DEF Padded
<1>4. ASSUME NEW i \in 1 .. Width
      PROVE  (IF i <= Len(leaves) THEN leaves[i] ELSE Zero)
               = IF i <= Len(others) THEN others[i] ELSE Zero
  BY <1>1, <1>3
<1> QED
  BY <1>2, <1>4
===============================================================================
