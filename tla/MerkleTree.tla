------------------------------ MODULE MerkleTree ------------------------------
(***************************************************************************)
(* The note tree as the issuer builds it (circuits/tree_builder, called by *)
(* mock-issuer/src/pool-state.ts) and as the spend circuit reads it        *)
(* (circuits/shielded_transfer).  A node is the pair of its children:      *)
(* hashes do not collide.                                                  *)
(***************************************************************************)
EXTENDS Integers, Sequences

CONSTANTS
  Depth,    \* 8 in the code
  Zero      \* the field element 0

ASSUME TreeAssumption == Depth \in Nat \ {0}

\* Leaves below a node of level d, which is 2^d; l1 to l7 have 128 to 2 nodes.
Span[d \in 0 .. Depth] == IF d = 0 THEN 1 ELSE 2 * Span[d - 1]

Width == Span[Depth]

merkle_node(left, right) == <<left, right>>

\* computeMerklePath throws when there are more leaves than that.
Fits(leaves) == Len(leaves) <= Width

Padded(leaves) ==
  [i \in 0 .. Width - 1 |-> IF i < Len(leaves) THEN leaves[i + 1] ELSE Zero]

\* l1 to l7 and the root: each level pairs the nodes of the one below.
Levels(leaves) ==
  LET level[d \in 0 .. Depth] ==
        IF d = 0
          THEN Padded(leaves)
          ELSE LET below == level[d - 1] IN
                 [k \in 0 .. Span[Depth - d] - 1 |->
                    merkle_node(below[2 * k], below[2 * k + 1])]
  IN level

TreeRoot(leaves) == Levels(leaves)[Depth][0]

\* Mutant: the sibling is taken to be the node on the right.
NextNode(k) == k + 1

\* i ^ 1
Sibling(k) == IF k % 2 = 0 THEN k + 1 ELSE k - 1

\* The siblings of leaf t and of the nodes above it; t >> d is t \div Span[d].
MerklePath(leaves, t) ==
  LET level == Levels(leaves) IN
    [d \in 0 .. Depth - 1 |-> level[d][Sibling(t \div Span[d])]]

\* compute_merkle_root of the spend circuit and of hash_util.
compute_merkle_root(leaf, index, siblings) ==
  LET up[d \in 0 .. Depth] ==
        IF d = 0
          THEN leaf
          ELSE IF (index \div Span[d - 1]) % 2 = 1
                 THEN merkle_node(siblings[d - 1], up[d - 1])
                 ELSE merkle_node(up[d - 1], siblings[d - 1])
  IN up[Depth]
=============================================================================
