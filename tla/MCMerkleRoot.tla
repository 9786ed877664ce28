---------------------------- MODULE MCMerkleRoot ----------------------------
(***************************************************************************)
(* MerkleRoot with up to MCMaxLeaves distinct leaves.                       *)
(***************************************************************************)
EXTENDS MerkleRoot

MCMaxLeaves == 24

\* A leaf is its number as a tuple of one, an inner node the pair of its children.
MCTree[n \in 1..MCMaxLeaves] ==
  LET node[i \in 0..(2 * n - 2)] ==
        IF i >= n - 1 THEN <<i - n + 2>> ELSE Merge(node[2 * i + 1], node[2 * i + 2])
  IN  node
=============================================================================
