----------------------------- MODULE MerkleRoot -----------------------------
(***************************************************************************)
(* The transactions root of a block, as the guest program recomputes it     *)
(* with a queue: merkle_root and calc_transactions_root of                  *)
(* crates/verification/src/lib.rs.                                          *)
(*                                                                          *)
(* CKB builds the root over a complete binary Merkle tree (the merkle_cbt   *)
(* crate, which the comment of merkle_root names): with n leaves the tree   *)
(* is an array of 2n - 1 nodes, the leaves are the last n of them, and the  *)
(* children of node i are the nodes 2i + 1 and 2i + 2.                      *)
(***************************************************************************)
EXTENDS Integers, Sequences

CONSTANTS
  MaxLeaves,  \* bound: transactions in a block
  CBMT,       \* CBMT[n] is the complete binary Merkle tree with n leaves
  Zero,       \* the root of no leaves, 32 zero bytes
  Witness     \* the witnesses root of the block, which the prover supplies

\* The hash of two nodes; it is injective.
Merge(left, right) == <<left, right>>

ASSUME CBMTAssumption ==
  /\ MaxLeaves \in Nat
  /\ \A n \in 1..MaxLeaves : \A i \in 0..(n - 2) :
       CBMT[n][i] = Merge(CBMT[n][2 * i + 1], CBMT[n][2 * i + 2])

\* The hashes of the n transactions of a block.
TxHashes(n) == [k \in 1..n |-> CBMT[n][n - 2 + k]]

VARIABLES
  count,              \* the number of transactions
  stage,              \* which of its two calls of merkle_root is running
  queue,              \* the queue of merkle_root
  raw_root,           \* the root of the transaction hashes
  transactions_root   \* the result

vars == <<count, stage, queue, raw_root, transactions_root>>
-----------------------------------------------------------------------------
\* rchunks_exact(2): the pairs from the last one on.
ChunksFromTheEnd(leaves) ==
  [i \in 1..(Len(leaves) \div 2) |->
     Merge(leaves[Len(leaves) - 2 * i + 1], leaves[Len(leaves) - 2 * i + 2])]

\* Mutant: the leaf without a partner goes to the back of the queue.
RemainderAtBack(leaves) ==
  ChunksFromTheEnd(leaves) \o (IF Len(leaves) % 2 = 1 THEN <<leaves[1]>> ELSE <<>>)

\* The first pass over the leaves; the leaf without a partner goes to the front.
FirstPass(leaves) ==
  (IF Len(leaves) % 2 = 1 THEN <<leaves[1]>> ELSE <<>>) \o ChunksFromTheEnd(leaves)

Init ==
  /\ count \in 0..MaxLeaves
  /\ stage = "raw"
  /\ queue = FirstPass(TxHashes(count))
  /\ raw_root = Zero
  /\ transactions_root = Zero

\* Mutant: the result goes to the front, as if the queue were a stack.
MergeOnStack(q) == <<Merge(q[2], q[1])>> \o SubSeq(q, 3, Len(q))

\* One turn of the loop: the right node comes first out of the queue.
MergeFront(q) == Append(SubSeq(q, 3, Len(q)), Merge(q[2], q[1]))

HasPair(q) == Len(q) > 1

MergeNext ==
  /\ HasPair(queue)
  /\ queue' = MergeFront(queue)
  /\ UNCHANGED <<count, stage, raw_root, transactions_root>>

BothRoots(root) == <<root, Witness>>

\* Mutant: no leaves are no special case, and unwrap panics.
FinishRawOfSome ==
  /\ stage = "raw" /\ Len(queue) = 1
  /\ raw_root' = queue[1]
  /\ queue' = FirstPass(BothRoots(raw_root'))
  /\ stage' = "both"
  /\ UNCHANGED <<count, transactions_root>>

\* The root of the transaction hashes is there, and with the witnesses root it
\* makes the two leaves of the second call.
FinishRaw ==
  /\ stage = "raw" /\ ~HasPair(queue)
  /\ raw_root' = IF queue = <<>> THEN Zero ELSE queue[1]
  /\ queue' = FirstPass(BothRoots(raw_root'))
  /\ stage' = "both"
  /\ UNCHANGED <<count, transactions_root>>

FinishBoth ==
  /\ stage = "both" /\ ~HasPair(queue)
  /\ transactions_root' = queue[1]
  /\ queue' = <<>>
  /\ stage' = "done"
  /\ UNCHANGED <<count, raw_root>>

Next == MergeNext \/ FinishRaw \/ FinishBoth

Spec == Init /\ [][Next]_vars /\ WF_vars(Next)
-----------------------------------------------------------------------------
(***************************************************************************)
(* Properties.                                                              *)
(***************************************************************************)
TypeOK ==
  /\ count \in 0..MaxLeaves
  /\ stage \in {"raw", "both", "done"}
  /\ 2 * Len(queue) <= count + 1 \/ (stage = "both" /\ Len(queue) = 1)
  /\ stage = "done" => queue = <<>>

\* The loop invariant: k entries in the queue are the nodes 2k - 2 down to k - 1
\* of the tree, so that the loop walks the tree from its end to node 0.
QueueIsLevel ==
  stage = "raw" =>
    \A i \in DOMAIN queue : queue[i] = CBMT[count][2 * Len(queue) - 1 - i]

\* The root that the guest program compares with the header is the one CKB put
\* there: that of the complete binary Merkle tree, merged with the witnesses root.
RootIsCBMT ==
  stage = "done" =>
    transactions_root = Merge(IF count = 0 THEN Zero ELSE CBMT[count][0], Witness)

\* The loop ends: each turn takes two nodes and puts one back.
RootIsFound == <>(stage = "done")
=============================================================================
