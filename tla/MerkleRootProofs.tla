-------------------------- MODULE MerkleRootProofs --------------------------
(***************************************************************************)
(* The queue of merkle_root computes the root of the complete binary Merkle *)
(* tree, for every number of leaves.                                        *)
(*                                                                          *)
(* The argument is one loop invariant.  A queue of k entries holds the      *)
(* nodes 2k - 2, 2k - 3, ..., k - 1 of the tree.  The two entries in front  *)
(* are siblings, their parent is node k - 2, and behind it in the queue the *)
(* invariant holds for k - 1 entries.                                       *)
(***************************************************************************)
EXTENDS MerkleRoot, SequenceTheorems, TLAPS

Node(n) == {CBMT[n][i] : i \in 0..(2 * n - 2)}

\* q is the level of the tree with n leaves from node 2k - 2 down to k - 1.
IsLevel(q, n) ==
  /\ q \in Seq(Node(n))
  /\ 2 * Len(q) <= n + 1
  /\ n > 0 => Len(q) > 0
  /\ \A i \in 1..Len(q) : q[i] = CBMT[n][2 * Len(q) - 1 - i]

RawRoot == IF count = 0 THEN Zero ELSE CBMT[count][0]

\* The inductive invariant: what is in the queue at each stage.
QueueInv ==
  /\ count \in 0..MaxLeaves
  /\ stage \in {"raw", "both", "done"}
  /\ stage = "raw" => IsLevel(queue, count)
  /\ stage = "both" => queue = <<Merge(RawRoot, Witness)>>
  /\ stage = "done" => queue = <<>> /\ transactions_root = Merge(RawRoot, Witness)
-----------------------------------------------------------------------------
\* The pairs from the end are a sequence of half as many entries.
LEMMA ChunksType ==
  ASSUME NEW S, NEW T, NEW leaves \in Seq(S),
         \A i \in 1..(Len(leaves) \div 2) :
           Merge(leaves[Len(leaves) - 2 * i + 1], leaves[Len(leaves) - 2 * i + 2]) \in T
  PROVE  /\ ChunksFromTheEnd(leaves) \in Seq(T)
         /\ Len(ChunksFromTheEnd(leaves)) = Len(leaves) \div 2
         /\ \A i \in 1..(Len(leaves) \div 2) :
              ChunksFromTheEnd(leaves)[i] =
                Merge(leaves[Len(leaves) - 2 * i + 1], leaves[Len(leaves) - 2 * i + 2])
<1>1. Len(leaves) \in Nat /\ Len(leaves) \div 2 \in Nat
  BY LenProperties
<1> QED
  BY <1>1 DEF ChunksFromTheEnd

\* The transaction hashes are the last nodes of the tree.
LEMMA TxHashesType ==
  ASSUME NEW n \in 0..MaxLeaves
  PROVE  /\ TxHashes(n) \in Seq(Node(n))
         /\ Len(TxHashes(n)) = n
         /\ \A k \in 1..n : TxHashes(n)[k] = CBMT[n][n - 2 + k]
<1>1. n \in Nat
  BY CBMTAssumption
<1>2. \A k \in 1..n : n - 2 + k \in 0..(2 * n - 2)
  BY <1>1
<1>3. \A k \in 1..n : CBMT[n][n - 2 + k] \in Node(n)
  BY <1>2 DEF Node
<1> QED
  BY <1>1, <1>3 DEF TxHashes

\* The first pass over the transaction hashes leaves a level in the queue.
LEMMA FirstPassIsLevel ==
  ASSUME NEW n \in 0..MaxLeaves
  PROVE  IsLevel(FirstPass(TxHashes(n)), n)
<1> DEFINE leaves == TxHashes(n)
           chunks == ChunksFromTheEnd(leaves)
           half == n \div 2
<1>1. n \in Nat /\ half \in Nat /\ n = (2 * half) + (n % 2) /\ n % 2 \in {0, 1}
  BY CBMTAssumption
<1>2. leaves \in Seq(Node(n)) /\ Len(leaves) = n
      /\ \A k \in 1..n : leaves[k] = CBMT[n][n - 2 + k]
  BY TxHashesType
<1>3. ASSUME NEW i \in 1..half
      PROVE  /\ Merge(leaves[n - 2 * i + 1], leaves[n - 2 * i + 2]) = CBMT[n][n - 1 - i]
             /\ CBMT[n][n - 1 - i] \in Node(n)
  <2> HIDE DEF leaves
  <2>1. n - 2 * i + 1 \in 1..n /\ n - 2 * i + 2 \in 1..n /\ n - 1 - i \in 0..(n - 2)
    BY <1>1
  <2>2. leaves[n - 2 * i + 1] = CBMT[n][2 * (n - 1 - i) + 1]
    <3>1. n - 2 + (n - 2 * i + 1) = 2 * (n - 1 - i) + 1
      BY <1>1
    <3>2. leaves[n - 2 * i + 1] = CBMT[n][n - 2 + (n - 2 * i + 1)]
      BY <2>1, <1>2
    <3> QED BY ONLY <3>1, <3>2
  <2>3. leaves[n - 2 * i + 2] = CBMT[n][2 * (n - 1 - i) + 2]
    <3>1. n - 2 + (n - 2 * i + 2) = 2 * (n - 1 - i) + 2
      BY <1>1
    <3>2. leaves[n - 2 * i + 2] = CBMT[n][n - 2 + (n - 2 * i + 2)]
      BY <2>1, <1>2
    <3> QED BY ONLY <3>1, <3>2
  <2>4. n \in 1..MaxLeaves
    BY <1>1, CBMTAssumption
  <2>5. CBMT[n][n - 1 - i] = Merge(CBMT[n][2 * (n - 1 - i) + 1], CBMT[n][2 * (n - 1 - i) + 2])
    BY <2>1, <2>4, CBMTAssumption
  <2>6. n - 1 - i \in 0..(2 * n - 2)
    BY <1>1
  <2> QED
    BY <2>2, <2>3, <2>5, <2>6 DEF Node
<1>4. /\ chunks \in Seq(Node(n)) /\ Len(chunks) = half
      /\ \A i \in 1..half : chunks[i] = CBMT[n][n - 1 - i]
  <2>1. \A i \in 1..(Len(leaves) \div 2) :
          Merge(leaves[Len(leaves) - 2 * i + 1], leaves[Len(leaves) - 2 * i + 2]) \in Node(n)
    BY <1>2, <1>3
  <2> HIDE DEF leaves
  <2>2. /\ ChunksFromTheEnd(leaves) \in Seq(Node(n))
        /\ Len(ChunksFromTheEnd(leaves)) = Len(leaves) \div 2
        /\ \A i \in 1..(Len(leaves) \div 2) :
             ChunksFromTheEnd(leaves)[i] =
               Merge(leaves[Len(leaves) - 2 * i + 1], leaves[Len(leaves) - 2 * i + 2])
    BY <2>1, <1>2, ChunksType
  <2> QED
    BY <2>2, <1>2, <1>3
<1> HIDE DEF leaves, chunks
<1>5. CASE n % 2 = 1
  <2>1. leaves[1] = CBMT[n][n - 1] /\ CBMT[n][n - 1] \in Node(n)
    <3>1. 1 \in 1..n /\ n - 1 \in 0..(2 * n - 2) /\ n - 2 + 1 = n - 1
      BY <1>1, <1>5
    <3> QED BY <3>1, <1>2 DEF Node
  <2>2. FirstPass(leaves) = <<leaves[1]>> \o chunks
    BY <1>2, <1>5 DEF FirstPass, chunks
  <2> DEFINE q == <<leaves[1]>> \o chunks
  <2>3. /\ q \in Seq(Node(n)) /\ Len(q) = half + 1
        /\ \A i \in 1..(half + 1) : q[i] = IF i <= 1 THEN leaves[1] ELSE chunks[i - 1]
    <3>1. <<leaves[1]>> \in Seq(Node(n)) /\ Len(<<leaves[1]>>) = 1 /\ <<leaves[1]>>[1] = leaves[1]
      BY <2>1
    <3>2. 1 + half = half + 1
      BY <1>1
    <3>3. /\ q \in Seq(Node(n)) /\ Len(q) = 1 + half
          /\ \A i \in 1..(1 + half) : q[i] = IF i <= 1 THEN <<leaves[1]>>[i] ELSE chunks[i - 1]
      BY <3>1, <1>4, ConcatProperties
    <3> HIDE DEF q
    <3> QED BY <3>1, <3>2, <3>3, <1>1
  <2> HIDE DEF q
  <2>4. ASSUME NEW i \in 1..(half + 1)
        PROVE  q[i] = CBMT[n][2 * (half + 1) - 1 - i]
    <3>1. CASE i = 1
      <4>1. q[i] = leaves[1]
        BY <3>1, <2>3, <1>1
      <4>2. 2 * (half + 1) - 1 - i = n - 1
        BY <3>1, <1>1, <1>5
      <4> QED BY <4>1, <4>2, <2>1
    <3>2. CASE i > 1
      <4>1. i - 1 \in 1..half
        BY <3>2, <1>1
      <4>2. q[i] = chunks[i - 1]
        BY <3>2, <2>3, <1>1
      <4>3. 2 * (half + 1) - 1 - i = n - 1 - (i - 1)
        BY <1>1, <1>5
      <4>4. chunks[i - 1] = CBMT[n][n - 1 - (i - 1)]
        BY <4>1, <1>4
      <4> QED BY <4>2, <4>3, <4>4
    <3> QED BY <3>1, <3>2, <1>1
  <2>5. 2 * (half + 1) <= n + 1
    BY <1>1, <1>5
  <2>6. FirstPass(leaves) = q
    BY <2>2 DEF q
  <2> HIDE DEF half
  <2>7. half + 1 > 0 /\ \A i \in 1..Len(q) : q[i] = CBMT[n][2 * Len(q) - 1 - i]
    BY <2>3, <2>4, <1>1
  <2>8. IsLevel(q, n)
    BY <2>3, <2>5, <2>7 DEF IsLevel
  <2> QED
    BY <2>6, <2>8 DEF leaves
<1>6. CASE n % 2 = 0
  <2>1. FirstPass(leaves) = chunks
    BY <1>2, <1>4, <1>6, ConcatEmptySeq DEF FirstPass, chunks
  <2>2. n - 1 = 2 * half - 1 /\ 2 * half <= n + 1 /\ (n > 0 => half > 0)
    BY <1>1, <1>6
  <2>3. \A i \in 1..half : chunks[i] = CBMT[n][2 * half - 1 - i]
    BY <2>2, <1>4
  <2> QED
    BY <2>1, <2>2, <2>3, <1>4 DEF IsLevel, leaves
<1> QED
  BY <1>1, <1>5, <1>6

\* One turn of the loop takes a level of k entries to one of k - 1 entries.
LEMMA MergeKeepsLevel ==
  ASSUME NEW n \in 0..MaxLeaves, NEW q, IsLevel(q, n), HasPair(q)
  PROVE  IsLevel(MergeFront(q), n)
<1> DEFINE k == Len(q)
           parent == Merge(q[2], q[1])
           rest == SubSeq(q, 3, k)
<1>1. /\ n \in Nat /\ q \in Seq(Node(n)) /\ k \in Nat /\ k > 1 /\ 2 * k <= n + 1
      /\ \A i \in 1..k : q[i] = CBMT[n][2 * k - 1 - i]
  BY CBMTAssumption, LenProperties DEF IsLevel, HasPair
<1> HIDE DEF k
<1>2. parent = CBMT[n][k - 2] /\ parent \in Node(n)
  <2>1. q[1] = CBMT[n][2 * (k - 2) + 2]
    <3>1. 1 \in 1..k /\ 2 * k - 1 - 1 = 2 * (k - 2) + 2
      BY <1>1
    <3> QED BY <3>1, <1>1
  <2>2. q[2] = CBMT[n][2 * (k - 2) + 1]
    <3>1. 2 \in 1..k /\ 2 * k - 1 - 2 = 2 * (k - 2) + 1
      BY <1>1
    <3> QED BY <3>1, <1>1
  <2>3. n \in 1..MaxLeaves /\ k - 2 \in 0..(n - 2) /\ k - 2 \in 0..(2 * n - 2)
    BY <1>1, CBMTAssumption
  <2>4. CBMT[n][k - 2] = Merge(CBMT[n][2 * (k - 2) + 1], CBMT[n][2 * (k - 2) + 2])
    BY <2>3, CBMTAssumption
  <2> QED
    BY <2>1, <2>2, <2>3, <2>4 DEF Node
<1>3. /\ rest \in Seq(Node(n)) /\ Len(rest) = k - 2
      /\ \A i \in 1..(k - 2) : rest[i] = q[i + 2]
  <2>1. \A i \in 3..k : q[i] \in Node(n)
    <3>1. \A i \in 3..k : i \in 1..k
      BY <1>1
    <3> QED BY <3>1, <1>1, ElementOfSeq DEF k
  <2>2. /\ SubSeq(q, 3, k) \in Seq(Node(n))
        /\ Len(SubSeq(q, 3, k)) = IF 3 <= k THEN k - 3 + 1 ELSE 0
        /\ \A i \in 1..(k - 3 + 1) : SubSeq(q, 3, k)[i] = q[3 + i - 1]
    BY <1>1, <2>1, SubSeqProperties
  <2>3. /\ (IF 3 <= k THEN k - 3 + 1 ELSE 0) = k - 2
        /\ k - 3 + 1 = k - 2 /\ \A i \in 1..(k - 2) : 3 + i - 1 = i + 2
    BY <1>1
  <2> QED
    BY <2>2, <2>3 DEF rest
<1> HIDE DEF parent, rest
<1>4. MergeFront(q) = Append(rest, parent)
  BY DEF MergeFront, rest, parent, k
<1>5. /\ Append(rest, parent) \in Seq(Node(n))
      /\ Len(Append(rest, parent)) = k - 1
      /\ \A i \in 1..(k - 2) : Append(rest, parent)[i] = rest[i]
      /\ Append(rest, parent)[k - 1] = parent
  BY <1>1, <1>2, <1>3, AppendProperties
<1>6. ASSUME NEW i \in 1..(k - 1)
      PROVE  Append(rest, parent)[i] = CBMT[n][2 * (k - 1) - 1 - i]
  <2>1. CASE i = k - 1
    <3>1. 2 * (k - 1) - 1 - i = k - 2
      BY <2>1, <1>1
    <3> QED BY <3>1, <2>1, <1>2, <1>5
  <2>2. CASE i < k - 1
    <3>1. i \in 1..(k - 2) /\ i + 2 \in 1..k
      BY <2>2, <1>1
    <3>2. Append(rest, parent)[i] = q[i + 2]
      BY <3>1, <1>3, <1>5
    <3>3. 2 * k - 1 - (i + 2) = 2 * (k - 1) - 1 - i
      BY <1>1
    <3>4. q[i + 2] = CBMT[n][2 * k - 1 - (i + 2)]
      BY <3>1, <1>1
    <3> QED BY ONLY <3>2, <3>3, <3>4
  <2>3. i = k - 1 \/ i < k - 1
    BY <1>1
  <2> QED BY <2>1, <2>2, <2>3
<1>7. 2 * (k - 1) <= n + 1 /\ k - 1 > 0
  BY <1>1
<1> QED
  BY <1>4, <1>5, <1>6, <1>7 DEF IsLevel

\* Two leaves: the first pass leaves one entry, their merge.
LEMMA PairIsMerged ==
  ASSUME NEW root
  PROVE  FirstPass(BothRoots(root)) = <<Merge(root, Witness)>>
<1> DEFINE leaves == <<root, Witness>>
<1>1. Len(leaves) = 2 /\ leaves[1] = root /\ leaves[2] = Witness /\ 2 \div 2 = 1 /\ 2 % 2 = 0
  OBVIOUS
<1>2. ChunksFromTheEnd(leaves) = [i \in 1..1 |-> Merge(root, Witness)]
  <2>1. \A i \in 1..1 : 2 - 2 * i + 1 = 1 /\ 2 - 2 * i + 2 = 2
    OBVIOUS
  <2> QED BY <1>1, <2>1 DEF ChunksFromTheEnd
<1>3. [i \in 1..1 |-> Merge(root, Witness)] = <<Merge(root, Witness)>>
  OBVIOUS
<1>4. FirstPass(leaves) = <<>> \o <<Merge(root, Witness)>>
  BY <1>1, <1>2, <1>3 DEF FirstPass
<1>5. <<Merge(root, Witness)>> \in Seq({Merge(root, Witness)})
  OBVIOUS
<1>6. <<>> \o <<Merge(root, Witness)>> = <<Merge(root, Witness)>>
  BY <1>5, ConcatEmptySeq
<1> QED
  BY <1>4, <1>6 DEF BothRoots
-----------------------------------------------------------------------------
\* The invariant holds when the first pass is done.
LEMMA QueueInvInit == Init => QueueInv
  BY FirstPassIsLevel DEF Init, QueueInv

\* Every turn of the loop and the end of each call preserve it.
LEMMA QueueInvInductive == QueueInv /\ [Next]_vars => QueueInv'
<1> SUFFICES ASSUME QueueInv, [Next]_vars PROVE QueueInv'
  OBVIOUS
<1> USE DEF QueueInv
<1>1. CASE MergeNext
  <2>1. stage = "raw"
    <3>1. Len(<<Merge(RawRoot, Witness)>>) = 1 /\ Len(<<>>) = 0
      OBVIOUS
    <3> QED BY <3>1, <1>1, SMTT(30) DEF MergeNext, HasPair
  <2>2. IsLevel(queue', count)
    BY <2>1, <1>1, MergeKeepsLevel DEF MergeNext
  <2> QED
    BY <2>1, <2>2, <1>1 DEF MergeNext
<1>2. CASE FinishRaw
  <2>1. /\ IsLevel(queue, count) /\ Len(queue) \in Nat /\ Len(queue) <= 1 /\ count \in Nat
    BY <1>2, LenProperties, CBMTAssumption DEF FinishRaw, HasPair, IsLevel
  <2>2. raw_root' = RawRoot
    <3>1. CASE count = 0
      <4>1. Len(queue) = 0 /\ queue = <<>>
        BY <2>1, <3>1, EmptySeq DEF IsLevel
      <4> QED BY <4>1, <3>1, <1>2 DEF FinishRaw, RawRoot
    <3>2. CASE count > 0
      <4>1. Len(queue) = 1 /\ 1 \in 1..Len(queue) /\ 2 * Len(queue) - 1 - 1 = 0
        <5>1. Len(queue) > 0
          BY <2>1, <3>2 DEF IsLevel
        <5>2. Len(queue) = 1
          <6>1. \A m \in Nat : m > 0 /\ m <= 1 => m = 1
            OBVIOUS
          <6> QED BY <6>1, <5>1, <2>1
        <5> QED BY ONLY <5>2
      <4>2. queue[1] = CBMT[count][0] /\ queue # <<>>
        BY <4>1, <2>1, SMTT(30) DEF IsLevel
      <4> QED BY <4>2, <3>2, <1>2 DEF FinishRaw, RawRoot
    <3> QED BY <3>1, <3>2, <2>1
  <2>3. queue' = <<Merge(RawRoot, Witness)>>
    BY <2>2, <1>2, PairIsMerged DEF FinishRaw
  <2>4. RawRoot' = RawRoot
    BY <1>2 DEF FinishRaw, RawRoot
  <2> QED
    BY <2>3, <2>4, <1>2 DEF FinishRaw
<1>3. CASE FinishBoth
  <2>1. queue[1] = Merge(RawRoot, Witness) /\ RawRoot' = RawRoot
    BY <1>3 DEF FinishBoth, RawRoot
  <2> QED
    BY <2>1, <1>3 DEF FinishBoth
<1>4. CASE UNCHANGED vars
  <2>1. RawRoot' = RawRoot
    BY <1>4 DEF vars, RawRoot
  <2> QED
    BY <2>1, <1>4 DEF vars, IsLevel
<1> QED
  BY <1>1, <1>2, <1>3, <1>4 DEF Next

\* The queue never holds more than half of the transactions, rounded up, and it
\* is empty in the end.
THEOREM TypeCorrect == Spec => []TypeOK
<1>1. QueueInv => TypeOK
  <2>1. Len(<<Merge(RawRoot, Witness)>>) = 1 /\ Len(<<>>) = 0
    OBVIOUS
  <2>2. count \in 0..MaxLeaves => 2 * 0 <= count + 1
    BY CBMTAssumption
  <2> QED
    BY <2>1, <2>2 DEF QueueInv, TypeOK, IsLevel
<1> QED
  BY <1>1, QueueInvInit, QueueInvInductive, PTL DEF Spec

\* The loop invariant of merkle_root, for any number of transactions: the queue
\* always holds the nodes of the tree that come next, in the order of the tree.
THEOREM QueueHoldsLevel == Spec => []QueueIsLevel
<1>1. QueueInv => QueueIsLevel
  <2>1. ASSUME QueueInv, stage = "raw", NEW i \in DOMAIN queue
        PROVE  queue[i] = CBMT[count][2 * Len(queue) - 1 - i]
    BY <2>1, LenProperties DEF QueueInv, IsLevel
  <2> QED BY <2>1 DEF QueueIsLevel
<1> QED
  BY <1>1, QueueInvInit, QueueInvInductive, PTL DEF Spec

\* For any number of transactions, the root that the guest program compares with
\* the header is the root of the complete binary Merkle tree of CKB, merged with
\* the witnesses root.
THEOREM RootCorrect == Spec => []RootIsCBMT
<1>1. QueueInv => RootIsCBMT
  BY DEF QueueInv, RootIsCBMT, RawRoot
<1> QED
  BY <1>1, QueueInvInit, QueueInvInductive, PTL DEF Spec
=============================================================================
