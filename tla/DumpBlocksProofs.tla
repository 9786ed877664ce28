-------------------------- MODULE DumpBlocksProofs --------------------------
(***************************************************************************)
(* The workers of dump-blocks share the indices of the window without       *)
(* overlap and without a gap, and the file is complete and in order, for    *)
(* any number of blocks and of workers and whatever the chain does.         *)
(*                                                                          *)
(* The argument is an invariant about each worker: the index it waits for   *)
(* is its own and lies below nextIdx, the answer it holds is the block with *)
(* the number of that index, and it leaves its loop only when no index is   *)
(* left.                                                                    *)
(*                                                                          *)
(* In the last part, which branch the blocks of the file are from: the main *)
(* chain's while it is stable, and a single one if the guest program takes  *)
(* the headers for a chain.                                                 *)
(***************************************************************************)
EXTENDS DumpBlocks, SequenceTheorems, WellFoundedInduction, TLAPS

\* Before the workers start there is nothing.
NothingYet ==
  stage = "find" =>
    /\ nextIdx = 0
    /\ \A w \in Worker : fetching[w] = None /\ reply[w] = None
    /\ \A idx \in Index : blocks[idx] = None

\* An index that is waited for or fetched has been taken.
TakenBelowNext ==
  /\ \A w \in Worker : fetching[w] # None => fetching[w] < nextIdx
  /\ \A idx \in Index : blocks[idx] # None => idx < nextIdx

\* An answer is the block with the number that was asked for.
RightNumber ==
  /\ \A w \in Worker : reply[w] # None =>
        fetching[w] # None /\ (reply[w] # Null => Len(reply[w]) = startNumber + fetching[w])
  /\ \A idx \in Index : blocks[idx] # None => Len(blocks[idx]) = startNumber + idx

\* A worker leaves its loop only when all indices are taken.
LeavesAtEnd ==
  stage = "fetch" => \A w \in Worker : fetching[w] = None => Count <= nextIdx

WorkersInv ==
  /\ TypeOK
  /\ NothingYet
  /\ TakenBelowNext
  /\ RightNumber
  /\ LeavesAtEnd
  /\ EachIndexOnce
  /\ FileIsComplete
-----------------------------------------------------------------------------
\* What the proofs use of the constants.
LEMMA Constants ==
  /\ Count \in Nat /\ Workers \in Nat /\ Workers <= Count
  /\ Count > 0 => Workers > 0
  /\ MaxHeight \in Nat /\ MaxReorgs \in Nat
  /\ Null \notin Hash /\ None \notin Hash /\ None \notin Index /\ Null # None
  /\ Worker = 1..Workers /\ Index = 0..(Count - 1)
  BY DumpAssumption DEF Workers, Worker, Index, Hash

\* A block that the node has, has the number it was asked for.
LEMMA BlockHasNumber ==
  ASSUME chain \in Hash, NEW number \in Nat
  PROVE  /\ BlockAt(number) \in Hash \cup {Null}
         /\ BlockAt(number) # Null => Len(BlockAt(number)) = number
<1>1. CASE number <= Len(chain)
  <2>1. Len(chain) \in Nat /\ chain \in Seq(Body)
    BY LenProperties DEF Hash
  <2>2. \A i \in 1..number : i \in 1..Len(chain)
    BY <1>1, <2>1
  <2>3. \A i \in 1..number : chain[i] \in Body
    BY <2>1, <2>2, ElementOfSeq
  <2>4. /\ SubSeq(chain, 1, number) \in Seq(Body)
        /\ Len(SubSeq(chain, 1, number)) = IF 1 <= number THEN number - 1 + 1 ELSE 0
    BY <2>3, SubSeqProperties
  <2>5. (IF 1 <= number THEN number - 1 + 1 ELSE 0) = number
    OBVIOUS
  <2> QED
    BY <1>1, <2>4, <2>5 DEF BlockAt, Hash
<1>2. CASE ~(number <= Len(chain))
  BY <1>2 DEF BlockAt
<1> QED
  BY <1>1, <1>2

\* The chain stays a sequence of bodies when it grows and when it branches.
LEMMA NodeType ==
  ASSUME chain \in Hash, known \subseteq Hash, Len(chain) <= MaxHeight,
         reorgs \in 0..MaxReorgs, Mine \/ Reorg
  PROVE  /\ chain' \in Hash /\ known' \subseteq Hash /\ Len(chain') <= MaxHeight
         /\ reorgs' \in 0..MaxReorgs
<1> USE DEF Hash
<1>0. Len(chain) \in Nat /\ MaxHeight \in Nat /\ MaxReorgs \in Nat
  BY LenProperties, Constants
<1>1. CASE Mine
  <2>1. PICK body \in Body :
          /\ Len(chain) < MaxHeight
          /\ chain' = Append(chain, body) /\ known' = known \cup {chain'} /\ reorgs' = reorgs
    BY <1>1 DEF Mine
  <2>2. chain' \in Seq(Body) /\ Len(chain') = Len(chain) + 1
    BY <2>1, AppendProperties
  <2> QED
    BY <2>1, <2>2, <1>0
<1>2. CASE Reorg
  <2>1. PICK keep \in 0..(Len(chain) - 1) :
          \E branch \in [1..(Len(chain) - keep + 1) -> Body] :
            LET new == SubSeq(chain, 1, keep) \o branch
            IN  /\ reorgs < MaxReorgs /\ Len(new) <= MaxHeight
                /\ chain' = new /\ reorgs' = reorgs + 1
                /\ known' = known \cup {SubSeq(new, 1, i) : i \in 1..Len(new)}
    BY <1>2 DEF Reorg
  <2>2. PICK branch \in [1..(Len(chain) - keep + 1) -> Body] :
          /\ reorgs < MaxReorgs
          /\ chain' = SubSeq(chain, 1, keep) \o branch
          /\ Len(chain') <= MaxHeight /\ reorgs' = reorgs + 1
          /\ known' = known \cup {SubSeq(chain', 1, i) : i \in 1..Len(chain')}
    BY <2>1
  <2>3. SubSeq(chain, 1, keep) \in Seq(Body)
    <3>1. \A i \in 1..keep : i \in 1..Len(chain)
      BY <1>0
    <3>2. \A i \in 1..keep : chain[i] \in Body
      BY <3>1, ElementOfSeq
    <3> QED BY <3>2, SubSeqProperties
  <2>4. branch \in Seq(Body)
    BY <1>0
  <2>5. chain' \in Seq(Body)
    BY <2>2, <2>3, <2>4, ConcatProperties
  <2>6. ASSUME NEW i \in 1..Len(chain') PROVE SubSeq(chain', 1, i) \in Seq(Body)
    <3>1. Len(chain') \in Nat
      BY <2>5, LenProperties
    <3>2. \A j \in 1..i : j \in 1..Len(chain')
      BY <3>1
    <3>3. \A j \in 1..i : chain'[j] \in Body
      BY <3>2, <2>5, ElementOfSeq
    <3> QED BY <3>3, SubSeqProperties
  <2>7. reorgs' \in 0..MaxReorgs
    BY <2>2, <1>0
  <2> QED
    BY <2>2, <2>5, <2>6, <2>7
<1> QED
  BY <1>1, <1>2
-----------------------------------------------------------------------------
\* The invariant holds before the command starts.
LEMMA WorkersInvInit == Init => WorkersInv
<1> SUFFICES ASSUME Init PROVE WorkersInv
  OBVIOUS
<1>1. <<>> \in Seq(Body) /\ Len(<<>>) = 0
  OBVIOUS
<1>2. TypeOK
  BY <1>1, Constants DEF Init, TypeOK, Hash
<1> QED
  BY <1>2 DEF Init, WorkersInv, NothingYet, TakenBelowNext, RightNumber, LeavesAtEnd,
              EachIndexOnce, FileIsComplete

\* What the node does, does not touch the command.
LEMMA NodeStep ==
  ASSUME WorkersInv, Mine \/ Reorg
  PROVE  WorkersInv'
<1>1. UNCHANGED dump
  BY DEF Mine, Reorg
<1>2. TypeOK'
  BY <1>1, NodeType DEF WorkersInv, TypeOK, dump
<1> QED
  BY <1>1, <1>2 DEF WorkersInv, dump, NothingYet, TakenBelowNext, RightNumber,
                    LeavesAtEnd, EachIndexOnce, FileIsComplete

\* When the command dies, nothing is asked of it any more.
LEMMA DieStep ==
  ASSUME WorkersInv, Die
  PROVE  WorkersInv'
<1>1. UNCHANGED <<chain, known, reorgs, startNumber, nextIdx, fetching, reply, blocks>>
      /\ stage' = "died"
  BY DEF Die, node
<1>2. TypeOK'
  BY <1>1 DEF WorkersInv, TypeOK
<1> QED
  BY <1>1, <1>2 DEF WorkersInv, NothingYet, TakenBelowNext, RightNumber,
                    LeavesAtEnd, EachIndexOnce, FileIsComplete

\* The workers start with one index each.
LEMMA FindStartStep ==
  ASSUME WorkersInv, FindStart
  PROVE  WorkersInv'
<1>1. /\ stage = "find" /\ stage' = "fetch" /\ nextIdx' = Workers
      /\ fetching' = [w \in Worker |-> w - 1]
      /\ UNCHANGED <<chain, known, reorgs, reply, blocks>>
  BY DEF FindStart, node
<1>2. startNumber' \in 0..MaxHeight
  <2>1. startNumber' \in CreatedAt
    BY DEF FindStart
  <2>2. chain \in Seq(Body) /\ Len(chain) \in Nat /\ Len(chain) <= MaxHeight
    BY LenProperties DEF WorkersInv, TypeOK, Hash
  <2>3. startNumber' \in 1..Len(chain)
    BY <2>1, <2>2, LenProperties DEF CreatedAt
  <2> QED
    BY <2>2, <2>3, Constants
<1>3. \A w \in Worker : w - 1 \in Index /\ w - 1 < Workers /\ w - 1 # None
  BY Constants
<1>4. \A w \in Worker : fetching'[w] = w - 1 /\ reply'[w] = None
  BY <1>1 DEF WorkersInv, NothingYet
<1>5. \A idx \in Index : blocks'[idx] = None
  BY <1>1 DEF WorkersInv, NothingYet
<1>6. TypeOK'
  BY <1>1, <1>2, <1>3, Constants DEF WorkersInv, TypeOK
<1>7. TakenBelowNext' /\ RightNumber' /\ LeavesAtEnd' /\ NothingYet' /\ FileIsComplete'
  BY <1>1, <1>3, <1>4, <1>5
     DEF TakenBelowNext, RightNumber, LeavesAtEnd, NothingYet, FileIsComplete
<1>8. EachIndexOnce'
  <2>1. ASSUME NEW idx \in Index, idx < nextIdx' PROVE \E w \in Worker : fetching'[w] = idx
    <3>1. idx \in Int /\ idx + 1 \in 1..Workers
      BY <2>1, <1>1, Constants
    <3>2. PICK w \in Worker : w = idx + 1
      BY <3>1, Constants
    <3>3. w - 1 = idx
      BY <3>1, <3>2
    <3> QED BY <3>2, <3>3, <1>4
  <2>2. ASSUME NEW w \in Worker, NEW x \in Worker, fetching'[w] = fetching'[x] PROVE w = x
    BY <2>2, <1>4, Constants
  <2>3. \A w \in Worker : fetching'[w] # None => blocks'[fetching'[w]] = None
    BY <1>3, <1>4, <1>5
  <2> QED
    BY <2>1, <2>2, <2>3 DEF EachIndexOnce
<1> QED
  BY <1>6, <1>7, <1>8 DEF WorkersInv

\* An answer arrives for the index its worker waits for.
LEMMA ServeStep ==
  ASSUME WorkersInv, NEW w \in Worker, Serve(w)
  PROVE  WorkersInv'
<1> DEFINE block == BlockAt(startNumber + fetching[w])
<1>1. /\ stage = "fetch" /\ fetching[w] # None
      /\ reply' = [reply EXCEPT ![w] = block]
      /\ UNCHANGED <<chain, known, reorgs, stage, startNumber, nextIdx, fetching, blocks>>
  BY DEF Serve, Waiting, Number, node
<1>2. startNumber + fetching[w] \in Nat /\ chain \in Hash
  <2>1. fetching[w] \in Index /\ startNumber \in 0..MaxHeight /\ chain \in Hash
    BY <1>1 DEF WorkersInv, TypeOK
  <2> QED BY <2>1, Constants
<1>3. /\ block \in Hash \cup {Null}
      /\ block # Null => Len(block) = startNumber + fetching[w]
  BY <1>2, BlockHasNumber
<1> HIDE DEF block
<1>4. reply \in [Worker -> Hash \cup {Null, None}]
  BY DEF WorkersInv, TypeOK
<1>5. reply'[w] = block /\ \A x \in Worker \ {w} : reply'[x] = reply[x]
  BY <1>1, <1>4
<1>6. reply' \in [Worker -> Hash \cup {Null, None}]
  BY <1>1, <1>3, <1>4
<1>7. TypeOK'
  BY <1>1, <1>6 DEF WorkersInv, TypeOK
<1>8. RightNumber'
  <2>1. ASSUME NEW x \in Worker, reply'[x] # None
        PROVE  fetching'[x] # None
               /\ (reply'[x] # Null => Len(reply'[x]) = startNumber' + fetching'[x])
    <3>1. CASE x = w
      BY <3>1, <1>1, <1>3, <1>5
    <3>2. CASE x # w
      BY <3>2, <2>1, <1>1, <1>5 DEF WorkersInv, RightNumber
    <3> QED BY <3>1, <3>2
  <2>2. \A idx \in Index : blocks'[idx] # None => Len(blocks'[idx]) = startNumber' + idx
    BY <1>1 DEF WorkersInv, RightNumber
  <2> QED BY <2>1, <2>2 DEF RightNumber
<1> QED
  BY <1>1, <1>7, <1>8 DEF WorkersInv, NothingYet, TakenBelowNext, LeavesAtEnd,
                          EachIndexOnce, FileIsComplete

\* A worker stores its block and takes the next index, or leaves its loop.
LEMMA ReceiveStep ==
  ASSUME WorkersInv, NEW w \in Worker, Receive(w)
  PROVE  WorkersInv'
<1> DEFINE mine == fetching[w]
           block == reply[w]
           next == TakeIndex(w)
<1>1. /\ stage = "fetch" /\ block \notin {None, Null}
      /\ blocks' = [blocks EXCEPT ![mine] = block]
      /\ fetching' = [fetching EXCEPT ![w] = next]
      /\ nextIdx' = nextIdx + 1
      /\ reply' = [reply EXCEPT ![w] = None]
      /\ UNCHANGED <<chain, known, reorgs, stage, startNumber>>
  BY DEF Receive, node
<1>2. /\ nextIdx \in Nat
      /\ fetching \in [Worker -> Index \cup {None}]
      /\ reply \in [Worker -> Hash \cup {Null, None}]
      /\ blocks \in [Index -> Hash \cup {None}]
  BY DEF WorkersInv, TypeOK
<1>3. /\ mine \in Index /\ mine # None /\ mine < nextIdx
      /\ block \in Hash /\ block # None /\ Len(block) = startNumber + mine
  BY <1>1, <1>2 DEF WorkersInv, RightNumber, TakenBelowNext
<1>4. /\ next \in Index \cup {None}
      /\ next # None => next = nextIdx /\ next \in Index
      /\ next = None => Count <= nextIdx
  BY <1>2, Constants DEF TakeIndex
<1> HIDE DEF mine, block, next
<1>5. /\ blocks'[mine] = block /\ \A idx \in Index \ {mine} : blocks'[idx] = blocks[idx]
      /\ fetching'[w] = next /\ \A x \in Worker \ {w} : fetching'[x] = fetching[x]
      /\ reply'[w] = None /\ \A x \in Worker \ {w} : reply'[x] = reply[x]
  BY <1>1, <1>2, <1>3
<1>6. TypeOK'
  <2>1. /\ nextIdx' \in Nat
        /\ fetching' \in [Worker -> Index \cup {None}]
        /\ reply' \in [Worker -> Hash \cup {Null, None}]
        /\ blocks' \in [Index -> Hash \cup {None}]
    BY <1>1, <1>2, <1>3, <1>4
  <2> QED BY <2>1, <1>1 DEF WorkersInv, TypeOK
<1>7. TakenBelowNext'
  <2>1. ASSUME NEW x \in Worker, fetching'[x] # None PROVE fetching'[x] < nextIdx'
    <3>1. CASE x = w
      BY <3>1, <2>1, <1>1, <1>2, <1>4, <1>5
    <3>2. CASE x # w
      <4>1. fetching[x] \in Index /\ fetching[x] < nextIdx /\ fetching'[x] = fetching[x]
        BY <3>2, <2>1, <1>2, <1>5 DEF WorkersInv, TakenBelowNext
      <4> QED BY <4>1, <1>1, <1>2, Constants
    <3> QED BY <3>1, <3>2
  <2>2. ASSUME NEW idx \in Index, blocks'[idx] # None PROVE idx < nextIdx'
    <3>1. idx < nextIdx
      BY <2>2, <1>3, <1>5 DEF WorkersInv, TakenBelowNext
    <3> QED BY <3>1, <1>1, <1>2, Constants
  <2> QED BY <2>1, <2>2 DEF TakenBelowNext
<1>8. RightNumber'
  <2>1. \A x \in Worker : reply'[x] # None =>
          x # w /\ reply'[x] = reply[x] /\ fetching'[x] = fetching[x]
    BY <1>5
  <2>2. \A idx \in Index : blocks'[idx] # None => Len(blocks'[idx]) = startNumber' + idx
    BY <1>1, <1>3, <1>5 DEF WorkersInv, RightNumber
  <2> QED
    BY <2>1, <2>2, <1>1 DEF WorkersInv, RightNumber
<1>9. LeavesAtEnd'
  <2>1. ASSUME NEW x \in Worker, fetching'[x] = None PROVE Count <= nextIdx
    BY <2>1, <1>1, <1>4, <1>5 DEF WorkersInv, LeavesAtEnd
  <2>2. \A x \in Worker : fetching'[x] = None => Count <= nextIdx'
    BY <2>1, <1>1, <1>2, Constants
  <2> QED BY <2>2 DEF LeavesAtEnd
<1>10. EachIndexOnce'
  <2>1. ASSUME NEW idx \in Index, idx < nextIdx', blocks'[idx] = None
        PROVE  \E x \in Worker : fetching'[x] = idx
    <3>1. idx # mine /\ blocks[idx] = None
      BY <2>1, <1>3, <1>5
    <3>2. CASE idx < nextIdx
      <4>1. PICK x \in Worker : fetching[x] = idx
        BY <3>1, <3>2, <1>1 DEF WorkersInv, EachIndexOnce
      <4>2. x # w
        BY <4>1, <3>1 DEF mine
      <4> QED BY <4>1, <4>2, <1>5
    <3>3. CASE idx = nextIdx
      <4>1. next = idx
        BY <3>3, <1>2, Constants DEF next, TakeIndex
      <4> QED BY <4>1, <1>5
    <3> QED BY <3>2, <3>3, <2>1, <1>1, <1>2, Constants
  <2>2. ASSUME NEW x \in Worker, fetching'[x] # None
        PROVE  blocks'[fetching'[x]] = None
    <3>1. CASE x = w
      <4>1. next = nextIdx /\ next \in Index /\ next # mine
        BY <3>1, <2>2, <1>2, <1>3, <1>4, <1>5, Constants
      <4>2. blocks[next] = None
        BY <4>1, <1>2, Constants DEF WorkersInv, TakenBelowNext
      <4> QED BY <4>1, <4>2, <3>1, <1>5
    <3>2. CASE x # w
      <4>1. fetching'[x] = fetching[x] /\ fetching[x] # None /\ fetching[x] \in Index
        BY <3>2, <2>2, <1>2, <1>5
      <4>2. fetching[x] # mine /\ blocks[fetching[x]] = None
        BY <4>1, <3>2, <1>1 DEF WorkersInv, EachIndexOnce, mine
      <4> QED BY <4>1, <4>2, <1>5
    <3> QED BY <3>1, <3>2
  <2>3. ASSUME NEW x \in Worker, NEW y \in Worker,
               fetching'[x] = fetching'[y], fetching'[x] # None, x # y
        PROVE  FALSE
    <3>1. \A z \in Worker : fetching[z] # None => fetching[z] # nextIdx
      BY <1>2, Constants DEF WorkersInv, TakenBelowNext
    <3>2. CASE x = w
      BY <3>1, <3>2, <2>3, <1>4, <1>5
    <3>3. CASE y = w
      BY <3>1, <3>3, <2>3, <1>4, <1>5
    <3>4. CASE x # w /\ y # w
      BY <3>4, <2>3, <1>1, <1>5 DEF WorkersInv, EachIndexOnce
    <3> QED BY <3>2, <3>3, <3>4
  <2> QED
    BY <2>1, <2>2, <2>3 DEF EachIndexOnce
<1> QED
  BY <1>1, <1>6, <1>7, <1>8, <1>9, <1>10 DEF WorkersInv, NothingYet, FileIsComplete

\* All workers have left their loops: nothing is missing.
LEMMA WriteFileStep ==
  ASSUME WorkersInv, WriteFile
  PROVE  WorkersInv'
<1>1. /\ stage = "fetch" /\ stage' = "written" /\ AllFinished
      /\ UNCHANGED <<chain, known, reorgs, startNumber, nextIdx, fetching, reply, blocks>>
  BY DEF WriteFile, node
<1>2. ASSUME NEW idx \in Index
      PROVE  blocks[idx] # None /\ Len(blocks[idx]) = startNumber + idx
  <2>1. 1 \in Worker
    BY Constants
  <2>2. Count <= nextIdx /\ nextIdx \in Nat
    BY <2>1, <1>1 DEF AllFinished, WorkersInv, LeavesAtEnd, TypeOK
  <2>3. idx < nextIdx /\ idx # None
    BY <2>2, Constants
  <2>4. blocks[idx] # None
    BY <2>3, <1>1 DEF AllFinished, WorkersInv, EachIndexOnce
  <2> QED
    BY <2>4 DEF WorkersInv, RightNumber
<1>3. TypeOK'
  BY <1>1 DEF WorkersInv, TypeOK
<1> QED
  BY <1>1, <1>2, <1>3 DEF WorkersInv, NothingYet, TakenBelowNext, RightNumber,
                          LeavesAtEnd, EachIndexOnce, FileIsComplete

\* Every step of the command and of the node preserves the invariant.
LEMMA WorkersInvInductive == WorkersInv /\ [Next]_vars => WorkersInv'
<1> SUFFICES ASSUME WorkersInv, [Next]_vars PROVE WorkersInv'
  OBVIOUS
<1>1. CASE Mine \/ Reorg
  BY <1>1, NodeStep
<1>2. CASE FindStart
  BY <1>2, FindStartStep
<1>3. CASE FindFails
  BY <1>3, DieStep DEF FindFails
<1>4. CASE WriteFile
  BY <1>4, WriteFileStep
<1>5. ASSUME NEW w \in Worker, Serve(w) PROVE WorkersInv'
  BY <1>5, ServeStep
<1>6. ASSUME NEW w \in Worker, Receive(w) PROVE WorkersInv'
  BY <1>6, ReceiveStep
<1>7. ASSUME NEW w \in Worker, RequestFails(w) \/ ReceiveNull(w) PROVE WorkersInv'
  BY <1>7, DieStep DEF RequestFails, ReceiveNull
<1>8. CASE UNCHANGED vars
  <2>1. TypeOK'
    BY <1>8 DEF WorkersInv, TypeOK, vars, node, dump
  <2> QED
    BY <2>1, <1>8 DEF vars, node, dump, WorkersInv, NothingYet, TakenBelowNext, RightNumber,
                      LeavesAtEnd, EachIndexOnce, FileIsComplete
<1> QED
  BY <1>1, <1>2, <1>3, <1>4, <1>5, <1>6, <1>7, <1>8 DEF Next

\* The invariant holds in every state.
LEMMA WorkersInvAlways == Spec => []WorkersInv
  BY WorkersInvInit, WorkersInvInductive, PTL DEF Spec

\* The variables of the command and of the node keep their types.
THEOREM TypeCorrect == Spec => []TypeOK
<1>1. WorkersInv => TypeOK
  BY DEF WorkersInv
<1> QED
  BY <1>1, WorkersInvAlways, PTL

\* The workers share the indices: none is left out and none is fetched twice, by
\* whatever number of workers and in whatever order the answers arrive.
THEOREM IndicesAreShared == Spec => []EachIndexOnce
<1>1. WorkersInv => EachIndexOnce
  BY DEF WorkersInv
<1> QED
  BY <1>1, WorkersInvAlways, PTL

\* The file that dump-blocks writes has the block of every number of the window
\* at its place, also when the node changes its branch meanwhile.
THEOREM FileHasEveryNumber == Spec => []FileIsComplete
<1>1. WorkersInv => FileIsComplete
  BY DEF WorkersInv
<1> QED
  BY <1>1, WorkersInvAlways, PTL
(***************************************************************************)
(* The blocks of the file and the branches of the node.                     *)
(***************************************************************************)
\* A prefix agrees place by place.
LEMMA PrefixPlaces ==
  ASSUME NEW s \in Hash, NEW t \in Hash
  PROVE  IsPrefix(s, t) <=> Len(s) <= Len(t) /\ \A i \in 1..Len(s) : s[i] = t[i]
<1> USE DEF Hash
<1>1. Len(s) \in Nat /\ Len(t) \in Nat
  BY LenProperties
<1>2. SubSeq(s, 1, Len(s)) = s
  BY SubSeqFull
<1>3. SUFFICES ASSUME Len(s) <= Len(t)
               PROVE  SubSeq(t, 1, Len(s)) = s <=> \A i \in 1..Len(s) : s[i] = t[i]
  BY <1>2 DEF IsPrefix
<1>4. \A i \in 1..Len(s) : i \in 1..Len(t) /\ t[i] \in Body
  BY <1>1, <1>3, ElementOfSeq
<1>5. /\ SubSeq(t, 1, Len(s)) \in Seq(Body)
      /\ Len(SubSeq(t, 1, Len(s))) = IF 1 <= Len(s) THEN Len(s) - 1 + 1 ELSE 0
      /\ \A i \in 1..(Len(s) - 1 + 1) : SubSeq(t, 1, Len(s))[i] = t[1 + i - 1]
  BY <1>1, <1>4, SubSeqProperties
<1>6. Len(SubSeq(t, 1, Len(s))) = Len(s) /\ \A i \in 1..Len(s) : SubSeq(t, 1, Len(s))[i] = t[i]
  BY <1>1, <1>5
<1> QED
  BY <1>5, <1>6, SeqEqual

\* The first part of a sequence is a prefix of it.
LEMMA PartIsPrefix ==
  ASSUME NEW t \in Hash, NEW n \in 0..Len(t)
  PROVE  /\ SubSeq(t, 1, n) \in Hash /\ Len(SubSeq(t, 1, n)) = n
         /\ \A i \in 1..n : SubSeq(t, 1, n)[i] = t[i]
         /\ IsPrefix(SubSeq(t, 1, n), t)
<1> USE DEF Hash
<1>1. Len(t) \in Nat /\ n \in Nat /\ n <= Len(t)
  BY LenProperties
<1>2. \A i \in 1..n : t[i] \in Body
  BY <1>1, ElementOfSeq
<1>3. /\ SubSeq(t, 1, n) \in Seq(Body)
      /\ Len(SubSeq(t, 1, n)) = IF 1 <= n THEN n - 1 + 1 ELSE 0
      /\ \A i \in 1..(n - 1 + 1) : SubSeq(t, 1, n)[i] = t[1 + i - 1]
  BY <1>1, <1>2, SubSeqProperties
<1>4. Len(SubSeq(t, 1, n)) = n /\ \A i \in 1..n : SubSeq(t, 1, n)[i] = t[i]
  BY <1>1, <1>3
<1> QED
  BY <1>1, <1>3, <1>4, PrefixPlaces

\* A prefix of a prefix is one.
LEMMA PrefixOfPrefix ==
  ASSUME NEW s \in Hash, NEW t \in Hash, NEW u \in Hash, IsPrefix(s, t), IsPrefix(t, u)
  PROVE  IsPrefix(s, u)
<1>1. Len(s) \in Nat /\ Len(t) \in Nat /\ Len(u) \in Nat
  BY LenProperties DEF Hash
<1>2. /\ Len(s) <= Len(t) /\ \A i \in 1..Len(s) : s[i] = t[i]
      /\ Len(t) <= Len(u) /\ \A i \in 1..Len(t) : t[i] = u[i]
  BY PrefixPlaces
<1>3. \A i \in 1..Len(s) : s[i] = u[i]
  BY <1>1, <1>2
<1> QED
  BY <1>1, <1>2, <1>3, PrefixPlaces

\* What a chain was before it grew is a prefix of it.
LEMMA PrefixOfGrown ==
  ASSUME NEW t \in Hash, NEW body \in Body
  PROVE  Append(t, body) \in Hash /\ IsPrefix(t, Append(t, body))
<1>1. Len(t) \in Nat
  BY LenProperties DEF Hash
<1> DEFINE u == Append(t, body)
<1>2. u \in Hash /\ Len(u) = Len(t) + 1 /\ \A i \in 1..Len(t) : u[i] = t[i]
  BY <1>1, AppendProperties DEF Hash
<1> HIDE DEF u
<1>3. IsPrefix(t, u)
  BY <1>1, <1>2, PrefixPlaces
<1> QED
  BY <1>2, <1>3 DEF u

\* Every block of the main chain is known, and so is every block that the command
\* has got; it asks for none below the one with the proposal.
BlocksAreKnown ==
  /\ \A n \in 1..Len(chain) : SubSeq(chain, 1, n) \in known
  /\ stage \in {"fetch", "written"} => startNumber > 0
  /\ \A w \in Worker : reply[w] \notin {None, Null} => reply[w] \in known
  /\ \A idx \in Index : blocks[idx] # None => blocks[idx] \in known

\* As long as the node stays on its branch, what the command has is on it.
OnTheBranch ==
  reorgs = 0 =>
    /\ stage \in {"fetch", "written"} => startNumber \in CreatedAt
    /\ \A w \in Worker : reply[w] \notin {None, Null} => IsPrefix(reply[w], chain)
    /\ \A idx \in Index : blocks[idx] # None => IsPrefix(blocks[idx], chain)

BranchInv == WorkersInv /\ BlocksAreKnown /\ OnTheBranch
-----------------------------------------------------------------------------
\* A new block leaves everything on the branch.
LEMMA MineBranch ==
  ASSUME BranchInv, Mine
  PROVE  BlocksAreKnown' /\ OnTheBranch'
<1>0. chain \in Hash /\ Len(chain) \in Nat
  BY LenProperties DEF BranchInv, WorkersInv, TypeOK, Hash
<1>1. PICK body \in Body :
        /\ chain' = Append(chain, body) /\ known' = known \cup {chain'}
        /\ UNCHANGED <<reorgs, stage, startNumber, nextIdx, fetching, reply, blocks>>
  BY DEF Mine, dump
<1>2. chain' \in Hash /\ IsPrefix(chain, chain') /\ Len(chain') = Len(chain) + 1
  BY <1>0, <1>1, PrefixOfGrown, AppendProperties DEF Hash
<1>3. \A n \in 1..Len(chain') : SubSeq(chain', 1, n) \in known'
  <2> SUFFICES ASSUME NEW n \in 1..Len(chain') PROVE SubSeq(chain', 1, n) \in known'
    OBVIOUS
  <2>1. CASE n = Len(chain')
    BY <1>1, <1>2, <2>1, SubSeqFull DEF Hash
  <2>2. CASE n # Len(chain')
    <3>1. n \in 1..Len(chain) /\ n \in 0..Len(chain) /\ n \in 0..Len(chain')
      BY <1>0, <1>2, <2>2
    <3>2. /\ SubSeq(chain, 1, n) \in Hash /\ Len(SubSeq(chain, 1, n)) = n
          /\ \A i \in 1..n : SubSeq(chain, 1, n)[i] = chain[i]
          /\ SubSeq(chain', 1, n) \in Hash /\ Len(SubSeq(chain', 1, n)) = n
          /\ \A i \in 1..n : SubSeq(chain', 1, n)[i] = chain'[i]
      BY <1>0, <1>2, <3>1, PartIsPrefix
    <3>3. \A i \in 1..Len(chain) : chain[i] = chain'[i]
      BY <1>0, <1>2, PrefixPlaces
    <3>4. SubSeq(chain', 1, n) = SubSeq(chain, 1, n)
      BY <3>1, <3>2, <3>3, SeqEqual DEF Hash
    <3> QED
      BY <1>1, <3>1, <3>4 DEF BranchInv, BlocksAreKnown
  <2> QED
    BY <2>1, <2>2
<1>4. BlocksAreKnown'
  BY <1>1, <1>3 DEF BranchInv, BlocksAreKnown
<1>5. ASSUME NEW block \in Hash, IsPrefix(block, chain)
      PROVE  IsPrefix(block, chain')
  BY <1>0, <1>2, <1>5, PrefixOfPrefix
<1>6. \A number \in CreatedAt : number \in CreatedAt'
  <2> SUFFICES ASSUME NEW number \in CreatedAt PROVE number \in CreatedAt'
    OBVIOUS
  <2>1. number \in 1..Len(chain) /\ chain[number] = Creation
    BY <1>0, LenProperties DEF CreatedAt, Hash
  <2>2. chain'[number] = chain[number]
    BY <1>0, <1>2, <2>1, PrefixPlaces
  <2>3. number \in DOMAIN chain'
    BY <1>0, <1>2, <2>1, LenProperties DEF Hash
  <2> QED
    BY <2>1, <2>2, <2>3 DEF CreatedAt
<1>7. OnTheBranch'
  <2>1. \A w \in Worker : reply[w] \in Hash \cup {Null, None}
    BY DEF BranchInv, WorkersInv, TypeOK
  <2>2. \A idx \in Index : blocks[idx] \in Hash \cup {None}
    BY DEF BranchInv, WorkersInv, TypeOK
  <2> QED
    BY <1>1, <1>5, <1>6, <2>1, <2>2 DEF BranchInv, OnTheBranch
<1> QED
  BY <1>4, <1>7

\* A change of the branch makes the blocks of the new one known.
LEMMA ReorgBranch ==
  ASSUME BranchInv, Reorg
  PROVE  BlocksAreKnown' /\ OnTheBranch'
<1>1. /\ reorgs' = reorgs + 1
      /\ UNCHANGED <<stage, startNumber, nextIdx, fetching, reply, blocks>>
      /\ known' = known \cup {SubSeq(chain', 1, i) : i \in 1..Len(chain')}
  BY DEF Reorg, dump
<1>2. BlocksAreKnown'
  BY <1>1 DEF BranchInv, BlocksAreKnown
<1>3. reorgs' # 0
  BY <1>1 DEF BranchInv, WorkersInv, TypeOK
<1> QED
  BY <1>2, <1>3 DEF OnTheBranch

\* The command starts at a block of the main chain.
LEMMA FindStartBranch ==
  ASSUME BranchInv, FindStart
  PROVE  BlocksAreKnown' /\ OnTheBranch'
<1>1. startNumber' \in CreatedAt /\ UNCHANGED <<chain, known, reorgs, reply, blocks>>
  BY DEF FindStart, node
<1>2. startNumber' > 0
  <2>1. startNumber' \in 1..Len(chain) /\ Len(chain) \in Nat
    BY <1>1, LenProperties DEF CreatedAt, BranchInv, WorkersInv, TypeOK, Hash
  <2> QED
    BY <2>1
<1>3. CreatedAt' = CreatedAt
  BY <1>1 DEF CreatedAt
<1> QED
  BY <1>1, <1>2, <1>3 DEF BranchInv, BlocksAreKnown, OnTheBranch

\* The node answers with a block of its branch.
LEMMA ServeBranch ==
  ASSUME BranchInv, NEW w \in Worker, Serve(w)
  PROVE  BlocksAreKnown' /\ OnTheBranch'
<1> DEFINE number == startNumber + fetching[w]
           block == BlockAt(number)
<1>1. /\ stage = "fetch" /\ fetching[w] # None
      /\ reply' = [reply EXCEPT ![w] = block]
      /\ UNCHANGED <<chain, known, reorgs, stage, startNumber, nextIdx, fetching, blocks>>
  BY DEF Serve, Waiting, Number, node
<1>2. number \in Nat /\ number > 0 /\ chain \in Hash /\ Len(chain) \in Nat
  <2>1. fetching[w] \in Index /\ startNumber \in 0..MaxHeight /\ chain \in Hash
    BY <1>1 DEF BranchInv, WorkersInv, TypeOK
  <2>2. startNumber > 0
    BY <1>1 DEF BranchInv, BlocksAreKnown
  <2> QED
    BY <2>1, <2>2, Constants, LenProperties DEF Hash
<1>3. block # Null => block \in known /\ IsPrefix(block, chain)
  <2> SUFFICES ASSUME block # Null PROVE block \in known /\ IsPrefix(block, chain)
    OBVIOUS
  <2> HIDE DEF number
  <2>1. number <= Len(chain) /\ block = SubSeq(chain, 1, number)
    BY DEF BlockAt
  <2>2. number \in 0..Len(chain) /\ number \in 1..Len(chain)
    BY <1>2, <2>1
  <2> QED
    BY <1>2, <2>1, <2>2, PartIsPrefix DEF BranchInv, BlocksAreKnown
<1> HIDE DEF block
<1>4. reply'[w] = block /\ \A x \in Worker \ {w} : reply'[x] = reply[x]
  BY <1>1 DEF BranchInv, WorkersInv, TypeOK
<1>5. BlocksAreKnown'
  BY <1>1, <1>3, <1>4 DEF BranchInv, BlocksAreKnown
<1>6. CreatedAt' = CreatedAt
  BY <1>1 DEF CreatedAt
<1>7. OnTheBranch'
  BY <1>1, <1>3, <1>4, <1>6 DEF BranchInv, OnTheBranch
<1> QED
  BY <1>5, <1>7

\* A worker stores the block it has got.
LEMMA ReceiveBranch ==
  ASSUME BranchInv, NEW w \in Worker, Receive(w)
  PROVE  BlocksAreKnown' /\ OnTheBranch'
<1>1. /\ reply[w] \notin {None, Null}
      /\ blocks' = [blocks EXCEPT ![fetching[w]] = reply[w]]
      /\ reply' = [reply EXCEPT ![w] = None]
      /\ UNCHANGED <<chain, known, reorgs, stage, startNumber>>
  BY DEF Receive, node
<1>2. \A x \in Worker : reply'[x] # None => reply'[x] = reply[x]
  BY <1>1 DEF BranchInv, WorkersInv, TypeOK
<1>3. \A idx \in Index : blocks'[idx] = blocks[idx] \/ blocks'[idx] = reply[w]
  BY <1>1 DEF BranchInv, WorkersInv, TypeOK
<1>4. BlocksAreKnown'
  BY <1>1, <1>2, <1>3 DEF BranchInv, BlocksAreKnown
<1>5. CreatedAt' = CreatedAt
  BY <1>1 DEF CreatedAt
<1>6. OnTheBranch'
  BY <1>1, <1>2, <1>3, <1>5 DEF BranchInv, OnTheBranch
<1> QED
  BY <1>4, <1>6

\* A step that touches neither the node nor a block leaves all as it is; the
\* command writes its file only after it has fetched.
LEMMA RestBranch ==
  ASSUME BranchInv, UNCHANGED <<chain, known, reorgs, startNumber, reply, blocks>>,
         stage' \in {"fetch", "written"} => stage \in {"fetch", "written"}
  PROVE  BlocksAreKnown' /\ OnTheBranch'
<1>1. CreatedAt' = CreatedAt
  BY DEF CreatedAt
<1> QED
  BY <1>1 DEF BranchInv, BlocksAreKnown, OnTheBranch

\* The invariant holds in every state.
LEMMA BranchInvAlways == Spec => []BranchInv
<1>1. Init => BlocksAreKnown /\ OnTheBranch
  BY DEF Init, BlocksAreKnown, OnTheBranch
<1>2. BranchInv /\ [Next]_vars => BlocksAreKnown' /\ OnTheBranch'
  <2> SUFFICES ASSUME BranchInv, [Next]_vars PROVE BlocksAreKnown' /\ OnTheBranch'
    OBVIOUS
  <2>1. CASE Mine \/ Reorg
    BY <2>1, MineBranch, ReorgBranch
  <2>2. CASE FindStart
    BY <2>2, FindStartBranch
  <2>3. CASE \E w \in Worker : Serve(w) \/ Receive(w)
    BY <2>3, ServeBranch, ReceiveBranch
  <2>4. CASE \/ FindFails \/ WriteFile \/ UNCHANGED vars
             \/ \E w \in Worker : RequestFails(w) \/ ReceiveNull(w)
    <3>1. /\ UNCHANGED <<chain, known, reorgs, startNumber, reply, blocks>>
          /\ stage' \in {"fetch", "written"} => stage \in {"fetch", "written"}
      BY <2>4 DEF FindFails, WriteFile, RequestFails, ReceiveNull, Die, node, dump, vars
    <3> QED
      BY <3>1, RestBranch
  <2> QED
    BY <2>1, <2>2, <2>3, <2>4 DEF Next
<1>3. BranchInv /\ [Next]_vars => BranchInv'
  BY <1>2, WorkersInvInductive DEF BranchInv
<1>4. Init => BranchInv
  BY <1>1, WorkersInvInit DEF BranchInv
<1> QED
  BY <1>3, <1>4, PTL DEF Spec

\* What dump-blocks writes while the node stays on its branch is the part of the
\* main chain that begins with the block of the proposal: for any number of blocks
\* and of workers, also when the chain grows meanwhile.
THEOREM StableDumpIsChain == Spec => []StableChainIsDumped
<1>1. ASSUME BranchInv PROVE StableChainIsDumped
  <2> SUFFICES ASSUME stage = "written", reorgs = 0, Count > 0
               PROVE  /\ Last(blocks[0]) = Creation
                      /\ \A idx \in Index : IsPrefix(blocks[idx], chain)
    BY DEF StableChainIsDumped
  <2>1. \A idx \in Index : /\ blocks[idx] \in Hash /\ IsPrefix(blocks[idx], chain)
                           /\ Len(blocks[idx]) = startNumber + idx
    BY <1>1 DEF BranchInv, WorkersInv, TypeOK, FileIsComplete, OnTheBranch
  <2>2. 0 \in Index
    BY Constants
  <2>3. /\ chain \in Hash /\ startNumber \in 1..Len(chain) /\ chain[startNumber] = Creation
        /\ Len(chain) \in Nat
    BY <1>1, LenProperties
    DEF BranchInv, WorkersInv, TypeOK, OnTheBranch, CreatedAt, Hash
  <2>4. blocks[0] \in Hash /\ IsPrefix(blocks[0], chain) /\ Len(blocks[0]) = startNumber
    BY <2>1, <2>2, <2>3
  <2>5. startNumber \in 1..Len(blocks[0])
    BY <2>3, <2>4
  <2>6. blocks[0][startNumber] = chain[startNumber]
    BY <2>3, <2>4, <2>5, PrefixPlaces
  <2> QED
    BY <2>1, <2>3, <2>4, <2>6 DEF Last
<1>2. BranchInv => StableChainIsDumped
  BY <1>1
<1> QED
  BY <1>2, BranchInvAlways, PTL

\* Natural numbers are well founded: a set of them has a smallest element.
LEMMA Smallest ==
  ASSUME NEW T, T \subseteq Nat, T # {}
  PROVE  \E x \in T : \A y \in T : x <= y
<1>1. \E Less : /\ IsWellFoundedOn(Less, Nat)
                /\ \A x, y \in Nat : y < x => <<y, x>> \in Less
  <2> DEFINE R == OpToRel(<, Nat)
  <2>1. IsWellFoundedOn(R, Nat)
    BY NatLessThanWellFounded
  <2>2. \A x, y \in Nat : y < x => <<y, x>> \in R
    BY DEF OpToRel
  <2> HIDE DEF R
  <2> QED
    BY <2>1, <2>2
<1>2. PICK Less : /\ IsWellFoundedOn(Less, Nat)
                  /\ \A x, y \in Nat : y < x => <<y, x>> \in Less
  BY <1>1
<1>3. PICK x \in T : \A y \in T : ~(<<y, x>> \in Less)
  BY <1>2, WFMin
<1>4. \A y \in T : ~(y < x)
  BY <1>2, <1>3
<1> QED
  BY <1>4

\* If each block of the file has the one in front of it for its parent, they are
\* all prefixes of the last one: a first place, counted from the end, where this
\* fails would contradict that its successor names it as its parent.
LEMMA ChainedIsPrefixes ==
  ASSUME Count > 0, Chained, NEW start \in Nat \ {0},
         \A idx \in Index : blocks[idx] \in Hash /\ Len(blocks[idx]) = start + idx
  PROVE  \A idx \in Index : IsPrefix(blocks[idx], blocks[Count - 1])
<1> DEFINE T == {n \in 0..(Count - 1) : ~IsPrefix(blocks[(Count - 1) - n], blocks[Count - 1])}
<1>1. Count \in Nat /\ Index = 0..(Count - 1) /\ Count - 1 \in Index
  BY Constants
<1>2. T = {}
  <2> SUFFICES ASSUME T # {} PROVE FALSE
    OBVIOUS
  <2>1. T \subseteq Nat
    BY <1>1
  <2>2. PICK n \in T : \A m \in T : n <= m
    BY <2>1, Smallest
  <2>3. n # 0
    <3>1. blocks[Count - 1] \in Hash
      BY <1>1
    <3>2. IsPrefix(blocks[Count - 1], blocks[Count - 1])
      <4>1. Len(blocks[Count - 1]) \in Nat
        BY <3>1, LenProperties DEF Hash
      <4> QED
        BY <3>1, <4>1, PrefixPlaces
    <3>3. (Count - 1) - 0 = Count - 1
      BY <1>1
    <3> QED
      BY <2>2, <3>2, <3>3
  <2> DEFINE k == (Count - 1) - n
  <2>4. n - 1 \in 0..(Count - 1) /\ n - 1 \notin T /\ (Count - 1) - (n - 1) = k + 1
    <3>1. n \in 0..(Count - 1)
      BY <2>2
    <3> HIDE DEF T
    <3>2. ~(n <= n - 1)
      BY <3>1
    <3> QED
      BY <1>1, <2>2, <2>3, <3>1, <3>2
  <2>5. IsPrefix(blocks[k + 1], blocks[Count - 1])
    <3>1. IsPrefix(blocks[(Count - 1) - (n - 1)], blocks[Count - 1])
      BY <2>4
    <3> QED
      BY <2>4, <3>1
  <2>6. k \in Index /\ k + 1 \in Index \ {0}
    BY <1>1, <2>2, <2>3
  <2>7. ~IsPrefix(blocks[k], blocks[Count - 1])
    BY <2>2
  <2> HIDE DEF k
  <2>8. Front(blocks[k + 1]) = blocks[(k + 1) - 1] /\ (k + 1) - 1 = k
    BY <1>1, <2>6 DEF Chained, ParentMatches
  <2>9. Len(blocks[k + 1]) = start + (k + 1) /\ k \in Nat
    BY <1>1, <2>6
  <2>10. IsPrefix(blocks[k], blocks[k + 1])
    <3>1. Len(blocks[k + 1]) - 1 \in 0..Len(blocks[k + 1])
      BY <2>9
    <3>2. blocks[k + 1] \in Hash
      BY <2>6
    <3>3. IsPrefix(SubSeq(blocks[k + 1], 1, Len(blocks[k + 1]) - 1), blocks[k + 1])
      BY <3>1, <3>2, PartIsPrefix
    <3> QED
      BY <2>8, <3>3 DEF Front
  <2>11. blocks[k] \in Hash /\ blocks[k + 1] \in Hash /\ blocks[Count - 1] \in Hash
    BY <1>1, <2>6
  <2> QED
    BY <2>5, <2>7, <2>10, <2>11, PrefixOfPrefix
<1> SUFFICES ASSUME NEW idx \in Index PROVE IsPrefix(blocks[idx], blocks[Count - 1])
  OBVIOUS
<1>3. (Count - 1) - idx \in 0..(Count - 1) /\ (Count - 1) - ((Count - 1) - idx) = idx
  BY <1>1
<1> QED
  BY <1>2, <1>3

\* A file whose headers the guest program accepts as a chain lies on one branch
\* that the node was on, whatever reorganisations the workers have met.
THEOREM ChainedDumpIsOneBranch == Spec => []AcceptedFileIsOneBranch
<1>1. ASSUME BranchInv PROVE AcceptedFileIsOneBranch
  <2> SUFFICES ASSUME stage = "written", Chained, Count > 0
               PROVE  \E hash \in known : \A idx \in Index : IsPrefix(blocks[idx], hash)
    BY DEF AcceptedFileIsOneBranch
  <2>1. \A idx \in Index : /\ blocks[idx] \in Hash /\ blocks[idx] \in known
                           /\ Len(blocks[idx]) = startNumber + idx
    BY <1>1 DEF BranchInv, WorkersInv, TypeOK, FileIsComplete, BlocksAreKnown
  <2>2. startNumber \in Nat \ {0}
    BY <1>1, Constants DEF BranchInv, WorkersInv, TypeOK, BlocksAreKnown
  <2>3. Count - 1 \in Index
    BY Constants
  <2>4. \A idx \in Index : IsPrefix(blocks[idx], blocks[Count - 1])
    BY <2>1, <2>2, ChainedIsPrefixes
  <2> QED
    BY <2>1, <2>3, <2>4
<1>2. BranchInv => AcceptedFileIsOneBranch
  BY <1>1
<1> QED
  BY <1>2, BranchInvAlways, PTL
=============================================================================
