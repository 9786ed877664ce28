----------------------------- MODULE DumpBlocks -----------------------------
(***************************************************************************)
(* The command dump-blocks of the SDK, sdk/src/cli/commands/dump-blocks.ts: *)
(* several workers fetch the blocks of the voting window by their number,   *)
(* while the node they ask may switch to another branch, and the file they  *)
(* write is what the guest program gets.                                    *)
(*                                                                          *)
(* A worker runs from one await to the next without interruption.  A block  *)
(* is named by its hash, which commits to all blocks up to it: the sequence *)
(* of their bodies.                                                         *)
(***************************************************************************)
EXTENDS Integers, SequencesExt

CONSTANTS
  Count,        \* --count
  Concurrency,  \* --concurrency
  Body,         \* what the transactions of a block can be
  Creation,     \* the body with the transaction --proposal-tx-hash
  Null,         \* the reply of the node for a number it has no block for
  None,
  MaxHeight,    \* bound: blocks on the chain
  MaxReorgs     \* bound: changes of the branch

ASSUME DumpAssumption ==
  /\ {Count, MaxHeight, MaxReorgs} \subseteq Nat
  /\ Concurrency \in Nat \ {0}
  /\ Creation \in Body
  /\ {Null, None} \cap Seq(Body) = {} /\ Null # None
  /\ None \notin Nat

\* Never more workers than blocks.
Workers == IF Concurrency < Count THEN Concurrency ELSE Count
Worker == 1..Workers
Index == 0..(Count - 1)

VARIABLES
  chain,        \* the main chain of the node
  known,        \* the hashes of all blocks that were ever on it
  reorgs,       \* how often it changed the branch
  stage,        \* of the command: it looks for the start block, fetches, and ends
  startNumber,  \* the number of the block with the proposal
  nextIdx,      \* the first index that no worker has taken
  fetching,     \* the index each worker waits for, None when it has left its loop
  reply,        \* what the node answered to it, None while it has not
  blocks        \* the array of the blocks

node   == <<chain, known, reorgs>>
dump   == <<stage, startNumber, nextIdx, fetching, reply, blocks>>
vars   == <<node, dump>>

BlockAt(number) == IF number <= Len(chain) THEN SubSeq(chain, 1, number) ELSE Null

CreatedAt == {number \in DOMAIN chain : chain[number] = Creation}

Init ==
  /\ chain = <<>>
  /\ known = {}
  /\ reorgs = 0
  /\ stage = "find"
  /\ startNumber = 0
  /\ nextIdx = 0
  /\ fetching = [w \in Worker |-> None]
  /\ reply = [w \in Worker |-> None]
  /\ blocks = [idx \in Index |-> None]
-----------------------------------------------------------------------------
(***************************************************************************)
(* The node.  What it does after the end of the command is left out.        *)
(***************************************************************************)
Running == stage \in {"find", "fetch"}

\* A transaction is on a chain once.
Mine ==
  \E body \in Body :
    /\ Running
    /\ Len(chain) < MaxHeight
    /\ body = Creation => CreatedAt = {}
    /\ chain' = Append(chain, body)
    /\ known' = known \cup {chain'}
    /\ UNCHANGED <<reorgs, dump>>

\* The last blocks leave the main chain for one that is longer by a block.
Reorg ==
  \E keep \in 0..(Len(chain) - 1) :
    \E branch \in [1..(Len(chain) - keep + 1) -> Body] :
      LET new == SubSeq(chain, 1, keep) \o branch
      IN  /\ Running
          /\ reorgs < MaxReorgs
          /\ Len(new) <= MaxHeight
          /\ branch[1] # chain[keep + 1]
          /\ \A i, k \in DOMAIN new : new[i] = Creation /\ new[k] = Creation => i = k
          /\ chain' = new
          /\ known' = known \cup {SubSeq(new, 1, i) : i \in 1..Len(new)}
          /\ reorgs' = reorgs + 1
          /\ UNCHANGED dump
-----------------------------------------------------------------------------
(***************************************************************************)
(* The command.                                                             *)
(***************************************************************************)
\* die(): the process ends and nothing is written.
Die ==
  /\ stage' = "died"
  /\ UNCHANGED <<node, startNumber, nextIdx, fetching, reply, blocks>>

\* findStartBlockNumber, and the start of the workers: each takes its first
\* index before the first of them gets an answer.
FindStart ==
  /\ stage = "find"
  /\ CreatedAt # {}
  /\ startNumber' = CHOOSE number \in CreatedAt : TRUE
  /\ fetching' = [w \in Worker |-> w - 1]
  /\ nextIdx' = Workers
  /\ stage' = "fetch"
  /\ UNCHANGED <<node, reply, blocks>>

\* The transaction is not committed, or the request fails.
FindFails == stage = "find" /\ Die

Waiting(w) == stage = "fetch" /\ fetching[w] # None /\ reply[w] = None

\* Mutant: the block with the proposal is left out.
NumberBehind(w) == startNumber + fetching[w] + 1

Number(w) == startNumber + fetching[w]

\* The node answers get_block_by_number from the chain it has then.
Serve(w) ==
  /\ Waiting(w)
  /\ reply' = [reply EXCEPT ![w] = BlockAt(Number(w))]
  /\ UNCHANGED <<node, stage, startNumber, nextIdx, fetching, blocks>>

\* A request that fails rejects the promise of its worker, Promise.all rejects.
RequestFails(w) == Waiting(w) /\ Die

\* Mutant: idx > count in place of idx >= count.
TakePastEnd(w) == IF nextIdx <= Count THEN nextIdx ELSE None

\* Mutant: a worker goes on with the index behind its own.
TakeSuccessor(w) == IF fetching[w] + 1 < Count THEN fetching[w] + 1 ELSE None

\* const idx = nextIdx++; if (idx >= count) break;
TakeIndex(w) == IF nextIdx < Count THEN nextIdx ELSE None

\* The worker stores its block and goes on with the next index.
Receive(w) ==
  /\ stage = "fetch" /\ reply[w] \notin {None, Null}
  /\ blocks' = [blocks EXCEPT ![fetching[w]] = reply[w]]
  /\ fetching' = [fetching EXCEPT ![w] = TakeIndex(w)]
  /\ nextIdx' = nextIdx + 1
  /\ reply' = [reply EXCEPT ![w] = None]
  /\ UNCHANGED <<node, stage, startNumber>>

\* Mutant: the exception is lost and the worker never finishes.
IgnoreNull(w) == stage = "fetch" /\ reply[w] = Null /\ UNCHANGED vars

\* null.startsWith throws: there is no block with that number.
ReceiveNull(w) == stage = "fetch" /\ reply[w] = Null /\ Die

\* Mutant: Promise.race in place of Promise.all.
AnyFinished == Worker = {} \/ \E w \in Worker : fetching[w] = None

AllFinished == \A w \in Worker : fetching[w] = None

\* Promise.all and writeFileSync.
WriteFile ==
  /\ stage = "fetch"
  /\ AllFinished
  /\ stage' = "written"
  /\ UNCHANGED <<node, startNumber, nextIdx, fetching, reply, blocks>>

Answer(w) == Serve(w) \/ RequestFails(w)

Next ==
  \/ Mine \/ Reorg
  \/ FindStart \/ FindFails \/ WriteFile
  \/ \E w \in Worker : Serve(w) \/ RequestFails(w) \/ Receive(w) \/ ReceiveNull(w)

\* The node answers every request or the request fails, and the event loop runs
\* what is ready.  Nothing is assumed of the chain.
Fairness ==
  /\ WF_vars(FindStart \/ FindFails)
  /\ WF_vars(WriteFile)
  /\ \A w \in Worker : WF_vars(Answer(w)) /\ WF_vars(Receive(w) \/ ReceiveNull(w))

Spec == Init /\ [][Next]_vars /\ Fairness
-----------------------------------------------------------------------------
(***************************************************************************)
(* Properties.                                                              *)
(***************************************************************************)
Hash == Seq(Body)

TypeOK ==
  /\ chain \in Hash /\ known \subseteq Hash
  /\ Len(chain) <= MaxHeight /\ reorgs \in 0..MaxReorgs
  /\ stage \in {"find", "fetch", "written", "died"}
  /\ startNumber \in 0..MaxHeight
  /\ nextIdx \in Nat
  /\ fetching \in [Worker -> Index \cup {None}]
  /\ reply \in [Worker -> Hash \cup {Null, None}]
  /\ blocks \in [Index -> Hash \cup {None}]

\* The workers share the indices: those taken are fetched or being fetched, by
\* one worker each, and no block is fetched a second time.
EachIndexOnce ==
  stage = "fetch" =>
    /\ \A idx \in Index :
         idx < nextIdx => blocks[idx] # None \/ \E w \in Worker : fetching[w] = idx
    /\ \A w \in Worker : fetching[w] # None => blocks[fetching[w]] = None
    /\ \A w, x \in Worker : fetching[w] = fetching[x] /\ fetching[w] # None => w = x

\* The file has a block for each number of the window, in the order of the
\* numbers, whatever the order of the answers.
FileIsComplete ==
  stage = "written" =>
    \A idx \in Index : blocks[idx] # None /\ Len(blocks[idx]) = startNumber + idx

\* While the node stays on its branch, the file is the part of the main chain
\* that begins with the block of the proposal.
StableChainIsDumped ==
  (stage = "written" /\ reorgs = 0 /\ Count > 0) =>
    /\ Last(blocks[0]) = Creation
    /\ \A idx \in Index : IsPrefix(blocks[idx], chain)

\* Mutant: the parent hash is not compared.
Unchecked(idx) == TRUE

\* What verify_block_integrity asks of the headers.
ParentMatches(idx) == Front(blocks[idx]) = blocks[idx - 1]

Chained == \A idx \in Index \ {0} : ParentMatches(idx)

\* A file with blocks of two branches does not get past the guest program.
AcceptedFileIsOneBranch ==
  (stage = "written" /\ Chained /\ Count > 0) =>
    \E hash \in known : \A idx \in Index : IsPrefix(blocks[idx], hash)

\* The command ends, with a file or with an error.
Ends == <>~Running
=============================================================================
