---------------------------- MODULE QueryCommand ----------------------------
(***************************************************************************)
(* The command query: sdk/src/cli/commands/query.ts shows the newest        *)
(* proposals and the votes on them, the ones that are consumed included,    *)
(* from what the indexer of a CKB node tells page by page while the chain   *)
(* goes on.                                                                 *)
(*                                                                          *)
(* txCache and tsCache only save requests: a transaction that is asked for  *)
(* twice is the same one.                                                   *)
(***************************************************************************)
EXTENDS Integers, FiniteSetsExt, SequencesExt

CONSTANTS
  Proposal, VoteCell,  \* the cells with these type scripts
  VoteOn,              \* the proposal whose hash a vote cell has for args
  Readable,            \* the cells whose data ProposalCodec, VoteCodec decode
  Count,               \* --count
  PageSize,            \* pageSize
  MaxTxs, MaxReorgs,   \* bounds
  None

Cell == Proposal \cup VoteCell

ASSUME QueryAssumption ==
  /\ Proposal \cap VoteCell = {}
  /\ "proposal" \notin Proposal
  /\ VoteOn \in [VoteCell -> Proposal]
  /\ Readable \subseteq Cell
  /\ {Count, PageSize} \subseteq Nat \ {0}
  /\ {MaxTxs, MaxReorgs} \subseteq Nat
  /\ None \notin Cell

VARIABLES
  chain,      \* the transactions that concern the command, with their blocks
  reorgs,
  phase,      \* of the command
  scan,       \* getAllTxEntries and prefetchTxs for each script asked for
  proposals,  \* the selected ones, newest first
  votes,      \* votesPerProposal
  printed     \* how many proposals are printed

node    == <<chain, reorgs>>
command == <<phase, scan, proposals, votes, printed>>
vars    == <<node, command>>
-----------------------------------------------------------------------------
(***************************************************************************)
(* The node.  A transaction spends at most one and creates at most one of   *)
(* the cells; a vote takes a live proposal.  What happens after the command  *)
(* is over is left out.                                                     *)
(***************************************************************************)
Created(txs) == {txs[i].creates : i \in DOMAIN txs} \ {None}
Spent(txs)   == {txs[i].spends : i \in DOMAIN txs} \ {None}

Tip == IF chain = <<>> THEN 0 ELSE Last(chain).block

Over == phase \in {"ended", "dead"}

Mine ==
  /\ ~Over
  /\ Len(chain) < MaxTxs
  /\ \E spends \in (Created(chain) \ Spent(chain)) \cup {None},
        creates \in (Cell \ Created(chain)) \cup {None}, block \in {Tip, Tip + 1} \ {0} :
       /\ <<spends, creates>> # <<None, None>>
       /\ creates \in VoteCell => VoteOn[creates] \in Created(chain) \ Spent(chain)
       /\ chain' = Append(chain, [spends |-> spends, creates |-> creates, block |-> block])
  /\ UNCHANGED <<reorgs, command>>

\* The last block is abandoned; its transactions may be mined again, or not.
Reorg ==
  /\ ~Over
  /\ reorgs < MaxReorgs /\ Tip > 0
  /\ chain' = SelectSeq(chain, LAMBDA tx : tx.block < Tip)
  /\ reorgs' = reorgs + 1
  /\ UNCHANGED command

\* The script of a cell: the proposal type script, with any args, or the vote
\* type script with those of a proposal.
ScriptOf(cell) == IF cell \in Proposal THEN "proposal" ELSE VoteOn[cell]

Script == {"proposal"} \cup Proposal

HashOf(tx) == <<tx.spends, tx.creates>>

\* The entries of get_transactions: one for each input and one for each output
\* with the script.  The keys go up along the chain.
EntriesOf(tx, i, script) ==
  {e \in {[key |-> 2 * i, io_type |-> "input", cell |-> tx.spends, tx |-> HashOf(tx),
           block_number |-> tx.block],
          [key |-> 2 * i + 1, io_type |-> "output", cell |-> tx.creates, tx |-> HashOf(tx),
           block_number |-> tx.block]} : e.cell # None /\ ScriptOf(e.cell) = script}

EntriesIn(txs, script) == UNION {EntriesOf(txs[i], i, script) : i \in DOMAIN txs}

\* The elements of a finite set in a strict total order: the k-th is the one with
\* k - 1 elements before it.
InOrder(S, Before(_, _)) ==
  [k \in 1..Cardinality(S) |-> CHOOSE x \in S : Cardinality({y \in S : Before(y, x)}) = k - 1]
-----------------------------------------------------------------------------
(***************************************************************************)
(* getAllTxEntries and prefetchTxs.                                         *)
(***************************************************************************)
\* The last field is a ghost: how long the chain was when it was last read.
NewScan == [phase |-> "paging", cursor |-> 0, entries |-> <<>>, missing |-> {}, seen |-> 0]

In(script, at) == phase = "reading" /\ scan[script] # None /\ scan[script].phase = at

NoScans == [script \in Script |-> None]
NoVotes == [p \in Proposal |-> <<>>]

Forget == scan' = NoScans /\ proposals' = <<>> /\ votes' = NoVotes /\ printed' = 0

\* die(): an error ends the process.
Die ==
  /\ phase' = "dead"
  /\ Forget
  /\ UNCHANGED node

\* The entries behind the cursor in ascending order, as many as the request asks
\* for.
NextPage(script) ==
  LET behind == InOrder({e \in EntriesIn(chain, script) : e.key > scan[script].cursor},
                        LAMBDA e, f : e.key < f.key)
  IN  IF Len(behind) > PageSize THEN SubSeq(behind, 1, PageSize) ELSE behind

\* Mutant: a page that is as long as it can be is taken for the last one.
GetFirstPage(script) ==
  /\ In(script, "paging")
  /\ LET entries == scan[script].entries \o NextPage(script)
     IN  scan' = [scan EXCEPT ![script] =
           [@ EXCEPT !.phase = "fetching", !.entries = entries, !.seen = Len(chain),
                     !.missing = {e.tx : e \in ToSet(entries)}]]
  /\ UNCHANGED <<node, phase, proposals, votes, printed>>

\* A page that is not full is the last one; then the transactions of all entries
\* are requested at once.
GetPage(script) ==
  /\ In(script, "paging")
  /\ LET page == NextPage(script)
         entries == scan[script].entries \o page
     IN  scan' = [scan EXCEPT ![script] =
           IF Len(page) < PageSize
           THEN [@ EXCEPT !.phase = "fetching", !.entries = entries, !.seen = Len(chain),
                          !.missing = {e.tx : e \in ToSet(entries)}]
           ELSE [@ EXCEPT !.entries = entries, !.cursor = Last(page).key]]
  /\ UNCHANGED <<node, phase, proposals, votes, printed>>

\* Mutant: a transaction that the node does not know is requested again.
FetchUntilKnown(script) ==
  /\ In(script, "fetching")
  /\ \E tx \in scan[script].missing :
       /\ \E i \in DOMAIN chain : HashOf(chain[i]) = tx
       /\ scan' = [scan EXCEPT ![script].missing = @ \ {tx}]
       /\ UNCHANGED <<node, phase, proposals, votes, printed>>

\* get_transaction answers one of the requests.  The node forgets a transaction
\* that is no longer on its chain, or keeps it in its pool.
Fetch(script) ==
  /\ In(script, "fetching")
  /\ \E tx \in scan[script].missing :
       \/ /\ scan' = [scan EXCEPT ![script].missing = @ \ {tx}]
          /\ UNCHANGED <<node, phase, proposals, votes, printed>>
       \/ /\ \A i \in DOMAIN chain : HashOf(chain[i]) # tx
          /\ Die

RequestFails == ~Over /\ Die
-----------------------------------------------------------------------------
(***************************************************************************)
(* collectProposals, collectVotesForProposal and the command.               *)
(***************************************************************************)
Fetched(script) == In(script, "fetching") /\ scan[script].missing = {}

\* consumedSet holds the previous outputs of the input entries.
IsConsumed(cell, entries) ==
  \E i \in DOMAIN entries : entries[i].io_type = "input" /\ entries[i].cell = cell

\* The output entries; those whose cells cannot be decoded are skipped.
Outputs(entries) ==
  {k \in DOMAIN entries : entries[k].io_type = "output" /\ entries[k].cell \in Readable}

\* What is known of their cells, each at the place of its entry.
Collected(script) ==
  LET entries == scan[script].entries
  IN  [k \in Outputs(entries) |->
         [cell |-> entries[k].cell, blockNumber |-> entries[k].block_number,
          isLive |-> ~IsConsumed(entries[k].cell, entries)]]

\* The sort is stable: in one block the one that was created first stays first.
NewestFirst(entries) ==
  InOrder(Outputs(entries), LAMBDA i, j :
    \/ entries[i].block_number > entries[j].block_number
    \/ entries[i].block_number = entries[j].block_number /\ i < j)

\* The newest Count proposals, and for each of them a scan for its votes.
SelectProposals ==
  /\ Fetched("proposal")
  /\ LET order == NewestFirst(scan["proposal"].entries)
         selected == [k \in 1..(IF Len(order) < Count THEN Len(order) ELSE Count) |->
                        Collected("proposal")[order[k]]]
     IN  /\ proposals' = selected
         /\ scan' = [script \in Script |->
              IF script = "proposal" THEN [scan[script] EXCEPT !.phase = "done"]
              ELSE IF \E k \in DOMAIN selected : selected[k].cell = script THEN NewScan
              ELSE None]
  /\ UNCHANGED <<node, phase, votes, printed>>

CollectVotes(p) ==
  /\ Fetched(p)
  /\ votes' = [votes EXCEPT ![p] = Collected(p)]
  /\ scan' = [scan EXCEPT ![p].phase = "done"]
  /\ UNCHANGED <<node, phase, proposals, printed>>

\* Promise.all over the selected proposals.
StartPrinting ==
  /\ In("proposal", "done")
  /\ \A k \in DOMAIN proposals : In(proposals[k].cell, "done")
  /\ phase' = "printing"
  /\ UNCHANGED <<node, scan, proposals, votes, printed>>

\* One proposal with its votes, after the timestamp of its block; there may be
\* no block with that number any more.
Show ==
  /\ phase = "printing" /\ printed < Len(proposals)
  /\ LET known == \E k \in 1..printed :
                    proposals[k].blockNumber = proposals[printed + 1].blockNumber
     IN  IF known \/ proposals[printed + 1].blockNumber <= Tip
         THEN printed' = printed + 1 /\ UNCHANGED <<node, phase, scan, proposals, votes>>
         ELSE Die

End ==
  /\ phase = "printing" /\ printed = Len(proposals)
  /\ phase' = "ended"
  /\ UNCHANGED <<node, scan, proposals, votes, printed>>
-----------------------------------------------------------------------------
Init ==
  /\ chain = <<>> /\ reorgs = 0
  /\ phase = "reading"
  /\ scan = [NoScans EXCEPT !["proposal"] = NewScan]
  /\ proposals = <<>>
  /\ votes = NoVotes
  /\ printed = 0

\* The command runs in one thread; its callbacks run as the answers arrive.
Step ==
  \/ \E script \in Script : GetPage(script) \/ Fetch(script)
  \/ SelectProposals
  \/ \E p \in Proposal : CollectVotes(p)
  \/ StartPrinting \/ Show \/ End

Next == Mine \/ Reorg \/ Step \/ RequestFails

\* Every request is answered.
Spec == Init /\ [][Next]_vars /\ WF_vars(Step)
-----------------------------------------------------------------------------
(***************************************************************************)
(* Properties.                                                              *)
(***************************************************************************)
\* What is shown of the cells of a script is what the chain said when its last
\* page was read.
IsSnapshot(shown, txs, cells) ==
  /\ \A j, k \in DOMAIN shown : shown[j].cell = shown[k].cell => j = k
  /\ {shown[k].cell : k \in DOMAIN shown} = Created(txs) \cap cells \cap Readable
  /\ \A k \in DOMAIN shown :
       /\ shown[k].isLive <=> shown[k].cell \notin Spent(txs)
       /\ \E i \in DOMAIN txs :
            txs[i].creates = shown[k].cell /\ txs[i].block = shown[k].blockNumber

Newest(shown, txs) ==
  LET block(cell) == CHOOSE n \in {txs[i].block : i \in DOMAIN txs} :
                       \E i \in DOMAIN txs : txs[i].creates = cell /\ txs[i].block = n
      there == Created(txs) \cap Proposal \cap Readable
      cells == {shown[k].cell : k \in DOMAIN shown} \cap Proposal
  IN  /\ \A j, k \in DOMAIN shown : j < k => shown[j].blockNumber >= shown[k].blockNumber
      /\ Len(shown) = IF Cardinality(there) < Count THEN Cardinality(there) ELSE Count
      /\ IsSnapshot(shown, txs, cells)
      /\ \A c \in there \ cells, d \in cells : block(c) <= block(d)

\* Paging while blocks arrive loses nothing and shows nothing twice: as long as
\* no block is abandoned, the list of proposals is the newest Count of the chain
\* at the moment of its last page, each list of votes is complete for the moment
\* of its own, and ACTIVE and consumed are right for these moments.
ShowsSnapshot ==
  (phase = "ended" /\ reorgs = 0) =>
    LET at(script) == SubSeq(chain, 1, scan[script].seen)
    IN  /\ Newest(proposals, at("proposal"))
        /\ \A k \in DOMAIN proposals :
             LET cell == proposals[k].cell
             IN  IsSnapshot(votes[cell], at(cell), {c \in VoteCell : VoteOn[c] = cell})

\* The command ends, with all it found or with an error, also when every page
\* it reads is full and while blocks keep coming.
Ends == <>Over
=============================================================================
