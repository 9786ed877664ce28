----------------------------- MODULE Settlement -----------------------------
(***************************************************************************)
(* From the creation of a proposal cell to its consumption: the chain with  *)
(* its reorganisations, a prover who may feed the guest program any blocks, *)
(* the guest program, and the proposal type script that checks the proof.   *)
(*                                                                          *)
(* Sources: contracts/proposal-type-script/src/main.rs, the guest program   *)
(* sp1/ckb-vote-verification/program/src/main.rs and, in                    *)
(* crates/verification/src/lib.rs, verify_block_integrity, find_proposal    *)
(* and the checks of count_vote that come before the replay.                *)
(*                                                                          *)
(* Hashes are injective.  A header commits to its parent's hash and to the  *)
(* transactions of its block, so the hash of a block is the sequence of the *)
(* bodies up to it: Hash(header) = Append(header.parent_hash, header.root). *)
(* A body is the one event of the block that concerns the proposals.  How   *)
(* the votes are counted is the subject of VotingWindow: here each vote     *)
(* weighs the same and the majority passes.                                 *)
(***************************************************************************)
EXTENDS Integers, SequencesExt, FiniteSets

CONSTANTS
  Proposal,     \* proposal type scripts; the Type ID makes each of them unique
  Duration,     \* the durations that the data of a proposal cell can contain
  Vk,           \* the verifying key hash in the args of a proposal type script
  GuestVk,      \* the verifying key hash of the guest program in src/
  NoData,       \* Proposal::default()
  Forged,       \* bound: bodies a prover puts in headers that nobody mined
  MaxHeight,    \* bound: blocks on the chain
  MaxReorgs,    \* bound: reorganisations
  MaxFed        \* bound: blocks that a prover feeds to the guest program

ASSUME SettlementAssumption ==
  /\ Duration \subseteq Nat
  /\ NoData \notin Duration
  /\ {MaxHeight, MaxReorgs, MaxFed} \subseteq Nat

-----------------------------------------------------------------------------
VARIABLES
  chain,    \* the main chain: the body of each block
  known,    \* the hashes of all blocks that were ever on the main chain
  reorgs    \* how many reorganisations there were

vars == <<chain, known, reorgs>>

Event ==
  [kind: {"create"}, proposal: Proposal, data: Duration]
    \cup [kind: {"yes", "no", "settle"}, proposal: Proposal]
    \cup [kind: {"other"}]

Creates(body, p) == body.kind = "create" /\ body.proposal = p

BlockHash == Seq(Event)

ASSUME ForgedAssumption == Forged \subseteq Event

Header(hash) == [parent_hash |-> Front(hash), transactions_root |-> Last(hash)]
HeaderHash(header) == Append(header.parent_hash, header.transactions_root)

\* A header dependency has to be on the main chain.
MainChain == {SubSeq(chain, 1, i) : i \in 1..Len(chain)}

(***************************************************************************)
(* The cells of a proposal on the main chain.                               *)
(***************************************************************************)
\* The blocks with an output that carries the proposal type script.
OutputBlocks(p) ==
  {i \in DOMAIN chain : Creates(chain[i], p)}

Settled(p) == \E i \in DOMAIN chain : chain[i] = [kind |-> "settle", proposal |-> p]
Live(p) == OutputBlocks(p) # {} /\ ~Settled(p)

\* The data of the live proposal cell.
CellData(p) ==
  LET last == CHOOSE i \in OutputBlocks(p) : \A k \in OutputBlocks(p) : k <= i
  IN  chain[last].data
-----------------------------------------------------------------------------
(***************************************************************************)
(* The guest program.                                                       *)
(***************************************************************************)
PublicValues(data, start, end, p, passed) ==
  [proposal |-> data, start_block_hash |-> start, end_block_hash |-> end,
   proposal_script |-> p, passed |-> passed]

\* find_proposal: the data of the first output with the type script p in the
\* first block, or nothing.
FindProposal(blocks, p) ==
  LET body == blocks[1].body
  IN  IF Creates(body, p) THEN body.data ELSE NoData

VotesIn(blocks, kind, p) ==
  Cardinality({i \in DOMAIN blocks : blocks[i].body = [kind |-> kind, proposal |-> p]})

\* Mutant: the block of the creation does not count as part of the window.
CountsShortWindow(blocks, p) ==
  LET data == FindProposal(blocks, p)
  IN  /\ data # NoData
      /\ Len(blocks) = data
      /\ VotesIn(blocks, "yes", p) > VotesIn(blocks, "no", p)

\* count_vote: without the proposal, or with any other number of blocks than
\* duration + 1, the vote has failed.
CountPassed(blocks, p) ==
  LET data == FindProposal(blocks, p)
  IN  /\ data # NoData
      /\ Len(blocks) = data + 1
      /\ VotesIn(blocks, "yes", p) > VotesIn(blocks, "no", p)

\* main: what the guest program commits for the blocks it was fed.
GuestResult(blocks, p) ==
  PublicValues(FindProposal(blocks, p), HeaderHash(blocks[1].header),
               HeaderHash(Last(blocks).header), p, CountPassed(blocks, p))

\* Mutant: the parent hash is not checked.
ExtendsAnything(blocks, block) == TRUE

\* verify_block_integrity, the header chain: the next block names the last one.
ExtendsBlocks(blocks, block) ==
  blocks # <<>> => block.header.parent_hash = HeaderHash(Last(blocks).header)

\* verify_block_integrity, the transactions of one block.
RootMatches(block) == block.header.transactions_root = block.body
-----------------------------------------------------------------------------
(***************************************************************************)
(* The proposal type script.                                                *)
(***************************************************************************)
\* Mutant: nothing but the Type ID is checked where the script is in the outputs.
MayUpdate(in_inputs, in_outputs) == TRUE

\* AppearsOnBothSides: a proposal cell cannot be updated.
NotOnBothSides(in_inputs, in_outputs) == ~(in_inputs /\ in_outputs)

\* verify_creation: the Type ID allows an output without an input only once and
\* an output with an input always.  The checks of the verifying key, the vote
\* script, the duration, the amount and the requirement are stubs that accept
\* everything.
CreationAccepted(p, in_inputs) == in_inputs \/ OutputBlocks(p) = {}

\* Mutant: the type script in the public values is not compared.
AcceptsOtherScript(p, start_dep, end_dep, pf) ==
  LET pv == pf.public_values
  IN  /\ pv.proposal = CellData(p)
      /\ pv.start_block_hash = start_dep
      /\ pv.end_block_hash = end_dep
      /\ pv.passed
      /\ pf.program = Vk[p]

\* Consumption: the public values have to match the cell, the header_deps and
\* the script, say that the vote passed, and be proved for the key in args.
ConsumptionAccepted(p, start_dep, end_dep, pf) ==
  LET pv == pf.public_values
  IN  /\ pv.proposal = CellData(p)
      /\ pv.start_block_hash = start_dep
      /\ pv.end_block_hash = end_dep
      /\ pv.proposal_script = p
      /\ pv.passed
      /\ pf.program = Vk[p]
-----------------------------------------------------------------------------
(***************************************************************************)
(* The provers.                                                             *)
(***************************************************************************)
\* What a prover can feed: the headers of this or of an abandoned branch and,
\* as the guest program does not look at the proof of work, a header that nobody
\* mined on top of one of them; each with any body.
Feedable ==
  [header: {Header(hash) : hash \in known}
             \cup [parent_hash: known, transactions_root: Forged],
   body: {Last(hash) : hash \in known} \cup Forged]

\* The lists of blocks for which the guest program does not panic, by their length.
Matching == {block \in Feedable : RootMatches(block)}

Longer(lists) ==
  UNION {{Append(blocks, block) : block \in {b \in Matching : ExtendsBlocks(blocks, b)}} :
         blocks \in lists}

VerifiedOf[n \in 0..MaxFed] == IF n = 0 THEN {<<>>} ELSE Longer(VerifiedOf[n - 1])

Verified == UNION {VerifiedOf[n] : n \in 1..MaxFed}

Proof(program, public_values) == [program |-> program, public_values |-> public_values]

\* Anyone can run the guest program for any type script.
GuestProofs == {Proof(GuestVk, GuestResult(blocks, p)) : blocks \in Verified, p \in Proposal}

\* Another program, with another verifying key, can claim whatever it likes.
OtherProofs ==
  [program: {Vk[p] : p \in Proposal} \ {GuestVk},
   public_values: [proposal: Duration, start_block_hash: known, end_block_hash: known,
                   proposal_script: Proposal, passed: {TRUE}]]

\* A proof does not expire and a block, once known, stays known: what can be
\* proved by now contains every proof that was made before, on any branch.
Provable == GuestProofs \cup OtherProofs
-----------------------------------------------------------------------------
Init ==
  /\ chain = <<>>
  /\ known = {}
  /\ reorgs = 0

Mine(event) ==
  /\ Len(chain) < MaxHeight
  /\ chain' = Append(chain, event)
  /\ known' = known \cup {chain'}
  /\ UNCHANGED reorgs

\* A transaction with the proposal type script in an output; in_inputs when it
\* spends the live proposal cell to create it again with other data.
Create(p) ==
  \E data \in Duration, in_inputs \in BOOLEAN :
    /\ in_inputs => Live(p)
    /\ NotOnBothSides(in_inputs, TRUE)
    /\ CreationAccepted(p, in_inputs)
    /\ Mine([kind |-> "create", proposal |-> p, data |-> data])

\* A vote needs the live proposal cell as a dependency.
CastVote(p) ==
  \E kind \in {"yes", "no"} :
    Live(p) /\ Mine([kind |-> kind, proposal |-> p])

Settle(p) ==
  /\ Live(p)
  /\ Mine([kind |-> "settle", proposal |-> p])
  /\ \E pf \in Provable, start_dep, end_dep \in MainChain :
       ConsumptionAccepted(p, start_dep, end_dep, pf)

\* A block without anything that concerns a proposal.
MineOther == Mine([kind |-> "other"])

\* The last blocks leave the main chain; what replaces them is mined later.
Reorg ==
  \E n \in 1..Len(chain) :
    /\ reorgs < MaxReorgs
    /\ chain' = SubSeq(chain, 1, Len(chain) - n)
    /\ reorgs' = reorgs + 1
    /\ UNCHANGED known

Next ==
  \/ MineOther
  \/ Reorg
  \/ \E p \in Proposal :
       Create(p) \/ CastVote(p) \/ Settle(p)

Spec == Init /\ [][Next]_vars
-----------------------------------------------------------------------------
(***************************************************************************)
(* Properties.                                                              *)
(***************************************************************************)
\* The Type ID and AppearsOnBothSides together leave each proposal one cell on
\* the main chain, whatever was on the branches before.
OneCell == \A p \in Proposal : Cardinality(OutputBlocks(p)) <= 1

\* The chain is made of events, every block of it is known and the cells of a
\* proposal are what the two checks on the type script leave.
TypeOK ==
  /\ chain \in BlockHash /\ Len(chain) <= MaxHeight
  /\ known \subseteq BlockHash /\ MainChain \subseteq known
  /\ reorgs \in 0..MaxReorgs
  /\ OneCell

\* The one voting window of a proposal: from the block with its creation on, as
\* many further blocks as its data said then.
WindowStart(p) ==
  CHOOSE i \in OutputBlocks(p) : \A k \in OutputBlocks(p) : i <= k
WindowEnd(p) == WindowStart(p) + chain[WindowStart(p)].data

VotesInWindow(p, kind) ==
  Cardinality({i \in WindowStart(p)..WindowEnd(p) :
                 chain[i] = [kind |-> kind, proposal |-> p]})

PassedInWindow(p) ==
  /\ WindowEnd(p) <= Len(chain)
  /\ VotesInWindow(p, "yes") > VotesInWindow(p, "no")

\* Whatever blocks the prover feeds to the guest program, from whatever branch,
\* and however the chain is reorganised between proof and settlement: a proposal
\* on the main chain is settled only if the main chain contains its whole voting
\* window and the vote passed in it.
SettledOnlyIfPassed ==
  \A p \in Proposal : (Settled(p) /\ Vk[p] = GuestVk) => PassedInWindow(p)

\* The voting window is over before the proposal is settled: no vote is cut off.
SettledAfterWindow ==
  \A p \in Proposal : (Vk[p] = GuestVk /\ Settled(p)) =>
     \A i \in DOMAIN chain :
        chain[i] = [kind |-> "settle", proposal |-> p] => i > WindowEnd(p)

\* Permissionless settlement: as long as a passed proposal is not settled, the
\* blocks of its window on the main chain give a proof that the script accepts.
PassedCanSettle ==
  \A p \in Proposal : (Live(p) /\ Vk[p] = GuestVk /\ PassedInWindow(p)) =>
     LET block(i) == [header |-> Header(SubSeq(chain, 1, i)), body |-> chain[i]]
         window == [k \in 1..(WindowEnd(p) - WindowStart(p) + 1) |->
                      block(WindowStart(p) + k - 1)]
         pf == Proof(GuestVk, GuestResult(window, p))
     IN  \E start_dep, end_dep \in MainChain : ConsumptionAccepted(p, start_dep, end_dep, pf)
=============================================================================
