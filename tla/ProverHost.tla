----------------------------- MODULE ProverHost -----------------------------
(***************************************************************************)
(* How a passed vote gets settled in practice, on the chain of Settlement:  *)
(* the command dump-blocks fetches the window into a file, the prover host  *)
(* sp1/ckb-vote-verification/script/src/main.rs runs the guest program over *)
(* it and writes the proof and the public values to two files, and the      *)
(* command consume-proposal reads these and sends the transaction.          *)
(*                                                                          *)
(* The three meet only in the files.  An operator runs one after the other,  *)
(* in any order and as often as he likes, while the chain goes on; the host  *)
(* may be killed at any time.  With --mock it proves blocks made up by      *)
(* crates/testtool from the dump.  How the workers of dump-blocks share     *)
(* their requests is the subject of DumpBlocks.                             *)
(***************************************************************************)
EXTENDS Settlement

CONSTANTS
  MockProposal,  \* the proposal script that generate_from_templates makes up
  Counts,        \* bound: values of --count
  Missing,       \* of a file that was never written, a process that is not
                 \* running, a block that was not fetched
  Partial        \* of a file that was opened for writing and not yet filled

ASSUME HostAssumption ==
  /\ MockProposal \notin Proposal
  /\ Missing # Partial
  /\ Counts \subseteq 1..MaxFed

\* Whatever its duration, the sample proposal of the host has a code hash of its
\* own, so it is never Proposal::default().
ASSUME SampleAssumption == NoData \notin Nat

VARIABLES
  fetched,      \* dump-blocks: the first block number and the blocks so far
  dump,         \* the file of blocks
  host,         \* the process of the prover host
  proof_file,   \* proof-plonk.bin
  values_file   \* public-values.bin

chainVars == <<chain, known, reorgs>>
files     == <<proof_file, values_file>>
hostVars  == <<chainVars, fetched, dump, host, files>>
-----------------------------------------------------------------------------
(***************************************************************************)
(* crates/testtool, generate_from_templates.                                *)
(***************************************************************************)
\* The transaction appended to block i of n: the proposal cell with a duration
\* to match, or a YES vote.  Nothing else in the block concerns this proposal.
ExtraTx(i, n) ==
  IF i = 1 THEN [kind |-> "create", proposal |-> MockProposal, data |-> n - 1]
  ELSE [kind |-> "yes", proposal |-> MockProposal]

\* rebuild_block_with_extra_tx: with the transactions root of the new body.
Rebuilt(template, extra_tx) ==
  [header |-> [template.header EXCEPT !.transactions_root = extra_tx], body |-> extra_tx]

\* Mutant: the parent hashes of the templates are kept.
KeepParents(blocks) == blocks

\* parent_hash is recomputed throughout the chain, from the second block on.
Relink(blocks) ==
  LET linked[i \in DOMAIN blocks] ==
        IF i = 1 THEN blocks[1]
        ELSE [blocks[i] EXCEPT !.header.parent_hash = HeaderHash(linked[i - 1].header)]
  IN  linked

GenerateFromTemplates(templates) ==
  Relink([i \in DOMAIN templates |-> Rebuilt(templates[i], ExtraTx(i, Len(templates)))])
-----------------------------------------------------------------------------
(***************************************************************************)
(* The prover host.                                                         *)
(***************************************************************************)
\* Mutant: the error of verify_block_integrity is dropped.
AcceptsAnyBlocks(blocks) == blocks # <<>>

\* The guest program does not panic.
GuestAccepts(blocks) ==
  /\ blocks # <<>>
  /\ \A i \in DOMAIN blocks :
       RootMatches(blocks[i]) /\ ExtendsBlocks(SubSeq(blocks, 1, i - 1), blocks[i])

Start(mock, script, blocks) ==
  /\ host = Missing /\ fetched = Missing
  /\ host' = [phase |-> "started", mock |-> mock, script |-> script,
              blocks |-> blocks, values |-> Missing]
  /\ UNCHANGED <<chainVars, fetched, dump, files>>

\* Without --mock the transaction named on the command line has to be in the
\* first block; its output has the type script to count for.
StartReal ==
  /\ dump # Missing
  /\ \E p \in Proposal : Creates(dump[1].body, p) /\ Start(FALSE, p, dump)

StartMock ==
  /\ dump # Missing
  /\ Start(TRUE, MockProposal, GenerateFromTemplates(dump))

At(phase) == host # Missing /\ host.phase = phase

\* Mutant: the result is not asserted.
ProveAnything ==
  /\ At("started")
  /\ host' \in IF GuestAccepts(host.blocks)
              THEN {[host EXCEPT !.phase = "proved", !.blocks = <<>>,
                                 !.values = GuestResult(host.blocks, host.script)], Missing}
              ELSE {Missing}
  /\ UNCHANGED <<chainVars, fetched, dump, files>>

\* The guest program is executed or proved, which ends the host if it panics;
\* the proof is verified, and the vote has to have passed.  With --execute and
\* --prove that was all, with --prove-via-network the host goes on to write.
Prove ==
  /\ At("started")
  /\ LET values == GuestResult(host.blocks, host.script)
     IN  host' \in IF GuestAccepts(host.blocks) /\ values.passed
                  THEN {[host EXCEPT !.phase = "proved", !.blocks = <<>>, !.values = values],
                        Missing}
                  ELSE {Missing}
  /\ UNCHANGED <<chainVars, fetched, dump, files>>

\* std::fs::write truncates the file before it fills it, so it leaves a partial
\* file when the host is killed in it.
SaveProof ==
  /\ At("proved")
  /\ \/ proof_file' = Proof(GuestVk, host.values) /\ host' = [host EXCEPT !.phase = "proof saved"]
     \/ proof_file' = Partial /\ host' = Missing
  /\ UNCHANGED <<chainVars, fetched, dump, values_file>>

SaveValues ==
  /\ At("proof saved")
  /\ values_file' \in {host.values, Partial}
  /\ host' = Missing
  /\ UNCHANGED <<chainVars, fetched, dump, proof_file>>

\* The host is killed elsewhere.
Crash ==
  /\ host # Missing
  /\ host' = Missing
  /\ UNCHANGED <<chainVars, fetched, dump, files>>

HostStep == StartReal \/ StartMock \/ Prove \/ SaveProof \/ SaveValues \/ Crash
-----------------------------------------------------------------------------
(***************************************************************************)
(* dump-blocks.                                                             *)
(***************************************************************************)
\* findStartBlockNumber, with some --count.
FindStart ==
  /\ host = Missing /\ fetched = Missing
  /\ \E i \in DOMAIN chain, count \in Counts :
       /\ \E p \in Proposal : Creates(chain[i], p)
       /\ fetched' = [start |-> i, blocks |-> [k \in 1..count |-> Missing]]
  /\ UNCHANGED <<chainVars, dump, host, files>>

\* The node answers one of the requests with the block it now has at that number.
Fetch ==
  /\ fetched # Missing
  /\ \E k \in DOMAIN fetched.blocks :
       /\ fetched.blocks[k] = Missing
       /\ fetched.start + k - 1 \in DOMAIN chain
       /\ fetched' = [fetched EXCEPT !.blocks[k] =
            [header |-> Header(SubSeq(chain, 1, fetched.start + k - 1)),
             body |-> chain[fetched.start + k - 1]]]
  /\ UNCHANGED <<chainVars, dump, host, files>>

WriteDump ==
  /\ fetched # Missing
  /\ \A k \in DOMAIN fetched.blocks : fetched.blocks[k] # Missing
  /\ dump' = fetched.blocks
  /\ fetched' = Missing
  /\ UNCHANGED <<chainVars, host, files>>

\* A request fails, or there is no block with that number.
DumpFails ==
  /\ fetched # Missing
  /\ fetched' = Missing
  /\ UNCHANGED <<chainVars, dump, host, files>>

DumpStep == FindStart \/ Fetch \/ WriteDump \/ DumpFails
-----------------------------------------------------------------------------
(***************************************************************************)
(* consume-proposal.                                                        *)
(***************************************************************************)
\* A proof proves the public values it was made for.
Proves(proof, values) == proof # Partial /\ proof.public_values = values

\* The two files are read, the public values are decoded, and the transaction
\* with the headers that the user named is sent and committed.  The receiver has a
\* hash type that the codec knows; CellData says what happens if it has not.
Consume ==
  /\ host = Missing /\ fetched = Missing
  /\ proof_file # Missing /\ values_file \notin {Missing, Partial}
  /\ \E p \in Proposal, start_dep, end_dep \in MainChain :
       /\ Live(p)
       /\ Proves(proof_file, values_file)
       /\ ConsumptionAccepted(p, start_dep, end_dep, Proof(GuestVk, values_file))
       /\ Mine([kind |-> "settle", proposal |-> p])
  /\ UNCHANGED <<fetched, dump, host, files>>
-----------------------------------------------------------------------------
HostInit ==
  /\ Init
  /\ fetched = Missing /\ dump = Missing
  /\ host = Missing
  /\ proof_file = Missing /\ values_file = Missing

ChainStep ==
  /\ \/ \E p \in Proposal : Create(p) \/ CastVote(p)
     \/ MineOther
     \/ Reorg
  /\ UNCHANGED <<fetched, dump, host, files>>

HostNext == ChainStep \/ DumpStep \/ HostStep \/ Consume

HostSpec == HostInit /\ [][HostNext]_hostVars
-----------------------------------------------------------------------------
(***************************************************************************)
(* Properties.                                                              *)
(***************************************************************************)
\* Whatever mixture of blocks, runs and files led to it, a settlement is one
\* that Settlement allows: the file of blocks may mix two branches, the files of
\* the proof may be of two runs, of a mock run or cut off, and the chain may
\* have reorganised at any point in between.
ImplementsSettlement == Spec

\* What the host has written is good for a settlement: as long as the blocks at
\* both ends of the window are on the main chain and the proposal is not settled,
\* the script accepts the two files if they belong together, and to a proposal
\* with the key of the guest program.
WrittenProofSettles ==
  \A p \in Proposal :
    LET usable == values_file \notin {Missing, Partial}
                    /\ proof_file \notin {Missing, Partial}
                    /\ Proves(proof_file, values_file)
    IN  (/\ usable /\ values_file.proposal_script = p /\ Live(p) /\ Vk[p] = GuestVk
         /\ {values_file.start_block_hash, values_file.end_block_hash} \subseteq MainChain)
        => ConsumptionAccepted(p, values_file.start_block_hash, values_file.end_block_hash,
                               proof_file)

\* The result of generate_from_templates is a valid input to the guest program,
\* from blocks that belong together or not, and unless there is no block to vote
\* in the vote passes.
MockPasses ==
  (At("started") /\ host.mock) =>
    /\ GuestAccepts(host.blocks)
    /\ Len(host.blocks) > 1 => GuestResult(host.blocks, host.script).passed
=============================================================================
