# A verification project for the CKB vote system

The repository is a proof-of-concept voting system on CKB. A *proposal cell* opens
a vote. Voters create *vote cells* whose data name cells they keep in the Nervos
DAO; the capacity of those cells is the weight of the vote. After the window of
`duration + 1` blocks anyone can run the *guest program* over the blocks of the
window in a zkVM; it checks the blocks, replays them, counts the votes and commits
the result as public values. With a proof of a passed vote the proposal cell can be
spent.

This directory holds TLA+ modules of the parts of the system that decide who wins,
TLC configurations that check them on small instances, and proofs of the most
important properties for every value of the constants.

## Inventory

| part | source | state | operations | how it meets the other parts |
|---|---|---|---|---|
| vote type script | `contracts/vote-type-script/src/main.rs` | none; sees one transaction | `run` on creating and on recycling vote cells | rejects transactions of the chain; its view of `cell_deps` is the resolved one |
| vote counter | `crates/verification/src/lib.rs`, `find_proposal`, `count_vote` | `vote_map` ("Map"), `dao_outpoint_to_voter` ("Map2") | replay of one transaction, tally | called by the guest program; sees raw transactions, so only what the scripts let through |
| block integrity | same file, `merkle_root`, `verify_block_integrity` | a queue | the transactions root of a block, the header chain | binds the blocks to the two header hashes in the public values |
| guest program | `sp1/ckb-vote-verification/program/src/main.rs` | none | `main` | its verifying key is in the args of the proposal |
| proposal type script | `contracts/proposal-type-script/src/main.rs` | none; sees one transaction | creation, consumption | checks public values, header dependencies, the proof |
| voting wallet | `sdk/src/vote.ts` | what a command has found so far | `createVote`, `consumeVote`, from one call of the node to the next | builds what the vote type script checks, on a chain that goes on meanwhile |
| proposal wallet | `sdk/src/proposal.ts`, `utils.ts` | none | `createProposal`, `consumeProposal` | builds what the proposal type script checks |
| dump-blocks | `sdk/src/cli/commands/dump-blocks.ts` | `nextIdx`, `blocks`, one pending request for each worker | `findStartBlockNumber`, workers, writing the file | reads a node that may switch branches; its file is the input of the prover host |
| prover host | `sp1/ckb-vote-verification/script/src/main.rs` | one process; the files `proof-plonk.bin`, `public-values.bin` | real and mock input, executing or proving, writing the files | reads the file of dump-blocks, runs the guest program; its files are what `consume-proposal` reads |
| test tool | `crates/testtool/src/lib.rs` | none | `generate_from_templates` | makes the blocks of a `--mock` run |
| query | `sdk/src/cli/commands/query.ts` | pages, pending transactions, two caches | paged collection of proposals and votes | reads a node |
| molecule types | `crates/types/src/molecules/types.rs`, generated | none | readers, `verify`, builders of each type | every program above reads or writes these bytes, some strictly, some not |
| shallow verification | `crates/types/src/molecules/mod.rs` | none | `verify_block_vec` and the two functions under it | the guest program runs it before it reads a block unchecked |
| codecs | `sdk/src/codec.ts` | none | decoding and encoding again | between the public values of the guest program and the witness |
| the rest | other commands, configuration, `sp1-test`, deployment, tools | none of their own | | |

What is hard here, and what has to be right:

* **Ordering inside the replay.** Two maps have to stay consistent while votes are
  overwritten, deposits are spent and outputs and inputs of one transaction are
  handled one after the other. Right means: no shannon counts twice, no counted
  vote without a deposit, nobody retracts another voter's vote.
* **Two programs that read the same transaction.** The script validates what the
  counter later takes on trust. Right means that both look at the same cells.
* **Four programs that read the same bytes**, strictly, compatibly, shallowly and
  through a codec of another language. Right means that what one accepts does not
  stop, and does not mean anything else to, the next.
* **A prover who chooses the input.** The guest program sees no proof of work; the
  two header hashes and the Type ID have to pin the window down.
* **Reorganisations** between the vote, the dump, the proof and the settlement, and
  **crashes** between the two files of a proof.
* **A wallet that reads before it writes**: deposits come and go while it collects
  them, and its transaction waits for a block.
* **Concurrent workers** that share an index and may fail, and pages that are read
  while blocks arrive.
* **Boundaries**: the window of `duration + 1` blocks, strict comparisons, 64-bit
  sums, the odd leaf of a Merkle tree.

`PROJECT.json` lists each of these hazards at its line, with the properties that
would notice.

## Modules

```
CkbTx ──► VoteScript ─┐
   └────► CountVote ──┴► VotingWindow ──► MCVotingWindow (TLC)
                             │      └───► VotingWallet ──► MCVotingWallet
                             │                 └─────────► VotingProofs (TLAPS, about both)
                             └─ implements BallotBox
Settlement ──► MCSettlement
      └──────► ProverHost ──► MCProverHost, SettlementProofs (about both)
Molecule ──► MoleculeTypes ──┬► ShallowVerify ──► MCShallowVerify, ShallowVerifyProofs
                  │          └► CellData ──────► MCCellData, CellDataProofs
                  └─► MoleculeProofs, which the last two use
MerkleRoot ──► MCMerkleRoot, MerkleRootProofs
DumpBlocks ──► MCDumpBlocks, DumpBlocksProofs
QueryCommand ──► MCQueryCommand, QueryCommandProofs
```

**CkbTx** states the rules of the chain that the code relies on: cells named by the
outpoint that fixes their lock, type and capacity; dep_groups that expand in place;
what a transaction may spend and depend on. Hashes are injective, so a lock script
stands for its own hash.

**VoteScript** is `run` of the vote type script: `VoteScriptAccepts(tx)` is true
exactly if `run` returns `Ok`. **CountVote** is the body of the replay loop of
`count_vote` as operators on the two maps, and the tally.

**VotingWindow** composes both. `Commit(tx)` is one transaction: the chain resolves
it, the script accepts it, the replay follows. The replay really happens later, but
it is a function of the transactions so far, so the model lets it advance with the
chain; `CloseWindow` is the tally after `duration + 1` blocks. The ghost variable
`backing` remembers which cells the script accepted behind each vote of `vote_map`;
nothing depends on it but the properties. What wallets build is narrowed by
`WellBuilt`, with one constant for each habit of `sdk/src/vote.ts`
(`RepeatIndex`, `SpendNamed`, `GroupBefore`): the SDK never does any of the three,
the scripts do not forbid them. Recycling a vote cell has an empty `GroupOutput`,
so neither the script nor a map reacts; it is not an action of its own.
Transactions in front of the proposal in its own block cannot contain votes, as the
script wants the proposal cell as a dependency.

**BallotBox** is the abstract specification: pledge deposits, get a ballot that is
worth them, lose it when one of them is retired. `ImplementsBallotBox` is the
refinement, with Map as the ballots and the inverse of Map2 as the pledges.

**VotingWallet** puts `createVote` and `consumeVote` on that chain. A command has
found the proposal, scans the deposits page by page (`Scan` sees the chain as it is
then), builds the transaction, signs it, which appends the dep_group of the lock
script behind the deposits, and sends it; the node takes it if it is valid at that
moment and commits it later, or drops it. Between any two of these steps deposits
are made and withdrawn, by the same voter too. One such command of a voter runs at a
time, and the next one starts when its transaction is committed or given up. That is
how a person uses it, nothing in the code enforces it.

**Settlement** is the life of a proposal cell: creation, votes, reorganisations,
proofs and consumption. A block is named by the sequence of the bodies up to it,
which is what its hash commits to. The guest program and both branches of the
proposal type script are operators (`GuestResult`, `Verified`, `CreationAccepted`,
`ConsumptionAccepted`). A prover may feed any list of blocks of any branch and also
headers that nobody mined. The set of all proofs that can exist is computed at the
settlement instead of being kept in a variable: blocks that were known stay known,
so it contains every proof that was made before. Every vote weighs one here, how
votes are weighed is the subject of VotingWindow.

**ProverHost** is how a settlement comes about in practice, on the chain of
Settlement. `dump-blocks` fetches blocks by number, one at a time (`Fetch`), while the
chain goes on, and writes the file; the prover host reads it, runs the guest program,
asserts that the vote has passed and writes two files, one after the other, each with
`std::fs::write`, which truncates before it writes; `consume-proposal` reads the two
files. A host may be killed at any of its steps (`Crash`, and the partial files of
`SaveProof` and `SaveValues`). `StartMock` runs the host on the blocks that
`generate_from_templates` makes of the dump. The operator runs one command after the
other, in any order: no two of them run at once. `ImplementsSettlement` is the
refinement: every step is a step of Settlement or leaves its variables alone.

**MerkleRoot** is `calc_transactions_root` with its two calls of `merkle_root`, one
action for each turn of the loop. The reference is the complete binary Merkle tree
that CKB uses, as the array in which node `i` has the children `2i + 1`, `2i + 2`.

**DumpBlocks** is the command `dump-blocks`: workers that run from one `await` to
the next, the shared index, a node that mines and reorganises between two answers,
failing requests, `Promise.all` and the file.

**QueryCommand** is the command `query`: pages with a cursor over the entries of the
indexer, all transactions of the entries at once, the newest proposals, the votes of
each of them in parallel, and the timestamps. What the indexer knows is a set of
entries with keys that go up along the chain; a page is a piece of it in the order of
the keys (`InOrder`). What the command makes of the entries it has read is a function on
the places of the output entries (`Collected`), and the sort an order of these places
(`NewestFirst`). `seen` is a ghost: how far the chain had come when the last page was
read.

**Molecule** is the layout that all generated types share (offsets, items, what
`verify` of a vector or a table checks, what a builder writes) and **MoleculeTypes**
gives for each type of `crates/types` its strict and compatible verification, what its
accessors return and what its builder writes. The sizes of numbers, hashes and
integers are constants, so that a number may be two digits wide in a run and of any
width in a proof.

**ShallowVerify** is `verify_block_vec` with `verify_block_shallow` and
`verify_vector_shallow` on slices of bytes: `CheckOffsets` is everything in front of
the loop over the blocks, `CheckBlock` one turn of it. The readers that the guest
program uses afterwards check nothing; `Item` is what they return and `Readable` where
they do not panic. `Inputs` are the slices that may arrive, any sequences of bytes.
`Written` are lists of blocks that somebody has encoded: any header of its size, any
uncles, transactions and ids, any further fields, as long as each size fits into a
number (`CanBeWritten`, `WrittenAssumption`). `Encodings` is what the builders make of
them.

**CellData** follows the bytes of one proposal and one vote through everything that
reads them: the type scripts (`from_slice`), the host (`from_compatible_slice`, then
the arguments of the guest program), the guest program (shallow verification,
`from_compatible_slice`, the accessors), `consumeProposal` (decode, encode) and the
proposal type script (`from_slice`, comparison byte for byte). The codecs of the SDK
decode and encode the fields they declare. A script goes through `ccc.Script`, which
has names for the hash types 0, 1, 2 and 4 and throws at any other byte
(`HashTypeByte`, `ScriptDecodes`); `Consume` then ends with an error before anything is
sent. `Settle` stands for anybody who writes a witness without the SDK.

## What the runs show

| run | bounds | result |
|---|---|---|
| `voting_window` | 2 voters, 4 DAO cells (one deposited during the window), a dep_group, 2 blocks, one deposit spent by a voting transaction | types; deposits behind a counted vote are unspent; a vote weighs its deposits; all votes together weigh no more than the deposits that exist; a proposal passes only if it deserves it; Map2 registers a deposit only for its owner and knows every deposit behind a counted vote; only the voter himself loses his vote; the ballot box is implemented |
| `voting_wallet` | alice with a deposit, a later one and two vote cells, bob with one of each, 2 blocks | what the SDK builds is refused only because a cell of it was spent; a vote is lost only with a deposit behind that very vote |
| `settlement` | a proposal with the key of the guest program and one with the key of another program, duration 2, 4 blocks, 1 reorganisation, up to 3 blocks fed, forged headers with a YES vote | one cell for each proposal; a settled proposal has passed in its window on the main chain, and not before the end of the window; a passed proposal can be settled by anyone |
| `prover_host` | 1 proposal, duration 2, `--count 3`, 4 blocks, 1 reorganisation | every settlement is one of Settlement; what the host has written settles; a mock input passes |
| `merkle_root` | 0 to 24 transactions | the loop invariant, the root, termination |
| `dump_blocks` | 3 blocks, 2 workers, 3 bodies, 4 blocks of chain, 1 reorganisation | no index lost or fetched twice; a complete file; the right part of the chain while it is stable; a file of two branches is refused by the guest program; the command ends |
| `query_command` | 2 proposals with a vote each, one unreadable, `--count 1`, pages of 2, 3 transactions, 1 reorganisation | without a reorganisation every list is what the chain said at its last page; the command ends |
| `shallow_verify` | numbers of two digits in base 8; encodings of up to 2 of 4 blocks; one block with any one or two of its numbers overwritten; cut and extended encodings; any vector of up to 6 bytes for the transactions; all slices of up to 4 bytes | what is accepted is read in bounds; it is exactly the encoding of what the readers find in it; no encoding of blocks is refused, with or without an extension; nor is anything that the host has verified in full |
| `cell_data` | numbers of two digits in base 16; encodings, extended and gapped ones, any number overwritten in a proposal and any two in a vote; receivers of every hash type from 0 to 5; witnesses altered in the same ways | a passed proposal settles with the committed values as they are; `consumeProposal` settles it exactly if the receiver has a hash type of CKB; no cell that a script accepted stops the count; such a cell is readable by all; an accepted vote is counted as it was checked; only one witness settles |

Why the bounds are enough. In `voting_window`, two voters are what it takes for one
to act on the other's deposits, and a deposit each to vote with and one to move to is
what it takes to recast and to count a coin twice; the amounts 1 and 2 make every
sum of deposits tell which deposits it is made of, up to ties, which are wanted.
The malformed votes stand for the error paths of the script, one each.
`U64Max = 15` is beyond every sum of these deposits. In `voting_wallet`, a
second deposit and a second vote cell are what it takes to vote again with more or
less than before. In `settlement` and `prover_host`, four blocks are
creation, vote, end of a window and settlement; a reorganisation may undo any
number of them. In `merkle_root`, 24 leaves pass through every shape of the last two
levels of a tree with up to five levels. In `dump_blocks`, three blocks for two
workers make one worker take a second index while the other one waits. In `query_command`, three
transactions with up to six entries fill pages of two exactly and not, and create,
vote and consume. In `cell_data`, the overwritten numbers include every offset and size
that occurs in these encodings, and one more or less. In `shallow_verify`, six
bytes hold a vector of two items with one byte too few or too many in front of them,
which is where a broken offset can differ from a good one, and two overwritten numbers
are what it takes to break one and make up for it with another.

Three runs are expected to find a violation; each is a difference between the code
and a sentence of the documents, recorded under "findings" in `PROJECT.json`:

* `repeat_index`: the script adds the capacity of a deposit once for each time its
  index stands in `dao_index`.
* `spend_named`: a transaction that votes with a deposit and spends it leaves a
  vote without a deposit.
* `group_before`: behind a dep_group the script and the counter take the same index
  for different cells.

Other differences have no run that fails. A proposal with a receiver of hash type 3, or
any other that CKB does not have, is created, counted and passed, as no program looks
at the byte; then the codec of `consumeProposal` throws
(`contracts/proposal-type-script/src/main.rs:170`, `sdk/src/codec.ts:17`), while
`sdk/README.md:168` says of the command that it settles a passed proposal.
`SdkSettlesScripts` states this as an equivalence: the command settles a passed proposal
exactly if its receiver has a hash type of CKB. `PassedSettles` says that the cell is not
locked for ever: the proposal script accepts the committed values from somebody who puts
them into a witness without decoding them. `minimal_req * 100_000_000` is not checked
for overflow (`crates/verification/src/lib.rs:279`); the model multiplies modulo the
width and the runs stay below it. `docs/proposal-type-script.md:92` puts the witness
into `output_type` while script and SDK use `input_type`. `dump-blocks` promises a
consecutive range, but takes blocks by number from a node that may switch branches;
the guest program refuses such a file, which is what `AcceptedFileIsOneBranch` says.
After voting again with other deposits, spending one of the earlier ones removes the
later vote, since Map2 keeps its entry: `LostVoteWasSpent` is therefore stated for the
SDK's wallet, which always names every deposit, and holds there. The checks at the
creation of a proposal are stubs, so a proposal can carry the key of a program that
proves anything: `settlement` contains such a proposal, and its properties speak of
the proposals with the key of the guest program.

## Fairness

Three specifications assume any. `MerkleRoot` is a sequential loop and has weak
fairness of its next step. `DumpBlocks` has weak fairness of every step of the
command: the event loop of the runtime runs what is ready, and a request is answered
or fails in the end (`Answer(w)` is fair, `Serve(w)` alone is not). `QueryCommand` has
weak fairness of the disjunction of the command's steps, for the same reason; that
suffices because each of them makes progress towards the end, and the chain, whose
length is bounded, cannot add pages for ever. Nothing is
assumed of the chain, nor that a number is ever mined: a node without the block
answers `null`, and the command dies. The other specifications state safety only;
that a passed proposal can be settled is the invariant `PassedCanSettle`, as nobody
is obliged to settle it, and the prover host may be killed at any time and is restarted
only by its operator.

## What is proved

All theorems hold for every value of the constants that satisfies the named
assumptions of the modules; TLC evaluates these in the runs.

*VotingProofs, VotingWindow.* `TypeCorrect` is inductive as it stands. The other theorems
rest on `RegInv`: types, `SpentIsGone` (no cell is both live and spent),
`OwnRegistration` and `BackingRegistered`. Neither of the last two is inductive
alone: a deposit behind Alice's vote stays registered because a transaction can
register it only for its owner, and that it is registered for its owner needs that
the counter reads the same cell as the script (`NamedIsScriptNamed`). This is where
`~GroupBefore` is assumed, and `group_before` shows that it is needed.
`BackingStaysAlive` adds `RegisteredAlive` (what is in Map2 is live), for which
`~SpendNamed` is assumed, and `spend_named` shows why. Repeated indices do not
disturb any of these theorems.

What a vote weighs needs a theory of sums over finite sets of cells, which starts from
the definition of the sum by repeated choice: a set of naturals with 0 that has a number's
successor with the number has them all (`AllNumbers`, by a smallest counterexample), so
the sum exists (`SumExists`), does not depend on the choice (`SumTakesOut`) and adds up
over disjoint sets (`SumOfUnion`, `SumOfFamily`). The script's loop over `dao_index` is the sum over the
distinct deposits it names if no index is repeated (`VoteWeighsNamed`), which is where
`~RepeatIndex` is needed, and `repeat_index` shows why. `AmountIsBacked` then follows
from step to step, `NoShannonTwice` from it because the backings of two voters are
disjoint, and `PassedIsDeserved` because the published sums are those of the map
(`ResultIsTally`). Three hypotheses belong to these theorems. `FinitelyMany`: there are
finitely many cells and locks. `[]SupplyFits`: the deposits that exist at one time are
worth no more than a 64-bit number, without which the sums of `count_vote` wrap; all
shannons that CKB issues in a hundred years are about a fifth of 2^64. For
`PassedIsDeserved`, `MinimalRequirement * ShannonPerCkb <= U64Max`: that product is not
checked in the code.

`WindowImplementsBallotBox` is the step simulation for the refinement, under the same
hypotheses. A transaction that votes is a `CastBallot` of the box with the deposits it
names as pledges, which also retires those it spends; any other is a `Retire`. A spent
deposit retires the ballot it is pledged for and the pledge (`PledgesAfter`,
`InvalidatedByPledge`, `CommitIsBoxStep`); a ballot is worth its pledges because
`AmountIsBacked` holds and what backs a vote is pledged.

*VotingProofs, VotingWallet.* `SdkVoteLostBySpending` (for `LostVoteWasSpent`) adds three
things to `RegInv` and `RegisteredAlive`. `NothingStale`: all that Map2 has for a voter
is behind the vote that counts for him. `Prepared`: a command that is still scanning
has found, or has yet to reach, every deposit that Map2 has for its voter, and a
transaction on its way names them all. `WalletType`: the phases. A deposit in Map2 was
named by an earlier transaction of the same voter, and his commands come one after the
other, so no entry of his is added between a scan and its commit. If two commands of
one voter ran at once, the later commit could leave an entry behind; the code does not
prevent that.

`SdkBuildsValid` (for `RefusedOnlyForSpentCells`) rests on `BuiltInv`, a conjunction of
one `Command(v)` for each voter and `StaysLive`. While a command scans, the deposits it
has found are some of those in front of the cursor, in order and each once, and his own
(`Traversed`, `OwnCells`); what it builds of them has the contract, the proposal and the
deposits as dependencies, in this order, the index of each deposit and the sum of their
capacities (`VoteBuilt`). With the dependencies that signing appends the script resolves
the indices to the same deposits, because the dep_group is behind them (`VoteResolves`,
`VoteChecks`), and it arrives at the same sum (`AmountIsSum`). `StaysLive` says that
no transaction spends what is live in the beginning but a deposit, so the contract, the
proposal and the members of the dep_group stay. `DependencyAssumption` says what the
configuration of the SDK provides: these cells are different from each other and from
every deposit, only the dep_group has members, and a deposit has a capacity, as the
script refuses a vote without any. No hypothesis on `GroupBefore`, `SpendNamed` or
`RepeatIndex` is needed: that the SDK does none of them is part of what is proved.

*SettlementProofs.* The invariant `SettledInTime` says that each settlement on the
main chain is behind a whole window in which the vote passed. A reorganisation leaves
a prefix, so it keeps this (`SamePrefix`). A settlement establishes it because of
`VerifiedOnChain`: a hash names a whole history, so if the last of the verified blocks
is on the main chain, all of them are, in a row, with the bodies the chain has
(an induction from the end of the list, carried out with a smallest counterexample);
`VerifiedOfEquation` shows that the recursive set of verified lists is what its
definition says. The count over the blocks is then the count over that part of the
chain, by a bijection (`SameVotes`). The first block has the proposal's only cell
(`OneCell`), so the part is the window. `PassedCanBeSettled` goes the other way: the
blocks of the window, fed in, give exactly the public values the script compares.

The last part of the module is about ProverHost. `FilesInv` says that what the workers
have fetched and what the dump contains are blocks of some branch, and that public values
which the host holds or has written either speak of the mock proposal or are what
the guest program commits for such blocks. Known blocks stay known, so no step of the
chain disturbs this, and a crash only removes something. `AcceptedIsVerified` makes
such blocks verified ones; with it, `Consume` is the `Settle` of Settlement and every
other step is a chain step or a stutter: `HostImplementsSettlement`.
`WrittenIsAccepted` is the converse, from the same lemma as `SettledHasPassed`
(`VerifiedWindow`). Assumed is that `--count` is within `MaxFed`, which bounds what a
prover feeds in Settlement.

`MockRunPasses` needs only `MockInv`, that a mock run has been started with what
`generate_from_templates` makes of some blocks, and `Relinked`: whatever the blocks were,
their copies are a chain and have the mock proposal in the first one and a YES vote in
each of the others. `SampleAssumption` says that the sample proposal is not
`Proposal::default()`, which the guest program takes for a missing one.

*MerkleRootProofs.* The invariant `QueueInv` says that a queue of `k` entries holds
the nodes `2k - 2` down to `k - 1` of the tree. `FirstPassIsLevel` establishes it for
even and odd numbers of leaves, `MergeKeepsLevel` shows that a turn of the loop takes
it from `k` to `k - 1`; at `k = 1` the queue holds the root.
`TypeOK` of this module, a bound on the queue's length, follows from `QueueInv`; it is
proved, and no run checks it.

*DumpBlocksProofs.* `EachIndexOnce` and `FileIsComplete` need `WorkersInv`: a worker
that has left its loop has seen `nextIdx` beyond the end, an index below `nextIdx` is
stored or being fetched, and a reply has the number that its worker asked for. At
least one worker is assumed; with `--concurrency 0` the command writes an array of
holes, which its codec refuses.

`BranchInv` adds where the blocks are from: all that is stored or on its way is known
to the node (`BlocksAreKnown`), and without a reorganisation it is on the main chain
(`OnTheBranch`). A block is named by its history, so a block of a lower number on the
same branch is a prefix of it: that is `StableDumpIsChain`. For `ChainedDumpIsOneBranch`,
the parent hashes make each block a prefix of the next one, hence of the last
(`ChainedIsPrefixes`, by a smallest counterexample from the end).

*ShallowVerifyProofs.* `LoopInv` says that every block in front of `next` is verified,
and all of them at the end. The rest is about one slice: behind a first offset that is
a multiple of `NumberSize` there is room for every offset the readers look at
(`HeadHolds`), and no offset is beyond the slice (`OffsetsInBounds`). The last one is an
induction from the end of the list; it is carried out with a smallest counterexample,
which exists because the natural numbers are well founded (`Smallest`).
`HostIsAccepted` shows that the full verification of the host implies the shallow one.
`AcceptedEncodes` says that the loop accepts nothing but encodings of blocks, and
`NoEncodingRefused` (for `EncodingIsAccepted`) that it accepts all of them, by the lemma
`BuiltIsAccepted` about any list of blocks that can be written. Both apply the theorems
of MoleculeProofs to the slice, its blocks and the vectors in these. `WrittenAssumption`
is what the builders need themselves: sizes that fit into a number.

*MoleculeProofs.* Strict verification implies compatible
verification for each type that lies in a cell (`StrictVoteIsCompatible`,
`StrictProposalIsCompatible`). `SameFieldsSameBytes`
says that two strictly valid tables with the same fields are the same bytes: the first
offset is fixed by the number of fields, every other one by the fields in front of
it.

`EncodingIsRead` is about what the builders write. The concatenation of a sequence of
sequences is a fold, which is unfolded into the list of its partial results
(`FlattenIsConcat`); with it every byte is located (`FlattenPlaces`, `EncodePlaces`): the
total size, the offsets, each item at its offset. So the readers find the numbers that
were written, if these fit into the bytes of a number, and between two offsets the item.
With `SameFieldsSameBytes` the converse follows: a verified table or vector is what the
builder writes of its fields or items (`TableIsItsFields`, `VectorIsItsItems`), because
both have the same fields. `LayoutAssumption` says of `pack_number` and `unpack_number`
what little-endian numbers do: unpacking loses nothing, and every number up to one that
fits, fits.

*CellDataProofs.* `CellsAreReadable` and `WitnessIsUnique` hold without any hypothesis:
strict verification leaves room for every accessor, and of a witness the proof
fixes one field and the public values the other. `CountGoesOn`, `VoteIsCounted`,
`PassedIsSettled` and `SdkSettles` follow the bytes through all the tables they are
nested in (`TransactionReads`, `BlockReads`, `DumpReads`, `ArgumentsRead`,
`ValuesRead`), each with `EncodingIsRead`. `SdkSettles` (for `SdkSettlesScripts`) goes
back through the SDK's codecs (`ValuesReencode`, with `TableIsItsFields`), which write
what they have read where they know the hash types; `CommandInv` says that the command
fails for the receivers whose hash type they do not know and for no others. The
invariant `CellInv` says that what was committed is about the cells as they are. The
hypothesis `[]SizesFit` is that every size on this way fits into the 32 bits of a
number; without it the builders themselves are wrong. It holds in every state of
`cell_data`. That a type script is a valid `Script` with a hash type that the node could
run and a header's hash has the size of a hash is `PartsAssumption`.

*QueryCommandProofs.* `QueryShowsSnapshot` (for `ShowsSnapshot`) rests on `Good`, which
holds as long as no block was abandoned, as the property does. Its heart is `Sound`: a
scan that is still paging has read the entries up to its cursor, each once; one that
has all its pages has read those of the first `seen` transactions, each once. A page
brings exactly the next entries in the order of their keys (`PageIs`), the last one all
that are left. A new transaction has keys beyond all cursors and comes behind all
moments, so it disturbs no scan (`AppendKeepsSound`). `ListsInv` and `PrintsInv` carry
this over to the lists: complete entries tell of each cell whether it was created and
whether it was spent (`OutputsAre`, `ConsumedIsSpent`, `CollectedIsSnapshot`), and the
first of the places in order are the newest proposals (`SelectedIsNewest`). That a finite
set can be put in order by rank (`InOrderIsOrdered`) is proved by counting: an element
has more elements before it than any element before it has (`BelowGrows`), so the ranks
are different and hence all of `1..n` (`EveryRank`).

Only model-checked is liveness, `RootIsFound` and the two `Ends`, as fairness is out
of the prover's reach. Every safety property that a passing run checks is stated by a
theorem. The hypotheses that belong to some of these theorems are named with them above;
each of them holds in every state of the run that checks the property.

## What is left out

Hash functions, the encoding of transactions and the cryptography of the proof are
injective constructors or assumed sound. Fees, change and the capacity of vote cells do
not matter to a vote. The DAO's two phases are one: to withdraw is to spend a deposit.
The payment to the receiver is not modelled because the proposal script does not look
at any output. The prover host also writes `verifying-key.txt`, with the same content
in every run. How `createProposal` collects its inputs is a matter of the library it
calls; Settlement has its effect. Display, debug output, conversions and lazy readers
of the generated types, the caches of `query`, the commands that parse options and
print, the `sp1-test` contract, which measures the PLONK verifier with a fixed proof,
and the deployment scripts have no behaviour of their own that a property could be
about.

What the models assume of their surroundings: one command of a voter at a time, in
VotingWallet; one of `dump-blocks`, the host and `consume-proposal` at a time, in
ProverHost, with receivers of a hash type that the codecs know; under a reorganisation nothing is claimed of what `query` shows, only that
it ends.

## Plan

1. What the query shows after a reorganisation, other than that it ends.
2. The transaction builder of proposals: the Type ID before and after the fee is
   completed.
