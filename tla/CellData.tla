------------------------------ MODULE CellData ------------------------------
(***************************************************************************)
(* The bytes of a proposal cell and of a vote cell on their way through the *)
(* programs that read them, each with readers of its own strictness:        *)
(*                                                                          *)
(*   the type scripts accept a new cell with from_slice (strict);           *)
(*   dump-blocks frames the blocks, and the host takes them apart with      *)
(*   from_compatible_slice and packs them into the guest's arguments;       *)
(*   the guest program verifies the blocks shallowly, finds the proposal    *)
(*   and the votes with from_compatible_slice and commits public values;    *)
(*   consumeProposal decodes and encodes these again for the witness, with  *)
(*   a library that has names for the hash types it knows, and no others;   *)
(*   the proposal type script takes the witness apart with from_slice and   *)
(*   compares the proposal in it with the cell, byte for byte.              *)
(*                                                                          *)
(* What the votes add up to is in CountVote, which blocks are counted in    *)
(* Settlement.                                                              *)
(***************************************************************************)
EXTENDS MoleculeTypes

CONSTANTS
  ProposalData,    \* bytes that somebody may put into a proposal cell
  VoteData,        \* and into a vote cell
  Altered(_),      \* the witnesses that somebody may make of one
  ProposalScript,  \* the type script of the proposal cell
  StartHash, EndHash, \* of the headers that the consuming transaction names
  ProofBytes       \* the SP1 proof of the committed public values

ASSUME DataAssumption == ProposalData \subseteq Seq(Byte) /\ VoteData \subseteq Seq(Byte)

\* The hash types of CKB: data, type, data1 and data2.
HashTypes == {<<0>>, <<1>>, <<2>>, <<4>>}

HashTypeOf(script) == ReadScript(script)[2]

\* A cell's type script is a Script of the node's, with a hash type that the node
\* could run, and a header's hash is one.
ASSUME PartsAssumption ==
  /\ {0, 1} \subseteq Byte
  /\ {ProposalScript, StartHash, EndHash, ProofBytes} \subseteq Seq(Byte)
  /\ ScriptIsValid(ProposalScript, FALSE) /\ HashTypeOf(ProposalScript) \in HashTypes
  /\ ArrayIsValid(StartHash, HashSize) /\ ArrayIsValid(EndHash, HashSize)

VARIABLES
  proposal,  \* the data of the proposal cell, empty before its creation
  vote,      \* the data of the vote cell
  outcome,   \* of the prover: "none", "host error", "panic" or "committed"
  counted,   \* the votes in the vote map of the guest program
  values,    \* the public values that it committed
  witness,   \* that settled the proposal
  command    \* what became of consumeProposal: "none" yet, "error" of a codec,
             \* "refused" by the node or "sent"

vars == <<proposal, vote, outcome, counted, values, witness, command>>
-----------------------------------------------------------------------------
(***************************************************************************)
(* The blocks.                                                              *)
(***************************************************************************)
\* A block with a transaction that has one output, with this data.
Transaction(data) ==
  Encode(<<Encode(<<<<>>, <<>>, <<>>, <<>>, <<>>, Encode(<<BuildBytes(data)>>)>>),
           Encode(<<>>)>>)
Block(data) ==
  Encode(<<Zeros(HeaderSize), Encode(<<>>), Encode(<<Transaction(data)>>), EncodeFix(<<>>)>>)

\* The window: the block of the proposal and, once there is a vote, the block
\* of the vote, as dump-blocks writes them.
Dump == BuildBlockVec(IF vote = <<>> THEN <<Block(proposal)>>
                      ELSE <<Block(proposal), Block(vote)>>)
-----------------------------------------------------------------------------
(***************************************************************************)
(* The vote script, the host and the guest program.                         *)
(***************************************************************************)
\* Vote::from_slice, and what the vote script asks of the fields.
VoteAccepted(data) ==
  /\ VoteIsValid(data, FALSE)
  /\ ReadVote(data).vote \in {<<0>>, <<1>>}
  /\ Uint16sOf(ReadVote(data).dao_index) # <<>>

\* prepare_guest_program_arguments and prepare_stdin_real.
Arguments(dump) ==
  BuildArguments([blocks |-> BuildBytes(dump),
                  witness_root |-> EncodeFix([i \in 1..ItemCount(dump) |-> Zeros(HashSize)]),
                  proposal_script |-> ProposalScript])

\* What find_proposal_in_first_block and BlockVec::from_compatible_slice want.
HostAccepts(dump) ==
  /\ BlockVecIsValid(dump, TRUE)
  /\ ItemCount(dump) > 0
  /\ ProposalIsValid(proposal, FALSE)

\* verify_block_vec
ShallowlyValid(blocks) ==
  /\ OffsetsAreValid(blocks)
  /\ \A i \in 1..ItemCount(blocks) : BlockIsShallowlyValid(Between(blocks, i))

\* The data of the outputs of block i.
DataIn(blocks, i) ==
  LET txs == BlockTransactions(BlocksOf(blocks)[i])
  IN  {RawData(OutputsData(txs[t])[1]) : t \in DOMAIN txs}

\* find_proposal
Found(blocks) ==
  LET data == CHOOSE d \in DataIn(blocks, 1) : TRUE
  IN  IF ProposalIsValid(data, TRUE) THEN data ELSE DefaultProposal

\* The vote cells that count_vote does not skip.
VotesIn(blocks) ==
  {d \in UNION {DataIn(blocks, i) : i \in 2..ItemCount(blocks)} : VoteIsValid(d, TRUE)}

\* Where the accessors of a vote, its amount as a u64 and its indices do not
\* panic.
VoteReadable(s) ==
  /\ \A i \in 1..3 : Readable(s, i, FieldCount(s))
  /\ Len(Field(s, 2)) = Uint64Size
  /\ Len(Field(s, 3)) >= NumberSize
  /\ \A i \in 1..Number(Field(s, 3), 0) : FixReadable(Field(s, 3), i, Uint16Size)

GuestPanics(args) ==
  \/ ~ArgumentsAreValid(args, FALSE)
  \/ ~ShallowlyValid(RawData(ReadArguments(args).blocks))
  \/ \E d \in VotesIn(RawData(ReadArguments(args).blocks)) : ~VoteReadable(d)

\* The public values of blocks in which the votes suffice, or do not.
Committed(blocks, passed) ==
  BuildPublicValues(
    [proposal |-> Found(blocks), start_block_hash |-> StartHash,
     end_block_hash |-> EndHash, proposal_script |-> ProposalScript,
     passed |-> <<IF passed THEN 1 ELSE 0>>,
     yes_vote |-> Zeros(Uint64Size), no_vote |-> Zeros(Uint64Size)])
-----------------------------------------------------------------------------
(***************************************************************************)
(* consumeProposal and the proposal type script.                            *)
(***************************************************************************)
\* The names that ccc.Script has for hash types, with their bytes.
HashTypeByte == [data |-> <<0>>, type |-> <<1>>, data1 |-> <<2>>, data2 |-> <<4>>]

\* Its decoder throws if the byte has no name.
ScriptDecodes(s)   == \E name \in DOMAIN HashTypeByte : HashTypeByte[name] = HashTypeOf(s)
ProposalDecodes(s) == ScriptDecodes(ReadProposal(s).receiver)
ValuesDecode(s) ==
  /\ ProposalDecodes(ReadPublicValues(s).proposal)
  /\ ScriptDecodes(ReadPublicValues(s).proposal_script)

\* The codecs decode the known fields and encode these.
ReencodedScript(s) ==
  LET name == CHOOSE n \in DOMAIN HashTypeByte : HashTypeByte[n] = HashTypeOf(s)
  IN  Encode([ReadScript(s) EXCEPT ![2] = HashTypeByte[name]])
ReencodedProposal(s) ==
  BuildProposal([ReadProposal(s) EXCEPT !.receiver = ReencodedScript(@)])
Reencoded(s) ==
  BuildPublicValues([ReadPublicValues(s) EXCEPT !.proposal = ReencodedProposal(@),
                                                !.proposal_script = ReencodedScript(@)])

\* The ProposalWitness that consumeProposal sends.
SdkWitness ==
  BuildProposalWitness([proof |-> BuildBytes(ProofBytes), public_values |-> Reencoded(values)])

\* The one that has the public values as they are in the file of the host.
CommittedWitness ==
  BuildProposalWitness([proof |-> BuildBytes(ProofBytes), public_values |-> values])

\* verify of an SP1 proof: it proves these very bytes and no others.
Proves(proof, bytes) == proof = ProofBytes /\ bytes = values

\* The consumption of the proposal cell.
ConsumptionAccepted(w) ==
  /\ ProposalWitnessIsValid(w, FALSE)
  /\ LET pv == ReadProposalWitness(w).public_values
     IN  /\ ReadPublicValues(pv).proposal = proposal
         /\ ReadPublicValues(pv).start_block_hash = StartHash
         /\ ReadPublicValues(pv).end_block_hash = EndHash
         /\ ReadPublicValues(pv).proposal_script = ProposalScript
         /\ ReadPublicValues(pv).passed[1] = 1
         /\ Proves(RawData(ReadProposalWitness(w).proof), pv)

\* The witnesses that settle the proposal, of those that somebody may try.
Settling == {w \in Altered(CommittedWitness) : w \in Seq(Byte) /\ ConsumptionAccepted(w)}
-----------------------------------------------------------------------------
Init ==
  /\ proposal = <<>> /\ vote = <<>> /\ witness = <<>>
  /\ outcome = "none" /\ command = "none"
  /\ counted = {}
  /\ values = <<>>

\* Mutant: the cell is created with from_compatible_slice.
CreateCompatibly ==
  /\ proposal = <<>>
  /\ \E data \in ProposalData :
       /\ ProposalIsValid(data, TRUE)
       /\ proposal' = data
  /\ UNCHANGED <<vote, outcome, counted, values, witness, command>>

\* verify_creation
Create ==
  /\ proposal = <<>>
  /\ \E data \in ProposalData :
       /\ ProposalIsValid(data, FALSE)
       /\ proposal' = data
  /\ UNCHANGED <<vote, outcome, counted, values, witness, command>>

\* A vote cell, with the proposal cell as a dep.
Cast ==
  /\ proposal # <<>> /\ vote = <<>> /\ outcome = "none"
  /\ \E data \in VoteData :
       /\ VoteAccepted(data)
       /\ vote' = data
  /\ UNCHANGED <<proposal, outcome, counted, values, witness, command>>

\* The host prepares the arguments, the guest program counts and commits, and
\* the host prints what was committed (PublicValues::from_slice).
Prove ==
  /\ proposal # <<>> /\ outcome = "none"
  /\ LET args == Arguments(Dump)
         blocks == RawData(ReadArguments(args).blocks)
     IN  IF ~HostAccepts(Dump) THEN
           outcome' = "host error" /\ UNCHANGED <<counted, values>>
         ELSE IF GuestPanics(args) THEN
           outcome' = "panic" /\ UNCHANGED <<counted, values>>
         ELSE
           /\ counted' = {ReadVote(d) : d \in VotesIn(blocks)}
           /\ \E passed \in BOOLEAN :
                /\ passed => \E v \in counted' : v.vote = <<1>>
                /\ values' = Committed(blocks, passed)
           /\ outcome' = IF PublicValuesIsValid(values', FALSE) THEN "committed" ELSE "panic"
  /\ UNCHANGED <<proposal, vote, witness, command>>

Passed == outcome = "committed" /\ ReadPublicValues(values).passed = <<1>>

\* Somebody settles the proposal with a witness of his own.
Settle ==
  /\ outcome = "committed" /\ witness = <<>>
  /\ \E w \in Settling : witness' = w
  /\ UNCHANGED <<proposal, vote, outcome, counted, values, command>>

\* consumeProposal with the two files that the host writes of a vote that passed.
\* It decodes the cell, then the public values; an error of a codec ends it before
\* anything is sent.
Consume ==
  /\ Passed /\ witness = <<>> /\ command = "none"
  /\ \/ /\ ~(ProposalDecodes(proposal) /\ ValuesDecode(values))
        /\ command' = "error"
        /\ UNCHANGED witness
     \/ /\ ProposalDecodes(proposal) /\ ValuesDecode(values)
        /\ IF ConsumptionAccepted(SdkWitness)
           THEN command' = "sent" /\ witness' = SdkWitness
           ELSE command' = "refused" /\ UNCHANGED witness
  /\ UNCHANGED <<proposal, vote, outcome, counted, values>>

Next == Create \/ Cast \/ Prove \/ Settle \/ Consume

Spec == Init /\ [][Next]_vars
-----------------------------------------------------------------------------
(***************************************************************************)
(* Properties.                                                              *)
(***************************************************************************)
\* A proposal that passed can be settled: no bytes that were accepted when the
\* cell was created and read by three programs keep it locked for somebody who puts
\* the files of the host into a witness as they are.
PassedSettles == Passed => ConsumptionAccepted(CommittedWitness)

\* consumeProposal, which takes the public values apart and writes them again,
\* settles a proposal that passed exactly if its receiver has a hash type of CKB.
\* Nobody checks that when the cell is created; for another byte the codec throws at
\* this last step.
SdkSettlesScripts ==
  Passed /\ command # "none" =>
    (command = "sent" <=> HashTypeOf(ReadProposal(proposal).receiver) \in HashTypes)

\* No cell that a type script has accepted stops the count for all other votes:
\* the host and the guest program get through every window with it.
NoCellStopsTheCount == outcome \notin {"host error", "panic"}

\* Of which the part that is about a single cell: the compatible reader accepts
\* what the strict one has accepted, and the accessors find every field of a
\* vote, and every index, in its bounds.
AcceptedCellsAreReadable ==
  /\ proposal # <<>> => ProposalIsValid(proposal, TRUE)
  /\ vote # <<>> => VoteIsValid(vote, TRUE) /\ VoteReadable(vote)

\* The vote that the vote script has checked is the vote that the guest program
\* counts, not skipped and not read in another way.
AcceptedVoteIsCounted ==
  outcome = "committed" => counted = IF vote = <<>> THEN {} ELSE {ReadVote(vote)}

\* Only one sequence of bytes settles a proposal: the strict reader lets nobody
\* hide bytes in a witness that the proof does not speak of.
OneWitness == Passed => \A v, w \in Settling : v = w
=============================================================================
