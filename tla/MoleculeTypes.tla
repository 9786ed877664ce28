--------------------------- MODULE MoleculeTypes ---------------------------
(***************************************************************************)
(* The molecule types of crates/types: for each type its verification       *)
(* (strict for from_slice, compatible for from_compatible_slice), what its  *)
(* accessors return and what its builder writes, and the shallow            *)
(* verification of blocks of molecules/mod.rs.                              *)
(*                                                                          *)
(* A field that has no structure of its own is its bytes.                   *)
(***************************************************************************)
EXTENDS Molecule

CONSTANTS
  Uint16Size, Uint32Size, Uint64Size, HashSize,
  HeaderSize,  \* bytes of a Header
  IdSize       \* bytes of a ProposalShortId

ASSUME SizesAssumption ==
  {Uint16Size, Uint32Size, Uint64Size, HashSize, HeaderSize, IdSize} \subseteq Nat \ {0}

\* An array, and its default value.
ArrayIsValid(s, size) == Len(s) = size
Zeros(size) == [k \in 1..size |-> 0]
-----------------------------------------------------------------------------
(***************************************************************************)
(* Types of blockchain.mol.                                                 *)
(***************************************************************************)
BytesIsValid(s) == FixVecIsValid(s, 1)
RawData(s) == Bytes(s, NumberSize, Len(s))
BuildBytes(data) == Pack[Len(data)] \o data

ScriptIsValid(s, compatible) ==
  /\ TableIsValid(s, 3, compatible)
  /\ ArrayIsValid(Between(s, 1), HashSize)
  /\ ArrayIsValid(Between(s, 2), 1)
  /\ BytesIsValid(Between(s, 3))

ReadScript(s) == <<Field(s, 1), Field(s, 2), Field(s, 3)>>
DefaultScript == Encode(<<Zeros(HashSize), Zeros(1), BuildBytes(<<>>)>>)

\* The items that verify of a vector hands to the verify of their type.
ItemsIn(s) == IF Len(s) = NumberSize THEN {} ELSE {Between(s, i) : i \in 1..FieldCount(s)}

BytesVecIsValid(s) == OffsetsAreValid(s) /\ \A item \in ItemsIn(s) : BytesIsValid(item)

\* Of the six fields of a raw transaction the vectors of the outputs' data are
\* looked into.
RawTransactionIsValid(s, compatible) ==
  TableIsValid(s, 6, compatible) /\ BytesVecIsValid(Between(s, 6))
TransactionIsValid(s, compatible) ==
  /\ TableIsValid(s, 2, compatible)
  /\ RawTransactionIsValid(Between(s, 1), compatible)
  /\ BytesVecIsValid(Between(s, 2))

OutputsData(tx) == ItemsOf(Field(Field(tx, 1), 6))

UncleIsValid(s, compatible) ==
  /\ TableIsValid(s, 2, compatible)
  /\ ArrayIsValid(Between(s, 1), HeaderSize)
  /\ FixVecIsValid(Between(s, 2), IdSize)

BlockIsValid(s, compatible) ==
  /\ TableIsValid(s, 4, compatible)
  /\ ArrayIsValid(Between(s, 1), HeaderSize)
  /\ OffsetsAreValid(Between(s, 2))
  /\ \A uncle \in ItemsIn(Between(s, 2)) : UncleIsValid(uncle, compatible)
  /\ OffsetsAreValid(Between(s, 3))
  /\ \A tx \in ItemsIn(Between(s, 3)) : TransactionIsValid(tx, compatible)
  /\ FixVecIsValid(Between(s, 4), IdSize)

BlockTransactions(block) == ItemsOf(Field(block, 3))
-----------------------------------------------------------------------------
(***************************************************************************)
(* vector BlockVec <Block>                                                  *)
(***************************************************************************)
BlockVecIsValid(s, compatible) ==
  OffsetsAreValid(s) /\ \A block \in ItemsIn(s) : BlockIsValid(block, compatible)
BlocksOf(s) == ItemsOf(s)
BuildBlockVec(blocks) == Encode(blocks)

(***************************************************************************)
(* array Uint16 [byte; 2]; vector Uint16Vec <Uint16>                        *)
(***************************************************************************)
Uint16IsValid(s) == ArrayIsValid(s, Uint16Size)
Uint16VecIsValid(s) == FixVecIsValid(s, Uint16Size)
Uint16sOf(s) == FixItemsOf(s, Uint16Size)
BuildUint16Vec(items) == EncodeFix(items)

(***************************************************************************)
(* table Vote                                                               *)
(***************************************************************************)
VoteIsValid(s, compatible) ==
  /\ TableIsValid(s, 3, compatible)
  /\ ArrayIsValid(Between(s, 1), 1)
  /\ ArrayIsValid(Between(s, 2), Uint64Size)
  /\ Uint16VecIsValid(Between(s, 3))

ReadVote(s) == [vote |-> Field(s, 1), amount |-> Field(s, 2), dao_index |-> Field(s, 3)]
BuildVote(v) == Encode(<<v.vote, v.amount, v.dao_index>>)

(***************************************************************************)
(* table GuestProgramArguments                                              *)
(***************************************************************************)
ArgumentsAreValid(s, compatible) ==
  /\ TableIsValid(s, 3, compatible)
  /\ BytesIsValid(Between(s, 1))
  /\ FixVecIsValid(Between(s, 2), HashSize)
  /\ ScriptIsValid(Between(s, 3), compatible)

ReadArguments(s) ==
  [blocks |-> Field(s, 1), witness_root |-> Field(s, 2), proposal_script |-> Field(s, 3)]
BuildArguments(a) == Encode(<<a.blocks, a.witness_root, a.proposal_script>>)

(***************************************************************************)
(* table Proposal                                                           *)
(***************************************************************************)
ProposalIsValid(s, compatible) ==
  /\ TableIsValid(s, 7, compatible)
  /\ ArrayIsValid(Between(s, 1), Uint32Size)
  /\ ArrayIsValid(Between(s, 2), HashSize)
  /\ ArrayIsValid(Between(s, 3), 1)
  /\ BytesIsValid(Between(s, 4))
  /\ ScriptIsValid(Between(s, 5), compatible)
  /\ ArrayIsValid(Between(s, 6), Uint64Size)
  /\ ArrayIsValid(Between(s, 7), Uint64Size)

ReadProposal(s) ==
  [duration |-> Field(s, 1), vote_cell_code_hash |-> Field(s, 2),
   vote_cell_hash_type |-> Field(s, 3), description |-> Field(s, 4),
   receiver |-> Field(s, 5), amount |-> Field(s, 6), minimal_requirement |-> Field(s, 7)]

BuildProposal(p) ==
  Encode(<<p.duration, p.vote_cell_code_hash, p.vote_cell_hash_type, p.description,
           p.receiver, p.amount, p.minimal_requirement>>)

DefaultProposal ==
  BuildProposal([duration |-> Zeros(Uint32Size), vote_cell_code_hash |-> Zeros(HashSize),
                 vote_cell_hash_type |-> Zeros(1), description |-> BuildBytes(<<>>),
                 receiver |-> DefaultScript, amount |-> Zeros(Uint64Size),
                 minimal_requirement |-> Zeros(Uint64Size)])

(***************************************************************************)
(* table PublicValues                                                       *)
(***************************************************************************)
PublicValuesIsValid(s, compatible) ==
  /\ TableIsValid(s, 7, compatible)
  /\ ProposalIsValid(Between(s, 1), compatible)
  /\ ArrayIsValid(Between(s, 2), HashSize)
  /\ ArrayIsValid(Between(s, 3), HashSize)
  /\ ScriptIsValid(Between(s, 4), compatible)
  /\ ArrayIsValid(Between(s, 5), 1)
  /\ ArrayIsValid(Between(s, 6), Uint64Size)
  /\ ArrayIsValid(Between(s, 7), Uint64Size)

ReadPublicValues(s) ==
  [proposal |-> Field(s, 1), start_block_hash |-> Field(s, 2), end_block_hash |-> Field(s, 3),
   proposal_script |-> Field(s, 4), passed |-> Field(s, 5), yes_vote |-> Field(s, 6),
   no_vote |-> Field(s, 7)]

\* Mutant: the two hashes change places.
BuildExchangedValues(pv) ==
  Encode(<<pv.proposal, pv.end_block_hash, pv.start_block_hash, pv.proposal_script,
           pv.passed, pv.yes_vote, pv.no_vote>>)

BuildPublicValues(pv) ==
  Encode(<<pv.proposal, pv.start_block_hash, pv.end_block_hash, pv.proposal_script,
           pv.passed, pv.yes_vote, pv.no_vote>>)

(***************************************************************************)
(* table ProposalWitness                                                    *)
(***************************************************************************)
ProposalWitnessIsValid(s, compatible) ==
  /\ TableIsValid(s, 2, compatible)
  /\ BytesIsValid(Between(s, 1))
  /\ PublicValuesIsValid(Between(s, 2), compatible)

ReadProposalWitness(s) == [proof |-> Field(s, 1), public_values |-> Field(s, 2)]
BuildProposalWitness(w) == Encode(<<w.proof, w.public_values>>)
-----------------------------------------------------------------------------
(***************************************************************************)
(* molecules/mod.rs                                                         *)
(***************************************************************************)
\* Mutant: the offsets of a vector are not looked at.
VectorHasHead(s) == SizeMatches(s) /\ (Len(s) = NumberSize \/ HeadMatches(s))

\* verify_vector_shallow, for the vectors in a block.
VectorIsValid(s) == OffsetsAreValid(s)

\* Mutant: the extension of a BlockV1 is refused.
ExactlyFour(s) == FieldCount(s) = 4

\* A Block, or a BlockV1 with its extension behind the four fields.
FourFields(s) == FieldCount(s) >= 4

HeaderIsWhole(s) == Offsets(s)[2] - Offsets(s)[1] = HeaderSize

\* verify_block_shallow
BlockIsShallowlyValid(s) ==
  /\ SizeMatches(s)
  /\ HeadMatches(s)
  /\ FourFields(s)
  /\ Ascending(s)
  /\ HeaderIsWhole(s)
  /\ VectorIsValid(Between(s, 2))
  /\ VectorIsValid(Between(s, 3))
  /\ FixVecIsValid(Between(s, 4), IdSize)

\* What the guest program reads of a block: the header, whose fields are at
\* fixed places, the transactions, and the other fields of a block.
BlockReadable(s) ==
  /\ \A i \in 1..4 : Readable(s, i, FieldCount(s))
  /\ Len(Item(s, 1, FieldCount(s))) = HeaderSize
  /\ \A i \in {2, 3} : VectorReadable(Item(s, i, FieldCount(s)))
=============================================================================
