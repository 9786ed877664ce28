--------------------------- MODULE ShallowVerify ---------------------------
(***************************************************************************)
(* The check that the guest program makes of the bytes of its blocks before *)
(* it reads them with readers that check nothing: the loop of               *)
(* verify_block_vec of crates/types/src/molecules/mod.rs.                   *)
(***************************************************************************)
EXTENDS MoleculeTypes

CONSTANTS
  Inputs,      \* the slices that the guest program may be given
  Written      \* lists of blocks that somebody has encoded

\* The parts of a block; more is the extension of a BlockV1, or what later
\* versions may add.
BlockParts ==
  [header : Seq(Byte), uncles : Seq(Seq(Byte)), transactions : Seq(Seq(Byte)),
   ids : Seq(Seq(Byte)), more : Seq(Seq(Byte))]

BlockFields(b) ==
  <<b.header, Encode(b.uncles), Encode(b.transactions), EncodeFix(b.ids)>> \o b.more

BuildBlocks(bs) == BuildBlockVec([i \in DOMAIN bs |-> Encode(BlockFields(bs[i]))])

Encodings == {BuildBlocks(bs) : bs \in Written}

\* The header has its size, and every size fits into a number.
CanBeWritten(b) ==
  /\ Len(b.header) = HeaderSize
  /\ \A i \in 1..Len(b.ids) : Len(b.ids[i]) = IdSize
  /\ Fit(b.uncles) /\ Fit(b.transactions) /\ Fits(Len(b.ids)) /\ Fit(BlockFields(b))

ASSUME InputsAssumption == Inputs \subseteq Seq(Byte)

ASSUME WrittenAssumption ==
  \A bs \in Written :
    /\ bs \in Seq(BlockParts)
    /\ \A i \in 1..Len(bs) : CanBeWritten(bs[i])
    /\ Fit([i \in DOMAIN bs |-> Encode(BlockFields(bs[i]))])

VARIABLES
  slice,   \* the bytes
  next,    \* the block that the loop checks next
  result   \* of verify_block_vec, "running" before it returns

vars == <<slice, next, result>>
-----------------------------------------------------------------------------
Init ==
  /\ slice \in Inputs
  /\ next = 0
  /\ result = "running"

\* Everything before the loop.
CheckOffsets ==
  /\ result = "running" /\ next = 0
  /\ next' = 1
  /\ result' = IF ~OffsetsAreValid(slice) THEN "error"
               ELSE IF Len(slice) = NumberSize THEN "ok"
               ELSE "running"
  /\ UNCHANGED slice

\* Mutant: the error of a block is dropped.
CheckBlockInVain ==
  /\ result = "running" /\ next > 0 /\ next <= FieldCount(slice)
  /\ next' = next + 1
  /\ UNCHANGED <<slice, result>>

\* One turn of the loop over the blocks.
CheckBlock ==
  /\ result = "running" /\ next > 0 /\ next <= FieldCount(slice)
  /\ next' = next + 1
  /\ result' = IF BlockIsShallowlyValid(Between(slice, next)) THEN "running" ELSE "error"
  /\ UNCHANGED slice

Accept ==
  /\ result = "running" /\ next > 0 /\ next > FieldCount(slice)
  /\ result' = "ok"
  /\ UNCHANGED <<slice, next>>

Next == CheckOffsets \/ CheckBlock \/ Accept

Spec == Init /\ [][Next]_vars
-----------------------------------------------------------------------------
(***************************************************************************)
(* Properties.                                                              *)
(***************************************************************************)
\* The loop stays within the blocks, and an error is the end of it.
TypeOK ==
  /\ slice \in Seq(Byte)
  /\ result \in {"running", "ok", "error"}
  /\ next \in Nat
  /\ (result = "running" /\ next > 0) =>
       /\ next <= FieldCount(slice) + 1
       /\ \A i \in 1..(next - 1) : BlockIsShallowlyValid(Between(slice, i))

\* The readers that check nothing stay in bounds on every slice that was
\* accepted, down to the bytes of each transaction: no offset that the prover
\* wrote makes the guest program read beside the block it belongs to.
AcceptedIsReadable ==
  result = "ok" =>
    /\ VectorReadable(slice)
    /\ \A i \in 1..ItemCount(slice) : BlockReadable(Item(slice, i, ItemCount(slice)))

\* Whatever is accepted is the encoding of the blocks that the readers find in
\* it, and each block the encoding of its fields and of the items of its two
\* vectors: nothing hides between them, nothing is read twice.
Fields(s) == [i \in 1..FieldCount(s) |-> Field(s, i)]

AcceptedIsEncoding ==
  result = "ok" =>
    /\ slice = Encode(ItemsOf(slice))
    /\ \A i \in 1..ItemCount(slice) :
         LET block == Item(slice, i, ItemCount(slice))
         IN  /\ block = Encode(Fields(block))
             /\ \A k \in {2, 3} : Field(block, k) = Encode(ItemsOf(Field(block, k)))

\* No encoding of blocks is refused, whatever is in them and however many fields a
\* block has behind the first four.
EncodingIsAccepted == slice \in Encodings => result # "error"

\* What the host has verified in full, prepare_guest_program_arguments with
\* BlockVec::from_compatible_slice, is not refused by the guest program.
HostAcceptedIsAccepted == BlockVecIsValid(slice, TRUE) => result # "error"
=============================================================================
