------------------------ MODULE ShallowVerifyProofs ------------------------
(***************************************************************************)
(* The readers that check nothing stay in bounds on what the verification   *)
(* accepts, for all slices and every size of a number and of a header.      *)
(*                                                                          *)
(* What one verified slice lets the readers do is said in MoleculeProofs.   *)
(* Here: the loop has verified every block in front of next (LoopInv), so   *)
(* all of them at the end.  It accepts encodings of blocks and nothing      *)
(* else, and no encoding that a builder has written is refused.             *)
(***************************************************************************)
EXTENDS ShallowVerify, MoleculeProofs

\* The inductive invariant of the loop of verify_block_vec.
LoopInv ==
  /\ slice \in Seq(Byte)
  /\ result \in {"running", "ok", "error"}
  /\ next \in Nat
  /\ (result = "running" /\ next > 0) =>
       /\ OffsetsAreValid(slice) /\ HeadMatches(slice)
       /\ next <= FieldCount(slice) + 1
       /\ \A i \in 1..(next - 1) : BlockIsShallowlyValid(Between(slice, i))
  /\ result = "ok" =>
       /\ OffsetsAreValid(slice)
       /\ Len(slice) # NumberSize =>
            \A i \in 1..FieldCount(slice) : BlockIsShallowlyValid(Between(slice, i))
-----------------------------------------------------------------------------
\* Every step of the loop keeps what it has verified.
LEMMA LoopInvariant == Spec => []LoopInv
<1>1. Init => LoopInv
  BY InputsAssumption DEF Init, LoopInv
<1>2. LoopInv /\ [Next]_vars => LoopInv'
  <2> SUFFICES ASSUME LoopInv, [Next]_vars
               PROVE  LoopInv'
    OBVIOUS
  <2>1. CASE CheckOffsets
    <3>1. CASE result' = "running"
      <4>1. OffsetsAreValid(slice) /\ HeadMatches(slice)
        BY <2>1, <3>1 DEF CheckOffsets, OffsetsAreValid
      <4>2. FieldCount(slice) \in Nat
        BY <4>1, HeadHolds DEF LoopInv
      <4> QED
        BY <2>1, <3>1, <4>1, <4>2 DEF CheckOffsets, LoopInv
    <3>2. CASE result' # "running"
      BY <2>1, <3>2 DEF CheckOffsets, LoopInv
    <3> QED
      BY <3>1, <3>2
  <2>2. CASE CheckBlock
    <3>1. /\ result = "running" /\ next \in Nat /\ next > 0 /\ next <= FieldCount(slice)
          /\ next' = next + 1 /\ slice' = slice /\ slice \in Seq(Byte)
          /\ result' = IF BlockIsShallowlyValid(Between(slice, next)) THEN "running" ELSE "error"
      BY <2>2 DEF CheckBlock, LoopInv
    <3>2. /\ OffsetsAreValid(slice) /\ HeadMatches(slice)
          /\ \A i \in 1..(next - 1) : BlockIsShallowlyValid(Between(slice, i))
      BY <3>1 DEF LoopInv
    <3>3. FieldCount(slice) \in Nat
      BY <3>1, <3>2, HeadHolds
    <3>4. CASE BlockIsShallowlyValid(Between(slice, next))
      <4>1. \A i \in 1..(next' - 1) : BlockIsShallowlyValid(Between(slice, i))
        BY <3>1, <3>2, <3>4
      <4> QED
        BY <3>1, <3>2, <3>3, <3>4, <4>1 DEF LoopInv
    <3>5. CASE ~BlockIsShallowlyValid(Between(slice, next))
      BY <3>1, <3>5 DEF LoopInv
    <3> QED
      BY <3>4, <3>5
  <2>3. CASE Accept
    <3>1. /\ result = "running" /\ next \in Nat /\ next > 0 /\ next > FieldCount(slice)
          /\ UNCHANGED <<slice, next>> /\ result' = "ok" /\ slice \in Seq(Byte)
      BY <2>3 DEF Accept, LoopInv
    <3>2. /\ OffsetsAreValid(slice) /\ HeadMatches(slice)
          /\ \A i \in 1..(next - 1) : BlockIsShallowlyValid(Between(slice, i))
      BY <3>1 DEF LoopInv
    <3>3. FieldCount(slice) \in Nat
      BY <3>1, <3>2, HeadHolds
    <3>4. \A i \in 1..FieldCount(slice) : BlockIsShallowlyValid(Between(slice, i))
      BY <3>1, <3>2, <3>3
    <3> QED
      BY <3>1, <3>2, <3>4 DEF LoopInv
  <2>4. CASE UNCHANGED vars
    BY <2>4 DEF LoopInv, vars
  <2> QED
    BY <2>1, <2>2, <2>3, <2>4 DEF Next
<1> QED
  BY <1>1, <1>2, PTL DEF Spec

\* The loop of verify_block_vec stays within the blocks and goes on only as
\* long as every block was valid, for every slice.
THEOREM TypeCorrect == Spec => []TypeOK
<1>1. LoopInv => TypeOK
  BY DEF LoopInv, TypeOK
<1> QED
  BY <1>1, LoopInvariant, PTL

\* Whatever verify_block_vec accepts, the readers that check nothing stay in
\* bounds on it, for every slice and every size of numbers and headers.
THEOREM AcceptedReads == Spec => []AcceptedIsReadable
<1>1. LoopInv => AcceptedIsReadable
  <2> SUFFICES ASSUME LoopInv, result = "ok"
               PROVE  /\ VectorReadable(slice)
                      /\ \A i \in 1..ItemCount(slice) :
                           BlockReadable(Item(slice, i, ItemCount(slice)))
    BY DEF AcceptedIsReadable
  <2>1. slice \in Seq(Byte) /\ OffsetsAreValid(slice)
    BY DEF LoopInv
  <2>2. CASE Len(slice) = NumberSize
    BY <2>1, <2>2, VectorHolds
  <2>3. CASE Len(slice) # NumberSize
    <3>1. /\ HeadMatches(slice) /\ Ascending(slice)
          /\ ItemCount(slice) = FieldCount(slice)
      BY <2>1, <2>3, VectorHolds DEF OffsetsAreValid
    <3>2. \A i \in 1..FieldCount(slice) : BlockIsShallowlyValid(Between(slice, i))
      BY <2>3 DEF LoopInv
    <3>3. \A i \in 1..FieldCount(slice) : BlockReadable(Item(slice, i, FieldCount(slice)))
      BY <2>1, <3>1, <3>2, ItemIsBetween, BlockHolds
    <3> QED
      BY <2>1, <3>1, <3>3, VectorHolds
  <2> QED
    BY <2>2, <2>3
<1> QED
  BY <1>1, LoopInvariant, PTL

\* Whatever verify_block_vec accepts is what the builders write of the blocks
\* that the readers find in it, for every slice.
THEOREM AcceptedEncodes == Spec => []AcceptedIsEncoding
<1>1. ASSUME NEW block \in Seq(Byte), BlockIsShallowlyValid(block)
      PROVE  /\ block = Encode(Fields(block))
             /\ \A k \in {2, 3} : Field(block, k) = Encode(ItemsOf(Field(block, k)))
  <2>1. SizeMatches(block) /\ HeadMatches(block) /\ Ascending(block) /\ FieldCount(block) >= 4
    BY <1>1 DEF BlockIsShallowlyValid, FourFields
  <2>2. block = Encode(Fields(block))
    BY <2>1, TableIsItsFields DEF Fields
  <2>3. FieldCount(block) \in Nat
    BY <2>1, HeadHolds
  <2>4. ASSUME NEW k \in {2, 3} PROVE Field(block, k) = Encode(ItemsOf(Field(block, k)))
    <3>1. k \in 1..FieldCount(block)
      BY <2>1, <2>3
    <3>2. Field(block, k) = Between(block, k) /\ Between(block, k) \in Seq(Byte)
      BY <2>1, <3>1, ItemIsBetween DEF Field
    <3>3. OffsetsAreValid(Field(block, k))
      BY <1>1, <3>2 DEF BlockIsShallowlyValid, VectorIsValid
    <3> QED
      BY <3>2, <3>3, VectorIsItsItems
  <2> QED
    BY <2>2, <2>4
<1>2. LoopInv => AcceptedIsEncoding
  <2> SUFFICES ASSUME LoopInv, result = "ok"
               PROVE  /\ slice = Encode(ItemsOf(slice))
                      /\ \A i \in 1..ItemCount(slice) :
                           LET block == Item(slice, i, ItemCount(slice))
                           IN  /\ block = Encode(Fields(block))
                               /\ \A k \in {2, 3} :
                                    Field(block, k) = Encode(ItemsOf(Field(block, k)))
    BY DEF AcceptedIsEncoding
  <2>1. slice \in Seq(Byte) /\ OffsetsAreValid(slice)
    BY DEF LoopInv
  <2>2. slice = Encode(ItemsOf(slice))
    BY <2>1, VectorIsItsItems
  <2>3. ASSUME NEW i \in 1..ItemCount(slice)
        PROVE  LET block == Item(slice, i, ItemCount(slice))
               IN  block \in Seq(Byte) /\ BlockIsShallowlyValid(block)
    <3>1. Len(slice) # NumberSize
      <4>1. Len(slice) = NumberSize => 1..ItemCount(slice) = {}
        BY <2>1, VectorHolds
      <4> QED
        BY <4>1
    <3>2. /\ HeadMatches(slice) /\ Ascending(slice)
          /\ ItemCount(slice) = FieldCount(slice)
      BY <2>1, <3>1, VectorHolds DEF OffsetsAreValid
    <3>3. BlockIsShallowlyValid(Between(slice, i))
      BY <3>1, <3>2 DEF LoopInv
    <3> QED
      BY <2>1, <3>2, <3>3, ItemIsBetween
  <2> QED
    BY <1>1, <2>2, <2>3
<1> QED
  BY <1>2, LoopInvariant, PTL

\* The guest program refuses no bytes that the host has verified in full, for
\* every slice: what the prover prepares from a dump of real blocks is counted.
THEOREM HostIsAccepted == Spec => []HostAcceptedIsAccepted
<1>1. Init => HostAcceptedIsAccepted
  BY DEF Init, HostAcceptedIsAccepted
<1>2. LoopInv /\ HostAcceptedIsAccepted /\ [Next]_vars => HostAcceptedIsAccepted'
  <2> SUFFICES ASSUME LoopInv, HostAcceptedIsAccepted, [Next]_vars,
                      BlockVecIsValid(slice', TRUE)
               PROVE  result' # "error"
    BY DEF HostAcceptedIsAccepted
  <2>1. slice' = slice
    BY DEF Next, CheckOffsets, CheckBlock, Accept, vars
  <2>2. /\ OffsetsAreValid(slice)
        /\ Len(slice) # NumberSize =>
             \A i \in 1..FieldCount(slice) : BlockIsValid(Between(slice, i), TRUE)
    BY <2>1 DEF BlockVecIsValid, ItemsIn
  <2>3. result # "error"
    BY <2>1 DEF HostAcceptedIsAccepted
  <2>4. CASE CheckOffsets
    BY <2>2, <2>4 DEF CheckOffsets
  <2>5. CASE CheckBlock
    <3>1. /\ next \in 1..FieldCount(slice) /\ slice \in Seq(Byte)
          /\ HeadMatches(slice) /\ Ascending(slice) /\ Len(slice) # NumberSize
      <4>1. /\ next \in Nat /\ next > 0 /\ next <= FieldCount(slice)
            /\ HeadMatches(slice) /\ slice \in Seq(Byte)
        BY <2>5 DEF CheckBlock, LoopInv
      <4>2. FieldCount(slice) \in Nat /\ Len(slice) # NumberSize
        BY <4>1, HeadHolds, LayoutAssumption DEF HeadMatches, HasNumber
      <4> QED
        BY <2>2, <4>1, <4>2 DEF OffsetsAreValid
    <3>2. BlockIsShallowlyValid(Between(slice, next))
      BY <2>2, <3>1, ItemIsBetween, FullIsShallow
    <3> QED
      BY <2>3, <2>5, <3>2 DEF CheckBlock
  <2>6. CASE Accept
    BY <2>6 DEF Accept
  <2>7. CASE UNCHANGED vars
    BY <2>3, <2>7 DEF vars
  <2> QED
    BY <2>4, <2>5, <2>6, <2>7 DEF Next
<1> QED
  BY <1>1, <1>2, LoopInvariant, PTL DEF Spec
-----------------------------------------------------------------------------
(***************************************************************************)
(* The other way round: blocks that the builders have written.              *)
(***************************************************************************)
\* Every vector that fits is verified.
LEMMA VectorIsVerified ==
  ASSUME NEW items \in Seq(Seq(Byte)), Fit(items)
  PROVE  Encode(items) \in Seq(Byte) /\ OffsetsAreValid(Encode(items))
<1>1. CASE items = <<>>
  <2>1. Fits(NumberSize)
    BY FitsWithin
  <2> QED
    BY <1>1, <2>1, EmptyVectorReads
<1>2. CASE items # <<>>
  BY <1>2, VectorReads
<1> QED
  BY <1>1, <1>2

LEMMA BuiltIsValid ==
  ASSUME NEW b \in BlockParts, CanBeWritten(b)
  PROVE  Encode(BlockFields(b)) \in Seq(Byte) /\ BlockIsShallowlyValid(Encode(BlockFields(b)))
<1> DEFINE header == b.header
           uncles == b.uncles
           transactions == b.transactions
           ids == b.ids
           fields == BlockFields(b)
           block == Encode(fields)
<1>1. /\ header \in Seq(Byte) /\ uncles \in Seq(Seq(Byte)) /\ transactions \in Seq(Seq(Byte))
      /\ ids \in Seq(Seq(Byte)) /\ fields \in Seq(Seq(Byte))
      /\ Len(header) = HeaderSize
      /\ Fit(uncles) /\ Fit(transactions)
      /\ Fits(Len(ids)) /\ \A i \in 1..Len(ids) : Len(ids[i]) = IdSize
      /\ Len(fields) >= 4 /\ Fit(fields)
      /\ fields[1] = header /\ fields[2] = Encode(uncles)
      /\ fields[3] = Encode(transactions) /\ fields[4] = EncodeFix(ids)
      /\ block = Encode(fields)
  <2>1. /\ header \in Seq(Byte) /\ uncles \in Seq(Seq(Byte))
        /\ transactions \in Seq(Seq(Byte)) /\ ids \in Seq(Seq(Byte))
        /\ b.more \in Seq(Seq(Byte))
    BY DEF BlockParts
  <2>2. /\ Len(header) = HeaderSize /\ Fit(uncles) /\ Fit(transactions) /\ Fits(Len(ids))
        /\ \A i \in 1..Len(ids) : Len(ids[i]) = IdSize
        /\ Fit(fields)
    BY DEF CanBeWritten
  <2>3. Encode(uncles) \in Seq(Byte) /\ Encode(transactions) \in Seq(Byte)
    BY <2>1, <2>2, VectorIsVerified
  <2>4. EncodeFix(ids) \in Seq(Byte)
    BY <2>1, <2>2, SizesAssumption, FixVecReads
  <2> DEFINE four == <<header, Encode(uncles), Encode(transactions), EncodeFix(ids)>>
             more == b.more
  <2>5. /\ four \in Seq(Seq(Byte)) /\ Len(four) = 4
        /\ four[1] = header /\ four[2] = Encode(uncles)
        /\ four[3] = Encode(transactions) /\ four[4] = EncodeFix(ids)
    BY <2>1, <2>3, <2>4
  <2>6. fields = four \o more
    BY DEF BlockFields
  <2> HIDE DEF four, more, fields
  <2>7. /\ fields \in Seq(Seq(Byte)) /\ Len(fields) >= 4
        /\ fields[1] = four[1] /\ fields[2] = four[2] /\ fields[3] = four[3]
        /\ fields[4] = four[4]
    <3>1. more \in Seq(Seq(Byte)) /\ Len(more) \in Nat
      BY <2>1 DEF more
    <3>2. /\ fields \in Seq(Seq(Byte)) /\ Len(fields) = Len(four) + Len(more)
          /\ \A i \in 1..(Len(four) + Len(more)) :
                fields[i] = IF i <= Len(four) THEN four[i] ELSE more[i - Len(four)]
      BY <2>5, <2>6, <3>1, ConcatProperties
    <3>3. \A i \in 1..4 : fields[i] = four[i]
      BY <2>5, <3>1, <3>2
    <3>4. 1 \in 1..4 /\ 2 \in 1..4 /\ 3 \in 1..4 /\ 4 \in 1..4
      OBVIOUS
    <3> QED
      BY <2>5, <3>1, <3>2, <3>3, <3>4
  <2> QED
    BY <2>1, <2>2, <2>5, <2>7 DEF fields
<1> HIDE DEF header, uncles, transactions, ids, fields, block
<1>2. OffsetsAreValid(fields[2]) /\ OffsetsAreValid(fields[3])
  BY <1>1, VectorIsVerified
<1>3. FixVecIsValid(fields[4], IdSize)
  <2>1. IdSize \in Nat
    BY SizesAssumption
  <2> QED
    BY <1>1, <2>1, FixVecReads
<1>4. fields # <<>> /\ \A i \in {1, 2, 3, 4} : i \in 1..Len(fields)
  BY <1>1, SMTT(30)
<1>5. Holds(block, fields)
  BY <1>1, <1>4, EncodingIsRead DEF Fit
<1>6. /\ block \in Seq(Byte) /\ SizeMatches(block) /\ HeadMatches(block) /\ Ascending(block)
      /\ FieldCount(block) = Len(fields)
      /\ \A i \in {1, 2, 3, 4} : Between(block, i) = fields[i]
  BY <1>4, <1>5 DEF Holds
<1>7. HeaderIsWhole(block)
  <2>1. 1 \in 1..FieldCount(block) /\ 1 + 1 = 2
    BY <1>4, <1>6
  <2>2. Len(Between(block, 1)) = Offsets(block)[1 + 1] - Offsets(block)[1]
    BY <1>6, <2>1, ItemIsBetween
  <2> QED
    BY <1>1, <1>6, <2>1, <2>2 DEF HeaderIsWhole
<1>8. FourFields(block)
  BY <1>1, <1>6 DEF FourFields
<1> QED
  BY <1>2, <1>3, <1>6, <1>7, <1>8 DEF BlockIsShallowlyValid, block, fields, VectorIsValid

\* The loop lets a slice through that the builders have written.
LEMMA BuiltIsAccepted ==
  ASSUME NEW bs \in Seq(BlockParts), \A i \in 1..Len(bs) : CanBeWritten(bs[i]),
         Fit([i \in DOMAIN bs |-> Encode(BlockFields(bs[i]))])
  PROVE  /\ OffsetsAreValid(BuildBlocks(bs))
         /\ Len(BuildBlocks(bs)) # NumberSize =>
              \A i \in 1..FieldCount(BuildBlocks(bs)) :
                 BlockIsShallowlyValid(Between(BuildBlocks(bs), i))
<1> DEFINE blocks == [i \in DOMAIN bs |-> Encode(BlockFields(bs[i]))]
           s == Encode(blocks)
<1>1. \A i \in 1..Len(bs) : blocks[i] \in Seq(Byte) /\ BlockIsShallowlyValid(blocks[i])
  BY BuiltIsValid
<1>2. blocks \in Seq(Seq(Byte)) /\ Len(blocks) = Len(bs)
  <2>1. Len(bs) \in Nat /\ DOMAIN bs = 1..Len(bs)
    OBVIOUS
  <2> QED
    BY <1>1, <2>1
<1> HIDE DEF blocks
<1>3. OffsetsAreValid(s)
  BY <1>2, VectorIsVerified DEF blocks
<1>4. ASSUME Len(s) # NumberSize, NEW i \in 1..FieldCount(s)
      PROVE  BlockIsShallowlyValid(Between(s, i))
  <2>0. Fit(blocks)
    BY DEF blocks
  <2>1. CASE blocks = <<>>
    <3>1. Fits(NumberSize)
      BY <1>2, <2>0, FitsWithin
    <3>2. ItemsIn(Encode(<<>>)) = {}
      BY <3>1, EmptyVectorReads
    <3> QED
      BY <1>4, <2>1, <3>2 DEF ItemsIn
  <2>2. CASE blocks # <<>>
    <3>1. Holds(s, blocks)
      BY <1>2, <2>0, <2>2, EncodingIsRead DEF Fit
    <3>2. Between(s, i) = blocks[i] /\ i \in 1..Len(blocks)
      BY <3>1 DEF Holds
    <3> QED
      BY <1>1, <1>2, <3>2
  <2> QED
    BY <2>1, <2>2
<1>5. BuildBlocks(bs) = s
  BY DEF BuildBlocks, BuildBlockVec, blocks
<1> QED
  BY <1>3, <1>4, <1>5

\* The guest program refuses no blocks that somebody has encoded, however many
\* there are, as long as the sizes fit into numbers.
THEOREM NoEncodingRefused == Spec => []EncodingIsAccepted
<1>1. \A s \in Encodings :
        /\ OffsetsAreValid(s)
        /\ Len(s) # NumberSize =>
             \A i \in 1..FieldCount(s) : BlockIsShallowlyValid(Between(s, i))
  BY WrittenAssumption, BuiltIsAccepted DEF Encodings
<1>2. Init => EncodingIsAccepted
  BY DEF Init, EncodingIsAccepted
<1>3. LoopInv /\ EncodingIsAccepted /\ [Next]_vars => EncodingIsAccepted'
  <2> DEFINE s == slice
  <2> SUFFICES ASSUME LoopInv, EncodingIsAccepted, [Next]_vars, slice' \in Encodings
               PROVE  result' # "error"
    BY DEF EncodingIsAccepted
  <2>1. slice' = slice
    BY DEF Next, CheckOffsets, CheckBlock, Accept, vars
  <2>2. result # "error" /\ s \in Encodings
    BY <2>1 DEF EncodingIsAccepted
  <2>3. CASE CheckOffsets
    BY <1>1, <2>2, <2>3 DEF CheckOffsets
  <2>4. CASE CheckBlock
    <3>1. /\ next \in Nat /\ next > 0 /\ next <= FieldCount(s) /\ HeadMatches(s)
          /\ s \in Seq(Byte)
      BY <2>2, <2>4 DEF CheckBlock, LoopInv
    <3>2. FieldCount(s) \in Nat /\ Len(s) # NumberSize
      BY <3>1, HeadHolds, LayoutAssumption DEF HeadMatches, HasNumber
    <3>3. next \in 1..FieldCount(s)
      BY <3>1, <3>2
    <3>4. BlockIsShallowlyValid(Between(slice, next))
      BY <1>1, <2>2, <3>2, <3>3
    <3> QED
      BY <2>2, <2>4, <3>4 DEF CheckBlock
  <2>5. CASE Accept
    BY <2>5 DEF Accept
  <2>6. CASE UNCHANGED vars
    BY <2>2, <2>6 DEF vars
  <2> QED
    BY <2>3, <2>4, <2>5, <2>6 DEF Next
<1> QED
  BY <1>2, <1>3, LoopInvariant, PTL DEF Spec
=============================================================================
