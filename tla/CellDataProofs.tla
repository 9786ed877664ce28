--------------------------- MODULE CellDataProofs ---------------------------
(***************************************************************************)
(* What holds of the bytes of the cells for all bytes and all sizes: what   *)
(* the type scripts accept can be read by the counter, and a proposal is    *)
(* settled by one sequence of bytes only.                                   *)
(*                                                                          *)
(* And of the whole way, as long as the sizes fit into numbers: the dump is *)
(* verified and read as it was written, so the vote is counted, and the SDK *)
(* writes the public values as the guest program has committed them, unless *)
(* its codecs refuse the hash type of the receiver.                         *)
(***************************************************************************)
EXTENDS CellData, MoleculeProofs

\* The accessors of a vote that from_compatible_slice has accepted find its
\* fields, its amount has the width of a u64, and its indices are in bounds.
LEMMA VoteReads ==
  ASSUME NEW s \in Seq(Byte), VoteIsValid(s, TRUE)
  PROVE  VoteReadable(s)
<1>1. HeadMatches(s) /\ Ascending(s) /\ FieldCount(s) >= 3
  BY DEF VoteIsValid, TableIsValid, FieldCountMatches
<1>2. FieldCount(s) \in Nat
  BY <1>1, HeadHolds
<1>3. \A i \in 1..3 :
        /\ Readable(s, i, FieldCount(s))
        /\ Field(s, i) = Between(s, i)
        /\ Field(s, i) \in Seq(Byte)
  BY <1>1, <1>2, ItemIsBetween, SMTT(30) DEF Field
<1>4. Len(Field(s, 2)) = Uint64Size
  BY <1>3 DEF VoteIsValid, ArrayIsValid
<1> DEFINE f == Field(s, 3)
<1>5. f \in Seq(Byte) /\ Len(f) >= NumberSize /\ Len(f) = NumberSize + Number(f, 0) * Uint16Size
  BY <1>3 DEF VoteIsValid, Uint16VecIsValid, FixVecIsValid
<1> HIDE DEF f
<1>6. NumberSize \in Nat /\ Uint16Size \in Nat /\ Number(f, 0) \in Nat
  <2>1. NumberSize \in Nat /\ Uint16Size \in Nat
    BY LayoutAssumption, SizesAssumption
  <2>2. HasNumber(f, 0)
    BY <1>5, <2>1 DEF HasNumber
  <2> QED
    BY <1>5, <2>1, <2>2, NumberType
<1>7. ASSUME NEW i \in 1..Number(f, 0)
      PROVE  FixReadable(f, i, Uint16Size)
  <2>1. i \in Nat /\ i <= Number(f, 0)
    BY <1>6
  <2>2. i * Uint16Size <= Number(f, 0) * Uint16Size /\ i * Uint16Size \in Nat
        /\ Number(f, 0) * Uint16Size \in Nat
    BY <1>6, <2>1, Products
  <2> QED
    BY <1>5, <1>6, <2>2 DEF FixReadable
<1> QED
  BY <1>3, <1>4, <1>5, <1>7 DEF VoteReadable, f

\* Every cell that was accepted can be read by the counter, for all bytes that
\* somebody may put into one.
THEOREM CellsAreReadable == Spec => []AcceptedCellsAreReadable
<1>1. Init => AcceptedCellsAreReadable
  BY DEF Init, AcceptedCellsAreReadable
<1>2. AcceptedCellsAreReadable /\ [Next]_vars => AcceptedCellsAreReadable'
  <2> SUFFICES ASSUME AcceptedCellsAreReadable, [Next]_vars
               PROVE  AcceptedCellsAreReadable'
    OBVIOUS
  <2>1. CASE Create
    <3>1. ProposalIsValid(proposal', FALSE) /\ vote' = vote
      BY <2>1 DEF Create
    <3>2. ProposalIsValid(proposal', TRUE)
      BY <3>1, StrictProposalIsCompatible
    <3> QED
      BY <3>1, <3>2 DEF AcceptedCellsAreReadable
  <2>2. CASE Cast
    <3>1. vote' \in Seq(Byte) /\ VoteIsValid(vote', FALSE) /\ proposal' = proposal
      BY <2>2, DataAssumption DEF Cast, VoteAccepted
    <3>2. VoteIsValid(vote', TRUE)
      BY <3>1, StrictVoteIsCompatible
    <3>3. VoteReadable(vote')
      BY <3>1, <3>2, VoteReads
    <3> QED
      BY <3>1, <3>2, <3>3 DEF AcceptedCellsAreReadable
  <2>3. CASE Prove
    BY <2>3 DEF Prove, AcceptedCellsAreReadable
  <2>4. CASE Settle
    BY <2>4 DEF Settle, AcceptedCellsAreReadable
  <2>5. CASE Consume
    BY <2>5 DEF Consume, AcceptedCellsAreReadable
  <2>6. CASE UNCHANGED vars
    BY <2>6 DEF vars, AcceptedCellsAreReadable
  <2> QED
    BY <2>1, <2>2, <2>3, <2>4, <2>5, <2>6 DEF Next
<1> QED
  BY <1>1, <1>2, PTL DEF Spec

\* A witness has two fields.
LEMMA SameTwoFields ==
  ASSUME NEW v \in Seq(Byte), NEW w \in Seq(Byte),
         TableIsValid(v, 2, FALSE), TableIsValid(w, 2, FALSE),
         Field(v, 1) = Field(w, 1), Field(v, 2) = Field(w, 2)
  PROVE  v = w
<1>1. PICK c \in Nat \ {0} : c = 2
  OBVIOUS
<1>2. \A i \in 1..c : Field(v, i) = Field(w, i)
  BY <1>1
<1> QED
  BY <1>1, <1>2, SameFieldsSameBytes

\* Two witnesses that the proposal type script accepts have the same public
\* values, those that the proof speaks of, and the same proof; and strict
\* tables with the same fields are the same bytes.
THEOREM WitnessIsUnique == Spec => []OneWitness
<1>1. ASSUME NEW v \in Seq(Byte), NEW w \in Seq(Byte),
             ConsumptionAccepted(v), ConsumptionAccepted(w)
      PROVE  v = w
  <2>1. /\ TableIsValid(v, 2, FALSE) /\ TableIsValid(w, 2, FALSE)
        /\ BytesIsValid(Between(v, 1)) /\ BytesIsValid(Between(w, 1))
    BY <1>1 DEF ConsumptionAccepted, ProposalWitnessIsValid
  <2>2. Field(v, 2) = values /\ Field(w, 2) = values
    BY <1>1 DEF ConsumptionAccepted, ReadProposalWitness, Proves
  <2>3. RawData(Field(v, 1)) = ProofBytes /\ RawData(Field(w, 1)) = ProofBytes
    BY <1>1 DEF ConsumptionAccepted, ReadProposalWitness, Proves
  <2>4. /\ Field(v, 1) \in Seq(Byte) /\ Field(v, 1) = Between(v, 1)
        /\ Field(w, 1) \in Seq(Byte) /\ Field(w, 1) = Between(w, 1)
    <3>1. \A s \in Seq(Byte) :
            TableIsValid(s, 2, FALSE) =>
              Field(s, 1) \in Seq(Byte) /\ Field(s, 1) = Between(s, 1)
      <4> SUFFICES ASSUME NEW s \in Seq(Byte), TableIsValid(s, 2, FALSE)
                   PROVE  Field(s, 1) \in Seq(Byte) /\ Field(s, 1) = Between(s, 1)
        OBVIOUS
      <4>1. HeadMatches(s) /\ Ascending(s) /\ FieldCount(s) = 2
        BY DEF TableIsValid, FieldCountMatches
      <4> QED
        BY <4>1, ItemIsBetween DEF Field
    <3> QED
      BY <2>1, <3>1
  <2>5. Field(v, 1) = Field(w, 1)
    BY <2>1, <2>3, <2>4, SameBytes
  <2> QED
    BY <2>1, <2>2, <2>5, SameTwoFields
<1>2. OneWitness
  BY <1>1 DEF OneWitness, Settling
<1> QED
  BY <1>2, PTL
-----------------------------------------------------------------------------
(***************************************************************************)
(* The window as the guest program reads it.                                *)
(***************************************************************************)
RawFields(data) == <<<<>>, <<>>, <<>>, <<>>, <<>>, Encode(<<BuildBytes(data)>>)>>
TransactionFields(data) == <<Encode(RawFields(data)), Encode(<<>>)>>
BlockFields(data) ==
  <<Zeros(HeaderSize), Encode(<<>>), Encode(<<Transaction(data)>>), EncodeFix(<<>>)>>

\* Every size in a block with this data fits into a number.
BlockFits(data) ==
  /\ Fits(Len(data)) /\ Fit(<<BuildBytes(data)>>)
  /\ Fit(RawFields(data)) /\ Fit(TransactionFields(data))
  /\ Fit(<<Transaction(data)>>) /\ Fit(BlockFields(data))

LEMMA ZerosType ==
  ASSUME NEW size \in Nat
  PROVE  Zeros(size) \in Seq(Byte) /\ Len(Zeros(size)) = size
BY PartsAssumption DEF Zeros

\* A transaction is verified in full, and its output has the data that was put
\* into it.
LEMMA TransactionReads ==
  ASSUME NEW data \in Seq(Byte), BlockFits(data)
  PROVE  /\ Transaction(data) \in Seq(Byte)
         /\ TransactionIsValid(Transaction(data), TRUE)
         /\ OutputsData(Transaction(data)) = <<BuildBytes(data)>>
<1> DEFINE b == BuildBytes(data)
           outputs == <<b>>
           v == Encode(outputs)
           none == Encode(<<>>)
           fields == RawFields(data)
           raw == Encode(fields)
           parts == TransactionFields(data)
           tx == Transaction(data)
<1>1. b \in Seq(Byte) /\ BytesIsValid(b)
  BY BytesRead DEF BlockFits
<1>2. Fit(outputs) /\ Fit(fields) /\ Fit(parts)
  BY DEF BlockFits
<1> HIDE DEF b
<1>3. outputs \in Seq(Seq(Byte)) /\ outputs # <<>> /\ Len(outputs) = 1 /\ outputs[1] = b
  BY <1>1
<1> HIDE DEF outputs
<1>4. v \in Seq(Byte) /\ OffsetsAreValid(v) /\ ItemsOf(v) = outputs
      /\ ItemsIn(v) = {outputs[i] : i \in 1..Len(outputs)}
  BY <1>2, <1>3, VectorReads
<1>5. BytesVecIsValid(v)
  <2>1. \A i \in 1..Len(outputs) : BytesIsValid(outputs[i])
    <3>1. \A i \in 1..1 : i = 1
      OBVIOUS
    <3> QED
      BY <1>1, <1>3, <3>1
  <2> QED
    BY <1>4, <2>1 DEF BytesVecIsValid
<1>6. /\ none \in Seq(Byte) /\ BytesVecIsValid(none)
  <2>1. Fits(NumberSize)
    BY <1>2, <1>3, FitsWithin
  <2> QED
    BY <2>1, EmptyVectorReads DEF BytesVecIsValid
<1>7. fields = <<<<>>, <<>>, <<>>, <<>>, <<>>, v>>
  BY DEF RawFields, v, outputs, b
<1>8. parts = <<raw, none>> /\ tx = Encode(parts)
  BY DEF TransactionFields, Transaction, RawFields, raw, none, fields, parts, tx
<1> HIDE DEF v, none, fields, parts, tx
<1>9. fields \in Seq(Seq(Byte)) /\ fields # <<>> /\ Len(fields) = 6 /\ fields[6] = v
  <2>1. PICK e \in Seq(Byte) : e = <<>>
    <3>1. <<>> \in Seq(Byte)
      BY EmptySeq
    <3> QED
      BY ONLY <3>1
  <2>2. fields = <<e, e, e, e, e, v>>
    BY <1>7, <2>1
  <2> QED
    BY <1>4, <2>2
<1>10. /\ raw \in Seq(Byte) /\ TableIsValid(raw, 6, TRUE)
       /\ Between(raw, 6) = v /\ Field(raw, 6) = v
  <2>1. 6 \in 1..6
    OBVIOUS
  <2> QED
    BY <1>2, <1>9, <2>1, TableReads
<1>11. RawTransactionIsValid(raw, TRUE)
  BY <1>5, <1>10 DEF RawTransactionIsValid
<1> HIDE DEF raw
<1>12. parts \in Seq(Seq(Byte)) /\ parts # <<>> /\ Len(parts) = 2
       /\ parts[1] = raw /\ parts[2] = none
  BY <1>6, <1>8, <1>10
<1>13. /\ tx \in Seq(Byte) /\ TableIsValid(tx, 2, TRUE)
       /\ Between(tx, 1) = raw /\ Field(tx, 1) = raw /\ Between(tx, 2) = none
  <2>1. 1 \in 1..2 /\ 2 \in 1..2
    OBVIOUS
  <2> QED
    BY <1>2, <1>8, <1>12, <2>1, TableReads
<1>14. TransactionIsValid(tx, TRUE)
  BY <1>6, <1>11, <1>13 DEF TransactionIsValid
<1>15. OutputsData(tx) = outputs
  BY <1>4, <1>10, <1>13 DEF OutputsData
<1> QED
  BY <1>13, <1>14, <1>15 DEF tx, outputs, b

\* So is its block.
LEMMA BlockReads ==
  ASSUME NEW data \in Seq(Byte), BlockFits(data)
  PROVE  /\ Block(data) \in Seq(Byte) /\ BlockIsValid(Block(data), TRUE)
         /\ BlockTransactions(Block(data)) = <<Transaction(data)>>
<1> DEFINE tx == Transaction(data)
           txs == <<tx>>
           v == Encode(txs)
           none == Encode(<<>>)
           ids == EncodeFix(<<>>)
           header == Zeros(HeaderSize)
           fields == BlockFields(data)
           block == Block(data)
<1>1. tx \in Seq(Byte) /\ TransactionIsValid(tx, TRUE)
  BY TransactionReads
<1>2. Fit(txs) /\ Fit(fields)
  BY DEF BlockFits
<1>3. block = Encode(fields) /\ fields = <<header, none, v, ids>>
  BY DEF Block, BlockFields
<1> HIDE DEF tx
<1>4. txs \in Seq(Seq(Byte)) /\ txs # <<>> /\ Len(txs) = 1 /\ txs[1] = tx
  BY <1>1
<1> HIDE DEF txs
<1>5. v \in Seq(Byte) /\ OffsetsAreValid(v) /\ ItemsOf(v) = txs
      /\ ItemsIn(v) = {txs[i] : i \in 1..Len(txs)}
  BY <1>2, <1>4, VectorReads
<1>6. \A item \in ItemsIn(v) : TransactionIsValid(item, TRUE)
  <2>1. \A i \in 1..1 : i = 1
    OBVIOUS
  <2> QED
    BY <1>1, <1>4, <1>5, <2>1
<1>7. Fits(NumberSize) /\ Fits(0)
  BY <1>2, <1>4, FitsWithin
<1>8. none \in Seq(Byte) /\ OffsetsAreValid(none) /\ ItemsIn(none) = {}
  BY <1>7, EmptyVectorReads
<1>9. ids \in Seq(Byte) /\ FixVecIsValid(ids, IdSize)
  <2>1. PICK e \in Seq(Seq(Byte)) : e = <<>>
    <3>1. PICK T : T = Seq(Byte)
      OBVIOUS
    <3>2. <<>> \in Seq(T)
      BY EmptySeq
    <3> QED
      BY <3>1, <3>2
  <2>2. Len(e) = 0 /\ \A i \in 1..Len(e) : FALSE
    BY <2>1
  <2>3. IdSize \in Nat
    BY SizesAssumption
  <2>4. EncodeFix(e) \in Seq(Byte) /\ FixVecIsValid(EncodeFix(e), IdSize)
    BY <1>7, <2>2, <2>3, FixVecReads
  <2> QED
    BY <2>1, <2>4
<1>10. header \in Seq(Byte) /\ Len(header) = HeaderSize
  BY SizesAssumption, ZerosType
<1> HIDE DEF v, none, ids, header, fields, block
<1>11. /\ fields \in Seq(Seq(Byte)) /\ fields # <<>> /\ Len(fields) = 4
       /\ fields[1] = header /\ fields[2] = none /\ fields[3] = v /\ fields[4] = ids
  BY <1>3, <1>5, <1>8, <1>9, <1>10
<1>12. /\ block \in Seq(Byte) /\ TableIsValid(block, 4, TRUE)
       /\ Between(block, 1) = header /\ Between(block, 2) = none
       /\ Between(block, 3) = v /\ Between(block, 4) = ids /\ Field(block, 3) = v
  <2>1. \A i \in {1, 2, 3, 4} : i \in 1..4
    OBVIOUS
  <2> QED
    BY <1>2, <1>3, <1>11, <2>1, TableReads
<1>13. BlockIsValid(block, TRUE)
  BY <1>5, <1>6, <1>8, <1>9, <1>10, <1>12 DEF BlockIsValid, ArrayIsValid
<1>14. BlockTransactions(block) = txs
  BY <1>5, <1>12 DEF BlockTransactions
<1> QED
  BY <1>12, <1>13, <1>14 DEF block, txs, tx

\* The data in a block of the window.
LEMMA DataReads ==
  ASSUME NEW data \in Seq(Byte), BlockFits(data), NEW blocks, NEW i,
         BlocksOf(blocks)[i] = Block(data)
  PROVE  DataIn(blocks, i) = {data}
<1> DEFINE tx == Transaction(data)
           txs == <<tx>>
<1>1. BlockTransactions(BlocksOf(blocks)[i]) = txs
  BY BlockReads
<1>2. DataIn(blocks, i) = {RawData(OutputsData(txs[t])[1]) : t \in DOMAIN txs}
  BY <1>1 DEF DataIn
<1>3. OutputsData(tx) = <<BuildBytes(data)>>
  BY TransactionReads
<1>4. RawData(BuildBytes(data)) = data
  BY BytesRead DEF BlockFits
<1> HIDE DEF tx
<1>5. DOMAIN txs = {1} /\ txs[1] = tx
  OBVIOUS
<1> HIDE DEF txs
<1>6. RawData(OutputsData(txs[1])[1]) = data
  <2>1. OutputsData(txs[1])[1] = BuildBytes(data)
    BY <1>3, <1>5
  <2> QED
    BY <1>4, <2>1
<1> QED
  BY <1>2, <1>5, <1>6
Window == IF vote = <<>> THEN <<Block(proposal)>> ELSE <<Block(proposal), Block(vote)>>
WitnessRoots == [i \in 1..ItemCount(Dump) |-> Zeros(HashSize)]
ArgumentFields == <<BuildBytes(Dump), EncodeFix(WitnessRoots), ProposalScript>>
ValueFields(passed) ==
  <<proposal, StartHash, EndHash, ProposalScript, passed, Zeros(Uint64Size), Zeros(Uint64Size)>>

\* The values that the guest program gives to the field passed, a single byte.
Flag == {<<0>>, <<1>>}

\* Every size that is written on the way of the cells fits into a number.  A
\* number has 32 bits, and a block on CKB less than a million bytes.
SizesFit ==
  /\ BlockFits(proposal) /\ BlockFits(vote)
  /\ Fit(Window) /\ Fits(Len(Dump)) /\ Fit(ArgumentFields)
  /\ \A passed \in Flag : Fit(ValueFields(passed))
  /\ Fits(Len(ProofBytes)) /\ Fit(<<BuildBytes(ProofBytes), values>>)

\* What dump-blocks writes is verified, and has the blocks of the window and the
\* data that was put into them.
LEMMA DumpReads ==
  ASSUME proposal \in Seq(Byte), vote \in Seq(Byte), SizesFit
  PROVE  /\ Dump \in Seq(Byte) /\ BlockVecIsValid(Dump, TRUE) /\ ShallowlyValid(Dump)
         /\ ItemCount(Dump) = IF vote = <<>> THEN 1 ELSE 2
         /\ Fits(ItemCount(Dump))
         /\ DataIn(Dump, 1) = {proposal}
         /\ vote # <<>> => DataIn(Dump, 2) = {vote}
<1> DEFINE w == Window
           p == Block(proposal)
           v == Block(vote)
<1>1. /\ BlockFits(proposal) /\ BlockFits(vote) /\ Fit(w)
      /\ Dump = Encode(w)
  BY DEF SizesFit, Dump, Window, BuildBlockVec
<1>2. p \in Seq(Byte) /\ BlockIsValid(p, TRUE) /\ v \in Seq(Byte) /\ BlockIsValid(v, TRUE)
  BY <1>1, BlockReads
<1>3. w = IF vote = <<>> THEN <<p>> ELSE <<p, v>>
  BY DEF Window
<1> HIDE DEF w, p, v
<1>4. /\ w \in Seq(Seq(Byte)) /\ w # <<>> /\ Len(w) = (IF vote = <<>> THEN 1 ELSE 2)
      /\ w[1] = p /\ (vote # <<>> => w[2] = v)
  BY <1>2, <1>3
<1>5. \A i \in 1..Len(w) : w[i] \in Seq(Byte) /\ BlockIsValid(w[i], TRUE)
  <2>1. \A i \in 1..Len(w) : i = 1 \/ (i = 2 /\ vote # <<>>)
    BY <1>4
  <2> QED
    BY <1>2, <1>4, <2>1
<1> DEFINE s == Encode(w)
<1>6. /\ s \in Seq(Byte) /\ OffsetsAreValid(s) /\ ItemCount(s) = Len(w) /\ ItemsOf(s) = w
      /\ ItemsIn(s) = {w[i] : i \in 1..Len(w)}
      /\ \A i \in 1..Len(w) : Between(s, i) = w[i]
  BY <1>1, <1>4, VectorReads
<1>7. Fits(Len(w))
  BY <1>1, <1>4, FitsWithin
<1> HIDE DEF s
<1>8. BlockVecIsValid(s, TRUE)
  BY <1>5, <1>6 DEF BlockVecIsValid
<1>9. ShallowlyValid(s)
  BY <1>5, <1>6, FullIsShallow DEF ShallowlyValid
<1>10. DataIn(s, 1) = {proposal}
  <2>1. BlocksOf(s)[1] = Block(proposal)
    BY <1>4, <1>6 DEF BlocksOf, p
  <2> QED
    BY <1>1, <2>1, DataReads
<1>11. vote # <<>> => DataIn(s, 2) = {vote}
  <2>1. vote # <<>> => BlocksOf(s)[2] = Block(vote)
    BY <1>4, <1>6 DEF BlocksOf, v
  <2> QED
    BY <1>1, <2>1, DataReads
<1>12. s = Dump
  BY <1>1 DEF s
<1> QED
  BY <1>4, <1>6, <1>7, <1>8, <1>9, <1>10, <1>11, <1>12

\* So are the arguments of the guest program, and the dump is in them.
LEMMA ArgumentsRead ==
  ASSUME proposal \in Seq(Byte), vote \in Seq(Byte), SizesFit
  PROVE  /\ ArgumentsAreValid(Arguments(Dump), FALSE)
         /\ RawData(ReadArguments(Arguments(Dump)).blocks) = Dump
<1> DEFINE b == BuildBytes(Dump)
           roots == EncodeFix(WitnessRoots)
           fields == ArgumentFields
           args == Arguments(Dump)
<1>1. Dump \in Seq(Byte) /\ Fits(ItemCount(Dump)) /\ ItemCount(Dump) \in Nat
  BY DumpReads
<1>2. b \in Seq(Byte) /\ BytesIsValid(b) /\ RawData(b) = Dump
  BY <1>1, BytesRead DEF SizesFit
<1>3. roots \in Seq(Byte) /\ FixVecIsValid(roots, HashSize)
  <2>1. HashSize \in Nat
    BY SizesAssumption
  <2>2. Zeros(HashSize) \in Seq(Byte) /\ Len(Zeros(HashSize)) = HashSize
    BY <2>1, ZerosType
  <2>3. /\ WitnessRoots \in Seq(Seq(Byte)) /\ Len(WitnessRoots) = ItemCount(Dump)
        /\ \A i \in 1..Len(WitnessRoots) : Len(WitnessRoots[i]) = HashSize
    <3>1. PICK z \in Seq(Byte), c \in Nat : z = Zeros(HashSize) /\ c = ItemCount(Dump)
      BY <1>1, <2>2
    <3>2. WitnessRoots = [i \in 1..c |-> z]
      BY <3>1 DEF WitnessRoots
    <3>3. Len(z) = HashSize
      BY <2>2, <3>1
    <3> QED
      BY <3>1, <3>2, <3>3, SMTT(30)
  <2> QED
    BY <1>1, <2>1, <2>3, FixVecReads
<1>4. args = Encode(fields) /\ fields = <<b, roots, ProposalScript>> /\ Fit(fields)
  BY DEF Arguments, BuildArguments, ArgumentFields, WitnessRoots, SizesFit
<1>5. ProposalScript \in Seq(Byte) /\ ScriptIsValid(ProposalScript, FALSE)
  BY PartsAssumption
<1> HIDE DEF b, roots, fields, args
<1>6. /\ fields \in Seq(Seq(Byte)) /\ fields # <<>> /\ Len(fields) = 3
      /\ fields[1] = b /\ fields[2] = roots /\ fields[3] = ProposalScript
  BY <1>2, <1>3, <1>4, <1>5
<1>7. /\ TableIsValid(args, 3, FALSE)
      /\ Between(args, 1) = b /\ Between(args, 2) = roots
      /\ Between(args, 3) = ProposalScript /\ Field(args, 1) = b
  <2>1. \A i \in {1, 2, 3} : i \in 1..3
    OBVIOUS
  <2> QED
    BY <1>4, <1>6, <2>1, TableReads
<1>8. ArgumentsAreValid(args, FALSE)
  BY <1>2, <1>3, <1>5, <1>7 DEF ArgumentsAreValid
<1>9. RawData(ReadArguments(args).blocks) = Dump
  BY <1>2, <1>7 DEF ReadArguments
<1> QED
  BY <1>8, <1>9 DEF args

\* The prover gets through every window, and counts and commits what the cells
\* have.
LEMMA GuestReads ==
  ASSUME proposal \in Seq(Byte), vote \in Seq(Byte), SizesFit,
         ProposalIsValid(proposal, FALSE), vote # <<>> => VoteIsValid(vote, TRUE)
  PROVE  /\ HostAccepts(Dump) /\ ~GuestPanics(Arguments(Dump))
         /\ VotesIn(Dump) = IF vote = <<>> THEN {} ELSE {vote}
         /\ Found(Dump) = proposal
<1>1. /\ BlockVecIsValid(Dump, TRUE) /\ ShallowlyValid(Dump)
      /\ ItemCount(Dump) = IF vote = <<>> THEN 1 ELSE 2
      /\ DataIn(Dump, 1) = {proposal}
      /\ vote # <<>> => DataIn(Dump, 2) = {vote}
  BY DumpReads
<1>2. HostAccepts(Dump)
  <2>1. ItemCount(Dump) > 0
    BY <1>1
  <2> QED
    BY <1>1, <2>1 DEF HostAccepts
<1>3. VotesIn(Dump) = IF vote = <<>> THEN {} ELSE {vote}
  <2>1. CASE vote = <<>>
    <3>1. 2..ItemCount(Dump) = {}
      BY <1>1, <2>1
    <3>2. UNION {DataIn(Dump, i) : i \in 2..ItemCount(Dump)} = {}
      BY <3>1
    <3> QED
      BY <2>1, <3>2 DEF VotesIn
  <2>2. CASE vote # <<>>
    <3>1. 2..ItemCount(Dump) = {2}
      BY <1>1, <2>2
    <3>2. UNION {DataIn(Dump, i) : i \in 2..ItemCount(Dump)} = {vote}
      BY <1>1, <2>2, <3>1
    <3> QED
      BY <2>2, <3>2 DEF VotesIn
  <2> QED
    BY <2>1, <2>2
<1>4. Found(Dump) = proposal
  <2>1. \A x : (CHOOSE d \in {x} : TRUE) = x
    OBVIOUS
  <2>2. ProposalIsValid(proposal, TRUE)
    BY StrictProposalIsCompatible
  <2> QED
    BY <1>1, <2>1, <2>2 DEF Found
<1>5. ~GuestPanics(Arguments(Dump))
  <2>1. \A d \in VotesIn(Dump) : VoteReadable(d)
    BY <1>3, VoteReads
  <2>2. /\ ArgumentsAreValid(Arguments(Dump), FALSE)
        /\ RawData(ReadArguments(Arguments(Dump)).blocks) = Dump
    BY ArgumentsRead
  <2> QED
    BY <1>1, <2>1, <2>2 DEF GuestPanics
<1> QED
  BY <1>2, <1>3, <1>4, <1>5

\* The public values that it commits are verified, and have what it was given.
ValuesAre(s, passed) ==
  /\ s \in Seq(Byte) /\ PublicValuesIsValid(s, FALSE)
  /\ Field(s, 1) = proposal /\ Field(s, 2) = StartHash /\ Field(s, 3) = EndHash
  /\ Field(s, 4) = ProposalScript /\ Field(s, 5) = passed

LEMMA ValuesRead ==
  ASSUME proposal \in Seq(Byte), ProposalIsValid(proposal, FALSE), SizesFit,
         NEW passed \in Flag
  PROVE  ValuesAre(Encode(ValueFields(passed)), passed)
<1> DEFINE fields == ValueFields(passed)
           s == Encode(fields)
           zeros == Zeros(Uint64Size)
<1>1. Fit(fields)
  BY DEF SizesFit
<1>2. zeros \in Seq(Byte) /\ Len(zeros) = Uint64Size
  BY SizesAssumption, ZerosType
<1>3. /\ ProposalScript \in Seq(Byte) /\ ScriptIsValid(ProposalScript, FALSE)
      /\ StartHash \in Seq(Byte) /\ Len(StartHash) = HashSize
      /\ EndHash \in Seq(Byte) /\ Len(EndHash) = HashSize
  BY PartsAssumption DEF ArrayIsValid
<1>4. passed \in Seq(Byte) /\ Len(passed) = 1
  <2>1. \A b \in Byte : <<b>> \in Seq(Byte) /\ Len(<<b>>) = 1
    OBVIOUS
  <2>2. 0 \in Byte /\ 1 \in Byte
    BY PartsAssumption
  <2> QED
    BY <2>1, <2>2 DEF Flag
<1>5. fields = <<proposal, StartHash, EndHash, ProposalScript, passed, zeros, zeros>>
  BY DEF ValueFields
<1> HIDE DEF fields, zeros
<1>6. /\ fields \in Seq(Seq(Byte)) /\ fields # <<>> /\ Len(fields) = 7
      /\ fields[1] = proposal /\ fields[2] = StartHash /\ fields[3] = EndHash
      /\ fields[4] = ProposalScript /\ fields[5] = passed
      /\ fields[6] = zeros /\ fields[7] = zeros
  BY <1>2, <1>3, <1>4, <1>5
<1>7. /\ s \in Seq(Byte) /\ TableIsValid(s, 7, FALSE)
      /\ \A i \in 1..7 : Between(s, i) = fields[i] /\ Field(s, i) = fields[i]
  BY <1>1, <1>6, TableReads
<1> HIDE DEF s
<1>8. \A i \in {1, 2, 3, 4, 5, 6, 7} : i \in 1..7
  OBVIOUS
<1>9. PublicValuesIsValid(s, FALSE)
  BY <1>2, <1>3, <1>4, <1>6, <1>7, <1>8 DEF PublicValuesIsValid, ArrayIsValid
<1> QED
  BY <1>6, <1>7, <1>8, <1>9 DEF ValuesAre, s, fields
-----------------------------------------------------------------------------
(***************************************************************************)
(* The whole way.                                                           *)
(***************************************************************************)
\* The SDK has a name for each hash type of CKB and for no other byte.
LEMMA ScriptDecodesIs ==
  ASSUME NEW s
  PROVE  ScriptDecodes(s) <=> HashTypeOf(s) \in HashTypes
<1>1. DOMAIN HashTypeByte = {"data", "type", "data1", "data2"}
  BY DEF HashTypeByte
<1>2. HashTypes = {HashTypeByte[name] : name \in DOMAIN HashTypeByte}
  <2>1. HashTypes =
          {HashTypeByte["data"], HashTypeByte["type"], HashTypeByte["data1"], HashTypeByte["data2"]}
    BY DEF HashTypes, HashTypeByte
  <2> QED
    BY <1>1, <2>1
<1> QED
  BY <1>2 DEF ScriptDecodes

\* The codecs of the SDK write what they have read: a strict table is what the
\* builder makes of its fields.
LEMMA ScriptReencodes ==
  ASSUME NEW s \in Seq(Byte), ScriptIsValid(s, FALSE), ScriptDecodes(s)
  PROVE  ReencodedScript(s) = s
<1>1. SizeMatches(s) /\ HeadMatches(s) /\ Ascending(s) /\ FieldCount(s) = 3
  BY DEF ScriptIsValid, TableIsValid, FieldCountMatches
<1>2. s = Encode([i \in 1..3 |-> Field(s, i)])
  <2>1. s = Encode([i \in 1..FieldCount(s) |-> Field(s, i)])
    BY <1>1, TableIsItsFields
  <2> QED
    BY <1>1, <2>1
<1>3. [i \in 1..3 |-> Field(s, i)] = ReadScript(s)
  BY DEF ReadScript
<1> DEFINE name == CHOOSE n \in DOMAIN HashTypeByte : HashTypeByte[n] = HashTypeOf(s)
<1>4. HashTypeByte[name] = HashTypeOf(s)
  BY DEF ScriptDecodes
<1>5. [ReadScript(s) EXCEPT ![2] = HashTypeOf(s)] = ReadScript(s)
  BY DEF HashTypeOf, ReadScript
<1>6. ReencodedScript(s) = Encode([ReadScript(s) EXCEPT ![2] = HashTypeByte[name]])
  BY DEF ReencodedScript
<1> HIDE DEF name
<1> QED
  BY <1>2, <1>3, <1>4, <1>5, <1>6

LEMMA ProposalReencodes ==
  ASSUME NEW s \in Seq(Byte), ProposalIsValid(s, FALSE), ProposalDecodes(s)
  PROVE  ReencodedProposal(s) = s
<1>1. SizeMatches(s) /\ HeadMatches(s) /\ Ascending(s) /\ FieldCount(s) = 7
  BY DEF ProposalIsValid, TableIsValid, FieldCountMatches
<1>2. Field(s, 5) \in Seq(Byte) /\ ScriptIsValid(Field(s, 5), FALSE)
  <2>1. 5 \in 1..FieldCount(s)
    BY <1>1
  <2> QED
    BY <1>1, <2>1, ItemIsBetween DEF ProposalIsValid, Field
<1>3. ReencodedScript(Field(s, 5)) = Field(s, 5)
  <2>1. ScriptDecodes(Field(s, 5))
    BY DEF ProposalDecodes, ReadProposal
  <2> QED
    BY <1>2, <2>1, ScriptReencodes
<1> DEFINE fields == [i \in 1..7 |-> Field(s, i)]
           tuple == <<Field(s, 1), Field(s, 2), Field(s, 3), Field(s, 4), Field(s, 5),
                      Field(s, 6), Field(s, 7)>>
<1>4. s = Encode(fields)
  <2>1. s = Encode([i \in 1..FieldCount(s) |-> Field(s, i)])
    BY <1>1, TableIsItsFields
  <2> QED
    BY <1>1, <2>1
<1>5. fields = tuple
  OBVIOUS
<1>6. ReencodedProposal(s) = Encode(tuple)
  BY <1>3 DEF ReencodedProposal, BuildProposal, ReadProposal
<1> HIDE DEF fields, tuple
<1> QED
  BY <1>4, <1>5, <1>6

LEMMA ValuesReencode ==
  ASSUME NEW s \in Seq(Byte), PublicValuesIsValid(s, FALSE), ValuesDecode(s)
  PROVE  Reencoded(s) = s
<1>1. SizeMatches(s) /\ HeadMatches(s) /\ Ascending(s) /\ FieldCount(s) = 7
  BY DEF PublicValuesIsValid, TableIsValid, FieldCountMatches
<1>2. /\ Field(s, 1) \in Seq(Byte) /\ ProposalIsValid(Field(s, 1), FALSE)
      /\ Field(s, 4) \in Seq(Byte) /\ ScriptIsValid(Field(s, 4), FALSE)
  <2>1. 1 \in 1..FieldCount(s) /\ 4 \in 1..FieldCount(s)
    BY <1>1
  <2> QED
    BY <1>1, <2>1, ItemIsBetween DEF PublicValuesIsValid, Field
<1>3. ReencodedProposal(Field(s, 1)) = Field(s, 1) /\ ReencodedScript(Field(s, 4)) = Field(s, 4)
  <2>1. ProposalDecodes(Field(s, 1)) /\ ScriptDecodes(Field(s, 4))
    BY DEF ValuesDecode, ReadPublicValues
  <2> QED
    BY <1>2, <2>1, ScriptReencodes, ProposalReencodes
<1> DEFINE fields == [i \in 1..7 |-> Field(s, i)]
           tuple == <<Field(s, 1), Field(s, 2), Field(s, 3), Field(s, 4), Field(s, 5),
                      Field(s, 6), Field(s, 7)>>
<1>4. s = Encode(fields)
  <2>1. s = Encode([i \in 1..FieldCount(s) |-> Field(s, i)])
    BY <1>1, TableIsItsFields
  <2> QED
    BY <1>1, <2>1
<1>5. fields = tuple
  OBVIOUS
<1>6. Reencoded(s) = Encode(tuple)
  BY <1>3 DEF Reencoded, BuildPublicValues, ReadPublicValues
<1> HIDE DEF fields, tuple
<1> QED
  BY <1>4, <1>5, <1>6

\* The inductive invariant: what the prover has committed is about the cells as
\* they were created, and these do not change any more.
CellInv ==
  /\ proposal \in Seq(Byte) /\ vote \in Seq(Byte)
  /\ proposal # <<>> => ProposalIsValid(proposal, FALSE)
  /\ vote # <<>> => VoteIsValid(vote, TRUE)
  /\ outcome \in {"none", "committed"}
  /\ outcome = "committed" =>
       /\ proposal # <<>>
       /\ counted = IF vote = <<>> THEN {} ELSE {ReadVote(vote)}
       /\ \E passed \in Flag : ValuesAre(values, passed)

LEMMA ProveKeeps ==
  ASSUME CellInv, SizesFit, Prove
  PROVE  CellInv'
<1> DEFINE args == Arguments(Dump)
           blocks == RawData(ReadArguments(args).blocks)
<1>1. /\ proposal # <<>> /\ proposal \in Seq(Byte) /\ ProposalIsValid(proposal, FALSE)
      /\ vote \in Seq(Byte) /\ (vote # <<>> => VoteIsValid(vote, TRUE))
      /\ UNCHANGED <<proposal, vote>>
  BY DEF Prove, CellInv
<1>2. /\ HostAccepts(Dump) /\ ~GuestPanics(args)
      /\ VotesIn(Dump) = (IF vote = <<>> THEN {} ELSE {vote})
      /\ Found(Dump) = proposal
  BY <1>1, GuestReads
<1>3. blocks = Dump
  BY <1>1, ArgumentsRead
<1> HIDE DEF args, blocks
<1>4. /\ counted' = {ReadVote(d) : d \in VotesIn(blocks)}
      /\ \E passed \in BOOLEAN : values' = Committed(blocks, passed)
      /\ outcome' = IF PublicValuesIsValid(values', FALSE) THEN "committed" ELSE "panic"
  BY <1>2 DEF Prove, args, blocks
<1>5. PICK passed \in Flag : values' = Encode(ValueFields(passed))
  <2>1. PICK b \in BOOLEAN : values' = Committed(blocks, b)
    BY <1>4
  <2>2. Committed(blocks, b) = Encode(ValueFields(<<IF b THEN 1 ELSE 0>>))
    BY <1>2, <1>3 DEF Committed, BuildPublicValues, ValueFields
  <2>3. CASE b
    <3>1. (IF b THEN 1 ELSE 0) = 1
      BY <2>3
    <3> QED
      BY <2>1, <2>2, <3>1 DEF Flag
  <2>4. CASE ~b
    <3>1. (IF b THEN 1 ELSE 0) = 0
      BY <2>4
    <3> QED
      BY <2>1, <2>2, <3>1 DEF Flag
  <2> QED
    BY <2>3, <2>4
<1>6. ValuesAre(values', passed)
  BY <1>1, <1>5, ValuesRead
<1>7. outcome' = "committed"
  BY <1>4, <1>6 DEF ValuesAre
<1>8. counted' = IF vote = <<>> THEN {} ELSE {ReadVote(vote)}
  <2>1. counted' = {ReadVote(d) : d \in (IF vote = <<>> THEN {} ELSE {vote})}
    BY <1>2, <1>3, <1>4
  <2>2. CASE vote = <<>>
    BY <2>1, <2>2
  <2>3. CASE vote # <<>>
    BY <2>1, <2>3
  <2> QED
    BY <2>2, <2>3
<1>9. ValuesAre(values, passed)'
  BY <1>1, <1>6 DEF ValuesAre
<1> QED
  BY <1>1, <1>7, <1>8, <1>9 DEF CellInv

LEMMA CellInvariant == Spec /\ []SizesFit => []CellInv
<1>1. Init => CellInv
  <2>1. <<>> \in Seq(Byte)
    BY EmptySeq
  <2> QED
    BY <2>1 DEF Init, CellInv
<1>2. CellInv /\ SizesFit /\ [Next]_vars => CellInv'
  <2> SUFFICES ASSUME CellInv, SizesFit, [Next]_vars PROVE CellInv'
    OBVIOUS
  <2>1. CASE Create
    <3>1. /\ proposal' \in Seq(Byte) /\ ProposalIsValid(proposal', FALSE)
          /\ proposal = <<>> /\ UNCHANGED <<vote, outcome>>
      BY <2>1, DataAssumption DEF Create
    <3>2. outcome = "none"
      BY <3>1 DEF CellInv
    <3> QED
      BY <3>1, <3>2 DEF CellInv
  <2>2. CASE Cast
    <3>1. /\ vote' \in Seq(Byte) /\ VoteIsValid(vote', FALSE)
          /\ outcome = "none" /\ UNCHANGED <<proposal, outcome>>
      BY <2>2, DataAssumption DEF Cast, VoteAccepted
    <3>2. VoteIsValid(vote', TRUE)
      BY <3>1, StrictVoteIsCompatible
    <3> QED
      BY <3>1, <3>2 DEF CellInv
  <2>3. CASE Prove
    BY <2>3, ProveKeeps
  <2>4. CASE Settle
    BY <2>4 DEF Settle, CellInv, ValuesAre
  <2>5. CASE Consume
    BY <2>5 DEF Consume, CellInv, ValuesAre
  <2>6. CASE UNCHANGED vars
    BY <2>6 DEF vars, CellInv, ValuesAre
  <2> QED
    BY <2>1, <2>2, <2>3, <2>4, <2>5, <2>6 DEF Next
<1> QED
  BY <1>1, <1>2, PTL DEF Spec

\* No cell that was accepted stops the prover, for all bytes that may be put
\* into a cell and all sizes that fit into a number.
THEOREM CountGoesOn == Spec /\ []SizesFit => []NoCellStopsTheCount
<1>1. CellInv => NoCellStopsTheCount
  BY DEF CellInv, NoCellStopsTheCount
<1> QED
  BY <1>1, CellInvariant, PTL

\* The guest program counts the vote that the vote script has accepted, for all
\* bytes of it.
THEOREM VoteIsCounted == Spec /\ []SizesFit => []AcceptedVoteIsCounted
<1>1. CellInv => AcceptedVoteIsCounted
  BY DEF CellInv, AcceptedVoteIsCounted
<1> QED
  BY <1>1, CellInvariant, PTL

\* The committed values, put into a witness as they are, are accepted.
LEMMA CommittedIsAccepted ==
  ASSUME CellInv, SizesFit, Passed
  PROVE  ConsumptionAccepted(CommittedWitness)
<1>1. PICK passed \in Flag : ValuesAre(values, passed)
  BY DEF CellInv, Passed
<1>2. passed = <<1>>
  BY <1>1 DEF Passed, ValuesAre, ReadPublicValues
<1>3. values \in Seq(Byte) /\ PublicValuesIsValid(values, FALSE)
  BY <1>1 DEF ValuesAre
<1> DEFINE proof == BuildBytes(ProofBytes)
           fields == <<proof, values>>
           w == Encode(fields)
<1>4. proof \in Seq(Byte) /\ BytesIsValid(proof) /\ RawData(proof) = ProofBytes
  BY PartsAssumption, BytesRead DEF SizesFit
<1>5. Fit(fields)
  BY DEF SizesFit
<1>6. CommittedWitness = w
  BY DEF CommittedWitness, BuildProposalWitness
<1> HIDE DEF proof
<1>7. /\ fields \in Seq(Seq(Byte)) /\ fields # <<>> /\ Len(fields) = 2
      /\ fields[1] = proof /\ fields[2] = values
  BY <1>3, <1>4
<1> HIDE DEF fields
<1>8. /\ TableIsValid(w, 2, FALSE)
      /\ Between(w, 1) = proof /\ Field(w, 1) = proof
      /\ Between(w, 2) = values /\ Field(w, 2) = values
  <2>1. 1 \in 1..2 /\ 2 \in 1..2
    OBVIOUS
  <2> QED
    BY <1>5, <1>7, <2>1, TableReads
<1> HIDE DEF w
<1>9. ProposalWitnessIsValid(w, FALSE)
  BY <1>3, <1>4, <1>8 DEF ProposalWitnessIsValid
<1>10. /\ ReadProposalWitness(w).public_values = values
       /\ RawData(ReadProposalWitness(w).proof) = ProofBytes
  BY <1>4, <1>8 DEF ReadProposalWitness
<1>11. /\ ReadPublicValues(values).proposal = proposal
       /\ ReadPublicValues(values).start_block_hash = StartHash
       /\ ReadPublicValues(values).end_block_hash = EndHash
       /\ ReadPublicValues(values).proposal_script = ProposalScript
       /\ ReadPublicValues(values).passed[1] = 1
  BY <1>1, <1>2 DEF ValuesAre, ReadPublicValues
<1>12. ConsumptionAccepted(w)
  BY <1>9, <1>10, <1>11 DEF ConsumptionAccepted, Proves
<1> QED
  BY <1>6, <1>12

\* So a proposal that has passed can be settled, for all bytes of the cells.
THEOREM PassedIsSettled == Spec /\ []SizesFit => []PassedSettles
<1>1. CellInv /\ SizesFit => PassedSettles
  BY CommittedIsAccepted DEF PassedSettles
<1> QED
  BY <1>1, CellInvariant, PTL

\* What became of consumeProposal.
CommandInv ==
  command # "none" =>
    /\ outcome = "committed"
    /\ command = "sent" <=> HashTypeOf(ReadProposal(proposal).receiver) \in HashTypes

LEMMA ConsumeKeeps ==
  ASSUME CellInv, SizesFit, CommandInv, Consume
  PROVE  CommandInv'
<1>1. UNCHANGED <<proposal, outcome>> /\ outcome = "committed"
  BY DEF Consume, Passed
<1> DEFINE receiver == ReadProposal(proposal).receiver
<1>2. ASSUME HashTypeOf(receiver) \in HashTypes PROVE command' = "sent"
  <2>1. ScriptDecodes(receiver) /\ ScriptDecodes(ProposalScript)
    BY <1>2, PartsAssumption, ScriptDecodesIs
  <2>2. PICK passed \in Flag : ValuesAre(values, passed)
    BY <1>1 DEF CellInv
  <2>3. ProposalDecodes(proposal) /\ ValuesDecode(values)
    BY <2>1, <2>2 DEF ProposalDecodes, ValuesDecode, ValuesAre, ReadPublicValues
  <2>4. Reencoded(values) = values
    BY <2>2, <2>3, ValuesReencode DEF ValuesAre
  <2>5. SdkWitness = CommittedWitness
    BY <2>4 DEF SdkWitness, CommittedWitness
  <2>6. ConsumptionAccepted(SdkWitness)
    BY <2>5, CommittedIsAccepted DEF Consume
  <2> QED
    BY <2>3, <2>6 DEF Consume
<1>3. ASSUME HashTypeOf(receiver) \notin HashTypes PROVE command' # "sent"
  <2>1. ~ProposalDecodes(proposal)
    BY <1>3, ScriptDecodesIs DEF ProposalDecodes
  <2>2. command' = "error"
    BY <2>1 DEF Consume
  <2> QED
    BY <2>2
<1>4. HashTypeOf(ReadProposal(proposal').receiver) = HashTypeOf(receiver)
  BY <1>1
<1> QED
  BY <1>1, <1>2, <1>3, <1>4 DEF CommandInv

\* consumeProposal settles the proposals that have passed and whose receiver has a hash
\* type of CKB, all of them and no others, for all bytes of the cells.
THEOREM SdkSettles == Spec /\ []SizesFit => []SdkSettlesScripts
<1>1. Init => CommandInv
  BY DEF Init, CommandInv
<1>2. CommandInv /\ CellInv /\ SizesFit /\ [Next]_vars => CommandInv'
  <2> SUFFICES ASSUME CommandInv, CellInv, SizesFit, [Next]_vars PROVE CommandInv'
    OBVIOUS
  <2>1. CASE Create
    <3>1. proposal = <<>> /\ UNCHANGED <<outcome, command>>
      BY <2>1 DEF Create
    <3>2. command = "none"
      BY <3>1 DEF CellInv, CommandInv
    <3> QED
      BY <3>1, <3>2 DEF CommandInv
  <2>2. CASE Cast
    BY <2>2 DEF Cast, CommandInv
  <2>3. CASE Prove
    BY <2>3 DEF Prove, CommandInv
  <2>4. CASE Settle
    BY <2>4 DEF Settle, CommandInv
  <2>5. CASE Consume
    BY <2>5, ConsumeKeeps
  <2>6. CASE UNCHANGED vars
    BY <2>6 DEF vars, CommandInv
  <2> QED
    BY <2>1, <2>2, <2>3, <2>4, <2>5, <2>6 DEF Next
<1>3. CommandInv => SdkSettlesScripts
  BY DEF CommandInv, SdkSettlesScripts
<1> QED
  BY <1>1, <1>2, <1>3, CellInvariant, PTL DEF Spec
=============================================================================
