--------------------------- MODULE MoleculeProofs ---------------------------
(***************************************************************************)
(* Facts about the molecule layout and its verification that hold for all   *)
(* slices and every size of a number, a hash and a header.                  *)
(*                                                                          *)
(* Neighbours in the list of offsets ascend and the last of the list is the *)
(* length, so none is beyond the length (OffsetsInBounds): otherwise there   *)
(* is a last one that is, and the one behind it contradicts it.             *)
(*                                                                          *)
(* What a builder writes is where the offsets say it is (EncodePlaces), so  *)
(* it is read again (EncodingIsRead); and what is verified is what a        *)
(* builder writes of what is read (TableIsItsFields, VectorIsItsItems), as  *)
(* the fields of a table leave nothing about its bytes open.                *)
(***************************************************************************)
EXTENDS MoleculeTypes, SequenceTheorems, WellFoundedInduction, TLAPS

\* Natural numbers are well founded: a set of them has a smallest element.
LEMMA Smallest ==
  ASSUME NEW T, T \subseteq Nat, T # {}
  PROVE  \E x \in T : \A y \in T : x <= y
<1>1. \E Less : /\ IsWellFoundedOn(Less, Nat)
                /\ \A x, y \in Nat : y < x => <<y, x>> \in Less
  <2> DEFINE R == OpToRel(<, Nat)
  <2>1. IsWellFoundedOn(R, Nat)
    BY NatLessThanWellFounded
  <2>2. \A x, y \in Nat : y < x => <<y, x>> \in R
    BY DEF OpToRel
  <2> HIDE DEF R
  <2> QED
    BY <2>1, <2>2
<1>2. PICK Less : /\ IsWellFoundedOn(Less, Nat)
                  /\ \A x, y \in Nat : y < x => <<y, x>> \in Less
  BY <1>1
<1>3. PICK x \in T : \A y \in T : ~(<<y, x>> \in Less)
  BY <1>2, WFMin
<1>4. \A y \in T : ~(y < x)
  BY <1>2, <1>3
<1> QED
  BY <1>4

\* Products of natural numbers are ordered like their factors.
LEMMA Products ==
  ASSUME NEW a \in Nat, NEW b \in Nat, NEW k \in Nat, a <= b
  PROVE  a * k \in Nat /\ b * k \in Nat /\ a * k <= b * k
OBVIOUS

\* A number that k divides is that many times k.
LEMMA Multiple ==
  ASSUME NEW n \in Nat, NEW k \in Nat \ {0}, n % k = 0, n >= 2 * k
  PROVE  n \div k \in Nat /\ n \div k >= 2 /\ n = (n \div k) * k
OBVIOUS

\* And the other way round.
LEMMA WholeNumber ==
  ASSUME NEW k \in Nat \ {0}, NEW m \in Nat
  PROVE  (k * m) \div k = m /\ (k * m) % k = 0
OBVIOUS

\* unpack_number returns a natural number where there are bytes enough.
LEMMA NumberType ==
  ASSUME NEW s \in Seq(Byte), NEW at \in Nat, HasNumber(s, at)
  PROVE  Number(s, at) \in Nat
<1>1. NumberSize \in Nat /\ Len(s) \in Nat
  BY LayoutAssumption
<1>2. \A k \in 1..NumberSize : at + k \in 1..Len(s)
  BY <1>1 DEF HasNumber
<1>3. [k \in 1..NumberSize |-> s[at + k]] \in Word
  BY <1>2 DEF Word
<1> QED
  BY <1>3, LayoutAssumption DEF Number

\* Behind a verified first offset there is room for as many offsets as the
\* readers will look at.
LEMMA HeadHolds ==
  ASSUME NEW s \in Seq(Byte), HeadMatches(s)
  PROVE  /\ FieldCount(s) \in Nat \ {0}
         /\ \A i \in 1..FieldCount(s) :
              /\ i * NumberSize \in Nat
              /\ HasNumber(s, i * NumberSize)
              /\ Start(s, i) \in Nat
<1> DEFINE n == Number(s, NumberSize)
<1>1. NumberSize \in Nat \ {0} /\ Len(s) \in Nat
  BY LayoutAssumption
<1>2. n \in Nat
  BY <1>1, NumberType DEF HeadMatches
<1>3. n \div NumberSize \in Nat /\ n \div NumberSize >= 2 /\ n = (n \div NumberSize) * NumberSize
  <2>1. n % NumberSize = 0 /\ n >= 2 * NumberSize
    BY DEF HeadMatches
  <2> HIDE DEF n
  <2> QED
    BY <1>1, <1>2, <2>1, Multiple
<1>4. FieldCount(s) \in Nat \ {0} /\ FieldCount(s) + 1 = n \div NumberSize
  BY <1>3 DEF FieldCount
<1>5. ASSUME NEW i \in 1..FieldCount(s)
      PROVE  i * NumberSize \in Nat /\ HasNumber(s, i * NumberSize)
  <2>1. i \in Nat /\ i + 1 \in Nat /\ i + 1 <= n \div NumberSize
    BY <1>4
  <2>2. (i + 1) * NumberSize <= n /\ i * NumberSize \in Nat
    <3> HIDE DEF n
    <3> QED
      BY <1>1, <1>3, <2>1, Products
  <2>3. (i + 1) * NumberSize = i * NumberSize + NumberSize
    BY <1>1, <2>1
  <2>4. n <= Len(s)
    BY DEF HeadMatches
  <2> HIDE DEF n
  <2> QED
    BY <1>1, <1>2, <2>2, <2>3, <2>4 DEF HasNumber
<1> QED
  BY <1>4, <1>5, NumberType DEF Start

\* No verified offset is beyond the slice.
LEMMA OffsetsInBounds ==
  ASSUME NEW s \in Seq(Byte), HeadMatches(s), Ascending(s)
  PROVE  \A i \in 1..(FieldCount(s) + 1) : Offsets(s)[i] \in 0..Len(s)
<1> DEFINE c == FieldCount(s)
           o == Offsets(s)
<1>1. c \in Nat \ {0} /\ Len(s) \in Nat
  BY HeadHolds
<1>2. \A i \in 1..(c + 1) : o[i] \in Nat
  BY <1>1, HeadHolds DEF Offsets
<1>3. o[c + 1] = Len(s)
  BY <1>1 DEF Offsets
<1>4. \A i \in 1..c : o[i] <= o[i + 1]
  BY DEF Ascending
<1> HIDE DEF c, o
<1> DEFINE Beyond == {k \in 0..c : o[c + 1 - k] > Len(s)}
<1>5. Beyond = {}
  <2> SUFFICES ASSUME Beyond # {} PROVE FALSE
    OBVIOUS
  <2>1. PICK k \in Beyond : \A j \in Beyond : k <= j
    <3>1. Beyond \subseteq Nat
      BY <1>1
    <3> HIDE DEF Beyond
    <3> QED
      BY <3>1, Smallest
  <2>2. k # 0
    BY <1>1, <1>3
  <2>3. k - 1 \in 0..c /\ k - 1 \notin Beyond
    <3>1. k - 1 \in 0..c /\ ~(k <= k - 1)
      BY <1>1, <2>2
    <3> QED
      BY <2>1, <3>1
  <2>4. o[c + 1 - (k - 1)] <= Len(s)
    <3>1. c + 1 - (k - 1) \in 1..(c + 1)
      BY <1>1, <2>3
    <3> QED
      BY <1>1, <1>2, <2>3, <3>1
  <2>5. c + 1 - k \in 1..c /\ (c + 1 - k) + 1 = c + 1 - (k - 1) /\ (c + 1 - k) + 1 \in 1..(c + 1)
    BY <1>1, <2>2
  <2>6. o[c + 1 - k] <= o[c + 1 - (k - 1)] /\ o[c + 1 - k] \in Nat /\ o[c + 1 - (k - 1)] \in Nat
    BY <1>1, <1>2, <1>4, <2>5
  <2> QED
    BY <1>1, <2>4, <2>6
<1>6. ASSUME NEW i \in 1..(c + 1)
      PROVE  o[i] <= Len(s)
  <2>1. c + 1 - i \in 0..c /\ c + 1 - (c + 1 - i) = i
    BY <1>1
  <2>2. ~(o[c + 1 - (c + 1 - i)] > Len(s))
    BY <1>5, <2>1
  <2> HIDE DEF Beyond
  <2> QED
    BY <1>1, <1>2, <2>1, <2>2
<1> QED
  BY <1>1, <1>2, <1>6 DEF c, o

\* Between two neighbours of the offsets is what the reader takes for an item,
\* and it takes it without a panic.
LEMMA ItemIsBetween ==
  ASSUME NEW s \in Seq(Byte), HeadMatches(s), Ascending(s),
         NEW i \in 1..FieldCount(s)
  PROVE  /\ Readable(s, i, FieldCount(s))
         /\ Item(s, i, FieldCount(s)) = Between(s, i)
         /\ Between(s, i) \in Seq(Byte)
         /\ Len(Between(s, i)) = Offsets(s)[i + 1] - Offsets(s)[i]
<1> DEFINE c == FieldCount(s)
           a == Offsets(s)[i]
           b == Offsets(s)[i + 1]
<1>1. c \in Nat \ {0} /\ Len(s) \in Nat /\ i \in 1..c /\ i + 1 \in 1..(c + 1) /\ i \in 1..(c + 1)
  BY HeadHolds
<1>2. a \in 0..Len(s) /\ b \in 0..Len(s) /\ a <= b
  BY <1>1, OffsetsInBounds DEF Ascending
<1>3. a = Start(s, i)
  BY <1>1 DEF Offsets
<1>4. b = End(s, i, c)
  BY <1>1 DEF Offsets, End, Start
<1>5. HasNumber(s, i * NumberSize) /\ (i # c => HasNumber(s, (i + 1) * NumberSize))
  BY <1>1, HeadHolds
<1>6. Readable(s, i, c)
  BY <1>2, <1>3, <1>4, <1>5 DEF Readable
<1>7. Item(s, i, c) = Between(s, i)
  BY <1>3, <1>4 DEF Item, Between
<1>8. Between(s, i) \in Seq(Byte) /\ Len(Between(s, i)) = b - a
  <2>1. Between(s, i) = SubSeq(s, a + 1, b)
    BY DEF Between, Bytes
  <2> HIDE DEF a, b
  <2>2. Len(SubSeq(s, a + 1, b)) = b - a /\ SubSeq(s, a + 1, b) \in Seq(Byte)
    BY <1>1, <1>2
  <2> QED
    BY <2>1, <2>2
<1> QED
  BY <1>6, <1>7, <1>8

\* verify_vector_shallow accepts only vectors whose items can be read, and
\* the readers count the items that it has counted.
LEMMA VectorHolds ==
  ASSUME NEW s \in Seq(Byte), OffsetsAreValid(s)
  PROVE  /\ VectorReadable(s)
         /\ Len(s) = NumberSize => ItemCount(s) = 0
         /\ Len(s) # NumberSize => HeadMatches(s) /\ ItemCount(s) = FieldCount(s)
<1>1. Number(s, 0) = Len(s)
  BY DEF OffsetsAreValid, SizeMatches
<1>2. CASE Len(s) = NumberSize
  <2>1. ItemCount(s) = 0
    BY <1>1, <1>2 DEF ItemCount
  <2> QED
    BY <1>2, <2>1 DEF VectorReadable
<1>3. CASE Len(s) # NumberSize
  <2>1. HeadMatches(s) /\ Ascending(s)
    BY <1>3 DEF OffsetsAreValid
  <2>2. ItemCount(s) = FieldCount(s)
    BY <1>1, <1>3 DEF ItemCount, FieldCount
  <2> QED
    BY <1>3, <2>1, <2>2, ItemIsBetween DEF VectorReadable
<1> QED
  BY <1>2, <1>3

\* verify_block_shallow accepts only blocks that can be read.
LEMMA BlockHolds ==
  ASSUME NEW s \in Seq(Byte), BlockIsShallowlyValid(s)
  PROVE  BlockReadable(s)
<1>1. HeadMatches(s) /\ Ascending(s) /\ FieldCount(s) >= 4
  BY DEF BlockIsShallowlyValid, FourFields
<1>2. FieldCount(s) \in Nat
  BY <1>1, HeadHolds
<1>3. \A i \in 1..4 :
        /\ Readable(s, i, FieldCount(s))
        /\ Item(s, i, FieldCount(s)) = Between(s, i)
        /\ Between(s, i) \in Seq(Byte)
        /\ Len(Between(s, i)) = Offsets(s)[i + 1] - Offsets(s)[i]
  BY <1>1, <1>2, ItemIsBetween
<1>4. Len(Item(s, 1, FieldCount(s))) = HeaderSize
  BY <1>3 DEF BlockIsShallowlyValid, HeaderIsWhole
<1>5. \A i \in {2, 3} : VectorReadable(Item(s, i, FieldCount(s)))
  <2>1. OffsetsAreValid(Between(s, 2)) /\ OffsetsAreValid(Between(s, 3))
    BY DEF BlockIsShallowlyValid, VectorIsValid
  <2> QED
    BY <1>3, <2>1, VectorHolds, SMTT(30)
<1> QED
  BY <1>3, <1>4, <1>5 DEF BlockReadable

\* What is accepted with no fields behind the known ones is accepted with some,
\* down to the nested tables.
LEMMA StrictTableIsCompatible ==
  ASSUME NEW s, NEW count, TableIsValid(s, count, FALSE)
  PROVE  TableIsValid(s, count, TRUE)
BY DEF TableIsValid, FieldCountMatches

LEMMA StrictScriptIsCompatible ==
  ASSUME NEW s, ScriptIsValid(s, FALSE)
  PROVE  ScriptIsValid(s, TRUE)
BY StrictTableIsCompatible DEF ScriptIsValid

\* The counter's from_compatible_slice accepts each vote cell that the vote
\* script's from_slice has accepted, so none of them is skipped.
THEOREM StrictVoteIsCompatible ==
  ASSUME NEW s, VoteIsValid(s, FALSE)
  PROVE  VoteIsValid(s, TRUE)
BY StrictTableIsCompatible DEF VoteIsValid

\* The same for the proposal cell and find_proposal.
THEOREM StrictProposalIsCompatible ==
  ASSUME NEW s, ProposalIsValid(s, FALSE)
  PROVE  ProposalIsValid(s, TRUE)
BY StrictTableIsCompatible, StrictScriptIsCompatible DEF ProposalIsValid

\* verify_block_shallow refuses no block that BlockReader::verify accepts: the
\* guest program reads what the host has read.
LEMMA FullIsShallow ==
  ASSUME NEW s \in Seq(Byte), BlockIsValid(s, TRUE)
  PROVE  BlockIsShallowlyValid(s)
<1>1. SizeMatches(s) /\ HeadMatches(s) /\ FieldCount(s) >= 4 /\ Ascending(s)
  BY DEF BlockIsValid, TableIsValid, FieldCountMatches
<1>2. 1 \in 1..FieldCount(s)
  BY <1>1, HeadHolds
<1>3. HeaderIsWhole(s)
  <2>1. Len(Between(s, 1)) = Offsets(s)[1 + 1] - Offsets(s)[1]
    BY <1>1, <1>2, ItemIsBetween
  <2>2. Len(Between(s, 1)) = HeaderSize
    BY DEF BlockIsValid, ArrayIsValid
  <2> QED
    BY <2>1, <2>2 DEF HeaderIsWhole
<1>4. VectorIsValid(Between(s, 2)) /\ VectorIsValid(Between(s, 3))
  BY DEF BlockIsValid, VectorIsValid
<1>5. FixVecIsValid(Between(s, 4), IdSize)
  BY DEF BlockIsValid
<1> QED
  BY <1>1, <1>3, <1>4, <1>5 DEF BlockIsShallowlyValid, FourFields
-----------------------------------------------------------------------------
\* &slice[start..end]
LEMMA BytesOf ==
  ASSUME NEW s \in Seq(Byte), NEW a \in Nat, NEW b \in Nat, a <= b, b <= Len(s)
  PROVE  /\ Len(SubSeq(s, a + 1, b)) = b - a
         /\ \A k \in 1..(b - a) : SubSeq(s, a + 1, b)[k] = s[a + k]
<1>1. a + 1 \in Int /\ b \in Int /\ \A i \in (a + 1)..b : s[i] \in Byte
  OBVIOUS
<1>2. /\ Len(SubSeq(s, a + 1, b)) = IF a + 1 <= b THEN b - (a + 1) + 1 ELSE 0
      /\ \A k \in 1..(b - (a + 1) + 1) : SubSeq(s, a + 1, b)[k] = s[(a + 1) + k - 1]
  BY <1>1, SubSeqProperties
<1>3. \A k \in 1..(b - a) : (a + 1) + k - 1 = a + k /\ k \in 1..(b - (a + 1) + 1)
  OBVIOUS
<1> QED
  BY <1>2, <1>3

\* pack_number and unpack_number lose nothing: slices with the same number at
\* a place have the same bytes there.
LEMMA SameNumber ==
  ASSUME NEW s \in Seq(Byte), NEW t \in Seq(Byte), NEW at \in Nat,
         HasNumber(s, at), HasNumber(t, at), Number(s, at) = Number(t, at)
  PROVE  \A k \in 1..NumberSize : s[at + k] = t[at + k]
<1> DEFINE v == [k \in 1..NumberSize |-> s[at + k]]
           w == [k \in 1..NumberSize |-> t[at + k]]
<1>1. NumberSize \in Nat /\ Len(s) \in Nat /\ Len(t) \in Nat
  BY LayoutAssumption
<1>2. v \in Word /\ w \in Word
  BY <1>1 DEF HasNumber, Word
<1>3. Unpack[v] = Unpack[w]
  BY DEF Number
<1>4. v = w
  <2> HIDE DEF v, w
  <2> QED
    BY <1>2, <1>3, LayoutAssumption
<1>5. \A k \in 1..NumberSize : v[k] = w[k] /\ v[k] = s[at + k] /\ w[k] = t[at + k]
  BY <1>4
<1> QED
  BY <1>5

\* A vector of bytes is its contents: bytes that follow a count are the same
\* slice when the contents are.
LEMMA SameBytes ==
  ASSUME NEW s \in Seq(Byte), NEW t \in Seq(Byte),
         BytesIsValid(s), BytesIsValid(t), RawData(s) = RawData(t)
  PROVE  s = t
<1> DEFINE n == NumberSize
<1>1. /\ n \in Nat \ {0} /\ Len(s) \in Nat /\ Len(t) \in Nat
      /\ Len(s) >= n /\ Len(t) >= n
      /\ HasNumber(s, 0) /\ HasNumber(t, 0)
  BY LayoutAssumption DEF BytesIsValid, FixVecIsValid, HasNumber
<1>2. RawData(s) = SubSeq(s, n + 1, Len(s)) /\ RawData(t) = SubSeq(t, n + 1, Len(t))
  BY DEF RawData, Bytes
<1>3. /\ Len(RawData(s)) = Len(s) - n /\ Len(RawData(t)) = Len(t) - n
      /\ \A k \in 1..(Len(s) - n) : RawData(s)[k] = s[n + k]
      /\ \A k \in 1..(Len(t) - n) : RawData(t)[k] = t[n + k]
  <2>1. n \in Nat /\ Len(s) \in Nat /\ Len(t) \in Nat /\ n <= Len(s) /\ n <= Len(t)
    BY <1>1
  <2> HIDE DEF n
  <2>2. /\ Len(SubSeq(s, n + 1, Len(s))) = Len(s) - n
        /\ \A k \in 1..(Len(s) - n) : SubSeq(s, n + 1, Len(s))[k] = s[n + k]
    BY <2>1, BytesOf
  <2>3. /\ Len(SubSeq(t, n + 1, Len(t))) = Len(t) - n
        /\ \A k \in 1..(Len(t) - n) : SubSeq(t, n + 1, Len(t))[k] = t[n + k]
    BY <2>1, BytesOf
  <2> QED
    BY <1>2, <2>2, <2>3
<1>4. Len(s) = Len(t)
  BY <1>1, <1>3
<1>5. Number(s, 0) = Number(t, 0)
  <2>1. Number(s, 0) \in Nat /\ Number(t, 0) \in Nat
    BY <1>1, NumberType
  <2>2. Len(s) = n + Number(s, 0) * 1 /\ Len(t) = n + Number(t, 0) * 1
    BY DEF BytesIsValid, FixVecIsValid
  <2>3. Len(s) = n + Number(s, 0) /\ Len(t) = n + Number(t, 0) /\ n \in Nat
    <3>1. Number(s, 0) * 1 = Number(s, 0) /\ Number(t, 0) * 1 = Number(t, 0)
      BY <2>1
    <3> QED
      BY <1>1, <2>2, <3>1
  <2>4. Number(s, 0) = Len(s) - n /\ Number(t, 0) = Len(t) - n
    BY <1>1, <2>1, <2>3
  <2> QED
    BY <1>4, <2>4
<1>6. \A k \in 1..n : s[k] = t[k]
  <2>1. 0 \in Nat /\ HasNumber(s, 0) /\ HasNumber(t, 0)
    BY <1>1 DEF HasNumber
  <2>2. \A k \in 1..NumberSize : s[0 + k] = t[0 + k]
    BY <1>5, <2>1, SameNumber
  <2> QED
    BY <1>1, <2>2
<1>7. \A k \in 1..Len(s) : s[k] = t[k]
  <2> SUFFICES ASSUME NEW k \in 1..Len(s) PROVE s[k] = t[k]
    OBVIOUS
  <2>1. CASE k <= n
    BY <1>1, <1>6, <2>1
  <2>2. CASE k > n
    <3>1. k - n \in 1..(Len(s) - n) /\ n + (k - n) = k
      BY <1>1, <2>2
    <3> QED
      BY <1>3, <1>4, <3>1
  <2> QED
    BY <1>1, <2>1, <2>2
<1> QED
  BY <1>4, <1>7

\* The offsets of a table with no more than the known fields follow from the
\* lengths of the fields.
LEMMA SameOffsets ==
  ASSUME NEW s \in Seq(Byte), NEW t \in Seq(Byte), NEW c \in Nat \ {0},
         TableIsValid(s, c, FALSE), TableIsValid(t, c, FALSE),
         \A i \in 1..c : Field(s, i) = Field(t, i)
  PROVE  /\ Offsets(s)[1] = (c + 1) * NumberSize
         /\ \A i \in 1..(c + 1) : Offsets(s)[i] = Offsets(t)[i]
<1> DEFINE os == Offsets(s)
           ot == Offsets(t)
<1>1. /\ HeadMatches(s) /\ Ascending(s) /\ FieldCount(s) = c
      /\ HeadMatches(t) /\ Ascending(t) /\ FieldCount(t) = c
  BY DEF TableIsValid, FieldCountMatches
<1>2. \A i \in 1..(c + 1) : os[i] \in 0..Len(s) /\ ot[i] \in 0..Len(t)
  BY <1>1, OffsetsInBounds
<1>3. \A i \in 1..c : os[i + 1] - os[i] = ot[i + 1] - ot[i]
  <2> SUFFICES ASSUME NEW i \in 1..c
               PROVE  os[i + 1] - os[i] = ot[i + 1] - ot[i]
    OBVIOUS
  <2>1. Field(s, i) = Between(s, i) /\ Len(Between(s, i)) = os[i + 1] - os[i]
    BY <1>1, ItemIsBetween DEF Field
  <2>2. Field(t, i) = Between(t, i) /\ Len(Between(t, i)) = ot[i + 1] - ot[i]
    BY <1>1, ItemIsBetween DEF Field
  <2> QED
    BY <2>1, <2>2
<1>4. os[1] = (c + 1) * NumberSize /\ ot[1] = (c + 1) * NumberSize
  <2>1. ASSUME NEW r \in Seq(Byte), HeadMatches(r), FieldCount(r) = c
        PROVE  Offsets(r)[1] = (c + 1) * NumberSize
    <3>1. NumberSize \in Nat \ {0} /\ Number(r, NumberSize) \in Nat
      BY <2>1, LayoutAssumption, NumberType DEF HeadMatches
    <3>2. Number(r, NumberSize) = (Number(r, NumberSize) \div NumberSize) * NumberSize
      <4>1. Number(r, NumberSize) % NumberSize = 0 /\ Number(r, NumberSize) >= 2 * NumberSize
        BY <2>1 DEF HeadMatches
      <4> QED
        BY <3>1, <4>1, Multiple
    <3>3. Number(r, NumberSize) \div NumberSize = c + 1
      BY <2>1, <3>1 DEF FieldCount
    <3>4. Offsets(r)[1] = Number(r, 1 * NumberSize)
      BY <2>1 DEF Offsets, Start
    <3> QED
      BY <3>1, <3>2, <3>3, <3>4
  <2> QED
    BY <1>1, <2>1
<1> HIDE DEF os, ot
<1>5. \A i \in 1..(c + 1) : os[i] = ot[i]
  <2> DEFINE Different == {i \in 1..(c + 1) : os[i] # ot[i]}
  <2> SUFFICES ASSUME Different # {} PROVE FALSE
    OBVIOUS
  <2>1. PICK x \in Different : \A y \in Different : x <= y
    <3>1. Different \subseteq Nat
      OBVIOUS
    <3> HIDE DEF Different
    <3> QED
      BY <3>1, Smallest
  <2>2. x \in 2..(c + 1) /\ x - 1 \in 1..c /\ (x - 1) + 1 = x
    BY <1>4
  <2>3. os[x - 1] = ot[x - 1]
    <3>1. x - 1 \in 1..(c + 1) /\ ~(x <= x - 1)
      BY <2>2
    <3> QED
      BY <2>1, <3>1
  <2>4. os[x] - os[x - 1] = ot[x] - ot[x - 1]
    BY <1>3, <2>2
  <2>5. os[x] \in Int /\ ot[x] \in Int /\ os[x - 1] \in Int /\ ot[x - 1] \in Int
    <3>1. x \in 1..(c + 1) /\ x - 1 \in 1..(c + 1)
      BY <2>2
    <3> QED
      BY <1>2, <3>1
  <2>6. os[x] # ot[x]
    BY <2>1
  <2> QED
    BY <2>3, <2>4, <2>5, <2>6
<1> QED
  BY <1>4, <1>5 DEF os, ot

\* Every byte is in front of the first field or in a field.
LEMMA ByteIsInField ==
  ASSUME NEW s \in Seq(Byte), HeadMatches(s), Ascending(s),
         NEW k \in 1..Len(s), k > Offsets(s)[1]
  PROVE  \E i \in 1..FieldCount(s) : Offsets(s)[i] < k /\ k <= Offsets(s)[i + 1]
<1> DEFINE c == FieldCount(s)
           o == Offsets(s)
           Behind == {i \in 1..(c + 1) : o[i] >= k}
<1>1. c \in Nat \ {0} /\ \A i \in 1..(c + 1) : o[i] \in 0..Len(s)
  BY HeadHolds, OffsetsInBounds
<1>2. o[c + 1] = Len(s)
  BY <1>1 DEF Offsets
<1> HIDE DEF c, o
<1>3. c + 1 \in Behind /\ Behind \subseteq Nat
  BY <1>1, <1>2
<1>4. PICK x \in Behind : \A y \in Behind : x <= y
  <2> HIDE DEF Behind
  <2> QED
    BY <1>3, Smallest
<1>5. o[1] < k
  BY <1>1 DEF o
<1>6. x # 1
  BY <1>1, <1>4, <1>5
<1>7. x - 1 \in 1..c /\ (x - 1) + 1 = x /\ x - 1 \in 1..(c + 1) /\ ~(x <= x - 1)
  BY <1>1, <1>4, <1>6
<1>8. ~(o[x - 1] >= k)
  BY <1>4, <1>7
<1>9. o[x - 1] < k
  BY <1>1, <1>7, <1>8
<1>10. k <= o[(x - 1) + 1]
  BY <1>1, <1>4, <1>7
<1> QED
  BY <1>7, <1>9, <1>10 DEF c, o

\* Every byte in front of the first field belongs to the total size or to an
\* offset.
LEMMA ByteIsInWord ==
  ASSUME NEW n \in Nat \ {0}, NEW c \in Nat, NEW k \in 1..((c + 1) * n)
  PROVE  \E j \in 0..c, r \in 1..n : k = j * n + r
<1> DEFINE j == (k - 1) \div n
           r == (k - 1) % n
<1>1. j \in Nat /\ r \in 0..(n - 1) /\ k - 1 = j * n + r
  OBVIOUS
<1>2. j <= c
  <2> HIDE DEF j, r
  <2> SUFFICES ASSUME j >= c + 1 PROVE FALSE
    BY <1>1
  <2>1. (c + 1) * n <= j * n
    BY <1>1, Products
  <2>2. (c + 1) * n \in Nat /\ j * n \in Nat
    BY <1>1
  <2> QED
    BY <1>1, <2>1, <2>2
<1> HIDE DEF j, r
<1>3. k = j * n + (r + 1) /\ r + 1 \in 1..n /\ j \in 0..c
  <2>1. j * n \in Nat
    BY <1>1
  <2> QED
    BY <1>1, <1>2, <2>1
<1> QED
  BY <1>3

\* A table that from_slice accepts is its fields: two of them with the same
\* fields are the same bytes.  So a table that is taken apart and built again
\* is what it was, and nothing can be hidden in one.
THEOREM SameFieldsSameBytes ==
  ASSUME NEW s \in Seq(Byte), NEW t \in Seq(Byte), NEW c \in Nat \ {0},
         TableIsValid(s, c, FALSE), TableIsValid(t, c, FALSE),
         \A i \in 1..c : Field(s, i) = Field(t, i)
  PROVE  s = t
<1>1. /\ HeadMatches(s) /\ Ascending(s) /\ FieldCount(s) = c /\ SizeMatches(s)
      /\ HeadMatches(t) /\ Ascending(t) /\ FieldCount(t) = c /\ SizeMatches(t)
  BY DEF TableIsValid, FieldCountMatches
<1>2. /\ Offsets(s)[1] = (c + 1) * NumberSize
      /\ \A i \in 1..(c + 1) : Offsets(s)[i] = Offsets(t)[i]
  BY SameOffsets
<1>3. Len(s) = Len(t) /\ Len(s) \in Nat
  <2>1. Offsets(s)[c + 1] = Len(s) /\ Offsets(t)[c + 1] = Len(t)
    BY <1>1 DEF Offsets
  <2> QED
    BY <1>2, <2>1
<1>4. ASSUME NEW k \in 1..Len(s), k <= (c + 1) * NumberSize
      PROVE  s[k] = t[k]
  <2>1. NumberSize \in Nat \ {0}
    BY LayoutAssumption
  <2>2. PICK j \in 0..c, r \in 1..NumberSize : k = j * NumberSize + r
    <3>1. k \in 1..((c + 1) * NumberSize)
      <4>1. (c + 1) * NumberSize \in Nat
        BY <2>1
      <4> QED
        BY <1>3, <1>4, <4>1
    <3> QED
      BY <2>1, <3>1, ByteIsInWord
  <2>3. /\ HasNumber(s, j * NumberSize) /\ HasNumber(t, j * NumberSize)
        /\ Number(s, j * NumberSize) = Number(t, j * NumberSize)
        /\ j * NumberSize \in Nat
    <3>1. CASE j = 0
      <4>1. j * NumberSize = 0
        BY <2>1, <3>1
      <4> QED
        BY <1>1, <1>3, <2>1, <4>1 DEF SizeMatches, HasNumber
    <3>2. CASE j # 0
      <4>1. j \in 1..c
        BY <3>2
      <4>2. /\ j * NumberSize \in Nat
            /\ HasNumber(s, j * NumberSize) /\ HasNumber(t, j * NumberSize)
        BY <1>1, <4>1, HeadHolds
      <4>3. Offsets(s)[j] = Number(s, j * NumberSize) /\ Offsets(t)[j] = Number(t, j * NumberSize)
        BY <1>1, <4>1 DEF Offsets, Start
      <4> QED
        BY <1>2, <4>1, <4>2, <4>3
    <3> QED
      BY <3>1, <3>2
  <2>4. s[j * NumberSize + r] = t[j * NumberSize + r]
    BY <2>3, SameNumber
  <2> QED
    BY <2>2, <2>4
<1>5. ASSUME NEW k \in 1..Len(s), k > (c + 1) * NumberSize
      PROVE  s[k] = t[k]
  <2>1. PICK i \in 1..c : Offsets(s)[i] < k /\ k <= Offsets(s)[i + 1]
    BY <1>1, <1>2, <1>5, ByteIsInField
  <2> DEFINE a == Offsets(s)[i]
             b == Offsets(s)[i + 1]
  <2>2. a \in 0..Len(s) /\ b \in 0..Len(s) /\ a = Offsets(t)[i] /\ b = Offsets(t)[i + 1]
    <3>1. i \in 1..(c + 1) /\ i + 1 \in 1..(c + 1)
      OBVIOUS
    <3> QED
      BY <1>1, <1>2, <3>1, OffsetsInBounds
  <2>3. SubSeq(s, a + 1, b) = SubSeq(t, a + 1, b)
    <3>1. Between(s, i) = Between(t, i)
      BY <1>1, ItemIsBetween DEF Field
    <3> QED
      BY <2>2, <3>1 DEF Between, Bytes
  <2>4. a < k /\ k <= b
    BY <2>1
  <2> HIDE DEF a, b
  <2>5. k - a \in 1..(b - a)
    BY <1>3, <2>2, <2>4
  <2>6. SubSeq(s, a + 1, b)[k - a] = s[k] /\ SubSeq(t, a + 1, b)[k - a] = t[k]
    <3>1. a \in Nat /\ b \in Nat /\ a <= b /\ b <= Len(s) /\ b <= Len(t) /\ a + (k - a) = k
      BY <1>3, <2>2, <2>4
    <3> QED
      BY <2>5, <3>1, BytesOf, SMTT(30)
  <2> QED
    BY <2>3, <2>6
<1>6. \A k \in 1..Len(s) : s[k] = t[k]
  <2>1. (c + 1) * NumberSize \in Nat
    BY LayoutAssumption
  <2> QED
    BY <1>3, <1>4, <1>5, <2>1
<1> QED
  BY <1>3, <1>6
-----------------------------------------------------------------------------
(***************************************************************************)
(* What the builders write.                                                 *)
(***************************************************************************)
\* Induction for one set of numbers: it has them all if it has 0 and with each
\* number the next one.
LEMMA AllNumbers ==
  ASSUME NEW A, 0 \in A, \A n \in Nat : n \in A => n + 1 \in A
  PROVE  \A n \in Nat : n \in A
<1> DEFINE T == Nat \ A
<1> SUFFICES ASSUME T # {} PROVE FALSE
  OBVIOUS
<1>1. PICK x \in T : \A y \in T : x <= y
  BY Smallest
<1>2. x # 0 /\ x - 1 \in Nat
  BY <1>1
<1>3. x - 1 \in A
  BY <1>1, <1>2
<1> QED
  BY <1>1, <1>2, <1>3

\* One sequence behind the other, up to number m.
Concats(seqs, S, f, m) ==
  /\ f \in [1..m -> Seq(S)]
  /\ f[1] = seqs[1]
  /\ \A i \in 2..m : f[i] = f[i - 1] \o seqs[i]

LEMMA ConcatsExist ==
  ASSUME NEW S, NEW seqs \in Seq(Seq(S)), NEW m \in 1..Len(seqs)
  PROVE  \E f : Concats(seqs, S, f, m)
<1> DEFINE n == Len(seqs)
           A == {i \in Nat : i + 1 <= n => \E f : Concats(seqs, S, f, i + 1)}
<1>1. n \in Nat /\ \A i \in 1..n : seqs[i] \in Seq(S)
  OBVIOUS
<1>2. 0 \in A
  <2> SUFFICES ASSUME 1 <= n PROVE \E f : Concats(seqs, S, f, 1)
    OBVIOUS
  <2> DEFINE f == [i \in 1..1 |-> seqs[1]]
  <2>1. f \in [1..1 -> Seq(S)] /\ f[1] = seqs[1] /\ \A i \in 2..1 : FALSE
    BY <1>1
  <2> QED
    BY <2>1 DEF Concats
<1>3. ASSUME NEW i \in Nat, i \in A PROVE i + 1 \in A
  <2> DEFINE j == i + 1
  <2> SUFFICES ASSUME j + 1 <= n PROVE \E f : Concats(seqs, S, f, j + 1)
    OBVIOUS
  <2>1. j \in 1..n /\ j + 1 \in 1..n /\ j \in Nat
    BY <1>1
  <2>2. PICK f : Concats(seqs, S, f, j)
    BY <1>3, <2>1
  <2> HIDE DEF j, A
  <2> DEFINE last == f[j] \o seqs[j + 1]
             g == [k \in 1..(j + 1) |-> IF k <= j THEN f[k] ELSE last]
  <2>3. f[j] \in Seq(S) /\ last \in Seq(S) /\ \A k \in 1..j : f[k] \in Seq(S)
    BY <1>1, <2>1, <2>2 DEF Concats
  <2> HIDE DEF last
  <2>4. /\ g \in [1..(j + 1) -> Seq(S)] /\ g[j + 1] = last
        /\ \A k \in 1..j : g[k] = f[k]
    <3>1. \A k \in 1..(j + 1) : k <= j => k \in 1..j
      BY <2>1
    <3>2. \A k \in 1..j : k \in 1..(j + 1) /\ k <= j
      BY <2>1
    <3>3. j + 1 \in 1..(j + 1) /\ ~(j + 1 <= j)
      BY <2>1
    <3> QED
      BY <2>3, <3>1, <3>2, <3>3
  <2> HIDE DEF g
  <2>5. g[1] = seqs[1]
    BY <2>1, <2>2, <2>4 DEF Concats
  <2>6. ASSUME NEW k \in 2..(j + 1) PROVE g[k] = g[k - 1] \o seqs[k]
    <3>1. CASE k <= j
      <4>1. k \in 2..j /\ k \in 1..j /\ k - 1 \in 1..j
        BY <2>1, <3>1
      <4> QED
        BY <2>2, <2>4, <4>1 DEF Concats
    <3>2. CASE k = j + 1
      <4>1. k - 1 = j /\ j \in 1..j
        BY <2>1, <3>2
      <4> QED
        BY <2>4, <3>2, <4>1 DEF last
    <3>3. k <= j \/ k = j + 1
      BY <2>1
    <3> QED
      BY <3>1, <3>2, <3>3
  <2>7. Concats(seqs, S, g, j + 1)
    BY <2>4, <2>5, <2>6 DEF Concats
  <2> QED
    BY <2>7
<1>4. m - 1 \in Nat /\ (m - 1) + 1 = m /\ m <= n
  BY <1>1
<1> HIDE DEF n
<1>5. m - 1 \in A
  <2> HIDE DEF A
  <2> QED
    BY <1>2, <1>3, <1>4, AllNumbers
<1> QED
  BY <1>4, <1>5

\* FlattenSeq is the last of them.
LEMMA FlattenIsConcat ==
  ASSUME NEW S, NEW seqs \in Seq(Seq(S)), seqs # <<>>
  PROVE  \E f : Concats(seqs, S, f, Len(seqs)) /\ FlattenSeq(seqs) = f[Len(seqs)]
<1> DEFINE n == Len(seqs)
           Step(f, i) == IF i = 1 THEN seqs[i] ELSE f[i - 1] \o seqs[i]
           Flat(f) == f = [i \in 1..n |-> Step(f, i)]
           f0 == CHOOSE f : Flat(f)
<1>1. n \in Nat \ {0} /\ \A i \in 1..n : seqs[i] \in Seq(S)
  OBVIOUS
<1>2. PICK g : Concats(seqs, S, g, n)
  <2>1. n \in 1..Len(seqs)
    BY <1>1
  <2> QED
    BY <2>1, ConcatsExist
<1> HIDE DEF n
<1>3. ASSUME NEW i \in 1..n PROVE g[i] = Step(g, i)
  <2>1. CASE i = 1
    BY <1>2, <2>1 DEF Concats
  <2>2. CASE i # 1
    <3>1. i \in 2..n
      BY <1>1, <2>2
    <3> QED
      BY <1>2, <2>2, <3>1 DEF Concats
  <2> QED
    BY <2>1, <2>2
<1>4. Flat(g)
  <2> DEFINE h == [i \in 1..n |-> Step(g, i)]
  <2> HIDE DEF Step
  <2>1. [i \in 1..n |-> g[i]] = h
    BY <1>3, Zenon
  <2>2. g = [i \in 1..n |-> g[i]]
    BY <1>2 DEF Concats
  <2>3. g = h
    BY <2>1, <2>2
  <2> QED
    BY <2>3
<1>5. Flat(f0)
  <2> HIDE DEF Flat
  <2> QED
    BY <1>4
<1>6. FlattenSeq(seqs) = f0[n]
  BY <1>1 DEF FlattenSeq, n
<1> HIDE DEF f0
<1>7. f0 = [i \in 1..n |-> f0[i]] /\ \A i \in 1..n : f0[i] = Step(f0, i)
  <2> HIDE DEF Step
  <2> QED
    BY <1>5, Zenon
<1>8. f0[1] = seqs[1]
  <2>1. 1 \in 1..n
    BY <1>1
  <2> QED
    BY <1>7, <2>1
<1>9. ASSUME NEW i \in 2..n PROVE f0[i] = f0[i - 1] \o seqs[i]
  <2>1. i \in 1..n /\ i # 1
    BY <1>1
  <2> QED
    BY <1>7, <2>1
<1> DEFINE A == {i \in Nat : i + 1 \in 1..n => f0[i + 1] = g[i + 1]}
<1>10. 0 \in A
  BY <1>2, <1>8 DEF Concats
<1>11. ASSUME NEW i \in Nat, i \in A PROVE i + 1 \in A
  <2> SUFFICES ASSUME (i + 1) + 1 \in 1..n PROVE f0[(i + 1) + 1] = g[(i + 1) + 1]
    OBVIOUS
  <2> DEFINE j == (i + 1) + 1
  <2>1. j \in 2..n /\ j - 1 = i + 1 /\ i + 1 \in 1..n
    BY <1>1
  <2>2. f0[i + 1] = g[i + 1]
    BY <1>11, <2>1
  <2> HIDE DEF j, A
  <2>3. f0[j] = f0[j - 1] \o seqs[j] /\ g[j] = g[j - 1] \o seqs[j]
    BY <1>2, <1>9, <2>1 DEF Concats
  <2> QED
    BY <2>1, <2>2, <2>3 DEF j
<1>12. n - 1 \in A /\ (n - 1) + 1 = n /\ n \in 1..n
  <2>1. n - 1 \in Nat /\ (n - 1) + 1 = n /\ n \in 1..n
    BY <1>1
  <2> HIDE DEF A
  <2> QED
    BY <1>10, <1>11, <2>1, AllNumbers
<1>13. f0[n] = g[n]
  BY <1>12
<1> QED
  BY <1>2, <1>6, <1>13 DEF n

\* Where the elements of each sequence are, if at[i] is what the first i of them
\* have together.
PlacedAt(flat, seqs, at) ==
  /\ Len(flat) = at[Len(seqs)]
  /\ \A i \in 1..Len(seqs) : \A k \in 1..Len(seqs[i]) : flat[at[i - 1] + k] = seqs[i][k]

LEMMA FlattenPlaces ==
  ASSUME NEW S, NEW seqs \in Seq(Seq(S)), seqs # <<>>, NEW at, at[0] = 0,
         \A i \in 1..Len(seqs) : at[i] = at[i - 1] + Len(seqs[i])
  PROVE  FlattenSeq(seqs) \in Seq(S) /\ PlacedAt(FlattenSeq(seqs), seqs, at)
<1> DEFINE n == Len(seqs)
<1>1. n \in Nat \ {0} /\ \A i \in 1..n : seqs[i] \in Seq(S) /\ Len(seqs[i]) \in Nat
  OBVIOUS
<1>2. PICK f : Concats(seqs, S, f, n) /\ FlattenSeq(seqs) = f[n]
  BY FlattenIsConcat
<1>3. \A i \in 1..n : at[i] = at[i - 1] + Len(seqs[i])
  OBVIOUS
<1> HIDE DEF n
<1> DEFINE Placed(i) ==
             /\ f[i] \in Seq(S) /\ at[i] \in Nat /\ Len(f[i]) = at[i]
             /\ \A j \in 1..i : /\ at[j - 1] \in Nat /\ at[j - 1] + Len(seqs[j]) <= at[i]
                                /\ \A k \in 1..Len(seqs[j]) : f[i][at[j - 1] + k] = seqs[j][k]
           A == {i \in Nat : i + 1 \in 1..n => Placed(i + 1)}
<1>4. 0 \in A
  <2> SUFFICES ASSUME 1 \in 1..n PROVE Placed(1)
    BY <1>1
  <2>1. f[1] = seqs[1] /\ at[1] = at[1 - 1] + Len(seqs[1])
    BY <1>2, <1>3 DEF Concats
  <2>2. at[1 - 1] = 0 /\ \A j \in 1..1 : j = 1
    OBVIOUS
  <2> QED
    BY <1>1, <2>1, <2>2
<1>5. ASSUME NEW i \in Nat, i \in A PROVE i + 1 \in A
  <2> DEFINE p == i + 1
             q == p + 1
  <2> SUFFICES ASSUME q \in 1..n PROVE Placed(q)
    OBVIOUS
  <2>1. p \in 1..n /\ q \in 2..n /\ q - 1 = p /\ q \in 1..n
    BY <1>1
  <2>2. Placed(p)
    BY <1>5, <2>1
  <2>3. f[q] = f[p] \o seqs[q] /\ at[q] = at[p] + Len(seqs[q])
    BY <1>2, <1>3, <2>1 DEF Concats
  <2> HIDE DEF A, p
  <2>4. f[p] \in Seq(S) /\ seqs[q] \in Seq(S) /\ Len(f[p]) = at[p] /\ at[p] \in Nat
        /\ Len(seqs[q]) \in Nat
    BY <1>1, <2>1, <2>2
  <2>5. q = p + 1
    OBVIOUS
  <2> HIDE DEF q
  <2>6. /\ f[q] \in Seq(S) /\ at[q] \in Nat /\ Len(f[q]) = at[q]
        /\ \A k \in 1..at[p] : f[q][k] = f[p][k]
        /\ \A k \in 1..Len(seqs[q]) : f[q][at[p] + k] = seqs[q][k]
    <3>1. PICK s \in Seq(S), u \in Seq(S) : s = f[p] /\ u = seqs[q]
      BY <2>4
    <3>2. /\ s \o u \in Seq(S) /\ Len(s \o u) = Len(s) + Len(u)
          /\ \A k \in 1..Len(s) : (s \o u)[k] = s[k]
          /\ \A k \in 1..Len(u) : (s \o u)[Len(s) + k] = u[k]
      OBVIOUS
    <3>3. f[q] = s \o u /\ Len(s) = at[p] /\ at[q] = at[p] + Len(u)
      BY <2>3, <2>4, <3>1
    <3>4. at[q] \in Nat
      BY <2>4, <3>1, <3>3
    <3>5. f[q] \in Seq(S) /\ Len(f[q]) = at[q]
      BY <3>2, <3>3
    <3>6. \A k \in 1..at[p] : f[q][k] = s[k]
      BY <3>2, <3>3
    <3>7. \A k \in 1..Len(u) : f[q][at[p] + k] = u[k]
      BY <3>2, <3>3
    <3> QED
      BY <3>1, <3>4, <3>5, <3>6, <3>7
  <2>7. ASSUME NEW j \in 1..q
        PROVE  /\ at[j - 1] \in Nat /\ at[j - 1] + Len(seqs[j]) <= at[q]
               /\ \A k \in 1..Len(seqs[j]) : f[q][at[j - 1] + k] = seqs[j][k]
    <3>1. CASE j = q
      <4>1. j - 1 = p
        BY <2>1, <3>1
      <4>2. at[q] <= at[q]
        BY <2>6
      <4> QED
        BY <2>3, <2>4, <2>6, <3>1, <4>1, <4>2
    <3>2. CASE j # q
      <4>1. j \in 1..p /\ j \in 1..n /\ p \in Nat
        BY <1>1, <2>1, <2>5, <3>2
      <4> DEFINE m == Len(seqs[j])
                 a == at[j - 1]
      <4>2. /\ a \in Nat /\ a + m <= at[p] /\ m \in Nat
            /\ \A k \in 1..m : f[p][a + k] = seqs[j][k]
        BY <1>1, <2>2, <4>1
      <4> HIDE DEF m, a
      <4>3. \A k \in 1..m : a + k \in 1..at[p]
        BY <2>4, <4>2, SMTT(30)
      <4>4. a + m <= at[q]
        BY <2>3, <2>4, <4>2, SMTT(30)
      <4>5. \A k \in 1..m : f[q][a + k] = seqs[j][k]
        BY <2>6, <4>2, <4>3
      <4> QED
        BY <4>2, <4>4, <4>5 DEF a, m
    <3> QED
      BY <3>1, <3>2
  <2> QED
    BY <2>6, <2>7
<1>6. n - 1 \in A /\ (n - 1) + 1 = n /\ n \in 1..n
  <2>1. n - 1 \in Nat /\ (n - 1) + 1 = n /\ n \in 1..n
    BY <1>1
  <2> HIDE DEF A
  <2> QED
    BY <1>4, <1>5, <2>1, AllNumbers
<1>7. Placed(n)
  BY <1>6
<1> QED
  BY <1>2, <1>7 DEF n, PlacedAt

\* Where each item of an encoding ends: behind the total size and the offsets,
\* one behind the other.
Ends(items, end, m) ==
  /\ end \in [0..m -> Nat]
  /\ end[0] = NumberSize * (Len(items) + 1)
  /\ \A i \in 1..m : end[i] = end[i - 1] + Len(items[i])

LEMMA EndsExist ==
  ASSUME NEW S, NEW items \in Seq(Seq(S)), NEW m \in 0..Len(items)
  PROVE  \E end : Ends(items, end, m)
<1> DEFINE c == Len(items)
           b == NumberSize * (c + 1)
           A == {i \in Nat : i <= c => \E end : Ends(items, end, i)}
<1>1. c \in Nat /\ b \in Nat /\ \A i \in 1..c : Len(items[i]) \in Nat
  <2>1. c \in Nat /\ NumberSize \in Nat /\ \A i \in 1..c : Len(items[i]) \in Nat
    BY LayoutAssumption
  <2> HIDE DEF c
  <2> QED
    BY <2>1
<1>2. 0 \in A
  <2> DEFINE e == [i \in 0..0 |-> b]
  <2>1. e \in [0..0 -> Nat] /\ e[0] = b /\ \A i \in 1..0 : FALSE
    BY <1>1
  <2>2. Ends(items, e, 0)
    BY <2>1 DEF Ends
  <2> QED
    BY <2>2
<1>3. ASSUME NEW i \in Nat, i \in A PROVE i + 1 \in A
  <2> SUFFICES ASSUME i + 1 <= c PROVE \E end : Ends(items, end, i + 1)
    OBVIOUS
  <2>1. PICK f : Ends(items, f, i)
    BY <1>1, <1>3
  <2> DEFINE last == f[i] + Len(items[i + 1])
             g == [k \in 0..(i + 1) |-> IF k <= i THEN f[k] ELSE last]
  <2> HIDE DEF c, b, A
  <2>2. f[i] \in Nat /\ last \in Nat /\ \A k \in 0..i : f[k] \in Nat
    <3>1. i + 1 \in 1..c /\ i \in 0..i
      BY <1>1
    <3> QED
      BY <1>1, <2>1, <3>1, SMTT(30) DEF Ends
  <2> HIDE DEF last
  <2>3. /\ g \in [0..(i + 1) -> Nat] /\ g[i + 1] = last /\ \A k \in 0..i : g[k] = f[k]
    <3>1. \A k \in 0..(i + 1) : k <= i => k \in 0..i
      OBVIOUS
    <3>2. \A k \in 0..i : k \in 0..(i + 1) /\ k <= i
      OBVIOUS
    <3>3. i + 1 \in 0..(i + 1) /\ ~(i + 1 <= i)
      OBVIOUS
    <3> QED
      BY <2>2, <3>1, <3>2, <3>3
  <2> HIDE DEF g
  <2>4. 0 \in 0..i
    OBVIOUS
  <2>5. g[0] = NumberSize * (Len(items) + 1)
    BY <2>1, <2>3, <2>4 DEF Ends
  <2>6. ASSUME NEW k \in 1..(i + 1) PROVE g[k] = g[k - 1] + Len(items[k])
    <3>1. CASE k <= i
      <4>1. k \in 1..i /\ k \in 0..i /\ k - 1 \in 0..i
        BY <3>1
      <4> QED
        BY <2>1, <2>3, <4>1 DEF Ends
    <3>2. CASE k = i + 1
      <4>1. k - 1 = i /\ i \in 0..i
        BY <3>2
      <4> QED
        BY <2>3, <3>2, <4>1 DEF last
    <3>3. k <= i \/ k = i + 1
      OBVIOUS
    <3> QED
      BY <3>1, <3>2, <3>3
  <2>7. Ends(items, g, i + 1)
    BY <2>3, <2>5, <2>6 DEF Ends
  <2> QED
    BY <2>7
<1>4. m \in Nat /\ m <= c
  BY <1>1
<1> HIDE DEF c
<1>5. m \in A
  <2> HIDE DEF A
  <2> QED
    BY <1>2, <1>3, <1>4, AllNumbers
<1> QED
  BY <1>4, <1>5

\* The total size, the offsets and the items.
Parts(items, end) ==
  <<Pack[end[Len(items)]]>> \o [i \in 1..Len(items) |-> Pack[end[i - 1]]] \o items

\* The builder puts these behind one another.
LEMMA EncodeIsParts ==
  ASSUME NEW S, NEW items \in Seq(Seq(S))
  PROVE  \E end : Ends(items, end, Len(items)) /\ Encode(items) = FlattenSeq(Parts(items, end))
<1> DEFINE c == Len(items)
           Step(f, i) == IF i = 0 THEN NumberSize * (c + 1) ELSE f[i - 1] + Len(items[i])
           Flat(f) == f = [i \in 0..c |-> Step(f, i)]
           f0 == CHOOSE f : Flat(f)
<1>1. c \in Nat
  OBVIOUS
<1>2. PICK g : Ends(items, g, c)
  <2>1. c \in 0..Len(items)
    BY <1>1
  <2> QED
    BY <2>1, EndsExist
<1>3. Encode(items) = FlattenSeq(Parts(items, f0))
  BY DEF Encode, Parts
<1>4. g \in [0..c -> Nat] /\ g[0] = NumberSize * (c + 1)
      /\ \A i \in 1..c : g[i] = g[i - 1] + Len(items[i])
  BY <1>2 DEF Ends
<1> HIDE DEF c
<1>5. ASSUME NEW i \in 0..c PROVE g[i] = Step(g, i)
  <2>1. i = 0 \/ i \in 1..c
    BY <1>1
  <2> QED
    BY <1>4, <2>1
<1>6. Flat(g)
  <2> DEFINE h == [i \in 0..c |-> Step(g, i)]
  <2> HIDE DEF Step
  <2>1. [i \in 0..c |-> g[i]] = h
    BY <1>5, Zenon
  <2>2. g = [i \in 0..c |-> g[i]]
    BY <1>4
  <2>3. g = h
    BY <2>1, <2>2
  <2> QED
    BY <2>3
<1>7. Flat(f0)
  <2> HIDE DEF Flat
  <2> QED
    BY <1>6
<1> HIDE DEF f0
<1>8. f0 = [i \in 0..c |-> f0[i]] /\ \A i \in 0..c : f0[i] = Step(f0, i)
  <2> HIDE DEF Step
  <2> QED
    BY <1>7, Zenon
<1> DEFINE A == {i \in Nat : i \in 0..c => f0[i] = g[i]}
<1>9. 0 \in A
  BY <1>4, <1>8
<1>10. ASSUME NEW i \in Nat, i \in A PROVE i + 1 \in A
  <2> SUFFICES ASSUME i + 1 \in 0..c PROVE f0[i + 1] = g[i + 1]
    OBVIOUS
  <2> DEFINE j == i + 1
  <2>1. j \in 1..c /\ j - 1 = i /\ j # 0 /\ j \in 0..c /\ i \in 0..c
    BY <1>1
  <2>2. f0[i] = g[i]
    BY <1>10, <2>1
  <2> HIDE DEF j, A
  <2>3. f0[j] = f0[j - 1] + Len(items[j]) /\ g[j] = g[j - 1] + Len(items[j])
    BY <1>4, <1>8, <2>1
  <2> QED
    BY <2>1, <2>2, <2>3 DEF j
<1>11. \A i \in 0..c : f0[i] = g[i]
  <2> HIDE DEF A
  <2>1. \A i \in Nat : i \in A
    BY <1>9, <1>10, AllNumbers
  <2> QED
    BY <1>1, <2>1 DEF A
<1>12. f0 = g
  BY <1>4, <1>8, <1>11
<1> QED
  BY <1>2, <1>3, <1>12 DEF c

\* No item ends behind the last one.
LEMMA EndsAscend ==
  ASSUME NEW S, NEW items \in Seq(Seq(S)), NEW end, Ends(items, end, Len(items))
  PROVE  \A i \in 0..Len(items) : end[i] \in Nat /\ end[i] <= end[Len(items)]
<1> DEFINE c == Len(items)
           A == {k \in Nat : k <= c => end[c - k] <= end[c]}
<1>1. /\ c \in Nat /\ \A i \in 0..c : end[i] \in Nat
      /\ \A i \in 1..c : end[i] = end[i - 1] + Len(items[i]) /\ Len(items[i]) \in Nat
  BY SMTT(30) DEF Ends
<1> HIDE DEF c
<1>2. 0 \in A
  <2>1. c - 0 = c /\ c \in 0..c
    BY <1>1
  <2> QED
    BY <1>1, <2>1
<1>3. ASSUME NEW k \in Nat, k \in A PROVE k + 1 \in A
  <2> SUFFICES ASSUME k + 1 <= c PROVE end[c - (k + 1)] <= end[c]
    OBVIOUS
  <2> DEFINE j == c - k
  <2>1. j \in 1..c /\ j - 1 = c - (k + 1) /\ j \in 0..c /\ j - 1 \in 0..c /\ c \in 0..c
    BY <1>1
  <2>2. end[j] <= end[c]
    BY <1>1, <1>3
  <2> HIDE DEF j, A
  <2>3. end[j] = end[j - 1] + Len(items[j]) /\ Len(items[j]) \in Nat
    BY <1>1, <2>1
  <2>4. end[j] \in Nat /\ end[j - 1] \in Nat /\ end[c] \in Nat
    BY <1>1, <2>1
  <2>5. end[j - 1] <= end[c]
    BY <2>2, <2>3, <2>4
  <2> QED
    BY <2>1, <2>5
<1>4. ASSUME NEW i \in 0..c PROVE end[i] <= end[c]
  <2>1. c - i \in Nat /\ c - i <= c /\ c - (c - i) = i
    BY <1>1
  <2> HIDE DEF A
  <2>2. c - i \in A
    BY <1>2, <1>3, <2>1, AllNumbers
  <2> QED
    BY <2>1, <2>2 DEF A
<1> QED
  BY <1>1, <1>4 DEF c

LEMMA PackIsUnpacked ==
  ASSUME NEW n, Fits(n)
  PROVE  Pack[n] \in Word /\ Unpack[Pack[n]] = n
BY LayoutAssumption DEF Fits

LEMMA SmallerFits ==
  ASSUME NEW n \in Nat, Fits(n), NEW m \in 0..n
  PROVE  Fits(m)
<1>1. PICK w \in Word : Unpack[w] = n
  BY DEF Fits
<1>2. \A i \in 0..Unpack[w] : \E u \in Word : Unpack[u] = i
  BY <1>1, LayoutAssumption
<1> QED
  BY <1>1, <1>2 DEF Fits

\* A word is NumberSize bytes.
LEMMA WordIsBytes ==
  ASSUME NEW w \in Word
  PROVE  w \in Seq(Byte) /\ Len(w) = NumberSize /\ \A k \in 1..NumberSize : w[k] \in Byte
BY LayoutAssumption DEF Word

\* One sequence behind another.
LEMMA Concatenated ==
  ASSUME NEW T, NEW s \in Seq(T), NEW u \in Seq(T)
  PROVE  /\ s \o u \in Seq(T) /\ Len(s \o u) = Len(s) + Len(u)
         /\ \A k \in 1..Len(s) : (s \o u)[k] = s[k]
         /\ \A k \in 1..Len(u) : (s \o u)[Len(s) + k] = u[k]
OBVIOUS

\* Where the total size, the offsets and the items are among the parts.
PartsOf(parts, items, end, c) ==
  /\ parts \in Seq(Seq(Byte)) /\ Len(parts) = c + 1 + c
  /\ parts[1] = Pack[end[c]]
  /\ \A j \in 1..c : parts[j + 1] = Pack[end[j - 1]]
  /\ \A i \in 1..c : parts[c + 1 + i] = items[i]

LEMMA PartsAre ==
  ASSUME NEW items \in Seq(Seq(Byte)), NEW end, NEW c \in Nat, c = Len(items),
         \A i \in 0..c : Pack[end[i]] \in Word
  PROVE  PartsOf(Parts(items, end), items, end, c)
<1> DEFINE size == <<Pack[end[c]]>>
           offsets == [i \in 1..c |-> Pack[end[i - 1]]]
<1>0. PICK T : T = Seq(Byte)
  OBVIOUS
<1>1. \A i \in 0..c : Pack[end[i]] \in Seq(Byte)
  BY WordIsBytes
<1>2. \A i \in 1..c : i - 1 \in 0..c
  OBVIOUS
<1>3. c \in 0..c
  OBVIOUS
<1>4. size \in Seq(Seq(Byte)) /\ Len(size) = 1 /\ size[1] = Pack[end[c]]
  BY <1>1, <1>3
<1>5. /\ offsets \in Seq(Seq(Byte)) /\ Len(offsets) = c
      /\ \A j \in 1..c : offsets[j] = Pack[end[j - 1]]
  BY <1>1, <1>2
<1> HIDE DEF size, offsets
<1> DEFINE head == size \o offsets
           all == head \o items
<1>6. /\ head \in Seq(Seq(Byte)) /\ Len(head) = c + 1 /\ head[1] = size[1]
      /\ \A j \in 1..c : head[j + 1] = offsets[j]
  <2>1. /\ head \in Seq(T) /\ Len(head) = Len(size) + Len(offsets)
        /\ \A k \in 1..Len(size) : head[k] = size[k]
        /\ \A k \in 1..Len(offsets) : head[Len(size) + k] = offsets[k]
    <3>1. size \in Seq(T) /\ offsets \in Seq(T)
      BY <1>0, <1>4, <1>5
    <3> QED
      BY <3>1, Concatenated
  <2> HIDE DEF head
  <2>2. \A k \in 1..c : head[1 + k] = offsets[k] /\ 1 + k = k + 1
    BY <1>4, <1>5, <2>1
  <2> QED
    BY <1>0, <1>4, <1>5, <2>1, <2>2
<1> HIDE DEF head
<1>7. /\ all \in Seq(Seq(Byte)) /\ Len(all) = c + 1 + c
      /\ \A j \in 1..(c + 1) : all[j] = head[j]
      /\ \A i \in 1..c : all[c + 1 + i] = items[i]
  <2>1. /\ all \in Seq(T) /\ Len(all) = Len(head) + Len(items)
        /\ \A k \in 1..Len(head) : all[k] = head[k]
        /\ \A k \in 1..Len(items) : all[Len(head) + k] = items[k]
    <3>1. head \in Seq(T) /\ items \in Seq(T)
      BY <1>0, <1>6
    <3> QED
      BY <3>1, Concatenated
  <2> HIDE DEF all
  <2> QED
    BY <1>0, <1>6, <2>1
<1>8. Parts(items, end) = all
  BY DEF Parts, all, head, size, offsets
<1> HIDE DEF all
<1>9. 1 \in 1..(c + 1) /\ \A j \in 1..c : j + 1 \in 1..(c + 1)
  OBVIOUS
<1>10. all[1] = Pack[end[c]] /\ \A j \in 1..c : all[j + 1] = Pack[end[j - 1]]
  BY <1>4, <1>5, <1>6, <1>7, <1>9
<1> QED
  BY <1>7, <1>8, <1>10 DEF PartsOf

\* s is the total size, the offsets and the items, each in its place.
Places(s, items, end, c) ==
  /\ s \in Seq(Byte) /\ Len(s) = end[c]
  /\ \A r \in 1..NumberSize : s[r] = Pack[end[c]][r]
  /\ \A j \in 1..c : \A r \in 1..NumberSize : s[j * NumberSize + r] = Pack[end[j - 1]][r]
  /\ \A i \in 1..c : \A k \in 1..Len(items[i]) : s[end[i - 1] + k] = items[i][k]

\* The bytes of an encoding: the total size, the offsets, and the items.
LEMMA EncodePlaces ==
  ASSUME NEW items \in Seq(Seq(Byte)), NEW end, NEW c \in Nat, c = Len(items),
         Ends(items, end, c), Fits(end[c])
  PROVE  Places(FlattenSeq(Parts(items, end)), items, end, c)
<1> DEFINE n == NumberSize
           parts == Parts(items, end)
           at == [i \in 0..(c + 1 + c) |-> IF i <= c + 1 THEN i * n ELSE end[i - (c + 1)]]
<1>1. /\ n \in Nat \ {0} /\ \A i \in 0..c : end[i] \in Nat
      /\ end[0] = n * (c + 1)
      /\ \A i \in 1..c : end[i] = end[i - 1] + Len(items[i])
  BY LayoutAssumption DEF Ends
<1>2. \A i \in 0..c : Pack[end[i]] \in Word
  <2> SUFFICES ASSUME NEW i \in 0..c PROVE Pack[end[i]] \in Word
    OBVIOUS
  <2>1. end[i] \in Nat /\ end[i] <= end[c] /\ end[c] \in Nat
    <3>1. c \in 0..c
      OBVIOUS
    <3> QED
      BY <1>1, <3>1, EndsAscend
  <2>2. Fits(end[i])
    BY <2>1, SmallerFits
  <2> QED
    BY <2>2, PackIsUnpacked
<1>3. /\ parts \in Seq(Seq(Byte)) /\ Len(parts) = c + 1 + c
      /\ parts[1] = Pack[end[c]]
      /\ \A j \in 1..c : parts[j + 1] = Pack[end[j - 1]]
      /\ \A i \in 1..c : parts[c + 1 + i] = items[i]
  <2>1. PartsOf(parts, items, end, c)
    BY <1>2, PartsAre
  <2> QED
    BY <2>1 DEF PartsOf
<1>4. \A i \in 1..(c + 1) : Len(parts[i]) = n
  <2> SUFFICES ASSUME NEW i \in 1..(c + 1) PROVE Len(parts[i]) = n
    OBVIOUS
  <2>1. CASE i = 1
    <3>1. c \in 0..c
      OBVIOUS
    <3> QED
      BY <1>2, <1>3, <2>1, <3>1, WordIsBytes
  <2>2. CASE i # 1
    <3>1. i - 1 \in 1..c /\ (i - 1) + 1 = i
      BY <2>2
    <3>2. PICK j \in 1..c : j + 1 = i
      BY <3>1
    <3>3. j - 1 \in 0..c
      OBVIOUS
    <3> QED
      BY <1>2, <1>3, <3>2, <3>3, WordIsBytes
  <2> QED
    BY <2>1, <2>2
<1> HIDE DEF n, parts
<1>5. /\ \A i \in 0..(c + 1) : at[i] = i * n
      /\ \A i \in 0..c : at[c + 1 + i] = end[i]
  <2>1. \A i \in 0..(c + 1) : i \in 0..(c + 1 + c) /\ i <= c + 1
    OBVIOUS
  <2>2. \A i \in 0..(c + 1) : at[i] = i * n
    BY <2>1
  <2>3. ASSUME NEW i \in 0..c PROVE at[c + 1 + i] = end[i]
    <3>1. CASE i = 0
      BY <1>1, <2>2, <3>1
    <3>2. CASE i # 0
      <4>1. /\ c + 1 + i \in 0..(c + 1 + c) /\ ~(c + 1 + i <= c + 1)
            /\ (c + 1 + i) - (c + 1) = i
        BY <3>2
      <4> QED
        BY <4>1
    <3> QED
      BY <3>1, <3>2
  <2> QED
    BY <2>2, <2>3
<1> HIDE DEF at
<1>6. at[0] = 0
  <2>1. 0 * n = 0 /\ 0 \in 0..(c + 1)
    BY <1>1
  <2> QED
    BY <1>5, <2>1
<1>7. \A i \in 1..(c + 1 + c) : at[i] = at[i - 1] + Len(parts[i])
  <2> SUFFICES ASSUME NEW i \in 1..(c + 1 + c) PROVE at[i] = at[i - 1] + Len(parts[i])
    OBVIOUS
  <2>1. CASE i <= c + 1
    <3>1. i \in 1..(c + 1) /\ i \in 0..(c + 1) /\ i - 1 \in 0..(c + 1)
      BY <2>1
    <3>2. i * n = (i - 1) * n + n
      BY <1>1
    <3> QED
      BY <1>4, <1>5, <3>1, <3>2
  <2>2. CASE i > c + 1
    <3>1. i - (c + 1) \in 1..c /\ i = c + 1 + (i - (c + 1))
      BY <2>2
    <3>2. PICK j \in 1..c : i = c + 1 + j
      BY <3>1
    <3>3. j \in 0..c /\ j - 1 \in 0..c /\ i - 1 = c + 1 + (j - 1)
      BY <3>2
    <3>4. at[i] = end[j] /\ at[i - 1] = end[j - 1]
      BY <1>5, <3>2, <3>3
    <3> QED
      BY <1>1, <1>3, <3>2, <3>4
  <2> QED
    BY <2>1, <2>2
<1> DEFINE s == FlattenSeq(parts)
<1>8. /\ s \in Seq(Byte) /\ Len(s) = at[c + 1 + c]
      /\ \A i \in 1..(c + 1 + c) : \A k \in 1..Len(parts[i]) : s[at[i - 1] + k] = parts[i][k]
  <2>1. parts # <<>>
    BY <1>3
  <2>2. \A i \in 1..Len(parts) : at[i] = at[i - 1] + Len(parts[i])
    BY <1>3, <1>7
  <2> HIDE DEF s
  <2>3. FlattenSeq(parts) \in Seq(Byte) /\ PlacedAt(FlattenSeq(parts), parts, at)
    BY <1>3, <1>6, <2>1, <2>2, FlattenPlaces
  <2>4. s \in Seq(Byte) /\ PlacedAt(s, parts, at)
    BY <2>3 DEF s
  <2> QED
    BY <1>3, <2>4 DEF PlacedAt
<1> HIDE DEF s
<1>9. Len(s) = end[c]
  <2>1. c \in 0..c
    OBVIOUS
  <2> QED
    BY <1>5, <1>8, <2>1
<1>10. \A r \in 1..n : s[r] = Pack[end[c]][r]
  <2>1. 1 \in 1..(c + 1 + c) /\ 1 \in 1..(c + 1) /\ 1 - 1 = 0
    OBVIOUS
  <2>2. \A r \in 1..n : s[at[1 - 1] + r] = parts[1][r]
    BY <1>4, <1>8, <2>1
  <2>3. \A r \in 1..n : at[1 - 1] + r = r
    BY <1>1, <1>6, <2>1
  <2> QED
    BY <1>3, <2>2, <2>3
<1>11. ASSUME NEW j \in 1..c, NEW r \in 1..n
       PROVE  s[j * n + r] = Pack[end[j - 1]][r]
  <2>1. j + 1 \in 1..(c + 1 + c) /\ j + 1 \in 1..(c + 1) /\ (j + 1) - 1 = j /\ j \in 0..(c + 1)
    OBVIOUS
  <2>2. s[at[(j + 1) - 1] + r] = parts[j + 1][r]
    BY <1>4, <1>8, <2>1
  <2>3. at[(j + 1) - 1] = j * n
    BY <1>5, <2>1
  <2> QED
    BY <1>3, <2>2, <2>3
<1>12. ASSUME NEW i \in 1..c, NEW k \in 1..Len(items[i])
       PROVE  s[end[i - 1] + k] = items[i][k]
  <2> DEFINE p == c + 1 + i
  <2>1. p \in 1..(c + 1 + c) /\ p - 1 = c + 1 + (i - 1) /\ i - 1 \in 0..c
    OBVIOUS
  <2>2. parts[p] = items[i]
    BY <1>3
  <2> HIDE DEF p
  <2>3. s[at[p - 1] + k] = parts[p][k]
    BY <1>8, <2>1, <2>2
  <2>4. at[p - 1] = end[i - 1]
    BY <1>5, <2>1
  <2> QED
    BY <2>2, <2>3, <2>4
<1>13. Places(s, items, end, c)
  BY <1>8, <1>9, <1>10, <1>11, <1>12 DEF Places, n
<1> QED
  BY <1>13 DEF s, parts

\* The end of an item is a natural number.
LEMMA EndsType ==
  ASSUME NEW items, NEW end, NEW m, Ends(items, end, m)
  PROVE  \A i \in 0..m : end[i] \in Nat
<1>1. end \in [0..m -> Nat]
  BY DEF Ends
<1> QED
  BY <1>1

\* And none is in front of the first one.
LEMMA EndsStart ==
  ASSUME NEW S, NEW items \in Seq(Seq(S)), NEW end, Ends(items, end, Len(items))
  PROVE  \A i \in 0..Len(items) : end[0] <= end[i]
<1> DEFINE c == Len(items)
           A == {k \in Nat : k <= c => end[0] <= end[k]}
<1>1. /\ c \in Nat /\ \A i \in 0..c : end[i] \in Nat
      /\ \A i \in 1..c : end[i] = end[i - 1] + Len(items[i]) /\ Len(items[i]) \in Nat
  <2>1. \A i \in 0..c : end[i] \in Nat
    BY EndsType
  <2>2. \A i \in 1..c : end[i] = end[i - 1] + Len(items[i])
    BY DEF Ends
  <2> QED
    BY <2>1, <2>2
<1> HIDE DEF c
<1>2. 0 \in A
  <2>1. 0 \in 0..c
    BY <1>1
  <2> QED
    BY <1>1, <2>1
<1>3. ASSUME NEW k \in Nat, k \in A PROVE k + 1 \in A
  <2> SUFFICES ASSUME k + 1 <= c PROVE end[0] <= end[k + 1]
    OBVIOUS
  <2> DEFINE j == k + 1
  <2>1. j \in 1..c /\ j - 1 = k /\ j \in 0..c /\ k \in 0..c /\ 0 \in 0..c
    BY <1>1
  <2>2. end[0] <= end[k]
    BY <1>1, <1>3
  <2> HIDE DEF j, A
  <2>3. end[j] = end[k] + Len(items[j]) /\ Len(items[j]) \in Nat
    BY <1>1, <2>1
  <2>4. end[0] \in Nat /\ end[k] \in Nat /\ end[j] \in Nat
    BY <1>1, <2>1
  <2>5. end[0] <= end[j]
    BY <2>2, <2>3, <2>4
  <2> QED
    BY <2>5 DEF j
<1>4. \A k \in Nat : k \in A
  <2> HIDE DEF A
  <2> QED
    BY <1>2, <1>3, AllNumbers
<1> QED
  BY <1>1, <1>4 DEF c

LEMMA SizeIsEnd ==
  ASSUME NEW S, NEW items \in Seq(Seq(S)), NEW end, Ends(items, end, Len(items))
  PROVE  EncodedSize(items) = end[Len(items)] /\ EncodedSize(items) \in Nat
<1> DEFINE c == Len(items)
           at == [i \in 0..c |-> end[i] - end[0]]
<1>1. /\ c \in Nat /\ \A i \in 0..c : end[i] \in Nat
      /\ end[0] = NumberSize * (c + 1)
      /\ \A i \in 1..c : end[i] = end[i - 1] + Len(items[i])
  <2>1. end[0] = NumberSize * (c + 1)
    BY DEF Ends
  <2>2. c \in Nat /\ \A i \in 0..c : end[i] \in Nat
    BY EndsType
  <2>3. \A i \in 1..c : end[i] = end[i - 1] + Len(items[i])
    BY DEF Ends
  <2> QED
    BY <2>1, <2>2, <2>3
<1>2. CASE items = <<>>
  <2>1. c = 0 /\ FlattenSeq(items) = <<>>
    BY <1>2 DEF FlattenSeq
  <2>2. Len(FlattenSeq(items)) = 0 /\ 0 \in 0..c
    BY <2>1
  <2> HIDE DEF c
  <2>3. EncodedSize(items) = end[0] + 0 /\ end[0] \in Nat
    BY <1>1, <2>2 DEF EncodedSize, c
  <2> QED
    BY <2>1, <2>3 DEF c
<1>3. CASE items # <<>>
  <2> HIDE DEF c
  <2>1. 0 \in 0..c /\ c \in 0..c /\ \A i \in 1..c : i \in 0..c /\ i - 1 \in 0..c
    BY <1>1
  <2>2. at[0] = 0 /\ at[c] = end[c] - end[0]
    BY <1>1, <2>1
  <2>3. \A i \in 1..c : at[i] = at[i - 1] + Len(items[i])
    <3> SUFFICES ASSUME NEW i \in 1..c PROVE at[i] = at[i - 1] + Len(items[i])
      OBVIOUS
    <3>1. /\ at[i] = end[i] - end[0] /\ at[i - 1] = end[i - 1] - end[0]
          /\ end[i] = end[i - 1] + Len(items[i]) /\ Len(items[i]) \in Nat
          /\ end[i] \in Nat /\ end[i - 1] \in Nat /\ end[0] \in Nat
      <4>1. Len(items[i]) \in Nat /\ i \in 0..c /\ i - 1 \in 0..c
        BY <2>1 DEF c
      <4>2. at[i] = end[i] - end[0] /\ at[i - 1] = end[i - 1] - end[0]
        BY <4>1
      <4> HIDE DEF at
      <4> QED
        BY <1>1, <2>1, <4>1, <4>2
    <3> HIDE DEF at
    <3> QED
      BY <3>1
  <2> HIDE DEF at
  <2>4. PlacedAt(FlattenSeq(items), items, at)
    BY <1>3, <2>2, <2>3, FlattenPlaces DEF c
  <2>5. Len(FlattenSeq(items)) = end[c] - end[0]
    BY <2>2, <2>4 DEF PlacedAt, c
  <2>6. EncodedSize(items) = end[0] + (end[c] - end[0])
    BY <1>1, <2>5 DEF EncodedSize, c
  <2>7. end[0] \in Nat /\ end[c] \in Nat
    BY <1>1, <2>1
  <2> QED
    BY <2>6, <2>7 DEF c
<1> QED
  BY <1>2, <1>3

\* The readers find in s the items and nothing else.
Holds(s, items) ==
  /\ s \in Seq(Byte) /\ Len(s) = EncodedSize(items)
  /\ SizeMatches(s) /\ HeadMatches(s) /\ Ascending(s)
  /\ FieldCount(s) = Len(items)
  /\ \A i \in 1..Len(items) : Between(s, i) = items[i] /\ Field(s, i) = items[i]

\* The number at a place is the one whose bytes are there.
LEMMA NumberOf ==
  ASSUME NEW s \in Seq(Byte), NEW place \in Nat, NEW n, Fits(n),
         \A r \in 1..NumberSize : s[place + r] = Pack[n][r]
  PROVE  Number(s, place) = n
<1> DEFINE w == [r \in 1..NumberSize |-> s[place + r]]
<1>1. Pack[n] \in Word /\ Unpack[Pack[n]] = n
  BY PackIsUnpacked
<1>2. w = Pack[n]
  BY <1>1 DEF Word
<1>3. Number(s, place) = Unpack[w]
  BY DEF Number
<1> HIDE DEF w
<1> QED
  BY <1>1, <1>2, <1>3

\* What write of a table or a vector has written, verify accepts and the readers
\* take apart into the items that were written, as long as the total size fits
\* into a number.
THEOREM EncodingIsRead ==
  ASSUME NEW items \in Seq(Seq(Byte)), items # <<>>, Fits(EncodedSize(items))
  PROVE  Holds(Encode(items), items)
<1> DEFINE c == Len(items)
           n == NumberSize
           s == Encode(items)
<1>1. PICK end : Ends(items, end, c) /\ s = FlattenSeq(Parts(items, end))
  BY EncodeIsParts
<1>2. /\ c \in Nat \ {0} /\ n \in Nat \ {0} /\ \A i \in 0..c : end[i] \in Nat
      /\ end[0] = n * (c + 1)
      /\ \A i \in 1..c : end[i] = end[i - 1] + Len(items[i]) /\ Len(items[i]) \in Nat
  <2>1. end[0] = n * (c + 1)
    BY <1>1 DEF Ends
  <2>2. c \in Nat \ {0} /\ \A i \in 0..c : end[i] \in Nat
    BY <1>1 DEF Ends
  <2>3. \A i \in 1..c : end[i] = end[i - 1] + Len(items[i]) /\ Len(items[i]) \in Nat
    BY <1>1 DEF Ends
  <2>4. n \in Nat \ {0}
    BY LayoutAssumption
  <2> QED
    BY <2>1, <2>2, <2>3, <2>4
<1>3. EncodedSize(items) = end[c]
  BY <1>1, SizeIsEnd
<1>4. /\ s \in Seq(Byte) /\ Len(s) = end[c]
      /\ \A r \in 1..n : s[r] = Pack[end[c]][r]
      /\ \A j \in 1..c : \A r \in 1..n : s[j * n + r] = Pack[end[j - 1]][r]
      /\ \A i \in 1..c : \A k \in 1..Len(items[i]) : s[end[i - 1] + k] = items[i][k]
  <2>1. Fits(end[c])
    BY <1>3
  <2> HIDE DEF s
  <2>2. Places(s, items, end, c)
    BY <1>1, <1>2, <2>1, EncodePlaces
  <2> QED
    BY <2>2 DEF Places
<1>5. \A i \in 0..c : Fits(end[i]) /\ end[i] <= end[c] /\ end[0] <= end[i]
  <2> SUFFICES ASSUME NEW i \in 0..c PROVE Fits(end[i]) /\ end[i] <= end[c] /\ end[0] <= end[i]
    OBVIOUS
  <2>1. end[i] \in Nat /\ end[i] <= end[c] /\ end[c] \in Nat
    <3>1. c \in 0..c
      BY <1>2
    <3> QED
      BY <1>1, <1>2, <3>1, EndsAscend
  <2>2. end[0] <= end[i]
    BY <1>1, EndsStart
  <2>3. Fits(end[c])
    BY <1>3
  <2> QED
    BY <2>1, <2>2, <2>3, SmallerFits
<1>6. \A i \in 1..c : i \in 0..c /\ i - 1 \in 0..c
  OBVIOUS
<1>7. \A i \in 1..c : items[i] \in Seq(Byte)
  OBVIOUS
<1>8. c = Len(items)
  OBVIOUS
<1> HIDE DEF s, c
<1>9. Number(s, 0) = end[c]
  <2>1. PICK place \in Nat : place = 0
    OBVIOUS
  <2>2. \A k \in 1..n : place + k = k
    BY <1>2, <2>1
  <2>3. \A k \in 1..n : s[place + k] = Pack[end[c]][k]
    BY <1>4, <2>2
  <2>4. Fits(end[c])
    BY <1>3, <1>8
  <2>5. Number(s, place) = end[c]
    BY <1>4, <2>3, <2>4, NumberOf
  <2> QED
    BY <2>1, <2>5
<1>10. ASSUME NEW j \in 1..c PROVE Number(s, j * n) = end[j - 1]
  <2>1. j * n \in Nat
    BY <1>2
  <2>2. Fits(end[j - 1])
    BY <1>5, <1>6
  <2>3. \A k \in 1..n : s[j * n + k] = Pack[end[j - 1]][k]
    BY <1>4
  <2> QED
    BY <1>4, <2>1, <2>2, <2>3, NumberOf
<1> HIDE DEF n
<1>11. Number(s, n) = end[0]
  <2>1. 1 * n = n /\ 1 - 1 = 0 /\ 1 \in 1..c
    BY <1>2
  <2> QED
    BY <1>10, <2>1
<1>12. /\ end[0] \div n = c + 1 /\ end[0] % n = 0 /\ end[0] >= 2 * n
       /\ end[0] <= end[c] /\ n <= end[0] /\ n + n <= end[0]
  <2>1. (n * (c + 1)) \div n = c + 1 /\ (n * (c + 1)) % n = 0
    <3> DEFINE m == c + 1
    <3>1. m \in Nat /\ n \in Nat \ {0}
      BY <1>2
    <3> HIDE DEF m
    <3>2. (n * m) \div n = m /\ (n * m) % n = 0
      BY <3>1, WholeNumber
    <3> QED
      BY <3>2 DEF m
  <2>2. 2 * n <= (c + 1) * n
    BY <1>2, Products
  <2>3. (c + 1) * n = n * (c + 1)
    BY <1>2
  <2>4. c \in 0..c /\ 0 \in 0..c
    BY <1>2
  <2>5. end[0] <= end[c] /\ end[0] \in Nat
    BY <1>2, <1>5, <2>4
  <2>6. 2 * n = n + n
    BY <1>2
  <2>7. end[0] = (c + 1) * n
    BY <1>2, <2>3
  <2>8. end[0] >= 2 * n
    BY <1>2, <2>2, <2>5, <2>7
  <2> QED
    BY <1>2, <2>1, <2>5, <2>6, <2>8
<1>13. SizeMatches(s)
  <2>1. Len(s) = end[c] /\ end[c] >= n
    <3>1. end[c] \in Nat /\ end[0] \in Nat /\ n \in Nat
      <4>1. c \in 0..c /\ 0 \in 0..c
        BY <1>2
      <4> QED
        BY <1>2, <4>1
    <3> QED
      BY <1>4, <1>12, <3>1
  <2> QED
    BY <1>9, <2>1 DEF SizeMatches, n
<1>14. HeadMatches(s)
  <2>1. Len(s) = end[c]
    BY <1>4
  <2>2. n + n <= Len(s) /\ end[0] <= Len(s)
    <3>1. end[c] \in Nat /\ end[0] \in Nat /\ n \in Nat
      <4>1. c \in 0..c /\ 0 \in 0..c
        BY <1>2
      <4> QED
        BY <1>2, <4>1
    <3> QED
      BY <1>12, <2>1, <3>1
  <2> QED
    BY <1>11, <1>12, <2>2 DEF HeadMatches, HasNumber, n
<1>15. FieldCount(s) = c
  <2>1. FieldCount(s) = (Number(s, n) \div n) - 1
    BY DEF FieldCount, n
  <2>2. FieldCount(s) = (c + 1) - 1
    BY <1>11, <1>12, <2>1
  <2> QED
    BY <1>2, <2>2
<1>16. ASSUME NEW i \in 1..(c + 1) PROVE Offsets(s)[i] = end[i - 1]
  <2>1. Offsets(s)[i] = IF i > c THEN Len(s) ELSE Number(s, i * n)
    BY <1>15 DEF Offsets, Start, n
  <2>2. CASE i > c
    <3>1. i - 1 = c
      BY <1>2, <2>2
    <3> QED
      BY <1>4, <2>1, <2>2, <3>1
  <2>3. CASE ~(i > c)
    <3>1. i \in 1..c
      BY <1>2, <2>3
    <3> QED
      BY <1>10, <2>1, <2>3, <3>1
  <2> QED
    BY <2>2, <2>3
<1>17. ASSUME NEW i \in 1..c
       PROVE  Offsets(s)[i] = end[i - 1] /\ Offsets(s)[i + 1] = end[i]
  <2>1. i \in 1..(c + 1) /\ i + 1 \in 1..(c + 1) /\ (i + 1) - 1 = i
    BY <1>2
  <2> QED
    BY <1>16, <2>1
<1>18. Ascending(s)
  <2> SUFFICES ASSUME NEW i \in 1..c PROVE Offsets(s)[i] <= Offsets(s)[i + 1]
    BY <1>15 DEF Ascending
  <2>1. /\ end[i] = end[i - 1] + Len(items[i]) /\ Len(items[i]) \in Nat
        /\ end[i - 1] \in Nat /\ end[i] \in Nat
    BY <1>2, <1>6
  <2> QED
    BY <1>17, <2>1, SMTT(30)
<1>19. ASSUME NEW i \in 1..c PROVE Between(s, i) = items[i]
  <2> DEFINE a == end[i - 1]
             b == end[i]
             u == SubSeq(s, a + 1, b)
  <2>1. /\ a \in Nat /\ b \in Nat /\ b = a + Len(items[i]) /\ Len(items[i]) \in Nat
        /\ b <= Len(s)
    BY <1>2, <1>4, <1>5, <1>6
  <2>2. Between(s, i) = u
    BY <1>17 DEF Between, Bytes
  <2>3. \A k \in 1..Len(items[i]) : s[a + k] = items[i][k]
    BY <1>4
  <2> HIDE DEF a, b
  <2>0. s \in Seq(Byte) /\ a <= b
    BY <1>4, <2>1
  <2>4. Len(u) = b - a /\ \A k \in 1..(b - a) : u[k] = s[a + k]
    BY <2>0, <2>1, BytesOf
  <2>5. u \in Seq(Byte)
    BY <2>0, <2>1
  <2> HIDE DEF u
  <2>6. items[i] \in Seq(Byte) /\ Len(u) = Len(items[i])
    BY <1>7, <2>1, <2>4
  <2>7. ASSUME NEW k \in 1..Len(u) PROVE u[k] = items[i][k]
    <3>1. b - a = Len(items[i])
      BY <2>1
    <3>2. k \in 1..(b - a) /\ k \in 1..Len(items[i])
      BY <2>6, <3>1
    <3> QED
      BY <2>3, <2>4, <3>2
  <2>8. u = items[i]
    BY <2>5, <2>6, <2>7, SeqEqual
  <2> QED
    BY <2>2, <2>8
<1>20. ASSUME NEW i \in 1..c PROVE Field(s, i) = items[i]
  BY <1>4, <1>14, <1>15, <1>18, <1>19, ItemIsBetween DEF Field
<1> QED
  BY <1>3, <1>4, <1>8, <1>13, <1>14, <1>15, <1>18, <1>19, <1>20 DEF Holds, s
\* The total size of a verified table fits into a number, and is that of the
\* encoding of its fields.
LEMMA FieldsFit ==
  ASSUME NEW s \in Seq(Byte), SizeMatches(s), HeadMatches(s), Ascending(s),
         NEW c, c = FieldCount(s), NEW items \in Seq(Seq(Byte)), Len(items) = c,
         \A i \in 1..c : items[i] = Field(s, i)
  PROVE  EncodedSize(items) = Len(s) /\ Fits(Len(s))
<1> DEFINE n == NumberSize
           o == Offsets(s)
           at == [i \in 0..c |-> o[i + 1] - o[1]]
<1>1. c \in Nat \ {0} /\ n \in Nat \ {0} /\ Len(s) \in Nat
  BY HeadHolds, LayoutAssumption
<1>2. o[1] = (c + 1) * n
  <2>1. TableIsValid(s, c, FALSE)
    <3>1. FieldCountMatches(s, c, FALSE)
      BY <1>1 DEF FieldCountMatches
    <3> QED
      BY <3>1 DEF TableIsValid
  <2> QED
    BY <1>1, <2>1, SameOffsets
<1>3. o[c + 1] = Len(s)
  BY <1>1 DEF Offsets
<1>4. \A i \in 1..(c + 1) : o[i] \in Nat
  BY <1>1, OffsetsInBounds
<1>5. \A i \in 1..c : Len(items[i]) = o[i + 1] - o[i]
  BY ItemIsBetween DEF Field
<1>6. Fits(Len(s))
  <2> DEFINE w == [k \in 1..n |-> s[0 + k]]
  <2>1. Unpack[w] = Len(s) /\ n <= Len(s)
    BY DEF SizeMatches, Number
  <2>2. \A k \in 1..n : 0 + k \in 1..Len(s)
    BY <1>1, <2>1
  <2>3. w \in Word
    BY <2>2 DEF Word
  <2> HIDE DEF w
  <2> QED
    BY <2>1, <2>3 DEF Fits
<1>7. items # <<>>
  BY <1>1
<1> HIDE DEF o
<1>8. /\ at[0] = 0 /\ at[c] = Len(s) - o[1]
      /\ \A i \in 1..c : at[i] = at[i - 1] + Len(items[i])
  <2>1. 0 \in 0..c /\ c \in 0..c /\ 0 + 1 = 1 /\ 1 \in 1..(c + 1)
    BY <1>1
  <2>2. at[0] = 0 /\ at[c] = Len(s) - o[1]
    BY <1>3, <1>4, <2>1
  <2>3. ASSUME NEW i \in 1..c PROVE at[i] = at[i - 1] + Len(items[i])
    <3>1. /\ i \in 0..c /\ i - 1 \in 0..c /\ (i - 1) + 1 = i
          /\ i \in 1..(c + 1) /\ i + 1 \in 1..(c + 1)
      BY <1>1
    <3>2. at[i] = o[i + 1] - o[1] /\ at[i - 1] = o[i] - o[1]
      BY <3>1
    <3> HIDE DEF at
    <3>3. o[i + 1] \in Nat /\ o[i] \in Nat /\ o[1] \in Nat
      BY <1>4, <2>1, <3>1
    <3>4. Len(items[i]) = o[i + 1] - o[i]
      BY <1>5
    <3> QED
      BY <3>2, <3>3, <3>4, SMTT(30)
  <2> QED
    BY <2>2, <2>3
<1> HIDE DEF at
<1>9. PlacedAt(FlattenSeq(items), items, at)
  BY <1>7, <1>8, FlattenPlaces
<1>10. Len(FlattenSeq(items)) = Len(s) - o[1]
  BY <1>8, <1>9 DEF PlacedAt
<1>11. o[1] \in Nat /\ Len(s) \in Nat /\ o[1] = n * (c + 1)
  <2>1. 1 \in 1..(c + 1)
    BY <1>1
  <2>2. (c + 1) * n = n * (c + 1)
    BY <1>1
  <2> QED
    BY <1>1, <1>2, <1>4, <2>1, <2>2
<1>12. EncodedSize(items) = o[1] + (Len(s) - o[1])
  <2>1. EncodedSize(items) = n * (c + 1) + Len(FlattenSeq(items))
    BY DEF EncodedSize
  <2> HIDE DEF n
  <2> QED
    BY <1>10, <1>11, <2>1
<1>13. EncodedSize(items) = Len(s)
  BY <1>11, <1>12
<1> QED
  BY <1>6, <1>13

\* A verified table is what the builder writes of its fields.
THEOREM TableIsItsFields ==
  ASSUME NEW s \in Seq(Byte), SizeMatches(s), HeadMatches(s), Ascending(s)
  PROVE  s = Encode([i \in 1..FieldCount(s) |-> Field(s, i)])
<1> DEFINE c == FieldCount(s)
           items == [i \in 1..c |-> Field(s, i)]
           t == Encode(items)
<1>1. c \in Nat \ {0}
  BY HeadHolds
<1>2. \A i \in 1..c : Field(s, i) \in Seq(Byte)
  BY ItemIsBetween DEF Field
<1>3. items \in Seq(Seq(Byte)) /\ Len(items) = c /\ \A i \in 1..c : items[i] = Field(s, i)
  <2> HIDE DEF c
  <2> QED
    BY <1>1, <1>2
<1> HIDE DEF items
<1>4. EncodedSize(items) = Len(s) /\ Fits(Len(s))
  BY <1>3, FieldsFit
<1>5. items # <<>>
  BY <1>1, <1>3
<1>6. Holds(t, items)
  BY <1>3, <1>4, <1>5, EncodingIsRead
<1>7. TableIsValid(s, c, FALSE)
  BY <1>1 DEF TableIsValid, FieldCountMatches
<1> HIDE DEF t
<1>8. t \in Seq(Byte) /\ TableIsValid(t, c, FALSE)
  <2>1. FieldCountMatches(t, c, FALSE)
    BY <1>1, <1>3, <1>6 DEF Holds, FieldCountMatches
  <2> QED
    BY <1>6, <2>1 DEF Holds, TableIsValid
<1>9. \A i \in 1..c : Field(s, i) = Field(t, i)
  BY <1>3, <1>6 DEF Holds
<1>10. s = t
  <2> HIDE DEF c
  <2> QED
    BY <1>1, <1>7, <1>8, <1>9, SameFieldsSameBytes
<1> QED
  BY <1>10 DEF t, items

\* The encoding of no items is a total size, that of itself.
LEMMA EncodeNothing ==
  ASSUME NEW w \in Word, Unpack[w] = NumberSize
  PROVE  Encode(<<>>) = w
<1> DEFINE none == <<>>
<1>1. none \in Seq(Seq(Byte)) /\ Len(none) = 0
  OBVIOUS
<1> HIDE DEF none
<1>2. PICK end : Ends(none, end, 0) /\ Encode(none) = FlattenSeq(Parts(none, end))
  BY <1>1, EncodeIsParts
<1>3. NumberSize \in Nat
  BY LayoutAssumption
<1>4. end[0] = NumberSize
  <2>1. end[0] = NumberSize * (0 + 1)
    BY <1>1, <1>2 DEF Ends
  <2>2. NumberSize * (0 + 1) = NumberSize
    BY <1>3
  <2> QED
    BY <2>1, <2>2
<1>5. Pack[NumberSize] = w
  BY LayoutAssumption
<1>6. Fits(end[0])
  BY <1>4 DEF Fits
<1> DEFINE s == Encode(none)
<1>7. s \in Seq(Byte) /\ Len(s) = NumberSize /\ \A k \in 1..NumberSize : s[k] = w[k]
  <2> DEFINE flat == FlattenSeq(Parts(none, end))
  <2>1. PICK c \in Nat : c = 0
    OBVIOUS
  <2>2. /\ flat \in Seq(Byte) /\ Len(flat) = end[c]
        /\ \A k \in 1..NumberSize : flat[k] = Pack[end[c]][k]
    <3>1. c = Len(none) /\ Ends(none, end, c) /\ Fits(end[c])
      BY <1>1, <1>2, <1>6, <2>1
    <3>2. none \in Seq(Seq(Byte))
      BY <1>1
    <3>3. Places(flat, none, end, c)
      BY <3>1, <3>2, EncodePlaces
    <3> QED
      BY <3>3 DEF Places
  <2> HIDE DEF flat
  <2>3. s = flat
    BY <1>2 DEF flat
  <2> HIDE DEF s
  <2> QED
    BY <1>4, <1>5, <2>1, <2>2, <2>3
<1>8. w \in Seq(Byte) /\ Len(w) = NumberSize
  BY WordIsBytes
<1> HIDE DEF s
<1>9. s = w
  BY <1>7, <1>8, SeqEqual
<1> QED
  BY <1>9 DEF s, none

\* A verified vector is what the builder writes of its items.
THEOREM VectorIsItsItems ==
  ASSUME NEW s \in Seq(Byte), OffsetsAreValid(s)
  PROVE  s = Encode(ItemsOf(s))
<1>1. SizeMatches(s) /\ Len(s) \in Nat /\ NumberSize \in Nat
  BY LayoutAssumption DEF OffsetsAreValid
<1>2. CASE Len(s) = NumberSize
  <2>1. ItemCount(s) = 0
    BY <1>2, VectorHolds
  <2>2. ItemsOf(s) = <<>>
    BY <2>1 DEF ItemsOf
  <2> DEFINE w == [k \in 1..NumberSize |-> s[0 + k]]
  <2>3. Unpack[w] = NumberSize
    BY <1>1, <1>2 DEF SizeMatches, Number
  <2>4. \A k \in 1..NumberSize : 0 + k = k /\ k \in 1..Len(s)
    BY <1>1, <1>2
  <2>5. w \in Word /\ \A k \in 1..NumberSize : w[k] = s[k]
    BY <2>4 DEF Word
  <2> HIDE DEF w
  <2>6. w \in Seq(Byte) /\ Len(w) = NumberSize
    BY <2>5, WordIsBytes
  <2>7. \A k \in 1..Len(s) : s[k] = w[k]
    BY <1>2, <2>5
  <2>8. s = w
    BY <1>2, <2>6, <2>7, SeqEqual
  <2>9. Encode(<<>>) = w
    BY <2>3, <2>5, EncodeNothing
  <2> QED
    BY <2>2, <2>8, <2>9
<1>3. CASE Len(s) # NumberSize
  <2>1. HeadMatches(s) /\ Ascending(s) /\ ItemCount(s) = FieldCount(s)
    BY <1>3, VectorHolds DEF OffsetsAreValid
  <2>2. s = Encode([i \in 1..FieldCount(s) |-> Field(s, i)])
    BY <1>1, <2>1, TableIsItsFields
  <2>3. ItemsOf(s) = [i \in 1..FieldCount(s) |-> Field(s, i)]
    BY <2>1 DEF ItemsOf, Field
  <2> QED
    BY <2>2, <2>3
<1> QED
  BY <1>2, <1>3
\* What fits into a number if a total size does.
LEMMA FitsWithin ==
  ASSUME NEW items \in Seq(Seq(Byte)), Fit(items)
  PROVE  Fits(0) /\ Fits(NumberSize) /\ Fits(Len(items))
<1> DEFINE c == Len(items)
           n == NumberSize
           size == EncodedSize(items)
<1>1. PICK end : Ends(items, end, c)
  BY EncodeIsParts
<1>2. size = end[c] /\ size \in Nat
  BY <1>1, SizeIsEnd
<1>3. end[0] <= end[c] /\ end[0] \in Nat
  <2>1. c \in 0..c /\ 0 \in 0..c
    OBVIOUS
  <2> QED
    BY <1>1, <2>1, EndsStart, EndsType
<1>4. n \in Nat \ {0} /\ c \in Nat
  BY LayoutAssumption
<1>5. end[0] = n * (c + 1)
  BY <1>1 DEF Ends
<1> HIDE DEF c, size, n
<1>6. n <= end[0] /\ c <= end[0]
  <2>1. 1 * (c + 1) <= n * (c + 1)
    <3>1. 1 \in Nat /\ c + 1 \in Nat /\ n \in Nat /\ 1 <= n
      BY <1>4
    <3>2. PICK one \in Nat, k \in Nat : one = 1 /\ k = c + 1
      BY <3>1
    <3>3. one * k <= n * k
      BY <3>1, <3>2, Products
    <3> QED
      BY <3>2, <3>3
  <2>2. 1 * n <= (c + 1) * n
    BY <1>4, Products
  <2>3. n * (c + 1) = (c + 1) * n /\ 1 * (c + 1) = c + 1 /\ 1 * n = n
    BY <1>4
  <2>4. PICK e : e = end[0]
    OBVIOUS
  <2>5. e = n * (c + 1) /\ e \in Nat
    BY <1>3, <1>5, <2>4
  <2>6. c + 1 <= e /\ n <= e
    BY <2>1, <2>2, <2>3, <2>5
  <2> QED
    BY <1>4, <2>4, <2>5, <2>6
<1>7. \A m \in {0, n, c} : m \in 0..size
  BY <1>2, <1>3, <1>4, <1>6
<1>8. Fits(size)
  BY DEF Fit, size
<1>9. \A m \in {0, n, c} : Fits(m)
  BY <1>2, <1>7, <1>8, SmallerFits
<1> QED
  BY <1>9 DEF n, c

\* What is read of a table that was written.
LEMMA TableReads ==
  ASSUME NEW items \in Seq(Seq(Byte)), items # <<>>, Fit(items)
  PROVE  /\ Encode(items) \in Seq(Byte)
         /\ \A compatible \in BOOLEAN : TableIsValid(Encode(items), Len(items), compatible)
         /\ \A i \in 1..Len(items) : /\ Between(Encode(items), i) = items[i]
                                     /\ Field(Encode(items), i) = items[i]
<1> DEFINE s == Encode(items)
<1>1. Holds(s, items)
  BY EncodingIsRead DEF Fit
<1>2. Len(items) \in Nat
  OBVIOUS
<1> HIDE DEF s
<1>3. \A compatible \in BOOLEAN : TableIsValid(s, Len(items), compatible)
  BY <1>1, <1>2 DEF Holds, TableIsValid, FieldCountMatches
<1>4. /\ s \in Seq(Byte)
      /\ \A i \in 1..Len(items) : Between(s, i) = items[i] /\ Field(s, i) = items[i]
  BY <1>1 DEF Holds
<1> QED
  BY <1>3, <1>4 DEF s

\* And of a vector.
LEMMA VectorReads ==
  ASSUME NEW items \in Seq(Seq(Byte)), items # <<>>, Fit(items)
  PROVE  /\ Encode(items) \in Seq(Byte)
         /\ OffsetsAreValid(Encode(items))
         /\ ItemCount(Encode(items)) = Len(items)
         /\ ItemsOf(Encode(items)) = items
         /\ ItemsIn(Encode(items)) = {items[i] : i \in 1..Len(items)}
         /\ \A i \in 1..Len(items) : Between(Encode(items), i) = items[i]
<1> DEFINE s == Encode(items)
<1>1. Holds(s, items)
  BY EncodingIsRead DEF Fit
<1> HIDE DEF s
<1>2. /\ s \in Seq(Byte) /\ SizeMatches(s) /\ HeadMatches(s) /\ Ascending(s)
      /\ FieldCount(s) = Len(items)
      /\ \A i \in 1..Len(items) : Between(s, i) = items[i] /\ Field(s, i) = items[i]
  BY <1>1 DEF Holds
<1>3. OffsetsAreValid(s)
  BY <1>2 DEF OffsetsAreValid
<1>4. Len(s) # NumberSize
  <2>1. NumberSize \in Nat \ {0} /\ Len(s) \in Nat /\ NumberSize + NumberSize <= Len(s)
    BY <1>2, LayoutAssumption DEF HeadMatches, HasNumber
  <2> QED
    BY <2>1
<1>5. ItemCount(s) = Len(items)
  BY <1>2, <1>3, <1>4, VectorHolds
<1>6. ItemsOf(s) = items
  <2>1. ItemsOf(s) = [i \in 1..Len(items) |-> Field(s, i)]
    BY <1>2, <1>5 DEF ItemsOf, Field
  <2>2. items = [i \in 1..Len(items) |-> items[i]]
    OBVIOUS
  <2>3. [i \in 1..Len(items) |-> Field(s, i)] = [i \in 1..Len(items) |-> items[i]]
    BY <1>2, Zenon
  <2> QED
    BY <2>1, <2>2, <2>3
<1>7. ItemsIn(s) = {items[i] : i \in 1..Len(items)}
  <2>1. ItemsIn(s) = {Between(s, i) : i \in 1..Len(items)}
    BY <1>2, <1>4 DEF ItemsIn
  <2> QED
    BY <1>2, <2>1
<1> QED
  BY <1>2, <1>3, <1>5, <1>6, <1>7 DEF s

\* The empty vector.
LEMMA EmptyVectorReads ==
  ASSUME Fits(NumberSize)
  PROVE  /\ Encode(<<>>) \in Seq(Byte) /\ OffsetsAreValid(Encode(<<>>))
         /\ ItemsIn(Encode(<<>>)) = {}
<1>1. PICK w \in Word : Unpack[w] = NumberSize
  BY DEF Fits
<1>2. Encode(<<>>) = w
  BY <1>1, EncodeNothing
<1>3. w \in Seq(Byte) /\ Len(w) = NumberSize /\ NumberSize \in Nat
  BY WordIsBytes, LayoutAssumption
<1>4. Number(w, 0) = NumberSize
  <2>1. [k \in 1..NumberSize |-> w[0 + k]] = w
    BY <1>3 DEF Word
  <2> QED
    BY <1>1, <2>1 DEF Number
<1>5. OffsetsAreValid(w) /\ ItemsIn(w) = {}
  BY <1>3, <1>4 DEF OffsetsAreValid, SizeMatches, ItemsIn
<1> QED
  BY <1>2, <1>3, <1>5

\* Bytes behind their number are those bytes.
LEMMA BytesRead ==
  ASSUME NEW data \in Seq(Byte), Fits(Len(data))
  PROVE  /\ BuildBytes(data) \in Seq(Byte) /\ BytesIsValid(BuildBytes(data))
         /\ RawData(BuildBytes(data)) = data
<1> DEFINE w == Pack[Len(data)]
           s == BuildBytes(data)
           m == Len(data)
           n == NumberSize
<1>1. /\ w \in Seq(Byte) /\ Len(w) = n /\ n \in Nat /\ m \in Nat
  BY PackIsUnpacked, WordIsBytes, LayoutAssumption
<1>2. /\ s \in Seq(Byte) /\ Len(s) = n + m
      /\ \A k \in 1..n : s[k] = w[k]
      /\ \A k \in 1..m : s[n + k] = data[k]
  <2> HIDE DEF w, n
  <2>1. s = w \o data
    BY DEF BuildBytes, w
  <2> HIDE DEF s
  <2>2. /\ w \o data \in Seq(Byte) /\ Len(w \o data) = Len(w) + Len(data)
        /\ \A k \in 1..Len(w) : (w \o data)[k] = w[k]
        /\ \A k \in 1..Len(data) : (w \o data)[Len(w) + k] = data[k]
    <3>1. w \in Seq(Byte) /\ data \in Seq(Byte)
      BY <1>1
    <3> HIDE DEF m
    <3> QED
      BY ONLY <3>1, Concatenated
  <2> QED
    BY <1>1, <2>1, <2>2
<1>3. Number(s, 0) = m
  <2>1. PICK place \in Nat : place = 0
    OBVIOUS
  <2>2. \A k \in 1..n : place + k = k
    BY <1>1, <2>1
  <2> HIDE DEF s
  <2>3. \A k \in 1..n : s[place + k] = w[k]
    BY <1>2, <2>2
  <2>4. Number(s, place) = m
    BY <1>2, <2>3, NumberOf
  <2> QED
    BY <2>1, <2>4
<1> HIDE DEF s, w
<1>4. BytesIsValid(s)
  BY <1>1, <1>2, <1>3 DEF BytesIsValid, FixVecIsValid
<1>5. RawData(s) = data
  <2> DEFINE u == SubSeq(s, n + 1, n + m)
  <2> HIDE DEF n, m
  <2>1. RawData(s) = u
    BY <1>2 DEF RawData, Bytes, n
  <2>2. n + m \in Nat /\ n <= n + m /\ n + m <= Len(s) /\ (n + m) - n = m
    BY <1>1, <1>2
  <2>3. Len(u) = (n + m) - n /\ \A k \in 1..((n + m) - n) : u[k] = s[n + k]
    BY <1>1, <1>2, <2>2, BytesOf
  <2>4. u \in Seq(Byte)
    BY <1>1, <1>2, <2>2
  <2> HIDE DEF u
  <2>5. Len(u) = Len(data) /\ \A k \in 1..Len(u) : u[k] = data[k]
    BY <1>2, <2>2, <2>3 DEF m
  <2>6. u = data
    BY <2>4, <2>5, SeqEqual
  <2> QED
    BY <2>1, <2>6
<1> QED
  BY <1>2, <1>4, <1>5 DEF s

\* A vector of items of one size is verified where it was written.
LEMMA FixVecReads ==
  ASSUME NEW items \in Seq(Seq(Byte)), NEW size \in Nat, Fits(Len(items)),
         \A i \in 1..Len(items) : Len(items[i]) = size
  PROVE  EncodeFix(items) \in Seq(Byte) /\ FixVecIsValid(EncodeFix(items), size)
<1> DEFINE c == Len(items)
           n == NumberSize
           w == Pack[c]
           parts == <<w>> \o items
           s == FlattenSeq(parts)
           at == [i \in 0..(c + 1) |-> IF i = 0 THEN 0 ELSE n + (i - 1) * size]
<1>0. PICK T : T = Seq(Byte)
  OBVIOUS
<1>1. w \in Seq(Byte) /\ Len(w) = n /\ n \in Nat /\ c \in Nat
  BY PackIsUnpacked, WordIsBytes, LayoutAssumption
<1> HIDE DEF w, n, c
<1>2. /\ parts \in Seq(Seq(Byte)) /\ Len(parts) = c + 1 /\ parts[1] = w
      /\ \A i \in 1..c : parts[1 + i] = items[i]
  <2>1. <<w>> \in Seq(T) /\ items \in Seq(T) /\ Len(<<w>>) = 1 /\ Len(items) = c
        /\ <<w>>[1] = w
    BY <1>0, <1>1 DEF c
  <2>2. /\ parts \in Seq(T) /\ Len(parts) = Len(<<w>>) + Len(items)
        /\ \A k \in 1..Len(<<w>>) : parts[k] = <<w>>[k]
        /\ \A k \in 1..Len(items) : parts[Len(<<w>>) + k] = items[k]
    BY <2>1, Concatenated
  <2> HIDE DEF parts
  <2>3. 1 \in 1..1 /\ 1 + c = c + 1
    BY <1>1
  <2> QED
    BY <1>0, <1>1, <2>1, <2>2, <2>3
<1> HIDE DEF parts
<1>3. \A i \in 1..c : Len(items[i]) = size
  BY DEF c
<1>4. at[0] = 0 /\ at[c + 1] = n + c * size /\ \A i \in 1..(c + 1) : at[i] = n + (i - 1) * size
  <2>1. 0 \in 0..(c + 1) /\ c + 1 \in 0..(c + 1) /\ c + 1 # 0 /\ (c + 1) - 1 = c
        /\ \A i \in 1..(c + 1) : i \in 0..(c + 1) /\ i # 0
    BY <1>1
  <2> QED
    BY <2>1
<1>5. \A i \in 1..(c + 1) : at[i] = at[i - 1] + Len(parts[i])
  <2> SUFFICES ASSUME NEW i \in 1..(c + 1) PROVE at[i] = at[i - 1] + Len(parts[i])
    OBVIOUS
  <2> HIDE DEF at
  <2>1. CASE i = 1
    <3>1. at[1] = n + (1 - 1) * size /\ 1 - 1 = 0 /\ 0 * size = 0
      BY <1>1, <1>4, <2>1
    <3>2. at[1] = n
      BY <1>1, <3>1
    <3> QED
      BY <1>1, <1>2, <1>4, <2>1, <3>1, <3>2
  <2>2. CASE i # 1
    <3>1. i - 1 \in 1..c /\ 1 + (i - 1) = i /\ i - 1 \in 1..(c + 1)
      BY <1>1, <2>2
    <3>2. PICK j \in 1..c : j = i - 1
      BY <3>1
    <3>3. at[i] = n + j * size /\ at[j] = n + (j - 1) * size
      BY <1>4, <3>1, <3>2
    <3>4. parts[i] = items[j]
      BY <1>2, <3>1, <3>2
    <3>5. j * size = (j - 1) * size + size /\ (j - 1) * size \in Int
      BY <3>2
    <3>6. Len(parts[i]) = size
      BY <1>3, <3>4
    <3>7. at[i] = at[j] + size
      <4>1. PICK a \in Int, b \in Int : a = j * size /\ b = (j - 1) * size
        BY <3>5
      <4>2. at[i] = n + a /\ at[j] = n + b /\ a = b + size
        BY <3>3, <3>5, <4>1
      <4> QED
        BY <1>1, <4>2
    <3> QED
      BY <3>2, <3>6, <3>7
  <2> QED
    BY <2>1, <2>2
<1> HIDE DEF at
<1>6. s \in Seq(Byte) /\ PlacedAt(s, parts, at)
  <2>1. parts # <<>>
    BY <1>1, <1>2
  <2>2. \A i \in 1..Len(parts) : at[i] = at[i - 1] + Len(parts[i])
    BY <1>2, <1>5
  <2> QED
    BY <1>2, <1>4, <2>1, <2>2, FlattenPlaces
<1> HIDE DEF s
<1>7. /\ Len(s) = n + c * size /\ \A k \in 1..n : s[k] = w[k]
  <2>1. Len(s) = n + c * size
    BY <1>2, <1>4, <1>6 DEF PlacedAt
  <2>2. 1 \in 1..Len(parts) /\ 1 - 1 = 0
    BY <1>1, <1>2
  <2>3. \A k \in 1..n : s[at[1 - 1] + k] = w[k]
    BY <1>1, <1>2, <1>6, <2>2 DEF PlacedAt
  <2>4. \A k \in 1..n : at[1 - 1] + k = k
    BY <1>1, <1>4, <2>2
  <2> QED
    BY <2>1, <2>3, <2>4
<1>8. Number(s, 0) = c
  <2>1. PICK place \in Nat : place = 0
    OBVIOUS
  <2>2. \A k \in 1..NumberSize : s[place + k] = Pack[c][k]
    <3>1. \A k \in 1..n : place + k = k
      BY <1>1, <2>1
    <3>2. \A k \in 1..n : s[place + k] = w[k]
      BY <1>7, <3>1
    <3> QED
      BY <3>2 DEF n, w
  <2>3. Fits(c)
    BY DEF c
  <2>4. Number(s, place) = c
    BY <1>6, <2>2, <2>3, NumberOf
  <2> QED
    BY <2>1, <2>4
<1>9. Len(s) >= NumberSize
  <2>1. c * size \in Nat
    BY <1>1
  <2>2. PICK a \in Nat : a = c * size
    BY <2>1
  <2>3. Len(s) = n + a
    BY <1>7, <2>2
  <2> QED
    BY <1>1, <2>3 DEF n
<1>10. FixVecIsValid(s, size)
  BY <1>7, <1>8, <1>9 DEF FixVecIsValid, n
<1>11. EncodeFix(items) = s
  BY DEF EncodeFix, s, parts, w, c
<1> QED
  BY <1>6, <1>10, <1>11
=============================================================================
