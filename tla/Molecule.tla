------------------------------ MODULE Molecule ------------------------------
(***************************************************************************)
(* The molecule layout that every type of crates/types/molecules has, as    *)
(* the generated readers, verifiers and builders of molecules/types.rs see   *)
(* it.                                                                      *)
(*                                                                          *)
(* A vector of items of any size is its total size, the offset of each item *)
(* and the items; a table has the same layout with fields for items.  A     *)
(* vector of items of one size is their number and the items.  Every number *)
(* takes NumberSize bytes.                                                  *)
(***************************************************************************)
EXTENDS Integers, SequencesExt

CONSTANTS
  Byte,
  NumberSize,  \* molecule::NUMBER_SIZE
  Pack,        \* pack_number: the NumberSize bytes of a number
  Unpack       \* unpack_number: the number that NumberSize bytes stand for

Word == [1..NumberSize -> Byte]

\* The numbers that fit into NumberSize bytes are those up to the largest one.
ASSUME LayoutAssumption ==
  /\ NumberSize \in Nat \ {0}
  /\ Unpack \in [Word -> Nat]
  /\ \A w \in Word : Pack[Unpack[w]] = w
  /\ \A w \in Word : \A n \in 0..Unpack[w] : \E u \in Word : Unpack[u] = n
-----------------------------------------------------------------------------
(***************************************************************************)
(* The readers.  They look only at the bytes they need, and verify nothing. *)
(***************************************************************************)
\* unpack_number(&slice[at..])
Number(s, at) == Unpack[[k \in 1..NumberSize |-> s[at + k]]]

HasNumber(s, at) == at + NumberSize <= Len(s)

\* &slice[start..end]
Bytes(s, start, end) == SubSeq(s, start + 1, end)

\* item_count of a vector.
ItemCount(s) ==
  IF Number(s, 0) = NumberSize THEN 0 ELSE (Number(s, NumberSize) \div NumberSize) - 1

Start(s, i) == Number(s, i * NumberSize)
End(s, i, count) == IF i = count THEN Len(s) ELSE Number(s, (i + 1) * NumberSize)

\* get_unchecked: item i of a table or vector with that many of them.
Item(s, i, count) == Bytes(s, Start(s, i), End(s, i, count))

\* Where it does not panic.
Readable(s, i, count) ==
  /\ HasNumber(s, i * NumberSize)
  /\ i # count => HasNumber(s, (i + 1) * NumberSize)
  /\ Start(s, i) <= End(s, i, count)
  /\ End(s, i, count) <= Len(s)

\* The number of fields of a table, by its first offset, and the accessor of
\* a field: the last one ends where the slice does unless another follows it.
FieldCount(s) == (Number(s, NumberSize) \div NumberSize) - 1
Field(s, i) == Item(s, i, FieldCount(s))

\* What is read of a vector of which the items are read.
VectorReadable(s) ==
  \A i \in 1..ItemCount(s) : Readable(s, i, ItemCount(s))

ItemsOf(s) == [i \in 1..ItemCount(s) |-> Item(s, i, ItemCount(s))]

\* get_unchecked of a vector of items of one size, and where it does not panic.
FixItem(s, i, size) ==
  Bytes(s, NumberSize + (i - 1) * size, NumberSize + i * size)
FixReadable(s, i, size) == NumberSize + i * size <= Len(s)
FixItemsOf(s, size) == [i \in 1..Number(s, 0) |-> FixItem(s, i, size)]
-----------------------------------------------------------------------------
(***************************************************************************)
(* The verification.                                                        *)
(***************************************************************************)
\* TotalSizeNotMatch and the HeaderIsBroken before it.
SizeMatches(s) == Len(s) >= NumberSize /\ Number(s, 0) = Len(s)

\* Mutant: only the number of bytes in front of the first item is checked.
UnalignedHead(s) ==
  /\ HasNumber(s, NumberSize)
  /\ Number(s, NumberSize) >= 2 * NumberSize
  /\ Number(s, NumberSize) <= Len(s)

\* The first offset ends a whole number of offsets, at least one, in the slice.
HeadMatches(s) ==
  /\ HasNumber(s, NumberSize)
  /\ Number(s, NumberSize) % NumberSize = 0
  /\ Number(s, NumberSize) >= 2 * NumberSize
  /\ Number(s, NumberSize) <= Len(s)

\* The offsets, with the total size behind the last of them.
Offsets(s) ==
  [i \in 1..(FieldCount(s) + 1) |-> IF i > FieldCount(s) THEN Len(s) ELSE Start(s, i)]

\* offsets.windows(2).any(|i| i[0] > i[1]) is false.
Ascending(s) == \A i \in 1..FieldCount(s) : Offsets(s)[i] <= Offsets(s)[i + 1]

\* What is between two neighbours of the offsets.
Between(s, i) == Bytes(s, Offsets(s)[i], Offsets(s)[i + 1])

\* A vector, but for its items.
OffsetsAreValid(s) ==
  /\ SizeMatches(s)
  /\ Len(s) = NumberSize \/ (HeadMatches(s) /\ Ascending(s))

\* Mutant: fields behind the known ones are always let through.
AnyMoreFields(s, count, compatible) == FieldCount(s) >= count

\* Mutant: compatible asks for no more fields.
CompatibleIsStrict(s, count, compatible) ==
  /\ FieldCount(s) >= count
  /\ compatible => FieldCount(s) = count

\* FieldCountNotMatch does not happen.
FieldCountMatches(s, count, compatible) ==
  /\ FieldCount(s) >= count
  /\ ~compatible => FieldCount(s) = count

\* A table with count known fields, but for the fields.
TableIsValid(s, count, compatible) ==
  /\ SizeMatches(s)
  /\ HeadMatches(s)
  /\ FieldCountMatches(s, count, compatible)
  /\ Ascending(s)

\* A vector of items of one size.
FixVecIsValid(s, size) == Len(s) >= NumberSize /\ Len(s) = NumberSize + Number(s, 0) * size
-----------------------------------------------------------------------------
(***************************************************************************)
(* The builders.                                                            *)
(***************************************************************************)
\* write of a table or vector: the total size, the offsets, the items.
Encode(items) ==
  LET end[i \in 0..Len(items)] ==
        IF i = 0 THEN NumberSize * (Len(items) + 1) ELSE end[i - 1] + Len(items[i])
  IN  FlattenSeq(<<Pack[end[Len(items)]]>>
                   \o [i \in 1..Len(items) |-> Pack[end[i - 1]]]
                   \o items)

\* write of a vector of items of one size.
EncodeFix(items) == FlattenSeq(<<Pack[Len(items)]>> \o items)

\* The numbers that NumberSize bytes can hold, and the tables and vectors whose
\* total size is one of them.
Fits(n) == \E w \in Word : Unpack[w] = n

EncodedSize(items) == NumberSize * (Len(items) + 1) + Len(FlattenSeq(items))

Fit(items) == Fits(EncodedSize(items))
=============================================================================
