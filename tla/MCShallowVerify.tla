-------------------------- MODULE MCShallowVerify --------------------------
(***************************************************************************)
(* ShallowVerify on valid encodings of small blocks, on what is left of     *)
(* them when one or two numbers are overwritten or bytes are cut off or     *)
(* added, on blocks with any bytes for a vector or a header of another size, *)
(* and on all slices of a few bytes.                                        *)
(***************************************************************************)
EXTENDS ShallowVerify

CONSTANTS
  Base,      \* bound: how many values a byte has
  ShortSize, \* bound: the length up to which all slices are tried
  FieldByte, \* bound: the values of the bytes of an arbitrary vector in a block
  FieldSize, \* bound: and its length
  Numbers    \* bound: the numbers that are written over others

MCByte == 0..(Base - 1)
MCNumberSize == 2
MCUnpack == [w \in [1..2 -> MCByte] |-> w[1] + Base * w[2]]

MCPack == [n \in 0..(Base * Base - 1) |-> <<n % Base, n \div Base>>]

HeaderBytes == [i \in 1..HeaderSize |-> 1]
Block(uncles, transactions, ids) ==
  [header |-> HeaderBytes, uncles |-> uncles, transactions |-> transactions, ids |-> ids,
   more |-> <<>>]
BlockV1(transactions) == [Block(<<>>, transactions, <<>>) EXCEPT !.more = <<<<3>>>>]

\* A transaction and an uncle as the full verification wants them.
RawBytes == Encode(<<<<>>, <<>>, <<>>, <<>>, <<>>, Encode(<<BuildBytes(<<>>)>>)>>)
Transaction == Encode(<<RawBytes, Encode(<<>>)>>)
Uncle == Encode(<<HeaderBytes, EncodeFix(<<>>)>>)
WholeBlock == Block(<<>>, <<Transaction>>, <<>>)

Blocks ==
  {Block(<<>>, <<>>, <<>>), Block(<<>>, <<<<2>>>>, <<<<3>>>>),
   Block(<<<<2>>>>, <<<<>>, <<2>>>>, <<>>), BlockV1(<<<<2>>>>)}

MCWritten ==
  BoundedSeq(Blocks, 2)
    \cup {<<WholeBlock>>, <<Block(<<Uncle>>, <<>>, <<>>)>>, <<BlockV1(<<Transaction>>)>>}

\* Every slice that differs from one of these in up to two numbers is tried.
Overwrite(s, at, n) == [k \in DOMAIN s |-> IF k = at + 1 THEN n % Base
                                           ELSE IF k = at + 2 THEN n \div Base ELSE s[k]]
Places(s) == {2 * k : k \in 0..(Len(s) \div 2 - 1)}
Overwritten(s) ==
  {Overwrite(Overwrite(s, a, n), b, m) :
     a \in Places(s), b \in Places(s), n \in Numbers, m \in Numbers}

Cut(s) == {SubSeq(s, 1, n) : n \in 0..Len(s)} \cup {Append(s, b) : b \in MCByte}

\* One block, well-formed but for its header or its transactions.
BlockOf(header, transactions) ==
  Encode(<<Encode(<<header, Encode(<<>>), transactions, EncodeFix(<<>>)>>)>>)
OneFieldAtWill ==
  {BlockOf(HeaderBytes, v) : v \in BoundedSeq(FieldByte, FieldSize)}
    \cup {BlockOf(h, Encode(<<>>)) : h \in BoundedSeq({1}, HeaderSize + 1)}

MCInputs ==
  Encodings
    \cup UNION {Cut(s) : s \in Encodings}
    \cup Overwritten(BuildBlocks(<<Block(<<>>, <<<<2>>>>, <<>>)>>))
    \cup {Overwrite(BuildBlocks(<<WholeBlock>>), a, n) :
            a \in Places(BuildBlocks(<<WholeBlock>>)), n \in Numbers}
    \cup OneFieldAtWill
    \cup BoundedSeq(MCByte, ShortSize)
=============================================================================
