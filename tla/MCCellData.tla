----------------------------- MODULE MCCellData -----------------------------
(***************************************************************************)
(* CellData with encodings of proposals and votes, with encodings that have *)
(* a field more, at the end or in a nested table, and with what is left of  *)
(* an encoding when one or two numbers in it are overwritten.               *)
(***************************************************************************)
EXTENDS CellData

CONSTANTS
  Base,     \* bound: how many values a byte has
  Numbers   \* bound: the numbers that are written over others

MCByte == 0..(Base - 1)
MCPack == [n \in 0..(Base * Base - 1) |-> <<n % Base, n \div Base>>]
MCUnpack == [w \in [1..2 -> MCByte] |-> w[1] + Base * w[2]]

MCProposalScript == Encode(<<<<4>>, <<1>>, BuildBytes(<<5>>)>>)
MCStartHash == <<6>>
MCEndHash == <<7>>
MCProofBytes == <<8>>

ReceiverWith(hash_type) == Encode(<<<<2>>, <<hash_type>>, BuildBytes(<<>>)>>)
Receiver == ReceiverWith(1)
ReceiverWithMore == Encode(<<<<2>>, <<1>>, BuildBytes(<<>>), <<9>>>>)

ProposalFields(description, receiver) ==
  <<<<1>>, <<3>>, <<1>>, BuildBytes(description), receiver, <<2>>, <<1>>>>

VoteFields(v, indices) == <<<<v>>, <<3>>, BuildUint16Vec(indices)>>

\* Every slice that differs from this one in one number.
Overwrite(s, at, n) == ReplaceAt(ReplaceAt(s, at + 1, n % Base), at + 2, n \div Base)
Places(s) == {2 * k : k \in 0..(Len(s) \div 2 - 1)}
Overwritten(s) == {Overwrite(s, a, n) : a \in Places(s), n \in Numbers}

\* An encoding with bytes between the offsets and the first item.
Gapped(items, gap) ==
  LET end[i \in 0..Len(items)] ==
        IF i = 0 THEN NumberSize * (Len(items) + 1) + Len(gap) ELSE end[i - 1] + Len(items[i])
  IN  FlattenSeq(<<Pack[end[Len(items)]]>>
                   \o [i \in 1..Len(items) |-> Pack[end[i - 1]]]
                   \o <<gap>> \o items)

MCProposalData ==
  {Encode(ProposalFields(d, Receiver)) : d \in {<<>>, <<1, 2>>}}
    \cup {Encode(ProposalFields(<<>>, ReceiverWith(t))) : t \in 0..5}
    \cup {Encode(Append(ProposalFields(<<>>, Receiver), <<9>>)),
          Encode(ProposalFields(<<>>, ReceiverWithMore)),
          Gapped(ProposalFields(<<>>, Receiver), <<9>>)}
    \cup Overwritten(Encode(ProposalFields(<<>>, Receiver)))

MCVoteData ==
  {Encode(VoteFields(v, is)) : v \in {0, 1, 2}, is \in {<<>>, <<<<2>>>>, <<<<2>>, <<3>>>>}}
    \cup {Encode(Append(VoteFields(1, <<<<2>>>>), <<9>>)), Gapped(VoteFields(1, <<<<2>>>>), <<9>>)}
    \cup UNION {Overwritten(s) : s \in Overwritten(Encode(VoteFields(1, <<<<2>>>>)))}

MCAltered(w) ==
  {w, Encode(<<Field(w, 1), Field(w, 2), <<9>>>>),
   Gapped(<<Field(w, 1), Field(w, 2)>>, <<9>>), Gapped(<<Field(w, 1), Field(w, 2)>>, <<9, 9>>),
   Append(w, 9), Encode(<<BuildBytes(<<9>>), Field(w, 2)>>)}
    \cup Overwritten(w)
=============================================================================
