--------------------------- MODULE MCVotingWindow ---------------------------
(***************************************************************************)
(* A small instance of VotingWindow: two voters with DAO cells of different *)
(* capacity, of which the last one is deposited during the window, a        *)
(* dep_group, and votes that a wallet or a hand-made transaction could      *)
(* contain.                                                                 *)
(***************************************************************************)
EXTENDS VotingWindow

CONSTANTS a1, a2, b1, b2, proposal, group, alice, bob, this, other

MCOutPoint == {a1, a2, b1, b2, proposal, group}
MCLock == {alice, bob}
MCDao == {a1, a2, b1, b2}
MCLockOf == (a1 :> alice) @@ (a2 :> alice) @@ (b1 :> bob) @@ (b2 :> bob)
MCCapacityOf == (a1 :> 1) @@ (a2 :> 2) @@ (b1 :> 2) @@ (b2 :> 1)
MCVoteType == {this, other}

\* A cell that is no dep_group resolves to itself.
MCGroupMembers == [c \in MCOutPoint |-> IF c = group THEN <<proposal, a1>> ELSE <<c>>]

MCInitLive == {a1, a2, b1, proposal, group}

Deposits == {<<c>> : c \in MCDao} \cup {<<a1, a2>>, <<b1, b2>>, <<b1, a1>>}
WithProposal == {<<proposal>> \o s : s \in Deposits}

\* dep_groups only behind the deposits, and in front of them.
MCDepLists == WithProposal \cup {<<proposal, a1, group>>}
GroupDepLists == WithProposal \cup {<<proposal, group, a1>>, <<group, a2>>}

Indices == {<<1>>, <<2>>, <<1, 2>>}

Vote(type, lock, form, vote, amount, dao_index) ==
  [type |-> type, lock |-> lock, form |-> form, vote |-> vote,
   amount |-> amount, dao_index |-> dao_index]

Votes(votes, amounts, indices) ==
  {<<Vote(this, lock, "exact", vote, amount, dao_index)>> :
     lock \in MCLock, vote \in votes, amount \in amounts, dao_index \in indices}

\* What the vote script refuses, and what the vote counter skips: an unknown
\* vote, data with further fields, no data, no deposit, an index past the end,
\* a vote for another proposal, and several vote cells in one transaction.
Odd ==
  {<<Vote(this, alice, "exact", 2, 1, <<1>>)>>,
   <<Vote(this, alice, "extended", 1, 1, <<1>>)>>,
   <<Vote(this, alice, "broken", 1, 1, <<1>>)>>,
   <<Vote(this, alice, "exact", 1, 0, <<>>)>>,
   <<Vote(this, alice, "exact", 1, 1, <<1, 9>>)>>,
   <<Vote(other, bob, "exact", 1, 4, <<1>>)>>,
   <<Vote(other, bob, "exact", 1, 4, <<1>>), Vote(this, alice, "exact", 1, 1, <<1>>)>>,
   <<Vote(this, alice, "exact", 1, 1, <<1>>), Vote(this, bob, "exact", 1, 4, <<1>>)>>}

MCOutputLists == Votes({0, 1}, 1..3, Indices) \cup Odd

\* YES votes only, where the direction makes no difference, but with repeated indices.
RepeatedOutputLists == Votes({1}, 1..4, Indices \cup {<<1, 1>>}) \cup Odd
=============================================================================
