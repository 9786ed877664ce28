--------------------------- MODULE MCVotingWallet ---------------------------
(***************************************************************************)
(* A small instance of VotingWallet: a voter who can deposit during the     *)
(* window and vote twice, and one who votes once.                           *)
(***************************************************************************)
EXTENDS VotingWallet

CONSTANTS a1, a2, b1, proposal, contract, lockgroup, lockcell, va1, va2, vb1,
          alice, bob, this

MCDao == {a1, a2, b1}
MCOutPoint == MCDao \cup {proposal, contract, lockgroup, lockcell, va1, va2, vb1}
MCLockOf == (a1 :> alice) @@ (a2 :> alice) @@ (b1 :> bob)
MCCapacityOf == (a1 :> 1) @@ (a2 :> 2) @@ (b1 :> 2)
MCGroupMembers == [c \in MCOutPoint |-> IF c = lockgroup THEN <<lockcell, lockcell>> ELSE <<c>>]
MCInitLive == {a1, b1, proposal, contract, lockgroup, lockcell}
MCScanOrder == <<a1, b1, a2>>
MCVoteCellsOf == (alice :> {va1, va2}) @@ (bob :> {vb1})
=============================================================================
