----------------------------- MODULE BallotBox -----------------------------
(***************************************************************************)
(* What the voting system promises, without transactions, scripts, indices  *)
(* or maps: stake-weighted voting with deposits that must stay put.         *)
(*                                                                          *)
(* A voter pledges unspent deposits of his own and gets a ballot that       *)
(* weighs exactly what they are worth; a later ballot replaces it.  A       *)
(* deposit stays pledged until it is retired.  Retiring a deposit is final  *)
(* and takes the ballot of the voter who pledged it out of the box.         *)
(***************************************************************************)
EXTENDS Integers, FiniteSetsExt

CONSTANTS
  Voter,     \* the voters
  Deposit,   \* the deposits
  OwnerOf,   \* the voter a deposit belongs to
  WorthOf,   \* what a deposit weighs
  Absent     \* no ballot

VARIABLES
  ballot,    \* the ballot of each voter, Absent if there is none
  pledged,   \* the deposits that each voter has pledged
  retired    \* the deposits that are gone

Worth(ds) == SumFunctionOnSet(WorthOf, ds)

BoxInit ==
  /\ ballot = [v \in Voter |-> Absent]
  /\ pledged = [v \in Voter |-> {}]
  /\ retired = {}

\* The deposits ds are retired.
Retire(ds) ==
  /\ retired' = retired \cup ds
  /\ pledged' = [v \in Voter |-> pledged[v] \ ds]
  /\ ballot' = [v \in Voter |-> IF pledged[v] \cap ds # {} THEN Absent ELSE ballot[v]]

\* ds are retired and voter casts a ballot for which he pledges ps.
CastBallot(voter, direction, ps, ds) ==
  /\ ps # {} /\ ps \cap (retired \cup ds) = {}
  /\ \A d \in ps : OwnerOf[d] = voter
  /\ retired' = retired \cup ds
  /\ pledged' = [v \in Voter |->
       IF v = voter THEN (pledged[v] \ ds) \cup ps ELSE pledged[v] \ ds]
  /\ ballot' = [v \in Voter |->
       IF v = voter THEN [direction |-> direction, amount |-> Worth(ps)]
       ELSE IF pledged[v] \cap ds # {} THEN Absent ELSE ballot[v]]

BoxNext ==
  \E ds \in SUBSET (Deposit \ retired) :
    \/ Retire(ds)
    \/ \E voter \in Voter, direction \in {0, 1}, ps \in SUBSET Deposit :
          CastBallot(voter, direction, ps, ds)

BoxSpec == BoxInit /\ [][BoxNext]_<<ballot, pledged, retired>>
=============================================================================
