---------------------------- MODULE MCSettlement ----------------------------
(***************************************************************************)
(* A small instance of Settlement: a proposal for the guest program and one *)
(* that was created with the verifying key of another program, whose proofs *)
(* claim anything.                                                         *)
(***************************************************************************)
EXTENDS Settlement, TLC

CONSTANTS p, q, guest, foreign

MCVk == (p :> guest) @@ (q :> foreign)

YesForged == {[kind |-> "yes", proposal |-> p]}
=============================================================================
