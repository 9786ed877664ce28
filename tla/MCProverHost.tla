---------------------------- MODULE MCProverHost ----------------------------
(***************************************************************************)
(* ProverHost with one proposal for the guest program of src/.             *)
(***************************************************************************)
EXTENDS ProverHost

CONSTANTS p, guest

OneVk == [r \in {p} |-> guest]
=============================================================================
