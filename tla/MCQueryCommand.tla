--------------------------- MODULE MCQueryCommand ---------------------------
(***************************************************************************)
(* A small instance of QueryCommand: two proposals of which one is shown,   *)
(* with a vote on each, one of which cannot be decoded.                     *)
(***************************************************************************)
EXTENDS QueryCommand, TLC

CONSTANTS p, q, u, v

MCVoteOn == (u :> p) @@ (v :> q)
=============================================================================
