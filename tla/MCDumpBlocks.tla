---------------------------- MODULE MCDumpBlocks ----------------------------
(***************************************************************************)
(* DumpBlocks with two workers and a chain that may change its branch.      *)
(***************************************************************************)
EXTENDS DumpBlocks

CONSTANTS creation, plain, transfer

MCBody == {creation, plain, transfer}
=============================================================================
