----------------------------- MODULE CountVote -----------------------------
(***************************************************************************)
(* count_vote of crates/verification/src/lib.rs: the part of the guest      *)
(* program that replays the transactions of the voting window over two maps *)
(* and tallies the votes that are left.                                     *)
(*                                                                          *)
(* A map of the code is a function on all keys, with None where the         *)
(* BTreeMap has no entry.                                                   *)
(***************************************************************************)
EXTENDS CkbTx, FiniteSetsExt

CONSTANTS
  MinimalRequirement,  \* Proposal.minimal_requirement, in CKBytes
  ShannonPerCkb        \* 100_000_000

ASSUME RequirementAssumption ==
  MinimalRequirement \in Nat /\ ShannonPerCkb \in Nat

Ballot == [direction: 0..255, amount: 0..U64Max]

ASSUME NoneIsNoBallot == None \notin Ballot

(***************************************************************************)
(* Inputs first: spending a registered deposit removes its entry and the    *)
(* vote of the voter it belongs to.                                         *)
(***************************************************************************)
\* The voters whose vote the inputs of tx invalidate.
Invalidated(tx, owners) == {owners[c] : c \in tx.inputs} \ {None}

\* Mutants: the entry is read but not removed; the vote is not removed with it.
OwnersKept(tx, owners) == owners
VotesKept(tx, owners, votes) == votes

OwnersAfterInputs(tx, owners) ==
  [c \in OutPoint |-> IF c \in tx.inputs THEN None ELSE owners[c]]

VotesAfterInputs(tx, owners, votes) ==
  [v \in Lock |-> IF v \in Invalidated(tx, owners) THEN None ELSE votes[v]]

(***************************************************************************)
(* Then the outputs, in order, so that a later one overwrites an earlier    *)
(* one.  The outputs that are not skipped are those with the proposal's     *)
(* vote type script and data that parses.  An index is looked up in the     *)
(* cell_deps of the raw transaction; one past the end is ignored.           *)
(***************************************************************************)
Counted(tx) ==
  {j \in DOMAIN tx.outputs :
     tx.outputs[j].type = ThisVote /\ tx.outputs[j].form # "broken"}

\* Mutant: the last of the cell_deps is taken to be past the end.
NamedButLast(tx, j) ==
  {tx.cell_deps[i + 1] :
     i \in {n \in ToSet(tx.outputs[j].dao_index) : n + 1 < Len(tx.cell_deps)}}

Named(tx, j) ==
  {tx.cell_deps[i + 1] :
     i \in {n \in ToSet(tx.outputs[j].dao_index) : n < Len(tx.cell_deps)}}

Latest(js) == CHOOSE j \in js : \A k \in js : k <= j

OwnersAfter(tx, owners) ==
  LET after == OwnersAfterInputs(tx, owners)
      naming == [c \in OutPoint |-> {j \in Counted(tx) : c \in Named(tx, j)}]
  IN  [c \in OutPoint |->
         IF naming[c] = {} THEN after[c] ELSE tx.outputs[Latest(naming[c])].lock]

VotesAfter(tx, owners, votes) ==
  LET after == VotesAfterInputs(tx, owners, votes)
      of == [v \in Lock |-> {j \in Counted(tx) : tx.outputs[j].lock = v}]
      ballot(out) == [direction |-> out.vote, amount |-> out.amount]
  IN  [v \in Lock |->
         IF of[v] = {} THEN after[v] ELSE ballot(tx.outputs[Latest(of[v])])]

(***************************************************************************)
(* The tally: direction 1 is YES, every other value NO; the sums saturate,  *)
(* and the requirement is multiplied in 64 bits without an overflow check.  *)
(***************************************************************************)
Saturate(n) == IF n \in 0..U64Max THEN n ELSE U64Max

Yes(votes) == {v \in Lock : votes[v] # None /\ votes[v].direction = 1}
No(votes)  == {v \in Lock : votes[v] # None /\ votes[v].direction # 1}

SumOf(votes, voters) == Saturate(SumFunctionOnSet([v \in voters |-> votes[v].amount], voters))

MinShannon == (MinimalRequirement * ShannonPerCkb) % (U64Max + 1)

\* Mutant: a tie passes.
PassedOnTie(yes, no) == yes >= no /\ Saturate(yes + no) > MinShannon

Passed(yes, no) == yes > no /\ Saturate(yes + no) > MinShannon

Tally(votes) ==
  LET yes == SumOf(votes, Yes(votes))
      no  == SumOf(votes, No(votes))
  IN  [yes_vote |-> yes, no_vote |-> no, passed |-> Passed(yes, no)]
=============================================================================
