------------------------------- MODULE CkbTx -------------------------------
(***************************************************************************)
(* Transactions of the CKB chain as the voting scripts and the vote        *)
(* counter see them.  CKB itself is not part of the repository: this module *)
(* states the rules of the chain that src/ relies on.                       *)
(*                                                                          *)
(* A cell is named by the outpoint that created it, and the outpoint fixes  *)
(* its lock, its type and its capacity.  Scripts and hashes are compared    *)
(* only for equality, so a lock script stands for its own hash.  Only the   *)
(* cells that matter for a vote have an outpoint here; the plain cells that *)
(* pay the fee are reduced to the lock of one of them, tx.payer.            *)
(***************************************************************************)
EXTENDS Integers, SequencesExt, FiniteSets

CONSTANTS
  OutPoint,      \* the cells that a transaction of the model can name
  Lock,          \* lock scripts: the voters
  Dao,           \* the outpoints whose type script is the Nervos DAO
  ProposalCell,  \* the outpoint of the proposal cell
  LockOf,        \* the lock script of a DAO cell
  CapacityOf,    \* the capacity of a DAO cell, in shannon
  GroupMembers,  \* the outpoints a cell expands to as a dep_group; a cell that
                 \* is a dependency by itself expands to itself
  VoteType,      \* the type scripts of vote cells, one for each proposal
  ThisVote,      \* the vote type script whose args name this proposal
  U64Max,        \* the largest value of a 64-bit amount
  None           \* "no entry" in a map

ASSUME CellsAssumption ==
  /\ Dao \subseteq OutPoint
  /\ ProposalCell \in OutPoint \ Dao
  /\ LockOf \in [Dao -> Lock]
  /\ U64Max \in Nat
  /\ CapacityOf \in [Dao -> 0..U64Max]
  /\ GroupMembers \in [OutPoint -> Seq(OutPoint)]
  /\ ThisVote \in VoteType
  /\ None \notin Lock

\* Outpoints and lock hashes have a fixed number of bytes.
ASSUME FinitelyMany == IsFiniteSet(OutPoint) /\ IsFiniteSet(Lock)

(***************************************************************************)
(* The data of a vote cell.  "exact" bytes are those of a table Vote,       *)
(* "extended" bytes carry further fields behind them, "broken" bytes are no *)
(* table Vote at all.                                                       *)
(***************************************************************************)
Form == {"exact", "extended", "broken"}

VoteCell == [type: VoteType, lock: Lock, form: Form, vote: 0..255,
             amount: 0..U64Max, dao_index: Seq(Nat)]

Tx == [inputs: SUBSET OutPoint, payer: Lock, cell_deps: Seq(OutPoint),
       outputs: Seq(VoteCell), creates: SUBSET OutPoint]

\* The dependencies as a script sees them: CKB replaces each dep_group in
\* place by the cells it lists, which moves everything behind it.
ResolvedDeps(tx) ==
  FlattenSeq([k \in DOMAIN tx.cell_deps |-> GroupMembers[tx.cell_deps[k]]])

\* The lock scripts that a script finds on the inputs.
InputLocks(tx) == {tx.payer} \cup {LockOf[c] : c \in tx.inputs \cap Dao}

(***************************************************************************)
(* CKB accepts a transaction only if what it spends and what it depends on  *)
(* is live, and it lists no dependency twice.  A cell may be both spent and *)
(* depended on by the same transaction.                                     *)
(***************************************************************************)
Resolves(tx, live, spent) ==
  /\ tx.inputs \subseteq live
  /\ ToSet(tx.cell_deps) \subseteq live
  /\ IsInjective(tx.cell_deps)
  /\ ToSet(ResolvedDeps(tx)) \subseteq live
  /\ tx.creates \cap (live \cup spent) = {}
=============================================================================
