----------------------------- MODULE VoteScript -----------------------------
(***************************************************************************)
(* The vote type script: contracts/vote-type-script/src/main.rs.  It runs   *)
(* once for a transaction that has vote cells of this proposal among its    *)
(* inputs or its outputs, and rejects the transaction unless run() is Ok.   *)
(***************************************************************************)
EXTENDS CkbTx

\* Source::GroupOutput: the outputs that carry this vote type script.
GroupOutput(tx) == {j \in DOMAIN tx.outputs : tx.outputs[j].type = ThisVote}

ProposalFound(tx) == ProposalCell \in ToSet(ResolvedDeps(tx))

\* Mutant: the lock of the deposit is not compared with that of the vote cell.
IsDaoDepOfAnyone(tx, i, lock) ==
  i + 1 \in DOMAIN ResolvedDeps(tx) /\ ResolvedDeps(tx)[i + 1] \in Dao

\* One entry of dao_index names a DAO cell of the voter: the index exists, the
\* cell has the lock of the vote cell and the Nervos DAO as its type script.
IsDaoDep(tx, i, lock) ==
  /\ i + 1 \in DOMAIN ResolvedDeps(tx)
  /\ LET cell == ResolvedDeps(tx)[i + 1]
     IN  cell \in Dao /\ LockOf[cell] = lock

SaturatingAdd(a, b) == IF a + b > U64Max THEN U64Max ELSE a + b

TotalCapacity(tx, dao_index) ==
  FoldLeft(LAMBDA sum, i : SaturatingAdd(sum, CapacityOf[ResolvedDeps(tx)[i + 1]]),
           0, dao_index)

\* Creation of a vote cell, the second half of run().
CastIsValid(tx, v) ==
  /\ ProposalFound(tx)
  /\ v.form = "exact"
  /\ v.vote \in {0, 1}
  /\ v.lock \in InputLocks(tx)
  /\ \A k \in DOMAIN v.dao_index : IsDaoDep(tx, v.dao_index[k], v.lock)
  /\ v.dao_index # <<>>
  /\ TotalCapacity(tx, v.dao_index) # 0
  /\ TotalCapacity(tx, v.dao_index) = v.amount

\* Mutant: MultipleVoteOutputs is not an error and the first one is checked.
AcceptsFirstOutput(tx) ==
  \A j \in GroupOutput(tx) :
    (\A k \in GroupOutput(tx) : j <= k) => CastIsValid(tx, tx.outputs[j])

\* run(): no vote output recycles a vote cell and is always allowed, more than
\* one is MultipleVoteOutputs.
VoteScriptAccepts(tx) ==
  \/ GroupOutput(tx) = {}
  \/ \E j \in GroupOutput(tx) :
        /\ GroupOutput(tx) = {j}
        /\ CastIsValid(tx, tx.outputs[j])
=============================================================================
