---------------------------- MODULE VotingProofs ----------------------------
(***************************************************************************)
(* Theorems about VotingWindow and VotingWallet for every value of their    *)
(* constants, and their proofs: who owns and who loses a vote, what a vote  *)
(* weighs, that the result is deserved, and that the voting window          *)
(* implements BallotBox; then, for the voters who use the SDK, that a vote  *)
(* is lost only with one of its own deposits, and that the node refuses it  *)
(* only for a cell that is gone.                                            *)
(***************************************************************************)
EXTENDS VotingWallet, FiniteSetTheorems, WellFoundedInduction, TLAPS

(***************************************************************************)
(* What the vote type script establishes about a transaction it accepts.    *)
(***************************************************************************)
\* A transaction of the model is well-typed.
LEMMA TxType ==
  ASSUME NEW inputs \in SUBSET OutPoint, NEW payer \in Lock,
         NEW deps \in DepLists \cup {<<>>}, NEW outs \in OutputLists \cup {<<>>},
         NEW creates \in SUBSET Dao
  PROVE  [inputs |-> inputs, payer |-> payer, cell_deps |-> deps,
          outputs |-> outs, creates |-> creates] \in Tx
<1>1. deps \in Seq(OutPoint)
  <2>1. <<>> \in Seq(OutPoint)
    OBVIOUS
  <2> QED
    BY <2>1, WindowAssumption, Zenon DEF WindowAssumption
<1>2. outs \in Seq(VoteCell)
  <2>1. <<>> \in Seq(VoteCell)
    OBVIOUS
  <2> QED
    BY <2>1, WindowAssumption, Zenon DEF WindowAssumption
<1>3. creates \in SUBSET OutPoint
  BY CellsAssumption DEF CellsAssumption
<1> QED
  BY <1>1, <1>2, <1>3 DEF Tx

\* Whatever the vote counter takes for a vote is the one vote cell of the
\* transaction, and the vote type script has validated it.
LEMMA CountedIsValid ==
  ASSUME NEW tx \in Tx, VoteScriptAccepts(tx), NEW j \in Counted(tx)
  PROVE  /\ Counted(tx) = {j}
         /\ GroupOutput(tx) = {j}
         /\ tx.outputs[j] \in VoteCell
         /\ CastIsValid(tx, tx.outputs[j])
<1>1. tx.outputs \in Seq(VoteCell)
  BY DEF Tx
<1>2. Counted(tx) \subseteq GroupOutput(tx)
  BY DEF Counted, GroupOutput
<1>3. PICK k \in GroupOutput(tx) : GroupOutput(tx) = {k} /\ CastIsValid(tx, tx.outputs[k])
  BY <1>2 DEF VoteScriptAccepts
<1>4. k = j
  BY <1>2, <1>3
<1>5. j \in DOMAIN tx.outputs
  BY DEF Counted
<1> QED
  BY <1>1, <1>2, <1>3, <1>4, <1>5

\* The last of a single output is that output.
LEMMA LatestOfOne ==
  ASSUME NEW j \in Int
  PROVE  Latest({j}) = j
  BY DEF Latest

\* Among the outputs that are counted, the latest one is the only one.
LEMMA LatestCounted ==
  ASSUME NEW tx \in Tx, VoteScriptAccepts(tx), NEW js \in SUBSET Counted(tx), js # {}
  PROVE  Latest(js) \in Counted(tx) /\ Counted(tx) = {Latest(js)} /\ js = {Latest(js)}
<1>1. PICK j \in js : TRUE
  OBVIOUS
<1>2. Counted(tx) = {j}
  BY CountedIsValid
<1>3. js = {j}
  BY <1>1, <1>2
<1>4. j \in Int
  BY DEF Counted, Tx
<1> QED
  BY <1>2, <1>3, <1>4, LatestOfOne

\* Every cell the script accepted behind a vote is a DAO cell of its voter.
LEMMA ScriptNamedIsOwnDao ==
  ASSUME NEW tx \in Tx, VoteScriptAccepts(tx), NEW j \in Counted(tx),
         NEW c \in ScriptNamed(tx, j)
  PROVE  c \in Dao /\ LockOf[c] = tx.outputs[j].lock
<1>1. CastIsValid(tx, tx.outputs[j])
  BY CountedIsValid
<1>2. PICK i \in ToSet(tx.outputs[j].dao_index) : Resolved(tx, i) /\ c = ResolvedDeps(tx)[i + 1]
  BY DEF ScriptNamed
<1>3. PICK k \in DOMAIN tx.outputs[j].dao_index : i = tx.outputs[j].dao_index[k]
  BY <1>2 DEF ToSet
<1>4. IsDaoDep(tx, i, tx.outputs[j].lock)
  BY <1>1, <1>3 DEF CastIsValid
<1> QED
  BY <1>2, <1>4 DEF IsDaoDep

(***************************************************************************)
(* Type correctness.                                                        *)
(***************************************************************************)
\* What count_vote puts into Map for a vote cell is a voter and a ballot.
LEMMA BallotType ==
  ASSUME NEW v \in VoteCell
  PROVE  /\ v.lock \in Lock
         /\ [direction |-> v.vote, amount |-> v.amount] \in Ballot
  BY DEF VoteCell, Ballot

\* The two maps keep their types when a transaction is replayed.
LEMMA MapsType ==
  ASSUME NEW tx \in Tx, VoteScriptAccepts(tx),
         NEW owners \in [OutPoint -> Lock \cup {None}],
         NEW votes \in [Lock -> Ballot \cup {None}]
  PROVE  /\ OwnersAfter(tx, owners) \in [OutPoint -> Lock \cup {None}]
         /\ VotesAfter(tx, owners, votes) \in [Lock -> Ballot \cup {None}]
<1>1. \A js \in SUBSET Counted(tx) : js # {} => tx.outputs[Latest(js)] \in VoteCell
  BY LatestCounted, CountedIsValid
<1>2. OwnersAfter(tx, owners) \in [OutPoint -> Lock \cup {None}]
  <2>1. OwnersAfterInputs(tx, owners) \in [OutPoint -> Lock \cup {None}]
    BY DEF OwnersAfterInputs
  <2> QED
    BY <2>1, <1>1, BallotType DEF OwnersAfter
<1>3. VotesAfter(tx, owners, votes) \in [Lock -> Ballot \cup {None}]
  <2>1. VotesAfterInputs(tx, owners, votes) \in [Lock -> Ballot \cup {None}]
    BY DEF VotesAfterInputs
  <2> QED
    BY <2>1, <1>1, BallotType DEF VotesAfter
<1> QED
  BY <1>2, <1>3

\* Both actions that touch the ledger commit one well-typed transaction.
LEMMA CommitStep ==
  ASSUME TypeOK, Cast \/ MoveDeposits
  PROVE  \E tx \in Tx : Commit(tx)
<1>1. CASE Cast
  <2>1. PICK inputs \in SUBSET (live \cap Dao), deps \in DepLists,
             outs \in OutputLists, payer \in Lock :
          Commit([inputs |-> inputs, payer |-> payer, cell_deps |-> deps,
                  outputs |-> outs, creates |-> {}])
    BY <1>1 DEF Cast
  <2>2. inputs \in SUBSET OutPoint
    BY DEF TypeOK
  <2> QED
    BY <2>1, <2>2, TxType
<1>2. CASE MoveDeposits
  <2>1. PICK inputs \in SUBSET (live \cap Dao), creates \in SUBSET Dao, payer \in Lock :
          Commit([inputs |-> inputs, payer |-> payer, cell_deps |-> <<>>,
                  outputs |-> <<>>, creates |-> creates])
    BY <1>2 DEF MoveDeposits
  <2>2. inputs \in SUBSET OutPoint
    BY DEF TypeOK
  <2> QED
    BY <2>1, <2>2, TxType
<1> QED
  BY <1>1, <1>2

\* Committing a transaction keeps every variable in its type.
LEMMA CommitTypeOK ==
  ASSUME TypeOK, NEW tx \in Tx, Commit(tx)
  PROVE  TypeOK'
<1>1. live' \subseteq OutPoint /\ spent' \subseteq OutPoint
  BY DEF Commit, TypeOK, Tx
<1>2. /\ vote_map' \in [Lock -> Ballot \cup {None}]
      /\ dao_outpoint_to_voter' \in [OutPoint -> Lock \cup {None}]
  BY MapsType DEF Commit, TypeOK
<1>3. backing' \in [Lock -> SUBSET OutPoint]
  <2>1. \A j \in Counted(tx) : ScriptNamed(tx, j) \subseteq OutPoint
    BY ScriptNamedIsOwnDao, CellsAssumption DEF Commit, CellsAssumption
  <2>2. \A js \in SUBSET Counted(tx) : js # {} => ScriptNamed(tx, Latest(js)) \subseteq OutPoint
    BY <2>1, LatestCounted DEF Commit
  <2> QED
    BY <2>2 DEF Commit, TypeOK
<1> QED
  BY <1>1, <1>2, <1>3 DEF Commit, TypeOK

\* The types hold in the beginning.
LEMMA InitTypeOK == Init => TypeOK
BY WindowAssumption DEF Init, TypeOK, WindowAssumption

\* Every step keeps every variable in its type.
LEMMA StepTypeOK ==
  ASSUME TypeOK, [Next]_vars
  PROVE  TypeOK'
<1>1. CASE Cast \/ MoveDeposits
  BY <1>1, CommitStep, CommitTypeOK
<1>2. CASE NextBlock
  BY <1>2, WindowAssumption DEF NextBlock, TypeOK, WindowAssumption, ledger, maps
<1>3. CASE CloseWindow
  <2>1. result' \in [yes_vote: 0..U64Max, no_vote: 0..U64Max, passed: BOOLEAN]
    BY <1>3, CellsAssumption
    DEF CloseWindow, Tally, SumOf, Saturate, Passed, CellsAssumption
  <2> QED
    BY <1>3, <2>1 DEF CloseWindow, TypeOK, ledger, maps
<1>4. CASE UNCHANGED vars
  BY <1>4 DEF vars, TypeOK, ledger, maps
<1> QED
  BY <1>1, <1>2, <1>3, <1>4 DEF Next

\* Every variable stays in its type in every behaviour of the voting window:
\* the block number within the window, the two maps of count_vote functions from
\* voters and outpoints, the published sums within 64 bits.
THEOREM TypeCorrect == Spec => []TypeOK
BY InitTypeOK, StepTypeOK, PTL DEF Spec

(***************************************************************************)
(* The registered deposits.  No dep_group in front of a deposit is assumed: *)
(* without that the script and the vote counter look at different cells.    *)
(***************************************************************************)
\* A cell is never both live and spent: outpoints are not reused.
SpentIsGone == live \cap spent = {}

RegInv == TypeOK /\ SpentIsGone /\ OwnRegistration /\ BackingRegistered

\* The vote counter registers exactly the cells that the script validated.
LEMMA NamedIsScriptNamed ==
  ASSUME ~GroupBefore, NEW tx \in Tx, VoteScriptAccepts(tx), WellBuilt(tx),
         NEW j \in Counted(tx)
  PROVE  Named(tx, j) = ScriptNamed(tx, j)
<1>1. CastIsValid(tx, tx.outputs[j]) /\ j \in GroupOutput(tx)
  BY CountedIsValid
<1>2. \A i \in ToSet(tx.outputs[j].dao_index) : Resolved(tx, i)
  BY <1>1 DEF CastIsValid, IsDaoDep, Resolved, ToSet
<1>3. \A i \in ToSet(tx.outputs[j].dao_index) : IsDep(tx, i)
  BY <1>1, <1>2 DEF WellBuilt
<1> QED
  BY <1>2, <1>3 DEF Named, ScriptNamed, IsDep

\* How one entry of Map2 changes: a cell that the transaction's vote names gets
\* the voter, a cell that it spends otherwise gets none, and no other changes.
LEMMA OwnerOfCell ==
  ASSUME NEW tx \in Tx, VoteScriptAccepts(tx), NEW owners, NEW c \in OutPoint
  PROVE  /\ \A j \in Counted(tx) : c \in Named(tx, j) =>
              OwnersAfter(tx, owners)[c] = tx.outputs[j].lock
         /\ (\A j \in Counted(tx) : c \notin Named(tx, j)) =>
              OwnersAfter(tx, owners)[c] = IF c \in tx.inputs THEN None ELSE owners[c]
<1> DEFINE naming == {j \in Counted(tx) : c \in Named(tx, j)}
<1>1. OwnersAfter(tx, owners)[c] =
        IF naming = {} THEN OwnersAfterInputs(tx, owners)[c]
        ELSE tx.outputs[Latest(naming)].lock
  BY DEF OwnersAfter
<1>2. ASSUME NEW j \in Counted(tx), c \in Named(tx, j)
      PROVE  OwnersAfter(tx, owners)[c] = tx.outputs[j].lock
  <2>1. j \in naming
    BY <1>2
  <2>2. naming = {Latest(naming)}
    BY <2>1, LatestCounted
  <2>3. Latest(naming) = j
    BY <2>1, <2>2
  <2> QED
    BY <1>1, <2>1, <2>3
<1>3. ASSUME \A j \in Counted(tx) : c \notin Named(tx, j)
      PROVE  OwnersAfter(tx, owners)[c] = IF c \in tx.inputs THEN None ELSE owners[c]
  <2>1. naming = {}
    BY <1>3
  <2> QED
    BY <1>1, <2>1 DEF OwnersAfterInputs
<1> QED
  BY <1>2, <1>3

\* Whose vote is recorded for v after a transaction.
LEMMA VoteOfVoter ==
  ASSUME NEW tx \in Tx, VoteScriptAccepts(tx), NEW owners, NEW votes, NEW v \in Lock,
         \A j \in Counted(tx) : tx.outputs[j].lock # v
  PROVE  VotesAfter(tx, owners, votes)[v] =
           IF v \in Invalidated(tx, owners) THEN None ELSE votes[v]
  BY DEF VotesAfter, VotesAfterInputs

\* A transaction registers a deposit only for its owner.
LEMMA CommitOwnRegistration ==
  ASSUME ~GroupBefore, RegInv, NEW tx \in Tx, Commit(tx)
  PROVE  OwnRegistration'
<1> SUFFICES ASSUME NEW c \in OutPoint, dao_outpoint_to_voter'[c] # None
             PROVE  c \in Dao /\ LockOf[c] = dao_outpoint_to_voter'[c]
  BY DEF OwnRegistration
<1>1. CASE \E j \in Counted(tx) : c \in Named(tx, j)
  <2>1. PICK j \in Counted(tx) : c \in Named(tx, j)
    BY <1>1
  <2>2. dao_outpoint_to_voter'[c] = tx.outputs[j].lock
    BY <2>1, OwnerOfCell DEF Commit
  <2>3. c \in ScriptNamed(tx, j)
    BY <2>1, NamedIsScriptNamed DEF Commit
  <2> QED
    BY <2>2, <2>3, ScriptNamedIsOwnDao DEF Commit
<1>2. CASE \A j \in Counted(tx) : c \notin Named(tx, j)
  <2>1. dao_outpoint_to_voter'[c] =
          IF c \in tx.inputs THEN None ELSE dao_outpoint_to_voter[c]
    BY <1>2, OwnerOfCell DEF Commit
  <2> QED
    BY <2>1 DEF RegInv, OwnRegistration
<1> QED
  BY <1>1, <1>2

\* After a transaction the deposits behind every vote that counts are registered:
\* a new vote registers its own, and no one else can take them over.
LEMMA CommitBackingRegistered ==
  ASSUME ~GroupBefore, RegInv, NEW tx \in Tx, Commit(tx)
  PROVE  BackingRegistered'
<1> SUFFICES ASSUME NEW v \in Lock, Voted(v)', NEW c \in backing'[v]
             PROVE  dao_outpoint_to_voter'[c] = v
  BY DEF BackingRegistered
<1> DEFINE of == {j \in Counted(tx) : tx.outputs[j].lock = v}
<1>0. VoteScriptAccepts(tx) /\ WellBuilt(tx)
  BY DEF Commit
<1>1. CASE of # {}
  <2>1. backing'[v] = ScriptNamed(tx, Latest(of))
    BY <1>1 DEF Commit
  <2>2. of = {Latest(of)} /\ Latest(of) \in Counted(tx)
    BY <1>0, <1>1, LatestCounted
  <2>3. tx.outputs[Latest(of)].lock = v
    BY <2>2
  <2>4. c \in Named(tx, Latest(of)) /\ c \in OutPoint
    BY <1>0, <2>1, <2>2, NamedIsScriptNamed, ScriptNamedIsOwnDao, CellsAssumption
    DEF CellsAssumption
  <2>5. dao_outpoint_to_voter' = OwnersAfter(tx, dao_outpoint_to_voter)
    BY DEF Commit
  <2>6. PICK j \in Counted(tx) : j = Latest(of) /\ c \in Named(tx, j)
    BY <2>2, <2>4
  <2>7. OwnersAfter(tx, dao_outpoint_to_voter)[c] = tx.outputs[j].lock
    <3>1. \A d \in OutPoint : \A k \in Counted(tx) : d \in Named(tx, k) =>
            OwnersAfter(tx, dao_outpoint_to_voter)[d] = tx.outputs[k].lock
      BY <1>0, OwnerOfCell
    <3> QED
      BY <2>4, <2>6, <3>1
  <2> QED
    BY <2>3, <2>5, <2>6, <2>7
<1>2. CASE of = {}
  <2>1. /\ v \notin Invalidated(tx, dao_outpoint_to_voter)
        /\ vote_map'[v] = vote_map[v] /\ vote_map'[v] # None
    BY <1>0, <1>2, VoteOfVoter DEF Commit, Voted
  <2>2. backing'[v] = backing[v]
    BY <1>2, <2>1 DEF Commit
  <2>3. dao_outpoint_to_voter[c] = v /\ c \in OutPoint
    BY <2>1, <2>2 DEF RegInv, BackingRegistered, Voted, TypeOK
  <2>4. c \notin tx.inputs
    BY <2>1, <2>3, CellsAssumption DEF Invalidated, CellsAssumption
  <2>5. LockOf[c] = v
    BY <2>3, CellsAssumption DEF RegInv, OwnRegistration, CellsAssumption
  <2>6. \A j \in Counted(tx) : c \notin Named(tx, j)
    BY <1>0, <1>2, <2>5, NamedIsScriptNamed, ScriptNamedIsOwnDao
  <2>7. dao_outpoint_to_voter' = OwnersAfter(tx, dao_outpoint_to_voter)
    BY DEF Commit
  <2> QED
    BY <1>0, <2>3, <2>4, <2>6, <2>7, OwnerOfCell
<1> QED
  BY <1>1, <1>2

\* A transaction does not bring a spent cell back.
LEMMA CommitSpentIsGone ==
  ASSUME SpentIsGone, NEW tx \in Tx, Commit(tx)
  PROVE  SpentIsGone'
  BY DEF SpentIsGone, Commit, Resolves

\* The steps that commit nothing leave the ledger and the maps alone.
LEMMA OtherSteps ==
  ASSUME [Next]_vars, ~(Cast \/ MoveDeposits)
  PROVE  /\ UNCHANGED <<live, spent>>
         /\ UNCHANGED <<vote_map, dao_outpoint_to_voter, backing>>
  BY DEF Next, NextBlock, CloseWindow, vars, ledger, maps

\* In the beginning nothing is registered.
LEMMA InitRegInv == Init => RegInv
<1> SUFFICES ASSUME Init PROVE RegInv
  OBVIOUS
<1>1. SpentIsGone /\ OwnRegistration /\ BackingRegistered
  BY DEF Init, SpentIsGone, OwnRegistration, BackingRegistered, Voted
<1> QED
  BY <1>1, InitTypeOK DEF RegInv

\* Every step keeps the strengthened invariant.
LEMMA StepRegInv ==
  ASSUME ~GroupBefore, RegInv, [Next]_vars
  PROVE  RegInv'
<1>1. TypeOK'
  BY StepTypeOK DEF RegInv
<1>2. CASE Cast \/ MoveDeposits
  <2>1. PICK tx \in Tx : Commit(tx)
    BY <1>2, CommitStep DEF RegInv
  <2> QED
    BY <1>1, <2>1, CommitOwnRegistration, CommitBackingRegistered, CommitSpentIsGone DEF RegInv
<1>3. CASE ~(Cast \/ MoveDeposits)
  BY <1>1, <1>3, OtherSteps
  DEF RegInv, SpentIsGone, OwnRegistration, BackingRegistered, Voted
<1> QED
  BY <1>2, <1>3

\* The strengthened invariant behind the theorems on registered deposits.
LEMMA RegInvInductive ==
  ASSUME ~GroupBefore
  PROVE  Spec => []RegInv
BY InitRegInv, StepRegInv, PTL DEF Spec

\* As long as no dep_group stands in front of a deposit, Map2 registers a
\* deposit only for the voter whose lock it carries: nobody can put another
\* voter's deposit behind a vote of his own.
THEOREM RegistersOwnDeposits ==
  ASSUME ~GroupBefore
  PROVE  Spec => []OwnRegistration
<1>1. RegInv => OwnRegistration
  BY DEF RegInv
<1> QED
  BY <1>1, RegInvInductive, PTL

\* As long as no dep_group stands in front of a deposit, every deposit behind a
\* counted vote is in Map2 under its voter, so that count_vote notices when it
\* is spent, whatever else the voter cast, recast or spent before.
THEOREM RegistersWholeBacking ==
  ASSUME ~GroupBefore
  PROVE  Spec => []BackingRegistered
<1>1. RegInv => BackingRegistered
  BY DEF RegInv
<1> QED
  BY <1>1, RegInvInductive, PTL

(***************************************************************************)
(* Retraction and the life of the deposits.                                 *)
(***************************************************************************)
\* A vote that a transaction takes out of the count is one that its inputs
\* invalidate.
LEMMA LostIsInvalidated ==
  ASSUME TypeOK, NEW tx \in Tx, Commit(tx), NEW v \in Lock, Voted(v), ~Voted(v)'
  PROVE  v \in Invalidated(tx, dao_outpoint_to_voter)
<1>1. vote_map' = VotesAfter(tx, dao_outpoint_to_voter, vote_map)
  BY DEF Commit
<1>2. \A j \in Counted(tx) : tx.outputs[j].lock # v
  <2> SUFFICES ASSUME NEW j \in Counted(tx), tx.outputs[j].lock = v
               PROVE  FALSE
    OBVIOUS
  <2>1. {k \in Counted(tx) : tx.outputs[k].lock = v} # {}
    OBVIOUS
  <2>2. vote_map'[v] \in Ballot
    <3>1. Latest({k \in Counted(tx) : tx.outputs[k].lock = v}) = j
      BY <2>1, LatestCounted DEF Commit
    <3>2. [direction |-> tx.outputs[j].vote, amount |-> tx.outputs[j].amount] \in Ballot
      BY CountedIsValid, BallotType DEF Commit
    <3> QED
      BY <1>1, <2>1, <3>1, <3>2 DEF VotesAfter
  <2> QED
    BY <2>2, NoneIsNoBallot DEF Voted, NoneIsNoBallot
<1> QED
  BY <1>1, <1>2, VoteOfVoter DEF Commit, Voted

\* As long as no dep_group stands in front of a deposit, a vote leaves the
\* count only in a step that spends a deposit of the same voter that is
\* registered for him: no one can take another voter's vote out of the count.
THEOREM VoterRetracts ==
  ASSUME ~GroupBefore
  PROVE  Spec => OnlyVoterRetracts
<1> DEFINE Lost(v) == Voted(v) /\ ~Voted(v)'
           Own(v, c) == c \in Dao /\ LockOf[c] = v /\ dao_outpoint_to_voter[c] = v
<1>1. ASSUME RegInv, [Next]_vars, NEW v \in Lock, Lost(v)
      PROVE  \E c \in spent' \ spent : Own(v, c)
  <2>1. CASE Cast \/ MoveDeposits
    <3>1. PICK tx \in Tx : Commit(tx)
      BY <1>1, <2>1, CommitStep DEF RegInv
    <3>2. v \in Invalidated(tx, dao_outpoint_to_voter)
      BY <1>1, <3>1, LostIsInvalidated DEF RegInv
    <3>3. PICK c \in tx.inputs : dao_outpoint_to_voter[c] = v /\ v # None
      BY <3>2 DEF Invalidated
    <3>4. c \in OutPoint
      BY <3>3 DEF Tx
    <3>5. c \in Dao /\ LockOf[c] = v
      BY <1>1, <3>3, <3>4 DEF RegInv, OwnRegistration
    <3>6. c \in spent' \ spent
      BY <1>1, <3>1, <3>3 DEF Commit, Resolves, RegInv, SpentIsGone
    <3> QED
      BY <3>3, <3>5, <3>6
  <2>2. CASE ~(Cast \/ MoveDeposits)
    BY <1>1, <2>2, OtherSteps DEF Voted
  <2> QED
    BY <2>1, <2>2
<1>2. RegInv /\ [Next]_vars =>
        [\A v \in Lock : Voted(v) /\ ~Voted(v)' =>
           \E c \in spent' \ spent : c \in Dao /\ LockOf[c] = v
                                     /\ dao_outpoint_to_voter[c] = v]_vars
  BY <1>1
<1> QED
  BY <1>2, RegInvInductive, PTL DEF Spec, OnlyVoterRetracts

\* Every registered deposit is live, if no transaction votes with what it spends.
RegisteredAlive ==
  \A c \in OutPoint : dao_outpoint_to_voter[c] # None => c \in live

\* A transaction leaves no entry of Map2 behind for a deposit it spends.
LEMMA CommitRegisteredAlive ==
  ASSUME ~GroupBefore, ~SpendNamed, RegInv, RegisteredAlive, NEW tx \in Tx, Commit(tx)
  PROVE  RegisteredAlive'
<1> SUFFICES ASSUME NEW c \in OutPoint, dao_outpoint_to_voter'[c] # None
             PROVE  c \in live'
  BY DEF RegisteredAlive
<1>1. CASE \E j \in Counted(tx) : c \in Named(tx, j)
  <2>1. PICK j \in Counted(tx) : c \in Named(tx, j)
    BY <1>1
  <2>2. c \in ScriptNamed(tx, j) /\ j \in GroupOutput(tx)
    BY <2>1, NamedIsScriptNamed, CountedIsValid DEF Commit
  <2>3. c \notin tx.inputs
    BY <2>2 DEF Commit, WellBuilt
  <2>4. c \in live
    BY <2>2 DEF Commit, Resolves, ScriptNamed, Resolved, ToSet
  <2> QED
    BY <2>3, <2>4 DEF Commit
<1>2. CASE \A j \in Counted(tx) : c \notin Named(tx, j)
  <2>1. dao_outpoint_to_voter'[c] =
          IF c \in tx.inputs THEN None ELSE dao_outpoint_to_voter[c]
    BY <1>2, OwnerOfCell DEF Commit
  <2> QED
    BY <2>1 DEF Commit, RegisteredAlive
<1> QED
  BY <1>1, <1>2

\* Every step keeps the registered deposits live.
LEMMA StepRegisteredAlive ==
  ASSUME ~GroupBefore, ~SpendNamed, RegInv, RegisteredAlive, [Next]_vars
  PROVE  RegisteredAlive'
<1>1. CASE Cast \/ MoveDeposits
  <2>1. PICK tx \in Tx : Commit(tx)
    BY <1>1, CommitStep DEF RegInv
  <2> QED
    BY <2>1, CommitRegisteredAlive
<1>2. CASE ~(Cast \/ MoveDeposits)
  BY <1>2, OtherSteps DEF RegisteredAlive
<1> QED
  BY <1>1, <1>2

\* With transactions like those of the SDK -- no dep_group in front of a deposit
\* and no deposit spent by the transaction that votes with it -- the deposits
\* behind a counted vote stay unspent as long as the vote counts, for any number
\* of voters, deposits and blocks.  The voter who withdraws and deposits again
\* elsewhere has lost the first vote.
THEOREM BackingStaysAlive ==
  ASSUME ~GroupBefore, ~SpendNamed
  PROVE  Spec => []BackingAlive
<1>1. Init => RegisteredAlive
  BY DEF Init, RegisteredAlive
<1>2. RegInv /\ RegisteredAlive /\ [Next]_vars => RegisteredAlive'
  BY StepRegisteredAlive
<1>3. RegInv /\ RegisteredAlive => BackingAlive
  <2> SUFFICES ASSUME RegInv, RegisteredAlive, NEW v \in Lock, Voted(v), NEW c \in backing[v]
               PROVE  c \in live
    BY DEF BackingAlive
  <2>1. c \in OutPoint /\ dao_outpoint_to_voter[c] = v
    BY DEF RegInv, BackingRegistered, TypeOK
  <2> QED
    BY <2>1, CellsAssumption DEF RegisteredAlive, CellsAssumption
<1> QED
  BY <1>1, <1>2, <1>3, RegInvInductive, PTL DEF Spec

(***************************************************************************)
(* Sums over finite sets, for any weights that are natural numbers.  The   *)
(* library defines them by recursion over the set; what is needed of them is*)
(* derived here by induction for one set, which exists as a fact of first  *)
(* order: a smallest counterexample would have a smaller one.              *)
(***************************************************************************)
\* Natural numbers are well founded: a set of them has a smallest element.
LEMMA Smallest ==
  ASSUME NEW T, T \subseteq Nat, T # {}
  PROVE  \E x \in T : \A y \in T : x <= y
<1>1. \E Less : /\ IsWellFoundedOn(Less, Nat)
                /\ \A x, y \in Nat : y < x => <<y, x>> \in Less
  <2> DEFINE R == OpToRel(<, Nat)
  <2>1. IsWellFoundedOn(R, Nat)
    BY NatLessThanWellFounded
  <2>2. \A x, y \in Nat : y < x => <<y, x>> \in R
    BY DEF OpToRel
  <2> HIDE DEF R
  <2> QED
    BY <2>1, <2>2
<1>2. PICK Less : /\ IsWellFoundedOn(Less, Nat)
                  /\ \A x, y \in Nat : y < x => <<y, x>> \in Less
  BY <1>1
<1>3. PICK x \in T : \A y \in T : ~(<<y, x>> \in Less)
  BY <1>2, WFMin
<1>4. \A y \in T : ~(y < x)
  BY <1>2, <1>3
<1> QED
  BY <1>4

\* Induction for one set of numbers: it has them all if it has 0 and with each
\* number the next one.
LEMMA AllNumbers ==
  ASSUME NEW A, 0 \in A, \A n \in Nat : n \in A => n + 1 \in A
  PROVE  \A n \in Nat : n \in A
<1> DEFINE T == Nat \ A
<1> SUFFICES ASSUME T # {} PROVE FALSE
  OBVIOUS
<1>1. PICK x \in T : \A y \in T : x <= y
  BY Smallest
<1>2. x # 0 /\ x - 1 \in Nat
  BY <1>1
<1>3. x - 1 \in A
  BY <1>1, <1>2
<1> QED
  BY <1>1, <1>2, <1>3

\* Induction for one set of subsets of a finite set: it has the set itself if it
\* has the empty one and may be enlarged element by element.
LEMMA WholeSet ==
  ASSUME NEW S, IsFiniteSet(S), NEW A, {} \in A,
         \A T \in SUBSET S : \A x \in S \ T : T \in A => T \cup {x} \in A
  PROVE  S \in A
<1> DEFINE N == {n \in Nat : \A T \in SUBSET S : Cardinality(T) = n => T \in A}
<1>1. 0 \in N
  <2> SUFFICES ASSUME NEW T \in SUBSET S, Cardinality(T) = 0 PROVE T \in A
    OBVIOUS
  <2>1. T = {}
    BY FS_EmptySet, FS_Subset
  <2> QED
    BY <2>1
<1>2. ASSUME NEW n \in Nat, n \in N PROVE n + 1 \in N
  <2> SUFFICES ASSUME NEW T \in SUBSET S, Cardinality(T) = n + 1 PROVE T \in A
    OBVIOUS
  <2>1. IsFiniteSet(T)
    BY FS_Subset
  <2>2. T # {}
    BY FS_EmptySet
  <2>3. PICK x \in T : TRUE
    BY <2>2
  <2>4. Cardinality(T \ {x}) = n
    <3>1. Cardinality(T \ {x}) = Cardinality(T) - 1
      BY <2>1, FS_RemoveElement
    <3> QED
      BY <3>1
  <2>5. T \ {x} \in A
    BY <1>2, <2>4
  <2>6. (T \ {x}) \cup {x} \in A
    BY <2>5
  <2>7. (T \ {x}) \cup {x} = T
    OBVIOUS
  <2> QED
    BY <2>6, <2>7
<1> HIDE DEF N
<1>3. \A n \in Nat : n \in N
  BY <1>1, <1>2, AllNumbers
<1>4. Cardinality(S) \in Nat
  BY FS_CardinalityType
<1> QED
  BY <1>3, <1>4 DEF N

\* The element that a sum takes out first.
PickOf(s) == CHOOSE x \in s : TRUE

\* g is the sum over each part of S, as the library defines it.
IsSum(w, S, g) ==
  g = [s \in SUBSET S |-> IF s = {} THEN 0 ELSE w[PickOf(s)] + g[s \ {PickOf(s)}]]

\* The sum is the one that the definition of the library chooses.
LEMMA SumIsChosen ==
  ASSUME NEW w, NEW S
  PROVE  SumFunctionOnSet(w, S) = (CHOOSE g : IsSum(w, S, g))[S]
BY DEF SumFunctionOnSet, FoldFunctionOnSet, MapThenFoldSet, IsSum, PickOf

\* The element taken out first is one of the set.
LEMMA PickIn ==
  ASSUME NEW s, s # {}
  PROVE  PickOf(s) \in s
BY DEF PickOf

\* There is something to choose: the recursion over a finite set has a solution.
LEMMA SumExists ==
  ASSUME NEW w, NEW S, IsFiniteSet(S)
  PROVE  \E g : IsSum(w, S, g)
<1> DEFINE Small(n) == {s \in SUBSET S : Cardinality(s) <= n}
           Equation(g, s) == IF s = {} THEN 0 ELSE w[PickOf(s)] + g[s \ {PickOf(s)}]
           Sum(g, n) == g = [s \in Small(n) |-> Equation(g, s)]
           A == {n \in Nat : \E g : Sum(g, n)}
<1>0. \A s \in SUBSET S : IsFiniteSet(s) /\ Cardinality(s) \in Nat
  BY FS_Subset, FS_CardinalityType
<1>1. 0 \in A
  <2> DEFINE g == [s \in Small(0) |-> 0]
  <2>1. \A s \in Small(0) : s = {}
    <3> SUFFICES ASSUME NEW s \in Small(0) PROVE s = {}
      OBVIOUS
    <3>1. Cardinality(s) = 0 /\ IsFiniteSet(s)
      BY <1>0
    <3> QED
      BY <3>1, FS_EmptySet
  <2>2. \A s \in Small(0) : g[s] = Equation(g, s)
    BY <2>1
  <2>3. Sum(g, 0)
    <3> DEFINE h == [s \in Small(0) |-> Equation(g, s)]
    <3>1. g = h
      BY <2>2, Zenon
    <3> QED
      BY <3>1
  <2> QED
    BY <2>3
<1>2. ASSUME NEW n \in Nat, n \in A PROVE n + 1 \in A
  <2>1. PICK f : Sum(f, n)
    BY <1>2
  <2> DEFINE g == [s \in Small(n + 1) |-> Equation(f, s)]
  <2>2. ASSUME NEW s \in Small(n + 1), s # {}
        PROVE  s \ {PickOf(s)} \in Small(n) /\ s \ {PickOf(s)} \in Small(n + 1)
    <3>1. PickOf(s) \in s
      BY <2>2, PickIn
    <3>2. Cardinality(s \ {PickOf(s)}) = Cardinality(s) - 1
      BY <1>0, <3>1, FS_RemoveElement
    <3> QED
      BY <1>0, <3>2
  <2>3. \A s \in Small(n) : g[s] = f[s]
    <3> SUFFICES ASSUME NEW s \in Small(n) PROVE g[s] = f[s]
      OBVIOUS
    <3>1. s \in Small(n + 1)
      BY <1>0
    <3>2. f[s] = Equation(f, s)
      BY <2>1, Zenon
    <3>3. g[s] = Equation(f, s)
      BY <3>1, Zenon
    <3> QED
      BY <3>2, <3>3
  <2>4. ASSUME NEW s \in Small(n + 1) PROVE g[s] = Equation(g, s)
    <3>1. g[s] = Equation(f, s)
      BY Zenon
    <3>2. s # {} => f[s \ {PickOf(s)}] = g[s \ {PickOf(s)}]
      BY <2>2, <2>3
    <3> HIDE DEF g, Small
    <3> QED
      BY <3>1, <3>2
  <2>5. Sum(g, n + 1)
    <3> DEFINE h == [s \in Small(n + 1) |-> Equation(g, s)]
    <3> HIDE DEF Equation
    <3>1. g = h
      BY <2>4, Zenon
    <3> QED
      BY <3>1, Zenon
  <2> HIDE DEF g, Sum
  <2> QED
    BY <2>5
<1> HIDE DEF A
<1>3. \A n \in Nat : n \in A
  BY <1>1, <1>2, AllNumbers
<1>4. Cardinality(S) \in A
  BY <1>0, <1>3
<1>5. Small(Cardinality(S)) = SUBSET S
  BY FS_Subset
<1>6. PICK g : Sum(g, Cardinality(S))
  BY <1>4 DEF A
<1> QED
  BY <1>5, <1>6, Zenon DEF IsSum

\* The sums over a set, taken as a part of another set or by itself, agree.
LEMMA SumRestricts ==
  ASSUME NEW w, NEW S, IsFiniteSet(S), NEW T \in SUBSET S, NEW g, NEW h,
         IsSum(w, S, g), IsSum(w, T, h)
  PROVE  g[T] = h[T]
<1> DEFINE A == {n \in Nat : \A s \in SUBSET T : Cardinality(s) = n => g[s] = h[s]}
<1>0. \A s \in SUBSET T : IsFiniteSet(s) /\ Cardinality(s) \in Nat
  BY FS_Subset, FS_CardinalityType
<1>1. ASSUME NEW s \in SUBSET T
      PROVE  /\ g[s] = IF s = {} THEN 0 ELSE w[PickOf(s)] + g[s \ {PickOf(s)}]
             /\ h[s] = IF s = {} THEN 0 ELSE w[PickOf(s)] + h[s \ {PickOf(s)}]
  <2>1. s \in SUBSET S
    OBVIOUS
  <2> QED
    BY <2>1, Zenon DEF IsSum
<1>2. 0 \in A
  <2> SUFFICES ASSUME NEW s \in SUBSET T, Cardinality(s) = 0 PROVE g[s] = h[s]
    OBVIOUS
  <2>1. s = {}
    BY <1>0, FS_EmptySet
  <2> QED
    BY <1>1, <2>1
<1>3. ASSUME NEW n \in Nat, n \in A PROVE n + 1 \in A
  <2> SUFFICES ASSUME NEW s \in SUBSET T, Cardinality(s) = n + 1 PROVE g[s] = h[s]
    OBVIOUS
  <2>1. s # {}
    BY FS_EmptySet
  <2>2. Cardinality(s \ {PickOf(s)}) = n
    BY <1>0, <2>1, PickIn, FS_RemoveElement
  <2>3. g[s \ {PickOf(s)}] = h[s \ {PickOf(s)}]
    BY <1>3, <2>2
  <2> QED
    BY <1>1, <2>1, <2>3
<1> HIDE DEF A
<1>4. \A n \in Nat : n \in A
  BY <1>2, <1>3, AllNumbers
<1>5. Cardinality(T) \in A
  BY <1>0, <1>4
<1> QED
  BY <1>5 DEF A

\* The sum over no elements is 0; that over a set takes out the chosen element.
LEMMA SumEquation ==
  ASSUME NEW w, NEW S, IsFiniteSet(S)
  PROVE  SumFunctionOnSet(w, S) =
           IF S = {} THEN 0
           ELSE w[PickOf(S)] + SumFunctionOnSet(w, S \ {PickOf(S)})
<1> DEFINE T == S \ {PickOf(S)}
           g == CHOOSE f : IsSum(w, S, f)
           h == CHOOSE f : IsSum(w, T, f)
<1>1. IsFiniteSet(T) /\ T \in SUBSET S
  BY FS_Subset
<1>2. IsSum(w, S, g) /\ IsSum(w, T, h)
  BY <1>1, SumExists
<1>3. g[T] = h[T]
  <2> HIDE DEF g, h, T
  <2> QED
    BY <1>1, <1>2, SumRestricts
<1>4. g[S] = IF S = {} THEN 0 ELSE w[PickOf(S)] + g[T]
  <2> HIDE DEF g, h
  <2>1. S \in SUBSET S
    OBVIOUS
  <2> QED
    BY <1>2, <2>1, Zenon DEF IsSum
<1>5. SumFunctionOnSet(w, S) = g[S] /\ SumFunctionOnSet(w, T) = h[T]
  BY SumIsChosen
<1> HIDE DEF g, h
<1> QED
  BY <1>3, <1>4, <1>5

\* Nothing sums up to nothing.
LEMMA SumOfNothing ==
  ASSUME NEW w
  PROVE  SumFunctionOnSet(w, {}) = 0
BY SumEquation, FS_EmptySet

\* A sum of natural numbers is one.
LEMMA SumType ==
  ASSUME NEW w, NEW S, IsFiniteSet(S), \A x \in S : w[x] \in Nat
  PROVE  SumFunctionOnSet(w, S) \in Nat
<1> DEFINE A == {n \in Nat : \A T \in SUBSET S :
                   Cardinality(T) = n => SumFunctionOnSet(w, T) \in Nat}
<1>0. \A T \in SUBSET S : IsFiniteSet(T) /\ Cardinality(T) \in Nat
  BY FS_Subset, FS_CardinalityType
<1>1. 0 \in A
  <2> SUFFICES ASSUME NEW T \in SUBSET S, Cardinality(T) = 0
               PROVE  SumFunctionOnSet(w, T) \in Nat
    OBVIOUS
  <2>1. T = {}
    BY <1>0, FS_EmptySet
  <2> QED
    BY <2>1, SumOfNothing
<1>2. ASSUME NEW n \in Nat, n \in A PROVE n + 1 \in A
  <2> SUFFICES ASSUME NEW T \in SUBSET S, Cardinality(T) = n + 1
               PROVE  SumFunctionOnSet(w, T) \in Nat
    OBVIOUS
  <2>1. T # {}
    BY FS_EmptySet
  <2> DEFINE x == PickOf(T)
  <2>2. x \in T
    BY <2>1, PickIn
  <2> HIDE DEF x
  <2>3. Cardinality(T \ {x}) = Cardinality(T) - 1
    BY <1>0, <2>2, FS_RemoveElement
  <2>4. SumFunctionOnSet(w, T \ {x}) \in Nat
    BY <1>2, <2>3
  <2>5. SumFunctionOnSet(w, T) = w[x] + SumFunctionOnSet(w, T \ {x})
    BY <1>0, <2>1, SumEquation DEF x
  <2> QED
    BY <2>2, <2>4, <2>5
<1> HIDE DEF A
<1>3. \A n \in Nat : n \in A
  BY <1>1, <1>2, AllNumbers
<1>4. Cardinality(S) \in A
  BY <1>0, <1>3
<1> QED
  BY <1>4 DEF A

\* It does not matter which element is taken out.
LEMMA SumTakesOut ==
  ASSUME NEW w, NEW S, IsFiniteSet(S), \A y \in S : w[y] \in Nat, NEW x \in S
  PROVE  SumFunctionOnSet(w, S) = w[x] + SumFunctionOnSet(w, S \ {x})
<1> DEFINE A == {n \in Nat : \A T \in SUBSET S : \A y \in T :
                   Cardinality(T) = n =>
                     SumFunctionOnSet(w, T) = w[y] + SumFunctionOnSet(w, T \ {y})}
<1>0. \A T \in SUBSET S : IsFiniteSet(T) /\ Cardinality(T) \in Nat
  BY FS_Subset, FS_CardinalityType
<1>1. 0 \in A
  <2> SUFFICES ASSUME NEW T \in SUBSET S, NEW y \in T, Cardinality(T) = 0
               PROVE  FALSE
    OBVIOUS
  <2> QED
    BY <1>0, FS_EmptySet
<1>2. ASSUME NEW n \in Nat, n \in A PROVE n + 1 \in A
  <2> SUFFICES ASSUME NEW T \in SUBSET S, NEW y \in T, Cardinality(T) = n + 1
               PROVE  SumFunctionOnSet(w, T) = w[y] + SumFunctionOnSet(w, T \ {y})
    OBVIOUS
  <2> DEFINE p == PickOf(T)
  <2>1. p \in T
    BY PickIn
  <2>2. SumFunctionOnSet(w, T) = w[p] + SumFunctionOnSet(w, T \ {p})
    BY <1>0, SumEquation
  <2> HIDE DEF p
  <2>3. CASE p = y
    BY <2>2, <2>3
  <2>4. CASE p # y
    <3>1. Cardinality(T \ {p}) = n /\ Cardinality(T \ {y}) = n
      <4>1. Cardinality(T \ {p}) = Cardinality(T) - 1 /\ Cardinality(T \ {y}) = Cardinality(T) - 1
        BY <1>0, <2>1, FS_RemoveElement
      <4> QED
        BY <4>1
    <3>2. SumFunctionOnSet(w, T \ {p}) = w[y] + SumFunctionOnSet(w, (T \ {p}) \ {y})
      BY <1>2, <2>1, <2>4, <3>1
    <3>3. SumFunctionOnSet(w, T \ {y}) = w[p] + SumFunctionOnSet(w, (T \ {y}) \ {p})
      BY <1>2, <2>1, <2>4, <3>1
    <3>4. SumFunctionOnSet(w, (T \ {y}) \ {p}) = SumFunctionOnSet(w, (T \ {p}) \ {y})
      <4>1. (T \ {y}) \ {p} = (T \ {p}) \ {y}
        OBVIOUS
      <4> QED
        BY <4>1, Zenon
    <3>5. SumFunctionOnSet(w, (T \ {p}) \ {y}) \in Nat
      BY <1>0, SumType
    <3>6. w[p] \in Nat /\ w[y] \in Nat
      BY <2>1
    <3> QED
      BY <2>2, <3>2, <3>3, <3>4, <3>5, <3>6
  <2> QED
    BY <2>3, <2>4
<1> HIDE DEF A
<1>3. \A n \in Nat : n \in A
  BY <1>1, <1>2, AllNumbers
<1>4. Cardinality(S) \in A
  BY <1>0, <1>3
<1> QED
  BY <1>4 DEF A

\* The sum over a set and one more element.
LEMMA SumAdds ==
  ASSUME NEW w, NEW S, IsFiniteSet(S), NEW x, x \notin S, \A y \in S \cup {x} : w[y] \in Nat
  PROVE  SumFunctionOnSet(w, S \cup {x}) = w[x] + SumFunctionOnSet(w, S)
<1>1. IsFiniteSet(S \cup {x})
  BY FS_AddElement
<1>2. (S \cup {x}) \ {x} = S
  OBVIOUS
<1>3. SumFunctionOnSet(w, S \cup {x}) = w[x] + SumFunctionOnSet(w, (S \cup {x}) \ {x})
  BY <1>1, SumTakesOut
<1> QED
  BY <1>2, <1>3

\* The sum over two sets that have no element in common.
LEMMA SumOfUnion ==
  ASSUME NEW w, NEW S, NEW T, IsFiniteSet(S), IsFiniteSet(T), S \cap T = {},
         \A x \in S \cup T : w[x] \in Nat
  PROVE  SumFunctionOnSet(w, S \cup T) = SumFunctionOnSet(w, S) + SumFunctionOnSet(w, T)
<1> DEFINE A == {U \in SUBSET T : SumFunctionOnSet(w, S \cup U) =
                                  SumFunctionOnSet(w, S) + SumFunctionOnSet(w, U)}
<1>1. {} \in A
  <2>1. S \cup {} = S /\ SumFunctionOnSet(w, S) \in Nat
    BY SumType
  <2> QED
    BY <2>1, SumOfNothing
<1>2. ASSUME NEW U \in SUBSET T, NEW x \in T \ U, U \in A
      PROVE  U \cup {x} \in A
  <2>1. IsFiniteSet(U) /\ IsFiniteSet(S \cup U)
    BY FS_Subset, FS_Union
  <2>2. SumFunctionOnSet(w, U \cup {x}) = w[x] + SumFunctionOnSet(w, U)
    BY <2>1, SumAdds
  <2>3. SumFunctionOnSet(w, (S \cup U) \cup {x}) = w[x] + SumFunctionOnSet(w, S \cup U)
    <3>1. x \notin S \cup U /\ \A y \in (S \cup U) \cup {x} : w[y] \in Nat
      OBVIOUS
    <3> QED
      BY <2>1, <3>1, SumAdds
  <2>4. SumFunctionOnSet(w, (S \cup U) \cup {x}) = SumFunctionOnSet(w, S \cup (U \cup {x}))
    <3>1. (S \cup U) \cup {x} = S \cup (U \cup {x})
      OBVIOUS
    <3> QED
      BY <3>1, Zenon
  <2>5. SumFunctionOnSet(w, S) \in Nat /\ SumFunctionOnSet(w, U) \in Nat /\ w[x] \in Nat
    BY <2>1, SumType
  <2>6. SumFunctionOnSet(w, S \cup U) = SumFunctionOnSet(w, S) + SumFunctionOnSet(w, U)
    BY <1>2
  <2>7. SumFunctionOnSet(w, S \cup (U \cup {x})) =
          SumFunctionOnSet(w, S) + SumFunctionOnSet(w, U \cup {x})
    BY <2>2, <2>3, <2>4, <2>5, <2>6
  <2> QED
    BY <2>7
<1> HIDE DEF A
<1>3. T \in A
  BY <1>1, <1>2, WholeSet
<1> QED
  BY <1>3 DEF A

\* A part sums up to no more than the whole.
LEMMA SumOfPart ==
  ASSUME NEW w, NEW S, IsFiniteSet(S), NEW T \in SUBSET S, \A x \in S : w[x] \in Nat
  PROVE  SumFunctionOnSet(w, T) <= SumFunctionOnSet(w, S)
<1>1. IsFiniteSet(T) /\ IsFiniteSet(S \ T)
  BY FS_Subset
<1>2. SumFunctionOnSet(w, T \cup (S \ T)) =
        SumFunctionOnSet(w, T) + SumFunctionOnSet(w, S \ T)
  BY <1>1, SumOfUnion
<1>3. SumFunctionOnSet(w, T \cup (S \ T)) = SumFunctionOnSet(w, S)
  <2>1. T \cup (S \ T) = S
    OBVIOUS
  <2> QED
    BY <2>1, Zenon
<1>4. SumFunctionOnSet(w, T) \in Nat /\ SumFunctionOnSet(w, S \ T) \in Nat
  BY <1>1, SumType
<1> QED
  BY <1>2, <1>3, <1>4

\* The sums over sets that have no element in common sum up to that over their
\* union.
LEMMA SumOfFamily ==
  ASSUME NEW w, NEW S, IsFiniteSet(S), \A x \in S : w[x] \in Nat,
         NEW V, IsFiniteSet(V), NEW b \in [V -> SUBSET S], NEW u,
         \A x \in S : \E v \in V : x \in b[v],
         \A v \in V : u[v] = SumFunctionOnSet(w, b[v]),
         \A v, z \in V : v # z => b[v] \cap b[z] = {}
  PROVE  SumFunctionOnSet(u, V) = SumFunctionOnSet(w, S)
<1> DEFINE Whole(U) == UNION {b[v] : v \in U}
           A == {U \in SUBSET V : /\ IsFiniteSet(Whole(U))
                                  /\ SumFunctionOnSet(u, U) = SumFunctionOnSet(w, Whole(U))}
<1>1. {} \in A
  <2>1. Whole({}) = {}
    OBVIOUS
  <2> HIDE DEF Whole
  <2> QED
    BY <2>1, SumOfNothing, FS_EmptySet
<1>2. ASSUME NEW U \in SUBSET V, NEW x \in V \ U, U \in A
      PROVE  U \cup {x} \in A
  <2>1. Whole(U \cup {x}) = Whole(U) \cup b[x]
    OBVIOUS
  <2>2. Whole(U) \cap b[x] = {}
    OBVIOUS
  <2>3. \A y \in Whole(U) \cup b[x] : w[y] \in Nat
    OBVIOUS
  <2>4. IsFiniteSet(U) /\ IsFiniteSet(b[x]) /\ IsFiniteSet(Whole(U))
    BY <1>2, FS_Subset
  <2>5. \A v \in V : u[v] \in Nat
    BY FS_Subset, SumType
  <2> HIDE DEF Whole
  <2>6. SumFunctionOnSet(u, U \cup {x}) = u[x] + SumFunctionOnSet(u, U)
    BY <2>4, <2>5, SumAdds
  <2>7. SumFunctionOnSet(w, Whole(U) \cup b[x]) =
          SumFunctionOnSet(w, Whole(U)) + SumFunctionOnSet(w, b[x])
    BY <2>2, <2>3, <2>4, SumOfUnion
  <2>8. IsFiniteSet(Whole(U) \cup b[x])
    BY <2>4, FS_Union
  <2>9. SumFunctionOnSet(u, U) = SumFunctionOnSet(w, Whole(U))
    BY <1>2
  <2>10. SumFunctionOnSet(w, Whole(U)) \in Nat /\ u[x] \in Nat
    BY <2>3, <2>4, <2>5, SumType
  <2>11. SumFunctionOnSet(u, U \cup {x}) = SumFunctionOnSet(w, Whole(U) \cup b[x])
    BY <2>6, <2>7, <2>9, <2>10
  <2> QED
    BY <2>1, <2>8, <2>11, Zenon
<1> HIDE DEF A
<1>3. V \in A
  BY <1>1, <1>2, WholeSet
<1>4. S = Whole(V)
  OBVIOUS
<1> HIDE DEF Whole
<1> QED
  BY <1>3, <1>4, Zenon DEF A

\* Weights that agree on a set have the same sum over it.
LEMMA SumOfSame ==
  ASSUME NEW w, NEW u, NEW S, IsFiniteSet(S), \A x \in S : w[x] = u[x] /\ u[x] \in Nat
  PROVE  SumFunctionOnSet(w, S) = SumFunctionOnSet(u, S)
<1> DEFINE A == {T \in SUBSET S : SumFunctionOnSet(w, T) = SumFunctionOnSet(u, T)}
<1>1. {} \in A
  BY SumOfNothing
<1>2. ASSUME NEW T \in SUBSET S, NEW x \in S \ T, T \in A
      PROVE  T \cup {x} \in A
  <2>1. IsFiniteSet(T)
    BY FS_Subset
  <2>2. /\ SumFunctionOnSet(w, T \cup {x}) = w[x] + SumFunctionOnSet(w, T)
        /\ SumFunctionOnSet(u, T \cup {x}) = u[x] + SumFunctionOnSet(u, T)
    BY <2>1, SumAdds
  <2> QED
    BY <1>2, <2>2
<1> HIDE DEF A
<1>3. S \in A
  BY <1>1, <1>2, WholeSet
<1> QED
  BY <1>3 DEF A

\* The sum over a single element.
LEMMA SumOfOne ==
  ASSUME NEW w, NEW x, w[x] \in Nat
  PROVE  SumFunctionOnSet(w, {x}) = w[x]
<1>1. SumFunctionOnSet(w, {} \cup {x}) = w[x] + SumFunctionOnSet(w, {})
  BY FS_EmptySet, SumAdds
<1>2. SumFunctionOnSet(w, {} \cup {x}) = SumFunctionOnSet(w, {x})
  <2>1. {} \cup {x} = {x}
    OBVIOUS
  <2> QED
    BY <2>1, Zenon
<1> QED
  BY <1>1, <1>2, SumOfNothing

\* Adding up over places is summing over what is there, if nothing is there twice.
LEMMA SumOfPlaces ==
  ASSUME NEW w, NEW D, IsFiniteSet(D), NEW cell, NEW u, NEW S, IsFiniteSet(S),
         \A x : x \in S <=> \E k \in D : x = cell[k],
         \A k \in D : u[k] = w[cell[k]] /\ u[k] \in Nat,
         \A k, l \in D : k # l => cell[k] # cell[l]
  PROVE  SumFunctionOnSet(u, D) = SumFunctionOnSet(w, S)
<1> DEFINE b == [k \in D |-> {cell[k]}]
<1>1. ASSUME NEW k \in D
      PROVE  u[k] = SumFunctionOnSet(w, b[k])
  <2>1. b[k] = {cell[k]}
    OBVIOUS
  <2> HIDE DEF b
  <2>2. SumFunctionOnSet(w, {cell[k]}) = w[cell[k]]
    BY SumOfOne
  <2>3. SumFunctionOnSet(w, b[k]) = SumFunctionOnSet(w, {cell[k]})
    BY <2>1, Zenon
  <2> QED
    BY <2>2, <2>3
<1>2. \A x \in S : w[x] \in Nat
  OBVIOUS
<1>3. \A k, l \in D : k # l => b[k] \cap b[l] = {}
  OBVIOUS
<1>4. b \in [D -> SUBSET S] /\ \A x \in S : \E k \in D : x \in b[k]
  OBVIOUS
<1> HIDE DEF b
<1> QED
  BY <1>1, <1>2, <1>3, <1>4, SumOfFamily

(***************************************************************************)
(* The weight of votes.                                                    *)
(***************************************************************************)
\* The places in a sequence have a last one.
LEMMA LastPlace ==
  ASSUME NEW s \in SUBSET Nat, IsFiniteSet(s), s # {}
  PROVE  Max(s) \in s
<1> DEFINE A == {T \in SUBSET s : T = {} \/ \E x \in T : \A y \in T : x >= y}
<1>1. {} \in A
  OBVIOUS
<1>2. ASSUME NEW T \in SUBSET s, NEW x \in s \ T, T \in A
      PROVE  T \cup {x} \in A
  <2>1. CASE T = {}
    BY <2>1
  <2>2. CASE T # {}
    <3>1. PICK m \in T : \A y \in T : m >= y
      BY <1>2, <2>2
    <3>2. CASE m >= x
      BY <3>1, <3>2
    <3>3. CASE x > m
      BY <3>1, <3>3
    <3> QED
      BY <3>2, <3>3
  <2> QED
    BY <2>1, <2>2
<1> HIDE DEF A
<1>3. s \in A
  BY <1>1, <1>2, WholeSet
<1>4. \E x \in s : \A y \in s : x >= y
  BY <1>3 DEF A
<1> QED
  BY <1>4, Zenon DEF Max

\* What the script adds up is the sum over the places of dao_index, up to the
\* largest amount.
IsTotal(tx, dao_index, g) ==
  g = [s \in SUBSET DOMAIN dao_index |->
         IF s = {} THEN 0
         ELSE SaturatingAdd(g[s \ {Max(s)}], CapacityOf[ResolvedDeps(tx)[dao_index[Max(s)] + 1]])]

\* The total is the one that the definition of the fold chooses.
LEMMA TotalIsChosen ==
  ASSUME NEW tx, NEW dao_index
  PROVE  TotalCapacity(tx, dao_index) =
           (CHOOSE g : IsTotal(tx, dao_index, g))[DOMAIN dao_index]
BY DEF TotalCapacity, FoldLeft, MapThenFoldSet, IsTotal

\* The saturating total of the script is the sum of the capacities, cut off at the
\* largest 64-bit number.
LEMMA TotalIsSum ==
  ASSUME NEW tx, NEW dao_index \in Seq(Nat), NEW cap,
         \A k \in DOMAIN dao_index : /\ cap[k] = CapacityOf[ResolvedDeps(tx)[dao_index[k] + 1]]
                                     /\ cap[k] \in 0..U64Max
  PROVE  LET sum == SumFunctionOnSet(cap, DOMAIN dao_index)
         IN  TotalCapacity(tx, dao_index) = IF sum > U64Max THEN U64Max ELSE sum
<1> DEFINE D == DOMAIN dao_index
           Sum(s) == SumFunctionOnSet(cap, s)
           Cut(n) == IF n > U64Max THEN U64Max ELSE n
           g == [s \in SUBSET D |-> Cut(Sum(s))]
           Equation(f, s) == IF s = {} THEN 0
                         ELSE SaturatingAdd(f[s \ {Max(s)}],
                                CapacityOf[ResolvedDeps(tx)[dao_index[Max(s)] + 1]])
<1>0. IsFiniteSet(D) /\ D \subseteq Nat
  <2>1. D = 1..Len(dao_index) /\ Len(dao_index) \in Nat
    OBVIOUS
  <2> QED
    BY <2>1, FS_Interval
<1>1. \A s \in SUBSET D : IsFiniteSet(s) /\ Cardinality(s) \in Nat /\ Sum(s) \in Nat
  BY <1>0, FS_Subset, FS_CardinalityType, SumType
<1>2. ASSUME NEW s \in SUBSET D, s # {}
      PROVE  Max(s) \in s /\ s \ {Max(s)} \in SUBSET D
  BY <1>0, <1>1, <1>2, LastPlace
<1>3. U64Max \in Nat
  BY CellsAssumption DEF CellsAssumption
<1>4. ASSUME NEW s \in SUBSET D PROVE g[s] = Equation(g, s)
  <2>1. CASE s = {}
    BY <1>3, <2>1, SumOfNothing
  <2>2. CASE s # {}
    <3> DEFINE m == Max(s)
    <3>1. m \in s /\ s \ {m} \in SUBSET D
      BY <1>2, <2>2
    <3> HIDE DEF m
    <3>2. Sum(s) = cap[m] + Sum(s \ {m})
      <4>1. \A x \in s : cap[x] \in Nat
        BY <1>3
      <4>2. IsFiniteSet(s) /\ m \in s
        BY <1>1, <3>1
      <4> HIDE DEF D
      <4> QED
        BY <4>1, <4>2, SumTakesOut
    <3>3. cap[m] \in Nat /\ Sum(s \ {m}) \in Nat
      BY <1>1, <3>1
    <3>4. Cut(Sum(s)) = SaturatingAdd(Cut(Sum(s \ {m})), cap[m])
      <4> HIDE DEF Sum
      <4> QED
        BY <1>3, <3>2, <3>3 DEF SaturatingAdd
    <3>5. cap[m] = CapacityOf[ResolvedDeps(tx)[dao_index[m] + 1]]
      BY <3>1
    <3>6. g[s] = Cut(Sum(s)) /\ g[s \ {m}] = Cut(Sum(s \ {m}))
      BY <3>1
    <3> HIDE DEF g, Cut, Sum
    <3>7. g[s] = SaturatingAdd(g[s \ {m}], CapacityOf[ResolvedDeps(tx)[dao_index[m] + 1]])
      BY <3>4, <3>5, <3>6
    <3> QED
      BY <2>2, <3>7 DEF m
  <2> QED
    BY <2>1, <2>2
<1>5. IsTotal(tx, dao_index, g)
  <2> DEFINE h == [s \in SUBSET D |-> Equation(g, s)]
  <2> HIDE DEF Equation
  <2>1. g = h
    BY <1>4, Zenon
  <2> QED
    BY <2>1, Zenon DEF IsTotal, Equation
<1> DEFINE f == CHOOSE x : IsTotal(tx, dao_index, x)
<1>6. IsTotal(tx, dao_index, f)
  <2> HIDE DEF g
  <2> QED
    BY <1>5
<1> DEFINE A == {n \in Nat : \A s \in SUBSET D : Cardinality(s) = n => f[s] = g[s]}
<1>7. ASSUME NEW s \in SUBSET D PROVE f[s] = Equation(f, s)
  <2> HIDE DEF f, g
  <2> QED
    BY <1>6, Zenon DEF IsTotal
<1> HIDE DEF f, g
<1>8. 0 \in A
  <2> SUFFICES ASSUME NEW s \in SUBSET D, Cardinality(s) = 0 PROVE f[s] = g[s]
    OBVIOUS
  <2>1. s = {}
    BY <1>1, FS_EmptySet
  <2> QED
    BY <1>4, <1>7, <2>1
<1>9. ASSUME NEW n \in Nat, n \in A PROVE n + 1 \in A
  <2> SUFFICES ASSUME NEW s \in SUBSET D, Cardinality(s) = n + 1 PROVE f[s] = g[s]
    OBVIOUS
  <2>1. s # {}
    <3>1. Cardinality(s) # 0
      OBVIOUS
    <3> QED
      BY <3>1, FS_EmptySet
  <2>2. Cardinality(s \ {Max(s)}) = Cardinality(s) - 1
    BY <1>1, <1>2, <2>1, FS_RemoveElement
  <2>3. f[s \ {Max(s)}] = g[s \ {Max(s)}]
    BY <1>2, <1>9, <2>1, <2>2
  <2>4. f[s] = Equation(f, s) /\ g[s] = Equation(g, s)
    BY <1>4, <1>7
  <2> QED
    BY <2>3, <2>4, Zenon
<1> HIDE DEF A
<1>10. \A n \in Nat : n \in A
  BY <1>8, <1>9, AllNumbers
<1>11. Cardinality(D) \in A
  BY <1>1, <1>10
<1>12. f[D] = g[D]
  BY <1>11 DEF A
<1>13. g[D] = Cut(Sum(D))
  BY DEF g
<1> QED
  BY <1>12, <1>13, TotalIsChosen DEF f
-----------------------------------------------------------------------------
\* The cells behind a vote that the script accepts are distinct if no index is
\* repeated and none is behind a dep_group; then the vote weighs their capacity.
LEMMA VoteWeighsNamed ==
  ASSUME ~GroupBefore, ~RepeatIndex, NEW tx \in Tx, VoteScriptAccepts(tx), WellBuilt(tx),
         IsInjective(tx.cell_deps), NEW j \in Counted(tx),
         CapacityIn(ScriptNamed(tx, j)) <= U64Max
  PROVE  tx.outputs[j].amount = CapacityIn(ScriptNamed(tx, j))
<1> DEFINE idx == tx.outputs[j].dao_index
           D == DOMAIN idx
           cell == [k \in D |-> ResolvedDeps(tx)[idx[k] + 1]]
           cap == [k \in D |-> CapacityOf[cell[k]]]
<1>1. /\ j \in GroupOutput(tx) /\ CastIsValid(tx, tx.outputs[j])
      /\ tx.outputs[j] \in VoteCell
  BY CountedIsValid
<1>2. idx \in Seq(Nat)
  BY <1>1 DEF VoteCell
<1>3. \A k \in D : idx[k] \in Nat /\ idx[k] \in ToSet(idx)
  BY <1>2, SMTT(30) DEF ToSet
<1>4. \A k \in D : cell[k] \in Dao /\ Resolved(tx, idx[k]) /\ cap[k] \in 0..U64Max
  BY <1>1, CellsAssumption DEF CastIsValid, IsDaoDep, Resolved, CellsAssumption
<1>5. \A k \in D : IsDep(tx, idx[k])
  BY <1>1, <1>3, <1>4 DEF WellBuilt
<1>6. \A k, l \in D : k # l => cell[k] # cell[l]
  <2> SUFFICES ASSUME NEW k \in D, NEW l \in D, cell[k] = cell[l] PROVE k = l
    OBVIOUS
  <2>1. tx.cell_deps \in Seq(OutPoint)
    BY DEF Tx
  <2>2. /\ idx[k] + 1 \in DOMAIN tx.cell_deps /\ idx[l] + 1 \in DOMAIN tx.cell_deps
        /\ tx.cell_deps[idx[k] + 1] = tx.cell_deps[idx[l] + 1]
    <3>1. ASSUME NEW m \in D
          PROVE  idx[m] + 1 \in DOMAIN tx.cell_deps /\ cell[m] = tx.cell_deps[idx[m] + 1]
      <4>1. /\ idx[m] < Len(tx.cell_deps)
            /\ ResolvedDeps(tx)[idx[m] + 1] = tx.cell_deps[idx[m] + 1]
        BY <1>5 DEF IsDep
      <4>2. idx[m] + 1 \in DOMAIN tx.cell_deps
        <5>1. idx[m] \in Nat
          BY <1>3
        <5> HIDE DEF idx, cell
        <5> QED
          BY <2>1, <4>1, <5>1
      <4> QED
        BY <4>1, <4>2
    <3> HIDE DEF cell
    <3> QED
      BY <3>1
  <2>3. idx[k] + 1 = idx[l] + 1
    BY <2>2 DEF IsInjective
  <2>4. idx[k] = idx[l]
    <3>1. idx[k] \in Nat /\ idx[l] \in Nat
      BY <1>3
    <3> HIDE DEF idx, cell
    <3> QED
      BY <2>3, <3>1
  <2>5. IsInjective(idx)
    BY <1>1 DEF WellBuilt
  <2> QED
    BY <2>4, <2>5 DEF IsInjective
<1>7. \A x : x \in ScriptNamed(tx, j) <=> \E k \in D : x = cell[k]
  <2>1. ScriptNamed(tx, j) = {ResolvedDeps(tx)[i + 1] : i \in ToSet(idx)}
    BY <1>4 DEF ScriptNamed, ToSet
  <2>2. {ResolvedDeps(tx)[i + 1] : i \in ToSet(idx)} = {cell[k] : k \in D}
    BY DEF ToSet
  <2> QED
    BY <2>1, <2>2
<1>8. IsFiniteSet(D)
  <2>1. D = 1..Len(idx) /\ Len(idx) \in Nat
    BY <1>2
  <2> QED
    BY <2>1, FS_Interval
<1>9. U64Max \in Nat
  BY CellsAssumption DEF CellsAssumption
<1>10. SumFunctionOnSet(cap, D) = SumFunctionOnSet(CapacityOf, ScriptNamed(tx, j))
  <2>1. \A n \in 0..U64Max : n \in Nat
    BY <1>9
  <2>2. \A k \in D : cap[k] = CapacityOf[cell[k]] /\ cap[k] \in Nat
    BY <1>4, <2>1, Zenon
  <2>3. IsFiniteSet(ScriptNamed(tx, j))
    <3>1. ScriptNamed(tx, j) \subseteq OutPoint
      BY ScriptNamedIsOwnDao, CellsAssumption DEF CellsAssumption
    <3> QED
      BY <3>1, FinitelyMany, FS_Subset DEF FinitelyMany
  <2> HIDE DEF cell, cap, D
  <2> QED
    BY <1>6, <1>7, <1>8, <2>2, <2>3, SumOfPlaces
<1>11. SumFunctionOnSet(cap, D) = CapacityIn(ScriptNamed(tx, j))
  BY <1>10 DEF CapacityIn
<1>12. \A k \in D : cap[k] = CapacityOf[ResolvedDeps(tx)[idx[k] + 1]] /\ cap[k] \in 0..U64Max
  BY <1>4
<1> HIDE DEF cap
<1>13. TotalCapacity(tx, idx) =
         IF SumFunctionOnSet(cap, D) > U64Max THEN U64Max ELSE SumFunctionOnSet(cap, D)
  BY <1>2, <1>12, TotalIsSum
<1>14. SumFunctionOnSet(cap, D) \in Nat
  BY <1>8, <1>9, <1>12, SumType
<1>15. TotalCapacity(tx, idx) = tx.outputs[j].amount
  BY <1>1 DEF CastIsValid
<1> QED
  BY <1>9, <1>11, <1>13, <1>14, <1>15

\* The deposits that exist are worth no more than 64 bits can hold.
SupplyFits == CapacityIn(live \cap Dao) <= U64Max

\* Every set of cells is finite and every set of DAO cells has a capacity.
LEMMA DaoSums ==
  ASSUME NEW S, NEW T, T \subseteq S, S \subseteq Dao
  PROVE  /\ IsFiniteSet(S)
         /\ CapacityIn(S) \in Nat
         /\ CapacityIn(T) <= CapacityIn(S)
<1>1. IsFiniteSet(S)
  BY FinitelyMany, CellsAssumption, FS_Subset DEF FinitelyMany, CellsAssumption
<1>2. \A x \in S : CapacityOf[x] \in Nat
  BY CellsAssumption DEF CellsAssumption
<1>3. CapacityIn(S) \in Nat
  BY <1>1, <1>2, SumType DEF CapacityIn
<1>4. CapacityIn(T) <= CapacityIn(S)
  BY <1>1, <1>2, SumOfPart DEF CapacityIn
<1> QED
  BY <1>1, <1>3, <1>4

\* What the script accepts behind a vote is live.
LEMMA NamedIsLive ==
  ASSUME NEW tx \in Tx, Commit(tx), NEW j \in Counted(tx)
  PROVE  ScriptNamed(tx, j) \subseteq live \cap Dao
<1>1. ScriptNamed(tx, j) \subseteq Dao
  BY ScriptNamedIsOwnDao DEF Commit
<1>2. ScriptNamed(tx, j) \subseteq live
  BY DEF Commit, Resolves, ScriptNamed, Resolved, ToSet
<1> QED
  BY <1>1, <1>2

\* A transaction that casts a vote gives it the weight of its deposits.
LEMMA CommittedVoteWeighs ==
  ASSUME ~GroupBefore, ~RepeatIndex, SupplyFits, TypeOK, NEW tx \in Tx, Commit(tx),
         NEW j \in Counted(tx)
  PROVE  tx.outputs[j].amount = CapacityIn(ScriptNamed(tx, j))
<1>1. ScriptNamed(tx, j) \subseteq live \cap Dao
  BY NamedIsLive
<1>2. /\ CapacityIn(ScriptNamed(tx, j)) <= CapacityIn(live \cap Dao)
      /\ CapacityIn(live \cap Dao) \in Nat /\ CapacityIn(ScriptNamed(tx, j)) \in Nat
  BY <1>1, DaoSums
<1>3. CapacityIn(ScriptNamed(tx, j)) <= U64Max
  BY <1>2, CellsAssumption DEF SupplyFits, CellsAssumption
<1>4. VoteScriptAccepts(tx) /\ WellBuilt(tx) /\ IsInjective(tx.cell_deps)
  BY DEF Commit, Resolves
<1> QED
  BY <1>3, <1>4, VoteWeighsNamed

\* How the vote of a voter changes with a transaction: it is replaced by the one
\* the transaction casts for him, or it is lost, or it stays with its deposits.
LEMMA VoteAndBacking ==
  ASSUME TypeOK, NEW tx \in Tx, Commit(tx), NEW v \in Lock
  PROVE  \/ \E j \in Counted(tx) :
              /\ tx.outputs[j].lock = v
              /\ backing'[v] = ScriptNamed(tx, j)
              /\ vote_map'[v] = [direction |-> tx.outputs[j].vote,
                                 amount |-> tx.outputs[j].amount]
         \/ /\ \A j \in Counted(tx) : tx.outputs[j].lock # v
            /\ IF v \in Invalidated(tx, dao_outpoint_to_voter)
               THEN vote_map'[v] = None
               ELSE vote_map'[v] = vote_map[v]
            /\ vote_map'[v] # None => backing'[v] = backing[v]
<1> DEFINE of == {j \in Counted(tx) : tx.outputs[j].lock = v}
<1>0. /\ VoteScriptAccepts(tx)
      /\ vote_map' = VotesAfter(tx, dao_outpoint_to_voter, vote_map)
  BY DEF Commit
<1>1. CASE of # {}
  <2>1. of = {Latest(of)} /\ Latest(of) \in Counted(tx)
    BY <1>0, <1>1, LatestCounted
  <2>2. backing'[v] = ScriptNamed(tx, Latest(of))
    BY <1>1 DEF Commit
  <2>3. vote_map'[v] = [direction |-> tx.outputs[Latest(of)].vote,
                        amount |-> tx.outputs[Latest(of)].amount]
    BY <1>0, <1>1 DEF VotesAfter
  <2>4. tx.outputs[Latest(of)].lock = v
    BY <2>1
  <2> QED
    BY <2>1, <2>2, <2>3, <2>4
<1>2. CASE of = {}
  <2>1. \A j \in Counted(tx) : tx.outputs[j].lock # v
    BY <1>2
  <2>2. vote_map'[v] = IF v \in Invalidated(tx, dao_outpoint_to_voter) THEN None
                       ELSE vote_map[v]
    BY <1>0, <2>1, VoteOfVoter
  <2>3. vote_map'[v] # None => backing'[v] = backing[v]
    BY <1>2 DEF Commit
  <2> QED
    BY <2>1, <2>2, <2>3
<1> QED
  BY <1>1, <1>2

\* A transaction keeps the weight of every vote that counts.
LEMMA CommitAmountIsBacked ==
  ASSUME ~GroupBefore, ~RepeatIndex, SupplyFits, TypeOK, AmountIsBacked,
         NEW tx \in Tx, Commit(tx)
  PROVE  AmountIsBacked'
<1> SUFFICES ASSUME NEW v \in Lock, Voted(v)'
             PROVE  /\ \A c \in backing'[v] : c \in Dao /\ LockOf[c] = v
                    /\ vote_map'[v].amount = CapacityIn(backing'[v])
  BY DEF AmountIsBacked, CapacityIn
<1>1. CASE \E j \in Counted(tx) :
             /\ tx.outputs[j].lock = v
             /\ backing'[v] = ScriptNamed(tx, j)
             /\ vote_map'[v] = [direction |-> tx.outputs[j].vote,
                                amount |-> tx.outputs[j].amount]
  <2>1. PICK j \in Counted(tx) :
             /\ tx.outputs[j].lock = v
             /\ backing'[v] = ScriptNamed(tx, j)
             /\ vote_map'[v] = [direction |-> tx.outputs[j].vote,
                                amount |-> tx.outputs[j].amount]
    BY <1>1
  <2>2. tx.outputs[j].amount = CapacityIn(ScriptNamed(tx, j))
    BY CommittedVoteWeighs
  <2>3. \A c \in ScriptNamed(tx, j) : c \in Dao /\ LockOf[c] = v
    BY <2>1, ScriptNamedIsOwnDao DEF Commit
  <2>4. CapacityIn(backing'[v]) = CapacityIn(ScriptNamed(tx, j))
    BY <2>1, Zenon
  <2> QED
    BY <2>1, <2>2, <2>3, <2>4
<1>2. CASE /\ vote_map'[v] = vote_map[v] /\ vote_map'[v] # None
           /\ backing'[v] = backing[v]
  <2>1. CapacityIn(backing'[v]) = CapacityIn(backing[v])
    BY <1>2, Zenon
  <2> QED
    BY <1>2, <2>1 DEF AmountIsBacked, Voted
<1> QED
  BY <1>1, <1>2, VoteAndBacking DEF Voted

\* Every step keeps the weight of every vote that counts.
LEMMA StepAmountIsBacked ==
  ASSUME ~GroupBefore, ~RepeatIndex, SupplyFits, TypeOK, AmountIsBacked, [Next]_vars
  PROVE  AmountIsBacked'
<1>1. CASE Cast \/ MoveDeposits
  BY <1>1, CommitStep, CommitAmountIsBacked
<1>2. CASE ~(Cast \/ MoveDeposits)
  BY <1>2, OtherSteps DEF AmountIsBacked, Voted, CapacityIn
<1> QED
  BY <1>1, <1>2

\* In the beginning there are no votes.
LEMMA InitAmountIsBacked == Init => AmountIsBacked
BY DEF Init, AmountIsBacked, Voted

\* As long as no index is repeated, no dep_group stands in front of a deposit and
\* the deposits that exist are worth no more than 64 bits hold, a counted vote
\* weighs exactly the capacity of the distinct deposits of its voter that the
\* vote type script has seen behind it.
THEOREM VotesWeighTheirDeposits ==
  ASSUME ~GroupBefore, ~RepeatIndex
  PROVE  Spec /\ []SupplyFits => []AmountIsBacked
BY InitAmountIsBacked, StepAmountIsBacked, TypeCorrect, PTL DEF Spec

-----------------------------------------------------------------------------
\* What the votes of some voters weigh together is the capacity of all the
\* deposits behind them.
LEMMA VotesWeighTogether ==
  ASSUME TypeOK, AmountIsBacked, NEW V, V \subseteq Lock, \A v \in V : Voted(v),
         NEW S, S = UNION {backing[v] : v \in V}
  PROVE  /\ S \subseteq Dao
         /\ SumFunctionOnSet([v \in V |-> vote_map[v].amount], V) = CapacityIn(S)
<1> DEFINE u == [v \in V |-> vote_map[v].amount]
           b == [v \in V |-> backing[v]]
<1>1. S \subseteq Dao
  BY DEF AmountIsBacked
<1>2. IsFiniteSet(S) /\ \A x \in S : CapacityOf[x] \in Nat
  <2>1. IsFiniteSet(S)
    BY <1>1, DaoSums
  <2>2. \A x \in Dao : CapacityOf[x] \in Nat
    BY CellsAssumption DEF CellsAssumption
  <2> QED
    BY <1>1, <2>1, <2>2
<1>3. IsFiniteSet(V)
  BY FinitelyMany, FS_Subset DEF FinitelyMany
<1>4. b \in [V -> SUBSET S]
  OBVIOUS
<1>5. \A v \in V : u[v] = SumFunctionOnSet(CapacityOf, b[v])
  BY DEF AmountIsBacked, CapacityIn
<1>6. \A v, z \in V : v # z => b[v] \cap b[z] = {}
  BY DEF AmountIsBacked
<1>7. \A x \in S : \E v \in V : x \in b[v]
  OBVIOUS
<1> HIDE DEF u, b
<1>8. SumFunctionOnSet(u, V) = SumFunctionOnSet(CapacityOf, S)
  BY <1>2, <1>3, <1>4, <1>5, <1>6, <1>7, SumOfFamily
<1> QED
  BY <1>1, <1>8 DEF u, CapacityIn

\* The deposits behind the votes of some voters.
Behind(V) == UNION {backing[v] : v \in V}

\* The sums of the tally are the capacities of the deposits behind YES and NO,
\* which have no deposit in common and are all live.
LEMMA TallySums ==
  ASSUME TypeOK, BackingAlive, AmountIsBacked, SupplyFits
  PROVE  LET yes == Behind(Yes(vote_map))
             no  == Behind(No(vote_map))
         IN  /\ yes \subseteq live \cap Dao /\ no \subseteq live \cap Dao
             /\ yes \cap no = {}
             /\ CapacityIn(yes) \in Nat /\ CapacityIn(no) \in Nat
             /\ CapacityIn(yes) + CapacityIn(no) = CapacityIn(yes \cup no)
             /\ CapacityIn(yes \cup no) <= CapacityIn(live \cap Dao)
             /\ Tally(vote_map).yes_vote = CapacityIn(yes)
             /\ Tally(vote_map).no_vote = CapacityIn(no)
<1> DEFINE Y == Yes(vote_map)
           N == No(vote_map)
           yes == Behind(Y)
           no == Behind(N)
<1>1. Y \subseteq Lock /\ N \subseteq Lock /\ Y \cap N = {} /\ \A v \in Y \cup N : Voted(v)
  BY DEF Yes, No, Voted
<1> HIDE DEF Y, N
<1>2. /\ yes \subseteq Dao /\ no \subseteq Dao
      /\ SumFunctionOnSet([v \in Y |-> vote_map[v].amount], Y) = CapacityIn(yes)
      /\ SumFunctionOnSet([v \in N |-> vote_map[v].amount], N) = CapacityIn(no)
  BY <1>1, VotesWeighTogether DEF Behind
<1>3. yes \subseteq live /\ no \subseteq live
  BY <1>1 DEF BackingAlive, Behind
<1>4. yes \cap no = {}
  <2> SUFFICES ASSUME NEW c \in yes \cap no PROVE FALSE
    OBVIOUS
  <2>1. PICK v \in Y, z \in N : c \in backing[v] /\ c \in backing[z]
    BY DEF Behind
  <2> QED
    BY <1>1, <2>1 DEF AmountIsBacked
<1> HIDE DEF yes, no
<1>5. /\ CapacityIn(yes) \in Nat /\ CapacityIn(no) \in Nat
      /\ IsFiniteSet(yes) /\ IsFiniteSet(no)
      /\ CapacityIn(live \cap Dao) \in Nat
      /\ CapacityIn(yes \cup no) \in Nat
      /\ CapacityIn(yes \cup no) <= CapacityIn(live \cap Dao)
  BY <1>2, <1>3, DaoSums
<1>6. CapacityIn(yes \cup no) = CapacityIn(yes) + CapacityIn(no)
  <2>1. \A x \in yes \cup no : CapacityOf[x] \in Nat
    BY <1>2, CellsAssumption DEF CellsAssumption
  <2> QED
    BY <1>4, <1>5, <2>1, SumOfUnion DEF CapacityIn
<1>7. U64Max \in Nat /\ CapacityIn(yes) <= U64Max /\ CapacityIn(no) <= U64Max
  BY <1>5, <1>6, CellsAssumption DEF SupplyFits, CellsAssumption
<1>8. SumOf(vote_map, Y) = CapacityIn(yes) /\ SumOf(vote_map, N) = CapacityIn(no)
  BY <1>2, <1>5, <1>7 DEF SumOf, Saturate
<1>9. Tally(vote_map).yes_vote = CapacityIn(yes) /\ Tally(vote_map).no_vote = CapacityIn(no)
  BY <1>8 DEF Tally, Y, N
<1> QED
  BY <1>2, <1>3, <1>4, <1>5, <1>6, <1>9 DEF yes, no, Y, N

\* With transactions like those of the SDK, all the counted votes together never
\* weigh more than the deposits that exist, however deposits were moved and votes
\* recast: no shannon counts twice.
THEOREM NoShannonCountsTwice ==
  ASSUME ~GroupBefore, ~SpendNamed, ~RepeatIndex
  PROVE  Spec /\ []SupplyFits => []NoShannonTwice
<1>1. TypeOK /\ BackingAlive /\ AmountIsBacked /\ SupplyFits => NoShannonTwice
  BY TallySums DEF NoShannonTwice
<1> QED
  BY <1>1, TypeCorrect, BackingStaysAlive, VotesWeighTheirDeposits, PTL

-----------------------------------------------------------------------------
\* The published result is the tally of the votes as they are.
ResultIsTally == result # None => result = Tally(vote_map)

\* The window is closed once, after the last of the votes.
LEMMA ResultStaysTally == Spec => []ResultIsTally
<1>1. Init => ResultIsTally
  BY DEF Init, ResultIsTally
<1>2. ResultIsTally /\ [Next]_vars => ResultIsTally'
  <2> SUFFICES ASSUME ResultIsTally, [Next]_vars PROVE ResultIsTally'
    OBVIOUS
  <2>1. CASE Cast \/ MoveDeposits
    <3>1. PICK tx : Commit(tx)
      BY <2>1 DEF Cast, MoveDeposits
    <3> QED
      BY <3>1 DEF Commit, ResultIsTally
  <2>2. CASE NextBlock \/ UNCHANGED vars
    <3>1. result' = result /\ vote_map' = vote_map
      BY <2>2 DEF NextBlock, vars, maps
    <3>2. Tally(vote_map)' = Tally(vote_map)
      BY <3>1 DEF Tally, SumOf, Yes, No
    <3> QED
      BY <3>1, <3>2 DEF ResultIsTally
  <2>3. CASE CloseWindow
    <3>1. result' = Tally(vote_map) /\ vote_map' = vote_map
      BY <2>3 DEF CloseWindow, maps
    <3>2. Tally(vote_map)' = Tally(vote_map)
      BY <3>1 DEF Tally, SumOf, Yes, No
    <3> QED
      BY <3>1, <3>2 DEF ResultIsTally
  <2> QED
    BY <2>1, <2>2, <2>3 DEF Next
<1> QED
  BY <1>1, <1>2, PTL DEF Spec

\* If the minimal requirement in shannon is a 64-bit number, a proposal passes
\* only if the unspent deposits behind YES outweigh those behind NO and both
\* exceed the requirement, for any number of voters, deposits and blocks.
THEOREM PassedIsDeservedAlways ==
  ASSUME ~GroupBefore, ~SpendNamed, ~RepeatIndex,
         MinimalRequirement * ShannonPerCkb <= U64Max
  PROVE  Spec /\ []SupplyFits => []PassedIsDeserved
<1>1. ASSUME TypeOK, BackingAlive, AmountIsBacked, SupplyFits, ResultIsTally
      PROVE  PassedIsDeserved
  <2> SUFFICES ASSUME result # None, result.passed
               PROVE  LET behind(vs) == CapacityIn(UNION {backing[v] \cap live : v \in vs})
                      IN  /\ behind(Yes(vote_map)) > behind(No(vote_map))
                          /\ behind(Yes(vote_map) \cup No(vote_map)) >
                               MinimalRequirement * ShannonPerCkb
    BY DEF PassedIsDeserved
  <2> DEFINE yes == Behind(Yes(vote_map))
             no == Behind(No(vote_map))
  <2>1. \A v \in Yes(vote_map) \cup No(vote_map) : backing[v] \cap live = backing[v]
    BY <1>1 DEF Yes, No, BackingAlive, Voted
  <2>2. /\ UNION {backing[v] \cap live : v \in Yes(vote_map)} = yes
        /\ UNION {backing[v] \cap live : v \in No(vote_map)} = no
        /\ UNION {backing[v] \cap live : v \in Yes(vote_map) \cup No(vote_map)} = yes \cup no
    BY <2>1 DEF Behind
  <2>3. /\ CapacityIn(UNION {backing[v] \cap live : v \in Yes(vote_map)}) = CapacityIn(yes)
        /\ CapacityIn(UNION {backing[v] \cap live : v \in No(vote_map)}) = CapacityIn(no)
        /\ CapacityIn(UNION {backing[v] \cap live : v \in Yes(vote_map) \cup No(vote_map)})
             = CapacityIn(yes \cup no)
    BY <2>2, Zenon
  <2>4. result = Tally(vote_map)
    BY <1>1 DEF ResultIsTally
  <2>5. /\ CapacityIn(yes) \in Nat /\ CapacityIn(no) \in Nat
        /\ CapacityIn(yes) + CapacityIn(no) = CapacityIn(yes \cup no)
        /\ CapacityIn(yes \cup no) <= CapacityIn(live \cap Dao)
        /\ Tally(vote_map).yes_vote = CapacityIn(yes)
        /\ Tally(vote_map).no_vote = CapacityIn(no)
    BY <1>1, TallySums
  <2>6. Tally(vote_map).passed = Passed(Tally(vote_map).yes_vote, Tally(vote_map).no_vote)
    BY DEF Tally
  <2> HIDE DEF yes, no
  <2>7. Passed(CapacityIn(yes), CapacityIn(no))
    BY <2>4, <2>5, <2>6
  <2>8. MinShannon = MinimalRequirement * ShannonPerCkb
    <3>1. MinimalRequirement \in Nat /\ ShannonPerCkb \in Nat /\ U64Max \in Nat
      BY RequirementAssumption, CellsAssumption DEF RequirementAssumption, CellsAssumption
    <3> DEFINE product == MinimalRequirement * ShannonPerCkb
    <3>2. product \in Nat
      BY <3>1
    <3> HIDE DEF product
    <3>3. product <= U64Max => product % (U64Max + 1) = product
      BY <3>1, <3>2
    <3> QED
      BY <3>3 DEF product, MinShannon
  <2>9. CapacityIn(yes) + CapacityIn(no) \in 0..U64Max
    <3>1. U64Max \in Nat
      BY CellsAssumption DEF CellsAssumption
    <3>2. CapacityIn(live \cap Dao) \in Nat
      BY DaoSums
    <3> QED
      BY <1>1, <2>5, <3>1, <3>2 DEF SupplyFits
  <2>10. CapacityIn(yes) > CapacityIn(no) /\ CapacityIn(yes) + CapacityIn(no) > MinShannon
    BY <2>7, <2>9 DEF Passed, Saturate
  <2> QED
    BY <2>3, <2>5, <2>8, <2>10
<1>2. TypeOK /\ BackingAlive /\ AmountIsBacked /\ SupplyFits /\ ResultIsTally => PassedIsDeserved
  BY <1>1
<1> QED
  BY <1>2, TypeCorrect, BackingStaysAlive, VotesWeighTheirDeposits, ResultStaysTally, PTL

(***************************************************************************)
(* The voting window implements the ballot box.                             *)
(***************************************************************************)
\* The deposits that a voter has pledged.
Pledged(v) == {c \in Dao : dao_outpoint_to_voter[c] = v}

\* The worth of pledges is the capacity of the cells.
LEMMA WorthIsCapacity ==
  ASSUME NEW ds
  PROVE  Box!Worth(ds) = CapacityIn(ds)
BY DEF Box!Worth, Box!SumFunctionOnSet, Box!FoldFunctionOnSet, Box!MapThenFoldSet,
       CapacityIn, SumFunctionOnSet, FoldFunctionOnSet, MapThenFoldSet

\* Both actions that touch the ledger commit a transaction that spends deposits only.
LEMMA CommitSpendsDeposits ==
  ASSUME TypeOK, Cast \/ MoveDeposits
  PROVE  \E tx \in Tx : Commit(tx) /\ tx.inputs \subseteq live \cap Dao
<1>1. CASE Cast
  <2>1. PICK inputs \in SUBSET (live \cap Dao), deps \in DepLists,
             outs \in OutputLists, payer \in Lock :
          Commit([inputs |-> inputs, payer |-> payer, cell_deps |-> deps,
                  outputs |-> outs, creates |-> {}])
    BY <1>1 DEF Cast
  <2> DEFINE tx == [inputs |-> inputs, payer |-> payer, cell_deps |-> deps,
                    outputs |-> outs, creates |-> {}]
  <2>2. inputs \in SUBSET OutPoint
    BY DEF TypeOK
  <2>3. tx \in Tx
    BY <2>2, TxType
  <2>4. tx.inputs = inputs
    OBVIOUS
  <2> HIDE DEF tx
  <2> QED
    BY <2>1, <2>3, <2>4 DEF tx
<1>2. CASE MoveDeposits
  <2>1. PICK inputs \in SUBSET (live \cap Dao), creates \in SUBSET Dao, payer \in Lock :
          Commit([inputs |-> inputs, payer |-> payer, cell_deps |-> <<>>,
                  outputs |-> <<>>, creates |-> creates])
    BY <1>2 DEF MoveDeposits
  <2> DEFINE tx == [inputs |-> inputs, payer |-> payer, cell_deps |-> <<>>,
                    outputs |-> <<>>, creates |-> creates]
  <2>2. inputs \in SUBSET OutPoint
    BY DEF TypeOK
  <2>3. tx \in Tx
    BY <2>2, TxType
  <2>4. tx.inputs = inputs
    OBVIOUS
  <2> HIDE DEF tx
  <2> QED
    BY <2>1, <2>3, <2>4 DEF tx
<1> QED
  BY <1>1, <1>2

\* The pledges of a voter after a transaction that casts no vote: those it has not
\* spent; and of a transaction that casts one: what the vote names as well.
LEMMA PledgesAfter ==
  ASSUME ~GroupBefore, RegInv, NEW tx \in Tx, Commit(tx), NEW v \in Lock
  PROVE  Pledged(v)' = (Pledged(v) \ tx.inputs) \cup
                       UNION {ScriptNamed(tx, j) : j \in {k \in Counted(tx) : tx.outputs[k].lock = v}}
<1> DEFINE named == UNION {ScriptNamed(tx, j) : j \in {k \in Counted(tx) : tx.outputs[k].lock = v}}
<1>0. /\ VoteScriptAccepts(tx) /\ WellBuilt(tx)
      /\ dao_outpoint_to_voter' = OwnersAfter(tx, dao_outpoint_to_voter)
  BY DEF Commit
<1> SUFFICES ASSUME NEW c \in Dao
             PROVE  dao_outpoint_to_voter'[c] = v <=>
                      \/ dao_outpoint_to_voter[c] = v /\ c \notin tx.inputs
                      \/ c \in named
  <2>1. named \subseteq Dao
    BY <1>0, ScriptNamedIsOwnDao
  <2> QED
    BY <2>1 DEF Pledged
<1>1. c \in OutPoint /\ v # None
  BY CellsAssumption DEF CellsAssumption
<1>2. CASE \E j \in Counted(tx) : c \in ScriptNamed(tx, j)
  <2>1. PICK j \in Counted(tx) : c \in ScriptNamed(tx, j)
    BY <1>2
  <2>2. c \in Named(tx, j)
    BY <1>0, <2>1, NamedIsScriptNamed
  <2>3. dao_outpoint_to_voter'[c] = tx.outputs[j].lock
    BY <1>0, <1>1, <2>2, OwnerOfCell
  <2>4. LockOf[c] = tx.outputs[j].lock
    BY <1>0, <2>1, ScriptNamedIsOwnDao
  <2>5. Counted(tx) = {j}
    BY <1>0, CountedIsValid
  <2>6. dao_outpoint_to_voter[c] = v => LockOf[c] = v
    BY <1>1 DEF RegInv, OwnRegistration
  <2>7. c \in named <=> tx.outputs[j].lock = v
    BY <2>1, <2>5
  <2> QED
    BY <2>3, <2>4, <2>6, <2>7
<1>3. CASE \A j \in Counted(tx) : c \notin ScriptNamed(tx, j)
  <2>1. \A j \in Counted(tx) : c \notin Named(tx, j)
    BY <1>0, <1>3, NamedIsScriptNamed
  <2>2. dao_outpoint_to_voter'[c] =
          IF c \in tx.inputs THEN None ELSE dao_outpoint_to_voter[c]
    BY <1>0, <1>1, <2>1, OwnerOfCell
  <2>3. c \notin named
    BY <1>3
  <2> HIDE DEF named
  <2> QED
    BY <1>1, <2>2, <2>3
<1> QED
  BY <1>2, <1>3

\* The inputs invalidate the vote of a voter exactly if they spend a pledge of his.
LEMMA InvalidatedByPledge ==
  ASSUME RegInv, NEW tx \in Tx, NEW v \in Lock
  PROVE  v \in Invalidated(tx, dao_outpoint_to_voter) <=> Pledged(v) \cap tx.inputs # {}
<1>1. v # None
  BY CellsAssumption DEF CellsAssumption
<1>2. \A c \in tx.inputs : dao_outpoint_to_voter[c] = v => c \in Dao
  BY <1>1 DEF RegInv, OwnRegistration, Tx
<1> QED
  BY <1>1, <1>2 DEF Invalidated, Pledged

\* Committing a transaction is a step of the ballot box: it retires what it
\* spends, and a vote in it pledges the cells that the script has seen.
LEMMA CommitIsBoxStep ==
  ASSUME ~GroupBefore, ~SpendNamed, ~RepeatIndex, RegInv, SupplyFits,
         NEW tx \in Tx, Commit(tx), tx.inputs \subseteq live \cap Dao
  PROVE  Box!BoxNext
<1> DEFINE ds == tx.inputs
<1>0. /\ VoteScriptAccepts(tx) /\ WellBuilt(tx) /\ TypeOK
      /\ spent' = spent \cup ds
  BY DEF Commit, RegInv
<1>1. ds \in SUBSET (Dao \ spent)
  BY DEF RegInv, SpentIsGone
<1>2. vote_map' = [v \in Lock |-> vote_map'[v]]
  <2>1. vote_map' \in [Lock -> Ballot \cup {None}]
    BY <1>0, CommitTypeOK DEF TypeOK
  <2> QED
    BY <2>1
<1>3. CASE Counted(tx) = {}
  <2>1. \A v \in Lock : Pledged(v)' = Pledged(v) \ ds
    BY <1>3, PledgesAfter
  <2>2. \A v \in Lock : vote_map'[v] = IF Pledged(v) \cap ds # {} THEN None ELSE vote_map[v]
    BY <1>0, <1>3, VoteAndBacking, InvalidatedByPledge
  <2>3. [v \in Lock |-> {c \in Dao : dao_outpoint_to_voter'[c] = v}] =
          [v \in Lock |-> [z \in Lock |-> {c \in Dao : dao_outpoint_to_voter[c] = z}][v] \ ds]
    BY <2>1 DEF Pledged
  <2>4. vote_map' = [v \in Lock |->
          IF [z \in Lock |-> {c \in Dao : dao_outpoint_to_voter[c] = z}][v] \cap ds # {}
          THEN None ELSE vote_map[v]]
    BY <1>2, <2>2 DEF Pledged
  <2>5. Box!Retire(ds)
    BY <1>0, <2>3, <2>4 DEF Box!Retire
  <2> QED
    BY <1>1, <2>5 DEF Box!BoxNext
<1>4. CASE Counted(tx) # {}
  <2>1. PICK j \in Counted(tx) : TRUE
    BY <1>4
  <2> DEFINE ps == ScriptNamed(tx, j)
             voter == tx.outputs[j].lock
             direction == tx.outputs[j].vote
  <2>2. /\ Counted(tx) = {j} /\ j \in GroupOutput(tx)
        /\ tx.outputs[j] \in VoteCell /\ CastIsValid(tx, tx.outputs[j])
    BY <1>0, CountedIsValid
  <2>3. voter \in Lock /\ direction \in {0, 1}
    BY <2>2 DEF VoteCell, CastIsValid
  <2>4. \A c \in ps : c \in Dao /\ LockOf[c] = voter
    BY <1>0, ScriptNamedIsOwnDao
  <2>5. ps # {}
    <3>1. tx.outputs[j].dao_index \in Seq(Nat) /\ tx.outputs[j].dao_index # <<>>
      BY <2>2 DEF VoteCell, CastIsValid
    <3>2. 1 \in DOMAIN tx.outputs[j].dao_index
      BY <3>1
    <3>3. IsDaoDep(tx, tx.outputs[j].dao_index[1], voter)
      BY <2>2, <3>2 DEF CastIsValid
    <3> QED
      BY <3>2, <3>3 DEF ScriptNamed, Resolved, IsDaoDep, ToSet
  <2>6. ps \cap (spent \cup ds) = {}
    <3>1. ps \subseteq live
      BY NamedIsLive
    <3>2. ps \cap ds = {}
      BY <1>0, <2>2 DEF WellBuilt
    <3> QED
      BY <3>1, <3>2 DEF RegInv, SpentIsGone
  <2>7. \A v \in Lock :
          Pledged(v)' = IF v = voter THEN (Pledged(v) \ ds) \cup ps ELSE Pledged(v) \ ds
    <3> SUFFICES ASSUME NEW v \in Lock
                 PROVE  Pledged(v)' = IF v = voter THEN (Pledged(v) \ ds) \cup ps
                                      ELSE Pledged(v) \ ds
      OBVIOUS
    <3>1. UNION {ScriptNamed(tx, k) : k \in {l \in Counted(tx) : tx.outputs[l].lock = v}}
            = IF v = voter THEN ps ELSE {}
      BY <2>2
    <3> QED
      BY <3>1, PledgesAfter
  <2>8. tx.outputs[j].amount = CapacityIn(ps)
    BY <1>0, CommittedVoteWeighs
  <2>9. \A v \in Lock :
          vote_map'[v] = IF v = voter THEN [direction |-> direction, amount |-> CapacityIn(ps)]
                         ELSE IF Pledged(v) \cap ds # {} THEN None ELSE vote_map[v]
    <3> SUFFICES ASSUME NEW v \in Lock
                 PROVE  vote_map'[v] =
                          IF v = voter
                          THEN [direction |-> direction, amount |-> CapacityIn(ps)]
                          ELSE IF Pledged(v) \cap ds # {} THEN None ELSE vote_map[v]
      OBVIOUS
    <3> DEFINE Now(k) == vote_map'[v] = [direction |-> tx.outputs[k].vote,
                                          amount |-> tx.outputs[k].amount]
               Kept == IF v \in Invalidated(tx, dao_outpoint_to_voter)
                       THEN vote_map'[v] = None ELSE vote_map'[v] = vote_map[v]
    <3>0. \/ \E k \in Counted(tx) : tx.outputs[k].lock = v /\ Now(k)
          \/ (\A k \in Counted(tx) : tx.outputs[k].lock # v) /\ Kept
      BY <1>0, VoteAndBacking
    <3>1. CASE v = voter
      <4>1. Now(j)
        <5> HIDE DEF Now, Kept
        <5> QED
          BY <2>2, <3>0, <3>1
      <4> QED
        BY <2>8, <3>1, <4>1
    <3>2. CASE v # voter
      <4>1. vote_map'[v] = IF v \in Invalidated(tx, dao_outpoint_to_voter) THEN None
                           ELSE vote_map[v]
        <5>1. Kept
          <6> HIDE DEF Now, Kept
          <6> QED
            BY <2>2, <3>0, <3>2
        <5> QED
          BY <5>1
      <4> QED
        BY <3>2, <4>1, InvalidatedByPledge
    <3> QED
      BY <3>1, <3>2
  <2>10. [v \in Lock |-> {c \in Dao : dao_outpoint_to_voter'[c] = v}] =
          [v \in Lock |->
             IF v = voter
             THEN ([z \in Lock |-> {c \in Dao : dao_outpoint_to_voter[c] = z}][v] \ ds) \cup ps
             ELSE [z \in Lock |-> {c \in Dao : dao_outpoint_to_voter[c] = z}][v] \ ds]
    BY <2>7 DEF Pledged
  <2>11. vote_map' = [v \in Lock |->
          IF v = voter THEN [direction |-> direction, amount |-> Box!Worth(ps)]
          ELSE IF [z \in Lock |-> {c \in Dao : dao_outpoint_to_voter[c] = z}][v] \cap ds # {}
          THEN None ELSE vote_map[v]]
    BY <1>2, <2>9, WorthIsCapacity DEF Pledged
  <2> HIDE DEF ps, voter, direction
  <2>12. Box!CastBallot(voter, direction, ps, ds)
    BY <1>0, <2>4, <2>5, <2>6, <2>10, <2>11 DEF Box!CastBallot
  <2>13. ps \in SUBSET Dao
    BY <2>4
  <2> QED
    BY <1>1, <2>3, <2>12, <2>13 DEF Box!BoxNext
<1> QED
  BY <1>3, <1>4

\* With transactions like those of the SDK, and deposits that are worth no more
\* than 64 bits hold, the replay of what the scripts let through is a run of the
\* abstract ballot box: each counted vote is the last one of its voter, weighs the
\* unspent deposits pledged for it, and disappears with the first pledge spent.
THEOREM WindowImplementsBallotBox ==
  ASSUME ~GroupBefore, ~SpendNamed, ~RepeatIndex
  PROVE  Spec /\ []SupplyFits => ImplementsBallotBox
<1> DEFINE pledges == [v \in Lock |-> {c \in Dao : dao_outpoint_to_voter[c] = v}]
<1>1. Init => Box!BoxInit
  <2> SUFFICES ASSUME Init PROVE Box!BoxInit
    OBVIOUS
  <2>1. \A v \in Lock : {c \in Dao : dao_outpoint_to_voter[c] = v} = {}
    BY CellsAssumption DEF Init, CellsAssumption
  <2> QED
    BY <2>1 DEF Init, Box!BoxInit
<1>2. RegInv /\ SupplyFits /\ [Next]_vars => [Box!BoxNext]_<<vote_map, pledges, spent>>
  <2> SUFFICES ASSUME RegInv, SupplyFits, [Next]_vars
               PROVE  Box!BoxNext \/ UNCHANGED <<vote_map, pledges, spent>>
    OBVIOUS
  <2>1. CASE Cast \/ MoveDeposits
    BY <2>1, CommitSpendsDeposits, CommitIsBoxStep DEF RegInv
  <2>2. CASE ~(Cast \/ MoveDeposits)
    BY <2>2, OtherSteps
  <2> QED
    BY <2>1, <2>2
<1> QED
  BY <1>1, <1>2, RegInvInductive, PTL DEF Spec, ImplementsBallotBox, Box!BoxSpec
-----------------------------------------------------------------------------
(***************************************************************************)
(* The voters use the SDK.                                                  *)
(***************************************************************************)
(***************************************************************************)
(* The invariant of VotingWallet.                                           *)
(***************************************************************************)
Scanning == [phase: {"scanning"}, at: Nat, daoCells: Seq(Dao)]
Holding  == [phase: {"built", "sent"}, tx: Tx]

WalletType == wallet \in [Lock -> {None} \cup Scanning \cup Holding]

\* A voter's transaction votes for himself.
VotesFor(v, tx) == \A j \in DOMAIN tx.outputs : tx.outputs[j].lock = v

\* His vote names every deposit that Map2 has for him.
NamesAll(v, tx, owners) ==
  \A j \in DOMAIN tx.outputs : \A c \in OutPoint :
     owners[c] = v => c \in Named(tx, j)

\* The scan has all of them in front of its cursor.
Covers(v) ==
  \A k \in DOMAIN ScanOrder :
     k <= wallet[v].at /\ dao_outpoint_to_voter[ScanOrder[k]] = v
        => ScanOrder[k] \in ToSet(wallet[v].daoCells)

Prepared(v) ==
  wallet[v] # None =>
    /\ wallet[v] \in Scanning => Covers(v)
    /\ wallet[v] \in Holding =>
         VotesFor(v, wallet[v].tx) /\ NamesAll(v, wallet[v].tx, dao_outpoint_to_voter)

\* All that Map2 has for a voter is behind the vote that counts for him.
NothingStale ==
  \A v \in Lock : \A c \in OutPoint :
     Voted(v) /\ dao_outpoint_to_voter[c] = v => c \in backing[v]

WalletInv ==
  /\ RegInv /\ RegisteredAlive
  /\ WalletType /\ NothingStale
  /\ \A v \in Lock : Prepared(v)

(***************************************************************************)
(* The phases are told apart by their types.                                *)
(***************************************************************************)
LEMMA Phases ==
  ASSUME WalletType, NEW v \in Lock
  PROVE  /\ In(v, "scanning") => wallet[v] \in Scanning
         /\ In(v, "built") \/ In(v, "sent") => wallet[v] \in Holding
         /\ wallet[v] \notin Scanning \cap Holding
<1>1. wallet[v] \in {None} \cup Scanning \cup Holding
  BY DEF WalletType
<1> QED
  BY <1>1 DEF In, Scanning, Holding

\* A step that leaves Map2 alone, and the command of v, leaves v prepared.
LEMMA StaysPrepared ==
  ASSUME NEW v \in Lock, Prepared(v), wallet'[v] = wallet[v],
         \A c \in OutPoint : dao_outpoint_to_voter'[c] = v => dao_outpoint_to_voter[c] = v
  PROVE  Prepared(v)'
<1>1. ASSUME wallet[v] # None, wallet[v] \in Scanning
      PROVE  Covers(v)'
  <2>1. \A k \in DOMAIN ScanOrder : ScanOrder[k] \in OutPoint
    BY WalletAssumption, CellsAssumption DEF WalletAssumption, CellsAssumption
  <2> QED
    BY <1>1, <2>1 DEF Prepared, Covers
<1>2. ASSUME wallet[v] # None, wallet[v] \in Holding
      PROVE  /\ VotesFor(v, wallet[v].tx)'
             /\ NamesAll(v, wallet[v].tx, dao_outpoint_to_voter)'
  BY <1>2 DEF Prepared, VotesFor, NamesAll
<1> QED
  BY <1>1, <1>2 DEF Prepared

(***************************************************************************)
(* What the commands build.                                                 *)
(***************************************************************************)
\* Appending to a sequence adds one element.
LEMMA ToSetOfAppend ==
  ASSUME NEW S, NEW seq \in Seq(S), NEW e \in S
  PROVE  Append(seq, e) \in Seq(S) /\ ToSet(Append(seq, e)) = ToSet(seq) \cup {e}
<1>1. /\ Append(seq, e) \in Seq(S) /\ Len(seq) \in Nat
      /\ DOMAIN seq = 1..Len(seq) /\ DOMAIN Append(seq, e) = 1..(Len(seq) + 1)
  OBVIOUS
<1>2. \A i \in 1..Len(seq) : Append(seq, e)[i] = seq[i]
  OBVIOUS
<1>3. Append(seq, e)[Len(seq) + 1] = e
  OBVIOUS
<1>4. \A i \in 1..(Len(seq) + 1) : i \in 1..Len(seq) \/ i = Len(seq) + 1
  BY <1>1
<1>5. ToSet(Append(seq, e)) \subseteq ToSet(seq) \cup {e}
  BY <1>1, <1>2, <1>3, <1>4 DEF ToSet
<1>6. ToSet(seq) \subseteq ToSet(Append(seq, e))
  <2> SUFFICES ASSUME NEW i \in 1..Len(seq)
               PROVE  \E n \in DOMAIN Append(seq, e) : Append(seq, e)[n] = seq[i]
    BY <1>1 DEF ToSet
  <2>1. i \in DOMAIN Append(seq, e)
    BY <1>1
  <2> QED
    BY <1>2, <2>1
<1>7. e \in ToSet(Append(seq, e))
  <2>1. Len(seq) + 1 \in DOMAIN Append(seq, e)
    BY <1>1
  <2> QED
    BY <1>3, <2>1 DEF ToSet
<1> QED
  BY <1>1, <1>5, <1>6, <1>7

\* The scan goes on to the next deposit and misses none.
LEMMA ScanCovers ==
  ASSUME WalletInv, NEW v \in Lock, Scan(v)
  PROVE  WalletType' /\ Covers(v)' /\ wallet'[v] \in Scanning
<1>1. wallet[v] \in Scanning /\ Covers(v)
  BY Phases DEF WalletInv, Prepared, Scan, In
<1>2. PICK k \in Ahead(v) :
        /\ \A j \in Ahead(v) : k <= j
        /\ Becomes(v, [phase |-> "scanning", at |-> k,
                       daoCells |-> Append(wallet[v].daoCells, ScanOrder[k])])
  BY DEF Scan
<1> DEFINE old == wallet[v].daoCells
           new == Append(old, ScanOrder[k])
<1>3. old \in Seq(Dao) /\ wallet[v].at \in Nat
  BY <1>1 DEF Scanning
<1>4. ScanOrder \in Seq(Dao) /\ k \in DOMAIN ScanOrder /\ ScanOrder[k] \in Dao /\ k \in Nat
  BY <1>2, WalletAssumption DEF WalletAssumption, Ahead
<1>5. new \in Seq(Dao) /\ ToSet(new) = ToSet(old) \cup {ScanOrder[k]}
  BY <1>3, <1>4, ToSetOfAppend
<1>6. wallet' = [wallet EXCEPT ![v] = [phase |-> "scanning", at |-> k, daoCells |-> new]]
  BY <1>2 DEF Becomes
<1>7. wallet'[v] = [phase |-> "scanning", at |-> k, daoCells |-> new]
  BY <1>6 DEF WalletInv, WalletType
<1>8. wallet'[v] \in Scanning
  BY <1>4, <1>5, <1>7 DEF Scanning
<1>9. WalletType'
  BY <1>6, <1>7, <1>8 DEF WalletInv, WalletType
<1>10. UNCHANGED dao_outpoint_to_voter
  BY DEF Scan, vars, maps
<1>11. Covers(v)'
  <2> SUFFICES ASSUME NEW j \in DOMAIN ScanOrder, j <= k,
                      dao_outpoint_to_voter[ScanOrder[j]] = v
               PROVE  ScanOrder[j] \in ToSet(new)
    BY <1>7, <1>10 DEF Covers
  <2>1. j \in Nat /\ ScanOrder[j] \in Dao /\ ScanOrder[j] \in OutPoint
    BY <1>4, CellsAssumption, SMTT(30) DEF CellsAssumption
  <2>2. CASE j <= wallet[v].at
    BY <1>1, <1>5, <2>2 DEF Covers
  <2>3. CASE j > wallet[v].at
    <3>1. ScanOrder[j] \in live /\ LockOf[ScanOrder[j]] = v
      BY <2>1, CellsAssumption
      DEF WalletInv, RegInv, RegisteredAlive, OwnRegistration, CellsAssumption
    <3>2. j \in Ahead(v)
      BY <2>3, <3>1 DEF Ahead
    <3>3. j = k
      BY <1>2, <1>4, <2>1, <3>2
    <3> QED
      BY <1>5, <3>3
  <2> QED
    BY <1>3, <2>1, <2>2, <2>3
<1> QED
  BY <1>8, <1>9, <1>11

\* Behind the two fixed dependencies the places of the deposits are right.
LEMMA VoteNames ==
  ASSUME NEW tx, NEW cells \in Seq(Dao), NEW first, NEW second,
         tx.cell_deps = <<first, second>> \o cells,
         tx.outputs[1].dao_index = [i \in DOMAIN cells |-> 1 + i]
  PROVE  ToSet(cells) \subseteq Named(tx, 1)
<1> SUFFICES ASSUME NEW i \in DOMAIN cells
             PROVE  cells[i] \in Named(tx, 1)
  BY DEF ToSet
<1>1. i \in Nat /\ i <= Len(cells) /\ i >= 1 /\ Len(cells) \in Nat
  OBVIOUS
<1>2. 1 + i \in ToSet(tx.outputs[1].dao_index)
  BY DEF ToSet
<1>3. Len(tx.cell_deps) = 2 + Len(cells) /\ tx.cell_deps[2 + i] = cells[i]
  BY <1>1
<1>4. 1 + i < Len(tx.cell_deps) /\ (1 + i) + 1 = 2 + i
  BY <1>1, <1>3
<1> QED
  BY <1>2, <1>3, <1>4 DEF Named

\* The vote names every deposit that Map2 has for the voter.
LEMMA BuildVoteNames ==
  ASSUME WalletInv, NEW v \in Lock, BuildVote(v)
  PROVE  WalletType' /\ Prepared(v)'
<1>1. wallet[v] \in Scanning /\ Covers(v)
  BY Phases DEF WalletInv, Prepared, BuildVote, In
<1>2. PICK cells \in Seq(Dao) : cells = wallet[v].daoCells /\ wallet[v].at \in Nat
  BY <1>1 DEF Scanning
<1>3. PICK vote \in {0, 1}, cell \in VoteCellsOf[v] \ (live \cup spent) :
        /\ VoteOutput(v, vote, cells).amount \in 0..U64Max
        /\ Becomes(v, [phase |-> "built",
                       tx |-> [inputs |-> {}, payer |-> v,
                               cell_deps |-> <<VoteContract, ProposalCell>> \o cells,
                               outputs |-> <<VoteOutput(v, vote, cells)>>,
                               creates |-> {cell}]])
  BY <1>2 DEF BuildVote
<1> DEFINE output == VoteOutput(v, vote, cells)
           tx == [inputs |-> {}, payer |-> v,
                  cell_deps |-> <<VoteContract, ProposalCell>> \o cells,
                  outputs |-> <<output>>, creates |-> {cell}]
<1>4. output \in VoteCell
  <2>1. [i \in DOMAIN cells |-> 1 + i] \in Seq(Nat)
    BY <1>2
  <2>2. ThisVote \in VoteType /\ vote \in 0..255 /\ "exact" \in Form
    BY CellsAssumption DEF CellsAssumption, Form
  <2> QED
    BY <1>3, <2>1, <2>2 DEF VoteOutput, VoteCell
<1>5. output.lock = v /\ output.dao_index = [i \in DOMAIN cells |-> 1 + i]
  BY DEF VoteOutput
<1> HIDE DEF output
<1>6. VoteContract \in OutPoint /\ ProposalCell \in OutPoint /\ cell \in OutPoint
  BY WalletAssumption, WindowAssumption DEF WalletAssumption, WindowAssumption
<1>7. cells \in Seq(OutPoint)
  BY <1>2, CellsAssumption DEF CellsAssumption
<1>8. tx \in Tx
  BY <1>4, <1>6, <1>7 DEF Tx
<1>9. DOMAIN tx.outputs = {1} /\ tx.outputs[1] = output
  OBVIOUS
<1>10. wallet' = [wallet EXCEPT ![v] = [phase |-> "built", tx |-> tx]]
  BY <1>3 DEF Becomes, output
<1>11. wallet'[v] = [phase |-> "built", tx |-> tx]
  BY <1>10 DEF WalletInv, WalletType
<1>12. WalletType'
  BY <1>8, <1>10 DEF WalletInv, WalletType, Holding
<1>13. UNCHANGED dao_outpoint_to_voter
  BY DEF BuildVote, vars, maps
<1>14. ASSUME NEW c \in OutPoint, dao_outpoint_to_voter[c] = v
       PROVE  c \in Named(tx, 1)
  <2>1. c \in Dao /\ LockOf[c] = v /\ c \in live
    BY <1>14, CellsAssumption
    DEF WalletInv, RegInv, RegisteredAlive, OwnRegistration, CellsAssumption
  <2>2. PICK k \in DOMAIN ScanOrder : ScanOrder[k] = c
    BY <2>1, WalletAssumption DEF WalletAssumption, ToSet
  <2>3. k \in Nat
    BY <2>2, WalletAssumption DEF WalletAssumption
  <2>4. k <= wallet[v].at
    BY <1>2, <2>1, <2>2, <2>3 DEF BuildVote, Ahead
  <2>5. c \in ToSet(cells)
    BY <1>1, <1>2, <1>14, <2>2, <2>4 DEF Covers
  <2>6. tx.cell_deps = <<VoteContract, ProposalCell>> \o cells
    OBVIOUS
  <2>7. tx.outputs[1].dao_index = [i \in DOMAIN cells |-> 1 + i]
    BY <1>5, <1>9
  <2> HIDE DEF tx
  <2>8. ToSet(cells) \subseteq Named(tx, 1)
    BY <1>2, <2>6, <2>7, VoteNames
  <2> QED
    BY <2>5, <2>8
<1> HIDE DEF tx
<1>15. VotesFor(v, tx) /\ NamesAll(v, tx, dao_outpoint_to_voter')
  BY <1>5, <1>9, <1>13, <1>14 DEF VotesFor, NamesAll
<1>16. wallet'[v] \notin Scanning /\ wallet'[v].tx = tx
  BY <1>11 DEF Scanning
<1> QED
  BY <1>12, <1>15, <1>16 DEF Prepared, VotesFor

\* Signing appends a dependency, and the vote names what it has named.
LEMMA SigningKeepsNames ==
  ASSUME NEW tx \in Tx
  PROVE  /\ Signed(tx) \in Tx
         /\ Signed(tx).outputs = tx.outputs
         /\ \A j \in DOMAIN tx.outputs : Named(tx, j) \subseteq Named(Signed(tx), j)
<1>1. tx.cell_deps \in Seq(OutPoint) /\ LockGroup \in OutPoint
  BY WalletAssumption, WindowAssumption DEF WalletAssumption, WindowAssumption, Tx
<1>2. /\ Signed(tx).outputs = tx.outputs
      /\ Signed(tx).cell_deps = Append(tx.cell_deps, LockGroup)
  BY DEF Signed, Tx
<1>3. Append(tx.cell_deps, LockGroup) \in Seq(OutPoint)
  BY <1>1
<1>4. Signed(tx) \in Tx
  BY <1>3 DEF Signed, Tx
<1>5. ASSUME NEW j \in DOMAIN tx.outputs
      PROVE  Named(tx, j) \subseteq Named(Signed(tx), j)
  <2> SUFFICES ASSUME NEW i \in ToSet(tx.outputs[j].dao_index), i < Len(tx.cell_deps)
               PROVE  tx.cell_deps[i + 1] \in Named(Signed(tx), j)
    BY DEF Named
  <2>1. i \in Nat
    <3>1. tx.outputs \in Seq(VoteCell)
      BY DEF Tx
    <3>2. tx.outputs[j] \in VoteCell
      BY <3>1
    <3>3. tx.outputs[j].dao_index \in Seq(Nat)
      BY <3>2 DEF VoteCell
    <3> QED
      BY <3>3 DEF ToSet
  <2>2. i < Len(Signed(tx).cell_deps) /\ Signed(tx).cell_deps[i + 1] = tx.cell_deps[i + 1]
    BY <1>1, <1>2, <2>1
  <2> QED
    BY <1>2, <2>2 DEF Named
<1> QED
  BY <1>2, <1>4, <1>5

(***************************************************************************)
(* What a committed transaction does to Map2.                               *)
(***************************************************************************)
\* Only a transaction that votes for v adds entries for v.
LEMMA EntriesOfOthers ==
  ASSUME NEW tx \in Tx, Commit(tx), NEW v \in Lock, NEW c \in OutPoint,
         \A j \in Counted(tx) : c \in Named(tx, j) => tx.outputs[j].lock # v,
         dao_outpoint_to_voter'[c] = v
  PROVE  dao_outpoint_to_voter[c] = v
<1>1. VoteScriptAccepts(tx) /\ dao_outpoint_to_voter' = OwnersAfter(tx, dao_outpoint_to_voter)
  BY DEF Commit
<1>2. \A j \in Counted(tx) : c \notin Named(tx, j)
  BY <1>1, OwnerOfCell
<1>3. v = IF c \in tx.inputs THEN None ELSE dao_outpoint_to_voter[c]
  BY <1>1, <1>2, OwnerOfCell
<1> QED
  BY <1>3, CellsAssumption DEF CellsAssumption

\* A vote that names all of the voter's deposits leaves nothing of his in Map2
\* that is not behind it.
LEMMA CommitNothingStale ==
  ASSUME ~GroupBefore, TypeOK, NothingStale, NEW tx \in Tx, Commit(tx),
         \A j \in Counted(tx) :
            NamesAll(tx.outputs[j].lock, tx, dao_outpoint_to_voter)
  PROVE  NothingStale'
<1> SUFFICES ASSUME NEW v \in Lock, NEW c \in OutPoint, Voted(v)',
                    dao_outpoint_to_voter'[c] = v
             PROVE  c \in backing'[v]
  BY DEF NothingStale
<1> DEFINE of == {j \in Counted(tx) : tx.outputs[j].lock = v}
<1>1. VoteScriptAccepts(tx) /\ WellBuilt(tx)
  BY DEF Commit
<1>2. CASE of # {}
  <2>1. backing'[v] = ScriptNamed(tx, Latest(of))
    BY <1>2 DEF Commit
  <2>2. PICK j \in Counted(tx) : j = Latest(of) /\ tx.outputs[j].lock = v
    BY <1>1, <1>2, LatestCounted
  <2>3. backing'[v] = Named(tx, j)
    BY <1>1, <2>1, <2>2, NamedIsScriptNamed
  <2>4. c \in Named(tx, j)
    <3> SUFFICES ASSUME c \notin Named(tx, j) PROVE FALSE
      OBVIOUS
    <3>1. Counted(tx) = {j}
      BY <1>1, CountedIsValid
    <3>2. dao_outpoint_to_voter[c] = v
      BY <3>1, EntriesOfOthers
    <3>3. j \in DOMAIN tx.outputs
      BY DEF Counted
    <3> QED
      BY <2>2, <3>2, <3>3 DEF NamesAll
  <2> QED
    BY <2>3, <2>4
<1>3. CASE of = {}
  <2>1. dao_outpoint_to_voter[c] = v
    BY <1>3, EntriesOfOthers
  <2>2. v \notin Invalidated(tx, dao_outpoint_to_voter) /\ vote_map'[v] = vote_map[v]
    BY <1>1, <1>3, VoteOfVoter DEF Commit, Voted
  <2>3. backing'[v] = backing[v] /\ Voted(v)
    BY <1>3, <2>2 DEF Commit, Voted
  <2> QED
    BY <2>1, <2>3 DEF NothingStale
<1> QED
  BY <1>2, <1>3

(***************************************************************************)
(* The invariant is inductive.                                              *)
(***************************************************************************)
\* The part of the invariant that speaks of the chain.
ChainInv == RegInv /\ RegisteredAlive /\ NothingStale

\* A step that leaves the chain alone keeps that part.
LEMMA ChainUnchanged ==
  ASSUME ~GroupBefore, ~SpendNamed, ChainInv, UNCHANGED vars
  PROVE  ChainInv'
<1>1. RegInv' /\ RegisteredAlive'
  BY StepRegInv, StepRegisteredAlive DEF ChainInv
<1>2. NothingStale'
  BY DEF ChainInv, NothingStale, Voted, vars, maps
<1> QED
  BY <1>1, <1>2 DEF ChainInv

\* A committed transaction keeps it.
LEMMA ChainCommit ==
  ASSUME ~GroupBefore, ~SpendNamed, ChainInv, NEW tx \in Tx, Commit(tx),
         \A j \in Counted(tx) :
            NamesAll(tx.outputs[j].lock, tx, dao_outpoint_to_voter)
  PROVE  ChainInv'
BY CommitTypeOK, CommitOwnRegistration, CommitBackingRegistered, CommitSpentIsGone,
   CommitRegisteredAlive, CommitNothingStale
DEF ChainInv, RegInv

\* A command of v that commits nothing keeps the invariant if it leaves v prepared.
LEMMA CommandKeeps ==
  ASSUME ~GroupBefore, ~SpendNamed, WalletInv, UNCHANGED vars,
         NEW v \in Lock, NEW state, Becomes(v, state), WalletType', Prepared(v)'
  PROVE  WalletInv'
<1>1. ChainInv'
  BY ChainUnchanged DEF WalletInv, ChainInv
<1>2. ASSUME NEW w \in Lock, w # v
      PROVE  Prepared(w)'
  <2>1. wallet'[w] = wallet[w]
    BY <1>2 DEF Becomes, WalletInv, WalletType
  <2>2. UNCHANGED dao_outpoint_to_voter
    BY DEF vars, maps
  <2> QED
    BY <2>1, <2>2, StaysPrepared DEF WalletInv
<1> QED
  BY <1>1, <1>2 DEF WalletInv, ChainInv

\* Every step of a command keeps the invariant.
LEMMA CommandStep ==
  ASSUME ~GroupBefore, ~SpendNamed, WalletInv, NEW v \in Lock,
         StartVote(v) \/ Scan(v) \/ BuildVote(v) \/ BuildRecycling(v) \/ Send(v) \/ GiveUp(v)
  PROVE  WalletInv'
<1>0. wallet \in [Lock -> {None} \cup Scanning \cup Holding]
  BY DEF WalletInv, WalletType
<1>1. CASE StartVote(v)
  <2> DEFINE state == [phase |-> "scanning", at |-> 0, daoCells |-> <<>>]
  <2>1. Becomes(v, state) /\ UNCHANGED vars
    BY <1>1 DEF StartVote
  <2>2. state \in Scanning
    BY DEF Scanning
  <2>3. state \notin Holding /\ state.at = 0
    BY DEF Holding
  <2> HIDE DEF state
  <2>4. wallet'[v] = state
    BY <1>0, <2>1 DEF Becomes
  <2>5. WalletType'
    BY <1>0, <2>1, <2>2 DEF WalletType, Becomes
  <2>6. \A k \in DOMAIN ScanOrder : ~(k <= state.at)
    BY <2>3, WalletAssumption DEF WalletAssumption
  <2>7. Prepared(v)'
    BY <2>3, <2>4, <2>6 DEF Prepared, Covers
  <2> QED
    BY <2>1, <2>5, <2>7, CommandKeeps
<1>2. CASE Scan(v)
  <2>1. WalletType' /\ Covers(v)' /\ wallet'[v] \in Scanning
    BY <1>2, ScanCovers
  <2>2. Prepared(v)'
    BY <2>1, Phases DEF Prepared, Scanning, Holding
  <2>3. \E state : Becomes(v, state) /\ UNCHANGED vars
    BY <1>2 DEF Scan
  <2> QED
    BY <2>1, <2>2, <2>3, CommandKeeps
<1>3. CASE BuildVote(v)
  <2>1. \E state : Becomes(v, state) /\ UNCHANGED vars
    BY <1>3 DEF BuildVote
  <2> QED
    BY <1>3, <2>1, BuildVoteNames, CommandKeeps
<1>4. CASE BuildRecycling(v)
  <2>1. PICK cell \in VoteCellsOf[v] \cap live :
          Becomes(v, [phase |-> "built",
                      tx |-> [inputs |-> {cell}, payer |-> v, cell_deps |-> <<VoteContract>>,
                              outputs |-> <<>>, creates |-> {}]])
    BY <1>4 DEF BuildRecycling
  <2> DEFINE tx == [inputs |-> {cell}, payer |-> v, cell_deps |-> <<VoteContract>>,
                    outputs |-> <<>>, creates |-> {}]
             state == [phase |-> "built", tx |-> tx]
  <2>2. tx \in Tx /\ DOMAIN tx.outputs = {}
    <3>1. VoteContract \in OutPoint /\ cell \in OutPoint
      BY WalletAssumption, WindowAssumption DEF WalletAssumption, WindowAssumption
    <3>2. <<VoteContract>> \in Seq(OutPoint)
      BY <3>1
    <3>3. <<>> \in Seq(VoteCell) /\ DOMAIN <<>> = {}
      OBVIOUS
    <3> HIDE DEF VoteCell
    <3> QED
      BY <3>1, <3>2, <3>3 DEF Tx
  <2> HIDE DEF tx
  <2>3. state \in Holding /\ state.tx = tx
    BY <2>2 DEF Holding
  <2>4. state \notin Scanning
    BY DEF Scanning
  <2>5. Becomes(v, state) /\ UNCHANGED vars
    BY <1>4, <2>1 DEF BuildRecycling, tx
  <2> HIDE DEF state
  <2>6. wallet'[v] = state
    BY <1>0, <2>5 DEF Becomes
  <2>7. WalletType'
    BY <1>0, <2>3, <2>5 DEF WalletType, Becomes
  <2>8. Prepared(v)'
    BY <2>2, <2>3, <2>4, <2>6 DEF Prepared, VotesFor, NamesAll
  <2> QED
    BY <2>5, <2>7, <2>8, CommandKeeps
<1>5. CASE Send(v)
  <2>1. PICK old \in Tx : old = wallet[v].tx /\ wallet[v] \in Holding
    BY <1>5, Phases DEF Send, Holding, WalletInv
  <2>2. VotesFor(v, old) /\ NamesAll(v, old, dao_outpoint_to_voter)
    BY <1>5, <2>1 DEF Send, In, WalletInv, Prepared
  <2> DEFINE tx == Signed(old)
             state == [phase |-> "sent", tx |-> tx]
  <2>3. Becomes(v, state) /\ UNCHANGED vars
    BY <1>5, <2>1 DEF Send
  <2>4. tx \in Tx /\ VotesFor(v, tx) /\ NamesAll(v, tx, dao_outpoint_to_voter)
    BY <2>2, SigningKeepsNames DEF VotesFor, NamesAll
  <2> HIDE DEF tx
  <2>5. state \in Holding /\ state.tx = tx
    BY <2>4 DEF Holding
  <2>6. state \notin Scanning
    BY DEF Scanning
  <2> HIDE DEF state
  <2>7. wallet'[v] = state
    BY <1>0, <2>3 DEF Becomes
  <2>8. WalletType'
    BY <1>0, <2>3, <2>5 DEF WalletType, Becomes
  <2>9. UNCHANGED dao_outpoint_to_voter
    BY <2>3 DEF vars, maps
  <2>10. Prepared(v)'
    BY <2>4, <2>5, <2>6, <2>7, <2>9 DEF Prepared, VotesFor
  <2> QED
    BY <2>3, <2>8, <2>10, CommandKeeps
<1>6. CASE GiveUp(v)
  <2>1. Becomes(v, None) /\ UNCHANGED vars
    BY <1>6 DEF GiveUp
  <2>2. wallet'[v] = None /\ WalletType'
    BY <1>0, <2>1 DEF Becomes, WalletType
  <2>3. Prepared(v)'
    BY <2>2 DEF Prepared
  <2> QED
    BY <2>1, <2>2, <2>3, CommandKeeps
<1> QED
  BY <1>1, <1>2, <1>3, <1>4, <1>5, <1>6

\* What a command sends is well-typed, votes for its voter, and names all that
\* Map2 has for him.
LEMMA SentIsPrepared ==
  ASSUME WalletInv, NEW v \in Lock, CommitSent(v)
  PROVE  /\ wallet[v].tx \in Tx
         /\ VotesFor(v, wallet[v].tx)
         /\ NamesAll(v, wallet[v].tx, dao_outpoint_to_voter)
<1>1. wallet[v] # None /\ wallet[v] \in Holding
  BY Phases DEF CommitSent, WalletInv, In
<1> QED
  BY <1>1 DEF WalletInv, Prepared, Holding

\* The commit of what a command has sent keeps the invariant.
LEMMA CommitSentStep ==
  ASSUME ~GroupBefore, ~SpendNamed, WalletInv, NEW v \in Lock, CommitSent(v)
  PROVE  WalletInv'
<1>1. PICK tx \in Tx : /\ tx = wallet[v].tx /\ VotesFor(v, tx)
                       /\ NamesAll(v, tx, dao_outpoint_to_voter)
  BY SentIsPrepared
<1>2. Commit(tx) /\ Becomes(v, None)
  BY <1>1 DEF CommitSent
<1>3. \A j \in Counted(tx) : j \in DOMAIN tx.outputs /\ tx.outputs[j].lock = v
  BY <1>1 DEF VotesFor, Counted
<1>4. ChainInv'
  BY <1>1, <1>2, <1>3, ChainCommit DEF WalletInv, ChainInv
<1>5. wallet'[v] = None /\ WalletType'
  BY <1>2 DEF WalletInv, WalletType, Becomes
<1>6. ASSUME NEW w \in Lock
      PROVE  Prepared(w)'
  <2>1. CASE w = v
    BY <1>5, <2>1 DEF Prepared
  <2>2. CASE w # v
    <3>1. wallet'[w] = wallet[w]
      BY <1>2, <2>2 DEF Becomes, WalletInv, WalletType
    <3>2. \A c \in OutPoint : dao_outpoint_to_voter'[c] = w => dao_outpoint_to_voter[c] = w
      BY <1>2, <1>3, <2>2, EntriesOfOthers
    <3> QED
      BY <3>1, <3>2, StaysPrepared DEF WalletInv
  <2> QED
    BY <2>1, <2>2
<1> QED
  BY <1>4, <1>5, <1>6 DEF WalletInv, ChainInv

\* So does the rest of the chain.
LEMMA ChainStepKeeps ==
  ASSUME ~GroupBefore, ~SpendNamed, WalletInv, ChainStep
  PROVE  WalletInv'
<1>0. UNCHANGED wallet /\ WalletType'
  BY DEF ChainStep, WalletInv, WalletType
<1>1. CASE MoveDeposits
  <2>1. PICK inputs \in SUBSET (live \cap Dao), creates \in SUBSET Dao, payer \in Lock :
          Commit([inputs |-> inputs, payer |-> payer, cell_deps |-> <<>>,
                  outputs |-> <<>>, creates |-> creates])
    BY <1>1 DEF MoveDeposits
  <2>2. inputs \in SUBSET OutPoint
    BY DEF WalletInv, RegInv, TypeOK
  <2>3. PICK tx \in Tx : Commit(tx) /\ Counted(tx) = {}
    <3> DEFINE moved == [inputs |-> inputs, payer |-> payer, cell_deps |-> <<>>,
                         outputs |-> <<>>, creates |-> creates]
    <3>1. moved \in Tx
      BY <2>2, TxType
    <3>2. Counted(moved) = {}
      BY DEF Counted
    <3> QED
      BY <2>1, <3>1, <3>2
  <2>4. ChainInv'
    BY <2>3, ChainCommit DEF WalletInv, ChainInv
  <2>5. \A v \in Lock : \A c \in OutPoint :
          dao_outpoint_to_voter'[c] = v => dao_outpoint_to_voter[c] = v
    BY <2>3, EntriesOfOthers
  <2> QED
    BY <1>0, <2>4, <2>5, StaysPrepared DEF WalletInv, ChainInv
<1>2. CASE NextBlock \/ CloseWindow
  <2>1. [Next]_vars /\ UNCHANGED <<vote_map, dao_outpoint_to_voter, backing>>
    BY <1>2 DEF Next, NextBlock, CloseWindow, maps
  <2>2. ChainInv'
    BY <2>1, StepRegInv, StepRegisteredAlive DEF WalletInv, ChainInv, NothingStale, Voted
  <2> QED
    BY <1>0, <2>1, <2>2, StaysPrepared DEF WalletInv, ChainInv
<1> QED
  BY <1>1, <1>2 DEF ChainStep

\* The invariant holds in every behaviour.
LEMMA WalletInvInductive ==
  ASSUME ~GroupBefore, ~SpendNamed
  PROVE  WalletSpec => []WalletInv
<1>1. WalletInit => WalletInv
  <2> SUFFICES ASSUME WalletInit PROVE WalletInv
    OBVIOUS
  <2>1. RegInv
    BY InitRegInv DEF WalletInit
  <2>2. RegisteredAlive /\ NothingStale
    BY DEF WalletInit, Init, RegisteredAlive, NothingStale, Voted
  <2>3. WalletType /\ \A v \in Lock : Prepared(v)
    BY DEF WalletInit, WalletType, Prepared
  <2> QED
    BY <2>1, <2>2, <2>3 DEF WalletInv
<1>2. WalletInv /\ [WalletNext]_walletVars => WalletInv'
  <2> SUFFICES ASSUME WalletInv, [WalletNext]_walletVars
               PROVE  WalletInv'
    OBVIOUS
  <2>1. CASE WalletStep
    BY <2>1, CommandStep, CommitSentStep DEF WalletStep
  <2>2. CASE ChainStep
    BY <2>2, ChainStepKeeps
  <2>3. CASE UNCHANGED walletVars
    <3>1. UNCHANGED vars /\ UNCHANGED wallet
      BY <2>3 DEF walletVars
    <3>2. ChainInv' /\ UNCHANGED dao_outpoint_to_voter
      BY <3>1, ChainUnchanged DEF WalletInv, ChainInv, vars, maps
    <3>3. WalletType'
      BY <3>1 DEF WalletInv, WalletType
    <3> QED
      BY <3>1, <3>2, <3>3, StaysPrepared DEF WalletInv, ChainInv
  <2> QED
    BY <2>1, <2>2, <2>3 DEF WalletNext
<1> QED
  BY <1>1, <1>2, PTL DEF WalletSpec

(***************************************************************************)
(* The theorem.                                                             *)
(***************************************************************************)
\* A vote that createVote of sdk/src/vote.ts has built leaves the count only in a
\* step that spends a deposit behind that very vote, for any number of voters,
\* deposits and votes, and whatever is deposited and withdrawn while the command
\* looks for the deposits: no entry that an earlier vote has left in Map2 can take
\* it away.  A voter has one command at a time.
THEOREM SdkVoteLostBySpending ==
  ASSUME ~GroupBefore, ~SpendNamed
  PROVE  WalletSpec => LostVoteWasSpent
<1>1. ASSUME WalletInv, [WalletNext]_walletVars, NEW v \in Lock, Voted(v), ~Voted(v)'
      PROVE  backing[v] \cap spent' # {}
  <2>1. ASSUME NEW tx \in Tx, Commit(tx)
        PROVE  backing[v] \cap spent' # {}
    <3>1. v \in Invalidated(tx, dao_outpoint_to_voter)
      BY <1>1, <2>1, LostIsInvalidated DEF WalletInv, RegInv
    <3>2. PICK c \in tx.inputs : dao_outpoint_to_voter[c] = v
      BY <3>1 DEF Invalidated
    <3>3. c \in OutPoint /\ c \in spent'
      BY <2>1 DEF Tx, Commit
    <3> QED
      BY <1>1, <3>2, <3>3 DEF WalletInv, NothingStale
  <2>2. CASE \E w \in Lock : CommitSent(w)
    BY <1>1, <2>1, <2>2, SentIsPrepared DEF CommitSent
  <2>3. CASE ChainStep /\ MoveDeposits
    BY <1>1, <2>1, <2>3, CommitStep DEF WalletInv, RegInv
  <2>4. CASE ~(\E w \in Lock : CommitSent(w)) /\ ~(ChainStep /\ MoveDeposits)
    <3>1. UNCHANGED vote_map
      BY <1>1, <2>4
      DEF WalletNext, WalletStep, ChainStep, StartVote, Scan, BuildVote, BuildRecycling,
          Send, GiveUp, NextBlock, CloseWindow, vars, maps, walletVars
    <3> QED
      BY <1>1, <3>1 DEF Voted
  <2> QED
    BY <2>2, <2>3, <2>4
<1>2. WalletInv /\ [WalletNext]_walletVars =>
        [\A v \in Lock : Voted(v) /\ ~Voted(v)' => backing[v] \cap spent' # {}]_vars
  BY <1>1
<1> QED
  BY <1>2, WalletInvInductive, PTL DEF WalletSpec, LostVoteWasSpent
-----------------------------------------------------------------------------
(***************************************************************************)
(* Why the node takes what the SDK builds.                                  *)
(***************************************************************************)
\* Behind dependencies that stand for themselves the last one is replaced by what
\* it lists.
LEMMA FlattenSingles ==
  ASSUME NEW S, NEW front \in Seq(S), NEW rest \in Seq(S), front # <<>>,
         NEW seqs, Len(seqs) = Len(front) + 1, seqs[Len(front) + 1] = rest,
         \A i \in 1..Len(front) : seqs[i] = <<front[i]>>
  PROVE  FlattenSeq(seqs) = front \o rest
<1> DEFINE n == Len(front)
           begin == [i \in 1..n |-> [k \in 1..i |-> front[k]]]
           Step(f, i) == IF i = 1 THEN seqs[i] ELSE f[i - 1] \o seqs[i]
           g == [i \in 1..(n + 1) |-> IF i <= n THEN begin[i] ELSE front \o rest]
<1>1. n \in Nat /\ n >= 1 /\ 1 \in 1..n /\ DOMAIN front = 1..n
      /\ \A i \in 1..n : front[i] \in S
  OBVIOUS
<1>2. /\ \A i \in 1..n : seqs[i] = <<front[i]>>
      /\ seqs[n + 1] = rest
  OBVIOUS
<1>3. Len(seqs) = n + 1
  OBVIOUS
<1>4. begin[1] = <<front[1]>> /\ begin[n] = front
  BY <1>1
<1>5. ASSUME NEW i \in 2..n PROVE begin[i] = begin[i - 1] \o <<front[i]>>
  <2>1. i \in 1..n /\ i - 1 \in 1..n /\ i \in Nat /\ i - 1 \in Nat
    BY <1>1
  <2> DEFINE short == [k \in 1..(i - 1) |-> front[k]]
             long == [k \in 1..i |-> front[k]]
  <2>2. begin[i] = long /\ begin[i - 1] = short
    BY <2>1
  <2>3. long \in Seq(S) /\ short \in Seq(S) /\ Len(long) = i /\ Len(short) = i - 1
        /\ front[i] \in S
    BY <1>1, <2>1
  <2>4. (\A k \in 1..(i - 1) : long[k] = short[k]) /\ long[i] = front[i]
    BY <2>1
  <2> HIDE DEF short, long, begin
  <2> DEFINE cat == short \o <<front[i]>>
  <2>5. cat \in Seq(S) /\ Len(cat) = i /\ cat[i] = front[i]
    BY <2>1, <2>3
  <2>6. \A k \in 1..(i - 1) : cat[k] = short[k]
    BY <2>1, <2>3
  <2>7. long = [k \in 1..i |-> long[k]] /\ cat = [k \in 1..i |-> cat[k]]
    BY <2>3, <2>5
  <2> HIDE DEF cat
  <2>8. ASSUME NEW k \in 1..i PROVE long[k] = cat[k]
    <3>1. k = i \/ k \in 1..(i - 1)
      BY <2>1
    <3> QED
      BY <2>4, <2>5, <2>6, <3>1
  <2>9. long = cat
    BY <2>7, <2>8, Zenon
  <2> QED
    BY <2>2, <2>9 DEF cat
<1>6. /\ \A i \in 1..n : g[i] = begin[i]
      /\ g[n + 1] = front \o rest
      /\ g = [i \in 1..(n + 1) |-> g[i]]
  <2> HIDE DEF begin
  <2>1. \A i \in 1..n : i \in 1..(n + 1) /\ i <= n
    BY <1>1
  <2>2. n + 1 \in 1..(n + 1) /\ ~(n + 1 <= n)
    BY <1>1
  <2> QED
    BY <2>1, <2>2
<1> HIDE DEF begin, g
<1>7. ASSUME NEW i \in 1..(n + 1) PROVE g[i] = Step(g, i)
  <2>1. CASE i = 1
    BY <1>1, <1>2, <1>4, <1>6, <2>1
  <2>2. CASE i \in 2..n
    <3>1. i \in 1..n /\ i - 1 \in 1..n /\ i # 1
      BY <1>1, <2>2
    <3>2. g[i] = begin[i] /\ g[i - 1] = begin[i - 1]
      BY <1>6, <3>1
    <3>3. Step(g, i) = g[i - 1] \o seqs[i]
      BY <3>1
    <3> QED
      BY <1>2, <1>5, <2>2, <3>1, <3>2, <3>3
  <2>3. CASE i = n + 1
    <3>1. i # 1 /\ i - 1 = n /\ n \in 1..n
      BY <1>1, <2>3
    <3>2. g[i] = front \o rest /\ g[i - 1] = begin[n]
      BY <1>6, <2>3, <3>1
    <3>3. Step(g, i) = g[i - 1] \o seqs[i]
      BY <3>1
    <3> QED
      BY <1>2, <1>4, <2>3, <3>2, <3>3
  <2>4. i = 1 \/ i \in 2..n \/ i = n + 1
    BY <1>1
  <2> QED
    BY <2>1, <2>2, <2>3, <2>4
<1> DEFINE Flat(f) == f = [i \in 1..(n + 1) |-> Step(f, i)]
           f0 == CHOOSE f : Flat(f)
<1>8. Flat(g)
  <2> DEFINE h == [i \in 1..(n + 1) |-> Step(g, i)]
  <2> HIDE DEF Step
  <2>1. [i \in 1..(n + 1) |-> g[i]] = h
    BY <1>7, Zenon
  <2>2. g = h
    BY <1>6, <2>1
  <2> QED
    BY <2>2
<1>9. FlattenSeq(seqs) = f0[n + 1]
  <2>1. Len(seqs) # 0
    BY <1>1, <1>3
  <2> QED
    BY <1>3, <2>1 DEF FlattenSeq
<1>10. Flat(f0)
  <2> HIDE DEF Flat, g
  <2> QED
    BY <1>8
<1> HIDE DEF f0
<1>11. \A i \in 1..(n + 1) : f0[i] = Step(f0, i)
  <2> HIDE DEF Step, g
  <2> QED
    BY <1>10, Zenon
<1>12. f0[1] = begin[1]
  <2>1. 1 \in 1..(n + 1)
    BY <1>1
  <2>2. f0[1] = seqs[1]
    BY <1>11, <2>1
  <2> QED
    BY <1>1, <1>2, <1>4, <2>2
<1>13. f0[n + 1] = f0[n] \o seqs[n + 1]
  <2>1. n + 1 \in 1..(n + 1) /\ n + 1 # 1 /\ (n + 1) - 1 = n
    BY <1>1
  <2> QED
    BY <1>11, <2>1
<1> DEFINE A == {i \in Nat : i + 1 \in 1..n => f0[i + 1] = begin[i + 1]}
<1>14. 0 \in A
  BY <1>12
<1>15. ASSUME NEW i \in Nat, i \in A PROVE i + 1 \in A
  <2> SUFFICES ASSUME (i + 1) + 1 \in 1..n
               PROVE  f0[(i + 1) + 1] = begin[(i + 1) + 1]
    OBVIOUS
  <2> DEFINE j == (i + 1) + 1
  <2>1. j \in 2..n /\ j - 1 = i + 1 /\ j # 1 /\ j \in 1..(n + 1) /\ i + 1 \in 1..n
    BY <1>1
  <2>2. f0[i + 1] = begin[i + 1]
    BY <1>15, <2>1
  <2> HIDE DEF j, A
  <2>3. f0[j] = f0[j - 1] \o seqs[j]
    BY <1>11, <2>1
  <2>4. begin[j] = begin[j - 1] \o <<front[j]>> /\ seqs[j] = <<front[j]>>
    BY <1>2, <1>5, <2>1, SMTT(30)
  <2> QED
    BY <2>1, <2>2, <2>3, <2>4 DEF j
<1>16. n - 1 \in A
  <2> HIDE DEF A
  <2> QED
    BY <1>1, <1>14, <1>15, AllNumbers
<1>17. f0[n] = front
  BY <1>1, <1>4, <1>16
<1> QED
  BY <1>2, <1>9, <1>17, <1>13

\* What the SDK adds up is the sum over the places of the deposits.
AmountOf(cells) == FoldLeft(LAMBDA sum, cell : sum + CapacityOf[cell], 0, cells)

IsAmount(cells, g) ==
  g = [s \in SUBSET DOMAIN cells |->
         IF s = {} THEN 0 ELSE g[s \ {Max(s)}] + CapacityOf[cells[Max(s)]]]

\* The amount is the one that the definition of the fold chooses.
LEMMA AmountIsChosen ==
  ASSUME NEW cells
  PROVE  AmountOf(cells) = (CHOOSE g : IsAmount(cells, g))[DOMAIN cells]
BY DEF AmountOf, FoldLeft, MapThenFoldSet, IsAmount

\* The amount is the sum of the capacities.
LEMMA AmountIsSum ==
  ASSUME NEW cells \in Seq(Dao), NEW cap,
         \A k \in DOMAIN cells : cap[k] = CapacityOf[cells[k]] /\ cap[k] \in Nat
  PROVE  AmountOf(cells) = SumFunctionOnSet(cap, DOMAIN cells)
<1> DEFINE D == DOMAIN cells
           g == [s \in SUBSET D |-> SumFunctionOnSet(cap, s)]
           Equation(f, s) == IF s = {} THEN 0 ELSE f[s \ {Max(s)}] + CapacityOf[cells[Max(s)]]
<1>1. IsFiniteSet(D) /\ D \subseteq Nat
  <2>1. D = 1..Len(cells) /\ Len(cells) \in Nat
    OBVIOUS
  <2> QED
    BY <2>1, FS_Interval
<1>2. \A s \in SUBSET D : IsFiniteSet(s) /\ Cardinality(s) \in Nat
  BY <1>1, FS_Subset, FS_CardinalityType
<1>3. ASSUME NEW s \in SUBSET D, s # {}
      PROVE  Max(s) \in s /\ s \ {Max(s)} \in SUBSET D
  BY <1>1, <1>2, <1>3, LastPlace
<1>4. ASSUME NEW s \in SUBSET D PROVE g[s] = Equation(g, s)
  <2>1. CASE s = {}
    BY <2>1, SumOfNothing
  <2>2. CASE s # {}
    <3> DEFINE m == Max(s)
    <3>1. m \in s /\ s \ {m} \in SUBSET D
      BY <1>3, <2>2
    <3> HIDE DEF m
    <3>2. SumFunctionOnSet(cap, s) = cap[m] + SumFunctionOnSet(cap, s \ {m})
      <4>1. (\A x \in s : cap[x] \in Nat) /\ IsFiniteSet(s)
        BY <1>2
      <4> HIDE DEF D
      <4> QED
        BY <3>1, <4>1, SumTakesOut
    <3>3. SumFunctionOnSet(cap, s \ {m}) \in Nat /\ cap[m] \in Nat
      BY <1>2, <3>1, SumType
    <3>4. cap[m] = CapacityOf[cells[m]]
      BY <3>1
    <3>5. g[s] = SumFunctionOnSet(cap, s) /\ g[s \ {m}] = SumFunctionOnSet(cap, s \ {m})
      BY <3>1
    <3> HIDE DEF g
    <3>6. g[s] = g[s \ {m}] + CapacityOf[cells[m]]
      BY <3>2, <3>3, <3>4, <3>5
    <3> QED
      BY <2>2, <3>6 DEF m
  <2> QED
    BY <2>1, <2>2
<1>5. IsAmount(cells, g)
  <2> DEFINE h == [s \in SUBSET D |-> Equation(g, s)]
  <2> HIDE DEF Equation
  <2>1. g = h
    BY <1>4, Zenon
  <2> QED
    BY <2>1, Zenon DEF IsAmount, Equation
<1> DEFINE f == CHOOSE x : IsAmount(cells, x)
<1>6. IsAmount(cells, f)
  <2> HIDE DEF g
  <2> QED
    BY <1>5
<1> DEFINE A == {n \in Nat : \A s \in SUBSET D : Cardinality(s) = n => f[s] = g[s]}
<1>7. ASSUME NEW s \in SUBSET D PROVE f[s] = Equation(f, s)
  <2> HIDE DEF f, g
  <2> QED
    BY <1>6, Zenon DEF IsAmount
<1> HIDE DEF f, g
<1>8. 0 \in A
  <2> SUFFICES ASSUME NEW s \in SUBSET D, Cardinality(s) = 0 PROVE f[s] = g[s]
    OBVIOUS
  <2>1. s = {}
    BY <1>2, FS_EmptySet
  <2> QED
    BY <1>4, <1>7, <2>1
<1>9. ASSUME NEW n \in Nat, n \in A PROVE n + 1 \in A
  <2> SUFFICES ASSUME NEW s \in SUBSET D, Cardinality(s) = n + 1 PROVE f[s] = g[s]
    OBVIOUS
  <2>1. s # {}
    <3>1. Cardinality(s) # 0
      OBVIOUS
    <3> QED
      BY <3>1, FS_EmptySet
  <2>2. Cardinality(s \ {Max(s)}) = Cardinality(s) - 1
    BY <1>2, <1>3, <2>1, FS_RemoveElement
  <2>3. f[s \ {Max(s)}] = g[s \ {Max(s)}]
    BY <1>3, <1>9, <2>1, <2>2
  <2>4. f[s] = Equation(f, s) /\ g[s] = Equation(g, s)
    BY <1>4, <1>7
  <2> QED
    BY <2>3, <2>4, Zenon
<1> HIDE DEF A
<1>10. \A n \in Nat : n \in A
  BY <1>8, <1>9, AllNumbers
<1>11. Cardinality(D) \in A
  BY <1>2, <1>10
<1>12. f[D] = g[D]
  BY <1>11 DEF A
<1>13. g[D] = SumFunctionOnSet(cap, D)
  BY DEF g
<1> QED
  BY <1>12, <1>13, AmountIsChosen DEF f

(***************************************************************************)
(* The dependencies of what the SDK builds, and what is found there.        *)
(***************************************************************************)
VoteTx(v, vote, cells, cell) ==
  [inputs |-> {}, payer |-> v, cell_deps |-> <<VoteContract, ProposalCell>> \o cells,
   outputs |-> <<VoteOutput(v, vote, cells)>>, creates |-> {cell}]

RecyclingTx(v, cell) ==
  [inputs |-> {cell}, payer |-> v, cell_deps |-> <<VoteContract>>,
   outputs |-> <<>>, creates |-> {}]

\* Signing puts the dep_group of the lock scripts behind all others, so it moves
\* nothing.
LEMMA SignedDeps ==
  ASSUME NEW front \in Seq(OutPoint), front # <<>>,
         NEW tx, tx.cell_deps = Append(front, LockGroup),
         \A i \in 1..Len(front) : front[i] \in Dao \cup {VoteContract, ProposalCell}
  PROVE  ResolvedDeps(tx) = front \o GroupMembers[LockGroup]
<1> DEFINE n == Len(front)
           deps == Append(front, LockGroup)
           seqs == [k \in DOMAIN deps |-> GroupMembers[deps[k]]]
           rest == GroupMembers[LockGroup]
<1>1. /\ \A c \in Dao \cup {VoteContract, ProposalCell} : GroupMembers[c] = <<c>>
      /\ rest \in Seq(OutPoint) /\ LockGroup \in OutPoint
  BY DependencyAssumption, WalletAssumption, WindowAssumption, CellsAssumption
  DEF DependencyAssumption, WalletAssumption, WindowAssumption, CellsAssumption
<1>2. n \in Nat /\ DOMAIN deps = 1..(n + 1) /\ deps[n + 1] = LockGroup
      /\ \A i \in 1..n : deps[i] = front[i]
  BY <1>1
<1> HIDE DEF deps
<1>3. n + 1 \in 1..(n + 1) /\ \A i \in 1..n : i \in 1..(n + 1)
  BY <1>2
<1>4. \A i \in 1..n : seqs[i] = <<front[i]>>
  BY <1>1, <1>2, <1>3
<1>5. seqs[n + 1] = rest
  BY <1>2, <1>3
<1>6. Len(seqs) = n + 1
  <2>1. DOMAIN seqs = 1..(n + 1) /\ seqs = [k \in 1..(n + 1) |-> seqs[k]]
    BY <1>2
  <2> HIDE DEF seqs
  <2>2. seqs \in Seq({seqs[k] : k \in 1..(n + 1)})
    BY <1>2, <2>1
  <2> QED
    BY <1>2, <2>1, <2>2
<1>7. ResolvedDeps(tx) = FlattenSeq(seqs)
  BY DEF ResolvedDeps, deps
<1> HIDE DEF seqs, rest
<1> QED
  BY <1>1, <1>4, <1>5, <1>6, <1>7, FlattenSingles DEF rest

\* The two fixed dependencies and the deposits, in front of the dep_group.
LaidOut(tx, cells) ==
  LET n == Len(cells)
      rest == GroupMembers[LockGroup]
  IN  /\ n \in Nat /\ Len(tx.cell_deps) = n + 3
      /\ DOMAIN tx.cell_deps = 1..(n + 3) /\ tx.cell_deps[1] = VoteContract
      /\ tx.cell_deps[2] = ProposalCell /\ tx.cell_deps[n + 3] = LockGroup
      /\ \A k \in 1..n : tx.cell_deps[k + 2] = cells[k]
      /\ Len(rest) \in Nat /\ DOMAIN ResolvedDeps(tx) = 1..(n + 2 + Len(rest))
      /\ ResolvedDeps(tx)[1] = VoteContract /\ ResolvedDeps(tx)[2] = ProposalCell
      /\ \A k \in 1..n : ResolvedDeps(tx)[k + 2] = cells[k]
      /\ \A k \in 1..Len(rest) : ResolvedDeps(tx)[n + 2 + k] = rest[k]

\* That is the order in which the SDK puts them.
LEMMA VoteDeps ==
  ASSUME NEW cells \in Seq(Dao), NEW tx,
         tx.cell_deps = Append(<<VoteContract, ProposalCell>> \o cells, LockGroup)
  PROVE  LaidOut(tx, cells)
<1> DEFINE n == Len(cells)
           rest == GroupMembers[LockGroup]
           front == <<VoteContract, ProposalCell>> \o cells
<1>1. /\ rest \in Seq(OutPoint) /\ cells \in Seq(OutPoint) /\ n \in Nat
      /\ {VoteContract, ProposalCell, LockGroup} \subseteq OutPoint
  BY WalletAssumption, WindowAssumption, CellsAssumption
  DEF WalletAssumption, WindowAssumption, CellsAssumption
<1>2. /\ front \in Seq(OutPoint) /\ Len(front) = n + 2
      /\ front[1] = VoteContract /\ front[2] = ProposalCell
      /\ \A k \in 1..n : front[k + 2] = cells[k]
  BY <1>1
<1>3. \A i \in 1..Len(front) : front[i] \in Dao \cup {VoteContract, ProposalCell}
  <2> SUFFICES ASSUME NEW i \in 1..Len(front)
               PROVE  front[i] \in Dao \cup {VoteContract, ProposalCell}
    OBVIOUS
  <2> HIDE DEF front
  <2>1. CASE i = 1 \/ i = 2
    BY <1>2, <2>1
  <2>2. CASE i # 1 /\ i # 2
    <3>1. i - 2 \in 1..n /\ (i - 2) + 2 = i
      BY <1>1, <1>2, <2>2
    <3>2. PICK k \in 1..n : k + 2 = i
      BY <3>1
    <3>3. front[i] = cells[k] /\ cells[k] \in Dao
      BY <1>2, <3>2
    <3> QED
      BY <3>3
  <2> QED
    BY <2>1, <2>2
<1> HIDE DEF front
<1>4. front # <<>>
  BY <1>1, <1>2
<1>5. tx.cell_deps = Append(front, LockGroup)
  BY DEF front
<1>6. ResolvedDeps(tx) = front \o rest
  BY <1>2, <1>3, <1>4, <1>5, SignedDeps
<1> HIDE DEF rest
<1>7. /\ \A i \in 1..(n + 2) : tx.cell_deps[i] = front[i]
      /\ Len(tx.cell_deps) = n + 3 /\ DOMAIN tx.cell_deps = 1..(n + 3)
      /\ tx.cell_deps[n + 3] = LockGroup
  BY <1>1, <1>2, <1>5, SMTT(30)
<1>8. /\ DOMAIN ResolvedDeps(tx) = 1..(n + 2 + Len(rest)) /\ Len(rest) \in Nat
      /\ \A i \in 1..(n + 2) : ResolvedDeps(tx)[i] = front[i]
      /\ \A k \in 1..Len(rest) : ResolvedDeps(tx)[n + 2 + k] = rest[k]
  <2> DEFINE deps == front \o rest
  <2>1. front \in Seq(OutPoint) /\ rest \in Seq(OutPoint)
    BY <1>1, <1>2
  <2>2. /\ deps \in Seq(OutPoint) /\ Len(deps) = Len(front) + Len(rest)
        /\ Len(rest) \in Nat
    BY <2>1
  <2>3. \A i \in 1..Len(front) : deps[i] = front[i]
    BY <2>1
  <2>4. \A k \in 1..Len(rest) : deps[Len(front) + k] = rest[k]
    BY <2>1
  <2>5. ResolvedDeps(tx) = deps
    BY <1>6
  <2> HIDE DEF deps
  <2>6. DOMAIN deps = 1..(n + 2 + Len(rest))
    BY <1>1, <1>2, <2>2
  <2> QED
    BY <1>2, <2>2, <2>3, <2>4, <2>5, <2>6
<1>9. 1 \in 1..(n + 2) /\ 2 \in 1..(n + 2) /\ \A k \in 1..n : k + 2 \in 1..(n + 2)
  BY <1>1
<1> QED
  BY <1>1, <1>2, <1>7, <1>8, <1>9 DEF rest, LaidOut

\* No dependency is listed twice.
LEMMA DepsAreDistinct ==
  ASSUME NEW cells \in Seq(Dao), IsInjective(cells), NEW tx, LaidOut(tx, cells)
  PROVE  IsInjective(tx.cell_deps)
<1> DEFINE n == Len(cells)
           deps == tx.cell_deps
<1>1. /\ n \in Nat /\ DOMAIN deps = 1..(n + 3) /\ deps[1] = VoteContract
      /\ deps[2] = ProposalCell /\ deps[n + 3] = LockGroup
      /\ \A k \in 1..n : deps[k + 2] = cells[k]
  BY DEF LaidOut
<1>2. /\ \A k \in 1..n : cells[k] \in Dao
      /\ \A k, l \in 1..n : cells[k] = cells[l] => k = l
  BY DEF IsInjective
<1>3. /\ VoteContract # ProposalCell /\ LockGroup # VoteContract /\ LockGroup # ProposalCell
      /\ VoteContract \notin Dao /\ ProposalCell \notin Dao /\ LockGroup \notin Dao
  BY DependencyAssumption, CellsAssumption DEF DependencyAssumption, CellsAssumption
<1> HIDE DEF deps, n
<1>4. ASSUME NEW i \in 1..(n + 3)
      PROVE  \/ i = 1 /\ deps[i] = VoteContract
             \/ i = 2 /\ deps[i] = ProposalCell
             \/ i = n + 3 /\ deps[i] = LockGroup
             \/ \E k \in 1..n : i = k + 2 /\ deps[i] = cells[k]
  <2>1. CASE i = 1 \/ i = 2 \/ i = n + 3
    BY <1>1, <2>1
  <2>2. CASE i # 1 /\ i # 2 /\ i # n + 3
    <3>1. i - 2 \in 1..n /\ i = (i - 2) + 2
      BY <1>1, <2>2
    <3>2. PICK k \in 1..n : i = k + 2
      BY <3>1
    <3>3. deps[i] = cells[k]
      BY <1>1, <3>2
    <3> QED
      BY <3>2, <3>3
  <2> QED
    BY <2>1, <2>2
<1>5. ASSUME NEW i \in 1..(n + 3), NEW j \in 1..(n + 3), deps[i] = deps[j]
      PROVE  i = j
  <2> DEFINE is(x, e) == \/ x = 1 /\ e = VoteContract
                         \/ x = 2 /\ e = ProposalCell
                         \/ x = n + 3 /\ e = LockGroup
                         \/ \E k \in 1..n : x = k + 2 /\ e = cells[k]
  <2>1. PICK e : e = deps[i] /\ e = deps[j]
    BY <1>5
  <2>2. is(i, e) /\ is(j, e)
    BY <1>4, <2>1
  <2>3. CASE e \in Dao
    <3>1. PICK k \in 1..n : i = k + 2 /\ e = cells[k]
      BY <1>3, <2>2, <2>3
    <3>2. PICK l \in 1..n : j = l + 2 /\ e = cells[l]
      BY <1>3, <2>2, <2>3
    <3> QED
      BY <1>2, <3>1, <3>2
  <2>4. CASE e \notin Dao
    BY <1>2, <1>3, <2>2, <2>4
  <2> QED
    BY <2>3, <2>4
<1> QED
  BY <1>1, <1>5 DEF IsInjective, deps

\* The vote script accepts the vote: each index leads to a deposit of the voter,
\* and what they add up to is the amount, which is not 0.
LEMMA VoteChecks ==
  ASSUME NEW v \in Lock, NEW cells \in Seq(Dao), NEW idx \in Seq(Nat), NEW out, NEW tx,
         cells # <<>>, \A k \in DOMAIN cells : LockOf[cells[k]] = v,
         tx.inputs = {}, tx.payer = v, tx.outputs = <<out>>,
         LaidOut(tx, cells),
         out.type = ThisVote, out.lock = v, out.form = "exact", out.vote \in {0, 1},
         out.amount = AmountOf(cells), out.amount \in 0..U64Max,
         out.dao_index = idx, DOMAIN idx = DOMAIN cells, \A k \in DOMAIN idx : idx[k] = 1 + k
  PROVE  VoteScriptAccepts(tx) /\ WellBuilt(tx)
<1> DEFINE n == Len(cells)
           m == Len(GroupMembers[LockGroup])
           cap == [k \in 1..n |-> CapacityOf[cells[k]]]
<1>1. n \in Nat /\ n >= 1 /\ DOMAIN cells = 1..n /\ \A k \in 1..n : cells[k] \in Dao
  OBVIOUS
<1>2. /\ Len(tx.cell_deps) = n + 3 /\ m \in Nat
      /\ DOMAIN ResolvedDeps(tx) = 1..(n + 2 + m)
      /\ ResolvedDeps(tx)[2] = ProposalCell
      /\ \A k \in 1..n : ResolvedDeps(tx)[k + 2] = cells[k] /\ tx.cell_deps[k + 2] = cells[k]
  BY DEF LaidOut
<1>3. DOMAIN idx = 1..n /\ \A k \in 1..n : idx[k] = 1 + k /\ idx[k] \in Nat
                                          /\ idx[k] + 1 = k + 2
  <2>1. DOMAIN idx = 1..n /\ n \in Nat
    BY <1>1
  <2> HIDE DEF n
  <2>2. \A k \in 1..n : idx[k] = 1 + k
    BY <2>1
  <2> QED
    BY <2>1, <2>2
<1> HIDE DEF m, n
<1>4. \A k \in 1..n : /\ idx[k] + 1 \in DOMAIN ResolvedDeps(tx) /\ IsDep(tx, idx[k])
                      /\ ResolvedDeps(tx)[idx[k] + 1] = cells[k]
  <2> SUFFICES ASSUME NEW k \in 1..n
               PROVE  /\ idx[k] + 1 \in DOMAIN ResolvedDeps(tx) /\ IsDep(tx, idx[k])
                      /\ ResolvedDeps(tx)[idx[k] + 1] = cells[k]
    OBVIOUS
  <2>1. idx[k] + 1 = k + 2 /\ idx[k] < n + 3
    BY <1>1, <1>3
  <2>2. k + 2 \in 1..(n + 2 + m)
    BY <1>1, <1>2
  <2>3. PICK e \in Nat : e = idx[k]
    BY <1>3
  <2>4. e + 1 = k + 2 /\ e < n + 3
    BY <2>1, <2>3
  <2>5. e + 1 \in DOMAIN ResolvedDeps(tx)
    BY <1>2, <2>2, <2>4
  <2>6. ResolvedDeps(tx)[e + 1] = cells[k] /\ tx.cell_deps[e + 1] = cells[k]
    BY <1>2, <2>4
  <2>7. IsDep(tx, e)
    BY <1>2, <2>4, <2>6 DEF IsDep
  <2> QED
    BY <2>3, <2>5, <2>6, <2>7
<1>5. GroupOutput(tx) = {1} /\ tx.outputs[1] = out
  BY DEF GroupOutput
<1>6. \A k \in 1..n : cap[k] = CapacityOf[cells[k]] /\ cap[k] \in 0..U64Max /\ cap[k] # 0
                      /\ cap[k] \in Nat
  BY <1>1, CellsAssumption, DependencyAssumption DEF CellsAssumption, DependencyAssumption
<1> HIDE DEF cap
<1>7. out.amount = SumFunctionOnSet(cap, 1..n)
  BY <1>1, <1>6, AmountIsSum
<1>8. TotalCapacity(tx, idx) = out.amount
  <2>1. \A k \in DOMAIN idx : /\ cap[k] = CapacityOf[ResolvedDeps(tx)[idx[k] + 1]]
                              /\ cap[k] \in 0..U64Max
    BY <1>3, <1>4, <1>6, SMTT(30)
  <2>2. TotalCapacity(tx, idx) = IF SumFunctionOnSet(cap, DOMAIN idx) > U64Max THEN U64Max
                                 ELSE SumFunctionOnSet(cap, DOMAIN idx)
    BY <2>1, TotalIsSum
  <2>3. SumFunctionOnSet(cap, DOMAIN idx) = out.amount
    BY <1>3, <1>7, Zenon
  <2>4. U64Max \in Nat
    BY CellsAssumption DEF CellsAssumption
  <2> HIDE DEF n
  <2>5. ~(out.amount > U64Max)
    BY <2>4
  <2> QED
    BY <2>2, <2>3, <2>5
<1>9. out.amount # 0
  <2>1. IsFiniteSet(1..n) /\ 1 \in 1..n
    BY <1>1, FS_Interval
  <2> DEFINE places == 1..n
  <2> HIDE DEF places
  <2>2. IsFiniteSet(places) /\ 1 \in places /\ \A k \in places : cap[k] \in Nat
    BY <1>6, <2>1 DEF places
  <2>3. SumFunctionOnSet(cap, places) = cap[1] + SumFunctionOnSet(cap, places \ {1})
    BY <2>2, SumTakesOut, SMTT(60)
  <2>4. SumFunctionOnSet(cap, places \ {1}) \in Nat
    <3>1. IsFiniteSet(places \ {1})
      BY <2>2, FS_RemoveElement
    <3> QED
      BY <2>2, <3>1, SumType
  <2>5. cap[1] \in Nat /\ cap[1] # 0
    BY <1>6, <2>1
  <2>6. out.amount = SumFunctionOnSet(cap, places)
    BY <1>7 DEF places
  <2> QED
    BY <2>3, <2>4, <2>5, <2>6
<1>10. CastIsValid(tx, out)
  <2>1. ProposalFound(tx)
    <3>1. 2 \in DOMAIN ResolvedDeps(tx)
      BY <1>1, <1>2
    <3> QED
      BY <1>2, <3>1 DEF ProposalFound, ToSet
  <2>2. out.lock \in InputLocks(tx)
    BY DEF InputLocks
  <2>3. \A k \in DOMAIN idx : IsDaoDep(tx, idx[k], out.lock)
    BY <1>1, <1>3, <1>4 DEF IsDaoDep
  <2>4. idx # <<>>
    BY <1>1, <1>3
  <2> QED
    BY <1>8, <1>9, <2>1, <2>2, <2>3, <2>4 DEF CastIsValid
<1>11. VoteScriptAccepts(tx)
  BY <1>5, <1>10 DEF VoteScriptAccepts
<1>12. WellBuilt(tx)
  <2>1. IsInjective(idx)
    BY <1>1, <1>3 DEF IsInjective
  <2>2. tx.inputs \cap ScriptNamed(tx, 1) = {}
    OBVIOUS
  <2>3. \A i \in ToSet(idx) : IsDep(tx, i)
    BY <1>3, <1>4 DEF ToSet
  <2> QED
    BY <1>5, <2>1, <2>2, <2>3 DEF WellBuilt
<1> QED
  BY <1>11, <1>12

(***************************************************************************)
(* What a command has built, as long as nothing is spent.                   *)
(***************************************************************************)
\* Deposits of the voter that exist or have existed, each once.
OwnCells(v, cells) ==
  /\ cells \in Seq(Dao) /\ IsInjective(cells)
  /\ \A k \in DOMAIN cells : LockOf[cells[k]] = v /\ cells[k] \in live \cup spent

VoteBuilt(v, tx) ==
  \E vote \in {0, 1}, cells \in Seq(Dao), cell \in VoteCellsOf[v] \ (live \cup spent) :
     /\ cells # <<>> /\ OwnCells(v, cells)
     /\ VoteOutput(v, vote, cells).amount \in 0..U64Max
     /\ tx = VoteTx(v, vote, cells, cell)

RecyclingBuilt(v, tx) ==
  \E cell \in VoteCellsOf[v] \cap (live \cup spent) : tx = RecyclingTx(v, cell)

Built(v, tx) == VoteBuilt(v, tx) \/ RecyclingBuilt(v, tx)

\* The scan has not passed a deposit twice.
Traversed(v) ==
  /\ wallet[v].at \in Nat
  /\ \A k \in DOMAIN wallet[v].daoCells :
       \E n \in DOMAIN ScanOrder : n <= wallet[v].at /\ wallet[v].daoCells[k] = ScanOrder[n]

Command(v) ==
  /\ In(v, "scanning") => OwnCells(v, wallet[v].daoCells) /\ Traversed(v)
  /\ In(v, "built") => Built(v, wallet[v].tx)
  /\ In(v, "sent") => \E tx : Built(v, tx) /\ wallet[v].tx = Signed(tx)

\* No command spends what the dependencies that are no deposits need.
StaysLive == InitLive \ Dao \subseteq live

BuiltInv ==
  /\ StaysLive
  /\ wallet = [v \in Lock |-> wallet[v]]
  /\ \A v \in Lock : Command(v)

\* Signing adds a dependency and nothing else.
LEMMA SignedFields ==
  ASSUME NEW v, NEW vote, NEW cells, NEW cell
  PROVE  LET tx == Signed(VoteTx(v, vote, cells, cell))
         IN  /\ tx.inputs = {} /\ tx.payer = v /\ tx.creates = {cell}
             /\ tx.outputs = <<VoteOutput(v, vote, cells)>>
             /\ tx.cell_deps = Append(<<VoteContract, ProposalCell>> \o cells, LockGroup)
BY DEF Signed, VoteTx

LEMMA SignedRecycling ==
  ASSUME NEW v, NEW cell
  PROVE  LET tx == Signed(RecyclingTx(v, cell))
         IN  /\ tx.inputs = {cell} /\ tx.outputs = <<>> /\ tx.creates = {}
             /\ tx.cell_deps = Append(<<VoteContract>>, LockGroup)
BY DEF Signed, RecyclingTx

\* What the vote cell says.
LEMMA OutputFields ==
  ASSUME NEW v, NEW vote, NEW cells
  PROVE  LET out == VoteOutput(v, vote, cells)
         IN  /\ out.type = ThisVote /\ out.lock = v /\ out.form = "exact" /\ out.vote = vote
             /\ out.dao_index = [k \in DOMAIN cells |-> 1 + k]
BY DEF VoteOutput, FoldLeft, MapThenFoldSet

LEMMA OutputAmount ==
  ASSUME NEW v, NEW vote, NEW cells
  PROVE  VoteOutput(v, vote, cells).amount = AmountOf(cells)
BY DEF VoteOutput, AmountOf, FoldLeft, MapThenFoldSet

\* A vote that was built and signed is refused only for a spent cell.
LEMMA VoteResolves ==
  ASSUME StaysLive, NEW v \in Lock, NEW built, VoteBuilt(v, built),
         NEW tx, tx = Signed(built)
  PROVE  /\ VoteScriptAccepts(tx) /\ WellBuilt(tx)
         /\ (tx.inputs \cup ToSet(ResolvedDeps(tx))) \cap spent = {}
               => Resolves(tx, live, spent)
<1>1. PICK vote \in {0, 1}, cells \in Seq(Dao), cell \in VoteCellsOf[v] \ (live \cup spent) :
        /\ cells # <<>> /\ OwnCells(v, cells)
        /\ VoteOutput(v, vote, cells).amount \in 0..U64Max
        /\ built = VoteTx(v, vote, cells, cell)
  BY DEF VoteBuilt
<1> DEFINE out == VoteOutput(v, vote, cells)
           n == Len(cells)
           rest == GroupMembers[LockGroup]
<1>2. /\ tx.inputs = {} /\ tx.payer = v /\ tx.creates = {cell} /\ tx.outputs = <<out>>
      /\ tx.cell_deps = Append(<<VoteContract, ProposalCell>> \o cells, LockGroup)
  BY <1>1, SignedFields
<1>3. LaidOut(tx, cells)
  BY <1>2, VoteDeps
<1>4. VoteScriptAccepts(tx) /\ WellBuilt(tx)
  <2>1. /\ out.type = ThisVote /\ out.lock = v /\ out.form = "exact" /\ out.vote \in {0, 1}
        /\ out.dao_index = [k \in DOMAIN cells |-> 1 + k]
    BY OutputFields
  <2>2. out.amount = AmountOf(cells)
    BY OutputAmount
  <2>3. PICK idx \in Seq(Nat) : /\ idx = out.dao_index /\ DOMAIN idx = DOMAIN cells
                                /\ \A k \in DOMAIN idx : idx[k] = 1 + k
    <3> DEFINE places == [k \in DOMAIN cells |-> 1 + k]
    <3>1. places \in Seq(Nat)
      OBVIOUS
    <3> QED
      BY <2>1, <3>1
  <2>4. \A k \in DOMAIN cells : LockOf[cells[k]] = v
    BY <1>1 DEF OwnCells
  <2> HIDE DEF out
  <2>5. out.amount \in 0..U64Max
    BY <1>1 DEF out
  <2> QED
    BY <1>1, <1>2, <1>3, <2>1, <2>2, <2>3, <2>4, <2>5, VoteChecks
<1>5. ASSUME (tx.inputs \cup ToSet(ResolvedDeps(tx))) \cap spent = {}
      PROVE  Resolves(tx, live, spent)
  <2>1. /\ n \in Nat /\ DOMAIN tx.cell_deps = 1..(n + 3) /\ tx.cell_deps[1] = VoteContract
        /\ tx.cell_deps[2] = ProposalCell /\ tx.cell_deps[n + 3] = LockGroup
        /\ Len(rest) \in Nat /\ DOMAIN ResolvedDeps(tx) = 1..(n + 2 + Len(rest))
        /\ ResolvedDeps(tx)[1] = VoteContract /\ ResolvedDeps(tx)[2] = ProposalCell
        /\ \A k \in 1..n : tx.cell_deps[k + 2] = cells[k] /\ ResolvedDeps(tx)[k + 2] = cells[k]
        /\ \A k \in 1..Len(rest) : ResolvedDeps(tx)[n + 2 + k] = rest[k]
    BY <1>3 DEF LaidOut
  <2>2. {VoteContract, ProposalCell, LockGroup} \subseteq live
    BY WalletAssumption, WindowAssumption, CellsAssumption, DependencyAssumption
    DEF WalletAssumption, WindowAssumption, CellsAssumption, DependencyAssumption, StaysLive
  <2>3. \A k \in DOMAIN rest : rest[k] \in live
    BY DependencyAssumption DEF DependencyAssumption, StaysLive, ToSet
  <2>4. DOMAIN rest = 1..Len(rest) /\ DOMAIN cells = 1..n
    BY WalletAssumption, WindowAssumption, CellsAssumption
    DEF WalletAssumption, WindowAssumption, CellsAssumption
  <2> HIDE DEF n, rest
  <2>5. \A k \in 1..n : cells[k] \in live
    <3> SUFFICES ASSUME NEW k \in 1..n PROVE cells[k] \in live
      OBVIOUS
    <3>1. k + 2 \in 1..(n + 2 + Len(rest))
      BY <2>1
    <3>2. cells[k] \in ToSet(ResolvedDeps(tx))
      BY <2>1, <3>1 DEF ToSet
    <3>3. cells[k] \in live \cup spent
      BY <1>1, <2>4 DEF OwnCells
    <3> QED
      BY <1>5, <3>2, <3>3
  <2>6. \A i \in 1..(n + 3) : i = 1 \/ i = 2 \/ i = n + 3 \/ \E k \in 1..n : i = k + 2
    <3> SUFFICES ASSUME NEW i \in 1..(n + 3), i # 1, i # 2, i # n + 3
                 PROVE  \E k \in 1..n : i = k + 2
      OBVIOUS
    <3>1. i - 2 \in 1..n /\ i = (i - 2) + 2
      BY <2>1
    <3> QED
      BY <3>1
  <2>7. ToSet(tx.cell_deps) \subseteq live
    <3>1. ASSUME NEW i \in 1..(n + 3) PROVE tx.cell_deps[i] \in live
      <4>1. CASE i = 1 \/ i = 2 \/ i = n + 3
        BY <2>1, <2>2, <4>1
      <4>2. CASE \E k \in 1..n : i = k + 2
        <5>1. PICK k \in 1..n : i = k + 2
          BY <4>2
        <5> QED
          BY <2>1, <2>5, <5>1
      <4> QED
        BY <2>6, <4>1, <4>2
    <3> QED
      BY <2>1, <3>1 DEF ToSet
  <2>8. \A i \in 1..(n + 2 + Len(rest)) :
          \/ i = 1 \/ i = 2 \/ \E k \in 1..n : i = k + 2
          \/ \E k \in 1..Len(rest) : i = n + 2 + k
    <3> SUFFICES ASSUME NEW i \in 1..(n + 2 + Len(rest)), i # 1, i # 2
                 PROVE  \/ \E k \in 1..n : i = k + 2
                        \/ \E k \in 1..Len(rest) : i = n + 2 + k
      OBVIOUS
    <3>1. CASE i <= n + 2
      <4>1. i - 2 \in 1..n /\ i = (i - 2) + 2
        BY <2>1, <3>1
      <4> QED
        BY <4>1
    <3>2. CASE i > n + 2
      <4>1. i - (n + 2) \in 1..Len(rest) /\ i = n + 2 + (i - (n + 2))
        BY <2>1, <3>2
      <4> QED
        BY <4>1
    <3> QED
      BY <2>1, <3>1, <3>2
  <2>9. ToSet(ResolvedDeps(tx)) \subseteq live
    <3>1. ASSUME NEW i \in 1..(n + 2 + Len(rest)) PROVE ResolvedDeps(tx)[i] \in live
      <4>1. CASE i = 1 \/ i = 2
        BY <2>1, <2>2, <4>1
      <4>2. CASE \E k \in 1..n : i = k + 2
        <5>1. PICK k \in 1..n : i = k + 2
          BY <4>2
        <5> QED
          BY <2>1, <2>5, <5>1
      <4>3. CASE \E k \in 1..Len(rest) : i = n + 2 + k
        <5>1. PICK k \in 1..Len(rest) : i = n + 2 + k
          BY <4>3
        <5> QED
          BY <2>1, <2>3, <2>4, <5>1
      <4> QED
        BY <2>8, <4>1, <4>2, <4>3
    <3> QED
      BY <2>1, <3>1 DEF ToSet
  <2>10. IsInjective(tx.cell_deps)
    BY <1>1, <1>3, DepsAreDistinct DEF OwnCells
  <2> QED
    BY <1>2, <2>7, <2>9, <2>10 DEF Resolves
<1> QED
  BY <1>4, <1>5

\* So is a recycling: the vote script runs for it and lets it pass.
LEMMA RecyclingResolves ==
  ASSUME StaysLive, NEW v \in Lock, NEW built, RecyclingBuilt(v, built),
         NEW tx, tx = Signed(built)
  PROVE  /\ VoteScriptAccepts(tx) /\ WellBuilt(tx)
         /\ (tx.inputs \cup ToSet(ResolvedDeps(tx))) \cap spent = {}
               => Resolves(tx, live, spent)
<1>1. PICK cell \in VoteCellsOf[v] \cap (live \cup spent) : built = RecyclingTx(v, cell)
  BY DEF RecyclingBuilt
<1> DEFINE front == <<VoteContract>>
           rest == GroupMembers[LockGroup]
<1>2. /\ tx.inputs = {cell} /\ tx.outputs = <<>> /\ tx.creates = {}
      /\ tx.cell_deps = Append(front, LockGroup)
  BY <1>1, SignedRecycling
<1>3. GroupOutput(tx) = {}
  BY <1>2 DEF GroupOutput
<1>4. VoteScriptAccepts(tx) /\ WellBuilt(tx)
  BY <1>3 DEF VoteScriptAccepts, WellBuilt
<1>5. /\ {VoteContract, LockGroup} \subseteq live /\ \A k \in DOMAIN rest : rest[k] \in live
      /\ VoteContract \in OutPoint /\ LockGroup # VoteContract /\ rest \in Seq(OutPoint)
  BY WalletAssumption, WindowAssumption, CellsAssumption, DependencyAssumption
  DEF WalletAssumption, WindowAssumption, CellsAssumption, DependencyAssumption, StaysLive,
      ToSet
<1>6. ResolvedDeps(tx) = front \o rest
  <2>1. front \in Seq(OutPoint) /\ front # <<>> /\ Len(front) = 1 /\ front[1] = VoteContract
    BY <1>5
  <2>2. \A i \in 1..Len(front) : front[i] \in Dao \cup {VoteContract, ProposalCell}
    BY <2>1
  <2> HIDE DEF front
  <2> QED
    BY <1>2, <2>1, <2>2, SignedDeps
<1>7. ToSet(ResolvedDeps(tx)) \subseteq live
  <2> DEFINE deps == front \o rest
  <2>1. ASSUME NEW i \in DOMAIN deps PROVE deps[i] \in live
    <3> HIDE DEF rest
    <3>1. i \in 1..(1 + Len(rest)) /\ Len(rest) \in Nat /\ DOMAIN rest = 1..Len(rest)
      BY <1>5
    <3>2. CASE i = 1
      BY <1>5, <3>2
    <3>3. CASE i # 1
      <4>1. i - 1 \in 1..Len(rest)
        BY <3>1, <3>3
      <4>2. deps[i] = rest[i - 1]
        BY <1>5, <3>1, <3>3
      <4> QED
        BY <1>5, <3>1, <4>1, <4>2
    <3> QED
      BY <3>2, <3>3
  <2> HIDE DEF deps
  <2>2. ToSet(deps) \subseteq live
    BY <2>1 DEF ToSet
  <2> QED
    BY <1>6, <2>2 DEF deps
<1>8. ToSet(tx.cell_deps) \subseteq live /\ IsInjective(tx.cell_deps)
  <2> DEFINE deps == Append(front, LockGroup)
  <2>1. DOMAIN deps = {1, 2} /\ deps[1] = VoteContract /\ deps[2] = LockGroup
    OBVIOUS
  <2> HIDE DEF deps
  <2>2. ToSet(deps) \subseteq live /\ IsInjective(deps)
    BY <1>5, <2>1 DEF ToSet, IsInjective
  <2> QED
    BY <1>2, <2>2 DEF deps
<1>9. ASSUME tx.inputs \cap spent = {} PROVE Resolves(tx, live, spent)
  BY <1>1, <1>2, <1>7, <1>8, <1>9 DEF Resolves
<1> QED
  BY <1>4, <1>9

(***************************************************************************)
(* The invariant in every step.                                             *)
(***************************************************************************)
\* Every cell that has existed, has existed for good, and a commit adds only what
\* its transaction creates.
LEMMA CommitExists ==
  ASSUME NEW tx, Commit(tx)
  PROVE  /\ live' \cup spent' = live \cup spent \cup tx.creates
         /\ live \ tx.inputs \subseteq live'
BY DEF Commit, Resolves

\* What a command has built stays built while no vote cell of its voter appears.
LEMMA VoteStaysBuilt ==
  ASSUME NEW v \in Lock, NEW tx, VoteBuilt(v, tx),
         live \cup spent \subseteq live' \cup spent',
         VoteCellsOf[v] \cap (live' \cup spent') \subseteq live \cup spent
  PROVE  VoteBuilt(v, tx)'
<1>1. PICK vote \in {0, 1}, cells \in Seq(Dao), made \in VoteCellsOf[v] \ (live \cup spent) :
        /\ cells # <<>> /\ OwnCells(v, cells)
        /\ VoteOutput(v, vote, cells).amount \in 0..U64Max
        /\ tx = VoteTx(v, vote, cells, made)
  BY DEF VoteBuilt
<1>2. OwnCells(v, cells)' /\ made \in VoteCellsOf[v] \ (live' \cup spent')
  BY <1>1 DEF OwnCells
<1> QED
  BY <1>1, <1>2 DEF VoteBuilt

LEMMA CommandStays ==
  ASSUME NEW v \in Lock, Command(v), wallet'[v] = wallet[v],
         live \cup spent \subseteq live' \cup spent',
         VoteCellsOf[v] \cap (live' \cup spent') \subseteq live \cup spent
  PROVE  Command(v)'
<1>1. ASSUME NEW cells, OwnCells(v, cells) PROVE OwnCells(v, cells)'
  BY <1>1 DEF OwnCells
<1>2. ASSUME NEW tx, VoteBuilt(v, tx) PROVE VoteBuilt(v, tx)'
  BY <1>2, VoteStaysBuilt
<1>3. ASSUME NEW tx, RecyclingBuilt(v, tx) PROVE RecyclingBuilt(v, tx)'
  BY <1>3 DEF RecyclingBuilt
<1>4. ASSUME NEW tx, Built(v, tx) PROVE Built(v, tx)'
  BY <1>2, <1>3, <1>4 DEF Built
<1>5. ASSUME In(v, "scanning")' PROVE OwnCells(v, wallet[v].daoCells)' /\ Traversed(v)'
  <2>1. In(v, "scanning")
    BY <1>5 DEF In
  <2>2. OwnCells(v, wallet[v].daoCells) /\ Traversed(v)
    BY <2>1 DEF Command
  <2> QED
    BY <1>1, <2>2 DEF Traversed
<1>6. ASSUME In(v, "built")' PROVE Built(v, wallet[v].tx)'
  BY <1>4, <1>6 DEF Command, In
<1>7. ASSUME In(v, "sent")' PROVE (\E tx : Built(v, tx) /\ wallet[v].tx = Signed(tx))'
  BY <1>4, <1>7 DEF Command, In
<1> QED
  BY <1>5, <1>6, <1>7 DEF Command

\* The command of one voter, step by step.
LEMMA ScanBuilds ==
  ASSUME BuiltInv, NEW v \in Lock, Scan(v)
  PROVE  Command(v)'
<1>1. In(v, "scanning") /\ OwnCells(v, wallet[v].daoCells) /\ Traversed(v)
  BY DEF Scan, BuiltInv, Command
<1>2. PICK k \in Ahead(v) :
        Becomes(v, [phase |-> "scanning", at |-> k,
                    daoCells |-> Append(wallet[v].daoCells, ScanOrder[k])])
  BY DEF Scan
<1> DEFINE old == wallet[v].daoCells
           new == Append(old, ScanOrder[k])
           at == wallet[v].at
           state == [phase |-> "scanning", at |-> k, daoCells |-> new]
<1>3. /\ k \in DOMAIN ScanOrder /\ k > at /\ ScanOrder[k] \in live /\ LockOf[ScanOrder[k]] = v
      /\ k \in Nat /\ at \in Nat /\ ScanOrder[k] \in Dao /\ DOMAIN ScanOrder \subseteq Nat
      /\ \A i, j \in DOMAIN ScanOrder : ScanOrder[i] = ScanOrder[j] => i = j
  BY <1>1, <1>2, WalletAssumption DEF WalletAssumption, Ahead, Traversed, IsInjective
<1>4. wallet'[v] = state
  BY <1>2 DEF Becomes, BuiltInv
<1>5. UNCHANGED <<live, spent>>
  BY DEF Scan, vars, ledger
<1> DEFINE n == Len(old)
<1>6. /\ old \in Seq(Dao) /\ n \in Nat /\ DOMAIN old = 1..n
      /\ \A i, j \in 1..n : old[i] = old[j] => i = j
      /\ \A i \in 1..n : LockOf[old[i]] = v /\ old[i] \in live \cup spent
      /\ \A i \in 1..n : \E m \in DOMAIN ScanOrder : m <= at /\ old[i] = ScanOrder[m]
  BY <1>1 DEF OwnCells, Traversed, IsInjective
<1>7. /\ new \in Seq(Dao) /\ DOMAIN new = 1..(n + 1)
      /\ \A i \in 1..n : new[i] = old[i]
      /\ new[n + 1] = ScanOrder[k]
  BY <1>3, <1>6
<1> HIDE DEF old, new, n, at
<1>8. \A i \in 1..n : old[i] # ScanOrder[k]
  BY <1>3, <1>6
<1>9. \A i \in 1..(n + 1) : i \in 1..n \/ i = n + 1
  BY <1>6
<1>10. IsInjective(new)
  BY <1>6, <1>7, <1>8, <1>9 DEF IsInjective
<1>11. \A i \in 1..(n + 1) : LockOf[new[i]] = v /\ new[i] \in live \cup spent
  BY <1>3, <1>6, <1>7, <1>9
<1>12. \A i \in 1..(n + 1) : \E m \in DOMAIN ScanOrder : m <= k /\ new[i] = ScanOrder[m]
  <2>1. ASSUME NEW i \in 1..n
        PROVE  \E m \in DOMAIN ScanOrder : m <= k /\ new[i] = ScanOrder[m]
    <3>1. PICK m \in DOMAIN ScanOrder : m <= at /\ old[i] = ScanOrder[m]
      BY <1>6
    <3> QED
      BY <1>3, <1>7, <3>1
  <2>2. k <= k /\ new[n + 1] = ScanOrder[k]
    BY <1>3, <1>7
  <2> QED
    BY <1>3, <1>9, <2>1, <2>2
<1>13. PICK found : found = new
  OBVIOUS
<1>14. wallet'[v].phase = "scanning" /\ wallet'[v].at = k /\ wallet'[v].daoCells = found
  BY <1>4, <1>13
<1>15. OwnCells(v, found)'
  BY <1>5, <1>7, <1>10, <1>11, <1>13 DEF OwnCells
<1>16. Traversed(v)'
  <2>1. DOMAIN found = 1..(n + 1)
    BY <1>7, <1>13
  <2>2. \A i \in DOMAIN found : \E m \in DOMAIN ScanOrder : m <= k /\ found[i] = ScanOrder[m]
    BY <1>12, <1>13, <2>1
  <2> QED
    BY <1>3, <1>14, <2>2 DEF Traversed
<1> QED
  BY <1>14, <1>15, <1>16 DEF Command, In

LEMMA VoteBuilds ==
  ASSUME BuiltInv, NEW v \in Lock, BuildVote(v)
  PROVE  Command(v)'
<1>1. In(v, "scanning") /\ OwnCells(v, wallet[v].daoCells)
  BY DEF BuildVote, BuiltInv, Command
<1> DEFINE cells == wallet[v].daoCells
<1>2. PICK vote \in {0, 1}, made \in VoteCellsOf[v] \ (live \cup spent) :
        /\ VoteOutput(v, vote, cells).amount \in 0..U64Max
        /\ Becomes(v, [phase |-> "built", tx |-> VoteTx(v, vote, cells, made)])
  BY DEF BuildVote, VoteTx
<1>3. cells # <<>> /\ UNCHANGED <<live, spent>>
  BY DEF BuildVote, vars, ledger
<1> DEFINE tx == VoteTx(v, vote, cells, made)
           state == [phase |-> "built", tx |-> tx]
<1>4. PICK own \in Seq(Dao) : own = cells
  BY <1>1 DEF OwnCells
<1>5. VoteBuilt(v, tx)
  <2> HIDE DEF cells
  <2> QED
    BY <1>1, <1>2, <1>3, <1>4 DEF VoteBuilt, cells
<1>6. wallet'[v] = state
  BY <1>2 DEF Becomes, BuiltInv
<1> HIDE DEF tx
<1>7. PICK built : built = tx
  OBVIOUS
<1>8. VoteBuilt(v, built)
  BY <1>5, <1>7
<1>9. Built(v, built)'
  BY <1>3, <1>8, VoteStaysBuilt DEF Built
<1>10. wallet'[v].phase = "built" /\ wallet'[v].tx = built
  BY <1>6, <1>7
<1> QED
  BY <1>9, <1>10 DEF Command, In

LEMMA RecyclingBuilds ==
  ASSUME BuiltInv, NEW v \in Lock, BuildRecycling(v)
  PROVE  Command(v)'
<1>1. PICK cell \in VoteCellsOf[v] \cap live :
        Becomes(v, [phase |-> "built", tx |-> RecyclingTx(v, cell)])
  BY DEF BuildRecycling, RecyclingTx
<1>2. wallet'[v].phase = "built" /\ wallet'[v].tx = RecyclingTx(v, cell)
  BY <1>1 DEF Becomes, BuiltInv
<1>3. UNCHANGED <<live, spent>>
  BY DEF BuildRecycling, vars, ledger
<1>4. RecyclingBuilt(v, RecyclingTx(v, cell))'
  BY <1>1, <1>3 DEF RecyclingBuilt
<1> QED
  BY <1>2, <1>4 DEF Command, In, Built

LEMMA SendingSigns ==
  ASSUME BuiltInv, NEW v \in Lock, Send(v)
  PROVE  Command(v)'
<1>1. Built(v, wallet[v].tx)
  BY DEF Send, BuiltInv, Command
<1>2. PICK built : built = wallet[v].tx
  OBVIOUS
<1>3. wallet'[v].phase = "sent" /\ wallet'[v].tx = Signed(built)
  BY <1>2 DEF Send, Becomes, BuiltInv
<1>4. UNCHANGED <<live, spent>>
  BY DEF Send, vars, ledger
<1>5. Built(v, built)'
  <2>1. CASE VoteBuilt(v, built)
    BY <1>4, <2>1, VoteStaysBuilt DEF Built
  <2>2. CASE RecyclingBuilt(v, built)
    BY <1>4, <2>2 DEF Built, RecyclingBuilt
  <2> QED
    BY <1>1, <1>2, <2>1, <2>2 DEF Built
<1> QED
  BY <1>3, <1>5 DEF Command, In

\* What a command sends creates a vote cell of its voter or spends one, and leaves
\* the other cells alone.
LEMMA SentMoves ==
  ASSUME BuiltInv, NEW v \in Lock, CommitSent(v)
  PROVE  /\ wallet[v].tx.creates \subseteq VoteCellsOf[v]
         /\ wallet[v].tx.inputs \subseteq VoteCellsOf[v]
<1>1. PICK built : Built(v, built) /\ wallet[v].tx = Signed(built)
  BY DEF CommitSent, BuiltInv, Command
<1>2. CASE VoteBuilt(v, built)
  <2>1. PICK vote \in {0, 1}, cells \in Seq(Dao), made \in VoteCellsOf[v] \ (live \cup spent) :
          built = VoteTx(v, vote, cells, made)
    BY <1>2 DEF VoteBuilt
  <2> QED
    BY <1>1, <2>1, SignedFields
<1>3. CASE RecyclingBuilt(v, built)
  <2>1. PICK cell \in VoteCellsOf[v] : built = RecyclingTx(v, cell)
    BY <1>3 DEF RecyclingBuilt
  <2> QED
    BY <1>1, <2>1, SignedRecycling
<1> QED
  BY <1>1, <1>2, <1>3 DEF Built

\* The other commands do not mind a commit that makes no vote cell of theirs.
LEMMA OthersStay ==
  ASSUME BuiltInv, NEW tx, Commit(tx), NEW v \in Lock, wallet'[v] = wallet[v],
         tx.creates \cap VoteCellsOf[v] = {}
  PROVE  Command(v)'
<1>1. /\ live \cup spent \subseteq live' \cup spent'
      /\ VoteCellsOf[v] \cap (live' \cup spent') \subseteq live \cup spent
  BY CommitExists
<1> QED
  BY <1>1, CommandStays DEF BuiltInv

\* Each step of a command but the last leaves the chain alone, and so the
\* commands of the others.
LEMMA BuiltInvCommand ==
  ASSUME BuiltInv, NEW v \in Lock,
         \/ StartVote(v) \/ Scan(v) \/ BuildVote(v) \/ BuildRecycling(v)
         \/ Send(v) \/ GiveUp(v)
  PROVE  BuiltInv'
<1>1. UNCHANGED <<live, spent>>
  BY DEF StartVote, Scan, BuildVote, BuildRecycling, Send, GiveUp, vars, ledger
<1>2. PICK state : wallet' = [wallet EXCEPT ![v] = state]
  BY DEF StartVote, Scan, BuildVote, BuildRecycling, Send, GiveUp, Becomes
<1>3. wallet = [w \in Lock |-> wallet[w]]
  BY DEF BuiltInv
<1>4. wallet' = [w \in Lock |-> wallet'[w]] /\ \A w \in Lock \ {v} : wallet'[w] = wallet[w]
  BY <1>2, <1>3
<1>5. Command(v)'
  <2>1. CASE StartVote(v)
    <3>1. Becomes(v, [phase |-> "scanning", at |-> 0, daoCells |-> <<>>])
      BY <2>1 DEF StartVote
    <3>2. /\ wallet'[v].phase = "scanning" /\ wallet'[v].at = 0
          /\ wallet'[v].daoCells = <<>>
      BY <1>3, <3>1 DEF Becomes
    <3>3. <<>> \in Seq(Dao) /\ DOMAIN <<>> = {}
      OBVIOUS
    <3>4. OwnCells(v, <<>>)'
      BY <3>3 DEF OwnCells, IsInjective
    <3>5. Traversed(v)'
      BY <3>2, <3>3 DEF Traversed
    <3> QED
      BY <3>2, <3>4, <3>5 DEF Command, In
  <2>2. CASE GiveUp(v)
    <3>1. wallet'[v] = None
      BY <1>3, <2>2 DEF GiveUp, Becomes
    <3> QED
      BY <3>1 DEF Command, In
  <2> QED
    BY <2>1, <2>2, ScanBuilds, VoteBuilds, RecyclingBuilds, SendingSigns
<1>6. \A w \in Lock \ {v} : Command(w)'
  BY <1>1, <1>4, CommandStays DEF BuiltInv
<1>7. StaysLive'
  BY <1>1 DEF BuiltInv, StaysLive
<1> QED
  BY <1>4, <1>5, <1>6, <1>7 DEF BuiltInv

LEMMA BuiltInvCommit ==
  ASSUME BuiltInv, NEW v \in Lock, CommitSent(v)
  PROVE  BuiltInv'
<1>1. PICK tx : /\ tx = wallet[v].tx /\ Commit(tx)
                /\ tx.creates \subseteq VoteCellsOf[v] /\ tx.inputs \subseteq VoteCellsOf[v]
  BY SentMoves DEF CommitSent
<1>2. /\ wallet' = [w \in Lock |-> wallet'[w]] /\ wallet'[v] = None
      /\ \A w \in Lock \ {v} : wallet'[w] = wallet[w]
  BY DEF CommitSent, Becomes, BuiltInv
<1>3. /\ \A w \in Lock \ {v} : VoteCellsOf[v] \cap VoteCellsOf[w] = {}
      /\ VoteCellsOf[v] \cap InitLive = {}
  BY WalletAssumption DEF WalletAssumption
<1>4. \A w \in Lock \ {v} : Command(w)'
  BY <1>1, <1>2, <1>3, OthersStay
<1>5. Command(v)'
  BY <1>2 DEF Command, In
<1>6. StaysLive'
  BY <1>1, <1>3, CommitExists DEF BuiltInv, StaysLive
<1> QED
  BY <1>2, <1>4, <1>5, <1>6 DEF BuiltInv

LEMMA BuiltInvChain ==
  ASSUME BuiltInv, ChainStep
  PROVE  BuiltInv'
<1>0. UNCHANGED wallet
  BY DEF ChainStep
<1>1. CASE MoveDeposits
  <2>1. PICK inputs \in SUBSET (live \cap Dao), creates \in SUBSET Dao, payer \in Lock :
          Commit([inputs |-> inputs, payer |-> payer, cell_deps |-> <<>>,
                  outputs |-> <<>>, creates |-> creates])
    BY <1>1 DEF MoveDeposits
  <2>2. PICK tx : Commit(tx) /\ tx.inputs \subseteq Dao /\ tx.creates \subseteq Dao
    <3> DEFINE moved == [inputs |-> inputs, payer |-> payer, cell_deps |-> <<>>,
                         outputs |-> <<>>, creates |-> creates]
    <3>1. moved.inputs \subseteq Dao /\ moved.creates \subseteq Dao
      OBVIOUS
    <3> HIDE DEF moved
    <3> QED
      BY <2>1, <3>1 DEF moved
  <2>3. \A v \in Lock : tx.creates \cap VoteCellsOf[v] = {}
    BY <2>2, WalletAssumption DEF WalletAssumption
  <2>4. \A v \in Lock : Command(v)'
    BY <1>0, <2>2, <2>3, OthersStay
  <2>5. StaysLive'
    BY <2>2, CommitExists DEF BuiltInv, StaysLive
  <2> QED
    BY <1>0, <2>4, <2>5 DEF BuiltInv
<1>2. CASE NextBlock \/ CloseWindow
  <2>1. UNCHANGED <<live, spent>>
    BY <1>2 DEF NextBlock, CloseWindow, ledger
  <2>2. \A v \in Lock : Command(v)'
    BY <1>0, <2>1, CommandStays DEF BuiltInv
  <2> QED
    BY <1>0, <2>1, <2>2 DEF BuiltInv, StaysLive
<1> QED
  BY <1>1, <1>2 DEF ChainStep

\* The invariant holds in every behaviour.
LEMMA BuiltInvInductive == WalletSpec => []BuiltInv
<1>1. WalletInit => BuiltInv
  BY DEF WalletInit, Init, BuiltInv, StaysLive, Command, In
<1>2. BuiltInv /\ [WalletNext]_walletVars => BuiltInv'
  <2> SUFFICES ASSUME BuiltInv, [WalletNext]_walletVars
               PROVE  BuiltInv'
    OBVIOUS
  <2>1. CASE WalletStep
    BY <2>1, BuiltInvCommand, BuiltInvCommit DEF WalletStep
  <2>2. CASE ChainStep
    BY <2>2, BuiltInvChain
  <2>3. CASE UNCHANGED walletVars
    <3>1. UNCHANGED <<live, spent>> /\ UNCHANGED wallet
      BY <2>3 DEF walletVars, vars, ledger
    <3>2. \A v \in Lock : Command(v)'
      BY <3>1, CommandStays DEF BuiltInv
    <3> QED
      BY <3>1, <3>2 DEF BuiltInv, StaysLive
  <2> QED
    BY <2>1, <2>2, <2>3 DEF WalletNext
<1> QED
  BY <1>1, <1>2, PTL DEF WalletSpec

\* What createVote and consumeVote of sdk/src/vote.ts build, and the signer
\* completes, passes the vote script and is counted at the cells the script saw,
\* and the node takes it unless a cell it names or spends is gone by then: for any
\* number of deposits, in whatever order the indexer lists them and however long
\* the dep_group of the lock scripts is, and whatever is deposited, withdrawn and
\* voted while a command looks for the deposits or waits for its signature.
THEOREM SdkBuildsValid == WalletSpec => []RefusedOnlyForSpentCells
<1>1. ASSUME BuiltInv, NEW v \in Lock, wallet[v] # None,
             wallet[v].phase \in {"built", "sent"}, NEW tx,
             tx = IF In(v, "built") THEN Signed(wallet[v].tx) ELSE wallet[v].tx
      PROVE  /\ VoteScriptAccepts(tx) /\ WellBuilt(tx)
             /\ (tx.inputs \cup ToSet(ResolvedDeps(tx))) \cap spent = {}
                   => Resolves(tx, live, spent)
  <2>1. PICK built : Built(v, built) /\ tx = Signed(built)
    <3>1. CASE In(v, "built")
      BY <1>1, <3>1 DEF BuiltInv, Command
    <3>2. CASE ~In(v, "built")
      <4>1. In(v, "sent") /\ tx = wallet[v].tx
        BY <1>1, <3>2 DEF In
      <4> QED
        BY <1>1, <4>1 DEF BuiltInv, Command
    <3> QED
      BY <3>1, <3>2
  <2>2. StaysLive
    BY <1>1 DEF BuiltInv
  <2>3. CASE VoteBuilt(v, built)
    BY <2>1, <2>2, <2>3, VoteResolves
  <2>4. CASE RecyclingBuilt(v, built)
    BY <2>1, <2>2, <2>4, RecyclingResolves
  <2> QED
    BY <2>1, <2>3, <2>4 DEF Built
<1>2. BuiltInv => RefusedOnlyForSpentCells
  BY <1>1 DEF RefusedOnlyForSpentCells
<1> QED
  BY <1>2, BuiltInvInductive, PTL
=============================================================================
