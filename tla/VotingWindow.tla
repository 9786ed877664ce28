---------------------------- MODULE VotingWindow ----------------------------
(***************************************************************************)
(* One proposal's voting window: the chain commits transactions, the vote   *)
(* type script guards each of them, and count_vote replays them.            *)
(*                                                                          *)
(* The guest program runs after the window and replays its blocks from the  *)
(* first to the last.  Its two maps are a function of the transactions so   *)
(* far, so they advance here with each commit: they hold what count_vote    *)
(* holds when it has replayed the chain up to this point.                   *)
(***************************************************************************)
EXTENDS VoteScript, CountVote

CONSTANTS
  Duration,     \* Proposal.duration; the window is the blocks 0..Duration
  InitLive,     \* the cells that are live when the proposal is created
  DepLists,     \* the lists of cell_deps that wallets build
  OutputLists,  \* the lists of outputs with vote cells that wallets build
  CastInputs,   \* bound: how many deposits a transaction that votes can spend
  RepeatIndex,  \* may a wallet put an index into dao_index twice?
  SpendNamed,   \* may it spend a deposit in the transaction that votes with it?
  GroupBefore   \* may it put a dep_group in front of a deposit it votes with?

ASSUME WindowAssumption ==
  /\ Duration \in Nat
  /\ InitLive \subseteq OutPoint /\ ProposalCell \in InitLive
  /\ DepLists \subseteq Seq(OutPoint)
  /\ OutputLists \subseteq Seq(VoteCell)
  /\ CastInputs \in Nat
  /\ {RepeatIndex, SpendNamed, GroupBefore} \subseteq BOOLEAN

VARIABLES
  block,                  \* the block that is being filled
  live,                   \* the cells that exist
  spent,                  \* the cells that existed
  vote_map,               \* "Map": voter -> direction and amount
  dao_outpoint_to_voter,  \* "Map2": deposit -> voter
  result,                 \* the VoteResult, None before the window is over
  backing                 \* ghost: the cells the vote script accepted as the
                          \* deposits behind each vote of vote_map

ledger == <<live, spent>>
maps   == <<vote_map, dao_outpoint_to_voter, backing>>
vars   == <<block, ledger, maps, result>>

(***************************************************************************)
(* What the wallets build.  sdk/src/vote.ts lists each deposit once, before *)
(* the dep_group of the lock script, and spends only plain cells.           *)
(***************************************************************************)
Resolved(tx, i) == i + 1 \in DOMAIN ResolvedDeps(tx)

ScriptNamed(tx, j) ==
  {ResolvedDeps(tx)[i + 1] : i \in {n \in ToSet(tx.outputs[j].dao_index) : Resolved(tx, n)}}

\* The script and the vote counter find the same cell at index i.
IsDep(tx, i) == i < Len(tx.cell_deps) /\ ResolvedDeps(tx)[i + 1] = tx.cell_deps[i + 1]

WellBuilt(tx) ==
  \A j \in GroupOutput(tx) :
     /\ RepeatIndex \/ IsInjective(tx.outputs[j].dao_index)
     /\ SpendNamed \/ tx.inputs \cap ScriptNamed(tx, j) = {}
     /\ GroupBefore \/ \A i \in ToSet(tx.outputs[j].dao_index) :
                         Resolved(tx, i) => IsDep(tx, i)

TypeOK ==
  /\ block \in 0..Duration
  /\ live \subseteq OutPoint
  /\ spent \subseteq OutPoint
  /\ vote_map \in [Lock -> Ballot \cup {None}]
  /\ dao_outpoint_to_voter \in [OutPoint -> Lock \cup {None}]
  /\ backing \in [Lock -> SUBSET OutPoint]
  /\ result \in [yes_vote: 0..U64Max, no_vote: 0..U64Max, passed: BOOLEAN] \cup {None}

Init ==
  /\ block = 0
  /\ live = InitLive
  /\ spent = {}
  /\ vote_map = [v \in Lock |-> None]
  /\ dao_outpoint_to_voter = [c \in OutPoint |-> None]
  /\ backing = [v \in Lock |-> {}]
  /\ result = None

\* The chain commits tx, and the replay of the guest program follows it.
Commit(tx) ==
  /\ result = None
  /\ Resolves(tx, live, spent)
  /\ VoteScriptAccepts(tx)
  /\ WellBuilt(tx)
  /\ live' = (live \ tx.inputs) \cup tx.creates
  /\ spent' = spent \cup tx.inputs
  /\ dao_outpoint_to_voter' = OwnersAfter(tx, dao_outpoint_to_voter)
  /\ vote_map' = VotesAfter(tx, dao_outpoint_to_voter, vote_map)
  /\ backing' =
       [v \in Lock |->
          LET of == {j \in Counted(tx) : tx.outputs[j].lock = v}
          IN  IF of # {} THEN ScriptNamed(tx, Latest(of))
              ELSE IF vote_map'[v] = None THEN {}
              ELSE backing[v]]
  /\ UNCHANGED <<block, result>>

\* A transaction with vote cells among its outputs; it may spend deposits too.
Cast ==
  \E inputs \in SUBSET (live \cap Dao), deps \in DepLists, outs \in OutputLists,
     payer \in Lock :
    /\ Cardinality(inputs) <= CastInputs
    /\ Commit([inputs |-> inputs, payer |-> payer, cell_deps |-> deps,
               outputs |-> outs, creates |-> {}])

\* A transaction without a vote cell that deposits into the Nervos DAO,
\* withdraws from it, or both.
MoveDeposits ==
  \E payer \in Lock, inputs \in SUBSET (live \cap Dao), creates \in SUBSET Dao :
    /\ inputs \cup creates # {}
    /\ Commit([inputs |-> inputs, payer |-> payer, cell_deps |-> <<>>,
               outputs |-> <<>>, creates |-> creates])

\* Mutant: the window takes one block too many.
NextBlockPastEnd ==
  /\ result = None
  /\ block <= Duration
  /\ block' = block + 1
  /\ UNCHANGED <<ledger, maps, result>>

NextBlock ==
  /\ result = None
  /\ block < Duration
  /\ block' = block + 1
  /\ UNCHANGED <<ledger, maps, result>>

\* The guest program gets exactly duration + 1 blocks and tallies.
CloseWindow ==
  /\ result = None
  /\ block = Duration
  /\ result' = Tally(vote_map)
  /\ UNCHANGED <<block, ledger, maps>>

Next == Cast \/ MoveDeposits \/ NextBlock \/ CloseWindow

Spec == Init /\ [][Next]_vars
-----------------------------------------------------------------------------
(***************************************************************************)
(* Properties.                                                              *)
(***************************************************************************)
Voted(v) == vote_map[v] # None

CapacityIn(cells) == SumFunctionOnSet(CapacityOf, cells)

\* Every entry of Map2 names a DAO cell of the voter it is registered for: no
\* voter can register, and so later invalidate with, a deposit of another one.
OwnRegistration ==
  \A c \in OutPoint : dao_outpoint_to_voter[c] # None =>
     c \in Dao /\ LockOf[c] = dao_outpoint_to_voter[c]

\* The DAO deposits behind a counted vote are all unspent: spending one of them
\* anywhere in the window takes the vote out of the count.
BackingAlive ==
  \A v \in Lock : Voted(v) => backing[v] \subseteq live

\* The deposits behind a counted vote are registered in Map2 for their voter,
\* so that spending one will be noticed.
BackingRegistered ==
  \A v \in Lock : Voted(v) => \A c \in backing[v] : dao_outpoint_to_voter[c] = v

\* A counted vote weighs exactly the capacity of the distinct DAO cells of the
\* voter that are behind it.
AmountIsBacked ==
  \A v \in Lock : Voted(v) =>
     /\ \A c \in backing[v] : c \in Dao /\ LockOf[c] = v
     /\ vote_map[v].amount = CapacityIn(backing[v])

\* No shannon is counted twice: all the votes together never weigh more than
\* the DAO cells that exist, however deposits were moved and votes recast.
NoShannonTwice ==
  Tally(vote_map).yes_vote + Tally(vote_map).no_vote <= CapacityIn(live \cap Dao)

\* The published result is deserved: a proposal passes only if unspent deposits
\* that stand behind YES outweigh those behind NO and both exceed the minimal
\* requirement.
PassedIsDeserved ==
  (result # None /\ result.passed) =>
     LET behind(vs) == CapacityIn(UNION {backing[v] \cap live : v \in vs})
     IN  /\ behind(Yes(vote_map)) > behind(No(vote_map))
         /\ behind(Yes(vote_map) \cup No(vote_map)) > MinimalRequirement * ShannonPerCkb

\* A vote leaves the count only when its own voter spends a deposit that is
\* registered for him: nobody else can retract it.
OnlyVoterRetracts ==
  [][\A v \in Lock : Voted(v) /\ ~Voted(v)' =>
       \E c \in spent' \ spent : c \in Dao /\ LockOf[c] = v
                                 /\ dao_outpoint_to_voter[c] = v]_vars

\* The voting window implements the ballot box: Map is the box, Map2 inverted
\* says which deposits a voter has pledged, and the spent DAO cells are retired.
Box == INSTANCE BallotBox WITH
  Voter <- Lock, Deposit <- Dao, OwnerOf <- LockOf, WorthOf <- CapacityOf,
  Absent <- None,
  ballot <- vote_map,
  pledged <- [v \in Lock |-> {c \in Dao : dao_outpoint_to_voter[c] = v}],
  retired <- spent

\* The replay of what the scripts let through is a run of the abstract ballot
\* box: each counted vote is the last one of its voter, weighs the unspent
\* deposits pledged for it, and disappears with the first pledge that is spent.
ImplementsBallotBox == Box!BoxSpec

\* A vote is lost only when a deposit behind that very vote is spent, and not
\* one that an earlier vote of the voter has left in Map2.  This takes votes like
\* those of sdk/src/vote.ts, which name every deposit.
LostVoteWasSpent ==
  [][\A v \in Lock : Voted(v) /\ ~Voted(v)' => backing[v] \cap spent' # {}]_vars
=============================================================================
