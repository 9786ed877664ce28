---------------------------- MODULE VotingWallet ----------------------------
(***************************************************************************)
(* createVote and consumeVote of sdk/src/vote.ts on the chain of            *)
(* VotingWindow.                                                            *)
(*                                                                          *)
(* The commands wait for the node several times, and the chain goes on in   *)
(* between: deposits are made and withdrawn by other commands of the same   *)
(* voter while one of them looks for his deposits, and after it has found   *)
(* them.  Each voter has one such command at a time and waits until its     *)
(* transaction is committed or given up; the chain does not ask him to.     *)
(*                                                                          *)
(* VotingWindow's LostVoteWasSpent, which a vote that names a part of the    *)
(* deposits can break, holds here: each vote names every deposit of the     *)
(* voter, so an entry of Map2 that is left from an earlier vote is one of   *)
(* the new vote as well, or spent.                                          *)
(***************************************************************************)
EXTENDS VotingWindow

CONSTANTS
  VoteContract,  \* the cell with the vote type script, config.voteTypeScript
  LockGroup,     \* the dep_group of the lock scripts that the signer adds
  ScanOrder,     \* the DAO cells in the order of the indexer: oldest first
  VoteCellsOf    \* bound: the vote cells that each voter can create

ASSUME WalletAssumption ==
  /\ {VoteContract, LockGroup} \subseteq InitLive
  /\ ScanOrder \in Seq(Dao) /\ IsInjective(ScanOrder) /\ ToSet(ScanOrder) = Dao
  /\ VoteCellsOf \in [Lock -> SUBSET (OutPoint \ (Dao \cup InitLive))]
  /\ \A v, w \in Lock : v # w => VoteCellsOf[v] \cap VoteCellsOf[w] = {}

\* The SDK names the contract, the proposal and the deposits as dependencies of
\* depType "code", so each stands for itself.  The dep_group of the lock scripts
\* is another cell, and neither it nor what it lists is a deposit or a vote, so
\* these stay live.  Every cell has some capacity.
ASSUME DependencyAssumption ==
  /\ VoteContract # ProposalCell /\ LockGroup \notin {VoteContract, ProposalCell}
  /\ {VoteContract, LockGroup} \cap Dao = {}
  /\ \A c \in Dao \cup {VoteContract, ProposalCell} : GroupMembers[c] = <<c>>
  /\ ToSet(GroupMembers[LockGroup]) \subseteq InitLive \ Dao
  /\ \A c \in Dao : CapacityOf[c] # 0

VARIABLE wallet  \* what the command of each voter has come to, or None

walletVars == <<vars, wallet>>

In(v, phase) == wallet[v] # None /\ wallet[v].phase = phase

Becomes(v, state) == wallet' = [wallet EXCEPT ![v] = state]
-----------------------------------------------------------------------------
(***************************************************************************)
(* createVote                                                               *)
(***************************************************************************)
\* getRequiredCell finds the proposal.
StartVote(v) ==
  /\ wallet[v] = None
  /\ ProposalCell \in live
  /\ Becomes(v, [phase |-> "scanning", at |-> 0, daoCells |-> <<>>])
  /\ UNCHANGED vars

\* The places behind the cursor with a live deposit of the voter.
Ahead(v) ==
  {k \in DOMAIN ScanOrder :
     k > wallet[v].at /\ ScanOrder[k] \in live /\ LockOf[ScanOrder[k]] = v}

\* Mutant: daoCells is assigned, not extended.
ScanKeepsLast(v) ==
  /\ In(v, "scanning")
  /\ \E k \in Ahead(v) :
       /\ \A j \in Ahead(v) : k <= j
       /\ Becomes(v, [phase |-> "scanning", at |-> k, daoCells |-> <<ScanOrder[k]>>])
  /\ UNCHANGED vars

\* findCellsByLock: the next live cell behind the cursor, as the chain is now.
Scan(v) ==
  /\ In(v, "scanning")
  /\ \E k \in Ahead(v) :
       /\ \A j \in Ahead(v) : k <= j
       /\ Becomes(v, [phase |-> "scanning", at |-> k,
                      daoCells |-> Append(wallet[v].daoCells, ScanOrder[k])])
  /\ UNCHANGED vars

\* Mutant: the contract is not counted.
VoteDataFromOne(v, vote, daoCells) ==
  [type |-> ThisVote, lock |-> v, form |-> "exact", vote |-> vote,
   amount |-> FoldLeft(LAMBDA sum, cell : sum + CapacityOf[cell], 0, daoCells),
   dao_index |-> [i \in DOMAIN daoCells |-> i]]

\* The vote cell: the sum of the deposits, and their places in the cell_deps,
\* which begin at daoBaseIndex = 2.
VoteOutput(v, vote, daoCells) ==
  [type |-> ThisVote, lock |-> v, form |-> "exact", vote |-> vote,
   amount |-> FoldLeft(LAMBDA sum, cell : sum + CapacityOf[cell], 0, daoCells),
   dao_index |-> [i \in DOMAIN daoCells |-> 1 + i]]

\* No further cell is found.  The transaction is put together with plain cells of
\* the signer for inputs; the outpoint of the new vote cell is a fresh one.  The
\* codec takes an amount of 64 bits.
BuildVote(v) ==
  /\ In(v, "scanning")
  /\ Ahead(v) = {}
  /\ wallet[v].daoCells # <<>>
  /\ \E vote \in {0, 1}, cell \in VoteCellsOf[v] \ (live \cup spent) :
       /\ VoteOutput(v, vote, wallet[v].daoCells).amount \in 0..U64Max
       /\ Becomes(v, [phase |-> "built",
                      tx |-> [inputs |-> {}, payer |-> v,
                              cell_deps |-> <<VoteContract, ProposalCell>> \o wallet[v].daoCells,
                              outputs |-> <<VoteOutput(v, vote, wallet[v].daoCells)>>,
                              creates |-> {cell}]])
  /\ UNCHANGED vars
-----------------------------------------------------------------------------
(***************************************************************************)
(* consumeVote, of a vote cell that the signer can unlock.                  *)
(***************************************************************************)
BuildRecycling(v) ==
  /\ wallet[v] = None
  /\ \E cell \in VoteCellsOf[v] \cap live :
       Becomes(v, [phase |-> "built",
                   tx |-> [inputs |-> {cell}, payer |-> v, cell_deps |-> <<VoteContract>>,
                           outputs |-> <<>>, creates |-> {}]])
  /\ UNCHANGED vars
-----------------------------------------------------------------------------
(***************************************************************************)
(* sendTransaction: the signer adds the dep_group of his lock script, and    *)
(* the node takes the transaction into its pool if it is valid as the chain *)
(* is now.  It gets committed if it still is when a block is made.          *)
(***************************************************************************)
Signed(tx) == [tx EXCEPT !.cell_deps = Append(@, LockGroup)]

Send(v) ==
  /\ In(v, "built")
  /\ LET tx == Signed(wallet[v].tx)
     IN  /\ Resolves(tx, live, spent)
         /\ VoteScriptAccepts(tx)
         /\ Becomes(v, [phase |-> "sent", tx |-> tx])
  /\ UNCHANGED vars

CommitSent(v) ==
  /\ In(v, "sent")
  /\ Commit(wallet[v].tx)
  /\ Becomes(v, None)

\* An error of any call, the end of the process, or the node drops the
\* transaction.
GiveUp(v) ==
  /\ wallet[v] # None
  /\ Becomes(v, None)
  /\ UNCHANGED vars
-----------------------------------------------------------------------------
WalletInit == Init /\ wallet = [v \in Lock |-> None]

WalletStep ==
  \E v \in Lock :
    \/ StartVote(v) \/ Scan(v) \/ BuildVote(v)
    \/ BuildRecycling(v)
    \/ Send(v) \/ CommitSent(v) \/ GiveUp(v)

ChainStep == (MoveDeposits \/ NextBlock \/ CloseWindow) /\ UNCHANGED wallet

WalletNext == WalletStep \/ ChainStep

WalletSpec == WalletInit /\ [][WalletNext]_walletVars
-----------------------------------------------------------------------------
(***************************************************************************)
(* Properties.                                                              *)
(***************************************************************************)
\* What the SDK builds is refused only because a cell of it was spent in the
\* meantime: with the dependencies that signing adds behind them, the indices
\* and the amount are those the vote script and count_vote arrive at, whichever
\* deposits came and went during the scan.
RefusedOnlyForSpentCells ==
  \A v \in Lock : wallet[v] # None /\ wallet[v].phase \in {"built", "sent"} =>
    LET tx == IF In(v, "built") THEN Signed(wallet[v].tx) ELSE wallet[v].tx
    IN  /\ VoteScriptAccepts(tx)
        /\ WellBuilt(tx)
        /\ (tx.inputs \cup ToSet(ResolvedDeps(tx))) \cap spent = {}
              => Resolves(tx, live, spent)
=============================================================================
