SPECIFICATION WalletSpec
CONSTANTS
  None = None
  a1 = a1  a2 = a2  b1 = b1
  proposal = proposal  contract = contract  lockgroup = lockgroup  lockcell = lockcell
  va1 = va1  va2 = va2  vb1 = vb1
  alice = alice  bob = bob
  this = this
  OutPoint <- MCOutPoint
  Lock = {alice, bob}
  Dao <- MCDao
  ProposalCell = proposal
  LockOf <- MCLockOf
  CapacityOf <- MCCapacityOf
  GroupMembers <- MCGroupMembers
  VoteType = {this}
  ThisVote = this
  U64Max = 15
  MinimalRequirement = 1
  ShannonPerCkb = 2
  Duration = 1
  InitLive <- MCInitLive
  DepLists = {}
  OutputLists = {}
  CastInputs = 0
  RepeatIndex = FALSE
  SpendNamed = FALSE
  GroupBefore = FALSE
  VoteContract = contract
  LockGroup = lockgroup
  ScanOrder <- MCScanOrder
  VoteCellsOf <- MCVoteCellsOf
INVARIANTS
  RefusedOnlyForSpentCells
PROPERTIES
  LostVoteWasSpent
CHECK_DEADLOCK FALSE
