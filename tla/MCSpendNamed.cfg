SPECIFICATION Spec
CONSTANTS
  None = None
  a1 = a1  a2 = a2  b1 = b1  b2 = b2
  proposal = proposal  group = group
  alice = alice  bob = bob
  this = this  other = other
  OutPoint <- MCOutPoint
  Lock <- MCLock
  Dao <- MCDao
  ProposalCell = proposal
  LockOf <- MCLockOf
  CapacityOf <- MCCapacityOf
  GroupMembers <- MCGroupMembers
  VoteType <- MCVoteType
  ThisVote = this
  U64Max = 15
  MinimalRequirement = 1
  ShannonPerCkb = 2
  Duration = 1
  InitLive <- MCInitLive
  DepLists <- MCDepLists
  OutputLists <- MCOutputLists
  CastInputs = 1
  RepeatIndex = FALSE
  SpendNamed = TRUE
  GroupBefore = FALSE
INVARIANT BackingAlive
CHECK_DEADLOCK FALSE
