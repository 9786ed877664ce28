SPECIFICATION Spec
CONSTANTS
  p = p  q = q  u = u  v = v
  None = None
  Proposal = {p, q}
  VoteCell = {u, v}
  VoteOn <- MCVoteOn
  Readable = {p, q, u}
  Count = 1
  PageSize = 2
  MaxTxs = 3
  MaxReorgs = 1
INVARIANT ShowsSnapshot
PROPERTY Ends
CHECK_DEADLOCK FALSE
