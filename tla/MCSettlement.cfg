SPECIFICATION Spec
CONSTANTS
  p = p  q = q
  guest = guest  foreign = foreign
  NoData = NoData
  Proposal = {p, q}
  Duration = {2}
  Vk <- MCVk
  GuestVk = guest
  Forged <- YesForged
  MaxHeight = 4
  MaxReorgs = 1
  MaxFed = 3
INVARIANTS
  TypeOK
  SettledOnlyIfPassed
  SettledAfterWindow
  PassedCanSettle
CHECK_DEADLOCK FALSE
