SPECIFICATION HostSpec
CONSTANTS
  p = p
  guest = guest
  NoData = NoData
  MockProposal = mock
  Missing = Missing
  Partial = Partial
  Proposal = {p}
  Duration = {2}
  Vk <- OneVk
  GuestVk = guest
  Forged = {}
  MaxHeight = 4
  MaxReorgs = 1
  MaxFed = 3
  Counts = {3}
INVARIANTS
  WrittenProofSettles
  MockPasses
PROPERTIES
  ImplementsSettlement
CHECK_DEADLOCK FALSE
