SPECIFICATION Spec
CONSTANTS
  creation = creation  plain = plain  transfer = transfer
  Null = Null
  None = None
  Body <- MCBody
  Creation = creation
  Count = 3
  Concurrency = 2
  MaxHeight = 4
  MaxReorgs = 1
INVARIANTS
  TypeOK
  EachIndexOnce
  FileIsComplete
  StableChainIsDumped
  AcceptedFileIsOneBranch
PROPERTIES
  Ends
CHECK_DEADLOCK FALSE
