SPECIFICATION Spec
CONSTANTS
  Base = 16
  Numbers = {0, 1, 2, 3, 4, 6, 8, 9, 10, 11, 12, 13, 16, 18}
  Byte <- MCByte
  NumberSize = 2
  Pack <- MCPack
  Unpack <- MCUnpack
  Uint16Size = 1
  Uint32Size = 1
  Uint64Size = 1
  HashSize = 1
  HeaderSize = 1
  IdSize = 1
  ProposalData <- MCProposalData
  VoteData <- MCVoteData
  Altered <- MCAltered
  ProposalScript <- MCProposalScript
  StartHash <- MCStartHash
  EndHash <- MCEndHash
  ProofBytes <- MCProofBytes
INVARIANTS
  PassedSettles
  
  NoCellStopsTheCount
  AcceptedCellsAreReadable
  AcceptedVoteIsCounted
  OneWitness
CHECK_DEADLOCK FALSE
