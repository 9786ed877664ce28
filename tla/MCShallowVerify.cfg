SPECIFICATION Spec
CONSTANTS
  Base = 8
  ShortSize = 4
  FieldByte = {0, 5, 6}
  FieldSize = 6
  Numbers = {0, 1, 2, 3, 4, 5, 6, 8, 10, 12, 15, 24}
  Byte <- MCByte
  NumberSize <- MCNumberSize
  Pack <- MCPack
  Unpack <- MCUnpack
  Uint16Size = 1
  Uint32Size = 1
  Uint64Size = 1
  HashSize = 1
  HeaderSize = 1
  IdSize = 1
  Inputs <- MCInputs
  Written <- MCWritten
INVARIANTS
  TypeOK
  AcceptedIsReadable
  AcceptedIsEncoding
  EncodingIsAccepted
  HostAcceptedIsAccepted
CHECK_DEADLOCK FALSE
