SPECIFICATION Spec
CONSTANTS
  Byte = {x, y}
  readCache = 2
  writeCache = 2
  MaxLength = 4
  MaxChunk = 3
  BITS_IN_BYTE = 3
  Width = {2, 4}
  MaxNumbers = 3
  MaxByte = 4
  Flags = {0, 1, 2, 3, 4}
  Data = {0, 1, 3}
  MaxPlain = 5
  m_bitSize = 2
  Digits = {0, 1, 2}
  MaxDigits = 6
  MaxWrites = 1
  BestRequest = 3
  Room = 5
  MaxSource = 5
  Waits = {1}
  SocketRoom = 2
  Lengths = {3}
  MaxBytes = 3
  MaxReplies = 1
  Setters = {"client"}
  MaxConnections = 1
  Name = {n}
  OpenFlags = {{"READ"}, {"CREATE", "READWRITE"}}
  Handles = {1, 2, 3}
  MaxFiles = 1
  MaxPlace = 2
  Lends = FALSE
  Base = 6
  Ascii = 3
  NumberBytes = {2}
  Characters = {1, 6}
  MaxText = 2
  Limits = {2}
  MaxItems = 2
  WordBytes = 2
  UintRange = 12
  BlockWords = 3
  DigestLength = 2
  KeyLengths = {1, 7}
  Chunks = {3, 4, 13}
  MaxMessage = 80
  MaxCopied = 7
  RC4KEY_LEN = 4
  Secrets = {1, 2, 3}
  MaxStream = 4
  Value = {0, 1}
  AddressRange = 16
  BufferAt = 5
  BufferSize = 2
  Bases = {0, 2}
  UintBytes = 1
  MachineBytes = 2
  MaxRequest = 2
  MaxStreams = 2
INVARIANTS
  TypeOK
  WrittenReadBack
  BytesKept
  SocketKeepsItsWord
  PiecesMakeNoDifference
PROPERTIES
  CacheIsFile
  PipeReadIsWhole
  StreamsEnd
CHECK_DEADLOCK FALSE
