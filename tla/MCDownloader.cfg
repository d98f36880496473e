CONSTANTS
  length = 8
  piece_length = 5
  BLOCK_SIZE = 2
  PIPELINE_SIZE_MAX = 2
  MaxUnderWay = 2
  MaxStrays = 1
  ByteSize = 2
SPECIFICATION Spec
INVARIANTS
  RequestsAccounted
  ConnectionIsClean
  BlocksFit
  BitfieldIsCurrent
PROPERTIES
  CorruptIsThePeers
  CallsReturn
