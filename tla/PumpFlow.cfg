CONSTANTS
  Total = 5
  From = 1
  ChunkBytes = 2
  High = 5
  Low = 2
  MaxCalls = 4
SPECIFICATION FairSpec
INVARIANTS
  TypeOK
  PauseHolds
  CancelHolds
  BufferBounded
  ChecksumCoversFile
PROPERTY RunReturns
CHECK_DEADLOCK FALSE
