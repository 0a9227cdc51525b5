SPECIFICATION FairSpec
CONSTANTS
  Streams = {r1, r2}
  Length = 7
  MaxBuf = 3
  Chunk = 2
  MaxWindow = 1
INVARIANTS
  BufferBounded
  BytesAccounted
  NoLostWakeup
  BlockedForCause
PROPERTIES
  AllDelivered
CHECK_DEADLOCK FALSE
