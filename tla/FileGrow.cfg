\* A write whose read of the store fails half way, then a growing truncate.
CONSTANTS
  ChunkSize = 2
  ChunkBaseOffset = 1
  MaxU64 = 5
  Byte = {0, 1, 2}
  Payloads <- OnePayload
  Targets <- SomeTargets
  Seeks = {}
  ReadLens = {2, 5}
  Modes <- OneMode
  Faults = {"store_read"}
  None = None
  Deleted = Deleted
SPECIFICATION Spec
PROPERTY GrownBytesReadAsZeroes
CHECK_DEADLOCK FALSE
