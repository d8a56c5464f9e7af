\* Short first chunk: chunks {0}, {1,2}, {3}. Staged and stored chunks, every fault, opened to read and write or to append.
CONSTANTS
  ChunkSize = 2
  ChunkBaseOffset = 1
  MaxU64 = 4
  Byte = {0, 1, 2}
  Payloads <- OnePayload
  Targets <- FewTargets
  Seeks = {0}
  ReadLens = {2, 4}
  Modes <- TwoModes
  Faults = {"store_read", "db_write", "db_flush", "crash"}
  None = None
  Deleted = Deleted
SPECIFICATION Spec
INVARIANTS TypeOK HiddenBytesAreZero PreadReturnsTheFile CleanMeansSynced
PROPERTIES AppendsNeverOverwrite ImplementsByteFile
CHECK_DEADLOCK FALSE
