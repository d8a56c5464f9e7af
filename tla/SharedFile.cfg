\* Two handles on one file, in the writer's process or on a reader of another.
CONSTANTS
  Handles = {h1, h2}
  Clients = {"writer", "reader"}
  ChunkSize = 2
  ChunkBaseOffset = 1
  MaxU64 = 4
  Byte = {0, 1}
  Payloads <- OnePayload
  Targets = {0, 1, 2}
  Reads <- WholeFile
  MaxChanges = 2
  None = None
  Deleted = Deleted
SPECIFICATION Spec
SYMMETRY Slots
INVARIANTS TypeOK OneWriterHidesNothing BytesWereCommitted
PROPERTY SyncChangesOnlyItsWrites
CHECK_DEADLOCK FALSE
