----------------------------- MODULE FileHandle -----------------------------
(***************************************************************************)
(* One open SlateFileHandle (file_handle.rs) with its ChunkManager         *)
(* (chunk_manager.rs), over the SlateDB database that keeps the file's     *)
(* metadata record and chunks.                                             *)
(*                                                                         *)
(* The FFI layer runs every mutating operation of a handle under an        *)
(* exclusive lock, so operations of the handle do not overlap; `io' is the *)
(* one in progress.  An operation is split where its outcome may depend on *)
(* the database: every chunk a write stages may first have to be read, and *)
(* a sync is a write followed by a flush.  A crash, and SlateDB's own      *)
(* background flush, may come between any two steps.                       *)
(*                                                                         *)
(* Calls that return without changing anything are stuttering steps and    *)
(* have no action: an operation the flags reject, a write whose end        *)
(* overflows u64, an empty pwrite, a truncation to the current size, a     *)
(* truncation whose reads fail (it reads before it changes anything), a    *)
(* sync with nothing to write, a pread.                                    *)
(***************************************************************************)
EXTENDS ChunkLayout

CONSTANTS
  Byte,      \* values of a byte, 0 among them
  Payloads,  \* non-empty buffers a caller writes: functions 0 .. n-1 -> Byte
  Targets,   \* offsets a caller writes at or truncates to
  Seeks,     \* offsets a caller seeks to; 0 is a reset
  ReadLens,  \* buffer lengths a caller reads into
  Modes,     \* FileOpenFlags a caller opens the file with
  Faults,    \* what may go wrong: a subset of AllFaults
  None,      \* Option::None: no such key, no pending entry
  Deleted    \* PendingChunk::Deleted

(* A chunk value holds at most ChunkSize bytes, indexed from 0.            *)
Chunk == UNION {[0 .. (n - 1) -> Byte] : n \in 0 .. ChunkSize}

ASSUME HandleAssumption ==
  /\ 0 \in Byte
  /\ None \notin Chunk
  /\ Deleted \notin Chunk
  /\ None # Deleted
  /\ \A data \in Payloads :
        \E n \in 1 .. MaxU64 : data \in [0 .. (n - 1) -> Byte]
  /\ Targets \subseteq Offsets
  /\ Seeks \subseteq Offsets
  /\ ReadLens \subseteq Nat

(* FileOpenFlags::validate, for the flags a handle consults after opening. *)
Flags == {f \in [read : BOOLEAN, write : BOOLEAN, append : BOOLEAN] :
            /\ f.read \/ f.write
            /\ f.append => f.write}

(* A read of the store, the write or the flush of a sync fails; the        *)
(* process crashes.                                                        *)
AllFaults == {"store_read", "db_write", "db_flush", "crash"}

ASSUME FaultsAssumption == Faults \subseteq AllFaults

ASSUME ModesAssumption == Modes # {} /\ Modes \subseteq Flags

VARIABLES
  pending,   \* ChunkManager.pending: staged chunk writes and deletions
  size,      \* SlateFileHandle.size
  position,  \* SlateFileHandle.position
  dirty,     \* SlateFileHandle.metadata_dirty
  flags,     \* SlateFileHandle.flags
  db,        \* what the database shows to reads: chunks and metadata size
  durable,   \* what of it would survive a crash
  io,        \* the operation in progress
  faults     \* history: faults whose effect on the file has not been undone

handle == <<pending, size, position, dirty, flags>>
vars   == <<pending, size, position, dirty, flags, db, durable, io, faults>>

----------------------------------------------------------------------------
(* Reading through the staged changes.                                     *)
EmptyChunk == [i \in {} |-> 0]

(* chunk_contents, over a store that holds the given chunks.               *)
ReadChunkFromStore(chunks, k) ==
  IF chunks[k] = None THEN EmptyChunk ELSE chunks[k]

ChunkContents(k) ==
  IF pending[k] = None THEN ReadChunkFromStore(db.chunks, k)
  ELSE IF pending[k] = Deleted THEN EmptyChunk
  ELSE pending[k]

(* copy_chunk_into: a short chunk contributes only the bytes it has.       *)
ByteAt(chunk, i) == IF i \in DOMAIN chunk THEN chunk[i] ELSE 0

(* The byte at every position, as the handle and as a store show it.       *)
View == [p \in Positions |-> ByteAt(ChunkContents(ChunkIdxOf(p)),
                                    ChunkOffsetOf(p))]
StoredView(chunks) ==
  [p \in Positions |-> ByteAt(ReadChunkFromStore(chunks, ChunkIdxOf(p)),
                              ChunkOffsetOf(p))]

(* A key of chunk k is in the store: keys_with_prefix finds it, and        *)
(* collect_persisted_chunk_indices returns its index.                      *)
Persisted(k) == db.chunks[k] # None

(* ChunkStore::scan_inclusive: a chunk without a key is not returned.      *)
ScanInclusive(first, last) ==
  {k \in ChunkIdxs : first <= k /\ k <= last /\ Persisted(k)}

(* read_chunks_from_store: the stored chunks that the scans of the runs of *)
(* adjacent indices return.                                                *)
FetchedChunks(idxs) ==
  LET groups == Coalesce(idxs)
  IN UNION {ScanInclusive(groups[g][1], groups[g][2]) : g \in DOMAIN groups}

(* The first loop of ChunkManager::read: the chunks that are not staged.   *)
PersistedIdxs(slices) ==
  LET upTo[n \in 0 .. Len(slices)] ==
        IF n = 0
          THEN <<>>
          ELSE LET k == slices[n].chunk_idx
               IN IF pending[k] = None THEN Append(upTo[n - 1], k) ELSE upTo[n - 1]
  IN upTo[Len(slices)]

(* ChunkManager::read: split the range, serve staged chunks from memory,   *)
(* fetch the others and copy what was fetched.                             *)
ReadBuf(offset, len) ==
  LET slices    == SplitIntoChunks(len, offset)
      fetched   == FetchedChunks(PersistedIdxs(slices))
      Source(k) == IF pending[k] = None
                     THEN IF k \in fetched THEN db.chunks[k] ELSE EmptyChunk
                     ELSE ChunkContents(k)
  IN [i \in 0 .. (len - 1) |->
        LET s == CHOOSE j \in 1 .. Len(slices) :
                    /\ slices[j].buf_offset <= i
                    /\ i < slices[j].buf_offset + slices[j].len
        IN ByteAt(Source(slices[s].chunk_idx),
                  slices[s].chunk_offset + (i - slices[s].buf_offset))]

(* pread: never past the end of the file; the number of bytes read is the  *)
(* length of the result.                                                   *)
PreadLen(offset, len) ==
  IF offset >= size THEN 0
  ELSE IF size - offset < len THEN size - offset ELSE len

Pread(offset, len) == ReadBuf(offset, PreadLen(offset, len))

----------------------------------------------------------------------------
(* Handles.                                                                *)
NothingPending == [k \in ChunkIdxs |-> None]
Idle           == [op |-> "idle"]

(* has_pending_changes and metadata_dirty: sync has nothing to do.         *)
Clean == pending = NothingPending /\ ~dirty

(* SlateFileHandle::new over a metadata record of the given size.          *)
OpenHandle(mode, metadataSize) ==
  /\ pending'  = NothingPending
  /\ size'     = metadataSize
  /\ position' = (IF mode.append THEN metadataSize ELSE 0)
  /\ dirty'    = FALSE
  /\ flags'    = mode

(* A file just created: an empty metadata record and no chunks.            *)
NewFile == [chunks |-> NothingPending, size |-> 0]

Init ==
  /\ db = NewFile
  /\ durable = NewFile
  /\ pending = NothingPending
  /\ size = 0
  /\ position = 0
  /\ dirty = FALSE
  /\ flags \in Modes
  /\ io = Idle
  /\ faults = {}

----------------------------------------------------------------------------
(* pwrite and write.                                                       *)
PayloadLen(data) == CHOOSE n \in 1 .. MaxU64 : DOMAIN data = 0 .. (n - 1)

(* Mutant: the end of the write is computed without checked_add.           *)
StartWriteUnchecked(data, offset, sequential) ==
  /\ io = Idle
  /\ flags.write
  /\ io' = [op |-> "write", data |-> data, offset |-> offset, covered |-> 0,
            sequential |-> sequential, before |-> View]
  /\ UNCHANGED <<handle, db, durable, faults>>

(* The checks of pwrite, then ChunkManager::write with nothing covered.    *)
(* `sequential' tells a write, which moves the position, from a pwrite.    *)
StartWrite(data, offset, sequential) ==
  /\ io = Idle
  /\ flags.write
  /\ offset + PayloadLen(data) <= MaxU64
  /\ io' = [op |-> "write", data |-> data, offset |-> offset, covered |-> 0,
            sequential |-> sequential, before |-> View]
  /\ UNCHANGED <<handle, db, durable, faults>>

Pwrite(data, offset) == StartWrite(data, offset, FALSE)

(* Mutant: an append goes to the position, like any other write.           *)
WriteAtPosition(data) == StartWrite(data, position, TRUE)

Write(data) ==
  StartWrite(data, IF flags.append THEN size ELSE position, TRUE)

(* write of an empty buffer: pwrite returns at once, the position is set.  *)
WriteNothing ==
  /\ io = Idle
  /\ flags.write
  /\ position' = (IF flags.append THEN size ELSE position)
  /\ UNCHANGED <<pending, size, dirty, flags, db, durable, io, faults>>

NextSlice == Slice(PayloadLen(io.data), io.offset, io.covered)

WholeChunk(s) == s.chunk_offset = 0 /\ s.len = ChunkSize

(* The old bytes are fetched from the store only for part of a chunk that  *)
(* is not staged.                                                          *)
NeedsStore(s) == ~WholeChunk(s) /\ pending[s.chunk_idx] = None

(* Mutant: a chunk that is not staged is taken to be empty.                *)
StagedChunkForgetsStore(s, data) ==
  LET old == IF pending[s.chunk_idx] \in {None, Deleted} THEN EmptyChunk
                                                         ELSE pending[s.chunk_idx]
      required == s.chunk_offset + s.len
  IN [i \in (DOMAIN old) \cup (0 .. (required - 1)) |->
        IF s.chunk_offset <= i /\ i < required
          THEN data[s.buf_offset + (i - s.chunk_offset)]
          ELSE ByteAt(old, i)]

(* The chunk with the slice of the data copied in, grown with zeroes first *)
(* when it is too short.                                                   *)
StagedChunk(s, data) ==
  LET old == IF WholeChunk(s) THEN [i \in 0 .. (ChunkSize - 1) |-> 0]
                              ELSE ChunkContents(s.chunk_idx)
      required == s.chunk_offset + s.len
  IN [i \in (DOMAIN old) \cup (0 .. (required - 1)) |->
        IF s.chunk_offset <= i /\ i < required
          THEN data[s.buf_offset + (i - s.chunk_offset)]
          ELSE ByteAt(old, i)]

StageSlice ==
  /\ io.op = "write"
  /\ io.covered < PayloadLen(io.data)
  /\ LET s == NextSlice
     IN /\ pending' = [pending EXCEPT ![s.chunk_idx] = StagedChunk(s, io.data)]
        /\ io' = [io EXCEPT !.covered = @ + s.len]
  /\ UNCHANGED <<size, position, dirty, flags, db, durable, faults>>

(* The read of the old chunk fails and with it the write.  What earlier    *)
(* iterations staged stays staged; size and metadata_dirty are not touched.*)
StageSliceFails ==
  /\ "store_read" \in Faults
  /\ io.op = "write"
  /\ io.covered < PayloadLen(io.data)
  /\ NeedsStore(NextSlice)
  /\ io' = Idle
  /\ faults' = IF io.covered > 0 /\ io.offset + io.covered > size
                 THEN faults \cup {"torn_write"} ELSE faults
  /\ UNCHANGED <<handle, db, durable>>

FinishWrite ==
  LET end == io.offset + PayloadLen(io.data)
  IN /\ io.op = "write"
     /\ io.covered = PayloadLen(io.data)
     /\ size' = (IF end > size THEN end ELSE size)
     /\ dirty' = TRUE
     /\ position' = (IF io.sequential THEN end ELSE position)
     /\ io' = Idle
     /\ UNCHANGED <<pending, flags, db, durable, faults>>

----------------------------------------------------------------------------
(* truncate.                                                               *)
Grow(newSize) ==
  /\ io = Idle
  /\ flags.write
  /\ newSize > size
  /\ size' = newSize
  /\ dirty' = TRUE
  /\ UNCHANGED <<pending, position, flags, db, durable, io, faults>>

(* Vec::truncate to n bytes.                                               *)
Shortened(chunk, n) == [i \in (DOMAIN chunk) \cap (0 .. (n - 1)) |-> chunk[i]]

(* Mutant: a stored chunk one byte too long is left alone.                 *)
ShortenedLastOffByOne(k, n) ==
  LET persisted == ReadChunkFromStore(db.chunks, k)
  IN IF pending[k] = Deleted THEN Deleted
     ELSE IF pending[k] # None THEN Shortened(pending[k], n)
     ELSE IF n + 1 \in DOMAIN persisted THEN Shortened(persisted, n)
     ELSE None

(* The entry of the chunk that holds the new last byte.  A staged chunk is *)
(* shortened in place, a stored one is staged only if it is too long.      *)
ShortenedLast(k, n) ==
  LET persisted == ReadChunkFromStore(db.chunks, k)
  IN IF pending[k] = Deleted THEN Deleted
     ELSE IF pending[k] # None THEN Shortened(pending[k], n)
     ELSE IF n \in DOMAIN persisted THEN Shortened(persisted, n)
     ELSE None

(* Mutant: chunks past the end that are stored, but not staged, survive.   *)
TruncatedPendingOnlyStaged(newSize) ==
  LET last == IF newSize = 0 THEN -1 ELSE ChunkIdxOf(newSize - 1)
  IN [k \in ChunkIdxs |->
        IF k < last THEN pending[k]
        ELSE IF k = last THEN ShortenedLast(k, ChunkOffsetOf(newSize - 1) + 1)
        ELSE IF pending[k] # None THEN Deleted
        ELSE None]

(* What ChunkManager::truncate leaves pending: entries before the last     *)
(* chunk stay, entries past it go, and persisted chunks past it are marked *)
(* deleted.  An empty file has no last chunk.                              *)
TruncatedPending(newSize) ==
  LET last == IF newSize = 0 THEN -1 ELSE ChunkIdxOf(newSize - 1)
  IN [k \in ChunkIdxs |->
        IF k < last THEN pending[k]
        ELSE IF k = last THEN ShortenedLast(k, ChunkOffsetOf(newSize - 1) + 1)
        ELSE IF Persisted(k) THEN Deleted
        ELSE None]

Shrink(newSize) ==
  /\ io = Idle
  /\ flags.write
  /\ newSize < size
  /\ pending' = TruncatedPending(newSize)
  /\ size' = newSize
  /\ dirty' = TRUE
  /\ UNCHANGED <<position, flags, db, durable, io, faults>>

----------------------------------------------------------------------------
(* read, seek and reset move the position.                                 *)
Read(len) ==
  LET n == PreadLen(position, len)
  IN /\ io = Idle
     /\ n > 0
     /\ flags.read
     /\ position' = position + n
     /\ UNCHANGED <<pending, size, dirty, flags, db, durable, io, faults>>

Seek(target) ==
  /\ io = Idle
  /\ position' = target
  /\ UNCHANGED <<pending, size, dirty, flags, db, durable, io, faults>>

----------------------------------------------------------------------------
(* sync, close and the destruction of the handle.                          *)

(* close is a sync; slatedb_file_destroy closes and ignores the result.    *)
StartSync(destroy) ==
  /\ io = Idle
  /\ ~Clean
  /\ io' = [op |-> "sync", destroy |-> destroy]
  /\ UNCHANGED <<handle, db, durable, faults>>

(* Mutant: the batch leaves out the metadata record.                       *)
BatchWithoutMetadata ==
  [chunks |-> [k \in ChunkIdxs |->
                 IF pending[k] = None THEN db.chunks[k]
                 ELSE IF pending[k] = Deleted THEN None ELSE pending[k]],
   size   |-> db.size]

(* add_pending_to_batch and the metadata record, applied atomically.       *)
Batch == [chunks |-> [k \in ChunkIdxs |->
                        IF pending[k] = None THEN db.chunks[k]
                        ELSE IF pending[k] = Deleted THEN None
                        ELSE pending[k]],
          size   |-> size]

(* Mutant: the changes are marked flushed once they are written.           *)
SyncWriteMarksFlushed ==
  /\ io.op = "sync"
  /\ db' = Batch
  /\ pending' = NothingPending
  /\ dirty' = FALSE
  /\ io' = [op |-> "flush", destroy |-> io.destroy]
  /\ UNCHANGED <<size, position, flags, durable, faults>>

(* db.write succeeds.                                                      *)
SyncWrite ==
  /\ io.op = "sync"
  /\ db' = Batch
  /\ io' = [op |-> "flush", destroy |-> io.destroy]
  /\ UNCHANGED <<handle, durable, faults>>

(* db.flush succeeds: mark_flushed, metadata_dirty = false.                *)
SyncFlush ==
  /\ io.op = "flush"
  /\ durable' = db
  /\ IF io.destroy
       THEN \E mode \in Modes : OpenHandle(mode, db.size)
       ELSE /\ pending' = NothingPending
            /\ dirty' = FALSE
            /\ UNCHANGED <<size, position, flags>>
  /\ io' = Idle
  /\ faults' = faults \ {"ignored_close"}
  /\ UNCHANGED db

(* db.write fails, its batch applied or not, or db.flush fails.  The       *)
(* handle keeps its staged changes; a handle being destroyed is dropped    *)
(* with them, and the next one starts from the metadata in the database.   *)
SyncFails ==
  /\ \/ io.op = "sync" /\ "db_write" \in Faults /\ db' \in {db, Batch}
     \/ io.op = "flush" /\ "db_flush" \in Faults /\ UNCHANGED db
  /\ io' = Idle
  /\ IF io.destroy
       THEN /\ \E mode \in Modes : OpenHandle(mode, db'.size)
            /\ faults' = faults \cup {"ignored_close"}
       ELSE UNCHANGED <<handle, faults>>
  /\ UNCHANGED durable

(* A handle without unsynced changes is destroyed and the file reopened.   *)
Reopen ==
  /\ io = Idle
  /\ Clean
  /\ \E mode \in Modes : OpenHandle(mode, db.size)
  /\ UNCHANGED <<db, durable, io, faults>>

----------------------------------------------------------------------------
(* SlateDB flushes its memtable on its own schedule.  Batches become       *)
(* durable in order and whole; flushing only some of several batches is    *)
(* the same as having flushed before the later ones were written.  What is *)
(* durable matters only where a crash may follow.                          *)
BackgroundFlush ==
  /\ "crash" \in Faults
  /\ durable # db
  /\ durable' = db
  /\ faults' = faults \ {"ignored_close"}
  /\ UNCHANGED <<handle, db, io>>

Crash ==
  /\ "crash" \in Faults
  /\ db' = durable
  /\ io' = Idle
  /\ \E mode \in Modes : OpenHandle(mode, durable.size)
  /\ faults' = faults \ {"ignored_close"}
  /\ UNCHANGED durable

Next ==
  \/ \E data \in Payloads, offset \in Targets : Pwrite(data, offset)
  \/ \E data \in Payloads : Write(data)
  \/ WriteNothing
  \/ StageSlice
  \/ StageSliceFails
  \/ FinishWrite
  \/ \E newSize \in Targets : Grow(newSize) \/ Shrink(newSize)
  \/ \E len \in ReadLens : Read(len)
  \/ \E target \in Seeks : Seek(target)
  \/ \E destroy \in BOOLEAN : StartSync(destroy)
  \/ SyncWrite
  \/ SyncFlush
  \/ SyncFails
  \/ Reopen
  \/ BackgroundFlush
  \/ Crash

Spec == Init /\ [][Next]_vars

----------------------------------------------------------------------------
Stores == [chunks : [ChunkIdxs -> Chunk \cup {None}], size : Offsets]

WriteOps == [op : {"write"}, data : Payloads, offset : Offsets,
             covered : Offsets, sequential : BOOLEAN,
             before : [Positions -> Byte]]
SyncOps  == [op : {"sync", "flush"}, destroy : BOOLEAN]

(* The fields of SlateFileHandle and ChunkManager keep their types: no     *)
(* staged or stored chunk ever outgrows the chunk size, and no size,       *)
(* position or write end leaves u64.                                       *)
TypeOK ==
  /\ pending \in [ChunkIdxs -> Chunk \cup {None, Deleted}]
  /\ size \in Offsets
  /\ position \in Offsets
  /\ dirty \in BOOLEAN
  /\ flags \in Flags
  /\ db \in Stores
  /\ durable \in Stores
  /\ io \in {Idle} \cup WriteOps \cup SyncOps
  /\ io.op = "write" => io.offset + PayloadLen(io.data) <= MaxU64
  /\ faults \subseteq {"torn_write", "ignored_close"}

(* The bytes the handle shows when no write is in progress: those before   *)
(* the write, while one is.                                                *)
Shown == IF io.op = "write" THEN io.before ELSE View

ZeroFrom(bytes, n) == \A p \in Positions : p >= n => bytes[p] = 0

(* No byte hides at or past the end of the file, in the handle, in the     *)
(* database or on disk, whatever is written, truncated, synced, lost or    *)
(* retried, unless a multi-chunk write failed part way.  This is what lets *)
(* truncate grow a file without touching a chunk.                          *)
HiddenBytesAreZero ==
  "torn_write" \notin faults =>
    /\ ZeroFrom(Shown, size)
    /\ ZeroFrom(StoredView(db.chunks), db.size)
    /\ ZeroFrom(StoredView(durable.chunks), durable.size)

(* sync returns at once when nothing is pending and the metadata is not    *)
(* dirty.  That is right: a clean handle shows exactly what the database   *)
(* holds, and all of it is durable, also after a sync that failed between  *)
(* its write and its flush, unless the failed close of an earlier handle   *)
(* was ignored.                                                            *)
CleanMeansSynced ==
  io = Idle /\ Clean =>
    /\ size = db.size
    /\ View = StoredView(db.chunks)
    /\ "ignored_close" \notin faults => durable = db

(* A write in progress has staged exactly the bytes it has covered, over   *)
(* the bytes the file had when it began.                                   *)
StagedSoFar ==
  io.op = "write" =>
    /\ io.covered <= PayloadLen(io.data)
    /\ \A p \in Positions :
         View[p] = IF io.offset <= p /\ p < io.offset + io.covered
                     THEN io.data[p - io.offset] ELSE io.before[p]

(* Nothing moves the end of the file while an append is in progress.       *)
AppendsGoToTheEnd ==
  io.op = "write" /\ io.sequential /\ flags.append => io.offset = size

(* A sync runs only when there is something to write, and between its      *)
(* write and its flush the database holds what the handle shows.           *)
SyncInProgress ==
  /\ io.op \in {"sync", "flush"} => ~Clean
  /\ io.op = "flush" => db = Batch

(* CleanMeansSynced, also while an operation is in progress.               *)
UnsyncedIsDirty ==
  /\ ~dirty => size = db.size
  /\ io.op \notin {"sync", "flush"} /\ Clean /\ "ignored_close" \notin faults =>
       durable = db

(* The inductive invariant behind the properties of this module.           *)
Inv ==
  /\ TypeOK
  /\ HiddenBytesAreZero
  /\ StagedSoFar
  /\ SyncInProgress
  /\ UnsyncedIsDirty

(* pread, which splits the range, serves staged chunks from memory and     *)
(* fetches coalesced runs of the others, returns the bytes of the file up  *)
(* to its end.                                                             *)
PreadReturnsTheFile ==
  io = Idle =>
    \A offset \in Offsets : \A len \in ReadLens :
      Pread(offset, len) =
        [i \in 0 .. (PreadLen(offset, len) - 1) |-> View[offset + i]]

(* Chunks, staging, truncation, batches, retries and recovery together     *)
(* implement a file that is one size and one byte per position.            *)
Abstract == INSTANCE ByteFile WITH
  file      <- [size |-> size, bytes |-> Shown],
  committed <- [size |-> db.size, bytes |-> StoredView(db.chunks)],
  durable   <- [size |-> durable.size, bytes |-> StoredView(durable.chunks)]

ImplementsByteFile == Abstract!Spec

(* A write through a handle opened to append, when it succeeds, has not    *)
(* changed a byte the file already had, wherever seeks and reads moved the *)
(* position before it, and crashes and reopenings left the size.           *)
AppendsNeverOverwrite ==
  [][FinishWrite /\ io.sequential /\ flags.append =>
       \A p \in Positions : p < size => Shown'[p] = Shown[p]]_vars

(* file_handle.rs, truncate: "Growing needs no chunk work: the new bytes   *)
(* read as zeroes."                                                        *)
GrownBytesReadAsZeroes ==
  [][\A newSize \in Targets : Grow(newSize) =>
       \A p \in Positions : size <= p /\ p < newSize => View'[p] = 0]_vars
=============================================================================
