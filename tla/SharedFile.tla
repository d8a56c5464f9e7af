----------------------------- MODULE SharedFile -----------------------------
(***************************************************************************)
(* Several handles on one file (file_handle.rs, chunk_manager.rs over      *)
(* database_metadata.rs).                                                  *)
(*                                                                         *)
(* Every handle keeps what it read of the metadata when it was opened (its *)
(* size), and its own staged chunks; the chunks it has not staged it reads *)
(* from the database whenever it needs them.  Nothing tells a handle that  *)
(* another one has synced, that the file was truncated by an open, or that *)
(* it was removed.  Handles of the process that holds the writer read its  *)
(* database; those of a process with a DbReader read what the reader has   *)
(* polled (fs.rs, open_read_handle).                                       *)
(*                                                                         *)
(* The chunk arithmetic and the staging are those of FileHandle, one copy  *)
(* per handle.  Operations are split at every read of the database, where  *)
(* the steps of other handles may come in between.  What concerns one      *)
(* handle alone is left to FileHandle: the position, failing reads of the  *)
(* store, crashes.  A file created after the removal has another id        *)
(* (Catalog, IdsAreNeverReused) and none of this one's handles.            *)
(***************************************************************************)
EXTENDS ChunkLayout

CONSTANTS
  Handles,   \* slots for handles
  Clients,   \* what handles are opened on: "writer" (Db), "reader" (DbReader)
  Byte, None, Deleted,   \* as in FileHandle
  Payloads,  \* non-empty buffers a caller writes
  Targets,   \* offsets a caller writes at or truncates to
  Reads,     \* <<offset, len>> of the reads
  MaxChanges \* bound on the writes, truncations and truncating opens

(* A chunk value holds at most ChunkSize bytes, indexed from 0.            *)
Chunk == UNION {[0 .. (n - 1) -> Byte] : n \in 0 .. ChunkSize}

ASSUME SharedAssumption ==
  /\ "writer" \in Clients /\ Clients \subseteq {"writer", "reader"}
  /\ Reads \subseteq Nat \X (Nat \ {0})
  /\ MaxChanges \in Nat
  /\ 0 \in Byte
  /\ None \notin Chunk /\ Deleted \notin Chunk /\ None # Deleted
  /\ \A data \in Payloads :
        \E n \in 1 .. MaxU64 : data \in [0 .. (n - 1) -> Byte]
  /\ Targets \subseteq Offsets

VARIABLES
  db,          \* the file in the database: its name, its metadata, its chunks
  seen,        \* the same, as the DbReader of another process shows it
  handles,
  shown,       \* history: bytes a handle has shown since its pread began
  overlapped,  \* history: two handles were open for writing at once
  changes      \* history: writes, truncations and truncating opens so far

vars == <<db, seen, handles, shown, overlapped, changes>>

Visible(client) == IF client = "writer" THEN db ELSE seen

(* The handle in a slot, over the database as its client shows it.         *)
H(h) == INSTANCE FileHandle WITH
  pending <- handles[h].pending, size  <- handles[h].size,
  dirty   <- handles[h].dirty,   flags <- handles[h].flags,
  io      <- handles[h].io,      db    <- Visible(handles[h].client),
  durable <- Visible(handles[h].client),
  position <- 0, faults <- {}, Seeks <- {}, ReadLens <- {}, Modes <- {},
  Faults <- {}

NoChunks == [k \in ChunkIdxs |-> None]
NewFile  == [linked |-> TRUE, exists |-> TRUE, size |-> 0, chunks |-> NoChunks]
Removed  == [NewFile EXCEPT !.linked = FALSE, !.exists = FALSE]

Idle      == [op |-> "idle"]
Closed    == [state |-> "closed"]
ReadOnly  == [read |-> TRUE, write |-> FALSE, append |-> FALSE]
ReadWrite == [read |-> TRUE, write |-> TRUE, append |-> FALSE]

(* SlateFileHandle::new.  `touched' is history: the positions written or   *)
(* cut off since the last sync.                                            *)
Opened(client, flags, metadataSize) ==
  [state |-> "open", client |-> client, flags |-> flags, size |-> metadataSize,
   pending |-> NoChunks, dirty |-> FALSE, io |-> Idle, touched |-> {}]

Init ==
  /\ db = NewFile
  /\ seen = NewFile
  /\ handles = [h \in Handles |-> Closed]
  /\ shown = [h \in Handles |-> [p \in Positions |-> {}]]
  /\ overlapped = FALSE
  /\ changes = 0

IsOpen(h)  == handles[h].state = "open"
Doing(h, op) == IsOpen(h) /\ handles[h].io.op = op
Writers    == {h \in Handles : IsOpen(h) /\ handles[h].flags.write}

----------------------------------------------------------------------------
(* open_file: two gets, of the mapping and of the metadata.                *)
OpenMapping(h, client) ==
  /\ handles[h] = Closed
  /\ Visible(client).linked
  /\ handles' = [handles EXCEPT ![h] = [state |-> "opening", client |-> client]]
  /\ UNCHANGED <<db, seen, overlapped>>

(* "metadata is missing": the open ends with an error.                     *)
OpenMetadata(h) ==
  LET file == Visible(handles[h].client)
  IN /\ handles[h].state = "opening"
     /\ handles' = [handles EXCEPT ![h] =
                      IF file.exists
                        THEN Opened(handles[h].client, ReadOnly, file.size)
                        ELSE Closed]
     /\ UNCHANGED <<db, seen, overlapped>>

(* Mutant: a truncating open resets the metadata and leaves the chunks.    *)
OpenWriteKeepsChunks(h, truncateExisting) ==
  LET file == IF truncateExisting THEN [db EXCEPT !.size = 0] ELSE db
  IN /\ handles[h] = Closed
     /\ db.linked
     /\ db' = file
     /\ handles' = [handles EXCEPT ![h] = Opened("writer", ReadWrite, file.size)]
     /\ overlapped' = (overlapped \/ Writers # {})
     /\ UNCHANGED seen

(* prepare_file_for_open, whose transaction takes effect at once.          *)
OpenWrite(h, truncateExisting) ==
  LET file == IF truncateExisting THEN NewFile ELSE db
  IN /\ handles[h] = Closed
     /\ db.linked
     /\ db' = file
     /\ handles' = [handles EXCEPT ![h] = Opened("writer", ReadWrite, file.size)]
     /\ overlapped' = (overlapped \/ Writers # {})
     /\ UNCHANGED seen

(* Mutant: the mapping of the path is left behind.                         *)
RemoveFileKeepsMapping ==
  /\ db.linked
  /\ db' = [Removed EXCEPT !.linked = TRUE]
  /\ UNCHANGED <<seen, handles, overlapped>>

(* remove_file, or a move_file that replaces the file.                     *)
RemoveFile ==
  /\ db.linked
  /\ db' = Removed
  /\ UNCHANGED <<seen, handles, overlapped>>

(* The DbReader follows the manifest.                                      *)
Poll ==
  /\ "reader" \in Clients
  /\ seen # db
  /\ seen' = db
  /\ UNCHANGED <<db, handles, overlapped>>

----------------------------------------------------------------------------
Start(h, io) ==
  /\ Doing(h, "idle")
  /\ handles' = [handles EXCEPT ![h].io = io]
  /\ UNCHANGED <<db, seen, overlapped>>

Pwrite(h, data, offset) ==
  /\ IsOpen(h) /\ handles[h].flags.write
  /\ offset + H(h)!PayloadLen(data) <= MaxU64
  /\ Start(h, [op |-> "write", data |-> data, offset |-> offset, covered |-> 0])

(* One chunk: its old bytes, unless staged, are those of the moment.       *)
StageSlice(h) ==
  /\ Doing(h, "write")
  /\ LET io == handles[h].io
         s  == H(h)!NextSlice
     IN /\ io.covered < H(h)!PayloadLen(io.data)
        /\ handles' = [handles EXCEPT
             ![h].pending[s.chunk_idx] = H(h)!StagedChunk(s, io.data),
             ![h].io.covered = @ + s.len]
  /\ UNCHANGED <<db, seen, overlapped>>

FinishWrite(h) ==
  /\ Doing(h, "write")
  /\ LET io  == handles[h].io
         end == io.offset + H(h)!PayloadLen(io.data)
     IN /\ io.covered = H(h)!PayloadLen(io.data)
        /\ handles' = [handles EXCEPT
             ![h].size = IF end > @ THEN end ELSE @,
             ![h].dirty = TRUE,
             ![h].touched = @ \cup (io.offset .. (end - 1)),
             ![h].io = Idle]
  /\ UNCHANGED <<db, seen, overlapped>>

Grow(h, newSize) ==
  /\ Doing(h, "idle")
  /\ handles[h].flags.write
  /\ newSize > handles[h].size
  /\ handles' = [handles EXCEPT ![h].size = newSize, ![h].dirty = TRUE]
  /\ UNCHANGED <<db, seen, overlapped>>

(* ChunkManager::truncate reads the chunk of the new last byte first, ...  *)
Shrink(h, newSize) ==
  /\ IsOpen(h) /\ handles[h].flags.write
  /\ newSize < handles[h].size
  /\ Start(h, [op |-> "shrink", newSize |-> newSize,
               last |-> IF newSize = 0 THEN None
                        ELSE H(h)!ShortenedLast(
                               ChunkIdxOf(newSize - 1),
                               ChunkOffsetOf(newSize - 1) + 1)])

(* ... then the keys of the chunks past it, and changes what is staged.    *)
FinishShrink(h) ==
  /\ Doing(h, "shrink")
  /\ LET io  == handles[h].io
         cut == H(h)!TruncatedPending(io.newSize)
     IN handles' = [handles EXCEPT
          ![h].pending = IF io.newSize = 0 THEN cut
                         ELSE [cut EXCEPT ![ChunkIdxOf(io.newSize - 1)] =
                                 io.last],
          ![h].size = io.newSize,
          ![h].dirty = TRUE,
          ![h].touched = @ \cup (io.newSize .. (MaxU64 - 1)),
          ![h].io = Idle]
  /\ UNCHANGED <<db, seen, overlapped>>

----------------------------------------------------------------------------
(* pread: what is staged is at hand, every run of adjacent chunks that are *)
(* not is one get or one scan, and these are issued together.              *)
Unstaged(h, len, offset) ==
  H(h)!PersistedIdxs(SplitIntoChunks(len, offset))

Pread(h, offset, len) ==
  /\ IsOpen(h)
  /\ H(h)!PreadLen(offset, len) > 0
  /\ LET n    == H(h)!PreadLen(offset, len)
         runs == Coalesce(Unstaged(h, n, offset))
     IN Start(h, [op |-> "pread", offset |-> offset, len |-> n,
                  runs |-> {runs[i] : i \in 1 .. Len(runs)},
                  fetched |-> NoChunks])

(* read_chunk_group_from_store: one run, as it is at one moment.           *)
FetchRun(h) ==
  /\ Doing(h, "pread")
  /\ \E run \in handles[h].io.runs :
       handles' = [handles EXCEPT
         ![h].io.runs = @ \ {run},
         ![h].io.fetched = [k \in ChunkIdxs |->
            IF k \in H(h)!ScanInclusive(run[1], run[2])
              THEN Visible(handles[h].client).chunks[k] ELSE @[k]]]
  /\ UNCHANGED <<db, seen, overlapped>>

(* Mutant: the chunks that were found are taken for the first ones asked   *)
(* for, although those without a key are not among them.                   *)
ResultInOrder(h) ==
  LET io    == handles[h].io
      asked == Unstaged(h, io.len, io.offset)
      found == SelectSeq(asked, LAMBDA k : io.fetched[k] # None)
      Source(k) ==
        IF handles[h].pending[k] # None THEN H(h)!ChunkContents(k)
        ELSE LET i == CHOOSE j \in 1 .. Len(asked) : asked[j] = k
             IN IF i <= Len(found) THEN io.fetched[found[i]]
                                   ELSE H(h)!EmptyChunk
  IN [i \in 0 .. (io.len - 1) |->
        H(h)!ByteAt(Source(ChunkIdxOf(io.offset + i)),
                    ChunkOffsetOf(io.offset + i))]

(* The buffer pread returns: staged chunks, fetched chunks by their index, *)
(* zeroes where there is none.                                             *)
Result(h) ==
  LET io == handles[h].io
      Source(k) == IF handles[h].pending[k] # None THEN H(h)!ChunkContents(k)
                   ELSE H(h)!ReadChunkFromStore(io.fetched, k)
  IN [i \in 0 .. (io.len - 1) |->
        H(h)!ByteAt(Source(ChunkIdxOf(io.offset + i)),
                    ChunkOffsetOf(io.offset + i))]

ReadDone(h) == Doing(h, "pread") /\ handles[h].io.runs = {}

PreadReturns(h) ==
  /\ ReadDone(h)
  /\ handles' = [handles EXCEPT ![h].io = Idle]
  /\ UNCHANGED <<db, seen, overlapped>>

----------------------------------------------------------------------------
(* sync, and slatedb_file_destroy, which closes and ignores the result.    *)
StartSync(h, destroy) ==
  /\ IsOpen(h)
  /\ ~H(h)!Clean
  /\ Start(h, [op |-> "sync", destroy |-> destroy])

(* The batch: the staged chunks and the handle's own idea of the size.     *)
Written(h) == [db EXCEPT !.exists = TRUE, !.size = handles[h].size,
                         !.chunks = H(h)!Batch.chunks]

SyncWrite(h) ==
  /\ Doing(h, "sync")
  /\ db' = Written(h)
  /\ handles' = [handles EXCEPT ![h].io.op = "flush"]
  /\ UNCHANGED <<seen, overlapped>>

SyncFlush(h) ==
  /\ Doing(h, "flush")
  /\ handles' = [handles EXCEPT ![h] =
       IF @.io.destroy THEN Closed
       ELSE [@ EXCEPT !.pending = NoChunks, !.dirty = FALSE, !.touched = {},
                      !.io = Idle]]
  /\ UNCHANGED <<db, seen, overlapped>>

(* The write fails, applied or not, or the flush fails: everything stays   *)
(* staged, for a sync that writes it again.                                *)
SyncFails(h) ==
  /\ \/ Doing(h, "sync") /\ db' \in {db, Written(h)}
     \/ Doing(h, "flush") /\ UNCHANGED db
  /\ handles' = [handles EXCEPT ![h] =
       IF @.io.destroy THEN Closed ELSE [@ EXCEPT !.io = Idle]]
  /\ UNCHANGED <<seen, overlapped>>

Close(h) ==
  /\ Doing(h, "idle")
  /\ H(h)!Clean
  /\ handles' = [handles EXCEPT ![h] = Closed]
  /\ UNCHANGED <<db, seen, overlapped>>

(* A call that alters what the handle holds or what is stored.             *)
Change(h) ==
  \/ OpenWrite(h, TRUE)
  \/ \E data \in Payloads, offset \in Targets : Pwrite(h, data, offset)
  \/ \E newSize \in Targets : Grow(h, newSize) \/ Shrink(h, newSize)

HandleStep(h) ==
  \/ \E client \in Clients : OpenMapping(h, client)
  \/ OpenMetadata(h)
  \/ OpenWrite(h, FALSE)
  \/ StageSlice(h)
  \/ FinishWrite(h)
  \/ FinishShrink(h)
  \/ \E r \in Reads : Pread(h, r[1], r[2])
  \/ FetchRun(h)
  \/ PreadReturns(h)
  \/ \E destroy \in BOOLEAN : StartSync(h, destroy)
  \/ SyncWrite(h)
  \/ SyncFlush(h)
  \/ SyncFails(h)
  \/ Close(h)

Step ==
  \/ /\ changes < MaxChanges
     /\ \E h \in Handles : Change(h)
     /\ changes' = changes + 1
  \/ /\ (\E h \in Handles : HandleStep(h)) \/ RemoveFile \/ Poll
     /\ UNCHANGED changes

(* The bytes that a handle with a pread in progress shows, after a step.   *)
Shown(h) ==
  [p \in Positions |->
     IF Doing(h, "pread")' THEN shown[h][p] \cup {H(h)!View[p]'} ELSE {}]

Next == Step /\ shown' = [h \in Handles |-> Shown(h)]

Spec == Init /\ [][Next]_vars

----------------------------------------------------------------------------
StoredBytes(file) ==
  [p \in Positions |->
     LET chunk == file.chunks[ChunkIdxOf(p)]
         i     == ChunkOffsetOf(p)
     IN IF chunk = None THEN 0 ELSE IF i \in DOMAIN chunk THEN chunk[i] ELSE 0]

Files == [linked : BOOLEAN, exists : BOOLEAN, size : Offsets,
          chunks : [ChunkIdxs -> Chunk \cup {None}]]

(* Records keep their types, no write of any handle ends past u64, and a   *)
(* name leads to metadata.                                                 *)
TypeOK ==
  /\ db \in Files /\ seen \in Files
  /\ db.linked => db.exists
  /\ changes \in 0 .. MaxChanges
  /\ overlapped \in BOOLEAN
  /\ \A h \in Handles : IsOpen(h) =>
       /\ handles[h].size \in Offsets
       /\ handles[h].pending \in
            [ChunkIdxs -> Chunk \cup {None, Deleted}]
       /\ handles[h].io.op = "write" =>
            handles[h].io.offset + H(h)!PayloadLen(handles[h].io.data) <= MaxU64

(* While the handles that write a file never overlap, nothing is stored at *)
(* or past its size, through syncs that fail and are repeated, truncating  *)
(* opens and removal, for the writer and for every reader: a writer may go *)
(* on growing the file by its size alone.  With two writers at once it is  *)
(* not so: the later sync puts its own size over chunks of the earlier.    *)
OneWriterHidesNothing ==
  ~overlapped =>
    \A file \in {db, seen} : \A p \in Positions :
      p >= file.size => StoredBytes(file)[p] = 0

(* While the handles that write a file never overlap, a sync changes no    *)
(* byte but those its handle wrote or cut off, although it writes whole    *)
(* chunks.  (Two writers of one chunk do undo each other's bytes, also     *)
(* those neither meant to write.)                                          *)
SyncChangesOnlyItsWrites ==
  [][\A h \in Handles : SyncWrite(h) /\ ~overlapped /\ db.linked =>
       \A p \in Positions \ handles[h].touched :
         StoredBytes(db')[p] = StoredBytes(db)[p]]_vars

(* A pread collects staged chunks and several scans, between which other   *)
(* handles sync, truncate and remove.  Every byte it returns was the       *)
(* file's byte at that place at some moment of the call, and with nothing  *)
(* in between all are of one moment.                                       *)
BytesWereCommitted ==
  \A h \in Handles : ReadDone(h) =>
    \A i \in 0 .. (handles[h].io.len - 1) :
      Result(h)[i] \in shown[h][handles[h].io.offset + i]
=============================================================================
