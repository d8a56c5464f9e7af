# A TLA+ model of duckdb-object-storage

duckdb-object-storage is a DuckDB extension that registers a file system for
`duckdb_objfs://` paths. DuckDB files live as metadata records and fixed-size
chunks in SlateDB databases, which live in an object store. This directory
holds TLA+ modules that model the parts of it that keep state, the TLC
configurations that check them on small instances, and TLAPS proofs of the
results that matter most. `PROJECT.json` maps every definition to the source
lines it stands for and lists components, runs, mutants, findings, hazards and
theorems.

## 1. The system

Calls run from top to bottom:

| Part | Source | State | Operations |
| --- | --- | --- | --- |
| Extension file system, settings | `src/slatedb_file_system.cpp`, `slatedb_config_utils.cpp`, `slatedb_path_utils.cpp`, `duckdb_object_storage_extension.cpp` | the settings and the S3 secret DuckDB stores, the created Rust file system, the frozen snapshot of its settings, DuckDB's temporary directory | `SET`; open, exists, remove, move, each of which creates the file system if it is the first |
| C ABI, shared handles | `rust/src/ffi.rs`, `src/slatedb_file_handle.cpp`, `slatedb_ffi_utils.cpp` | a readers-writer lock (poisoned or not) around an optional handle; a thread-local error message | read, pread, write, pwrite, sync, truncate, seek, size, close, destroy; fetching the message |
| Rust file system | `rust/src/fs.rs` | per database group a mutex with a cached reader and a cached writer; a closed flag; in the object store one SlateDB per group | creation from a configuration; open, exists, remove, move, close; opening clients |
| Catalog | `rust/src/database_metadata.rs`, `keys.rs` | in SlateDB: path to file id, metadata records, next file id | prepare_file_for_open, open_file, remove_file, move_file |
| File handle | `rust/src/file_handle.rs`, `flags.rs`, `file_metadata.rs` | size, position, metadata_dirty, flags | read, pread, write, pwrite, seek, truncate, sync, close |
| Chunk manager | `rust/src/chunk_manager.rs`, `chunk_store.rs` | staged chunk writes and deletions | read, write, truncate, batch, mark_flushed |
| I/O statistics | `rust/src/opendal_io_metrics_layer.rs`, `io_metrics.rs`, `src/slatedb_io_stats.cpp` | per kind of request a mutex with a count, bytes, a running mean and a sum of squared deviations; per stream, writer, deleter or lister its bytes and whether it is recorded | record a request, query |
| Cache statistics | `rust/src/cache.rs`, `src/slatedb_cache_stats.cpp` | counters kept by SlateDB | read |

SlateDB (transactions, write batches, flushes, manifest fencing, polling
readers) and DuckDB (setting storage, ownership of handles) are not in the
repository. They are modelled as far as this code relies on them, and are
marked external in the map.

What is hard here, and what therefore decides the properties:

- **Two layers of bytes.** A read sees staged chunks over stored ones. Every
  write, truncation, sync and failure changes one layer or both, and a byte
  that survives past the end of the file comes back when the file grows.
- **Failure part way.** A multi-chunk write reads the store between chunks; a
  sync is a write and a flush; a commit may fail after it was applied; a close
  may fail and be ignored; a panic may leave a handle half changed.
- **Crash and recovery** between a write and its flush.
- **Transactions that interleave**: two creates of a path, moves that cross,
  handles that outlive their file.
- **Cached clients**: a reader opened before the process began to write, a
  writer that another process has fenced.
- **Lazy creation under a lock that `SET` does not take.**
- **Locks held across I/O**: every caller must get its turn.
- **Several handles on one file**, none of which is told what the others do.
- **Names**: a file's name decides which SlateDB it lives in, which files it
  can be moved onto, and whom its writer excludes.

## 2. The modules

| Module | Models | Composition |
| --- | --- | --- |
| `ByteFile` | what a file promises: a size and one byte per position, in three copies (open handle, database, durable) | abstract specification |
| `ChunkLayout` | `split_into_chunks`, `coalesce_chunk_indices` | pure operators, used by `FileHandle` and `SharedFile` |
| `FileHandle` | `SlateFileHandle` with its `ChunkManager` over one file in SlateDB | implements `ByteFile` |
| `FileHandleProofs` | | theorems about `FileHandle` |
| `Namespace` | what the catalog promises: names change in one step, new files have new ids | abstract specification |
| `Catalog` | `database_metadata.rs` over serializable snapshot transactions, with handles that sync | implements `Namespace` |
| `CatalogProofs` | | theorems about `Catalog` |
| `SlateDbClients` | the clients `fs.rs` caches, by threads of several processes | |
| `SlateDbClientsProofs` | | theorems about `SlateDbClients` |
| `SharedFile` | several handles on one file, over the writer or another process's reader | one instance of `FileHandle`'s operators per handle |
| `SharedFileProofs` | | theorems about `SharedFile` |
| `VirtualFiles` | what DuckDB is promised when it names files: one flat set of files, grouped by database | abstract specification |
| `ObjectFileSystem` | open, exists, remove and move from DuckDB's name to the catalog of a SlateDB: logical paths, database groups, locations, clients, error codes | implements `VirtualFiles` |
| `ObjectFileSystemProofs` | | theorems about `ObjectFileSystem` |
| `FileSystemInit` | lazy creation of the file system, what it is created from, and the frozen settings | |
| `FileSystemInitProofs` | | theorems about `FileSystemInit` |
| `FfiFileHandle` | one handle shared by threads through the C ABI | |
| `FfiFileHandleProofs` | | theorems about `FfiFileHandle` |
| `IoMetrics` | the layer that counts requests to the object store, and the query that shows them | |
| `IoMetricsProofs` | | theorems about `IoMetrics` |
| `MC...` | constants of the TLC instances | |

Each component is one state machine. The I/O statistics only watch; the others
meet at three places, each of which has one side's promise as the other's
assumption:
`FfiFileHandle` shows that operations of a handle exclude each other, which is
why `FileHandle` has a single operation in progress; `FileHandle` shows that a
sync is one batch of metadata and chunks, which is `Catalog!Sync`;
`SlateDbClients` shows that a process has one unfenced writer per database,
over which the clients of `Catalog` share transactions. `SharedFile` composes
the operators of `FileHandle`, one copy per handle, with the opens and removals
of `Catalog`; `ObjectFileSystem` puts the groups of `SlateDbClients` and the
names of `Catalog` under the names DuckDB uses, one call at a time.

### FileHandle

`pending`, `size`, `position`, `dirty` and `flags` are the fields of the
handle; `db` is what SlateDB shows to reads and `durable` what would survive a
crash; `io` is the operation in progress. A write is `StartWrite` (the checks
of `pwrite`), one `StageSlice` per chunk and `FinishWrite`; `StageSliceFails`
is the failing read of a partly overwritten chunk, and leaves the earlier
chunks staged, as the code does. `Grow` and `Shrink` are `truncate`. A sync is
`StartSync`, `SyncWrite`, `SyncFlush`, either of which may fail
(`SyncFails`); with `destroy` it is the close in `slatedb_file_destroy`, whose
error is ignored, after which the file is opened again. `BackgroundFlush` and
`Crash` may come between any two steps. A failed `db.write` may or may not
have applied its batch.

Offsets are `0 .. MaxU64`; the checked addition of `pwrite` is in the guard. A
chunk is a function from `0 .. n-1` to bytes with `n` at most the chunk size,
so short chunks, and the zeroes `copy_chunk_into` leaves for what they lack,
are as in the code. `faults` is a history variable: it records that a write
failed after staging bytes past the end (`torn_write`) and that a failed close
was ignored (`ignored_close`), the two events after which the properties
promise less.

### Catalog

A transaction has two steps, the one that begins it, whose reads are one
snapshot, and the commit. `changed` collects the keys others write meanwhile;
`Commit` needs its footprint to be disjoint from them, `CommitConflicts` is
the other outcome, and `CommitFails` is an error with the batch applied or
not. `OpenFile` and `ReadMetadata` are the two gets of an open for reading,
outside any transaction. `Sync` writes metadata and chunks without
looking whether the file still exists. The chunks of a file are a flag; a file
id in a key set stands for the file's metadata and chunk keys.

### SlateDbClients

`epoch` is the writer epoch in the manifest of a database, `version` the
number of commits. A call takes the group's mutex (`LockGroup`), opens what
`read_client` or `write_db` finds missing (`OpenReader`, `OpenWriter`,
`OpenFails`) and returns with a handle or, its file missing, without one
(`Return`). Opening a writer moves the epoch on and so fences the earlier
ones, whose commits then fail. `Close` takes every client out; `Restart` ends
the process at any point.

### SharedFile

A handle has the fields of `FileHandle` and the client it was opened on: the
process's writer, which shows `db`, or another process's reader, which shows
`seen`, as of its last poll. Operations are split wherever they read the
database: the two gets of an open, a write's chunks one by one, the two reads
of a shrinking `truncate`, and every run of chunks of a `pread`, which the code
fetches concurrently. The chunk arithmetic, the staging and the batch are those
of `FileHandle`, instantiated per handle. `overlapped` is history: two handles
were open for writing at once. Nothing in the code prevents that within a
process (DuckDB opens a database file for writing once), and what the
properties promise to a lone writer does not hold for two: the later sync
writes its own size, and whole chunks, over what the earlier one wrote, bytes
of a shared chunk included that it never touched. A reader is not protected
either: its size is the one of its open, the bytes are those of the moment it
reads them, so a file that was truncated shows the old length over zeroes.
`BytesWereCommitted` says what remains: no byte it returns is made up.

### ObjectFileSystem

A name goes through `GetLogicalPath` (the prefix, then any number of slashes),
`DatabaseGroup` (companion suffixes) and `SlatedbPath` (escapes). Strings are
sequences of tokens, so that these three are modelled by what they do. Each
call of the extension is one action from the name to the answer DuckDB gets, a
handle, nothing, a value or one of two exceptions, over the SlateDBs in
`stores`, each with its epoch and the files in its catalog, and the cached
`writers`. Errors may come before an effect or after it: in particular a writer
that fails to open (`NoWriter`) may have written its manifest, and so have
created the database or fenced an earlier writer, and is not cached
(`SlateDbClients!OpenFails` has the same effect). `VirtualFiles` allows this as
`NotOpened`: an "io" answer after which the database may exist, without a new
file. Another process may
open a file read-write and so fence this one's writer, and this process may
end. `VirtualFiles` knows nothing of paths, groups or locations; the mapping
takes the files a lookup finds, the databases that exist, and those this
process holds and has lost. What a name means to DuckDB is not taken from the
code: `FileOf` and `Database` are constants, and `MeaningAssumption` says that
the file of a URL is what follows the prefix and any slashes, and that a file
named after another with a companion's suffix belongs to that one.

Two observations that are not properties. `Error::FileAlreadyExists` is never
constructed, so `ReturnNullIfExists` (`slatedb_file_system.cpp`, `OpenFile`)
has no effect. And a database file that is itself named `x.wal` is grouped with
`x`, while its own WAL, `x.wal.wal`, is grouped with `x.wal`. `Database` says
the same, since it goes by the name: the promise of companions that stay with
their database is one for databases that are not named like companions.

### FileSystemInit

`GetOrCreateFileSystem` is `UseFileSystem`, or `BeginInitialization`, one
`ReadSetting` per setting in the order of the code, `Initialize` or
`InitializationFails`, and `FreezeSettingsSnapshot`, all under the lock. A
`SET` is `SetCheck` (the callback, which does not take the lock) and
`SetStore`. Case folding, empty values and the two defaults of the root are
modelled by what they do, separately for the reader of settings and for the
callback, since their agreement is the point. `CreateSecret` replaces the S3
secret at any time. `CreateFileSystem` is what the Rust side makes of a
configuration: the checks of `parse_cache_config` and `build_s3_operator`, how
requests are signed, and the options of the disk cache.

Of the eight cache settings, the path, the size and the part size of the disk
cache are modelled, since the Rust side checks them; `memory` stands for the
other five, which are read, frozen and compared in the same way and of which no
value is refused. The path is an optional text, whose `NULL` is the empty text;
the others are numbers and Booleans. `SetTemporaryDirectory` is DuckDB's
`SET temp_directory` back onto the object file system.

`CallbackAgrees` is about the time after the snapshot was stored. Then the
callback accepts exactly the values that mean what is in use, with one
exception it names: a number or a Boolean that is set to `NULL` is rejected even
when its default is in use, since the callback compares texts.

It says nothing while the file system exists without a snapshot, and there the
code does not do what the repository says. Between `Initialize` and
`FreezeSettingsSnapshot`, and for ever after a first operation without an
opener, which stores no snapshot, the callback accepts any value, while the
repository's README says that a change "fails with an error instead of being
silently ignored". `LateChangesFail` states that sentence, and the run
`init_late_set` shows it violated. The same can happen to a `SET` whose value
is stored only after its callback returned.

### FfiFileHandle

Any number of threads make calls (`Called` says which). A call goes through
`Call`, `Enter` (or `Refused`, `NullPointer`,
`CloseAgain`), its operation, and `Report` when it failed. What an operation
does to the file is a version number that goes through a half-way value. A
panic releases the lock, poisons it if it was exclusive, and leaves a file
that was half-way through a change `broken`. The message of a thread is
forgotten once it was reported: nothing reads it again before another error
replaces it. That no other thread is in a call
when the handle is freed (`OnlyUser`) is DuckDB's contract for its file
handles; it is assumed, not checked.

The lock is Rust's `std::sync::RwLock`, of which the documentation promises no
order: `Available` admits a reader whenever no writer is inside, so that with
three threads two readers that take turns can keep a writer out for ever.
`CallsReturn` therefore does not say that every call returns. It says that a
call returns unless some other thread gets the lock again and again: the only
thing that can keep a caller waiting is a stream of other calls, never an error
or a panic that left the lock behind, and never threads that wait for each
other.

### IoMetrics

A request is a call that is awaited (`stat`, a reader's `read`) or an object
that is used for a while (a read stream, a writer, a deleter, a lister).
`CreateFails`, `CallReturns` and `OpenFails` record at once; `Finish` (the end
or an error of a stream or lister, a close or abort) and `Drop` go through
`record_once`, and an object that has finished may still be used. The future
of an awaited call may be dropped (`Cancel`); such a call is not counted. A
query copies the five kinds one after another (`SnapshotRow`), each under its
own mutex, while requests end. Latencies are whole numbers, mean and deviation
exact fractions, so the rounding of `f64` is left out.

## 3. Runs

All passing runs take less than three minutes on two cores, most of them less
than one.

| Run | Instance | Shows |
| --- | --- | --- |
| `file_handle` | chunks of 2 with a short first chunk, offsets up to 4, one payload of three bytes that are not all alike, truncation to 1 and 2, read-write and append handles, reads and seeks; failing store reads, writes and flushes, crashes, ignored closes (510 thousand states) | the file is one flat array of bytes whose size and bytes survive or vanish together (`ImplementsByteFile`), no byte hides past its end (`HiddenBytesAreZero`), `pread` with its coalesced scans returns the file (`PreadReturnsTheFile`), a handle with nothing to sync is synced (`CleanMeansSynced`), appends go to the end (`AppendsNeverOverwrite`) |
| `shared_file` | two handles, three chunks, a payload of two bytes that meets the middle chunk from both sides, two changes, a writer and a polling reader | a lone writer leaves nothing past the end (`OneWriterHidesNothing`) and changes only what it wrote (`SyncChangesOnlyItsWrites`), through failed syncs, truncating opens and removal; a read of several scans returns bytes the file had (`BytesWereCommitted`) |
| `catalog` | two clients, two paths, ids up to 3 | `PathsResolve`, `OneNamePerFile`, `IdsAreNeverReused`, `OrphansHadWriters`, `ImplementsNamespace` |
| `clients` | two threads of one process and one of another, one database, two epochs, one commit | `OpenWritersAreCached`, `NeverFencesItself`, `ReadsSeeOwnWrites`, `OnlyCreateCreates`, `CallsReturn` |
| `vfs` | a database with two companions, names with a slash, an escaped slash and a companion suffix without a database, an alias, two names that are none; seven ways to open; two SlateDBs, two epochs | DuckDB sees one flat set of files with companions together and databases apart (`ImplementsVirtualFiles`), files lie where lookups go (`TypeOK`), and no SlateDB lies inside another (`NeverNests`) |
| `init` | two connections, one setting a session's root, the backend and the path of the disk cache, the other the bucket and the size of the disk cache; three backends and an unknown one, a cache without room; four secrets (370 thousand states); the callback is asked about every spelling, default and `NULL` | once the snapshot is stored the callback accepts a value exactly when the running file system would have been created from it, also when settings change while they are read (`CallbackAgrees`); credentials and cache are used as configured (`CreatedAsConfigured`); `TemporaryFilesStayLocal`; one connection at a time initializes (`TypeOK`); operations that wait for an initialization that fails return (`OperationsReturn`) |
| `ffi_shared` | three threads, pread, pwrite, sync and close, two writes (64 thousand states) | `ReadersSeeOneVersion`, `BrokenFilesAreRefused`, `ClosedMeansSynced`; the lock has one writer or readers, and a failed call finds its own message (`TypeOK`); `CallsReturn`, with two readers that may keep a writer out |
| `io_metrics` | three requests of any kind, two latencies | every request is counted once (`CountedOnce`), a row shows one moment, with the mean and deviation of its population (`RowsAreWhole`) |

Four runs show a disagreement between the code and what the repository says
of it; each has an entry under `findings`.

| Run | Property | What TLC shows |
| --- | --- | --- |
| `file_grow` | `GrownBytesReadAsZeroes` | a write over two chunks fails at the second; growing the file shows the bytes of the first, where the comment in `truncate` promises zeroes |
| `catalog_open_race` | `OpenNeverReportsCorruption` | a remove between the two gets of an open for reading makes the open report undecodable metadata |
| `clients_catch_up` | `ReadersCatchUp` | a process whose cached writer was fenced keeps using it for reads and never sees the other process's commits, whatever the README's polling interval |
| `init_late_set` | `LateChangesFail` | one connection has created the file system and not yet stored the snapshot; another's `SET` of a different value is accepted, where the README promises an error |

### Bounds

- *Chunks.* Three chunks, the first short, give every position of a slice: at
  the start, inside and at the end of a chunk, over two chunks, over a whole
  one. Runs of adjacent chunks interrupted by a staged one need no more. The
  proofs cover every geometry.
- *Catalog.* Two paths are what a crossing move needs and three ids let a path
  be created, removed and created again until the ids run out. The proofs
  cover any number of clients, paths and ids.
- *Clients.* Two threads in one process race for a writer; a third, in another
  process, fences it. `MaxEpoch` 2 allows one hand-over, `MaxVersion` 1 one
  commit to miss. The process that lost its writer can be restarted any number
  of times, as long as epochs last.
- *Settings.* Two connections are enough for every pair of a `SET` and a step
  of the initialization. Which `SET` statements they run is fixed (`Settable`),
  so that those of both race without every value in every scope; `Raw` has more
  values, about which `CallbackAgrees` asks the callback in every state.
- *Shared files.* Two handles are a pair of writers, a writer and a reader, or
  a writer that is followed by another. `MaxChanges` 2 is one change by each,
  or a change on top of one that was synced; runs with three changes on fewer
  offsets, or on the writer alone, also passed and take longer.
- *Names.* Names collide in pairs, so that two SlateDBs at a time
  (`MaxStores`) show every collision; `MaxEpoch` 2 is one hand-over.
- *Handles.* Three threads are two readers and a writer that waits for both,
  the least with which a readers-writer lock can starve anyone. Versions are
  bounded by `MaxVersion` 4, two versions to a write: writes stop there, the
  other calls do not.
- *Statistics.* Three requests make the running mean and deviation depend on
  the order of the latencies; one byte transferred before or after an object
  ends tells the bytes of its first end from later ones.

`CHECK_DEADLOCK FALSE` is set for `FileHandle` and `SharedFile` runs only:
there a file that has reached the last offset, or was removed, may have no
operation left.

### Fairness

Liveness is checked under weak fairness of every step of a call that has
begun and holds its lock (I/O ends, with a result or an error). Taking a lock
depends on the lock. tokio's mutex (`SlateDbClients`) is first come first
served, which gives strong fairness of `LockGroup`. Of `std::mutex`
(`FileSystemInit`) strong fairness is an assumption: the standard promises
nothing, but the lock is held across the first operation only and otherwise for
a moment. For Rust's `RwLock` (`FfiFileHandle`) nothing is assumed but weak
fairness: who can enter all the time does so. Nothing
forces a call to begin, a process to crash or another process to write.
`ReadersCatchUp` also assumes that a reader keeps polling. In `FfiFileHandle`,
`Reset` (freeing the handle after a close) has no fairness, since it waits for
other threads to leave.

### Mutants

Every property of every passing run has a mutant: a definition next to the
one it changes (marked "Mutant"), with a plausible slip in that code, under
which the run finds the property violated.

## 4. Proofs

For every value of the constants that satisfies `LayoutAssumption`,
`HandleAssumption`, `FaultsAssumption` and `ModesAssumption`:

- `FileHandleInvariant`: `Spec => []Inv`. `HiddenBytesAreZero` alone is not
  inductive. A write in progress has already changed the bytes, so the
  invariant speaks of `Shown`, the bytes before the write, and needs
  `StagedSoFar` to say how the staged bytes differ from them. A sync copies
  the handle into the database and a flush makes it durable, so the
  invariant relates the three: between write and flush the database is the
  batch (`SyncInProgress`), and a handle that is not dirty agrees with the
  database (`UnsyncedIsDirty`). The lemmas underneath are about the layout
  (`Located`, `RestOfChunk`, `Ordered`, `Injective`: the map from positions to
  places in chunks is monotone and one to one), about staging one slice
  (`StageSliceView`), truncating (`ShrinkView`) and batching (`BatchFacts`).
- `FileHandleTypeOK`, `FileHandleHiddenBytesAreZero`, `FileHandleStagedSoFar`,
  `FileHandleCleanMeansSynced` follow from it.
- `FileHandleAppendsNeverOverwrite`, an action property: an append in progress
  goes to the end of the file (`AppendsGoToTheEnd`), also after truncations,
  crashes and reopenings, so that its slices lie past every byte there was.
- `FileHandlePreadReturnsTheFile`: what the loops of a read compute for every
  input. `split_into_chunks`, the loop that leaves out staged chunks and
  `coalesce_chunk_indices` are recursive functions; that they exist
  (`LoopExists`) and that slices cover the buffer (`SplitFacts`), no chunk that
  is not staged is forgotten (`PersistedIdxsFacts`) and every index lies in a
  run (`CoalesceCovers`) is proved by induction with a set of numbers in place
  of a predicate (`CountUp`).
- `FileHandleGrownBytesReadAsZeroes`: the promise of the comment in
  `truncate`, which the run `file_grow` shows to fail after a torn write,
  holds for every history without one.
- `FileHandleImplementsByteFile`: under the mapping of `Abstract`, every step
  is a step of `ByteFile` or a stutter. A write becomes visible at
  `FinishWrite`, and a write that failed part way at the step at which it
  failed.

For every value that satisfies `LayoutAssumption` and `SharedAssumption` (a
payload is not empty and fits in u64, 0 is a byte, and the marks for "no entry"
and "deleted" are not chunks), so for any number of handles:

- `SharedFileInvariant`: `Spec => []Inv`. `OneWriterHidesNothing` speaks of the
  database, but a sync stores what a handle has staged under the size the
  handle has; so the invariant has to say what a lone writer knows
  (`WriterOK`). It shows zeroes past its own size, but for what a write in
  progress has staged (`ZeroPastEnd`); while the file has its name it differs
  from the database only where it has written or cut off (`MergesOnly`); the
  entry that a truncation computed from one read of the database is still
  right when the second read is done (`CutRight`); and between write and flush
  of a sync nothing is stored past its size (`FlushesOwnSize`), which is what
  is left once the file has been removed in between. None of this holds of two
  writers, and nothing is claimed of them but their types (`HandleOK`).
- For reads the invariant follows one `pread` through its fetches (`ReadOK`):
  what is staged or fetched was shown during the call, and a chunk of the range
  that is neither is in a run still to be fetched (`UnstagedInRuns`, from
  `SplitFacts`, `PersistedIdxsFacts` and `CoalesceCovers`). A handle does not
  change while its own read is in progress, and the steps of others only add
  to what it has shown (`ShownGrows`).
- `SharedFileTypeOK`, `SharedFileOneWriterHidesNothing` and
  `SharedFileBytesWereCommitted` follow from it, and so does the action
  property `SharedFileSyncChangesOnlyItsWrites`, from `MergesOnly` and the fact
  that a batch stores what its handle shows (`BatchFacts`). The bound on the
  changes of the run is no bound here: `MaxChanges` is any number.
- Lemmas about the operators of `FileHandle` are stated for the instance `H(h)`
  of every handle; those about the layout and the loops are the ones of
  `FileHandleProofs`, repeated because its variables keep `SharedFileProofs`
  from extending it.

For every value that satisfies `CatalogAssumption`:

- `CatalogInvariant`: `Spec => []Inv`. The key is `SnapshotIsCurrent`: a
  transaction without a conflict still describes the catalog, so that what it
  decided at its beginning is right at its commit. `CallsKnowIds` and
  `WritersAreKnown` bound the ids that calls and handles carry.
- `CatalogTypeOK`, `CatalogSnapshotIsCurrent`, `CatalogPathsResolve`,
  `CatalogOneNamePerFile`, `CatalogIdsAreNeverReused` and
  `CatalogOrphansHadWriters` follow from it.
- `CatalogImplementsNamespace`: a commit that applies its batch is one step of
  `Namespace`, everything else a stutter.

For every value that satisfies `ThreadsAssumption`:

- `FfiFileHandleInvariant`: `Spec => []Inv`. That readers see one version
  depends on who holds the lock and why: `HoldersDoTheirPart` ties the lock to
  what its holders are doing, `HeldMeansUsable` says that a lock that is held
  guards an open file and is not poisoned, and that a file left half-way lies
  behind a poisoned lock.
- `FfiFileHandleTypeOK`, `FfiFileHandleReadersSeeOneVersion`,
  `FfiFileHandleBrokenFilesAreRefused` and `FfiFileHandleClosedMeansSynced`
  follow from it, for any number of threads.

For every value that satisfies `ClientsAssumption`:

- `SlateDbClientsInvariant`: `Spec => []Inv`. `read_client` and `write_db`
  decide what to open before they open it, so the invariant says that the
  decision still holds when it is acted on: who opens a client holds the mutex
  and has found no writer (`OpensWhatIsMissing`), who has a reader, or opens a
  writer without the right to create, has seen the database
  (`ReadersFoundADatabase`), and nobody has committed more than there is
  (`OwnWritesAreCommitted`).
- `SlateDbClientsTypeOK`, `SlateDbClientsOpenWritersAreCached`,
  `SlateDbClientsNeverFencesItself`, `SlateDbClientsReadsSeeOwnWrites` follow
  from it, and so does the action property `SlateDbClientsOnlyCreateCreates`,
  for any number of processes, threads and groups, whether or not processes
  coordinate.

For every value that satisfies `RawAssumption`, `LowerCaseAssumption` (nothing
but the empty text lower-cases to it, and lower case stays as it is),
`NumberAssumption` and `SecretAssumption` (texts have a meaning):

- `FileSystemInitInvariant`: `Spec => []Inv`. `SettingsWereSet` bounds the
  values that are stored or about to be; `CreatedOnce` says that the
  configuration in the making, and the one in use, holds exactly the fields
  its backend needs, in the form in which they are used (`ReadAsUsed`), and
  that the snapshot is taken from it.
- `FileSystemInitTypeOK`, `FileSystemInitCreatedAsConfigured` (from
  `AllCredentialsSign`: an S3 store that could be built signs with every
  credential) and `FileSystemInitCallbackAgrees` (from `FrozenReadsBack`:
  reading a frozen setting again gives what the file system was created from)
  follow, and so does the action property
  `FileSystemInitTemporaryFilesStayLocal`.

For every value that satisfies `IoAssumption` (finitely many requests):

- `IoMetricsInvariant`: `Spec => []Inv`. `EndedWhenRecorded` ties the flag of
  `record_once` to the history of ended requests, and `RunningStatsAreExact`
  says that the running mean and deviation are those of the requests that
  ended. That `RunningStats::record` keeps this up is `RecordedExact`: with
  the mean `a/b` and the deviation `p/q` of `n` latencies whose sum and sum of
  squares are `T` and `Q`, the updated fractions are those of `n + 1`
  latencies (`NextMean`, `NextDeviation`).
- The sums are recursive functions on sets. That they exist, that they do not
  depend on the order in which elements are taken, and that one more element
  adds its value (`SumsExist`, `SumsRemove`, `SumAdd`) is proved by induction
  on the subsets of a finite set, stated with a set in place of a predicate
  (`SubsetInduction`, from the least element of a set of numbers).
- `IoMetricsTypeOK`, `IoMetricsCountedOnce` and `IoMetricsRowsAreWhole` follow
  from the invariant.

For every value that satisfies `NamesAssumption` and `MeaningAssumption`, so
for any set of names, however they are confused with each other:

- `LocationsAreApart`: `slatedb_path` is injective. The two replacements
  together write each token by a code of its own (`EscapeAppend`), no escaped
  name ends in "%" (`EscapeEnds`), and so it can be read back from its end
  (`EscapeStep`, `EscapeInjective`). `FlattenSeq` is a recursive function; the
  inductions run over a set of sequences (`AppendInduction`).
- `ObjectFileSystemNeverNests`: no separator is left in an escaped name
  (`EscapeHasNoSeparator`), so no location lies below another. This needs only
  that every SlateDB lies at the location of some group
  (`ObjectFileSystemShape`), and nothing of what names mean.
- `GetLogicalPath` and `database_group` read names as they are meant
  (`PathsAreFiles`, `GroupsAreDatabases`); the latter because no path ends in
  two companion suffixes.
- `ObjectFileSystemInvariant`: `Spec => []Inv`, where `Inv` adds to the shape
  that files lie where their names lead (`StoresOK`) and that a cached writer
  is not ahead of its manifest (`WritersOK`). `ObjectFileSystemTypeOK` follows.
- `ObjectFileSystemRefines`: every step is a step of `VirtualFiles` or a
  stutter. What a caller can tell of a database is what its location and its
  group say (`Seen`); a call that gets a writer changes only its own database
  and takes none away (`SeenChanges`), and only a writer that is not fenced
  commits (`CommitsWrites`). A call that gets none, whether or not its manifest
  was written, shows as `NotOpened` (`NoWriterWrites`): a new epoch at a
  location without a cached writer takes no database from this process
  (`SeenFences`).

Only model-checked:

- liveness (`CallsReturn` of `SlateDbClients` and of `FfiFileHandle`,
  `OperationsReturn`), which the prover does not do;
- the four disagreements of the violation runs, which are counterexamples.

`StagedSoFar`, `SnapshotIsCurrent` and the other parts of the inductive
invariants named above are proved, not run. Each inductive invariant was
checked by TLC on the instance of its run before it was proved; that of
`ObjectFileSystem` is, but for the infinite set of all locations in `Shape`,
its `TypeOK`, which the run checks.

## 5. What is not modelled

- The cache statistics, counters that SlateDB keeps, and the in-memory caches,
  whose sizes are handed to foyer.
- The encoding of keys and metadata, endpoints and regions, the text, source
  and retry status of errors (nothing reads the status): pure functions of
  their arguments.
- `SlateDbObjectStore`, which passes calls on to OpenDAL.
- Null pointers and UTF-8 checks at the C boundary, and tokio's runtime.
- Five of the eight cache settings, for which one stands in `FileSystemInit`:
  the sizes of the memory and the metadata cache, the shards, and the two
  Booleans of the disk cache.
- Two handles that write one file at once: `SharedFile` has the steps, and the
  properties promise nothing for them.
- Benchmarks, scripts and tests.

## 6. Plan

Done: `ByteFile`, `ChunkLayout`, `FileHandle` with proofs; `Namespace`,
`Catalog` with proofs; `SlateDbClients`, `FileSystemInit`, `FfiFileHandle` and
`IoMetrics` with proofs; `VirtualFiles` and `ObjectFileSystem` with proofs;
`SharedFile` with proofs.

Next: hand-over between processes with open handles, what a handle of a process
that has lost its writer can still do.
