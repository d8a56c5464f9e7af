------------------------------ MODULE Catalog ------------------------------
(***************************************************************************)
(* The catalog of one SlateDB database (database_metadata.rs): the mapping *)
(* from paths to file ids, the metadata records, and the allocation of     *)
(* ids, used by several clients at once (threads of one process sharing    *)
(* the writer) that also sync the files they hold open.                    *)
(*                                                                         *)
(* remove_file, move_file and prepare_file_for_open run in a serializable  *)
(* snapshot transaction: everything they read is read in the snapshot      *)
(* taken when they begin, so a call is two steps, the one that begins it   *)
(* and decides what to write, and the commit.  A transaction knows which   *)
(* keys others changed since it began (`changed') and fails to commit when *)
(* one of them is in its own footprint.  No call retries.                  *)
(*                                                                         *)
(* open_file and a sync are not transactions: the first reads the path     *)
(* mapping and the metadata in two separate gets, the second writes one    *)
(* unconditional batch.                                                    *)
(*                                                                         *)
(* Calls that return an error before they begin to write (no such path,    *)
(* ids exhausted) change nothing and have no action.                       *)
(***************************************************************************)
EXTENDS Integers

CONSTANTS
  Clients,
  Paths,
  MaxU64     \* u64::MAX, scaled down: file ids are u64

NoFile   == 0               \* decode_file_id rejects it: no file has id 0
FileIds  == 1 .. MaxU64
NextIdKey == 0              \* NEXT_FILE_ID_KEY, m/0000000000000000/next_file_id
Keys     == Paths \cup FileIds \cup {NextIdKey}
    \* A file id stands for the metadata key and the chunk keys of the file:
    \* a transaction that reads or writes one of them covers both.

ASSUME CatalogAssumption ==
  /\ MaxU64 \in Nat \ {0}
  /\ Paths \cap Int = {}

VARIABLES
  paths,    \* p/<path>: the id a path maps to, NoFile if it has no entry
  metas,    \* ids with a metadata record
  chunks,   \* ids with at least one chunk
  nextId,   \* the next id to allocate, 1 while NEXT_FILE_ID_KEY is absent
  call,     \* the catalog call every client is in
  corrupt,  \* clients whose last open returned Error::MetadataDecode
  handle,   \* the file every client holds open
  unlinked  \* history: ids removed while a client could still write them

store == <<paths, metas, chunks, nextId>>
vars  == <<paths, metas, chunks, nextId, call, corrupt, handle, unlinked>>

Idle     == [op |-> "idle"]
NoHandle == [id |-> NoFile, writable |-> FALSE]

Init ==
  /\ paths = [p \in Paths |-> NoFile]
  /\ metas = {}
  /\ chunks = {}
  /\ nextId = 1
  /\ call = [c \in Clients |-> Idle]
  /\ corrupt = {}
  /\ handle = [c \in Clients |-> NoHandle]
  /\ unlinked = {}

----------------------------------------------------------------------------
(* Begin a transaction that will write according to op: path and target    *)
(* are the names it was given, id and victim the files it found.           *)
Begin(c, op, path, target, id, victim) ==
  call' = [call EXCEPT ![c] =
             [op |-> op, path |-> path, target |-> target,
              id |-> id, victim |-> victim, changed |-> {}]]

(* remove_file, up to the commit.                                          *)
RemoveFile(c, path) ==
  /\ call[c] = Idle
  /\ paths[path] # NoFile
  /\ Begin(c, "remove", path, path, paths[path], NoFile)
  /\ UNCHANGED <<store, corrupt, handle, unlinked>>

(* move_file, up to the commit.  Moving a path to itself does nothing.     *)
MoveFile(c, source, target) ==
  /\ call[c] = Idle
  /\ source # target
  /\ paths[source] # NoFile
  /\ Begin(c, "move", source, target, paths[source],
           IF paths[target] = paths[source] THEN NoFile ELSE paths[target])
  /\ UNCHANGED <<store, corrupt, handle, unlinked>>

(* find_file ends with the handle, or with an error when the metadata      *)
(* record is missing.                                                      *)
FoundFile(c, id, writable) ==
  /\ call' = [call EXCEPT ![c] = Idle]
  /\ IF id \in metas
       THEN /\ handle' = [handle EXCEPT ![c] = [id |-> id, writable |-> writable]]
            /\ corrupt' = corrupt \ {c}
       ELSE /\ corrupt' = corrupt \cup {c}
            /\ UNCHANGED handle

(* Mutant: the next id is computed without checked_add.                    *)
PrepareFileForOpenUnchecked(c, path, create, truncateExisting) ==
  LET id == paths[path]
  IN /\ call[c] = Idle
     /\ handle[c] = NoHandle
     /\ truncateExisting => create
     /\ IF id = NoFile
          THEN /\ create
               /\ Begin(c, "create", path, path, nextId, NoFile)
               /\ UNCHANGED <<corrupt, handle>>
          ELSE FoundFile(c, id, TRUE)
     /\ UNCHANGED <<store, unlinked>>

(* prepare_file_for_open, up to the commit.  Opening an existing file      *)
(* without truncating it needs none.                                       *)
PrepareFileForOpen(c, path, create, truncateExisting) ==
  LET id == paths[path]
  IN /\ call[c] = Idle
     /\ handle[c] = NoHandle
     /\ truncateExisting => create
     /\ \/ /\ id = NoFile /\ create
           /\ nextId # MaxU64            \* checked_add(1)
           /\ Begin(c, "create", path, path, nextId, NoFile)
           /\ UNCHANGED <<corrupt, handle>>
        \/ /\ id # NoFile /\ id \in metas /\ truncateExisting
           /\ Begin(c, "truncate", path, path, id, NoFile)
           /\ UNCHANGED <<corrupt, handle>>
        \/ /\ id # NoFile /\ (id \in metas => ~truncateExisting)
           /\ FoundFile(c, id, TRUE)
     /\ UNCHANGED <<store, unlinked>>

----------------------------------------------------------------------------
Transactions == {"remove", "move", "create", "truncate"}

Opens(t)  == t.op \in {"create", "truncate"}
Victim(t) == IF t.victim = NoFile THEN {} ELSE {t.victim}

(* Mutant: the mapping of the path is read outside the transaction.        *)
FootprintWithoutPath(t) ==
  Victim(t) \cup (IF t.op = "create" THEN {NextIdKey} ELSE {})

(* What a transaction reads or writes, and what it writes.  Only move_file *)
(* has a target other than its path, and only it can have a victim; it     *)
(* does not touch the file it moves.                                       *)
Footprint(t) ==
  {t.path, t.target} \cup Victim(t)
    \cup (IF t.op = "move" THEN {} ELSE {t.id})
    \cup (IF t.op = "create" THEN {NextIdKey} ELSE {})
WriteSet(t) == IF t.op = "truncate" THEN {t.id} ELSE Footprint(t)

Conflicts(t) == Footprint(t) \cap t.changed # {}

(* The calls after client c wrote the given keys: c's own transaction, if  *)
(* it had one, has ended with it.                                          *)
Notify(calls, written) ==
  [d \in Clients |-> IF calls[d].op \in Transactions
                       THEN [calls[d] EXCEPT !.changed = @ \cup written]
                       ELSE calls[d]]

(* Mutant: move_file deletes the state of the file it moves.               *)
UnnamedMoved(t) == IF t.op \in {"remove", "move"} THEN {t.id} ELSE Victim(t)

(* The file a transaction leaves without a name.                           *)
Unnamed(t) == IF t.op = "remove" THEN {t.id} ELSE Victim(t)

Writers(id) == {d \in Clients : handle[d].writable /\ handle[d].id = id}

(* Mutants: a move keeps the old name; a create does not write the next    *)
(* id; the chunks of removed and replaced files are not deleted.           *)
ApplyKeepsSource(t) ==
  /\ paths' = [paths EXCEPT ![t.target] = IF t.op = "remove" THEN NoFile ELSE t.id]
  /\ metas' = (IF Opens(t) THEN metas \cup {t.id} ELSE metas \ Unnamed(t))
  /\ chunks' = chunks \ (IF t.op = "truncate" THEN {t.id} ELSE Unnamed(t))
  /\ nextId' = (IF t.op = "create" THEN t.id + 1 ELSE nextId)
  /\ unlinked' = unlinked \cup {id \in Unnamed(t) : Writers(id) # {}}
ApplyKeepsNextId(t) ==
  /\ paths' = [paths EXCEPT ![t.path] = NoFile,
                            ![t.target] = IF t.op = "remove" THEN NoFile ELSE t.id]
  /\ metas' = (IF Opens(t) THEN metas \cup {t.id} ELSE metas \ Unnamed(t))
  /\ chunks' = chunks \ (IF t.op = "truncate" THEN {t.id} ELSE Unnamed(t))
  /\ unlinked' = unlinked \cup {id \in Unnamed(t) : Writers(id) # {}}
  /\ UNCHANGED nextId
ApplyKeepsChunks(t) ==
  /\ paths' = [paths EXCEPT ![t.path] = NoFile,
                            ![t.target] = IF t.op = "remove" THEN NoFile ELSE t.id]
  /\ metas' = (IF Opens(t) THEN metas \cup {t.id} ELSE metas \ Unnamed(t))
  /\ chunks' = chunks \ (IF t.op = "truncate" THEN {t.id} ELSE {})
  /\ nextId' = (IF t.op = "create" THEN t.id + 1 ELSE nextId)
  /\ unlinked' = unlinked \cup {id \in Unnamed(t) : Writers(id) # {}}

(* The batch of a transaction, applied atomically by its commit.  remove   *)
(* and move delete the mapping of the path; move and create put one for    *)
(* the target, which for create is the path (truncate leaves it as it is). *)
Apply(t) ==
  /\ paths' = [paths EXCEPT ![t.path] = NoFile,
                            ![t.target] = IF t.op = "remove" THEN NoFile
                                                             ELSE t.id]
  /\ metas' = (IF Opens(t) THEN metas \cup {t.id} ELSE metas \ Unnamed(t))
  /\ chunks' = chunks \ (IF t.op = "truncate" THEN {t.id} ELSE Unnamed(t))
  /\ nextId' = (IF t.op = "create" THEN t.id + 1 ELSE nextId)
  /\ unlinked' = unlinked \cup {id \in Unnamed(t) : Writers(id) # {}}

(* transaction.commit() finds no conflict.                                 *)
Commit(c) ==
  LET t == call[c]
  IN /\ t.op \in Transactions
     /\ ~Conflicts(t)
     /\ Apply(t)
     /\ call' = Notify([call EXCEPT ![c] = Idle], WriteSet(t))
     /\ corrupt' = corrupt \ {c}
     /\ handle' = (IF Opens(t)
                     THEN [handle EXCEPT ![c] = [id |-> t.id, writable |-> TRUE]]
                     ELSE handle)

(* It finds one, and the call returns the error.                           *)
CommitConflicts(c) ==
  /\ call[c].op \in Transactions
  /\ Conflicts(call[c])
  /\ call' = [call EXCEPT ![c] = Idle]
  /\ UNCHANGED <<store, corrupt, handle, unlinked>>

(* The database fails to commit, or commits and fails to say so.           *)
CommitFails(c) ==
  LET t == call[c]
  IN /\ t.op \in Transactions
     /\ ~Conflicts(t)
     /\ \/ /\ call' = [call EXCEPT ![c] = Idle]
           /\ UNCHANGED <<store, unlinked>>
        \/ /\ Apply(t)
           /\ call' = Notify([call EXCEPT ![c] = Idle], WriteSet(t))
     /\ UNCHANGED <<corrupt, handle>>

----------------------------------------------------------------------------
(* open_file: find_file reads the mapping, then the metadata, each with a  *)
(* get of its own.                                                         *)
OpenFile(c, path) ==
  /\ call[c] = Idle
  /\ handle[c] = NoHandle
  /\ paths[path] # NoFile
  /\ call' = [call EXCEPT ![c] = [op |-> "open", id |-> paths[path]]]
  /\ UNCHANGED <<store, corrupt, handle, unlinked>>

ReadMetadata(c) ==
  /\ call[c].op = "open"
  /\ FoundFile(c, call[c].id, FALSE)
  /\ UNCHANGED <<store, unlinked>>

(* SlateFileHandle::sync with something to write: the metadata record and  *)
(* the staged chunk writes or deletions, whatever became of the file.      *)
Sync(c, keepsChunks) ==
  LET id == handle[c].id
  IN /\ handle[c].writable
     /\ metas' = metas \cup {id}
     /\ chunks' = (IF keepsChunks THEN chunks \cup {id} ELSE chunks \ {id})
     /\ call' = Notify(call, {id})
     /\ UNCHANGED <<paths, nextId, corrupt, handle, unlinked>>

Close(c) ==
  /\ handle[c] # NoHandle
  /\ handle' = [handle EXCEPT ![c] = NoHandle]
  /\ UNCHANGED <<store, call, corrupt, unlinked>>

(* The process dies; the clients of the next one start over.               *)
Crash ==
  /\ call' = [c \in Clients |-> Idle]
  /\ corrupt' = {}
  /\ handle' = [c \in Clients |-> NoHandle]
  /\ UNCHANGED <<store, unlinked>>

ClientStep(c) ==
  \/ \E path \in Paths :
        \/ RemoveFile(c, path)
        \/ \E target \in Paths : MoveFile(c, path, target)
        \/ \E create, truncateExisting \in BOOLEAN :
              PrepareFileForOpen(c, path, create, truncateExisting)
        \/ OpenFile(c, path)
  \/ Commit(c)
  \/ CommitConflicts(c)
  \/ CommitFails(c)
  \/ ReadMetadata(c)
  \/ \E keepsChunks \in BOOLEAN : Sync(c, keepsChunks)
  \/ Close(c)

Next == (\E c \in Clients : ClientStep(c)) \/ Crash

Spec == Init /\ [][Next]_vars

----------------------------------------------------------------------------
OpenCalls == [op : {"open"}, id : FileIds]
TxnCalls  == [op : Transactions, path : Paths, target : Paths, id : FileIds,
              victim : FileIds \cup {NoFile}, changed : SUBSET Keys]
Handles   == [id : FileIds \cup {NoFile}, writable : BOOLEAN]

(* The catalog's records and the calls in flight keep their types; next_id *)
(* never wraps.                                                            *)
TypeOK ==
  /\ paths \in [Paths -> FileIds \cup {NoFile}]
  /\ metas \subseteq FileIds
  /\ chunks \subseteq FileIds
  /\ nextId \in FileIds
  /\ call \in [Clients -> {Idle} \cup OpenCalls \cup TxnCalls]
  /\ corrupt \subseteq Clients
  /\ handle \in [Clients -> Handles]
  /\ unlinked \subseteq FileIds

Named == {id \in FileIds : \E p \in Paths : paths[p] = id}

(* Every path that maps to a file finds the metadata of that file, however *)
(* the transactions of several clients interleave and conflict: find_file  *)
(* in one snapshot never fails with "metadata is missing".                 *)
PathsResolve == \A p \in Paths : paths[p] # NoFile => paths[p] \in metas

(* Two paths never map to the same file: move_file, which deletes the      *)
(* chunks of the file it replaces, never deletes the one it moves.         *)
OneNamePerFile ==
  \A p, q \in Paths : paths[p] = paths[q] /\ paths[p] # NoFile => p = q

(* An id that was ever given to a file is below the next one to allocate,  *)
(* so what a removed file left behind is never found by a new one, even    *)
(* through a handle that outlives its file.                                *)
IdsAreNeverReused ==
  /\ \A id \in metas \cup chunks \cup Named \cup unlinked : id < nextId
  /\ \A c \in Clients : handle[c].id < nextId

(* State no path leads to exists only for files that were removed or       *)
(* replaced while a client held them open for writing.                     *)
OrphansHadWriters == (metas \cup chunks) \ Named \subseteq unlinked

(* A handle open for writing names a file that has a path, or that lost    *)
(* it while the handle was open.                                           *)
WritersAreKnown ==
  \A c \in Clients : handle[c].writable => handle[c].id \in Named \cup unlinked

(* A transaction without a conflict still describes the catalog: the paths *)
(* it read map where it found them, and the id it allocates is the next.   *)
SnapshotIsCurrent ==
  \A c \in Clients :
    LET t == call[c]
    IN t.op \in Transactions /\ ~Conflicts(t) =>
         /\ t.op = "create" => paths[t.path] = NoFile /\ t.id = nextId
         /\ t.op # "create" => paths[t.path] = t.id
         /\ t.op = "move"   => t.path # t.target /\ paths[t.target] = t.victim

(* The ids a call holds were allocated, or are about to be; only a move    *)
(* has a second path and a file to replace.                                *)
CallsKnowIds ==
  \A c \in Clients :
    /\ call[c].op = "open" => call[c].id < nextId
    /\ call[c].op \in Transactions =>
         /\ call[c].victim < nextId
         /\ call[c].op # "move" =>
              call[c].target = call[c].path /\ call[c].victim = NoFile
         /\ IF call[c].op = "create" THEN call[c].id < MaxU64
                                     ELSE call[c].id < nextId

(* The inductive invariant behind the properties above.                    *)
Inv ==
  /\ TypeOK
  /\ PathsResolve
  /\ OneNamePerFile
  /\ IdsAreNeverReused
  /\ OrphansHadWriters
  /\ WritersAreKnown
  /\ SnapshotIsCurrent
  /\ CallsKnowIds

(* database_metadata.rs implements atomic names: commits are the only      *)
(* steps that change them.                                                 *)
Names == INSTANCE Namespace WITH file <- paths, used <- 1 .. (nextId - 1)

ImplementsNamespace == Names!Spec

(* error.rs: MetadataDecode means "Stored bytes could not be decoded into  *)
(* a known format", and nothing here corrupts what is stored.              *)
OpenNeverReportsCorruption == corrupt = {}
=============================================================================
