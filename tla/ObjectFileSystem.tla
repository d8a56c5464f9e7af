-------------------------- MODULE ObjectFileSystem --------------------------
(***************************************************************************)
(* The calls by which DuckDB names files: OpenFile, FileExists, RemoveFile *)
(* and MoveFile of the extension (slatedb_file_system.cpp), through the C  *)
(* ABI (ffi.rs) to the Rust file system (fs.rs) and the catalogs of the    *)
(* SlateDBs it keeps, one per database group.                              *)
(*                                                                         *)
(* A string is a sequence of tokens: "/", "%", "25" and "2F" are those the *)
(* code looks for and writes, ".wal", ".checkpoint" and ".recovery" those  *)
(* of the suffixes.                                                        *)
(*                                                                         *)
(* Each call is one step: how calls of several threads interleave is the   *)
(* subject of SlateDbClients and Catalog.  A cached reader shows what its  *)
(* writer would, since the other process of this model changes no file;    *)
(* it is left out.                                                         *)
(***************************************************************************)
EXTENDS Naturals, Sequences, FiniteSets, SequencesExt

CONSTANTS
  Tokens,     \* what strings are made of
  Urls,       \* the names DuckDB uses
  Modes,      \* ways to open a file (DuckDB's FileOpenFlags)
  FileOf,     \* what they mean to DuckDB: the file a name stands for, ...
  Database,   \* ... and the database file it belongs to
  None,
  MaxStores,  \* bound: SlateDBs in the object store
  MaxEpoch    \* bound: writers ever opened on one SlateDB

Calls ==
  [op : {"open"}, name : Urls, mode : Modes]
    \cup [op : {"exists", "remove"}, name : Urls]
    \cup [op : {"move"}, name : Urls, target : Urls]

ASSUME NamesAssumption ==
  /\ {"/", "%", "25", "2F", ".wal", ".checkpoint", ".recovery"} \subseteq Tokens
  /\ Urls \subseteq Seq(Tokens) /\ DOMAIN Database \subseteq Seq(Tokens)
  /\ Modes \subseteq [{"read", "write", "create", "overwrite", "append",
                       "nullIfMissing"} -> BOOLEAN]
  /\ None \notin Seq(Tokens) \cup Calls
  /\ \A u \in Urls : FileOf[u] = None \/ FileOf[u] \in DOMAIN Database
  /\ MaxStores \in Nat \ {0} /\ MaxEpoch \in Nat \ {0}

VARIABLES
  stores,   \* the SlateDBs of the object store, by their location
  writers,  \* the epoch of the cached writer, by database group
  call,     \* the call DuckDB makes, or None
  answer    \* what it returned or threw, or None

vars == <<stores, writers, call, answer>>

Init ==
  /\ stores = <<>>
  /\ writers = <<>>
  /\ call = None
  /\ answer = None

----------------------------------------------------------------------------
Prefix == "duckdb_objfs:"                               \* SLATEDB_URI_PREFIX
Root   == <<"duckdb-object-storage">>                   \* DATABASE_PATH

CompanionSuffixes ==
  {<<".wal">>, <<".wal", ".checkpoint">>, <<".wal", ".recovery">>}

(* What names mean to DuckDB.  The file of a URL is what follows the       *)
(* prefix and any number of slashes; a file with a companion's suffix      *)
(* belongs to the database it is named after.                              *)
Means(url, path) ==
  \E n \in 1 .. Len(url) - 1 :
    /\ url[1] = Prefix
    /\ \A i \in 2 .. n : url[i] = "/"
    /\ url[n + 1] # "/"
    /\ path = SubSeq(url, n + 1, Len(url))

BelongsTo(path, database) ==
  /\ \E suffix \in {<<".wal">>, <<".wal", ".checkpoint">>, <<".wal", ".recovery">>} :
       path = database \o suffix
  /\ database # <<>> /\ database[Len(database)] # "/"

ASSUME MeaningAssumption ==
  /\ \A u \in Urls :
       \/ Means(u, FileOf[u])
       \/ /\ FileOf[u] = None
          /\ \A n \in 1 .. Len(u) : ~ Means(u, SubSeq(u, n, Len(u)))
  /\ \A p \in DOMAIN Database :
       \/ Database[p] \in Seq(Tokens) /\ BelongsTo(p, Database[p])
       \/ /\ Database[p] = p
          /\ \A n \in 0 .. Len(p) : ~ BelongsTo(p, SubSeq(p, 1, n))

(* Mutant: two slashes are skipped, whatever follows.                      *)
GetLogicalPathTwoSlashes(url) ==
  IF Len(url) = 0 \/ Head(url) # Prefix \/ Len(url) < 4 THEN None
  ELSE SubSeq(url, 4, Len(url))

(* GetLogicalPath, or None where it throws.                                *)
GetLogicalPath(url) ==
  LET starts == {i \in 2 .. Len(url) : url[i] # "/"}
  IN IF url = <<>> \/ Head(url) # Prefix \/ starts = {} THEN None
     ELSE SubSeq(url, CHOOSE i \in starts : \A j \in starts : i <= j, Len(url))

Stripped(path, suffix) == SubSeq(path, 1, Len(path) - Len(suffix))

(* database_group: companions go with the path without their suffix.       *)
DatabaseGroup(path) ==
  LET matching == {s \in CompanionSuffixes :
                     /\ IsSuffix(s, path)
                     /\ Stripped(path, s) # <<>>
                     /\ Last(Stripped(path, s)) # "/"}
  IN IF matching = {} THEN path
     ELSE Stripped(path, CHOOSE s \in matching : TRUE)

Replace(text, old, new) ==
  FlattenSeq([i \in 1 .. Len(text) |->
                IF text[i] = old THEN new ELSE <<text[i]>>])

(* Mutants: the separator is kept, or escaped before the percent sign.     *)
SlatedbPathNested(group) ==
  Root \o <<"/">> \o Replace(group, "%", <<"%", "25">>)
SlatedbPathSwapped(group) ==
  Root \o <<"/">>
    \o Replace(Replace(group, "/", <<"%", "2F">>), "%", <<"%", "25">>)

(* slatedb_path: where the SlateDB of a group lies.                        *)
SlatedbPath(group) ==
  Root \o <<"/">>
    \o Replace(Replace(group, "%", <<"%", "25">>), "/", <<"%", "2F">>)

(* The same for every path, computed once.                                 *)
Paths     == ({GetLogicalPath(u) : u \in Urls} \ {None}) \cup DOMAIN Database
Groups    == [p \in Paths |-> DatabaseGroup(p)]
Locations == [p \in Paths |-> SlatedbPath(Groups[p])]
Logical   == [u \in Urls |-> GetLogicalPath(u)]

----------------------------------------------------------------------------
(* The error codes of the Rust side, and what ThrowSlateDBError makes of   *)
(* them.                                                                   *)
Thrown(code) == IF code = "InvalidArgument" THEN "invalid" ELSE "io"

Fails(code) == answer' = Thrown(code)

(* A call that neither opens a writer nor changes a file; the reader it    *)
(* needs may fail to open.                                                 *)
Only(value) ==
  /\ answer' = value \/ Fails("SlateDb")
  /\ UNCHANGED <<stores, writers>>

HasWriter(path)      == Groups[path] \in DOMAIN writers
DatabaseExists(path) == Locations[path] \in DOMAIN stores
FilesAt(path)        == IF DatabaseExists(path) THEN stores[Locations[path]].files
                                                ELSE {}

(* write_db finds a writer or opens one: to create the database, or after  *)
(* a reader has found that it exists.                                      *)
WriteDb(path, create) == HasWriter(path) \/ create \/ DatabaseExists(path)

(* The epoch in the manifest, and the one of the call's writer: opening it *)
(* moves the manifest on, a cached one may be older.                       *)
Epoch(path) ==
  LET current == IF DatabaseExists(path) THEN stores[Locations[path]].epoch ELSE 0
  IN IF HasWriter(path) THEN current ELSE current + 1
WriterEpoch(path) ==
  IF HasWriter(path) THEN writers[Groups[path]] ELSE Epoch(path)

With(map, key, value) ==
  [k \in DOMAIN map \cup {key} |-> IF k = key THEN value ELSE map[k]]

(* The manifest of the call's writer is written, and the catalog.          *)
Manifest(path, files) ==
  /\ Epoch(path) <= MaxEpoch
  /\ Cardinality(DOMAIN stores \cup {Locations[path]}) <= MaxStores
  /\ stores' = With(stores, Locations[path], [epoch |-> Epoch(path), files |-> files])

(* What the call leaves behind: its writer, cached, and the catalog.       *)
WithWriter(path, files) ==
  /\ Manifest(path, files)
  /\ writers' = With(writers, Groups[path], WriterEpoch(path))

(* A call that reads the catalog through its writer, also a fenced one,    *)
(* or fails to.                                                            *)
Looks(path, value) ==
  /\ WithWriter(path, FilesAt(path))
  /\ answer' = value \/ Fails("SlateDb")

(* A call that commits a transaction, which only an unfenced writer can.   *)
(* An error may come before the commit or after it.                        *)
Commits(path, files, value) ==
  \/ /\ WithWriter(path, files)
     /\ WriterEpoch(path) = Epoch(path)
     /\ answer' = value \/ Fails("SlateDb")
  \/ /\ WithWriter(path, FilesAt(path))
     /\ Fails("SlateDb")

(* open_writer fails, before or after SlateDB has written the manifest: a  *)
(* database may have been created, or an epoch be gone, with no writer     *)
(* cached.                                                                 *)
NoWriter(path) ==
  /\ Fails("SlateDb")
  /\ UNCHANGED writers
  /\ \/ UNCHANGED stores
     \/ ~HasWriter(path) /\ Manifest(path, FilesAt(path))

----------------------------------------------------------------------------
ConvertOpenFlags(mode) ==
  [read |-> mode.read, write |-> mode.write, append |-> mode.append,
   create |-> mode.create \/ mode.overwrite,
   truncate_existing |-> mode.overwrite]

(* FileOpenFlags::validate                                                 *)
Valid(flags) ==
  /\ flags.read \/ flags.write
  /\ flags.create \/ flags.append => flags.write
  /\ flags.truncate_existing => flags.create

NotFound(mode) == IF mode.nullIfMissing THEN "null" ELSE Thrown("FileNotFound")

(* open_write_handle, with prepare_file_for_open.                          *)
OpenWriteHandle(path, flags, notFound) ==
  IF ~WriteDb(path, flags.create) THEN Only(notFound)
  ELSE \/ NoWriter(path)
       \/ IF path \in FilesAt(path) /\ ~flags.truncate_existing
            THEN Looks(path, "handle")
          ELSE IF flags.create
            THEN Commits(path, FilesAt(path) \cup {path}, "handle")
          ELSE Looks(path, notFound)

(* open_read_handle                                                        *)
OpenReadHandle(path, notFound) ==
  Only(IF path \in FilesAt(path) THEN "handle" ELSE notFound)

OpenFile(path, mode) ==
  LET flags == ConvertOpenFlags(mode)
  IN IF ~Valid(flags) THEN Only(Thrown("InvalidArgument"))
     ELSE IF flags.write THEN OpenWriteHandle(path, flags, NotFound(mode))
     ELSE OpenReadHandle(path, NotFound(mode))

FileExists(path) == Only(IF path \in FilesAt(path) THEN "true" ELSE "false")

RemoveFile(path) ==
  IF ~WriteDb(path, FALSE) THEN Only(Thrown("FileNotFound"))
  ELSE \/ NoWriter(path)
       \/ IF path \in FilesAt(path)
            THEN Commits(path, FilesAt(path) \ {path}, "ok")
            ELSE Looks(path, Thrown("FileNotFound"))

MoveFile(source, target) ==
  IF Groups[source] # Groups[target]
    THEN Only(Thrown("InvalidArgument"))
  ELSE IF ~WriteDb(source, FALSE) THEN Only(Thrown("FileNotFound"))
  ELSE \/ NoWriter(source)
       \/ IF source = target THEN Looks(source, "ok")
          ELSE IF source \in FilesAt(source)
            THEN Commits(source, (FilesAt(source) \ {source}) \cup {target}, "ok")
          ELSE Looks(source, Thrown("FileNotFound"))

(* DuckDB calls the extension.                                             *)
Call(c) ==
  /\ call = None
  /\ call' = c
  /\ UNCHANGED <<stores, writers, answer>>

InProgress(op) == call # None /\ answer = None /\ call.op = op

(* The names of the call, of which each must be one of this file system's. *)
Named(fields) == \A f \in fields : Logical[call[f]] # None
Refused       == answer' = "invalid" /\ UNCHANGED <<stores, writers>>

OpenCall ==
  /\ InProgress("open")
  /\ IF Named({"name"}) THEN OpenFile(Logical[call.name], call.mode)
                        ELSE Refused
  /\ UNCHANGED call

ExistsCall ==
  /\ InProgress("exists")
  /\ IF Named({"name"}) THEN FileExists(Logical[call.name]) ELSE Refused
  /\ UNCHANGED call

RemoveCall ==
  /\ InProgress("remove")
  /\ IF Named({"name"}) THEN RemoveFile(Logical[call.name]) ELSE Refused
  /\ UNCHANGED call

MoveCall ==
  /\ InProgress("move")
  /\ IF Named({"name", "target"})
       THEN MoveFile(Logical[call.name], Logical[call.target])
       ELSE Refused
  /\ UNCHANGED call

Return ==
  /\ answer # None
  /\ call' = None
  /\ answer' = None
  /\ UNCHANGED <<stores, writers>>

(* Another process opens an existing file read-write.                      *)
OtherProcessOpens ==
  /\ \E l \in DOMAIN stores :
       /\ stores[l].files # {}
       /\ stores[l].epoch < MaxEpoch
       /\ stores' = [stores EXCEPT ![l].epoch = @ + 1]
  /\ UNCHANGED <<writers, call, answer>>

(* The process ends, and DuckDB starts again without clients.              *)
Restart ==
  /\ writers' = <<>>
  /\ call' = None
  /\ answer' = None
  /\ UNCHANGED stores

Next ==
  \/ \E c \in Calls : Call(c)
  \/ OpenCall \/ ExistsCall \/ RemoveCall \/ MoveCall
  \/ Return
  \/ OtherProcessOpens
  \/ Restart

Spec == Init /\ [][Next]_vars

----------------------------------------------------------------------------
Files == {FileOf[u] : u \in Urls} \ {None}

(* Every SlateDB holds files DuckDB could have named, each in the one that *)
(* lookups of its name go to; a cached writer has a database, and no epoch *)
(* the manifest has not reached.                                           *)
TypeOK ==
  /\ \A l \in DOMAIN stores :
       /\ stores[l].epoch \in 1 .. MaxEpoch
       /\ stores[l].files \subseteq {p \in Files : Locations[p] = l}
  /\ \A g \in DOMAIN writers :
       /\ SlatedbPath(g) \in DOMAIN stores
       /\ writers[g] \in 1 .. stores[SlatedbPath(g)].epoch
  /\ call \in Calls \cup {None}
  /\ answer \in {None, "handle", "null", "true", "false", "ok", "invalid", "io"}

(* fs.rs, slatedb_path: "Flatten the group so one database's SlateDB never *)
(* nests inside another's": a SlateDB lists and collects what lies below   *)
(* its location, which is never the state of another.                      *)
NeverNests ==
  \A l, k \in DOMAIN stores : ~IsStrictPrefix(l \o <<"/">>, k)

Fenced(p) == HasWriter(p) /\ writers[Groups[p]] # stores[Locations[p]].epoch

(* What a caller can tell of the SlateDBs and their writers.               *)
ExistingFiles    == {p \in Files : p \in FilesAt(p)}
CreatedDatabases == {Database[p] : p \in {q \in Files : DatabaseExists(q)}}
HeldDatabases    == {Database[p] : p \in {q \in Files : HasWriter(q)}}
LostDatabases    == {Database[p] : p \in {q \in Files : Fenced(q)}}

(* DuckDB sees one flat set of files whatever their names contain, and the *)
(* exceptions it expects: groups, locations and escapes keep companions    *)
(* together and databases apart, "so a writer only excludes other writers  *)
(* of the same file" (fs.rs).                                              *)
Virtual == INSTANCE VirtualFiles WITH
  Names   <- Urls,
  files   <- ExistingFiles,
  created <- CreatedDatabases,
  held    <- HeldDatabases,
  lost    <- LostDatabases

ImplementsVirtualFiles == Virtual!Spec
=============================================================================
