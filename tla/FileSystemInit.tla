--------------------------- MODULE FileSystemInit ---------------------------
(***************************************************************************)
(* The extension's file system object (slatedb_file_system.cpp) and the    *)
(* duckdb_objfs_* settings (slatedb_config_utils.cpp).                     *)
(*                                                                         *)
(* The first file operation of any connection reads the settings, creates  *)
(* the Rust file system from them and stores a snapshot of them, all under *)
(* initialization_lock.  A SET statement runs the set callback, which      *)
(* compares the new value with the snapshot without taking that lock, and  *)
(* DuckDB stores the value afterwards; so SET and initialization           *)
(* interleave.  A SET that the callback rejects throws and changes nothing *)
(* and is therefore no action.                                             *)
(*                                                                         *)
(* Of the eight cache options, "path", "size" and "part" are those of the  *)
(* persistent cache that the Rust side checks, and "memory" stands for     *)
(* each of the other five, of which it refuses no value: they are read,    *)
(* frozen and compared one by one in the same way.  The "" of an Option (a *)
(* number or a Boolean) is NULL; in the others "" is both NULL and the     *)
(* empty string, which the code never tells apart there.  A secret of      *)
(* DuckDB's secret manager is named by a text, and SecretOf says what is   *)
(* in it.                                                                  *)
(***************************************************************************)
EXTENDS Naturals, Sequences

CONSTANTS
  Connections,    \* client connections, each running one statement at a time
  Raw,            \* Raw[n]: values of setting n as one may write them
  LowerCase,      \* StringUtil::Lower where it differs from its argument
  Openers,        \* who opens: "client", "database" or "none" (no opener)
  Settable,       \* the SETs they run: <<connection, scope, name, raw value>>
  NumberOf,       \* NumberOf[text]: the number of bytes a text is
  SecretOf,       \* SecretOf[text]: the keys of a secret, "" where unset
  None, Unset

Options == {"memory", "size", "part"}
Names   == {"backend", "bucket", "root", "path"} \cup Options
Fields  == Names \cup {"secret"}
Scopes  == {"global"} \cup Connections

(* The defaults of SlateDBBackend and of CacheInitializationConfig.        *)
DefaultLocalRoot == ".duckdb_objfs"
DefaultS3Root    == "duckdb_objfs"

Defaults == [backend |-> "local", bucket |-> "", root |-> "", path |-> "",
             memory |-> "512MiB", size |-> "16GiB", part |-> "4MiB"]

Texts == (UNION {Raw[n] : n \in Names})
           \cup {LowerCase[s] : s \in DOMAIN LowerCase}
           \cup {"", "local", DefaultLocalRoot, DefaultS3Root}
           \cup {Defaults[n] : n \in Options}

Settings == [Names -> Texts \cup {Unset}]
Drafts   == [Fields -> Texts \cup DOMAIN SecretOf \cup {Unset}]

ASSUME RawAssumption ==
  /\ DOMAIN Raw = Names
  /\ Openers \subseteq {"client", "database", "none"}
  /\ Settable \subseteq {t \in Connections \X Scopes \X Names \X Texts :
                          t[2] \in {t[1], "global"} /\ t[4] \in Raw[t[3]]}
  /\ None \notin Connections \cup Drafts \cup Texts
  /\ Unset \notin Texts \cup DOMAIN SecretOf

(* Nothing but "" lower-cases to "", and lower case stays as it is.        *)
ASSUME LowerCaseAssumption ==
  /\ \A s \in DOMAIN LowerCase :
       /\ LowerCase[s] = "" <=> s = ""
       /\ LowerCase[s] \in DOMAIN LowerCase => LowerCase[LowerCase[s]] = LowerCase[s]
  /\ "local" \notin DOMAIN LowerCase

ASSUME NumberAssumption ==
  /\ \A n \in {"size", "part"} :
       (Raw[n] \ {""}) \cup {Defaults[n]} \subseteq DOMAIN NumberOf
  /\ \A text \in DOMAIN NumberOf : NumberOf[text] \in Nat

ASSUME SecretAssumption ==
  /\ "" \in DOMAIN SecretOf
  /\ \A text \in DOMAIN SecretOf, key \in {"key_id", "secret", "session_token"} :
       SecretOf[text][key] # None

VARIABLES
  value,      \* value[s][n]: setting n as stored in scope s
  secret,     \* the S3 secret in the secret manager, "" when there is none
  tempDir,    \* where the buffer manager spills: "local" or "objfs"
  lock,       \* holder of initialization_lock
  impl,       \* the configuration of the created file system, or None
  frozen,     \* FrozenSlateDBSettings of the object cache, or None
  pc,         \* pc[c]: what connection c is doing
  arg,        \* arg[c]: the SET statement it runs
  opener,     \* opener[c]: the opener of its file operation
  draft       \* draft[c]: the settings it has read so far

vars == <<value, secret, tempDir, lock, impl, frozen, pc, arg, opener, draft>>

NoArg     == [scope |-> "global", name |-> "backend", raw |-> ""]
Nothing   == [n \in Fields |-> Unset]

Init ==
  /\ value = [s \in Scopes |-> IF s = "global" THEN Defaults
                                             ELSE [n \in Names |-> Unset]]
  /\ secret = ""
  /\ tempDir \in {"local", "objfs"}
  /\ lock = None /\ impl = None /\ frozen = None
  /\ pc = [c \in Connections |-> "idle"]
  /\ arg = [c \in Connections |-> NoArg]
  /\ opener = [c \in Connections |-> "client"]
  /\ draft = [c \in Connections |-> Nothing]

-----------------------------------------------------------------------------
(* FileOpener::TryGetCurrentSetting: a client sees its session's value and *)
(* then the global one, a database opener the global one, no opener none.  *)
CurrentSetting(c, o, n) ==
  IF n = "secret" THEN secret
  ELSE IF o = "none" THEN ""
  ELSE IF o = "client" /\ value[c][n] # Unset THEN value[c][n]
  ELSE value["global"][n]

Lower(s) == IF s \in DOMAIN LowerCase THEN LowerCase[s] ELSE s

BackendOf(raw) == IF raw = "" THEN "local" ELSE Lower(raw)

RootOf(raw, backend) ==
  IF raw # "" \/ backend \notin {"local", "s3"} THEN raw
  ELSE IF backend = "s3" THEN DefaultS3Root ELSE DefaultLocalRoot

(* The settings ReadInitializationConfig reads, in order: what follows the *)
(* cache options depends on the backend.                                   *)
ReadOrder(backend) ==
  IF backend = "local"
    THEN <<"backend", "memory", "path", "size", "part", "root">>
  ELSE IF backend = "s3"
    THEN <<"backend", "memory", "path", "size", "part", "bucket", "root", "secret">>
  ELSE <<"backend", "memory", "path", "size", "part">>

FieldsOf(backend) == {ReadOrder(backend)[i] : i \in 1 .. Len(ReadOrder(backend))}

NextToRead(d) ==
  IF d["backend"] = Unset THEN {"backend"}
  ELSE LET order == ReadOrder(d["backend"])
       IN  {order[i] : i \in {j \in 1 .. Len(order) :
              /\ d[order[j]] = Unset
              /\ \A k \in 1 .. (j - 1) : d[order[k]] # Unset}}

(* What is kept of a setting once it has been read.                        *)
ReadValue(d, n, raw) ==
  IF n = "backend" THEN BackendOf(raw)
  ELSE IF n = "root" THEN RootOf(raw, d["backend"])
  ELSE IF n \in Options /\ raw = "" THEN Defaults[n]
  ELSE raw

-----------------------------------------------------------------------------
(* What the Rust side makes of a configuration: None is an error.          *)

(* optional_string                                                         *)
OptionalString(text) == IF text = "" THEN None ELSE text

(* parse_cache_config: a disk cache has room, in parts of whole KiB.       *)
ParseCacheConfig(d) ==
  LET path == OptionalString(d["path"])
      size == NumberOf[d["size"]]
      part == NumberOf[d["part"]]
  IN IF path # None /\ (size = 0 \/ part = 0 \/ part % 1024 # 0) THEN None
     ELSE [path |-> path, size |-> size]

(* require_s3_config: the keys of the secret that are set.                 *)
RequireS3Config(d) ==
  LET keys == SecretOf[d["secret"]]
  IN [bucket |-> d["bucket"], root |-> OptionalString(d["root"]),
      key_id |-> OptionalString(keys.key_id),
      secret |-> OptionalString(keys.secret),
      session_token |-> OptionalString(keys.session_token),
      virtual_host_style |-> keys.url_style = "vhost"]

Unsigned == [key_id |-> None, secret |-> None, session_token |-> None]

(* Mutant: one half of the credentials will do.                            *)
BuildS3OperatorHalf(s3) ==
  IF s3.bucket = "" \/ (s3.session_token # None /\ s3.key_id = None) THEN None
  ELSE [signature |-> IF s3.key_id # None /\ s3.secret # None
                        THEN [k \in DOMAIN Unsigned |-> s3[k]] ELSE Unsigned,
        virtual_host_style |-> s3.virtual_host_style]

(* build_s3_operator: how the requests are signed and addressed.           *)
BuildS3Operator(s3) ==
  IF \/ s3.bucket = ""
     \/ (s3.key_id # None) # (s3.secret # None)
     \/ s3.session_token # None /\ s3.key_id = None
    THEN None
  ELSE [signature |-> IF s3.key_id # None /\ s3.secret # None
                        THEN [k \in DOMAIN Unsigned |-> s3[k]] ELSE Unsigned,
        virtual_host_style |-> s3.virtual_host_style]

(* The storage of a backend; an unsupported one has been thrown out by     *)
(* ReadInitializationConfig.                                               *)
BuildOperator(d) ==
  IF d["backend"] = "s3" THEN BuildS3Operator(RequireS3Config(d))
  ELSE IF d["backend"] = "memory" \/ (d["backend"] = "local" /\ d["root"] # "")
    THEN [signature |-> Unsigned, virtual_host_style |-> FALSE]
  ELSE None

(* object_store_cache_options                                              *)
ObjectStoreCacheOptions(k) ==
  IF k.path = None THEN [root_folder |-> None, max_cache_size |-> None]
  ELSE [root_folder |-> k.path, max_cache_size |-> k.size]

(* slatedb_fs_create_* and open_with_cache_config.                         *)
CreateFileSystem(d) ==
  LET cache == ParseCacheConfig(d)
      store == BuildOperator(d)
  IN IF cache = None \/ store = None THEN None
     ELSE [signature |-> store.signature, disk |-> ObjectStoreCacheOptions(cache)]

-----------------------------------------------------------------------------
(* The set callback's view of a new value (CheckFrozenSlateDBSetting).     *)
Effective(n, raw) ==
  IF n = "backend" THEN (IF Lower(raw) = "" THEN "local" ELSE Lower(raw))
  ELSE IF n = "root" THEN RootOf(raw, frozen["backend"])
  ELSE raw

Accepted(n, raw) ==
  IF frozen = None THEN TRUE ELSE Effective(n, raw) = frozen[n]

-----------------------------------------------------------------------------
(* SET [GLOBAL] name = raw: the set callback accepts the new value.        *)
SetCheck(c, scope, n, raw) ==
  /\ pc[c] = "idle"
  /\ Accepted(n, raw)
  /\ pc' = [pc EXCEPT ![c] = "set"]
  /\ arg' = [arg EXCEPT ![c] = [scope |-> scope, name |-> n, raw |-> raw]]
  /\ UNCHANGED <<value, secret, tempDir, lock, impl, frozen, opener, draft>>

(* DuckDB stores the value after the callback has returned.                *)
SetStore(c) ==
  /\ pc[c] = "set"
  /\ value' = [value EXCEPT ![arg[c].scope][arg[c].name] = arg[c].raw]
  /\ pc' = [pc EXCEPT ![c] = "idle"]
  /\ arg' = [arg EXCEPT ![c] = NoArg]
  /\ UNCHANGED <<secret, tempDir, lock, impl, frozen, opener, draft>>

(* OpenFile, FileExists, RemoveFile or MoveFile asks for the file system.  *)
FileOperation(c, o) ==
  /\ pc[c] = "idle"
  /\ pc' = [pc EXCEPT ![c] = "wait"]
  /\ opener' = [opener EXCEPT ![c] = o]
  /\ UNCHANGED <<value, secret, tempDir, lock, impl, frozen, arg, draft>>

(* The operation goes on, or throws, without the lock.                     *)
Returns(c) ==
  /\ pc' = [pc EXCEPT ![c] = "idle"]
  /\ opener' = [opener EXCEPT ![c] = "client"]
  /\ draft' = [draft EXCEPT ![c] = Nothing]

EnsureTemporaryFilesStayLocal(c) ==
  tempDir' = IF opener[c] = "none" THEN tempDir ELSE "local"

(* Mutant: the temporary directory is only looked at on initialization.    *)
UseFileSystemAsIs(c) ==
  /\ pc[c] = "wait"
  /\ lock = None
  /\ impl # None
  /\ Returns(c)
  /\ UNCHANGED <<value, secret, tempDir, lock, impl, frozen, arg>>

(* GetOrCreateFileSystem when the file system exists.                      *)
UseFileSystem(c) ==
  /\ pc[c] = "wait"
  /\ lock = None
  /\ impl # None
  /\ EnsureTemporaryFilesStayLocal(c)
  /\ Returns(c)
  /\ UNCHANGED <<value, secret, lock, impl, frozen, arg>>

(* Mutant: initialization does not wait for the lock.                      *)
BeginInitializationUnlocked(c) ==
  /\ pc[c] = "wait"
  /\ impl = None
  /\ EnsureTemporaryFilesStayLocal(c)
  /\ lock' = c
  /\ pc' = [pc EXCEPT ![c] = "read"]
  /\ draft' = [draft EXCEPT ![c] = Nothing]
  /\ UNCHANGED <<value, secret, impl, frozen, arg, opener>>

(* GetOrCreateFileSystem when it has to create it.                         *)
BeginInitialization(c) ==
  /\ pc[c] = "wait"
  /\ lock = None
  /\ impl = None
  /\ EnsureTemporaryFilesStayLocal(c)
  /\ lock' = c
  /\ pc' = [pc EXCEPT ![c] = "read"]
  /\ draft' = [draft EXCEPT ![c] = Nothing]
  /\ UNCHANGED <<value, secret, impl, frozen, arg, opener>>

(* GetRequiredSetting finds no bucket, or ReadS3InitializationConfig a url *)
(* style it does not know.                                                 *)
Rejects(n, raw) ==
  \/ n = "bucket" /\ raw = ""
  \/ n = "secret" /\ SecretOf[raw].url_style \notin {"", "path", "vhost"}

(* One GetOptionalSetting / GetSettingOrDefault / GetRequiredSetting, or   *)
(* one lookup of the secret, which the reader of its keys keeps.           *)
ReadSetting(c) ==
  /\ pc[c] = "read"
  /\ \E n \in NextToRead(draft[c]) :
       LET raw == CurrentSetting(c, opener[c], n)
       IN  /\ ~ Rejects(n, raw)
           /\ draft' = [draft EXCEPT ![c][n] = ReadValue(draft[c], n, raw)]
  /\ UNCHANGED <<value, secret, tempDir, lock, impl, frozen, pc, arg, opener>>

ReadFails(c) ==
  \E n \in NextToRead(draft[c]) : Rejects(n, CurrentSetting(c, opener[c], n))

(* slatedb_fs_create_* may fail, for the storage or for the values it is   *)
(* given; an unsupported backend never gets there.                         *)
CreateMayFail(c) == NextToRead(draft[c]) = {}

(* Mutant: what failed is tried again, for as long as it fails.            *)
InitializationFailsRetries(c) ==
  /\ pc[c] = "read"
  /\ ReadFails(c) \/ CreateMayFail(c)
  /\ lock' = None
  /\ pc' = [pc EXCEPT ![c] = "wait"]
  /\ draft' = [draft EXCEPT ![c] = Nothing]
  /\ UNCHANGED <<value, secret, tempDir, impl, frozen, arg, opener>>

(* GetOrCreateFileSystem throws.  The lock guard releases the lock.        *)
InitializationFails(c) ==
  /\ pc[c] = "read"
  /\ ReadFails(c) \/ CreateMayFail(c)
  /\ lock' = None
  /\ Returns(c)
  /\ UNCHANGED <<value, secret, tempDir, impl, frozen, arg>>

(* Initialize: slatedb_fs_create_* with the settings read.                 *)
Initialize(c) ==
  /\ pc[c] = "read"
  /\ NextToRead(draft[c]) = {}
  /\ CreateFileSystem(draft[c]) # None
  /\ impl' = draft[c]
  /\ pc' = [pc EXCEPT ![c] = "freeze"]
  /\ UNCHANGED <<value, secret, tempDir, lock, frozen, arg, opener, draft>>

(* Mutant: the snapshot reads the settings again.                          *)
SnapshotReread(c, d) ==
  [n \in Names |->
     IF n = "bucket" /\ d["backend"] # "s3" THEN ""
     ELSE ReadValue(d, n, CurrentSetting(c, opener[c], n))]

(* The snapshot FreezeSettingsSnapshot takes of a configuration d: the     *)
(* bucket only of an S3 one, and the root of an in-memory one, which does  *)
(* not use it, as it is set now.                                           *)
Snapshot(c, d) ==
  [n \in Names |->
     IF n = "bucket" THEN (IF d["backend"] = "s3" THEN d[n] ELSE "")
     ELSE IF n = "root" /\ d["backend"] = "memory"
       THEN CurrentSetting(c, opener[c], n)
     ELSE d[n]]

(* FreezeSettingsSnapshot, which stores nothing without a database, and    *)
(* the return of GetOrCreateFileSystem.                                    *)
FreezeSettingsSnapshot(c) ==
  /\ pc[c] = "freeze"
  /\ frozen' = IF opener[c] = "none" THEN frozen ELSE Snapshot(c, impl)
  /\ lock' = None
  /\ Returns(c)
  /\ UNCHANGED <<value, secret, tempDir, impl, arg>>

(* SET temp_directory to a place on the object file system.                *)
SetTemporaryDirectory ==
  /\ tempDir' = "objfs"
  /\ UNCHANGED <<value, secret, lock, impl, frozen, pc, arg, opener, draft>>

(* CREATE OR REPLACE SECRET, or DROP SECRET.                               *)
CreateSecret(text) ==
  /\ secret' = text
  /\ UNCHANGED <<value, tempDir, lock, impl, frozen, pc, arg, opener, draft>>

InitializationStep(c) ==
  \/ BeginInitialization(c) \/ ReadSetting(c) \/ InitializationFails(c)
  \/ Initialize(c) \/ FreezeSettingsSnapshot(c)

Next ==
  \/ \E text \in DOMAIN SecretOf \ {secret} : CreateSecret(text)
  \/ SetTemporaryDirectory
  \/ \E c \in Connections :
       \/ \E t \in {s \in Settable : s[1] = c} : SetCheck(c, t[2], t[3], t[4])
       \/ SetStore(c)
       \/ \E o \in Openers : FileOperation(c, o)
       \/ UseFileSystem(c)
       \/ InitializationStep(c)

Spec == Init /\ [][Next]_vars

(* Statements and system calls run on, and the mutex is handed to every    *)
(* waiter sooner or later.                                                 *)
Fairness ==
  \A c \in Connections :
    /\ WF_vars(SetStore(c))
    /\ SF_vars(UseFileSystem(c) \/ BeginInitialization(c))
    /\ WF_vars(ReadSetting(c) \/ InitializationFails(c) \/ Initialize(c))
    /\ WF_vars(FreezeSettingsSnapshot(c))

FairSpec == Spec /\ Fairness

-----------------------------------------------------------------------------
(* Every variable has its type; the lock is held exactly by the connection *)
(* that initializes.                                                       *)
TypeOK ==
  /\ value \in [Scopes -> Settings]
  /\ \A n \in Names : value["global"][n] # Unset
  /\ secret \in DOMAIN SecretOf
  /\ tempDir \in {"local", "objfs"}
  /\ lock \in Connections \cup {None}
  /\ impl \in Drafts \cup {None}
  /\ frozen \in [Names -> Texts] \cup {None}
  /\ pc \in [Connections -> {"idle", "set", "wait", "read", "freeze"}]
  /\ arg \in [Connections -> [scope : Scopes, name : Names, raw : Texts]]
  /\ opener \in [Connections -> {"client", "database", "none"}]
  /\ draft \in [Connections -> Drafts]
  /\ \A c \in Connections : pc[c] \in {"read", "freeze"} <=> lock = c

(* The configuration a fresh database instance would read if it were given *)
(* the frozen settings with n set to raw.                                  *)
Rebuilt(n, raw) ==
  LET now     == [frozen EXCEPT ![n] = raw]
      backend == BackendOf(now["backend"])
      d       == [Nothing EXCEPT !["backend"] = backend]
  IN  [m \in Names |-> IF m \in FieldsOf(backend) THEN ReadValue(d, m, now[m])
                                                 ELSE Unset]

Used(n) == impl[n] # Unset

(* The set callback (CheckFrozenSlateDBSetting) and the reader of settings *)
(* (ReadInitializationConfig) agree on what a value means, even when the   *)
(* settings changed while they were being read: a value that the callback  *)
(* accepts after the freeze is one from which the running file system      *)
(* would have been created, and one that it rejects, of a setting in use,  *)
(* would have created another: a different spelling, or a default left     *)
(* out, is no change.  The one exception is a number or a Boolean that is  *)
(* NULL: the callback rejects it, the reader replaces it by its default.   *)
CallbackAgrees ==
  frozen # None =>
    \A n \in Names : \A raw \in Raw[n] :
      LET same == Rebuilt(n, raw) = [m \in Names |-> impl[m]]
          nullOption == n \in Options /\ raw = ""
      IN  IF Accepted(n, raw) THEN same ELSE Used(n) /\ ~ nullOption => ~ same

(* A file system that was created works with all it was configured with:   *)
(* every credential of the S3 secret signs its requests (a secret that     *)
(* holds half of them is an error, never a reason to send requests         *)
(* unsigned), and the disk cache lies where it was put and has a limit.    *)
CreatedAsConfigured ==
  impl # None =>
    LET fs == CreateFileSystem(impl)
    IN  /\ impl["backend"] = "s3" =>
             \A key \in DOMAIN Unsigned :
               SecretOf[impl["secret"]][key] # "" =>
                 fs.signature[key] = SecretOf[impl["secret"]][key]
        /\ impl["path"] # "" =>
             /\ fs.disk.root_folder = impl["path"]
             /\ fs.disk.max_cache_size = NumberOf[impl["size"]]
             /\ fs.disk.max_cache_size > 0

(* Numbers and SET statements in progress have values a SET gave.          *)
SettingsWereSet ==
  /\ \A s \in Scopes, n \in {"size", "part"} :
       value[s][n] \in Raw[n] \cup {Defaults[n], Unset}
  /\ \A c \in Connections : pc[c] = "set" => arg[c].raw \in Raw[arg[c].name]

(* A configuration, read in part or as a whole, has only what its backend  *)
(* needs, in the form in which it is used.                                 *)
ReadAsUsed(d) ==
  /\ d \in Drafts
  /\ \A n \in Names : d[n] \in Texts \cup {Unset}
  /\ d["secret"] \in DOMAIN SecretOf \cup {Unset}
  /\ d["backend"] = Unset => d = Nothing
  /\ d["backend"] # Unset =>
       /\ d["backend"] # "" /\ Lower(d["backend"]) = d["backend"]
       /\ \A n \in Fields \ FieldsOf(d["backend"]) : d[n] = Unset
       /\ d["backend"] \in {"local", "s3"} => d["root"] # ""
  /\ \A n \in Options : d[n] # ""
  /\ \A n \in {"size", "part"} : d[n] \in DOMAIN NumberOf \cup {Unset}

(* The file system exists once and for all, and from then on the settings  *)
(* it was created from are the frozen ones, if any are.                    *)
CreatedOnce ==
  /\ impl # None => /\ ReadAsUsed(impl)
                    /\ NextToRead(impl) = {}
                    /\ CreateFileSystem(impl) # None
  /\ \A c \in Connections : /\ ReadAsUsed(draft[c])
                            /\ pc[c] = "read" => impl = None
                            /\ pc[c] = "freeze" => impl # None
  /\ frozen # None =>
       /\ impl # None
       /\ \A n \in {"backend", "path"} \cup Options : frozen[n] = impl[n]
       /\ frozen["bucket"] = IF impl["backend"] = "s3" THEN impl["bucket"] ELSE ""
       /\ impl["backend"] # "memory" => frozen["root"] = impl["root"]

(* The inductive invariant behind the safety properties of this module.    *)
Inv == TypeOK /\ SettingsWereSet /\ CreatedOnce

(* README.md: the settings "are read once when the filesystem is           *)
(* initialized ...  changing any of them afterwards fails with an error    *)
(* instead of being silently ignored".  A SET that the callback accepts    *)
(* once the file system exists asks for what the file system already uses. *)
LateChangesFail ==
  [][\A c \in Connections :
       impl # None /\ pc[c] = "idle" /\ pc'[c] = "set" =>
         LET n == arg'[c].name
         IN  Used(n) => ReadValue(impl, n, arg'[c].raw) = impl[n]]_vars

(* Every file operation of a database, not only the first, moves a         *)
(* temporary directory off the object file system before it goes on.       *)
TemporaryFilesStayLocal ==
  [][\A c \in Connections :
       pc[c] = "wait" /\ pc'[c] # "wait" /\ opener[c] # "none"
         => tempDir' = "local"]_vars

(* Failed initializations included, a file operation gets its file system  *)
(* or its error: the lock is not left behind and no failure is retried for *)
(* as long as the settings are wrong.                                      *)
OperationsReturn ==
  \A c \in Connections : pc[c] = "wait" ~> pc[c] = "idle"

=============================================================================
