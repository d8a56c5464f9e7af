---------------------------- MODULE VirtualFiles ----------------------------
(***************************************************************************)
(* What DuckDB is promised when it names files: one flat set of files, of  *)
(* which those of one database (the file and its companions) are kept      *)
(* together.  Only they can be moved onto each other, and only a writer of *)
(* the same database takes a database away from this process.              *)
(***************************************************************************)
CONSTANTS
  Names,      \* what DuckDB calls files
  FileOf,     \* the file a name stands for, or None
  Database,   \* the database every file belongs to
  Modes,      \* ways to open a file
  None

VARIABLES
  files,      \* the files that exist
  created,    \* databases that were ever created
  held,       \* databases this process has opened for writing
  lost,       \* of these, the ones another process has taken over
  call,       \* the call being made, or None
  answer      \* its answer, or None

vars == <<files, created, held, lost, call, answer>>

Calls ==
  [op : {"open"}, name : Names, mode : Modes]
    \cup [op : {"exists", "remove"}, name : Names]
    \cup [op : {"move"}, name : Names, target : Names]

Init ==
  /\ files = {} /\ created = {} /\ held = {} /\ lost = {}
  /\ call = None /\ answer = None

(* A call that changes nothing, or that finds storage out of reach.        *)
Answers(a) ==
  /\ answer' \in {a, "io"}
  /\ UNCHANGED <<files, created, held, lost>>

(* A call that needs the writer of database d and does not get it.  It may *)
(* have created the database, without a file in it.                        *)
NotOpened(d) ==
  /\ answer' = "io"
  /\ created' \in {created, created \cup {d}}
  /\ UNCHANGED <<files, held, lost>>

(* A call that needs the writer of database d, which is this process's     *)
(* from then on, and asks for the files to be newFiles.  An error says     *)
(* nothing of the files, except that a lost database does not change.      *)
Writes(d, newFiles, a) ==
  \/ NotOpened(d)
  \/ /\ held' = held \cup {d}
     /\ created' = created \cup {d}
     /\ files' \in {files, newFiles}
     /\ d \in lost => UNCHANGED files
     /\ answer' \in {a, "io"}
     /\ answer' # "io" => files' = newFiles
     /\ UNCHANGED lost

Creates(mode)  == mode.create \/ mode.overwrite
Sensible(mode) == mode.write \/ (mode.read /\ ~Creates(mode) /\ ~mode.append)
Missing(mode)  == IF mode.nullIfMissing THEN "null" ELSE "io"

(* A handle for reading shows a file that exists; one for writing may      *)
(* create it, or clear it.                                                 *)
Open(p, mode) ==
  LET found == IF p \in files THEN "handle" ELSE Missing(mode)
      d     == Database[p]
  IN IF ~Sensible(mode) THEN Answers("invalid")
     ELSE IF ~mode.write \/ (d \notin created /\ ~Creates(mode)) THEN Answers(found)
     ELSE IF ~Creates(mode) THEN Writes(d, files, found)
     ELSE Writes(d, files \cup {p},
                 IF d \in lost /\ mode.overwrite THEN "io" ELSE "handle")

Exists(p) == Answers(IF p \in files THEN "true" ELSE "false")

Remove(p) ==
  IF Database[p] \notin created THEN Answers("io")
  ELSE Writes(Database[p], files \ {p}, IF p \in files THEN "ok" ELSE "io")

(* Files of different databases are not moved onto each other.             *)
Move(p, q) ==
  LET d == Database[p]
  IN IF Database[q] # d THEN Answers("invalid")
     ELSE IF d \notin created THEN Answers("io")
     ELSE IF p = q THEN Writes(d, files, "ok")
     ELSE IF p \notin files THEN Writes(d, files, "io")
     ELSE Writes(d, (files \ {p}) \cup {q}, "ok")

Begin ==
  /\ call = None
  /\ call' \in Calls
  /\ UNCHANGED <<files, created, held, lost, answer>>

(* A name that stands for no file is refused.                              *)
Perform ==
  LET p == FileOf[call.name]
      q == FileOf[call.target]
  IN /\ call # None /\ answer = None
     /\ IF p = None THEN Answers("invalid")
        ELSE CASE call.op = "open"   -> Open(p, call.mode)
               [] call.op = "exists" -> Exists(p)
               [] call.op = "remove" -> Remove(p)
               [] call.op = "move"   -> IF q = None THEN Answers("invalid")
                                        ELSE Move(p, q)
     /\ UNCHANGED call

Return ==
  /\ answer # None
  /\ call' = None /\ answer' = None
  /\ UNCHANGED <<files, created, held, lost>>

(* Another process opens one of the files for writing.                     *)
TakeOver ==
  /\ \E p \in files : lost' = lost \cup ({Database[p]} \cap held)
  /\ UNCHANGED <<files, created, held, call, answer>>

Restart ==
  /\ held' = {} /\ lost' = {}
  /\ call' = None /\ answer' = None
  /\ UNCHANGED <<files, created>>

Next == Begin \/ Perform \/ Return \/ TakeOver \/ Restart

Spec == Init /\ [][Next]_vars
=============================================================================
