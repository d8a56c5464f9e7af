----------------------------- MODULE Namespace -----------------------------
(***************************************************************************)
(* What database_metadata.rs promises about names: every path names at     *)
(* most one file, names change in one step, and a file that is created has *)
(* an id no file ever had.                                                 *)
(***************************************************************************)
CONSTANTS Paths, FileIds, NoFile

VARIABLES
  file,   \* the file every path names
  used    \* the ids files have had

vars == <<file, used>>

Init == file = [p \in Paths |-> NoFile] /\ used = {}

Create(path, id) ==
  /\ file[path] = NoFile
  /\ id \notin used
  /\ file' = [file EXCEPT ![path] = id]
  /\ used' = used \cup {id}

Remove(path) ==
  /\ file[path] # NoFile
  /\ file' = [file EXCEPT ![path] = NoFile]
  /\ UNCHANGED used

(* Replaces what the target named.                                         *)
Move(source, target) ==
  /\ source # target
  /\ file[source] # NoFile
  /\ file' = [file EXCEPT ![source] = NoFile, ![target] = file[source]]
  /\ UNCHANGED used

Next ==
  \/ \E path \in Paths : Remove(path) \/ \E id \in FileIds : Create(path, id)
  \/ \E source, target \in Paths : Move(source, target)

Spec == Init /\ [][Next]_vars
=============================================================================
