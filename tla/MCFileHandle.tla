---------------------------- MODULE MCFileHandle ----------------------------
(***************************************************************************)
(* Small instances of FileHandle for TLC.                                  *)
(***************************************************************************)
EXTENDS FileHandle

(* A buffer whose bytes differ, so that one copied from the wrong place of *)
(* the buffer shows.                                                       *)
Alternating == [i \in 0 .. 2 |-> IF i = 1 THEN 2 ELSE 1]

ReadWrite  == [read |-> TRUE,  write |-> TRUE,  append |-> FALSE]
AppendOnly == [read |-> FALSE, write |-> TRUE,  append |-> TRUE]

OneMode  == {ReadWrite}
TwoModes == {ReadWrite, AppendOnly}
OnePayload == {Alternating}
SomeTargets == {0, 1, 2, 4}
FewTargets == {1, 2}
=============================================================================
