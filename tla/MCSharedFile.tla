---------------------------- MODULE MCSharedFile ----------------------------
(***************************************************************************)
(* Small instances of SharedFile for TLC.  Chunks {0}, {1, 2} and {3}; the *)
(* two writes meet in the middle one.                                      *)
(***************************************************************************)
EXTENDS SharedFile, TLC

OnePayload == {[i \in 0 .. 1 |-> 1]}

WholeFile == {<<0, 4>>}

Slots == Permutations(Handles)
=============================================================================
