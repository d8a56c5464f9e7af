-------------------------- MODULE MCFfiFileHandle ---------------------------
(***************************************************************************)
(* Small instances of FfiFileHandle for TLC.                               *)
(***************************************************************************)
EXTENDS FfiFileHandle
=============================================================================
