---------------------------- MODULE MCIoMetrics -----------------------------
(***************************************************************************)
(* Small instances of IoMetrics for TLC.                                   *)
(***************************************************************************)
EXTENDS IoMetrics, TLC

AnyOrder == Permutations(Requests)
=============================================================================
