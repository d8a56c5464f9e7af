-------------------------- MODULE MCSlateDbClients --------------------------
(***************************************************************************)
(* Small instances of SlateDbClients for TLC.                              *)
(***************************************************************************)
EXTENDS SlateDbClients

CONSTANTS p1, p2, t1, t2, t3

(* Two threads of one process and one of another.                          *)
TwoProcesses == [t \in {t1, t2, t3} |-> IF t = t3 THEN p2 ELSE p1]
OneEach      == [t \in {t1, t3} |-> IF t = t3 THEN p2 ELSE p1]
=============================================================================
