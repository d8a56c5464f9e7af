------------------------------ MODULE ByteFile ------------------------------
(***************************************************************************)
(* What a SlateFS file handle promises, without chunks: a file is a size   *)
(* and one byte per position, held in three copies.  `file' is what the    *)
(* open handle shows, `committed' what a handle opened next would show,    *)
(* `durable' what a process restarted after a crash would show.            *)
(*                                                                         *)
(* A byte at or past the size is not part of the file, but it is state: a  *)
(* write that fails part way may leave bytes there (PwriteFails).          *)
(***************************************************************************)
EXTENDS Integers

CONSTANTS
  MaxU64,    \* largest offset
  Byte,      \* values of a byte, 0 among them
  Payloads   \* what may be written: non-empty functions 0 .. n-1 -> Byte

VARIABLES file, committed, durable

vars == <<file, committed, durable>>

Positions == 0 .. (MaxU64 - 1)
Files     == [size : 0 .. MaxU64, bytes : [Positions -> Byte]]
Blank     == [size |-> 0, bytes |-> [p \in Positions |-> 0]]

Init == file = Blank /\ committed = Blank /\ durable = Blank

(* The bytes with the first n bytes of data laid over them at offset.      *)
Overlay(bytes, offset, data, n) ==
  [p \in Positions |-> IF offset <= p /\ p < offset + n
                         THEN data[p - offset] ELSE bytes[p]]

Pwrite(offset, data, len) ==
  /\ offset + len <= MaxU64
  /\ file' = [size  |-> IF offset + len > file.size THEN offset + len
                                                    ELSE file.size,
              bytes |-> Overlay(file.bytes, offset, data, len)]
  /\ UNCHANGED <<committed, durable>>

PwriteFails(offset, data, len) ==
  /\ \E n \in 0 .. len :
        file' = [file EXCEPT !.bytes = Overlay(@, offset, data, n)]
  /\ UNCHANGED <<committed, durable>>

Grow(newSize) ==
  /\ newSize > file.size
  /\ file' = [file EXCEPT !.size = newSize]
  /\ UNCHANGED <<committed, durable>>

Shrink(newSize) ==
  /\ newSize < file.size
  /\ file' = [size  |-> newSize,
              bytes |-> [p \in Positions |-> IF p < newSize THEN file.bytes[p]
                                                            ELSE 0]]
  /\ UNCHANGED <<committed, durable>>

(* The whole file, size and bytes together, becomes visible to others.     *)
Commit == committed' = file /\ UNCHANGED <<file, durable>>

(* What is visible becomes durable.                                        *)
Persist == durable' = committed /\ UNCHANGED <<file, committed>>

(* The handle is dropped with its unsynced changes and opened again.       *)
Discard == file' = committed /\ UNCHANGED <<committed, durable>>

Crash == file' = durable /\ committed' = durable /\ UNCHANGED durable

PayloadLen(data) == CHOOSE n \in 1 .. MaxU64 : DOMAIN data = 0 .. (n - 1)

(* The open file is written or truncated; a call that leaves it as it was  *)
(* is a stutter.                                                           *)
Change ==
  /\ file' # file
  /\ \/ \E newSize \in 0 .. MaxU64 : Grow(newSize) \/ Shrink(newSize)
     \/ \E offset \in Positions, data \in Payloads :
          Pwrite(offset, data, PayloadLen(data))
     \/ \E offset \in Positions, data \in Payloads :
          PwriteFails(offset, data, PayloadLen(data))

Next == Commit \/ Persist \/ Discard \/ Crash \/ Change

Spec == Init /\ [][Next]_vars
=============================================================================
