--------------------------- MODULE FfiFileHandle ----------------------------
(***************************************************************************)
(* One open file as the threads of DuckDB share it: the C++ handle         *)
(* (slatedb_file_handle.cpp), the C ABI (ffi.rs) and the readers-writer    *)
(* lock in between.  What the calls do to the file is FileHandle's matter; *)
(* here a file is a version that a changing call takes through a half-way  *)
(* state, and a flag for data that is not synced.                          *)
(*                                                                         *)
(*   pread  slatedb_file_pread, _get_size, _get_position: the lock shared  *)
(*   pwrite slatedb_file_pwrite, _write, _truncate, _read, _seek: exclusive*)
(*   sync   slatedb_file_sync: exclusive                                   *)
(*   close  SlateDBFileHandle::Close and slatedb_file_close: exclusive     *)
(*                                                                         *)
(* A call enters, waits for the lock, runs and returns a code; when that   *)
(* is an error its caller fetches the message of its thread and throws.    *)
(* A Rust panic unwinds out of the lock guard, is caught by ffi_result and *)
(* poisons a lock that was held exclusively.                               *)
(***************************************************************************)
EXTENDS Naturals

CONSTANTS
  Threads, NoThread,
  Called,         \* the operations they call
  MaxVersion

Ops    == {"pread", "pwrite", "sync", "close"}
Errors == {"null", "closed", "poisoned", "io", "panic"}

ASSUME ThreadsAssumption ==
  /\ NoThread \notin Threads /\ MaxVersion \in Nat
  /\ Called \subseteq Ops

VARIABLES
  pointer,    \* SlateDBFileHandle::impl: "live" or "null"
  inner,      \* the Option inside the lock: "open" (Some) or "closed" (None)
  readers,    \* threads that hold the lock shared
  writer,     \* the thread that holds it exclusively
  poisoned,   \* the lock is poisoned
  broken,     \* a panic left the file half-way through a change
  version, dirty,
  pc, op,     \* per thread: where it is in which call
  seen,       \* per thread: the version when it got the lock
  lastError,  \* LAST_ERROR_MESSAGE, thread-local
  failed      \* per thread: the error its call returned

vars == <<pointer, inner, readers, writer, poisoned, broken, version, dirty,
          pc, op, seen, lastError, failed>>
lockVars == <<readers, writer>>
fileVars == <<version, dirty, broken>>

(* slatedb_fs_open_file returned a handle.                                 *)
Init ==
  /\ pointer = "live" /\ inner = "open"
  /\ readers = {} /\ writer = NoThread
  /\ poisoned = FALSE /\ broken = FALSE
  /\ version = 0 /\ dirty = FALSE
  /\ pc = [t \in Threads |-> "idle"]
  /\ op = [t \in Threads |-> "pread"]
  /\ seen = [t \in Threads |-> 0]
  /\ lastError = [t \in Threads |-> "none"]
  /\ failed = [t \in Threads |-> "none"]

-----------------------------------------------------------------------------
(* Mutant: pwrite takes the lock shared.                                   *)
SharedAlsoPwrite(o) == o \in {"pread", "pwrite"}

(* The calls that take the lock shared.                                    *)
Shared(o) == o = "pread"

(* with_shared_file_handle / with_exclusive_file_handle get the lock.      *)
Available(t) ==
  /\ writer = NoThread
  /\ Shared(op[t]) \/ readers = {}

Unlock(t) ==
  /\ readers' = readers \ {t}
  /\ writer' = IF writer = t THEN NoThread ELSE writer

(* ffi_result: code 0.  What the call was and has seen is forgotten.       *)
ReturnsOk(t) ==
  /\ pc' = [pc EXCEPT ![t] = "idle"]
  /\ seen' = [seen EXCEPT ![t] = 0]
  /\ op' = [op EXCEPT ![t] = "pread"]
  /\ UNCHANGED <<lastError, failed>>

(* Mutant: one message for all threads.                                    *)
ReturnsErrorToAll(t, e) ==
  /\ pc' = [pc EXCEPT ![t] = "report"]
  /\ seen' = [seen EXCEPT ![t] = 0]
  /\ op' = [op EXCEPT ![t] = "pread"]
  /\ lastError' = [s \in Threads |-> e]
  /\ failed' = [failed EXCEPT ![t] = e]

(* ffi_result and store_error: an error code, its message kept for the     *)
(* thread.                                                                 *)
ReturnsError(t, e) ==
  /\ pc' = [pc EXCEPT ![t] = "report"]
  /\ seen' = [seen EXCEPT ![t] = 0]
  /\ op' = [op EXCEPT ![t] = "pread"]
  /\ lastError' = [lastError EXCEPT ![t] = e]
  /\ failed' = [failed EXCEPT ![t] = e]

(* ThrowSlateDBError fetches the message of the thread and throws.  The    *)
(* message stays where it is until another error of the thread replaces    *)
(* it, and nobody looks at it before; here it is forgotten.                *)
Report(t) ==
  /\ pc[t] = "report"
  /\ pc' = [pc EXCEPT ![t] = "idle"]
  /\ failed' = [failed EXCEPT ![t] = "none"]
  /\ lastError' = [lastError EXCEPT ![t] = "none"]
  /\ UNCHANGED <<pointer, inner, lockVars, poisoned, fileVars, op, seen>>

-----------------------------------------------------------------------------
Call(t, o) ==
  /\ pc[t] = "idle"
  /\ pc' = [pc EXCEPT ![t] = "enter"]
  /\ op' = [op EXCEPT ![t] = o]
  /\ UNCHANGED <<pointer, inner, lockVars, poisoned, fileVars, seen,
                 lastError, failed>>

(* After a successful Close: it returns at once when called again, and     *)
(* every other call passes a null pointer and is refused.                  *)
NullPointer(t) ==
  /\ pc[t] = "enter"
  /\ pointer = "null"
  /\ \/ op[t] = "close" /\ ReturnsOk(t)
     \/ op[t] # "close" /\ ReturnsError(t, "null")
  /\ UNCHANGED <<pointer, inner, lockVars, poisoned, fileVars>>

(* Mutant: a poisoned lock is used like any other.                         *)
RefusesIgnoringPoison(t) ==
  IF inner = "closed" /\ op[t] # "close" THEN {"closed"} ELSE {}

(* The lock is poisoned, or the file behind it closed.                     *)
Refuses(t) ==
  IF poisoned THEN {"poisoned"}
  ELSE IF inner = "closed" /\ op[t] # "close" THEN {"closed"}
  ELSE {}

(* Mutant: a poisoned lock is tried again until it is not poisoned.        *)
RefusedRetries(t) ==
  /\ pc[t] = "enter" /\ pointer = "live"
  /\ Available(t)
  /\ \/ poisoned /\ UNCHANGED vars
     \/ /\ ~ poisoned
        /\ \E e \in Refuses(t) : ReturnsError(t, e)
        /\ UNCHANGED <<pointer, inner, lockVars, poisoned, fileVars>>

Refused(t) ==
  /\ pc[t] = "enter" /\ pointer = "live"
  /\ Available(t)
  /\ \E e \in Refuses(t) : ReturnsError(t, e)
  /\ UNCHANGED <<pointer, inner, lockVars, poisoned, fileVars>>

(* slatedb_file_close of a closed handle is no error.                      *)
CloseAgain(t) ==
  /\ pc[t] = "enter" /\ pointer = "live"
  /\ Available(t)
  /\ Refuses(t) = {} /\ inner = "closed"
  /\ ReturnsOk(t)
  /\ UNCHANGED <<pointer, inner, lockVars, poisoned, fileVars>>

Enter(t) ==
  /\ pc[t] = "enter" /\ pointer = "live"
  /\ Available(t)
  /\ Refuses(t) = {} /\ inner = "open"
  /\ readers' = IF Shared(op[t]) THEN readers \cup {t} ELSE readers
  /\ writer' = IF Shared(op[t]) THEN writer ELSE t
  /\ seen' = [seen EXCEPT ![t] = version]
  /\ pc' = [pc EXCEPT ![t] = "inside"]
  /\ UNCHANGED <<pointer, inner, poisoned, fileVars, op, lastError, failed>>

-----------------------------------------------------------------------------
(* The operation, run with block_on while the lock is held.                *)
PreadReturns(t) ==
  /\ pc[t] = "inside" /\ op[t] = "pread"
  /\ Unlock(t)
  /\ ReturnsOk(t)
  /\ UNCHANGED <<pointer, inner, poisoned, fileVars>>

WriteHalf(t) ==
  /\ pc[t] = "inside" /\ op[t] = "pwrite"
  /\ version + 2 <= MaxVersion
  /\ version' = version + 1
  /\ dirty' = TRUE
  /\ pc' = [pc EXCEPT ![t] = "half"]
  /\ UNCHANGED <<pointer, inner, lockVars, poisoned, broken, op, seen,
                 lastError, failed>>

WriteReturns(t) ==
  /\ pc[t] = "half"
  /\ version' = version + 1
  /\ Unlock(t)
  /\ ReturnsOk(t)
  /\ UNCHANGED <<pointer, inner, poisoned, broken, dirty>>

SyncReturns(t) ==
  /\ pc[t] = "inside" /\ op[t] = "sync"
  /\ dirty' = FALSE
  /\ Unlock(t)
  /\ ReturnsOk(t)
  /\ UNCHANGED <<pointer, inner, poisoned, broken, version>>

(* slatedb_file_close: the file's close synced it.                         *)
CloseReturns(t) ==
  /\ pc[t] = "inside" /\ op[t] = "close"
  /\ dirty' = FALSE
  /\ inner' = "closed"
  /\ Unlock(t)
  /\ pc' = [pc EXCEPT ![t] = "reset"]
  /\ seen' = [seen EXCEPT ![t] = 0]
  /\ UNCHANGED <<pointer, poisoned, broken, version, op, lastError, failed>>

(* Mutant: close takes the file out before it closes it.                   *)
OperationFailsCloses(t) ==
  /\ pc[t] \in {"inside", "half"}
  /\ inner' = IF op[t] = "close" THEN "closed" ELSE inner
  /\ Unlock(t)
  /\ ReturnsError(t, "io")
  /\ UNCHANGED <<pointer, poisoned, fileVars>>

(* The operation returns an error, at the start or half-way; a close that  *)
(* fails leaves the file open, so that it can be called again.             *)
OperationFails(t) ==
  /\ pc[t] \in {"inside", "half"}
  /\ Unlock(t)
  /\ ReturnsError(t, "io")
  /\ UNCHANGED <<pointer, inner, poisoned, fileVars>>

Panics(t) ==
  /\ pc[t] \in {"inside", "half"}
  /\ poisoned' = (poisoned \/ writer = t)
  /\ broken' = (broken \/ pc[t] = "half")
  /\ Unlock(t)
  /\ ReturnsError(t, "panic")
  /\ UNCHANGED <<pointer, inner, version, dirty>>

-----------------------------------------------------------------------------
(* The owner of a handle closes or destroys it when no other thread is in  *)
(* a call on it: DuckDB's contract for a FileHandle.                       *)
OnlyUser(t) == \A s \in Threads \ {t} : pc[s] \in {"idle", "report"}

(* impl.reset() at the end of Close: slatedb_file_destroy finds the file   *)
(* closed and frees it.                                                    *)
Reset(t) ==
  /\ pc[t] = "reset"
  /\ OnlyUser(t)
  /\ pointer' = "null"
  /\ ReturnsOk(t)
  /\ UNCHANGED <<inner, lockVars, poisoned, fileVars>>

(* ~SlateDBFileHandle without a Close, or after one that failed:           *)
(* slatedb_file_destroy closes the file, whatever comes of it, and frees   *)
(* it.                                                                     *)
Destroy(t) ==
  /\ pc[t] = "idle"
  /\ OnlyUser(t)
  /\ pointer = "live"
  /\ pointer' = "null"
  /\ \/ /\ ~ poisoned
        /\ inner' = "closed" /\ dirty' = FALSE
        /\ UNCHANGED lastError
     \/ /\ poisoned \/ inner = "open"
        /\ \E e \in (IF poisoned THEN {"poisoned"} ELSE {"io", "panic"}) :
             lastError' = [lastError EXCEPT ![t] = e]
        /\ UNCHANGED <<inner, dirty>>
  /\ UNCHANGED <<lockVars, poisoned, broken, version, pc, op, seen, failed>>

Running(t) ==
  \/ PreadReturns(t) \/ WriteHalf(t) \/ WriteReturns(t)
  \/ SyncReturns(t) \/ CloseReturns(t) \/ OperationFails(t) \/ Panics(t)

Entering(t) == Refused(t) \/ CloseAgain(t) \/ Enter(t)

Next ==
  \E t \in Threads :
    \/ \E o \in Called : Call(t, o)
    \/ NullPointer(t) \/ Entering(t) \/ Running(t)
    \/ Report(t) \/ Reset(t) \/ Destroy(t)

Spec == Init /\ [][Next]_vars

(* Operations end, and a thread gets a lock that stays free for it.  The   *)
(* standard library promises no more of a RwLock: nothing keeps readers    *)
(* that overlap from shutting a writer out for ever.                       *)
Fairness ==
  \A t \in Threads :
    /\ WF_vars(NullPointer(t)) /\ WF_vars(Entering(t))
    /\ WF_vars(Running(t)) /\ WF_vars(Report(t))

FairSpec == Spec /\ Fairness

-----------------------------------------------------------------------------
(* Every variable has its type; the lock has one writer or any number of   *)
(* readers, and the threads inside a call are the ones that hold it.  The  *)
(* message ThrowSlateDBError finds is the one of the call that failed,     *)
(* whatever other threads' calls fail at the same time.                    *)
TypeOK ==
  /\ pointer \in {"live", "null"} /\ inner \in {"open", "closed"}
  /\ poisoned \in BOOLEAN /\ broken \in BOOLEAN /\ dirty \in BOOLEAN
  /\ version \in 0 .. MaxVersion
  /\ pc \in [Threads -> {"idle", "enter", "inside", "half", "reset",
                         "report"}]
  /\ op \in [Threads -> Ops]
  /\ seen \in [Threads -> 0 .. MaxVersion]
  /\ lastError \in [Threads -> Errors \cup {"none"}]
  /\ failed \in [Threads -> Errors \cup {"none"}]
  /\ readers \subseteq Threads /\ writer \in Threads \cup {NoThread}
  /\ writer # NoThread => readers = {}
  /\ {t \in Threads : pc[t] \in {"inside", "half"}}
       = readers \cup ({writer} \cap Threads)
  /\ \A t \in Threads : pc[t] = "report" => lastError[t] = failed[t]

(* The file does not change under a shared call (pread, get_size): what it *)
(* reads in several steps is one state of the file.                        *)
ReadersSeeOneVersion == \A t \in readers : seen[t] = version

(* A file that a panic left half-way through a change is never used again: *)
(* poisoning keeps every later call out of it, the close included.         *)
BrokenFilesAreRefused == broken => \A t \in Threads : pc[t] # "inside"

(* A file is closed only by a close that synced it: one that fails leaves  *)
(* it open with its data, to be closed again.                              *)
ClosedMeansSynced == inner = "closed" => ~ dirty

(* The thread that changes the file holds the lock exclusively, with room  *)
(* for the second half of its write; a thread that reads it holds the lock *)
(* shared.                                                                 *)
HoldersDoTheirPart ==
  /\ \A t \in readers : Shared(op[t]) /\ pc[t] = "inside"
  /\ \A t \in Threads :
       /\ writer = t => ~ Shared(op[t])
       /\ pc[t] = "half" => writer = t /\ version < MaxVersion

(* A lock that is held guards an open file and is not poisoned, and a file *)
(* left half-way lies behind a poisoned lock.                              *)
HeldMeansUsable ==
  /\ \A t \in Threads : pc[t] \in {"inside", "half"} =>
       inner = "open" /\ ~ poisoned
  /\ broken => poisoned

(* The inductive invariant behind the safety properties of this module.    *)
Inv ==
  /\ TypeOK
  /\ HoldersDoTheirPart
  /\ HeldMeansUsable
  /\ ReadersSeeOneVersion
  /\ ClosedMeansSynced

(* A call returns unless other threads' calls get the lock again and again *)
(* while it waits: no error or panic leaves the lock behind or the handle  *)
(* in a state on which calls wait, and threads never wait for each other.  *)
CallsReturn ==
  \A t \in Threads :
    \/ pc[t] = "enter" ~> pc[t] \in {"idle", "reset"}
    \/ []<><<\E s \in Threads \ {t} : Enter(s)>>_vars
=============================================================================
