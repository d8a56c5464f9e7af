------------------------ MODULE FfiFileHandleProofs -------------------------
(***************************************************************************)
(* Proofs about FfiFileHandle, for any number of threads and versions.     *)
(***************************************************************************)
EXTENDS FfiFileHandle, TLAPS

(* The threads that are inside a call.                                     *)
Insiders == {t \in Threads : pc[t] \in {"inside", "half"}}

LEMMA InitInv == Init => Inv
  <1> SUFFICES ASSUME Init PROVE Inv
    OBVIOUS
  <1>1. {t \in Threads : pc[t] \in {"inside", "half"}} = {}
    BY DEF Init
  <1>2. TypeOK
    <2>1. /\ version \in 0 .. MaxVersion
          /\ seen \in [Threads -> 0 .. MaxVersion]
      BY ThreadsAssumption DEF Init
    <2>2. /\ pc \in [Threads -> {"idle", "enter", "inside", "half", "reset",
                                 "report"}]
          /\ op \in [Threads -> Ops]
          /\ lastError \in [Threads -> Errors \cup {"none"}]
          /\ failed \in [Threads -> Errors \cup {"none"}]
      BY DEF Init, Ops, Errors
    <2>3. {} = readers \cup ({writer} \cap Threads)
      BY ThreadsAssumption DEF Init
    <2> QED
      BY <1>1, <2>1, <2>2, <2>3 DEF Init, TypeOK
  <1>3. HoldersDoTheirPart /\ HeldMeansUsable
    BY ThreadsAssumption DEF Init, HoldersDoTheirPart, HeldMeansUsable
  <1> QED
    BY <1>2, <1>3 DEF Init, Inv, ReadersSeeOneVersion, ClosedMeansSynced

(* A step that touches neither the lock nor the file, and takes one thread *)
(* from outside of it to another place outside.                            *)
LEMMA OutsideStep ==
  ASSUME Inv, NEW t \in Threads,
         pc[t] \notin {"inside", "half"},
         NEW place \in {"idle", "enter", "reset", "report"},
         pc' = [pc EXCEPT ![t] = place],
         UNCHANGED <<inner, readers, writer, poisoned, broken, version, dirty>>,
         pointer' \in {"live", "null"},
         op' \in [Threads -> Ops],
         \A s \in Threads \ {t} : op'[s] = op[s] /\ seen'[s] = seen[s],
         seen' \in [Threads -> 0 .. MaxVersion],
         lastError' \in [Threads -> Errors \cup {"none"}],
         failed' \in [Threads -> Errors \cup {"none"}],
         \A s \in Threads : pc'[s] = "report" => lastError'[s] = failed'[s]
  PROVE  Inv'
  <1>1. Insiders' = Insiders
    BY DEF Insiders, Inv, TypeOK
  <1>2. Insiders = readers \cup ({writer} \cap Threads)
    BY DEF Insiders, Inv, TypeOK
  <1>3. t \notin readers /\ writer # t
    BY <1>2 DEF Insiders
  <1>4. TypeOK'
    BY <1>1, <1>2 DEF Inv, TypeOK, Insiders
  <1>5. HoldersDoTheirPart'
    BY <1>3 DEF Inv, TypeOK, HoldersDoTheirPart, Shared
  <1>6. (HeldMeansUsable /\ ReadersSeeOneVersion /\ ClosedMeansSynced)'
    BY <1>3 DEF Inv, TypeOK, HeldMeansUsable, ReadersSeeOneVersion,
                ClosedMeansSynced
  <1> QED
    BY <1>4, <1>5, <1>6 DEF Inv

(* A thread takes the lock of a usable file.                               *)
LEMMA EnterInv ==
  ASSUME Inv, NEW t \in Threads, Enter(t)
  PROVE  Inv'
  <1>1. pc[t] = "enter" /\ ~ poisoned /\ inner = "open" /\ writer = NoThread
    BY DEF Enter, Refuses, Available
  <1>2. Insiders = readers /\ t \notin readers
    BY <1>1, ThreadsAssumption DEF Insiders, Inv, TypeOK
  <1>3. pc' = [pc EXCEPT ![t] = "inside"] /\ Insiders' = Insiders \cup {t}
    BY DEF Insiders, Inv, TypeOK, Enter
  <1>4. CASE Shared(op[t])
    <2>1. readers' = readers \cup {t} /\ writer' = writer
      BY <1>4 DEF Enter
    <2>2. TypeOK'
      BY <1>1, <1>2, <1>3, <2>1 DEF Inv, TypeOK, Enter, fileVars, Insiders
    <2>3. HoldersDoTheirPart'
      BY <1>1, <1>3, <1>4, <2>1, ThreadsAssumption
      DEF Inv, TypeOK, HoldersDoTheirPart, Enter, fileVars, Shared
    <2>4. (HeldMeansUsable /\ ReadersSeeOneVersion /\ ClosedMeansSynced)'
      BY <1>1, <1>2, <1>3, <2>1
      DEF Inv, TypeOK, HeldMeansUsable, ReadersSeeOneVersion, ClosedMeansSynced,
          Enter, fileVars
    <2> QED
      BY <2>2, <2>3, <2>4 DEF Inv
  <1>5. CASE ~ Shared(op[t])
    <2>1. readers = {} /\ readers' = {} /\ writer' = t
      BY <1>5 DEF Enter, Available
    <2>2. TypeOK'
      BY <1>1, <1>2, <1>3, <2>1, ThreadsAssumption
      DEF Inv, TypeOK, Enter, fileVars, Insiders
    <2>3. HoldersDoTheirPart'
      BY <1>1, <1>2, <1>3, <1>5, <2>1, ThreadsAssumption
      DEF Inv, TypeOK, HoldersDoTheirPart, Enter, fileVars, Shared, Insiders
    <2>4. (HeldMeansUsable /\ ReadersSeeOneVersion /\ ClosedMeansSynced)'
      BY <1>1, <1>2, <1>3, <2>1
      DEF Inv, TypeOK, HeldMeansUsable, ReadersSeeOneVersion, ClosedMeansSynced,
          Enter, fileVars
    <2> QED
      BY <2>2, <2>3, <2>4 DEF Inv
  <1> QED
    BY <1>4, <1>5

(* A thread leaves the lock.  If it held it exclusively nobody is inside   *)
(* afterwards; if it held it shared the file has not changed.              *)
LEMMA LeaveStep ==
  ASSUME Inv, NEW t \in Threads,
         pc[t] \in {"inside", "half"},
         NEW place \in {"idle", "reset", "report"},
         pc' = [pc EXCEPT ![t] = place],
         Unlock(t),
         pointer' = pointer, op' \in [Threads -> Ops],
         \A s \in Threads \ {t} : op'[s] = op[s],
         version' \in 0 .. MaxVersion, dirty' \in BOOLEAN, broken' \in BOOLEAN,
         poisoned' \in BOOLEAN, inner' \in {"open", "closed"},
         broken' => poisoned',
         inner' = "closed" => ~ dirty',
         writer # t => UNCHANGED <<version, inner, poisoned>>,
         seen' = [seen EXCEPT ![t] = 0],
         lastError' \in [Threads -> Errors \cup {"none"}],
         failed' \in [Threads -> Errors \cup {"none"}],
         \A s \in Threads : pc'[s] = "report" => lastError'[s] = failed'[s]
  PROVE  Inv'
  <1>1. Insiders' = Insiders \ {t}
    BY DEF Insiders, Inv, TypeOK
  <1>2. Insiders = readers \cup ({writer} \cap Threads)
    BY DEF Insiders, Inv, TypeOK
  <1>3. t \in Insiders
    BY DEF Insiders
  <1>0. /\ pc' \in [Threads -> {"idle", "enter", "inside", "half", "reset",
                                "report"}]
        /\ op' \in [Threads -> Ops]
        /\ seen' \in [Threads -> 0 .. MaxVersion]
    BY ThreadsAssumption DEF Inv, TypeOK
  <1>4. CASE writer = t
    <2>1. readers = {} /\ readers' = {} /\ writer' = NoThread /\ Insiders' = {}
      BY <1>1, <1>2, <1>4, ThreadsAssumption DEF Inv, TypeOK, Unlock
    <2>2. TypeOK'
      <3>1. Insiders' = (readers \cup ({writer} \cap Threads))'
        BY <2>1, ThreadsAssumption
      <3> QED
        BY <1>0, <2>1, <3>1 DEF Inv, TypeOK, Insiders
    <2>3. (HoldersDoTheirPart /\ HeldMeansUsable)'
      BY <2>1, ThreadsAssumption
      DEF Inv, TypeOK, HoldersDoTheirPart, HeldMeansUsable, Insiders
    <2> QED
      BY <2>1, <2>2, <2>3 DEF Inv, ReadersSeeOneVersion, ClosedMeansSynced
  <1>5. CASE writer # t
    <2>1. /\ t \in readers /\ writer = NoThread /\ writer' = NoThread
          /\ readers' = readers \ {t}
      BY <1>2, <1>3, <1>5 DEF Inv, TypeOK, Unlock
    <2>2. TypeOK'
      <3>1. Insiders' = (readers \cup ({writer} \cap Threads))'
        BY <1>1, <1>2, <2>1, ThreadsAssumption
      <3> QED
        BY <1>0, <2>1, <3>1 DEF Inv, TypeOK, Insiders
    <2>3. (HoldersDoTheirPart /\ HeldMeansUsable)'
      BY <1>5, <2>1, ThreadsAssumption
      DEF Inv, TypeOK, HoldersDoTheirPart, HeldMeansUsable
    <2>4. (ReadersSeeOneVersion /\ ClosedMeansSynced)'
      BY <1>5, <2>1 DEF Inv, TypeOK, ReadersSeeOneVersion, ClosedMeansSynced
    <2> QED
      BY <2>2, <2>3, <2>4 DEF Inv
  <1> QED
    BY <1>4, <1>5

(* The steps inside a call: the first half of a write changes the file     *)
(* under the exclusive lock, the others leave.                             *)
LEMMA RunningInv ==
  ASSUME Inv, NEW t \in Threads, Running(t)
  PROVE  Inv'
  <1>1. Insiders = readers \cup ({writer} \cap Threads)
    BY DEF Insiders, Inv, TypeOK
  <1>2. pc[t] \in {"inside", "half"} => t \in readers \/ writer = t
    BY <1>1 DEF Insiders
  <1>3. t \in readers => Shared(op[t])
    BY DEF Inv, HoldersDoTheirPart
  <1>4. pc[t] = "half" => writer = t /\ version < MaxVersion
    BY DEF Inv, HoldersDoTheirPart
  <1>5. pc[t] \in {"inside", "half"} => inner = "open" /\ ~ poisoned
    BY DEF Inv, HeldMeansUsable
  <1>6. /\ version \in 0 .. MaxVersion /\ dirty \in BOOLEAN /\ broken \in BOOLEAN
        /\ poisoned \in BOOLEAN /\ inner \in {"open", "closed"}
        /\ broken => poisoned
        /\ inner = "closed" => ~ dirty
        /\ lastError \in [Threads -> Errors \cup {"none"}]
        /\ failed \in [Threads -> Errors \cup {"none"}]
        /\ \A s \in Threads : pc[s] = "report" => lastError[s] = failed[s]
        /\ pc \in [Threads -> {"idle", "enter", "inside", "half", "reset",
                               "report"}]
        /\ op \in [Threads -> Ops]
    BY DEF Inv, TypeOK, HeldMeansUsable, ClosedMeansSynced
  <1>7. ASSUME ReturnsOk(t)
        PROVE  /\ op' \in [Threads -> Ops]
               /\ \A s \in Threads \ {t} : op'[s] = op[s]
               /\ \A s \in Threads : pc'[s] = "report" =>
                    lastError'[s] = failed'[s]
    BY <1>6, <1>7 DEF ReturnsOk, Ops
  <1>8. ASSUME NEW e \in Errors, ReturnsError(t, e)
        PROVE  /\ op' \in [Threads -> Ops]
               /\ \A s \in Threads \ {t} : op'[s] = op[s]
               /\ lastError' \in [Threads -> Errors \cup {"none"}]
               /\ failed' \in [Threads -> Errors \cup {"none"}]
               /\ \A s \in Threads : pc'[s] = "report" =>
                    lastError'[s] = failed'[s]
    BY <1>6, <1>8 DEF ReturnsError, Ops
  <1>9. CASE PreadReturns(t)
    BY <1>6, <1>7, <1>9, LeaveStep DEF PreadReturns, ReturnsOk, fileVars
  <1>10. CASE WriteHalf(t)
    <2>1. writer = t /\ readers = {}
      BY <1>2, <1>3, <1>10, ThreadsAssumption DEF WriteHalf, Shared, Inv, TypeOK
    <2>2. /\ pc' = [pc EXCEPT ![t] = "half"] /\ pc[t] = "inside"
          /\ version' = version + 1 /\ version' < MaxVersion
      BY <1>6, <1>10, ThreadsAssumption DEF WriteHalf
    <2>3. Insiders' = Insiders
      BY <1>6, <2>2 DEF Insiders
    <2>4. TypeOK'
      <3>1. version' \in 0 .. MaxVersion
        BY <1>6, <2>2, ThreadsAssumption
      <3>2. /\ pc' \in [Threads -> {"idle", "enter", "inside", "half", "reset",
                                    "report"}]
            /\ \A s \in Threads : pc'[s] = "report" => pc[s] = "report"
        BY <1>6, <2>2
      <3> QED
        BY <1>10, <2>3, <3>1, <3>2
        DEF WriteHalf, Inv, TypeOK, Insiders, lockVars
    <2>5. HoldersDoTheirPart'
      BY <1>6, <1>10, <2>1, <2>2
      DEF WriteHalf, Inv, HoldersDoTheirPart, Shared, lockVars
    <2>6. (HeldMeansUsable /\ ClosedMeansSynced)'
      BY <1>5, <1>6, <1>10, <2>2 DEF WriteHalf, HeldMeansUsable, ClosedMeansSynced
    <2>7. ReadersSeeOneVersion'
      BY <1>10, <2>1 DEF WriteHalf, ReadersSeeOneVersion, lockVars
    <2> QED
      BY <2>4, <2>5, <2>6, <2>7 DEF Inv
  <1>11. CASE WriteReturns(t)
    <2>1. version' \in 0 .. MaxVersion /\ writer = t
      BY <1>4, <1>6, <1>11, ThreadsAssumption DEF WriteReturns
    <2> QED
      BY <1>6, <1>7, <1>11, <2>1, LeaveStep DEF WriteReturns, ReturnsOk
  <1>12. CASE SyncReturns(t)
    BY <1>6, <1>7, <1>12, LeaveStep DEF SyncReturns, ReturnsOk
  <1>13. CASE CloseReturns(t)
    <2>1. writer = t
      BY <1>2, <1>3, <1>13 DEF CloseReturns, Shared
    <2>2. \A s \in Threads : pc'[s] = "report" => lastError'[s] = failed'[s]
      BY <1>6, <1>13 DEF CloseReturns
    <2> QED
      BY <1>6, <1>13, <2>1, <2>2, LeaveStep DEF CloseReturns
  <1>14. CASE OperationFails(t)
    <2>1. ReturnsError(t, "io") /\ "io" \in Errors
      BY <1>14 DEF OperationFails, Errors
    <2> QED
      BY <1>6, <1>8, <1>14, <2>1, LeaveStep
      DEF OperationFails, ReturnsError, fileVars
  <1>15. CASE Panics(t)
    <2>1. ReturnsError(t, "panic") /\ "panic" \in Errors
      BY <1>15 DEF Panics, Errors
    <2>2. /\ poisoned' \in BOOLEAN /\ broken' \in BOOLEAN
          /\ broken' => poisoned'
          /\ writer # t => UNCHANGED poisoned
      BY <1>4, <1>5, <1>6, <1>15 DEF Panics
    <2> QED
      BY <1>6, <1>8, <1>15, <2>1, <2>2, LeaveStep DEF Panics, ReturnsError
  <1> QED
    BY <1>9, <1>10, <1>11, <1>12, <1>13, <1>14, <1>15 DEF Running

(* Every step, one action at a time.                                       *)
LEMMA NextInv == Inv /\ [Next]_vars => Inv'
  <1> SUFFICES ASSUME Inv, [Next]_vars PROVE Inv'
    OBVIOUS
  <1>1. /\ pointer \in {"live", "null"}
        /\ op \in [Threads -> Ops]
        /\ seen \in [Threads -> 0 .. MaxVersion]
        /\ lastError \in [Threads -> Errors \cup {"none"}]
        /\ failed \in [Threads -> Errors \cup {"none"}]
        /\ \A s \in Threads : pc[s] = "report" => lastError[s] = failed[s]
        /\ pc \in [Threads -> {"idle", "enter", "inside", "half", "reset",
                               "report"}]
    BY DEF Inv, TypeOK
  <1>2. ASSUME NEW t \in Threads, ReturnsOk(t)
        PROVE  /\ seen' \in [Threads -> 0 .. MaxVersion]
               /\ op' \in [Threads -> Ops]
               /\ \A s \in Threads \ {t} : op'[s] = op[s]
               /\ \A s \in Threads : pc'[s] = "report" =>
                    lastError'[s] = failed'[s]
    BY <1>1, <1>2, ThreadsAssumption DEF ReturnsOk, Ops
  <1>3. ASSUME NEW t \in Threads, NEW e \in Errors, ReturnsError(t, e)
        PROVE  /\ seen' \in [Threads -> 0 .. MaxVersion]
               /\ op' \in [Threads -> Ops]
               /\ \A s \in Threads \ {t} : op'[s] = op[s]
               /\ lastError' \in [Threads -> Errors \cup {"none"}]
               /\ failed' \in [Threads -> Errors \cup {"none"}]
               /\ \A s \in Threads : pc'[s] = "report" =>
                    lastError'[s] = failed'[s]
    BY <1>1, <1>3, ThreadsAssumption DEF ReturnsError, Ops
  <1>4. ASSUME NEW t \in Threads, NEW o \in Called, Call(t, o)
        PROVE  Inv'
    <2>1. /\ op' \in [Threads -> Ops]
          /\ \A s \in Threads \ {t} : op'[s] = op[s]
          /\ \A s \in Threads : pc'[s] = "report" => lastError'[s] = failed'[s]
      BY <1>1, <1>4, ThreadsAssumption DEF Call
    <2> QED
      BY <1>1, <1>4, <2>1, OutsideStep DEF Call, lockVars, fileVars
  <1>5. ASSUME NEW t \in Threads, NullPointer(t)
        PROVE  Inv'
    <2>1. CASE ReturnsOk(t)
      BY <1>1, <1>2, <1>5, <2>1, OutsideStep
      DEF NullPointer, ReturnsOk, lockVars, fileVars
    <2>2. CASE ReturnsError(t, "null")
      <3>1. "null" \in Errors
        BY DEF Errors
      <3> QED
        BY <1>1, <1>3, <1>5, <2>2, <3>1, OutsideStep
        DEF NullPointer, ReturnsError, lockVars, fileVars
    <2> QED
      BY <1>5, <2>1, <2>2 DEF NullPointer
  <1>6. ASSUME NEW t \in Threads, Refused(t)
        PROVE  Inv'
    <2>1. PICK e \in Errors : ReturnsError(t, e)
      BY <1>6 DEF Refused, Refuses, Errors
    <2> QED
      BY <1>1, <1>3, <1>6, <2>1, OutsideStep
      DEF Refused, ReturnsError, lockVars, fileVars
  <1>7. ASSUME NEW t \in Threads, CloseAgain(t)
        PROVE  Inv'
    BY <1>1, <1>2, <1>7, OutsideStep
    DEF CloseAgain, ReturnsOk, lockVars, fileVars
  <1>8. ASSUME NEW t \in Threads, Report(t)
        PROVE  Inv'
    <2>1. /\ failed' \in [Threads -> Errors \cup {"none"}]
          /\ lastError' \in [Threads -> Errors \cup {"none"}]
          /\ \A s \in Threads : pc'[s] = "report" => lastError'[s] = failed'[s]
      BY <1>1, <1>8 DEF Report
    <2> QED
      BY <1>1, <1>8, <2>1, OutsideStep DEF Report, lockVars, fileVars
  <1>9. ASSUME NEW t \in Threads, Reset(t)
        PROVE  Inv'
    BY <1>1, <1>2, <1>9, OutsideStep DEF Reset, ReturnsOk, lockVars, fileVars
  <1>10. ASSUME NEW t \in Threads, Destroy(t)
         PROVE  Inv'
    <2>1. Insiders = {} /\ Insiders' = {}
      BY <1>10 DEF Destroy, OnlyUser, Insiders
    <2>2. readers = {} /\ writer = NoThread
      BY <2>1 DEF Inv, TypeOK, Insiders
    <2>3. /\ inner' \in {"open", "closed"} /\ dirty' \in BOOLEAN
          /\ inner' = "closed" => ~ dirty'
      <3>1. CASE inner' = "closed" /\ dirty' = FALSE
        BY <3>1
      <3>2. CASE UNCHANGED <<inner, dirty>>
        BY <3>2 DEF Inv, TypeOK, ClosedMeansSynced
      <3> QED
        BY <1>10, <3>1, <3>2 DEF Destroy
    <2>4. /\ lastError' \in [Threads -> Errors \cup {"none"}]
          /\ \A s \in Threads : pc'[s] = "report" => lastError'[s] = failed'[s]
      BY <1>1, <1>10 DEF Destroy, Errors
    <2>5. TypeOK'
      BY <1>10, <2>1, <2>2, <2>3, <2>4
      DEF Destroy, Inv, TypeOK, Insiders, lockVars
    <2>6. (HoldersDoTheirPart /\ HeldMeansUsable)'
      BY <1>10, <2>1, <2>2, ThreadsAssumption
      DEF Destroy, Inv, HoldersDoTheirPart, HeldMeansUsable, Insiders, lockVars
    <2> QED
      BY <1>10, <2>2, <2>3, <2>5, <2>6
      DEF Destroy, Inv, ReadersSeeOneVersion, ClosedMeansSynced, lockVars
  <1>11. CASE UNCHANGED vars
    BY <1>11
    DEF vars, Inv, TypeOK, HoldersDoTheirPart, HeldMeansUsable,
        ReadersSeeOneVersion, ClosedMeansSynced, Shared
  <1> QED
    BY <1>4, <1>5, <1>6, <1>7, <1>8, <1>9, <1>10, <1>11, EnterInv, RunningInv
    DEF Next, Entering

----------------------------------------------------------------------------
(* The inductive invariant holds of every shared handle: whoever holds the *)
(* lock works on an open file behind a lock that is not poisoned.          *)
THEOREM FfiFileHandleInvariant == Spec => []Inv
  BY InitInv, NextInv, PTL DEF Spec

(* The lock has one writer or readers, the threads inside a call are the   *)
(* ones that hold it, and a failed call finds its own error message, for   *)
(* any number of threads, failures and panics.                             *)
THEOREM FfiFileHandleTypeOK == Spec => []TypeOK
  <1>1. Inv => TypeOK
    BY DEF Inv
  <1> QED
    BY <1>1, FfiFileHandleInvariant, PTL

(* The file does not change while a call holds the lock shared.            *)
THEOREM FfiFileHandleReadersSeeOneVersion == Spec => []ReadersSeeOneVersion
  <1>1. Inv => ReadersSeeOneVersion
    BY DEF Inv
  <1> QED
    BY <1>1, FfiFileHandleInvariant, PTL

(* A file that a panic left half-way is never used again.                  *)
THEOREM FfiFileHandleBrokenFilesAreRefused == Spec => []BrokenFilesAreRefused
  <1>1. Inv => BrokenFilesAreRefused
    BY DEF Inv, HeldMeansUsable, BrokenFilesAreRefused
  <1> QED
    BY <1>1, FfiFileHandleInvariant, PTL

(* A file is closed only by a close that synced it.                        *)
THEOREM FfiFileHandleClosedMeansSynced == Spec => []ClosedMeansSynced
  <1>1. Inv => ClosedMeansSynced
    BY DEF Inv
  <1> QED
    BY <1>1, FfiFileHandleInvariant, PTL
=============================================================================
