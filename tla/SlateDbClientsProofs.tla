------------------------ MODULE SlateDbClientsProofs ------------------------
(***************************************************************************)
(* Proofs about SlateDbClients, for any number of processes, threads and   *)
(* database groups, with or without external coordination.                 *)
(***************************************************************************)
EXTENDS SlateDbClients, TLAPS

(* The two parts of TypeOK.                                                *)
Types ==
  /\ epoch \in [Groups -> Epochs]
  /\ version \in [Groups -> Versions]
  /\ writer \in [Processes -> [Groups -> Epochs]]
  /\ view \in [Processes -> [Groups -> Versions]]
  /\ reader \in [Processes -> [Groups -> Versions \cup {NoReader}]]
  /\ lock \in [Processes -> [Groups -> Threads \cup {NoThread}]]
  /\ closed \in [Processes -> BOOLEAN]
  /\ live \subseteq Processes \X Groups \X Epochs
  /\ call \in [Threads -> {Idle} \cup Calls]
  /\ handle \in [Threads -> {NoHandle} \cup FileClients]
  /\ opener \in [Groups -> Processes]
  /\ own \in [Processes -> [Groups -> Versions]]

Holds(t, p, g) ==
  /\ Home[t] = p
  /\ call[t] # Idle
  /\ call[t].group = g /\ call[t].next # "lock"

Mutex ==
  \A p \in Processes, g \in Groups, t \in Threads :
    lock[p][g] = t <=> Holds(t, p, g)

LEMMA TypeOKParts == TypeOK <=> Types /\ Mutex
  BY DEF TypeOK, Types, Mutex, Holds

LEMMA Constants ==
  /\ Home \in [Threads -> Processes] /\ NoThread \notin Threads
  /\ 0 \in Epochs /\ 0 \in Versions
  /\ \A v \in Versions : v # NoReader /\ v \in Nat
  /\ \A e \in Epochs : e \in Nat
  /\ NoHandle \notin FileClients
  BY ClientsAssumption DEF Epochs, Versions, NoReader, NoHandle, FileClients

(* What is kept per process and group changes in one place.                *)
LEMMA Updated ==
  ASSUME NEW S, NEW f \in [Processes -> [Groups -> S]],
         NEW p \in Processes, NEW g \in Groups, NEW v \in S
  PROVE  /\ [f EXCEPT ![p][g] = v] \in [Processes -> [Groups -> S]]
         /\ \A q \in Processes, h \in Groups :
              [f EXCEPT ![p][g] = v][q][h] = IF q = p /\ h = g THEN v ELSE f[q][h]
  OBVIOUS

(* A call in progress is a record of the group it is about.                *)
LEMMA CallFacts ==
  ASSUME Types, NEW t \in Threads, call[t] # Idle
  PROVE  /\ call[t] \in Calls
         /\ call[t].op \in {"read", "write"} /\ call[t].group \in Groups
         /\ call[t].create \in BOOLEAN
         /\ call[t].next \in {"lock", "reader", "writer", "return"}
         /\ Home[t] \in Processes
  BY Constants DEF Types, Calls

(* The next step of a call changes nothing else of it.                     *)
LEMMA CallMovesOn ==
  ASSUME Types, NEW t \in Threads, call[t] # Idle,
         NEW n \in {"lock", "reader", "writer", "return"},
         call' = [call EXCEPT ![t].next = n]
  PROVE  /\ call' \in [Threads -> {Idle} \cup Calls]
         /\ call'[t] # Idle /\ call'[t].next = n
         /\ call'[t].op = call[t].op /\ call'[t].group = call[t].group
         /\ call'[t].create = call[t].create
         /\ \A s \in Threads \ {t} : call'[s] = call[s]
  BY CallFacts DEF Types, Calls, Idle

LEMMA InitInv == Init => Inv
  <1> SUFFICES ASSUME Init PROVE Inv
    OBVIOUS
  <1>1. Types
    BY Constants DEF Init, Types
  <1>2. Mutex
    BY Constants DEF Init, Mutex, Holds
  <1>3. OpenWritersAreCached /\ NeverFencesItself /\ ReadsSeeOwnWrites
    BY Constants
    DEF Init, OpenWritersAreCached, NeverFencesItself, ReadsSeeOwnWrites,
        HasWriter, HasReader, ReadsThroughWriter
  <1>4. OpensWhatIsMissing /\ ReadersFoundADatabase /\ OwnWritesAreCommitted
    BY Constants
    DEF Init, OpensWhatIsMissing, ReadersFoundADatabase, OwnWritesAreCommitted,
        HasWriter, HasReader, Doing
  <1> QED
    BY <1>1, <1>2, <1>3, <1>4, TypeOKParts DEF Inv

(* The end of a call gives the mutex back, if the call held it.            *)
LEMMA EndStep ==
  ASSUME Types, Mutex, NEW t \in Threads, call[t] # Idle,
         call[t].next # "lock", End(t)
  PROVE  /\ call' \in [Threads -> {Idle} \cup Calls]
         /\ lock' \in [Processes -> [Groups -> Threads \cup {NoThread}]]
         /\ Mutex'
         /\ call'[t] = Idle
         /\ \A s \in Threads \ {t} : call'[s] = call[s]
         /\ \A s \in Threads, n \in {"reader", "writer"} :
              Doing(s, n)' => Doing(s, n) /\ call'[s] = call[s]
  <1>1. /\ call' \in [Threads -> {Idle} \cup Calls]
        /\ call'[t] = Idle
        /\ \A s \in Threads \ {t} : call'[s] = call[s]
    BY DEF End, Types
  <1>2. call[t].group \in Groups /\ Home[t] \in Processes
    BY CallFacts
  <1>3. lock' \in [Processes -> [Groups -> Threads \cup {NoThread}]]
    BY <1>2 DEF End, Types
  <1>4. ASSUME NEW p \in Processes, NEW g \in Groups
        PROVE  lock'[p][g] = IF p = Home[t] /\ g = call[t].group
                               THEN NoThread ELSE lock[p][g]
    BY <1>2 DEF End, Types
  <1>5. lock[Home[t]][call[t].group] = t
    BY <1>2 DEF Mutex, Holds
  <1>6. Mutex'
    <2> SUFFICES ASSUME NEW p \in Processes, NEW g \in Groups, NEW s \in Threads
                 PROVE  lock'[p][g] = s <=> Holds(s, p, g)'
      BY DEF Mutex
    <2>1. CASE s = t
      BY <1>1, <1>2, <1>4, <1>5, <2>1, Constants DEF Holds, Mutex
    <2>2. CASE s # t
      BY <1>1, <1>2, <1>4, <1>5, <2>2, Constants DEF Holds, Mutex
    <2> QED
      BY <2>1, <2>2
  <1>7. \A s \in Threads, n \in {"reader", "writer"} :
          Doing(s, n)' => Doing(s, n) /\ call'[s] = call[s]
    BY <1>1 DEF Doing
  <1> QED
    BY <1>1, <1>3, <1>6, <1>7

(* A step that leaves clients and databases alone and starts to open none. *)
LEMMA QuietStep ==
  ASSUME Inv, Types', Mutex',
         UNCHANGED <<epoch, version, writer, view, reader, live, opener, own>>,
         \A s \in Threads, n \in {"reader", "writer"} :
           Doing(s, n)' => Doing(s, n) /\ call'[s] = call[s]
  PROVE  Inv'
  <1>1. (OpenWritersAreCached /\ NeverFencesItself /\ ReadsSeeOwnWrites)'
    BY DEF Inv, OpenWritersAreCached, NeverFencesItself, ReadsSeeOwnWrites,
           HasWriter, HasReader, ReadsThroughWriter
  <1>2. OwnWritesAreCommitted'
    BY DEF Inv, OwnWritesAreCommitted
  <1>3. OpensWhatIsMissing'
    BY DEF Inv, OpensWhatIsMissing, HasWriter
  <1>4. ReadersFoundADatabase'
    BY DEF Inv, ReadersFoundADatabase, HasReader
  <1>5. TypeOK'
    BY TypeOKParts, PTL
  <1> QED
    BY <1>1, <1>2, <1>3, <1>4, <1>5 DEF Inv

LEMMA BeginInv ==
  ASSUME Inv, NEW t \in Threads, NEW op \in {"read", "write"},
         NEW g \in Groups, NEW create \in BOOLEAN, Begin(t, op, g, create)
  PROVE  Inv'
  <1>1. Types /\ Mutex
    BY TypeOKParts DEF Inv
  <1>2. /\ call[t] = Idle /\ call'[t].next = "lock" /\ call'[t] \in Calls
        /\ call' \in [Threads -> {Idle} \cup Calls]
        /\ \A s \in Threads \ {t} : call'[s] = call[s]
    BY <1>1 DEF Begin, Types, Calls
  <1>3. Types'
    BY <1>1, <1>2 DEF Begin, Types, database, clients, history
  <1>4. Mutex'
    BY <1>1, <1>2 DEF Begin, Mutex, Holds, clients
  <1>5. \A s \in Threads, n \in {"reader", "writer"} :
          Doing(s, n)' => Doing(s, n) /\ call'[s] = call[s]
    BY <1>2 DEF Doing
  <1> QED
    BY <1>3, <1>4, <1>5, QuietStep DEF Begin, database, clients, history

(* The thread that gets the mutex is the only one to have it, and decides  *)
(* by what is cached.                                                      *)
LEMMA LockGroupInv ==
  ASSUME Inv, NEW t \in Threads, LockGroup(t)
  PROVE  Inv'
  <1> DEFINE g == call[t].group
             p == Home[t]
             n == ClientToOpen(call[t], p)
  <1>1. Types /\ Mutex
    BY TypeOKParts DEF Inv
  <1>2. /\ call[t] # Idle /\ call[t].next = "lock" /\ g \in Groups
        /\ p \in Processes
        /\ n \in {"lock", "reader", "writer", "return"} /\ n # "lock"
    BY <1>1, CallFacts DEF LockGroup, ClientToOpen
  <1>3. /\ call' \in [Threads -> {Idle} \cup Calls]
        /\ call'[t] # Idle /\ call'[t].next = n
        /\ call'[t].group = g /\ call'[t].create = call[t].create
        /\ \A s \in Threads \ {t} : call'[s] = call[s]
    BY <1>1, <1>2, CallMovesOn DEF LockGroup
  <1>4. /\ lock[p][g] = NoThread
        /\ lock' \in [Processes -> [Groups -> Threads \cup {NoThread}]]
        /\ \A q \in Processes, h \in Groups :
             lock'[q][h] = IF q = p /\ h = g THEN t ELSE lock[q][h]
    BY <1>1, <1>2 DEF LockGroup, Types
  <1>5. Types'
    BY <1>1, <1>3, <1>4 DEF LockGroup, Types, database, history
  <1>6. Mutex'
    <2> SUFFICES ASSUME NEW q \in Processes, NEW h \in Groups, NEW s \in Threads
                 PROVE  lock'[q][h] = s <=> Holds(s, q, h)'
      BY DEF Mutex
    <2>1. CASE s = t
      <3>1. lock[q][h] # t
        BY <1>1, <1>2 DEF Holds, Mutex
      <3>2. Holds(t, q, h)' <=> q = p /\ h = g
        BY <1>2, <1>3 DEF Holds
      <3>3. lock'[q][h] = t <=> q = p /\ h = g
        BY <1>4, <3>1
      <3> QED
        BY <2>1, <3>2, <3>3 DEF Holds
    <2>2. CASE s # t
      <3>1. Holds(s, q, h)' <=> lock[q][h] = s
        BY <1>1, <1>3, <2>2 DEF Holds, Mutex
      <3>2. lock'[q][h] = s <=> lock[q][h] = s
        BY <1>4, <2>2, Constants
      <3> QED
        BY <3>1, <3>2
    <2> QED
      BY <2>1, <2>2
  <1>7. (OpenWritersAreCached /\ NeverFencesItself /\ ReadsSeeOwnWrites)'
    BY DEF LockGroup, Inv, OpenWritersAreCached, NeverFencesItself, database,
           ReadsSeeOwnWrites, HasWriter, HasReader, ReadsThroughWriter, history
  <1>8. OwnWritesAreCommitted'
    BY DEF LockGroup, Inv, OwnWritesAreCommitted, database, history
  <1>9. OpensWhatIsMissing'
    <2>1. n \in {"reader", "writer"} => ~HasWriter(p, g)
      BY DEF ClientToOpen
    <2> QED
      BY <1>3, <2>1 DEF LockGroup, Inv, OpensWhatIsMissing, HasWriter, Doing
  <1>10. ReadersFoundADatabase'
    <2>1. n = "writer" => call[t].create \/ HasReader(p, g)
      BY DEF ClientToOpen
    <2> QED
      BY <1>2, <1>3, <2>1
      DEF LockGroup, Inv, ReadersFoundADatabase, HasReader, Doing, database
  <1> QED
    BY <1>5, <1>6, <1>7, <1>8, <1>9, <1>10, TypeOKParts, PTL DEF Inv

LEMMA OpenReaderInv ==
  ASSUME Inv, NEW t \in Threads, OpenReader(t)
  PROVE  Inv'
  <1> DEFINE g == call[t].group
             p == Home[t]
             n == IF call[t].op = "read" THEN "return" ELSE "writer"
  <1>1. Types /\ Mutex
    BY TypeOKParts DEF Inv
  <1>2. /\ call[t] # Idle /\ call[t].next = "reader" /\ g \in Groups
        /\ p \in Processes
    BY <1>1, CallFacts DEF OpenReader, Doing
  <1>3. CASE epoch[g] = 0
    <2>1. End(t) /\ UNCHANGED reader
      BY <1>3 DEF OpenReader
    <2>2. Types'
      BY <1>1, <1>2, <2>1, EndStep DEF OpenReader, Types, database, history
    <2> QED
      BY <1>1, <1>2, <2>1, <2>2, EndStep, QuietStep
      DEF OpenReader, database, history
  <1>4. CASE epoch[g] # 0
    <2>1. /\ call' \in [Threads -> {Idle} \cup Calls]
          /\ call'[t] # Idle /\ call'[t].next = n /\ call'[t].group = g
          /\ \A s \in Threads \ {t} : call'[s] = call[s]
      BY <1>1, <1>2, <1>4, CallMovesOn DEF OpenReader
    <2>2. /\ reader' \in [Processes -> [Groups -> Versions \cup {NoReader}]]
          /\ \A q \in Processes, h \in Groups :
               reader'[q][h] = IF q = p /\ h = g THEN version[g] ELSE reader[q][h]
      <3>1. reader' = [reader EXCEPT ![p][g] = version[g]]
        BY <1>4 DEF OpenReader
      <3>2. /\ version[g] \in Versions \cup {NoReader}
            /\ reader \in [Processes -> [Groups -> Versions \cup {NoReader}]]
        BY <1>1, <1>2 DEF Types
      <3> HIDE DEF p, g
      <3> QED
        BY <1>2, <3>1, <3>2, Updated
    <2>3. UNCHANGED <<epoch, version, writer, view, lock, closed, live, handle,
                      opener, own>>
      BY <1>4 DEF OpenReader, database, history
    <2>4. Types'
      BY <1>1, <2>1, <2>2, <2>3 DEF Types
    <2>5. Mutex'
      BY <1>1, <1>2, <2>1, <2>3 DEF Mutex, Holds
    <2>6. (OpenWritersAreCached /\ NeverFencesItself)'
      BY <2>3 DEF Inv, OpenWritersAreCached, NeverFencesItself, HasWriter
    <2>7. OwnWritesAreCommitted'
      BY <2>3 DEF Inv, OwnWritesAreCommitted
    <2>8. ReadsSeeOwnWrites'
      BY <1>1, <1>2, <2>2, <2>3, Constants
      DEF Types, Inv, ReadsSeeOwnWrites, OwnWritesAreCommitted, HasWriter,
          HasReader, ReadsThroughWriter
    <2>9. OpensWhatIsMissing'
      BY <1>2, <2>1, <2>3 DEF Inv, OpensWhatIsMissing, Doing, HasWriter
    <2>10. ReadersFoundADatabase'
      BY <1>4, <2>1, <2>2, <2>3 DEF Inv, ReadersFoundADatabase, Doing, HasReader
    <2> QED
      BY <2>4, <2>5, <2>6, <2>7, <2>8, <2>9, <2>10, TypeOKParts, PTL DEF Inv
  <1> QED
    BY <1>3, <1>4

(* The thread that opens a writer is the only one of its process to do so, *)
(* and the process had none.                                               *)
LEMMA OpenWriterInv ==
  ASSUME Inv, NEW t \in Threads, OpenWriter(t)
  PROVE  Inv'
  <1> DEFINE g == call[t].group
             p == Home[t]
             e == epoch[g] + 1
  <1>1. Types /\ Mutex
    BY TypeOKParts DEF Inv
  <1>2. /\ call[t] # Idle /\ call[t].next = "writer" /\ g \in Groups
        /\ p \in Processes
    BY <1>1, CallFacts DEF OpenWriter, Doing
  <1>3. writer[p][g] = 0
    BY <1>2 DEF Inv, OpensWhatIsMissing, Doing, HasWriter
  <1>4. e \in Epochs /\ e # 0
    BY <1>1, <1>2, ClientsAssumption DEF OpenWriter, Types, Epochs
  <1>5. /\ call' \in [Threads -> {Idle} \cup Calls]
        /\ call'[t] # Idle /\ call'[t].next = "return" /\ call'[t].group = g
        /\ \A s \in Threads \ {t} : call'[s] = call[s]
    BY <1>1, <1>2, CallMovesOn DEF OpenWriter
  <1>6. UNCHANGED <<version, reader, lock, closed, handle, own>>
    BY DEF OpenWriter
  <1>7. /\ writer' \in [Processes -> [Groups -> Epochs]]
        /\ \A q \in Processes, h \in Groups :
             writer'[q][h] = IF q = p /\ h = g THEN e ELSE writer[q][h]
    BY <1>1, <1>2, <1>4 DEF OpenWriter, Types
  <1>8. /\ view' \in [Processes -> [Groups -> Versions]]
        /\ \A q \in Processes, h \in Groups :
             view'[q][h] = IF q = p /\ h = g THEN version[g] ELSE view[q][h]
    BY <1>1, <1>2 DEF OpenWriter, Types
  <1>9. /\ epoch' \in [Groups -> Epochs] /\ opener' \in [Groups -> Processes]
        /\ epoch'[g] = e /\ opener'[g] = p
        /\ \A h \in Groups \ {g} : epoch'[h] = epoch[h] /\ opener'[h] = opener[h]
    BY <1>1, <1>2, <1>4 DEF OpenWriter, Types
  <1>10. /\ live' = live \cup {<<p, g, e>>}
         /\ live' \subseteq Processes \X Groups \X Epochs
    BY <1>1, <1>2, <1>4 DEF OpenWriter, Types
  <1>11. Types'
    BY <1>1, <1>5, <1>6, <1>7, <1>8, <1>9, <1>10 DEF Types
  <1>12. Mutex'
    BY <1>1, <1>2, <1>5, <1>6 DEF Mutex, Holds
  <1>13. OpenWritersAreCached'
    <2> SUFFICES ASSUME NEW l \in live' PROVE writer'[l[1]][l[2]] = l[3]
      BY DEF OpenWritersAreCached
    <2>1. CASE l = <<p, g, e>>
      BY <1>2, <1>7, <2>1
    <2>2. CASE l \in live
      <3>1. /\ l[1] \in Processes /\ l[2] \in Groups
            /\ writer[l[1]][l[2]] = l[3] /\ l[3] # 0
        BY <1>1, <2>2 DEF Types, Inv, OpenWritersAreCached, OpensWhatIsMissing
      <3> QED
        BY <1>3, <1>7, <3>1
    <2> QED
      BY <1>10, <2>1, <2>2
  <1>14. NeverFencesItself'
    BY <1>2, <1>3, <1>7, <1>9 DEF Inv, NeverFencesItself, HasWriter
  <1>15. OwnWritesAreCommitted'
    BY <1>6 DEF Inv, OwnWritesAreCommitted
  <1>16. ReadsSeeOwnWrites'
    <2> SUFFICES ASSUME NEW q \in Processes, NEW h \in Groups,
                        (HasWriter(q, h) \/ HasReader(q, h))'
                 PROVE  ((IF ReadsThroughWriter(q, h) THEN view[q][h]
                                                     ELSE reader[q][h]) >= own[q][h])'
      BY DEF ReadsSeeOwnWrites
    <2>1. CASE q = p /\ h = g
      <3>1. own[q][h] <= version[h] /\ own[q][h] \in Nat /\ version[h] \in Nat
        BY <1>1, Constants DEF Types, Inv, OwnWritesAreCommitted
      <3>2. writer'[q][h] # 0 /\ view'[q][h] = version[h] /\ own'[q][h] = own[q][h]
        BY <1>4, <1>6, <1>7, <1>8, <2>1
      <3> QED
        BY <3>1, <3>2 DEF ReadsThroughWriter, HasWriter
    <2>2. CASE ~(q = p /\ h = g)
      <3>1. /\ writer'[q][h] = writer[q][h] /\ view'[q][h] = view[q][h]
            /\ reader'[q][h] = reader[q][h] /\ own'[q][h] = own[q][h]
        BY <1>6, <1>7, <1>8, <2>2
      <3> QED
        BY <3>1 DEF Inv, ReadsSeeOwnWrites, ReadsThroughWriter, HasWriter, HasReader
    <2> QED
      BY <2>1, <2>2
  <1>17. OpensWhatIsMissing'
    <2>1. ASSUME NEW s \in Threads, Doing(s, "reader")' \/ Doing(s, "writer")'
          PROVE  ~HasWriter(Home[s], call[s].group)'
      <3>1. s # t /\ call'[s] = call[s] /\ call[s] # Idle
        BY <1>5, <2>1 DEF Doing
      <3>2. /\ call[s].group \in Groups /\ Home[s] \in Processes
            /\ Holds(s, Home[s], call[s].group) /\ Holds(t, p, g)
        BY <1>1, <1>2, <2>1, <3>1, CallFacts DEF Doing, Holds
      <3>3. Home[s] # p \/ call[s].group # g
        BY <1>1, <1>2, <3>1, <3>2 DEF Mutex
      <3>4. ~HasWriter(Home[s], call[s].group)
        BY <2>1, <3>1 DEF Inv, OpensWhatIsMissing, Doing
      <3> QED
        BY <1>7, <3>1, <3>2, <3>3, <3>4 DEF HasWriter
    <2>2. \A l \in live' : l[3] # 0
      BY <1>4, <1>10 DEF Inv, OpensWhatIsMissing
    <2> QED
      BY <2>1, <2>2 DEF OpensWhatIsMissing
  <1>18. ReadersFoundADatabase'
    BY <1>1, <1>4, <1>5, <1>6, <1>9, CallFacts
    DEF Inv, ReadersFoundADatabase, Doing, HasReader
  <1> QED
    BY <1>11, <1>12, <1>13, <1>14, <1>15, <1>16, <1>17, <1>18, TypeOKParts, PTL
    DEF Inv

(* A writer that fails to open may have fenced the others: not one of its  *)
(* own process, which has none.                                            *)
LEMMA OpenFailsInv ==
  ASSUME Inv, NEW t \in Threads, OpenFails(t)
  PROVE  Inv'
  <1> DEFINE g == call[t].group
             p == Home[t]
  <1>1. Types /\ Mutex
    BY TypeOKParts DEF Inv
  <1>2. /\ call[t] # Idle /\ call[t].next # "lock" /\ g \in Groups
        /\ p \in Processes /\ End(t)
    BY <1>1, CallFacts DEF OpenFails, Doing
  <1>3. UNCHANGED <<version, writer, view, reader, closed, live, handle, own>>
    BY DEF OpenFails
  <1>4. /\ call' \in [Threads -> {Idle} \cup Calls]
        /\ lock' \in [Processes -> [Groups -> Threads \cup {NoThread}]]
        /\ Mutex'
        /\ \A s \in Threads, n \in {"reader", "writer"} :
              Doing(s, n)' => Doing(s, n) /\ call'[s] = call[s]
    BY <1>1, <1>2, EndStep
  <1>5. CASE UNCHANGED <<epoch, opener>>
    <2>1. Types'
      BY <1>1, <1>3, <1>4, <1>5 DEF Types
    <2> QED
      BY <1>3, <1>4, <1>5, <2>1, QuietStep
  <1>6. CASE /\ Doing(t, "writer")
             /\ epoch[g] < MaxEpoch
             /\ epoch' = [epoch EXCEPT ![g] = @ + 1]
             /\ opener' = [opener EXCEPT ![g] = Home[t]]
    <2>1. writer[p][g] = 0
      BY <1>6 DEF Inv, OpensWhatIsMissing, HasWriter
    <2>2. epoch[g] + 1 \in Epochs /\ epoch[g] + 1 # 0
      BY <1>1, <1>2, <1>6, ClientsAssumption DEF Types, Epochs
    <2>3. /\ epoch' \in [Groups -> Epochs] /\ opener' \in [Groups -> Processes]
          /\ epoch'[g] # 0 /\ opener'[g] = p
          /\ \A h \in Groups \ {g} : epoch'[h] = epoch[h] /\ opener'[h] = opener[h]
      BY <1>1, <1>2, <1>6, <2>2 DEF Types
    <2>4. Types'
      BY <1>1, <1>3, <1>4, <2>3 DEF Types
    <2>5. OpenWritersAreCached' /\ OwnWritesAreCommitted'
      BY <1>3 DEF Inv, OpenWritersAreCached, OwnWritesAreCommitted
    <2>6. ReadsSeeOwnWrites'
      BY <1>3
      DEF Inv, ReadsSeeOwnWrites, HasWriter, HasReader, ReadsThroughWriter
    <2>7. NeverFencesItself'
      BY <1>2, <1>3, <2>1, <2>3 DEF Inv, NeverFencesItself, HasWriter
    <2>8. OpensWhatIsMissing'
      BY <1>3, <1>4 DEF Inv, OpensWhatIsMissing, HasWriter
    <2>9. ReadersFoundADatabase'
      <3>1. \A q \in Processes, h \in Groups : HasReader(q, h)' => epoch'[h] # 0
        BY <1>3, <2>3 DEF Inv, ReadersFoundADatabase, HasReader
      <3>2. ASSUME NEW s \in Threads, Doing(s, "writer")'
            PROVE  call'[s].create \/ epoch'[call'[s].group] # 0
        <4>1. Doing(s, "writer") /\ call'[s] = call[s] /\ call[s].group \in Groups
          BY <1>1, <1>4, <3>2, CallFacts DEF Doing
        <4>2. call[s].create \/ epoch[call[s].group] # 0
          BY <4>1 DEF Inv, ReadersFoundADatabase
        <4> QED
          BY <2>3, <4>1, <4>2
      <3> QED
        BY <3>1, <3>2 DEF ReadersFoundADatabase
    <2> QED
      BY <1>4, <2>4, <2>5, <2>6, <2>7, <2>8, <2>9, TypeOKParts, PTL DEF Inv
  <1> QED
    BY <1>5, <1>6 DEF OpenFails

LEMMA ReturnInv ==
  ASSUME Inv, NEW t \in Threads, Return(t)
  PROVE  Inv'
  <1> DEFINE g == call[t].group
             p == Home[t]
             client == [op |-> call[t].op, group |-> g,
                        epoch |-> IF call[t].op = "write" \/ ReadsThroughWriter(p, g)
                                    THEN writer[p][g] ELSE 0]
  <1>1. Types /\ Mutex
    BY TypeOKParts DEF Inv
  <1>2. /\ call[t] # Idle /\ call[t].next # "lock" /\ g \in Groups
        /\ p \in Processes /\ End(t) /\ call[t].op \in {"read", "write"}
    BY <1>1, CallFacts DEF Return, Doing
  <1>3. UNCHANGED <<epoch, version, writer, view, reader, closed, live, opener, own>>
    BY DEF Return, database, history
  <1>4. client \in FileClients
    BY <1>1, <1>2, Constants DEF Types, FileClients
  <1>5. handle' = [handle EXCEPT ![t] = client] \/ handle' = handle
    BY DEF Return
  <1>6. handle' \in [Threads -> {NoHandle} \cup FileClients]
    <2> HIDE DEF client
    <2> QED
      BY <1>1, <1>4, <1>5 DEF Types
  <1>7. /\ call' \in [Threads -> {Idle} \cup Calls]
        /\ lock' \in [Processes -> [Groups -> Threads \cup {NoThread}]]
        /\ Mutex'
        /\ \A s \in Threads, n \in {"reader", "writer"} :
              Doing(s, n)' => Doing(s, n) /\ call'[s] = call[s]
    BY <1>1, <1>2, EndStep
  <1>8. Types'
    BY <1>1, <1>3, <1>6, <1>7 DEF Types
  <1> QED
    BY <1>3, <1>7, <1>8, QuietStep

(* Only the writer that is cached commits, and it shows what it committed. *)
LEMMA CommitInv ==
  ASSUME Inv, NEW t \in Threads, Commit(t)
  PROVE  Inv'
  <1> DEFINE g == handle[t].group
             p == Home[t]
             v == version[g] + 1
  <1>1. Types /\ Mutex
    BY TypeOKParts DEF Inv
  <1>2. g \in Groups /\ p \in Processes
    <2>1. handle[t] # NoHandle
      BY DEF Commit, NoHandle
    <2> QED
      BY <1>1, <2>1, Constants DEF Types, FileClients
  <1>3. writer[p][g] # 0
    <2>1. <<p, g, handle[t].epoch>> \in live
      BY DEF Commit
    <2> QED
      BY <2>1 DEF Inv, OpenWritersAreCached, OpensWhatIsMissing
  <1>4. v \in Versions /\ version[g] \in Nat
    BY <1>1, <1>2, ClientsAssumption DEF Commit, Types, Versions
  <1>5. UNCHANGED <<epoch, writer, reader, lock, closed, live, call, handle, opener>>
    BY DEF Commit
  <1>6. /\ version' \in [Groups -> Versions] /\ version'[g] = v
        /\ \A h \in Groups \ {g} : version'[h] = version[h]
    BY <1>1, <1>2, <1>4 DEF Commit, Types
  <1>7. view' = [view EXCEPT ![p][g] = v] /\ own' = [own EXCEPT ![p][g] = v]
    BY DEF Commit
  <1>8. /\ view' \in [Processes -> [Groups -> Versions]]
        /\ own' \in [Processes -> [Groups -> Versions]]
        /\ \A q \in Processes, h \in Groups :
             /\ view'[q][h] = IF q = p /\ h = g THEN v ELSE view[q][h]
             /\ own'[q][h] = IF q = p /\ h = g THEN v ELSE own[q][h]
    <2>1. /\ view \in [Processes -> [Groups -> Versions]]
          /\ own \in [Processes -> [Groups -> Versions]]
      BY <1>1 DEF Types
    <2> HIDE DEF p, g, v
    <2> QED
      BY <1>2, <1>4, <1>7, <2>1, Updated
  <1>9. Types'
    BY <1>1, <1>5, <1>6, <1>8 DEF Types
  <1>10. Mutex'
    BY <1>1, <1>5 DEF Mutex, Holds
  <1>11. (OpenWritersAreCached /\ NeverFencesItself)'
    BY <1>5 DEF Inv, OpenWritersAreCached, NeverFencesItself, HasWriter
  <1>12. (OpensWhatIsMissing /\ ReadersFoundADatabase)'
    BY <1>5
    DEF Inv, OpensWhatIsMissing, ReadersFoundADatabase, HasWriter, HasReader, Doing
  <1>13. ASSUME NEW q \in Processes, NEW h \in Groups
         PROVE  /\ own'[q][h] <= version'[h]
                /\ (HasWriter(q, h) \/ HasReader(q, h))' =>
                     ((IF ReadsThroughWriter(q, h) THEN view[q][h]
                                                  ELSE reader[q][h]) >= own[q][h])'
    <2>1. CASE q = p /\ h = g
      <3>1. /\ own'[q][h] = v /\ view'[q][h] = v /\ version'[h] = v
            /\ writer'[q][h] # 0 /\ v \in Nat
        BY <1>3, <1>4, <1>5, <1>6, <1>8, <2>1, Constants
      <3> HIDE DEF v
      <3> QED
        BY <3>1 DEF ReadsThroughWriter, HasWriter
    <2>2. CASE ~(q = p /\ h = g)
      <3>1. /\ writer'[q][h] = writer[q][h] /\ view'[q][h] = view[q][h]
            /\ reader'[q][h] = reader[q][h] /\ own'[q][h] = own[q][h]
        BY <1>5, <1>8, <2>2
      <3>2. own[q][h] <= version[h] /\ own[q][h] \in Nat /\ version[h] \in Nat
        BY <1>1, Constants DEF Types, Inv, OwnWritesAreCommitted
      <3>3. version'[h] = version[h] \/ version'[h] = version[h] + 1
        BY <1>6
      <3>4. own'[q][h] <= version'[h]
        BY <3>1, <3>2, <3>3
      <3> QED
        BY <3>1, <3>4
        DEF Inv, ReadsSeeOwnWrites, ReadsThroughWriter, HasWriter, HasReader
    <2> QED
      BY <2>1, <2>2
  <1>14. (ReadsSeeOwnWrites /\ OwnWritesAreCommitted)'
    BY <1>13 DEF ReadsSeeOwnWrites, OwnWritesAreCommitted
  <1> QED
    BY <1>9, <1>10, <1>11, <1>12, <1>14, TypeOKParts, PTL DEF Inv

LEMMA DropInv ==
  ASSUME Inv, NEW t \in Threads, Drop(t)
  PROVE  Inv'
  <1>1. Types /\ Mutex
    BY TypeOKParts DEF Inv
  <1>2. UNCHANGED <<epoch, version, writer, view, reader, lock, closed, live, call,
                    opener, own>>
    BY DEF Drop, database, clients, history
  <1>3. Types'
    BY <1>1, <1>2 DEF Drop, Types
  <1>4. Mutex'
    BY <1>1, <1>2 DEF Mutex, Holds
  <1> QED
    BY <1>2, <1>3, <1>4, QuietStep DEF Doing

LEMMA PollInv ==
  ASSUME Inv, NEW p \in Processes, NEW g \in Groups, Poll(p, g)
  PROVE  Inv'
  <1>1. Types /\ Mutex
    BY TypeOKParts DEF Inv
  <1>2. UNCHANGED <<epoch, version, writer, view, lock, closed, live, call, handle,
                    opener, own>>
    BY DEF Poll, database, history
  <1>3. /\ reader' \in [Processes -> [Groups -> Versions \cup {NoReader}]]
        /\ \A q \in Processes, h \in Groups :
             reader'[q][h] = IF q = p /\ h = g THEN version[g] ELSE reader[q][h]
    <2>1. /\ version[g] \in Versions \cup {NoReader}
          /\ reader \in [Processes -> [Groups -> Versions \cup {NoReader}]]
      BY <1>1 DEF Types
    <2> QED
      BY <2>1, Updated DEF Poll
  <1>4. Types'
    BY <1>1, <1>2, <1>3 DEF Types
  <1>5. Mutex'
    BY <1>1, <1>2 DEF Mutex, Holds
  <1>6. (OpenWritersAreCached /\ NeverFencesItself /\ OwnWritesAreCommitted)'
    BY <1>2
    DEF Inv, OpenWritersAreCached, NeverFencesItself, OwnWritesAreCommitted, HasWriter
  <1>7. OpensWhatIsMissing'
    BY <1>2 DEF Inv, OpensWhatIsMissing, HasWriter, Doing
  <1>8. ReadersFoundADatabase'
    BY <1>2, <1>3 DEF Poll, Inv, ReadersFoundADatabase, HasReader, Doing
  <1>9. ReadsSeeOwnWrites'
    BY <1>1, <1>2, <1>3, Constants
    DEF Poll, Types, Inv, ReadsSeeOwnWrites, OwnWritesAreCommitted, HasWriter,
        HasReader, ReadsThroughWriter
  <1> QED
    BY <1>4, <1>5, <1>6, <1>7, <1>8, <1>9, TypeOKParts, PTL DEF Inv

(* A process that loses its clients, by closing or by ending, loses all of *)
(* them and all of its writers.                                            *)
LEMMA ClientsGone ==
  ASSUME Inv, NEW p \in Processes,
         writer' = Empty(writer, p, 0),
         reader' = Empty(reader, p, NoReader),
         live' = {l \in live : l[1] # p},
         UNCHANGED <<epoch, version, view, opener>>,
         \A q \in Processes \ {p}, g \in Groups : own'[q][g] = own[q][g],
         \A g \in Groups : own'[p][g] \in {0, own[p][g]},
         Types', Mutex',
         \A s \in Threads, n \in {"reader", "writer"} :
           Doing(s, n)' => Doing(s, n) /\ call'[s] = call[s]
  PROVE  Inv'
  <1>1. Types /\ Mutex
    BY TypeOKParts DEF Inv
  <1>2. \A q \in Processes, g \in Groups :
          /\ writer'[q][g] = IF q = p THEN 0 ELSE writer[q][g]
          /\ reader'[q][g] = IF q = p THEN NoReader ELSE reader[q][g]
    BY <1>1 DEF Empty, Types
  <1>3. OpenWritersAreCached'
    BY <1>1, <1>2 DEF Types, Inv, OpenWritersAreCached
  <1>4. NeverFencesItself'
    BY <1>2 DEF Inv, NeverFencesItself, HasWriter
  <1>5. ReadsSeeOwnWrites'
    BY <1>2 DEF Inv, ReadsSeeOwnWrites, HasWriter, HasReader, ReadsThroughWriter
  <1>6. OpensWhatIsMissing'
    <2>1. ASSUME NEW s \in Threads, Doing(s, "reader")' \/ Doing(s, "writer")'
          PROVE  ~HasWriter(Home[s], call[s].group)'
      <3>1. /\ Doing(s, "reader") \/ Doing(s, "writer")
            /\ call'[s] = call[s] /\ call[s] # Idle
        BY <2>1 DEF Doing
      <3>2. ~HasWriter(Home[s], call[s].group)
        BY <3>1 DEF Inv, OpensWhatIsMissing
      <3> QED
        BY <1>1, <1>2, <3>1, <3>2, CallFacts DEF HasWriter
    <2> QED
      BY <2>1 DEF Inv, OpensWhatIsMissing
  <1>7. ReadersFoundADatabase'
    BY <1>2 DEF Inv, ReadersFoundADatabase, HasReader
  <1>8. OwnWritesAreCommitted'
    <2> SUFFICES ASSUME NEW q \in Processes, NEW g \in Groups
                 PROVE  own'[q][g] <= version'[g]
      BY DEF OwnWritesAreCommitted
    <2>1. /\ own[q][g] <= version[g] /\ version[g] \in Nat
          /\ version'[g] = version[g]
      BY <1>1, Constants DEF Types, Inv, OwnWritesAreCommitted
    <2>2. own'[q][g] = own[q][g] \/ own'[q][g] = 0
      OBVIOUS
    <2> QED
      BY <2>1, <2>2
  <1> QED
    BY <1>3, <1>4, <1>5, <1>6, <1>7, <1>8, TypeOKParts, PTL DEF Inv

LEMMA CloseInv ==
  ASSUME Inv, NEW p \in Processes, Close(p)
  PROVE  Inv'
  <1>1. Types /\ Mutex
    BY TypeOKParts DEF Inv
  <1>2. UNCHANGED <<epoch, version, view, lock, call, handle, opener, own>>
    BY DEF Close, database, history
  <1>3. Types'
    <2>1. /\ writer' \in [Processes -> [Groups -> Epochs]]
          /\ reader' \in [Processes -> [Groups -> Versions \cup {NoReader}]]
      BY <1>1, Constants DEF Close, Empty, Types
    <2>2. closed' \in [Processes -> BOOLEAN]
      BY <1>1 DEF Close, Types
    <2>3. live' \subseteq Processes \X Groups \X Epochs
      BY <1>1 DEF Close, Types
    <2> QED
      BY <1>1, <1>2, <2>1, <2>2, <2>3 DEF Types
  <1>4. Mutex'
    BY <1>1, <1>2 DEF Mutex, Holds
  <1>5. /\ writer' = Empty(writer, p, 0) /\ reader' = Empty(reader, p, NoReader)
        /\ live' = {l \in live : l[1] # p}
    BY DEF Close
  <1>6. \A s \in Threads, n \in {"reader", "writer"} :
          Doing(s, n)' => Doing(s, n) /\ call'[s] = call[s]
    BY <1>2 DEF Doing
  <1> QED
    BY <1>2, <1>3, <1>4, <1>5, <1>6, ClientsGone

LEMMA RestartInv ==
  ASSUME Inv, NEW p \in Processes, Restart(p)
  PROVE  Inv'
  <1>1. Types /\ Mutex
    BY TypeOKParts DEF Inv
  <1>2. UNCHANGED <<epoch, version, view, opener>>
    BY DEF Restart, database
  <1>3. \A s \in Threads : call'[s] = IF Home[s] = p THEN Idle ELSE call[s]
    BY DEF Restart
  <1>4. /\ \A g \in Groups : lock'[p][g] = NoThread /\ own'[p][g] = 0
        /\ \A q \in Processes \ {p}, g \in Groups :
             lock'[q][g] = lock[q][g] /\ own'[q][g] = own[q][g]
    BY <1>1 DEF Restart, Empty, Types
  <1>5. Types'
    <2>1. /\ writer' \in [Processes -> [Groups -> Epochs]]
          /\ reader' \in [Processes -> [Groups -> Versions \cup {NoReader}]]
      BY <1>1, Constants DEF Restart, Empty, Types
    <2>2. /\ lock' \in [Processes -> [Groups -> Threads \cup {NoThread}]]
          /\ own' \in [Processes -> [Groups -> Versions]]
      BY <1>1, Constants DEF Restart, Empty, Types
    <2>3. closed' \in [Processes -> BOOLEAN]
      BY <1>1 DEF Restart, Types
    <2>4. live' \subseteq Processes \X Groups \X Epochs
      BY <1>1 DEF Restart, Types
    <2>5. call' \in [Threads -> {Idle} \cup Calls]
      BY <1>1 DEF Restart, Types
    <2>6. handle' \in [Threads -> {NoHandle} \cup FileClients]
      BY <1>1 DEF Restart, Types
    <2> QED
      BY <1>1, <1>2, <2>1, <2>2, <2>3, <2>4, <2>5, <2>6 DEF Types
  <1>6. Mutex'
    <2> SUFFICES ASSUME NEW q \in Processes, NEW g \in Groups, NEW s \in Threads
                 PROVE  lock'[q][g] = s <=> Holds(s, q, g)'
      BY DEF Mutex
    <2>1. CASE q = p
      <3>1. ~Holds(s, q, g)'
        BY <1>3, <2>1 DEF Holds
      <3> QED
        BY <1>4, <2>1, <3>1, Constants
    <2>2. CASE q # p
      <3>1. Holds(s, q, g)' <=> Holds(s, q, g)
        BY <1>3, <2>2 DEF Holds
      <3> QED
        BY <1>1, <1>4, <2>2, <3>1 DEF Mutex
    <2> QED
      BY <2>1, <2>2
  <1>7. /\ writer' = Empty(writer, p, 0) /\ reader' = Empty(reader, p, NoReader)
        /\ live' = {l \in live : l[1] # p}
    BY DEF Restart
  <1>8. \A s \in Threads, n \in {"reader", "writer"} :
          Doing(s, n)' => Doing(s, n) /\ call'[s] = call[s]
    BY <1>3 DEF Doing
  <1> QED
    BY <1>2, <1>4, <1>5, <1>6, <1>7, <1>8, ClientsGone

LEMMA StutterInv == Inv /\ UNCHANGED vars => Inv'
  <1> SUFFICES ASSUME Inv, UNCHANGED vars PROVE Inv'
    OBVIOUS
  <1>1. Types /\ Mutex
    BY TypeOKParts DEF Inv
  <1>2. Types'
    BY <1>1 DEF Types, vars, database, clients, history
  <1>3. Mutex'
    BY <1>1 DEF Mutex, Holds, vars, clients
  <1> QED
    BY <1>2, <1>3, QuietStep DEF Doing, vars, database, clients, history

LEMMA NextInv == Inv /\ [Next]_vars => Inv'
  <1> SUFFICES ASSUME Inv, [Next]_vars PROVE Inv'
    OBVIOUS
  <1>1. ASSUME NEW t \in Threads, NEW op \in {"read", "write"}, NEW g \in Groups,
               NEW create \in BOOLEAN, Begin(t, op, g, create)
        PROVE  Inv'
    BY <1>1, BeginInv
  <1>2. ASSUME NEW t \in Threads, LockGroup(t) PROVE Inv'
    BY <1>2, LockGroupInv
  <1>3. ASSUME NEW t \in Threads, Work(t) PROVE Inv'
    BY <1>3, OpenReaderInv, OpenWriterInv, OpenFailsInv, ReturnInv DEF Work
  <1>4. ASSUME NEW t \in Threads, Commit(t) \/ Drop(t) PROVE Inv'
    BY <1>4, CommitInv, DropInv
  <1>5. ASSUME NEW p \in Processes, NEW g \in Groups, Poll(p, g) PROVE Inv'
    BY <1>5, PollInv
  <1>6. ASSUME NEW p \in Processes, Close(p) \/ Restart(p) PROVE Inv'
    BY <1>6, CloseInv, RestartInv
  <1>7. CASE UNCHANGED vars
    BY <1>7, StutterInv
  <1> QED
    BY <1>1, <1>2, <1>3, <1>4, <1>5, <1>6, <1>7 DEF Next

(* Inv is an invariant of every behaviour, whatever the number of          *)
(* processes, threads and groups and with or without coordination.         *)
THEOREM SlateDbClientsInvariant == Spec => []Inv
  <1> QED
    BY InitInv, NextInv, PTL DEF Spec

(* read_client and write_db keep the cached clients well typed, and the    *)
(* mutex of a client is held by the one thread that is past locking it.    *)
THEOREM SlateDbClientsTypeOK == Spec => []TypeOK
  <1>1. Inv => TypeOK
    BY DEF Inv
  <1> QED
    BY <1>1, SlateDbClientsInvariant, PTL

(* No writer is ever open that is not the one cached for its group: none   *)
(* is replaced without being closed, and close leaves none behind.         *)
THEOREM SlateDbClientsOpenWritersAreCached == Spec => []OpenWritersAreCached
  <1>1. Inv => OpenWritersAreCached
    BY DEF Inv
  <1> QED
    BY <1>1, SlateDbClientsInvariant, PTL

(* A process never fences its own writer, also not when it fails to open   *)
(* one.                                                                    *)
THEOREM SlateDbClientsNeverFencesItself == Spec => []NeverFencesItself
  <1>1. Inv => NeverFencesItself
    BY DEF Inv
  <1> QED
    BY <1>1, SlateDbClientsInvariant, PTL

(* Whatever client read_client returns shows what its own process has      *)
(* committed.                                                              *)
THEOREM SlateDbClientsReadsSeeOwnWrites == Spec => []ReadsSeeOwnWrites
  <1>1. Inv => ReadsSeeOwnWrites
    BY DEF Inv
  <1> QED
    BY <1>1, SlateDbClientsInvariant, PTL

(* A call opens a writer only where it may create the database or where    *)
(* the database was there before.                                          *)
LEMMA CreatorsMayCreate ==
  ASSUME Inv, [Next]_vars, NEW g \in Groups, epoch[g] = 0, epoch'[g] # 0
  PROVE  \E t \in Threads : /\ Doing(t, "writer")
                            /\ call[t].group = g /\ call[t].create
  <1>1. Types
    BY TypeOKParts DEF Inv
  <1>2. PICK t \in Threads : OpenWriter(t) \/ OpenFails(t)
    BY DEF Next, vars, Begin, LockGroup, Work, OpenReader, Return, Commit, Drop,
           Poll, Close, Restart, database
  <1>3. Doing(t, "writer") /\ call[t].group = g
    <2>1. \/ UNCHANGED epoch
          \/ /\ Doing(t, "writer")
             /\ epoch' = [epoch EXCEPT ![call[t].group] = epoch[call[t].group] + 1]
      BY <1>2 DEF OpenWriter, OpenFails
    <2> QED
      BY <1>1, <2>1 DEF Types
  <1>4. call[t].create \/ epoch[call[t].group] # 0
    BY <1>3 DEF Inv, ReadersFoundADatabase
  <1> QED
    BY <1>3, <1>4

(* A call that may not create a database never does, also when the one it  *)
(* saw is only half created by a writer that failed to open.               *)
THEOREM SlateDbClientsOnlyCreateCreates == Spec => OnlyCreateCreates
  <1>1. Inv /\ [Next]_vars =>
          [\A g \in Groups : epoch[g] = 0 /\ epoch'[g] # 0 =>
             \E t \in Threads : /\ Doing(t, "writer")
                                /\ call[t].group = g /\ call[t].create]_vars
    BY CreatorsMayCreate
  <1> QED
    BY <1>1, SlateDbClientsInvariant, PTL DEF Spec, OnlyCreateCreates
=============================================================================
