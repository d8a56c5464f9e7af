--------------------------- MODULE CatalogProofs ---------------------------
(***************************************************************************)
(* Proofs about Catalog, for every set of clients and paths and every      *)
(* width of file ids.                                                      *)
(***************************************************************************)
EXTENDS Catalog, TLAPS

LEMMA InitInv == Init => Inv
  <1> SUFFICES ASSUME Init PROVE Inv
    OBVIOUS
  <1> USE CatalogAssumption DEF Init
  <1>1. TypeOK
    BY DEF TypeOK, FileIds, NoFile, NoHandle, Handles
  <1>2. \A c \in Clients : call[c].op = "idle" /\ handle[c] = NoHandle
    BY DEF Idle
  <1>3. PathsResolve /\ OneNamePerFile /\ OrphansHadWriters
    BY DEF PathsResolve, OneNamePerFile, OrphansHadWriters
  <1>4. IdsAreNeverReused
    BY DEF IdsAreNeverReused, Named, NoFile, NoHandle, FileIds
  <1>5. WritersAreKnown
    BY <1>2 DEF WritersAreKnown, NoHandle
  <1>6. SnapshotIsCurrent /\ CallsKnowIds
    BY <1>2 DEF SnapshotIsCurrent, CallsKnowIds, Transactions
  <1> QED
    BY <1>1, <1>3, <1>4, <1>5, <1>6 DEF Inv

(* Types of one client's call.                                             *)
LEMMA CallTypes ==
  ASSUME TypeOK, NEW c \in Clients, call[c].op \in Transactions
  PROVE  call[c] \in TxnCalls
  <1>1. call[c] \in {Idle} \cup OpenCalls \cup TxnCalls
    BY DEF TypeOK
  <1>2. call[c] # Idle
    BY DEF Idle, Transactions
  <1>3. call[c] \notin OpenCalls
    BY DEF OpenCalls, Transactions
  <1> QED
    BY <1>1, <1>2, <1>3

(* A client that only begins or ends its own call disturbs nothing but     *)
(* what that call must satisfy.                                            *)
LEMMA OwnCallStep ==
  ASSUME Inv, NEW c \in Clients, NEW t \in {Idle} \cup OpenCalls \cup TxnCalls,
         call' = [call EXCEPT ![c] = t],
         UNCHANGED <<store, handle, unlinked>>,
         corrupt' \subseteq Clients,
         t.op = "open" => t.id < nextId,
         t.op \in Transactions =>
           /\ t.victim < nextId
           /\ t.op # "move" => t.target = t.path /\ t.victim = NoFile
           /\ IF t.op = "create" THEN t.id < MaxU64 ELSE t.id < nextId
           /\ t.op = "create" => paths[t.path] = NoFile /\ t.id = nextId
           /\ t.op # "create" => paths[t.path] = t.id
           /\ t.op = "move"   => t.path # t.target /\ paths[t.target] = t.victim
  PROVE  Inv'
  <1> USE DEF Inv, store
  <1>1. call'[c] = t /\ \A d \in Clients : d # c => call'[d] = call[d]
    BY DEF TypeOK
  <1>2. TypeOK'
    BY DEF TypeOK
  <1>3. (PathsResolve /\ OneNamePerFile /\ IdsAreNeverReused
          /\ OrphansHadWriters /\ WritersAreKnown)'
    BY DEF PathsResolve, OneNamePerFile, IdsAreNeverReused, Named,
           OrphansHadWriters, WritersAreKnown
  <1>4. SnapshotIsCurrent'
    <2> SUFFICES ASSUME NEW d \in Clients, call'[d].op \in Transactions,
                        ~Conflicts(call'[d])
                 PROVE  /\ call'[d].op = "create" =>
                             paths[call'[d].path] = NoFile /\ call'[d].id = nextId
                        /\ call'[d].op # "create" =>
                             paths[call'[d].path] = call'[d].id
                        /\ call'[d].op = "move" =>
                             /\ call'[d].path # call'[d].target
                             /\ paths[call'[d].target] = call'[d].victim
      BY DEF SnapshotIsCurrent, Conflicts, Footprint, Victim
    <2>1. CASE d = c
      BY <1>1, <2>1
    <2>2. CASE d # c
      BY <1>1, <2>2 DEF SnapshotIsCurrent
    <2> QED
      BY <2>1, <2>2
  <1>5. CallsKnowIds'
    BY <1>1 DEF CallsKnowIds
  <1> QED
    BY <1>2, <1>3, <1>4, <1>5

(* What applying the batch of a transaction without a conflict does to the *)
(* catalog and to the calls of the others.                                 *)
LEMMA ApplyStep ==
  ASSUME Inv, NEW c \in Clients, call[c].op \in Transactions,
         ~Conflicts(call[c]), Apply(call[c]),
         call' = Notify([call EXCEPT ![c] = Idle], WriteSet(call[c]))
  PROVE  /\ paths' \in [Paths -> FileIds \cup {NoFile}]
         /\ metas' \subseteq FileIds
         /\ chunks' \subseteq FileIds
         /\ nextId' \in FileIds
         /\ nextId <= nextId'
         /\ call' \in [Clients -> {Idle} \cup OpenCalls \cup TxnCalls]
         /\ unlinked' \subseteq FileIds
         /\ \A id \in metas' \cup chunks' \cup Named' \cup unlinked' : id < nextId'
         /\ (PathsResolve /\ OneNamePerFile /\ OrphansHadWriters
               /\ SnapshotIsCurrent /\ CallsKnowIds)'
         /\ \A d \in Clients : handle[d].writable =>
                                  handle[d].id \in Named' \cup unlinked'
         /\ Opens(call[c]) => call[c].id \in Named' /\ call[c].id < nextId'
  <1> DEFINE t == call[c]
             written == WriteSet(t)
  <1> USE CatalogAssumption
  <1>0. t \in TxnCalls
    BY CallTypes DEF Inv
  <1>1. /\ t.path \in Paths /\ t.target \in Paths /\ t.id \in FileIds
        /\ t.victim \in FileIds \cup {NoFile} /\ t.op \in Transactions
        /\ t.changed \subseteq Keys
    BY <1>0 DEF TxnCalls
  <1>2. /\ t.op = "create" => paths[t.path] = NoFile /\ t.id = nextId
        /\ t.op # "create" => paths[t.path] = t.id
        /\ t.op = "move" => t.path # t.target /\ paths[t.target] = t.victim
    BY DEF Inv, SnapshotIsCurrent
  <1>3. /\ t.victim < nextId
        /\ IF t.op = "create" THEN t.id < MaxU64 ELSE t.id < nextId
    BY DEF Inv, CallsKnowIds
  <1>4. written \subseteq Keys
    BY <1>1 DEF WriteSet, Footprint, Victim, Keys
  <1>5. /\ call'[c] = Idle
        /\ \A d \in Clients : d # c /\ call[d].op \notin Transactions =>
             call'[d] = call[d]
    BY DEF Inv, TypeOK, Notify, Idle, Transactions
  <1>6. \A d \in Clients : d # c /\ call[d].op \in Transactions =>
          /\ call[d] \in TxnCalls
          /\ call'[d] \in TxnCalls
          /\ call'[d].op = call[d].op /\ call'[d].path = call[d].path
          /\ call'[d].target = call[d].target /\ call'[d].id = call[d].id
          /\ call'[d].victim = call[d].victim
          /\ call'[d].changed = call[d].changed \cup written
    <2> TAKE d \in Clients
    <2> HAVE d # c /\ call[d].op \in Transactions
    <2>1. call[d] \in TxnCalls
      BY CallTypes DEF Inv
    <2>2. call'[d] = [call[d] EXCEPT !.changed = call[d].changed \cup written]
      BY DEF Inv, TypeOK, Notify
    <2>3. call[d].changed \cup written \in SUBSET Keys
      BY <2>1, <1>4 DEF TxnCalls
    <2> HIDE DEF written
    <2> QED
      BY <2>1, <2>2, <2>3 DEF TxnCalls
  <1>7. /\ paths' \in [Paths -> FileIds \cup {NoFile}]
        /\ metas' \subseteq FileIds /\ chunks' \subseteq FileIds
        /\ unlinked' \subseteq FileIds
    BY <1>1 DEF Inv, TypeOK, Apply, Unnamed, Victim
  <1>8. nextId' \in FileIds /\ nextId <= nextId'
    BY <1>1, <1>2, <1>3 DEF Inv, TypeOK, Apply, FileIds
  <1>9. call' \in [Clients -> {Idle} \cup OpenCalls \cup TxnCalls]
    BY <1>5, <1>6 DEF Inv, TypeOK, Notify
  <1>10. paths'[t.target] = (IF t.op = "remove" THEN NoFile ELSE t.id)
         /\ (t.path # t.target => paths'[t.path] = NoFile)
         /\ \A p \in Paths : p # t.path /\ p # t.target => paths'[p] = paths[p]
    BY <1>1 DEF Inv, TypeOK, Apply
  <1>11. t.op # "move" => t.target = t.path /\ t.victim = NoFile
    BY DEF Inv, CallsKnowIds
  <1>12. \A p \in Paths : paths'[p] # NoFile =>
           \/ p = t.target /\ t.op # "remove" /\ paths'[p] = t.id
           \/ p # t.target /\ p # t.path /\ paths'[p] = paths[p]
    BY <1>1, <1>10
  <1>13. \A id \in Unnamed(t) :
           /\ id \in FileIds /\ id < nextId
           /\ t.op \in {"remove", "move"}
           /\ paths[t.target] = id
           /\ t.op = "move" => id # t.id
    BY <1>1, <1>2, <1>3, <1>11
       DEF Unnamed, Victim, Inv, OneNamePerFile, FileIds, NoFile, Transactions
  <1>14. PathsResolve'
    <2> SUFFICES ASSUME NEW p \in Paths, paths'[p] # NoFile
                 PROVE  paths'[p] \in metas'
      BY DEF PathsResolve
    <2>1. CASE p = t.target
      <3>1. t.op # "remove" /\ paths'[p] = t.id
        BY <1>12, <2>1
      <3>2. CASE Opens(t)
        BY <3>1, <3>2 DEF Apply
      <3>3. CASE t.op = "move"
        <4>1. t.id \in metas
          BY <1>1, <1>2, <3>3 DEF Inv, PathsResolve, FileIds, NoFile
        <4> QED
          BY <3>1, <3>3, <4>1, <1>13 DEF Apply, Opens
      <3> QED
        BY <1>1, <3>1, <3>2, <3>3 DEF Opens, Transactions
    <2>2. CASE p # t.target
      <3>1. p # t.path /\ paths'[p] = paths[p] /\ paths[p] \in metas
        BY <1>12, <2>2 DEF Inv, PathsResolve
      <3>2. paths[p] \notin Unnamed(t)
        BY <1>1, <1>13, <2>2, <3>1 DEF Inv, OneNamePerFile
      <3> QED
        BY <3>1, <3>2 DEF Apply
    <2> QED
      BY <2>1, <2>2
  <1>15. OneNamePerFile'
    <2> SUFFICES ASSUME NEW p \in Paths, NEW q \in Paths, p # q,
                        paths'[p] = paths'[q], paths'[p] # NoFile
                 PROVE  FALSE
      BY DEF OneNamePerFile
    <2>1. ASSUME NEW r \in Paths, r # t.target, r # t.path, t.op # "remove",
                 paths[r] # NoFile
          PROVE  paths[r] # t.id
      <3>1. CASE t.op = "create"
        <4>1. paths[r] < nextId
          BY <2>1 DEF Inv, IdsAreNeverReused, Named, TypeOK
        <4> QED
          BY <1>2, <3>1, <4>1 DEF Inv, TypeOK, FileIds
      <3>2. CASE t.op # "create"
        BY <1>1, <1>2, <2>1, <3>2 DEF Inv, OneNamePerFile
      <3> QED
        BY <3>1, <3>2
    <2>2. CASE p = t.target
      BY <1>12, <2>1, <2>2
    <2>3. CASE q = t.target
      BY <1>12, <2>1, <2>3
    <2>4. CASE p # t.target /\ q # t.target
      BY <1>12, <2>4 DEF Inv, OneNamePerFile
    <2> QED
      BY <2>2, <2>3, <2>4
  <1>16. \A id \in Named : id \in Named' \/ id \in Unnamed(t)
    <2> SUFFICES ASSUME NEW p \in Paths, paths[p] \in FileIds,
                        paths[p] \notin Unnamed(t)
                 PROVE  paths[p] \in Named'
      BY DEF Named
    <2>1. CASE p # t.path /\ p # t.target
      BY <1>10, <2>1 DEF Named
    <2>2. CASE p = t.path
      <3>1. t.op # "create" /\ paths[p] = t.id
        BY <1>2, <2>2 DEF FileIds, NoFile
      <3>2. t.op # "remove"
        BY <3>1 DEF Unnamed
      <3> QED
        BY <1>1, <1>10, <3>1, <3>2 DEF Named
    <2>3. CASE p = t.target /\ p # t.path
      BY <1>2, <1>11, <2>3 DEF Unnamed, Victim, FileIds, NoFile
    <2> QED
      BY <2>1, <2>2, <2>3
  <1>17. t.op # "remove" => t.id \in Named'
    BY <1>1, <1>10 DEF Named
  <1>18. \A id \in metas' \cup chunks' \cup Named' \cup unlinked' : id < nextId'
    <2>1. \A id \in metas \cup chunks \cup Named \cup unlinked : id < nextId'
      BY <1>8 DEF Inv, TypeOK, IdsAreNeverReused, FileIds, Named
    <2>2. t.id < nextId'
      BY <1>1, <1>2, <1>3, <1>8 DEF Apply, Inv, TypeOK, FileIds
    <2>3. Named' \subseteq Named \cup {t.id}
      BY <1>1, <1>12 DEF Named, FileIds, NoFile
    <2>4. unlinked' \subseteq unlinked \cup Unnamed(t)
      BY DEF Apply
    <2>5. \A id \in Unnamed(t) : id < nextId'
      BY <1>8, <1>13 DEF Inv, TypeOK, FileIds
    <2> QED
      BY <2>1, <2>2, <2>3, <2>4, <2>5 DEF Apply
  <1>19. OrphansHadWriters'
    <2> SUFFICES ASSUME NEW id, id \in metas' \cup chunks', id \notin Named'
                 PROVE  id \in unlinked'
      BY DEF OrphansHadWriters
    <2>1. id \in metas \cup chunks /\ id \notin Unnamed(t)
      BY <1>11, <1>17 DEF Apply, Opens, Unnamed, Victim
    <2>2. id \notin Named
      BY <1>16, <2>1
    <2> QED
      BY <2>1, <2>2 DEF Inv, OrphansHadWriters, Apply
  <1>20. \A d \in Clients : handle[d].writable =>
                                handle[d].id \in Named' \cup unlinked'
    BY <1>16 DEF Inv, WritersAreKnown, Apply, Writers
  <1>21. SnapshotIsCurrent'
    <2> SUFFICES ASSUME NEW d \in Clients, call'[d].op \in Transactions,
                        ~Conflicts(call'[d])
                 PROVE  /\ call'[d].op = "create" =>
                             paths'[call'[d].path] = NoFile /\ call'[d].id = nextId'
                        /\ call'[d].op # "create" =>
                             paths'[call'[d].path] = call'[d].id
                        /\ call'[d].op = "move" =>
                             /\ call'[d].path # call'[d].target
                             /\ paths'[call'[d].target] = call'[d].victim
      BY DEF SnapshotIsCurrent, Conflicts, Footprint, Victim
    <2>1. d # c /\ call[d].op \in Transactions
      <3>1. Idle.op \notin Transactions
        BY DEF Idle, Transactions
      <3>2. d # c
        BY <1>5, <3>1
      <3> QED
        BY <1>5, <3>2
    <2> DEFINE u == call[d]
    <2>2. /\ u \in TxnCalls
          /\ call'[d].op = u.op /\ call'[d].path = u.path
          /\ call'[d].target = u.target /\ call'[d].id = u.id
          /\ call'[d].victim = u.victim
          /\ call'[d].changed = u.changed \cup written
      BY <1>6, <2>1
    <2>3. Footprint(call'[d]) = Footprint(u)
      BY <2>2 DEF Footprint, Victim
    <2>4. Footprint(u) \cap written = {} /\ ~Conflicts(u)
      BY <2>2, <2>3 DEF Conflicts
    <2>5. /\ u.op = "create" => paths[u.path] = NoFile /\ u.id = nextId
          /\ u.op # "create" => paths[u.path] = u.id
          /\ u.op = "move" => u.path # u.target /\ paths[u.target] = u.victim
      BY <2>1, <2>4 DEF Inv, SnapshotIsCurrent
    <2>6. u.path \in Paths /\ u.target \in Paths
      BY <2>2 DEF TxnCalls
    <2>7. u.path \in Footprint(u) /\ u.target \in Footprint(u)
          /\ (u.op = "create" => NextIdKey \in Footprint(u))
      BY DEF Footprint
    <2>8. t.op = "truncate" \/ (t.path \in written /\ t.target \in written
                                 /\ (t.op = "create" => NextIdKey \in written))
      BY DEF WriteSet, Footprint
    <2>9. ASSUME NEW p \in Paths, p \in Footprint(u)
          PROVE  paths'[p] = paths[p]
      <3>1. CASE t.op = "truncate"
        BY <1>2, <1>10, <1>11, <3>1
      <3>2. CASE t.op # "truncate"
        BY <1>10, <2>4, <2>8, <2>9, <3>2
      <3> QED
        BY <3>1, <3>2
    <2>10. u.op = "create" => nextId' = nextId
      BY <2>4, <2>7, <2>8 DEF Apply
    <2> QED
      BY <2>2, <2>5, <2>6, <2>7, <2>9, <2>10
  <1>22. CallsKnowIds'
    <2> SUFFICES ASSUME NEW d \in Clients
                 PROVE  /\ call'[d].op = "open" => call'[d].id < nextId'
                        /\ call'[d].op \in Transactions =>
                             /\ call'[d].victim < nextId'
                             /\ call'[d].op # "move" =>
                                  /\ call'[d].target = call'[d].path
                                  /\ call'[d].victim = NoFile
                             /\ IF call'[d].op = "create"
                                  THEN call'[d].id < MaxU64
                                  ELSE call'[d].id < nextId'
      BY DEF CallsKnowIds
    <2>1. CASE d = c
      BY <1>5, <2>1 DEF Idle, Transactions
    <2>2. CASE d # c /\ call[d].op \in Transactions
      <3>1. call[d].victim \in Nat /\ call[d].id \in Nat
        BY <1>6, <2>2 DEF TxnCalls, FileIds, NoFile
      <3>2. nextId \in Nat /\ nextId' \in Nat /\ nextId <= nextId'
        BY <1>8 DEF Inv, TypeOK, FileIds
      <3>3. /\ call[d].victim < nextId
            /\ call[d].op # "move" =>
                 call[d].target = call[d].path /\ call[d].victim = NoFile
            /\ IF call[d].op = "create" THEN call[d].id < MaxU64
                                        ELSE call[d].id < nextId
        BY <2>2 DEF Inv, CallsKnowIds
      <3>4. /\ call'[d].op = call[d].op /\ call'[d].path = call[d].path
            /\ call'[d].target = call[d].target /\ call'[d].id = call[d].id
            /\ call'[d].victim = call[d].victim
        BY <1>6, <2>2
      <3>5. call[d].op # "open"
        BY <2>2 DEF Transactions
      <3> QED
        BY <3>1, <3>2, <3>3, <3>4, <3>5
    <2>3. CASE d # c /\ call[d].op \notin Transactions
      <3>1. call'[d] = call[d]
        BY <1>5, <2>3
      <3>2. call[d].op = "open" => call[d].id \in Nat
        BY <2>3 DEF Inv, TypeOK, OpenCalls, TxnCalls, Idle, FileIds
      <3> QED
        BY <1>8, <2>3, <3>1, <3>2 DEF Inv, TypeOK, CallsKnowIds, FileIds
    <2> QED
      BY <2>1, <2>2, <2>3
  <1>23. Opens(t) => t.id \in Named' /\ t.id < nextId'
    BY <1>17, <1>18 DEF Opens
  <1> QED
    BY <1>7, <1>8, <1>9, <1>14, <1>15, <1>18, <1>19, <1>20, <1>21, <1>22, <1>23

(* Every step preserves the invariant.                                     *)
LEMMA NextInv == Inv /\ [Next]_vars => Inv'
  <1> SUFFICES ASSUME Inv, [Next]_vars PROVE Inv'
    OBVIOUS
  <1> USE CatalogAssumption
  <1>0. nextId \in Nat /\ nextId \in FileIds
        /\ \A p \in Paths : paths[p] \in FileIds \cup {NoFile} /\ paths[p] < nextId
    BY DEF Inv, TypeOK, IdsAreNeverReused, Named, FileIds, NoFile
  <1>1. ASSUME NEW c \in Clients, NEW path \in Paths, RemoveFile(c, path)
        PROVE  Inv'
    <2> DEFINE t == [op |-> "remove", path |-> path, target |-> path,
                     id |-> paths[path], victim |-> NoFile, changed |-> {}]
    <2>1. t \in TxnCalls
      BY <1>0, <1>1 DEF RemoveFile, TxnCalls, Transactions
    <2>2. call' = [call EXCEPT ![c] = t] /\ corrupt' \subseteq Clients
          /\ UNCHANGED <<store, handle, unlinked>>
      BY <1>1 DEF RemoveFile, Begin, Inv, TypeOK
    <2>3. /\ t.op = "remove" /\ t.target = t.path /\ t.victim = NoFile
          /\ paths[t.path] = t.id /\ t.id < nextId /\ t.victim < nextId
      BY <1>0 DEF NoFile, FileIds
    <2> HIDE DEF t
    <2> QED
      BY <2>1, <2>2, <2>3, OwnCallStep
  <1>2. ASSUME NEW c \in Clients, NEW source \in Paths, NEW target \in Paths,
               MoveFile(c, source, target)
        PROVE  Inv'
    <2> DEFINE t == [op |-> "move", path |-> source, target |-> target,
                     id |-> paths[source], victim |-> paths[target],
                     changed |-> {}]
    <2>1. paths[target] # paths[source]
      BY <1>2 DEF MoveFile, Inv, OneNamePerFile
    <2>2. t \in TxnCalls
      BY <1>0, <1>2 DEF MoveFile, TxnCalls, Transactions
    <2>3. call' = [call EXCEPT ![c] = t] /\ corrupt' \subseteq Clients
          /\ UNCHANGED <<store, handle, unlinked>> /\ source # target
      BY <1>2, <2>1 DEF MoveFile, Begin, Inv, TypeOK
    <2>4. /\ t.op = "move" /\ t.path # t.target /\ paths[t.target] = t.victim
          /\ paths[t.path] = t.id /\ t.id < nextId /\ t.victim < nextId
      BY <1>0, <2>3
    <2> HIDE DEF t
    <2> QED
      BY <2>2, <2>3, <2>4, OwnCallStep
  <1>3. ASSUME NEW c \in Clients, NEW id \in FileIds, NEW w \in BOOLEAN,
               id < nextId, w => id \in Named,
               FoundFile(c, id, w), UNCHANGED <<store, unlinked>>
        PROVE  Inv'
    <2>1. \A d \in Clients : \/ call'[d] = call[d]
                             \/ call'[d] = Idle
      BY <1>3 DEF FoundFile, Inv, TypeOK
    <2>2. \A d \in Clients : \/ handle'[d] = handle[d]
                             \/ handle'[d] = [id |-> id, writable |-> w]
      BY <1>3 DEF FoundFile, Inv, TypeOK
    <2>3. Named' = Named
      BY <1>3 DEF Named, store
    <2>4. TypeOK'
      BY <1>3 DEF FoundFile, store, Inv, TypeOK, Handles
    <2>5. IdsAreNeverReused' /\ WritersAreKnown'
      BY <1>3, <2>2, <2>3 DEF Inv, IdsAreNeverReused, WritersAreKnown, store
    <2>6. PathsResolve' /\ OneNamePerFile' /\ OrphansHadWriters'
      BY <1>3, <2>3 DEF Inv, PathsResolve, OneNamePerFile, OrphansHadWriters, store
    <2>7. SnapshotIsCurrent'
      BY <1>3, <2>1 DEF Inv, SnapshotIsCurrent, store, Idle, Transactions,
                        Conflicts, Footprint, Victim
    <2>8. CallsKnowIds'
      BY <1>3, <2>1 DEF Inv, CallsKnowIds, store, Idle, Transactions
    <2> QED
      BY <2>4, <2>5, <2>6, <2>7, <2>8 DEF Inv
  <1>4. ASSUME NEW c \in Clients, NEW path \in Paths, NEW create \in BOOLEAN,
               NEW trunc \in BOOLEAN, PrepareFileForOpen(c, path, create, trunc)
        PROVE  Inv'
    <2>0. UNCHANGED <<store, unlinked>>
      BY <1>4 DEF PrepareFileForOpen
    <2>1. CASE /\ paths[path] = NoFile /\ nextId # MaxU64
               /\ Begin(c, "create", path, path, nextId, NoFile)
               /\ UNCHANGED <<corrupt, handle>>
      <3> DEFINE t == [op |-> "create", path |-> path, target |-> path,
                       id |-> nextId, victim |-> NoFile, changed |-> {}]
      <3>1. t \in TxnCalls
        BY <1>0 DEF TxnCalls, Transactions
      <3>2. call' = [call EXCEPT ![c] = t] /\ corrupt' \subseteq Clients
            /\ UNCHANGED <<store, handle, unlinked>>
        BY <2>0, <2>1 DEF Begin, Inv, TypeOK
      <3>3. /\ t.op = "create" /\ t.target = t.path /\ t.victim = NoFile
            /\ paths[t.path] = NoFile /\ t.id = nextId /\ t.id < MaxU64
            /\ t.victim < nextId
        BY <1>0, <2>1 DEF NoFile, FileIds
      <3> HIDE DEF t
      <3> QED
        BY <3>1, <3>2, <3>3, OwnCallStep
    <2>2. CASE /\ paths[path] # NoFile
               /\ Begin(c, "truncate", path, path, paths[path], NoFile)
               /\ UNCHANGED <<corrupt, handle>>
      <3> DEFINE t == [op |-> "truncate", path |-> path, target |-> path,
                       id |-> paths[path], victim |-> NoFile, changed |-> {}]
      <3>1. t \in TxnCalls
        BY <1>0, <2>2 DEF TxnCalls, Transactions
      <3>2. call' = [call EXCEPT ![c] = t] /\ corrupt' \subseteq Clients
            /\ UNCHANGED <<store, handle, unlinked>>
        BY <2>0, <2>2 DEF Begin, Inv, TypeOK
      <3>3. /\ t.op = "truncate" /\ t.target = t.path /\ t.victim = NoFile
            /\ paths[t.path] = t.id /\ t.id < nextId /\ t.victim < nextId
        BY <1>0 DEF NoFile, FileIds
      <3> HIDE DEF t
      <3> QED
        BY <3>1, <3>2, <3>3, OwnCallStep
    <2>3. CASE paths[path] # NoFile /\ FoundFile(c, paths[path], TRUE)
      BY <1>0, <1>3, <2>0, <2>3 DEF Named
    <2> QED
      BY <1>4, <2>1, <2>2, <2>3 DEF PrepareFileForOpen
  <1>5. ASSUME NEW c \in Clients, NEW path \in Paths, OpenFile(c, path)
        PROVE  Inv'
    <2> DEFINE t == [op |-> "open", id |-> paths[path]]
    <2>1. t \in OpenCalls
      BY <1>0, <1>5 DEF OpenCalls, OpenFile
    <2>2. call' = [call EXCEPT ![c] = t] /\ corrupt' \subseteq Clients
          /\ UNCHANGED <<store, handle, unlinked>>
      BY <1>5 DEF OpenFile, Inv, TypeOK
    <2>3. t.op = "open" /\ t.id < nextId /\ t.op \notin Transactions
      BY <1>0 DEF Transactions
    <2> HIDE DEF t
    <2> QED
      BY <2>1, <2>2, <2>3, OwnCallStep
  <1>6. ASSUME NEW c \in Clients, ReadMetadata(c)
        PROVE  Inv'
    <2>1. call[c] \in OpenCalls
      BY <1>6 DEF ReadMetadata, Inv, TypeOK, Idle, TxnCalls, Transactions
    <2>2. call[c].id \in FileIds /\ call[c].id < nextId
      BY <2>1 DEF OpenCalls, Inv, CallsKnowIds
    <2> QED
      BY <1>3, <1>6, <2>2 DEF ReadMetadata
  <1>7. ASSUME NEW c \in Clients, CommitConflicts(c)
        PROVE  Inv'
    <2>1. corrupt' \subseteq Clients /\ Idle.op = "idle"
          /\ Idle.op \notin Transactions
      BY <1>7 DEF CommitConflicts, Inv, TypeOK, Idle, Transactions
    <2> QED
      BY <1>7, <2>1, OwnCallStep DEF CommitConflicts
  <1>8. ASSUME NEW c \in Clients, Commit(c)
        PROVE  Inv'
    <2>1. /\ call[c].op \in Transactions /\ ~Conflicts(call[c]) /\ Apply(call[c])
          /\ call' = Notify([call EXCEPT ![c] = Idle], WriteSet(call[c]))
      BY <1>8 DEF Commit
    <2>2. call[c].id \in FileIds
      BY <2>1, CallTypes DEF Inv, TxnCalls
    <2>3. corrupt' \subseteq Clients
      BY <1>8 DEF Commit, Inv, TypeOK
    <2>4. \A d \in Clients : \/ handle'[d] = handle[d]
                             \/ /\ Opens(call[c])
                                /\ handle'[d] = [id |-> call[c].id, writable |-> TRUE]
      BY <1>8 DEF Commit, Inv, TypeOK
    <2>5. handle' \in [Clients -> Handles]
      BY <1>8, <2>2 DEF Commit, Inv, TypeOK, Handles
    <2>6. TypeOK'
      BY <2>1, <2>3, <2>5, ApplyStep DEF TypeOK
    <2>7. (PathsResolve /\ OneNamePerFile /\ OrphansHadWriters
             /\ SnapshotIsCurrent /\ CallsKnowIds)'
      BY <2>1, ApplyStep
    <2>8. \A d \in Clients : handle[d].id < nextId'
      <3>1. nextId' \in FileIds /\ nextId <= nextId'
        BY <2>1, ApplyStep
      <3> QED
        BY <3>1 DEF Inv, TypeOK, IdsAreNeverReused, Handles, FileIds, NoFile
    <2>9. Opens(call[c]) => call[c].id \in Named' /\ call[c].id < nextId'
      BY <2>1, ApplyStep
    <2>10. \A id \in metas' \cup chunks' \cup Named' \cup unlinked' : id < nextId'
      BY <2>1, ApplyStep
    <2>11. IdsAreNeverReused'
      BY <2>4, <2>8, <2>9, <2>10 DEF IdsAreNeverReused
    <2>12. \A d \in Clients : handle[d].writable =>
                                 handle[d].id \in Named' \cup unlinked'
      BY <2>1, ApplyStep
    <2>13. WritersAreKnown'
      BY <2>4, <2>9, <2>12 DEF WritersAreKnown
    <2> QED
      BY <2>6, <2>7, <2>11, <2>13 DEF Inv
  <1>9. ASSUME NEW c \in Clients, CommitFails(c)
        PROVE  Inv'
    <2>0. call[c].op \in Transactions /\ ~Conflicts(call[c])
          /\ UNCHANGED <<corrupt, handle>>
      BY <1>9 DEF CommitFails
    <2>1. CASE call' = [call EXCEPT ![c] = Idle] /\ UNCHANGED <<store, unlinked>>
      <3>1. corrupt' \subseteq Clients /\ Idle.op = "idle"
            /\ Idle.op \notin Transactions
        BY <2>0 DEF Inv, TypeOK, Idle, Transactions
      <3> QED
        BY <2>0, <2>1, <3>1, OwnCallStep
    <2>2. CASE /\ Apply(call[c])
               /\ call' = Notify([call EXCEPT ![c] = Idle], WriteSet(call[c]))
      <3>1. TypeOK'
        BY <2>0, <2>2, ApplyStep DEF Inv, TypeOK
      <3>2. (PathsResolve /\ OneNamePerFile /\ OrphansHadWriters
               /\ SnapshotIsCurrent /\ CallsKnowIds)'
        BY <2>0, <2>2, ApplyStep
      <3>3. /\ nextId' \in FileIds /\ nextId <= nextId'
            /\ \A id \in metas' \cup chunks' \cup Named' \cup unlinked' : id < nextId'
        BY <2>0, <2>2, ApplyStep
      <3>4. IdsAreNeverReused'
        BY <2>0, <3>3 DEF Inv, TypeOK, IdsAreNeverReused, Handles, FileIds, NoFile
      <3>5. \A d \in Clients : handle[d].writable =>
                                  handle[d].id \in Named' \cup unlinked'
        BY <2>0, <2>2, ApplyStep
      <3>6. WritersAreKnown'
        BY <2>0, <3>5 DEF WritersAreKnown
      <3> QED
        BY <3>1, <3>2, <3>4, <3>6 DEF Inv
    <2> QED
      BY <1>9, <2>1, <2>2 DEF CommitFails
  <1>10. ASSUME NEW c \in Clients, NEW keeps \in BOOLEAN, Sync(c, keeps)
         PROVE  Inv'
    <2> DEFINE id == handle[c].id
    <2>1. id \in Named \cup unlinked /\ id \in FileIds /\ id < nextId
      BY <1>10 DEF Sync, Inv, WritersAreKnown, TypeOK, Named, IdsAreNeverReused
    <2>2. Named' = Named
      BY <1>10 DEF Sync, Named
    <2>3. /\ metas' = metas \cup {id} /\ chunks' \subseteq chunks \cup {id}
          /\ UNCHANGED <<paths, nextId, corrupt, handle, unlinked>>
      BY <1>10 DEF Sync
    <2>4. id \in Keys
      BY <2>1 DEF Keys
    <2>5. \A d \in Clients : call[d].op \notin Transactions => call'[d] = call[d]
      BY <1>10 DEF Sync, Notify, Inv, TypeOK
    <2>6. \A d \in Clients : call[d].op \in Transactions =>
          /\ call[d] \in TxnCalls
          /\ call'[d] \in TxnCalls
          /\ call'[d].op = call[d].op /\ call'[d].path = call[d].path
          /\ call'[d].target = call[d].target /\ call'[d].id = call[d].id
          /\ call'[d].victim = call[d].victim
          /\ call'[d].changed = call[d].changed \cup {id}
      <3> TAKE d \in Clients
      <3> HAVE call[d].op \in Transactions
      <3>1. call[d] \in TxnCalls
        BY CallTypes DEF Inv
      <3>2. call'[d] = [call[d] EXCEPT !.changed = call[d].changed \cup {id}]
        BY <1>10 DEF Sync, Notify, Inv, TypeOK
      <3>3. call[d].changed \cup {id} \in SUBSET Keys
        BY <2>4, <3>1 DEF TxnCalls
      <3> HIDE DEF id
      <3> QED
        BY <3>1, <3>2, <3>3 DEF TxnCalls
    <2>7. call' \in [Clients -> {Idle} \cup OpenCalls \cup TxnCalls]
      BY <1>10, <2>5, <2>6 DEF Sync, Notify, Inv, TypeOK
    <2>8. TypeOK'
      BY <2>1, <2>3, <2>7 DEF Inv, TypeOK
    <2>9. PathsResolve' /\ OneNamePerFile'
      BY <2>3 DEF Inv, PathsResolve, OneNamePerFile
    <2>10. IdsAreNeverReused' /\ OrphansHadWriters' /\ WritersAreKnown'
      BY <2>1, <2>2, <2>3
         DEF Inv, IdsAreNeverReused, OrphansHadWriters, WritersAreKnown
    <2>11. SnapshotIsCurrent'
      <3> SUFFICES ASSUME NEW d \in Clients, call'[d].op \in Transactions,
                          ~Conflicts(call'[d])
                   PROVE  /\ call'[d].op = "create" =>
                               paths[call'[d].path] = NoFile /\ call'[d].id = nextId
                          /\ call'[d].op # "create" =>
                               paths[call'[d].path] = call'[d].id
                          /\ call'[d].op = "move" =>
                               /\ call'[d].path # call'[d].target
                               /\ paths[call'[d].target] = call'[d].victim
        BY <2>3 DEF SnapshotIsCurrent, Conflicts, Footprint, Victim
      <3>1. call[d].op \in Transactions
        BY <2>5
      <3>2. ~Conflicts(call[d])
        BY <2>6, <3>1 DEF Conflicts, Footprint, Victim
      <3> QED
        BY <2>6, <3>1, <3>2 DEF Inv, SnapshotIsCurrent
    <2>12. CallsKnowIds'
      <3> SUFFICES ASSUME NEW d \in Clients
                   PROVE  /\ call'[d].op = "open" => call'[d].id < nextId
                          /\ call'[d].op \in Transactions =>
                               /\ call'[d].victim < nextId
                               /\ call'[d].op # "move" =>
                                    /\ call'[d].target = call'[d].path
                                    /\ call'[d].victim = NoFile
                               /\ IF call'[d].op = "create"
                                    THEN call'[d].id < MaxU64
                                    ELSE call'[d].id < nextId
        BY <2>3 DEF CallsKnowIds
      <3>1. CASE call[d].op \in Transactions
        <4>1. call[d].op # "open"
          BY <3>1 DEF Transactions
        <4> QED
          BY <2>6, <3>1, <4>1 DEF Inv, CallsKnowIds
      <3>2. CASE call[d].op \notin Transactions
        BY <2>5, <3>2 DEF Inv, CallsKnowIds
      <3> QED
        BY <3>1, <3>2
    <2> QED
      BY <2>8, <2>9, <2>10, <2>11, <2>12 DEF Inv
  <1>11. ASSUME NEW c \in Clients, Close(c)
         PROVE  Inv'
    <2>1. \A d \in Clients : handle'[d] = handle[d] \/ handle'[d] = NoHandle
      BY <1>11 DEF Close, Inv, TypeOK
    <2>2. TypeOK'
      BY <1>11 DEF Close, store, Inv, TypeOK, NoHandle, Handles
    <2>3. IdsAreNeverReused' /\ WritersAreKnown'
      BY <1>0, <1>11, <2>1 DEF Close, store, Inv, IdsAreNeverReused,
         WritersAreKnown, Named, NoHandle, NoFile, FileIds
    <2> QED
      BY <1>11, <2>2, <2>3 DEF Close, store, Inv, PathsResolve, OneNamePerFile,
         OrphansHadWriters, Named, SnapshotIsCurrent, CallsKnowIds, Conflicts,
         Footprint, Victim
  <1>12. CASE Crash
    <2>1. \A d \in Clients : call'[d] = Idle /\ handle'[d] = NoHandle
      BY <1>12 DEF Crash
    <2>2. TypeOK'
      BY <1>12 DEF Crash, store, Inv, TypeOK, NoHandle, Handles
    <2>3. IdsAreNeverReused' /\ WritersAreKnown'
      BY <1>0, <1>12, <2>1 DEF Crash, store, Inv, IdsAreNeverReused,
         WritersAreKnown, Named, NoHandle, NoFile, FileIds
    <2>4. SnapshotIsCurrent' /\ CallsKnowIds'
      BY <2>1 DEF SnapshotIsCurrent, CallsKnowIds, Idle, Transactions
    <2> QED
      BY <1>12, <2>2, <2>3, <2>4 DEF Crash, store, Inv, PathsResolve,
         OneNamePerFile, OrphansHadWriters, Named
  <1>13. CASE UNCHANGED vars
    BY <1>13 DEF vars, Inv, TypeOK, PathsResolve, OneNamePerFile,
       IdsAreNeverReused, OrphansHadWriters, WritersAreKnown, Named,
       SnapshotIsCurrent, CallsKnowIds, Conflicts, Footprint, Victim
  <1> QED
    BY <1>1, <1>2, <1>4, <1>5, <1>6, <1>7, <1>8, <1>9, <1>10, <1>11, <1>12, <1>13
       DEF Next, ClientStep

(* The catalog keeps its types and its structure through every             *)
(* interleaving of transactions, syncs, failed commits and crashes.        *)
THEOREM CatalogInvariant == Spec => []Inv
  BY InitInv, NextInv, PTL DEF Spec

(* Ids, calls and stored records have their types; next_file_id never      *)
(* leaves u64.                                                             *)
THEOREM CatalogTypeOK == Spec => []TypeOK
  <1>1. Inv => TypeOK
    BY DEF Inv
  <1> QED
    BY <1>1, CatalogInvariant, PTL

(* A transaction that has met no conflict still describes the catalog.     *)
THEOREM CatalogSnapshotIsCurrent == Spec => []SnapshotIsCurrent
  <1>1. Inv => SnapshotIsCurrent
    BY DEF Inv
  <1> QED
    BY <1>1, CatalogInvariant, PTL

(* Every path that maps to a file finds that file's metadata.              *)
THEOREM CatalogPathsResolve == Spec => []PathsResolve
  <1>1. Inv => PathsResolve
    BY DEF Inv
  <1> QED
    BY <1>1, CatalogInvariant, PTL

(* No two paths map to the same file.                                      *)
THEOREM CatalogOneNamePerFile == Spec => []OneNamePerFile
  <1>1. Inv => OneNamePerFile
    BY DEF Inv
  <1> QED
    BY <1>1, CatalogInvariant, PTL

(* The id of a file, its leftovers or a handle on it is never given to     *)
(* another file.                                                           *)
THEOREM CatalogIdsAreNeverReused == Spec => []IdsAreNeverReused
  <1>1. Inv => IdsAreNeverReused
    BY DEF Inv
  <1> QED
    BY <1>1, CatalogInvariant, PTL

(* Only files removed under an open writer can leave state behind.         *)
THEOREM CatalogOrphansHadWriters == Spec => []OrphansHadWriters
  <1>1. Inv => OrphansHadWriters
    BY DEF Inv
  <1> QED
    BY <1>1, CatalogInvariant, PTL

----------------------------------------------------------------------------
(* A committed transaction is one step of the atomic names.                *)
LEMMA ApplyIsAtomic ==
  ASSUME Inv, NEW c \in Clients, call[c].op \in Transactions,
         ~Conflicts(call[c]), Apply(call[c])
  PROVE  [Names!Next]_(Names!vars)
  <1> DEFINE t == call[c]
             used == 1 .. (nextId - 1)
  <1> USE CatalogAssumption
  <1>1. t \in TxnCalls
    BY CallTypes DEF Inv
  <1>2. /\ t.path \in Paths /\ t.target \in Paths /\ t.id \in FileIds
        /\ t.op \in Transactions
    BY <1>1 DEF TxnCalls
  <1>3. /\ t.op = "create" => paths[t.path] = NoFile /\ t.id = nextId
        /\ t.op # "create" => paths[t.path] = t.id
        /\ t.op = "move" => t.path # t.target
    BY DEF Inv, SnapshotIsCurrent
  <1>4. t.op # "move" => t.target = t.path
    BY DEF Inv, CallsKnowIds
  <1>5. paths \in [Paths -> FileIds \cup {NoFile}] /\ nextId \in FileIds
    BY DEF Inv, TypeOK
  <1>6. t.op # "create" => used' = used
    BY DEF Apply
  <1>7. CASE t.op = "create"
    <2>1. paths' = [paths EXCEPT ![t.path] = t.id]
      BY <1>2, <1>4, <1>5, <1>7 DEF Apply
    <2>2. used' = used \cup {t.id}
      BY <1>3, <1>5, <1>7 DEF Apply, FileIds
    <2>3. t.id \notin used
      BY <1>3, <1>5, <1>7 DEF FileIds
    <2>4. Names!Create(t.path, t.id)
      BY <1>3, <1>7, <2>1, <2>2, <2>3 DEF Names!Create
    <2> QED
      BY <1>2, <2>4 DEF Names!Next
  <1>8. CASE t.op = "remove"
    <2>1. paths' = [paths EXCEPT ![t.path] = NoFile]
      BY <1>2, <1>4, <1>5, <1>8 DEF Apply
    <2>2. paths[t.path] # NoFile
      BY <1>2, <1>3, <1>8 DEF FileIds, NoFile
    <2>3. Names!Remove(t.path)
      BY <1>6, <1>8, <2>1, <2>2 DEF Names!Remove
    <2> QED
      BY <1>2, <2>3 DEF Names!Next
  <1>9. CASE t.op = "move"
    <2>1. paths' = [paths EXCEPT ![t.path] = NoFile, ![t.target] = paths[t.path]]
      BY <1>2, <1>3, <1>5, <1>9 DEF Apply
    <2>2. paths[t.path] # NoFile
      BY <1>2, <1>3, <1>9 DEF FileIds, NoFile
    <2>3. Names!Move(t.path, t.target)
      BY <1>3, <1>6, <1>9, <2>1, <2>2 DEF Names!Move
    <2> QED
      BY <1>2, <2>3 DEF Names!Next
  <1>10. CASE t.op = "truncate"
    <2>1. paths' = paths
      BY <1>2, <1>3, <1>4, <1>5, <1>10 DEF Apply
    <2> QED
      BY <1>6, <1>10, <2>1 DEF Names!vars
  <1> QED
    BY <1>2, <1>7, <1>8, <1>9, <1>10 DEF Transactions

(* database_metadata.rs implements atomic names: whatever the clients do   *)
(* at the same time, names change in one step, and ids are fresh.          *)
THEOREM CatalogImplementsNamespace == Spec => ImplementsNamespace
  <1>1. Init => Names!Init
    BY DEF Init, Names!Init
  <1>2. Inv /\ [Next]_vars => [Names!Next]_(Names!vars)
    <2> SUFFICES ASSUME Inv, [Next]_vars, UNCHANGED <<paths, nextId>> => FALSE
                 PROVE  [Names!Next]_(Names!vars)
      BY DEF Names!vars
    <2>1. PICK c \in Clients : Commit(c) \/ CommitFails(c)
      BY DEF Next, ClientStep, RemoveFile, MoveFile, PrepareFileForOpen, OpenFile,
         CommitConflicts, ReadMetadata, Sync, Close, Crash, vars, store
    <2>2. call[c].op \in Transactions /\ ~Conflicts(call[c]) /\ Apply(call[c])
      BY <2>1 DEF Commit, CommitFails, store
    <2> QED
      BY <2>2, ApplyIsAtomic
  <1> QED
    BY <1>1, <1>2, CatalogInvariant, PTL DEF Spec, ImplementsNamespace, Names!Spec
=============================================================================
