--------------------------- MODULE SlateDbClients ---------------------------
(***************************************************************************)
(* The SlateDB clients that SlateDbFileSystem (fs.rs) keeps: one cached    *)
(* reader and one cached writer per database group, opened on first use    *)
(* under the group's mutex, by the threads of several processes over one   *)
(* object store.                                                           *)
(*                                                                         *)
(* Opening a writer creates the database if it is missing and fences every *)
(* earlier writer of it: the manifest's epoch moves on, and a commit       *)
(* through a writer of an older epoch fails.  A reader never fences; it    *)
(* follows the manifest by polling.                                        *)
(*                                                                         *)
(* A public call (open_file, file_exists, remove_file, move_file) takes    *)
(* the client it needs (read_client or write_db) and then works on one     *)
(* file.  Here the work is a handle on the client, with any number of      *)
(* commits, or nothing when the file is not found.  A cross-group          *)
(* move_file and every call on a closed filesystem return at once, and     *)
(* have no action.                                                         *)
(***************************************************************************)
EXTENDS Integers

CONSTANTS
  Processes,    \* SlateDbFileSystem instances over one object store
  Threads,
  Home,         \* the process of every thread
  Groups,       \* values of database_group: one SlateDB each
  Coordinated,  \* is external coordination in place (README, Single writer)?
  NoThread,
  MaxEpoch,     \* bound: writers ever opened on a group
  MaxVersion    \* bound: commits ever made to a group

ASSUME ClientsAssumption ==
  /\ Home \in [Threads -> Processes]
  /\ NoThread \notin Threads
  /\ Coordinated \in BOOLEAN
  /\ MaxEpoch \in Nat /\ MaxVersion \in Nat

VARIABLES
  epoch,    \* manifest writer epoch of a group; 0 before the database exists
  version,  \* commits made to a group
  writer,   \* SlateDbClient.read_write: the epoch of the cached writer, or 0
  view,     \* the version the cached writer shows
  reader,   \* SlateDbClient.reader: the version it shows, or NoReader
  lock,     \* the thread that holds the mutex of a SlateDbClient
  closed,   \* SlateDbFileSystem.closed
  live,     \* writers open and not closed, as <<process, group, epoch>>
  call,     \* the client a thread is asking for
  handle,   \* the client the file handle of a thread works on
  opener,   \* history: the process that opened the latest writer of a group
  own       \* history: the last version a process committed itself

database == <<epoch, version>>
clients  == <<writer, view, reader, lock, closed, live>>
history  == <<opener, own>>
vars     == <<database, clients, call, handle, history>>

NoReader == -1
Idle     == [op |-> "idle"]
NoHandle == [op |-> "none"]

Init ==
  /\ epoch = [g \in Groups |-> 0]
  /\ version = [g \in Groups |-> 0]
  /\ writer = [p \in Processes |-> [g \in Groups |-> 0]]
  /\ view = [p \in Processes |-> [g \in Groups |-> 0]]
  /\ reader = [p \in Processes |-> [g \in Groups |-> NoReader]]
  /\ lock = [p \in Processes |-> [g \in Groups |-> NoThread]]
  /\ closed = [p \in Processes |-> FALSE]
  /\ live = {}
  /\ call = [t \in Threads |-> Idle]
  /\ handle = [t \in Threads |-> NoHandle]
  /\ opener \in [Groups -> Processes]
  /\ own = [p \in Processes |-> [g \in Groups |-> 0]]

----------------------------------------------------------------------------
(* A call begins.  External coordination keeps the processes from working  *)
(* read-write at the same time.                                            *)
Writing(t) == call[t].op = "write" \/ handle[t].op = "write"

Begin(t, op, group, create) ==
  /\ call[t] = Idle
  /\ handle[t] = NoHandle
  /\ ~closed[Home[t]]
  /\ create => op = "write"
  /\ op = "write" /\ Coordinated =>
       \A u \in Threads : Home[u] # Home[t] => ~Writing(u)
  /\ call' = [call EXCEPT ![t] = [op |-> op, group |-> group, create |-> create,
                                  next |-> "lock"]]
  /\ UNCHANGED <<database, clients, handle, history>>

HasWriter(p, g) == writer[p][g] # 0
HasReader(p, g) == reader[p][g] # NoReader

(* Mutant: a cached reader is preferred to a cached writer.                *)
ReadsThroughReaderFirst(p, g) == HasWriter(p, g) /\ ~HasReader(p, g)

(* read_client: an existing writer is reused.                              *)
ReadsThroughWriter(p, g) == HasWriter(p, g)

(* Mutant: a call that may not create the database opens its writer        *)
(* without looking for it first.                                           *)
ClientToOpenUnchecked(c, p) ==
  IF HasWriter(p, c.group) \/ (c.op = "read" /\ HasReader(p, c.group)) THEN "return"
  ELSE IF c.op = "write" THEN "writer"
  ELSE "reader"

(* What read_client and write_db find to do: a read needs some client, a   *)
(* write needs a writer, for which a call that may not create the database *)
(* first needs a reader.                                                   *)
ClientToOpen(c, p) ==
  IF HasWriter(p, c.group) \/ (c.op = "read" /\ HasReader(p, c.group)) THEN "return"
  ELSE IF c.op = "write" /\ (c.create \/ HasReader(p, c.group)) THEN "writer"
  ELSE "reader"

(* Mutant: the client is not locked while it is opened.                    *)
LockGroupShared(t) ==
  LET c == call[t]
      p == Home[t]
  IN /\ c # Idle
     /\ c.next = "lock"
     /\ lock' = [lock EXCEPT ![p][c.group] = t]
     /\ call' = [call EXCEPT ![t].next = ClientToOpen(c, p)]
     /\ UNCHANGED <<database, writer, view, reader, closed, live, handle, history>>

(* client.lock().await in read_client and write_db, and a look at what is  *)
(* cached.                                                                 *)
LockGroup(t) ==
  LET c == call[t]
      p == Home[t]
  IN /\ c # Idle
     /\ c.next = "lock"
     /\ lock[p][c.group] = NoThread
     /\ lock' = [lock EXCEPT ![p][c.group] = t]
     /\ call' = [call EXCEPT ![t].next = ClientToOpen(c, p)]
     /\ UNCHANGED <<database, writer, view, reader, closed, live, handle, history>>

Doing(t, next) == call[t] # Idle /\ call[t].next = next

(* The call ends, and with it the guard of the mutex.                      *)
End(t) ==
  /\ lock' = [lock EXCEPT ![Home[t]][call[t].group] = NoThread]
  /\ call' = [call EXCEPT ![t] = Idle]

(* open_reader finds the database, or returns None and the call ends with  *)
(* FileNotFound.                                                           *)
OpenReader(t) ==
  LET g == call[t].group
      p == Home[t]
  IN /\ Doing(t, "reader")
     /\ IF epoch[g] = 0
          THEN End(t) /\ UNCHANGED reader
          ELSE /\ reader' = [reader EXCEPT ![p][g] = version[g]]
               /\ call' = [call EXCEPT ![t].next =
                             IF call[t].op = "read" THEN "return" ELSE "writer"]
               /\ UNCHANGED lock
     /\ UNCHANGED <<database, writer, view, closed, live, handle, history>>

OpenWriter(t) ==
  LET g == call[t].group
      p == Home[t]
      e == epoch[g] + 1
  IN /\ Doing(t, "writer")
     /\ e <= MaxEpoch
     /\ epoch' = [epoch EXCEPT ![g] = e]
     /\ opener' = [opener EXCEPT ![g] = p]
     /\ writer' = [writer EXCEPT ![p][g] = e]
     /\ view' = [view EXCEPT ![p][g] = version[g]]
     /\ live' = live \cup {<<p, g, e>>}
     /\ call' = [call EXCEPT ![t].next = "return"]
     /\ UNCHANGED <<version, reader, lock, closed, handle, own>>

(* Mutant: a call whose client fails to open tries again, for as long as   *)
(* that fails.                                                             *)
OpenFailsRetries(t) ==
  /\ Doing(t, "reader") \/ Doing(t, "writer")
  /\ lock' = [lock EXCEPT ![Home[t]][call[t].group] = NoThread]
  /\ call' = [call EXCEPT ![t].next = "lock"]
  /\ UNCHANGED <<database, writer, view, reader, closed, live, handle, history>>

(* build().await fails; a writer may by then have moved the epoch on.      *)
OpenFails(t) ==
  LET g == call[t].group
  IN /\ \/ /\ Doing(t, "reader") \/ Doing(t, "writer")
           /\ UNCHANGED <<epoch, opener>>
        \/ /\ Doing(t, "writer")
           /\ epoch[g] < MaxEpoch
           /\ epoch' = [epoch EXCEPT ![g] = @ + 1]
           /\ opener' = [opener EXCEPT ![g] = Home[t]]
     /\ End(t)
     /\ UNCHANGED <<version, writer, view, reader, closed, live, handle, own>>

(* The call has its client; it goes on with a handle on it, or ends        *)
(* because its file is not found.                                          *)
Return(t) ==
  LET c == call[t]
      p == Home[t]
      client == [op |-> c.op, group |-> c.group,
                 epoch |-> IF c.op = "write" \/ ReadsThroughWriter(p, c.group)
                             THEN writer[p][c.group] ELSE 0]
  IN /\ Doing(t, "return")
     /\ End(t)
     /\ \/ handle' = [handle EXCEPT ![t] = client]
        \/ UNCHANGED handle
     /\ UNCHANGED <<database, writer, view, reader, closed, live, history>>

----------------------------------------------------------------------------
(* A transaction or a sync through the writer of a handle.  A fenced or a  *)
(* closed writer rejects it, which changes nothing.                        *)
Commit(t) ==
  LET h == handle[t]
      p == Home[t]
  IN /\ h.op = "write"
     /\ h.epoch = epoch[h.group]
     /\ <<p, h.group, h.epoch>> \in live
     /\ version[h.group] < MaxVersion
     /\ version' = [version EXCEPT ![h.group] = @ + 1]
     /\ view' = [view EXCEPT ![p][h.group] = version[h.group] + 1]
     /\ own' = [own EXCEPT ![p][h.group] = version[h.group] + 1]
     /\ UNCHANGED <<epoch, writer, reader, lock, closed, live, call, handle, opener>>

Drop(t) ==
  /\ handle[t] # NoHandle
  /\ handle' = [handle EXCEPT ![t] = NoHandle]
  /\ UNCHANGED <<database, clients, call, history>>

(* A DbReader polls the manifest and sees what was committed.              *)
Poll(p, g) ==
  /\ HasReader(p, g)
  /\ reader[p][g] # version[g]
  /\ reader' = [reader EXCEPT ![p][g] = version[g]]
  /\ UNCHANGED <<database, writer, view, lock, closed, live, call, handle, history>>

----------------------------------------------------------------------------
Empty(f, p, value) == [f EXCEPT ![p] = [g \in Groups |-> value]]

(* Mutant: close stops at the first client that fails to close.            *)
CloseStopsAtFailure(p) ==
  /\ ~closed[p]
  /\ \A t \in Threads : Home[t] = p => call[t] = Idle
  /\ closed' = [closed EXCEPT ![p] = TRUE]
  /\ writer' = Empty(writer, p, 0)
  /\ reader' = Empty(reader, p, NoReader)
  /\ \E reached \in SUBSET Groups : live' = {l \in live : l[1] = p => l[2] \notin reached}
  /\ UNCHANGED <<database, view, lock, call, handle, history>>

(* close: every client is taken out and closed, also after one has failed. *)
(* It borrows the filesystem exclusively, so no call is in progress;       *)
(* handles may outlive it.                                                 *)
Close(p) ==
  /\ ~closed[p]
  /\ \A t \in Threads : Home[t] = p => call[t] = Idle
  /\ closed' = [closed EXCEPT ![p] = TRUE]
  /\ writer' = Empty(writer, p, 0)
  /\ reader' = Empty(reader, p, NoReader)
  /\ live' = {l \in live : l[1] # p}
  /\ UNCHANGED <<database, view, lock, call, handle, history>>

(* The process ends, crashed or not, and another takes its place.          *)
Restart(p) ==
  /\ writer' = Empty(writer, p, 0)
  /\ reader' = Empty(reader, p, NoReader)
  /\ lock' = Empty(lock, p, NoThread)
  /\ closed' = [closed EXCEPT ![p] = FALSE]
  /\ live' = {l \in live : l[1] # p}
  /\ call' = [t \in Threads |-> IF Home[t] = p THEN Idle ELSE call[t]]
  /\ handle' = [t \in Threads |-> IF Home[t] = p THEN NoHandle ELSE handle[t]]
  /\ own' = Empty(own, p, 0)
  /\ UNCHANGED <<database, view, opener>>

(* The steps of a call that holds the mutex.                               *)
Work(t) == OpenReader(t) \/ OpenWriter(t) \/ OpenFails(t) \/ Return(t)

Next ==
  \/ \E t \in Threads :
        \/ \E op \in {"read", "write"}, g \in Groups, create \in BOOLEAN :
              Begin(t, op, g, create)
        \/ LockGroup(t)
        \/ Work(t)
        \/ Commit(t)
        \/ Drop(t)
  \/ \E p \in Processes :
        \/ \E g \in Groups : Poll(p, g)
        \/ Close(p)
        \/ Restart(p)

Spec == Init /\ [][Next]_vars

(* tokio's mutex is handed out in the order in which it is asked for, a    *)
(* thread that holds it gets on with its call, and a DbReader keeps        *)
(* polling its manifest.                                                   *)
Fairness ==
  /\ \A t \in Threads : WF_vars(Work(t)) /\ SF_vars(LockGroup(t))
  /\ \A p \in Processes, g \in Groups : WF_vars(Poll(p, g))

FairSpec == Spec /\ Fairness

----------------------------------------------------------------------------
Epochs   == 0 .. MaxEpoch
Versions == 0 .. MaxVersion
Calls    == [op : {"read", "write"}, group : Groups, create : BOOLEAN,
             next : {"lock", "reader", "writer", "return"}]
FileClients == [op : {"read", "write"}, group : Groups, epoch : Epochs]

(* The cached clients, calls and handles keep their types; a mutex is held *)
(* by the one thread that is past locking it.                              *)
TypeOK ==
  /\ epoch \in [Groups -> Epochs]
  /\ version \in [Groups -> Versions]
  /\ writer \in [Processes -> [Groups -> Epochs]]
  /\ view \in [Processes -> [Groups -> Versions]]
  /\ reader \in [Processes -> [Groups -> Versions \cup {NoReader}]]
  /\ lock \in [Processes -> [Groups -> Threads \cup {NoThread}]]
  /\ closed \in [Processes -> BOOLEAN]
  /\ live \subseteq Processes \X Groups \X Epochs
  /\ call \in [Threads -> {Idle} \cup Calls]
  /\ handle \in [Threads -> {NoHandle} \cup FileClients]
  /\ opener \in [Groups -> Processes]
  /\ own \in [Processes -> [Groups -> Versions]]
  /\ \A p \in Processes, g \in Groups, t \in Threads :
       lock[p][g] = t <=> /\ Home[t] = p
                          /\ call[t] # Idle
                          /\ call[t].group = g /\ call[t].next # "lock"

(* Two threads of a process never open two writers of one database, of     *)
(* which one would be lost without being closed, and a closed filesystem   *)
(* has left none open: every open writer is the cached one.                *)
OpenWritersAreCached == \A l \in live : writer[l[1]][l[2]] = l[3]

(* A process never fences its own writer, however its threads read, write, *)
(* remove and move files of one database at the same time.                 *)
NeverFencesItself ==
  \A p \in Processes, g \in Groups :
    HasWriter(p, g) /\ opener[g] = p => writer[p][g] = epoch[g]

(* fs.rs, read_client: "An existing writer is reused so reads see this     *)
(* process's writes", also when a reader was cached before the writer.     *)
ReadsSeeOwnWrites ==
  \A p \in Processes, g \in Groups :
    HasWriter(p, g) \/ HasReader(p, g) =>
      (IF ReadsThroughWriter(p, g) THEN view[p][g] ELSE reader[p][g]) >= own[p][g]

(* A call that opens a client has found no writer, and nobody else opens   *)
(* one meanwhile; a writer that is open has an epoch.                      *)
OpensWhatIsMissing ==
  /\ \A t \in Threads : Doing(t, "reader") \/ Doing(t, "writer") =>
       ~HasWriter(Home[t], call[t].group)
  /\ \A l \in live : l[3] # 0

(* Who has a reader, or opens a writer without being allowed to create the *)
(* database, has seen that it exists.                                      *)
ReadersFoundADatabase ==
  /\ \A p \in Processes, g \in Groups : HasReader(p, g) => epoch[g] # 0
  /\ \A t \in Threads : Doing(t, "writer") =>
       call[t].create \/ epoch[call[t].group] # 0

OwnWritesAreCommitted ==
  \A p \in Processes, g \in Groups : own[p][g] <= version[g]

(* The inductive invariant behind the safety properties of this module.    *)
Inv ==
  /\ TypeOK
  /\ OpenWritersAreCached
  /\ NeverFencesItself
  /\ ReadsSeeOwnWrites
  /\ OpensWhatIsMissing
  /\ ReadersFoundADatabase
  /\ OwnWritesAreCommitted

(* fs.rs, write_db: opening a writer creates a SlateDB, so a call that may *)
(* not create one never does, whatever others create or fail to open       *)
(* meanwhile.                                                              *)
OnlyCreateCreates ==
  [][\A g \in Groups : epoch[g] = 0 /\ epoch'[g] # 0 =>
       \E t \in Threads : /\ Doing(t, "writer")
                          /\ call[t].group = g /\ call[t].create]_vars

(* Every call that asks for a client gets one or fails: the group mutex,   *)
(* held across the opening of clients, never blocks a caller for good.     *)
CallsReturn == \A t \in Threads : call[t] # Idle ~> call[t] = Idle

(* README, Read consistency: "Data committed by another process can        *)
(* therefore stay invisible for up to that interval": a process that reads *)
(* a database sees every commit in the end.                                *)
ReadersCatchUp ==
  \A p \in Processes, g \in Groups, v \in 1 .. MaxVersion :
    version[g] >= v ~>
      \/ ~HasWriter(p, g) /\ ~HasReader(p, g)
      \/ (IF ReadsThroughWriter(p, g) THEN view[p][g] ELSE reader[p][g]) >= v
=============================================================================
