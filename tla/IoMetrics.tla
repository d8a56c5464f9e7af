----------------------------- MODULE IoMetrics ------------------------------
(***************************************************************************)
(* The I/O statistics: the OpenDAL layer that watches every request to the *)
(* object store (opendal_io_metrics_layer.rs), the running statistics of   *)
(* the five kinds of request (io_metrics.rs), and the table function that  *)
(* shows them (slatedb_io_stats.cpp).                                      *)
(*                                                                         *)
(* A request is a call (stat, a reader's read) that is recorded when it    *)
(* returns, or an object (a read stream, a writer, a deleter, a lister)    *)
(* that is recorded when it first ends or is dropped; an object may be     *)
(* used again after it has ended.  The future of a call may be dropped,    *)
(* and then nothing is recorded.                                           *)
(*                                                                         *)
(* Latencies are whole numbers; the mean and the sum of squared deviations *)
(* are fractions <<numerator, denominator>>, where the code has f64.       *)
(***************************************************************************)
EXTENDS Integers, Sequences, FiniteSets, FiniteSetsExt

CONSTANTS
  Requests,
  Sizes,      \* bytes a stream or writer transfers at once, a call at all
  MaxBytes,   \* bound: bytes of one request
  Latencies   \* how long a request may take

ASSUME IoAssumption ==
  /\ Sizes \subseteq Nat \ {0} /\ Latencies \subseteq Nat /\ MaxBytes \in Nat
  /\ IsFiniteSet(Requests)

Kinds     == {"read", "write", "stat", "delete", "list"}
Rows      == <<"read", "write", "stat", "delete", "list">>
WithBytes == {"read", "write"}

VARIABLES
  kind,      \* kind[r]
  phase,     \* phase[r]: new, call (awaited), opening (awaited), object, gone
  bytes,     \* bytes[r]: IoMetricsReadStream.bytes, IoMetricsWriter.bytes
  recorded,  \* recorded[r]: the flag of record_once
  stats,     \* IoMetrics: RunningStats of every kind
  query,     \* the rows that a query has copied
  ended      \* history: requests that have ended, with latency and bytes

vars == <<kind, phase, bytes, recorded, stats, query, ended>>
request == <<kind, phase, bytes, recorded>>

Zero     == <<0, 1>>
NoStats  == [count |-> 0, bytes |-> 0, mean |-> Zero, deviation |-> Zero]
NoRow    == [count |-> 0, bytes |-> 0, average |-> Zero, variance |-> Zero]
NoQuery  == [rows |-> 0, seen |-> [k \in Kinds |-> NoRow]]

Init ==
  /\ kind = [r \in Requests |-> "read"]
  /\ phase = [r \in Requests |-> "new"]
  /\ bytes = [r \in Requests |-> 0]
  /\ recorded = [r \in Requests |-> FALSE]
  /\ stats = [k \in Kinds |-> NoStats]
  /\ query = NoQuery
  /\ ended = {}

-----------------------------------------------------------------------------
(* Fractions.                                                              *)
Minus(a, b)  == <<a[1] * b[2] - b[1] * a[2], a[2] * b[2]>>
Plus(a, b)   == <<a[1] * b[2] + b[1] * a[2], a[2] * b[2]>>
Times(a, b)  == <<a[1] * b[1], a[2] * b[2]>>
Equals(a, b) == a[1] * b[2] = b[1] * a[2]

(* Mutant: the deviation from the new mean is squared.                     *)
RecordedSquared(s, latency, n) ==
  LET delta == Minus(<<latency, 1>>, s.mean)
      mean  == Plus(s.mean, Times(delta, <<1, s.count + 1>>))
      after == Minus(<<latency, 1>>, mean)
  IN  [count |-> s.count + 1, bytes |-> s.bytes + n, mean |-> mean,
       deviation |-> Plus(s.deviation, Times(after, after))]

(* RunningStats::record.                                                   *)
Recorded(s, latency, n) ==
  LET delta == Minus(<<latency, 1>>, s.mean)
      mean  == Plus(s.mean, Times(delta, <<1, s.count + 1>>))
      after == Minus(<<latency, 1>>, mean)
  IN  [count |-> s.count + 1, bytes |-> s.bytes + n, mean |-> mean,
       deviation |-> Plus(s.deviation, Times(delta, after))]

Record(k, latency, n) ==
  stats' = [stats EXCEPT ![k] = Recorded(@, latency, n)]

(* History: request r of kind k ends, if it has not before.                *)
Ends(r, k, latency, n) ==
  ended' = IF \E e \in ended : e.request = r THEN ended
           ELSE ended \cup {[request |-> r, kind |-> k, latency |-> latency,
                             bytes |-> n]}

(* Mutant: an object that has ended is recorded again when it is dropped.  *)
RecordAlways(r, latency) ==
  /\ Record(kind[r], latency, bytes[r])
  /\ recorded' = [recorded EXCEPT ![r] = TRUE]

(* record_once of the four kinds of object.                                *)
RecordOnce(r, latency) ==
  IF recorded[r]
    THEN UNCHANGED <<stats, recorded>>
    ELSE /\ Record(kind[r], latency, bytes[r])
         /\ recorded' = [recorded EXCEPT ![r] = TRUE]

-----------------------------------------------------------------------------
(* Service::read, write, delete or list fails at once.                     *)
CreateFails(r, k, latency) ==
  /\ phase[r] = "new"
  /\ k # "stat"
  /\ Record(k, latency, 0)
  /\ Ends(r, k, latency, 0)
  /\ kind' = [kind EXCEPT ![r] = k]
  /\ phase' = [phase EXCEPT ![r] = "gone"]
  /\ UNCHANGED <<bytes, recorded, query>>

(* A request begins: stat and Reader::read are awaited, Reader::open is    *)
(* awaited for a stream, the others are objects from the start.            *)
Phases(k) == IF k = "stat" THEN {"call"}
             ELSE IF k = "read" THEN {"call", "opening"}
             ELSE {"object"}

Start(r, k) ==
  /\ phase[r] = "new"
  /\ kind' = [kind EXCEPT ![r] = k]
  /\ \E p \in Phases(k) : phase' = [phase EXCEPT ![r] = p]
  /\ UNCHANGED <<bytes, recorded, stats, query, ended>>

(* stat or Reader::read returns, with n bytes, or none after an error.     *)
CallReturns(r, latency, n) ==
  /\ phase[r] = "call"
  /\ n # 0 => kind[r] = "read"
  /\ Record(kind[r], latency, n)
  /\ Ends(r, kind[r], latency, n)
  /\ phase' = [phase EXCEPT ![r] = "gone"]
  /\ UNCHANGED <<kind, bytes, recorded, query>>

(* Reader::open returns a stream.                                          *)
OpenReturns(r) ==
  /\ phase[r] = "opening"
  /\ phase' = [phase EXCEPT ![r] = "object"]
  /\ UNCHANGED <<kind, bytes, recorded, stats, query, ended>>

OpenFails(r, latency) ==
  /\ phase[r] = "opening"
  /\ Record("read", latency, 0)
  /\ Ends(r, "read", latency, 0)
  /\ phase' = [phase EXCEPT ![r] = "gone"]
  /\ UNCHANGED <<kind, bytes, recorded, query>>

(* The future of an awaited call is dropped.                               *)
Cancel(r) ==
  /\ phase[r] \in {"call", "opening"}
  /\ phase' = [phase EXCEPT ![r] = "gone"]
  /\ UNCHANGED <<kind, bytes, recorded, stats, query, ended>>

(* ReadStream::read or Writer::write transfers n bytes; one that fails     *)
(* transfers none.  A lister's entry or a deletion changes nothing.        *)
Transfer(r, n) ==
  /\ phase[r] = "object"
  /\ kind[r] \in WithBytes
  /\ bytes[r] + n <= MaxBytes
  /\ bytes' = [bytes EXCEPT ![r] = @ + n]
  /\ UNCHANGED <<kind, phase, recorded, stats, query, ended>>

(* A stream or lister is exhausted or fails; a writer or deleter is closed *)
(* or aborted, with success or not.  The object is still there.            *)
Finish(r, latency) ==
  /\ phase[r] = "object"
  /\ RecordOnce(r, latency)
  /\ Ends(r, kind[r], latency, bytes[r])
  /\ UNCHANGED <<kind, phase, bytes, query>>

(* The object is dropped: the four implementations of Drop.                *)
Drop(r, latency) ==
  /\ phase[r] = "object"
  /\ RecordOnce(r, latency)
  /\ Ends(r, kind[r], latency, bytes[r])
  /\ phase' = [phase EXCEPT ![r] = "gone"]
  /\ UNCHANGED <<kind, bytes, query>>

-----------------------------------------------------------------------------
(* RunningStats::snapshot; the square of the standard deviation.           *)
RowOf(s) ==
  [count |-> s.count, bytes |-> s.bytes, average |-> s.mean,
   variance |-> IF s.count = 0 \/ s.deviation[1] < 0 THEN Zero
                ELSE Times(s.deviation, <<1, s.count>>)]

(* IoMetrics::snapshot for one query: each kind under its own mutex, in    *)
(* the order of the rows.  TryGetIoStats holds initialization_lock, so     *)
(* queries do not overlap.                                                 *)
SnapshotRow ==
  /\ query.rows < Len(Rows)
  /\ LET k == Rows[query.rows + 1]
     IN  query' = [rows |-> query.rows + 1,
                   seen |-> [query.seen EXCEPT ![k] = RowOf(stats[k])]]
  /\ UNCHANGED <<request, stats, ended>>

(* IoStatsFunction has shown the rows, all five in one chunk.              *)
ShowRows ==
  /\ query.rows = Len(Rows)
  /\ query' = NoQuery
  /\ UNCHANGED <<request, stats, ended>>

Next ==
  \/ \E r \in Requests :
       \/ \E k \in Kinds :
            \/ Start(r, k)
            \/ \E latency \in Latencies : CreateFails(r, k, latency)
       \/ \E latency \in Latencies :
            \/ \E n \in Sizes \cup {0} : CallReturns(r, latency, n)
            \/ OpenFails(r, latency)
            \/ Finish(r, latency)
            \/ Drop(r, latency)
       \/ OpenReturns(r)
       \/ Cancel(r)
       \/ \E n \in Sizes : Transfer(r, n)
  \/ SnapshotRow
  \/ ShowRows

Spec == Init /\ [][Next]_vars

-----------------------------------------------------------------------------
Fractions == Nat \X (Nat \ {0})
Stats     == [count : 0 .. Cardinality(Requests), bytes : Nat,
              mean : Fractions, deviation : Fractions]
StatsRow  == [count : Nat, bytes : Nat, average : Fractions, variance : Fractions]
Outcomes  == [request : Requests, kind : Kinds, latency : Latencies, bytes : Nat]

(* Every variable has its type.  No mean is ever negative, so that the     *)
(* conversion to Duration, which panics on a negative number, is safe; no  *)
(* request is counted more often than it was made; and bytes are counted   *)
(* only where the table shows them.                                        *)
TypeOK ==
  /\ kind \in [Requests -> Kinds]
  /\ phase \in [Requests -> {"new", "call", "opening", "object", "gone"}]
  /\ bytes \in [Requests -> 0 .. MaxBytes]
  /\ recorded \in [Requests -> BOOLEAN]
  /\ stats \in [Kinds -> Stats]
  /\ query \in [rows : 0 .. Len(Rows), seen : [Kinds -> StatsRow]]
  /\ ended \subseteq Outcomes
  /\ \A k \in Kinds : /\ query.seen[k].count <= stats[k].count
                      /\ query.seen[k].bytes <= stats[k].bytes
                      /\ k \notin WithBytes => stats[k].bytes = 0

(* What a set of ended requests should be summed up to.                    *)
Transferred(S) == MapThenSumSet(LAMBDA e : e.bytes, S)
Total(S)       == MapThenSumSet(LAMBDA e : e.latency, S)
Squares(S)     == MapThenSumSet(LAMBDA e : e.latency * e.latency, S)

Counts(s, S) == s.count = Cardinality(S) /\ s.bytes = Transferred(S)

(* n times the sum of squared deviations from the mean.                    *)
Spread(S) == Cardinality(S) * Squares(S) - Total(S) * Total(S)

EndedOf(k) == {e \in ended : e.kind = k}

(* Every request that ends, fails or is dropped is counted once, with the  *)
(* bytes it had transferred when it first ended, however often its object  *)
(* is finished, closed, aborted, used again and dropped (record_once).     *)
CountedOnce == \A k \in Kinds : Counts(stats[k], EndedOf(k))

(* README.md: "Standard deviation is calculated over the complete observed *)
(* population".  A row of the table shows the statistics of one moment:    *)
(* its count, bytes, mean and deviation, which RunningStats::record keeps  *)
(* up one latency at a time in whatever order they come, are those of the  *)
(* same set of requests, although others end while the snapshot is taken.  *)
RowsAreWhole ==
  \A i \in 1 .. query.rows :
    LET row == query.seen[Rows[i]]
        n   == row.count
    IN  \E S \in SUBSET EndedOf(Rows[i]) :
          /\ Counts(row, S)
          /\ n > 0 => /\ Equals(row.average, <<Total(S), n>>)
                      /\ Equals(row.variance, <<Spread(S), n * n>>)

(* A request has ended when its call has, or its object is recorded; it    *)
(* has ended once, and bytes belong to the kinds that have any.            *)
EndedWhenRecorded ==
  /\ \A d, e \in ended : d.request = e.request => d = e
  /\ \A r \in Requests :
       /\ phase[r] \in {"new", "call", "opening"} =>
            ~recorded[r] /\ bytes[r] = 0 /\ \A e \in ended : e.request # r
       /\ phase[r] = "object" => (recorded[r] <=> \E e \in ended : e.request = r)
       /\ bytes[r] # 0 => kind[r] \in WithBytes

(* The running mean and deviation are those of the requests that ended.    *)
RunningStatsAreExact ==
  \A k \in Kinds :
    LET s == stats[k]
        S == EndedOf(k)
    IN  /\ s.count = 0 => s.mean = Zero /\ s.deviation = Zero
        /\ Equals(s.mean, <<Total(S), s.count>>)
        /\ Equals(s.deviation, <<Spread(S), s.count>>)

(* The inductive invariant behind the properties of this module.           *)
Inv ==
  /\ TypeOK
  /\ EndedWhenRecorded
  /\ CountedOnce
  /\ RunningStatsAreExact
  /\ RowsAreWhole
=============================================================================
