-------------------------- MODULE SharedFileProofs --------------------------
(***************************************************************************)
(* Proofs about SharedFile, for every number of handles, chunk geometry,   *)
(* width of offsets, payload and bound on the changes.                     *)
(*                                                                         *)
(* A handle record is well-formed (HandleOK), what a pread has collected   *)
(* was shown during the call (ReadOK), and a writer that is alone shows    *)
(* the database plus its own changes (WriterOK).  The facts about the      *)
(* layout and the loops are those FileHandleProofs has for one handle: its *)
(* variables keep this module from extending it.                           *)
(***************************************************************************)
EXTENDS SharedFile, NaturalsInduction, WellFoundedInduction, TLAPS

----------------------------------------------------------------------------
(* The layout of chunks.                                                   *)
LEMMA DivMod ==
  ASSUME NEW n \in Nat \ {0}, NEW a \in Nat
  PROVE  /\ a \div n \in Nat
         /\ (a % n) \in 0 .. (n - 1)
         /\ a = n * (a \div n) + (a % n)
  OBVIOUS

(* Quotient and remainder are unique.                                      *)
LEMMA DivModUnique ==
  ASSUME NEW n \in Nat \ {0}, NEW q \in Nat, NEW r \in Nat,
         NEW i \in 0 .. (n - 1), NEW j \in 0 .. (n - 1),
         n * q + i = n * r + j
  PROVE  q = r /\ i = j
  <1>1. CASE q < r
    <2>1. n * r >= n * (q + 1)
      BY <1>1
    <2> QED
      BY <2>1
  <1>2. CASE r < q
    <2>1. n * q >= n * (r + 1)
      BY <1>2
    <2> QED
      BY <2>1
  <1> QED
    BY <1>1, <1>2

LEMMA DivModOrder ==
  ASSUME NEW n \in Nat \ {0}, NEW q \in Nat, NEW r \in Nat,
         NEW i \in 0 .. (n - 1), NEW j \in 0 .. (n - 1),
         n * q + i < n * r + j
  PROVE  q < r \/ (q = r /\ i < j)
  <1>1. CASE r < q
    <2>1. n * q >= n * (r + 1)
      BY <1>1
    <2> QED
      BY <2>1
  <1> QED
    BY <1>1

LEMMA Located ==
  ASSUME NEW p \in Nat
  PROVE  /\ ChunkIdxOf(p) \in Nat
         /\ ChunkOffsetOf(p) \in 0 .. (ChunkSize - 1)
         /\ Available(p) \in Nat
         /\ Available(p) >= 1
         /\ ChunkOffsetOf(p) + Available(p) <= ChunkSize
  <1> USE LayoutAssumption
  <1>1. CASE p < ChunkBaseOffset
    BY <1>1 DEF ChunkIdxOf, ChunkOffsetOf, Available
  <1>2. CASE p >= ChunkBaseOffset
    <2> DEFINE a == p - ChunkBaseOffset
    <2>1. a \in Nat
      BY <1>2
    <2>2. a \div ChunkSize \in Nat /\ (a % ChunkSize) \in 0 .. (ChunkSize - 1)
      BY <2>1, DivMod
    <2>3. ~(p < ChunkBaseOffset)
      BY <1>2
    <2>4. ChunkIdxOf(p) \in Nat
      BY <2>2, <2>3 DEF ChunkIdxOf
    <2>5. ChunkOffsetOf(p) = a % ChunkSize
      BY <2>3 DEF ChunkOffsetOf
    <2>6. Available(p) = ChunkSize - ChunkOffsetOf(p)
      BY <2>3 DEF Available
    <2> QED
      BY <2>2, <2>4, <2>5, <2>6
  <1> QED
    BY <1>1, <1>2

(* The positions from p up to the end of its chunk lie in it, in order.    *)
LEMMA RestOfChunk ==
  ASSUME NEW p \in Nat, NEW n \in Nat, n < Available(p)
  PROVE  /\ ChunkIdxOf(p + n) = ChunkIdxOf(p)
         /\ ChunkOffsetOf(p + n) = ChunkOffsetOf(p) + n
  <1> USE LayoutAssumption
  <1>1. CASE p < ChunkBaseOffset
    BY <1>1 DEF ChunkIdxOf, ChunkOffsetOf, Available
  <1>2. CASE p >= ChunkBaseOffset
    <2> DEFINE a == p - ChunkBaseOffset
               b == p + n - ChunkBaseOffset
    <2>1. a \in Nat /\ b \in Nat /\ b = a + n
      BY <1>2
    <2>2. (a % ChunkSize) + n \in 0 .. (ChunkSize - 1)
      BY <1>2, <2>1, DivMod DEF Available, ChunkOffsetOf
    <2>3. /\ a \div ChunkSize \in Nat /\ b \div ChunkSize \in Nat
          /\ (b % ChunkSize) \in 0 .. (ChunkSize - 1)
          /\ a = ChunkSize * (a \div ChunkSize) + (a % ChunkSize)
          /\ b = ChunkSize * (b \div ChunkSize) + (b % ChunkSize)
      BY <2>1, DivMod
    <2>4. (a % ChunkSize) \in Nat
      BY <2>1, DivMod
    <2>5. ChunkSize * (a \div ChunkSize) + ((a % ChunkSize) + n)
            = ChunkSize * (b \div ChunkSize) + (b % ChunkSize)
      BY <2>1, <2>3, <2>4
    <2>6. b \div ChunkSize = a \div ChunkSize /\ (b % ChunkSize) = (a % ChunkSize) + n
      BY <2>2, <2>3, <2>5, DivModUnique
    <2> QED
      BY <1>2, <2>1, <2>6 DEF ChunkIdxOf, ChunkOffsetOf
  <1> QED
    BY <1>1, <1>2

(* A later position lies in a later chunk, or later in the same one.       *)
LEMMA Ordered ==
  ASSUME NEW p \in Nat, NEW q \in Nat, p < q
  PROVE  \/ ChunkIdxOf(p) < ChunkIdxOf(q)
         \/ ChunkIdxOf(p) = ChunkIdxOf(q) /\ ChunkOffsetOf(p) < ChunkOffsetOf(q)
  <1> USE LayoutAssumption
  <1> DEFINE a == p - ChunkBaseOffset
             b == q - ChunkBaseOffset
  <1>1. CASE q < ChunkBaseOffset
    BY <1>1 DEF ChunkIdxOf, ChunkOffsetOf
  <1>2. CASE p < ChunkBaseOffset /\ q >= ChunkBaseOffset
    <2>1. b \in Nat /\ b \div ChunkSize \in Nat
      BY <1>2, DivMod
    <2> QED
      BY <1>2, <2>1 DEF ChunkIdxOf, ChunkOffsetOf
  <1>3. CASE p >= ChunkBaseOffset
    <2>1. a \in Nat /\ b \in Nat /\ a < b
      BY <1>3
    <2>2. /\ a \div ChunkSize \in Nat /\ b \div ChunkSize \in Nat
          /\ (a % ChunkSize) \in 0 .. (ChunkSize - 1)
          /\ (b % ChunkSize) \in 0 .. (ChunkSize - 1)
          /\ ChunkSize * (a \div ChunkSize) + (a % ChunkSize)
               < ChunkSize * (b \div ChunkSize) + (b % ChunkSize)
      BY <2>1, DivMod
    <2>3. \/ a \div ChunkSize < b \div ChunkSize
          \/ /\ a \div ChunkSize = b \div ChunkSize
             /\ (a % ChunkSize) < (b % ChunkSize)
      BY <2>2, DivModOrder
    <2> QED
      BY <1>3, <2>2, <2>3 DEF ChunkIdxOf, ChunkOffsetOf
  <1> QED
    BY <1>1, <1>2, <1>3

LEMMA Injective ==
  ASSUME NEW p \in Nat, NEW q \in Nat,
         ChunkIdxOf(p) = ChunkIdxOf(q), ChunkOffsetOf(p) = ChunkOffsetOf(q)
  PROVE  p = q
  <1> USE Located
  <1>1. ASSUME p < q PROVE FALSE
    <2>1. \/ ChunkIdxOf(p) < ChunkIdxOf(q)
          \/ ChunkIdxOf(p) = ChunkIdxOf(q) /\ ChunkOffsetOf(p) < ChunkOffsetOf(q)
      BY <1>1, Ordered
    <2> QED
      BY <2>1, LayoutAssumption
  <1>2. ASSUME q < p PROVE FALSE
    <2>1. \/ ChunkIdxOf(q) < ChunkIdxOf(p)
          \/ ChunkIdxOf(q) = ChunkIdxOf(p) /\ ChunkOffsetOf(q) < ChunkOffsetOf(p)
      BY <1>2, Ordered
    <2> QED
      BY <2>1, LayoutAssumption
  <1> QED
    BY <1>1, <1>2

----------------------------------------------------------------------------
(* Loops.  A set of numbers stands for the predicate of an induction.      *)
LEMMA SmallestNumber ==
  ASSUME NEW T, T \subseteq Nat, T # {}
  PROVE  \E x \in T : \A y \in T : x <= y
  <1>1. \E x \in T : \A y \in T : <<y, x>> \notin OpToRel(<, Nat)
    BY NatLessThanWellFounded, WFMin, Zenon
  <1>2. PICK x \in T : \A y \in T : <<y, x>> \notin OpToRel(<, Nat)
    BY <1>1
  <1>3. \A y \in T : ~ (y < x)
    BY <1>2 DEF OpToRel
  <1>4. ASSUME NEW y \in T PROVE x <= y
    <2>1. x \in Nat /\ y \in Nat /\ ~ (y < x)
      BY <1>2, <1>3
    <2> QED
      BY <2>1
  <1> QED
    BY <1>2, <1>4

LEMMA CountUp ==
  ASSUME NEW N \in Nat, NEW P, 0 \in P,
         \A n \in 0 .. (N - 1) : n \in P => n + 1 \in P
  PROVE  \A n \in 0 .. N : n \in P
  <1> SUFFICES ASSUME NEW m \in 0 .. N, m \notin P PROVE FALSE
    OBVIOUS
  <1> DEFINE T == {n \in 0 .. N : n \notin P}
  <1>1. PICK x \in T : \A y \in T : x <= y
    <2>1. T \subseteq Nat /\ T # {}
      OBVIOUS
    <2> HIDE DEF T
    <2> QED
      BY <2>1, SmallestNumber
  <1>2. x # 0 /\ x - 1 \in 0 .. (N - 1)
    BY <1>1
  <1>3. x - 1 \in P
    <2>1. x - 1 \in 0 .. N /\ ~ (x <= x - 1)
      BY <1>2
    <2> QED
      BY <1>1, <2>1
  <1>4. (x - 1) + 1 = x
    BY <1>1
  <1> QED
    BY <1>1, <1>2, <1>3, <1>4

(* A loop over 1 .. N whose state is in V has a run.                       *)
LoopSteps(N, V) == [(1 .. N) \X V -> V]

LoopRun(f, N, v0, step) ==
  f[0] = v0 /\ \A n \in 1 .. N : f[n] = step[<<n, f[n - 1]>>]

LEMMA LoopExists ==
  ASSUME NEW N \in Nat, NEW V, NEW v0 \in V, NEW step \in LoopSteps(N, V)
  PROVE  \E f \in [0 .. N -> V] : LoopRun(f, N, v0, step)
  <1>0. step \in [(1 .. N) \X V -> V]
    BY DEF LoopSteps
  <1> DEFINE Run(f, m) == f[0] = v0 /\ \A n \in 1 .. m : f[n] = step[<<n, f[n - 1]>>]
             P == {m \in 0 .. N : \E f \in [0 .. m -> V] : Run(f, m)}
  <1>1. 0 \in P
    <2> DEFINE f == [i \in 0 .. 0 |-> v0]
    <2>1. f \in [0 .. 0 -> V] /\ Run(f, 0)
      OBVIOUS
    <2>2. 0 \in 0 .. N
      OBVIOUS
    <2> HIDE DEF Run, f
    <2> QED
      BY <2>1, <2>2
  <1>2. ASSUME NEW m \in 0 .. (N - 1), m \in P PROVE m + 1 \in P
    <2>1. PICK f \in [0 .. m -> V] : Run(f, m)
      BY <1>2
    <2> DEFINE v == step[<<m + 1, f[m]>>]
               g == [i \in 0 .. (m + 1) |-> IF i = m + 1 THEN v ELSE f[i]]
    <2>2. v \in V
      BY <1>0
    <2>3. g \in [0 .. (m + 1) -> V]
      BY <2>2
    <2>4. g[0] = v0
      BY <2>1
    <2>5. ASSUME NEW n \in 1 .. (m + 1) PROVE g[n] = step[<<n, g[n - 1]>>]
      <3>1. CASE n = m + 1
        <4>1. g[n] = v /\ n - 1 = m /\ m \in 0 .. (m + 1) /\ m # m + 1
          BY <3>1
        <4>2. g[n - 1] = f[m]
          BY <4>1
        <4> HIDE DEF g
        <4> QED
          BY <3>1, <4>1, <4>2
      <3>2. CASE n # m + 1
        <4>1. n \in 1 .. m /\ n - 1 \in 0 .. m /\ n - 1 # m + 1
          BY <3>2
        <4> QED
          BY <2>1, <3>2, <4>1
      <3> QED
        BY <3>1, <3>2
    <2>6. Run(g, m + 1)
      BY <2>4, <2>5
    <2>7. m + 1 \in 0 .. N
      OBVIOUS
    <2> HIDE DEF Run, g
    <2> QED
      BY <2>3, <2>6, <2>7
  <1>3. N \in P
    <2> HIDE DEF P
    <2>1. \A n \in 0 .. N : n \in P
      BY <1>1, <1>2, CountUp
    <2> QED
      BY <2>1
  <1> QED
    BY <1>3 DEF LoopRun

LEMMA Appended ==
  ASSUME NEW S, NEW s \in Seq(S), NEW x \in S
  PROVE  /\ Append(s, x) \in Seq(S)
         /\ Len(Append(s, x)) = Len(s) + 1 /\ Len(s) \in Nat
         /\ Len(s) + 1 \in 1 .. Len(Append(s, x))
         /\ Append(s, x)[Len(s) + 1] = x
         /\ \A i \in 1 .. Len(s) : i \in 1 .. Len(Append(s, x)) /\ Append(s, x)[i] = s[i]
  OBVIOUS

(* The first loop of ChunkManager::read finds every chunk that is not      *)
(* staged.                                                                 *)
LEMMA PersistedIdxsFacts ==
  ASSUME NEW h \in Handles, NEW N \in Nat, NEW slices, Len(slices) = N,
         \A n \in 1 .. N : slices[n].chunk_idx \in Nat
  PROVE  /\ H(h)!PersistedIdxs(slices) \in Seq(Nat)
         /\ \A n \in 1 .. N : handles[h].pending[slices[n].chunk_idx] = None =>
              \E i \in 1 .. Len(H(h)!PersistedIdxs(slices)) :
                H(h)!PersistedIdxs(slices)[i] = slices[n].chunk_idx
  <1> DEFINE k(n) == slices[n].chunk_idx
             F(n, s) == IF handles[h].pending[k(n)] = None THEN Append(s, k(n)) ELSE s
             Body(g) == [n \in 0 .. N |-> IF n = 0 THEN <<>> ELSE F(n, g[n - 1])]
             upTo == CHOOSE g : g = Body(g)
             step == [x \in (1 .. N) \X Seq(Nat) |-> F(x[1], x[2])]
  <1>1. H(h)!PersistedIdxs(slices) = upTo[N]
    BY DEF H!PersistedIdxs
  <1>2. \A n \in 1 .. N, s \in Seq(Nat) : F(n, s) \in Seq(Nat)
    OBVIOUS
  <1>3. upTo = Body(upTo)
    <2>1. step \in [(1 .. N) \X Seq(Nat) -> Seq(Nat)]
      BY <1>2
    <2>2. \A n \in 1 .. N, s \in Seq(Nat) : step[<<n, s>>] = F(n, s)
      <3> HIDE DEF F
      <3> QED
        OBVIOUS
    <2>3. <<>> \in Seq(Nat)
      OBVIOUS
    <2> HIDE DEF step, F
    <2>4. PICK f \in [0 .. N -> Seq(Nat)] :
            f[0] = <<>> /\ \A n \in 1 .. N : f[n] = step[<<n, f[n - 1]>>]
      <3> DEFINE V == Seq(Nat)
                 v0 == <<>>
      <3>1. v0 \in V /\ step \in LoopSteps(N, V)
        BY <2>1, <2>3 DEF LoopSteps
      <3> HIDE DEF V, v0
      <3>2. \E f \in [0 .. N -> V] : LoopRun(f, N, v0, step)
        BY <3>1, LoopExists
      <3> QED
        BY <3>2 DEF V, v0, LoopRun
    <2>5. \A n \in 1 .. N : f[n] = F(n, f[n - 1])
      <3>1. \A n \in 1 .. N : n - 1 \in 0 .. N /\ f[n - 1] \in Seq(Nat)
        OBVIOUS
      <3> QED
        BY <2>2, <2>4, <3>1
    <2>6. f = Body(f)
      BY <2>4, <2>5
    <2> HIDE DEF Body
    <2> QED
      BY <2>6
  <1> HIDE DEF upTo, F
  <1>4. upTo[0] = <<>> /\ \A n \in 1 .. N : upTo[n] = F(n, upTo[n - 1])
    BY <1>3
  <1> DEFINE Found(s, n) == handles[h].pending[k(n)] = None => \E i \in 1 .. Len(s) : s[i] = k(n)
             P == {m \in 0 .. N : /\ upTo[m] \in Seq(Nat)
                                  /\ \A n \in 1 .. m : Found(upTo[m], n)}
  <1>5. 0 \in P
    <2>1. upTo[0] \in Seq(Nat) /\ 0 \in 0 .. N /\ \A n \in 1 .. 0 : FALSE
      BY <1>4
    <2> HIDE DEF Found
    <2> QED
      BY <2>1
  <1>6. ASSUME NEW m \in 0 .. (N - 1), m \in P PROVE m + 1 \in P
    <2>1. upTo[m] \in Seq(Nat) /\ \A n \in 1 .. m : Found(upTo[m], n)
      BY <1>6
    <2>2. upTo[m + 1] = F(m + 1, upTo[m]) /\ m + 1 \in 1 .. N
      BY <1>4
    <2>3. k(m + 1) \in Nat
      BY <2>2
    <2> HIDE DEF k
    <2>4. ASSUME NEW s \in Seq(Nat), NEW n, Found(s, n)
          PROVE  Found(Append(s, k(m + 1)), n)
      BY <2>3, <2>4, Appended
    <2>5. ASSUME NEW s \in Seq(Nat)
          PROVE  \E i \in 1 .. Len(Append(s, k(m + 1))) : Append(s, k(m + 1))[i] = k(m + 1)
      BY <2>3, Appended
    <2>6. upTo[m + 1] \in Seq(Nat)
      BY <1>2, <2>1, <2>2
    <2>7. ASSUME NEW n \in 1 .. (m + 1) PROVE Found(upTo[m + 1], n)
      <3>1. CASE handles[h].pending[k(m + 1)] = None
        <4>1. upTo[m + 1] = Append(upTo[m], k(m + 1))
          BY <2>2, <3>1 DEF F
        <4>2. CASE n = m + 1
          BY <2>1, <2>5, <4>1, <4>2
        <4>3. CASE n # m + 1
          <5>1. n \in 1 .. m
            BY <4>3
          <5>2. Found(upTo[m], n)
            BY <2>1, <5>1
          <5> QED
            BY <2>1, <2>4, <4>1, <5>2
        <4> QED
          BY <4>2, <4>3
      <3>2. CASE handles[h].pending[k(m + 1)] # None
        <4>1. upTo[m + 1] = upTo[m]
          BY <2>2, <3>2 DEF F
        <4>2. CASE n = m + 1
          BY <3>2, <4>2
        <4>3. CASE n # m + 1
          <5>1. n \in 1 .. m
            BY <4>3
          <5> QED
            BY <2>1, <4>1, <5>1
        <4> QED
          BY <4>2, <4>3
      <3> QED
        BY <3>1, <3>2
    <2>8. m + 1 \in 0 .. N
      OBVIOUS
    <2> HIDE DEF Found
    <2> QED
      BY <2>6, <2>7, <2>8
  <1>7. N \in P
    <2> HIDE DEF P
    <2>1. \A n \in 0 .. N : n \in P
      BY <1>5, <1>6, CountUp
    <2> QED
      BY <2>1
  <1> QED
    BY <1>1, <1>7

(* coalesce_chunk_indices: every index lies in one of the runs.            *)
Runs == Seq(Nat \X Nat)

Covers(groups, k) ==
  \E g \in 1 .. Len(groups) : groups[g][1] <= k /\ k <= groups[g][2]

RunsOrdered(groups) == \A g \in 1 .. Len(groups) : groups[g][1] <= groups[g][2]

LEMMA RunPairs ==
  ASSUME NEW groups \in Runs, NEW g \in 1 .. Len(groups)
  PROVE  /\ groups[g] = <<groups[g][1], groups[g][2]>>
         /\ groups[g][1] \in Nat /\ groups[g][2] \in Nat
  <1>1. groups[g] \in Nat \X Nat
    BY DEF Runs
  <1> QED
    BY <1>1

LEMMA NewRun ==
  ASSUME NEW groups \in Runs, RunsOrdered(groups), NEW k \in Nat
  PROVE  LET next == Append(groups, <<k, k>>)
         IN  /\ next \in Runs /\ RunsOrdered(next) /\ Covers(next, k)
             /\ \A j \in Nat : Covers(groups, j) => Covers(next, j)
  <1> DEFINE x == <<k, k>>
             next == Append(groups, x)
             S == Nat \X Nat
  <1>1. x \in S /\ x[1] = k /\ x[2] = k
    OBVIOUS
  <1>2. groups \in Seq(S)
    BY DEF Runs
  <1> HIDE DEF x, S
  <1>3. /\ next \in Seq(S)
        /\ Len(next) = Len(groups) + 1 /\ Len(groups) \in Nat
        /\ Len(groups) + 1 \in 1 .. Len(next)
        /\ next[Len(groups) + 1] = x
        /\ \A i \in 1 .. Len(groups) : i \in 1 .. Len(next) /\ next[i] = groups[i]
    BY <1>1, <1>2, Appended
  <1> HIDE DEF next
  <1>4. next \in Runs
    BY <1>3 DEF Runs, S
  <1>5. RunsOrdered(next)
    <2> SUFFICES ASSUME NEW g \in 1 .. Len(next) PROVE next[g][1] <= next[g][2]
      BY DEF RunsOrdered
    <2>1. CASE g = Len(groups) + 1
      BY <1>1, <1>3, <2>1
    <2>2. CASE g # Len(groups) + 1
      <3>1. g \in 1 .. Len(groups)
        BY <1>3, <2>2
      <3> QED
        BY <1>3, <3>1 DEF RunsOrdered
    <2> QED
      BY <2>1, <2>2
  <1>6. Covers(next, k)
    BY <1>1, <1>3 DEF Covers
  <1>7. \A j \in Nat : Covers(groups, j) => Covers(next, j)
    BY <1>3 DEF Covers
  <1> QED
    BY <1>4, <1>5, <1>6, <1>7 DEF next, x

LEMMA LongerRun ==
  ASSUME NEW groups \in Runs, RunsOrdered(groups), NEW k \in Nat,
         Len(groups) # 0, groups[Len(groups)][2] + 1 = k
  PROVE  LET next == [groups EXCEPT ![Len(groups)] = <<@[1], k>>]
         IN  /\ next \in Runs /\ RunsOrdered(next) /\ Covers(next, k)
             /\ \A j \in Nat : Covers(groups, j) => Covers(next, j)
  <1> DEFINE L == Len(groups)
             x == <<groups[L][1], k>>
             next == [groups EXCEPT ![L] = <<@[1], k>>]
  <1>1. L \in 1 .. L /\ L \in Nat
    BY DEF Runs
  <1>2. /\ groups[L][1] \in Nat /\ groups[L][2] \in Nat
        /\ groups[L][1] <= groups[L][2]
    BY <1>1, RunPairs DEF RunsOrdered
  <1>3. x \in Nat \X Nat /\ x[1] = groups[L][1] /\ x[2] = k
    BY <1>2
  <1>4. next = [groups EXCEPT ![L] = x]
    OBVIOUS
  <1> HIDE DEF next, x
  <1>5. /\ next \in Runs /\ Len(next) = L /\ next[L] = x
        /\ \A g \in 1 .. L : g # L => next[g] = groups[g]
    BY <1>1, <1>3, <1>4 DEF Runs
  <1> HIDE DEF L
  <1>6. groups[L][1] <= k /\ groups[L][2] <= k
    BY <1>2 DEF L
  <1>7. RunsOrdered(next)
    <2> SUFFICES ASSUME NEW g \in 1 .. L PROVE next[g][1] <= next[g][2]
      BY <1>5 DEF RunsOrdered
    <2>1. CASE g = L
      BY <1>3, <1>5, <1>6, <2>1
    <2>2. CASE g # L
      BY <1>5, <2>2 DEF RunsOrdered, L
    <2> QED
      BY <2>1, <2>2
  <1>8. Covers(next, k)
    BY <1>1, <1>3, <1>5, <1>6 DEF Covers
  <1>9. ASSUME NEW j \in Nat, Covers(groups, j) PROVE Covers(next, j)
    <2>1. PICK g \in 1 .. L : groups[g][1] <= j /\ j <= groups[g][2]
      BY <1>9 DEF Covers, L
    <2>2. CASE g = L
      <3>1. next[L][1] <= j /\ j <= next[L][2]
        BY <1>2, <1>3, <1>5, <1>6, <2>1, <2>2
      <3> QED
        BY <1>1, <1>5, <3>1 DEF Covers
    <2>3. CASE g # L
      BY <1>5, <2>1, <2>3 DEF Covers
    <2> QED
      BY <2>2, <2>3
  <1> QED
    BY <1>5, <1>7, <1>8, <1>9 DEF next, L

LEMMA CoalesceCovers ==
  ASSUME NEW idxs \in Seq(Nat)
  PROVE  /\ Coalesce(idxs) \in Runs
         /\ \A i \in 1 .. Len(idxs) : Covers(Coalesce(idxs), idxs[i])
  <1> DEFINE N == Len(idxs)
             F(n, groups) ==
               LET last == Len(groups)
               IN IF last # 0 /\ groups[last][2] + 1 = idxs[n]
                    THEN [groups EXCEPT ![last] = <<@[1], idxs[n]>>]
                    ELSE Append(groups, <<idxs[n], idxs[n]>>)
             Body(g) == [n \in 0 .. N |-> IF n = 0 THEN <<>> ELSE F(n, g[n - 1])]
             upTo == CHOOSE g : g = Body(g)
             V == {groups \in Runs : RunsOrdered(groups)}
             v0 == <<>>
             step == [x \in (1 .. N) \X V |-> F(x[1], x[2])]
  <1>1. Coalesce(idxs) = upTo[N]
    BY DEF Coalesce
  <1>2. N \in Nat /\ \A n \in 1 .. N : idxs[n] \in Nat
    OBVIOUS
  <1>3. ASSUME NEW n \in 1 .. N, NEW groups \in V
        PROVE  /\ F(n, groups) \in V /\ Covers(F(n, groups), idxs[n])
               /\ \A j \in Nat : Covers(groups, j) => Covers(F(n, groups), j)
    <2>1. groups \in Runs /\ RunsOrdered(groups) /\ idxs[n] \in Nat
      BY <1>2, <1>3
    <2>2. CASE Len(groups) # 0 /\ groups[Len(groups)][2] + 1 = idxs[n]
      <3> DEFINE next == [groups EXCEPT ![Len(groups)] = <<@[1], idxs[n]>>]
      <3>1. F(n, groups) = next
        BY <2>2
      <3>2. /\ next \in Runs /\ RunsOrdered(next) /\ Covers(next, idxs[n])
            /\ \A j \in Nat : Covers(groups, j) => Covers(next, j)
        BY <2>1, <2>2, LongerRun
      <3> HIDE DEF F, next
      <3> QED
        BY <3>1, <3>2
    <2>3. CASE ~ (Len(groups) # 0 /\ groups[Len(groups)][2] + 1 = idxs[n])
      <3> DEFINE next == Append(groups, <<idxs[n], idxs[n]>>)
      <3>1. F(n, groups) = next
        BY <2>3
      <3>2. /\ next \in Runs /\ RunsOrdered(next) /\ Covers(next, idxs[n])
            /\ \A j \in Nat : Covers(groups, j) => Covers(next, j)
        BY <2>1, NewRun
      <3> HIDE DEF F, next
      <3> QED
        BY <3>1, <3>2
    <2> QED
      BY <2>2, <2>3
  <1>4. v0 \in V
    BY DEF Runs, RunsOrdered
  <1> HIDE DEF F, V, v0, N
  <1>5. upTo = Body(upTo)
    <2>1. step \in LoopSteps(N, V)
      BY <1>3 DEF LoopSteps
    <2>2. \A n \in 1 .. N, s \in V : step[<<n, s>>] = F(n, s)
      OBVIOUS
    <2> HIDE DEF step
    <2>3. PICK f \in [0 .. N -> V] : LoopRun(f, N, v0, step)
      BY <1>2, <1>4, <2>1, LoopExists
    <2>4. \A n \in 1 .. N : f[n] = F(n, f[n - 1])
      <3>1. \A n \in 1 .. N : n - 1 \in 0 .. N /\ f[n - 1] \in V
        BY <1>2
      <3> QED
        BY <2>2, <2>3, <3>1 DEF LoopRun
    <2>5. f = Body(f)
      BY <2>3, <2>4 DEF LoopRun, v0
    <2> HIDE DEF Body
    <2> QED
      BY <2>5
  <1> HIDE DEF upTo
  <1>6. upTo[0] = v0 /\ \A n \in 1 .. N : upTo[n] = F(n, upTo[n - 1])
    BY <1>2, <1>5 DEF v0
  <1> DEFINE P == {m \in 0 .. N : /\ upTo[m] \in V
                                  /\ \A n \in 1 .. m : Covers(upTo[m], idxs[n])}
  <1>7. 0 \in P
    <2>1. 0 \in 0 .. N /\ \A n \in 1 .. 0 : FALSE
      BY <1>2
    <2> QED
      BY <1>4, <1>6, <2>1
  <1>8. ASSUME NEW m \in 0 .. (N - 1), m \in P PROVE m + 1 \in P
    <2>1. upTo[m] \in V /\ \A n \in 1 .. m : Covers(upTo[m], idxs[n])
      BY <1>8
    <2>2. m + 1 \in 1 .. N /\ m + 1 \in 0 .. N /\ (m + 1) - 1 = m
      BY <1>2
    <2>3. upTo[m + 1] = F(m + 1, upTo[m])
      BY <1>6, <2>2
    <2>4. /\ upTo[m + 1] \in V /\ Covers(upTo[m + 1], idxs[m + 1])
          /\ \A j \in Nat : Covers(upTo[m], j) => Covers(upTo[m + 1], j)
      BY <1>3, <2>1, <2>2, <2>3
    <2>5. ASSUME NEW n \in 1 .. (m + 1) PROVE Covers(upTo[m + 1], idxs[n])
      <3>1. CASE n = m + 1
        BY <2>4, <3>1
      <3>2. CASE n # m + 1
        <4>1. n \in 1 .. m /\ n \in 1 .. N
          BY <1>2, <3>2
        <4> QED
          BY <1>2, <2>1, <2>4, <4>1
      <3> QED
        BY <3>1, <3>2
    <2> QED
      BY <2>2, <2>4, <2>5
  <1>9. N \in P
    <2> HIDE DEF P
    <2>1. \A n \in 0 .. N : n \in P
      BY <1>2, <1>7, <1>8, CountUp
    <2> QED
      BY <1>2, <2>1
  <1> QED
    BY <1>1, <1>9 DEF V, N

(* split_into_chunks: the slices cover the buffer.                         *)
SlicesOf(len, offset) == {Slice(len, offset, c) : c \in 0 .. (len - 1)}

Slices(slices, i) ==
  \E j \in 1 .. Len(slices) : /\ slices[j].buf_offset <= i
                              /\ i < slices[j].buf_offset + slices[j].len

LEMMA SliceAt ==
  ASSUME NEW len \in Nat, NEW offset \in Nat, NEW c \in 0 .. (len - 1)
  PROVE  LET s == Slice(len, offset, c)
         IN  /\ s \in SlicesOf(len, offset)
             /\ s.chunk_idx = ChunkIdxOf(offset + c)
             /\ s.chunk_offset = ChunkOffsetOf(offset + c)
             /\ s.buf_offset = c /\ s.len \in Nat /\ s.len >= 1
             /\ c + s.len <= len /\ s.len <= Available(offset + c)
  <1> DEFINE p == offset + c
  <1>1. p \in Nat /\ Available(p) \in Nat /\ Available(p) >= 1 /\ len - c \in Nat /\ len - c >= 1
    BY Located
  <1> HIDE DEF p
  <1> QED
    BY <1>1 DEF Slice, SlicesOf, p

LEMMA Prepended ==
  ASSUME NEW S, NEW s \in Seq(S), NEW x \in S
  PROVE  /\ <<x>> \o s \in Seq(S)
         /\ Len(<<x>> \o s) = Len(s) + 1 /\ Len(s) \in Nat
         /\ 1 \in 1 .. Len(<<x>> \o s) /\ (<<x>> \o s)[1] = x
         /\ \A i \in 1 .. Len(s) : i + 1 \in 1 .. Len(<<x>> \o s) /\ (<<x>> \o s)[i + 1] = s[i]
  OBVIOUS

LEMMA SplitFacts ==
  ASSUME NEW len \in Nat, NEW offset \in Nat
  PROVE  /\ SplitIntoChunks(len, offset) \in Seq(SlicesOf(len, offset))
         /\ \A i \in 0 .. (len - 1) : Slices(SplitIntoChunks(len, offset), i)
  <1> DEFINE V == Seq(SlicesOf(len, offset))
             S(c) == Slice(len, offset, c)
             n(c) == S(c).len
             Iter(g, c) == IF c = len THEN <<>> ELSE <<S(c)>> \o g[c + n(c)]
             Body(g) == [c \in 0 .. len |-> Iter(g, c)]
             from == CHOOSE g : g = Body(g)
  <1>1. SplitIntoChunks(len, offset) = from[0]
    BY DEF SplitIntoChunks
  <1>2. ASSUME NEW c \in 0 .. (len - 1)
        PROVE  /\ S(c) \in SlicesOf(len, offset) /\ S(c).buf_offset = c
               /\ n(c) \in Nat /\ n(c) >= 1 /\ c + n(c) \in (c + 1) .. len
    <2>1. /\ S(c) \in SlicesOf(len, offset) /\ S(c).buf_offset = c
          /\ n(c) \in Nat /\ n(c) >= 1 /\ c + n(c) <= len
      BY SliceAt
    <2> HIDE DEF n, S
    <2> QED
      BY <2>1
  <1> HIDE DEF n, S
  <1>3. ASSUME NEW c \in 0 .. (len - 1), NEW s \in V
        PROVE  <<S(c)>> \o s \in V
    <2> DEFINE X == SlicesOf(len, offset)
    <2>1. S(c) \in X /\ s \in Seq(X)
      BY <1>2
    <2> HIDE DEF X
    <2>2. <<S(c)>> \o s \in Seq(X)
      BY <2>1, Prepended
    <2> QED
      BY <2>2 DEF X
  <1>4. <<>> \in V
    OBVIOUS
  <1> DEFINE Run(f, m) == \A c \in (len - m) .. len : f[c] = Iter(f, c)
             P == {m \in 0 .. len : \E f \in [(len - m) .. len -> V] : Run(f, m)}
  <1>5. 0 \in P
    <2> DEFINE f == [c \in (len - 0) .. len |-> <<>>]
    <2>1. f \in [(len - 0) .. len -> V]
      BY <1>4
    <2>2. Run(f, 0)
      OBVIOUS
    <2>3. 0 \in 0 .. len
      OBVIOUS
    <2> HIDE DEF Run, f, V
    <2> QED
      BY <2>1, <2>2, <2>3
  <1>6. ASSUME NEW m \in 0 .. (len - 1), m \in P PROVE m + 1 \in P
    <2>1. PICK f \in [(len - m) .. len -> V] : Run(f, m)
      BY <1>6
    <2> DEFINE d == len - (m + 1)
               v == <<S(d)>> \o f[d + n(d)]
               g == [c \in d .. len |-> IF c = d THEN v ELSE f[c]]
    <2>2. d \in 0 .. (len - 1) /\ d + n(d) \in (len - m) .. len /\ d < len - m
      <3>1. d \in 0 .. (len - 1) /\ d + 1 = len - m /\ d < len - m
        OBVIOUS
      <3>2. d + n(d) \in (d + 1) .. len
        BY <1>2, <3>1
      <3> QED
        BY <3>1, <3>2
    <2>3. v \in V
      BY <1>3, <2>2
    <2>4. g \in [d .. len -> V]
      <3>1. \A c \in d .. len : c # d => c \in (len - m) .. len
        OBVIOUS
      <3> HIDE DEF d, v, V
      <3> QED
        BY <2>3, <3>1
    <2>5. ASSUME NEW c \in d .. len PROVE g[c] = Iter(g, c)
      <3>1. CASE c = d
        <4>1. g[c] = v /\ c # len
          BY <2>2, <3>1
        <4>2. d + n(d) \in d .. len /\ d + n(d) # d
          BY <2>2
        <4>3. g[d + n(d)] = f[d + n(d)]
          BY <4>2
        <4> HIDE DEF g
        <4> QED
          BY <3>1, <4>1, <4>3
      <3>2. CASE c # d
        <4>1. c \in (len - m) .. len /\ g[c] = f[c]
          BY <3>2
        <4>2. f[c] = Iter(f, c)
          BY <2>1, <4>1
        <4>3. CASE c = len
          BY <4>1, <4>2, <4>3
        <4>4. CASE c # len
          <5>1. c \in 0 .. (len - 1)
            BY <2>2, <4>1, <4>4
          <5>2. c + n(c) \in (c + 1) .. len
            BY <1>2, <5>1
          <5>3. c + n(c) \in d .. len /\ c + n(c) # d
            BY <2>2, <4>1, <5>2
          <5>4. g[c + n(c)] = f[c + n(c)]
            BY <5>3
          <5> HIDE DEF g
          <5> QED
            BY <4>1, <4>2, <4>4, <5>4
        <4> QED
          BY <4>3, <4>4
      <3> QED
        BY <3>1, <3>2
    <2>6. Run(g, m + 1)
      <3> HIDE DEF g, Iter
      <3> QED
        BY <2>5
    <2>7. m + 1 \in 0 .. len
      OBVIOUS
    <2> HIDE DEF Run, g, V
    <2> QED
      BY <2>4, <2>6, <2>7
  <1>7. from = Body(from)
    <2>1. len \in P
      <3> HIDE DEF P
      <3>1. \A m \in 0 .. len : m \in P
        BY <1>5, <1>6, CountUp
      <3> QED
        BY <3>1
    <2>2. PICK f \in [(len - len) .. len -> V] : Run(f, len)
      BY <2>1
    <2>3. f = Body(f)
      <3>1. len - len = 0
        OBVIOUS
      <3> HIDE DEF Iter, V
      <3> QED
        BY <2>2, <3>1
    <2> HIDE DEF Body
    <2> QED
      BY <2>3
  <1> HIDE DEF from
  <1>8. \A c \in 0 .. len : from[c] = Iter(from, c)
    <2> HIDE DEF Iter
    <2> QED
      BY <1>7
  <1> DEFINE Good(c) == from[c] \in V /\ \A i \in c .. (len - 1) : Slices(from[c], i)
             G == {m \in 0 .. len : \A c \in (len - m) .. len : Good(c)}
  <1>9. 0 \in G
    <2>1. from[len] = <<>>
      <3>1. len \in 0 .. len
        OBVIOUS
      <3> HIDE DEF n, S, V
      <3> QED
        BY <1>8, <3>1
    <2>2. \A i \in len .. (len - 1) : FALSE
      OBVIOUS
    <2>3. Good(len)
      BY <1>4, <2>1, <2>2
    <2>4. 0 \in 0 .. len /\ \A c \in (len - 0) .. len : c = len
      OBVIOUS
    <2> HIDE DEF Good
    <2> QED
      BY <2>3, <2>4
  <1>10. ASSUME NEW m \in 0 .. (len - 1), m \in G PROVE m + 1 \in G
    <2> DEFINE d == len - (m + 1)
               e == d + n(d)
    <2>1. \A c \in (len - m) .. len : Good(c)
      BY <1>10
    <2>2. d \in 0 .. (len - 1) /\ d \in 0 .. len /\ d # len /\ d + 1 = len - m
      OBVIOUS
    <2>3. e \in (len - m) .. len /\ n(d) \in Nat
      BY <1>2, <2>2
    <2>4. from[d] = <<S(d)>> \o from[e]
      BY <1>8, <2>2
    <2>5. Good(e)
      BY <2>1, <2>3
    <2>6. /\ from[d] \in V /\ 1 \in 1 .. Len(from[d]) /\ from[d][1] = S(d)
          /\ \A i \in 1 .. Len(from[e]) : i + 1 \in 1 .. Len(from[d]) /\ from[d][i + 1] = from[e][i]
      <3> DEFINE X == SlicesOf(len, offset)
                 s == from[e]
                 x == S(d)
      <3>1. x \in X /\ s \in Seq(X)
        BY <1>2, <2>2, <2>5
      <3> HIDE DEF X, s, x
      <3>2. /\ <<x>> \o s \in Seq(X)
            /\ 1 \in 1 .. Len(<<x>> \o s) /\ (<<x>> \o s)[1] = x
            /\ \A i \in 1 .. Len(s) : i + 1 \in 1 .. Len(<<x>> \o s) /\ (<<x>> \o s)[i + 1] = s[i]
        BY <3>1, Prepended
      <3>3. from[d] = <<x>> \o s
        BY <2>4 DEF s, x
      <3>4. /\ from[d] \in Seq(X) /\ 1 \in 1 .. Len(from[d]) /\ from[d][1] = x
            /\ \A i \in 1 .. Len(s) : i + 1 \in 1 .. Len(from[d]) /\ from[d][i + 1] = s[i]
        BY <3>2, <3>3
      <3> QED
        BY <3>4 DEF X, s, x
    <2>7. ASSUME NEW i \in d .. (len - 1) PROVE Slices(from[d], i)
      <3>1. CASE i < e
        <4>1. S(d).buf_offset = d /\ S(d).len = n(d)
          BY <1>2, <2>2 DEF n
        <4>2. S(d).buf_offset <= i /\ i < S(d).buf_offset + S(d).len
          BY <2>2, <2>3, <3>1, <4>1
        <4> QED
          BY <2>6, <4>2 DEF Slices
      <3>2. CASE i >= e
        <4>1. i \in e .. (len - 1)
          BY <2>3, <3>2
        <4>2. Slices(from[e], i)
          BY <2>5, <4>1
        <4> HIDE DEF d, e
        <4> QED
          BY <2>6, <4>2 DEF Slices
      <3> QED
        BY <2>2, <2>3, <3>1, <3>2
    <2>8. Good(d)
      BY <2>6, <2>7
    <2>9. \A c \in (len - (m + 1)) .. len : c = d \/ c \in (len - m) .. len
      OBVIOUS
    <2>10. m + 1 \in 0 .. len
      OBVIOUS
    <2> HIDE DEF Good
    <2> QED
      BY <2>1, <2>8, <2>9, <2>10
  <1>11. Good(0)
    <2>1. len \in G
      <3> HIDE DEF G
      <3>1. \A m \in 0 .. len : m \in G
        BY <1>9, <1>10, CountUp
      <3> QED
        BY <3>1
    <2>2. 0 \in (len - len) .. len
      OBVIOUS
    <2> HIDE DEF Good
    <2> QED
      BY <2>1, <2>2
  <1> QED
    BY <1>1, <1>11

----------------------------------------------------------------------------
(* What a handle shows, as a function of what it has staged and what is    *)
(* stored.                                                                 *)
EmptyChunk == [i \in {} |-> 0]

StoredChunk(stored) == IF stored = None THEN EmptyChunk ELSE stored

Contents(entry, stored) ==
  IF entry = None THEN StoredChunk(stored)
  ELSE IF entry = Deleted THEN EmptyChunk
  ELSE entry

ByteOf(chunk, i) == IF i \in DOMAIN chunk THEN chunk[i] ELSE 0

Bytes(pend, chunks) ==
  [p \in Positions |->
     ByteOf(Contents(pend[ChunkIdxOf(p)], chunks[ChunkIdxOf(p)]), ChunkOffsetOf(p))]

(* The length of a payload.                                                *)
DataLen(data) == CHOOSE n \in 1 .. MaxU64 : DOMAIN data = 0 .. (n - 1)

----------------------------------------------------------------------------
(* The inductive invariant.                                                *)
Entries == [ChunkIdxs -> Chunk \cup {None, Deleted}]
Stored  == [ChunkIdxs -> Chunk \cup {None}]

WriteOps  == [op : {"write"}, data : Payloads, offset : Offsets, covered : Offsets]
ShrinkOps == [op : {"shrink"}, newSize : Offsets, last : Chunk \cup {None, Deleted}]
ReadOps   == [op : {"pread"}, offset : Offsets, len : Offsets,
              runs : SUBSET (Nat \X Nat), fetched : Stored]
SyncOps   == [op : {"sync", "flush"}, destroy : BOOLEAN]

OpeningHandles == [state : {"opening"}, client : Clients]
OpenHandles ==
  [state : {"open"}, client : Clients, flags : {ReadOnly, ReadWrite},
   size : Offsets, pending : Entries, dirty : BOOLEAN,
   io : {Idle} \cup WriteOps \cup ShrinkOps \cup ReadOps \cup SyncOps,
   touched : SUBSET Positions]

(* An open handle: the operation in progress is within its bounds, and a   *)
(* handle that may not write has nothing staged.                           *)
HandleOK(r) ==
  /\ r \in OpenHandles
  /\ r.io.op = "write" =>
       /\ r.io.offset + DataLen(r.io.data) <= MaxU64
       /\ r.io.covered <= DataLen(r.io.data)
  /\ r.io.op = "shrink" => r.io.newSize < r.size
  /\ r.io.op = "pread" => r.io.offset + r.io.len <= MaxU64
  /\ r.flags.write => r.client = "writer"
  /\ ~r.flags.write => /\ r.pending = NoChunks
                       /\ r.dirty = FALSE
                       /\ r.io.op \in {"idle", "pread"}

Types ==
  /\ db \in Files /\ seen \in Files
  /\ db.linked => db.exists
  /\ changes \in 0 .. MaxChanges
  /\ overlapped \in BOOLEAN
  /\ DOMAIN handles = Handles
  /\ \A h \in Handles : \/ handles[h] = Closed
                        \/ handles[h] \in OpeningHandles
                        \/ HandleOK(handles[h])

(* A position a write in progress has already staged.                      *)
InSlice(r, p) ==
  /\ r.io.op = "write"
  /\ r.io.offset <= p
  /\ p < r.io.offset + r.io.covered

(* Nothing shows at or past the size the handle has, but what a write in   *)
(* progress has staged.                                                    *)
ZeroPastEnd(r, file) ==
  \A p \in Positions : p >= r.size /\ ~InSlice(r, p) =>
    Bytes(r.pending, file.chunks)[p] = 0

(* While the file has its name, the handle differs from the database only  *)
(* where it has written or cut off since its last sync.                    *)
MergesOnly(r, file) ==
  file.linked => \A p \in Positions : p \notin r.touched /\ ~InSlice(r, p) =>
    Bytes(r.pending, file.chunks)[p] = StoredBytes(file)[p]

(* The entry a truncation computed for the last chunk is right when it is  *)
(* put in place.                                                           *)
CutRight(r, file) ==
  r.io.op = "shrink" /\ r.io.newSize # 0 =>
    LET k == ChunkIdxOf(r.io.newSize - 1)
        n == ChunkOffsetOf(r.io.newSize - 1) + 1
        ByteNow(entry, i) == ByteOf(Contents(entry, file.chunks[k]), i)
    IN /\ \A i \in n .. (ChunkSize - 1) : ByteNow(r.io.last, i) = 0
       /\ file.linked => \A i \in 0 .. (n - 1) :
            ByteNow(r.io.last, i) = ByteNow(r.pending[k], i)

(* Between the write and the flush of a sync.                              *)
FlushesOwnSize(r, file) ==
  r.io.op = "flush" => \A p \in Positions : p >= r.size => StoredBytes(file)[p] = 0

WriterOK(r, file) ==
  /\ ZeroPastEnd(r, file)
  /\ MergesOnly(r, file)
  /\ CutRight(r, file)
  /\ FlushesOwnSize(r, file)

InRun(run, k) == run[1] <= k /\ k <= run[2]

(* A pread in progress: what it has collected was shown, and what it has   *)
(* not is still to be fetched.                                             *)
ReadOK(r, bytesShown) ==
  \A p \in r.io.offset .. (r.io.offset + r.io.len - 1) :
    LET k == ChunkIdxOf(p)
        i == ChunkOffsetOf(p)
    IN /\ r.pending[k] # None =>
            ByteOf(Contents(r.pending[k], None), i) \in bytesShown[p]
       /\ r.pending[k] = None /\ r.io.fetched[k] # None =>
            ByteOf(r.io.fetched[k], i) \in bytesShown[p]
       /\ r.pending[k] = None /\ (\A run \in r.io.runs : ~InRun(run, k)) =>
            ByteOf(StoredChunk(r.io.fetched[k]), i) \in bytesShown[p]

Inv ==
  /\ Types
  /\ \A h \in Handles : Doing(h, "pread") => ReadOK(handles[h], shown[h])
  /\ ~overlapped =>
       /\ \A g, h \in Writers : g = h
       /\ \A h \in Writers : WriterOK(handles[h], db)
       /\ OneWriterHidesNothing

----------------------------------------------------------------------------
(* The operators of a handle, as functions of what it has staged and what  *)
(* its client shows.                                                       *)
Chunks(h) == Visible(handles[h].client).chunks

LEMMA HandleLayout ==
  ASSUME NEW h \in Handles
  PROVE  /\ H(h)!Positions = Positions
         /\ H(h)!ChunkIdxs = ChunkIdxs
         /\ \A p : H(h)!ChunkIdxOf(p) = ChunkIdxOf(p)
         /\ \A p : H(h)!ChunkOffsetOf(p) = ChunkOffsetOf(p)
         /\ \A len, offset, covered :
              H(h)!Slice(len, offset, covered) = Slice(len, offset, covered)
         /\ \A chunk, i : H(h)!ByteAt(chunk, i) = ByteOf(chunk, i)
         /\ \A data : H(h)!PayloadLen(data) = DataLen(data)
  BY DEF H!Positions, H!ChunkIdxs, H!ChunkIdxOf, H!ChunkOffsetOf, H!Slice, H!Available,
         H!ByteAt, H!PayloadLen, Positions, ChunkIdxs, ChunkIdxOf, ChunkOffsetOf,
         Slice, Available, ByteOf, DataLen

LEMMA HandleContents ==
  ASSUME NEW h \in Handles
  PROVE  \A k : H(h)!ChunkContents(k) = Contents(handles[h].pending[k], Chunks(h)[k])
  BY DEF H!ChunkContents, H!ReadChunkFromStore, H!EmptyChunk, Contents, StoredChunk,
         EmptyChunk, Chunks

LEMMA HandleViewNext ==
  ASSUME NEW h \in Handles
  PROVE  H(h)!View' = Bytes(handles[h].pending', Chunks(h)')
  BY DEF H!View, H!Positions, H!ChunkIdxOf, H!ChunkOffsetOf, H!ByteAt,
         H!ChunkContents, H!ReadChunkFromStore, H!EmptyChunk, Contents, StoredChunk,
         EmptyChunk, Chunks, Bytes, Positions, ChunkIdxOf, ChunkOffsetOf, ByteOf

----------------------------------------------------------------------------
(* Chunks and payloads.                                                    *)
LEMMA ChunkIntro ==
  ASSUME NEW n \in 0 .. ChunkSize, NEW c \in [0 .. (n - 1) -> Byte]
  PROVE  c \in Chunk
  BY DEF Chunk

LEMMA ChunkElim ==
  ASSUME NEW c \in Chunk
  PROVE  \E n \in 0 .. ChunkSize : c \in [0 .. (n - 1) -> Byte]
  BY DEF Chunk

LEMMA EmptyIsChunk ==
  /\ EmptyChunk \in Chunk
  /\ \A i : ByteOf(EmptyChunk, i) = 0
  <1>1. DOMAIN EmptyChunk = {}
    BY DEF EmptyChunk
  <1>2. 0 \in 0 .. ChunkSize /\ 0 .. (0 - 1) = {}
    BY LayoutAssumption
  <1>3. EmptyChunk \in [0 .. (0 - 1) -> Byte]
    BY <1>2 DEF EmptyChunk
  <1> QED
    BY <1>1, <1>2, <1>3, ChunkIntro DEF ByteOf

LEMMA ByteOfType ==
  ASSUME NEW c \in Chunk, NEW i
  PROVE  ByteOf(c, i) \in Byte
  <1>1. PICK n \in 0 .. ChunkSize : c \in [0 .. (n - 1) -> Byte]
    BY ChunkElim
  <1> QED
    BY <1>1, SharedAssumption DEF ByteOf

LEMMA ContentsType ==
  ASSUME NEW entry \in Chunk \cup {None, Deleted}, NEW stored \in Chunk \cup {None}
  PROVE  Contents(entry, stored) \in Chunk /\ StoredChunk(stored) \in Chunk
  BY EmptyIsChunk DEF Contents, StoredChunk

LEMMA DataFacts ==
  ASSUME NEW data \in Payloads
  PROVE  /\ DataLen(data) \in 1 .. MaxU64
         /\ data \in [0 .. (DataLen(data) - 1) -> Byte]
  <1>1. PICK n \in 1 .. MaxU64 : data \in [0 .. (n - 1) -> Byte]
    BY SharedAssumption
  <1>2. DOMAIN data = 0 .. (n - 1)
    BY <1>1
  <1>3. /\ DataLen(data) \in 1 .. MaxU64
        /\ DOMAIN data = 0 .. (DataLen(data) - 1)
    BY <1>2 DEF DataLen
  <1> QED
    BY <1>1, <1>2, <1>3

LEMMA PositionFacts ==
  ASSUME NEW p \in Positions
  PROVE  /\ p \in Nat /\ ChunkIdxOf(p) \in ChunkIdxs /\ ChunkIdxOf(p) \in Nat
         /\ ChunkOffsetOf(p) \in 0 .. (ChunkSize - 1)
  <1>1. p \in Nat
    BY LayoutAssumption DEF Positions
  <1> QED
    BY <1>1, Located DEF ChunkIdxs

LEMMA IdxsAreNat == ChunkIdxs \subseteq Nat
  BY PositionFacts DEF ChunkIdxs

(* The bytes of a handle at one position, and those of the store.          *)
LEMMA BytesAt ==
  ASSUME NEW p \in Positions, NEW pend, NEW chunks
  PROVE  Bytes(pend, chunks)[p]
           = ByteOf(Contents(pend[ChunkIdxOf(p)], chunks[ChunkIdxOf(p)]),
                    ChunkOffsetOf(p))
  BY DEF Bytes

LEMMA StoredAt ==
  ASSUME NEW p \in Positions, NEW file
  PROVE  StoredBytes(file)[p]
           = ByteOf(StoredChunk(file.chunks[ChunkIdxOf(p)]), ChunkOffsetOf(p))
  <1> DEFINE chunk == file.chunks[ChunkIdxOf(p)]
             i == ChunkOffsetOf(p)
  <1>1. StoredBytes(file)[p]
          = IF chunk = None THEN 0 ELSE IF i \in DOMAIN chunk THEN chunk[i] ELSE 0
    BY DEF StoredBytes
  <1> HIDE DEF chunk, i
  <1>2. StoredBytes(file)[p] = ByteOf(StoredChunk(chunk), i)
    BY <1>1, EmptyIsChunk DEF StoredChunk, ByteOf
  <1> QED
    BY <1>2 DEF chunk, i

(* A handle with nothing staged shows what is stored.                      *)
LEMMA NothingStaged ==
  ASSUME NEW p \in Positions, NEW file
  PROVE  Bytes(NoChunks, file.chunks)[p] = StoredBytes(file)[p]
  <1>1. NoChunks[ChunkIdxOf(p)] = None
    BY PositionFacts DEF NoChunks
  <1> QED
    BY <1>1, BytesAt, StoredAt DEF Contents

LEMMA NoChunksType == NoChunks \in Entries /\ NoChunks \in Stored
  BY DEF NoChunks, Entries, Stored

LEMMA NoChunksBytes ==
  ASSUME NEW file, file.chunks = NoChunks, NEW p \in Positions
  PROVE  StoredBytes(file)[p] = 0
  <1>1. file.chunks[ChunkIdxOf(p)] = None
    BY PositionFacts DEF NoChunks
  <1> QED
    BY <1>1, StoredAt, EmptyIsChunk DEF StoredChunk

(* The slice a write stages next starts at the first position that is not  *)
(* covered and stays inside one chunk and inside the payload.              *)
LEMMA SliceFacts ==
  ASSUME NEW len \in Nat, NEW offset \in Nat, NEW covered \in Nat,
         covered < len, offset + len <= MaxU64
  PROVE  LET s == Slice(len, offset, covered)
             p == offset + covered
         IN /\ p \in Positions
            /\ s.chunk_idx = ChunkIdxOf(p) /\ s.chunk_idx \in ChunkIdxs
            /\ s.buf_offset = covered
            /\ s.chunk_offset = ChunkOffsetOf(p)
            /\ s.chunk_offset \in 0 .. (ChunkSize - 1)
            /\ s.len \in Nat /\ s.len >= 1 /\ s.len <= Available(p)
            /\ s.chunk_offset + s.len <= ChunkSize
            /\ covered + s.len <= len
  <1> DEFINE s == Slice(len, offset, covered)
             p == offset + covered
  <1>1. p \in Nat /\ p \in Positions
    BY LayoutAssumption DEF Positions
  <1>2. ChunkIdxOf(p) \in ChunkIdxs
    BY <1>1 DEF ChunkIdxs
  <1>3. s.len = IF len - covered < Available(p) THEN len - covered ELSE Available(p)
    BY DEF Slice
  <1>4. s.chunk_idx = ChunkIdxOf(p) /\ s.buf_offset = covered
        /\ s.chunk_offset = ChunkOffsetOf(p)
    BY DEF Slice
  <1> HIDE DEF s, p
  <1>5. /\ ChunkOffsetOf(p) \in 0 .. (ChunkSize - 1)
        /\ Available(p) \in Nat /\ Available(p) >= 1
        /\ ChunkOffsetOf(p) + Available(p) <= ChunkSize
    BY <1>1, Located
  <1> QED
    BY <1>1, <1>2, <1>3, <1>4, <1>5, LayoutAssumption DEF s, p

(* Staging a slice changes no byte of its chunk but those of the slice:    *)
(* growing a short chunk adds zeroes, which it read as before.             *)
LEMMA StagedChunkFacts ==
  ASSUME NEW h \in Handles, NEW data \in Payloads, NEW s,
         s.chunk_idx \in ChunkIdxs, s.buf_offset \in Nat,
         s.chunk_offset \in 0 .. (ChunkSize - 1), s.len \in Nat, s.len >= 1,
         s.chunk_offset + s.len <= ChunkSize,
         s.buf_offset + s.len <= DataLen(data),
         handles[h].pending[s.chunk_idx] \in Chunk \cup {None, Deleted},
         Chunks(h)[s.chunk_idx] \in Chunk \cup {None}
  PROVE  LET c == H(h)!StagedChunk(s, data)
         IN /\ c \in Chunk
            /\ \A i \in 0 .. (ChunkSize - 1) :
                 ~ (s.chunk_offset <= i /\ i < s.chunk_offset + s.len) =>
                   ByteOf(c, i) =
                     ByteOf(Contents(handles[h].pending[s.chunk_idx],
                                     Chunks(h)[s.chunk_idx]), i)
  <1> USE LayoutAssumption
  <1> DEFINE now == Contents(handles[h].pending[s.chunk_idx], Chunks(h)[s.chunk_idx])
             zeroes == [i \in 0 .. (ChunkSize - 1) |-> 0]
             whole == s.chunk_offset = 0 /\ s.len = ChunkSize
             old == IF whole THEN zeroes ELSE now
             required == s.chunk_offset + s.len
             c == H(h)!StagedChunk(s, data)
  <1>1. zeroes \in Chunk
    BY ChunkIntro, SharedAssumption
  <1>2. old \in Chunk
    BY <1>1, ContentsType
  <1>3. PICK n \in 0 .. ChunkSize : old \in [0 .. (n - 1) -> Byte]
    BY <1>2, ChunkElim
  <1>4. required \in 1 .. ChunkSize
    OBVIOUS
  <1>5. PICK m \in 0 .. ChunkSize :
          m = IF n < required THEN required ELSE n
    BY <1>3, <1>4
  <1>6. (DOMAIN old) \cup (0 .. (required - 1)) = 0 .. (m - 1)
    BY <1>3, <1>4, <1>5
  <1>7. c = [i \in 0 .. (m - 1) |->
              IF s.chunk_offset <= i /\ i < required
                THEN data[s.buf_offset + (i - s.chunk_offset)]
                ELSE ByteOf(old, i)]
    <2>1. c = [i \in (DOMAIN old) \cup (0 .. (required - 1)) |->
                IF s.chunk_offset <= i /\ i < required
                  THEN data[s.buf_offset + (i - s.chunk_offset)]
                  ELSE ByteOf(old, i)]
      <3>1. H(h)!ChunkContents(s.chunk_idx) = now
        BY HandleContents
      <3> HIDE DEF now
      <3> QED
        BY <3>1 DEF H!StagedChunk, H!WholeChunk, H!ByteAt, ByteOf
    <2> QED
      BY <1>6, <2>1
  <1>8. \A i \in Int : s.chunk_offset <= i /\ i < required =>
          data[s.buf_offset + (i - s.chunk_offset)] \in Byte
    <2> TAKE i \in Int
    <2> HAVE s.chunk_offset <= i /\ i < required
    <2>1. DataLen(data) \in Nat /\ data \in [0 .. (DataLen(data) - 1) -> Byte]
      BY DataFacts
    <2>2. s.buf_offset + (i - s.chunk_offset) \in 0 .. (DataLen(data) - 1)
      BY <2>1
    <2> QED
      BY <2>1, <2>2
  <1>9. \A i \in Int : ByteOf(old, i) \in Byte
    BY <1>2, ByteOfType
  <1> HIDE DEF old, c
  <1>10. c \in [0 .. (m - 1) -> Byte]
    BY <1>7, <1>8, <1>9
  <1>11. c \in Chunk
    BY <1>10, ChunkIntro
  <1>12. \A i \in 0 .. (ChunkSize - 1) :
           ~ (s.chunk_offset <= i /\ i < required) => ByteOf(c, i) = ByteOf(old, i)
    BY <1>3, <1>4, <1>5, <1>7 DEF ByteOf
  <1>13. \A i \in 0 .. (ChunkSize - 1) :
           ~ (s.chunk_offset <= i /\ i < required) => old = now
    BY DEF old
  <1> QED
    BY <1>11, <1>12, <1>13 DEF c

(* The bytes outside the slice are those from before.                      *)
LEMMA StagedBytes ==
  ASSUME NEW pend \in Entries, NEW chunks, NEW start \in Positions,
         NEW len \in Nat, len <= Available(start), NEW c \in Chunk,
         \A i \in 0 .. (ChunkSize - 1) :
           ~ (ChunkOffsetOf(start) <= i /\ i < ChunkOffsetOf(start) + len) =>
             ByteOf(c, i) = ByteOf(Contents(pend[ChunkIdxOf(start)],
                                            chunks[ChunkIdxOf(start)]), i),
         NEW p \in Positions, ~ (start <= p /\ p < start + len)
  PROVE  Bytes([pend EXCEPT ![ChunkIdxOf(start)] = c], chunks)[p]
           = Bytes(pend, chunks)[p]
  <1> DEFINE k == ChunkIdxOf(start)
             o == ChunkOffsetOf(start)
             i == ChunkOffsetOf(p)
             new == [pend EXCEPT ![k] = c]
  <1>1. /\ p \in Nat /\ start \in Nat /\ k \in ChunkIdxs /\ ChunkIdxOf(p) \in ChunkIdxs
        /\ i \in 0 .. (ChunkSize - 1) /\ o \in 0 .. (ChunkSize - 1)
        /\ Available(start) \in Nat
    BY PositionFacts, Located
  <1>2. /\ new[k] = c
        /\ \A j \in ChunkIdxs : j # k => new[j] = pend[j]
    BY <1>1 DEF Entries
  <1> HIDE DEF new
  <1>3. ASSUME ChunkIdxOf(p) # k PROVE Bytes(new, chunks)[p] = Bytes(pend, chunks)[p]
    BY <1>1, <1>2, <1>3, BytesAt
  <1>4. ASSUME ChunkIdxOf(p) = k PROVE Bytes(new, chunks)[p] = Bytes(pend, chunks)[p]
    <2>1. ~ (o <= i /\ i < o + len)
      <3> SUFFICES ASSUME o <= i, i < o + len PROVE FALSE
        OBVIOUS
      <3> DEFINE q == start + (i - o)
      <3> USE LayoutAssumption
      <3>1. i - o \in Nat /\ i - o < Available(start)
        BY <1>1
      <3>2. ChunkIdxOf(q) = k /\ ChunkOffsetOf(q) = o + (i - o)
        BY <1>1, <3>1, RestOfChunk
      <3>3. q \in Nat /\ start <= q /\ q < start + len /\ o + (i - o) = i
        BY <1>1, <3>1
      <3>4. q = p
        BY <1>1, <1>4, <3>2, <3>3, Injective
      <3> QED
        BY <3>3, <3>4
    <2>2. ByteOf(c, i) = ByteOf(Contents(pend[k], chunks[k]), i)
      BY <1>1, <2>1
    <2>3. Contents(new[k], chunks[k]) = c
      BY <1>2, SharedAssumption DEF Contents
    <2> QED
      BY <1>4, <2>2, <2>3, BytesAt
  <1> QED
    BY <1>3, <1>4 DEF new

(* Vec::truncate keeps the first n bytes.                                  *)
LEMMA ShortenedFacts ==
  ASSUME NEW h \in Handles, NEW c \in Chunk, NEW n \in 1 .. ChunkSize
  PROVE  /\ H(h)!Shortened(c, n) \in Chunk
         /\ \A i \in 0 .. (ChunkSize - 1) :
              ByteOf(H(h)!Shortened(c, n), i) = IF i < n THEN ByteOf(c, i) ELSE 0
  <1> USE LayoutAssumption
  <1>1. PICK m \in 0 .. ChunkSize : c \in [0 .. (m - 1) -> Byte]
    BY ChunkElim
  <1>2. PICK l \in 0 .. ChunkSize : l = IF m < n THEN m ELSE n
    BY <1>1
  <1>3. (DOMAIN c) \cap (0 .. (n - 1)) = 0 .. (l - 1)
    BY <1>1, <1>2
  <1>4. H(h)!Shortened(c, n) = [i \in 0 .. (l - 1) |-> c[i]]
    BY <1>3 DEF H!Shortened
  <1>5. H(h)!Shortened(c, n) \in [0 .. (l - 1) -> Byte]
    BY <1>1, <1>2, <1>4
  <1>6. H(h)!Shortened(c, n) \in Chunk
    BY <1>5, ChunkIntro
  <1>7. \A i \in 0 .. (ChunkSize - 1) :
          ByteOf(H(h)!Shortened(c, n), i) = IF i < n THEN ByteOf(c, i) ELSE 0
    BY <1>1, <1>2, <1>4 DEF ByteOf
  <1> QED
    BY <1>6, <1>7

(* The entry for the last chunk of a truncated file shows the bytes before *)
(* the new end, and nothing from there on, whether it is staged, stored or *)
(* both.                                                                   *)
LEMMA ShortenedLastFacts ==
  ASSUME NEW h \in Handles, NEW k, NEW n \in 1 .. ChunkSize,
         handles[h].pending[k] \in Chunk \cup {None, Deleted},
         Chunks(h)[k] \in Chunk \cup {None}
  PROVE  LET e == H(h)!ShortenedLast(k, n)
         IN /\ e \in Chunk \cup {None, Deleted}
            /\ \A i \in n .. (ChunkSize - 1) :
                 ByteOf(Contents(e, Chunks(h)[k]), i) = 0
            /\ \A i \in 0 .. (n - 1) :
                 ByteOf(Contents(e, Chunks(h)[k]), i)
                   = ByteOf(Contents(handles[h].pending[k], Chunks(h)[k]), i)
  <1> DEFINE e == H(h)!ShortenedLast(k, n)
             entry == handles[h].pending[k]
             stored == Chunks(h)[k]
             persisted == StoredChunk(stored)
  <1> USE LayoutAssumption
  <1>1. persisted \in Chunk
    BY ContentsType
  <1>2. e = IF entry = Deleted THEN Deleted
            ELSE IF entry # None THEN H(h)!Shortened(entry, n)
            ELSE IF n \in DOMAIN persisted THEN H(h)!Shortened(persisted, n)
            ELSE None
    BY DEF H!ShortenedLast, H!ReadChunkFromStore, H!EmptyChunk, StoredChunk, EmptyChunk,
           Chunks
  <1>3. \A i \in n .. (ChunkSize - 1) : i \in 0 .. (ChunkSize - 1) /\ ~ (i < n)
    OBVIOUS
  <1>4. \A i \in 0 .. (n - 1) : i \in 0 .. (ChunkSize - 1) /\ i < n
    OBVIOUS
  <1> HIDE DEF e, persisted
  <1>5. CASE entry = Deleted
    <2>1. e = Deleted
      BY <1>2, <1>5
    <2>2. Contents(e, stored) = EmptyChunk /\ Contents(entry, stored) = EmptyChunk
      BY <1>5, <2>1, SharedAssumption DEF Contents
    <2> QED
      BY <2>1, <2>2, EmptyIsChunk DEF e
  <1>6. CASE entry \in Chunk
    <2> DEFINE short == H(h)!Shortened(entry, n)
    <2>1. entry # None /\ entry # Deleted
      BY <1>6, SharedAssumption
    <2>2. e = short
      BY <1>2, <2>1
    <2>3. /\ short \in Chunk
          /\ \A i \in 0 .. (ChunkSize - 1) :
               ByteOf(short, i) = IF i < n THEN ByteOf(entry, i) ELSE 0
      BY <1>6, ShortenedFacts
    <2> HIDE DEF short
    <2>4. Contents(e, stored) = short /\ Contents(entry, stored) = entry
      BY <2>1, <2>2, <2>3, SharedAssumption DEF Contents
    <2>5. e \in Chunk
      BY <2>2, <2>3
    <2> QED
      BY <1>3, <1>4, <2>3, <2>4, <2>5 DEF e
  <1>7. CASE entry = None /\ n \in DOMAIN persisted
    <2> DEFINE short == H(h)!Shortened(persisted, n)
    <2>1. e = short
      BY <1>2, <1>7, SharedAssumption
    <2>2. /\ short \in Chunk
          /\ \A i \in 0 .. (ChunkSize - 1) :
               ByteOf(short, i) = IF i < n THEN ByteOf(persisted, i) ELSE 0
      BY <1>1, ShortenedFacts
    <2> HIDE DEF short
    <2>3. Contents(e, stored) = short /\ Contents(entry, stored) = persisted
      BY <1>7, <2>1, <2>2, SharedAssumption DEF Contents, persisted
    <2>4. e \in Chunk
      BY <2>1, <2>2
    <2> QED
      BY <1>3, <1>4, <2>2, <2>3, <2>4 DEF e
  <1>8. CASE entry = None /\ n \notin DOMAIN persisted
    <2>1. e = None
      BY <1>2, <1>8, SharedAssumption
    <2>2. Contents(e, stored) = persisted /\ Contents(entry, stored) = persisted
      BY <1>8, <2>1 DEF Contents, persisted
    <2>3. PICK m \in 0 .. ChunkSize : persisted \in [0 .. (m - 1) -> Byte]
      BY <1>1, ChunkElim
    <2>4. \A i \in n .. (ChunkSize - 1) : ByteOf(persisted, i) = 0
      BY <1>8, <2>3 DEF ByteOf
    <2> QED
      BY <2>1, <2>2, <2>4 DEF e
  <1> QED
    BY <1>5, <1>6, <1>7, <1>8

(* What a truncation leaves staged before and past the last chunk.         *)
LEMMA TruncatedFacts ==
  ASSUME NEW h \in Handles, NEW newSize \in Offsets, newSize # MaxU64,
         handles[h].pending \in Entries, Chunks(h) \in Stored
  PROVE  LET cut == H(h)!TruncatedPending(newSize)
         IN /\ cut \in Entries
            /\ newSize = 0 => \A k \in ChunkIdxs :
                 cut[k] = IF Chunks(h)[k] # None THEN Deleted ELSE None
            /\ newSize # 0 => \A k \in ChunkIdxs : k < ChunkIdxOf(newSize - 1) =>
                 cut[k] = handles[h].pending[k]
            /\ newSize # 0 => \A k \in ChunkIdxs : k > ChunkIdxOf(newSize - 1) =>
                 cut[k] = IF Chunks(h)[k] # None THEN Deleted ELSE None
  <1> DEFINE cut == H(h)!TruncatedPending(newSize)
             last == IF newSize = 0 THEN -1 ELSE ChunkIdxOf(newSize - 1)
             short(k) == H(h)!ShortenedLast(k, ChunkOffsetOf(newSize - 1) + 1)
  <1> USE LayoutAssumption
  <1>1. cut = [k \in ChunkIdxs |->
                IF k < last THEN handles[h].pending[k]
                ELSE IF k = last THEN short(k)
                ELSE IF Chunks(h)[k] # None THEN Deleted
                ELSE None]
    BY HandleLayout DEF H!TruncatedPending, H!Persisted, Chunks
  <1>2. \A k \in ChunkIdxs : /\ k \in Nat
                             /\ handles[h].pending[k] \in Chunk \cup {None, Deleted}
                             /\ Chunks(h)[k] \in Chunk \cup {None}
    BY IdxsAreNat DEF Entries, Stored
  <1>3. newSize # 0 => newSize - 1 \in Positions
    BY DEF Offsets, Positions
  <1>4. last \in Int /\ (newSize # 0 => ChunkOffsetOf(newSize - 1) + 1 \in 1 .. ChunkSize)
    BY <1>3, PositionFacts
  <1>5. \A k \in ChunkIdxs : k = last => short(k) \in Chunk \cup {None, Deleted}
    BY <1>2, <1>4, ShortenedLastFacts
  <1> HIDE DEF cut, short
  <1>6. cut \in Entries
    <2>1. \A k \in ChunkIdxs : cut[k] \in Chunk \cup {None, Deleted}
      BY <1>1, <1>2, <1>5
    <2>2. cut = [k \in ChunkIdxs |-> cut[k]]
      BY <1>1
    <2> QED
      BY <2>1, <2>2 DEF Entries
  <1>7. newSize = 0 => \A k \in ChunkIdxs :
          cut[k] = IF Chunks(h)[k] # None THEN Deleted ELSE None
    BY <1>1, <1>2
  <1>8. newSize # 0 => \A k \in ChunkIdxs : k < ChunkIdxOf(newSize - 1) =>
          cut[k] = handles[h].pending[k]
    BY <1>1
  <1>9. newSize # 0 => \A k \in ChunkIdxs : k > ChunkIdxOf(newSize - 1) =>
          cut[k] = IF Chunks(h)[k] # None THEN Deleted ELSE None
    BY <1>1, <1>2, <1>4
  <1> QED
    BY <1>6, <1>7, <1>8, <1>9 DEF cut

LEMMA CutOff ==
  ASSUME NEW entry, NEW stored, entry = IF stored # None THEN Deleted ELSE None, NEW i
  PROVE  ByteOf(Contents(entry, stored), i) = 0
  BY EmptyIsChunk, SharedAssumption DEF Contents, StoredChunk

(* What is cut off past the new end and kept before it, entry by entry.    *)
CutPast(cut, chunks, newSize) ==
  /\ newSize = 0 => \A j \in ChunkIdxs :
       cut[j] = IF chunks[j] # None THEN Deleted ELSE None
  /\ newSize # 0 => \A j \in ChunkIdxs : j > ChunkIdxOf(newSize - 1) =>
       cut[j] = IF chunks[j] # None THEN Deleted ELSE None
  /\ newSize # 0 =>
       \A o \in (ChunkOffsetOf(newSize - 1) + 1) .. (ChunkSize - 1) :
         ByteOf(Contents(cut[ChunkIdxOf(newSize - 1)],
                         chunks[ChunkIdxOf(newSize - 1)]), o) = 0

KeptBefore(pend, cut, chunks, newSize) ==
  newSize # 0 =>
    /\ \A j \in ChunkIdxs : j < ChunkIdxOf(newSize - 1) => cut[j] = pend[j]
    /\ \A o \in 0 .. ((ChunkOffsetOf(newSize - 1) + 1) - 1) :
         ByteOf(Contents(cut[ChunkIdxOf(newSize - 1)],
                         chunks[ChunkIdxOf(newSize - 1)]), o)
           = ByteOf(Contents(pend[ChunkIdxOf(newSize - 1)],
                             chunks[ChunkIdxOf(newSize - 1)]), o)

(* Truncation zeroes what lies at or past the new end, ...                 *)
LEMMA CutZero ==
  ASSUME NEW cut, NEW chunks, NEW newSize \in Offsets, newSize # MaxU64,
         CutPast(cut, chunks, newSize), NEW p \in Positions, p >= newSize
  PROVE  Bytes(cut, chunks)[p] = 0
  <1> DEFINE e == newSize - 1
             k == ChunkIdxOf(e)
             n == ChunkOffsetOf(e) + 1
             j == ChunkIdxOf(p)
             i == ChunkOffsetOf(p)
  <1> USE LayoutAssumption
  <1>1. /\ p \in Nat /\ j \in ChunkIdxs /\ j \in Nat /\ i \in 0 .. (ChunkSize - 1)
        /\ newSize \in Nat
    BY PositionFacts DEF Offsets
  <1>2. newSize # 0 => e \in Positions
    BY DEF Offsets, Positions
  <1>3. newSize # 0 => /\ e \in Nat /\ k \in ChunkIdxs /\ k \in Nat
                       /\ ChunkOffsetOf(e) \in 0 .. (ChunkSize - 1)
    BY <1>2, PositionFacts
  <1>4. Bytes(cut, chunks)[p] = ByteOf(Contents(cut[j], chunks[j]), i)
    BY BytesAt
  <1> HIDE DEF j, i, k
  <1>5. CASE newSize = 0
    BY <1>1, <1>4, <1>5, CutOff DEF CutPast
  <1>6. CASE newSize # 0
    <2>1. k < j \/ (k = j /\ ChunkOffsetOf(e) < i)
      <3>1. e < p
        BY <1>1
      <3> QED
        BY <1>1, <1>3, <1>6, <3>1, Ordered DEF k, j, i
    <2>2. CASE k < j
      BY <1>1, <1>3, <1>4, <1>6, <2>2, CutOff DEF CutPast, k
    <2>3. CASE k = j /\ ChunkOffsetOf(e) < i
      <3>1. i \in n .. (ChunkSize - 1)
        BY <1>1, <1>3, <1>6, <2>3
      <3> QED
        BY <1>4, <1>6, <2>3, <3>1 DEF CutPast, k
    <2> QED
      BY <2>1, <2>2, <2>3
  <1> QED
    BY <1>5, <1>6

(* ... and keeps the bytes before it if the entry of the last chunk does.  *)
LEMMA CutKept ==
  ASSUME NEW pend, NEW cut, NEW chunks, NEW newSize \in Offsets, newSize # MaxU64,
         KeptBefore(pend, cut, chunks, newSize), NEW p \in Positions, p < newSize
  PROVE  Bytes(cut, chunks)[p] = Bytes(pend, chunks)[p]
  <1> DEFINE e == newSize - 1
             k == ChunkIdxOf(e)
             n == ChunkOffsetOf(e) + 1
             j == ChunkIdxOf(p)
             i == ChunkOffsetOf(p)
  <1> USE LayoutAssumption
  <1>1. /\ p \in Nat /\ j \in ChunkIdxs /\ j \in Nat /\ i \in 0 .. (ChunkSize - 1)
        /\ newSize \in Nat /\ newSize # 0
    BY PositionFacts DEF Offsets
  <1>2. e \in Positions
    BY <1>1 DEF Offsets, Positions
  <1>3. /\ e \in Nat /\ k \in ChunkIdxs /\ k \in Nat
        /\ ChunkOffsetOf(e) \in 0 .. (ChunkSize - 1)
    BY <1>2, PositionFacts
  <1>4. Bytes(cut, chunks)[p] = ByteOf(Contents(cut[j], chunks[j]), i)
    BY BytesAt
  <1>5. Bytes(pend, chunks)[p] = ByteOf(Contents(pend[j], chunks[j]), i)
    BY BytesAt
  <1> HIDE DEF j, i, k
  <1>6. p = e \/ j < k \/ (j = k /\ i < ChunkOffsetOf(e))
    <2>1. p = e \/ p < e
      BY <1>1
    <2> QED
      BY <1>1, <1>3, <2>1, Ordered DEF k, j, i
  <1>7. CASE j < k
    BY <1>1, <1>4, <1>5, <1>7 DEF KeptBefore, k
  <1>8. CASE j = k /\ i < n
    <2>1. i \in 0 .. (n - 1)
      BY <1>1, <1>3, <1>8
    <2> QED
      BY <1>1, <1>4, <1>5, <1>8, <2>1 DEF KeptBefore, k
  <1>9. j < k \/ (j = k /\ i < n)
    BY <1>1, <1>3, <1>6 DEF j, k, i
  <1> QED
    BY <1>7, <1>8, <1>9

(* The batch of a sync stores what the handle shows, and once it is        *)
(* applied the handle shows the same.                                      *)
LEMMA BatchFacts ==
  ASSUME NEW h \in Handles, handles[h].pending \in Entries, Chunks(h) \in Stored
  PROVE  LET batch == H(h)!Batch.chunks
         IN /\ batch \in Stored
            /\ \A p \in Positions :
                 /\ ByteOf(StoredChunk(batch[ChunkIdxOf(p)]), ChunkOffsetOf(p))
                      = Bytes(handles[h].pending, Chunks(h))[p]
                 /\ Bytes(handles[h].pending, batch)[p]
                      = Bytes(handles[h].pending, Chunks(h))[p]
  <1> DEFINE pend == handles[h].pending
             chunks == Chunks(h)
             batch == H(h)!Batch.chunks
  <1>1. batch = [k \in ChunkIdxs |->
                  IF pend[k] = None THEN chunks[k]
                  ELSE IF pend[k] = Deleted THEN None ELSE pend[k]]
    BY HandleLayout DEF H!Batch, Chunks
  <1> HIDE DEF batch, chunks, pend
  <1>2. batch \in Stored
    BY <1>1 DEF Stored, Entries, pend, chunks
  <1>3. \A k \in ChunkIdxs : StoredChunk(batch[k]) = Contents(pend[k], chunks[k])
    BY <1>1, SharedAssumption DEF StoredChunk, Contents, Entries, pend
  <1>4. \A k \in ChunkIdxs : Contents(pend[k], batch[k]) = Contents(pend[k], chunks[k])
    BY <1>1 DEF StoredChunk, Contents
  <1>5. ASSUME NEW p \in Positions
        PROVE  /\ ByteOf(StoredChunk(batch[ChunkIdxOf(p)]), ChunkOffsetOf(p))
                    = Bytes(pend, chunks)[p]
               /\ Bytes(pend, batch)[p] = Bytes(pend, chunks)[p]
    <2>1. ChunkIdxOf(p) \in ChunkIdxs
      BY PositionFacts
    <2> QED
      BY <1>3, <1>4, <2>1, BytesAt
  <1> QED
    BY <1>2, <1>5 DEF batch, pend, chunks

----------------------------------------------------------------------------
(* What the invariant says of one handle.                                  *)
Ios == {Idle} \cup WriteOps \cup ShrinkOps \cup ReadOps \cup SyncOps

LEMMA OpenFacts ==
  ASSUME Types, NEW h \in Handles, IsOpen(h)
  PROVE  HandleOK(handles[h])
  BY DEF Types, IsOpen, Closed, OpeningHandles

LEMMA VisibleFacts ==
  ASSUME Types, NEW client
  PROVE  Visible(client) \in Files /\ Visible(client).chunks \in Stored
                                   /\ Visible(client).size \in Offsets
  BY DEF Types, Visible, Files, Stored

LEMMA FieldFacts ==
  ASSUME NEW r, HandleOK(r)
  PROVE  /\ r.state = "open" /\ r.client \in Clients /\ r.flags \in {ReadOnly, ReadWrite}
         /\ r.size \in Offsets /\ r.pending \in Entries /\ r.dirty \in BOOLEAN
         /\ r.io \in Ios /\ r.touched \in SUBSET Positions
         /\ r = [state |-> "open", client |-> r.client, flags |-> r.flags,
                 size |-> r.size, pending |-> r.pending, dirty |-> r.dirty,
                 io |-> r.io, touched |-> r.touched]
  BY DEF HandleOK, OpenHandles, Ios

LEMMA FlagFacts ==
  /\ ReadOnly.write = FALSE /\ ReadWrite.write = TRUE
  /\ ReadOnly \in {ReadOnly, ReadWrite} /\ ReadWrite \in {ReadOnly, ReadWrite}
  BY DEF ReadOnly, ReadWrite

LEMMA OpFacts ==
  ASSUME NEW io \in Ios
  PROVE  /\ io.op \in {"idle", "write", "shrink", "pread", "sync", "flush"}
         /\ io.op = "idle" => io = Idle
         /\ io.op = "write" => io \in WriteOps
         /\ io.op = "shrink" => io \in ShrinkOps
         /\ io.op = "pread" => io \in ReadOps
         /\ io.op \in {"sync", "flush"} => io \in SyncOps
  BY DEF Ios, Idle, WriteOps, ShrinkOps, ReadOps, SyncOps

LEMMA IdleFacts == Idle.op = "idle" /\ Idle \in Ios
  BY DEF Idle, Ios

(* A handle record put together from its fields.                           *)
Rec(r, size, pend, dirty, io, touched) ==
  [state |-> "open", client |-> r.client, flags |-> r.flags, size |-> size,
   pending |-> pend, dirty |-> dirty, io |-> io, touched |-> touched]

LEMMA RecFacts ==
  ASSUME NEW r, HandleOK(r), NEW size \in Offsets, NEW pend \in Entries,
         NEW dirty \in BOOLEAN, NEW io \in Ios, NEW touched \in SUBSET Positions
  PROVE  LET n == Rec(r, size, pend, dirty, io, touched)
         IN /\ n \in OpenHandles
            /\ n.state = "open" /\ n.client = r.client /\ n.flags = r.flags
            /\ n.size = size /\ n.pending = pend /\ n.dirty = dirty
            /\ n.io = io /\ n.touched = touched
  BY FieldFacts DEF Rec, OpenHandles, Ios

(* The updates of a record that the steps make, field by field.            *)
LEMMA ExceptIo ==
  ASSUME NEW r, HandleOK(r), NEW io
  PROVE  [r EXCEPT !.io = io] = Rec(r, r.size, r.pending, r.dirty, io, r.touched)
  <1>1. r = Rec(r, r.size, r.pending, r.dirty, r.io, r.touched)
    BY FieldFacts DEF Rec
  <1> QED
    BY <1>1 DEF Rec

LEMMA ExceptStaged ==
  ASSUME NEW r, HandleOK(r), NEW pend, NEW io
  PROVE  [r EXCEPT !.pending = pend, !.io = io]
           = Rec(r, r.size, pend, r.dirty, io, r.touched)
  <1>1. r = Rec(r, r.size, r.pending, r.dirty, r.io, r.touched)
    BY FieldFacts DEF Rec
  <1>2. PICK r1 : r1 = [r EXCEPT !.pending = pend]
    OBVIOUS
  <1>3. r1 = Rec(r, r.size, pend, r.dirty, r.io, r.touched)
    BY <1>1, <1>2 DEF Rec
  <1>4. PICK r2 : r2 = [r1 EXCEPT !.io = io]
    OBVIOUS
  <1>5. r2 = Rec(r, r.size, pend, r.dirty, io, r.touched)
    BY <1>3, <1>4 DEF Rec
  <1>6. [r EXCEPT !.pending = pend, !.io = io] = r2
    BY <1>2, <1>4
  <1> QED
    BY <1>5, <1>6

LEMMA ExceptGrown ==
  ASSUME NEW r, HandleOK(r), NEW size
  PROVE  [r EXCEPT !.size = size, !.dirty = TRUE]
           = Rec(r, size, r.pending, TRUE, r.io, r.touched)
  <1>1. r = Rec(r, r.size, r.pending, r.dirty, r.io, r.touched)
    BY FieldFacts DEF Rec
  <1>2. PICK r1 : r1 = [r EXCEPT !.size = size]
    OBVIOUS
  <1>3. r1 = Rec(r, size, r.pending, r.dirty, r.io, r.touched)
    BY <1>1, <1>2 DEF Rec
  <1>4. PICK r2 : r2 = [r1 EXCEPT !.dirty = TRUE]
    OBVIOUS
  <1>5. r2 = Rec(r, size, r.pending, TRUE, r.io, r.touched)
    BY <1>3, <1>4 DEF Rec
  <1>6. [r EXCEPT !.size = size, !.dirty = TRUE] = r2
    BY <1>2, <1>4
  <1> QED
    BY <1>5, <1>6

LEMMA ExceptWritten ==
  ASSUME NEW r, HandleOK(r), NEW size, NEW touched, NEW io
  PROVE  [r EXCEPT !.size = size, !.dirty = TRUE, !.touched = touched, !.io = io]
           = Rec(r, size, r.pending, TRUE, io, touched)
  <1>1. r = Rec(r, r.size, r.pending, r.dirty, r.io, r.touched)
    BY FieldFacts DEF Rec
  <1>2. PICK r1 : r1 = [r EXCEPT !.size = size]
    OBVIOUS
  <1>3. r1 = Rec(r, size, r.pending, r.dirty, r.io, r.touched)
    BY <1>1, <1>2 DEF Rec
  <1>4. PICK r2 : r2 = [r1 EXCEPT !.dirty = TRUE]
    OBVIOUS
  <1>5. r2 = Rec(r, size, r.pending, TRUE, r.io, r.touched)
    BY <1>3, <1>4 DEF Rec
  <1>6. PICK r3 : r3 = [r2 EXCEPT !.touched = touched]
    OBVIOUS
  <1>7. r3 = Rec(r, size, r.pending, TRUE, r.io, touched)
    BY <1>5, <1>6 DEF Rec
  <1>8. PICK r4 : r4 = [r3 EXCEPT !.io = io]
    OBVIOUS
  <1>9. r4 = Rec(r, size, r.pending, TRUE, io, touched)
    BY <1>7, <1>8 DEF Rec
  <1>10. [r EXCEPT !.size = size, !.dirty = TRUE, !.touched = touched, !.io = io] = r4
    BY <1>2, <1>4, <1>6, <1>8
  <1> QED
    BY <1>9, <1>10

LEMMA ExceptCut ==
  ASSUME NEW r, HandleOK(r), NEW size, NEW pend, NEW touched, NEW io,
         NEW x, x = [r EXCEPT !.pending = pend, !.size = size, !.dirty = TRUE,
                              !.touched = touched, !.io = io]
  PROVE  x = Rec(r, size, pend, TRUE, io, touched)
  <1>1. r = Rec(r, r.size, r.pending, r.dirty, r.io, r.touched)
    BY FieldFacts DEF Rec
  <1>2. PICK r1 : r1 = [r EXCEPT !.pending = pend]
    OBVIOUS
  <1>3. r1 = Rec(r, r.size, pend, r.dirty, r.io, r.touched)
    BY <1>1, <1>2 DEF Rec
  <1>4. PICK r2 : r2 = [r1 EXCEPT !.size = size]
    OBVIOUS
  <1>5. r2 = Rec(r, size, pend, r.dirty, r.io, r.touched)
    BY <1>3, <1>4 DEF Rec
  <1>6. PICK r3 : r3 = [r2 EXCEPT !.dirty = TRUE]
    OBVIOUS
  <1>7. r3 = Rec(r, size, pend, TRUE, r.io, r.touched)
    BY <1>5, <1>6 DEF Rec
  <1>8. PICK r4 : r4 = [r3 EXCEPT !.touched = touched]
    OBVIOUS
  <1>9. r4 = Rec(r, size, pend, TRUE, r.io, touched)
    BY <1>7, <1>8 DEF Rec
  <1>10. PICK r5 : r5 = [r4 EXCEPT !.io = io]
    OBVIOUS
  <1>11. r5 = Rec(r, size, pend, TRUE, io, touched)
    BY <1>9, <1>10 DEF Rec
  <1>12. x = r5
    BY <1>2, <1>4, <1>6, <1>8, <1>10
  <1> QED
    BY <1>11, <1>12

LEMMA ExceptFlushed ==
  ASSUME NEW r, HandleOK(r), NEW pend, NEW touched, NEW io,
         NEW x, x = [r EXCEPT !.pending = pend, !.dirty = FALSE, !.touched = touched,
                              !.io = io]
  PROVE  x = Rec(r, r.size, pend, FALSE, io, touched)
  <1>1. r = Rec(r, r.size, r.pending, r.dirty, r.io, r.touched)
    BY FieldFacts DEF Rec
  <1>2. PICK r1 : r1 = [r EXCEPT !.pending = pend]
    OBVIOUS
  <1>3. r1 = Rec(r, r.size, pend, r.dirty, r.io, r.touched)
    BY <1>1, <1>2 DEF Rec
  <1>4. PICK r2 : r2 = [r1 EXCEPT !.dirty = FALSE]
    OBVIOUS
  <1>5. r2 = Rec(r, r.size, pend, FALSE, r.io, r.touched)
    BY <1>3, <1>4 DEF Rec
  <1>6. PICK r3 : r3 = [r2 EXCEPT !.touched = touched]
    OBVIOUS
  <1>7. r3 = Rec(r, r.size, pend, FALSE, r.io, touched)
    BY <1>5, <1>6 DEF Rec
  <1>8. PICK r4 : r4 = [r3 EXCEPT !.io = io]
    OBVIOUS
  <1>9. r4 = Rec(r, r.size, pend, FALSE, io, touched)
    BY <1>7, <1>8 DEF Rec
  <1>10. x = r4
    BY <1>2, <1>4, <1>6, <1>8
  <1> QED
    BY <1>9, <1>10

(* A writer's record is well-formed when its operation is within bounds.   *)
LEMMA WriterRec ==
  ASSUME NEW r, HandleOK(r), r.flags.write,
         NEW size \in Offsets, NEW pend \in Entries, NEW dirty \in BOOLEAN,
         NEW io \in Ios, NEW touched \in SUBSET Positions,
         io.op = "write" => /\ io.offset + DataLen(io.data) <= MaxU64
                            /\ io.covered <= DataLen(io.data),
         io.op = "shrink" => io.newSize < size,
         io.op = "pread" => io.offset + io.len <= MaxU64
  PROVE  HandleOK(Rec(r, size, pend, dirty, io, touched))
  <1> DEFINE n == Rec(r, size, pend, dirty, io, touched)
  <1>1. /\ n \in OpenHandles
        /\ n.client = r.client /\ n.flags = r.flags
        /\ n.size = size /\ n.io = io
    BY RecFacts
  <1>2. r.client = "writer"
    BY DEF HandleOK
  <1> HIDE DEF n
  <1>3. HandleOK(n)
    BY <1>1, <1>2 DEF HandleOK
  <1> QED
    BY <1>3 DEF n

(* Only the operation in progress changes: it ends, or a read begins or    *)
(* goes on.                                                                *)
LEMMA ReadRec ==
  ASSUME NEW r, HandleOK(r), NEW io \in Ios, io.op \in {"idle", "pread"},
         io.op = "pread" => io.offset + io.len <= MaxU64
  PROVE  HandleOK(Rec(r, r.size, r.pending, r.dirty, io, r.touched))
  <1> DEFINE n == Rec(r, r.size, r.pending, r.dirty, io, r.touched)
  <1>1. /\ n \in OpenHandles
        /\ n.client = r.client /\ n.flags = r.flags
        /\ n.size = r.size /\ n.io = io /\ n.pending = r.pending /\ n.dirty = r.dirty
    BY FieldFacts, RecFacts
  <1> HIDE DEF n
  <1>2. HandleOK(n)
    BY <1>1 DEF HandleOK
  <1> QED
    BY <1>2 DEF n

LEMMA OpenedFacts ==
  ASSUME NEW client \in Clients, NEW flags \in {ReadOnly, ReadWrite},
         NEW size \in Offsets, flags.write => client = "writer"
  PROVE  LET r == Opened(client, flags, size)
         IN /\ HandleOK(r)
            /\ r.state = "open" /\ r.flags = flags /\ r.io = Idle /\ r.io.op = "idle"
            /\ r.size = size /\ r.pending = NoChunks /\ r.touched = {}
  <1> DEFINE r == Opened(client, flags, size)
  <1>1. /\ r.state = "open" /\ r.client = client /\ r.flags = flags /\ r.io = Idle
        /\ r.size = size /\ r.pending = NoChunks /\ r.touched = {} /\ r.dirty = FALSE
    BY DEF Opened
  <1>2. r \in OpenHandles
    <2>1. NoChunks \in Entries
      BY NoChunksType
    <2> QED
      BY <2>1 DEF Opened, OpenHandles
  <1>3. r.io.op = "idle"
    BY <1>1, IdleFacts
  <1> HIDE DEF r
  <1>4. HandleOK(r)
    BY <1>1, <1>2, <1>3 DEF HandleOK
  <1> QED
    BY <1>1, <1>3, <1>4 DEF r

(* A step of one handle.                                                   *)
Updates(h, r) ==
  /\ DOMAIN handles' = Handles
  /\ handles'[h] = r
  /\ \A g \in Handles : g # h => handles'[g] = handles[g]

LEMMA UpdateFacts ==
  ASSUME DOMAIN handles = Handles, NEW h \in Handles, NEW r,
         handles' = [handles EXCEPT ![h] = r]
  PROVE  Updates(h, r)
  BY DEF Updates

(* A read of another handle: it has shown everything it had before.        *)
LEMMA ShownGrows ==
  ASSUME NEW h \in Handles, shown' = [g \in Handles |-> Shown(g)],
         handles'[h].state = "open", handles'[h].io.op = "pread", NEW p \in Positions
  PROVE  shown'[h][p] = shown[h][p] \cup {Bytes(handles'[h].pending, Chunks(h)')[p]}
  <1>1. shown'[h] = Shown(h)
    OBVIOUS
  <1>2. Doing(h, "pread")'
    BY DEF Doing, IsOpen
  <1>3. Shown(h)[p] = shown[h][p] \cup {H(h)!View[p]'}
    BY <1>2 DEF Shown
  <1>4. H(h)!View[p]' = H(h)!View'[p]
    OBVIOUS
  <1> QED
    BY <1>1, <1>3, <1>4, HandleViewNext

LEMMA ReadGoesOn ==
  ASSUME NEW r, HandleOK(r), r.io.op = "pread", NEW old, NEW new, ReadOK(r, old),
         \A p \in Positions : old[p] \subseteq new[p]
  PROVE  ReadOK(r, new)
  <1>1. r.io \in ReadOps /\ r.io.offset + r.io.len <= MaxU64
    BY FieldFacts, OpFacts DEF HandleOK
  <1>2. \A p \in r.io.offset .. (r.io.offset + r.io.len - 1) : p \in Positions
    BY <1>1, LayoutAssumption DEF ReadOps, Offsets, Positions
  <1> QED
    BY <1>2 DEF ReadOK

(* The frame of every step of a handle h that leaves it as r.              *)
LEMMA HandleStepInv ==
  ASSUME Inv, NEW h \in Handles, NEW r, Updates(h, r),
         r = Closed \/ r \in OpeningHandles \/ HandleOK(r),
         db' \in Files, seen' = seen, db'.linked => db'.exists,
         changes' \in 0 .. MaxChanges, overlapped' \in BOOLEAN,
         shown' = [g \in Handles |-> Shown(g)],
         r.state = "open" /\ r.io.op = "pread" => ReadOK(r, shown'[h]),
         ~overlapped' => ~overlapped,
         ~overlapped' => (r.state = "open" /\ r.flags.write =>
                            (h \in Writers \/ Writers = {}) /\ WriterOK(r, db')),
         ~overlapped' => (h \notin Writers => db' = db \/ Writers = {}),
         ~overlapped' => \A p \in Positions : p >= db'.size => StoredBytes(db')[p] = 0
  PROVE  Inv'
  <1>1. Types
    BY DEF Inv
  <1>2. Types'
    <2>1. ASSUME NEW g \in Handles
          PROVE  \/ handles'[g] = Closed
                 \/ handles'[g] \in OpeningHandles
                 \/ HandleOK(handles'[g])
      <3>1. CASE g = h
        BY <3>1 DEF Updates
      <3>2. CASE g # h
        BY <1>1, <3>2 DEF Updates, Types
      <3> QED
        BY <3>1, <3>2
    <2>2. DOMAIN handles' = Handles
      BY DEF Updates
    <2>3. seen' \in Files
      BY <1>1 DEF Types
    <2> HIDE DEF HandleOK
    <2> QED
      BY <2>1, <2>2, <2>3 DEF Types
  <1>3. ASSUME NEW g \in Handles, Doing(g, "pread")' PROVE ReadOK(handles'[g], shown'[g])
    <2>0. handles'[g].state = "open" /\ handles'[g].io.op = "pread"
      BY <1>3 DEF Doing, IsOpen
    <2>1. CASE g = h
      BY <2>0, <2>1 DEF Updates
    <2>2. CASE g # h
      <3>1. handles'[g] = handles[g]
        BY <2>2 DEF Updates
      <3>2. Doing(g, "pread") /\ IsOpen(g)
        BY <2>0, <3>1 DEF Doing, IsOpen
      <3>3. ReadOK(handles[g], shown[g])
        BY <3>2 DEF Inv
      <3>4. HandleOK(handles[g])
        BY <1>1, <3>2, OpenFacts
      <3>5. \A p \in Positions : shown[g][p] \subseteq shown'[g][p]
        BY <2>0, ShownGrows
      <3>6. handles[g].io.op = "pread"
        BY <2>0, <3>1
      <3>7. ReadOK(handles[g], shown'[g])
        BY <3>3, <3>4, <3>5, <3>6, ReadGoesOn
      <3> QED
        BY <3>1, <3>7
    <2> QED
      BY <2>1, <2>2
  <1>4. ASSUME ~overlapped'
        PROVE  /\ \A g, f \in Writers' : g = f
               /\ \A g \in Writers' : WriterOK(handles'[g], db')
               /\ OneWriterHidesNothing'
    <2>1. \A g \in Handles : g \in Writers' <=> handles'[g].state = "open"
                                                /\ handles'[g].flags.write
      BY DEF Writers, IsOpen
    <2>2. \A g \in Handles : g \in Writers <=> handles[g].state = "open"
                                               /\ handles[g].flags.write
      BY DEF Writers, IsOpen
    <2>3. Writers' \subseteq Handles /\ Writers \subseteq Handles
      BY DEF Writers
    <2>4. \A g \in Writers' : g # h => g \in Writers /\ handles'[g] = handles[g]
      BY <2>1, <2>2, <2>3 DEF Updates
    <2>5. h \in Writers' => r.state = "open" /\ r.flags.write
      BY <2>1 DEF Updates
    <2>6. /\ \A g, f \in Writers : g = f
          /\ \A g \in Writers : WriterOK(handles[g], db)
          /\ OneWriterHidesNothing
      BY <1>4 DEF Inv
    <2>7. \A g, f \in Writers' : g = f
      BY <1>4, <2>4, <2>5, <2>6
    <2>8. \A g \in Writers' : WriterOK(handles'[g], db')
      <3> SUFFICES ASSUME NEW g \in Writers' PROVE WriterOK(handles'[g], db')
        OBVIOUS
      <3>1. CASE g = h
        BY <1>4, <2>5, <3>1 DEF Updates
      <3>2. CASE g # h
        <4>1. g \in Writers /\ handles'[g] = handles[g]
          BY <2>4, <3>2
        <4>2. h \notin Writers
          BY <2>6, <3>2, <4>1
        <4>3. db' = db
          BY <1>4, <4>1, <4>2
        <4> QED
          BY <2>6, <4>1, <4>3
      <3> QED
        BY <3>1, <3>2
    <2>9. \A p \in Positions : p >= seen.size => StoredBytes(seen)[p] = 0
      BY <1>4, <2>6 DEF OneWriterHidesNothing
    <2>10. OneWriterHidesNothing'
      <3> SUFFICES ASSUME NEW file \in {db', seen'}, NEW p \in Positions, p >= file.size
                   PROVE  StoredBytes(file)[p] = 0
        BY DEF OneWriterHidesNothing, StoredBytes
      <3>1. CASE file = db'
        BY <1>4, <3>1
      <3>2. CASE file = seen'
        BY <2>9, <3>2
      <3> QED
        BY <3>1, <3>2
    <2> QED
      BY <2>7, <2>8, <2>10
  <1> HIDE DEF Types
  <1> QED
    BY <1>2, <1>3, <1>4 DEF Inv

----------------------------------------------------------------------------
(* What every step does beside its own effect.                             *)
Beside ==
  /\ changes' \in 0 .. MaxChanges
  /\ shown' = [g \in Handles |-> Shown(g)]

LEMMA WriterFacts ==
  ASSUME Inv, NEW h \in Handles, IsOpen(h), handles[h].flags.write
  PROVE  /\ h \in Writers
         /\ Chunks(h) = db.chunks /\ Visible(handles[h].client) = db
         /\ ~overlapped => WriterOK(handles[h], db)
  <1>1. HandleOK(handles[h])
    BY OpenFacts DEF Inv
  <1>2. handles[h].client = "writer"
    BY <1>1 DEF HandleOK
  <1>3. h \in Writers
    BY DEF Writers
  <1> QED
    BY <1>2, <1>3 DEF Chunks, Visible, Inv

(* A step of one handle that leaves the database alone.                    *)
LEMMA LocalStepInv ==
  ASSUME Inv, Beside, NEW h \in Handles, NEW r, Updates(h, r),
         r = Closed \/ r \in OpeningHandles \/ HandleOK(r),
         UNCHANGED <<db, seen, overlapped>>,
         r.state = "open" /\ r.io.op = "pread" => ReadOK(r, shown'[h]),
         ~overlapped => (r.state = "open" /\ r.flags.write =>
                           h \in Writers /\ WriterOK(r, db))
  PROVE  Inv'
  <1>1. db' \in Files /\ (db'.linked => db'.exists) /\ overlapped' \in BOOLEAN
    BY DEF Inv, Types
  <1>2. ~overlapped' => \A p \in Positions : p >= db'.size => StoredBytes(db')[p] = 0
    BY DEF Inv, OneWriterHidesNothing
  <1> HIDE DEF Inv, Updates, HandleOK, ReadOK, WriterOK, Writers
  <1> QED
    BY <1>1, <1>2, HandleStepInv DEF Beside

LEMMA IoUpdates ==
  ASSUME Types, NEW h \in Handles, IsOpen(h), NEW io,
         handles' = [handles EXCEPT ![h].io = io]
  PROVE  LET r == handles[h]
         IN Updates(h, Rec(r, r.size, r.pending, r.dirty, io, r.touched))
  <1> DEFINE r == handles[h]
             n == Rec(r, r.size, r.pending, r.dirty, io, r.touched)
  <1>1. HandleOK(r) /\ DOMAIN handles = Handles
    BY OpenFacts DEF Types
  <1>2. handles' = [handles EXCEPT ![h] = [r EXCEPT !.io = io]]
    OBVIOUS
  <1>3. [r EXCEPT !.io = io] = n
    BY <1>1, ExceptIo
  <1> HIDE DEF n
  <1>4. Updates(h, n)
    BY <1>1, <1>2, <1>3, UpdateFacts
  <1> QED
    BY <1>4 DEF n

(* The operation in progress changes and nothing else.                     *)
LEMMA IoKeepsWriter ==
  ASSUME NEW r, NEW n, NEW file, WriterOK(r, file),
         n.pending = r.pending, n.size = r.size, n.touched = r.touched,
         r.io.op # "write", n.io.op \notin {"shrink", "flush"}
  PROVE  WriterOK(n, file)
  <1>1. \A p \in Positions : ~InSlice(r, p)
    BY DEF InSlice
  <1>2. ZeroPastEnd(n, file)
    BY <1>1 DEF WriterOK, ZeroPastEnd
  <1>3. MergesOnly(n, file)
    BY <1>1 DEF WriterOK, MergesOnly
  <1>4. CutRight(n, file) /\ FlushesOwnSize(n, file)
    BY DEF CutRight, FlushesOwnSize
  <1> QED
    BY <1>2, <1>3, <1>4 DEF WriterOK

LEMMA OpenMappingInv ==
  ASSUME Inv, Beside, NEW h \in Handles, NEW client \in Clients, OpenMapping(h, client)
  PROVE  Inv'
  <1> DEFINE r == [state |-> "opening", client |-> client]
  <1>1. r \in OpeningHandles /\ r.state = "opening"
    BY DEF OpeningHandles
  <1>2. UNCHANGED <<db, seen, overlapped>> /\ handles' = [handles EXCEPT ![h] = r]
    BY DEF OpenMapping
  <1>3. DOMAIN handles = Handles
    BY DEF Inv, Types
  <1> HIDE DEF r
  <1>4. Updates(h, r)
    BY <1>2, <1>3, UpdateFacts
  <1> QED
    BY <1>1, <1>2, <1>4, LocalStepInv

LEMMA OpenMetadataInv ==
  ASSUME Inv, Beside, NEW h \in Handles, OpenMetadata(h)
  PROVE  Inv'
  <1> DEFINE client == handles[h].client
             file == Visible(client)
             o == Opened(client, ReadOnly, file.size)
             r == IF file.exists THEN o ELSE Closed
  <1>0. Types /\ DOMAIN handles = Handles
    BY DEF Inv, Types
  <1>1. client \in Clients
    <2>1. handles[h].state = "opening"
      BY DEF OpenMetadata
    <2> QED
      BY <1>0, <2>1 DEF Types, Closed, OpeningHandles, HandleOK, OpenHandles
  <1>2. UNCHANGED <<db, seen, overlapped>> /\ handles' = [handles EXCEPT ![h] = r]
    BY DEF OpenMetadata
  <1>3. file.size \in Offsets
    BY <1>0, VisibleFacts
  <1>4. HandleOK(o) /\ o.state = "open" /\ o.flags = ReadOnly /\ o.io.op = "idle"
    BY <1>1, <1>3, FlagFacts, OpenedFacts
  <1>5. Closed.state = "closed"
    BY DEF Closed
  <1> HIDE DEF o
  <1>6. /\ r = Closed \/ HandleOK(r)
        /\ ~ (r.state = "open" /\ r.io.op = "pread")
        /\ ~ (r.state = "open" /\ r.flags.write)
    <2>1. CASE file.exists
      BY <1>4, <2>1, FlagFacts
    <2>2. CASE ~file.exists
      BY <1>5, <2>2
    <2> QED
      BY <2>1, <2>2
  <1> HIDE DEF r
  <1>7. Updates(h, r)
    BY <1>0, <1>2, UpdateFacts
  <1> QED
    BY <1>2, <1>6, <1>7, LocalStepInv

LEMMA NewFileFacts ==
  /\ NewFile \in Files /\ NewFile.linked /\ NewFile.exists /\ NewFile.size = 0
  /\ NewFile.chunks = NoChunks
  <1>1. 0 \in Offsets /\ NoChunks \in [ChunkIdxs -> Chunk \cup {None}]
    BY LayoutAssumption DEF Offsets, NoChunks
  <1> QED
    BY <1>1 DEF NewFile, Files

LEMMA RemovedFacts ==
  /\ Removed \in Files /\ ~Removed.linked /\ Removed.size = 0
  /\ Removed.chunks = NoChunks
  <1>1. 0 \in Offsets /\ NoChunks \in [ChunkIdxs -> Chunk \cup {None}]
    BY LayoutAssumption DEF Offsets, NoChunks
  <1> QED
    BY <1>1 DEF NewFile, Removed, Files

(* A handle just opened shows what is stored.                              *)
LEMMA OpenedWriterOK ==
  ASSUME NEW r, NEW file, r.io.op = "idle", r.pending = NoChunks, r.size = file.size,
         \A p \in Positions : p >= file.size => StoredBytes(file)[p] = 0
  PROVE  WriterOK(r, file)
  <1>1. ZeroPastEnd(r, file)
    BY NothingStaged DEF ZeroPastEnd
  <1>2. MergesOnly(r, file)
    BY NothingStaged DEF MergesOnly
  <1>3. CutRight(r, file) /\ FlushesOwnSize(r, file)
    BY DEF CutRight, FlushesOwnSize
  <1> QED
    BY <1>1, <1>2, <1>3 DEF WriterOK

LEMMA OpenWriteInv ==
  ASSUME Inv, Beside, NEW h \in Handles, NEW truncateExisting \in BOOLEAN,
         OpenWrite(h, truncateExisting)
  PROVE  Inv'
  <1> DEFINE file == IF truncateExisting THEN NewFile ELSE db
             r == Opened("writer", ReadWrite, file.size)
  <1>0. Types /\ DOMAIN handles = Handles /\ db \in Files /\ (db.linked => db.exists)
        /\ overlapped \in BOOLEAN
    BY DEF Inv, Types
  <1>1. /\ db' = file /\ seen' = seen /\ handles' = [handles EXCEPT ![h] = r]
        /\ overlapped' = (overlapped \/ Writers # {})
    BY DEF OpenWrite
  <1>2. file \in Files /\ (file.linked => file.exists)
    BY <1>0, NewFileFacts
  <1>3. file.size \in Offsets
    BY <1>2 DEF Files
  <1>4. ~overlapped => \A p \in Positions : p >= file.size => StoredBytes(file)[p] = 0
    BY NewFileFacts, NoChunksBytes DEF Inv, OneWriterHidesNothing
  <1>5. overlapped' \in BOOLEAN
    BY <1>1
  <1>6. ~overlapped' => ~overlapped /\ Writers = {}
    BY <1>1
  <1> HIDE DEF file
  <1>7. "writer" \in Clients
    BY SharedAssumption
  <1>8. /\ HandleOK(r) /\ r.io.op = "idle" /\ r.pending = NoChunks
        /\ r.size = file.size
    BY <1>3, <1>7, FlagFacts, OpenedFacts
  <1> HIDE DEF r
  <1>9. ~overlapped' => WriterOK(r, db')
    BY <1>1, <1>4, <1>6, <1>8, OpenedWriterOK
  <1>10. Updates(h, r)
    BY <1>0, <1>1, UpdateFacts
  <1>11. db' \in Files /\ (db'.linked => db'.exists)
    BY <1>1, <1>2
  <1>12. ~overlapped' => \A p \in Positions : p >= db'.size => StoredBytes(db')[p] = 0
    BY <1>1, <1>4, <1>6
  <1>13. ~ (r.state = "open" /\ r.io.op = "pread")
    BY <1>8
  <1> HIDE DEF WriterOK, ReadOK, HandleOK
  <1> QED
    BY <1>1, <1>5, <1>6, <1>8, <1>9, <1>10, <1>11, <1>12, <1>13, HandleStepInv DEF Beside

LEMMA PwriteInv ==
  ASSUME Inv, Beside, NEW h \in Handles, NEW data \in Payloads, NEW offset \in Offsets,
         Pwrite(h, data, offset)
  PROVE  Inv'
  <1> DEFINE r == handles[h]
             io == [op |-> "write", data |-> data, offset |-> offset, covered |-> 0]
             n == Rec(r, r.size, r.pending, r.dirty, io, r.touched)
  <1>0. Types
    BY DEF Inv
  <1>1. /\ IsOpen(h) /\ r.flags.write /\ r.io.op = "idle"
        /\ offset + DataLen(data) <= MaxU64
        /\ handles' = [handles EXCEPT ![h].io = io] /\ UNCHANGED <<db, seen, overlapped>>
    BY HandleLayout DEF Pwrite, Start, Doing
  <1>2. HandleOK(r)
    BY <1>0, <1>1, OpenFacts
  <1>3. /\ io \in Ios /\ io.op = "write" /\ io.offset = offset /\ io.data = data
        /\ io.covered = 0
    <2>1. 0 \in Offsets
      BY LayoutAssumption DEF Offsets
    <2> QED
      BY <2>1 DEF Ios, WriteOps
  <1> HIDE DEF io
  <1>4. 0 <= DataLen(data)
    BY DataFacts
  <1>5. HandleOK(n)
    BY <1>1, <1>2, <1>3, <1>4, FieldFacts, WriterRec
  <1>6. /\ n.pending = r.pending /\ n.size = r.size /\ n.touched = r.touched /\ n.io = io
    BY <1>2, <1>3, FieldFacts, RecFacts
  <1>7. Updates(h, n)
    BY <1>0, <1>1, IoUpdates
  <1> HIDE DEF n
  <1>8. h \in Writers /\ (~overlapped => WriterOK(r, db))
    BY <1>1, WriterFacts
  <1>9. ~overlapped => WriterOK(n, db)
    BY <1>1, <1>3, <1>6, <1>8, IoKeepsWriter
  <1> HIDE DEF r
  <1> QED
    BY <1>1, <1>3, <1>5, <1>6, <1>7, <1>8, <1>9, LocalStepInv

LEMMA StageSliceInv ==
  ASSUME Inv, Beside, NEW h \in Handles, StageSlice(h)
  PROVE  Inv'
  <1> DEFINE r == handles[h]
             len == DataLen(r.io.data)
             s == Slice(len, r.io.offset, r.io.covered)
             start == r.io.offset + r.io.covered
             k == ChunkIdxOf(start)
             c == H(h)!StagedChunk(s, r.io.data)
             pend == [r.pending EXCEPT ![k] = c]
             io == [op |-> "write", data |-> r.io.data, offset |-> r.io.offset,
                    covered |-> r.io.covered + s.len]
             n == Rec(r, r.size, pend, r.dirty, io, r.touched)
  <1> USE LayoutAssumption
  <1>0. Types /\ IsOpen(h) /\ r.io.op = "write"
    BY DEF Inv, StageSlice, Doing
  <1>1. HandleOK(r) /\ r.pending \in Entries /\ r.io \in Ios
    BY <1>0, OpenFacts, FieldFacts
  <1>2. /\ r.io \in WriteOps /\ r.io.offset + len <= MaxU64
        /\ r.flags.write
    <2>1. r.flags.write
      BY <1>0, <1>1, FlagFacts DEF HandleOK, OpenHandles
    <2> QED
      BY <1>0, <1>1, <2>1, OpFacts DEF HandleOK
  <1>3. /\ r.io.data \in Payloads /\ r.io.offset \in Nat /\ r.io.covered \in Nat
        /\ len \in Nat
        /\ r.io = [op |-> "write", data |-> r.io.data, offset |-> r.io.offset,
                   covered |-> r.io.covered]
    BY <1>2, DataFacts DEF WriteOps, Offsets
  <1>4. H(h)!NextSlice = s /\ H(h)!PayloadLen(r.io.data) = len
    BY HandleLayout DEF H!NextSlice
  <1>5. /\ r.io.covered < len
        /\ handles' = [handles EXCEPT ![h].pending[s.chunk_idx] = c,
                                      ![h].io.covered = @ + s.len]
        /\ UNCHANGED <<db, seen, overlapped>>
    <2> HIDE DEF s, len
    <2> QED
      BY <1>4 DEF StageSlice
  <1>6. /\ start \in Positions
        /\ s.chunk_idx = k /\ k \in ChunkIdxs
        /\ s.buf_offset = r.io.covered
        /\ s.chunk_offset = ChunkOffsetOf(start)
        /\ s.chunk_offset \in 0 .. (ChunkSize - 1)
        /\ s.len \in Nat /\ s.len >= 1 /\ s.len <= Available(start)
        /\ s.chunk_offset + s.len <= ChunkSize
        /\ r.io.covered + s.len <= len
    BY <1>2, <1>3, <1>5, SliceFacts
  <1> HIDE DEF s, len
  <1>7. Chunks(h) \in Stored /\ Chunks(h)[k] \in Chunk \cup {None}
        /\ r.pending[k] \in Chunk \cup {None, Deleted}
    BY <1>0, <1>1, <1>6, VisibleFacts DEF Chunks, Stored, Entries
  <1>8. /\ c \in Chunk
        /\ \A i \in 0 .. (ChunkSize - 1) :
             ~ (s.chunk_offset <= i /\ i < s.chunk_offset + s.len) =>
               ByteOf(c, i) = ByteOf(Contents(r.pending[k], Chunks(h)[k]), i)
    BY <1>3, <1>6, <1>7, StagedChunkFacts DEF len
  <1>9. Chunks(h) = db.chunks /\ h \in Writers /\ (~overlapped => WriterOK(r, db))
    BY <1>0, <1>2, WriterFacts
  <1> HIDE DEF c, start, k
  <1>10. pend \in Entries
    BY <1>1, <1>6, <1>8 DEF Entries
  <1>11. io \in Ios /\ io.op = "write" /\ io.data = r.io.data /\ io.offset = r.io.offset
         /\ io.covered = r.io.covered + s.len
    <2>1. r.io.covered + s.len \in Offsets /\ r.io.offset \in Offsets
      BY <1>2, <1>3, <1>6 DEF Offsets, WriteOps
    <2> QED
      BY <1>3, <2>1 DEF Ios, WriteOps
  <1>12. handles' = [handles EXCEPT ![h] = n]
    <2>1. handles' = [handles EXCEPT ![h] =
                        [r EXCEPT !.pending = pend,
                                  !.io = [r.io EXCEPT !.covered = @ + s.len]]]
      BY <1>5, <1>6
    <2>2. [r.io EXCEPT !.covered = @ + s.len] = io
      BY <1>3
    <2> HIDE DEF pend, io
    <2>3. [r EXCEPT !.pending = pend, !.io = io] = n
      BY <1>1, ExceptStaged
    <2> QED
      BY <2>1, <2>2, <2>3
  <1> HIDE DEF io, pend
  <1>13. HandleOK(n)
    BY <1>1, <1>2, <1>6, <1>10, <1>11, FieldFacts, WriterRec DEF len
  <1>14. /\ n.pending = pend /\ n.size = r.size /\ n.touched = r.touched /\ n.io = io
    BY <1>1, <1>10, <1>11, FieldFacts, RecFacts
  <1>15. Updates(h, n)
    <2> HIDE DEF n
    <2> QED
      BY <1>0, <1>12, UpdateFacts DEF Types
  <1> HIDE DEF n
  <1>16. ASSUME ~overlapped PROVE WriterOK(n, db)
    <2>1. WriterOK(r, db)
      BY <1>9, <1>16
    <2>2. ASSUME NEW p \in Positions, ~InSlice(n, p)
          PROVE  /\ ~InSlice(r, p)
                 /\ Bytes(pend, db.chunks)[p] = Bytes(r.pending, db.chunks)[p]
      <3>1. p \in Nat /\ ~ (r.io.offset <= p /\ p < r.io.offset + (r.io.covered + s.len))
        BY <1>11, <1>14, <2>2, PositionFacts DEF InSlice
      <3>2. ~InSlice(r, p) /\ ~ (start <= p /\ p < start + s.len)
        BY <1>3, <1>6, <3>1 DEF InSlice, start
      <3>3. Bytes(pend, db.chunks)[p] = Bytes(r.pending, db.chunks)[p]
        BY <1>1, <1>6, <1>8, <1>9, <3>2, StagedBytes DEF pend, k
      <3> QED
        BY <3>2, <3>3
    <2>3. ZeroPastEnd(n, db)
      BY <1>14, <2>1, <2>2 DEF WriterOK, ZeroPastEnd
    <2>4. MergesOnly(n, db)
      BY <1>14, <2>1, <2>2 DEF WriterOK, MergesOnly
    <2>5. CutRight(n, db) /\ FlushesOwnSize(n, db)
      BY <1>11, <1>14 DEF CutRight, FlushesOwnSize
    <2> QED
      BY <2>3, <2>4, <2>5 DEF WriterOK
  <1> HIDE DEF r
  <1> QED
    BY <1>5, <1>9, <1>11, <1>13, <1>14, <1>15, <1>16, LocalStepInv

LEMMA FinishWriteInv ==
  ASSUME Inv, Beside, NEW h \in Handles, FinishWrite(h)
  PROVE  Inv'
  <1> DEFINE r == handles[h]
             len == DataLen(r.io.data)
             end == r.io.offset + len
             size == IF end > r.size THEN end ELSE r.size
             touched == r.touched \cup (r.io.offset .. (end - 1))
             n == Rec(r, size, r.pending, TRUE, Idle, touched)
  <1> USE LayoutAssumption
  <1>0. Types /\ IsOpen(h) /\ r.io.op = "write"
    BY DEF Inv, FinishWrite, Doing
  <1>1. HandleOK(r) /\ r.io \in Ios
    BY <1>0, OpenFacts, FieldFacts
  <1>2. /\ r.io \in WriteOps /\ end <= MaxU64 /\ r.flags.write
    <2>1. r.flags.write
      BY <1>0, <1>1, FlagFacts DEF HandleOK, OpenHandles
    <2> QED
      BY <1>0, <1>1, <2>1, OpFacts DEF HandleOK
  <1>3. /\ r.io.data \in Payloads /\ r.io.offset \in Nat /\ r.io.covered \in Nat
        /\ len \in Nat /\ r.size \in Nat /\ r.size <= MaxU64 /\ r.touched \subseteq Positions
    BY <1>1, <1>2, DataFacts, FieldFacts DEF WriteOps, Offsets
  <1>4. H(h)!PayloadLen(r.io.data) = len
    BY HandleLayout
  <1>5. /\ r.io.covered = len
        /\ handles' = [handles EXCEPT ![h].size = IF end > @ THEN end ELSE @,
                                      ![h].dirty = TRUE,
                                      ![h].touched = @ \cup (r.io.offset .. (end - 1)),
                                      ![h].io = Idle]
        /\ UNCHANGED <<db, seen, overlapped>>
    <2> HIDE DEF len
    <2> QED
      BY <1>4 DEF FinishWrite
  <1> HIDE DEF len
  <1>6. size \in Offsets /\ touched \in SUBSET Positions /\ size >= r.size /\ size >= end
    BY <1>2, <1>3 DEF Offsets, Positions
  <1>7. handles' = [handles EXCEPT ![h] = n]
    <2>1. handles' = [handles EXCEPT ![h] =
                        [r EXCEPT !.size = size, !.dirty = TRUE, !.touched = touched,
                                  !.io = Idle]]
      BY <1>5
    <2> HIDE DEF size, touched
    <2>2. [r EXCEPT !.size = size, !.dirty = TRUE, !.touched = touched, !.io = Idle] = n
      BY <1>1, ExceptWritten
    <2> QED
      BY <2>1, <2>2
  <1> HIDE DEF size, touched
  <1>8. HandleOK(n)
    BY <1>1, <1>2, <1>6, FieldFacts, IdleFacts, WriterRec
  <1>9. /\ n.pending = r.pending /\ n.size = size /\ n.touched = touched /\ n.io = Idle
    BY DEF Rec
  <1>10. Updates(h, n)
    <2> HIDE DEF n
    <2> QED
      BY <1>0, <1>7, UpdateFacts DEF Types
  <1> HIDE DEF n
  <1>11. h \in Writers /\ (~overlapped => WriterOK(r, db)) /\ n.io.op = "idle"
    BY <1>0, <1>2, <1>9, WriterFacts, IdleFacts
  <1>12. ASSUME ~overlapped PROVE WriterOK(n, db)
    <2>1. WriterOK(r, db)
      BY <1>11, <1>12
    <2>2. \A p \in Positions : p >= size => p >= r.size /\ ~InSlice(r, p)
      BY <1>3, <1>5, <1>6, PositionFacts DEF InSlice, Offsets
    <2>3. \A p \in Positions : p \notin touched => p \notin r.touched /\ ~InSlice(r, p)
      BY <1>3, <1>5, PositionFacts DEF InSlice, touched
    <2>4. ZeroPastEnd(n, db)
      BY <1>9, <2>1, <2>2 DEF WriterOK, ZeroPastEnd
    <2>5. MergesOnly(n, db)
      BY <1>9, <2>1, <2>3 DEF WriterOK, MergesOnly
    <2>6. CutRight(n, db) /\ FlushesOwnSize(n, db)
      BY <1>11 DEF CutRight, FlushesOwnSize
    <2> QED
      BY <2>4, <2>5, <2>6 DEF WriterOK
  <1> HIDE DEF r
  <1> QED
    BY <1>5, <1>8, <1>10, <1>11, <1>12, LocalStepInv

(* Growing shows zeroes: nothing hides past the end.                       *)
LEMMA GrowInv ==
  ASSUME Inv, Beside, NEW h \in Handles, NEW newSize \in Offsets, Grow(h, newSize)
  PROVE  Inv'
  <1> DEFINE r == handles[h]
             n == Rec(r, newSize, r.pending, TRUE, Idle, r.touched)
  <1>0. Types /\ IsOpen(h) /\ r.io.op = "idle" /\ r.flags.write /\ newSize > r.size
    BY DEF Inv, Grow, Doing
  <1>1. HandleOK(r) /\ r.io = Idle /\ r.size \in Offsets
    BY <1>0, OpenFacts, FieldFacts, OpFacts
  <1>2. /\ handles' = [handles EXCEPT ![h].size = newSize, ![h].dirty = TRUE]
        /\ UNCHANGED <<db, seen, overlapped>>
    BY DEF Grow
  <1>3. handles' = [handles EXCEPT ![h] = n]
    <2>1. handles' = [handles EXCEPT ![h] =
                        [r EXCEPT !.size = newSize, !.dirty = TRUE]]
      BY <1>2
    <2>2. [r EXCEPT !.size = newSize, !.dirty = TRUE] = n
      BY <1>1, ExceptGrown
    <2> QED
      BY <2>1, <2>2
  <1>4. HandleOK(n)
    BY <1>0, <1>1, FieldFacts, IdleFacts, WriterRec
  <1>5. /\ n.pending = r.pending /\ n.size = newSize /\ n.touched = r.touched
        /\ n.io = Idle /\ n.io.op = "idle"
    BY IdleFacts DEF Rec
  <1>6. Updates(h, n)
    <2> HIDE DEF n
    <2> QED
      BY <1>0, <1>3, UpdateFacts DEF Types
  <1> HIDE DEF n
  <1>7. h \in Writers /\ (~overlapped => WriterOK(r, db))
    BY <1>0, WriterFacts
  <1>8. ASSUME ~overlapped PROVE WriterOK(n, db)
    <2>1. WriterOK(r, db) /\ \A p \in Positions : ~InSlice(r, p)
      BY <1>0, <1>7, <1>8 DEF InSlice
    <2>2. \A p \in Positions : p >= newSize => p >= r.size
      BY <1>0, <1>1, PositionFacts DEF Offsets
    <2>3. ZeroPastEnd(n, db)
      BY <1>5, <2>1, <2>2 DEF WriterOK, ZeroPastEnd
    <2>4. MergesOnly(n, db)
      BY <1>5, <2>1 DEF WriterOK, MergesOnly
    <2>5. CutRight(n, db) /\ FlushesOwnSize(n, db)
      BY <1>5 DEF CutRight, FlushesOwnSize
    <2> QED
      BY <2>3, <2>4, <2>5 DEF WriterOK
  <1> HIDE DEF r
  <1> QED
    BY <1>2, <1>4, <1>5, <1>6, <1>7, <1>8, LocalStepInv

(* A truncation computes the entry of the last chunk, ...                  *)
LEMMA ShrinkInv ==
  ASSUME Inv, Beside, NEW h \in Handles, NEW newSize \in Offsets, Shrink(h, newSize)
  PROVE  Inv'
  <1> DEFINE r == handles[h]
             k == ChunkIdxOf(newSize - 1)
             m == ChunkOffsetOf(newSize - 1) + 1
             last == IF newSize = 0 THEN None ELSE H(h)!ShortenedLast(k, m)
             io == [op |-> "shrink", newSize |-> newSize, last |-> last]
             n == Rec(r, r.size, r.pending, r.dirty, io, r.touched)
  <1> USE LayoutAssumption
  <1>0. Types
    BY DEF Inv
  <1>1. /\ IsOpen(h) /\ r.flags.write /\ r.io.op = "idle" /\ newSize < r.size
        /\ handles' = [handles EXCEPT ![h].io = io] /\ UNCHANGED <<db, seen, overlapped>>
    BY DEF Shrink, Start, Doing
  <1>2. HandleOK(r) /\ r.pending \in Entries /\ r.size \in Offsets
    BY <1>0, <1>1, OpenFacts, FieldFacts
  <1>3. /\ h \in Writers /\ (~overlapped => WriterOK(r, db)) /\ Chunks(h) = db.chunks
        /\ Chunks(h) \in Stored
    BY <1>0, <1>1, WriterFacts, VisibleFacts
  <1>4. newSize # 0 => k \in ChunkIdxs /\ m \in 1 .. ChunkSize
    <2>1. newSize # 0 => newSize - 1 \in Positions
      BY <1>1, <1>2 DEF Offsets, Positions
    <2> QED
      BY <2>1, PositionFacts
  <1>5. newSize # 0 => r.pending[k] \in Chunk \cup {None, Deleted}
                       /\ Chunks(h)[k] \in Chunk \cup {None}
    BY <1>2, <1>3, <1>4 DEF Entries, Stored
  <1>6. newSize # 0 =>
          /\ last \in Chunk \cup {None, Deleted}
          /\ \A i \in m .. (ChunkSize - 1) : ByteOf(Contents(last, Chunks(h)[k]), i) = 0
          /\ \A i \in 0 .. (m - 1) : ByteOf(Contents(last, Chunks(h)[k]), i)
                                       = ByteOf(Contents(r.pending[k], Chunks(h)[k]), i)
    BY <1>4, <1>5, ShortenedLastFacts
  <1>7. last \in Chunk \cup {None, Deleted}
    BY <1>6
  <1> HIDE DEF last
  <1>8. io \in Ios /\ io.op = "shrink" /\ io.newSize = newSize /\ io.last = last
    BY <1>7 DEF Ios, ShrinkOps
  <1> HIDE DEF io
  <1>9. HandleOK(n)
    BY <1>1, <1>2, <1>8, FieldFacts, WriterRec
  <1>10. /\ n.pending = r.pending /\ n.size = r.size /\ n.touched = r.touched /\ n.io = io
    BY DEF Rec
  <1>11. Updates(h, n)
    BY <1>0, <1>1, IoUpdates
  <1> HIDE DEF n
  <1>12. ASSUME ~overlapped PROVE WriterOK(n, db)
    <2>1. WriterOK(r, db) /\ \A p \in Positions : ~InSlice(r, p)
      BY <1>1, <1>3, <1>12 DEF InSlice
    <2>2. ZeroPastEnd(n, db)
      BY <1>10, <2>1 DEF WriterOK, ZeroPastEnd
    <2>3. MergesOnly(n, db)
      BY <1>10, <2>1 DEF WriterOK, MergesOnly
    <2>4. CutRight(n, db)
      BY <1>3, <1>6, <1>8, <1>10 DEF CutRight
    <2>5. FlushesOwnSize(n, db)
      BY <1>8, <1>10 DEF FlushesOwnSize
    <2> QED
      BY <2>2, <2>3, <2>4, <2>5 DEF WriterOK
  <1> HIDE DEF r
  <1> QED
    BY <1>1, <1>3, <1>8, <1>9, <1>10, <1>11, <1>12, LocalStepInv

(* ... and puts it in place, cutting off everything past it.               *)
LEMMA FinishShrinkInv ==
  ASSUME Inv, Beside, NEW h \in Handles, FinishShrink(h)
  PROVE  Inv'
  <1> DEFINE r == handles[h]
             newSize == r.io.newSize
             k == ChunkIdxOf(newSize - 1)
             m == ChunkOffsetOf(newSize - 1) + 1
             old == H(h)!TruncatedPending(newSize)
             cut == IF newSize = 0 THEN old ELSE [old EXCEPT ![k] = r.io.last]
             touched == r.touched \cup (newSize .. (MaxU64 - 1))
             n == Rec(r, newSize, cut, TRUE, Idle, touched)
  <1> USE LayoutAssumption
  <1>0. Types /\ IsOpen(h) /\ r.io.op = "shrink"
    BY DEF Inv, FinishShrink, Doing
  <1>1. HandleOK(r) /\ r.io \in Ios /\ r.pending \in Entries /\ r.size \in Offsets
        /\ r.touched \in SUBSET Positions
    BY <1>0, OpenFacts, FieldFacts
  <1>2. /\ r.io \in ShrinkOps /\ newSize < r.size /\ r.flags.write
    <2>1. r.flags.write
      BY <1>0, <1>1, FlagFacts DEF HandleOK, OpenHandles
    <2> QED
      BY <1>0, <1>1, <2>1, OpFacts DEF HandleOK
  <1>3. newSize \in Offsets /\ newSize # MaxU64 /\ r.io.last \in Chunk \cup {None, Deleted}
    BY <1>1, <1>2 DEF ShrinkOps, Offsets
  <1>4. /\ h \in Writers /\ (~overlapped => WriterOK(r, db)) /\ Chunks(h) = db.chunks
        /\ Chunks(h) \in Stored
    BY <1>0, <1>2, WriterFacts, VisibleFacts
  <1>5. newSize # 0 => k \in ChunkIdxs /\ k \in Nat
    <2>1. newSize # 0 => newSize - 1 \in Positions
      BY <1>3 DEF Offsets, Positions
    <2> QED
      BY <2>1, PositionFacts
  <1>6. /\ handles' = [handles EXCEPT ![h].pending = cut,
                                      ![h].size = newSize,
                                      ![h].dirty = TRUE,
                                      ![h].touched = @ \cup (newSize .. (MaxU64 - 1)),
                                      ![h].io = Idle]
        /\ UNCHANGED <<db, seen, overlapped>>
    BY DEF FinishShrink
  <1>7. /\ old \in Entries
        /\ newSize = 0 => \A j \in ChunkIdxs :
             old[j] = IF db.chunks[j] # None THEN Deleted ELSE None
        /\ newSize # 0 => \A j \in ChunkIdxs : j < k => old[j] = r.pending[j]
        /\ newSize # 0 => \A j \in ChunkIdxs : j > k =>
             old[j] = IF db.chunks[j] # None THEN Deleted ELSE None
    BY <1>1, <1>3, <1>4, TruncatedFacts
  <1> HIDE DEF old, newSize
  <1>8. cut \in Entries
    BY <1>3, <1>5, <1>7 DEF Entries
  <1>9. newSize # 0 => cut[k] = r.io.last
    BY <1>5, <1>7 DEF Entries
  <1>10. newSize = 0 => \A j \in ChunkIdxs :
           cut[j] = IF db.chunks[j] # None THEN Deleted ELSE None
    BY <1>7
  <1>11. newSize # 0 => \A j \in ChunkIdxs : j < k => cut[j] = r.pending[j]
    BY <1>5, <1>7, IdxsAreNat DEF Entries
  <1>12. newSize # 0 => \A j \in ChunkIdxs : j > k =>
           cut[j] = IF db.chunks[j] # None THEN Deleted ELSE None
    BY <1>5, <1>7, IdxsAreNat DEF Entries
  <1> HIDE DEF cut
  <1>13. touched \in SUBSET Positions
    BY <1>1, <1>3 DEF Offsets, Positions
  <1>14. handles' = [handles EXCEPT ![h] = n]
    <2>1. handles' = [handles EXCEPT ![h] =
                        [r EXCEPT !.pending = cut, !.size = newSize, !.dirty = TRUE,
                                  !.touched = touched, !.io = Idle]]
      BY <1>6
    <2> HIDE DEF touched, r
    <2>2. PICK x : x = [r EXCEPT !.pending = cut, !.size = newSize, !.dirty = TRUE,
                                 !.touched = touched, !.io = Idle]
      OBVIOUS
    <2>3. x = n
      BY <1>1, <2>2, ExceptCut
    <2> QED
      BY <2>1, <2>2, <2>3
  <1> HIDE DEF touched
  <1>15. HandleOK(n)
    BY <1>1, <1>2, <1>3, <1>8, <1>13, IdleFacts, WriterRec
  <1>16. /\ n.pending = cut /\ n.size = newSize /\ n.touched = touched
         /\ n.io = Idle /\ n.io.op = "idle"
    BY IdleFacts DEF Rec
  <1>17. Updates(h, n)
    <2> HIDE DEF n
    <2> QED
      BY <1>0, <1>14, UpdateFacts DEF Types
  <1> HIDE DEF n
  <1>18. ASSUME ~overlapped PROVE WriterOK(n, db)
    <2>1. WriterOK(r, db) /\ \A p \in Positions : ~InSlice(r, p)
      BY <1>0, <1>4, <1>18 DEF InSlice
    <2>2. newSize # 0 =>
            /\ \A i \in m .. (ChunkSize - 1) : ByteOf(Contents(cut[k], db.chunks[k]), i) = 0
            /\ db.linked => \A i \in 0 .. (m - 1) :
                 ByteOf(Contents(cut[k], db.chunks[k]), i)
                   = ByteOf(Contents(r.pending[k], db.chunks[k]), i)
      BY <1>0, <1>9, <2>1 DEF WriterOK, CutRight, newSize
    <2>3. \A p \in Positions : p >= newSize => Bytes(cut, db.chunks)[p] = 0
      <3> SUFFICES ASSUME NEW p \in Positions, p >= newSize
                   PROVE  Bytes(cut, db.chunks)[p] = 0
        OBVIOUS
      <3>1. CutPast(cut, db.chunks, newSize)
        BY <1>10, <1>12, <2>2 DEF CutPast
      <3> QED
        BY <1>3, <3>1, CutZero
    <2>4. db.linked => \A p \in Positions : p < newSize =>
            Bytes(cut, db.chunks)[p] = Bytes(r.pending, db.chunks)[p]
      <3> SUFFICES ASSUME db.linked, NEW p \in Positions, p < newSize
                   PROVE  Bytes(cut, db.chunks)[p] = Bytes(r.pending, db.chunks)[p]
        OBVIOUS
      <3>1. KeptBefore(r.pending, cut, db.chunks, newSize)
        BY <1>11, <2>2 DEF KeptBefore
      <3> QED
        BY <1>3, <3>1, CutKept
    <2>5. \A p \in Positions : p \notin touched => p \notin r.touched /\ p < newSize
      BY <1>3 DEF touched, Offsets, Positions
    <2>6. ZeroPastEnd(n, db)
      BY <1>16, <2>3 DEF ZeroPastEnd
    <2>7. MergesOnly(n, db)
      BY <1>16, <2>1, <2>4, <2>5 DEF WriterOK, MergesOnly
    <2>8. CutRight(n, db) /\ FlushesOwnSize(n, db)
      BY <1>16 DEF CutRight, FlushesOwnSize
    <2> QED
      BY <2>6, <2>7, <2>8 DEF WriterOK
  <1> HIDE DEF r
  <1> QED
    BY <1>4, <1>6, <1>15, <1>16, <1>17, <1>18, LocalStepInv

----------------------------------------------------------------------------
(* Reads.  Every chunk of the range that is not staged is in a run.        *)
LEMMA UnstagedInRuns ==
  ASSUME NEW h \in Handles, NEW len \in Nat, NEW offset \in Nat
  PROVE  LET runs == Coalesce(Unstaged(h, len, offset))
         IN /\ runs \in Runs
            /\ \A p \in offset .. (offset + len - 1) :
                 handles[h].pending[ChunkIdxOf(p)] = None => Covers(runs, ChunkIdxOf(p))
  <1> DEFINE slices == SplitIntoChunks(len, offset)
             idxs == H(h)!PersistedIdxs(slices)
             runs == Coalesce(idxs)
  <1>1. Unstaged(h, len, offset) = idxs
    BY DEF Unstaged
  <1>2. /\ slices \in Seq(SlicesOf(len, offset))
        /\ \A i \in 0 .. (len - 1) : Slices(slices, i)
    BY SplitFacts
  <1> HIDE DEF slices
  <1>3. ASSUME NEW j \in 1 .. Len(slices)
        PROVE  \E c \in 0 .. (len - 1) : slices[j] = Slice(len, offset, c)
    <2>1. slices[j] \in SlicesOf(len, offset)
      BY <1>2
    <2> QED
      BY <2>1 DEF SlicesOf
  <1>4. ASSUME NEW j \in 1 .. Len(slices) PROVE slices[j].chunk_idx \in Nat
    <2>1. PICK c \in 0 .. (len - 1) : slices[j] = Slice(len, offset, c)
      BY <1>3
    <2>2. Slice(len, offset, c).chunk_idx = ChunkIdxOf(offset + c) /\ offset + c \in Nat
      BY SliceAt
    <2> QED
      BY <2>1, <2>2, Located
  <1>5. /\ idxs \in Seq(Nat)
        /\ \A j \in 1 .. Len(slices) : handles[h].pending[slices[j].chunk_idx] = None =>
             \E i \in 1 .. Len(idxs) : idxs[i] = slices[j].chunk_idx
    <2>1. Len(slices) \in Nat
      BY <1>2
    <2> QED
      BY <1>4, <2>1, PersistedIdxsFacts
  <1> HIDE DEF idxs
  <1>6. runs \in Runs /\ \A i \in 1 .. Len(idxs) : Covers(runs, idxs[i])
    BY <1>5, CoalesceCovers
  <1> HIDE DEF runs
  <1>7. ASSUME NEW p \in offset .. (offset + len - 1),
               handles[h].pending[ChunkIdxOf(p)] = None
        PROVE  Covers(runs, ChunkIdxOf(p))
    <2>1. PICK i \in 0 .. (len - 1) : p = offset + i
      <3>1. p - offset \in 0 .. (len - 1) /\ p = offset + (p - offset)
        OBVIOUS
      <3> QED
        BY <3>1
    <2>2. PICK j \in 1 .. Len(slices) : /\ slices[j].buf_offset <= i
                                        /\ i < slices[j].buf_offset + slices[j].len
      BY <1>2 DEF Slices
    <2>3. PICK c \in 0 .. (len - 1) : slices[j] = Slice(len, offset, c)
      BY <1>3
    <2> DEFINE s == Slice(len, offset, c)
    <2>4. /\ s.chunk_idx = ChunkIdxOf(offset + c)
          /\ s.buf_offset = c /\ s.len \in Nat /\ s.len <= Available(offset + c)
      BY SliceAt
    <2> HIDE DEF s
    <2>5. c <= i /\ i < c + s.len
      BY <2>2, <2>3, <2>4 DEF s
    <2>6. s.chunk_idx = ChunkIdxOf(p)
      <3>0. offset + c \in Nat /\ i - c \in Nat /\ (offset + c) + (i - c) = p
        BY <2>1, <2>5
      <3>1. Available(offset + c) \in Nat
        BY <3>0, Located
      <3>2. i - c < Available(offset + c)
        BY <2>4, <2>5, <3>0, <3>1
      <3>3. ChunkIdxOf((offset + c) + (i - c)) = ChunkIdxOf(offset + c)
        BY <3>0, <3>2, RestOfChunk
      <3> QED
        BY <2>4, <3>0, <3>3
    <2>7. slices[j].chunk_idx = ChunkIdxOf(p)
      BY <2>3, <2>6 DEF s
    <2> QED
      BY <1>5, <1>6, <1>7, <2>7
  <1> QED
    BY <1>1, <1>6, <1>7 DEF runs

LEMMA ExceptFetched ==
  ASSUME NEW io, NEW runs, NEW fetched,
         io = [op |-> "pread", offset |-> io.offset, len |-> io.len,
               runs |-> io.runs, fetched |-> io.fetched]
  PROVE  [io EXCEPT !.runs = runs, !.fetched = fetched]
           = [op |-> "pread", offset |-> io.offset, len |-> io.len,
              runs |-> runs, fetched |-> fetched]
  <1>1. PICK x : x = [io EXCEPT !.runs = runs]
    OBVIOUS
  <1>2. x = [op |-> "pread", offset |-> io.offset, len |-> io.len,
             runs |-> runs, fetched |-> io.fetched]
    BY <1>1
  <1>3. PICK y : y = [x EXCEPT !.fetched = fetched]
    OBVIOUS
  <1>4. y = [op |-> "pread", offset |-> io.offset, len |-> io.len,
             runs |-> runs, fetched |-> fetched]
    BY <1>2, <1>3
  <1>5. [io EXCEPT !.runs = runs, !.fetched = fetched] = y
    BY <1>1, <1>3
  <1> QED
    BY <1>4, <1>5

LEMMA ChunksStay ==
  ASSUME NEW h \in Handles, handles'[h].client = handles[h].client, UNCHANGED <<db, seen>>
  PROVE  Chunks(h)' = Chunks(h)
  BY DEF Chunks, Visible

(* A pread begins: nothing is fetched yet.                                 *)
LEMMA PreadInv ==
  ASSUME Inv, Beside, NEW h \in Handles, NEW offset \in Nat, NEW len \in Nat,
         Pread(h, offset, len)
  PROVE  Inv'
  <1> DEFINE r == handles[h]
             m == H(h)!PreadLen(offset, len)
             found == Coalesce(Unstaged(h, m, offset))
             runs == {found[i] : i \in 1 .. Len(found)}
             io == [op |-> "pread", offset |-> offset, len |-> m, runs |-> runs,
                    fetched |-> NoChunks]
             n == Rec(r, r.size, r.pending, r.dirty, io, r.touched)
  <1> USE LayoutAssumption
  <1>0. Types
    BY DEF Inv
  <1>1. /\ IsOpen(h) /\ r.io.op = "idle" /\ m > 0
        /\ handles' = [handles EXCEPT ![h].io = io] /\ UNCHANGED <<db, seen, overlapped>>
    BY DEF Pread, Start, Doing
  <1>2. HandleOK(r) /\ r.pending \in Entries /\ r.size \in Offsets
    BY <1>0, <1>1, OpenFacts, FieldFacts
  <1>3. m \in Offsets /\ offset \in Offsets /\ offset + m <= MaxU64
    BY <1>1, <1>2 DEF H!PreadLen, Offsets
  <1> HIDE DEF m
  <1>4. /\ found \in Runs
        /\ \A p \in offset .. (offset + m - 1) :
             r.pending[ChunkIdxOf(p)] = None => Covers(found, ChunkIdxOf(p))
    BY <1>3, UnstagedInRuns DEF Offsets
  <1> HIDE DEF found
  <1>5. /\ runs \in SUBSET (Nat \X Nat)
        /\ \A p \in offset .. (offset + m - 1) : r.pending[ChunkIdxOf(p)] = None =>
             \E run \in runs : InRun(run, ChunkIdxOf(p))
    <2>1. runs \in SUBSET (Nat \X Nat)
      BY <1>4 DEF Runs
    <2>2. \A k : Covers(found, k) => \E run \in runs : InRun(run, k)
      BY DEF Covers, InRun
    <2> HIDE DEF runs
    <2> QED
      BY <1>4, <2>1, <2>2
  <1> HIDE DEF runs
  <1>6. /\ io \in Ios /\ io.op = "pread" /\ io.offset = offset /\ io.len = m
        /\ io.runs = runs /\ io.fetched = NoChunks
    BY <1>3, <1>5, NoChunksType DEF Ios, ReadOps
  <1> HIDE DEF io
  <1>7. HandleOK(n)
    BY <1>2, <1>3, <1>6, ReadRec
  <1>8. /\ n.state = "open" /\ n.client = r.client /\ n.pending = r.pending
        /\ n.size = r.size /\ n.touched = r.touched /\ n.io = io /\ n.flags = r.flags
    BY DEF Rec
  <1>9. Updates(h, n)
    BY <1>0, <1>1, IoUpdates
  <1> HIDE DEF n
  <1>10. ReadOK(n, shown'[h])
    <2> SUFFICES ASSUME NEW p \in offset .. (offset + m - 1)
                 PROVE  LET k == ChunkIdxOf(p)
                            i == ChunkOffsetOf(p)
                        IN /\ r.pending[k] # None =>
                                ByteOf(Contents(r.pending[k], None), i) \in shown'[h][p]
                           /\ NoChunks[k] = None
                           /\ r.pending[k] = None => \E run \in runs : InRun(run, k)
      BY <1>6, <1>8 DEF ReadOK
    <2> DEFINE k == ChunkIdxOf(p)
    <2>1. p \in Positions
      BY <1>3 DEF Offsets, Positions
    <2>2. k \in ChunkIdxs
      BY <2>1, PositionFacts
    <2>3. handles'[h] = n
      BY <1>9 DEF Updates
    <2>4. Bytes(r.pending, Chunks(h)')[p] \in shown'[h][p]
      BY <1>6, <1>8, <2>1, <2>3, ShownGrows DEF Beside
    <2>5. r.pending[k] # None =>
            ByteOf(Contents(r.pending[k], None), ChunkOffsetOf(p)) \in shown'[h][p]
      <3>1. r.pending[k] # None =>
              Contents(r.pending[k], None) = Contents(r.pending[k], Chunks(h)'[k])
        BY DEF Contents
      <3> QED
        BY <2>1, <2>4, <3>1, BytesAt
    <2>6. NoChunks[k] = None
      BY <2>2 DEF NoChunks
    <2> QED
      BY <1>5, <2>5, <2>6
  <1>11. ASSUME ~overlapped, n.flags.write PROVE h \in Writers /\ WriterOK(n, db)
    <2>1. h \in Writers /\ WriterOK(r, db)
      BY <1>1, <1>8, <1>11, WriterFacts
    <2> QED
      BY <1>1, <1>6, <1>8, <2>1, IoKeepsWriter
  <1> HIDE DEF r
  <1> QED
    BY <1>1, <1>7, <1>9, <1>10, <1>11, LocalStepInv

(* A run is fetched, as the database shows it at that moment.              *)
LEMMA FetchRunInv ==
  ASSUME Inv, Beside, NEW h \in Handles, FetchRun(h)
  PROVE  Inv'
  <1> DEFINE r == handles[h]
  <1> USE LayoutAssumption
  <1>0. Types /\ IsOpen(h) /\ r.io.op = "pread"
    BY DEF Inv, FetchRun, Doing
  <1>1. HandleOK(r) /\ r.io \in Ios
    BY <1>0, OpenFacts, FieldFacts
  <1>2. /\ r.io \in ReadOps /\ r.io.offset + r.io.len <= MaxU64
        /\ ReadOK(r, shown[h])
    BY <1>0, <1>1, OpFacts DEF HandleOK, Inv, Doing
  <1>3. PICK run \in r.io.runs :
          handles' = [handles EXCEPT
            ![h].io.runs = @ \ {run},
            ![h].io.fetched = [k \in ChunkIdxs |->
               IF k \in H(h)!ScanInclusive(run[1], run[2])
                 THEN Visible(handles[h].client).chunks[k] ELSE @[k]]]
    BY DEF FetchRun
  <1>4. UNCHANGED <<db, seen, overlapped>>
    BY DEF FetchRun
  <1> DEFINE new == Chunks(h)
             runs == r.io.runs \ {run}
             fetched == [k \in ChunkIdxs |->
                           IF InRun(run, k) /\ new[k] # None THEN new[k]
                           ELSE r.io.fetched[k]]
             io == [op |-> "pread", offset |-> r.io.offset, len |-> r.io.len,
                    runs |-> runs, fetched |-> fetched]
             n == Rec(r, r.size, r.pending, r.dirty, io, r.touched)
  <1>5. /\ new \in Stored /\ r.io.fetched \in Stored
        /\ r.io.offset \in Offsets /\ r.io.len \in Offsets
        /\ r.io.runs \in SUBSET (Nat \X Nat)
        /\ r.io = [op |-> "pread", offset |-> r.io.offset, len |-> r.io.len,
                   runs |-> r.io.runs, fetched |-> r.io.fetched]
    BY <1>0, <1>2, VisibleFacts DEF Chunks, ReadOps
  <1>6. handles' = [handles EXCEPT ![h].io = io]
    <2>1. \A k \in ChunkIdxs : k \in H(h)!ScanInclusive(run[1], run[2])
                               <=> InRun(run, k) /\ new[k] # None
      BY HandleLayout DEF H!ScanInclusive, H!Persisted, InRun, Chunks
    <2>2. fetched = [k \in ChunkIdxs |->
                       IF k \in H(h)!ScanInclusive(run[1], run[2])
                         THEN Visible(handles[h].client).chunks[k] ELSE r.io.fetched[k]]
      BY <2>1 DEF Chunks
    <2> HIDE DEF fetched, new, runs
    <2>3. handles' = [handles EXCEPT ![h].io = [r.io EXCEPT !.runs = runs,
                                                            !.fetched = fetched]]
      BY <1>3, <2>2 DEF runs
    <2>4. [r.io EXCEPT !.runs = runs, !.fetched = fetched] = io
      BY <1>5, ExceptFetched
    <2> QED
      BY <2>3, <2>4
  <1>7. fetched \in Stored /\ runs \in SUBSET (Nat \X Nat)
    BY <1>5 DEF Stored
  <1> HIDE DEF new
  <1>8. \A k \in ChunkIdxs :
          /\ InRun(run, k) /\ new[k] # None => fetched[k] = new[k]
          /\ ~ (InRun(run, k) /\ new[k] # None) => fetched[k] = r.io.fetched[k]
    OBVIOUS
  <1> HIDE DEF fetched
  <1>9. /\ io \in Ios /\ io.op = "pread" /\ io.offset = r.io.offset /\ io.len = r.io.len
        /\ io.runs = runs /\ io.fetched = fetched
    BY <1>5, <1>7 DEF Ios, ReadOps
  <1> HIDE DEF io
  <1>10. HandleOK(n)
    BY <1>1, <1>2, <1>9, ReadRec
  <1>11. /\ n.state = "open" /\ n.client = r.client /\ n.pending = r.pending
         /\ n.size = r.size /\ n.touched = r.touched /\ n.io = io /\ n.flags = r.flags
    BY DEF Rec
  <1>12. Updates(h, n)
    BY <1>0, <1>6, IoUpdates
  <1> HIDE DEF n
  <1>13. ReadOK(n, shown'[h])
    <2> DEFINE all == shown'[h]
    <2> SUFFICES ASSUME NEW p \in r.io.offset .. (r.io.offset + r.io.len - 1)
                 PROVE  LET k == ChunkIdxOf(p)
                            i == ChunkOffsetOf(p)
                        IN /\ r.pending[k] # None =>
                                ByteOf(Contents(r.pending[k], None), i) \in all[p]
                           /\ r.pending[k] = None /\ fetched[k] # None =>
                                ByteOf(fetched[k], i) \in all[p]
                           /\ r.pending[k] = None /\ (\A x \in runs : ~InRun(x, k)) =>
                                ByteOf(StoredChunk(fetched[k]), i) \in all[p]
      BY <1>9, <1>11 DEF ReadOK
    <2> DEFINE k == ChunkIdxOf(p)
               i == ChunkOffsetOf(p)
    <2>1. p \in Positions
      BY <1>2, <1>5 DEF Offsets, Positions
    <2>2. k \in ChunkIdxs
      BY <2>1, PositionFacts
    <2>3. handles'[h] = n /\ Chunks(h)' = new
      BY <1>4, <1>11, <1>12, ChunksStay DEF Updates, new
    <2>4. all[p] = shown[h][p] \cup {Bytes(r.pending, new)[p]}
      BY <1>9, <1>11, <2>1, <2>3, ShownGrows DEF Beside
    <2>5. Bytes(r.pending, new)[p] = ByteOf(Contents(r.pending[k], new[k]), i)
      BY <2>1, BytesAt
    <2>6. /\ r.pending[k] # None =>
               ByteOf(Contents(r.pending[k], None), i) \in shown[h][p]
          /\ r.pending[k] = None /\ r.io.fetched[k] # None =>
               ByteOf(r.io.fetched[k], i) \in shown[h][p]
          /\ r.pending[k] = None /\ (\A x \in r.io.runs : ~InRun(x, k)) =>
               ByteOf(StoredChunk(r.io.fetched[k]), i) \in shown[h][p]
      BY <1>2 DEF ReadOK
    <2>7. r.pending[k] = None => ByteOf(StoredChunk(new[k]), i) \in all[p]
      BY <2>4, <2>5 DEF Contents
    <2>8. shown[h][p] \subseteq all[p]
      BY <2>4
    <2> HIDE DEF all, k, i
    <2>9. r.pending[k] # None => ByteOf(Contents(r.pending[k], None), i) \in all[p]
      BY <2>6, <2>8
    <2>10. ASSUME r.pending[k] = None, fetched[k] # None
           PROVE  ByteOf(fetched[k], i) \in all[p]
      <3>1. CASE InRun(run, k) /\ new[k] # None
        BY <1>8, <2>2, <2>7, <2>10, <3>1 DEF StoredChunk
      <3>2. CASE ~ (InRun(run, k) /\ new[k] # None)
        BY <1>8, <2>2, <2>6, <2>8, <2>10, <3>2
      <3> QED
        BY <3>1, <3>2
    <2>11. ASSUME r.pending[k] = None, \A x \in runs : ~InRun(x, k)
           PROVE  ByteOf(StoredChunk(fetched[k]), i) \in all[p]
      <3>1. CASE fetched[k] # None
        BY <2>10, <2>11, <3>1 DEF StoredChunk
      <3>2. CASE fetched[k] = None /\ InRun(run, k)
        <4>1. new[k] = None
          BY <1>8, <2>2, <3>2
        <4> QED
          BY <2>7, <2>11, <3>2, <4>1
      <3>3. CASE fetched[k] = None /\ ~InRun(run, k)
        <4>1. \A x \in r.io.runs : ~InRun(x, k)
          BY <2>11, <3>3
        <4>2. fetched[k] = r.io.fetched[k]
          BY <1>8, <2>2, <3>3
        <4> QED
          BY <2>6, <2>8, <2>11, <4>1, <4>2
      <3> QED
        BY <3>1, <3>2, <3>3
    <2> QED
      BY <2>9, <2>10, <2>11 DEF k, i
  <1>14. ASSUME ~overlapped, n.flags.write PROVE h \in Writers /\ WriterOK(n, db)
    <2>1. h \in Writers /\ WriterOK(r, db)
      BY <1>0, <1>11, <1>14, WriterFacts
    <2> QED
      BY <1>0, <1>9, <1>11, <2>1, IoKeepsWriter
  <1> HIDE DEF r
  <1> QED
    BY <1>4, <1>10, <1>12, <1>13, <1>14, LocalStepInv

(* An operation ends and leaves everything else as it is.                  *)
LEMMA EndsInv ==
  ASSUME Inv, Beside, NEW h \in Handles, IsOpen(h), handles[h].io.op # "write",
         handles' = [handles EXCEPT ![h].io = Idle], UNCHANGED <<db, seen, overlapped>>
  PROVE  Inv'
  <1> DEFINE r == handles[h]
             n == Rec(r, r.size, r.pending, r.dirty, Idle, r.touched)
  <1>0. Types
    BY DEF Inv
  <1>1. HandleOK(r)
    BY <1>0, OpenFacts
  <1>2. HandleOK(n)
    BY <1>1, IdleFacts, ReadRec
  <1>3. /\ n.pending = r.pending /\ n.size = r.size /\ n.touched = r.touched
        /\ n.io.op = "idle" /\ n.flags = r.flags
    BY IdleFacts DEF Rec
  <1>4. Updates(h, n)
    BY <1>0, IoUpdates
  <1> HIDE DEF n
  <1>5. ASSUME ~overlapped, n.flags.write PROVE h \in Writers /\ WriterOK(n, db)
    <2>1. h \in Writers /\ WriterOK(r, db)
      BY <1>3, <1>5, WriterFacts
    <2> QED
      BY <1>3, <2>1, IoKeepsWriter
  <1> HIDE DEF r
  <1> QED
    BY <1>2, <1>3, <1>4, <1>5, LocalStepInv

LEMMA PreadReturnsInv ==
  ASSUME Inv, Beside, NEW h \in Handles, PreadReturns(h)
  PROVE  Inv'
  BY EndsInv DEF PreadReturns, ReadDone, Doing

----------------------------------------------------------------------------
(* Syncs.  Only a handle that may write has something to sync.             *)
LEMMA SyncerWrites ==
  ASSUME NEW r, HandleOK(r), r.io.op \in {"sync", "flush"}
  PROVE  r.flags.write /\ r.io \in SyncOps
         /\ r.io = [op |-> r.io.op, destroy |-> r.io.destroy] /\ r.io.destroy \in BOOLEAN
  <1>1. r.io \in SyncOps
    BY FieldFacts, OpFacts
  <1>2. r.flags.write
    BY FieldFacts, FlagFacts DEF HandleOK
  <1> QED
    BY <1>1, <1>2 DEF SyncOps

LEMMA StartSyncInv ==
  ASSUME Inv, Beside, NEW h \in Handles, NEW destroy \in BOOLEAN, StartSync(h, destroy)
  PROVE  Inv'
  <1> DEFINE r == handles[h]
             io == [op |-> "sync", destroy |-> destroy]
             n == Rec(r, r.size, r.pending, r.dirty, io, r.touched)
  <1>0. Types
    BY DEF Inv
  <1>1. /\ IsOpen(h) /\ r.io.op = "idle" /\ ~ (r.pending = NoChunks /\ ~r.dirty)
        /\ handles' = [handles EXCEPT ![h].io = io] /\ UNCHANGED <<db, seen, overlapped>>
    BY HandleLayout DEF StartSync, Start, Doing, H!Clean, H!NothingPending, NoChunks
  <1>2. HandleOK(r)
    BY <1>0, <1>1, OpenFacts
  <1>3. r.flags.write
    BY <1>1, <1>2 DEF HandleOK
  <1>4. io \in Ios /\ io.op = "sync"
    BY DEF Ios, SyncOps
  <1> HIDE DEF io
  <1>5. HandleOK(n)
    BY <1>2, <1>3, <1>4, FieldFacts, WriterRec
  <1>6. /\ n.pending = r.pending /\ n.size = r.size /\ n.touched = r.touched /\ n.io = io
    BY DEF Rec
  <1>7. Updates(h, n)
    BY <1>0, <1>1, IoUpdates
  <1> HIDE DEF n
  <1>8. h \in Writers /\ (~overlapped => WriterOK(r, db))
    BY <1>1, <1>3, WriterFacts
  <1>9. ~overlapped => WriterOK(n, db)
    BY <1>1, <1>4, <1>6, <1>8, IoKeepsWriter
  <1> HIDE DEF r
  <1> QED
    BY <1>1, <1>4, <1>5, <1>6, <1>7, <1>8, <1>9, LocalStepInv

(* The batch stores what the handle shows, under its own size.             *)
LEMMA WrittenFacts ==
  ASSUME Inv, NEW h \in Handles, IsOpen(h), handles[h].flags.write
  PROVE  LET r == handles[h]
             file == Written(h)
         IN /\ file \in Files /\ file.exists /\ file.linked = db.linked
            /\ file.size = r.size
            /\ \A p \in Positions :
                 StoredBytes(file)[p] = Bytes(r.pending, db.chunks)[p]
            /\ \A p \in Positions :
                 Bytes(r.pending, file.chunks)[p] = Bytes(r.pending, db.chunks)[p]
  <1> DEFINE r == handles[h]
             file == Written(h)
             batch == H(h)!Batch.chunks
  <1>1. Types /\ HandleOK(r) /\ r.pending \in Entries /\ r.size \in Offsets
    BY OpenFacts, FieldFacts DEF Inv
  <1>2. Chunks(h) = db.chunks /\ Chunks(h) \in Stored
    BY <1>1, WriterFacts, VisibleFacts
  <1>3. /\ batch \in Stored
        /\ \A p \in Positions :
             /\ ByteOf(StoredChunk(batch[ChunkIdxOf(p)]), ChunkOffsetOf(p))
                  = Bytes(r.pending, db.chunks)[p]
             /\ Bytes(r.pending, batch)[p] = Bytes(r.pending, db.chunks)[p]
    BY <1>1, <1>2, BatchFacts
  <1>4. db \in Files
    BY <1>1 DEF Types
  <1>5. file = [db EXCEPT !.exists = TRUE, !.size = r.size, !.chunks = batch]
    BY DEF Written
  <1> HIDE DEF batch, file, r
  <1>6. /\ file \in Files /\ file.exists /\ file.linked = db.linked /\ file.size = r.size
        /\ file.chunks = batch
    BY <1>1, <1>3, <1>4, <1>5 DEF Files, Stored
  <1>7. \A p \in Positions : StoredBytes(file)[p] = Bytes(r.pending, db.chunks)[p]
    BY <1>3, <1>6, StoredAt
  <1>8. \A p \in Positions :
          Bytes(r.pending, file.chunks)[p] = Bytes(r.pending, db.chunks)[p]
    BY <1>3, <1>6
  <1> QED
    BY <1>6, <1>7, <1>8 DEF file, r

(* ... so that the writer stays right about the file, whether the sync     *)
(* goes on to its flush or ends.                                           *)
LEMMA WrittenWriterOK ==
  ASSUME Inv, NEW h \in Handles, IsOpen(h), handles[h].flags.write, ~overlapped,
         handles[h].io.op # "write", NEW n, n.io.op \in {"flush", "idle"},
         n.pending = handles[h].pending, n.size = handles[h].size,
         n.touched = handles[h].touched
  PROVE  /\ WriterOK(n, Written(h))
         /\ \A p \in Positions : p >= Written(h).size => StoredBytes(Written(h))[p] = 0
  <1> DEFINE r == handles[h]
             file == Written(h)
  <1>1. WriterOK(r, db) /\ \A p \in Positions : ~InSlice(r, p) /\ ~InSlice(n, p)
    BY WriterFacts DEF InSlice
  <1>2. /\ file.size = r.size
        /\ \A p \in Positions : StoredBytes(file)[p] = Bytes(r.pending, db.chunks)[p]
        /\ \A p \in Positions :
             Bytes(r.pending, file.chunks)[p] = Bytes(r.pending, db.chunks)[p]
    BY WrittenFacts
  <1> HIDE DEF file, r
  <1>3. \A p \in Positions : p >= r.size => Bytes(r.pending, db.chunks)[p] = 0
    BY <1>1 DEF WriterOK, ZeroPastEnd
  <1>4. ZeroPastEnd(n, file)
    BY <1>2, <1>3 DEF ZeroPastEnd, r
  <1>5. MergesOnly(n, file)
    BY <1>2 DEF MergesOnly, r
  <1>6. CutRight(n, file)
    BY DEF CutRight
  <1>7. FlushesOwnSize(n, file)
    BY <1>2, <1>3 DEF FlushesOwnSize, r
  <1>8. \A p \in Positions : p >= file.size => StoredBytes(file)[p] = 0
    BY <1>2, <1>3
  <1> QED
    BY <1>4, <1>5, <1>6, <1>7, <1>8 DEF WriterOK, file

(* The frame of the steps that apply a batch and leave the handle as n.    *)
LEMMA BatchStepInv ==
  ASSUME Inv, Beside, NEW h \in Handles, IsOpen(h), handles[h].flags.write,
         db' = Written(h), UNCHANGED <<seen, overlapped>>,
         handles[h].io.op # "write", NEW n, Updates(h, n), n = Closed \/ HandleOK(n),
         n.state = "open" => /\ n.io.op \in {"flush", "idle"}
                             /\ n.pending = handles[h].pending
                             /\ n.size = handles[h].size
                             /\ n.touched = handles[h].touched
  PROVE  Inv'
  <1> DEFINE file == Written(h)
  <1>1. h \in Writers
    BY WriterFacts
  <1>2. file \in Files /\ file.exists /\ overlapped \in BOOLEAN
    BY WrittenFacts DEF Inv, Types
  <1>3. ASSUME ~overlapped, n.state = "open" PROVE WriterOK(n, file)
    BY <1>3, WrittenWriterOK
  <1>4. ASSUME ~overlapped
        PROVE  \A p \in Positions : p >= file.size => StoredBytes(file)[p] = 0
    <2> DEFINE r == handles[h]
               m == Rec(r, r.size, r.pending, r.dirty, Idle, r.touched)
    <2>1. /\ m.io.op = "idle" /\ m.pending = r.pending /\ m.size = r.size
          /\ m.touched = r.touched
      BY IdleFacts DEF Rec
    <2> HIDE DEF m
    <2> QED
      BY <1>4, <2>1, WrittenWriterOK
  <1>5. ~ (n.state = "open" /\ n.io.op = "pread")
    OBVIOUS
  <1> HIDE DEF file
  <1>6. db' = file
    BY DEF file
  <1>7. ~overlapped' => ~overlapped
    OBVIOUS
  <1>8. db' \in Files /\ (db'.linked => db'.exists) /\ overlapped' \in BOOLEAN
    BY <1>2, <1>6
  <1>9. ~overlapped' => (n.state = "open" /\ n.flags.write =>
                           (h \in Writers \/ Writers = {}) /\ WriterOK(n, db'))
    BY <1>1, <1>3, <1>6
  <1>10. ~overlapped' => \A p \in Positions : p >= db'.size => StoredBytes(db')[p] = 0
    BY <1>4, <1>6
  <1>11. ~overlapped' => (h \notin Writers => db' = db \/ Writers = {})
    BY <1>1
  <1> QED
    BY <1>5, <1>7, <1>8, <1>9, <1>10, <1>11, HandleStepInv DEF Beside

LEMMA SyncWriteInv ==
  ASSUME Inv, Beside, NEW h \in Handles, SyncWrite(h)
  PROVE  Inv'
  <1> DEFINE r == handles[h]
             io == [op |-> "flush", destroy |-> r.io.destroy]
             n == Rec(r, r.size, r.pending, r.dirty, io, r.touched)
  <1>0. Types /\ IsOpen(h) /\ r.io.op = "sync"
    BY DEF Inv, SyncWrite, Doing
  <1>1. HandleOK(r)
    BY <1>0, OpenFacts
  <1>2. /\ r.flags.write /\ r.io = [op |-> r.io.op, destroy |-> r.io.destroy]
        /\ r.io.destroy \in BOOLEAN
    BY <1>0, <1>1, SyncerWrites
  <1>3. /\ db' = Written(h) /\ handles' = [handles EXCEPT ![h].io.op = "flush"]
        /\ UNCHANGED <<seen, overlapped>>
    BY DEF SyncWrite
  <1>4. handles' = [handles EXCEPT ![h].io = io]
    <2>1. handles' = [handles EXCEPT ![h].io = [r.io EXCEPT !.op = "flush"]]
      BY <1>3
    <2>2. [r.io EXCEPT !.op = "flush"] = io
      BY <1>2
    <2> HIDE DEF io
    <2> QED
      BY <2>1, <2>2
  <1>5. io \in Ios /\ io.op = "flush"
    BY <1>2 DEF Ios, SyncOps
  <1> HIDE DEF io
  <1>6. HandleOK(n)
    BY <1>1, <1>2, <1>5, FieldFacts, WriterRec
  <1>7. /\ n.pending = r.pending /\ n.size = r.size /\ n.touched = r.touched
        /\ n.io.op = "flush"
    BY <1>5 DEF Rec
  <1>8. Updates(h, n)
    BY <1>0, <1>4, IoUpdates
  <1> HIDE DEF n
  <1> QED
    BY <1>0, <1>2, <1>3, <1>6, <1>7, <1>8, BatchStepInv

(* The flush makes what was staged the database's.                         *)
LEMMA SyncFlushInv ==
  ASSUME Inv, Beside, NEW h \in Handles, SyncFlush(h)
  PROVE  Inv'
  <1> DEFINE r == handles[h]
             kept == Rec(r, r.size, NoChunks, FALSE, Idle, {})
             n == IF r.io.destroy THEN Closed ELSE kept
  <1>0. Types /\ IsOpen(h) /\ r.io.op = "flush" /\ UNCHANGED <<db, seen, overlapped>>
    BY DEF Inv, SyncFlush, Doing
  <1>1. HandleOK(r)
    BY <1>0, OpenFacts
  <1>2. r.flags.write
    BY <1>0, <1>1, SyncerWrites
  <1>3. handles' = [handles EXCEPT ![h] = n]
    <2>1. handles' = [handles EXCEPT ![h] =
            IF r.io.destroy THEN Closed
            ELSE [r EXCEPT !.pending = NoChunks, !.dirty = FALSE, !.touched = {},
                           !.io = Idle]]
      BY DEF SyncFlush
    <2> HIDE DEF r
    <2>2. PICK x : x = [r EXCEPT !.pending = NoChunks, !.dirty = FALSE, !.touched = {},
                                 !.io = Idle]
      OBVIOUS
    <2>3. x = kept
      BY <1>1, <2>2, ExceptFlushed
    <2> HIDE DEF kept
    <2> QED
      BY <2>1, <2>2, <2>3
  <1>4. HandleOK(kept)
    <2>1. NoChunks \in Entries /\ {} \in SUBSET Positions
      BY NoChunksType
    <2> QED
      BY <1>1, <1>2, <2>1, FieldFacts, IdleFacts, WriterRec
  <1>5. /\ kept.pending = NoChunks /\ kept.size = r.size /\ kept.io.op = "idle"
    BY IdleFacts DEF Rec
  <1> HIDE DEF kept
  <1>6. Closed.state = "closed"
    BY DEF Closed
  <1>7. h \in Writers /\ (~overlapped => WriterOK(r, db))
    BY <1>0, <1>2, WriterFacts
  <1>8. ASSUME ~overlapped PROVE WriterOK(kept, db)
    <2>1. \A p \in Positions : p >= r.size => StoredBytes(db)[p] = 0
      BY <1>0, <1>7, <1>8 DEF WriterOK, FlushesOwnSize
    <2>2. ZeroPastEnd(kept, db)
      BY <1>5, <2>1, NothingStaged DEF ZeroPastEnd
    <2>3. MergesOnly(kept, db)
      BY <1>5, NothingStaged DEF MergesOnly
    <2>4. CutRight(kept, db) /\ FlushesOwnSize(kept, db)
      BY <1>5 DEF CutRight, FlushesOwnSize
    <2> QED
      BY <2>2, <2>3, <2>4 DEF WriterOK
  <1>9. /\ n = Closed \/ HandleOK(n)
        /\ ~ (n.state = "open" /\ n.io.op = "pread")
        /\ ~overlapped => (n.state = "open" /\ n.flags.write =>
                              h \in Writers /\ WriterOK(n, db))
    <2>1. CASE r.io.destroy
      BY <1>6, <2>1
    <2>2. CASE ~r.io.destroy
      BY <1>4, <1>5, <1>7, <1>8, <2>2
    <2> QED
      BY <2>1, <2>2
  <1> HIDE DEF n, r
  <1>10. Updates(h, n)
    BY <1>0, <1>3, UpdateFacts DEF Types
  <1> QED
    BY <1>0, <1>9, <1>10, LocalStepInv

(* A sync that fails leaves everything staged, applied or not.             *)
LEMMA SyncFailsInv ==
  ASSUME Inv, Beside, NEW h \in Handles, SyncFails(h)
  PROVE  Inv'
  <1> DEFINE r == handles[h]
             kept == Rec(r, r.size, r.pending, r.dirty, Idle, r.touched)
             n == IF r.io.destroy THEN Closed ELSE kept
  <1>0. /\ Types /\ IsOpen(h) /\ r.io.op \in {"sync", "flush"} /\ db' \in {db, Written(h)}
        /\ UNCHANGED <<seen, overlapped>>
    BY DEF Inv, SyncFails, Doing
  <1>1. HandleOK(r)
    BY <1>0, OpenFacts
  <1>2. r.flags.write
    BY <1>0, <1>1, SyncerWrites
  <1>3. handles' = [handles EXCEPT ![h] = n]
    <2>1. handles' = [handles EXCEPT ![h] =
            IF r.io.destroy THEN Closed ELSE [r EXCEPT !.io = Idle]]
      BY DEF SyncFails
    <2>2. [r EXCEPT !.io = Idle] = kept
      BY <1>1, ExceptIo
    <2> HIDE DEF kept
    <2> QED
      BY <2>1, <2>2
  <1>4. HandleOK(kept)
    BY <1>1, IdleFacts, ReadRec
  <1>5. /\ kept.pending = r.pending /\ kept.size = r.size /\ kept.io.op = "idle"
        /\ kept.touched = r.touched
    BY IdleFacts DEF Rec
  <1> HIDE DEF kept
  <1>6. Closed.state = "closed"
    BY DEF Closed
  <1>7. h \in Writers /\ (~overlapped => WriterOK(r, db))
    BY <1>0, <1>2, WriterFacts
  <1>8. ~overlapped => WriterOK(kept, db)
    BY <1>0, <1>5, <1>7, IoKeepsWriter
  <1>9. /\ n = Closed \/ HandleOK(n)
        /\ n.state = "open" => n = kept
    <2>1. CASE r.io.destroy
      BY <1>6, <2>1
    <2>2. CASE ~r.io.destroy
      BY <1>4, <2>2
    <2> QED
      BY <2>1, <2>2
  <1> HIDE DEF n
  <1>10. Updates(h, n)
    BY <1>0, <1>3, UpdateFacts DEF Types
  <1>11. CASE db' = db
    <2>1. ~ (n.state = "open" /\ n.io.op = "pread")
      BY <1>5, <1>9
    <2>2. ~overlapped => (n.state = "open" /\ n.flags.write =>
                            h \in Writers /\ WriterOK(n, db))
      BY <1>7, <1>8, <1>9
    <2> HIDE DEF r
    <2> QED
      BY <1>0, <1>9, <1>10, <1>11, <2>1, <2>2, LocalStepInv
  <1>12. CASE db' = Written(h)
    <2>1. n.state = "open" => /\ n.io.op = "idle" /\ n.pending = r.pending
                              /\ n.size = r.size /\ n.touched = r.touched
      BY <1>5, <1>9
    <2> QED
      BY <1>0, <1>2, <1>9, <1>10, <1>12, <2>1, BatchStepInv
  <1> QED
    BY <1>0, <1>11, <1>12

LEMMA CloseInv ==
  ASSUME Inv, Beside, NEW h \in Handles, Close(h)
  PROVE  Inv'
  <1>1. Closed.state = "closed"
    BY DEF Closed
  <1>2. UNCHANGED <<db, seen, overlapped>> /\ handles' = [handles EXCEPT ![h] = Closed]
    BY DEF Close
  <1>3. DOMAIN handles = Handles
    BY DEF Inv, Types
  <1>4. Updates(h, Closed)
    BY <1>2, <1>3, UpdateFacts
  <1> QED
    BY <1>1, <1>2, <1>4, LocalStepInv

----------------------------------------------------------------------------
(* The steps no handle takes.                                              *)
LEMMA OtherStepInv ==
  ASSUME Inv, Beside, UNCHANGED <<handles, overlapped>>, db' \in Files, seen' \in Files,
         db'.linked => db'.exists,
         ~overlapped => \A h \in Writers : WriterOK(handles[h], db'),
         ~overlapped => \A file \in {db', seen'} : \A p \in Positions :
                          p >= file.size => StoredBytes(file)[p] = 0
  PROVE  Inv'
  <1>1. Types
    BY DEF Inv
  <1>2. Types'
    BY <1>1 DEF Types, Beside
  <1>3. ASSUME NEW h \in Handles, Doing(h, "pread")' PROVE ReadOK(handles'[h], shown'[h])
    <2>1. Doing(h, "pread") /\ IsOpen(h) /\ handles[h].state = "open"
          /\ handles[h].io.op = "pread"
      BY <1>3 DEF Doing, IsOpen
    <2>2. ReadOK(handles[h], shown[h]) /\ HandleOK(handles[h])
      BY <1>1, <2>1, OpenFacts DEF Inv
    <2>3. \A p \in Positions : shown[h][p] \subseteq shown'[h][p]
      BY <2>1, ShownGrows DEF Beside
    <2> QED
      BY <2>1, <2>2, <2>3, ReadGoesOn
  <1>4. ~overlapped' =>
          /\ \A g, h \in Writers' : g = h
          /\ \A h \in Writers' : WriterOK(handles'[h], db')
    <2>1. Writers' = Writers
      BY DEF Writers, IsOpen
    <2> QED
      BY <2>1 DEF Inv
  <1>5. ~overlapped' => OneWriterHidesNothing'
    BY DEF OneWriterHidesNothing, StoredBytes
  <1> HIDE DEF Types
  <1> QED
    BY <1>2, <1>3, <1>4, <1>5 DEF Inv

(* What a chunk shows once the store has lost it.                          *)
LEMMA LostByte ==
  ASSUME NEW entry, NEW stored, NEW i
  PROVE  \/ ByteOf(Contents(entry, None), i) = 0
         \/ ByteOf(Contents(entry, None), i) = ByteOf(Contents(entry, stored), i)
  BY EmptyIsChunk DEF Contents, StoredChunk

(* Removing the file takes no writer's own bytes, and shows nothing past   *)
(* its end.                                                                *)
LEMMA RemovedWriterOK ==
  ASSUME NEW r, HandleOK(r), NEW file, WriterOK(r, file)
  PROVE  WriterOK(r, Removed)
  <1> USE LayoutAssumption
  <1>1. ZeroPastEnd(r, Removed)
    <2> SUFFICES ASSUME NEW p \in Positions, p >= r.size, ~InSlice(r, p)
                 PROVE  Bytes(r.pending, NoChunks)[p] = 0
      BY RemovedFacts DEF ZeroPastEnd
    <2> DEFINE k == ChunkIdxOf(p)
               i == ChunkOffsetOf(p)
    <2>1. Bytes(r.pending, file.chunks)[p] = 0
      BY DEF WriterOK, ZeroPastEnd
    <2>2. Bytes(r.pending, file.chunks)[p]
            = ByteOf(Contents(r.pending[k], file.chunks[k]), i)
      BY BytesAt
    <2>3. Bytes(r.pending, NoChunks)[p] = ByteOf(Contents(r.pending[k], NoChunks[k]), i)
      BY BytesAt
    <2>4. NoChunks[k] = None
      BY PositionFacts DEF NoChunks
    <2> QED
      BY <2>1, <2>2, <2>3, <2>4, LostByte
  <1>2. MergesOnly(r, Removed)
    BY RemovedFacts DEF MergesOnly
  <1>3. CutRight(r, Removed)
    <2> DEFINE k == ChunkIdxOf(r.io.newSize - 1)
               n == ChunkOffsetOf(r.io.newSize - 1) + 1
    <2> SUFFICES ASSUME r.io.op = "shrink", r.io.newSize # 0,
                        NEW i \in n .. (ChunkSize - 1)
                 PROVE  ByteOf(Contents(r.io.last, NoChunks[k]), i) = 0
      BY RemovedFacts DEF CutRight
    <2>1. ByteOf(Contents(r.io.last, file.chunks[k]), i) = 0
      BY DEF WriterOK, CutRight
    <2>2. r.io.newSize - 1 \in Positions
      <3>1. r.io.newSize \in Offsets /\ r.size \in Offsets /\ r.io.newSize < r.size
        BY FieldFacts, OpFacts DEF HandleOK, ShrinkOps
      <3> QED
        BY <3>1 DEF Offsets, Positions
    <2>3. NoChunks[k] = None
      BY <2>2, PositionFacts DEF NoChunks
    <2> QED
      BY <2>1, <2>3, LostByte
  <1>4. FlushesOwnSize(r, Removed)
    BY RemovedFacts, NoChunksBytes DEF FlushesOwnSize
  <1> QED
    BY <1>1, <1>2, <1>3, <1>4 DEF WriterOK

LEMMA RemoveFileInv ==
  ASSUME Inv, Beside, RemoveFile
  PROVE  Inv'
  <1>1. db' = Removed /\ UNCHANGED <<seen, handles, overlapped>>
    BY DEF RemoveFile
  <1>2. ASSUME ~overlapped, NEW h \in Writers PROVE WriterOK(handles[h], db')
    <2>1. h \in Handles /\ IsOpen(h)
      BY DEF Writers
    <2>2. HandleOK(handles[h]) /\ WriterOK(handles[h], db)
      BY <1>2, <2>1, OpenFacts DEF Inv
    <2> QED
      BY <1>1, <2>2, RemovedWriterOK
  <1>3. ~overlapped => \A file \in {db', seen'} : \A p \in Positions :
          p >= file.size => StoredBytes(file)[p] = 0
    BY <1>1, RemovedFacts, NoChunksBytes DEF Inv, OneWriterHidesNothing
  <1>4. seen' \in Files
    BY <1>1 DEF Inv, Types
  <1>5. db' \in Files /\ ~db'.linked
    BY <1>1, RemovedFacts
  <1> QED
    BY <1>1, <1>2, <1>3, <1>4, <1>5, OtherStepInv

LEMMA PollInv ==
  ASSUME Inv, Beside, Poll
  PROVE  Inv'
  <1>1. seen' = db /\ UNCHANGED <<db, handles, overlapped>>
    BY DEF Poll
  <1>2. db \in Files /\ (db.linked => db.exists)
    BY DEF Inv, Types
  <1>3. ~overlapped => \A h \in Writers : WriterOK(handles[h], db')
    BY <1>1 DEF Inv
  <1>4. ~overlapped => \A file \in {db', seen'} : \A p \in Positions :
          p >= file.size => StoredBytes(file)[p] = 0
    BY <1>1 DEF Inv, OneWriterHidesNothing
  <1> QED
    BY <1>1, <1>2, <1>3, <1>4, OtherStepInv

----------------------------------------------------------------------------
LEMMA InitInv == Init => Inv
  <1> SUFFICES ASSUME Init PROVE Inv
    OBVIOUS
  <1>1. \A h \in Handles : handles[h] = Closed /\ ~IsOpen(h)
    BY DEF Init, IsOpen, Closed
  <1>2. Types
    <2>1. 0 \in 0 .. MaxChanges /\ DOMAIN handles = Handles
      BY SharedAssumption DEF Init
    <2> QED
      BY <1>1, <2>1, NewFileFacts DEF Init, Types
  <1>3. \A h \in Handles : ~Doing(h, "pread")
    BY <1>1 DEF Doing
  <1>4. Writers = {}
    BY <1>1 DEF Writers
  <1>5. OneWriterHidesNothing
    BY NewFileFacts, NoChunksBytes DEF Init, OneWriterHidesNothing
  <1> QED
    BY <1>2, <1>3, <1>4, <1>5 DEF Inv

LEMMA ChangeInv ==
  ASSUME Inv, Beside, NEW h \in Handles, Change(h)
  PROVE  Inv'
  <1>0. Targets \subseteq Offsets
    BY SharedAssumption
  <1>1. CASE OpenWrite(h, TRUE)
    BY <1>1, OpenWriteInv
  <1>2. CASE \E data \in Payloads, offset \in Targets : Pwrite(h, data, offset)
    BY <1>0, <1>2, PwriteInv
  <1>3. CASE \E newSize \in Targets : Grow(h, newSize)
    BY <1>0, <1>3, GrowInv
  <1>4. CASE \E newSize \in Targets : Shrink(h, newSize)
    BY <1>0, <1>4, ShrinkInv
  <1> QED
    BY <1>1, <1>2, <1>3, <1>4 DEF Change

LEMMA HandleStepsInv ==
  ASSUME Inv, Beside, NEW h \in Handles, HandleStep(h)
  PROVE  Inv'
  <1>1. CASE \E client \in Clients : OpenMapping(h, client)
    BY <1>1, OpenMappingInv
  <1>2. CASE OpenMetadata(h)
    BY <1>2, OpenMetadataInv
  <1>3. CASE OpenWrite(h, FALSE)
    BY <1>3, OpenWriteInv
  <1>4. CASE StageSlice(h)
    BY <1>4, StageSliceInv
  <1>5. CASE FinishWrite(h)
    BY <1>5, FinishWriteInv
  <1>6. CASE FinishShrink(h)
    BY <1>6, FinishShrinkInv
  <1>7. CASE \E r \in Reads : Pread(h, r[1], r[2])
    <2>1. PICK r \in Reads : Pread(h, r[1], r[2])
      BY <1>7
    <2>2. r[1] \in Nat /\ r[2] \in Nat
      BY SharedAssumption
    <2> QED
      BY <2>1, <2>2, PreadInv
  <1>8. CASE FetchRun(h)
    BY <1>8, FetchRunInv
  <1>9. CASE PreadReturns(h)
    BY <1>9, PreadReturnsInv
  <1>10. CASE \E destroy \in BOOLEAN : StartSync(h, destroy)
    BY <1>10, StartSyncInv
  <1>11. CASE SyncWrite(h)
    BY <1>11, SyncWriteInv
  <1>12. CASE SyncFlush(h)
    BY <1>12, SyncFlushInv
  <1>13. CASE SyncFails(h)
    BY <1>13, SyncFailsInv
  <1>14. CASE Close(h)
    BY <1>14, CloseInv
  <1> QED
    BY <1>1, <1>2, <1>3, <1>4, <1>5, <1>6, <1>7, <1>8, <1>9, <1>10, <1>11, <1>12,
       <1>13, <1>14 DEF HandleStep

LEMMA NextInv == Inv /\ [Next]_vars => Inv'
  <1> SUFFICES ASSUME Inv, [Next]_vars PROVE Inv'
    OBVIOUS
  <1>0. changes \in 0 .. MaxChanges /\ MaxChanges \in Nat
    BY SharedAssumption DEF Inv, Types
  <1>1. CASE Next /\ changes < MaxChanges /\ (\E h \in Handles : Change(h))
             /\ changes' = changes + 1
    <2>1. Beside
      BY <1>0, <1>1 DEF Beside, Next
    <2> QED
      BY <1>1, <2>1, ChangeInv
  <1>2. CASE Next /\ ((\E h \in Handles : HandleStep(h)) \/ RemoveFile \/ Poll)
             /\ UNCHANGED changes
    <2>1. Beside
      BY <1>0, <1>2 DEF Beside, Next
    <2> QED
      BY <1>2, <2>1, HandleStepsInv, RemoveFileInv, PollInv
  <1>3. CASE UNCHANGED vars
    BY <1>3 DEF vars, Inv, Types, Doing, IsOpen, Writers, OneWriterHidesNothing, StoredBytes
  <1> QED
    BY <1>1, <1>2, <1>3 DEF Next, Step

----------------------------------------------------------------------------
(* The strengthened invariant holds of any number of handles on one file:  *)
(* every operation in progress is within its bounds; what a pread has      *)
(* collected was shown and what it has not is in a run still to be         *)
(* fetched; and a writer that is alone differs from the database only      *)
(* where it has written or cut off, through every interleaving of opens,   *)
(* writes, truncations, syncs, failed syncs, removal and polls.            *)
THEOREM SharedFileInvariant == Spec => []Inv
  BY InitInv, NextInv, PTL DEF Spec

(* No size, staged chunk or stored chunk of any handle leaves its type, no *)
(* write ends past u64, and a file with a name has its metadata.           *)
THEOREM SharedFileTypeOK == Spec => []TypeOK
  <1>1. ASSUME Inv PROVE TypeOK
    <2>1. Types
      BY <1>1 DEF Inv
    <2>2. ASSUME NEW h \in Handles, IsOpen(h)
          PROVE  /\ handles[h].size \in Offsets
                 /\ handles[h].pending \in [ChunkIdxs -> Chunk \cup {None, Deleted}]
                 /\ handles[h].io.op = "write" =>
                      handles[h].io.offset + H(h)!PayloadLen(handles[h].io.data) <= MaxU64
      <3>1. HandleOK(handles[h])
        BY <2>1, <2>2, OpenFacts
      <3>2. H(h)!PayloadLen(handles[h].io.data) = DataLen(handles[h].io.data)
        BY HandleLayout
      <3>3. handles[h].io.op = "write" =>
              handles[h].io.offset + DataLen(handles[h].io.data) <= MaxU64
        BY <3>1 DEF HandleOK
      <3> QED
        BY <3>1, <3>2, <3>3, FieldFacts DEF Entries
    <2> QED
      BY <2>1, <2>2 DEF Types, TypeOK
  <1>2. Inv => TypeOK
    BY <1>1
  <1> QED
    BY <1>2, SharedFileInvariant, PTL

(* While the handles that write a file never overlap, nothing is stored at *)
(* or past its size, in the database and in what a DbReader shows: sync    *)
(* puts the handle's own size over chunks it has merged, and that size is  *)
(* never too small for them.                                               *)
THEOREM SharedFileOneWriterHidesNothing == Spec => []OneWriterHidesNothing
  <1>1. Inv => OneWriterHidesNothing
    BY DEF Inv, OneWriterHidesNothing
  <1> QED
    BY <1>1, SharedFileInvariant, PTL

(* Every byte pread returns was the file's byte at that place at some      *)
(* moment of the call, whatever other handles sync, truncate or remove     *)
(* between its scans: coalesce_chunk_indices leaves no chunk out, and a    *)
(* chunk without a key reads as zeroes.                                    *)
THEOREM SharedFileBytesWereCommitted == Spec => []BytesWereCommitted
  <1>1. ASSUME Inv PROVE BytesWereCommitted
    <2> SUFFICES ASSUME NEW h \in Handles, ReadDone(h),
                        NEW i \in 0 .. (handles[h].io.len - 1)
                 PROVE  Result(h)[i] \in shown[h][handles[h].io.offset + i]
      BY DEF BytesWereCommitted
    <2> DEFINE r == handles[h]
               p == r.io.offset + i
               k == ChunkIdxOf(p)
               o == ChunkOffsetOf(p)
               source == IF r.pending[k] # None THEN Contents(r.pending[k], Chunks(h)[k])
                         ELSE StoredChunk(r.io.fetched[k])
    <2>1. IsOpen(h) /\ r.io.op = "pread" /\ r.io.runs = {} /\ ReadOK(r, shown[h])
      BY <1>1 DEF ReadDone, Doing, Inv
    <2>2. HandleOK(r)
      BY <1>1, <2>1, OpenFacts DEF Inv
    <2>3. r.io.offset \in Nat /\ r.io.len \in Nat
      BY <2>1, <2>2, FieldFacts, OpFacts, LayoutAssumption DEF ReadOps, Offsets
    <2>4. p \in r.io.offset .. (r.io.offset + r.io.len - 1)
      BY <2>3
    <2>5. Result(h)[i] = ByteOf(source, o)
      <3>1. H(h)!ChunkContents(k) = Contents(r.pending[k], Chunks(h)[k])
        BY HandleContents
      <3>2. H(h)!ReadChunkFromStore(r.io.fetched, k) = StoredChunk(r.io.fetched[k])
        BY DEF H!ReadChunkFromStore, H!EmptyChunk, StoredChunk, EmptyChunk
      <3> QED
        BY <3>1, <3>2, HandleLayout DEF Result
    <2>6. /\ r.pending[k] # None => ByteOf(Contents(r.pending[k], None), o) \in shown[h][p]
          /\ r.pending[k] = None => ByteOf(StoredChunk(r.io.fetched[k]), o) \in shown[h][p]
      BY <2>1, <2>4 DEF ReadOK
    <2>7. r.pending[k] # None => Contents(r.pending[k], None) = source
      BY DEF Contents
    <2> HIDE DEF k, o, p
    <2> QED
      BY <2>5, <2>6, <2>7 DEF p
  <1>2. Inv => BytesWereCommitted
    BY <1>1
  <1> QED
    BY <1>2, SharedFileInvariant, PTL

(* While the handles that write a file never overlap, the write batch of a *)
(* sync changes no byte but those its handle wrote or cut off since its    *)
(* last sync, although it stores whole chunks.                             *)
THEOREM SharedFileSyncChangesOnlyItsWrites == Spec => SyncChangesOnlyItsWrites
  <1>1. ASSUME Inv, NEW h \in Handles, SyncWrite(h), ~overlapped, db.linked,
               NEW p \in Positions \ handles[h].touched
        PROVE  StoredBytes(db')[p] = StoredBytes(db)[p]
    <2> DEFINE r == handles[h]
    <2>1. IsOpen(h) /\ r.io.op = "sync" /\ db' = Written(h)
      BY <1>1 DEF SyncWrite, Doing
    <2>2. HandleOK(r)
      BY <1>1, <2>1, OpenFacts DEF Inv
    <2>3. r.flags.write
      BY <2>1, <2>2, SyncerWrites
    <2>4. WriterOK(r, db)
      BY <1>1, <2>1, <2>3, WriterFacts
    <2>5. StoredBytes(db')[p] = Bytes(r.pending, db.chunks)[p]
      BY <1>1, <2>1, <2>3, WrittenFacts
    <2>6. ~InSlice(r, p)
      BY <2>1 DEF InSlice
    <2>7. Bytes(r.pending, db.chunks)[p] = StoredBytes(db)[p]
      BY <1>1, <2>4, <2>6 DEF WriterOK, MergesOnly
    <2> QED
      BY <2>5, <2>7
  <1>2. Inv /\ [Next]_vars =>
          [\A h \in Handles : SyncWrite(h) /\ ~overlapped /\ db.linked =>
             \A p \in Positions \ handles[h].touched :
               StoredBytes(db')[p] = StoredBytes(db)[p]]_vars
    BY <1>1
  <1> QED
    BY <1>2, SharedFileInvariant, PTL DEF Spec, SyncChangesOnlyItsWrites
=============================================================================
