----------------------- MODULE ObjectFileSystemProofs -----------------------
(***************************************************************************)
(* Proofs about ObjectFileSystem: slatedb_path is injective and its        *)
(* locations never nest; GetLogicalPath and database_group read names as   *)
(* DuckDB means them; with that, the file system implements VirtualFiles.  *)
(***************************************************************************)
EXTENDS ObjectFileSystem, SequenceTheorems, NaturalsInduction, WellFoundedInduction,
        TLAPS

----------------------------------------------------------------------------
(* Loops.  A set of numbers stands for the predicate of an induction.      *)
LEMMA SmallestNumber ==
  ASSUME NEW T, T \subseteq Nat, T # {}
  PROVE  \E x \in T : \A y \in T : x <= y
  <1>1. \E x \in T : \A y \in T : <<y, x>> \notin OpToRel(<, Nat)
    BY NatLessThanWellFounded, WFMin, Zenon
  <1>2. PICK x \in T : \A y \in T : <<y, x>> \notin OpToRel(<, Nat)
    BY <1>1
  <1>3. \A y \in T : ~ (y < x)
    BY <1>2 DEF OpToRel
  <1>4. ASSUME NEW y \in T PROVE x <= y
    <2>1. x \in Nat /\ y \in Nat /\ ~ (y < x)
      BY <1>2, <1>3
    <2> QED
      BY <2>1
  <1> QED
    BY <1>2, <1>4

LEMMA CountUp ==
  ASSUME NEW N \in Nat, NEW P, 0 \in P,
         \A n \in 0 .. (N - 1) : n \in P => n + 1 \in P
  PROVE  \A n \in 0 .. N : n \in P
  <1> SUFFICES ASSUME NEW m \in 0 .. N, m \notin P PROVE FALSE
    OBVIOUS
  <1> DEFINE T == {n \in 0 .. N : n \notin P}
  <1>1. PICK x \in T : \A y \in T : x <= y
    <2>1. T \subseteq Nat /\ T # {}
      OBVIOUS
    <2> HIDE DEF T
    <2> QED
      BY <2>1, SmallestNumber
  <1>2. x # 0 /\ x - 1 \in 0 .. (N - 1)
    BY <1>1
  <1>3. x - 1 \in P
    <2>1. x - 1 \in 0 .. N /\ ~ (x <= x - 1)
      BY <1>2
    <2> QED
      BY <1>1, <2>1
  <1>4. (x - 1) + 1 = x
    BY <1>1
  <1> QED
    BY <1>1, <1>2, <1>3, <1>4

(* A loop over 1 .. N whose state is in V has a run.                       *)
LoopSteps(N, V) == [(1 .. N) \X V -> V]

LoopRun(f, N, v0, step) ==
  f[0] = v0 /\ \A n \in 1 .. N : f[n] = step[<<n, f[n - 1]>>]

LEMMA LoopExists ==
  ASSUME NEW N \in Nat, NEW V, NEW v0 \in V, NEW step \in LoopSteps(N, V)
  PROVE  \E f \in [0 .. N -> V] : LoopRun(f, N, v0, step)
  <1>0. step \in [(1 .. N) \X V -> V]
    BY DEF LoopSteps
  <1> DEFINE Run(f, m) == f[0] = v0 /\ \A n \in 1 .. m : f[n] = step[<<n, f[n - 1]>>]
             P == {m \in 0 .. N : \E f \in [0 .. m -> V] : Run(f, m)}
  <1>1. 0 \in P
    <2> DEFINE f == [i \in 0 .. 0 |-> v0]
    <2>1. f \in [0 .. 0 -> V] /\ Run(f, 0)
      OBVIOUS
    <2>2. 0 \in 0 .. N
      OBVIOUS
    <2> HIDE DEF Run, f
    <2> QED
      BY <2>1, <2>2
  <1>2. ASSUME NEW m \in 0 .. (N - 1), m \in P PROVE m + 1 \in P
    <2>1. PICK f \in [0 .. m -> V] : Run(f, m)
      BY <1>2
    <2> DEFINE v == step[<<m + 1, f[m]>>]
               g == [i \in 0 .. (m + 1) |-> IF i = m + 1 THEN v ELSE f[i]]
    <2>2. v \in V
      BY <1>0
    <2>3. g \in [0 .. (m + 1) -> V]
      BY <2>2
    <2>4. g[0] = v0
      BY <2>1
    <2>5. ASSUME NEW n \in 1 .. (m + 1) PROVE g[n] = step[<<n, g[n - 1]>>]
      <3>1. CASE n = m + 1
        <4>1. g[n] = v /\ n - 1 = m /\ m \in 0 .. (m + 1) /\ m # m + 1
          BY <3>1
        <4>2. g[n - 1] = f[m]
          BY <4>1
        <4> HIDE DEF g
        <4> QED
          BY <3>1, <4>1, <4>2
      <3>2. CASE n # m + 1
        <4>1. n \in 1 .. m /\ n - 1 \in 0 .. m /\ n - 1 # m + 1
          BY <3>2
        <4> QED
          BY <2>1, <3>2, <4>1
      <3> QED
        BY <3>1, <3>2
    <2>6. Run(g, m + 1)
      BY <2>4, <2>5
    <2>7. m + 1 \in 0 .. N
      OBVIOUS
    <2> HIDE DEF Run, g
    <2> QED
      BY <2>3, <2>6, <2>7
  <1>3. N \in P
    <2> HIDE DEF P
    <2>1. \A n \in 0 .. N : n \in P
      BY <1>1, <1>2, CountUp
    <2> QED
      BY <2>1
  <1> QED
    BY <1>3 DEF LoopRun

(* Induction over sequences: a set of sequences stands for the predicate.  *)
LEMMA AppendInduction ==
  ASSUME NEW S, NEW P, <<>> \in P,
         \A s \in Seq(S), e \in S : s \in P => Append(s, e) \in P
  PROVE  \A s \in Seq(S) : s \in P
  <1> SUFFICES ASSUME NEW s \in Seq(S) PROVE s \in P
    OBVIOUS
  <1> DEFINE N == Len(s)
             Q == {n \in 0 .. N : SubSeq(s, 1, n) \in P}
  <1>0. N \in Nat
    BY LenProperties
  <1>1. 0 \in Q
    <2>1. SubSeq(s, 1, 0) = <<>>
      BY SubSeqEmpty
    <2>2. 0 \in 0 .. N
      BY <1>0
    <2> QED
      BY <2>1, <2>2, Zenon
  <1>2. ASSUME NEW n \in 0 .. (N - 1), n \in Q PROVE n + 1 \in Q
    <2>1. n + 1 \in 1 .. Len(s) /\ 1 \in 1 .. Len(s) /\ (n + 1) - 1 = n
      BY <1>0
    <2>2. SubSeq(s, 1, n + 1) = SubSeq(s, 1, n) \o <<s[n + 1]>>
      BY <2>1, SubSeqRecursiveSecond
    <2>3. SubSeq(s, 1, n) \in Seq(S) /\ s[n + 1] \in S
      <3>1. \A i \in 1 .. n : s[i] \in S
        BY <1>0, <2>1, ElementOfSeq
      <3> QED
        BY <2>1, <3>1, SubSeqProperties, ElementOfSeq
    <2>4. SubSeq(s, 1, n + 1) = Append(SubSeq(s, 1, n), s[n + 1])
      BY <2>2, <2>3, AppendIsConcat
    <2>5. SubSeq(s, 1, n) \in P /\ n + 1 \in 0 .. N
      BY <1>0, <1>2
    <2> QED
      BY <2>3, <2>4, <2>5
  <1>3. N \in Q
    <2> HIDE DEF Q
    <2>1. \A n \in 0 .. N : n \in Q
      <3> HIDE DEF N
      <3> QED
        BY <1>0, <1>1, <1>2, CountUp
    <2> QED
      BY <1>0, <2>1
  <1> QED
    BY <1>3, SubSeqFull

(* FlattenSeq concatenates from left to right.                             *)
Flattens(f, s) == f[0] = <<>> /\ \A i \in 1 .. Len(s) : f[i] = f[i - 1] \o s[i]

LEMMA FlattenFacts ==
  ASSUME NEW S, NEW s \in Seq(Seq(S))
  PROVE  \E f \in [0 .. Len(s) -> Seq(S)] : Flattens(f, s) /\ FlattenSeq(s) = f[Len(s)]
  <1> DEFINE N == Len(s)
             V == Seq(S)
             v0 == <<>>
             step == [x \in (1 .. N) \X V |-> x[2] \o s[x[1]]]
             Body(g) == [i \in 1 .. N |-> IF i = 1 THEN s[i] ELSE g[i - 1] \o s[i]]
             flatten == CHOOSE g : g = Body(g)
  <1>0. N \in Nat /\ v0 \in V /\ \A i \in 1 .. N : s[i] \in V
    BY LenProperties, EmptySeq, ElementOfSeq
  <1>1. step \in LoopSteps(N, V)
    <2>1. ASSUME NEW x \in (1 .. N) \X V PROVE x[2] \o s[x[1]] \in V
      BY <1>0, ConcatProperties
    <2> HIDE DEF N, V
    <2> QED
      BY <2>1 DEF LoopSteps
  <1>2. PICK f \in [0 .. N -> V] : LoopRun(f, N, v0, step)
    <2> HIDE DEF N, V, v0, step
    <2> QED
      BY <1>0, <1>1, LoopExists
  <1>3. f[0] = <<>> /\ \A i \in 1 .. N : i - 1 \in 0 .. N /\ f[i - 1] \in V /\ f[i] = f[i - 1] \o s[i]
    <2>1. \A i \in 1 .. N : i - 1 \in 0 .. N /\ f[i - 1] \in V
      <3> HIDE DEF N, V, step
      <3> QED
        BY <1>0, <1>2
    <2>2. \A i \in 1 .. N, v \in V : step[<<i, v>>] = v \o s[i]
      <3> HIDE DEF V, N
      <3> QED
        OBVIOUS
    <2> HIDE DEF step, V
    <2> QED
      BY <1>2, <2>1, <2>2 DEF LoopRun
  <1>4. Flattens(f, s)
    BY <1>3 DEF Flattens
  <1> DEFINE g == [i \in 1 .. N |-> f[i]]
  <1>5. g = Body(g)
    <2>1. ASSUME NEW i \in 1 .. N PROVE f[i] = IF i = 1 THEN s[i] ELSE g[i - 1] \o s[i]
      <3>1. CASE i = 1
        <4>1. f[1] = <<>> \o s[1]
          <5>1. f[1] = f[1 - 1] \o s[1]
            BY <1>3, <3>1
          <5>2. 1 - 1 = 0
            OBVIOUS
          <5> QED
            BY <1>3, <5>1, <5>2
        <4> QED
          BY <1>0, <3>1, <4>1, ConcatEmptySeq
      <3>2. CASE i # 1
        <4>1. i - 1 \in 1 .. N
          BY <1>0, <3>2
        <4>2. g[i - 1] = f[i - 1]
          BY <4>1
        <4> HIDE DEF g
        <4> QED
          BY <1>3, <3>2, <4>2
      <3> QED
        BY <3>1, <3>2
    <2> QED
      BY <2>1
  <1>6. flatten = Body(flatten)
    <2> HIDE DEF Body, g
    <2> QED
      BY <1>5
  <1> HIDE DEF flatten, g, V, step
  <1>7. \A i \in 1 .. N : flatten[i] = IF i = 1 THEN s[i] ELSE flatten[i - 1] \o s[i]
    BY <1>6
  <1> DEFINE P == {i \in 0 .. N : i = 0 \/ flatten[i] = f[i]}
  <1>8. \A i \in 0 .. N : i \in P
    <2>1. 0 \in P
      BY <1>0
    <2>2. ASSUME NEW n \in 0 .. (N - 1), n \in P PROVE n + 1 \in P
      <3>1. n + 1 \in 1 .. N /\ (n + 1) - 1 = n
        BY <1>0
      <3>2. f[n + 1] = f[n] \o s[n + 1]
        BY <1>3, <3>1
      <3>3. CASE n = 0
        <4>1. f[1] = <<>> \o s[1] /\ s[1] \in V
          <5>1. f[0 + 1] = f[0] \o s[0 + 1] /\ 0 + 1 \in 1 .. N
            BY <3>1, <3>2, <3>3
          <5>2. 0 + 1 = 1
            OBVIOUS
          <5> QED
            BY <1>0, <1>3, <5>1, <5>2
        <4>2. flatten[1] = s[1]
          BY <1>7, <3>1, <3>3
        <4> QED
          BY <3>1, <3>3, <4>1, <4>2, ConcatEmptySeq DEF V
      <3>4. CASE n # 0
        <4>1. flatten[n] = f[n]
          BY <2>2, <3>4
        <4>2. flatten[n + 1] = flatten[n] \o s[n + 1]
          <5>1. n + 1 # 1
            BY <3>4
          <5> QED
            BY <1>7, <3>1, <5>1
        <4>3. flatten[n + 1] = f[n + 1] /\ n + 1 \in 0 .. N
          BY <3>1, <3>2, <4>1, <4>2
        <4> QED
          BY <4>3
      <3> QED
        BY <3>3, <3>4
    <2> HIDE DEF P, N
    <2> QED
      BY <1>0, <2>1, <2>2, CountUp
  <1>9. FlattenSeq(s) = f[N]
    <2>1. CASE N = 0
      <3>1. s = <<>>
        BY <2>1, EmptySeq
      <3> QED
        BY <1>3, <2>1, <3>1 DEF FlattenSeq
    <2>2. CASE N # 0
      <3>1. FlattenSeq(s) = flatten[N]
        BY <2>2 DEF FlattenSeq, flatten
      <3>2. N \in P
        BY <1>0, <1>8
      <3> QED
        BY <2>2, <3>1, <3>2
    <2> QED
      BY <2>1, <2>2
  <1> QED
    BY <1>4, <1>9 DEF V

LEMMA FlattenEmpty == FlattenSeq(<<>>) = <<>>
  BY DEF FlattenSeq

LEMMA FlattenAppend ==
  ASSUME NEW S, NEW s \in Seq(Seq(S)), NEW x \in Seq(S)
  PROVE  /\ FlattenSeq(s) \in Seq(S)
         /\ FlattenSeq(Append(s, x)) = FlattenSeq(s) \o x
  <1> DEFINE t == Append(s, x)
             N == Len(s)
  <1>1. /\ t \in Seq(Seq(S)) /\ Len(t) = N + 1 /\ N \in Nat /\ t[N + 1] = x
        /\ \A i \in 1 .. N : t[i] = s[i]
    BY AppendProperties, LenProperties
  <1> HIDE DEF t, N
  <1>2. PICK f \in [0 .. N -> Seq(S)] : Flattens(f, s) /\ FlattenSeq(s) = f[N]
    BY FlattenFacts DEF N
  <1>3. PICK g \in [0 .. (N + 1) -> Seq(S)] : Flattens(g, t) /\ FlattenSeq(t) = g[N + 1]
    BY <1>1, FlattenFacts
  <1> DEFINE P == {n \in 0 .. N : f[n] = g[n]}
  <1>4. 0 \in P
    BY <1>1, <1>2, <1>3 DEF Flattens
  <1>5. ASSUME NEW n \in 0 .. (N - 1), n \in P PROVE n + 1 \in P
    <2>1. n + 1 \in 1 .. N /\ n + 1 \in 1 .. Len(t) /\ (n + 1) - 1 = n
      <3>1. N \in Nat /\ Len(t) = N + 1
        BY <1>1
      <3> HIDE DEF P
      <3> QED
        BY <3>1
    <2>2. f[n + 1] = f[n] \o s[n + 1]
      BY <1>2, <2>1 DEF Flattens, N
    <2>3. g[n + 1] = g[n] \o t[n + 1]
      BY <1>3, <2>1 DEF Flattens
    <2>4. f[n] = g[n] /\ t[n + 1] = s[n + 1] /\ n + 1 \in 0 .. N
      BY <1>1, <1>5, <2>1
    <2>5. f[n + 1] = g[n + 1]
      BY <2>2, <2>3, <2>4
    <2> QED
      BY <2>4, <2>5
  <1>6. N \in P
    <2> HIDE DEF P
    <2>1. \A n \in 0 .. N : n \in P
      BY <1>1, <1>4, <1>5, CountUp
    <2> QED
      BY <1>1, <2>1
  <1>7. g[N + 1] = g[N] \o x
    <2>1. N + 1 \in 1 .. Len(t) /\ (N + 1) - 1 = N
      BY <1>1
    <2> QED
      BY <1>1, <1>3, <2>1 DEF Flattens
  <1> QED
    BY <1>1, <1>2, <1>3, <1>6, <1>7 DEF t

(* What Replace makes of one token.                                        *)
Code(x, old, new) == IF x = old THEN new ELSE <<x>>

LEMMA ReplaceAppend ==
  ASSUME NEW t \in Seq(Tokens), NEW x \in Tokens, NEW old \in Tokens, NEW new \in Seq(Tokens)
  PROVE  /\ Replace(<<>>, old, new) = <<>>
         /\ Replace(t, old, new) \in Seq(Tokens)
         /\ Replace(Append(t, x), old, new) = Replace(t, old, new) \o Code(x, old, new)
  <1> DEFINE u == Append(t, x)
             N == Len(t)
             s == [i \in 1 .. N |-> Code(t[i], old, new)]
             v == [i \in 1 .. (N + 1) |-> Code(u[i], old, new)]
             c == Code(x, old, new)
  <1>1. /\ u \in Seq(Tokens) /\ Len(u) = N + 1 /\ N \in Nat /\ u[N + 1] = x
        /\ \A i \in 1 .. N : u[i] = t[i] /\ t[i] \in Tokens
    BY AppendProperties, LenProperties, ElementOfSeq
  <1>2. \A y \in Tokens : Code(y, old, new) \in Seq(Tokens)
    BY DEF Code
  <1>3. Replace(t, old, new) = FlattenSeq(s)
    BY DEF Replace, Code
  <1>4. Replace(u, old, new) = FlattenSeq(v)
    <2> HIDE DEF u
    <2> QED
      BY <1>1 DEF Replace, Code
  <1> HIDE DEF u, N
  <1>5. s \in Seq(Seq(Tokens)) /\ Len(s) = N /\ c \in Seq(Tokens)
    <2>1. \A i \in 1 .. N : Code(t[i], old, new) \in Seq(Tokens)
      BY <1>1, <1>2
    <2> QED
      BY <1>1, <1>2, <2>1
  <1>6. v = Append(s, c)
    <2>1. v \in Seq(Seq(Tokens)) /\ Len(v) = N + 1
      <3>1. \A i \in 1 .. (N + 1) : u[i] \in Tokens
        BY <1>1, ElementOfSeq
      <3>2. \A i \in 1 .. (N + 1) : Code(u[i], old, new) \in Seq(Tokens)
        BY <1>2, <3>1
      <3> QED
        BY <1>1, <3>2
    <2>2. \A i \in 1 .. N : v[i] = s[i]
      BY <1>1
    <2>3. v[N + 1] = c
      BY <1>1
    <2> HIDE DEF v, s, c
    <2>4. /\ Append(s, c) \in Seq(Seq(Tokens)) /\ Len(Append(s, c)) = N + 1
          /\ \A i \in 1 .. N : Append(s, c)[i] = s[i]
          /\ Append(s, c)[N + 1] = c
      BY <1>5, AppendProperties
    <2>5. ASSUME NEW i \in 1 .. Len(v) PROVE v[i] = Append(s, c)[i]
      BY <1>1, <2>1, <2>2, <2>3, <2>4
    <2> QED
      BY <2>1, <2>4, <2>5, SeqEqual
  <1>7. Replace(<<>>, old, new) = <<>>
    <2>1. [i \in 1 .. 0 |-> Code(<<>>[i], old, new)] = <<>>
      OBVIOUS
    <2> QED
      BY <2>1, FlattenEmpty DEF Replace, Code
  <1> HIDE DEF s, v, c
  <1>8. FlattenSeq(s) \in Seq(Tokens) /\ FlattenSeq(Append(s, c)) = FlattenSeq(s) \o c
    BY <1>5, FlattenAppend
  <1> QED
    BY <1>3, <1>4, <1>6, <1>7, <1>8 DEF u, c

LEMMA ReplaceStep ==
  \A t \in Seq(Tokens), x \in Tokens, old \in Tokens, new \in Seq(Tokens) :
    Replace(Append(t, x), old, new) = Replace(t, old, new) \o Code(x, old, new)
  BY ReplaceAppend

(* How slatedb_path writes a group, and one token of it.                   *)
Escape(group) == Replace(Replace(group, "%", <<"%", "25">>), "/", <<"%", "2F">>)

EscapeCode(x) ==
  IF x = "%" THEN <<"%", "25">> ELSE IF x = "/" THEN <<"%", "2F">> ELSE <<x>>

LEMMA EscapeAppend ==
  ASSUME NEW g \in Seq(Tokens), NEW x \in Tokens
  PROVE  /\ Escape(<<>>) = <<>>
         /\ Escape(g) \in Seq(Tokens)
         /\ Escape(Append(g, x)) = Escape(g) \o EscapeCode(x)
  <1> DEFINE pc == <<"%", "25">>
             sl == <<"%", "2F">>
             r == Replace(g, "%", pc)
  <1>0. /\ pc \in Seq(Tokens) /\ sl \in Seq(Tokens)
        /\ "%" \in Tokens /\ "/" \in Tokens /\ "25" \in Tokens
    BY NamesAssumption
  <1> HIDE DEF pc, sl
  <1>1. /\ Replace(<<>>, "%", pc) = <<>> /\ Replace(<<>>, "/", sl) = <<>>
        /\ r \in Seq(Tokens) /\ Replace(r, "/", sl) \in Seq(Tokens)
        /\ Replace(Append(g, x), "%", pc) = r \o Code(x, "%", pc)
    BY <1>0, ReplaceAppend
  <1> HIDE DEF r
  <1>2. ASSUME NEW y \in Tokens
        PROVE  Replace(Append(r, y), "/", sl) = Replace(r, "/", sl) \o Code(y, "/", sl)
    <2>1. r \in Seq(Tokens) /\ "/" \in Tokens /\ sl \in Seq(Tokens)
      BY <1>0, <1>1
    <2> QED
      BY <2>1, ReplaceStep
  <1>3. Escape(g) = Replace(r, "/", sl)
    BY DEF Escape, r, sl, pc
  <1>4. Escape(Append(g, x)) = Replace(r \o Code(x, "%", pc), "/", sl)
    BY <1>1 DEF Escape, sl, pc
  <1>5. CASE x = "%"
    <2>1. r \o pc = Append(Append(r, "%"), "25")
      BY <1>1 DEF pc
    <2>2. Replace(Append(r, "%"), "/", sl) = Escape(g) \o <<"%">>
      BY <1>0, <1>2, <1>3 DEF Code
    <2>3. Append(r, "%") \in Seq(Tokens)
      BY <1>0, <1>1
    <2>4. Replace(Append(Append(r, "%"), "25"), "/", sl)
            = (Escape(g) \o <<"%">>) \o <<"25">>
      <3> DEFINE rr == Append(r, "%")
      <3> HIDE DEF rr
      <3>1. Replace(Append(rr, "25"), "/", sl) = Replace(rr, "/", sl) \o Code("25", "/", sl)
        BY <1>0, <2>3, ReplaceAppend DEF rr
      <3>2. Code("25", "/", sl) = <<"25">>
        BY DEF Code
      <3> QED
        BY <2>2, <3>1, <3>2 DEF rr
    <2>5. Escape(g) \in Seq(Tokens)
      BY <1>1, <1>3
    <2>6. (Escape(g) \o <<"%">>) \o <<"25">> = Escape(g) \o <<"%", "25">>
      BY <2>5
    <2>7. Code(x, "%", pc) = pc /\ EscapeCode(x) = <<"%", "25">>
      BY <1>5 DEF Code, EscapeCode
    <2> QED
      BY <1>0, <1>1, <1>3, <1>4, <2>1, <2>4, <2>5, <2>6, <2>7 DEF Escape, pc, sl
  <1>6. CASE x # "%"
    <2>1. r \o Code(x, "%", pc) = Append(r, x)
      BY <1>1, <1>6 DEF Code
    <2>2. Code(x, "/", sl) = EscapeCode(x)
      BY <1>6 DEF Code, EscapeCode, sl
    <2> QED
      BY <1>1, <1>2, <1>3, <1>4, <2>1, <2>2 DEF Escape, pc, sl
  <1> QED
    BY <1>5, <1>6

(* No separator is left of a group.                                        *)
LEMMA EscapeHasNoSeparator ==
  ASSUME NEW g \in Seq(Tokens)
  PROVE  Escape(g) \in Seq(Tokens \ {"/"})
  <1> DEFINE P == {s \in Seq(Tokens) : Escape(s) \in Seq(Tokens \ {"/"})}
  <1>1. <<>> \in P
    <2>1. Escape(<<>>) = <<>> /\ <<>> \in Seq(Tokens)
      <3>1. "%" \in Tokens
        BY NamesAssumption
      <3> QED
        BY <3>1, EmptySeq, EscapeAppend
    <2>2. <<>> \in Seq(Tokens \ {"/"})
      BY EmptySeq
    <2> QED
      BY <2>1, <2>2
  <1>2. ASSUME NEW s \in Seq(Tokens), NEW x \in Tokens, s \in P PROVE Append(s, x) \in P
    <2>1. Escape(Append(s, x)) = Escape(s) \o EscapeCode(x)
      BY EscapeAppend
    <2>2. EscapeCode(x) \in Seq(Tokens \ {"/"})
      <3> DEFINE T == Tokens \ {"/"}
      <3>1. "%" \in T /\ "25" \in T /\ "2F" \in T /\ (x # "/" => x \in T)
        BY NamesAssumption
      <3> HIDE DEF T
      <3>2. EscapeCode(x) \in Seq(T)
        BY <3>1 DEF EscapeCode
      <3> QED
        BY <3>2 DEF T
    <2>3. Escape(s) \in Seq(Tokens \ {"/"})
      BY <1>2
    <2>4. Escape(s) \o EscapeCode(x) \in Seq(Tokens \ {"/"})
      BY <2>2, <2>3, ConcatProperties
    <2>5. Append(s, x) \in Seq(Tokens)
      BY AppendProperties
    <2> QED
      BY <2>1, <2>4, <2>5
  <1> HIDE DEF P
  <1>3. \A s \in Seq(Tokens) : s \in P
    BY <1>1, <1>2, AppendInduction
  <1> QED
    BY <1>3 DEF P

(* Two groups never share a location: the escape of "%" or "/" ends like   *)
(* no other token does after what cannot end in "%".                       *)
LEMMA EscapeEnds ==
  ASSUME NEW g \in Seq(Tokens), NEW s \in Seq(Tokens)
  PROVE  Escape(g) # Append(s, "%")
  <1>0. /\ "%" \in Tokens /\ "/" \in Tokens /\ "25" \in Tokens /\ "2F" \in Tokens
        /\ Escape(<<>>) = <<>>
    BY NamesAssumption, EscapeAppend
  <1>1. CASE g = <<>>
    BY <1>0, <1>1, AppendProperties
  <1>2. CASE g # <<>>
    <2>1. PICK h \in Seq(Tokens), x \in Tokens : g = Append(h, x)
      BY <1>2, SequenceEmptyOrAppend
    <2>2. Escape(g) = Escape(h) \o EscapeCode(x) /\ Escape(h) \in Seq(Tokens)
      BY <2>1, EscapeAppend
    <2>3. \E t \in Seq(Tokens), y \in Tokens \ {"%"} : Escape(h) \o EscapeCode(x) = Append(t, y)
      <3> DEFINE e == Escape(h)
      <3> HIDE DEF e
      <3>0. e \in Seq(Tokens)
        BY <2>2 DEF e
      <3>1. CASE x = "%"
        <4>1. e \o <<"%", "25">> = Append(Append(e, "%"), "25")
          BY <1>0, <3>0
        <4> DEFINE t == Append(e, "%")
        <4>2. t \in Seq(Tokens)
          BY <1>0, <3>0
        <4>3. EscapeCode(x) = <<"%", "25">> /\ "25" \in Tokens \ {"%"}
          BY <1>0, <3>1 DEF EscapeCode
        <4> HIDE DEF t
        <4> QED
          BY <4>1, <4>2, <4>3 DEF e, t
      <3>2. CASE x = "/"
        <4>1. e \o <<"%", "2F">> = Append(Append(e, "%"), "2F")
          BY <1>0, <3>0
        <4> DEFINE t == Append(e, "%")
        <4>2. t \in Seq(Tokens)
          BY <1>0, <3>0
        <4>3. EscapeCode(x) = <<"%", "2F">> /\ "2F" \in Tokens \ {"%"}
          BY <1>0, <3>2 DEF EscapeCode
        <4> HIDE DEF t
        <4> QED
          BY <4>1, <4>2, <4>3 DEF e, t
      <3>3. CASE x # "%" /\ x # "/"
        <4>1. e \o <<x>> = Append(e, x)
          BY <3>0
        <4>2. EscapeCode(x) = <<x>>
          BY <3>3 DEF EscapeCode
        <4> QED
          BY <3>0, <3>3, <4>1, <4>2 DEF e
      <3> QED
        BY <3>1, <3>2, <3>3
    <2>4. PICK t \in Seq(Tokens), y \in Tokens \ {"%"} : Escape(g) = Append(t, y)
      BY <2>2, <2>3
    <2> QED
      BY <1>0, <2>4, AppendInjective
  <1> QED
    BY <1>1, <1>2

(* A step of the decoding, from the end.                                   *)
LEMMA EscapeStep ==
  ASSUME NEW g \in Seq(Tokens), NEW x \in Tokens, NEW h \in Seq(Tokens), NEW y \in Tokens,
         Escape(Append(g, x)) = Escape(Append(h, y))
  PROVE  Escape(g) = Escape(h) /\ x = y
  <1> DEFINE e == Escape(g)
             d == Escape(h)
             Ap(s, a) == Append(s, a)
             Text == Seq(Tokens)
             pc == "%"
             sl == "/"
             pcEnd == "25"
             slEnd == "2F"
  <1>0. /\ pc \in Tokens /\ sl \in Tokens /\ pcEnd \in Tokens /\ slEnd \in Tokens
        /\ e \in Text /\ d \in Text
    BY NamesAssumption, EscapeAppend
  <1>1. e \o EscapeCode(x) = d \o EscapeCode(y)
    BY EscapeAppend
  <1>2. \A s \in Text : e # Ap(s, pc) /\ d # Ap(s, pc)
    BY EscapeEnds
  <1> HIDE DEF e, d
  <1>3. \A s, t \in Text, a, b \in Tokens : Ap(s, a) = Ap(t, b) => s = t
    BY AppendInjective
  <1>3b. \A s, t \in Text, a, b \in Tokens : Ap(s, a) = Ap(t, b) => a = b
    BY AppendInjective
  <1>4. \A s \in Text, a \in Tokens : Ap(s, a) \in Text
    BY AppendProperties
  <1> DEFINE Plain(z) == z \in Tokens /\ z # pc /\ z # sl
             Ends(s, z) == s \o EscapeCode(z)
  <1>5. ASSUME NEW s \in Text
        PROVE  /\ Ends(s, pc) = Ap(Ap(s, pc), pcEnd)
               /\ Ends(s, sl) = Ap(Ap(s, pc), slEnd)
               /\ \A z \in Tokens : Plain(z) => Ends(s, z) = Ap(s, z)
    <2>1. Ends(s, pc) = Ap(Ap(s, pc), pcEnd)
      BY <1>0 DEF EscapeCode
    <2>2. Ends(s, sl) = Ap(Ap(s, pc), slEnd)
      BY <1>0 DEF EscapeCode
    <2>3. ASSUME NEW z \in Tokens, Plain(z) PROVE Ends(s, z) = Ap(s, z)
      <3>1. EscapeCode(z) = <<z>>
        BY <2>3 DEF EscapeCode
      <3> QED
        BY <3>1
    <2> QED
      BY <2>1, <2>2, <2>3
  <1>6. Ends(e, x) = Ends(d, y)
    BY <1>1
  <1> HIDE DEF Ends, Ap, Text, pc, sl, pcEnd, slEnd
  <1>7. CASE x = pc
    <2>1. Ends(e, x) = Ap(Ap(e, pc), pcEnd) /\ Ap(e, pc) \in Text
      BY <1>0, <1>4, <1>5, <1>7
    <2>2. CASE y = pc
      <3>1. Ends(d, y) = Ap(Ap(d, pc), pcEnd) /\ Ap(d, pc) \in Text
        BY <1>0, <1>4, <1>5, <2>2
      <3>2. Ap(e, pc) = Ap(d, pc)
        BY <1>0, <1>3, <1>6, <2>1, <3>1
      <3> QED
        BY <1>0, <1>3, <1>7, <2>2, <3>2 DEF e, d
    <2>3. CASE y = sl
      <3>1. Ends(d, y) = Ap(Ap(d, pc), slEnd) /\ Ap(d, pc) \in Text
        BY <1>0, <1>4, <1>5, <2>3
      <3>2. pcEnd # slEnd
        BY DEF pcEnd, slEnd
      <3> QED
        BY <1>0, <1>3b, <1>6, <2>1, <3>1, <3>2
    <2>4. CASE Plain(y)
      <3>1. Ends(d, y) = Ap(d, y)
        BY <1>0, <1>5, <2>4
      <3>2. Ap(e, pc) = d
        BY <1>0, <1>3, <1>6, <2>1, <3>1
      <3> QED
        BY <1>0, <1>2, <3>2
    <2> QED
      BY <2>2, <2>3, <2>4
  <1>8. CASE x = sl
    <2>1. Ends(e, x) = Ap(Ap(e, pc), slEnd) /\ Ap(e, pc) \in Text
      BY <1>0, <1>4, <1>5, <1>8
    <2>2. CASE y = sl
      <3>1. Ends(d, y) = Ap(Ap(d, pc), slEnd) /\ Ap(d, pc) \in Text
        BY <1>0, <1>4, <1>5, <2>2
      <3>2. Ap(e, pc) = Ap(d, pc)
        BY <1>0, <1>3, <1>6, <2>1, <3>1
      <3> QED
        BY <1>0, <1>3, <1>8, <2>2, <3>2 DEF e, d
    <2>3. CASE y = pc
      <3>1. Ends(d, y) = Ap(Ap(d, pc), pcEnd) /\ Ap(d, pc) \in Text
        BY <1>0, <1>4, <1>5, <2>3
      <3>2. pcEnd # slEnd
        BY DEF pcEnd, slEnd
      <3> QED
        BY <1>0, <1>3b, <1>6, <2>1, <3>1, <3>2
    <2>4. CASE Plain(y)
      <3>1. Ends(d, y) = Ap(d, y)
        BY <1>0, <1>5, <2>4
      <3>2. Ap(e, pc) = d
        BY <1>0, <1>3, <1>6, <2>1, <3>1
      <3> QED
        BY <1>0, <1>2, <3>2
    <2> QED
      BY <2>2, <2>3, <2>4
  <1>9. CASE Plain(x)
    <2>1. Ends(e, x) = Ap(e, x)
      BY <1>0, <1>5, <1>9
    <2>2. CASE Plain(y)
      <3>1. Ends(d, y) = Ap(d, y)
        BY <1>0, <1>5, <2>2
      <3> QED
        <4>1. Ap(e, x) = Ap(d, y)
          BY <1>6, <2>1, <3>1
        <4>2. e = d
          BY <1>0, <1>3, <4>1
        <4>3. x = y
          BY <1>0, <1>3b, <4>1
        <4> QED
          BY <4>2, <4>3 DEF e, d
    <2>3. CASE y = pc
      <3>1. Ends(d, y) = Ap(Ap(d, pc), pcEnd) /\ Ap(d, pc) \in Text
        BY <1>0, <1>4, <1>5, <2>3
      <3>2. Ap(d, pc) = e
        BY <1>0, <1>3, <1>6, <2>1, <3>1
      <3> QED
        BY <1>0, <1>2, <3>2
    <2>4. CASE y = sl
      <3>1. Ends(d, y) = Ap(Ap(d, pc), slEnd) /\ Ap(d, pc) \in Text
        BY <1>0, <1>4, <1>5, <2>4
      <3>2. Ap(d, pc) = e
        BY <1>0, <1>3, <1>6, <2>1, <3>1
      <3> QED
        BY <1>0, <1>2, <3>2
    <2> QED
      BY <2>2, <2>3, <2>4
  <1> QED
    BY <1>7, <1>8, <1>9

LEMMA EscapeInjective ==
  ASSUME NEW g \in Seq(Tokens), NEW h \in Seq(Tokens), Escape(g) = Escape(h)
  PROVE  g = h
  <1> DEFINE P == {s \in Seq(Tokens) : \A t \in Seq(Tokens) : Escape(s) = Escape(t) => s = t}
  <1>0. "%" \in Tokens /\ Escape(<<>>) = <<>> /\ <<>> \in Seq(Tokens)
    BY NamesAssumption, EscapeAppend, EmptySeq
  <1>1. ASSUME NEW s \in Seq(Tokens), NEW x \in Tokens PROVE Escape(Append(s, x)) # <<>>
    <2>1. Escape(Append(s, x)) = Escape(s) \o EscapeCode(x) /\ Escape(s) \in Seq(Tokens)
      BY EscapeAppend
    <2>2. EscapeCode(x) \in Seq(Tokens)
      BY NamesAssumption DEF EscapeCode
    <2>3. EscapeCode(x) # <<>>
      BY DEF EscapeCode
    <2> QED
      BY <2>1, <2>2, <2>3, ConcatEqualIffEmpty
  <1>2. <<>> \in P
    <2>1. ASSUME NEW t \in Seq(Tokens), Escape(<<>>) = Escape(t) PROVE <<>> = t
      <3>1. ASSUME NEW r \in Seq(Tokens), NEW y \in Tokens, t = Append(r, y) PROVE FALSE
        BY <1>0, <1>1, <2>1, <3>1
      <3> QED
        BY <3>1, SequenceEmptyOrAppend
    <2> QED
      BY <1>0, <2>1
  <1>3. ASSUME NEW s \in Seq(Tokens), NEW x \in Tokens, s \in P PROVE Append(s, x) \in P
    <2>1. ASSUME NEW t \in Seq(Tokens), Escape(Append(s, x)) = Escape(t)
          PROVE  Append(s, x) = t
      <3>1. t # <<>>
        BY <1>0, <1>1, <2>1
      <3>2. PICK r \in Seq(Tokens), y \in Tokens : t = Append(r, y)
        BY <3>1, SequenceEmptyOrAppend
      <3>3. Escape(s) = Escape(r) /\ x = y
        BY <2>1, <3>2, EscapeStep
      <3>4. s = r
        BY <1>3, <3>3
      <3> QED
        BY <3>2, <3>3, <3>4
    <2>2. Append(s, x) \in Seq(Tokens)
      BY AppendProperties
    <2> QED
      BY <2>1, <2>2
  <1> HIDE DEF P
  <1>4. \A s \in Seq(Tokens) : s \in P
    BY <1>2, <1>3, AppendInduction
  <1> QED
    BY <1>4 DEF P

----------------------------------------------------------------------------
(* Locations                                                               *)
LEMMA LocationFacts ==
  ASSUME NEW g \in Seq(Tokens)
  PROVE  /\ Escape(g) \in Seq(Tokens \ {"/"}) /\ Len(Escape(g)) \in Nat
         /\ Len(SlatedbPath(g)) = Len(Escape(g)) + 2
         /\ \A i \in 1 .. Len(Escape(g)) : SlatedbPath(g)[i + 2] = Escape(g)[i]
  <1> DEFINE T == Tokens \cup {"/", "duckdb-object-storage"}
             root == Root \o <<"/">>
             e == Escape(g)
  <1>1. e \in Seq(Tokens \ {"/"}) /\ Len(e) \in Nat
    BY EscapeHasNoSeparator, LenProperties
  <1>2. e \in Seq(T)
    BY <1>1, SeqMonotonic
  <1>3. root \in Seq(T) /\ Len(root) = 2
    <2>1. Root \in Seq(T) /\ Len(Root) = 1 /\ <<"/">> \in Seq(T) /\ Len(<<"/">>) = 1
      BY DEF Root
    <2> HIDE DEF T
    <2> QED
      BY <2>1, ConcatProperties
  <1>4. SlatedbPath(g) = root \o e
    BY DEF SlatedbPath, Escape
  <1> HIDE DEF T, root, e
  <1>5. /\ Len(root \o e) = 2 + Len(e)
        /\ \A i \in 1 .. 2 + Len(e) : (root \o e)[i] = IF i <= 2 THEN root[i] ELSE e[i - 2]
    <2>1. /\ Len(root \o e) = Len(root) + Len(e)
          /\ \A i \in 1 .. Len(root) + Len(e) :
               (root \o e)[i] = IF i <= Len(root) THEN root[i] ELSE e[i - Len(root)]
      BY <1>2, <1>3, ConcatProperties
    <2> DEFINE path == root \o e
    <2> HIDE DEF path
    <2>2. /\ Len(path) = 2 + Len(e)
          /\ \A i \in 1 .. 2 + Len(e) : path[i] = IF i <= 2 THEN root[i] ELSE e[i - 2]
      BY <1>3, <2>1 DEF path
    <2> QED
      BY <2>2 DEF path
  <1>6. ASSUME NEW i \in 1 .. Len(e) PROVE (root \o e)[i + 2] = e[i]
    <2>1. i + 2 \in 1 .. 2 + Len(e) /\ ~ (i + 2 <= 2) /\ (i + 2) - 2 = i
      BY <1>1
    <2> QED
      BY <1>5, <2>1
  <1> QED
    BY <1>1, <1>4, <1>5, <1>6 DEF e

(* slatedb_path: "%" is escaped before "/", so that no two database groups *)
(* share a location, whatever their names contain.                         *)
THEOREM LocationsAreApart ==
  \A g, h \in Seq(Tokens) : SlatedbPath(g) = SlatedbPath(h) => g = h
  <1> SUFFICES ASSUME NEW g \in Seq(Tokens), NEW h \in Seq(Tokens),
                      SlatedbPath(g) = SlatedbPath(h)
               PROVE  Escape(g) = Escape(h)
    BY EscapeInjective
  <1>1. /\ Escape(g) \in Seq(Tokens \ {"/"}) /\ Escape(h) \in Seq(Tokens \ {"/"})
        /\ Len(Escape(g)) \in Nat /\ Len(Escape(h)) \in Nat
        /\ Len(SlatedbPath(g)) = Len(Escape(g)) + 2
        /\ Len(SlatedbPath(g)) = Len(Escape(h)) + 2
        /\ \A i \in 1 .. Len(Escape(g)) : SlatedbPath(g)[i + 2] = Escape(g)[i]
        /\ \A i \in 1 .. Len(Escape(h)) : SlatedbPath(g)[i + 2] = Escape(h)[i]
    BY LocationFacts
  <1>2. Len(Escape(g)) = Len(Escape(h))
    BY <1>1
  <1>3. \A i \in 1 .. Len(Escape(g)) : Escape(g)[i] = Escape(h)[i]
    BY <1>1, <1>2
  <1> QED
    BY <1>1, <1>2, <1>3, SeqEqual

LEMMA LocationsDoNotNest ==
  ASSUME NEW g \in Seq(Tokens), NEW h \in Seq(Tokens)
  PROVE  ~ IsStrictPrefix(SlatedbPath(g) \o <<"/">>, SlatedbPath(h))
  <1> DEFINE l == SlatedbPath(g)
             k == SlatedbPath(h)
             below == l \o <<"/">>
             n == Len(l) + 1
  <1> SUFFICES ASSUME IsPrefix(below, k) PROVE FALSE
    BY DEF IsStrictPrefix
  <1>1. /\ Len(l) \in Nat /\ Len(l) >= 2 /\ Len(below) = n /\ below[n] = "/"
    <2> DEFINE T == Tokens \cup {"/", "duckdb-object-storage"}
    <2>1. l \in Seq(T) /\ <<"/">> \in Seq(T) /\ Len(<<"/">>) = 1
      <3>1. Escape(g) \in Seq(T)
        <4>1. Tokens \ {"/"} \subseteq T
          OBVIOUS
        <4> QED
          BY <4>1, LocationFacts, SeqMonotonic
      <3>2. Root \in Seq(T) /\ <<"/">> \in Seq(T)
        BY DEF Root
      <3> HIDE DEF T
      <3>3. Root \o <<"/">> \in Seq(T)
        BY <3>2, ConcatProperties
      <3>4. (Root \o <<"/">>) \o Escape(g) \in Seq(T)
        BY <3>1, <3>3, ConcatProperties
      <3> QED
        BY <3>2, <3>4 DEF SlatedbPath, Escape
    <2>2. Len(l) \in Nat /\ Len(l) >= 2
      BY LocationFacts
    <2> HIDE DEF T, l
    <2>3. /\ Len(below) = Len(l) + 1
          /\ \A i \in 1 .. Len(l) + 1 :
               below[i] = IF i <= Len(l) THEN l[i] ELSE <<"/">>[i - Len(l)]
      BY <2>1, ConcatProperties
    <2>4. n \in 1 .. Len(l) + 1 /\ ~ (n <= Len(l)) /\ n - Len(l) = 1
      BY <2>2
    <2> HIDE DEF n, below
    <2>5. below[n] = <<"/">>[1]
      BY <2>3, <2>4
    <2> QED
      BY <2>2, <2>3, <2>5 DEF n
  <1>2. /\ Len(Escape(h)) \in Nat /\ Len(k) = Len(Escape(h)) + 2
        /\ \A i \in 1 .. Len(Escape(h)) : k[i + 2] = Escape(h)[i] /\ Escape(h)[i] # "/"
    BY LocationFacts, ElementOfSeq
  <1> HIDE DEF l, k, below
  <1>3. n \in Nat /\ n >= 3 /\ n <= Len(k)
    BY <1>1 DEF IsPrefix
  <1>4. SubSeq(below, 1, n)[n] = SubSeq(k, 1, n)[n]
    BY <1>1 DEF IsPrefix
  <1>5. \A s : SubSeq(s, 1, n)[n] = s[n]
    BY <1>3
  <1>6. k[n] = "/"
    BY <1>1, <1>4, <1>5
  <1>7. n - 2 \in 1 .. Len(Escape(h)) /\ (n - 2) + 2 = n
    BY <1>2, <1>3
  <1> QED
    BY <1>2, <1>6, <1>7

----------------------------------------------------------------------------
(* The paths and groups of names are strings.                              *)
LEMMA LogicalPathIsText ==
  ASSUME NEW u \in Seq(Tokens)
  PROVE  GetLogicalPath(u) \in Seq(Tokens) \cup {None}
  <1> DEFINE starts == {i \in 2 .. Len(u) : u[i] # "/"}
             first == CHOOSE i \in starts : \A j \in starts : i <= j
  <1>0. Len(u) \in Nat /\ \A i \in 1 .. Len(u) : u[i] \in Tokens
    BY LenProperties, ElementOfSeq
  <1>1. CASE u = <<>> \/ Head(u) # Prefix \/ starts = {}
    BY <1>1 DEF GetLogicalPath
  <1>2. CASE ~ (u = <<>> \/ Head(u) # Prefix \/ starts = {})
    <2>1. starts \subseteq Nat /\ starts # {} /\ starts \subseteq 2 .. Len(u)
      BY <1>0, <1>2
    <2>2. GetLogicalPath(u) = SubSeq(u, first, Len(u))
      BY <1>2 DEF GetLogicalPath
    <2> HIDE DEF starts
    <2>3. \E i \in starts : \A j \in starts : i <= j
      BY <2>1, SmallestNumber
    <2>4. first \in 2 .. Len(u)
      BY <2>1, <2>3
    <2> HIDE DEF first
    <2>5. \A i \in first .. Len(u) : u[i] \in Tokens
      BY <1>0, <2>4
    <2>6. SubSeq(u, first, Len(u)) \in Seq(Tokens)
      BY <1>0, <2>4, <2>5, SubSeqProperties
    <2> QED
      BY <2>2, <2>6
  <1> QED
    BY <1>1, <1>2

LEMMA GroupIsText ==
  ASSUME NEW p \in Seq(Tokens)
  PROVE  DatabaseGroup(p) \in Seq(Tokens)
  <1> DEFINE matching == {s \in CompanionSuffixes :
                            /\ IsSuffix(s, p)
                            /\ Stripped(p, s) # <<>>
                            /\ Last(Stripped(p, s)) # "/"}
             suffix == CHOOSE s \in matching : TRUE
  <1>1. DatabaseGroup(p) = IF matching = {} THEN p ELSE Stripped(p, suffix)
    BY DEF DatabaseGroup
  <1>2. ASSUME NEW s \in CompanionSuffixes PROVE Stripped(p, s) \in Seq(Tokens)
    <2>0. Len(p) \in Nat /\ \A i \in 1 .. Len(p) : p[i] \in Tokens
      BY LenProperties, ElementOfSeq
    <2>1. Len(s) \in Nat
      BY DEF CompanionSuffixes
    <2> DEFINE n == Len(p) - Len(s)
    <2>2. n \in Int /\ n <= Len(p)
      BY <2>0, <2>1
    <2> HIDE DEF n
    <2>3. \A i \in 1 .. n : p[i] \in Tokens
      BY <2>0, <2>2
    <2>4. SubSeq(p, 1, n) \in Seq(Tokens)
      BY <2>2, <2>3, SubSeqProperties
    <2> QED
      BY <2>4 DEF Stripped, n
  <1>3. matching # {} => suffix \in CompanionSuffixes
    BY Zenon
  <1> HIDE DEF matching, suffix
  <1> QED
    BY <1>1, <1>2, <1>3

NamedPaths == {Logical[u] : u \in Urls} \ {None}

LEMMA PathsAreText ==
  /\ Paths \subseteq Seq(Tokens) /\ NamedPaths \subseteq Paths
  /\ \A u \in Urls : Logical[u] \in NamedPaths \cup {None}
  /\ \A p \in Paths : Groups[p] \in Seq(Tokens) /\ Locations[p] = SlatedbPath(Groups[p])
  <1>1. \A u \in Urls : Logical[u] = GetLogicalPath(u)
    BY DEF Logical
  <1>2. Paths \subseteq Seq(Tokens)
    <2>1. \A u \in Urls : GetLogicalPath(u) \in Seq(Tokens) \cup {None}
      BY NamesAssumption, LogicalPathIsText
    <2> QED
      BY <2>1, NamesAssumption DEF Paths
  <1>3. NamedPaths \subseteq Paths
    BY <1>1 DEF NamedPaths, Paths
  <1>4. \A p \in Paths : Groups[p] = DatabaseGroup(p) /\ Locations[p] = SlatedbPath(Groups[p])
    BY DEF Groups, Locations
  <1> QED
    BY <1>2, <1>3, <1>4, GroupIsText DEF NamedPaths

----------------------------------------------------------------------------
(* What the calls may do.                                                  *)
Replies == {"handle", "null", "true", "false", "ok", "invalid", "io"}

(* The writer of p's database is opened or found, and the catalog keeps    *)
(* files it had, or gets one of the same group.                            *)
Changes(p, files) ==
  /\ WithWriter(p, files)
  /\ files \subseteq FilesAt(p) \cup {q \in NamedPaths : Groups[q] = Groups[p]}

ChangesOne == \E p \in NamedPaths : \E files : Changes(p, files)

(* A writer of p's database fails to open once it has its manifest.        *)
Fences(p) == ~ HasWriter(p) /\ Manifest(p, FilesAt(p)) /\ UNCHANGED writers

FencesOne == \E p \in NamedPaths : Fences(p)

CallStep ==
  /\ answer' \in Replies
  /\ UNCHANGED <<stores, writers>> \/ ChangesOne \/ FencesOne

LEMMA OnlySteps == ASSUME NEW value \in Replies, Only(value) PROVE CallStep
  BY DEF Only, Fails, Thrown, Replies, CallStep

LEMMA NoWriterSteps ==
  ASSUME NEW p \in NamedPaths, NoWriter(p)
  PROVE  CallStep
  <1>1. answer' \in Replies
    BY DEF NoWriter, Fails, Thrown, Replies
  <1>2. UNCHANGED <<stores, writers>> \/ Fences(p)
    BY DEF NoWriter, Fences
  <1> QED
    BY <1>1, <1>2 DEF FencesOne, CallStep

LEMMA LooksSteps ==
  ASSUME NEW p \in NamedPaths, NEW value \in Replies, Looks(p, value)
  PROVE  CallStep
  BY DEF Looks, Changes, ChangesOne, Fails, Thrown, Replies, CallStep

LEMMA CommitsSteps ==
  ASSUME NEW p \in NamedPaths, NEW value \in Replies, NEW files,
         files \subseteq FilesAt(p) \cup {q \in NamedPaths : Groups[q] = Groups[p]},
         Commits(p, files, value)
  PROVE  CallStep
  <1>1. answer' \in Replies
    BY DEF Commits, Fails, Thrown, Replies
  <1>2. Changes(p, files) \/ Changes(p, FilesAt(p))
    BY DEF Commits, Changes
  <1> QED
    BY <1>1, <1>2 DEF ChangesOne, CallStep

LEMMA OpenSteps ==
  ASSUME NEW p \in NamedPaths, NEW mode, OpenFile(p, mode)
  PROVE  CallStep
  <1> DEFINE flags == ConvertOpenFlags(mode)
             missing == NotFound(mode)
  <1>0. /\ missing \in Replies /\ Thrown("InvalidArgument") \in Replies
        /\ "handle" \in Replies
    BY DEF NotFound, Thrown, Replies
  <1>1. \/ Only(Thrown("InvalidArgument"))
        \/ OpenWriteHandle(p, flags, missing)
        \/ OpenReadHandle(p, missing)
    BY DEF OpenFile
  <1> HIDE DEF flags, missing
  <1>2. ASSUME OpenReadHandle(p, missing) PROVE CallStep
    BY <1>0, <1>2, OnlySteps DEF OpenReadHandle
  <1>3. ASSUME OpenWriteHandle(p, flags, missing) PROVE CallStep
    <2>1. \/ Only(missing) \/ NoWriter(p) \/ Looks(p, "handle") \/ Looks(p, missing)
          \/ Commits(p, FilesAt(p) \cup {p}, "handle")
      BY <1>3 DEF OpenWriteHandle
    <2> QED
      BY <1>0, <2>1, OnlySteps, NoWriterSteps, LooksSteps, CommitsSteps
  <1> QED
    BY <1>0, <1>1, <1>2, <1>3, OnlySteps

LEMMA RemoveSteps ==
  ASSUME NEW p \in NamedPaths, RemoveFile(p)
  PROVE  CallStep
  <1>0. Thrown("FileNotFound") \in Replies /\ "ok" \in Replies
    BY DEF Thrown, Replies
  <1>1. \/ Only(Thrown("FileNotFound")) \/ NoWriter(p)
        \/ Looks(p, Thrown("FileNotFound"))
        \/ Commits(p, FilesAt(p) \ {p}, "ok")
    BY DEF RemoveFile
  <1> QED
    BY <1>0, <1>1, OnlySteps, NoWriterSteps, LooksSteps, CommitsSteps

LEMMA MoveSteps ==
  ASSUME NEW p \in NamedPaths, NEW q \in NamedPaths, MoveFile(p, q)
  PROVE  CallStep
  <1>0. /\ Thrown("FileNotFound") \in Replies /\ Thrown("InvalidArgument") \in Replies
        /\ "ok" \in Replies
    BY DEF Thrown, Replies
  <1>1. \/ Only(Thrown("InvalidArgument"))
        \/ Only(Thrown("FileNotFound")) \/ NoWriter(p)
        \/ Looks(p, "ok") \/ Looks(p, Thrown("FileNotFound"))
        \/ Groups[p] = Groups[q] /\ Commits(p, (FilesAt(p) \ {p}) \cup {q}, "ok")
    BY DEF MoveFile
  <1> QED
    BY <1>0, <1>1, OnlySteps, NoWriterSteps, LooksSteps, CommitsSteps

LEMMA CallsStep ==
  ASSUME call \in Calls \cup {None},
         OpenCall \/ ExistsCall \/ RemoveCall \/ MoveCall
  PROVE  CallStep /\ call' = call
  <1>0. call' = call /\ call \in Calls
    BY DEF OpenCall, ExistsCall, RemoveCall, MoveCall, InProgress
  <1>1. call.name \in Urls /\ (call.op = "move" => call.target \in Urls)
    BY <1>0 DEF Calls
  <1>2. Refused => CallStep
    BY DEF Refused, CallStep, Replies
  <1>3. Logical[call.name] # None => Logical[call.name] \in NamedPaths
    BY <1>1 DEF NamedPaths
  <1>4. CASE OpenCall
    BY <1>2, <1>3, <1>4, OpenSteps DEF OpenCall, Named
  <1>5. CASE ExistsCall
    <2>1. "true" \in Replies /\ "false" \in Replies
      BY DEF Replies
    <2>2. FileExists(Logical[call.name]) => CallStep
      BY <2>1, OnlySteps DEF FileExists
    <2> QED
      BY <1>2, <1>5, <2>2 DEF ExistsCall, Named
  <1>6. CASE RemoveCall
    BY <1>2, <1>3, <1>6, RemoveSteps DEF RemoveCall, Named
  <1>7. CASE MoveCall
    <2>1. call.target \in Urls
      BY <1>1, <1>7 DEF MoveCall, InProgress
    <2>2. Logical[call.target] # None => Logical[call.target] \in NamedPaths
      BY <2>1 DEF NamedPaths
    <2>3. Named({"name", "target"}) =>
            Logical[call.name] # None /\ Logical[call.target] # None
      BY DEF Named
    <2> QED
      BY <1>2, <1>3, <1>7, <2>2, <2>3, MoveSteps DEF MoveCall
  <1> QED
    BY <1>0, <1>4, <1>5, <1>6, <1>7

----------------------------------------------------------------------------
(* The shape of the state, for any meaning of the names.                   *)
Store == [epoch : Nat, files : SUBSET Seq(Tokens)]

Shape ==
  /\ stores \in [DOMAIN stores -> Store]
  /\ DOMAIN stores \subseteq {SlatedbPath(g) : g \in Seq(Tokens)}
  /\ writers \in [DOMAIN writers -> Nat]
  /\ DOMAIN writers \subseteq Seq(Tokens)
  /\ call \in Calls \cup {None}
  /\ answer \in Replies \cup {None}

LEMMA EpochFacts ==
  ASSUME Shape, NEW p \in Paths
  PROVE  /\ Epoch(p) \in Nat /\ WriterEpoch(p) \in Nat
         /\ FilesAt(p) \subseteq Seq(Tokens)
         /\ DatabaseExists(p) => stores[Locations[p]] \in Store /\ stores[Locations[p]].epoch <= Epoch(p)
         /\ DatabaseExists(p) /\ HasWriter(p) => Epoch(p) = stores[Locations[p]].epoch
         /\ ~ HasWriter(p) => WriterEpoch(p) = Epoch(p) /\ Epoch(p) >= 1
  <1>1. DatabaseExists(p) => /\ stores[Locations[p]] \in Store
                             /\ stores[Locations[p]].epoch \in Nat
                             /\ stores[Locations[p]].files \subseteq Seq(Tokens)
    BY DEF DatabaseExists, Shape, Store
  <1>2. HasWriter(p) => writers[Groups[p]] \in Nat
    BY DEF HasWriter, Shape
  <1>3. FilesAt(p) \subseteq Seq(Tokens)
    BY <1>1 DEF FilesAt
  <1>4. Epoch(p) \in Nat
    BY <1>1 DEF Epoch
  <1>5. WriterEpoch(p) \in Nat
    BY <1>2, <1>4 DEF WriterEpoch
  <1>6. DatabaseExists(p) => stores[Locations[p]].epoch <= Epoch(p)
    BY <1>1 DEF Epoch
  <1>7. DatabaseExists(p) /\ HasWriter(p) => Epoch(p) = stores[Locations[p]].epoch
    BY DEF Epoch
  <1>8. ~ HasWriter(p) => WriterEpoch(p) = Epoch(p) /\ Epoch(p) >= 1
    BY <1>1 DEF Epoch, WriterEpoch
  <1> QED
    BY <1>1, <1>3, <1>4, <1>5, <1>6, <1>7, <1>8

LEMMA ShapeChanges ==
  ASSUME Shape, NEW p \in NamedPaths, NEW files, Changes(p, files)
  PROVE  /\ stores' \in [DOMAIN stores' -> Store]
         /\ DOMAIN stores' \subseteq {SlatedbPath(g) : g \in Seq(Tokens)}
         /\ writers' \in [DOMAIN writers' -> Nat]
         /\ DOMAIN writers' \subseteq Seq(Tokens)
  <1>0. p \in Paths /\ Groups[p] \in Seq(Tokens) /\ Locations[p] = SlatedbPath(Groups[p])
    BY PathsAreText
  <1>1. Epoch(p) \in Nat /\ WriterEpoch(p) \in Nat /\ FilesAt(p) \subseteq Seq(Tokens)
    BY <1>0, EpochFacts
  <1>2. files \subseteq Seq(Tokens)
    BY <1>1, PathsAreText DEF Changes
  <1> DEFINE store == [epoch |-> Epoch(p), files |-> files]
  <1>3. store \in Store
    BY <1>1, <1>2 DEF Store
  <1>4. /\ stores' = With(stores, Locations[p], store)
        /\ writers' = With(writers, Groups[p], WriterEpoch(p))
    BY DEF Changes, WithWriter, Manifest
  <1> HIDE DEF store
  <1>5. stores' \in [DOMAIN stores' -> Store]
    BY <1>3, <1>4 DEF With, Shape
  <1>6. writers' \in [DOMAIN writers' -> Nat]
    BY <1>1, <1>4 DEF With, Shape
  <1>7. DOMAIN stores' = DOMAIN stores \cup {Locations[p]}
    BY <1>4 DEF With
  <1>8. DOMAIN writers' = DOMAIN writers \cup {Groups[p]}
    BY <1>4 DEF With
  <1> QED
    BY <1>0, <1>5, <1>6, <1>7, <1>8 DEF Shape

LEMMA ShapeFences ==
  ASSUME Shape, NEW p \in NamedPaths, Fences(p)
  PROVE  /\ stores' \in [DOMAIN stores' -> Store]
         /\ DOMAIN stores' \subseteq {SlatedbPath(g) : g \in Seq(Tokens)}
  <1>0. p \in Paths /\ Groups[p] \in Seq(Tokens) /\ Locations[p] = SlatedbPath(Groups[p])
    BY PathsAreText
  <1> DEFINE store == [epoch |-> Epoch(p), files |-> FilesAt(p)]
  <1>1. store \in Store
    BY <1>0, EpochFacts DEF Store
  <1>2. stores' = With(stores, Locations[p], store)
    BY DEF Fences, Manifest
  <1> HIDE DEF store
  <1>3. stores' \in [DOMAIN stores' -> Store]
    BY <1>1, <1>2 DEF With, Shape
  <1>4. DOMAIN stores' = DOMAIN stores \cup {Locations[p]}
    BY <1>2 DEF With
  <1> QED
    BY <1>0, <1>3, <1>4 DEF Shape

LEMMA ShapeInit == ASSUME Init PROVE Shape
  BY DEF Init, Shape

LEMMA ShapeNext == ASSUME Shape, [Next]_vars PROVE Shape'
  <1>1. CASE UNCHANGED vars
    BY <1>1 DEF Shape, vars
  <1>2. CASE \E c \in Calls : Call(c)
    BY <1>2 DEF Call, Shape
  <1>3. CASE OpenCall \/ ExistsCall \/ RemoveCall \/ MoveCall
    <2>1. CallStep /\ call' = call
      BY <1>3, CallsStep DEF Shape
    <2>2. CASE UNCHANGED <<stores, writers>>
      BY <2>1, <2>2 DEF Shape, CallStep
    <2>3. CASE ChangesOne
      <3>1. PICK p \in NamedPaths : \E files : Changes(p, files)
        BY <2>3 DEF ChangesOne
      <3>2. PICK files : Changes(p, files)
        BY <3>1
      <3> QED
        BY <2>1, <3>2, ShapeChanges DEF Shape, CallStep
    <2>4. CASE FencesOne
      <3>1. PICK p \in NamedPaths : Fences(p)
        BY <2>4 DEF FencesOne
      <3>2. writers' = writers
        BY <3>1 DEF Fences
      <3> QED
        BY <2>1, <3>1, <3>2, ShapeFences DEF Shape, CallStep
    <2> QED
      BY <2>1, <2>2, <2>3, <2>4 DEF CallStep
  <1>4. CASE Return
    BY <1>4 DEF Return, Shape
  <1>5. CASE OtherProcessOpens
    <2>1. PICK l \in DOMAIN stores : stores' = [stores EXCEPT ![l].epoch = @ + 1]
      BY <1>5 DEF OtherProcessOpens
    <2>2. stores[l] \in Store
      BY DEF Shape
    <2>3. [stores[l] EXCEPT !.epoch = @ + 1] \in Store
      BY <2>2 DEF Store
    <2>4. stores' = [stores EXCEPT ![l] = [stores[l] EXCEPT !.epoch = @ + 1]]
      BY <2>1
    <2>5. stores' \in [DOMAIN stores' -> Store] /\ DOMAIN stores' = DOMAIN stores
      BY <2>3, <2>4 DEF Shape
    <2> QED
      BY <1>5, <2>5 DEF OtherProcessOpens, Shape
  <1>6. CASE Restart
    BY <1>6 DEF Restart, Shape
  <1> QED
    BY <1>1, <1>2, <1>3, <1>4, <1>5, <1>6 DEF Next

(* Whatever the names mean, every SlateDB lies at the location of a group  *)
(* and every cached writer is of a group.                                  *)
THEOREM ObjectFileSystemShape == Spec => []Shape
  BY ShapeInit, ShapeNext, PTL DEF Spec

(* slatedb_path keeps the SlateDBs from nesting in each other, whatever    *)
(* names DuckDB uses and whatever it and other processes do.               *)
THEOREM ObjectFileSystemNeverNests == Spec => []NeverNests
  <1>1. Shape => NeverNests
    BY LocationsDoNotNest DEF Shape, NeverNests
  <1> QED
    BY <1>1, ObjectFileSystemShape, PTL

----------------------------------------------------------------------------
(* The code's reading of names is DuckDB's.                                *)
LEMMA PathsAreFiles == \A u \in Urls : Logical[u] = FileOf[u]
  <1> SUFFICES ASSUME NEW u \in Urls PROVE GetLogicalPath(u) = FileOf[u]
    BY DEF Logical
  <1> DEFINE starts == {i \in 2 .. Len(u) : u[i] # "/"}
             first == CHOOSE i \in starts : \A j \in starts : i <= j
             Absent == u = <<>> \/ Head(u) # Prefix \/ starts = {}
  <1>0. u \in Seq(Tokens) /\ Len(u) \in Nat
    BY NamesAssumption, LenProperties
  <1>1. GetLogicalPath(u) = IF Absent THEN None ELSE SubSeq(u, first, Len(u))
    BY DEF GetLogicalPath
  <1>2. u # <<>> => Head(u) = u[1]
    BY <1>0
  <1>3. CASE Means(u, FileOf[u])
    <2>1. PICK n \in 1 .. Len(u) - 1 : /\ u[1] = Prefix
                                       /\ \A i \in 2 .. n : u[i] = "/"
                                       /\ u[n + 1] # "/"
                                       /\ FileOf[u] = SubSeq(u, n + 1, Len(u))
      BY <1>3 DEF Means
    <2>2. n + 1 \in starts
      BY <1>0, <2>1
    <2>3. \A j \in starts : n + 1 <= j
      <3>1. ASSUME NEW j \in starts, ~ (n + 1 <= j) PROVE FALSE
        <4>1. j \in 2 .. n /\ u[j] # "/"
          BY <1>0, <3>1
        <4> QED
          BY <2>1, <4>1
      <3> QED
        BY <3>1
    <2>4. starts \subseteq Nat
      BY <1>0
    <2>5. u # <<>>
      BY <1>0, <2>1
    <2> HIDE DEF starts
    <2>6. first = n + 1
      <3>1. first \in starts /\ \A j \in starts : first <= j
        BY <2>2, <2>3
      <3>2. first <= n + 1 /\ n + 1 <= first
        BY <2>2, <2>3, <3>1
      <3>3. first \in Nat /\ n + 1 \in Nat
        BY <2>2, <2>4, <3>1
      <3> QED
        BY <3>2, <3>3
    <2>7. ~ Absent
      BY <1>2, <2>1, <2>2, <2>5
    <2> HIDE DEF first, Absent
    <2> QED
      BY <1>1, <2>1, <2>6, <2>7
  <1>4. CASE FileOf[u] = None /\ \A n \in 1 .. Len(u) : ~ Means(u, SubSeq(u, n, Len(u)))
    <2> SUFFICES ASSUME ~ Absent PROVE FALSE
      BY <1>1, <1>4
    <2>1. starts \subseteq Nat /\ starts # {} /\ u # <<>> /\ u[1] = Prefix
      BY <1>0, <1>2
    <2>2. PICK x \in starts : \A y \in starts : x <= y
      <3> HIDE DEF starts
      <3> QED
        BY <2>1, SmallestNumber
    <2>3. x - 1 \in 1 .. Len(u) - 1 /\ (x - 1) + 1 = x /\ u[x] # "/" /\ x \in 1 .. Len(u)
      BY <1>0, <2>2
    <2>4. \A i \in 2 .. (x - 1) : u[i] = "/"
      <3>1. ASSUME NEW i \in 2 .. (x - 1), u[i] # "/" PROVE FALSE
        <4>1. i \in starts
          BY <1>0, <2>3, <3>1
        <4>2. x <= i
          BY <2>2, <4>1
        <4> QED
          BY <2>3, <4>2
      <3> QED
        BY <3>1
    <2>5. Means(u, SubSeq(u, x, Len(u)))
      <3> DEFINE rest == SubSeq(u, x, Len(u))
                 n == x - 1
      <3>1. n \in 1 .. Len(u) - 1 /\ n + 1 = x
        BY <2>3
      <3>2. \A i \in 2 .. n : u[i] = "/"
        BY <2>4
      <3>3. rest = SubSeq(u, n + 1, Len(u)) /\ u[n + 1] # "/"
        BY <2>3, <3>1
      <3> HIDE DEF n, rest
      <3>4. Means(u, rest)
        BY <2>1, <3>1, <3>2, <3>3 DEF Means
      <3> QED
        BY <3>4 DEF rest
    <2> QED
      BY <1>4, <2>3, <2>5
  <1> QED
    BY <1>3, <1>4, MeaningAssumption

LEMMA SuffixFacts ==
  ASSUME NEW p \in Seq(Tokens), NEW s \in Seq(Tokens)
  PROVE  /\ IsSuffix(s, p) => p = Stripped(p, s) \o s /\ Stripped(p, s) \in Seq(Tokens)
         /\ \A d \in Seq(Tokens) : p = d \o s => IsSuffix(s, p) /\ Stripped(p, s) = d
  <1> DEFINE n == Len(p) - Len(s)
  <1>0. Len(p) \in Nat /\ Len(s) \in Nat
    BY LenProperties
  <1>1. IsSuffix(s, p) <=> Len(s) <= Len(p) /\ \A i \in 1 .. Len(s) : s[i] = p[n + i]
    <2> DEFINE rs == Reverse(s)
               rp == Reverse(p)
               k == Len(s)
    <2>1. /\ rs = [i \in 1 .. k |-> s[(k - i) + 1]]
          /\ rp = [i \in 1 .. Len(p) |-> p[(Len(p) - i) + 1]]
      BY DEF Reverse
    <2>2. Len(rs) = k /\ Len(rp) = Len(p)
      BY <1>0, <2>1
    <2>3. IsSuffix(s, p) <=> k <= Len(p) /\ SubSeq(rs, 1, k) = SubSeq(rp, 1, k)
      BY <2>2 DEF IsSuffix, IsPrefix
    <2>4. ASSUME k <= Len(p)
          PROVE  SubSeq(rs, 1, k) = SubSeq(rp, 1, k)
                   <=> \A i \in 1 .. k : s[(k - i) + 1] = p[(Len(p) - i) + 1]
      <3>1. /\ SubSeq(rs, 1, k) = [i \in 1 .. k |-> s[(k - i) + 1]]
            /\ SubSeq(rp, 1, k) = [i \in 1 .. k |-> p[(Len(p) - i) + 1]]
        BY <1>0, <2>1, <2>2, <2>4
      <3> QED
        BY <3>1
    <2>5. ASSUME k <= Len(p), NEW i \in 1 .. k
          PROVE  /\ (k - i) + 1 \in 1 .. k
                 /\ (Len(p) - i) + 1 = n + ((k - i) + 1)
                 /\ (k - ((k - i) + 1)) + 1 = i
                 /\ (Len(p) - ((k - i) + 1)) + 1 = n + i
      BY <1>0
    <2>6. ASSUME k <= Len(p)
          PROVE  (\A i \in 1 .. k : s[(k - i) + 1] = p[(Len(p) - i) + 1])
                   <=> \A i \in 1 .. k : s[i] = p[n + i]
      <3>1. ASSUME \A i \in 1 .. k : s[i] = p[n + i], NEW i \in 1 .. k
            PROVE  s[(k - i) + 1] = p[(Len(p) - i) + 1]
        BY <2>5, <2>6, <3>1
      <3>2. ASSUME \A i \in 1 .. k : s[(k - i) + 1] = p[(Len(p) - i) + 1], NEW i \in 1 .. k
            PROVE  s[i] = p[n + i]
        BY <2>5, <2>6, <3>2
      <3> QED
        BY <3>1, <3>2
    <2> QED
      BY <2>3, <2>4, <2>6
  <1>2. ASSUME IsSuffix(s, p)
        PROVE  p = Stripped(p, s) \o s /\ Stripped(p, s) \in Seq(Tokens)
    <2> DEFINE d == Stripped(p, s)
    <2>1. n \in Nat /\ n + Len(s) = Len(p)
      BY <1>0, <1>1, <1>2
    <2>2. \A i \in 1 .. n : p[i] \in Tokens
      BY <1>0, <2>1, ElementOfSeq
    <2>3. d \in Seq(Tokens) /\ Len(d) = n /\ \A i \in 1 .. n : d[i] = p[i]
      BY <2>1, <2>2 DEF Stripped
    <2> HIDE DEF d
    <2>4. /\ d \o s \in Seq(Tokens) /\ Len(d \o s) = Len(p)
          /\ \A i \in 1 .. Len(p) : (d \o s)[i] = IF i <= n THEN d[i] ELSE s[i - n]
      <3>1. /\ d \o s \in Seq(Tokens) /\ Len(d \o s) = Len(d) + Len(s)
            /\ \A i \in 1 .. Len(d) + Len(s) :
                 (d \o s)[i] = IF i <= Len(d) THEN d[i] ELSE s[i - Len(d)]
        BY <2>3, ConcatProperties
      <3> DEFINE x == d \o s
      <3> HIDE DEF x, n
      <3>2. /\ x \in Seq(Tokens) /\ Len(x) = Len(p)
            /\ \A i \in 1 .. Len(p) : x[i] = IF i <= n THEN d[i] ELSE s[i - n]
        BY <2>1, <2>3, <3>1 DEF x
      <3> QED
        BY <3>2 DEF x
    <2>5. ASSUME NEW i \in 1 .. Len(p) PROVE p[i] = (d \o s)[i]
      <3>1. CASE i <= n
        BY <1>0, <2>1, <2>3, <2>4, <3>1
      <3>2. CASE ~ (i <= n)
        <4>1. i - n \in 1 .. Len(s) /\ n + (i - n) = i
          BY <1>0, <2>1, <3>2
        <4>2. s[i - n] = p[i]
          BY <1>1, <1>2, <4>1
        <4> QED
          BY <2>4, <3>2, <4>2
      <3> QED
        BY <3>1, <3>2
    <2>6. p = d \o s
      BY <2>4, <2>5, SeqEqual
    <2> QED
      BY <2>3, <2>6 DEF d
  <1>3. ASSUME NEW d \in Seq(Tokens), p = d \o s
        PROVE  IsSuffix(s, p) /\ Stripped(p, s) = d
    <2>1. /\ Len(p) = Len(d) + Len(s) /\ Len(d) \in Nat
          /\ \A i \in 1 .. Len(d) + Len(s) : p[i] = IF i <= Len(d) THEN d[i] ELSE s[i - Len(d)]
      BY <1>3, ConcatProperties, LenProperties
    <2>2. n = Len(d) /\ Len(s) <= Len(p)
      BY <1>0, <2>1
    <2>3. \A i \in 1 .. Len(s) : s[i] = p[n + i]
      <3>1. ASSUME NEW i \in 1 .. Len(s) PROVE s[i] = p[n + i]
        <4>1. n + i \in 1 .. Len(d) + Len(s) /\ ~ (n + i <= Len(d)) /\ (n + i) - Len(d) = i
          BY <1>0, <2>1, <2>2
        <4> QED
          BY <2>1, <4>1
      <3> QED
        BY <3>1
    <2>4. \A i \in 1 .. Len(d) : p[i] = d[i] /\ p[i] \in Tokens
      BY <1>0, <2>1, ElementOfSeq
    <2>5. Stripped(p, s) = SubSeq(p, 1, Len(d))
      BY <2>2 DEF Stripped
    <2>6. /\ SubSeq(p, 1, Len(d)) \in Seq(Tokens) /\ Len(SubSeq(p, 1, Len(d))) = Len(d)
          /\ \A i \in 1 .. Len(d) : SubSeq(p, 1, Len(d))[i] = d[i]
      BY <2>1, <2>4
    <2>7. SubSeq(p, 1, Len(d)) = d
      <3> DEFINE x == SubSeq(p, 1, Len(d))
      <3> HIDE DEF x
      <3> QED
        BY <2>6, SeqEqual DEF x
    <2> QED
      BY <1>1, <2>2, <2>3, <2>5, <2>7
  <1> QED
    BY <1>2, <1>3

LEMMA CompanionFacts ==
  /\ CompanionSuffixes = {<<".wal">>, <<".wal", ".checkpoint">>, <<".wal", ".recovery">>}
  /\ \A s \in CompanionSuffixes : s \in Seq(Tokens) /\ Len(s) \in Nat \ {0}
  /\ \A s, t \in CompanionSuffixes : s[Len(s)] = t[Len(t)] => s = t
  <1>1. CompanionSuffixes = {<<".wal">>, <<".wal", ".checkpoint">>, <<".wal", ".recovery">>}
    BY DEF CompanionSuffixes
  <1>2. ".wal" \in Tokens /\ ".checkpoint" \in Tokens /\ ".recovery" \in Tokens
    BY NamesAssumption
  <1>3. \A s \in CompanionSuffixes : s \in Seq(Tokens) /\ Len(s) \in Nat \ {0}
    <2>1. /\ <<".wal">> \in Seq(Tokens) /\ Len(<<".wal">>) = 1
          /\ <<".wal", ".checkpoint">> \in Seq(Tokens) /\ Len(<<".wal", ".checkpoint">>) = 2
          /\ <<".wal", ".recovery">> \in Seq(Tokens) /\ Len(<<".wal", ".recovery">>) = 2
      BY <1>2
    <2>2. 1 \in Nat \ {0} /\ 2 \in Nat \ {0}
      OBVIOUS
    <2> QED
      BY <1>1, <2>1, <2>2, Zenon
  <1>4. ASSUME NEW s \in CompanionSuffixes
        PROVE  \/ s = <<".wal">> /\ s[Len(s)] = ".wal"
               \/ s = <<".wal", ".checkpoint">> /\ s[Len(s)] = ".checkpoint"
               \/ s = <<".wal", ".recovery">> /\ s[Len(s)] = ".recovery"
    BY <1>1
  <1>5. ASSUME NEW s \in CompanionSuffixes, NEW t \in CompanionSuffixes,
               s[Len(s)] = t[Len(t)]
        PROVE  s = t
    <2>1. \/ s = <<".wal">> /\ s[Len(s)] = ".wal"
          \/ s = <<".wal", ".checkpoint">> /\ s[Len(s)] = ".checkpoint"
          \/ s = <<".wal", ".recovery">> /\ s[Len(s)] = ".recovery"
      BY <1>4
    <2>2. \/ t = <<".wal">> /\ t[Len(t)] = ".wal"
          \/ t = <<".wal", ".checkpoint">> /\ t[Len(t)] = ".checkpoint"
          \/ t = <<".wal", ".recovery">> /\ t[Len(t)] = ".recovery"
      BY <1>4
    <2>3. ".wal" # ".checkpoint" /\ ".wal" # ".recovery" /\ ".checkpoint" # ".recovery"
      OBVIOUS
    <2> DEFINE x == s[Len(s)]
               y == t[Len(t)]
               wal == <<".wal">>
               checkpoint == <<".wal", ".checkpoint">>
               recovery == <<".wal", ".recovery">>
    <2>4. /\ \/ s = wal /\ x = ".wal"
             \/ s = checkpoint /\ x = ".checkpoint"
             \/ s = recovery /\ x = ".recovery"
          /\ \/ t = wal /\ y = ".wal"
             \/ t = checkpoint /\ y = ".checkpoint"
             \/ t = recovery /\ y = ".recovery"
          /\ x = y
      BY <1>5, <2>1, <2>2
    <2> HIDE DEF x, y, wal, checkpoint, recovery
    <2> QED
      BY <2>3, <2>4
  <1> QED
    BY <1>1, <1>3, <1>5

LEMMA GroupsAreDatabases == \A p \in DOMAIN Database : Groups[p] = Database[p]
  <1> SUFFICES ASSUME NEW p \in DOMAIN Database PROVE DatabaseGroup(p) = Database[p]
    BY DEF Groups, Paths
  <1> DEFINE Fits(s) == /\ IsSuffix(s, p)
                        /\ Stripped(p, s) # <<>>
                        /\ Last(Stripped(p, s)) # "/"
             matching == {s \in CompanionSuffixes : Fits(s)}
             suffix == CHOOSE s \in matching : TRUE
  <1>0. p \in Seq(Tokens) /\ Len(p) \in Nat
    BY NamesAssumption, LenProperties
  <1>1. DatabaseGroup(p) = IF matching = {} THEN p ELSE Stripped(p, suffix)
    BY DEF DatabaseGroup
  <1>2. ASSUME NEW s \in matching
        PROVE  /\ s \in CompanionSuffixes /\ p = Stripped(p, s) \o s
               /\ Stripped(p, s) \in Seq(Tokens) /\ BelongsTo(p, Stripped(p, s))
               /\ Len(s) <= Len(p) /\ p[Len(p)] = s[Len(s)]
    <2> DEFINE d == Stripped(p, s)
    <2>1. s \in CompanionSuffixes /\ Fits(s) /\ s \in Seq(Tokens) /\ Len(s) \in Nat \ {0}
      BY CompanionFacts
    <2>2. p = d \o s /\ d \in Seq(Tokens)
      BY <1>0, <2>1, SuffixFacts
    <2>3. d # <<>> /\ d[Len(d)] # "/"
      BY <2>1 DEF Last
    <2> HIDE DEF d
    <2>4. BelongsTo(p, d)
      BY <2>1, <2>2, <2>3, CompanionFacts DEF BelongsTo
    <2>5. /\ Len(p) = Len(d) + Len(s) /\ Len(d) \in Nat
          /\ \A i \in 1 .. Len(d) + Len(s) : p[i] = IF i <= Len(d) THEN d[i] ELSE s[i - Len(d)]
      BY <2>1, <2>2, ConcatProperties, LenProperties
    <2>6. Len(p) \in 1 .. Len(d) + Len(s) /\ ~ (Len(p) <= Len(d)) /\ Len(p) - Len(d) = Len(s)
      BY <2>1, <2>5
    <2>7. p[Len(p)] = s[Len(s)] /\ Len(s) <= Len(p)
      BY <2>1, <2>5, <2>6
    <2> QED
      BY <2>1, <2>2, <2>4, <2>7 DEF d
  <1>3. CASE Database[p] \in Seq(Tokens) /\ BelongsTo(p, Database[p])
    <2> DEFINE d == Database[p]
    <2>0. d \in Seq(Tokens) /\ d # <<>> /\ d[Len(d)] # "/"
      BY <1>3 DEF BelongsTo
    <2>1. PICK s \in CompanionSuffixes : p = d \o s
      BY <1>3, CompanionFacts DEF BelongsTo
    <2> HIDE DEF d
    <2>2. IsSuffix(s, p) /\ Stripped(p, s) = d
      <3>1. s \in Seq(Tokens)
        BY CompanionFacts
      <3> QED
        BY <1>0, <2>0, <2>1, <3>1, SuffixFacts
    <2>3. s \in matching
      BY <2>0, <2>2 DEF Last
    <2> HIDE DEF matching
    <2>4. suffix \in matching
      BY <2>3
    <2>5. suffix = s
      <3>1. p[Len(p)] = s[Len(s)] /\ p[Len(p)] = suffix[Len(suffix)] /\ suffix \in CompanionSuffixes
        BY <1>2, <2>3, <2>4
      <3> HIDE DEF suffix
      <3> QED
        BY <3>1, CompanionFacts
    <2> QED
      BY <1>1, <2>2, <2>3, <2>5 DEF d
  <1>4. CASE Database[p] = p /\ \A n \in 0 .. Len(p) : ~ BelongsTo(p, SubSeq(p, 1, n))
    <2>1. ASSUME NEW s \in matching PROVE FALSE
      <3> DEFINE n == Len(p) - Len(s)
      <3>1. BelongsTo(p, Stripped(p, s)) /\ Len(s) <= Len(p) /\ Len(s) \in Nat
        BY <1>2, CompanionFacts
      <3>2. n \in 0 .. Len(p)
        BY <1>0, <3>1
      <3> HIDE DEF n
      <3>3. BelongsTo(p, SubSeq(p, 1, n))
        BY <3>1 DEF Stripped, n
      <3> QED
        BY <1>4, <3>2, <3>3
    <2>2. matching = {}
      BY <2>1
    <2> HIDE DEF matching
    <2> QED
      BY <1>1, <1>4, <2>2
  <1> QED
    BY <1>3, <1>4, MeaningAssumption

(* So two files have one location just when they are of one database.      *)
LEMMA FileFacts ==
  /\ NamedPaths = Files /\ Files \subseteq DOMAIN Database /\ Files \subseteq Paths
  /\ \A p \in Files : /\ Groups[p] = Database[p] /\ Groups[p] \in Seq(Tokens)
                      /\ Locations[p] = SlatedbPath(Groups[p])
  /\ \A p, q \in Files : Locations[p] = Locations[q] => Groups[p] = Groups[q]
  <1>1. NamedPaths = Files
    BY PathsAreFiles DEF NamedPaths, Files
  <1>2. Files \subseteq DOMAIN Database
    BY NamesAssumption DEF Files
  <1>3. Files \subseteq Paths
    BY <1>2 DEF Paths
  <1> QED
    BY <1>1, <1>2, <1>3, GroupsAreDatabases, PathsAreText, LocationsAreApart

----------------------------------------------------------------------------
(* Every file lies where lookups of its name go.                           *)
StoresOK ==
  \A l \in DOMAIN stores :
    /\ stores[l].epoch \in 1 .. MaxEpoch
    /\ stores[l].files \subseteq {p \in Files : Locations[p] = l}

WritersOK ==
  \A g \in DOMAIN writers :
    /\ SlatedbPath(g) \in DOMAIN stores
    /\ writers[g] \in 1 .. stores[SlatedbPath(g)].epoch

Inv == Shape /\ StoresOK /\ WritersOK

(* What a writer leaves behind, for every location and group.              *)
LEMMA ChangesFacts ==
  ASSUME Inv, NEW p \in Files, NEW files, Changes(p, files)
  PROVE  /\ DOMAIN stores' = DOMAIN stores \cup {Locations[p]}
         /\ stores'[Locations[p]] = [epoch |-> Epoch(p), files |-> files]
         /\ \A l \in DOMAIN stores : l # Locations[p] => stores'[l] = stores[l]
         /\ DOMAIN writers' = DOMAIN writers \cup {Groups[p]}
         /\ writers'[Groups[p]] = WriterEpoch(p)
         /\ \A g \in DOMAIN writers : g # Groups[p] => writers'[g] = writers[g]
         /\ Epoch(p) \in 1 .. MaxEpoch /\ WriterEpoch(p) \in 1 .. Epoch(p)
  <1>0. p \in Paths /\ Groups[p] \in Seq(Tokens) /\ Locations[p] = SlatedbPath(Groups[p])
    BY FileFacts
  <1> DEFINE store == [epoch |-> Epoch(p), files |-> files]
             e == WriterEpoch(p)
  <1>1. /\ stores' = With(stores, Locations[p], store)
        /\ writers' = With(writers, Groups[p], e)
        /\ Epoch(p) <= MaxEpoch
    BY DEF Changes, WithWriter, Manifest
  <1>2. /\ Epoch(p) \in Nat
        /\ ~ HasWriter(p) => e = Epoch(p) /\ Epoch(p) >= 1
        /\ DatabaseExists(p) /\ HasWriter(p) => Epoch(p) = stores[Locations[p]].epoch
    BY <1>0, EpochFacts DEF Inv
  <1>3. HasWriter(p) => /\ DatabaseExists(p) /\ e = writers[Groups[p]]
                        /\ e \in 1 .. stores[Locations[p]].epoch
    BY <1>0 DEF HasWriter, DatabaseExists, WriterEpoch, Inv, WritersOK
  <1>4. MaxEpoch \in Nat
    BY NamesAssumption
  <1> HIDE DEF store, e
  <1>5. Epoch(p) \in 1 .. MaxEpoch /\ e \in 1 .. Epoch(p)
    BY <1>1, <1>2, <1>3, <1>4
  <1>6. /\ DOMAIN stores' = DOMAIN stores \cup {Locations[p]}
        /\ stores'[Locations[p]] = store
        /\ \A l \in DOMAIN stores : l # Locations[p] => stores'[l] = stores[l]
    BY <1>1 DEF With
  <1>7. /\ DOMAIN writers' = DOMAIN writers \cup {Groups[p]}
        /\ writers'[Groups[p]] = e
        /\ \A g \in DOMAIN writers : g # Groups[p] => writers'[g] = writers[g]
    BY <1>1 DEF With
  <1> QED
    BY <1>5, <1>6, <1>7 DEF store, e

LEMMA InvChanges ==
  ASSUME Inv, NEW p \in Files, NEW files, Changes(p, files)
  PROVE  StoresOK' /\ WritersOK'
  <1> DEFINE here == Locations[p]
             store == [epoch |-> Epoch(p), files |-> files]
  <1>0. p \in Paths /\ Groups[p] \in Seq(Tokens) /\ here = SlatedbPath(Groups[p])
    BY FileFacts
  <1>1. /\ DOMAIN stores' = DOMAIN stores \cup {here}
        /\ stores'[here] = store
        /\ \A l \in DOMAIN stores : l # here => stores'[l] = stores[l]
        /\ DOMAIN writers' = DOMAIN writers \cup {Groups[p]}
        /\ writers'[Groups[p]] = WriterEpoch(p)
        /\ \A g \in DOMAIN writers : g # Groups[p] => writers'[g] = writers[g]
        /\ Epoch(p) \in 1 .. MaxEpoch /\ WriterEpoch(p) \in 1 .. Epoch(p)
    BY ChangesFacts
  <1>2. store.epoch = Epoch(p) /\ store.files = files
    OBVIOUS
  <1>3. files \subseteq {q \in Files : Locations[q] = here}
    <2>1. FilesAt(p) \subseteq {q \in Files : Locations[q] = here}
      BY DEF FilesAt, DatabaseExists, Inv, StoresOK
    <2>2. \A q \in NamedPaths : Groups[q] = Groups[p] => q \in Files /\ Locations[q] = here
      BY <1>0, FileFacts
    <2> QED
      BY <2>1, <2>2 DEF Changes
  <1> HIDE DEF store
  <1>4. StoresOK'
    <2> SUFFICES ASSUME NEW l \in DOMAIN stores'
                 PROVE  /\ stores'[l].epoch \in 1 .. MaxEpoch
                        /\ stores'[l].files \subseteq {q \in Files : Locations[q] = l}
      BY DEF StoresOK
    <2>1. CASE l = here
      BY <1>1, <1>2, <1>3, <2>1
    <2>2. CASE l # here
      BY <1>1, <2>2 DEF Inv, StoresOK
    <2> QED
      BY <2>1, <2>2
  <1>5. WritersOK'
    <2> SUFFICES ASSUME NEW g \in DOMAIN writers'
                 PROVE  /\ SlatedbPath(g) \in DOMAIN stores'
                        /\ writers'[g] \in 1 .. stores'[SlatedbPath(g)].epoch
      BY DEF WritersOK
    <2>1. CASE g = Groups[p]
      BY <1>0, <1>1, <1>2, <2>1
    <2>2. CASE g # Groups[p]
      <3>1. /\ g \in DOMAIN writers /\ writers'[g] = writers[g]
            /\ SlatedbPath(g) \in DOMAIN stores
            /\ writers[g] \in 1 .. stores[SlatedbPath(g)].epoch
        BY <1>1, <2>2 DEF Inv, WritersOK
      <3>2. SlatedbPath(g) # here
        <4>1. g \in Seq(Tokens)
          BY <3>1 DEF Inv, Shape
        <4> QED
          BY <1>0, <2>2, <4>1, LocationsAreApart
      <3> QED
        BY <1>1, <3>1, <3>2
    <2> QED
      BY <2>1, <2>2
  <1> QED
    BY <1>4, <1>5

(* What a writer that did not open leaves behind.                          *)
LEMMA FencesFacts ==
  ASSUME Inv, NEW p \in Files, Fences(p)
  PROVE  /\ DOMAIN stores' = DOMAIN stores \cup {Locations[p]}
         /\ stores'[Locations[p]].epoch = Epoch(p)
         /\ stores'[Locations[p]].files = FilesAt(p)
         /\ \A l \in DOMAIN stores : l # Locations[p] => stores'[l] = stores[l]
         /\ writers' = writers /\ Groups[p] \notin DOMAIN writers
         /\ Epoch(p) \in 1 .. MaxEpoch
  <1> DEFINE store == [epoch |-> Epoch(p), files |-> FilesAt(p)]
  <1>1. /\ stores' = With(stores, Locations[p], store)
        /\ Epoch(p) <= MaxEpoch /\ writers' = writers /\ ~ HasWriter(p)
    BY DEF Fences, Manifest
  <1>2. Epoch(p) \in Nat /\ Epoch(p) >= 1 /\ MaxEpoch \in Nat
    BY <1>1, FileFacts, EpochFacts, NamesAssumption DEF Inv
  <1>3. store.epoch = Epoch(p) /\ store.files = FilesAt(p)
    OBVIOUS
  <1> HIDE DEF store
  <1>4. /\ DOMAIN stores' = DOMAIN stores \cup {Locations[p]}
        /\ stores'[Locations[p]] = store
        /\ \A l \in DOMAIN stores : l # Locations[p] => stores'[l] = stores[l]
    BY <1>1 DEF With
  <1> QED
    BY <1>1, <1>2, <1>3, <1>4 DEF HasWriter

LEMMA InvFences ==
  ASSUME Inv, NEW p \in Files, Fences(p)
  PROVE  StoresOK' /\ WritersOK'
  <1> DEFINE here == Locations[p]
  <1>0. p \in Paths /\ Groups[p] \in Seq(Tokens) /\ here = SlatedbPath(Groups[p])
    BY FileFacts
  <1>1. /\ DOMAIN stores' = DOMAIN stores \cup {here}
        /\ stores'[here].epoch = Epoch(p) /\ stores'[here].files = FilesAt(p)
        /\ \A l \in DOMAIN stores : l # here => stores'[l] = stores[l]
        /\ writers' = writers /\ Groups[p] \notin DOMAIN writers
        /\ Epoch(p) \in 1 .. MaxEpoch
    BY FencesFacts
  <1>2. FilesAt(p) \subseteq {q \in Files : Locations[q] = here}
    BY DEF FilesAt, DatabaseExists, Inv, StoresOK
  <1>3. StoresOK'
    BY <1>1, <1>2 DEF Inv, StoresOK
  <1>4. WritersOK'
    <2> SUFFICES ASSUME NEW g \in DOMAIN writers
                 PROVE  /\ SlatedbPath(g) \in DOMAIN stores'
                        /\ writers[g] \in 1 .. stores'[SlatedbPath(g)].epoch
      BY <1>1 DEF WritersOK
    <2>1. /\ SlatedbPath(g) \in DOMAIN stores /\ g \in Seq(Tokens)
          /\ writers[g] \in 1 .. stores[SlatedbPath(g)].epoch
      BY DEF Inv, Shape, WritersOK
    <2>2. SlatedbPath(g) # here
      BY <1>0, <1>1, <2>1, LocationsAreApart
    <2> QED
      BY <1>1, <2>1, <2>2
  <1> QED
    BY <1>3, <1>4

(* What another process does to one epoch.                                 *)
LEMMA TakeOverFacts ==
  ASSUME Inv, OtherProcessOpens
  PROVE  \E l \in DOMAIN stores :
           /\ stores[l].files # {} /\ stores[l].epoch < MaxEpoch
           /\ DOMAIN stores' = DOMAIN stores
           /\ stores'[l].epoch = stores[l].epoch + 1 /\ stores'[l].files = stores[l].files
           /\ \A k \in DOMAIN stores : k # l => stores'[k] = stores[k]
  <1>1. PICK l \in DOMAIN stores : /\ stores[l].files # {}
                                   /\ stores[l].epoch < MaxEpoch
                                   /\ stores' = [stores EXCEPT ![l].epoch = @ + 1]
    BY DEF OtherProcessOpens
  <1>2. stores[l] \in Store /\ stores \in [DOMAIN stores -> Store]
    BY DEF Inv, Shape
  <1> DEFINE store == [stores[l] EXCEPT !.epoch = @ + 1]
  <1>3. store.epoch = stores[l].epoch + 1 /\ store.files = stores[l].files
    BY <1>2 DEF Store
  <1>4. stores' = [stores EXCEPT ![l] = store]
    BY <1>1
  <1> HIDE DEF store
  <1>5. /\ DOMAIN stores' = DOMAIN stores /\ stores'[l] = store
        /\ \A k \in DOMAIN stores : k # l => stores'[k] = stores[k]
    BY <1>2, <1>4
  <1> QED
    BY <1>1, <1>3, <1>5

LEMMA InvInit == ASSUME Init PROVE Inv
  BY ShapeInit DEF Init, Inv, StoresOK, WritersOK

LEMMA InvNext == ASSUME Inv, [Next]_vars PROVE Inv'
  <1>0. Shape'
    BY ShapeNext DEF Inv
  <1>1. CASE UNCHANGED <<stores, writers>>
    BY <1>0, <1>1 DEF Inv, StoresOK, WritersOK
  <1>2. CASE OpenCall \/ ExistsCall \/ RemoveCall \/ MoveCall
    <2>1. UNCHANGED <<stores, writers>> \/ ChangesOne \/ FencesOne
      BY <1>2, CallsStep DEF Inv, Shape, CallStep
    <2>2. CASE ChangesOne
      <3>1. PICK p \in Files : \E files : Changes(p, files)
        BY <2>2, FileFacts DEF ChangesOne
      <3>2. PICK files : Changes(p, files)
        BY <3>1
      <3> QED
        BY <1>0, <3>2, InvChanges DEF Inv
    <2>3. CASE FencesOne
      <3>1. PICK p \in Files : Fences(p)
        BY <2>3, FileFacts DEF FencesOne
      <3> QED
        BY <1>0, <3>1, InvFences DEF Inv
    <2> QED
      BY <1>1, <2>1, <2>2, <2>3
  <1>3. CASE OtherProcessOpens
    <2>1. PICK l \in DOMAIN stores :
            /\ stores[l].files # {} /\ stores[l].epoch < MaxEpoch
            /\ DOMAIN stores' = DOMAIN stores
            /\ stores'[l].epoch = stores[l].epoch + 1 /\ stores'[l].files = stores[l].files
            /\ \A k \in DOMAIN stores : k # l => stores'[k] = stores[k]
      BY <1>3, TakeOverFacts
    <2>2. writers' = writers
      BY <1>3 DEF OtherProcessOpens
    <2>3. MaxEpoch \in Nat
      BY NamesAssumption
    <2>4. ASSUME NEW k \in DOMAIN stores
          PROVE  /\ stores'[k].epoch \in 1 .. MaxEpoch
                 /\ stores[k].epoch \in 1 .. MaxEpoch
                 /\ stores[k].epoch <= stores'[k].epoch
                 /\ stores'[k].files = stores[k].files
      <3>1. stores[k].epoch \in 1 .. MaxEpoch /\ stores[l].epoch \in 1 .. MaxEpoch
        BY DEF Inv, StoresOK
      <3>2. CASE k = l
        BY <2>1, <2>3, <3>1, <3>2
      <3>3. CASE k # l
        BY <2>1, <2>3, <3>1, <3>3
      <3> QED
        BY <3>2, <3>3
    <2>5. StoresOK'
      BY <2>1, <2>4 DEF Inv, StoresOK
    <2>6. WritersOK'
      <3> SUFFICES ASSUME NEW g \in DOMAIN writers
                   PROVE  /\ SlatedbPath(g) \in DOMAIN stores'
                          /\ writers[g] \in 1 .. stores'[SlatedbPath(g)].epoch
        BY <2>2 DEF WritersOK
      <3>1. SlatedbPath(g) \in DOMAIN stores /\ writers[g] \in 1 .. stores[SlatedbPath(g)].epoch
        BY DEF Inv, WritersOK
      <3>2. /\ stores'[SlatedbPath(g)].epoch \in 1 .. MaxEpoch
            /\ stores[SlatedbPath(g)].epoch \in 1 .. MaxEpoch
            /\ stores[SlatedbPath(g)].epoch <= stores'[SlatedbPath(g)].epoch
        BY <2>4, <3>1
      <3> QED
        BY <2>1, <2>3, <3>1, <3>2
    <2> QED
      BY <1>0, <2>5, <2>6 DEF Inv
  <1>4. CASE Restart
    BY <1>0, <1>4 DEF Restart, Inv, StoresOK, WritersOK
  <1>5. CASE (\E c \in Calls : Call(c)) \/ Return \/ UNCHANGED vars
    <2>1. UNCHANGED <<stores, writers>>
      BY <1>5 DEF Call, Return, vars
    <2> QED
      BY <1>1, <2>1
  <1> QED
    BY <1>2, <1>3, <1>4, <1>5 DEF Next

(* Each file lies in the SlateDB its name leads to, and no cached writer   *)
(* is ahead of the manifest of its SlateDB.                                *)
THEOREM ObjectFileSystemInvariant == Spec => []Inv
  BY InvInit, InvNext, PTL DEF Spec

(* Every SlateDB holds only files whose names lead to it, and a cached     *)
(* writer has a database: GetLogicalPath and database_group agree.         *)
THEOREM ObjectFileSystemTypeOK == Spec => []TypeOK
  <1>1. Inv => TypeOK
    BY DEF Inv, Shape, StoresOK, WritersOK, TypeOK, Replies
  <1> QED
    BY <1>1, ObjectFileSystemInvariant, PTL

----------------------------------------------------------------------------
(* The refinement: what a caller can tell of a database is what its        *)
(* location and its group say.                                             *)
LEMMA Seen ==
  ASSUME Inv, NEW p \in Files
  PROVE  /\ p \in ExistingFiles <=> p \in FilesAt(p)
         /\ Database[p] \in CreatedDatabases <=> DatabaseExists(p)
         /\ Database[p] \in HeldDatabases <=> HasWriter(p)
         /\ Database[p] \in LostDatabases <=> Fenced(p)
         /\ HasWriter(p) => DatabaseExists(p)
         /\ FilesAt(p) \subseteq ExistingFiles
  <1>1. p \in ExistingFiles <=> p \in FilesAt(p)
    BY DEF ExistingFiles
  <1>2. \A q \in Files : Database[q] = Database[p] =>
          Groups[q] = Groups[p] /\ Locations[q] = Locations[p]
    BY FileFacts
  <1>3. Database[p] \in CreatedDatabases <=> DatabaseExists(p)
    BY <1>2 DEF CreatedDatabases, DatabaseExists
  <1>4. Database[p] \in HeldDatabases <=> HasWriter(p)
    BY <1>2 DEF HeldDatabases, HasWriter
  <1>5. Database[p] \in LostDatabases <=> Fenced(p)
    BY <1>2 DEF LostDatabases, Fenced, HasWriter
  <1>6. HasWriter(p) => DatabaseExists(p)
    BY FileFacts DEF HasWriter, DatabaseExists, Inv, WritersOK
  <1>7. FilesAt(p) \subseteq ExistingFiles
    BY DEF FilesAt, DatabaseExists, ExistingFiles, Inv, StoresOK
  <1> QED
    BY <1>1, <1>3, <1>4, <1>5, <1>6, <1>7

LEMMA SeenChanges ==
  ASSUME Inv, NEW p \in Files, NEW files, Changes(p, files)
  PROVE  /\ CreatedDatabases' = CreatedDatabases \cup {Database[p]}
         /\ HeldDatabases' = HeldDatabases \cup {Database[p]}
         /\ LostDatabases' = LostDatabases
         /\ ExistingFiles' = (ExistingFiles \ FilesAt(p)) \cup files
  <1> DEFINE here == Locations[p]
  <1>1. /\ DOMAIN stores' = DOMAIN stores \cup {here}
        /\ stores'[here].epoch = Epoch(p) /\ stores'[here].files = files
        /\ \A l \in DOMAIN stores : l # here => stores'[l] = stores[l]
        /\ DOMAIN writers' = DOMAIN writers \cup {Groups[p]}
        /\ writers'[Groups[p]] = WriterEpoch(p)
        /\ \A g \in DOMAIN writers : g # Groups[p] => writers'[g] = writers[g]
    <2> DEFINE store == [epoch |-> Epoch(p), files |-> files]
    <2>1. store.epoch = Epoch(p) /\ store.files = files
      OBVIOUS
    <2>2. /\ DOMAIN stores' = DOMAIN stores \cup {here} /\ stores'[here] = store
          /\ \A l \in DOMAIN stores : l # here => stores'[l] = stores[l]
          /\ DOMAIN writers' = DOMAIN writers \cup {Groups[p]}
          /\ writers'[Groups[p]] = WriterEpoch(p)
          /\ \A g \in DOMAIN writers : g # Groups[p] => writers'[g] = writers[g]
      BY ChangesFacts
    <2> HIDE DEF store
    <2> QED
      BY <2>1, <2>2
  <1>2. \A q \in Files : /\ Groups[q] = Database[q]
                         /\ Locations[q] = here <=> Groups[q] = Groups[p]
    BY FileFacts
  <1> HIDE DEF here
  <1>3. ASSUME NEW q \in Files
        PROVE  /\ DatabaseExists(q)' <=> DatabaseExists(q) \/ Database[q] = Database[p]
               /\ HasWriter(q)' <=> HasWriter(q) \/ Database[q] = Database[p]
    BY <1>1, <1>2 DEF DatabaseExists, HasWriter
  <1>4. CreatedDatabases' = CreatedDatabases \cup {Database[p]}
    BY <1>3 DEF CreatedDatabases
  <1>5. HeldDatabases' = HeldDatabases \cup {Database[p]}
    BY <1>3 DEF HeldDatabases
  <1>6. ASSUME NEW q \in Files PROVE Fenced(q)' <=> Fenced(q)
    <2>1. CASE Groups[q] = Groups[p]
      <3>1. HasWriter(q)' /\ writers'[Groups[q]] = WriterEpoch(p) /\ stores'[Locations[q]].epoch = Epoch(p)
        BY <1>1, <1>2, <2>1 DEF HasWriter
      <3>2. Fenced(q)' <=> WriterEpoch(p) # Epoch(p)
        BY <3>1 DEF Fenced
      <3>3. HasWriter(q) <=> HasWriter(p)
        BY <2>1 DEF HasWriter
      <3>4. CASE HasWriter(p)
        <4>1. Epoch(p) = stores[here].epoch /\ WriterEpoch(p) = writers[Groups[p]]
          BY <3>4, EpochFacts, FileFacts, Seen DEF Inv, WriterEpoch, here
        <4> QED
          BY <1>2, <2>1, <3>2, <3>3, <3>4, <4>1 DEF Fenced
      <3>5. CASE ~ HasWriter(p)
        <4>1. WriterEpoch(p) = Epoch(p)
          BY <3>5 DEF WriterEpoch
        <4> QED
          BY <3>2, <3>3, <3>5, <4>1 DEF Fenced
      <3> QED
        BY <3>4, <3>5
    <2>2. CASE Groups[q] # Groups[p]
      <3>1. HasWriter(q)' <=> HasWriter(q)
        BY <1>1, <2>2 DEF HasWriter
      <3>2. ASSUME HasWriter(q)
            PROVE  writers'[Groups[q]] = writers[Groups[q]] /\ stores'[Locations[q]] = stores[Locations[q]]
        <4>1. Groups[q] \in DOMAIN writers /\ Locations[q] \in DOMAIN stores
          BY <3>2, Seen DEF HasWriter, DatabaseExists
        <4> QED
          BY <1>1, <1>2, <2>2, <4>1
      <3> QED
        BY <3>1, <3>2 DEF Fenced
    <2> QED
      BY <2>1, <2>2
  <1>7. LostDatabases' = LostDatabases
    BY <1>6 DEF LostDatabases
  <1>8. ASSUME NEW q \in Files
        PROVE  q \in FilesAt(q)' <=> (q \in FilesAt(q) /\ q \notin FilesAt(p)) \/ q \in files
    <2>0. files \subseteq {r \in Files : Locations[r] = here}
      <3>1. StoresOK' /\ here \in DOMAIN stores'
        BY <1>1, InvChanges
      <3> QED
        BY <1>1, <3>1 DEF StoresOK
    <2>1. CASE Locations[q] = here
      <3>1. FilesAt(q)' = files
        BY <1>1, <2>1 DEF FilesAt, DatabaseExists
      <3>2. FilesAt(q) = FilesAt(p)
        BY <2>1 DEF FilesAt, DatabaseExists, here
      <3> QED
        BY <3>1, <3>2
    <2>2. CASE Locations[q] # here
      <3>1. FilesAt(q)' = FilesAt(q)
        BY <1>1, <2>2 DEF FilesAt, DatabaseExists
      <3>2. q \notin FilesAt(p) /\ q \notin files
        BY <2>0, <2>2 DEF FilesAt, DatabaseExists, Inv, StoresOK, here
      <3> QED
        BY <3>1, <3>2
    <2> QED
      BY <2>1, <2>2
  <1>9. ExistingFiles' = (ExistingFiles \ FilesAt(p)) \cup files
    <2>1. files \subseteq Files
      <3>1. FilesAt(p) \subseteq Files
        BY DEF FilesAt, DatabaseExists, Inv, StoresOK
      <3> QED
        BY <3>1, FileFacts DEF Changes
    <2> QED
      BY <1>8, <2>1 DEF ExistingFiles
  <1> QED
    BY <1>4, <1>5, <1>7, <1>9

LEMMA SeenSame ==
  ASSUME UNCHANGED <<stores, writers>>
  PROVE  /\ ExistingFiles' = ExistingFiles /\ CreatedDatabases' = CreatedDatabases
         /\ HeldDatabases' = HeldDatabases /\ LostDatabases' = LostDatabases
  BY DEF ExistingFiles, CreatedDatabases, HeldDatabases, LostDatabases, FilesAt,
         DatabaseExists, HasWriter, Fenced

LEMMA OnlyAnswers == ASSUME NEW value, Only(value) PROVE Virtual!Answers(value)
  BY SeenSame DEF Only, Fails, Thrown, Virtual!Answers

(* A writer that did not open shows in the databases that exist only.      *)
LEMMA SeenFences ==
  ASSUME Inv, NEW p \in Files, Fences(p)
  PROVE  /\ CreatedDatabases' = CreatedDatabases \cup {Database[p]}
         /\ HeldDatabases' = HeldDatabases
         /\ LostDatabases' = LostDatabases
         /\ ExistingFiles' = ExistingFiles
  <1> DEFINE here == Locations[p]
  <1>1. /\ DOMAIN stores' = DOMAIN stores \cup {here}
        /\ stores'[here].epoch = Epoch(p) /\ stores'[here].files = FilesAt(p)
        /\ \A l \in DOMAIN stores : l # here => stores'[l] = stores[l]
        /\ writers' = writers /\ Groups[p] \notin DOMAIN writers
    BY FencesFacts
  <1>2. \A q \in Files : /\ Groups[q] = Database[q]
                         /\ Locations[q] = here <=> Groups[q] = Groups[p]
    BY FileFacts
  <1>3. \A q \in Files : Locations[q] = here => FilesAt(q) = FilesAt(p)
    BY DEF FilesAt, DatabaseExists
  <1> HIDE DEF here
  <1>4. ASSUME NEW q \in Files
        PROVE  /\ DatabaseExists(q)' <=> DatabaseExists(q) \/ Database[q] = Database[p]
               /\ HasWriter(q)' <=> HasWriter(q)
               /\ FilesAt(q)' = FilesAt(q)
    <2>1. /\ DatabaseExists(q)' <=> DatabaseExists(q) \/ Database[q] = Database[p]
          /\ HasWriter(q)' <=> HasWriter(q)
      BY <1>1, <1>2 DEF DatabaseExists, HasWriter
    <2>2. CASE Locations[q] = here
      <3>1. FilesAt(q)' = FilesAt(p)
        BY <1>1, <2>2 DEF FilesAt, DatabaseExists
      <3> QED
        BY <1>3, <2>1, <2>2, <3>1
    <2>3. CASE Locations[q] # here
      <3>1. FilesAt(q)' = FilesAt(q)
        BY <1>1, <2>3 DEF FilesAt, DatabaseExists
      <3> QED
        BY <2>1, <3>1
    <2> QED
      BY <2>2, <2>3
  <1>5. ASSUME NEW q \in Files PROVE Fenced(q)' <=> Fenced(q)
    <2>1. CASE ~ HasWriter(q)
      BY <1>4, <2>1 DEF Fenced
    <2>2. CASE HasWriter(q)
      <3>1. Groups[q] # Groups[p] /\ Locations[q] \in DOMAIN stores
        BY <1>1, <2>2, Seen DEF HasWriter, DatabaseExists
      <3>2. stores'[Locations[q]] = stores[Locations[q]]
        BY <1>1, <1>2, <3>1
      <3> QED
        BY <1>1, <1>4, <3>2 DEF Fenced
    <2> QED
      BY <2>1, <2>2
  <1>6. CreatedDatabases' = CreatedDatabases \cup {Database[p]}
    BY <1>4 DEF CreatedDatabases
  <1>7. HeldDatabases' = HeldDatabases
    BY <1>4 DEF HeldDatabases
  <1>8. LostDatabases' = LostDatabases
    BY <1>5 DEF LostDatabases
  <1>9. ExistingFiles' = ExistingFiles
    BY <1>4 DEF ExistingFiles
  <1> QED
    BY <1>6, <1>7, <1>8, <1>9

LEMMA NoWriterWrites ==
  ASSUME Inv, NEW p \in Files, NoWriter(p)
  PROVE  Virtual!NotOpened(Database[p])
  <1>1. answer' = "io"
    BY DEF NoWriter, Fails, Thrown
  <1>2. CASE UNCHANGED <<stores, writers>>
    BY <1>1, <1>2, SeenSame DEF Virtual!NotOpened
  <1>3. CASE Fences(p)
    BY <1>1, <1>3, SeenFences DEF Virtual!NotOpened
  <1> QED
    BY <1>2, <1>3 DEF NoWriter, Fences

LEMMA LooksWrites ==
  ASSUME Inv, NEW p \in Files, NEW value, Looks(p, value)
  PROVE  Virtual!Writes(Database[p], ExistingFiles, value)
  <1>1. Changes(p, FilesAt(p)) /\ answer' \in {value, "io"}
    BY DEF Looks, Changes, Fails, Thrown
  <1>2. ExistingFiles' = ExistingFiles
    <2>1. ExistingFiles' = (ExistingFiles \ FilesAt(p)) \cup FilesAt(p)
      BY <1>1, SeenChanges
    <2>2. FilesAt(p) \subseteq ExistingFiles
      BY Seen
    <2> QED
      BY <2>1, <2>2
  <1> QED
    BY <1>1, <1>2, SeenChanges DEF Virtual!Writes

(* Only a writer that is not fenced commits.                               *)
LEMMA CommitsWrites ==
  ASSUME Inv, NEW p \in Files, NEW files, NEW value, NEW a,
         files \subseteq FilesAt(p) \cup {q \in Files : Groups[q] = Groups[p]},
         Commits(p, files, value), Fenced(p) \/ a = value
  PROVE  Virtual!Writes(Database[p], (ExistingFiles \ FilesAt(p)) \cup files, a)
  <1>1. CASE WithWriter(p, files) /\ WriterEpoch(p) = Epoch(p) /\ answer' \in {value, "io"}
    <2>1. Changes(p, files)
      BY <1>1, FileFacts DEF Changes
    <2>2. ~ Fenced(p)
      <3>1. HasWriter(p) => Epoch(p) = stores[Locations[p]].epoch /\ WriterEpoch(p) = writers[Groups[p]]
        BY EpochFacts, FileFacts, Seen DEF Inv, WriterEpoch
      <3> QED
        BY <1>1, <3>1 DEF Fenced
    <2>3. Database[p] \notin LostDatabases
      BY <2>2, Seen
    <2> QED
      BY <1>1, <2>1, <2>2, <2>3, SeenChanges DEF Virtual!Writes
  <1>2. CASE WithWriter(p, FilesAt(p)) /\ answer' = "io"
    <2>1. Changes(p, FilesAt(p))
      BY <1>2 DEF Changes
    <2>2. ExistingFiles' = ExistingFiles
      <3>1. ExistingFiles' = (ExistingFiles \ FilesAt(p)) \cup FilesAt(p)
        BY <2>1, SeenChanges
      <3>2. FilesAt(p) \subseteq ExistingFiles
        BY Seen
      <3> QED
        BY <3>1, <3>2
    <2> QED
      BY <1>2, <2>1, <2>2, SeenChanges DEF Virtual!Writes
  <1> QED
    BY <1>1, <1>2 DEF Commits, Fails, Thrown

LEMMA OpenImplements ==
  ASSUME Inv, NEW p \in Files, NEW mode \in Modes, OpenFile(p, mode)
  PROVE  Virtual!Open(p, mode)
  <1> DEFINE flags == ConvertOpenFlags(mode)
             d == Database[p]
             missing == NotFound(mode)
             found == IF p \in ExistingFiles THEN "handle" ELSE missing
             create == mode.create \/ mode.overwrite
             new == (ExistingFiles \ FilesAt(p)) \cup (FilesAt(p) \cup {p})
  <1>0. /\ mode.read \in BOOLEAN /\ mode.write \in BOOLEAN /\ mode.create \in BOOLEAN
        /\ mode.overwrite \in BOOLEAN /\ mode.append \in BOOLEAN
    BY NamesAssumption
  <1>1. /\ flags.read = mode.read /\ flags.write = mode.write /\ flags.append = mode.append
        /\ flags.create = create /\ flags.truncate_existing = mode.overwrite
    BY DEF ConvertOpenFlags
  <1>2. Valid(flags) <=> Virtual!Sensible(mode)
    <2> HIDE DEF flags
    <2> QED
      BY <1>0, <1>1 DEF Valid, Virtual!Sensible, Virtual!Creates
  <1>3. missing = Virtual!Missing(mode)
    BY DEF NotFound, Thrown, Virtual!Missing
  <1>4. create <=> Virtual!Creates(mode)
    BY DEF Virtual!Creates
  <1>5. /\ p \in ExistingFiles <=> p \in FilesAt(p)
        /\ d \in CreatedDatabases <=> DatabaseExists(p)
        /\ d \in LostDatabases <=> Fenced(p)
        /\ HasWriter(p) => DatabaseExists(p)
        /\ FilesAt(p) \subseteq ExistingFiles
    BY Seen
  <1>6. new = ExistingFiles \cup {p}
    BY <1>5
  <1>7. FilesAt(p) \cup {p} \subseteq FilesAt(p) \cup {q \in Files : Groups[q] = Groups[p]}
    OBVIOUS
  <1>8. Thrown("InvalidArgument") = "invalid"
    BY DEF Thrown
  <1>9. IF ~ Valid(flags) THEN Only(Thrown("InvalidArgument"))
        ELSE IF flags.write THEN OpenWriteHandle(p, flags, missing)
        ELSE OpenReadHandle(p, missing)
    BY DEF OpenFile
  <1> HIDE DEF flags, missing, create, new
  <1>10. CASE ~ Valid(flags)
    BY <1>2, <1>8, <1>9, <1>10, OnlyAnswers DEF Virtual!Open
  <1>11. CASE Valid(flags) /\ ~ flags.write
    <2>1. Only(found)
      BY <1>5, <1>9, <1>11 DEF OpenReadHandle
    <2>2. Virtual!Answers(found)
      BY <2>1, OnlyAnswers
    <2> QED
      BY <1>1, <1>2, <1>3, <1>11, <2>2 DEF Virtual!Open
  <1>12. CASE Valid(flags) /\ flags.write
    <2>0. OpenWriteHandle(p, flags, missing) /\ mode.write
      BY <1>1, <1>9, <1>12
    <2>1. CASE ~ WriteDb(p, flags.create)
      <3>1. ~ create /\ d \notin CreatedDatabases /\ ~ DatabaseExists(p)
        BY <1>1, <1>5, <2>1 DEF WriteDb
      <3>2. p \notin ExistingFiles
        BY <1>5, <3>1 DEF FilesAt
      <3>3. Virtual!Answers(found)
        BY <2>0, <2>1, <3>2, OnlyAnswers DEF OpenWriteHandle
      <3> QED
        BY <1>2, <1>3, <1>4, <1>12, <3>1, <3>3 DEF Virtual!Open
    <2>2. CASE WriteDb(p, flags.create)
      <3>0. ~ (d \notin CreatedDatabases /\ ~ create)
        BY <1>1, <1>5, <2>2 DEF WriteDb
      <3>1. \/ NoWriter(p)
            \/ p \in FilesAt(p) /\ ~ mode.overwrite /\ Looks(p, "handle")
            \/ /\ ~ (p \in FilesAt(p) /\ ~ mode.overwrite) /\ create
               /\ Commits(p, FilesAt(p) \cup {p}, "handle")
            \/ ~ (p \in FilesAt(p) /\ ~ mode.overwrite) /\ ~ create /\ Looks(p, missing)
        BY <1>1, <2>0, <2>2 DEF OpenWriteHandle
      <3>2. CASE ~ create
        <4>1. Virtual!Writes(d, ExistingFiles, found)
          <5>1. CASE NoWriter(p)
            BY <5>1, NoWriterWrites DEF Virtual!Writes
          <5>2. CASE p \in FilesAt(p) /\ Looks(p, "handle")
            <6>1. found = "handle"
              BY <1>5, <5>2
            <6> QED
              BY <5>2, <6>1, LooksWrites
          <5>3. CASE ~ (p \in FilesAt(p) /\ ~ mode.overwrite) /\ Looks(p, missing)
            <6>1. ~ mode.overwrite
              BY <1>0, <3>2 DEF create
            <6>2. found = missing
              BY <1>5, <5>3, <6>1
            <6> QED
              BY <5>3, <6>2, LooksWrites
          <5> QED
            BY <3>1, <3>2, <5>1, <5>2, <5>3
        <4> QED
          BY <1>2, <1>3, <1>4, <1>12, <2>0, <3>0, <3>2, <4>1 DEF Virtual!Open
      <3>3. CASE create
        <4> DEFINE a == IF d \in LostDatabases /\ mode.overwrite THEN "io" ELSE "handle"
        <4>1. Virtual!Writes(d, ExistingFiles \cup {p}, a)
          <5>1. CASE NoWriter(p)
            BY <5>1, NoWriterWrites DEF Virtual!Writes
          <5>2. CASE p \in FilesAt(p) /\ ~ mode.overwrite /\ Looks(p, "handle")
            <6>1. a = "handle" /\ ExistingFiles \cup {p} = ExistingFiles
              BY <1>5, <5>2
            <6> HIDE DEF a
            <6> QED
              BY <5>2, <6>1, LooksWrites
          <5>3. CASE Commits(p, FilesAt(p) \cup {p}, "handle")
            <6>1. Fenced(p) \/ a = "handle"
              BY <1>5
            <6> HIDE DEF a
            <6>2. Virtual!Writes(d, new, a)
              BY <1>7, <5>3, <6>1, CommitsWrites DEF new
            <6> QED
              BY <1>6, <6>2
          <5> QED
            BY <3>1, <3>3, <5>1, <5>2, <5>3
        <4> QED
          BY <1>2, <1>4, <1>12, <2>0, <3>0, <3>3, <4>1 DEF Virtual!Open
      <3> QED
        BY <3>2, <3>3
    <2> QED
      BY <2>1, <2>2
  <1> QED
    BY <1>10, <1>11, <1>12

LEMMA RemoveImplements ==
  ASSUME Inv, NEW p \in Files, RemoveFile(p)
  PROVE  Virtual!Remove(p)
  <1> DEFINE d == Database[p]
             new == (ExistingFiles \ FilesAt(p)) \cup (FilesAt(p) \ {p})
             a == IF p \in ExistingFiles THEN "ok" ELSE "io"
  <1>1. /\ p \in ExistingFiles <=> p \in FilesAt(p)
        /\ d \in CreatedDatabases <=> DatabaseExists(p)
        /\ HasWriter(p) => DatabaseExists(p)
        /\ FilesAt(p) \subseteq ExistingFiles
    BY Seen
  <1>2. WriteDb(p, FALSE) <=> d \in CreatedDatabases
    BY <1>1 DEF WriteDb
  <1>3. Thrown("FileNotFound") = "io"
    BY DEF Thrown
  <1>4. CASE d \notin CreatedDatabases
    BY <1>2, <1>3, <1>4, OnlyAnswers DEF RemoveFile, Virtual!Remove
  <1>5. CASE d \in CreatedDatabases
    <2>1. \/ NoWriter(p)
          \/ p \in FilesAt(p) /\ Commits(p, FilesAt(p) \ {p}, "ok")
          \/ p \notin FilesAt(p) /\ Looks(p, "io")
      BY <1>2, <1>3, <1>5 DEF RemoveFile
    <2>2. Virtual!Writes(d, ExistingFiles \ {p}, a)
      <3>1. CASE NoWriter(p)
        BY <3>1, NoWriterWrites DEF Virtual!Writes
      <3>2. CASE p \in FilesAt(p) /\ Commits(p, FilesAt(p) \ {p}, "ok")
        <4>1. new = ExistingFiles \ {p} /\ a = "ok"
          BY <1>1, <3>2
        <4> HIDE DEF new, a
        <4>2. Virtual!Writes(d, new, a)
          BY <3>2, <4>1, CommitsWrites DEF new
        <4> QED
          BY <4>1, <4>2
      <3>3. CASE p \notin FilesAt(p) /\ Looks(p, "io")
        <4>1. ExistingFiles \ {p} = ExistingFiles /\ a = "io"
          BY <1>1, <3>3
        <4> HIDE DEF a
        <4> QED
          BY <3>3, <4>1, LooksWrites
      <3> QED
        BY <2>1, <3>1, <3>2, <3>3
    <2> QED
      BY <1>5, <2>2 DEF Virtual!Remove
  <1> QED
    BY <1>4, <1>5

LEMMA MoveImplements ==
  ASSUME Inv, NEW p \in Files, NEW q \in Files, MoveFile(p, q)
  PROVE  Virtual!Move(p, q)
  <1> DEFINE d == Database[p]
             new == (ExistingFiles \ FilesAt(p)) \cup ((FilesAt(p) \ {p}) \cup {q})
  <1>1. /\ p \in ExistingFiles <=> p \in FilesAt(p)
        /\ d \in CreatedDatabases <=> DatabaseExists(p)
        /\ HasWriter(p) => DatabaseExists(p)
        /\ FilesAt(p) \subseteq ExistingFiles
    BY Seen
  <1>2. WriteDb(p, FALSE) <=> d \in CreatedDatabases
    BY <1>1 DEF WriteDb
  <1>3. Thrown("FileNotFound") = "io" /\ Thrown("InvalidArgument") = "invalid"
    BY DEF Thrown
  <1>4. Groups[p] = Groups[q] <=> Database[q] = d
    BY FileFacts
  <1>5. CASE Database[q] # d
    BY <1>3, <1>4, <1>5, OnlyAnswers DEF MoveFile, Virtual!Move
  <1>6. CASE Database[q] = d /\ d \notin CreatedDatabases
    BY <1>2, <1>3, <1>4, <1>6, OnlyAnswers DEF MoveFile, Virtual!Move
  <1>7. CASE Database[q] = d /\ d \in CreatedDatabases
    <2>1. \/ NoWriter(p)
          \/ p = q /\ Looks(p, "ok")
          \/ p # q /\ p \in FilesAt(p) /\ Commits(p, (FilesAt(p) \ {p}) \cup {q}, "ok")
          \/ p # q /\ p \notin FilesAt(p) /\ Looks(p, "io")
      BY <1>2, <1>3, <1>4, <1>7 DEF MoveFile
    <2>2. CASE NoWriter(p)
      <3>1. \A f, a : Virtual!Writes(d, f, a)
        BY <2>2, NoWriterWrites DEF Virtual!Writes
      <3> QED
        BY <1>7, <3>1 DEF Virtual!Move
    <2>3. CASE p = q /\ Looks(p, "ok")
      BY <1>7, <2>3, LooksWrites DEF Virtual!Move
    <2>4. CASE p # q /\ p \in FilesAt(p) /\ Commits(p, (FilesAt(p) \ {p}) \cup {q}, "ok")
      <3>1. new = (ExistingFiles \ {p}) \cup {q}
        BY <1>1, <2>4
      <3>2. (FilesAt(p) \ {p}) \cup {q} \subseteq FilesAt(p) \cup {r \in Files : Groups[r] = Groups[p]}
        BY <1>4, <1>7
      <3> HIDE DEF new
      <3>3. Virtual!Writes(d, new, "ok")
        BY <2>4, <3>2, CommitsWrites DEF new
      <3> QED
        BY <1>1, <1>7, <2>4, <3>1, <3>3 DEF Virtual!Move
    <2>5. CASE p # q /\ p \notin FilesAt(p) /\ Looks(p, "io")
      BY <1>1, <1>7, <2>5, LooksWrites DEF Virtual!Move
    <2> QED
      BY <2>1, <2>2, <2>3, <2>4, <2>5
  <1> QED
    BY <1>5, <1>6, <1>7

LEMMA CallsImplement ==
  ASSUME Inv, OpenCall \/ ExistsCall \/ RemoveCall \/ MoveCall
  PROVE  Virtual!Perform
  <1> DEFINE p == FileOf[call.name]
             q == FileOf[call.target]
  <1>0. /\ call' = call /\ call # None /\ answer = None /\ call \in Calls
    BY DEF OpenCall, ExistsCall, RemoveCall, MoveCall, InProgress, Inv, Shape
  <1>1. /\ call.name \in Urls /\ (call.op = "move" => call.target \in Urls)
        /\ (call.op = "open" => call.mode \in Modes)
    BY <1>0 DEF Calls
  <1>2. Logical[call.name] = p /\ (p # None => p \in Files)
    BY <1>1, PathsAreFiles DEF Files
  <1>3. call.op = "move" => Logical[call.target] = q /\ (q # None => q \in Files)
    BY <1>1, PathsAreFiles DEF Files
  <1>4. Refused => Virtual!Answers("invalid")
    BY SeenSame DEF Refused, Virtual!Answers
  <1> HIDE DEF p, q
  <1>5. CASE OpenCall
    <2>0. call.op = "open"
      BY <1>5 DEF OpenCall, InProgress
    <2>1. IF p # None THEN OpenFile(p, call.mode) ELSE Refused
      BY <1>2, <1>5 DEF OpenCall, Named
    <2>2. p # None => Virtual!Open(p, call.mode)
      BY <1>1, <1>2, <2>0, <2>1, OpenImplements
    <2> QED
      BY <1>0, <1>4, <2>0, <2>1, <2>2 DEF Virtual!Perform, p
  <1>6. CASE ExistsCall
    <2>0. call.op = "exists"
      BY <1>6 DEF ExistsCall, InProgress
    <2>1. IF p # None THEN FileExists(p) ELSE Refused
      BY <1>2, <1>6 DEF ExistsCall, Named
    <2>2. p # None => Virtual!Exists(p)
      BY <1>2, <2>1, OnlyAnswers DEF FileExists, Virtual!Exists, ExistingFiles
    <2> QED
      BY <1>0, <1>4, <2>0, <2>1, <2>2 DEF Virtual!Perform, p
  <1>7. CASE RemoveCall
    <2>0. call.op = "remove"
      BY <1>7 DEF RemoveCall, InProgress
    <2>1. IF p # None THEN RemoveFile(p) ELSE Refused
      BY <1>2, <1>7 DEF RemoveCall, Named
    <2>2. p # None => Virtual!Remove(p)
      BY <1>2, <2>1, RemoveImplements
    <2> QED
      BY <1>0, <1>4, <2>0, <2>1, <2>2 DEF Virtual!Perform, p
  <1>8. CASE MoveCall
    <2>0. call.op = "move"
      BY <1>8 DEF MoveCall, InProgress
    <2>1. IF p # None /\ q # None THEN MoveFile(p, q) ELSE Refused
      BY <1>2, <1>3, <1>8, <2>0 DEF MoveCall, Named
    <2>2. p # None /\ q # None => Virtual!Move(p, q)
      BY <1>2, <1>3, <2>0, <2>1, MoveImplements
    <2> QED
      BY <1>0, <1>4, <2>0, <2>1, <2>2 DEF Virtual!Perform, p, q
  <1> QED
    BY <1>5, <1>6, <1>7, <1>8

LEMMA TakeOverImplements == ASSUME Inv, OtherProcessOpens PROVE Virtual!TakeOver
  <1>1. PICK l \in DOMAIN stores :
          /\ stores[l].files # {} /\ stores[l].epoch < MaxEpoch
          /\ DOMAIN stores' = DOMAIN stores
          /\ stores'[l].epoch = stores[l].epoch + 1 /\ stores'[l].files = stores[l].files
          /\ \A k \in DOMAIN stores : k # l => stores'[k] = stores[k]
    BY TakeOverFacts
  <1>2. writers' = writers /\ call' = call /\ answer' = answer
    BY DEF OtherProcessOpens
  <1>3. PICK p \in Files : p \in stores[l].files /\ Locations[p] = l
    BY <1>1 DEF Inv, StoresOK
  <1>4. p \in ExistingFiles
    BY <1>3 DEF ExistingFiles, FilesAt, DatabaseExists
  <1>5. ASSUME NEW q \in Files
        PROVE  /\ FilesAt(q)' = FilesAt(q)
               /\ DatabaseExists(q)' <=> DatabaseExists(q)
               /\ HasWriter(q)' <=> HasWriter(q)
    BY <1>1, <1>2 DEF FilesAt, DatabaseExists, HasWriter
  <1>6. ExistingFiles' = ExistingFiles
    BY <1>5 DEF ExistingFiles
  <1>7. CreatedDatabases' = CreatedDatabases
    BY <1>5 DEF CreatedDatabases
  <1>8. HeldDatabases' = HeldDatabases
    BY <1>5 DEF HeldDatabases
  <1>9. ASSUME NEW q \in Files
        PROVE  Fenced(q)' <=> Fenced(q) \/ (Database[q] = Database[p] /\ HasWriter(q))
    <2>0. Locations[q] = l <=> Database[q] = Database[p]
      BY <1>3, FileFacts
    <2>1. CASE ~ HasWriter(q)
      BY <1>5, <2>1 DEF Fenced
    <2>2. CASE HasWriter(q)
      <3>1. /\ Locations[q] \in DOMAIN stores
            /\ writers[Groups[q]] \in 1 .. stores[Locations[q]].epoch
        BY <2>2, FileFacts DEF HasWriter, Inv, WritersOK
      <3>2. stores[l].epoch \in Nat /\ stores[Locations[q]].epoch \in Nat
        BY <3>1 DEF Inv, Shape, Store
      <3>3. CASE Locations[q] = l
        <4>1. writers[Groups[q]] # stores[l].epoch + 1
          BY <3>1, <3>2, <3>3
        <4> QED
          BY <1>1, <1>2, <1>5, <2>0, <2>2, <3>3, <4>1 DEF Fenced
      <3>4. CASE Locations[q] # l
        BY <1>1, <1>2, <1>5, <2>0, <2>2, <3>1, <3>4 DEF Fenced
      <3> QED
        BY <3>3, <3>4
    <2> QED
      BY <2>1, <2>2
  <1>10. LostDatabases' = LostDatabases \cup ({Database[p]} \cap HeldDatabases)
    <2>1. ASSUME NEW x \in LostDatabases' PROVE x \in LostDatabases \cup ({Database[p]} \cap HeldDatabases)
      <3>1. PICK q \in Files : Fenced(q)' /\ x = Database[q]
        BY DEF LostDatabases
      <3> QED
        BY <1>9, <3>1 DEF LostDatabases, HeldDatabases
    <2>2. ASSUME NEW x \in LostDatabases PROVE x \in LostDatabases'
      BY <1>9 DEF LostDatabases
    <2>3. ASSUME Database[p] \in HeldDatabases PROVE Database[p] \in LostDatabases'
      <3>1. PICK q \in Files : HasWriter(q) /\ Database[q] = Database[p]
        BY <2>3 DEF HeldDatabases
      <3>2. Fenced(q)'
        BY <1>9, <3>1
      <3> QED
        BY <3>1, <3>2 DEF LostDatabases
    <2> QED
      BY <2>1, <2>2, <2>3
  <1> QED
    BY <1>2, <1>4, <1>6, <1>7, <1>8, <1>10 DEF Virtual!TakeOver

LEMMA RestartImplements == ASSUME Restart PROVE Virtual!Restart
  <1>1. stores' = stores /\ writers' = <<>> /\ call' = None /\ answer' = None
    BY DEF Restart
  <1>2. ASSUME NEW q \in Files
        PROVE  /\ FilesAt(q)' = FilesAt(q) /\ DatabaseExists(q)' = DatabaseExists(q)
               /\ ~ HasWriter(q)' /\ ~ Fenced(q)'
    BY <1>1 DEF FilesAt, DatabaseExists, HasWriter, Fenced
  <1>3. ExistingFiles' = ExistingFiles /\ CreatedDatabases' = CreatedDatabases
    BY <1>2 DEF ExistingFiles, CreatedDatabases
  <1>4. HeldDatabases' = {} /\ LostDatabases' = {}
    BY <1>2 DEF HeldDatabases, LostDatabases
  <1> QED
    BY <1>1, <1>3, <1>4 DEF Virtual!Restart

LEMMA StepImplements ==
  ASSUME Inv, [Next]_vars
  PROVE  [Virtual!Next]_(Virtual!vars)
  <1>1. CASE \E c \in Calls : Call(c)
    <2>1. PICK c \in Calls : Call(c)
      BY <1>1
    <2>2. c \in Virtual!Calls
      BY DEF Calls, Virtual!Calls
    <2>3. Virtual!Begin
      BY <2>1, <2>2, SeenSame DEF Call, Virtual!Begin
    <2> QED
      BY <2>3 DEF Virtual!Next
  <1>2. CASE OpenCall \/ ExistsCall \/ RemoveCall \/ MoveCall
    BY <1>2, CallsImplement DEF Virtual!Next
  <1>3. CASE Return
    <2>1. Virtual!Return
      BY <1>3, SeenSame DEF Return, Virtual!Return
    <2> QED
      BY <2>1 DEF Virtual!Next
  <1>4. CASE OtherProcessOpens
    BY <1>4, TakeOverImplements DEF Virtual!Next
  <1>5. CASE Restart
    BY <1>5, RestartImplements DEF Virtual!Next
  <1>6. CASE UNCHANGED vars
    BY <1>6, SeenSame DEF vars, Virtual!vars
  <1> QED
    BY <1>1, <1>2, <1>3, <1>4, <1>5, <1>6 DEF Next

LEMMA InitImplements == ASSUME Init PROVE Virtual!Init
  <1>1. \A q \in Files : ~ DatabaseExists(q) /\ ~ HasWriter(q) /\ FilesAt(q) = {} /\ ~ Fenced(q)
    BY DEF Init, DatabaseExists, HasWriter, FilesAt, Fenced
  <1> QED
    BY <1>1 DEF Init, Virtual!Init, ExistingFiles, CreatedDatabases, HeldDatabases, LostDatabases

(* OpenFile, FileExists, RemoveFile and MoveFile show DuckDB one flat set  *)
(* of files, kept together by database, for any names, modes and bounds:   *)
(* the file system implements VirtualFiles.                                *)
THEOREM ObjectFileSystemRefines == Spec => ImplementsVirtualFiles
  <1>1. Init => Virtual!Init
    BY InitImplements
  <1>2. Inv /\ [Next]_vars => [Virtual!Next]_(Virtual!vars)
    BY StepImplements
  <1> QED
    BY <1>1, <1>2, ObjectFileSystemInvariant, PTL
       DEF Spec, ImplementsVirtualFiles, Virtual!Spec
=============================================================================
