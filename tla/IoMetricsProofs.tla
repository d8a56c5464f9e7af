--------------------------- MODULE IoMetricsProofs ---------------------------
(***************************************************************************)
(* Proofs about IoMetrics, for any number of requests and any latencies    *)
(* and sizes.                                                              *)
(***************************************************************************)
EXTENDS IoMetrics, FiniteSetTheorems, TLAPS

----------------------------------------------------------------------------
(* Sums over finite sets.  MapThenSumSet is a recursive function on sets;  *)
(* that it exists, and what it returns, follows by induction on finite     *)
(* sets, which is the well-foundedness of < on the numbers.                *)

LEMMA SmallestNumber ==
  ASSUME NEW T, T \subseteq Nat, T # {}
  PROVE  \E x \in T : \A y \in T : x <= y
  <1>1. \E x \in T : \A y \in T : <<y, x>> \notin OpToRel(<, Nat)
    BY NatLessThanWellFounded, WFMin, Zenon
  <1>2. PICK x \in T : \A y \in T : <<y, x>> \notin OpToRel(<, Nat)
    BY <1>1
  <1>3. \A y \in T : ~ (y < x)
    BY <1>2 DEF OpToRel
  <1>4. ASSUME NEW y \in T PROVE x <= y
    <2>1. x \in Nat /\ y \in Nat /\ ~ (y < x)
      BY <1>2, <1>3
    <2> QED
      BY <2>1
  <1> QED
    BY <1>2, <1>4

(* A set that holds a set whenever it holds its smaller subsets holds all  *)
(* subsets of a finite set.                                                *)
LEMMA SubsetInduction ==
  ASSUME NEW D, IsFiniteSet(D), NEW P,
         \A T \in SUBSET D : (\A U \in SUBSET T : U # T => U \in P) => T \in P
  PROVE  SUBSET D \subseteq P
  <1> SUFFICES ASSUME NEW T0 \in SUBSET D, T0 \notin P PROVE FALSE
    OBVIOUS
  <1> DEFINE Bad == {T \in SUBSET D : T \notin P}
             Sizes0 == {Cardinality(T) : T \in Bad}
  <1>1. \A T \in SUBSET D : IsFiniteSet(T) /\ Cardinality(T) \in Nat
    BY FS_Subset, FS_CardinalityType
  <1>2. Sizes0 \subseteq Nat /\ Sizes0 # {}
    BY <1>1
  <1>3. PICK n \in Sizes0 : \A m \in Sizes0 : n <= m
    <2> HIDE DEF Sizes0
    <2> QED
      BY <1>2, SmallestNumber
  <1>4. PICK T \in Bad : n = Cardinality(T)
    BY <1>3
  <1>5. ASSUME NEW U \in SUBSET T, U # T
        PROVE  U \in P
    <2>1. Cardinality(U) < Cardinality(T)
      <3>1. IsFiniteSet(T) /\ Cardinality(T) \in Nat /\ Cardinality(U) \in Nat
        BY <1>1, <1>4
      <3>2. Cardinality(U) <= Cardinality(T) /\ Cardinality(U) # Cardinality(T)
        BY <1>5, <3>1, FS_Subset
      <3> QED
        BY <3>1, <3>2
    <2>2. Cardinality(U) \notin Sizes0
      <3>1. Cardinality(U) \in Nat /\ Cardinality(T) \in Nat
        BY <1>1, <1>4
      <3> QED
        BY <1>3, <1>4, <2>1, <3>1
    <2>3. U \in SUBSET D
      BY <1>4
    <2> QED
      BY <2>2, <2>3
  <1> QED
    BY <1>4, <1>5

Choice(T) == CHOOSE x \in T : TRUE

(* h gives every subset of D the sum of f over it, as MapThenFoldSet does. *)
Sums(h, f, D) ==
  h = [T \in SUBSET D |-> IF T = {} THEN 0
                          ELSE f[Choice(T)] + h[T \ {Choice(T)}]]

LEMMA ChoiceIn == \A T : T # {} => Choice(T) \in T
  BY DEF Choice

LEMMA SumsStep ==
  ASSUME NEW h, NEW f, NEW D, Sums(h, f, D), NEW T \in SUBSET D
  PROVE  h[T] = IF T = {} THEN 0 ELSE f[Choice(T)] + h[T \ {Choice(T)}]
  BY DEF Sums

(* There is one sum of the same values.                                    *)
LEMMA SumsUnique ==
  ASSUME NEW D, IsFiniteSet(D), NEW A, NEW B, D \subseteq A, D \subseteq B,
         NEW f, NEW g, \A x \in D : f[x] = g[x],
         NEW h, Sums(h, f, A), NEW k, Sums(k, g, B)
  PROVE  \A T \in SUBSET D : h[T] = k[T]
  <1> DEFINE P == {T \in SUBSET D : h[T] = k[T]}
  <1>1. ASSUME NEW T \in SUBSET D, \A U \in SUBSET T : U # T => U \in P
        PROVE  T \in P
    <2>1. /\ h[T] = IF T = {} THEN 0 ELSE f[Choice(T)] + h[T \ {Choice(T)}]
          /\ k[T] = IF T = {} THEN 0 ELSE g[Choice(T)] + k[T \ {Choice(T)}]
      BY SumsStep
    <2>2. CASE T = {}
      BY <2>1, <2>2
    <2>3. CASE T # {}
      <3>1. /\ f[Choice(T)] = g[Choice(T)]
            /\ T \ {Choice(T)} \in SUBSET T /\ T \ {Choice(T)} # T
        BY <2>3, ChoiceIn
      <3>2. h[T \ {Choice(T)}] = k[T \ {Choice(T)}]
        BY <1>1, <3>1
      <3> QED
        BY <2>1, <2>3, <3>1, <3>2
    <2> QED
      BY <2>2, <2>3
  <1>2. SUBSET D \subseteq P
    <2> HIDE DEF P
    <2> QED
      BY <1>1, SubsetInduction
  <1> QED
    BY <1>2

(* There is a sum.                                                         *)
LEMMA SumsExist ==
  ASSUME NEW D, IsFiniteSet(D), NEW f
  PROVE  \E h : Sums(h, f, D)
  <1> DEFINE P == {T \in SUBSET D : \E h : Sums(h, f, T)}
             Sum(U) == (CHOOSE h : Sums(h, f, U))[U]
  <1>1. ASSUME NEW T \in SUBSET D, \A U \in SUBSET T : U # T => U \in P
        PROVE  T \in P
    <2> DEFINE V(s) == IF s = {} THEN 0 ELSE f[Choice(s)] + Sum(s \ {Choice(s)})
               h == [s \in SUBSET T |-> V(s)]
    <2>1. \A U \in SUBSET T : U # T => Sums(CHOOSE k : Sums(k, f, U), f, U)
      BY <1>1
    <2>2. ASSUME NEW s \in SUBSET T, s # T
          PROVE  Sum(s) = V(s)
      <3> DEFINE k == CHOOSE k : Sums(k, f, s)
                 u == s \ {Choice(s)}
                 m == CHOOSE m : Sums(m, f, u)
      <3>1. Sums(k, f, s)
        BY <2>1, <2>2
      <3>2. Sum(s) = IF s = {} THEN 0 ELSE f[Choice(s)] + k[u]
        <4> HIDE DEF k
        <4> QED
          BY <3>1, SumsStep DEF k
      <3>3. CASE s = {}
        BY <3>2, <3>3
      <3>4. CASE s # {}
        <4>1. u \in SUBSET T /\ u # T /\ u \subseteq s
          BY <2>2
        <4>2. Sums(m, f, u)
          BY <2>1, <4>1
        <4>3. IsFiniteSet(u)
          BY <4>1, FS_Subset
        <4>4. k[u] = m[u]
          <5> HIDE DEF k, m, u
          <5> QED
            BY <3>1, <4>1, <4>2, <4>3, SumsUnique
        <4> QED
          BY <3>2, <3>4, <4>4
      <3> QED
        BY <3>3, <3>4
    <2>3. \A s \in SUBSET T : s # {} => h[s \ {Choice(s)}] = Sum(s \ {Choice(s)})
      <3> SUFFICES ASSUME NEW s \in SUBSET T, s # {}
                   PROVE  h[s \ {Choice(s)}] = Sum(s \ {Choice(s)})
        OBVIOUS
      <3>1. s \ {Choice(s)} \in SUBSET T /\ s \ {Choice(s)} # T
        BY ChoiceIn
      <3>2. h[s \ {Choice(s)}] = V(s \ {Choice(s)})
        BY <3>1
      <3> HIDE DEF V, Sum, h
      <3> QED
        BY <2>2, <3>1, <3>2
    <2>4. \A s \in SUBSET T :
            V(s) = IF s = {} THEN 0 ELSE f[Choice(s)] + h[s \ {Choice(s)}]
      <3> HIDE DEF Sum, h
      <3> QED
        BY <2>3
    <2>5. Sums(h, f, T)
      <3>1. h = [s \in SUBSET T |-> IF s = {} THEN 0
                                    ELSE f[Choice(s)] + h[s \ {Choice(s)}]]
        <4>1. h = [s \in SUBSET T |-> V(s)]
          OBVIOUS
        <4> HIDE DEF V, h
        <4> QED
          BY <2>4, <4>1
      <3> QED
        BY <3>1 DEF Sums
    <2> QED
      BY <2>5
  <1>2. SUBSET D \subseteq P
    <2> HIDE DEF P
    <2> QED
      BY <1>1, SubsetInduction
  <1> QED
    BY <1>2

LEMMA SumsType ==
  ASSUME NEW D, IsFiniteSet(D), NEW f, \A x \in D : f[x] \in Nat,
         NEW h, Sums(h, f, D)
  PROVE  \A T \in SUBSET D : h[T] \in Nat
  <1> DEFINE P == {T \in SUBSET D : h[T] \in Nat}
  <1>1. ASSUME NEW T \in SUBSET D, \A U \in SUBSET T : U # T => U \in P
        PROVE  T \in P
    <2>1. h[T] = IF T = {} THEN 0 ELSE f[Choice(T)] + h[T \ {Choice(T)}]
      BY SumsStep
    <2>2. CASE T = {}
      BY <2>1, <2>2
    <2>3. CASE T # {}
      <3>1. /\ f[Choice(T)] \in Nat
            /\ T \ {Choice(T)} \in SUBSET T /\ T \ {Choice(T)} # T
        BY <2>3, ChoiceIn
      <3>2. h[T \ {Choice(T)}] \in Nat
        BY <1>1, <3>1
      <3> QED
        BY <2>1, <2>3, <3>1, <3>2
    <2> QED
      BY <2>2, <2>3
  <1>2. SUBSET D \subseteq P
    <2> HIDE DEF P
    <2> QED
      BY <1>1, SubsetInduction
  <1> QED
    BY <1>2

(* The order in which the sum is taken does not matter.                    *)
LEMMA SumsRemove ==
  ASSUME NEW D, IsFiniteSet(D), NEW f, \A x \in D : f[x] \in Nat,
         NEW h, Sums(h, f, D)
  PROVE  \A T \in SUBSET D : \A x \in T : h[T] = f[x] + h[T \ {x}]
  <1> DEFINE P == {T \in SUBSET D : \A x \in T : h[T] = f[x] + h[T \ {x}]}
  <1>1. ASSUME NEW T \in SUBSET D, \A U \in SUBSET T : U # T => U \in P
        PROVE  T \in P
    <2> SUFFICES ASSUME NEW x \in T PROVE h[T] = f[x] + h[T \ {x}]
      OBVIOUS
    <2> DEFINE y == Choice(T)
    <2>1. y \in T /\ h[T] = f[y] + h[T \ {y}]
      BY SumsStep, ChoiceIn
    <2> HIDE DEF y
    <2>2. CASE x = y
      BY <2>1, <2>2
    <2>3. CASE x # y
      <3> DEFINE R == (T \ {x}) \ {y}
      <3>1. (T \ {y}) \ {x} = R
        OBVIOUS
      <3>2. h[T \ {y}] = f[x] + h[R]
        <4>1. T \ {y} \in P /\ x \in T \ {y}
          BY <1>1, <2>1, <2>3
        <4> QED
          BY <3>1, <4>1
      <3>3. h[T \ {x}] = f[y] + h[R]
        <4>1. T \ {x} \in P /\ y \in T \ {x}
          BY <1>1, <2>1, <2>3
        <4> QED
          BY <4>1
      <3>4. f[x] \in Nat /\ f[y] \in Nat /\ h[R] \in Nat
        <4>1. R \in SUBSET D
          OBVIOUS
        <4> QED
          BY <2>1, <4>1, SumsType
      <3> HIDE DEF R
      <3> QED
        BY <2>1, <3>2, <3>3, <3>4
    <2> QED
      BY <2>2, <2>3
  <1>2. SUBSET D \subseteq P
    <2> HIDE DEF P
    <2> QED
      BY <1>1, SubsetInduction
  <1> QED
    BY <1>2

(* The sum of f over a finite set S.                                       *)
SumOver(f, S) == (CHOOSE h : Sums(h, f, S))[S]

LEMMA SumIs ==
  ASSUME NEW S, IsFiniteSet(S), NEW f, NEW k, Sums(k, f, S)
  PROVE  k[S] = SumOver(f, S)
  <1> DEFINE h == CHOOSE h : Sums(h, f, S)
  <1>1. Sums(h, f, S)
    BY SumsExist
  <1> HIDE DEF h
  <1>2. h[S] = k[S]
    BY <1>1, SumsUnique
  <1> QED
    BY <1>2 DEF SumOver, h

LEMMA SumEmpty == ASSUME NEW f PROVE SumOver(f, {}) = 0
  <1> DEFINE h == CHOOSE h : Sums(h, f, {})
  <1>1. Sums(h, f, {})
    BY SumsExist, FS_EmptySet
  <1> HIDE DEF h
  <1>2. h[{}] = 0
    BY <1>1, SumsStep
  <1> QED
    BY <1>2 DEF SumOver, h

LEMMA SumType ==
  ASSUME NEW S, IsFiniteSet(S), NEW f, \A x \in S : f[x] \in Nat
  PROVE  SumOver(f, S) \in Nat
  <1> DEFINE h == CHOOSE h : Sums(h, f, S)
  <1>1. Sums(h, f, S)
    BY SumsExist
  <1> HIDE DEF h
  <1>2. h[S] \in Nat
    BY <1>1, SumsType
  <1> QED
    BY <1>2 DEF SumOver, h

LEMMA SumAdd ==
  ASSUME NEW S, IsFiniteSet(S), NEW y, y \notin S, NEW f, NEW g,
         \A x \in S \cup {y} : f[x] \in Nat, \A x \in S : g[x] = f[x]
  PROVE  SumOver(f, S \cup {y}) = SumOver(g, S) + f[y]
  <1> DEFINE A == S \cup {y}
             h == CHOOSE h : Sums(h, f, A)
             k == CHOOSE k : Sums(k, g, S)
  <1>1. IsFiniteSet(A)
    BY FS_AddElement
  <1>2. Sums(h, f, A) /\ Sums(k, g, S)
    BY <1>1, SumsExist
  <1> HIDE DEF h, k
  <1>3. h[A] = f[y] + h[A \ {y}] /\ A \ {y} = S
    BY <1>1, <1>2, SumsRemove
  <1>4. h[S] = k[S]
    <2> HIDE DEF A
    <2>1. S \subseteq A /\ S \subseteq S /\ S \in SUBSET S
      BY DEF A
    <2>2. \A x \in S : f[x] = g[x]
      OBVIOUS
    <2>3. \A T \in SUBSET S : h[T] = k[T]
      BY <1>2, <2>1, <2>2, SumsUnique
    <2> QED
      BY <2>1, <2>3
  <1>5. h[S] \in Nat /\ f[y] \in Nat
    BY <1>1, <1>2, SumsType
  <1>6. SumOver(f, S \cup {y}) = h[A] /\ SumOver(g, S) = k[S]
    BY DEF SumOver, h, k
  <1> HIDE DEF A
  <1>7. h[A] = f[y] + h[S]
    BY <1>3
  <1>8. h[A] = h[S] + f[y]
    BY <1>5, <1>7
  <1> QED
    BY <1>4, <1>6, <1>8

(* MapThenSumSet is that sum.                                              *)
LEMMA TotalIsSum ==
  ASSUME NEW S, IsFiniteSet(S)
  PROVE  Total(S) = SumOver([e \in S |-> e.latency], S)
  <1> DEFINE f == [e \in S |-> e.latency]
             Body(iter) == [s \in SUBSET S |->
                              IF s = {} THEN 0
                              ELSE LET x == CHOOSE x \in s : TRUE
                                   IN  x.latency + iter[s \ {x}]]
             iter0 == CHOOSE iter : iter = Body(iter)
  <1>1. Total(S) = iter0[S]
    BY DEF Total, MapThenSumSet, MapThenFoldSet
  <1>2. \A iter : iter = Body(iter) <=> Sums(iter, f, S)
    <2> SUFFICES ASSUME NEW iter PROVE iter = Body(iter) <=> Sums(iter, f, S)
      OBVIOUS
    <2>1. \A s \in SUBSET S : s # {} => f[Choice(s)] = Choice(s).latency
      BY ChoiceIn
    <2>2. Body(iter) = [s \in SUBSET S |-> IF s = {} THEN 0
                                           ELSE f[Choice(s)] + iter[s \ {Choice(s)}]]
      <3> HIDE DEF f
      <3> QED
        BY <2>1 DEF Choice
    <2> QED
      BY <2>2 DEF Sums
  <1>3. Sums(iter0, f, S)
    <2>1. PICK h : Sums(h, f, S)
      BY SumsExist
    <2> HIDE DEF Body, f
    <2>2. \E iter : iter = Body(iter)
      BY <1>2, <2>1
    <2> QED
      BY <1>2, <2>2
  <1>4. iter0[S] = SumOver(f, S)
    <2> HIDE DEF iter0, f
    <2> QED
      BY <1>3, SumIs
  <1> QED
    BY <1>1, <1>4

LEMMA SquaresIsSum ==
  ASSUME NEW S, IsFiniteSet(S)
  PROVE  Squares(S) = SumOver([e \in S |-> e.latency * e.latency], S)
  <1> DEFINE f == [e \in S |-> e.latency * e.latency]
             Body(iter) == [s \in SUBSET S |->
                              IF s = {} THEN 0
                              ELSE LET x == CHOOSE x \in s : TRUE
                                   IN  x.latency * x.latency + iter[s \ {x}]]
             iter0 == CHOOSE iter : iter = Body(iter)
  <1>1. Squares(S) = iter0[S]
    BY DEF Squares, MapThenSumSet, MapThenFoldSet
  <1>2. \A iter : iter = Body(iter) <=> Sums(iter, f, S)
    <2> SUFFICES ASSUME NEW iter PROVE iter = Body(iter) <=> Sums(iter, f, S)
      OBVIOUS
    <2>1. \A s \in SUBSET S : s # {} => f[Choice(s)] = Choice(s).latency * Choice(s).latency
      BY ChoiceIn
    <2>2. Body(iter) = [s \in SUBSET S |-> IF s = {} THEN 0
                                           ELSE f[Choice(s)] + iter[s \ {Choice(s)}]]
      <3> HIDE DEF f
      <3> QED
        BY <2>1 DEF Choice
    <2> QED
      BY <2>2 DEF Sums
  <1>3. Sums(iter0, f, S)
    <2>1. PICK h : Sums(h, f, S)
      BY SumsExist
    <2> HIDE DEF Body, f
    <2>2. \E iter : iter = Body(iter)
      BY <1>2, <2>1
    <2> QED
      BY <1>2, <2>2
  <1>4. iter0[S] = SumOver(f, S)
    <2> HIDE DEF iter0, f
    <2> QED
      BY <1>3, SumIs
  <1> QED
    BY <1>1, <1>4

LEMMA TransferredIsSum ==
  ASSUME NEW S, IsFiniteSet(S)
  PROVE  Transferred(S) = SumOver([e \in S |-> e.bytes], S)
  <1> DEFINE f == [e \in S |-> e.bytes]
             Body(iter) == [s \in SUBSET S |->
                              IF s = {} THEN 0
                              ELSE LET x == CHOOSE x \in s : TRUE
                                   IN  x.bytes + iter[s \ {x}]]
             iter0 == CHOOSE iter : iter = Body(iter)
  <1>1. Transferred(S) = iter0[S]
    BY DEF Transferred, MapThenSumSet, MapThenFoldSet
  <1>2. \A iter : iter = Body(iter) <=> Sums(iter, f, S)
    <2> SUFFICES ASSUME NEW iter PROVE iter = Body(iter) <=> Sums(iter, f, S)
      OBVIOUS
    <2>1. \A s \in SUBSET S : s # {} => f[Choice(s)] = Choice(s).bytes
      BY ChoiceIn
    <2>2. Body(iter) = [s \in SUBSET S |-> IF s = {} THEN 0
                                           ELSE f[Choice(s)] + iter[s \ {Choice(s)}]]
      <3> HIDE DEF f
      <3> QED
        BY <2>1 DEF Choice
    <2> QED
      BY <2>2 DEF Sums
  <1>3. Sums(iter0, f, S)
    <2>1. PICK h : Sums(h, f, S)
      BY SumsExist
    <2> HIDE DEF Body, f
    <2>2. \E iter : iter = Body(iter)
      BY <1>2, <2>1
    <2> QED
      BY <1>2, <2>2
  <1>4. iter0[S] = SumOver(f, S)
    <2> HIDE DEF iter0, f
    <2> QED
      BY <1>3, SumIs
  <1> QED
    BY <1>1, <1>4

----------------------------------------------------------------------------
(* What RunningStats::record computes.  The mean is a/b, the deviation p/q *)
(* and n the count; T and Q are the sums of the latencies and of their     *)
(* squares, and x is the next latency.                                     *)

LEMMA CancelFactor ==
  ASSUME NEW n \in Int, n # 0, NEW y \in Int, NEW z \in Int, n * y = n * z
  PROVE  y = z
  OBVIOUS

LEMMA NextMean ==
  ASSUME NEW a \in Int, NEW b \in Int, NEW n \in Int, NEW x \in Int,
         NEW T \in Int, a * n = T * b
  PROVE  (b * (a * n + x * b)) * (n + 1) = (T + x) * (b * b * (n + 1))
  <1>1. b * (a * n + x * b) = b * (T * b + x * b)
    OBVIOUS
  <1>2. b * (T * b + x * b) = (T + x) * (b * b)
    OBVIOUS
  <1>3. ((T + x) * (b * b)) * (n + 1) = (T + x) * (b * b * (n + 1))
    OBVIOUS
  <1> QED
    BY <1>1, <1>2, <1>3

LEMMA NextSpread ==
  ASSUME NEW n \in Int, NEW x \in Int, NEW T \in Int, NEW Q \in Int
  PROVE  (n * Q - T * T) * (n + 1) + (x * n - T) * (x * n - T)
           = n * ((n + 1) * (Q + x * x) - (T + x) * (T + x))
  OBVIOUS

LEMMA NextDeviation ==
  ASSUME NEW a \in Int, NEW b \in Int, NEW p \in Int, NEW q \in Int,
         NEW n \in Int, n # 0, NEW x \in Int, NEW T \in Int, NEW Q \in Int,
         a * n = T * b, p * n = (n * Q - T * T) * q
  PROVE  (p * (b * b * (n + 1)) + (x * b - a) * (x * b - a) * n * q)
           = ((n + 1) * (Q + x * x) - (T + x) * (T + x)) * (q * (b * b))
  <1> DEFINE u == x * b - a
             W == (n + 1) * (Q + x * x) - (T + x) * (T + x)
             Y == p * (b * b * (n + 1)) + u * u * n * q
             Z == W * (q * (b * b))
             v == x * n - T
  <1>1. u \in Int /\ W \in Int /\ v \in Int /\ Y \in Int /\ Z \in Int
    OBVIOUS
  <1>2. u * n = b * v
    OBVIOUS
  <1>3. (n * Q - T * T) * (n + 1) + v * v = n * W
    BY NextSpread
  <1> HIDE DEF u, W, v
  <1>4. n * Y = (p * n) * (b * b * (n + 1)) + (u * n) * (u * n) * q
    BY <1>1
  <1>5. n * Y = ((n * Q - T * T) * q) * (b * b * (n + 1)) + (b * v) * (b * v) * q
    BY <1>2, <1>4
  <1>6. ((n * Q - T * T) * q) * (b * b * (n + 1)) + (b * v) * (b * v) * q
          = ((n * Q - T * T) * (n + 1) + v * v) * (q * (b * b))
    BY <1>1
  <1>7. (n * W) * (q * (b * b)) = n * Z
    BY <1>1
  <1>8. n * Y = n * Z
    BY <1>3, <1>5, <1>6, <1>7
  <1>9. Y = Z
    <2> HIDE DEF Y, Z
    <2> QED
      BY <1>1, <1>8, CancelFactor
  <1> QED
    BY <1>9 DEF u, W

AnyStats == [count : Nat, bytes : Nat, mean : Fractions, deviation : Fractions]

(* The fractions that Recorded returns.                                    *)
NewMean(a, b, n, x) == <<b * (a * n + x * b), b * b * (n + 1)>>

NewDeviation(a, b, p, q, n, x) ==
  LET u == x * b - a
      d == b * b * (n + 1)
  IN  <<p * (b * d) + u * u * b * n * q, q * (b * d)>>

LEMMA RecordedFractions ==
  ASSUME NEW s \in AnyStats, NEW x \in Nat, NEW m \in Nat
  PROVE  /\ Recorded(s, x, m).mean = NewMean(s.mean[1], s.mean[2], s.count, x)
         /\ Recorded(s, x, m).deviation = NewDeviation(s.mean[1], s.mean[2],
              s.deviation[1], s.deviation[2], s.count, x)
         /\ Recorded(s, x, m).count = s.count + 1
         /\ Recorded(s, x, m).bytes = s.bytes + m
  <1>a. PICK a \in Nat, b \in Nat \ {0} : s.mean = <<a, b>>
    BY DEF AnyStats, Fractions
  <1>b. PICK p \in Nat, q \in Nat \ {0} : s.deviation = <<p, q>>
    BY DEF AnyStats, Fractions
  <1>c. PICK n \in Nat : s.count = n
    BY DEF AnyStats
  <1> DEFINE u == x * b - a
             d == b * b * (n + 1)
             c == b * (a * n + x * b)
             delta == Minus(<<x, 1>>, s.mean)
             mean  == Plus(s.mean, Times(delta, <<1, s.count + 1>>))
             after == Minus(<<x, 1>>, mean)
             dev   == Plus(s.deviation, Times(delta, after))
  <1>0. Recorded(s, x, m) = [count |-> s.count + 1, bytes |-> s.bytes + m,
                             mean |-> mean, deviation |-> dev]
    BY DEF Recorded
  <1>1. u \in Int /\ d \in Int /\ c \in Int
    OBVIOUS
  <1>2. delta = <<u, b>>
    <2>1. delta = <<x * b - a * 1, 1 * b>>
      BY <1>a DEF Minus
    <2>2. x * b - a * 1 = u /\ 1 * b = b
      OBVIOUS
    <2> QED
      BY <2>1, <2>2
  <1>3. mean = <<c, d>>
    <2> HIDE DEF delta
    <2>1. mean = <<a * (b * (n + 1)) + (u * 1) * b, b * (b * (n + 1))>>
      BY <1>a, <1>c, <1>2 DEF Plus, Times
    <2>2. a * (b * (n + 1)) + (u * 1) * b = c
      OBVIOUS
    <2>3. b * (b * (n + 1)) = d
      OBVIOUS
    <2> QED
      BY <2>1, <2>2, <2>3
  <1>4. after = <<u * b * n, d>>
    <2>1. after = <<x * d - c * 1, 1 * d>>
      <3> HIDE DEF mean, c, d
      <3> QED
        BY <1>3 DEF Minus
    <2>2. x * d - c * 1 = u * b * n
      OBVIOUS
    <2>3. 1 * d = d
      BY <1>1
    <2> QED
      BY <2>1, <2>2, <2>3
  <1>5. dev = <<p * (b * d) + u * u * b * n * q, q * (b * d)>>
    <2> HIDE DEF delta, after, u, d
    <2>1. dev = <<p * (b * d) + (u * (u * b * n)) * q, q * (b * d)>>
      BY <1>b, <1>2, <1>4 DEF Plus, Times
    <2>2. (u * (u * b * n)) * q = u * u * b * n * q
      BY <1>1
    <2> QED
      BY <2>1, <2>2
  <1> HIDE DEF mean, dev, c, d, u
  <1>6. /\ Recorded(s, x, m).mean = <<c, d>>
        /\ Recorded(s, x, m).deviation = <<p * (b * d) + u * u * b * n * q, q * (b * d)>>
        /\ Recorded(s, x, m).count = n + 1
        /\ Recorded(s, x, m).bytes = s.bytes + m
    BY <1>0, <1>3, <1>5, <1>c
  <1> QED
    BY <1>6, <1>a, <1>b, <1>c DEF NewMean, NewDeviation, c, d, u

(* s sums up latencies whose sum is T and whose squares sum up to Q.       *)
Exact(s, T, Q) ==
  /\ s.count = 0 => s.mean = Zero /\ s.deviation = Zero
  /\ Equals(s.mean, <<T, s.count>>)
  /\ Equals(s.deviation, <<s.count * Q - T * T, s.count>>)

LEMMA NatTimes == \A i, j \in Nat : i * j \in Nat
  OBVIOUS

LEMMA PositiveTimes == \A i, j \in Nat \ {0} : i * j \in Nat \ {0}
  OBVIOUS

LEMMA SquareIsNat == \A i \in Int : i * i \in Nat
  OBVIOUS

(* The count, mean and deviation that record keeps are again exact.        *)
LEMMA RecordedExact ==
  ASSUME NEW s \in AnyStats, NEW x \in Nat, NEW m \in Nat,
         NEW T \in Nat, NEW Q \in Nat, Exact(s, T, Q),
         s.count = 0 => T = 0 /\ Q = 0
  PROVE  /\ Recorded(s, x, m) \in AnyStats
         /\ Recorded(s, x, m).count = s.count + 1
         /\ Recorded(s, x, m).bytes = s.bytes + m
         /\ Exact(Recorded(s, x, m), T + x, Q + x * x)
  <1>1. PICK a \in Nat, b \in Nat \ {0} : s.mean = <<a, b>>
    BY DEF AnyStats, Fractions
  <1>2. PICK p \in Nat, q \in Nat \ {0} : s.deviation = <<p, q>>
    BY DEF AnyStats, Fractions
  <1>3. PICK n \in Nat : s.count = n
    BY DEF AnyStats
  <1> DEFINE u == x * b - a
             d == b * b * (n + 1)
             r == Recorded(s, x, m)
             W == (n + 1) * (Q + x * x) - (T + x) * (T + x)
  <1>4. /\ r.mean = <<b * (a * n + x * b), d>>
        /\ r.deviation = <<p * (b * d) + u * u * b * n * q, q * (b * d)>>
        /\ r.count = n + 1 /\ r.bytes = s.bytes + m
    <2>1. /\ r.mean = NewMean(a, b, n, x)
          /\ r.deviation = NewDeviation(a, b, p, q, n, x)
          /\ r.count = n + 1 /\ r.bytes = s.bytes + m
      <3>1. r.mean = NewMean(s.mean[1], s.mean[2], s.count, x)
        BY RecordedFractions
      <3>2. r.deviation = NewDeviation(s.mean[1], s.mean[2], s.deviation[1],
                                       s.deviation[2], s.count, x)
        BY RecordedFractions
      <3>3. r.count = s.count + 1 /\ r.bytes = s.bytes + m
        BY RecordedFractions
      <3>4. /\ s.mean[1] = a /\ s.mean[2] = b
            /\ s.deviation[1] = p /\ s.deviation[2] = q
        BY <1>1, <1>2
      <3> HIDE DEF r
      <3> QED
        BY <1>3, <3>1, <3>2, <3>3, <3>4
    <2> HIDE DEF r
    <2> QED
      BY <2>1 DEF NewMean, NewDeviation
  <1>5. a * n = T * b /\ p * n = (n * Q - T * T) * q
    BY <1>1, <1>2, <1>3 DEF Exact, Equals
  <1>6. d \in Nat \ {0} /\ u \in Int /\ W \in Int
    <2>1. b * b \in Nat \ {0} /\ n + 1 \in Nat \ {0}
      BY PositiveTimes
    <2>2. d \in Nat \ {0}
      BY <2>1, PositiveTimes
    <2> QED
      BY <2>2
  <1>7. r \in AnyStats
    <2>1. r = [count |-> r.count, bytes |-> r.bytes, mean |-> r.mean,
               deviation |-> r.deviation]
      BY DEF Recorded
    <2>2. r.mean \in Fractions
      <3>1. a * n \in Nat /\ x * b \in Nat
        BY NatTimes
      <3>2. b * (a * n + x * b) \in Nat
        BY <3>1, NatTimes
      <3> HIDE DEF d
      <3> QED
        BY <1>4, <1>6, <3>2 DEF Fractions
    <2>3. r.deviation \in Fractions
      <3> HIDE DEF d, u
      <3>1. b * d \in Nat \ {0} /\ q * (b * d) \in Nat \ {0}
        BY <1>6, PositiveTimes
      <3>2. u * u \in Nat
        BY <1>6, SquareIsNat
      <3>3. u * u * b \in Nat
        BY <3>2, NatTimes
      <3>4. u * u * b * n \in Nat
        BY <3>3, NatTimes
      <3>5. u * u * b * n * q \in Nat
        BY <3>4, NatTimes
      <3>6. p * (b * d) \in Nat
        BY <3>1, NatTimes
      <3>7. p * (b * d) + u * u * b * n * q \in Nat
        BY <3>5, <3>6
      <3> QED
        BY <1>4, <3>1, <3>7 DEF Fractions
    <2>4. r.count \in Nat /\ r.bytes \in Nat
      BY <1>4 DEF AnyStats
    <2> HIDE DEF r
    <2> QED
      BY <2>1, <2>2, <2>3, <2>4 DEF AnyStats
  <1>8. Equals(r.mean, <<T + x, r.count>>)
    <2>1. (b * (a * n + x * b)) * (n + 1) = (T + x) * d
      BY <1>5, NextMean
    <2> HIDE DEF r, d
    <2> QED
      BY <1>4, <2>1 DEF Equals
  <1>9. (p * (b * d) + u * u * b * n * q) * (n + 1) = W * (q * (b * d))
    <2>1. p * (b * b * (n + 1)) + u * u * n * q = W * (q * (b * b))
      <3>1. CASE n = 0
        <4>1. a = 0 /\ p = 0 /\ T = 0 /\ Q = 0
          BY <1>1, <1>2, <1>3, <3>1 DEF Exact, Zero
        <4>2. W = 0
          BY <3>1, <4>1
        <4>3. u * u * n * q = 0
          <5>1. u * u * 0 = 0
            BY <1>6
          <5> QED
            BY <3>1, <5>1
        <4>4. p * (b * b * (n + 1)) = 0
          BY <4>1
        <4>5. W * (q * (b * b)) = 0
          BY <4>2
        <4> HIDE DEF u, W
        <4> QED
          BY <4>3, <4>4, <4>5
      <3>2. CASE n # 0
        BY <1>5, <3>2, NextDeviation
      <3> QED
        BY <3>1, <3>2
    <2> HIDE DEF u, W
    <2>2. (p * (b * d) + u * u * b * n * q) * (n + 1)
            = (p * (b * b * (n + 1)) + u * u * n * q) * (b * (n + 1))
      BY <1>6
    <2>3. (W * (q * (b * b))) * (b * (n + 1)) = W * (q * (b * d))
      BY <1>6
    <2> QED
      BY <2>1, <2>2, <2>3
  <1>10. Equals(r.deviation, <<r.count * (Q + x * x) - (T + x) * (T + x), r.count>>)
    <2> HIDE DEF r, d, u
    <2> QED
      BY <1>4, <1>9 DEF Equals
  <1>11. r.count # 0
    BY <1>4
  <1> HIDE DEF r
  <1>12. Exact(r, T + x, Q + x * x)
    BY <1>8, <1>10, <1>11 DEF Exact
  <1> QED
    BY <1>3, <1>4, <1>7, <1>12 DEF r

----------------------------------------------------------------------------
(* The sums over the requests that have ended.                             *)
LEMMA Constants ==
  /\ Sizes \subseteq Nat \ {0} /\ Latencies \subseteq Nat /\ MaxBytes \in Nat
  /\ IsFiniteSet(Requests) /\ Cardinality(Requests) \in Nat
  BY IoAssumption, FS_CardinalityType

LEMMA OutcomeNumbers ==
  ASSUME NEW e \in Outcomes
  PROVE  e.latency \in Nat /\ e.bytes \in Nat /\ e.latency * e.latency \in Nat
  <1>1. e.latency \in Nat /\ e.bytes \in Nat
    BY Constants DEF Outcomes
  <1> QED
    BY <1>1, NatTimes

LEMMA OutcomeSums ==
  ASSUME NEW S, IsFiniteSet(S), S \subseteq Outcomes
  PROVE  Total(S) \in Nat /\ Squares(S) \in Nat /\ Transferred(S) \in Nat
  <1>1. \A e \in S : e.latency \in Nat /\ e.bytes \in Nat /\ e.latency * e.latency \in Nat
    BY OutcomeNumbers
  <1>2. Total(S) \in Nat
    <2> DEFINE f == [e \in S |-> e.latency]
    <2>1. \A e \in S : f[e] \in Nat
      BY <1>1
    <2>2. Total(S) = SumOver(f, S)
      BY TotalIsSum
    <2> HIDE DEF f
    <2> QED
      BY <2>1, <2>2, SumType
  <1>3. Squares(S) \in Nat
    <2> DEFINE f == [e \in S |-> e.latency * e.latency]
    <2>1. \A e \in S : f[e] \in Nat
      BY <1>1
    <2>2. Squares(S) = SumOver(f, S)
      BY SquaresIsSum
    <2> HIDE DEF f
    <2> QED
      BY <2>1, <2>2, SumType
  <1>4. Transferred(S) \in Nat
    <2> DEFINE f == [e \in S |-> e.bytes]
    <2>1. \A e \in S : f[e] \in Nat
      BY <1>1
    <2>2. Transferred(S) = SumOver(f, S)
      BY TransferredIsSum
    <2> HIDE DEF f
    <2> QED
      BY <2>1, <2>2, SumType
  <1> QED
    BY <1>2, <1>3, <1>4

LEMMA NoOutcomes == Total({}) = 0 /\ Squares({}) = 0 /\ Transferred({}) = 0
  BY FS_EmptySet, SumEmpty, TotalIsSum, SquaresIsSum, TransferredIsSum

LEMMA OneMoreOutcome ==
  ASSUME NEW S, IsFiniteSet(S), S \subseteq Outcomes, NEW y \in Outcomes, y \notin S
  PROVE  /\ Total(S \cup {y}) = Total(S) + y.latency
         /\ Squares(S \cup {y}) = Squares(S) + y.latency * y.latency
         /\ Transferred(S \cup {y}) = Transferred(S) + y.bytes
  <1> DEFINE A == S \cup {y}
  <1>1. \A e \in A : e.latency \in Nat /\ e.bytes \in Nat /\ e.latency * e.latency \in Nat
    BY OutcomeNumbers
  <1>2. IsFiniteSet(A)
    BY FS_AddElement
  <1>3. Total(A) = Total(S) + y.latency
    <2> DEFINE f == [e \in A |-> e.latency]
               g == [e \in S |-> e.latency]
    <2>1. /\ \A e \in S \cup {y} : f[e] \in Nat
          /\ \A e \in S : g[e] = f[e]
          /\ f[y] = y.latency
      BY <1>1
    <2>2. Total(A) = SumOver(f, S \cup {y}) /\ Total(S) = SumOver(g, S)
      BY <1>2, TotalIsSum
    <2> HIDE DEF f, g, A
    <2>3. SumOver(f, S \cup {y}) = SumOver(g, S) + f[y]
      BY <2>1, SumAdd
    <2> QED
      BY <2>1, <2>2, <2>3
  <1>4. Squares(A) = Squares(S) + y.latency * y.latency
    <2> DEFINE f == [e \in A |-> e.latency * e.latency]
               g == [e \in S |-> e.latency * e.latency]
    <2>1. /\ \A e \in S \cup {y} : f[e] \in Nat
          /\ \A e \in S : g[e] = f[e]
          /\ f[y] = y.latency * y.latency
      BY <1>1
    <2>2. Squares(A) = SumOver(f, S \cup {y}) /\ Squares(S) = SumOver(g, S)
      BY <1>2, SquaresIsSum
    <2> HIDE DEF f, g, A
    <2>3. SumOver(f, S \cup {y}) = SumOver(g, S) + f[y]
      BY <2>1, SumAdd
    <2> QED
      BY <2>1, <2>2, <2>3
  <1>5. Transferred(A) = Transferred(S) + y.bytes
    <2> DEFINE f == [e \in A |-> e.bytes]
               g == [e \in S |-> e.bytes]
    <2>1. /\ \A e \in S \cup {y} : f[e] \in Nat
          /\ \A e \in S : g[e] = f[e]
          /\ f[y] = y.bytes
      BY <1>1
    <2>2. Transferred(A) = SumOver(f, S \cup {y}) /\ Transferred(S) = SumOver(g, S)
      BY <1>2, TransferredIsSum
    <2> HIDE DEF f, g, A
    <2>3. SumOver(f, S \cup {y}) = SumOver(g, S) + f[y]
      BY <2>1, SumAdd
    <2> QED
      BY <2>1, <2>2, <2>3
  <1> QED
    BY <1>3, <1>4, <1>5

(* A request ends once, so there are no more outcomes than requests.       *)
OnceEach(E) == \A d, e \in E : d.request = e.request => d = e

LEMMA OutcomesAreFinite ==
  ASSUME NEW E, E \subseteq Outcomes, OnceEach(E)
  PROVE  IsFiniteSet(E) /\ Cardinality(E) <= Cardinality(Requests)
  <1> DEFINE f == [e \in E |-> e.request]
  <1>1. f \in [E -> Requests]
    BY DEF Outcomes
  <1>2. \A d, e \in E : f[d] = f[e] => d = e
    BY DEF OnceEach
  <1>3. f \in Injection(E, Requests)
    <2> HIDE DEF f
    <2>1. DOMAIN f = E
      BY <1>1
    <2> QED
      BY <1>1, <1>2, <2>1 DEF Injection, IsInjective
  <1> HIDE DEF f
  <1> QED
    BY <1>3, Constants, FS_Injection

----------------------------------------------------------------------------
(* The statistics of every kind: what the invariant says of stats, ended.  *)
StatsOK ==
  /\ stats \in [Kinds -> Stats]
  /\ ended \subseteq Outcomes
  /\ OnceEach(ended)
  /\ \A k \in Kinds \ WithBytes : stats[k].bytes = 0
  /\ CountedOnce
  /\ RunningStatsAreExact

(* What a step leaves of the statistics: they only grow.                   *)
StatsGrow ==
  /\ ended \subseteq ended'
  /\ \A k \in Kinds : /\ stats[k].count <= stats'[k].count
                      /\ stats[k].bytes <= stats'[k].bytes

(* A request that has not ended before ends and is recorded.               *)
LEMMA RecordStep ==
  ASSUME StatsOK, NEW k \in Kinds, NEW r \in Requests, NEW x \in Latencies,
         NEW m \in Nat, m # 0 => k \in WithBytes, \A e \in ended : e.request # r,
         Record(k, x, m), Ends(r, k, x, m)
  PROVE  StatsOK' /\ StatsGrow
         /\ \A q \in Requests : (\E e \in ended' : e.request = q)
                                  <=> (q = r \/ \E e \in ended : e.request = q)
  <1> DEFINE y == [request |-> r, kind |-> k, latency |-> x, bytes |-> m]
             S == EndedOf(k)
             s == stats[k]
  <1>1. ended' = ended \cup {y} /\ y \notin ended
    BY DEF Ends
  <1>2. y \in Outcomes /\ y.request = r /\ y.kind = k /\ y.latency = x /\ y.bytes = m
    BY DEF Outcomes
  <1> HIDE DEF y
  <1>3. ended' \subseteq Outcomes /\ OnceEach(ended')
    BY <1>1, <1>2 DEF StatsOK, OnceEach
  <1>4. ASSUME NEW j \in Kinds, j # k
        PROVE  EndedOf(j)' = EndedOf(j) /\ stats'[j] = stats[j]
    <2>1. EndedOf(j)' = EndedOf(j)
      BY <1>1, <1>2, <1>4 DEF EndedOf
    <2>2. stats'[j] = stats[j]
      BY <1>4 DEF Record, StatsOK
    <2> QED
      BY <2>1, <2>2
  <1>5. EndedOf(k)' = S \cup {y} /\ y \notin S
    BY <1>1, <1>2 DEF EndedOf
  <1>6. stats'[k] = Recorded(s, x, m)
    BY DEF Record, StatsOK
  <1>7. S \subseteq Outcomes /\ IsFiniteSet(S)
    <2>1. IsFiniteSet(ended) /\ S \subseteq ended
      BY OutcomesAreFinite DEF StatsOK, EndedOf
    <2> QED
      BY <2>1, FS_Subset DEF StatsOK
  <1>8. S \cup {y} \subseteq Outcomes /\ OnceEach(S \cup {y})
    BY <1>1, <1>3 DEF OnceEach, EndedOf
  <1> HIDE DEF S, s
  <1>9. /\ Cardinality(S) \in Nat /\ Cardinality(S \cup {y}) = Cardinality(S) + 1
        /\ Cardinality(S \cup {y}) <= Cardinality(Requests)
    <2>1. Cardinality(S) \in Nat
      BY <1>7, FS_CardinalityType
    <2>2. Cardinality(S \cup {y}) = Cardinality(S) + 1
      BY <1>5, <1>7, FS_AddElement
    <2>3. Cardinality(S \cup {y}) <= Cardinality(Requests)
      BY <1>8, OutcomesAreFinite
    <2> QED
      BY <2>1, <2>2, <2>3
  <1>10. Total(S) \in Nat /\ Squares(S) \in Nat /\ Transferred(S) \in Nat
    BY <1>7, OutcomeSums
  <1>11. /\ Total(S \cup {y}) = Total(S) + x
         /\ Squares(S \cup {y}) = Squares(S) + x * x
         /\ Transferred(S \cup {y}) = Transferred(S) + m
    BY <1>2, <1>5, <1>7, OneMoreOutcome
  <1>12. s \in AnyStats /\ s.count = Cardinality(S) /\ s.bytes = Transferred(S)
    <2>1. s \in Stats
      BY DEF StatsOK, s
    <2>2. s.count = Cardinality(S) /\ s.bytes = Transferred(S)
      BY DEF StatsOK, CountedOnce, Counts, s, S
    <2>3. s \in AnyStats
      BY <2>1, Constants DEF Stats, AnyStats
    <2> QED
      BY <2>2, <2>3
  <1>13. Exact(s, Total(S), Squares(S))
    <2>1. /\ s.count = 0 => s.mean = Zero /\ s.deviation = Zero
          /\ Equals(s.mean, <<Total(S), s.count>>)
          /\ Equals(s.deviation, <<Spread(S), s.count>>)
      BY DEF StatsOK, RunningStatsAreExact, s, S
    <2> QED
      BY <1>12, <2>1 DEF Exact, Spread
  <1>14. s.count = 0 => Total(S) = 0 /\ Squares(S) = 0
    <2>1. s.count = 0 => S = {}
      BY <1>7, <1>12, FS_EmptySet
    <2> QED
      BY <2>1, NoOutcomes
  <1> DEFINE t == Recorded(s, x, m)
  <1>15. /\ t \in AnyStats /\ t.count = s.count + 1 /\ t.bytes = s.bytes + m
         /\ Exact(t, Total(S) + x, Squares(S) + x * x)
    <2>1. x \in Nat
      BY Constants
    <2> QED
      BY <1>10, <1>12, <1>13, <1>14, <2>1, RecordedExact
  <1> HIDE DEF t
  <1>16. stats'[k] = t
    BY <1>6 DEF t
  <1>17. t \in Stats
    <2>1. t.count \in 0 .. Cardinality(Requests)
      BY <1>9, <1>12, <1>15, Constants
    <2> QED
      BY <1>15, <2>1 DEF AnyStats, Stats
  <1>18. stats' \in [Kinds -> Stats]
    <2>1. stats' = [stats EXCEPT ![k] = t]
      BY DEF Record, t, s
    <2> QED
      BY <1>17, <2>1 DEF StatsOK
  <1>19. \A j \in Kinds \ WithBytes : stats'[j].bytes = 0
    <2> SUFFICES ASSUME NEW j \in Kinds \ WithBytes PROVE stats'[j].bytes = 0
      OBVIOUS
    <2>1. stats[j].bytes = 0
      BY DEF StatsOK
    <2>2. CASE j = k
      <3>1. m = 0 /\ s.bytes = 0
        BY <2>1, <2>2 DEF s
      <3> QED
        BY <1>15, <1>16, <2>2, <3>1
    <2>3. CASE j # k
      BY <1>4, <2>1, <2>3
    <2> QED
      BY <2>2, <2>3
  <1>20. CountedOnce'
    <2> SUFFICES ASSUME NEW j \in Kinds PROVE Counts(stats[j], EndedOf(j))'
      BY DEF CountedOnce
    <2>1. CASE j = k
      BY <1>5, <1>9, <1>11, <1>12, <1>15, <1>16, <2>1 DEF Counts
    <2>2. CASE j # k
      <3>1. Counts(stats[j], EndedOf(j))
        BY DEF StatsOK, CountedOnce
      <3> QED
        BY <1>4, <2>2, <3>1 DEF Counts
    <2> QED
      BY <2>1, <2>2
  <1>21. RunningStatsAreExact'
    <2> SUFFICES ASSUME NEW j \in Kinds
                 PROVE  /\ stats'[j].count = 0 => stats'[j].mean = Zero /\ stats'[j].deviation = Zero
                        /\ Equals(stats'[j].mean, <<Total(EndedOf(j)'), stats'[j].count>>)
                        /\ Equals(stats'[j].deviation, <<Spread(EndedOf(j)'), stats'[j].count>>)
      BY DEF RunningStatsAreExact
    <2>1. CASE j = k
      <3>1. Spread(S \cup {y}) = t.count * (Squares(S) + x * x)
                                   - (Total(S) + x) * (Total(S) + x)
        BY <1>9, <1>11, <1>12, <1>15 DEF Spread
      <3> QED
        BY <1>5, <1>11, <1>15, <1>16, <2>1, <3>1 DEF Exact
    <2>2. CASE j # k
      <3>1. /\ stats[j].count = 0 => stats[j].mean = Zero /\ stats[j].deviation = Zero
            /\ Equals(stats[j].mean, <<Total(EndedOf(j)), stats[j].count>>)
            /\ Equals(stats[j].deviation, <<Spread(EndedOf(j)), stats[j].count>>)
        BY DEF StatsOK, RunningStatsAreExact
      <3> QED
        BY <1>4, <2>2, <3>1
    <2> QED
      BY <2>1, <2>2
  <1>22. StatsGrow
    <2> SUFFICES ASSUME NEW j \in Kinds
                 PROVE  /\ stats[j].count <= stats'[j].count
                        /\ stats[j].bytes <= stats'[j].bytes
      BY <1>1 DEF StatsGrow
    <2>1. stats[j].count \in Nat /\ stats[j].bytes \in Nat
      BY Constants DEF StatsOK, Stats
    <2>2. CASE j = k
      BY <1>15, <1>16, <2>1, <2>2 DEF s
    <2>3. CASE j # k
      BY <1>4, <2>1, <2>3
    <2> QED
      BY <2>2, <2>3
  <1>23. \A q \in Requests : (\E e \in ended' : e.request = q)
                               <=> (q = r \/ \E e \in ended : e.request = q)
    BY <1>1, <1>2
  <1>24. StatsOK'
    BY <1>3, <1>18, <1>19, <1>20, <1>21 DEF StatsOK
  <1> QED
    BY <1>22, <1>23, <1>24

(* What the invariant says of the requests and of a query.                 *)
RequestTypes ==
  /\ kind \in [Requests -> Kinds]
  /\ phase \in [Requests -> {"new", "call", "opening", "object", "gone"}]
  /\ bytes \in [Requests -> 0 .. MaxBytes]
  /\ recorded \in [Requests -> BOOLEAN]

HasEnded(r) == \E e \in ended : e.request = r

RequestOK(r) ==
  /\ phase[r] \in {"new", "call", "opening"} =>
       ~recorded[r] /\ bytes[r] = 0 /\ ~HasEnded(r)
  /\ phase[r] = "object" => (recorded[r] <=> HasEnded(r))
  /\ bytes[r] # 0 => kind[r] \in WithBytes

RequestsOK == \A r \in Requests : RequestOK(r)

(* row shows the requests of some subset of E.                             *)
WholeRow(row, E) ==
  \E S \in SUBSET E :
    /\ Counts(row, S)
    /\ row.count > 0 => /\ Equals(row.average, <<Total(S), row.count>>)
                        /\ Equals(row.variance, <<Spread(S), row.count * row.count>>)

QueryOK ==
  /\ query \in [rows : 0 .. Len(Rows), seen : [Kinds -> StatsRow]]
  /\ \A k \in Kinds : /\ query.seen[k].count <= stats[k].count
                      /\ query.seen[k].bytes <= stats[k].bytes
  /\ \A i \in 1 .. query.rows : WholeRow(query.seen[Rows[i]], EndedOf(Rows[i]))

LEMMA RowsParts ==
  RowsAreWhole <=>
    \A i \in 1 .. query.rows : WholeRow(query.seen[Rows[i]], EndedOf(Rows[i]))
  BY DEF RowsAreWhole, WholeRow

LEMMA RequestParts ==
  EndedWhenRecorded <=> OnceEach(ended) /\ RequestsOK
  BY DEF RequestsOK, EndedWhenRecorded, OnceEach, RequestOK, HasEnded

LEMMA InvParts ==
  Inv <=> StatsOK /\ RequestTypes /\ QueryOK /\ RequestsOK
  <1>1. TypeOK <=> /\ RequestTypes
                   /\ stats \in [Kinds -> Stats]
                   /\ query \in [rows : 0 .. Len(Rows), seen : [Kinds -> StatsRow]]
                   /\ ended \subseteq Outcomes
                   /\ \A k \in Kinds : /\ query.seen[k].count <= stats[k].count
                                       /\ query.seen[k].bytes <= stats[k].bytes
                   /\ \A k \in Kinds \ WithBytes : stats[k].bytes = 0
    BY DEF TypeOK, RequestTypes
  <1> QED
    BY <1>1, RowsParts, RequestParts DEF Inv, StatsOK, QueryOK

LEMMA RowKinds == /\ Len(Rows) = 5
                  /\ \A i \in 1 .. 5 : Rows[i] \in Kinds
                  /\ \A i, j \in 1 .. 5 : Rows[i] = Rows[j] => i = j
  BY DEF Rows, Kinds

(* Requests that end later do not disturb the rows already copied.         *)
LEMMA QueryStep ==
  ASSUME QueryOK, StatsOK, StatsOK', StatsGrow, UNCHANGED query
  PROVE  QueryOK'
  <1>1. ASSUME NEW k \in Kinds
        PROVE  /\ query'.seen[k].count <= stats'[k].count
               /\ query'.seen[k].bytes <= stats'[k].bytes
    <2>1. /\ query.seen[k].count \in Nat /\ query.seen[k].bytes \in Nat
          /\ query.seen[k].count <= stats[k].count
          /\ query.seen[k].bytes <= stats[k].bytes
      BY DEF QueryOK, StatsRow
    <2>2. /\ stats[k].count \in Nat /\ stats[k].bytes \in Nat
          /\ stats'[k].count \in Nat /\ stats'[k].bytes \in Nat
      BY Constants DEF StatsOK, Stats
    <2>3. stats[k].count <= stats'[k].count /\ stats[k].bytes <= stats'[k].bytes
      BY DEF StatsGrow
    <2> QED
      BY <2>1, <2>2, <2>3
  <1>2. ASSUME NEW i \in 1 .. query.rows
        PROVE  WholeRow(query'.seen[Rows[i]], EndedOf(Rows[i])')
    <2>1. EndedOf(Rows[i]) \subseteq EndedOf(Rows[i])'
      BY DEF EndedOf, StatsGrow
    <2>2. WholeRow(query.seen[Rows[i]], EndedOf(Rows[i]))
      BY DEF QueryOK
    <2> QED
      BY <2>1, <2>2 DEF WholeRow
  <1>3. query' \in [rows : 0 .. Len(Rows), seen : [Kinds -> StatsRow]]
    BY DEF QueryOK
  <1> QED
    BY <1>1, <1>2, <1>3 DEF QueryOK

LEMMA QuietStats ==
  ASSUME StatsOK, UNCHANGED <<stats, ended>>
  PROVE  StatsOK' /\ StatsGrow
  <1>1. StatsOK'
    BY DEF StatsOK, OnceEach, CountedOnce, RunningStatsAreExact, EndedOf
  <1>2. \A k \in Kinds : stats[k].count \in Nat /\ stats[k].bytes \in Nat
    BY Constants DEF StatsOK, Stats
  <1> QED
    BY <1>1, <1>2 DEF StatsGrow

(* A step that concerns request r alone.                                   *)
LEMMA RequestStep ==
  ASSUME Inv, NEW r \in Requests, StatsOK', StatsGrow, RequestTypes', UNCHANGED query,
         \A q \in Requests \ {r} : /\ phase'[q] = phase[q] /\ bytes'[q] = bytes[q]
                                   /\ kind'[q] = kind[q] /\ recorded'[q] = recorded[q]
                                   /\ HasEnded(q)' <=> HasEnded(q),
         RequestOK(r)'
  PROVE  Inv'
  <1>1. /\ StatsOK /\ RequestTypes /\ QueryOK
        /\ \A q \in Requests : RequestOK(q)
    BY InvParts DEF RequestsOK
  <1>2. ASSUME NEW q \in Requests PROVE RequestOK(q)'
    <2>1. CASE q # r
      <3>1. RequestOK(q)
        BY <1>1
      <3>2. HasEnded(q)' <=> HasEnded(q)
        BY <2>1
      <3> QED
        BY <2>1, <3>1, <3>2 DEF RequestOK
    <2> QED
      BY <2>1
  <1>3. QueryOK'
    BY <1>1, QueryStep
  <1>4. RequestsOK'
    BY <1>2 DEF RequestsOK
  <1> QED
    BY <1>3, <1>4, InvParts, PTL

----------------------------------------------------------------------------
(* The invariant, action by action.                                        *)
LEMMA InitInv == Init => Inv
  <1> SUFFICES ASSUME Init PROVE Inv
    OBVIOUS
  <1>1. RequestTypes
    BY Constants DEF Init, RequestTypes, Kinds
  <1>2. RequestsOK
    BY DEF Init, RequestsOK, RequestOK, HasEnded
  <1>3. \A k \in Kinds : EndedOf(k) = {}
    BY DEF Init, EndedOf
  <1>4. /\ Cardinality({}) = 0 /\ Total({}) = 0 /\ Squares({}) = 0 /\ Transferred({}) = 0
        /\ Spread({}) = 0
    BY NoOutcomes, FS_EmptySet DEF Spread
  <1>5. \A k \in Kinds : stats[k] = NoStats
    BY DEF Init
  <1>6. Zero \in Fractions
    BY DEF Zero, Fractions
  <1>7. StatsOK
    <2>1. NoStats \in Stats
      BY <1>6, Constants DEF NoStats, Stats
    <2>2. stats \in [Kinds -> Stats]
      BY <2>1 DEF Init
    <2>3. CountedOnce
      BY <1>3, <1>4, <1>5 DEF CountedOnce, Counts, NoStats
    <2>4. RunningStatsAreExact
      BY <1>3, <1>4, <1>5 DEF RunningStatsAreExact, Equals, NoStats, Zero
    <2> QED
      BY <1>5, <2>2, <2>3, <2>4 DEF StatsOK, OnceEach, NoStats, Init
  <1>8. QueryOK
    <2>1. NoRow \in StatsRow
      BY <1>6 DEF NoRow, StatsRow
    <2>2. query \in [rows : 0 .. Len(Rows), seen : [Kinds -> StatsRow]]
      BY <2>1, RowKinds DEF Init, NoQuery
    <2>3. \A k \in Kinds : query.seen[k] = NoRow
      BY DEF Init, NoQuery
    <2>4. query.rows = 0
      BY DEF Init, NoQuery
    <2> QED
      BY <1>5, <2>2, <2>3, <2>4 DEF QueryOK, NoRow, NoStats
  <1> QED
    BY <1>1, <1>2, <1>7, <1>8, InvParts

LEMMA InvFacts ==
  ASSUME Inv, NEW r \in Requests
  PROVE  /\ StatsOK /\ RequestTypes /\ RequestOK(r)
         /\ kind[r] \in Kinds /\ bytes[r] \in Nat /\ recorded[r] \in BOOLEAN
  <1>1. StatsOK /\ RequestTypes /\ RequestOK(r)
    BY InvParts DEF RequestsOK
  <1> QED
    BY <1>1, Constants DEF RequestTypes

(* Request r ends for the first time, recorded with kind k and m bytes.    *)
LEMMA FirstEnd ==
  ASSUME Inv, NEW r \in Requests, NEW k \in Kinds, NEW x \in Latencies, NEW m \in Nat,
         m # 0 => k \in WithBytes, ~HasEnded(r),
         Record(k, x, m), Ends(r, k, x, m)
  PROVE  /\ StatsOK' /\ StatsGrow /\ HasEnded(r)'
         /\ \A q \in Requests \ {r} : HasEnded(q)' <=> HasEnded(q)
  <1>1. StatsOK /\ \A e \in ended : e.request # r
    BY InvFacts DEF HasEnded
  <1>2. /\ StatsOK' /\ StatsGrow
        /\ \A q \in Requests : (\E e \in ended' : e.request = q)
                                 <=> (q = r \/ \E e \in ended : e.request = q)
    BY <1>1, RecordStep
  <1> QED
    BY <1>2 DEF HasEnded

LEMMA CreateFailsInv ==
  ASSUME Inv, NEW r \in Requests, NEW k \in Kinds, NEW x \in Latencies, CreateFails(r, k, x)
  PROVE  Inv'
  <1>1. RequestTypes /\ RequestOK(r) /\ ~HasEnded(r) /\ bytes[r] = 0
    BY InvFacts DEF RequestOK, CreateFails
  <1>2. /\ StatsOK' /\ StatsGrow
        /\ \A q \in Requests \ {r} : HasEnded(q)' <=> HasEnded(q)
    BY <1>1, FirstEnd DEF CreateFails
  <1>3. RequestTypes'
    BY <1>1 DEF RequestTypes, CreateFails
  <1>4. RequestOK(r)'
    BY <1>1 DEF RequestTypes, RequestOK, CreateFails
  <1>5. /\ UNCHANGED query
        /\ \A q \in Requests \ {r} : /\ phase'[q] = phase[q] /\ bytes'[q] = bytes[q]
                                     /\ kind'[q] = kind[q] /\ recorded'[q] = recorded[q]
    BY <1>1 DEF RequestTypes, CreateFails
  <1> QED
    BY <1>2, <1>3, <1>4, <1>5, RequestStep

LEMMA StartInv ==
  ASSUME Inv, NEW r \in Requests, NEW k \in Kinds, Start(r, k)
  PROVE  Inv'
  <1>1. StatsOK /\ RequestTypes /\ RequestOK(r)
    BY InvFacts
  <1>2. StatsOK' /\ StatsGrow /\ \A q \in Requests : HasEnded(q)' <=> HasEnded(q)
    BY <1>1, QuietStats DEF Start, HasEnded
  <1>3. PICK p \in {"call", "opening", "object"} : phase' = [phase EXCEPT ![r] = p]
    BY DEF Start, Phases
  <1>4. RequestTypes'
    BY <1>1, <1>3 DEF RequestTypes, Start
  <1>5. RequestOK(r)'
    <2>1. ~recorded[r] /\ bytes[r] = 0 /\ ~HasEnded(r)
      BY <1>1 DEF RequestOK, Start
    <2>2. ~recorded'[r] /\ bytes'[r] = 0 /\ ~HasEnded(r)'
      BY <1>2, <2>1 DEF Start
    <2> QED
      BY <2>2 DEF RequestOK
  <1>6. /\ UNCHANGED query
        /\ \A q \in Requests \ {r} : /\ phase'[q] = phase[q] /\ bytes'[q] = bytes[q]
                                     /\ kind'[q] = kind[q] /\ recorded'[q] = recorded[q]
    BY <1>1, <1>3 DEF RequestTypes, Start
  <1> QED
    BY <1>2, <1>4, <1>5, <1>6, RequestStep

LEMMA CallReturnsInv ==
  ASSUME Inv, NEW r \in Requests, NEW x \in Latencies, NEW n \in Sizes \cup {0},
         CallReturns(r, x, n)
  PROVE  Inv'
  <1>1. /\ RequestTypes /\ ~HasEnded(r) /\ bytes[r] = 0
        /\ kind[r] \in Kinds
    BY InvFacts DEF RequestOK, CallReturns
  <1>2. n \in Nat /\ (n # 0 => kind[r] \in WithBytes)
    BY Constants DEF CallReturns, WithBytes
  <1>3. /\ StatsOK' /\ StatsGrow
        /\ \A q \in Requests \ {r} : HasEnded(q)' <=> HasEnded(q)
    BY <1>1, <1>2, FirstEnd DEF CallReturns
  <1>4. RequestTypes'
    BY <1>1 DEF RequestTypes, CallReturns
  <1>5. RequestOK(r)'
    BY <1>1 DEF RequestTypes, RequestOK, CallReturns
  <1>6. /\ UNCHANGED query
        /\ \A q \in Requests \ {r} : /\ phase'[q] = phase[q] /\ bytes'[q] = bytes[q]
                                     /\ kind'[q] = kind[q] /\ recorded'[q] = recorded[q]
    BY <1>1 DEF RequestTypes, CallReturns
  <1> QED
    BY <1>3, <1>4, <1>5, <1>6, RequestStep

LEMMA OpenFailsInv ==
  ASSUME Inv, NEW r \in Requests, NEW x \in Latencies, OpenFails(r, x)
  PROVE  Inv'
  <1>1. RequestTypes /\ ~HasEnded(r) /\ bytes[r] = 0
    BY InvFacts DEF RequestOK, OpenFails
  <1>2. /\ StatsOK' /\ StatsGrow
        /\ \A q \in Requests \ {r} : HasEnded(q)' <=> HasEnded(q)
    <2>1. "read" \in Kinds /\ 0 \in Nat
      BY DEF Kinds
    <2> QED
      BY <1>1, <2>1, FirstEnd DEF OpenFails
  <1>3. RequestTypes'
    BY <1>1 DEF RequestTypes, OpenFails
  <1>4. RequestOK(r)'
    BY <1>1 DEF RequestTypes, RequestOK, OpenFails
  <1>5. /\ UNCHANGED query
        /\ \A q \in Requests \ {r} : /\ phase'[q] = phase[q] /\ bytes'[q] = bytes[q]
                                     /\ kind'[q] = kind[q] /\ recorded'[q] = recorded[q]
    BY <1>1 DEF RequestTypes, OpenFails
  <1> QED
    BY <1>2, <1>3, <1>4, <1>5, RequestStep

(* Steps that record nothing.                                              *)
LEMMA QuietInv ==
  ASSUME Inv, NEW r \in Requests,
         OpenReturns(r) \/ Cancel(r) \/ \E n \in Sizes : Transfer(r, n)
  PROVE  Inv'
  <1>1. StatsOK /\ RequestTypes /\ RequestOK(r) /\ bytes[r] \in Nat
    BY InvFacts
  <1>2. UNCHANGED <<kind, recorded, stats, query, ended>>
    BY DEF OpenReturns, Cancel, Transfer
  <1>3. StatsOK' /\ StatsGrow /\ \A q \in Requests : HasEnded(q)' <=> HasEnded(q)
    BY <1>1, <1>2, QuietStats DEF HasEnded
  <1>4. ASSUME NEW n \in Sizes, Transfer(r, n)
        PROVE  /\ RequestTypes' /\ RequestOK(r)'
               /\ \A q \in Requests \ {r} : phase'[q] = phase[q] /\ bytes'[q] = bytes[q]
    <2>1. n \in Nat /\ bytes[r] + n \in 0 .. MaxBytes
      BY <1>1, <1>4, Constants DEF Transfer
    <2>2. RequestTypes'
      BY <1>1, <1>4, <2>1 DEF RequestTypes, Transfer
    <2>3. RequestOK(r)'
      BY <1>1, <1>2, <1>3, <1>4 DEF RequestOK, Transfer
    <2> QED
      BY <1>1, <1>4, <2>2, <2>3 DEF RequestTypes, Transfer
  <1>5. ASSUME OpenReturns(r) \/ Cancel(r)
        PROVE  /\ RequestTypes' /\ RequestOK(r)'
               /\ \A q \in Requests \ {r} : phase'[q] = phase[q] /\ bytes'[q] = bytes[q]
    <2>1. PICK p \in {"object", "gone"} : phase' = [phase EXCEPT ![r] = p]
      BY <1>5 DEF OpenReturns, Cancel
    <2>2. UNCHANGED bytes /\ phase[r] \in {"call", "opening"}
      BY <1>5 DEF OpenReturns, Cancel
    <2>3. RequestTypes'
      BY <1>1, <1>2, <2>1, <2>2 DEF RequestTypes
    <2>4. ~recorded'[r] /\ bytes'[r] = 0 /\ ~HasEnded(r)' /\ phase'[r] \in {"object", "gone"}
      BY <1>1, <1>2, <1>3, <2>1, <2>2 DEF RequestOK, RequestTypes
    <2>5. RequestOK(r)'
      BY <2>4 DEF RequestOK
    <2> QED
      BY <1>1, <2>1, <2>2, <2>3, <2>5 DEF RequestTypes
  <1> QED
    BY <1>2, <1>3, <1>4, <1>5, RequestStep

(* Finish and Drop: the object is recorded if it has not been before.      *)
LEMMA EndInv ==
  ASSUME Inv, NEW r \in Requests, NEW x \in Latencies, Finish(r, x) \/ Drop(r, x)
  PROVE  Inv'
  <1>1. /\ StatsOK /\ RequestTypes /\ RequestOK(r)
        /\ kind[r] \in Kinds /\ bytes[r] \in Nat /\ recorded[r] \in BOOLEAN
    BY InvFacts
  <1>2. /\ phase[r] = "object" /\ UNCHANGED <<kind, bytes, query>>
        /\ RecordOnce(r, x) /\ Ends(r, kind[r], x, bytes[r])
    BY DEF Finish, Drop
  <1>3. PICK p \in {"object", "gone"} : phase' = [phase EXCEPT ![r] = p]
    <2>1. CASE Finish(r, x)
      <3>1. phase' = [phase EXCEPT ![r] = "object"]
        BY <1>1, <1>2, <2>1 DEF Finish, RequestTypes
      <3> QED
        BY <3>1
    <2>2. CASE Drop(r, x)
      BY <2>2 DEF Drop
    <2> QED
      BY <2>1, <2>2
  <1>4. recorded[r] <=> HasEnded(r)
    BY <1>1, <1>2 DEF RequestOK
  <1>5. /\ StatsOK' /\ StatsGrow /\ HasEnded(r)' /\ recorded' = [recorded EXCEPT ![r] = TRUE]
        /\ \A q \in Requests \ {r} : HasEnded(q)' <=> HasEnded(q)
    <2>1. CASE recorded[r]
      <3>1. UNCHANGED <<stats, recorded>>
        BY <1>2, <2>1 DEF RecordOnce
      <3>2. UNCHANGED ended
        BY <1>2, <1>4, <2>1 DEF Ends, HasEnded
      <3>3. recorded' = [recorded EXCEPT ![r] = TRUE]
        BY <1>1, <2>1, <3>1 DEF RequestTypes
      <3> QED
        BY <1>1, <1>4, <2>1, <3>1, <3>2, <3>3, QuietStats DEF HasEnded
    <2>2. CASE ~recorded[r]
      <3>1. Record(kind[r], x, bytes[r]) /\ recorded' = [recorded EXCEPT ![r] = TRUE]
        BY <1>2, <2>2 DEF RecordOnce
      <3>2. bytes[r] # 0 => kind[r] \in WithBytes
        BY <1>1 DEF RequestOK
      <3> QED
        BY <1>1, <1>2, <1>4, <2>2, <3>1, <3>2, FirstEnd
    <2> QED
      BY <2>1, <2>2
  <1>6. RequestTypes'
    BY <1>1, <1>2, <1>3, <1>5 DEF RequestTypes
  <1>7. RequestOK(r)'
    <2>1. recorded'[r] = TRUE /\ phase'[r] \in {"object", "gone"}
      BY <1>1, <1>3, <1>5 DEF RequestTypes
    <2> QED
      BY <1>1, <1>2, <1>5, <2>1 DEF RequestOK
  <1>8. \A q \in Requests \ {r} : /\ phase'[q] = phase[q] /\ bytes'[q] = bytes[q]
                                  /\ kind'[q] = kind[q] /\ recorded'[q] = recorded[q]
    BY <1>1, <1>2, <1>3, <1>5 DEF RequestTypes
  <1> QED
    BY <1>2, <1>5, <1>6, <1>7, <1>8, RequestStep

(* RunningStats::snapshot copies a row that is whole.                      *)
LEMMA RowIsWhole ==
  ASSUME StatsOK, NEW k \in Kinds
  PROVE  /\ RowOf(stats[k]) \in StatsRow
         /\ RowOf(stats[k]).count = stats[k].count /\ RowOf(stats[k]).bytes = stats[k].bytes
         /\ WholeRow(RowOf(stats[k]), EndedOf(k))
  <1> DEFINE s == stats[k]
             S == EndedOf(k)
             row == RowOf(s)
  <1>1. s \in Stats /\ s.count \in Nat /\ s.bytes \in Nat /\ s.mean \in Fractions
    BY Constants DEF StatsOK, Stats
  <1>2. PICK p \in Nat, q \in Nat \ {0} : s.deviation = <<p, q>>
    BY <1>1 DEF Stats, Fractions
  <1>3. PICK n \in Nat : s.count = n
    BY <1>1
  <1>4. /\ Counts(s, S) /\ Equals(s.mean, <<Total(S), s.count>>)
        /\ Equals(s.deviation, <<Spread(S), s.count>>)
    BY DEF StatsOK, CountedOnce, RunningStatsAreExact
  <1>5. Spread(S) \in Int
    <2>1. S \subseteq Outcomes /\ IsFiniteSet(S)
      <3>1. IsFiniteSet(ended) /\ S \subseteq ended
        BY OutcomesAreFinite DEF StatsOK, EndedOf
      <3> QED
        BY <3>1, FS_Subset DEF StatsOK
    <2>2. Total(S) \in Nat /\ Squares(S) \in Nat /\ Cardinality(S) \in Nat
      BY <2>1, OutcomeSums, FS_CardinalityType
    <2> QED
      BY <2>2 DEF Spread
  <1> HIDE DEF s, S
  <1>6. /\ row = [count |-> s.count, bytes |-> s.bytes, average |-> s.mean,
                  variance |-> row.variance]
        /\ row.count = s.count /\ row.bytes = s.bytes /\ row.average = s.mean
    BY DEF RowOf
  <1>7. row.variance = IF n = 0 THEN Zero ELSE <<p, q * n>>
    <2>1. row.variance = IF n = 0 THEN Zero ELSE Times(<<p, q>>, <<1, n>>)
      BY <1>2, <1>3 DEF RowOf
    <2>2. Times(<<p, q>>, <<1, n>>) = <<p * 1, q * n>> /\ p * 1 = p
      BY DEF Times
    <2> QED
      BY <2>1, <2>2
  <1> HIDE DEF row
  <1>8. row.variance \in Fractions
    <2>1. n # 0 => q * n \in Nat \ {0}
      BY PositiveTimes
    <2> QED
      BY <1>7, <2>1 DEF Fractions, Zero
  <1>9. row \in StatsRow
    BY <1>1, <1>6, <1>8 DEF StatsRow
  <1>10. ASSUME n # 0
         PROVE  Equals(row.variance, <<Spread(S), n * n>>)
    <2>1. p * n = Spread(S) * q
      BY <1>2, <1>3, <1>4 DEF Equals
    <2>2. p * (n * n) = (p * n) * n
      OBVIOUS
    <2>3. (Spread(S) * q) * n = Spread(S) * (q * n)
      BY <1>5
    <2> QED
      BY <1>7, <1>10, <2>1, <2>2, <2>3 DEF Equals
  <1>11. WholeRow(row, S)
    <2>1. Counts(row, S)
      BY <1>4, <1>6 DEF Counts
    <2>2. row.count > 0 => /\ Equals(row.average, <<Total(S), row.count>>)
                           /\ Equals(row.variance, <<Spread(S), row.count * row.count>>)
      BY <1>3, <1>4, <1>6, <1>10
    <2> QED
      BY <2>1, <2>2 DEF WholeRow
  <1> QED
    BY <1>6, <1>9, <1>11 DEF row, s, S

LEMMA QueryInv ==
  ASSUME Inv, SnapshotRow \/ ShowRows
  PROVE  Inv'
  <1>1. StatsOK /\ RequestTypes /\ QueryOK /\ RequestsOK
    BY InvParts
  <1>2. UNCHANGED <<kind, phase, bytes, recorded, stats, ended>>
    BY DEF SnapshotRow, ShowRows, request
  <1>3. StatsOK' /\ RequestTypes' /\ RequestsOK'
    <2>1. StatsOK'
      BY <1>1, <1>2, QuietStats
    <2>2. RequestTypes'
      BY <1>1, <1>2 DEF RequestTypes
    <2>3. RequestsOK'
      BY <1>1, <1>2 DEF RequestsOK, RequestOK, HasEnded
    <2> QED
      BY <2>1, <2>2, <2>3
  <1>4. ASSUME SnapshotRow PROVE QueryOK'
    <2> DEFINE n == query.rows + 1
               k == Rows[n]
    <2>1. query.rows \in 0 .. 5 /\ query.rows < 5 /\ query.seen \in [Kinds -> StatsRow]
      BY <1>1, <1>4, RowKinds DEF QueryOK, SnapshotRow
    <2>2. n \in 1 .. 5 /\ k \in Kinds
      BY <2>1, RowKinds
    <2>3. query' = [rows |-> n, seen |-> [query.seen EXCEPT ![k] = RowOf(stats[k])]]
      BY <1>4 DEF SnapshotRow
    <2> HIDE DEF k, n
    <2>4. /\ RowOf(stats[k]) \in StatsRow
          /\ RowOf(stats[k]).count = stats[k].count /\ RowOf(stats[k]).bytes = stats[k].bytes
          /\ WholeRow(RowOf(stats[k]), EndedOf(k))
      BY <1>1, <2>2, RowIsWhole
    <2>5. /\ query'.rows = n /\ query'.seen[k] = RowOf(stats[k])
          /\ \A j \in Kinds : j # k => query'.seen[j] = query.seen[j]
      BY <2>1, <2>2, <2>3
    <2>6. query' \in [rows : 0 .. Len(Rows), seen : [Kinds -> StatsRow]]
      BY <2>1, <2>2, <2>3, <2>4, RowKinds
    <2>7. ASSUME NEW j \in Kinds
          PROVE  /\ query'.seen[j].count <= stats'[j].count
                 /\ query'.seen[j].bytes <= stats'[j].bytes
      <3>1. stats[j].count \in Nat /\ stats[j].bytes \in Nat
        BY <1>1, Constants DEF StatsOK, Stats
      <3>2. CASE j = k
        BY <1>2, <2>4, <2>5, <3>1, <3>2
      <3>3. CASE j # k
        BY <1>1, <1>2, <2>5, <3>3 DEF QueryOK
      <3> QED
        BY <3>2, <3>3
    <2>8. ASSUME NEW i \in 1 .. n
          PROVE  WholeRow(query'.seen[Rows[i]], EndedOf(Rows[i])')
      <3>1. EndedOf(Rows[i])' = EndedOf(Rows[i])
        BY <1>2 DEF EndedOf
      <3>2. CASE i = n
        BY <2>4, <2>5, <3>1, <3>2 DEF k
      <3>3. CASE i # n
        <4>1. i \in 1 .. query.rows /\ i \in 1 .. 5 /\ Rows[i] \in Kinds
          BY <2>1, <2>2, <3>3, RowKinds DEF n
        <4>2. Rows[i] # k
          BY <2>2, <3>3, <4>1, RowKinds DEF k
        <4>3. WholeRow(query.seen[Rows[i]], EndedOf(Rows[i]))
          BY <1>1, <4>1 DEF QueryOK
        <4> QED
          BY <2>5, <3>1, <4>1, <4>2, <4>3
      <3> QED
        BY <3>2, <3>3
    <2> QED
      BY <2>5, <2>6, <2>7, <2>8 DEF QueryOK
  <1>5. ASSUME ShowRows PROVE QueryOK'
    <2>1. query' = NoQuery
      BY <1>5 DEF ShowRows
    <2>2. NoRow \in StatsRow
      BY DEF NoRow, StatsRow, Zero, Fractions
    <2>3. query' \in [rows : 0 .. Len(Rows), seen : [Kinds -> StatsRow]]
      BY <2>1, <2>2, RowKinds DEF NoQuery
    <2>4. query'.rows = 0 /\ \A j \in Kinds : query'.seen[j] = NoRow
      BY <2>1 DEF NoQuery
    <2>5. \A j \in Kinds : stats'[j].count \in Nat /\ stats'[j].bytes \in Nat
      BY <1>3, Constants DEF StatsOK, Stats
    <2> QED
      BY <2>3, <2>4, <2>5 DEF QueryOK, NoRow
  <1>6. QueryOK'
    BY <1>4, <1>5
  <1> QED
    BY <1>3, <1>6, InvParts, PTL

LEMMA StutterInv == Inv /\ UNCHANGED vars => Inv'
  <1> SUFFICES ASSUME Inv, UNCHANGED vars PROVE Inv'
    OBVIOUS
  <1>1. StatsOK /\ RequestTypes /\ QueryOK /\ RequestsOK
    BY InvParts
  <1>2. StatsOK' /\ StatsGrow
    BY <1>1, QuietStats DEF vars
  <1>3. QueryOK'
    BY <1>1, <1>2, QueryStep DEF vars
  <1>4. RequestTypes'
    BY <1>1 DEF RequestTypes, vars
  <1>5. RequestsOK'
    BY <1>1 DEF RequestsOK, RequestOK, HasEnded, vars
  <1> QED
    BY <1>2, <1>3, <1>4, <1>5, InvParts, PTL

LEMMA NextInv == Inv /\ [Next]_vars => Inv'
  <1> SUFFICES ASSUME Inv, [Next]_vars PROVE Inv'
    OBVIOUS
  <1>1. ASSUME NEW r \in Requests, NEW k \in Kinds,
               Start(r, k) \/ \E x \in Latencies : CreateFails(r, k, x)
        PROVE  Inv'
    BY <1>1, StartInv, CreateFailsInv
  <1>2. ASSUME NEW r \in Requests, NEW x \in Latencies,
               \/ \E n \in Sizes \cup {0} : CallReturns(r, x, n)
               \/ OpenFails(r, x)
               \/ Finish(r, x)
               \/ Drop(r, x)
        PROVE  Inv'
    BY <1>2, CallReturnsInv, OpenFailsInv, EndInv
  <1>3. ASSUME NEW r \in Requests,
               OpenReturns(r) \/ Cancel(r) \/ \E n \in Sizes : Transfer(r, n)
        PROVE  Inv'
    BY <1>3, QuietInv
  <1>4. CASE SnapshotRow \/ ShowRows
    BY <1>4, QueryInv
  <1>5. CASE UNCHANGED vars
    BY <1>5, StutterInv
  <1> QED
    BY <1>1, <1>2, <1>3, <1>4, <1>5 DEF Next

(* Inv is an invariant of every behaviour of the metrics layer, for any    *)
(* finite number of requests and any latencies and sizes.                  *)
THEOREM IoMetricsInvariant == Spec => []Inv
  <1> QED
    BY InitInv, NextInv, PTL DEF Spec

(* The statistics stay well typed: no mean or deviation that record or     *)
(* snapshot computes is negative, no kind counts more requests than there  *)
(* were, and only reads and writes count bytes.                            *)
THEOREM IoMetricsTypeOK == Spec => []TypeOK
  <1>1. Inv => TypeOK
    BY DEF Inv
  <1> QED
    BY <1>1, IoMetricsInvariant, PTL

(* record_once and Drop count every request that has ended exactly once,   *)
(* with the bytes it had transferred when it first ended.                  *)
THEOREM IoMetricsCountedOnce == Spec => []CountedOnce
  <1>1. Inv => CountedOnce
    BY DEF Inv
  <1> QED
    BY <1>1, IoMetricsInvariant, PTL

(* Every row that IoMetrics::snapshot copies shows the exact count, bytes, *)
(* mean and population variance of one set of ended requests: Welford's    *)
(* update in RunningStats::record is exact in whatever order they end.     *)
THEOREM IoMetricsRowsAreWhole == Spec => []RowsAreWhole
  <1>1. Inv => RowsAreWhole
    BY DEF Inv
  <1> QED
    BY <1>1, IoMetricsInvariant, PTL
=============================================================================
