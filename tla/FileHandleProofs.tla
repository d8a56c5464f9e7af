-------------------------- MODULE FileHandleProofs --------------------------
(***************************************************************************)
(* Proofs about FileHandle, for every chunk geometry, width of offsets,    *)
(* payload and set of faults.                                              *)
(***************************************************************************)
EXTENDS FileHandle, NaturalsInduction, WellFoundedInduction, TLAPS

----------------------------------------------------------------------------
(* The layout of chunks.                                                   *)
LEMMA DivMod ==
  ASSUME NEW n \in Nat \ {0}, NEW a \in Nat
  PROVE  /\ a \div n \in Nat
         /\ (a % n) \in 0 .. (n - 1)
         /\ a = n * (a \div n) + (a % n)
  OBVIOUS

(* Quotient and remainder are unique.                                      *)
LEMMA DivModUnique ==
  ASSUME NEW n \in Nat \ {0}, NEW q \in Nat, NEW r \in Nat,
         NEW i \in 0 .. (n - 1), NEW j \in 0 .. (n - 1),
         n * q + i = n * r + j
  PROVE  q = r /\ i = j
  <1>1. CASE q < r
    <2>1. n * r >= n * (q + 1)
      BY <1>1
    <2> QED
      BY <2>1
  <1>2. CASE r < q
    <2>1. n * q >= n * (r + 1)
      BY <1>2
    <2> QED
      BY <2>1
  <1> QED
    BY <1>1, <1>2

LEMMA DivModOrder ==
  ASSUME NEW n \in Nat \ {0}, NEW q \in Nat, NEW r \in Nat,
         NEW i \in 0 .. (n - 1), NEW j \in 0 .. (n - 1),
         n * q + i < n * r + j
  PROVE  q < r \/ (q = r /\ i < j)
  <1>1. CASE r < q
    <2>1. n * q >= n * (r + 1)
      BY <1>1
    <2> QED
      BY <2>1
  <1> QED
    BY <1>1

LEMMA Located ==
  ASSUME NEW p \in Nat
  PROVE  /\ ChunkIdxOf(p) \in Nat
         /\ ChunkOffsetOf(p) \in 0 .. (ChunkSize - 1)
         /\ Available(p) \in Nat
         /\ Available(p) >= 1
         /\ ChunkOffsetOf(p) + Available(p) <= ChunkSize
  <1> USE LayoutAssumption
  <1>1. CASE p < ChunkBaseOffset
    BY <1>1 DEF ChunkIdxOf, ChunkOffsetOf, Available
  <1>2. CASE p >= ChunkBaseOffset
    <2> DEFINE a == p - ChunkBaseOffset
    <2>1. a \in Nat
      BY <1>2
    <2>2. a \div ChunkSize \in Nat /\ (a % ChunkSize) \in 0 .. (ChunkSize - 1)
      BY <2>1, DivMod
    <2>3. ~(p < ChunkBaseOffset)
      BY <1>2
    <2>4. ChunkIdxOf(p) \in Nat
      BY <2>2, <2>3 DEF ChunkIdxOf
    <2>5. ChunkOffsetOf(p) = a % ChunkSize
      BY <2>3 DEF ChunkOffsetOf
    <2>6. Available(p) = ChunkSize - ChunkOffsetOf(p)
      BY <2>3 DEF Available
    <2> QED
      BY <2>2, <2>4, <2>5, <2>6
  <1> QED
    BY <1>1, <1>2

(* The positions from p up to the end of its chunk lie in it, in order.    *)
LEMMA RestOfChunk ==
  ASSUME NEW p \in Nat, NEW n \in Nat, n < Available(p)
  PROVE  /\ ChunkIdxOf(p + n) = ChunkIdxOf(p)
         /\ ChunkOffsetOf(p + n) = ChunkOffsetOf(p) + n
  <1> USE LayoutAssumption
  <1>1. CASE p < ChunkBaseOffset
    BY <1>1 DEF ChunkIdxOf, ChunkOffsetOf, Available
  <1>2. CASE p >= ChunkBaseOffset
    <2> DEFINE a == p - ChunkBaseOffset
               b == p + n - ChunkBaseOffset
    <2>1. a \in Nat /\ b \in Nat /\ b = a + n
      BY <1>2
    <2>2. (a % ChunkSize) + n \in 0 .. (ChunkSize - 1)
      BY <1>2, <2>1, DivMod DEF Available, ChunkOffsetOf
    <2>3. /\ a \div ChunkSize \in Nat /\ b \div ChunkSize \in Nat
          /\ (b % ChunkSize) \in 0 .. (ChunkSize - 1)
          /\ a = ChunkSize * (a \div ChunkSize) + (a % ChunkSize)
          /\ b = ChunkSize * (b \div ChunkSize) + (b % ChunkSize)
      BY <2>1, DivMod
    <2>4. (a % ChunkSize) \in Nat
      BY <2>1, DivMod
    <2>5. ChunkSize * (a \div ChunkSize) + ((a % ChunkSize) + n)
            = ChunkSize * (b \div ChunkSize) + (b % ChunkSize)
      BY <2>1, <2>3, <2>4
    <2>6. b \div ChunkSize = a \div ChunkSize /\ (b % ChunkSize) = (a % ChunkSize) + n
      BY <2>2, <2>3, <2>5, DivModUnique
    <2> QED
      BY <1>2, <2>1, <2>6 DEF ChunkIdxOf, ChunkOffsetOf
  <1> QED
    BY <1>1, <1>2

(* A later position lies in a later chunk, or later in the same one.       *)
LEMMA Ordered ==
  ASSUME NEW p \in Nat, NEW q \in Nat, p < q
  PROVE  \/ ChunkIdxOf(p) < ChunkIdxOf(q)
         \/ ChunkIdxOf(p) = ChunkIdxOf(q) /\ ChunkOffsetOf(p) < ChunkOffsetOf(q)
  <1> USE LayoutAssumption
  <1> DEFINE a == p - ChunkBaseOffset
             b == q - ChunkBaseOffset
  <1>1. CASE q < ChunkBaseOffset
    BY <1>1 DEF ChunkIdxOf, ChunkOffsetOf
  <1>2. CASE p < ChunkBaseOffset /\ q >= ChunkBaseOffset
    <2>1. b \in Nat /\ b \div ChunkSize \in Nat
      BY <1>2, DivMod
    <2> QED
      BY <1>2, <2>1 DEF ChunkIdxOf, ChunkOffsetOf
  <1>3. CASE p >= ChunkBaseOffset
    <2>1. a \in Nat /\ b \in Nat /\ a < b
      BY <1>3
    <2>2. /\ a \div ChunkSize \in Nat /\ b \div ChunkSize \in Nat
          /\ (a % ChunkSize) \in 0 .. (ChunkSize - 1)
          /\ (b % ChunkSize) \in 0 .. (ChunkSize - 1)
          /\ ChunkSize * (a \div ChunkSize) + (a % ChunkSize)
               < ChunkSize * (b \div ChunkSize) + (b % ChunkSize)
      BY <2>1, DivMod
    <2>3. \/ a \div ChunkSize < b \div ChunkSize
          \/ /\ a \div ChunkSize = b \div ChunkSize
             /\ (a % ChunkSize) < (b % ChunkSize)
      BY <2>2, DivModOrder
    <2> QED
      BY <1>3, <2>2, <2>3 DEF ChunkIdxOf, ChunkOffsetOf
  <1> QED
    BY <1>1, <1>2, <1>3

LEMMA Injective ==
  ASSUME NEW p \in Nat, NEW q \in Nat,
         ChunkIdxOf(p) = ChunkIdxOf(q), ChunkOffsetOf(p) = ChunkOffsetOf(q)
  PROVE  p = q
  <1> USE Located
  <1>1. ASSUME p < q PROVE FALSE
    <2>1. \/ ChunkIdxOf(p) < ChunkIdxOf(q)
          \/ ChunkIdxOf(p) = ChunkIdxOf(q) /\ ChunkOffsetOf(p) < ChunkOffsetOf(q)
      BY <1>1, Ordered
    <2> QED
      BY <2>1, LayoutAssumption
  <1>2. ASSUME q < p PROVE FALSE
    <2>1. \/ ChunkIdxOf(q) < ChunkIdxOf(p)
          \/ ChunkIdxOf(q) = ChunkIdxOf(p) /\ ChunkOffsetOf(q) < ChunkOffsetOf(p)
      BY <1>2, Ordered
    <2> QED
      BY <2>1, LayoutAssumption
  <1> QED
    BY <1>1, <1>2

----------------------------------------------------------------------------
(* Chunks and payloads.                                                    *)
LEMMA ChunkIntro ==
  ASSUME NEW n \in 0 .. ChunkSize, NEW c \in [0 .. (n - 1) -> Byte]
  PROVE  c \in Chunk
  BY DEF Chunk

LEMMA ChunkElim ==
  ASSUME NEW c \in Chunk
  PROVE  \E n \in 0 .. ChunkSize : c \in [0 .. (n - 1) -> Byte]
  BY DEF Chunk

LEMMA EmptyIsChunk == EmptyChunk \in Chunk /\ DOMAIN EmptyChunk = {}
  <1>1. DOMAIN EmptyChunk = {}
    BY DEF EmptyChunk
  <1>2. 0 \in 0 .. ChunkSize /\ 0 .. (0 - 1) = {}
    BY LayoutAssumption
  <1>3. EmptyChunk \in [0 .. (0 - 1) -> Byte]
    BY <1>2 DEF EmptyChunk
  <1> QED
    BY <1>1, <1>2, <1>3, ChunkIntro

LEMMA ByteAtType ==
  ASSUME NEW c \in Chunk, NEW i
  PROVE  ByteAt(c, i) \in Byte
  <1>1. PICK n \in 0 .. ChunkSize : c \in [0 .. (n - 1) -> Byte]
    BY ChunkElim
  <1> QED
    BY <1>1, HandleAssumption DEF ByteAt

LEMMA PayloadFacts ==
  ASSUME NEW data \in Payloads
  PROVE  /\ PayloadLen(data) \in 1 .. MaxU64
         /\ data \in [0 .. (PayloadLen(data) - 1) -> Byte]
  <1>1. PICK n \in 1 .. MaxU64 : data \in [0 .. (n - 1) -> Byte]
    BY HandleAssumption
  <1>2. DOMAIN data = 0 .. (n - 1)
    BY <1>1
  <1>3. /\ PayloadLen(data) \in 1 .. MaxU64
        /\ DOMAIN data = 0 .. (PayloadLen(data) - 1)
    BY <1>2 DEF PayloadLen
  <1> QED
    BY <1>1, <1>2, <1>3

LEMMA ContentsType ==
  ASSUME TypeOK, NEW k \in ChunkIdxs
  PROVE  ChunkContents(k) \in Chunk
  <1>1. db.chunks[k] \in Chunk \cup {None}
    BY DEF TypeOK, Stores
  <1>2. ReadChunkFromStore(db.chunks, k) \in Chunk
    BY <1>1, EmptyIsChunk DEF ReadChunkFromStore
  <1>3. pending[k] \in Chunk \cup {None, Deleted}
    BY DEF TypeOK
  <1> QED
    BY <1>2, <1>3, EmptyIsChunk DEF ChunkContents

LEMMA ViewType == TypeOK => View \in [Positions -> Byte]
  <1> SUFFICES ASSUME TypeOK, NEW p \in Positions
               PROVE  ByteAt(ChunkContents(ChunkIdxOf(p)), ChunkOffsetOf(p)) \in Byte
    BY DEF View
  <1>1. ChunkIdxOf(p) \in ChunkIdxs
    BY DEF ChunkIdxs
  <1> QED
    BY <1>1, ContentsType, ByteAtType

(* The slice a write stages next: it starts at the first position that is  *)
(* not covered and stays inside one chunk and inside the payload.          *)
LEMMA SliceFacts ==
  ASSUME NEW len \in Nat, NEW offset \in Nat, NEW covered \in Nat,
         covered < len, offset + len <= MaxU64
  PROVE  LET s == Slice(len, offset, covered)
             p == offset + covered
         IN /\ p \in Positions
            /\ s.chunk_idx = ChunkIdxOf(p) /\ s.chunk_idx \in ChunkIdxs
            /\ s.buf_offset = covered
            /\ s.chunk_offset = ChunkOffsetOf(p)
            /\ s.chunk_offset \in 0 .. (ChunkSize - 1)
            /\ s.len \in Nat /\ s.len >= 1 /\ s.len <= Available(p)
            /\ s.chunk_offset + s.len <= ChunkSize
            /\ covered + s.len <= len
  <1> DEFINE s == Slice(len, offset, covered)
             p == offset + covered
  <1>1. p \in Nat /\ p \in Positions
    BY LayoutAssumption DEF Positions
  <1>2. ChunkIdxOf(p) \in ChunkIdxs
    BY <1>1 DEF ChunkIdxs
  <1>3. s.len = IF len - covered < Available(p) THEN len - covered ELSE Available(p)
    BY DEF Slice
  <1>4. s.chunk_idx = ChunkIdxOf(p) /\ s.buf_offset = covered
        /\ s.chunk_offset = ChunkOffsetOf(p)
    BY DEF Slice
  <1> HIDE DEF s, p
  <1>5. /\ ChunkOffsetOf(p) \in 0 .. (ChunkSize - 1)
        /\ Available(p) \in Nat /\ Available(p) >= 1
        /\ ChunkOffsetOf(p) + Available(p) <= ChunkSize
    BY <1>1, Located
  <1> QED
    BY <1>1, <1>2, <1>3, <1>4, <1>5, LayoutAssumption DEF s, p

(* Staging a slice changes the bytes of the slice and no others of its     *)
(* chunk: growing a short chunk adds zeroes, which it read as before.      *)
LEMMA StagedChunkFacts ==
  ASSUME TypeOK, NEW data \in Payloads, NEW s,
         s.chunk_idx \in ChunkIdxs, s.buf_offset \in Nat,
         s.chunk_offset \in 0 .. (ChunkSize - 1), s.len \in Nat, s.len >= 1,
         s.chunk_offset + s.len <= ChunkSize,
         s.buf_offset + s.len <= PayloadLen(data)
  PROVE  LET c == StagedChunk(s, data)
         IN /\ c \in Chunk
            /\ \A i \in 0 .. (ChunkSize - 1) :
                 ByteAt(c, i) =
                   IF s.chunk_offset <= i /\ i < s.chunk_offset + s.len
                     THEN data[s.buf_offset + (i - s.chunk_offset)]
                     ELSE ByteAt(ChunkContents(s.chunk_idx), i)
  <1> USE LayoutAssumption
  <1> DEFINE zeroes == [i \in 0 .. (ChunkSize - 1) |-> 0]
             old == IF WholeChunk(s) THEN zeroes ELSE ChunkContents(s.chunk_idx)
             required == s.chunk_offset + s.len
             c == StagedChunk(s, data)
  <1>1. zeroes \in Chunk
    BY ChunkIntro, HandleAssumption
  <1>2. old \in Chunk
    BY <1>1, ContentsType
  <1>3. PICK n \in 0 .. ChunkSize : old \in [0 .. (n - 1) -> Byte]
    BY <1>2, ChunkElim
  <1>4. required \in 1 .. ChunkSize
    OBVIOUS
  <1>5. PICK m \in 0 .. ChunkSize :
          m = IF n < required THEN required ELSE n
    BY <1>3, <1>4
  <1>6. (DOMAIN old) \cup (0 .. (required - 1)) = 0 .. (m - 1)
    BY <1>3, <1>4, <1>5
  <1>7. c = [i \in 0 .. (m - 1) |->
              IF s.chunk_offset <= i /\ i < required
                THEN data[s.buf_offset + (i - s.chunk_offset)]
                ELSE ByteAt(old, i)]
    BY <1>6 DEF StagedChunk
  <1>8. \A i \in Int : s.chunk_offset <= i /\ i < required =>
          data[s.buf_offset + (i - s.chunk_offset)] \in Byte
    <2> TAKE i \in Int
    <2> HAVE s.chunk_offset <= i /\ i < required
    <2>1. PayloadLen(data) \in Nat /\ data \in [0 .. (PayloadLen(data) - 1) -> Byte]
      BY PayloadFacts
    <2>2. s.buf_offset + (i - s.chunk_offset) \in 0 .. (PayloadLen(data) - 1)
      BY <2>1
    <2> QED
      BY <2>1, <2>2
  <1>9. \A i \in Int : ByteAt(old, i) \in Byte
    BY <1>2, ByteAtType
  <1> HIDE DEF old, c
  <1>10. c \in [0 .. (m - 1) -> Byte]
    BY <1>7, <1>8, <1>9
  <1>11. c \in Chunk
    BY <1>10, ChunkIntro
  <1>12. \A i \in 0 .. (ChunkSize - 1) :
           ByteAt(c, i) = IF s.chunk_offset <= i /\ i < required
                            THEN data[s.buf_offset + (i - s.chunk_offset)]
                            ELSE ByteAt(old, i)
    BY <1>3, <1>4, <1>5, <1>7 DEF ByteAt
  <1>13. \A i \in 0 .. (ChunkSize - 1) :
           \/ s.chunk_offset <= i /\ i < required
           \/ old = ChunkContents(s.chunk_idx)
    BY DEF old, WholeChunk
  <1> QED
    BY <1>11, <1>12, <1>13 DEF c

(* What a whole StageSlice step does to the bytes the handle shows.        *)
LEMMA StageSliceView ==
  ASSUME Inv, StageSlice
  PROVE  LET s == NextSlice
         IN /\ pending' \in [ChunkIdxs -> Chunk \cup {None, Deleted}]
            /\ pending' # NothingPending
            /\ s.len \in Nat /\ io.covered + s.len <= PayloadLen(io.data)
            /\ \A p \in Positions :
                 View'[p] = IF /\ io.offset + io.covered <= p
                               /\ p < io.offset + io.covered + s.len
                              THEN io.data[p - io.offset] ELSE View[p]
  <1> DEFINE s == NextSlice
             k == s.chunk_idx
             c == StagedChunk(s, io.data)
             start == io.offset + io.covered
             len == PayloadLen(io.data)
  <1> USE LayoutAssumption
  <1>0. TypeOK
    BY DEF Inv
  <1>1. io \in WriteOps /\ io.covered < len /\ io.offset + len <= MaxU64
    BY DEF StageSlice, Inv, TypeOK, Idle, SyncOps
  <1>2. /\ io.data \in Payloads /\ io.offset \in Nat /\ io.covered \in Nat
        /\ len \in Nat
    BY <1>1, PayloadFacts DEF WriteOps, Offsets
  <1>3. /\ start \in Positions
        /\ k = ChunkIdxOf(start) /\ k \in ChunkIdxs
        /\ s.buf_offset = io.covered
        /\ s.chunk_offset = ChunkOffsetOf(start)
        /\ s.chunk_offset \in 0 .. (ChunkSize - 1)
        /\ s.len \in Nat /\ s.len >= 1 /\ s.len <= Available(start)
        /\ s.chunk_offset + s.len <= ChunkSize
        /\ io.covered + s.len <= len
    BY <1>1, <1>2, SliceFacts DEF NextSlice
  <1>4. /\ c \in Chunk
        /\ \A i \in 0 .. (ChunkSize - 1) :
             ByteAt(c, i) =
               IF s.chunk_offset <= i /\ i < s.chunk_offset + s.len
                 THEN io.data[s.buf_offset + (i - s.chunk_offset)]
                 ELSE ByteAt(ChunkContents(k), i)
    BY <1>0, <1>2, <1>3, StagedChunkFacts
  <1>5. pending' = [pending EXCEPT ![k] = c] /\ db' = db
    BY DEF StageSlice
  <1>6. /\ pending'[k] = c
        /\ \A j \in ChunkIdxs : j # k => pending'[j] = pending[j]
    BY <1>0, <1>3, <1>5 DEF TypeOK
  <1> HIDE DEF s, c
  <1>7. pending' \in [ChunkIdxs -> Chunk \cup {None, Deleted}]
    BY <1>0, <1>3, <1>4, <1>5 DEF TypeOK
  <1>8. pending' # NothingPending
    BY <1>3, <1>4, <1>6, HandleAssumption DEF NothingPending
  <1>9. \A j \in ChunkIdxs :
          ChunkContents(j)' = IF j = k THEN c ELSE ChunkContents(j)
    <2> TAKE j \in ChunkIdxs
    <2>1. CASE j = k
      BY <1>4, <1>6, <2>1, HandleAssumption DEF ChunkContents
    <2>2. CASE j # k
      BY <1>5, <1>6, <2>2 DEF ChunkContents, ReadChunkFromStore
    <2> QED
      BY <2>1, <2>2
  <1>10. ASSUME NEW p \in Positions
         PROVE  View'[p] = IF start <= p /\ p < start + s.len
                             THEN io.data[p - io.offset] ELSE View[p]
    <2> DEFINE i == ChunkOffsetOf(p)
    <2>1. p \in Nat /\ ChunkIdxOf(p) \in ChunkIdxs /\ start \in Nat
      BY <1>3, <1>10 DEF Positions, ChunkIdxs
    <2>2. i \in 0 .. (ChunkSize - 1) /\ ChunkIdxOf(p) \in Nat
      BY <2>1, Located
    <2>3. /\ View'[p] = ByteAt(ChunkContents(ChunkIdxOf(p))', i)
          /\ View[p] = ByteAt(ChunkContents(ChunkIdxOf(p)), i)
      BY <1>10 DEF View
    <2>4. CASE start <= p /\ p < start + s.len
      <3>1. p - start \in Nat /\ p - start < Available(start)
        BY <1>3, <2>1, <2>4, Located
      <3>2. start + (p - start) = p
        BY <2>1
      <3>3. ChunkIdxOf(p) = k /\ i = s.chunk_offset + (p - start)
        BY <1>3, <2>1, <3>1, <3>2, RestOfChunk
      <3>4. s.chunk_offset <= i /\ i < s.chunk_offset + s.len
        BY <1>3, <2>1, <2>4, <3>3
      <3>5. s.buf_offset + (i - s.chunk_offset) = p - io.offset
        BY <1>2, <1>3, <2>1, <3>3
      <3>6. ByteAt(c, i) = io.data[p - io.offset]
        BY <1>4, <2>2, <3>4, <3>5
      <3> QED
        BY <1>9, <2>1, <2>3, <2>4, <3>3, <3>6
    <2>5. CASE ~(start <= p /\ p < start + s.len)
      <3>1. CASE ChunkIdxOf(p) # k
        BY <1>9, <2>1, <2>3, <2>5, <3>1
      <3>2. CASE ChunkIdxOf(p) = k
        <4>1. ~(s.chunk_offset <= i /\ i < s.chunk_offset + s.len)
          <5> SUFFICES ASSUME s.chunk_offset <= i, i < s.chunk_offset + s.len
                       PROVE  FALSE
            OBVIOUS
          <5> DEFINE q == start + (i - s.chunk_offset)
          <5>1. i - s.chunk_offset \in Nat /\ i - s.chunk_offset < Available(start)
            BY <1>3, <2>1, <2>2, Located
          <5>2. ChunkIdxOf(q) = k /\ ChunkOffsetOf(q) = i
            BY <1>3, <2>1, <2>2, <5>1, RestOfChunk
          <5>3. q \in Nat /\ start <= q /\ q < start + s.len
            BY <1>3, <2>1, <2>2, <5>1
          <5>4. q = p
            BY <2>1, <3>2, <5>2, <5>3, Injective
          <5> QED
            BY <2>5, <5>3, <5>4
        <4>2. ByteAt(c, i) = ByteAt(ChunkContents(k), i)
          BY <1>4, <2>2, <4>1
        <4> QED
          BY <1>9, <2>1, <2>3, <2>5, <3>2, <4>2
      <3> QED
        BY <3>1, <3>2
    <2> QED
      BY <2>4, <2>5
  <1> QED
    BY <1>3, <1>7, <1>8, <1>10 DEF s

(* Vec::truncate keeps the first n bytes.                                  *)
LEMMA ShortenedFacts ==
  ASSUME NEW c \in Chunk, NEW n \in 1 .. ChunkSize
  PROVE  /\ Shortened(c, n) \in Chunk
         /\ \A i \in 0 .. (ChunkSize - 1) :
              ByteAt(Shortened(c, n), i) = IF i < n THEN ByteAt(c, i) ELSE 0
  <1> USE LayoutAssumption
  <1>1. PICK m \in 0 .. ChunkSize : c \in [0 .. (m - 1) -> Byte]
    BY ChunkElim
  <1>2. PICK l \in 0 .. ChunkSize : l = IF m < n THEN m ELSE n
    BY <1>1
  <1>3. (DOMAIN c) \cap (0 .. (n - 1)) = 0 .. (l - 1)
    BY <1>1, <1>2
  <1>4. Shortened(c, n) = [i \in 0 .. (l - 1) |-> c[i]]
    BY <1>3 DEF Shortened
  <1>5. Shortened(c, n) \in [0 .. (l - 1) -> Byte]
    BY <1>1, <1>2, <1>4
  <1>6. Shortened(c, n) \in Chunk
    BY <1>5, ChunkIntro
  <1>7. \A i \in 0 .. (ChunkSize - 1) :
          ByteAt(Shortened(c, n), i) = IF i < n THEN ByteAt(c, i) ELSE 0
    BY <1>1, <1>2, <1>4 DEF ByteAt
  <1> QED
    BY <1>6, <1>7

(* Truncation keeps the bytes before the new end and zeroes all others,    *)
(* whether they were staged, stored, or both.                              *)
LEMMA ShrinkView ==
  ASSUME Inv, NEW newSize \in Offsets, newSize < size,
         pending' = TruncatedPending(newSize), db' = db
  PROVE  /\ pending' \in [ChunkIdxs -> Chunk \cup {None, Deleted}]
         /\ \A p \in Positions : View'[p] = IF p < newSize THEN View[p] ELSE 0
  <1> USE LayoutAssumption
  <1>0. TypeOK
    BY DEF Inv
  <1>1. /\ pending \in [ChunkIdxs -> Chunk \cup {None, Deleted}]
        /\ db.chunks \in [ChunkIdxs -> Chunk \cup {None}]
        /\ size \in Offsets
    BY <1>0 DEF TypeOK, Stores
  <1>2. \A p \in Positions : /\ p \in Nat /\ ChunkIdxOf(p) \in ChunkIdxs
                             /\ ChunkIdxOf(p) \in Nat
                             /\ ChunkOffsetOf(p) \in 0 .. (ChunkSize - 1)
    BY Located DEF Positions, ChunkIdxs
  <1>3. ChunkIdxs \subseteq Nat
    BY Located DEF ChunkIdxs, Positions
  <1>4. \A i : ByteAt(EmptyChunk, i) = 0
    BY EmptyIsChunk DEF ByteAt
  <1>5. CASE newSize = 0
    <2>1. \A k \in ChunkIdxs :
            pending'[k] = IF db.chunks[k] # None THEN Deleted ELSE None
      BY <1>3, <1>5 DEF TruncatedPending, Persisted
    <2>2. pending' \in [ChunkIdxs -> Chunk \cup {None, Deleted}]
      BY <2>1 DEF TruncatedPending, Persisted
    <2>3. \A k \in ChunkIdxs : ChunkContents(k)' = EmptyChunk
      BY <2>1, HandleAssumption DEF ChunkContents, ReadChunkFromStore
    <2>4. \A p \in Positions : View'[p] = 0
      BY <1>2, <1>4, <2>3 DEF View
    <2> QED
      BY <1>2, <1>5, <2>2, <2>4
  <1>6. CASE newSize # 0
    <2> DEFINE e == newSize - 1
               last == ChunkIdxOf(e)
               n == ChunkOffsetOf(e) + 1
    <2>1. e \in Positions /\ e \in Nat
      BY <1>1, <1>6 DEF Offsets, Positions
    <2>2. last \in ChunkIdxs /\ last \in Nat /\ n \in 1 .. ChunkSize
      BY <1>2, <2>1
    <2>3. \A k \in ChunkIdxs :
            pending'[k] = IF k < last THEN pending[k]
                          ELSE IF k = last THEN ShortenedLast(k, n)
                          ELSE IF db.chunks[k] # None THEN Deleted
                          ELSE None
      BY <1>6 DEF TruncatedPending, Persisted
    <2> HIDE DEF last, n
    <2>4. ReadChunkFromStore(db.chunks, last) \in Chunk
      BY <1>1, <2>2, EmptyIsChunk DEF ReadChunkFromStore
    <2>5. pending[last] \in Chunk \cup {None, Deleted}
      BY <1>1, <2>2
    <2>6. /\ ShortenedLast(last, n) \in Chunk \cup {None, Deleted}
          /\ \A i \in 0 .. (ChunkSize - 1) :
               ByteAt(ChunkContents(last)', i)
                 = IF i < n THEN ByteAt(ChunkContents(last), i) ELSE 0
      <3>0. pending'[last] = ShortenedLast(last, n)
        BY <2>2, <2>3
      <3>1. CASE pending[last] = Deleted
        <4>1. ShortenedLast(last, n) = Deleted
          BY <3>1 DEF ShortenedLast
        <4>2. ChunkContents(last) = EmptyChunk /\ ChunkContents(last)' = EmptyChunk
          BY <3>0, <3>1, <4>1, HandleAssumption DEF ChunkContents, last
        <4> QED
          BY <1>4, <4>1, <4>2
      <3>2. CASE pending[last] \in Chunk
        <4>1. pending[last] # None /\ pending[last] # Deleted
          BY <3>2, HandleAssumption
        <4>2. ShortenedLast(last, n) = Shortened(pending[last], n)
          BY <4>1 DEF ShortenedLast
        <4>3. Shortened(pending[last], n) \in Chunk
          BY <2>2, <3>2, ShortenedFacts
        <4>4. /\ ChunkContents(last) = pending[last]
              /\ ChunkContents(last)' = Shortened(pending[last], n)
          BY <3>0, <4>1, <4>2, <4>3, HandleAssumption DEF ChunkContents, last
        <4> QED
          BY <2>2, <3>2, <4>2, <4>3, <4>4, ShortenedFacts
      <3>3. CASE pending[last] = None
        <4> DEFINE persisted == ReadChunkFromStore(db.chunks, last)
        <4>0. ChunkContents(last) = persisted
          BY <3>3 DEF ChunkContents
        <4>1. CASE n \in DOMAIN persisted
          <5>1. ShortenedLast(last, n) = Shortened(persisted, n)
            BY <3>3, <4>1, HandleAssumption DEF ShortenedLast
          <5>2. Shortened(persisted, n) \in Chunk
            BY <2>2, <2>4, ShortenedFacts
          <5>3. ChunkContents(last)' = Shortened(persisted, n)
            BY <3>0, <5>1, <5>2, HandleAssumption DEF ChunkContents, last
          <5> QED
            BY <2>2, <2>4, <4>0, <5>1, <5>2, <5>3, ShortenedFacts
        <4>2. CASE n \notin DOMAIN persisted
          <5>1. ShortenedLast(last, n) = None
            BY <3>3, <4>2, HandleAssumption DEF ShortenedLast
          <5>2. ChunkContents(last)' = persisted
            BY <3>0, <5>1 DEF ChunkContents, ReadChunkFromStore, last
          <5>3. PICK m \in 0 .. ChunkSize : persisted \in [0 .. (m - 1) -> Byte]
            BY <2>4, ChunkElim
          <5>4. \A i \in 0 .. (ChunkSize - 1) : i >= n => ByteAt(persisted, i) = 0
            BY <2>2, <4>2, <5>3 DEF ByteAt
          <5> QED
            BY <2>2, <4>0, <5>1, <5>2, <5>4
        <4> QED
          BY <4>1, <4>2
      <3> QED
        BY <2>5, <3>1, <3>2, <3>3
    <2>7. pending' \in [ChunkIdxs -> Chunk \cup {None, Deleted}]
      <3>1. \A k \in ChunkIdxs : pending'[k] \in Chunk \cup {None, Deleted}
        BY <1>1, <1>3, <2>2, <2>3, <2>6
      <3> QED
        BY <3>1 DEF TruncatedPending, Persisted
    <2>8. ASSUME NEW p \in Positions
          PROVE  View'[p] = IF p < newSize THEN View[p] ELSE 0
      <3> DEFINE k == ChunkIdxOf(p)
                 i == ChunkOffsetOf(p)
      <3>1. p \in Nat /\ k \in ChunkIdxs /\ k \in Nat /\ i \in 0 .. (ChunkSize - 1)
        BY <1>2
      <3>2. /\ View'[p] = ByteAt(ChunkContents(k)', i)
            /\ View[p] = ByteAt(ChunkContents(k), i)
        BY DEF View
      <3>3. CASE p < newSize
        <4>1. p = e \/ k < last \/ (k = last /\ i < ChunkOffsetOf(e))
          <5>1. p = e \/ p < e
            BY <1>1, <2>1, <3>1, <3>3 DEF Offsets
          <5> QED
            BY <2>1, <3>1, <5>1, Ordered DEF last
        <4>2. CASE k < last
          <5>1. pending'[k] = pending[k]
            BY <2>3, <3>1, <4>2
          <5>2. ChunkContents(k)' = ChunkContents(k)
            BY <5>1 DEF ChunkContents, ReadChunkFromStore
          <5> QED
            BY <3>2, <3>3, <5>2
        <4>3. CASE k = last /\ i < n
          BY <2>6, <3>1, <3>2, <3>3, <4>3
        <4>4. k < last \/ (k = last /\ i < n)
          BY <1>2, <2>1, <3>1, <4>1 DEF last, n
        <4> QED
          BY <4>2, <4>3, <4>4
      <3>4. CASE p >= newSize
        <4>1. last < k \/ (k = last /\ i >= n)
          <5>1. e < p
            BY <1>1, <2>1, <3>1, <3>4 DEF Offsets
          <5>2. last < k \/ (last = k /\ ChunkOffsetOf(e) < i)
            BY <2>1, <3>1, <5>1, Ordered DEF last
          <5> QED
            BY <1>2, <2>1, <3>1, <5>2 DEF n
        <4>2. CASE last < k
          <5>1. pending'[k] = IF db.chunks[k] # None THEN Deleted ELSE None
            BY <2>2, <2>3, <3>1, <4>2
          <5>2. ChunkContents(k)' = EmptyChunk
            BY <5>1, HandleAssumption DEF ChunkContents, ReadChunkFromStore
          <5> QED
            BY <1>1, <1>4, <3>1, <3>2, <3>4, <5>2 DEF Offsets
        <4>3. CASE k = last /\ i >= n
          <5>1. ByteAt(ChunkContents(last)', i) = 0
            BY <2>2, <2>6, <3>1, <4>3
          <5> QED
            BY <1>1, <3>1, <3>2, <3>4, <4>3, <5>1 DEF Offsets
        <4> QED
          BY <4>1, <4>2, <4>3
      <3> QED
        BY <1>1, <3>1, <3>3, <3>4 DEF Offsets
    <2> QED
      BY <2>7, <2>8
  <1> QED
    BY <1>5, <1>6

(* The batch of a sync stores what the handle shows, and once it is        *)
(* applied the handle shows the same.                                      *)
LEMMA BatchFacts ==
  ASSUME TypeOK
  PROVE  /\ Batch \in Stores
         /\ Batch.size = size
         /\ StoredView(Batch.chunks) = View
         /\ db' = Batch /\ UNCHANGED <<pending, size>> => View' = View /\ Batch' = Batch
  <1>1. /\ pending \in [ChunkIdxs -> Chunk \cup {None, Deleted}]
        /\ db.chunks \in [ChunkIdxs -> Chunk \cup {None}]
        /\ size \in Offsets
    BY DEF TypeOK, Stores
  <1>2. Batch.chunks = [k \in ChunkIdxs |->
                         IF pending[k] = None THEN db.chunks[k]
                         ELSE IF pending[k] = Deleted THEN None ELSE pending[k]]
    BY DEF Batch
  <1>3. Batch.chunks \in [ChunkIdxs -> Chunk \cup {None}]
    BY <1>1, <1>2
  <1>4. Batch \in Stores /\ Batch.size = size
    BY <1>1, <1>2, <1>3 DEF Batch, Stores
  <1>5. \A k \in ChunkIdxs : ReadChunkFromStore(Batch.chunks, k) = ChunkContents(k)
    BY <1>1, <1>2, HandleAssumption DEF ReadChunkFromStore, ChunkContents
  <1>6. StoredView(Batch.chunks) = View
    BY <1>5 DEF StoredView, View, ChunkIdxs
  <1>7. ASSUME db' = Batch, UNCHANGED <<pending, size>>
        PROVE  View' = View /\ Batch' = Batch
    <2>1. db'.chunks = Batch.chunks
      BY <1>7
    <2>2. \A k \in ChunkIdxs : ChunkContents(k)' = ChunkContents(k)
      BY <1>2, <1>7, <2>1, HandleAssumption DEF ChunkContents, ReadChunkFromStore
    <2>3. View' = View
      BY <2>2 DEF View, ChunkIdxs
    <2>4. [k \in ChunkIdxs |->
             IF pending[k] = None THEN Batch.chunks[k]
             ELSE IF pending[k] = Deleted THEN None ELSE pending[k]] = Batch.chunks
      BY <1>2
    <2>5. Batch' = Batch
      BY <1>7, <2>1, <2>4 DEF Batch
    <2> QED
      BY <2>3, <2>5
  <1> QED
    BY <1>4, <1>6, <1>7

(* A handle with nothing pending shows what is stored.                     *)
LEMMA NothingPendingView ==
  ASSUME pending = NothingPending
  PROVE  View = StoredView(db.chunks)
  <1>1. \A k \in ChunkIdxs : ChunkContents(k) = ReadChunkFromStore(db.chunks, k)
    BY DEF ChunkContents, NothingPending
  <1> QED
    BY <1>1 DEF View, StoredView, ChunkIdxs

LEMMA NewFileFacts ==
  /\ NewFile \in Stores
  /\ StoredView(NewFile.chunks) = [p \in Positions |-> 0]
  <1>1. NewFile.chunks = NothingPending /\ NewFile.size = 0
    BY DEF NewFile
  <1>2. NewFile \in Stores
    BY LayoutAssumption DEF NewFile, Stores, NothingPending, Offsets
  <1>3. \A k \in ChunkIdxs : ReadChunkFromStore(NewFile.chunks, k) = EmptyChunk
    BY <1>1 DEF ReadChunkFromStore, NothingPending
  <1>4. \A i : ByteAt(EmptyChunk, i) = 0
    BY EmptyIsChunk DEF ByteAt
  <1> QED
    BY <1>2, <1>3, <1>4 DEF StoredView, ChunkIdxs

----------------------------------------------------------------------------
LEMMA InitInv == Init => Inv
  <1> SUFFICES ASSUME Init PROVE Inv
    OBVIOUS
  <1>1. /\ db = NewFile /\ durable = NewFile /\ pending = NothingPending
        /\ size = 0 /\ position = 0 /\ dirty = FALSE /\ flags \in Flags
        /\ io = Idle /\ io.op = "idle" /\ faults = {}
    BY ModesAssumption DEF Init, Idle
  <1>2. TypeOK
    <2>1. NothingPending \in [ChunkIdxs -> Chunk \cup {None, Deleted}]
      BY DEF NothingPending
    <2>2. 0 \in Offsets
      BY LayoutAssumption DEF Offsets
    <2>3. dirty \in BOOLEAN
      BY <1>1
    <2> QED
      BY <1>1, <2>1, <2>2, <2>3, NewFileFacts DEF TypeOK
  <1>3. View = [p \in Positions |-> 0]
    BY <1>1, NothingPendingView, NewFileFacts
  <1>4. HiddenBytesAreZero
    BY <1>1, <1>3, NewFileFacts DEF HiddenBytesAreZero, Shown, ZeroFrom
  <1>5. StagedSoFar /\ SyncInProgress /\ UnsyncedIsDirty
    BY <1>1 DEF StagedSoFar, SyncInProgress, UnsyncedIsDirty, NewFile
  <1> QED
    BY <1>2, <1>4, <1>5 DEF Inv

(* Opening a handle over the metadata of the database, which crashes and   *)
(* destroyed handles end with.                                             *)
LEMMA OpenHandleStep ==
  ASSUME Inv, NEW mode \in Modes, OpenHandle(mode, db'.size), io' = Idle,
         db' \in Stores, durable' \in Stores,
         faults' \subseteq {"torn_write", "ignored_close"},
         "torn_write" \notin faults' =>
           /\ ZeroFrom(StoredView(db'.chunks), db'.size)
           /\ ZeroFrom(StoredView(durable'.chunks), durable'.size),
         "ignored_close" \notin faults' => durable' = db'
  PROVE  Inv'
  <1>1. /\ pending' = NothingPending /\ size' = db'.size /\ dirty' = FALSE
        /\ position' \in {0, db'.size} /\ flags' \in Flags /\ io'.op = "idle"
    BY ModesAssumption DEF OpenHandle, Idle
  <1>2. db'.size \in Offsets /\ 0 \in Offsets
    BY LayoutAssumption DEF Stores, Offsets
  <1>3. TypeOK'
    BY <1>1, <1>2 DEF TypeOK, NothingPending
  <1>4. View' = StoredView(db'.chunks)
    <2>1. \A k \in ChunkIdxs : ChunkContents(k)' = ReadChunkFromStore(db'.chunks, k)
      BY <1>1 DEF ChunkContents, NothingPending, ReadChunkFromStore
    <2> QED
      BY <2>1 DEF View, StoredView, ChunkIdxs
  <1>5. HiddenBytesAreZero'
    <2>1. Shown' = StoredView(db'.chunks)
      BY <1>1, <1>4 DEF Shown
    <2>2. /\ StoredView(db.chunks)' = StoredView(db'.chunks)
          /\ StoredView(durable.chunks)' = StoredView(durable'.chunks)
      BY DEF StoredView, ReadChunkFromStore
    <2> QED
      BY <1>1, <2>1, <2>2 DEF HiddenBytesAreZero, ZeroFrom
  <1>6. (StagedSoFar /\ SyncInProgress /\ UnsyncedIsDirty)'
    BY <1>1 DEF StagedSoFar, SyncInProgress, UnsyncedIsDirty
  <1> QED
    BY <1>3, <1>5, <1>6 DEF Inv

(* What the handle and the database show depends on nothing else.          *)
LEMMA SameView ==
  /\ pending' = pending /\ db' = db => View' = View
  /\ db' = db => StoredView(db.chunks)' = StoredView(db.chunks)
  /\ durable' = durable => StoredView(durable.chunks)' = StoredView(durable.chunks)
  BY DEF View, StoredView, ChunkContents, ReadChunkFromStore

(* The types of the operation in progress.                                 *)
LEMMA OpTypes ==
  ASSUME TypeOK
  PROVE  /\ io.op \in {"idle", "write", "sync", "flush"}
         /\ io = Idle => io.op = "idle"
         /\ io.op = "write" =>
              /\ io \in WriteOps
              /\ io.data \in Payloads /\ io.offset \in Nat /\ io.covered \in Nat
              /\ io.sequential \in BOOLEAN /\ io.before \in [Positions -> Byte]
              /\ PayloadLen(io.data) \in 1 .. MaxU64
              /\ io.offset + PayloadLen(io.data) <= MaxU64
         /\ io.op \in {"sync", "flush"} => io.destroy \in BOOLEAN
  <1>1. CASE io = Idle
    BY <1>1 DEF Idle
  <1>2. CASE io \in WriteOps
    <2>1. io.data \in Payloads /\ io.op = "write"
      BY <1>2 DEF WriteOps
    <2>2. PayloadLen(io.data) \in 1 .. MaxU64
      BY <2>1, PayloadFacts
    <2>3. io.offset + PayloadLen(io.data) <= MaxU64
      BY <2>1 DEF TypeOK
    <2> QED
      BY <1>2, <2>1, <2>2, <2>3, LayoutAssumption DEF WriteOps, Offsets, Idle
  <1>3. CASE io \in SyncOps
    BY <1>3 DEF SyncOps, Idle
  <1> QED
    BY <1>1, <1>2, <1>3 DEF TypeOK

(* A write begins: nothing is covered, and the bytes it may not disturb    *)
(* are those the handle shows.                                             *)
LEMMA StartWriteInv ==
  ASSUME Inv, NEW data \in Payloads, NEW offset \in Offsets,
         NEW sequential \in BOOLEAN, StartWrite(data, offset, sequential)
  PROVE  Inv'
  <1>0. TypeOK /\ io = Idle /\ io.op = "idle"
    BY OpTypes DEF Inv, StartWrite
  <1>1. UNCHANGED <<pending, size, position, dirty, flags, db, durable, faults>>
    BY DEF StartWrite, handle
  <1>2. /\ io' = [op |-> "write", data |-> data, offset |-> offset, covered |-> 0,
                  sequential |-> sequential, before |-> View]
        /\ offset + PayloadLen(data) <= MaxU64
    BY DEF StartWrite
  <1>3. View' = View /\ View \in [Positions -> Byte]
    BY <1>0, <1>1, SameView, ViewType
  <1> HIDE DEF View
  <1>4. 0 \in Offsets
    BY LayoutAssumption DEF Offsets
  <1>5. /\ io' \in WriteOps /\ io'.op = "write" /\ io'.before = View
        /\ io'.covered = 0 /\ io'.offset = offset /\ io'.data = data
    BY <1>2, <1>3, <1>4 DEF WriteOps
  <1>6. TypeOK'
    BY <1>0, <1>1, <1>2, <1>5 DEF TypeOK
  <1>7. Shown = View /\ Shown' = View
    BY <1>0, <1>5 DEF Shown
  <1>8. HiddenBytesAreZero'
    BY <1>1, <1>7, SameView DEF Inv, HiddenBytesAreZero, ZeroFrom
  <1>9. StagedSoFar'
    <2>1. PayloadLen(data) \in Nat /\ 0 <= PayloadLen(data) /\ offset \in Nat
      BY PayloadFacts DEF Offsets
    <2> QED
      BY <1>3, <1>5, <2>1 DEF StagedSoFar, Positions
  <1>10. SyncInProgress' /\ UnsyncedIsDirty'
    BY <1>0, <1>1, <1>5 DEF Inv, SyncInProgress, UnsyncedIsDirty, Clean
  <1> QED
    BY <1>6, <1>8, <1>9, <1>10 DEF Inv

LEMMA StageSliceInv ==
  ASSUME Inv, StageSlice
  PROVE  Inv'
  <1> DEFINE n == NextSlice.len
  <1>0. TypeOK /\ io.op = "write"
    BY DEF Inv, StageSlice
  <1>1. UNCHANGED <<size, position, dirty, flags, db, durable, faults>>
    BY DEF StageSlice
  <1>2. io' = [io EXCEPT !.covered = @ + n]
    BY DEF StageSlice
  <1>3. /\ pending' \in [ChunkIdxs -> Chunk \cup {None, Deleted}]
        /\ pending' # NothingPending
        /\ n \in Nat /\ io.covered + n <= PayloadLen(io.data)
        /\ \A p \in Positions :
             View'[p] = IF io.offset + io.covered <= p /\ p < io.offset + io.covered + n
                          THEN io.data[p - io.offset] ELSE View[p]
    BY StageSliceView
  <1> HIDE DEF n
  <1>4. /\ io \in WriteOps /\ io.covered \in Nat /\ io.offset \in Nat
        /\ PayloadLen(io.data) \in 1 .. MaxU64
        /\ io.offset + PayloadLen(io.data) <= MaxU64
    BY <1>0, OpTypes
  <1>5. io.covered + n \in Offsets
    BY <1>3, <1>4, LayoutAssumption DEF Offsets
  <1>6. /\ io' \in WriteOps /\ io'.op = "write" /\ io'.before = io.before
        /\ io'.covered = io.covered + n /\ io'.offset = io.offset
        /\ io'.data = io.data
    BY <1>0, <1>2, <1>4, <1>5 DEF WriteOps
  <1>7. TypeOK'
    BY <1>0, <1>1, <1>3, <1>4, <1>6 DEF TypeOK
  <1>8. Shown' = Shown
    BY <1>0, <1>6 DEF Shown
  <1>9. HiddenBytesAreZero'
    BY <1>1, <1>8, SameView DEF Inv, HiddenBytesAreZero, ZeroFrom
  <1>10. StagedSoFar'
    <2>1. ASSUME NEW p \in Positions
          PROVE  View'[p] = IF io.offset <= p /\ p < io.offset + (io.covered + n)
                              THEN io.data[p - io.offset] ELSE io.before[p]
      <3>1. p \in Nat
        BY DEF Positions
      <3>2. View[p] = IF io.offset <= p /\ p < io.offset + io.covered
                        THEN io.data[p - io.offset] ELSE io.before[p]
        BY <1>0 DEF Inv, StagedSoFar
      <3> QED
        BY <1>3, <1>4, <3>1, <3>2
    <2> QED
      BY <1>3, <1>6, <2>1 DEF StagedSoFar
  <1>11. SyncInProgress' /\ UnsyncedIsDirty'
    BY <1>0, <1>1, <1>3, <1>6 DEF Inv, SyncInProgress, UnsyncedIsDirty, Clean
  <1> QED
    BY <1>7, <1>9, <1>10, <1>11 DEF Inv

(* A write that fails before it went past the end leaves no hidden byte.   *)
LEMMA StageSliceFailsInv ==
  ASSUME Inv, StageSliceFails
  PROVE  Inv'
  <1>0. TypeOK /\ io.op = "write"
    BY DEF Inv, StageSliceFails
  <1>1. UNCHANGED <<pending, size, position, dirty, flags, db, durable>>
    BY DEF StageSliceFails, handle
  <1>2. io' = Idle /\ io'.op = "idle"
    BY DEF StageSliceFails, Idle
  <1>3. faults' = IF io.covered > 0 /\ io.offset + io.covered > size
                    THEN faults \cup {"torn_write"} ELSE faults
    BY DEF StageSliceFails
  <1>4. View' = View /\ Shown' = View /\ Shown = io.before
    BY <1>0, <1>1, <1>2, SameView DEF Shown
  <1>5. io.covered \in Nat /\ io.offset \in Nat /\ size \in Nat
    BY <1>0, OpTypes DEF TypeOK, Offsets
  <1>6. faults' \subseteq {"torn_write", "ignored_close"} /\ faults \subseteq faults'
    BY <1>0, <1>3 DEF TypeOK
  <1>7. TypeOK'
    BY <1>0, <1>1, <1>2, <1>6 DEF TypeOK
  <1>8. HiddenBytesAreZero'
    <2> SUFFICES ASSUME "torn_write" \notin faults'
                 PROVE  ZeroFrom(View, size)
      BY <1>1, <1>4, <1>6, SameView DEF Inv, HiddenBytesAreZero, ZeroFrom
    <2>1. io.covered = 0 \/ io.offset + io.covered <= size
      BY <1>3, <1>5
    <2>2. ZeroFrom(io.before, size)
      BY <1>4, <1>6 DEF Inv, HiddenBytesAreZero
    <2>3. ASSUME NEW p \in Positions, p >= size PROVE View[p] = 0
      <3>1. p \in Nat
        BY DEF Positions
      <3>2. View[p] = IF io.offset <= p /\ p < io.offset + io.covered
                        THEN io.data[p - io.offset] ELSE io.before[p]
        BY <1>0 DEF Inv, StagedSoFar
      <3>3. ~(io.offset <= p /\ p < io.offset + io.covered)
        BY <1>5, <2>1, <2>3, <3>1
      <3> QED
        BY <2>2, <2>3, <3>2, <3>3 DEF ZeroFrom
    <2> QED
      BY <2>3 DEF ZeroFrom
  <1>9. (StagedSoFar /\ SyncInProgress)'
    BY <1>2 DEF StagedSoFar, SyncInProgress
  <1>10. UnsyncedIsDirty'
    BY <1>0, <1>1, <1>6 DEF Inv, UnsyncedIsDirty, Clean
  <1> QED
    BY <1>7, <1>8, <1>9, <1>10 DEF Inv

LEMMA FinishWriteInv ==
  ASSUME Inv, FinishWrite
  PROVE  Inv'
  <1> DEFINE end == io.offset + PayloadLen(io.data)
  <1>0. TypeOK /\ io.op = "write" /\ io.covered = PayloadLen(io.data)
    BY DEF Inv, FinishWrite
  <1>1. /\ UNCHANGED <<pending, flags, db, durable, faults>>
        /\ io' = Idle /\ io'.op = "idle" /\ dirty' = TRUE
        /\ size' = (IF end > size THEN end ELSE size)
        /\ position' \in {end, position}
    BY DEF FinishWrite, Idle
  <1>2. io.offset \in Nat /\ PayloadLen(io.data) \in Nat /\ end <= MaxU64
    BY <1>0, OpTypes
  <1>3. end \in Offsets /\ size \in Offsets /\ size' \in Offsets
    BY <1>0, <1>1, <1>2, LayoutAssumption DEF TypeOK, Offsets
  <1>4. TypeOK'
    BY <1>0, <1>1, <1>3 DEF TypeOK
  <1>5. View' = View /\ Shown' = View /\ Shown = io.before
    BY <1>0, <1>1, SameView DEF Shown
  <1>6. ASSUME ZeroFrom(io.before, size) PROVE ZeroFrom(View, size')
    <2>1. ASSUME NEW p \in Positions, p >= size' PROVE View[p] = 0
      <3>1. p \in Nat
        BY DEF Positions
      <3>2. View[p] = IF io.offset <= p /\ p < end
                        THEN io.data[p - io.offset] ELSE io.before[p]
        BY <1>0 DEF Inv, StagedSoFar
      <3>3. ~(p < end) /\ p >= size
        BY <1>1, <1>3, <2>1, <3>1 DEF Offsets
      <3> QED
        BY <1>6, <3>2, <3>3 DEF ZeroFrom
    <2> QED
      BY <2>1 DEF ZeroFrom
  <1>7. HiddenBytesAreZero'
    BY <1>1, <1>5, <1>6, SameView DEF Inv, HiddenBytesAreZero, ZeroFrom
  <1>8. (StagedSoFar /\ SyncInProgress /\ UnsyncedIsDirty)'
    BY <1>1 DEF StagedSoFar, SyncInProgress, UnsyncedIsDirty, Clean
  <1> QED
    BY <1>4, <1>7, <1>8 DEF Inv

(* Both directions of truncate.  Growing is where the absence of hidden    *)
(* bytes is used, shrinking where it is restored.                          *)
LEMMA TruncateInv ==
  ASSUME Inv, NEW newSize \in Offsets, Grow(newSize) \/ Shrink(newSize)
  PROVE  Inv'
  <1>0. TypeOK /\ io.op = "idle" /\ size \in Offsets
    BY OpTypes DEF Inv, Grow, Shrink, TypeOK
  <1>1. /\ UNCHANGED <<position, flags, db, durable, io, faults>>
        /\ dirty' = TRUE /\ size' = newSize
    BY DEF Grow, Shrink
  <1>2. Shown = View /\ Shown' = View'
    BY <1>0, <1>1 DEF Shown
  <1>3. /\ pending' \in [ChunkIdxs -> Chunk \cup {None, Deleted}]
        /\ ZeroFrom(View, size) => ZeroFrom(View', newSize)
    <2>1. CASE Grow(newSize)
      <3>1. pending' = pending /\ newSize > size
        BY <2>1 DEF Grow
      <3> QED
        BY <1>0, <1>1, <3>1, SameView DEF TypeOK, ZeroFrom, Offsets, Positions
    <2>2. CASE Shrink(newSize)
      <3>1. pending' = TruncatedPending(newSize) /\ newSize < size
        BY <2>2 DEF Shrink
      <3>2. /\ pending' \in [ChunkIdxs -> Chunk \cup {None, Deleted}]
            /\ \A p \in Positions : View'[p] = IF p < newSize THEN View[p] ELSE 0
        BY <1>1, <3>1, ShrinkView
      <3> QED
        BY <3>2 DEF ZeroFrom, Offsets, Positions
    <2> QED
      BY <2>1, <2>2
  <1>4. TypeOK'
    BY <1>0, <1>1, <1>3 DEF TypeOK
  <1>5. HiddenBytesAreZero'
    BY <1>1, <1>2, <1>3, SameView DEF Inv, HiddenBytesAreZero, ZeroFrom
  <1>6. (StagedSoFar /\ SyncInProgress /\ UnsyncedIsDirty)'
    BY <1>0, <1>1 DEF StagedSoFar, SyncInProgress, UnsyncedIsDirty, Clean
  <1> QED
    BY <1>4, <1>5, <1>6 DEF Inv

(* Steps that only move the position or start a sync.                      *)
LEMMA QuietInv ==
  ASSUME Inv, UNCHANGED <<pending, size, dirty, flags, db, durable, faults>>,
         position' \in Offsets,
         \/ io' = io
         \/ io = Idle /\ ~Clean /\ io' \in SyncOps /\ io'.op = "sync"
  PROVE  Inv'
  <1>0. TypeOK
    BY DEF Inv
  <1>1. View' = View /\ StoredView(db.chunks)' = StoredView(db.chunks)
        /\ StoredView(durable.chunks)' = StoredView(durable.chunks)
        /\ Batch' = Batch /\ Clean' = Clean
    BY SameView DEF Batch, Clean
  <1>2. CASE io' = io
    <2>1. TypeOK'
      BY <1>0, <1>2 DEF TypeOK
    <2>2. HiddenBytesAreZero'
      BY <1>1, <1>2 DEF Inv, HiddenBytesAreZero, ZeroFrom, Shown
    <2>3. StagedSoFar'
      BY <1>1, <1>2 DEF Inv, StagedSoFar
    <2>4. SyncInProgress' /\ UnsyncedIsDirty'
      BY <1>1, <1>2 DEF Inv, SyncInProgress, UnsyncedIsDirty
    <2> QED
      BY <2>1, <2>2, <2>3, <2>4 DEF Inv
  <1>3. CASE io = Idle /\ ~Clean /\ io' \in SyncOps /\ io'.op = "sync"
    <2>0. io.op = "idle"
      BY <1>3 DEF Idle
    <2>1. TypeOK'
      BY <1>0, <1>3 DEF TypeOK
    <2>2. HiddenBytesAreZero'
      BY <1>1, <1>3, <2>0 DEF Inv, HiddenBytesAreZero, ZeroFrom, Shown
    <2>3. StagedSoFar'
      BY <1>3 DEF StagedSoFar
    <2>4. SyncInProgress' /\ UnsyncedIsDirty'
      BY <1>1, <1>3, <2>0 DEF Inv, SyncInProgress, UnsyncedIsDirty
    <2> QED
      BY <2>1, <2>2, <2>3, <2>4 DEF Inv
  <1> QED
    BY <1>2, <1>3

LEMMA SyncWriteInv ==
  ASSUME Inv, SyncWrite
  PROVE  Inv'
  <1>0. TypeOK /\ io.op = "sync" /\ io.destroy \in BOOLEAN /\ ~Clean
    BY OpTypes DEF Inv, SyncWrite, SyncInProgress
  <1>1. /\ UNCHANGED <<pending, size, position, dirty, flags, durable, faults>>
        /\ db' = Batch
        /\ io' = [op |-> "flush", destroy |-> io.destroy]
    BY DEF SyncWrite, handle
  <1>2. /\ Batch \in Stores /\ Batch.size = size /\ StoredView(Batch.chunks) = View
        /\ View' = View /\ Batch' = Batch
    BY <1>0, <1>1, BatchFacts
  <1>3. io' \in SyncOps /\ io'.op = "flush"
    BY <1>0, <1>1 DEF SyncOps
  <1>4. StoredView(db.chunks)' = View
    BY <1>1, <1>2 DEF StoredView, ReadChunkFromStore
  <1>5. TypeOK'
    BY <1>0, <1>1, <1>2, <1>3 DEF TypeOK
  <1>6. HiddenBytesAreZero'
    <2>1. Shown = View /\ Shown' = View /\ db'.size = size
      BY <1>0, <1>1, <1>2, <1>3 DEF Shown
    <2> QED
      BY <1>1, <1>4, <2>1, SameView DEF Inv, HiddenBytesAreZero, ZeroFrom
  <1>7. StagedSoFar' /\ SyncInProgress'
    BY <1>0, <1>1, <1>2, <1>3 DEF StagedSoFar, SyncInProgress, Clean
  <1>8. UnsyncedIsDirty'
    BY <1>1, <1>2, <1>3 DEF UnsyncedIsDirty
  <1> QED
    BY <1>5, <1>6, <1>7, <1>8 DEF Inv

(* The flush of a sync, of a handle that is kept and of one destroyed.     *)
LEMMA SyncFlushInv ==
  ASSUME Inv, SyncFlush
  PROVE  Inv'
  <1>0. /\ TypeOK /\ io.op = "flush" /\ io.destroy \in BOOLEAN
        /\ db = Batch /\ db \in Stores
    BY OpTypes DEF Inv, SyncFlush, SyncInProgress, TypeOK
  <1>1. /\ durable' = db /\ db' = db /\ io' = Idle /\ io'.op = "idle"
        /\ faults' \subseteq {"torn_write", "ignored_close"}
        /\ "torn_write" \notin faults' => "torn_write" \notin faults
    BY <1>0 DEF SyncFlush, Idle, TypeOK
  <1>2. /\ "torn_write" \notin faults' => ZeroFrom(StoredView(db.chunks), db.size)
        /\ StoredView(db.chunks)' = StoredView(db.chunks)
        /\ StoredView(durable.chunks)' = StoredView(db.chunks)
    BY <1>1, SameView DEF Inv, HiddenBytesAreZero, StoredView, ReadChunkFromStore
  <1>3. CASE io.destroy
    <2>1. PICK mode \in Modes : OpenHandle(mode, db.size)
      BY <1>3 DEF SyncFlush
    <2> QED
      BY <1>0, <1>1, <1>2, <2>1, OpenHandleStep
  <1>4. CASE ~io.destroy
    <2>1. /\ pending' = NothingPending /\ dirty' = FALSE
          /\ UNCHANGED <<size, position, flags>>
      BY <1>4 DEF SyncFlush
    <2>2. size = db.size
      BY <1>0, BatchFacts
    <2>3. View' = StoredView(db.chunks)
      <3>1. \A k \in ChunkIdxs : ChunkContents(k)' = ReadChunkFromStore(db.chunks, k)
        BY <1>1, <2>1 DEF ChunkContents, NothingPending, ReadChunkFromStore
      <3> QED
        BY <3>1 DEF View, StoredView, ChunkIdxs
    <2>4. TypeOK'
      <3>1. NothingPending \in [ChunkIdxs -> Chunk \cup {None, Deleted}]
        BY DEF NothingPending
      <3> QED
        BY <1>0, <1>1, <2>1, <3>1 DEF TypeOK
    <2>5. HiddenBytesAreZero'
      BY <1>1, <1>2, <2>1, <2>2, <2>3 DEF HiddenBytesAreZero, ZeroFrom, Shown
    <2>6. (StagedSoFar /\ SyncInProgress /\ UnsyncedIsDirty)'
      BY <1>1, <2>1, <2>2 DEF StagedSoFar, SyncInProgress, UnsyncedIsDirty
    <2> QED
      BY <2>4, <2>5, <2>6 DEF Inv
  <1> QED
    BY <1>0, <1>3, <1>4

LEMMA SyncFailsInv ==
  ASSUME Inv, SyncFails
  PROVE  Inv'
  <1>0. /\ TypeOK /\ io.op \in {"sync", "flush"} /\ io.destroy \in BOOLEAN
        /\ ~Clean /\ db \in Stores /\ Shown = View
    BY OpTypes DEF Inv, SyncFails, SyncInProgress, TypeOK, Shown
  <1>1. /\ durable' = durable /\ db' \in {db, Batch} /\ io' = Idle
        /\ io'.op = "idle"
    BY DEF SyncFails, Idle
  <1>2. /\ Batch \in Stores /\ Batch.size = size
        /\ StoredView(Batch.chunks) = View
    BY <1>0, BatchFacts
  <1>3. /\ db' \in Stores
        /\ "torn_write" \notin faults => ZeroFrom(StoredView(db'.chunks), db'.size)
        /\ "torn_write" \notin faults => ZeroFrom(StoredView(durable.chunks), durable.size)
    BY <1>0, <1>1, <1>2 DEF Inv, HiddenBytesAreZero
  <1>4. CASE io.destroy
    <2>1. /\ \E mode \in Modes : OpenHandle(mode, db'.size)
          /\ faults' = faults \cup {"ignored_close"}
      BY <1>4 DEF SyncFails
    <2>2. PICK mode \in Modes : OpenHandle(mode, db'.size)
      BY <2>1
    <2>3. durable' \in Stores /\ faults' \subseteq {"torn_write", "ignored_close"}
      BY <1>0, <1>1, <2>1 DEF TypeOK
    <2> QED
      BY <1>1, <1>3, <2>1, <2>2, <2>3, OpenHandleStep
  <1>5. CASE ~io.destroy
    <2>1. UNCHANGED <<pending, size, position, dirty, flags, faults>>
      BY <1>5 DEF SyncFails, handle
    <2>2. View' = View
      BY <1>0, <1>1, <2>1, SameView, BatchFacts
    <2>3. TypeOK'
      BY <1>0, <1>1, <1>3, <2>1 DEF TypeOK
    <2>4. HiddenBytesAreZero'
      <3>1. StoredView(db.chunks)' = StoredView(db'.chunks) /\ Shown' = View
        BY <1>1, <2>2 DEF StoredView, ReadChunkFromStore, Shown
      <3> QED
        BY <1>0, <1>1, <1>3, <2>1, <3>1, SameView
           DEF Inv, HiddenBytesAreZero, ZeroFrom
    <2>5. (StagedSoFar /\ SyncInProgress)'
      BY <1>1 DEF StagedSoFar, SyncInProgress
    <2>6. UnsyncedIsDirty'
      BY <1>0, <1>1, <1>2, <2>1 DEF Inv, UnsyncedIsDirty, Clean
    <2> QED
      BY <2>3, <2>4, <2>5, <2>6 DEF Inv
  <1> QED
    BY <1>0, <1>4, <1>5

LEMMA ReopenInv ==
  ASSUME Inv, Reopen
  PROVE  Inv'
  <1>0. TypeOK /\ io = Idle /\ io.op = "idle" /\ Clean
    BY OpTypes DEF Inv, Reopen
  <1>1. UNCHANGED <<db, durable, io, faults>>
    BY DEF Reopen
  <1>2. PICK mode \in Modes : OpenHandle(mode, db'.size)
    BY <1>1 DEF Reopen
  <1>3. "ignored_close" \notin faults => durable = db
    BY <1>0 DEF Inv, UnsyncedIsDirty
  <1>4. /\ db' \in Stores /\ durable' \in Stores
        /\ faults' \subseteq {"torn_write", "ignored_close"}
    BY <1>0, <1>1 DEF TypeOK
  <1>5. "torn_write" \notin faults' =>
          /\ ZeroFrom(StoredView(db'.chunks), db'.size)
          /\ ZeroFrom(StoredView(durable'.chunks), durable'.size)
    BY <1>1 DEF Inv, HiddenBytesAreZero
  <1> QED
    BY <1>0, <1>1, <1>2, <1>3, <1>4, <1>5, OpenHandleStep

(* After a crash the database is its durable part.                         *)
LEMMA CrashInv ==
  ASSUME Inv, Crash
  PROVE  Inv'
  <1>0. TypeOK
    BY DEF Inv
  <1>1. /\ db' = durable /\ durable' = durable /\ io' = Idle
        /\ faults' = faults \ {"ignored_close"}
    BY DEF Crash
  <1>2. PICK mode \in Modes : OpenHandle(mode, db'.size)
    BY <1>1 DEF Crash
  <1>3. /\ db' \in Stores /\ durable' \in Stores
        /\ faults' \subseteq {"torn_write", "ignored_close"}
    BY <1>0, <1>1 DEF TypeOK
  <1>4. "torn_write" \notin faults' =>
          /\ ZeroFrom(StoredView(db'.chunks), db'.size)
          /\ ZeroFrom(StoredView(durable'.chunks), durable'.size)
    BY <1>1 DEF Inv, HiddenBytesAreZero
  <1> QED
    BY <1>1, <1>2, <1>3, <1>4, OpenHandleStep

LEMMA BackgroundFlushInv ==
  ASSUME Inv, BackgroundFlush
  PROVE  Inv'
  <1>0. TypeOK
    BY DEF Inv
  <1>1. /\ UNCHANGED <<pending, size, position, dirty, flags, db, io>>
        /\ durable' = db /\ faults' = faults \ {"ignored_close"}
    BY DEF BackgroundFlush, handle
  <1>2. View' = View /\ StoredView(db.chunks)' = StoredView(db.chunks)
        /\ StoredView(durable.chunks)' = StoredView(db.chunks)
        /\ Batch' = Batch /\ Clean' = Clean
    BY <1>1, SameView DEF Batch, Clean, StoredView, ReadChunkFromStore
  <1>3. TypeOK'
    BY <1>0, <1>1 DEF TypeOK
  <1>4. HiddenBytesAreZero'
    BY <1>1, <1>2 DEF Inv, HiddenBytesAreZero, ZeroFrom, Shown
  <1>5. StagedSoFar'
    BY <1>1, <1>2 DEF Inv, StagedSoFar
  <1>6. (SyncInProgress /\ UnsyncedIsDirty)'
    BY <1>1, <1>2 DEF Inv, SyncInProgress, UnsyncedIsDirty
  <1> QED
    BY <1>3, <1>4, <1>5, <1>6 DEF Inv

(* Every step, one action at a time.                                       *)
LEMMA NextInv == Inv /\ [Next]_vars => Inv'
  <1> SUFFICES ASSUME Inv, [Next]_vars PROVE Inv'
    OBVIOUS
  <1> USE HandleAssumption
  <1>0. TypeOK /\ size \in Offsets /\ position \in Offsets
    BY DEF Inv, TypeOK
  <1>1. ASSUME NEW data \in Payloads, NEW offset \in Targets, Pwrite(data, offset)
        PROVE  Inv'
    BY <1>1, StartWriteInv DEF Pwrite
  <1>2. ASSUME NEW data \in Payloads, Write(data) PROVE Inv'
    <2>1. (IF flags.append THEN size ELSE position) \in Offsets
      BY <1>0
    <2> QED
      BY <1>2, <2>1, StartWriteInv DEF Write
  <1>3. CASE WriteNothing
    <2>1. position' \in Offsets
      BY <1>0, <1>3 DEF WriteNothing
    <2> QED
      BY <1>3, <2>1, QuietInv DEF WriteNothing
  <1>4. CASE StageSlice
    BY <1>4, StageSliceInv
  <1>5. CASE StageSliceFails
    BY <1>5, StageSliceFailsInv
  <1>6. CASE FinishWrite
    BY <1>6, FinishWriteInv
  <1>7. ASSUME NEW newSize \in Targets, Grow(newSize) \/ Shrink(newSize)
        PROVE  Inv'
    BY <1>7, TruncateInv
  <1>8. ASSUME NEW len \in ReadLens, Read(len) PROVE Inv'
    <2>1. position' = position + PreadLen(position, len) /\ len \in Nat
      BY <1>8 DEF Read
    <2>2. position' \in Offsets
      BY <1>0, <2>1, LayoutAssumption DEF PreadLen, Offsets
    <2> QED
      BY <1>8, <2>2, QuietInv DEF Read
  <1>9. ASSUME NEW target \in Seeks, Seek(target) PROVE Inv'
    <2>1. position' \in Offsets
      BY <1>9 DEF Seek
    <2> QED
      BY <1>9, <2>1, QuietInv DEF Seek
  <1>10. ASSUME NEW destroy \in BOOLEAN, StartSync(destroy) PROVE Inv'
    <2>1. io' \in SyncOps /\ io'.op = "sync"
      BY <1>10 DEF StartSync, SyncOps
    <2> QED
      BY <1>0, <1>10, <2>1, QuietInv DEF StartSync, handle
  <1>11. CASE SyncWrite
    BY <1>11, SyncWriteInv
  <1>12. CASE SyncFlush
    BY <1>12, SyncFlushInv
  <1>13. CASE SyncFails
    BY <1>13, SyncFailsInv
  <1>14. CASE Reopen
    BY <1>14, ReopenInv
  <1>15. CASE BackgroundFlush
    BY <1>15, BackgroundFlushInv
  <1>16. CASE Crash
    BY <1>16, CrashInv
  <1>17. CASE UNCHANGED vars
    BY <1>0, <1>17, QuietInv DEF vars
  <1> QED
    BY <1>1, <1>2, <1>3, <1>4, <1>5, <1>6, <1>7, <1>8, <1>9, <1>10, <1>11,
       <1>12, <1>13, <1>14, <1>15, <1>16, <1>17 DEF Next

----------------------------------------------------------------------------
(* The strengthened invariant holds of the file handle, for every chunk    *)
(* geometry and every sequence of writes, truncations, syncs, failures,    *)
(* reopenings and crashes.                                                 *)
THEOREM FileHandleInvariant == Spec => []Inv
  BY InitInv, NextInv, PTL DEF Spec

(* No chunk outgrows the chunk size, and no size or position leaves u64.   *)
THEOREM FileHandleTypeOK == Spec => []TypeOK
  <1>1. Inv => TypeOK
    BY DEF Inv
  <1> QED
    BY <1>1, FileHandleInvariant, PTL

(* Without a write that failed part way, no byte hides past the end of the *)
(* file, in the handle, in the database or on disk.                        *)
THEOREM FileHandleHiddenBytesAreZero == Spec => []HiddenBytesAreZero
  <1>1. Inv => HiddenBytesAreZero
    BY DEF Inv
  <1> QED
    BY <1>1, FileHandleInvariant, PTL

(* A write in progress has staged exactly the bytes it has covered.        *)
THEOREM FileHandleStagedSoFar == Spec => []StagedSoFar
  <1>1. Inv => StagedSoFar
    BY DEF Inv
  <1> QED
    BY <1>1, FileHandleInvariant, PTL

(* A handle whose sync would return at once shows what the database holds, *)
(* and that is durable unless a failed close was ignored.                  *)
THEOREM FileHandleCleanMeansSynced == Spec => []CleanMeansSynced
  <1>1. Inv => CleanMeansSynced
    <2> SUFFICES ASSUME Inv, io = Idle, Clean
                 PROVE  /\ size = db.size
                        /\ View = StoredView(db.chunks)
                        /\ "ignored_close" \notin faults => durable = db
      BY DEF CleanMeansSynced
    <2>1. io.op = "idle" /\ pending = NothingPending /\ ~dirty
      BY DEF Idle, Clean
    <2> QED
      BY <2>1, NothingPendingView DEF Inv, UnsyncedIsDirty
  <1> QED
    BY <1>1, FileHandleInvariant, PTL

----------------------------------------------------------------------------
(* The abstract file, and what one step of the handle is to it.            *)
ShownFile     == [size |-> size, bytes |-> Shown]
CommittedFile == [size |-> db.size, bytes |-> StoredView(db.chunks)]
DurableFile   == [size |-> durable.size, bytes |-> StoredView(durable.chunks)]

LEMMA SameFiles ==
  /\ UNCHANGED <<size, Shown>> => ShownFile' = ShownFile
  /\ db' = db => CommittedFile' = CommittedFile
  /\ durable' = durable => DurableFile' = DurableFile
  BY SameView DEF ShownFile, CommittedFile, DurableFile

(* The staged changes of a write that succeeds, or fails part way.         *)
LEMMA WriteIsOverlay ==
  ASSUME Inv, io.op = "write", pending' = pending, db' = db, io' = Idle
  PROVE  /\ io.offset \in Positions /\ io.data \in Payloads
         /\ io.covered \in 0 .. PayloadLen(io.data)
         /\ io.offset + PayloadLen(io.data) <= MaxU64
         /\ Shown' = Abstract!Overlay(Shown, io.offset, io.data, io.covered)
  <1>0. TypeOK
    BY DEF Inv
  <1>1. /\ io.data \in Payloads /\ io.offset \in Nat /\ io.covered \in Nat
        /\ io.before \in [Positions -> Byte]
        /\ PayloadLen(io.data) \in 1 .. MaxU64
        /\ io.offset + PayloadLen(io.data) <= MaxU64
    BY <1>0, OpTypes
  <1>2. /\ io.covered <= PayloadLen(io.data)
        /\ \A p \in Positions :
             View[p] = IF io.offset <= p /\ p < io.offset + io.covered
                         THEN io.data[p - io.offset] ELSE io.before[p]
    BY DEF Inv, StagedSoFar
  <1>3. Shown' = View /\ Shown = io.before
    BY SameView DEF Shown, Idle
  <1>4. View = [p \in Positions |-> View[p]]
    BY DEF View
  <1>5. View = Abstract!Overlay(io.before, io.offset, io.data, io.covered)
    BY <1>2, <1>4 DEF Abstract!Overlay, Abstract!Positions, Positions
  <1> QED
    BY <1>1, <1>2, <1>3, <1>5, LayoutAssumption DEF Positions

LEMMA SamePayloadLen ==
  ASSUME NEW data PROVE Abstract!PayloadLen(data) = PayloadLen(data)
  BY DEF Abstract!PayloadLen, PayloadLen

(* A write appears in one step when it finishes, or fails.                 *)
LEMMA WriteRefines ==
  ASSUME Inv, StageSlice \/ StageSliceFails \/ FinishWrite
  PROVE  [Abstract!Next]_(Abstract!vars)
  <1>0. io.op = "write" /\ UNCHANGED <<db, durable>>
    BY DEF StageSlice, StageSliceFails, FinishWrite
  <1>1. CommittedFile' = CommittedFile /\ DurableFile' = DurableFile
    BY <1>0, SameFiles
  <1>2. CASE StageSlice
    <2>1. io' = [io EXCEPT !.covered = @ + NextSlice.len] /\ size' = size
      BY <1>2 DEF StageSlice
    <2> HIDE DEF NextSlice
    <2>2. io \in WriteOps
      BY <1>0, OpTypes DEF Inv
    <2>3. io'.op = "write" /\ io'.before = io.before
      BY <2>1, <2>2 DEF WriteOps
    <2>4. ShownFile' = ShownFile
      BY <1>0, <2>1, <2>3, SameFiles DEF Shown
    <2> QED
      BY <1>1, <2>4 DEF Abstract!vars, ShownFile, CommittedFile, DurableFile
  <1>3. CASE StageSliceFails \/ FinishWrite
    <2>1. pending' = pending /\ io' = Idle
      BY <1>3 DEF StageSliceFails, FinishWrite, handle
    <2>2. /\ io.offset \in Positions /\ io.data \in Payloads
          /\ io.covered \in 0 .. PayloadLen(io.data)
          /\ io.offset + PayloadLen(io.data) <= MaxU64
          /\ Shown' = Abstract!Overlay(Shown, io.offset, io.data, io.covered)
      BY <1>0, <2>1, WriteIsOverlay
    <2>3. CASE StageSliceFails
      <3>1. size' = size
        BY <2>3 DEF StageSliceFails, handle
      <3>2. Abstract!PwriteFails(io.offset, io.data, PayloadLen(io.data))
        BY <1>1, <2>2, <3>1
           DEF Abstract!PwriteFails, ShownFile, CommittedFile, DurableFile
      <3>3. CASE ShownFile' = ShownFile
        BY <1>1, <3>3 DEF Abstract!vars, ShownFile, CommittedFile, DurableFile
      <3>4. CASE ShownFile' # ShownFile
        <4>1. Abstract!Change
          BY <2>2, <3>2, <3>4, SamePayloadLen
             DEF Abstract!Change, Abstract!Positions, Positions, ShownFile
        <4> QED
          BY <4>1 DEF Abstract!Next
      <3> QED
        BY <3>3, <3>4
    <2>4. CASE FinishWrite
      <3>1. /\ io.covered = PayloadLen(io.data)
            /\ size' = (IF io.offset + PayloadLen(io.data) > size
                          THEN io.offset + PayloadLen(io.data) ELSE size)
        BY <2>4 DEF FinishWrite
      <3>2. Abstract!Pwrite(io.offset, io.data, PayloadLen(io.data))
        BY <1>1, <2>2, <3>1
           DEF Abstract!Pwrite, ShownFile, CommittedFile, DurableFile
      <3>3. CASE ShownFile' = ShownFile
        BY <1>1, <3>3 DEF Abstract!vars, ShownFile, CommittedFile, DurableFile
      <3>4. CASE ShownFile' # ShownFile
        <4>1. Abstract!Change
          BY <2>2, <3>2, <3>4, SamePayloadLen
             DEF Abstract!Change, Abstract!Positions, Positions, ShownFile
        <4> QED
          BY <4>1 DEF Abstract!Next
      <3> QED
        BY <3>3, <3>4
    <2> QED
      BY <1>3, <2>3, <2>4
  <1> QED
    BY <1>2, <1>3

LEMMA TruncateRefines ==
  ASSUME Inv, NEW newSize \in Offsets, Grow(newSize) \/ Shrink(newSize)
  PROVE  Abstract!Next
  <1>0. /\ UNCHANGED <<db, durable, io>> /\ size' = newSize
        /\ io.op = "idle"
    BY OpTypes DEF Grow, Shrink, Inv
  <1>1. CommittedFile' = CommittedFile /\ DurableFile' = DurableFile
    BY <1>0, SameFiles
  <1>2. Shown = View /\ Shown' = View'
    BY <1>0 DEF Shown
  <1>3. size \in Nat /\ newSize \in Nat
    BY LayoutAssumption DEF Inv, TypeOK, Offsets
  <1>4. CASE Grow(newSize)
    <2>1. newSize > size /\ View' = View
      BY <1>0, <1>4, SameView DEF Grow
    <2>2. Abstract!Grow(newSize)
      BY <1>0, <1>1, <1>2, <2>1
         DEF Abstract!Grow, ShownFile, CommittedFile, DurableFile
    <2>3. ShownFile' # ShownFile
      <3>1. size' # size
        BY <1>0, <1>3, <2>1
      <3> QED
        BY <3>1 DEF ShownFile
    <2>4. Abstract!Change
      <3>1. newSize \in 0 .. MaxU64
        BY DEF Offsets
      <3> QED
        BY <2>2, <2>3, <3>1 DEF Abstract!Change, ShownFile
    <2> QED
      BY <2>4 DEF Abstract!Next
  <1>5. CASE Shrink(newSize)
    <2>1. newSize < size /\ pending' = TruncatedPending(newSize)
      BY <1>5 DEF Shrink
    <2>2. \A p \in Positions : View'[p] = IF p < newSize THEN View[p] ELSE 0
      BY <1>0, <2>1, ShrinkView
    <2>3. View' = [p \in Positions |-> View'[p]]
      BY DEF View
    <2>4. View' = [p \in Positions |-> IF p < newSize THEN View[p] ELSE 0]
      BY <2>2, <2>3
    <2>5. Abstract!Shrink(newSize)
      BY <1>0, <1>1, <1>2, <2>1, <2>4
         DEF Abstract!Shrink, Abstract!Positions, Positions,
             ShownFile, CommittedFile, DurableFile
    <2>6. ShownFile' # ShownFile
      <3>1. size' # size
        BY <1>0, <1>3, <2>1
      <3> QED
        BY <3>1 DEF ShownFile
    <2>7. Abstract!Change
      <3>1. newSize \in 0 .. MaxU64
        BY DEF Offsets
      <3> QED
        BY <2>5, <2>6, <3>1 DEF Abstract!Change, ShownFile
    <2> QED
      BY <2>7 DEF Abstract!Next
  <1> QED
    BY <1>4, <1>5

(* A handle opened over the database shows the committed file.             *)
LEMMA OpenShowsCommitted ==
  ASSUME NEW mode, OpenHandle(mode, db'.size), io' = Idle
  PROVE  ShownFile' = CommittedFile'
  <1>1. pending' = NothingPending /\ size' = db'.size /\ io'.op = "idle"
    BY DEF OpenHandle, Idle
  <1>2. \A k \in ChunkIdxs : ChunkContents(k)' = ReadChunkFromStore(db'.chunks, k)
    BY <1>1 DEF ChunkContents, NothingPending, ReadChunkFromStore
  <1>3. StoredView(db.chunks)' = StoredView(db'.chunks)
    BY DEF StoredView, ReadChunkFromStore
  <1>4. Shown' = StoredView(db'.chunks)
    BY <1>1, <1>2 DEF Shown, View, StoredView, ChunkIdxs
  <1> QED
    BY <1>1, <1>3, <1>4 DEF ShownFile, CommittedFile

(* The write of a sync commits the whole file, its flush makes it durable, *)
(* and a destroyed handle whose sync failed drops what it staged.          *)
LEMMA SyncRefines ==
  ASSUME Inv, SyncWrite \/ SyncFlush \/ SyncFails
  PROVE  [Abstract!Next]_(Abstract!vars)
  <1>0. /\ TypeOK /\ io.op \in {"sync", "flush"} /\ Shown = View
        /\ io.destroy \in BOOLEAN
    BY OpTypes DEF SyncWrite, SyncFlush, SyncFails, Inv, Shown
  <1>1. /\ Batch.size = size /\ StoredView(Batch.chunks) = View
        /\ db' = Batch /\ UNCHANGED <<pending, size>> => View' = View
    BY <1>0, BatchFacts
  <1>2. ASSUME db' = Batch PROVE CommittedFile' = ShownFile
    BY <1>0, <1>1, <1>2 DEF CommittedFile, ShownFile, StoredView, ReadChunkFromStore
  <1>3. ASSUME db = Batch PROVE CommittedFile = ShownFile
    BY <1>0, <1>1, <1>3 DEF CommittedFile, ShownFile
  <1>4. ASSUME UNCHANGED <<pending, size>>, db' \in {db, Batch},
               io'.op \in {"idle", "flush"}
        PROVE  ShownFile' = ShownFile
    BY <1>0, <1>1, <1>4, SameView DEF ShownFile, Shown
  <1>5. CASE SyncWrite
    <2>1. UNCHANGED <<pending, size, durable>> /\ db' = Batch /\ io'.op = "flush"
      BY <1>5 DEF SyncWrite, handle
    <2>2. Abstract!Commit
      BY <1>2, <1>4, <2>1, SameFiles
         DEF Abstract!Commit, ShownFile, CommittedFile, DurableFile
    <2> QED
      BY <2>2 DEF Abstract!Next
  <1>6. CASE SyncFlush
    <2>1. durable' = db /\ db' = db /\ db = Batch /\ io' = Idle
      BY <1>0, <1>6 DEF SyncFlush, Inv, SyncInProgress
    <2>2. ShownFile = CommittedFile /\ CommittedFile' = CommittedFile
      BY <1>3, <2>1, SameFiles
    <2>3. DurableFile' = CommittedFile
      BY <2>1 DEF DurableFile, CommittedFile, StoredView, ReadChunkFromStore
    <2>4. ShownFile' = CommittedFile'
      <3>1. CASE io.destroy
        BY <1>6, <2>1, <3>1, OpenShowsCommitted DEF SyncFlush
      <3>2. CASE ~io.destroy
        <4>1. pending' = NothingPending /\ size' = size /\ io'.op = "idle"
          BY <1>6, <3>2 DEF SyncFlush, Idle
        <4>2. \A k \in ChunkIdxs :
                ChunkContents(k)' = ReadChunkFromStore(db.chunks, k)
          BY <2>1, <4>1 DEF ChunkContents, NothingPending, ReadChunkFromStore
        <4>3. Shown' = StoredView(db.chunks)
          BY <4>1, <4>2 DEF Shown, View, StoredView, ChunkIdxs
        <4>4. size' = db.size
          BY <1>1, <2>1, <4>1
        <4> QED
          BY <2>2, <4>3, <4>4 DEF ShownFile, CommittedFile
      <3> QED
        BY <1>0, <3>1, <3>2
    <2>5. Abstract!Persist
      BY <2>2, <2>3, <2>4
         DEF Abstract!Persist, ShownFile, CommittedFile, DurableFile
    <2> QED
      BY <2>5 DEF Abstract!Next
  <1>7. CASE SyncFails
    <2>1. durable' = durable /\ db' \in {db, Batch} /\ io' = Idle /\ io'.op = "idle"
      BY <1>7 DEF SyncFails, Idle
    <2>2. DurableFile' = DurableFile
      BY <2>1, SameFiles
    <2>3. \/ CommittedFile' = CommittedFile
          \/ CommittedFile' = ShownFile
      BY <1>2, <2>1, SameFiles
    <2>4. ShownFile' = ShownFile \/ ShownFile' = CommittedFile'
      <3>1. CASE io.destroy
        BY <1>7, <2>1, <3>1, OpenShowsCommitted DEF SyncFails
      <3>2. CASE ~io.destroy
        <4>1. UNCHANGED <<pending, size>>
          BY <1>7, <3>2 DEF SyncFails, handle
        <4> QED
          BY <1>4, <2>1, <4>1
      <3> QED
        BY <1>0, <3>1, <3>2
    <2>5. \/ Abstract!Commit \/ Abstract!Discard
          \/ UNCHANGED <<ShownFile, CommittedFile, DurableFile>>
      BY <2>2, <2>3, <2>4
         DEF Abstract!Commit, Abstract!Discard, ShownFile, CommittedFile, DurableFile
    <2> QED
      BY <2>5 DEF Abstract!Next, Abstract!vars, ShownFile, CommittedFile, DurableFile
  <1> QED
    BY <1>5, <1>6, <1>7

(* Steps of the file handle that leave the abstract file alone.            *)
LEMMA QuietRefines ==
  ASSUME Inv, UNCHANGED <<pending, size, db, durable>>,
         \/ io' = io
         \/ io = Idle /\ io'.op = "sync"
         \/ io = Idle /\ io'.op = "write" /\ io'.before = View
  PROVE  [Abstract!Next]_(Abstract!vars)
  <1>1. View' = View
    BY SameView
  <1>2. Shown' = Shown
    BY <1>1 DEF Shown, Idle
  <1> QED
    BY <1>2, SameFiles DEF Abstract!vars, ShownFile, CommittedFile, DurableFile

(* Chunks, staging, truncation, atomic batches, retries and recovery       *)
(* implement a file that is one size and one byte per position, for every  *)
(* chunk geometry and every payload.                                       *)
THEOREM FileHandleImplementsByteFile == Spec => ImplementsByteFile
  <1>1. Init => Abstract!Init
    <2> SUFFICES ASSUME Init PROVE Abstract!Init
      OBVIOUS
    <2>1. /\ pending = NothingPending /\ db = NewFile /\ durable = NewFile
          /\ size = 0 /\ io.op = "idle" /\ NewFile.size = 0
      BY DEF Init, Idle, NewFile
    <2>2. Shown = StoredView(db.chunks)
      BY <2>1, NothingPendingView DEF Shown
    <2> QED
      BY <2>1, <2>2, NewFileFacts
         DEF Abstract!Init, Abstract!Blank, Abstract!Positions, Positions
  <1>2. Inv /\ [Next]_vars => [Abstract!Next]_(Abstract!vars)
    <2> SUFFICES ASSUME Inv, [Next]_vars PROVE [Abstract!Next]_(Abstract!vars)
      OBVIOUS
    <2>1. ASSUME NEW data \in Payloads, NEW offset, NEW sequential,
                 StartWrite(data, offset, sequential)
          PROVE  [Abstract!Next]_(Abstract!vars)
      <3>1. /\ io = Idle /\ io'.op = "write" /\ io'.before = View
            /\ UNCHANGED <<pending, size, db, durable>>
        BY <2>1 DEF StartWrite, handle
      <3> QED
        BY <3>1, QuietRefines
    <2>2. CASE \/ \E data \in Payloads, offset \in Targets : Pwrite(data, offset)
               \/ \E data \in Payloads : Write(data)
      BY <2>1, <2>2 DEF Pwrite, Write
    <2>3. CASE \/ WriteNothing \/ UNCHANGED vars
               \/ \E len \in ReadLens : Read(len)
               \/ \E target \in Seeks : Seek(target)
               \/ \E destroy \in BOOLEAN : StartSync(destroy)
      <3>1. /\ UNCHANGED <<pending, size, db, durable>>
            /\ io' = io \/ (io = Idle /\ io'.op = "sync")
        BY <2>3 DEF WriteNothing, vars, Read, Seek, StartSync, handle
      <3> QED
        BY <3>1, QuietRefines
    <2>4. CASE StageSlice \/ StageSliceFails \/ FinishWrite
      BY <2>4, WriteRefines
    <2>5. CASE \E newSize \in Targets : Grow(newSize) \/ Shrink(newSize)
      BY <2>5, TruncateRefines, HandleAssumption
    <2>6. CASE SyncWrite \/ SyncFlush \/ SyncFails
      BY <2>6, SyncRefines
    <2>7. CASE Reopen
      <3>1. UNCHANGED <<db, durable>> /\ io' = Idle
        BY <2>7 DEF Reopen
      <3>2. ShownFile' = CommittedFile'
        BY <2>7, <3>1, OpenShowsCommitted DEF Reopen
      <3>3. Abstract!Discard
        BY <3>1, <3>2, SameFiles
           DEF Abstract!Discard, ShownFile, CommittedFile, DurableFile
      <3> QED
        BY <3>3 DEF Abstract!Next
    <2>8. CASE BackgroundFlush
      <3>1. UNCHANGED <<pending, size, db, io>> /\ durable' = db
        BY <2>8 DEF BackgroundFlush, handle
      <3>2. ShownFile' = ShownFile /\ CommittedFile' = CommittedFile
        BY <3>1, SameView, SameFiles DEF Shown
      <3>3. DurableFile' = CommittedFile
        BY <3>1 DEF DurableFile, CommittedFile, StoredView, ReadChunkFromStore
      <3>4. Abstract!Persist
        BY <3>2, <3>3 DEF Abstract!Persist, ShownFile, CommittedFile, DurableFile
      <3> QED
        BY <3>4 DEF Abstract!Next
    <2>9. CASE Crash
      <3>1. db' = durable /\ durable' = durable /\ io' = Idle
        BY <2>9 DEF Crash
      <3>2. ShownFile' = CommittedFile'
        BY <2>9, <3>1, OpenShowsCommitted DEF Crash
      <3>3. CommittedFile' = DurableFile /\ DurableFile' = DurableFile
        BY <3>1, SameFiles DEF DurableFile, CommittedFile, StoredView, ReadChunkFromStore
      <3>4. Abstract!Crash
        BY <3>2, <3>3 DEF Abstract!Crash, ShownFile, CommittedFile, DurableFile
      <3> QED
        BY <3>4 DEF Abstract!Next
    <2> QED
      BY <2>2, <2>3, <2>4, <2>5, <2>6, <2>7, <2>8, <2>9 DEF Next
  <1> QED
    BY <1>1, <1>2, FileHandleInvariant, PTL
       DEF Spec, ImplementsByteFile, Abstract!Spec

----------------------------------------------------------------------------
(* Appends.                                                                *)

LEMMA AppendsStayAtTheEnd ==
  ASSUME TypeOK, AppendsGoToTheEnd, [Next]_vars
  PROVE  AppendsGoToTheEnd'
  <1>1. CASE \/ \E data \in Payloads, offset \in Targets : Pwrite(data, offset)
             \/ \E data \in Payloads : Write(data)
    BY <1>1 DEF AppendsGoToTheEnd, Pwrite, Write, StartWrite, handle
  <1>2. CASE StageSlice
    <2>1. /\ io'.op = io.op /\ io'.offset = io.offset
          /\ io'.sequential = io.sequential
      BY <1>2, OpTypes DEF StageSlice, TypeOK, WriteOps, SyncOps, Idle
    <2> QED
      BY <1>2, <2>1 DEF AppendsGoToTheEnd, StageSlice
  <1>3. CASE UNCHANGED <<size, flags, io>>
    BY <1>3 DEF AppendsGoToTheEnd
  <1>4. CASE io'.op # "write"
    BY <1>4 DEF AppendsGoToTheEnd
  <1>5. CASE \/ WriteNothing \/ BackgroundFlush \/ UNCHANGED vars
             \/ \E len \in ReadLens : Read(len)
             \/ \E target \in Seeks : Seek(target)
    BY <1>3, <1>5 DEF WriteNothing, BackgroundFlush, Read, Seek, vars, handle
  <1>6. CASE \/ StageSliceFails \/ FinishWrite \/ SyncFlush \/ SyncFails \/ Crash
             \/ SyncWrite \/ Reopen
             \/ \E newSize \in Targets : Grow(newSize) \/ Shrink(newSize)
             \/ \E destroy \in BOOLEAN : StartSync(destroy)
    BY <1>4, <1>6 DEF StageSliceFails, FinishWrite, SyncFlush, SyncFails, Crash,
       SyncWrite, Reopen, Grow, Shrink, StartSync, Idle
  <1> QED
    BY <1>1, <1>2, <1>5, <1>6 DEF Next

(* The append that ends has staged its bytes past the end of the file and  *)
(* has changed none before it.                                             *)
LEMMA AppendKeepsTheFile ==
  ASSUME Inv, AppendsGoToTheEnd, FinishWrite, io.sequential, flags.append,
         NEW p \in Positions, p < size
  PROVE  Shown'[p] = Shown[p]
  <1>1. io.op = "write" /\ io.offset = size /\ io'.op = "idle" /\ UNCHANGED <<pending, db>>
    BY DEF FinishWrite, AppendsGoToTheEnd, Idle
  <1>2. View'[p] = View[p]
    BY <1>1, SameView
  <1>3. size \in Nat /\ p \in Nat
    BY DEF Inv, TypeOK, Positions, Offsets
  <1>4. View[p] = io.before[p]
    BY <1>1, <1>3 DEF Inv, StagedSoFar
  <1> QED
    BY <1>1, <1>2, <1>4 DEF Shown

(* A successful append has not changed a byte the file already had,        *)
(* wherever seeks, reads, truncations, crashes and reopenings left the     *)
(* position and the size.                                                  *)
THEOREM FileHandleAppendsNeverOverwrite == Spec => AppendsNeverOverwrite
  <1>1. Init => AppendsGoToTheEnd
    BY DEF Init, AppendsGoToTheEnd, Idle
  <1>2. Inv /\ AppendsGoToTheEnd /\ [Next]_vars => AppendsGoToTheEnd'
    BY AppendsStayAtTheEnd DEF Inv
  <1>3. Inv /\ AppendsGoToTheEnd =>
          [FinishWrite /\ io.sequential /\ flags.append =>
             \A p \in Positions : p < size => Shown'[p] = Shown[p]]_vars
    BY AppendKeepsTheFile
  <1> QED
    BY <1>1, <1>2, <1>3, FileHandleInvariant, PTL DEF Spec, AppendsNeverOverwrite

(* file_handle.rs, truncate: "the new bytes read as zeroes", which holds   *)
(* as long as no write of several chunks has failed half way.              *)
THEOREM FileHandleGrownBytesReadAsZeroes ==
  Spec => [][\A newSize \in Targets : Grow(newSize) /\ "torn_write" \notin faults =>
               \A p \in Positions : size <= p /\ p < newSize => View'[p] = 0]_vars
  <1>1. ASSUME Inv, NEW newSize \in Targets, Grow(newSize), "torn_write" \notin faults,
               NEW p \in Positions, size <= p
        PROVE  View'[p] = 0
    <2>1. io = Idle /\ UNCHANGED <<pending, db>>
      BY <1>1 DEF Grow
    <2>2. View'[p] = Shown[p]
      BY <2>1, SameView DEF Shown, Idle
    <2>3. size \in Nat /\ p \in Nat
      BY <1>1 DEF Inv, TypeOK, Positions, Offsets
    <2>4. Shown[p] = 0
      BY <1>1, <2>3 DEF Inv, HiddenBytesAreZero, ZeroFrom
    <2> QED
      BY <2>2, <2>4
  <1>2. Inv => [\A newSize \in Targets : Grow(newSize) /\ "torn_write" \notin faults =>
                  \A p \in Positions : size <= p /\ p < newSize => View'[p] = 0]_vars
    BY <1>1
  <1> QED
    BY <1>2, FileHandleInvariant, PTL DEF Spec

----------------------------------------------------------------------------
(* Loops.  A set of numbers stands for the predicate of an induction.      *)
LEMMA SmallestNumber ==
  ASSUME NEW T, T \subseteq Nat, T # {}
  PROVE  \E x \in T : \A y \in T : x <= y
  <1>1. \E x \in T : \A y \in T : <<y, x>> \notin OpToRel(<, Nat)
    BY NatLessThanWellFounded, WFMin, Zenon
  <1>2. PICK x \in T : \A y \in T : <<y, x>> \notin OpToRel(<, Nat)
    BY <1>1
  <1>3. \A y \in T : ~ (y < x)
    BY <1>2 DEF OpToRel
  <1>4. ASSUME NEW y \in T PROVE x <= y
    <2>1. x \in Nat /\ y \in Nat /\ ~ (y < x)
      BY <1>2, <1>3
    <2> QED
      BY <2>1
  <1> QED
    BY <1>2, <1>4

LEMMA CountUp ==
  ASSUME NEW N \in Nat, NEW P, 0 \in P,
         \A n \in 0 .. (N - 1) : n \in P => n + 1 \in P
  PROVE  \A n \in 0 .. N : n \in P
  <1> SUFFICES ASSUME NEW m \in 0 .. N, m \notin P PROVE FALSE
    OBVIOUS
  <1> DEFINE T == {n \in 0 .. N : n \notin P}
  <1>1. PICK x \in T : \A y \in T : x <= y
    <2>1. T \subseteq Nat /\ T # {}
      OBVIOUS
    <2> HIDE DEF T
    <2> QED
      BY <2>1, SmallestNumber
  <1>2. x # 0 /\ x - 1 \in 0 .. (N - 1)
    BY <1>1
  <1>3. x - 1 \in P
    <2>1. x - 1 \in 0 .. N /\ ~ (x <= x - 1)
      BY <1>2
    <2> QED
      BY <1>1, <2>1
  <1>4. (x - 1) + 1 = x
    BY <1>1
  <1> QED
    BY <1>1, <1>2, <1>3, <1>4

(* A loop over 1 .. N whose state is in V has a run.                       *)
LoopSteps(N, V) == [(1 .. N) \X V -> V]

LoopRun(f, N, v0, step) ==
  f[0] = v0 /\ \A n \in 1 .. N : f[n] = step[<<n, f[n - 1]>>]

LEMMA LoopExists ==
  ASSUME NEW N \in Nat, NEW V, NEW v0 \in V, NEW step \in LoopSteps(N, V)
  PROVE  \E f \in [0 .. N -> V] : LoopRun(f, N, v0, step)
  <1>0. step \in [(1 .. N) \X V -> V]
    BY DEF LoopSteps
  <1> DEFINE Run(f, m) == f[0] = v0 /\ \A n \in 1 .. m : f[n] = step[<<n, f[n - 1]>>]
             P == {m \in 0 .. N : \E f \in [0 .. m -> V] : Run(f, m)}
  <1>1. 0 \in P
    <2> DEFINE f == [i \in 0 .. 0 |-> v0]
    <2>1. f \in [0 .. 0 -> V] /\ Run(f, 0)
      OBVIOUS
    <2>2. 0 \in 0 .. N
      OBVIOUS
    <2> HIDE DEF Run, f
    <2> QED
      BY <2>1, <2>2
  <1>2. ASSUME NEW m \in 0 .. (N - 1), m \in P PROVE m + 1 \in P
    <2>1. PICK f \in [0 .. m -> V] : Run(f, m)
      BY <1>2
    <2> DEFINE v == step[<<m + 1, f[m]>>]
               g == [i \in 0 .. (m + 1) |-> IF i = m + 1 THEN v ELSE f[i]]
    <2>2. v \in V
      BY <1>0
    <2>3. g \in [0 .. (m + 1) -> V]
      BY <2>2
    <2>4. g[0] = v0
      BY <2>1
    <2>5. ASSUME NEW n \in 1 .. (m + 1) PROVE g[n] = step[<<n, g[n - 1]>>]
      <3>1. CASE n = m + 1
        <4>1. g[n] = v /\ n - 1 = m /\ m \in 0 .. (m + 1) /\ m # m + 1
          BY <3>1
        <4>2. g[n - 1] = f[m]
          BY <4>1
        <4> HIDE DEF g
        <4> QED
          BY <3>1, <4>1, <4>2
      <3>2. CASE n # m + 1
        <4>1. n \in 1 .. m /\ n - 1 \in 0 .. m /\ n - 1 # m + 1
          BY <3>2
        <4> QED
          BY <2>1, <3>2, <4>1
      <3> QED
        BY <3>1, <3>2
    <2>6. Run(g, m + 1)
      BY <2>4, <2>5
    <2>7. m + 1 \in 0 .. N
      OBVIOUS
    <2> HIDE DEF Run, g
    <2> QED
      BY <2>3, <2>6, <2>7
  <1>3. N \in P
    <2> HIDE DEF P
    <2>1. \A n \in 0 .. N : n \in P
      BY <1>1, <1>2, CountUp
    <2> QED
      BY <2>1
  <1> QED
    BY <1>3 DEF LoopRun

LEMMA Appended ==
  ASSUME NEW S, NEW s \in Seq(S), NEW x \in S
  PROVE  /\ Append(s, x) \in Seq(S)
         /\ Len(Append(s, x)) = Len(s) + 1 /\ Len(s) \in Nat
         /\ Len(s) + 1 \in 1 .. Len(Append(s, x))
         /\ Append(s, x)[Len(s) + 1] = x
         /\ \A i \in 1 .. Len(s) : i \in 1 .. Len(Append(s, x)) /\ Append(s, x)[i] = s[i]
  OBVIOUS

(* The first loop of ChunkManager::read finds every chunk that is not      *)
(* staged.                                                                 *)
LEMMA PersistedIdxsFacts ==
  ASSUME NEW N \in Nat, NEW slices, Len(slices) = N,
         \A n \in 1 .. N : slices[n].chunk_idx \in Nat
  PROVE  /\ PersistedIdxs(slices) \in Seq(Nat)
         /\ \A n \in 1 .. N : pending[slices[n].chunk_idx] = None =>
              \E i \in 1 .. Len(PersistedIdxs(slices)) :
                PersistedIdxs(slices)[i] = slices[n].chunk_idx
  <1> DEFINE k(n) == slices[n].chunk_idx
             F(n, s) == IF pending[k(n)] = None THEN Append(s, k(n)) ELSE s
             Body(g) == [n \in 0 .. N |-> IF n = 0 THEN <<>> ELSE F(n, g[n - 1])]
             upTo == CHOOSE g : g = Body(g)
             step == [x \in (1 .. N) \X Seq(Nat) |-> F(x[1], x[2])]
  <1>1. PersistedIdxs(slices) = upTo[N]
    BY DEF PersistedIdxs
  <1>2. \A n \in 1 .. N, s \in Seq(Nat) : F(n, s) \in Seq(Nat)
    OBVIOUS
  <1>3. upTo = Body(upTo)
    <2>1. step \in [(1 .. N) \X Seq(Nat) -> Seq(Nat)]
      BY <1>2
    <2>2. \A n \in 1 .. N, s \in Seq(Nat) : step[<<n, s>>] = F(n, s)
      <3> HIDE DEF F
      <3> QED
        OBVIOUS
    <2>3. <<>> \in Seq(Nat)
      OBVIOUS
    <2> HIDE DEF step, F
    <2>4. PICK f \in [0 .. N -> Seq(Nat)] :
            f[0] = <<>> /\ \A n \in 1 .. N : f[n] = step[<<n, f[n - 1]>>]
      <3> DEFINE V == Seq(Nat)
                 v0 == <<>>
      <3>1. v0 \in V /\ step \in LoopSteps(N, V)
        BY <2>1, <2>3 DEF LoopSteps
      <3> HIDE DEF V, v0
      <3>2. \E f \in [0 .. N -> V] : LoopRun(f, N, v0, step)
        BY <3>1, LoopExists
      <3> QED
        BY <3>2 DEF V, v0, LoopRun
    <2>5. \A n \in 1 .. N : f[n] = F(n, f[n - 1])
      <3>1. \A n \in 1 .. N : n - 1 \in 0 .. N /\ f[n - 1] \in Seq(Nat)
        OBVIOUS
      <3> QED
        BY <2>2, <2>4, <3>1
    <2>6. f = Body(f)
      BY <2>4, <2>5
    <2> HIDE DEF Body
    <2> QED
      BY <2>6
  <1> HIDE DEF upTo, F
  <1>4. upTo[0] = <<>> /\ \A n \in 1 .. N : upTo[n] = F(n, upTo[n - 1])
    BY <1>3
  <1> DEFINE Found(s, n) == pending[k(n)] = None => \E i \in 1 .. Len(s) : s[i] = k(n)
             P == {m \in 0 .. N : /\ upTo[m] \in Seq(Nat)
                                  /\ \A n \in 1 .. m : Found(upTo[m], n)}
  <1>5. 0 \in P
    <2>1. upTo[0] \in Seq(Nat) /\ 0 \in 0 .. N /\ \A n \in 1 .. 0 : FALSE
      BY <1>4
    <2> HIDE DEF Found
    <2> QED
      BY <2>1
  <1>6. ASSUME NEW m \in 0 .. (N - 1), m \in P PROVE m + 1 \in P
    <2>1. upTo[m] \in Seq(Nat) /\ \A n \in 1 .. m : Found(upTo[m], n)
      BY <1>6
    <2>2. upTo[m + 1] = F(m + 1, upTo[m]) /\ m + 1 \in 1 .. N
      BY <1>4
    <2>3. k(m + 1) \in Nat
      BY <2>2
    <2> HIDE DEF k
    <2>4. ASSUME NEW s \in Seq(Nat), NEW n, Found(s, n)
          PROVE  Found(Append(s, k(m + 1)), n)
      BY <2>3, <2>4, Appended
    <2>5. ASSUME NEW s \in Seq(Nat)
          PROVE  \E i \in 1 .. Len(Append(s, k(m + 1))) : Append(s, k(m + 1))[i] = k(m + 1)
      BY <2>3, Appended
    <2>6. upTo[m + 1] \in Seq(Nat)
      BY <1>2, <2>1, <2>2
    <2>7. ASSUME NEW n \in 1 .. (m + 1) PROVE Found(upTo[m + 1], n)
      <3>1. CASE pending[k(m + 1)] = None
        <4>1. upTo[m + 1] = Append(upTo[m], k(m + 1))
          BY <2>2, <3>1 DEF F
        <4>2. CASE n = m + 1
          BY <2>1, <2>5, <4>1, <4>2
        <4>3. CASE n # m + 1
          <5>1. n \in 1 .. m
            BY <4>3
          <5>2. Found(upTo[m], n)
            BY <2>1, <5>1
          <5> QED
            BY <2>1, <2>4, <4>1, <5>2
        <4> QED
          BY <4>2, <4>3
      <3>2. CASE pending[k(m + 1)] # None
        <4>1. upTo[m + 1] = upTo[m]
          BY <2>2, <3>2 DEF F
        <4>2. CASE n = m + 1
          BY <3>2, <4>2
        <4>3. CASE n # m + 1
          <5>1. n \in 1 .. m
            BY <4>3
          <5> QED
            BY <2>1, <4>1, <5>1
        <4> QED
          BY <4>2, <4>3
      <3> QED
        BY <3>1, <3>2
    <2>8. m + 1 \in 0 .. N
      OBVIOUS
    <2> HIDE DEF Found
    <2> QED
      BY <2>6, <2>7, <2>8
  <1>7. N \in P
    <2> HIDE DEF P
    <2>1. \A n \in 0 .. N : n \in P
      BY <1>5, <1>6, CountUp
    <2> QED
      BY <2>1
  <1> QED
    BY <1>1, <1>7

(* coalesce_chunk_indices: every index lies in one of the runs.            *)
Runs == Seq(Nat \X Nat)

Covers(groups, k) ==
  \E g \in 1 .. Len(groups) : groups[g][1] <= k /\ k <= groups[g][2]

RunsOrdered(groups) == \A g \in 1 .. Len(groups) : groups[g][1] <= groups[g][2]

LEMMA RunPairs ==
  ASSUME NEW groups \in Runs, NEW g \in 1 .. Len(groups)
  PROVE  /\ groups[g] = <<groups[g][1], groups[g][2]>>
         /\ groups[g][1] \in Nat /\ groups[g][2] \in Nat
  <1>1. groups[g] \in Nat \X Nat
    BY DEF Runs
  <1> QED
    BY <1>1

LEMMA NewRun ==
  ASSUME NEW groups \in Runs, RunsOrdered(groups), NEW k \in Nat
  PROVE  LET next == Append(groups, <<k, k>>)
         IN  /\ next \in Runs /\ RunsOrdered(next) /\ Covers(next, k)
             /\ \A j \in Nat : Covers(groups, j) => Covers(next, j)
  <1> DEFINE x == <<k, k>>
             next == Append(groups, x)
             S == Nat \X Nat
  <1>1. x \in S /\ x[1] = k /\ x[2] = k
    OBVIOUS
  <1>2. groups \in Seq(S)
    BY DEF Runs
  <1> HIDE DEF x, S
  <1>3. /\ next \in Seq(S)
        /\ Len(next) = Len(groups) + 1 /\ Len(groups) \in Nat
        /\ Len(groups) + 1 \in 1 .. Len(next)
        /\ next[Len(groups) + 1] = x
        /\ \A i \in 1 .. Len(groups) : i \in 1 .. Len(next) /\ next[i] = groups[i]
    BY <1>1, <1>2, Appended
  <1> HIDE DEF next
  <1>4. next \in Runs
    BY <1>3 DEF Runs, S
  <1>5. RunsOrdered(next)
    <2> SUFFICES ASSUME NEW g \in 1 .. Len(next) PROVE next[g][1] <= next[g][2]
      BY DEF RunsOrdered
    <2>1. CASE g = Len(groups) + 1
      BY <1>1, <1>3, <2>1
    <2>2. CASE g # Len(groups) + 1
      <3>1. g \in 1 .. Len(groups)
        BY <1>3, <2>2
      <3> QED
        BY <1>3, <3>1 DEF RunsOrdered
    <2> QED
      BY <2>1, <2>2
  <1>6. Covers(next, k)
    BY <1>1, <1>3 DEF Covers
  <1>7. \A j \in Nat : Covers(groups, j) => Covers(next, j)
    BY <1>3 DEF Covers
  <1> QED
    BY <1>4, <1>5, <1>6, <1>7 DEF next, x

LEMMA LongerRun ==
  ASSUME NEW groups \in Runs, RunsOrdered(groups), NEW k \in Nat,
         Len(groups) # 0, groups[Len(groups)][2] + 1 = k
  PROVE  LET next == [groups EXCEPT ![Len(groups)] = <<@[1], k>>]
         IN  /\ next \in Runs /\ RunsOrdered(next) /\ Covers(next, k)
             /\ \A j \in Nat : Covers(groups, j) => Covers(next, j)
  <1> DEFINE L == Len(groups)
             x == <<groups[L][1], k>>
             next == [groups EXCEPT ![L] = <<@[1], k>>]
  <1>1. L \in 1 .. L /\ L \in Nat
    BY DEF Runs
  <1>2. /\ groups[L][1] \in Nat /\ groups[L][2] \in Nat
        /\ groups[L][1] <= groups[L][2]
    BY <1>1, RunPairs DEF RunsOrdered
  <1>3. x \in Nat \X Nat /\ x[1] = groups[L][1] /\ x[2] = k
    BY <1>2
  <1>4. next = [groups EXCEPT ![L] = x]
    OBVIOUS
  <1> HIDE DEF next, x
  <1>5. /\ next \in Runs /\ Len(next) = L /\ next[L] = x
        /\ \A g \in 1 .. L : g # L => next[g] = groups[g]
    BY <1>1, <1>3, <1>4 DEF Runs
  <1> HIDE DEF L
  <1>6. groups[L][1] <= k /\ groups[L][2] <= k
    BY <1>2 DEF L
  <1>7. RunsOrdered(next)
    <2> SUFFICES ASSUME NEW g \in 1 .. L PROVE next[g][1] <= next[g][2]
      BY <1>5 DEF RunsOrdered
    <2>1. CASE g = L
      BY <1>3, <1>5, <1>6, <2>1
    <2>2. CASE g # L
      BY <1>5, <2>2 DEF RunsOrdered, L
    <2> QED
      BY <2>1, <2>2
  <1>8. Covers(next, k)
    BY <1>1, <1>3, <1>5, <1>6 DEF Covers
  <1>9. ASSUME NEW j \in Nat, Covers(groups, j) PROVE Covers(next, j)
    <2>1. PICK g \in 1 .. L : groups[g][1] <= j /\ j <= groups[g][2]
      BY <1>9 DEF Covers, L
    <2>2. CASE g = L
      <3>1. next[L][1] <= j /\ j <= next[L][2]
        BY <1>2, <1>3, <1>5, <1>6, <2>1, <2>2
      <3> QED
        BY <1>1, <1>5, <3>1 DEF Covers
    <2>3. CASE g # L
      BY <1>5, <2>1, <2>3 DEF Covers
    <2> QED
      BY <2>2, <2>3
  <1> QED
    BY <1>5, <1>7, <1>8, <1>9 DEF next, L

LEMMA CoalesceCovers ==
  ASSUME NEW idxs \in Seq(Nat)
  PROVE  /\ Coalesce(idxs) \in Runs
         /\ \A i \in 1 .. Len(idxs) : Covers(Coalesce(idxs), idxs[i])
  <1> DEFINE N == Len(idxs)
             F(n, groups) ==
               LET last == Len(groups)
               IN IF last # 0 /\ groups[last][2] + 1 = idxs[n]
                    THEN [groups EXCEPT ![last] = <<@[1], idxs[n]>>]
                    ELSE Append(groups, <<idxs[n], idxs[n]>>)
             Body(g) == [n \in 0 .. N |-> IF n = 0 THEN <<>> ELSE F(n, g[n - 1])]
             upTo == CHOOSE g : g = Body(g)
             V == {groups \in Runs : RunsOrdered(groups)}
             v0 == <<>>
             step == [x \in (1 .. N) \X V |-> F(x[1], x[2])]
  <1>1. Coalesce(idxs) = upTo[N]
    BY DEF Coalesce
  <1>2. N \in Nat /\ \A n \in 1 .. N : idxs[n] \in Nat
    OBVIOUS
  <1>3. ASSUME NEW n \in 1 .. N, NEW groups \in V
        PROVE  /\ F(n, groups) \in V /\ Covers(F(n, groups), idxs[n])
               /\ \A j \in Nat : Covers(groups, j) => Covers(F(n, groups), j)
    <2>1. groups \in Runs /\ RunsOrdered(groups) /\ idxs[n] \in Nat
      BY <1>2, <1>3
    <2>2. CASE Len(groups) # 0 /\ groups[Len(groups)][2] + 1 = idxs[n]
      <3> DEFINE next == [groups EXCEPT ![Len(groups)] = <<@[1], idxs[n]>>]
      <3>1. F(n, groups) = next
        BY <2>2
      <3>2. /\ next \in Runs /\ RunsOrdered(next) /\ Covers(next, idxs[n])
            /\ \A j \in Nat : Covers(groups, j) => Covers(next, j)
        BY <2>1, <2>2, LongerRun
      <3> HIDE DEF F, next
      <3> QED
        BY <3>1, <3>2
    <2>3. CASE ~ (Len(groups) # 0 /\ groups[Len(groups)][2] + 1 = idxs[n])
      <3> DEFINE next == Append(groups, <<idxs[n], idxs[n]>>)
      <3>1. F(n, groups) = next
        BY <2>3
      <3>2. /\ next \in Runs /\ RunsOrdered(next) /\ Covers(next, idxs[n])
            /\ \A j \in Nat : Covers(groups, j) => Covers(next, j)
        BY <2>1, NewRun
      <3> HIDE DEF F, next
      <3> QED
        BY <3>1, <3>2
    <2> QED
      BY <2>2, <2>3
  <1>4. v0 \in V
    BY DEF Runs, RunsOrdered
  <1> HIDE DEF F, V, v0, N
  <1>5. upTo = Body(upTo)
    <2>1. step \in LoopSteps(N, V)
      BY <1>3 DEF LoopSteps
    <2>2. \A n \in 1 .. N, s \in V : step[<<n, s>>] = F(n, s)
      OBVIOUS
    <2> HIDE DEF step
    <2>3. PICK f \in [0 .. N -> V] : LoopRun(f, N, v0, step)
      BY <1>2, <1>4, <2>1, LoopExists
    <2>4. \A n \in 1 .. N : f[n] = F(n, f[n - 1])
      <3>1. \A n \in 1 .. N : n - 1 \in 0 .. N /\ f[n - 1] \in V
        BY <1>2
      <3> QED
        BY <2>2, <2>3, <3>1 DEF LoopRun
    <2>5. f = Body(f)
      BY <2>3, <2>4 DEF LoopRun, v0
    <2> HIDE DEF Body
    <2> QED
      BY <2>5
  <1> HIDE DEF upTo
  <1>6. upTo[0] = v0 /\ \A n \in 1 .. N : upTo[n] = F(n, upTo[n - 1])
    BY <1>2, <1>5 DEF v0
  <1> DEFINE P == {m \in 0 .. N : /\ upTo[m] \in V
                                  /\ \A n \in 1 .. m : Covers(upTo[m], idxs[n])}
  <1>7. 0 \in P
    <2>1. 0 \in 0 .. N /\ \A n \in 1 .. 0 : FALSE
      BY <1>2
    <2> QED
      BY <1>4, <1>6, <2>1
  <1>8. ASSUME NEW m \in 0 .. (N - 1), m \in P PROVE m + 1 \in P
    <2>1. upTo[m] \in V /\ \A n \in 1 .. m : Covers(upTo[m], idxs[n])
      BY <1>8
    <2>2. m + 1 \in 1 .. N /\ m + 1 \in 0 .. N /\ (m + 1) - 1 = m
      BY <1>2
    <2>3. upTo[m + 1] = F(m + 1, upTo[m])
      BY <1>6, <2>2
    <2>4. /\ upTo[m + 1] \in V /\ Covers(upTo[m + 1], idxs[m + 1])
          /\ \A j \in Nat : Covers(upTo[m], j) => Covers(upTo[m + 1], j)
      BY <1>3, <2>1, <2>2, <2>3
    <2>5. ASSUME NEW n \in 1 .. (m + 1) PROVE Covers(upTo[m + 1], idxs[n])
      <3>1. CASE n = m + 1
        BY <2>4, <3>1
      <3>2. CASE n # m + 1
        <4>1. n \in 1 .. m /\ n \in 1 .. N
          BY <1>2, <3>2
        <4> QED
          BY <1>2, <2>1, <2>4, <4>1
      <3> QED
        BY <3>1, <3>2
    <2> QED
      BY <2>2, <2>4, <2>5
  <1>9. N \in P
    <2> HIDE DEF P
    <2>1. \A n \in 0 .. N : n \in P
      BY <1>2, <1>7, <1>8, CountUp
    <2> QED
      BY <1>2, <2>1
  <1> QED
    BY <1>1, <1>9 DEF V, N

(* split_into_chunks: the slices cover the buffer.                         *)
SlicesOf(len, offset) == {Slice(len, offset, c) : c \in 0 .. (len - 1)}

Slices(slices, i) ==
  \E j \in 1 .. Len(slices) : /\ slices[j].buf_offset <= i
                              /\ i < slices[j].buf_offset + slices[j].len

LEMMA SliceAt ==
  ASSUME NEW len \in Nat, NEW offset \in Nat, NEW c \in 0 .. (len - 1)
  PROVE  LET s == Slice(len, offset, c)
         IN  /\ s \in SlicesOf(len, offset)
             /\ s.chunk_idx = ChunkIdxOf(offset + c)
             /\ s.chunk_offset = ChunkOffsetOf(offset + c)
             /\ s.buf_offset = c /\ s.len \in Nat /\ s.len >= 1
             /\ c + s.len <= len /\ s.len <= Available(offset + c)
  <1> DEFINE p == offset + c
  <1>1. p \in Nat /\ Available(p) \in Nat /\ Available(p) >= 1 /\ len - c \in Nat /\ len - c >= 1
    BY Located
  <1> HIDE DEF p
  <1> QED
    BY <1>1 DEF Slice, SlicesOf, p

LEMMA Prepended ==
  ASSUME NEW S, NEW s \in Seq(S), NEW x \in S
  PROVE  /\ <<x>> \o s \in Seq(S)
         /\ Len(<<x>> \o s) = Len(s) + 1 /\ Len(s) \in Nat
         /\ 1 \in 1 .. Len(<<x>> \o s) /\ (<<x>> \o s)[1] = x
         /\ \A i \in 1 .. Len(s) : i + 1 \in 1 .. Len(<<x>> \o s) /\ (<<x>> \o s)[i + 1] = s[i]
  OBVIOUS

LEMMA SplitFacts ==
  ASSUME NEW len \in Nat, NEW offset \in Nat
  PROVE  /\ SplitIntoChunks(len, offset) \in Seq(SlicesOf(len, offset))
         /\ \A i \in 0 .. (len - 1) : Slices(SplitIntoChunks(len, offset), i)
  <1> DEFINE V == Seq(SlicesOf(len, offset))
             S(c) == Slice(len, offset, c)
             n(c) == S(c).len
             Step(g, c) == IF c = len THEN <<>> ELSE <<S(c)>> \o g[c + n(c)]
             Body(g) == [c \in 0 .. len |-> Step(g, c)]
             from == CHOOSE g : g = Body(g)
  <1>1. SplitIntoChunks(len, offset) = from[0]
    BY DEF SplitIntoChunks
  <1>2. ASSUME NEW c \in 0 .. (len - 1)
        PROVE  /\ S(c) \in SlicesOf(len, offset) /\ S(c).buf_offset = c
               /\ n(c) \in Nat /\ n(c) >= 1 /\ c + n(c) \in (c + 1) .. len
    <2>1. /\ S(c) \in SlicesOf(len, offset) /\ S(c).buf_offset = c
          /\ n(c) \in Nat /\ n(c) >= 1 /\ c + n(c) <= len
      BY SliceAt
    <2> HIDE DEF n, S
    <2> QED
      BY <2>1
  <1> HIDE DEF n, S
  <1>3. ASSUME NEW c \in 0 .. (len - 1), NEW s \in V
        PROVE  <<S(c)>> \o s \in V
    <2> DEFINE X == SlicesOf(len, offset)
    <2>1. S(c) \in X /\ s \in Seq(X)
      BY <1>2
    <2> HIDE DEF X
    <2>2. <<S(c)>> \o s \in Seq(X)
      BY <2>1, Prepended
    <2> QED
      BY <2>2 DEF X
  <1>4. <<>> \in V
    OBVIOUS
  <1> DEFINE Run(f, m) == \A c \in (len - m) .. len : f[c] = Step(f, c)
             P == {m \in 0 .. len : \E f \in [(len - m) .. len -> V] : Run(f, m)}
  <1>5. 0 \in P
    <2> DEFINE f == [c \in (len - 0) .. len |-> <<>>]
    <2>1. f \in [(len - 0) .. len -> V]
      BY <1>4
    <2>2. Run(f, 0)
      OBVIOUS
    <2>3. 0 \in 0 .. len
      OBVIOUS
    <2> HIDE DEF Run, f, V
    <2> QED
      BY <2>1, <2>2, <2>3
  <1>6. ASSUME NEW m \in 0 .. (len - 1), m \in P PROVE m + 1 \in P
    <2>1. PICK f \in [(len - m) .. len -> V] : Run(f, m)
      BY <1>6
    <2> DEFINE d == len - (m + 1)
               v == <<S(d)>> \o f[d + n(d)]
               g == [c \in d .. len |-> IF c = d THEN v ELSE f[c]]
    <2>2. d \in 0 .. (len - 1) /\ d + n(d) \in (len - m) .. len /\ d < len - m
      <3>1. d \in 0 .. (len - 1) /\ d + 1 = len - m /\ d < len - m
        OBVIOUS
      <3>2. d + n(d) \in (d + 1) .. len
        BY <1>2, <3>1
      <3> QED
        BY <3>1, <3>2
    <2>3. v \in V
      BY <1>3, <2>2
    <2>4. g \in [d .. len -> V]
      <3>1. \A c \in d .. len : c # d => c \in (len - m) .. len
        OBVIOUS
      <3> HIDE DEF d, v, V
      <3> QED
        BY <2>3, <3>1
    <2>5. ASSUME NEW c \in d .. len PROVE g[c] = Step(g, c)
      <3>1. CASE c = d
        <4>1. g[c] = v /\ c # len
          BY <2>2, <3>1
        <4>2. d + n(d) \in d .. len /\ d + n(d) # d
          BY <2>2
        <4>3. g[d + n(d)] = f[d + n(d)]
          BY <4>2
        <4> HIDE DEF g
        <4> QED
          BY <3>1, <4>1, <4>3
      <3>2. CASE c # d
        <4>1. c \in (len - m) .. len /\ g[c] = f[c]
          BY <3>2
        <4>2. f[c] = Step(f, c)
          BY <2>1, <4>1
        <4>3. CASE c = len
          BY <4>1, <4>2, <4>3
        <4>4. CASE c # len
          <5>1. c \in 0 .. (len - 1)
            BY <2>2, <4>1, <4>4
          <5>2. c + n(c) \in (c + 1) .. len
            BY <1>2, <5>1
          <5>3. c + n(c) \in d .. len /\ c + n(c) # d
            BY <2>2, <4>1, <5>2
          <5>4. g[c + n(c)] = f[c + n(c)]
            BY <5>3
          <5> HIDE DEF g
          <5> QED
            BY <4>1, <4>2, <4>4, <5>4
        <4> QED
          BY <4>3, <4>4
      <3> QED
        BY <3>1, <3>2
    <2>6. Run(g, m + 1)
      <3> HIDE DEF g, Step
      <3> QED
        BY <2>5
    <2>7. m + 1 \in 0 .. len
      OBVIOUS
    <2> HIDE DEF Run, g, V
    <2> QED
      BY <2>4, <2>6, <2>7
  <1>7. from = Body(from)
    <2>1. len \in P
      <3> HIDE DEF P
      <3>1. \A m \in 0 .. len : m \in P
        BY <1>5, <1>6, CountUp
      <3> QED
        BY <3>1
    <2>2. PICK f \in [(len - len) .. len -> V] : Run(f, len)
      BY <2>1
    <2>3. f = Body(f)
      <3>1. len - len = 0
        OBVIOUS
      <3> HIDE DEF Step, V
      <3> QED
        BY <2>2, <3>1
    <2> HIDE DEF Body
    <2> QED
      BY <2>3
  <1> HIDE DEF from
  <1>8. \A c \in 0 .. len : from[c] = Step(from, c)
    <2> HIDE DEF Step
    <2> QED
      BY <1>7
  <1> DEFINE Good(c) == from[c] \in V /\ \A i \in c .. (len - 1) : Slices(from[c], i)
             G == {m \in 0 .. len : \A c \in (len - m) .. len : Good(c)}
  <1>9. 0 \in G
    <2>1. from[len] = <<>>
      <3>1. len \in 0 .. len
        OBVIOUS
      <3> HIDE DEF n, S, V
      <3> QED
        BY <1>8, <3>1
    <2>2. \A i \in len .. (len - 1) : FALSE
      OBVIOUS
    <2>3. Good(len)
      BY <1>4, <2>1, <2>2
    <2>4. 0 \in 0 .. len /\ \A c \in (len - 0) .. len : c = len
      OBVIOUS
    <2> HIDE DEF Good
    <2> QED
      BY <2>3, <2>4
  <1>10. ASSUME NEW m \in 0 .. (len - 1), m \in G PROVE m + 1 \in G
    <2> DEFINE d == len - (m + 1)
               e == d + n(d)
    <2>1. \A c \in (len - m) .. len : Good(c)
      BY <1>10
    <2>2. d \in 0 .. (len - 1) /\ d \in 0 .. len /\ d # len /\ d + 1 = len - m
      OBVIOUS
    <2>3. e \in (len - m) .. len /\ n(d) \in Nat
      BY <1>2, <2>2
    <2>4. from[d] = <<S(d)>> \o from[e]
      BY <1>8, <2>2
    <2>5. Good(e)
      BY <2>1, <2>3
    <2>6. /\ from[d] \in V /\ 1 \in 1 .. Len(from[d]) /\ from[d][1] = S(d)
          /\ \A i \in 1 .. Len(from[e]) : i + 1 \in 1 .. Len(from[d]) /\ from[d][i + 1] = from[e][i]
      <3> DEFINE X == SlicesOf(len, offset)
                 s == from[e]
                 x == S(d)
      <3>1. x \in X /\ s \in Seq(X)
        BY <1>2, <2>2, <2>5
      <3> HIDE DEF X, s, x
      <3>2. /\ <<x>> \o s \in Seq(X)
            /\ 1 \in 1 .. Len(<<x>> \o s) /\ (<<x>> \o s)[1] = x
            /\ \A i \in 1 .. Len(s) : i + 1 \in 1 .. Len(<<x>> \o s) /\ (<<x>> \o s)[i + 1] = s[i]
        BY <3>1, Prepended
      <3>3. from[d] = <<x>> \o s
        BY <2>4 DEF s, x
      <3>4. /\ from[d] \in Seq(X) /\ 1 \in 1 .. Len(from[d]) /\ from[d][1] = x
            /\ \A i \in 1 .. Len(s) : i + 1 \in 1 .. Len(from[d]) /\ from[d][i + 1] = s[i]
        BY <3>2, <3>3
      <3> QED
        BY <3>4 DEF X, s, x
    <2>7. ASSUME NEW i \in d .. (len - 1) PROVE Slices(from[d], i)
      <3>1. CASE i < e
        <4>1. S(d).buf_offset = d /\ S(d).len = n(d)
          BY <1>2, <2>2 DEF n
        <4>2. S(d).buf_offset <= i /\ i < S(d).buf_offset + S(d).len
          BY <2>2, <2>3, <3>1, <4>1
        <4> QED
          BY <2>6, <4>2 DEF Slices
      <3>2. CASE i >= e
        <4>1. i \in e .. (len - 1)
          BY <2>3, <3>2
        <4>2. Slices(from[e], i)
          BY <2>5, <4>1
        <4> HIDE DEF d, e
        <4> QED
          BY <2>6, <4>2 DEF Slices
      <3> QED
        BY <2>2, <2>3, <3>1, <3>2
    <2>8. Good(d)
      BY <2>6, <2>7
    <2>9. \A c \in (len - (m + 1)) .. len : c = d \/ c \in (len - m) .. len
      OBVIOUS
    <2>10. m + 1 \in 0 .. len
      OBVIOUS
    <2> HIDE DEF Good
    <2> QED
      BY <2>1, <2>8, <2>9, <2>10
  <1>11. Good(0)
    <2>1. len \in G
      <3> HIDE DEF G
      <3>1. \A m \in 0 .. len : m \in G
        BY <1>9, <1>10, CountUp
      <3> QED
        BY <3>1
    <2>2. 0 \in (len - len) .. len
      OBVIOUS
    <2> HIDE DEF Good
    <2> QED
      BY <2>1, <2>2
  <1> QED
    BY <1>1, <1>11

(* ChunkManager::read: staged chunks from memory, the others from the      *)
(* scans of their runs, zeroes where there is neither.                     *)
LEMMA FetchedAll ==
  ASSUME NEW idxs \in Seq(Nat), NEW k \in ChunkIdxs, k \in Nat
  PROVE  /\ k \in FetchedChunks(idxs) => Persisted(k)
         /\ Persisted(k) /\ (\E i \in 1 .. Len(idxs) : idxs[i] = k) =>
              k \in FetchedChunks(idxs)
  <1> DEFINE groups == Coalesce(idxs)
  <1>1. groups \in Runs /\ \A i \in 1 .. Len(idxs) : Covers(groups, idxs[i])
    BY CoalesceCovers
  <1>2. FetchedChunks(idxs)
          = UNION {ScanInclusive(groups[g][1], groups[g][2]) : g \in DOMAIN groups}
    BY DEF FetchedChunks
  <1> HIDE DEF groups
  <1>3. k \in FetchedChunks(idxs) => Persisted(k)
    BY <1>2 DEF ScanInclusive
  <1>4. ASSUME Persisted(k), NEW i \in 1 .. Len(idxs), idxs[i] = k
        PROVE  k \in FetchedChunks(idxs)
    <2>1. PICK g \in 1 .. Len(groups) : groups[g][1] <= k /\ k <= groups[g][2]
      BY <1>1, <1>4 DEF Covers
    <2>2. g \in DOMAIN groups
      BY <1>1, <2>1 DEF Runs
    <2>3. k \in ScanInclusive(groups[g][1], groups[g][2])
      BY <1>4, <2>1 DEF ScanInclusive
    <2> QED
      BY <1>2, <2>2, <2>3
  <1> QED
    BY <1>3, <1>4

LEMMA ReadBufIsTheFile ==
  ASSUME NEW offset \in Nat, NEW len \in Nat, offset + len <= MaxU64
  PROVE  ReadBuf(offset, len) = [i \in 0 .. (len - 1) |-> View[offset + i]]
  <1> DEFINE slices == SplitIntoChunks(len, offset)
             idxs == PersistedIdxs(slices)
             fetched == FetchedChunks(idxs)
             Source(k) == IF pending[k] = None
                            THEN IF k \in fetched THEN db.chunks[k] ELSE EmptyChunk
                            ELSE ChunkContents(k)
             In(j, i) == /\ slices[j].buf_offset <= i
                         /\ i < slices[j].buf_offset + slices[j].len
             At(i) == CHOOSE j \in 1 .. Len(slices) : In(j, i)
             ReadAt(i) == ByteAt(Source(slices[At(i)].chunk_idx),
                               slices[At(i)].chunk_offset + (i - slices[At(i)].buf_offset))
  <1>1. ReadBuf(offset, len) = [i \in 0 .. (len - 1) |-> ReadAt(i)]
    BY DEF ReadBuf
  <1>2. /\ slices \in Seq(SlicesOf(len, offset))
        /\ \A i \in 0 .. (len - 1) : Slices(slices, i)
    BY SplitFacts
  <1> HIDE DEF slices
  <1>3. ASSUME NEW j \in 1 .. Len(slices)
        PROVE  \E c \in 0 .. (len - 1) : slices[j] = Slice(len, offset, c)
    <2>1. slices[j] \in SlicesOf(len, offset)
      BY <1>2
    <2> QED
      BY <2>1 DEF SlicesOf
  <1>4. ASSUME NEW j \in 1 .. Len(slices) PROVE slices[j].chunk_idx \in Nat
    <2>1. PICK c \in 0 .. (len - 1) : slices[j] = Slice(len, offset, c)
      BY <1>3
    <2>2. Slice(len, offset, c).chunk_idx = ChunkIdxOf(offset + c) /\ offset + c \in Nat
      BY SliceAt
    <2> QED
      BY <2>1, <2>2, Located
  <1>5. /\ idxs \in Seq(Nat)
        /\ \A j \in 1 .. Len(slices) : pending[slices[j].chunk_idx] = None =>
             \E i \in 1 .. Len(idxs) : idxs[i] = slices[j].chunk_idx
    <2>1. Len(slices) \in Nat
      BY <1>2
    <2> QED
      BY <1>4, <2>1, PersistedIdxsFacts
  <1> HIDE DEF idxs
  <1>6. ASSUME NEW i \in 0 .. (len - 1) PROVE ReadAt(i) = View[offset + i]
    <2> DEFINE j == At(i)
               p == offset + i
               k == ChunkIdxOf(p)
    <2>1. j \in 1 .. Len(slices) /\ In(j, i)
      BY <1>2 DEF Slices
    <2> HIDE DEF j
    <2>2. PICK c \in 0 .. (len - 1) : slices[j] = Slice(len, offset, c)
      BY <1>3, <2>1
    <2> DEFINE s == Slice(len, offset, c)
    <2>3. /\ s.chunk_idx = ChunkIdxOf(offset + c) /\ s.chunk_offset = ChunkOffsetOf(offset + c)
          /\ s.buf_offset = c /\ s.len \in Nat /\ s.len <= Available(offset + c)
      BY SliceAt
    <2> HIDE DEF s
    <2>4. c <= i /\ i < c + s.len
      BY <2>1, <2>2, <2>3 DEF s
    <2>5. s.chunk_idx = k /\ s.chunk_offset + (i - c) = ChunkOffsetOf(p)
      <3>1. /\ offset + c \in Nat /\ i - c \in Nat /\ (offset + c) + (i - c) = p
            /\ Available(offset + c) \in Nat
        BY <2>4, Located
      <3>2. i - c < Available(offset + c)
        BY <2>3, <2>4, <3>1
      <3>3. /\ ChunkIdxOf((offset + c) + (i - c)) = ChunkIdxOf(offset + c)
            /\ ChunkOffsetOf((offset + c) + (i - c)) = ChunkOffsetOf(offset + c) + (i - c)
        BY <3>1, <3>2, RestOfChunk
      <3> QED
        BY <2>3, <3>1, <3>3
    <2>6. p \in Positions /\ k \in ChunkIdxs /\ k \in Nat
      <3>1. p \in Positions /\ p \in Nat
        BY LayoutAssumption DEF Positions
      <3> QED
        BY <3>1, Located DEF ChunkIdxs
    <2>7. slices[j].chunk_idx = k
      BY <2>2, <2>5 DEF s
    <2>8. Source(k) = ChunkContents(k)
      <3>1. CASE pending[k] = None
        <4>1. \E m \in 1 .. Len(idxs) : idxs[m] = k
          BY <1>5, <2>1, <2>7, <3>1
        <4>2. k \in fetched <=> Persisted(k)
          BY <1>5, <2>6, <4>1, FetchedAll
        <4> HIDE DEF fetched
        <4> QED
          BY <3>1, <4>2 DEF ChunkContents, ReadChunkFromStore, Persisted
      <3>2. CASE pending[k] # None
        BY <3>2
      <3> QED
        BY <3>1, <3>2
    <2> HIDE DEF Source, k
    <2>9. ReadAt(i) = ByteAt(ChunkContents(k), ChunkOffsetOf(p))
      <3>1. ReadAt(i) = ByteAt(Source(slices[j].chunk_idx),
                             slices[j].chunk_offset + (i - slices[j].buf_offset))
        BY DEF j
      <3>2. /\ slices[j].chunk_offset = s.chunk_offset /\ slices[j].buf_offset = c
        BY <2>2, <2>3 DEF s
      <3> HIDE DEF ReadAt
      <3> QED
        BY <2>5, <2>7, <2>8, <3>1, <3>2
    <2> HIDE DEF ReadAt
    <2> QED
      BY <2>6, <2>9 DEF View, k
  <1> HIDE DEF ReadAt
  <1> QED
    BY <1>1, <1>6

(* pread returns the bytes of the file up to its end, for every chunk      *)
(* geometry, offset and length: the slices of split_into_chunks cover the  *)
(* buffer, and the scans of the coalesced runs find every stored chunk     *)
(* that is not staged.                                                     *)
THEOREM FileHandlePreadReturnsTheFile == Spec => []PreadReturnsTheFile
  <1>1. ASSUME Inv PROVE PreadReturnsTheFile
    <2> SUFFICES ASSUME NEW offset \in Offsets, NEW len \in ReadLens
                 PROVE  Pread(offset, len) =
                          [i \in 0 .. (PreadLen(offset, len) - 1) |-> View[offset + i]]
      BY DEF PreadReturnsTheFile
    <2> DEFINE n == PreadLen(offset, len)
    <2>1. size \in Offsets /\ offset \in Nat /\ len \in Nat
      BY <1>1, HandleAssumption DEF Inv, TypeOK, Offsets
    <2>2. n \in Nat
      BY <2>1 DEF PreadLen, Offsets
    <2>3. n # 0 => offset + n <= MaxU64
      BY <2>1, LayoutAssumption DEF PreadLen, Offsets
    <2>4. offset + n <= MaxU64
      BY <2>1, <2>2, <2>3, LayoutAssumption DEF Offsets
    <2> HIDE DEF n
    <2>5. ReadBuf(offset, n) = [i \in 0 .. (n - 1) |-> View[offset + i]]
      BY <2>1, <2>2, <2>4, ReadBufIsTheFile
    <2> QED
      BY <2>5 DEF Pread, n
  <1> QED
    BY <1>1, FileHandleInvariant, PTL
=============================================================================
