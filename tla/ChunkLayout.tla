---------------------------- MODULE ChunkLayout ----------------------------
(***************************************************************************)
(* How chunk_manager.rs maps the bytes of a file to chunks.                *)
(*                                                                         *)
(* Chunk boundaries sit on ChunkBaseOffset + k * ChunkSize; when the base  *)
(* offset is not 0, chunk 0 is short and holds the bytes before it.        *)
(***************************************************************************)
EXTENDS Integers, Sequences

CONSTANTS
  ChunkSize,        \* FileMetadata.chunk_size
  ChunkBaseOffset,  \* FileMetadata.chunk_base_offset
  MaxU64            \* u64::MAX, scaled down: the width of every file offset

(* FileMetadata::validated_chunk_size rejects every other geometry before  *)
(* a handle exists.                                                        *)
ASSUME LayoutAssumption ==
  /\ ChunkSize \in Nat \ {0}
  /\ ChunkBaseOffset \in 0 .. (ChunkSize - 1)
  /\ MaxU64 \in Nat \ {0}

Offsets   == 0 .. MaxU64          \* values of a u64 offset or size
Positions == 0 .. (MaxU64 - 1)    \* positions at which a file can hold a byte

----------------------------------------------------------------------------
(* split_into_chunks: where one position lives, and how many bytes of its  *)
(* chunk are left from there on.                                           *)
ChunkIdxOf(p) ==
  IF p < ChunkBaseOffset
    THEN 0
    ELSE (p - ChunkBaseOffset) \div ChunkSize
         + (IF ChunkBaseOffset # 0 THEN 1 ELSE 0)

ChunkOffsetOf(p) ==
  IF p < ChunkBaseOffset THEN p ELSE (p - ChunkBaseOffset) % ChunkSize

Available(p) ==
  IF p < ChunkBaseOffset THEN ChunkBaseOffset - p
                         ELSE ChunkSize - ChunkOffsetOf(p)

ChunkIdxs == {ChunkIdxOf(p) : p \in Positions}

(* One iteration of the loop of split_into_chunks: the slice that starts   *)
(* when `covered' of the `len' bytes at `offset' are already covered.      *)
Slice(len, offset, covered) ==
  LET p    == offset + covered
      left == len - covered
  IN [ chunk_idx    |-> ChunkIdxOf(p),
       buf_offset   |-> covered,
       chunk_offset |-> ChunkOffsetOf(p),
       len          |-> IF left < Available(p) THEN left ELSE Available(p) ]

(* split_into_chunks: the whole loop.                                      *)
SplitIntoChunks(len, offset) ==
  LET from[covered \in 0 .. len] ==
        IF covered = len
          THEN <<>>
          ELSE LET s == Slice(len, offset, covered)
               IN <<s>> \o from[covered + s.len]
  IN from[0]

(* Mutant: the last index of a run is not added to it.                     *)
CoalesceDropsLast(idxs) ==
  LET upTo[n \in 0 .. Len(idxs)] ==
        IF n = 0
          THEN <<>>
          ELSE LET groups == upTo[n - 1]
                   last   == Len(groups)
               IN IF last # 0 /\ groups[last][2] + 1 = idxs[n]
                    THEN groups
                    ELSE Append(groups, <<idxs[n], idxs[n]>>)
  IN upTo[Len(idxs)]

(* coalesce_chunk_indices: ascending indices grouped into maximal runs     *)
(* <<first, last>>, each of which is fetched with one range scan.          *)
Coalesce(idxs) ==
  LET upTo[n \in 0 .. Len(idxs)] ==
        IF n = 0
          THEN <<>>
          ELSE LET groups == upTo[n - 1]
                   last   == Len(groups)
               IN IF last # 0 /\ groups[last][2] + 1 = idxs[n]
                    THEN [groups EXCEPT ![last] = <<@[1], idxs[n]>>]
                    ELSE Append(groups, <<idxs[n], idxs[n]>>)
  IN upTo[Len(idxs)]
=============================================================================
