------------------------------ MODULE BlksTree ------------------------------
(***************************************************************************)
(* The blks-384 tree hash of the Rust program                              *)
(* (src/rust/crates/blks-core/src/tree.rs): a slice hashed at once, with   *)
(* subtrees of its own for each thread, and the incremental hasher.  A     *)
(* hash value stands for what went into it, so that two are equal only if  *)
(* the trees are.                                                          *)
(***************************************************************************)
EXTENDS Integers, Sequences

CONSTANTS
  CHUNK_SIZE,     \* bytes of a leaf
  SUBTREE_CHUNKS  \* leaves of a subtree

PowerOfTwo[k \in Nat] == IF k = 0 THEN 1 ELSE 2 * PowerOfTwo[k - 1]

ASSUME TreeAssumption ==
  /\ CHUNK_SIZE \in Nat \ {0}
  /\ SUBTREE_CHUNKS \in Nat
  /\ \E k \in 0..SUBTREE_CHUNKS : SUBTREE_CHUNKS = PowerOfTwo[k]

Least(a, b) == IF a < b THEN a ELSE b

\* slice::chunks
Chunks(bytes, size) ==
  [i \in 1..((Len(bytes) + size - 1) \div size) |->
     SubSeq(bytes, (i - 1) * size + 1, Least(i * size, Len(bytes)))]

HashChunk(bytes, is_root) == [chunk |-> bytes, root |-> is_root]

\* hash_chunks_accelerated; four at a time or one by one makes no difference.
Leaves(bytes) ==
  LET chunks == Chunks(bytes, CHUNK_SIZE)
  IN  [i \in 1..Len(chunks) |-> HashChunk(chunks[i], FALSE)]

CompressParent(left, right, is_root) == [left |-> left, right |-> right, root |-> is_root]

\* Neighbours are paired; one that is left over moves up as it is.
NextLevel(level, is_root) ==
  [i \in 1..(Len(level) \div 2) |->
     CompressParent(level[2 * i - 1], level[2 * i], is_root /\ Len(level) = 2)]
    \o SubSeq(level, 2 * (Len(level) \div 2) + 1, Len(level))

\* Every level of the tree; the one of the root repeats itself.
Levels(nodes, is_root) ==
  LET Level[n \in Nat] == IF n = 0 THEN nodes ELSE NextLevel(Level[n - 1], is_root)
  IN  Level

\* reduce_nodes: a single node is returned as it is.
ReduceNodes(nodes, is_root) == Levels(nodes, is_root)[Len(nodes)][1]

\* hash_slice_parallel
HashSlice(data) ==
  LET slices == Chunks(data, CHUNK_SIZE * SUBTREE_CHUNKS)
  IN  IF Len(data) <= CHUNK_SIZE THEN HashChunk(data, TRUE)
      ELSE IF Len(data) >= 2 * CHUNK_SIZE * SUBTREE_CHUNKS
           THEN ReduceNodes([i \in 1..Len(slices) |-> ReduceNodes(Leaves(slices[i]), FALSE)],
                            TRUE)
           ELSE ReduceNodes(Leaves(data), TRUE)

\* BlksHasher::new
NewHasher == [buffer |-> << >>, leaf_hashes |-> << >>]

Push(h) ==
  [buffer |-> << >>, leaf_hashes |-> Append(h.leaf_hashes, HashChunk(h.buffer, FALSE))]

\* Bytes that can be hashed at once: at least one is kept for the last leaf.
Hashable(n) ==
  IF n <= CHUNK_SIZE THEN 0
  ELSE IF n % CHUNK_SIZE = 0 THEN n - CHUNK_SIZE ELSE (n \div CHUNK_SIZE) * CHUNK_SIZE

\* BlksHasher::update: a buffer that is full, or gets full, becomes a leaf as
\* soon as there are more bytes.
Update(h, input) ==
  LET opened == IF Len(h.buffer) = CHUNK_SIZE /\ input # << >> THEN Push(h) ELSE h
      taken  == IF opened.buffer = << >> THEN 0
                ELSE Least(CHUNK_SIZE - Len(opened.buffer), Len(input))
      filled == [opened EXCEPT !.buffer = @ \o SubSeq(input, 1, taken)]
      rest   == SubSeq(input, taken + 1, Len(input))
      ready  == IF filled.buffer # << >> /\ rest # << >> THEN Push(filled) ELSE filled
      bulk   == Hashable(Len(rest))
  IN  [buffer |-> ready.buffer \o SubSeq(rest, bulk + 1, Len(rest)),
       leaf_hashes |-> ready.leaf_hashes \o Leaves(SubSeq(rest, 1, bulk))]

\* BlksHasher::finalize
Finalize(h) ==
  IF h.leaf_hashes = << >> THEN HashChunk(h.buffer, TRUE)
  ELSE ReduceNodes(IF h.buffer = << >> THEN h.leaf_hashes ELSE Push(h).leaf_hashes, TRUE)

=============================================================================
