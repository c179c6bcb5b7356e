-------------------------- MODULE ShardedRing_proofs --------------------------
(***************************************************************************)
(* Proofs about ShardedRing, for every number of workers, chunk and block  *)
(* size, limit and input.                                                  *)
(***************************************************************************)
EXTENDS ShardedRing, FiniteSetTheorems, TLAPS

USE DEF Exact

------------------------------------------------------------------------------
(* The inductive invariant                                                   *)

\* How far w's part of the output reaches, and where its chunk ends.
Progress(w) ==
  Position(w) + (IF pc[w] \in {"write", "count"} THEN written_so_far[w] ELSE 0)
              + (IF pc[w] = "count" THEN w_res[w] ELSE 0)

End(w) == chunk_offset[w] + ChunkLen(w)

\* Positions that are claimed by w and not reached yet.
Ahead(w, p) == Copying(w) /\ Progress(w) < p /\ p <= End(w)

\* Claimed chunks begin inside the file, lie below the shared counter and are
\* a whole chunk apart.
ClaimShape ==
  \A w \in Workers : Copying(w) =>
    /\ chunk_offset[w] < cfg.total_bytes
    /\ chunk_offset[w] + chunk_size <= next_chunk_offset
    /\ \A v \in Workers \ {w} : Copying(v) =>
         \/ chunk_offset[v] + chunk_size <= chunk_offset[w]
         \/ chunk_offset[w] + chunk_size <= chunk_offset[v]

\* A block in the buffer is what the read delivers at its position, and is
\* written from its beginning on.
BlockShape ==
  \A w \in Workers :
    /\ Copying(w) => chunk_done[w] <= ChunkLen(w)
    /\ pc[w] \in {"write", "count"} =>
         /\ chunk_done[w] < ChunkLen(w)
         /\ Position(w) < cfg.source
         /\ buffered[w] <= Least(CurLen(w), cfg.source - Position(w))
         /\ ~cfg.short_reads => buffered[w] = Least(CurLen(w), cfg.source - Position(w))
         /\ written_so_far[w] < buffered[w]
    /\ pc[w] = "count" => w_res[w] \in 1..(buffered[w] - written_so_far[w])

Geometry == TypeOK /\ ClaimShape /\ BlockShape

\* What nobody has claimed, or its worker has not reached, is not written.
Fresh ==
  \A p \in DOMAIN out :
    p > next_chunk_offset \/ (\E w \in Workers : Ahead(w, p)) => out[p] = 0

\* The bytes of a write that has just completed are in the output.
UncountedLanded == \A w \in Workers : Uncounted(w) \subseteq Landed

Pending == UNION {Uncounted(w) : w \in Workers}

\* After an abort bytes may be in the output that nobody counts any more.
Counted ==
  /\ bytes_written <= Cardinality(Landed \ Pending)
  /\ ~abort_requested => bytes_written = Cardinality(Landed \ Pending)

\* Nothing is written beyond the end of the input.
Inside == Landed \subseteq 1..cfg.source

Data == InPlace /\ Fresh /\ UncountedLanded /\ Counted /\ Inside

\* The part of the input to be copied.
Wanted == 1..Least(cfg.source, cfg.total_bytes)

\* Whatever was claimed is copied, or its worker is still at it, unless a short
\* read was taken for the end; nobody leaves before everything is claimed.
Coverage ==
  ~abort_requested =>
    /\ Exact =>
         \A p \in Wanted :
           p <= next_chunk_offset => out[p] = p \/ \E w \in Workers : Ahead(w, p)
    /\ (\E w \in Workers : pc[w] \in {"leave", "gone"}) =>
         next_chunk_offset >= cfg.total_bytes

\* A worker has failed.
Broken == error_code = 1 \/ \E w \in Workers : pc[w] = "error"

\* Who has left, who asked for an abort, and what the main thread made of it.
Control ==
  /\ active_workers = Cardinality({w \in Workers : pc[w] # "gone"})
  /\ mpc \notin {"spawn", "join_spawned", "fallback"} => \A w \in Workers : pc[w] # "none"
  /\ Broken => abort_requested
  /\ abort_requested => Broken \/ mpc \in {"join", "done", "join_spawned", "fallback"}
  /\ exit_status = "failure" => Broken
  /\ mpc = "done" => \A w \in Workers : pc[w] = "gone"
  /\ mpc = "fallback" => \A w \in Workers : pc[w] \in {"none", "gone"}
  /\ w_bytes <= bytes_written



\* A main thread that left its loop without any failure left a complete copy.
LeftComplete ==
  /\ mpc \in {"cleanup", "join", "done"} /\ exit_status = "success"
  /\ ~Broken /\ Exact
  => Complete

IInv == Geometry /\ Data /\ Coverage /\ Control /\ LeftComplete

------------------------------------------------------------------------------
(* Types and small facts                                                     *)

LEMMA NumWorkersType == NumWorkers \in Nat /\ NumWorkers > 0
BY WorkersAssumption, FS_CardinalityType, FS_EmptySet DEF NumWorkers

\* A chunk is at least a block.
LEMMA ChunkSizeType ==
  ASSUME NEW total \in Nat \ {0}, NEW bs \in Nat \ {0}
  PROVE  ChunkSize(total, bs) \in Nat \ {0}
<1> DEFINE wanted == IF total < URING_DEFAULT_CHUNK_SIZE * NumWorkers * 2
                     THEN Greatest(total \div (NumWorkers * 2), bs)
                     ELSE URING_DEFAULT_CHUNK_SIZE
<1>1. wanted \in Int
  <2>1. total \div (NumWorkers * 2) \in Int
    BY NumWorkersType
  <2>2. QED
    BY <2>1, ChunkAssumption DEF Greatest
<1>2. (wanted \div bs) * bs \in Int
  BY <1>1
<1> HIDE DEF wanted
<1>3. Greatest((wanted \div bs) * bs, bs) \in Nat \ {0}
  BY <1>2 DEF Greatest
<1>4. QED
  BY <1>3 DEF ChunkSize, wanted

LEMMA ConfigTypes ==
  ASSUME cfg \in Configs
  PROVE  /\ cfg.blocksize \in Nat \ {0} /\ cfg.total_bytes \in Nat \ {0}
         /\ cfg.bytes_to_copy \in Nat \cup {-1} /\ cfg.source \in Nat
         /\ cfg.short_reads \in BOOLEAN /\ cfg.empty_writes \in BOOLEAN
         /\ cfg.bytes_to_copy >= 0 => cfg.total_bytes = cfg.bytes_to_copy
BY ConfigsAssumption DEF ConfigType

\* The steps of the main thread that no worker takes part in.
MainStep ==
  \/ AllSpawned \/ SpawnFails \/ JoinSpawned \/ LimitCheck \/ LoadBytes \/ LoadAbort
  \/ LoadActive \/ Cleanup \/ Join \/ UNCHANGED vars

LEMMA Steps ==
  ASSUME [Next]_vars
  PROVE  (\E w \in Workers : Worker(w) \/ SpawnWorker(w)) \/ MainStep
BY DEF Next, Main, Idle, MainStep

\* Those steps leave the workers, their counters and the output alone.
LEMMA MainQuiet ==
  ASSUME MainStep, TypeOK
  PROVE  /\ UNCHANGED <<cfg, chunk_size, next_chunk_offset, bytes_written, active_workers,
                        error_code, worker_vars, out>>
         /\ abort_requested' \in {abort_requested, TRUE}
BY DEF MainStep, AllSpawned, SpawnFails, JoinSpawned, LimitCheck, LoadBytes, LoadAbort,
       LoadActive, Cleanup, Join, vars, shared_vars, worker_vars, main_vars, TypeOK

------------------------------------------------------------------------------
(* Geometry: chunks and blocks                                               *)

LEMMA GeometryInit == Init => Geometry
<1> SUFFICES ASSUME Init PROVE Geometry
  OBVIOUS
<1>1. cfg \in Configs /\ chunk_size \in Nat \ {0}
  BY ConfigTypes, ChunkSizeType DEF Init
<1>2. active_workers \in Int /\ 0 \in Nat
  BY NumWorkersType DEF Init
<1>3. TypeOK
  BY <1>1, <1>2 DEF Init, TypeOK
<1>4. ClaimShape /\ BlockShape
  BY DEF Init, ClaimShape, BlockShape, Copying
<1>5. QED
  BY <1>3, <1>4 DEF Geometry

\* A worker's step only changes its own part of the workers' state.
LEMMA OwnPart ==
  ASSUME TypeOK, NEW w \in Workers, Worker(w) \/ SpawnWorker(w)
  PROVE  /\ UNCHANGED <<cfg, chunk_size>>
         /\ \A v \in Workers \ {w} :
              /\ pc'[v] = pc[v] /\ chunk_offset'[v] = chunk_offset[v]
              /\ chunk_done'[v] = chunk_done[v] /\ buffered'[v] = buffered[v]
              /\ written_so_far'[v] = written_so_far[v] /\ w_res'[v] = w_res[v]
<1> USE DEF GoTo, TypeOK, shared_vars, worker_vars, main_vars
<1>1. CASE WorkerClaims(w)
  BY <1>1 DEF WorkerClaims
<1>2. CASE WorkerSeesAbort(w) \/ WorkerLeavesChunk(w) \/ WorkerWritesNothing(w)
            \/ WorkerFails(w) \/ WorkerStoresError(w)
  BY <1>2 DEF WorkerSeesAbort, WorkerLeavesChunk, WorkerWritesNothing,
              WorkerFails, WorkerStoresError
<1>3. CASE WorkerReads(w)
  BY <1>3 DEF WorkerReads
<1>4. CASE WorkerWrites(w)
  BY <1>4 DEF WorkerWrites
<1>5. CASE WorkerCounts(w)
  BY <1>5 DEF WorkerCounts
<1>6. CASE WorkerAbandonsWrite(w) \/ WorkerLeaves(w) \/ SpawnWorker(w)
  BY <1>6 DEF WorkerAbandonsWrite, WorkerLeaves, SpawnWorker
<1>7. QED
  BY <1>1, <1>2, <1>3, <1>4, <1>5, <1>6 DEF Worker

\* What a read may put into the buffer.
Delivers(w, n) ==
  /\ pc[w] = "block" /\ chunk_done[w] < ChunkLen(w)
  /\ buffered' = [buffered EXCEPT ![w] = n]
  /\ pc' = [pc EXCEPT ![w] = IF n = 0 THEN "top" ELSE "write"]
  /\ n > 0 => /\ Position(w) < cfg.source
              /\ n <= Least(CurLen(w), cfg.source - Position(w))
              /\ ~cfg.short_reads => n = Least(CurLen(w), cfg.source - Position(w))
  /\ n = 0 => Position(w) >= cfg.source

LEMMA ReadDelivers ==
  ASSUME TypeOK, NEW w \in Workers, WorkerReads(w)
  PROVE  \E n \in Nat : Delivers(w, n)
<1>0. /\ chunk_offset[w] \in Nat /\ chunk_done[w] \in Nat /\ chunk_size \in Nat \ {0}
      /\ cfg.blocksize \in Nat \ {0} /\ cfg.source \in Nat /\ cfg.total_bytes \in Nat
      /\ pc[w] = "block" /\ chunk_done[w] < ChunkLen(w)
  BY ConfigTypes DEF TypeOK, WorkerReads
<1> DEFINE left == Greatest(cfg.source - Position(w), 0)
           most == Least(CurLen(w), left)
<1>1. /\ CurLen(w) \in Nat \ {0} /\ cfg.source - Position(w) \in Int
      /\ left \in Nat /\ most \in Nat
      /\ most > 0 => Position(w) < cfg.source /\ most = Least(CurLen(w), cfg.source - Position(w))
      /\ most = 0 => Position(w) >= cfg.source
  BY <1>0 DEF CurLen, ChunkLen, Position, Least, Greatest
<1>2. PICK n \in (IF cfg.short_reads THEN Least(1, most) ELSE most)..most :
        /\ buffered' = [buffered EXCEPT ![w] = n]
        /\ GoTo(w, IF n = 0 THEN "top" ELSE "write")
  BY DEF WorkerReads
<1> HIDE DEF left, most
<1>3. /\ n \in Nat /\ n <= most /\ (n = 0 => most = 0)
      /\ ~cfg.short_reads => n = most
  BY <1>1, <1>2 DEF Least
<1>4. ASSUME n > 0
      PROVE  /\ Position(w) < cfg.source
             /\ n <= Least(CurLen(w), cfg.source - Position(w))
             /\ ~cfg.short_reads => n = Least(CurLen(w), cfg.source - Position(w))
  BY <1>1, <1>3, <1>4
<1>5. QED
  BY <1>0, <1>1, <1>2, <1>3, <1>4 DEF Delivers, GoTo

LEMMA TypeStep ==
  ASSUME Geometry, NEW w \in Workers, Worker(w) \/ SpawnWorker(w)
  PROVE  TypeOK'
<1> USE DEF Geometry, TypeOK, GoTo, shared_vars, worker_vars, main_vars
<1>1. CASE WorkerClaims(w)
  <2>1. next_chunk_offset' \in Nat /\ chunk_offset' \in [Workers -> Nat]
        /\ chunk_done' \in [Workers -> Nat]
    <3>1. CASE next_chunk_offset >= cfg.total_bytes
      BY <1>1, <3>1 DEF WorkerClaims
    <3>2. CASE ~(next_chunk_offset >= cfg.total_bytes)
      <4>1. /\ chunk_offset' = [chunk_offset EXCEPT ![w] = next_chunk_offset]
            /\ chunk_done' = [chunk_done EXCEPT ![w] = 0]
            /\ next_chunk_offset' = next_chunk_offset + chunk_size
        BY <1>1, <3>2 DEF WorkerClaims
      <4>2. QED
        BY <4>1
    <3>3. QED
      BY <3>1, <3>2
  <2>2. QED
    BY <1>1, <2>1 DEF WorkerClaims
<1>2. CASE WorkerSeesAbort(w) \/ WorkerLeavesChunk(w) \/ WorkerWritesNothing(w)
            \/ WorkerFails(w) \/ WorkerStoresError(w)
  BY <1>2 DEF WorkerSeesAbort, WorkerLeavesChunk, WorkerWritesNothing,
              WorkerFails, WorkerStoresError
<1>3. CASE WorkerReads(w)
  <2>1. PICK n \in Nat : Delivers(w, n)
    BY <1>3, ReadDelivers
  <2>2. QED
    BY <1>3, <2>1 DEF WorkerReads, Delivers
<1>4. CASE WorkerWrites(w)
  <2>1. PICK n \in 1..(buffered[w] - written_so_far[w]) :
          out' = Written(w, n) /\ w_res' = [w_res EXCEPT ![w] = n]
    BY <1>4 DEF WorkerWrites
  <2>2. out' \in [1..cfg.total_bytes -> Nat]
    BY <2>1, ConfigTypes DEF Written
  <2>3. QED
    BY <1>4, <2>1, <2>2 DEF WorkerWrites
<1>5. CASE WorkerCounts(w)
  <2>1. bytes_written' \in Nat /\ written_so_far' \in [Workers -> Nat]
        /\ chunk_done' \in [Workers -> Nat]
    BY SMTT(30), <1>5 DEF WorkerCounts
  <2>2. QED
    BY <1>5, <2>1 DEF WorkerCounts
<1>6. CASE WorkerAbandonsWrite(w)
  <2>1. out' \in [1..cfg.total_bytes -> Nat]
    BY <1>6, ConfigTypes DEF WorkerAbandonsWrite, Written
  <2>2. QED
    BY <1>6, <2>1 DEF WorkerAbandonsWrite
<1>7. CASE WorkerLeaves(w)
  BY <1>7 DEF WorkerLeaves
<1>8. CASE SpawnWorker(w)
  BY <1>8 DEF SpawnWorker
<1>9. QED
  BY <1>1, <1>2, <1>3, <1>4, <1>5, <1>6, <1>7, <1>8 DEF Worker

LEMMA ClaimStep ==
  ASSUME Geometry, NEW w \in Workers, Worker(w) \/ SpawnWorker(w)
  PROVE  ClaimShape'
<1>0. TypeOK' /\ TypeOK /\ ClaimShape
  BY TypeStep DEF Geometry
<1>1. CASE WorkerClaims(w) /\ next_chunk_offset < cfg.total_bytes
  <2>1. /\ next_chunk_offset' = next_chunk_offset + chunk_size
        /\ chunk_offset'[w] = next_chunk_offset
        /\ UNCHANGED <<cfg, chunk_size>>
    BY <1>0, <1>1, ConfigTypes DEF WorkerClaims, TypeOK
  <2>2. ASSUME NEW v \in Workers \ {w}, Copying(v)'
        PROVE  /\ chunk_offset'[v] = chunk_offset[v] /\ Copying(v)
               /\ chunk_offset[v] < cfg.total_bytes
               /\ chunk_offset[v] + chunk_size <= next_chunk_offset
    BY <1>0, <2>2, OwnPart DEF Copying, ClaimShape
  <2>3. ASSUME NEW v \in Workers \ {w}, Copying(v)', NEW u \in Workers \ {w, v}, Copying(u)'
        PROVE  \/ chunk_offset'[u] + chunk_size' <= chunk_offset'[v]
               \/ chunk_offset'[v] + chunk_size' <= chunk_offset'[u]
    BY <1>0, <2>1, <2>2, <2>3 DEF ClaimShape
  <2>4. ASSUME NEW v \in Workers, Copying(v)'
        PROVE  /\ chunk_offset'[v] < cfg'.total_bytes
               /\ chunk_offset'[v] + chunk_size' <= next_chunk_offset'
    <3>1. CASE v = w
      BY <1>1, <2>1, <3>1
    <3>2. CASE v # w
      <4>1. /\ chunk_size \in Nat /\ next_chunk_offset \in Nat
            /\ chunk_offset[v] \in Nat
        BY <1>0 DEF TypeOK
      <4>2. QED
        BY <2>1, <2>2, <2>4, <3>2, <4>1
    <3>3. QED
      BY <3>1, <3>2
  <2>5. ASSUME NEW v \in Workers, Copying(v)', NEW u \in Workers \ {v}, Copying(u)'
        PROVE  \/ chunk_offset'[u] + chunk_size' <= chunk_offset'[v]
               \/ chunk_offset'[v] + chunk_size' <= chunk_offset'[u]
    <3>1. CASE v = w \/ u = w
      BY <2>1, <2>2, <2>5, <3>1
    <3>2. CASE v # w /\ u # w
      BY <2>3, <2>5, <3>2
    <3>3. QED
      BY <3>1, <3>2
  <2>6. QED
    BY <2>4, <2>5 DEF ClaimShape
<1>2. CASE ~(WorkerClaims(w) /\ next_chunk_offset < cfg.total_bytes)
  <2>1. /\ UNCHANGED <<cfg, chunk_size, chunk_offset>>
        /\ next_chunk_offset' >= next_chunk_offset
        /\ Copying(w)' => Copying(w)
    <3>1. CASE WorkerClaims(w)
      BY <1>0, <1>2, <3>1, ConfigTypes DEF WorkerClaims, GoTo, TypeOK, Copying
    <3>2. CASE WorkerSeesAbort(w) \/ WorkerLeavesChunk(w) \/ WorkerWritesNothing(w)
            \/ WorkerReads(w) \/ WorkerFails(w)
               \/ WorkerStoresError(w)
      BY <1>0, <3>2 DEF WorkerSeesAbort, WorkerLeavesChunk, WorkerWritesNothing,
                        WorkerReads, WorkerFails,
                 WorkerStoresError, GoTo, TypeOK, Copying, shared_vars
    <3>3. CASE WorkerWrites(w) \/ WorkerAbandonsWrite(w) \/ WorkerLeaves(w) \/ SpawnWorker(w)
      BY <1>0, <3>3 DEF WorkerWrites, WorkerAbandonsWrite, WorkerLeaves,
                 SpawnWorker, GoTo, TypeOK, Copying, shared_vars
    <3>4. CASE WorkerCounts(w)
      BY <1>0, <3>4 DEF WorkerCounts, GoTo, TypeOK, Copying, shared_vars
    <3>5. QED
      BY <3>1, <3>2, <3>3, <3>4 DEF Worker
  <2>2. \A v \in Workers : Copying(v)' => Copying(v)
    BY <1>0, <2>1, OwnPart DEF Copying
  <2>3. ASSUME NEW v \in Workers, Copying(v)'
        PROVE  /\ chunk_offset'[v] < cfg'.total_bytes
               /\ chunk_offset'[v] + chunk_size' <= next_chunk_offset'
    <3>1. /\ chunk_size \in Nat /\ next_chunk_offset \in Nat /\ next_chunk_offset' \in Nat
          /\ chunk_offset[v] \in Nat
      BY <1>0 DEF TypeOK
    <3>2. QED
      BY <1>0, <2>1, <2>2, <2>3, <3>1 DEF ClaimShape
  <2>4. ASSUME NEW v \in Workers, Copying(v)', NEW u \in Workers \ {v}, Copying(u)'
        PROVE  \/ chunk_offset'[u] + chunk_size' <= chunk_offset'[v]
               \/ chunk_offset'[v] + chunk_size' <= chunk_offset'[u]
    BY <1>0, <2>1, <2>2, <2>4 DEF ClaimShape
  <2>5. QED
    BY <2>3, <2>4 DEF ClaimShape
<1>3. QED
  BY <1>1, <1>2

\* One worker's part of BlockShape.
BlockOf(w) ==
  /\ Copying(w) => chunk_done[w] <= ChunkLen(w)
  /\ pc[w] \in {"write", "count"} =>
       /\ chunk_done[w] < ChunkLen(w)
       /\ Position(w) < cfg.source
       /\ buffered[w] <= Least(CurLen(w), cfg.source - Position(w))
       /\ ~cfg.short_reads => buffered[w] = Least(CurLen(w), cfg.source - Position(w))
       /\ written_so_far[w] < buffered[w]
  /\ pc[w] = "count" => w_res[w] \in 1..(buffered[w] - written_so_far[w])

\* A block lies inside its chunk and inside the input.
LEMMA BlockBounds ==
  ASSUME Geometry, NEW w \in Workers, pc[w] \in {"write", "count"}
  PROVE  /\ chunk_offset[w] \in Nat /\ chunk_done[w] \in Nat /\ ChunkLen(w) \in Int
         /\ buffered[w] \in Nat /\ written_so_far[w] \in Nat /\ w_res[w] \in Nat
         /\ Position(w) = chunk_offset[w] + chunk_done[w]
         /\ End(w) = chunk_offset[w] + ChunkLen(w)
         /\ End(w) <= cfg.total_bytes
         /\ written_so_far[w] < buffered[w]
         /\ chunk_done[w] + buffered[w] <= ChunkLen(w)
         /\ Position(w) + buffered[w] <= cfg.source
         /\ buffered[w] < CurLen(w) /\ ~cfg.short_reads =>
              Position(w) + buffered[w] = cfg.source
         /\ pc[w] = "count" => 0 < w_res[w] /\ written_so_far[w] + w_res[w] <= buffered[w]
<1>1. /\ chunk_offset[w] \in Nat /\ chunk_done[w] \in Nat /\ chunk_size \in Nat
      /\ buffered[w] \in Nat /\ written_so_far[w] \in Nat /\ w_res[w] \in Nat
      /\ cfg \in Configs
  BY DEF Geometry, TypeOK
<1>2. BlockOf(w)
  BY DEF Geometry, BlockShape, BlockOf
<1>3. QED
  BY <1>1, <1>2, ConfigTypes DEF BlockOf, End, ChunkLen, CurLen, Position, Least

LEMMA BlockStep ==
  ASSUME Geometry, NEW w \in Workers, Worker(w) \/ SpawnWorker(w)
  PROVE  BlockShape'
<1>0. TypeOK' /\ TypeOK /\ ClaimShape /\ \A v \in Workers : BlockOf(v)
  BY TypeStep DEF Geometry, BlockShape, BlockOf
<1> USE DEF BlockOf, Copying, ChunkLen, CurLen, Position, Least, Greatest
<1>1. ASSUME NEW v \in Workers \ {w}
      PROVE  BlockOf(v)'
  BY <1>0, OwnPart
<1>2. BlockOf(w)'
  <2> USE <1>0, ConfigTypes DEF TypeOK, GoTo, shared_vars, main_vars
  <2>1. CASE WorkerClaims(w)
    BY <2>1 DEF WorkerClaims
  <2>2. CASE WorkerSeesAbort(w) \/ WorkerLeavesChunk(w) \/ WorkerWritesNothing(w) \/ WorkerFails(w)
             \/ WorkerStoresError(w) \/ WorkerLeaves(w) \/ SpawnWorker(w)
    BY <2>2 DEF WorkerSeesAbort, WorkerLeavesChunk, WorkerWritesNothing,
                WorkerFails, WorkerStoresError,
                WorkerLeaves, SpawnWorker
  <2>3. CASE WorkerReads(w)
    <3>1. PICK n \in Nat : Delivers(w, n)
      BY <2>3, ReadDelivers
    <3>2. QED
      BY <2>3, <3>1 DEF WorkerReads, Delivers
  <2>4. CASE WorkerWrites(w)
    BY <2>4 DEF WorkerWrites
  <2>5. CASE WorkerCounts(w)
    <3>1. /\ UNCHANGED <<cfg, chunk_size, chunk_offset, buffered, w_res>>
          /\ written_so_far'[w] = written_so_far[w] + w_res[w]
          /\ written_so_far'[w] <= buffered[w]
      BY <2>5 DEF WorkerCounts
    <3>2. CASE written_so_far'[w] < buffered[w]
      BY ZenonT(40), <2>5, <3>1, <3>2 DEF WorkerCounts
    <3>3. CASE ~(written_so_far'[w] < buffered[w])
      <4>1. /\ chunk_done'[w] = chunk_done[w] + buffered[w]
            /\ pc'[w] \in {"top", "block"}
        BY <2>5, <3>3 DEF WorkerCounts
      <4>2. /\ chunk_done[w] + buffered[w] <= ChunkLen(w)
            /\ ChunkLen(w)' = ChunkLen(w)
        BY <2>5, <3>1, BlockBounds DEF WorkerCounts
      <4>3. QED
        BY <4>1, <4>2
    <3>4. QED
      BY <3>2, <3>3
  <2>6. CASE WorkerAbandonsWrite(w)
    BY <2>6 DEF WorkerAbandonsWrite
  <2>7. QED
    BY <2>1, <2>2, <2>3, <2>4, <2>5, <2>6 DEF Worker
<1>3. QED
  BY <1>1, <1>2 DEF BlockShape

LEMMA GeometryStep ==
  ASSUME Geometry, [Next]_vars
  PROVE  Geometry'
<1>1. ASSUME NEW w \in Workers, Worker(w) \/ SpawnWorker(w)
      PROVE  Geometry'
  BY <1>1, TypeStep, ClaimStep, BlockStep DEF Geometry
<1>2. CASE MainStep
  <2>1. /\ UNCHANGED <<cfg, chunk_size, next_chunk_offset, bytes_written, active_workers,
                       error_code, worker_vars, out>>
        /\ abort_requested' \in {abort_requested, TRUE}
    BY <1>2, MainQuiet DEF Geometry
  <2>2. TypeOK'
    BY <1>2 DEF Geometry, TypeOK, MainStep, AllSpawned, SpawnFails, JoinSpawned, LimitCheck,
                LoadBytes, LoadAbort, LoadActive, Cleanup, Join, vars, shared_vars,
                worker_vars, main_vars
  <2>3. ClaimShape' /\ BlockShape'
    BY <2>1 DEF Geometry, ClaimShape, BlockShape, Copying, ChunkLen, CurLen, Position,
                worker_vars
  <2>4. QED
    BY <2>2, <2>3 DEF Geometry
<1>3. QED
  BY <1>1, <1>2, Steps

------------------------------------------------------------------------------
(* Data: what is in the output, and what is counted                          *)

\* What a worker has got to lies in its chunk; its uncounted bytes are there.
LEMMA Extent ==
  ASSUME Geometry, NEW w \in Workers, Copying(w)
  PROVE  /\ chunk_offset[w] \in Nat /\ Progress(w) \in Nat /\ End(w) \in Nat
         /\ chunk_offset[w] <= Progress(w) /\ Progress(w) <= End(w)
         /\ End(w) <= cfg.total_bytes /\ End(w) <= next_chunk_offset
         /\ End(w) <= chunk_offset[w] + chunk_size
         /\ \A p \in Uncounted(w) : p \in Nat /\ chunk_offset[w] < p /\ p <= Progress(w)
<1>1. /\ chunk_offset[w] \in Nat /\ chunk_done[w] \in Nat /\ chunk_size \in Nat
      /\ next_chunk_offset \in Nat /\ cfg \in Configs /\ w_res[w] \in Nat
      /\ written_so_far[w] \in Nat
  BY DEF Geometry, TypeOK
<1>2. /\ chunk_offset[w] < cfg.total_bytes
      /\ chunk_offset[w] + chunk_size <= next_chunk_offset
      /\ chunk_done[w] <= ChunkLen(w)
  BY DEF Geometry, ClaimShape, BlockShape
<1>3. CASE pc[w] \in {"write", "count"}
  BY <1>1, <1>2, <1>3, BlockBounds, ConfigTypes
     DEF Progress, Position, End, ChunkLen, Least, Uncounted
<1>4. CASE pc[w] = "block"
  BY <1>1, <1>2, <1>4, ConfigTypes DEF Progress, Position, End, ChunkLen, Least, Uncounted
<1>5. QED
  BY <1>3, <1>4 DEF Copying

\* No position belongs to two chunks.
LEMMA NoOverlap ==
  ASSUME Geometry, NEW w \in Workers, NEW v \in Workers \ {w}, Copying(v), Copying(w),
         NEW p \in Nat, chunk_offset[v] < p, p <= End(v), chunk_offset[w] < p, p <= End(w)
  PROVE  FALSE
<1>1. /\ chunk_offset[v] \in Nat /\ chunk_offset[w] \in Nat /\ chunk_size \in Nat
      /\ End(v) \in Nat /\ End(v) <= chunk_offset[v] + chunk_size
      /\ End(w) \in Nat /\ End(w) <= chunk_offset[w] + chunk_size
  BY Extent DEF Geometry, TypeOK
<1>2. \/ chunk_offset[v] + chunk_size <= chunk_offset[w]
      \/ chunk_offset[w] + chunk_size <= chunk_offset[v]
  BY DEF Geometry, ClaimShape
<1>3. QED
  BY <1>1, <1>2

LEMMA OthersKeep ==
  ASSUME Geometry, NEW w \in Workers, Worker(w) \/ SpawnWorker(w), NEW v \in Workers \ {w}
  PROVE  /\ Copying(v)' <=> Copying(v)
         /\ Uncounted(v)' = Uncounted(v)
         /\ \A p : Ahead(v, p)' <=> Ahead(v, p)
BY OwnPart DEF Geometry, Copying, Uncounted, Ahead, Progress, Position, End, ChunkLen

\* The workers' steps that put bytes into the output.
Lands(w, n) ==
  /\ pc[w] = "write" /\ n \in 0..(buffered[w] - written_so_far[w])
  /\ out' = Written(w, n)
  /\ \/ pc'[w] = "count" /\ w_res'[w] = n /\ n > 0
        /\ UNCHANGED <<chunk_offset, chunk_done, written_so_far>>
     \/ pc'[w] = "top" /\ abort_requested

LEMMA WhoLands ==
  ASSUME Geometry, NEW w \in Workers, Worker(w) \/ SpawnWorker(w)
  PROVE  out' = out \/ \E n \in Nat : Lands(w, n)
<1> USE DEF Geometry, TypeOK, GoTo, shared_vars, main_vars
<1>1. CASE WorkerWrites(w)
  BY <1>1 DEF WorkerWrites, Lands
<1>2. CASE WorkerAbandonsWrite(w)
  BY <1>2 DEF WorkerAbandonsWrite, Lands
<1>3. CASE ~WorkerWrites(w) /\ ~WorkerAbandonsWrite(w)
  BY <1>3 DEF Worker, WorkerClaims, WorkerSeesAbort, WorkerLeavesChunk, WorkerWritesNothing,
              WorkerReads,
              WorkerFails, WorkerStoresError, WorkerCounts, WorkerLeaves, SpawnWorker
<1>4. QED
  BY <1>1, <1>2, <1>3

\* The bytes that land are the next ones ahead of the worker.
LEMMA LandedAt ==
  ASSUME Geometry, NEW w \in Workers, NEW n \in Nat, Lands(w, n)
  PROVE  /\ Copying(w) /\ Progress(w) + n <= End(w)
         /\ Uncounted(w) = {}
         /\ DOMAIN out' = DOMAIN out
         /\ \A p \in DOMAIN out :
              out'[p] = IF Progress(w) < p /\ p <= Progress(w) + n THEN p ELSE out[p]
<1>1. pc[w] = "write"
  BY DEF Lands
<1>2. /\ Progress(w) = Position(w) + written_so_far[w]
      /\ Progress(w) \in Nat
  BY <1>1, Extent, BlockBounds DEF Progress, Copying
<1>3. Progress(w) + n <= End(w)
  BY <1>1, <1>2, BlockBounds DEF Lands
<1>4. out \in [1..cfg.total_bytes -> Nat] /\ cfg.total_bytes \in Nat
  BY ConfigTypes DEF Geometry, TypeOK
<1>5. \A p \in DOMAIN out :
        p \in Progress(w) + 1 .. Progress(w) + n <=> Progress(w) < p /\ p <= Progress(w) + n
  BY <1>2, <1>4
<1>6. QED
  BY <1>1, <1>2, <1>3, <1>4, <1>5 DEF Lands, Written, Copying, Uncounted

LEMMA InPlaceStep ==
  ASSUME Geometry, InPlace, NEW w \in Workers, Worker(w) \/ SpawnWorker(w)
  PROVE  InPlace'
<1>1. CASE out' = out
  BY <1>1 DEF InPlace
<1>2. ASSUME NEW n \in Nat, Lands(w, n)
      PROVE  InPlace'
  BY <1>2, LandedAt DEF InPlace
<1>3. QED
  BY <1>1, <1>2, WhoLands

\* A worker that is copying after its step has claimed a chunk, has gone on
\* without touching the output, or has put the next bytes there.
Claimed(w) ==
  /\ ~Copying(w) /\ ~abort_requested /\ next_chunk_offset < cfg.total_bytes
  /\ next_chunk_offset' = next_chunk_offset + chunk_size
  /\ Progress(w)' = next_chunk_offset
  /\ End(w)' = Least(next_chunk_offset', cfg.total_bytes)
  /\ pc'[w] = "block" /\ UNCHANGED out

WentOn(w) ==
  /\ Copying(w) /\ UNCHANGED <<next_chunk_offset, out>>
  /\ Progress(w)' = Progress(w) /\ End(w)' = End(w)

Copied(w, n) ==
  /\ Lands(w, n) /\ pc'[w] = "count" /\ UNCHANGED next_chunk_offset
  /\ Progress(w)' = Progress(w) + n /\ End(w)' = End(w)

LEMMA Advance ==
  ASSUME Geometry, NEW w \in Workers, Worker(w) \/ SpawnWorker(w), Copying(w)'
  PROVE  Claimed(w) \/ WentOn(w) \/ \E n \in Nat : Copied(w, n)
<1>0. /\ chunk_offset[w] \in Nat /\ chunk_done[w] \in Nat /\ chunk_size \in Nat
      /\ next_chunk_offset \in Nat /\ cfg \in Configs /\ w_res[w] \in Nat
      /\ written_so_far[w] \in Nat /\ buffered[w] \in Nat /\ cfg.total_bytes \in Nat
  BY ConfigTypes DEF Geometry, TypeOK
<1> USE DEF Progress, End, Position, ChunkLen, Copying
<1>1. CASE WorkerClaims(w)
  <2>1. /\ ~(next_chunk_offset >= cfg.total_bytes) /\ pc[w] = "top" /\ pc'[w] = "block"
        /\ ~abort_requested /\ UNCHANGED <<cfg, chunk_size, out>>
        /\ next_chunk_offset' = next_chunk_offset + chunk_size
        /\ chunk_offset'[w] = next_chunk_offset /\ chunk_done'[w] = 0
    BY <1>1 DEF WorkerClaims, GoTo, Geometry, TypeOK
  <2>2. QED
    BY <1>0, <2>1 DEF Claimed, Least
<1>2. CASE WorkerReads(w)
  <2>1. /\ pc[w] = "block" /\ pc'[w] = "write" /\ written_so_far'[w] = 0
        /\ UNCHANGED <<cfg, chunk_size, next_chunk_offset, chunk_offset, chunk_done, out>>
    BY <1>2 DEF WorkerReads, GoTo, Geometry, TypeOK, shared_vars
  <2>2. QED
    BY <1>0, <2>1 DEF WentOn
<1>3. CASE WorkerWrites(w)
  <2>1. PICK n \in 1..(buffered[w] - written_so_far[w]) :
          out' = Written(w, n) /\ w_res' = [w_res EXCEPT ![w] = n]
    BY <1>3 DEF WorkerWrites
  <2>2. /\ pc[w] = "write" /\ pc'[w] = "count" /\ w_res'[w] = n
        /\ UNCHANGED <<cfg, chunk_size, next_chunk_offset, chunk_offset, chunk_done,
                       written_so_far>>
    BY <1>3, <2>1 DEF WorkerWrites, GoTo, Geometry, TypeOK, shared_vars
  <2>3. Lands(w, n) /\ n \in Nat
    BY <1>0, <2>1, <2>2 DEF Lands
  <2>4. Progress(w)' = Progress(w) + n /\ End(w)' = End(w)
    BY <1>0, <2>1, <2>2
  <2>5. QED
    BY <2>2, <2>3, <2>4 DEF Copied
<1>4. CASE WorkerCounts(w)
  <2>1. /\ pc[w] = "count" /\ UNCHANGED <<cfg, chunk_size, next_chunk_offset, chunk_offset, out>>
        /\ written_so_far'[w] = written_so_far[w] + w_res[w]
        /\ written_so_far[w] + w_res[w] <= buffered[w]
    BY <1>4, BlockBounds DEF WorkerCounts, GoTo, Geometry, TypeOK
  <2>2. CASE written_so_far'[w] < buffered[w]
    <3>1. pc'[w] = "write" /\ UNCHANGED chunk_done
      BY <1>4, <2>2 DEF WorkerCounts, GoTo, Geometry, TypeOK
    <3>2. QED
      BY <1>0, <2>1, <3>1 DEF WentOn
  <2>3. CASE ~(written_so_far'[w] < buffered[w])
    <3>1. pc'[w] \in {"top", "block"} /\ chunk_done'[w] = chunk_done[w] + buffered[w]
      BY <1>4, <2>3 DEF WorkerCounts, GoTo, Geometry, TypeOK
    <3>2. QED
      BY <1>0, <2>1, <2>3, <3>1 DEF WentOn
  <2>4. QED
    BY <2>2, <2>3
<1>5. CASE WorkerSeesAbort(w) \/ WorkerLeavesChunk(w) \/ WorkerWritesNothing(w)
            \/ WorkerFails(w) \/ WorkerStoresError(w)
           \/ WorkerAbandonsWrite(w) \/ WorkerLeaves(w) \/ SpawnWorker(w)
  BY <1>5 DEF WorkerSeesAbort, WorkerLeavesChunk, WorkerWritesNothing,
              WorkerFails, WorkerStoresError,
              WorkerAbandonsWrite, WorkerLeaves, SpawnWorker, GoTo, Geometry, TypeOK
<1>6. QED
  BY <1>1, <1>2, <1>3, <1>4, <1>5 DEF Worker

LEMMA NextOffset ==
  ASSUME Geometry, NEW w \in Workers, Worker(w) \/ SpawnWorker(w)
  PROVE  /\ next_chunk_offset' \in {next_chunk_offset, next_chunk_offset + chunk_size}
         /\ next_chunk_offset' # next_chunk_offset /\ next_chunk_offset < cfg.total_bytes =>
              Claimed(w)
<1>1. CASE WorkerClaims(w) /\ next_chunk_offset < cfg.total_bytes
  <2>1. Copying(w)'
    BY <1>1, ConfigTypes DEF WorkerClaims, GoTo, Copying, Geometry, TypeOK
  <2>2. next_chunk_offset' = next_chunk_offset + chunk_size /\ pc[w] = "top"
    BY <1>1 DEF WorkerClaims
  <2>3. QED
    BY <2>1, <2>2, Advance, OwnPart DEF Lands, WentOn, Copied, Copying
<1>2. CASE WorkerClaims(w) /\ ~(next_chunk_offset < cfg.total_bytes)
  BY <1>2 DEF WorkerClaims
<1>3. CASE ~WorkerClaims(w)
  BY <1>3 DEF Worker, WorkerSeesAbort, WorkerLeavesChunk, WorkerWritesNothing,
              WorkerReads, WorkerWrites,
              WorkerAbandonsWrite, WorkerFails, WorkerStoresError, WorkerCounts,
              WorkerLeaves, SpawnWorker, shared_vars
<1>4. QED
  BY <1>1, <1>2, <1>3

LEMMA FreshStep ==
  ASSUME Geometry, Fresh, NEW w \in Workers, Worker(w) \/ SpawnWorker(w)
  PROVE  Fresh'
<1>0. /\ chunk_size \in Nat /\ next_chunk_offset \in Nat /\ cfg.total_bytes \in Nat
      /\ DOMAIN out = 1..cfg.total_bytes /\ DOMAIN out' = DOMAIN out
  BY ConfigTypes, TypeStep, OwnPart DEF Geometry, TypeOK
<1>1. next_chunk_offset' \in Nat /\ next_chunk_offset' >= next_chunk_offset
  BY <1>0, NextOffset
<1>2. ASSUME NEW p \in DOMAIN out, p > next_chunk_offset' \/ \E v \in Workers : Ahead(v, p)'
      PROVE  /\ p > next_chunk_offset \/ \E v \in Workers : Ahead(v, p)
             /\ \A n \in Nat : Lands(w, n) => ~(Progress(w) < p /\ p <= Progress(w) + n)
  <2>1. CASE p > next_chunk_offset'
    <3>1. p > next_chunk_offset
      BY <1>0, <1>1, <2>1
    <3>2. ASSUME NEW n \in Nat, Lands(w, n)
          PROVE  ~(Progress(w) < p /\ p <= Progress(w) + n)
      <4>1. Copying(w) /\ Progress(w) + n <= End(w) /\ End(w) <= next_chunk_offset
            /\ End(w) \in Nat /\ Progress(w) \in Nat
        BY <3>2, LandedAt, Extent
      <4>2. QED
        BY <1>0, <3>1, <4>1
    <3>3. QED
      BY <3>1, <3>2
  <2>2. CASE Ahead(w, p)'
    <3>1. Copying(w)' /\ Progress(w)' < p /\ p <= End(w)'
      BY <2>2 DEF Ahead
    <3>2. CASE Claimed(w)
      BY <3>1, <3>2, <1>0 DEF Claimed, Lands, Copying
    <3>3. CASE WentOn(w)
      <4>1. Ahead(w, p)
        BY <3>1, <3>3 DEF WentOn, Ahead
      <4>2. ASSUME NEW n \in Nat, Lands(w, n), Progress(w) < p, p <= Progress(w) + n
            PROVE  FALSE
        <5>1. out'[p] = p /\ out[p] = 0
          BY <4>1, <4>2, LandedAt DEF Fresh
        <5>2. QED
          BY <1>0, <5>1, <3>3 DEF WentOn
      <4>3. QED
        BY <4>1, <4>2
    <3>4. ASSUME NEW m \in Nat, Copied(w, m)
          PROVE  /\ Ahead(w, p)
                 /\ \A n \in Nat : Lands(w, n) => ~(Progress(w) < p /\ p <= Progress(w) + n)
      <4>0. Copying(w) /\ Progress(w) \in Nat /\ End(w) \in Nat
        BY <3>4, LandedAt, Extent DEF Copied
      <4>1. Ahead(w, p)
        BY <1>0, <3>1, <3>4, <4>0 DEF Copied, Ahead
      <4>2. ASSUME NEW n \in Nat, Lands(w, n), Progress(w) < p, p <= Progress(w) + n
            PROVE  FALSE
        <5>1. out'[p] = p /\ out[p] = 0
          BY <4>1, <4>2, LandedAt DEF Fresh
        <5>2. out'[p] = IF Progress(w) < p /\ p <= Progress(w) + m THEN p ELSE out[p]
          BY <3>4, LandedAt DEF Copied
        <5>3. QED
          BY <1>0, <3>1, <3>4, <4>0, <5>1, <5>2 DEF Copied
      <4>3. QED
        BY <4>1, <4>2
    <3>5. QED
      BY <3>1, <3>2, <3>3, <3>4, Advance, <1>0 DEF Claimed
  <2>3. ASSUME NEW v \in Workers \ {w}, Ahead(v, p)'
        PROVE  /\ Ahead(v, p)
               /\ \A n \in Nat : Lands(w, n) => ~(Progress(w) < p /\ p <= Progress(w) + n)
    <3>1. Ahead(v, p)
      BY <2>3, OthersKeep
    <3>2. ASSUME NEW n \in Nat, Lands(w, n), Progress(w) < p, p <= Progress(w) + n
          PROVE  FALSE
      <4>1. /\ Copying(w) /\ Progress(w) + n <= End(w) /\ chunk_offset[w] <= Progress(w)
            /\ chunk_offset[w] \in Nat /\ Progress(w) \in Nat /\ End(w) \in Nat
        BY <3>2, LandedAt, Extent
      <4>2. /\ Copying(v) /\ Progress(v) < p /\ p <= End(v)
            /\ chunk_offset[v] <= Progress(v) /\ chunk_offset[v] \in Nat /\ Progress(v) \in Nat
        BY <3>1, Extent DEF Ahead
      <4>3. p \in Nat /\ chunk_offset[v] < p /\ chunk_offset[w] < p /\ p <= End(w)
        BY <1>0, <3>2, <4>1, <4>2
      <4>4. QED
        BY <4>1, <4>2, <4>3, NoOverlap
    <3>3. QED
      BY <3>1, <3>2
  <2>4. QED
    BY <1>2, <2>1, <2>2, <2>3
<1>3. ASSUME NEW p \in DOMAIN out, p > next_chunk_offset' \/ \E v \in Workers : Ahead(v, p)'
      PROVE  out'[p] = 0
  <2>1. out[p] = 0
    BY <1>2, <1>3 DEF Fresh
  <2>2. CASE out' = out
    BY <2>1, <2>2
  <2>3. ASSUME NEW n \in Nat, Lands(w, n)
        PROVE  out'[p] = 0
    BY <1>2, <1>3, <2>1, <2>3, LandedAt
  <2>4. QED
    BY <2>2, <2>3, WhoLands
<1>4. QED
  BY <1>0, <1>3 DEF Fresh


\* A step of w changes its uncounted bytes only by landing or counting them.
LEMMA UncountedChange ==
  ASSUME Geometry, NEW w \in Workers, Worker(w) \/ SpawnWorker(w)
  PROVE  \/ /\ Uncounted(w)' = {} /\ Uncounted(w) = {} /\ bytes_written' = bytes_written
            /\ out' = out \/ (abort_requested /\ \E n \in Nat : Lands(w, n))
         \/ /\ Uncounted(w) = {} /\ bytes_written' = bytes_written
            /\ \E n \in Nat : /\ Lands(w, n)
                              /\ Uncounted(w)' = Progress(w) + 1 .. Progress(w) + n
         \/ /\ pc[w] = "count" /\ Uncounted(w)' = {}
            /\ out' = out /\ bytes_written' = bytes_written + w_res[w]
<1>0. /\ chunk_offset[w] \in Nat /\ chunk_done[w] \in Nat
      /\ w_res[w] \in Nat /\ written_so_far[w] \in Nat /\ buffered[w] \in Nat
  BY DEF Geometry, TypeOK
<1>1. CASE WorkerWrites(w)
  <2>1. PICK n \in 1..(buffered[w] - written_so_far[w]) :
          out' = Written(w, n) /\ w_res' = [w_res EXCEPT ![w] = n]
    BY <1>1 DEF WorkerWrites
  <2>2. /\ pc[w] = "write" /\ pc'[w] = "count" /\ w_res'[w] = n
        /\ UNCHANGED <<cfg, bytes_written, chunk_offset, chunk_done, written_so_far>>
    BY <1>1, <2>1 DEF WorkerWrites, GoTo, Geometry, TypeOK, shared_vars
  <2>3. Lands(w, n) /\ n \in Nat
    BY <1>0, <2>1, <2>2 DEF Lands
  <2>4. Uncounted(w)' = Progress(w) + 1 .. Progress(w) + n /\ Uncounted(w) = {}
    BY <1>0, <2>2 DEF Uncounted, Progress, Position
  <2>5. QED
    BY <2>2, <2>3, <2>4
<1>2. CASE WorkerAbandonsWrite(w)
  <2>1. /\ pc[w] = "write" /\ pc'[w] = "top" /\ abort_requested
        /\ bytes_written' = bytes_written
    BY <1>2 DEF WorkerAbandonsWrite, GoTo, Geometry, TypeOK, shared_vars
  <2>2. \E n \in Nat : Lands(w, n)
    BY <1>0, <1>2, <2>1 DEF WorkerAbandonsWrite, Lands
  <2>3. QED
    BY <2>1, <2>2 DEF Uncounted
<1>3. CASE WorkerCounts(w)
  BY <1>3 DEF WorkerCounts, GoTo, Geometry, TypeOK, Uncounted
<1>4. CASE WorkerClaims(w) \/ WorkerReads(w)
  <2>1. pc[w] # "count" /\ pc'[w] # "count" /\ UNCHANGED <<bytes_written, out>>
    BY <1>4 DEF WorkerClaims, WorkerReads, GoTo, Geometry, TypeOK, shared_vars
  <2>2. Uncounted(w) = {} /\ Uncounted(w)' = {}
    BY <2>1 DEF Uncounted
  <2>3. QED
    BY <2>1, <2>2
<1>5. CASE WorkerSeesAbort(w) \/ WorkerLeavesChunk(w) \/ WorkerWritesNothing(w)
            \/ WorkerFails(w) \/ WorkerStoresError(w)
           \/ WorkerLeaves(w) \/ SpawnWorker(w)
  <2>1. pc[w] # "count" /\ pc'[w] # "count" /\ UNCHANGED <<bytes_written, out>>
    BY <1>5 DEF WorkerSeesAbort, WorkerLeavesChunk, WorkerWritesNothing,
                WorkerFails, WorkerStoresError,
                WorkerLeaves, SpawnWorker, GoTo, Geometry, TypeOK, shared_vars
  <2>2. Uncounted(w) = {} /\ Uncounted(w)' = {}
    BY <2>1 DEF Uncounted
  <2>3. QED
    BY <2>1, <2>2
<1>6. QED
  BY <1>1, <1>2, <1>3, <1>4, <1>5 DEF Worker

LEMMA LandedGrows ==
  ASSUME Geometry, NEW w \in Workers, Worker(w) \/ SpawnWorker(w)
  PROVE  /\ Landed \subseteq Landed'
         /\ \A n \in Nat : Lands(w, n) =>
              Landed' = Landed \cup (Progress(w) + 1 .. Progress(w) + n)
<1>0. DOMAIN out = 1..cfg.total_bytes /\ cfg.total_bytes \in Nat
  BY ConfigTypes DEF Geometry, TypeOK
<1>1. ASSUME NEW n \in Nat, Lands(w, n)
      PROVE  Landed' = Landed \cup (Progress(w) + 1 .. Progress(w) + n)
  <2>1. /\ Progress(w) \in Nat /\ End(w) \in Nat /\ Progress(w) + n <= End(w)
        /\ End(w) <= cfg.total_bytes
    BY <1>1, LandedAt, Extent
  <2>2. Progress(w) + 1 .. Progress(w) + n \subseteq DOMAIN out
    BY <1>0, <2>1
  <2>3. /\ DOMAIN out' = DOMAIN out
        /\ \A p \in DOMAIN out :
             out'[p] = IF p \in Progress(w) + 1 .. Progress(w) + n THEN p ELSE out[p]
    BY <1>0, <1>1, <2>1, LandedAt
  <2>4. QED
    BY <1>0, <2>2, <2>3 DEF Landed
<1>2. Landed \subseteq Landed'
  <2>1. out' = out => Landed' = Landed
    BY DEF Landed
  <2>2. QED
    BY <1>1, <2>1, WhoLands
<1>3. QED
  BY <1>1, <1>2

\* What lands is part of the block, which is part of the input.
LEMMA LandsInside ==
  ASSUME Geometry, NEW w \in Workers, NEW n \in Nat, Lands(w, n)
  PROVE  /\ Progress(w) \in Nat /\ cfg.source \in Nat /\ cfg.total_bytes \in Nat
         /\ Progress(w) + n <= cfg.source /\ Progress(w) + n <= cfg.total_bytes
<1>1. /\ pc[w] = "write" /\ n <= buffered[w] - written_so_far[w]
      /\ cfg.source \in Nat /\ cfg.total_bytes \in Nat
  BY SMTT(30), ConfigTypes, BlockBounds DEF Lands, Geometry, TypeOK
<1>2. /\ Progress(w) = Position(w) + written_so_far[w]
      /\ Progress(w) \in Nat /\ Progress(w) + n <= End(w) /\ End(w) <= cfg.total_bytes
      /\ End(w) \in Nat
  BY <1>1, BlockBounds, LandedAt, Extent DEF Progress, Copying
<1>3. /\ Position(w) + buffered[w] <= cfg.source /\ buffered[w] \in Nat
      /\ written_so_far[w] \in Nat /\ Position(w) \in Nat
  BY <1>1, BlockBounds
<1>4. QED
  BY <1>1, <1>2, <1>3

LEMMA InsideStep ==
  ASSUME Geometry, Inside, NEW w \in Workers, Worker(w) \/ SpawnWorker(w)
  PROVE  Inside'
<1>1. cfg' = cfg /\ cfg.source \in Nat
  BY OwnPart, ConfigTypes DEF Geometry, TypeOK
<1>2. CASE out' = out
  BY <1>1, <1>2 DEF Inside, Landed
<1>3. ASSUME NEW n \in Nat, Lands(w, n)
      PROVE  Inside'
  <2>1. Landed' = Landed \cup (Progress(w) + 1 .. Progress(w) + n)
    BY <1>3, LandedGrows
  <2>2. Progress(w) \in Nat /\ Progress(w) + n <= cfg.source
    BY <1>3, LandsInside
  <2>3. Progress(w) + 1 .. Progress(w) + n \subseteq 1..cfg.source
    BY <1>1, <2>2
  <2>4. QED
    BY <1>1, <2>1, <2>3 DEF Inside
<1>4. QED
  BY <1>2, <1>3, WhoLands

LEMMA UncountedLandedStep ==
  ASSUME Geometry, UncountedLanded, NEW w \in Workers, Worker(w) \/ SpawnWorker(w)
  PROVE  UncountedLanded'
<1>1. ASSUME NEW v \in Workers \ {w}
      PROVE  Uncounted(v)' \subseteq Landed'
  BY <1>1, OthersKeep, LandedGrows DEF UncountedLanded
<1>2. Uncounted(w)' \subseteq Landed'
  BY UncountedChange, LandedGrows
<1>3. QED
  BY <1>1, <1>2 DEF UncountedLanded

\* The uncounted bytes of two workers are different ones.
LEMMA UncountedApart ==
  ASSUME Geometry, NEW w \in Workers, NEW v \in Workers \ {w}
  PROVE  Uncounted(v) \cap Uncounted(w) = {}
<1>1. ASSUME NEW p \in Uncounted(v), p \in Uncounted(w)
      PROVE  FALSE
  <2>1. Copying(v) /\ Copying(w)
    BY <1>1 DEF Uncounted, Copying
  <2>2. /\ p \in Nat /\ chunk_offset[v] < p /\ p <= Progress(v)
        /\ Progress(v) <= End(v) /\ Progress(v) \in Nat /\ End(v) \in Nat
        /\ chunk_offset[w] < p /\ p <= Progress(w)
        /\ Progress(w) <= End(w) /\ Progress(w) \in Nat /\ End(w) \in Nat
    BY <1>1, <2>1, Extent
  <2>3. p <= End(v) /\ p <= End(w)
    BY <2>2
  <2>4. QED
    BY <2>1, <2>2, <2>3, NoOverlap
<1>2. QED
  BY <1>1

LEMMA FiniteBytes ==
  ASSUME NEW n \in Nat, NEW S, S \subseteq 1..n
  PROVE  IsFiniteSet(S) /\ Cardinality(S) \in Nat
<1>1. IsFiniteSet(1..n)
  BY FS_Interval, 1 \in Int, n \in Int
<1>2. QED
  BY <1>1, FS_Subset, FS_CardinalityType

LEMMA LandedFinite ==
  TypeOK => /\ IsFiniteSet(Landed) /\ IsFiniteSet(Landed \ Pending)
            /\ Cardinality(Landed) \in Nat /\ Cardinality(Landed \ Pending) \in Nat
<1> SUFFICES ASSUME TypeOK
             PROVE  /\ IsFiniteSet(Landed) /\ IsFiniteSet(Landed \ Pending)
                    /\ Cardinality(Landed) \in Nat /\ Cardinality(Landed \ Pending) \in Nat
  OBVIOUS
<1>1. cfg.total_bytes \in Nat /\ Landed \subseteq 1..cfg.total_bytes
  BY ConfigTypes DEF Landed, TypeOK
<1>2. Landed \ Pending \subseteq 1..cfg.total_bytes
  BY <1>1
<1>3. QED
  BY <1>1, <1>2, FiniteBytes

LEMMA CountedStep ==
  ASSUME Geometry, Data, NEW w \in Workers, Worker(w) \/ SpawnWorker(w)
  PROVE  Counted'
<1>0. /\ TypeOK /\ TypeOK' /\ bytes_written \in Nat
      /\ IsFiniteSet(Landed \ Pending) /\ Cardinality(Landed \ Pending) \in Nat
      /\ IsFiniteSet((Landed \ Pending)') /\ Cardinality((Landed \ Pending)') \in Nat
      /\ abort_requested => abort_requested'
  <2>1. TypeOK /\ TypeOK' /\ bytes_written \in Nat
    BY TypeStep DEF Geometry, TypeOK
  <2>2. abort_requested => abort_requested'
    BY DEF Worker, WorkerClaims, WorkerSeesAbort, WorkerLeavesChunk, WorkerWritesNothing,
           WorkerReads, WorkerWrites,
           WorkerAbandonsWrite, WorkerFails, WorkerStoresError, WorkerCounts, WorkerLeaves,
           SpawnWorker, shared_vars
  <2>3. IsFiniteSet((Landed \ Pending)') /\ Cardinality((Landed \ Pending)') \in Nat
    <3>1. cfg'.total_bytes \in Nat /\ Landed' \subseteq 1..cfg'.total_bytes
      BY <2>1, ConfigsAssumption DEF Landed, TypeOK, ConfigType
    <3>2. (Landed \ Pending)' \subseteq 1..cfg'.total_bytes
      BY <3>1
    <3>3. QED
      BY <3>1, <3>2, FiniteBytes
  <2>4. QED
    BY <2>1, <2>2, <2>3, LandedFinite
<1>1. \A v \in Workers \ {w} : Uncounted(v)' = Uncounted(v)
  BY OthersKeep
<1> DEFINE Others == UNION {Uncounted(v) : v \in Workers \ {w}}
<1>2. Pending = Others \cup Uncounted(w) /\ Pending' = Others \cup Uncounted(w)'
  BY <1>1 DEF Pending
<1>3. CASE /\ Uncounted(w)' = {} /\ Uncounted(w) = {} /\ bytes_written' = bytes_written
           /\ out' = out \/ (abort_requested /\ \E n \in Nat : Lands(w, n))
  <2>1. Pending' = Pending
    BY <1>2, <1>3
  <2>2. CASE out' = out
    BY <1>0, <1>3, <2>1, <2>2 DEF Data, Counted, Landed
  <2>3. CASE abort_requested
    <3>1. Landed \ Pending \subseteq (Landed \ Pending)'
      BY <2>1, LandedGrows
    <3>2. Cardinality(Landed \ Pending) <= Cardinality((Landed \ Pending)')
      BY <1>0, <3>1, FS_Subset
    <3>3. QED
      BY <1>0, <1>3, <2>3, <3>2 DEF Data, Counted
  <2>4. QED
    BY <1>3, <2>2, <2>3
<1>4. ASSUME Uncounted(w) = {}, bytes_written' = bytes_written,
             NEW n \in Nat, Lands(w, n), Uncounted(w)' = Progress(w) + 1 .. Progress(w) + n
      PROVE  Counted'
  <2>1. Landed' = Landed \cup Uncounted(w)'
    BY <1>4, LandedGrows
  <2>2. Landed \cap Uncounted(w)' = {}
    <3>1. ASSUME NEW p \in Landed, p \in Uncounted(w)'
          PROVE  FALSE
      <4>1. /\ Copying(w) /\ Progress(w) + n <= End(w)
            /\ Progress(w) \in Nat /\ End(w) \in Nat
        BY <1>4, LandedAt, Extent
      <4>2. Ahead(w, p)
        BY <1>4, <3>1, <4>1 DEF Ahead
      <4>3. QED
        BY <3>1, <4>2 DEF Data, Fresh, Landed
    <3>2. QED
      BY <3>1
  <2>3. (Landed \ Pending)' = Landed \ Pending
    BY <1>2, <1>4, <2>1, <2>2
  <2>4. QED
    BY <1>0, <1>4, <2>3 DEF Data, Counted
<1>5. CASE /\ pc[w] = "count" /\ Uncounted(w)' = {}
           /\ out' = out /\ bytes_written' = bytes_written + w_res[w]
  <2>1. /\ w_res[w] \in Nat /\ Position(w) \in Nat /\ written_so_far[w] \in Nat
        /\ Uncounted(w) = Position(w) + written_so_far[w] + 1 ..
                          Position(w) + written_so_far[w] + w_res[w]
    BY SMTT(30), <1>5, <1>0 DEF Uncounted, TypeOK, Position
  <2>2. IsFiniteSet(Uncounted(w)) /\ Cardinality(Uncounted(w)) = w_res[w]
    <3> DEFINE a == Position(w) + written_so_far[w] + 1
               b == Position(w) + written_so_far[w] + w_res[w]
    <3>1. a \in Int /\ b \in Int /\ (IF a > b THEN 0 ELSE b - a + 1) = w_res[w]
      BY <2>1
    <3>2. Uncounted(w) = a .. b
      BY <2>1
    <3> HIDE DEF a, b
    <3>3. QED
      BY <3>1, <3>2, FS_Interval
  <2>3. Uncounted(w) \cap Others = {}
    BY UncountedApart
  <2>4. (Landed \ Pending)' = (Landed \ Pending) \cup Uncounted(w)
    <3>1. Landed' = Landed /\ Uncounted(w) \subseteq Landed
      BY <1>5 DEF Landed, Data, UncountedLanded
    <3>2. QED
      BY <1>2, <1>5, <2>3, <3>1
  <2>5. (Landed \ Pending) \cap Uncounted(w) = {}
    BY <1>2
  <2>6. Cardinality((Landed \ Pending)') = Cardinality(Landed \ Pending) + w_res[w]
    <3>1. Cardinality((Landed \ Pending) \cup Uncounted(w)) =
            Cardinality(Landed \ Pending) + Cardinality(Uncounted(w))
            - Cardinality((Landed \ Pending) \cap Uncounted(w))
      BY <1>0, <2>2, FS_Union
    <3>2. Cardinality((Landed \ Pending) \cap Uncounted(w)) = 0
      BY <2>5, FS_EmptySet
    <3> HIDE DEF Others
    <3>3. Cardinality((Landed \ Pending)') = Cardinality((Landed \ Pending) \cup Uncounted(w))
      BY <2>4
    <3>4. Cardinality(Uncounted(w)) = w_res[w] /\ w_res[w] \in Nat
      BY <2>1, <2>2
    <3>5. QED
      BY <1>0, <3>1, <3>2, <3>3, <3>4
  <2>7. QED
    BY <1>0, <1>5, <2>1, <2>6 DEF Data, Counted
<1>6. QED
  BY <1>3, <1>4, <1>5, UncountedChange

LEMMA DataStep ==
  ASSUME Geometry, Data, [Next]_vars
  PROVE  Data'
<1>1. ASSUME NEW w \in Workers, Worker(w) \/ SpawnWorker(w)
      PROVE  Data'
  BY <1>1, InPlaceStep, FreshStep, UncountedLandedStep, CountedStep, InsideStep DEF Data
<1>2. CASE MainStep
  <2>1. /\ UNCHANGED <<cfg, chunk_size, next_chunk_offset, bytes_written, worker_vars, out>>
        /\ abort_requested => abort_requested'
    BY <1>2, MainQuiet DEF Geometry, TypeOK
  <2>2. /\ Landed' = Landed /\ Pending' = Pending
        /\ \A w \in Workers : Uncounted(w)' = Uncounted(w)
    BY <2>1 DEF Landed, Pending, Uncounted, Position, worker_vars
  <2>3. \A w \in Workers, p \in DOMAIN out : Ahead(w, p)' <=> Ahead(w, p)
    BY <2>1 DEF Ahead, Copying, Progress, Position, End, ChunkLen, worker_vars
  <2>4. InPlace' /\ Fresh'
    BY <2>1, <2>3 DEF Data, InPlace, Fresh
  <2>5. UncountedLanded' /\ Counted' /\ Inside'
    BY <2>1, <2>2 DEF Data, UncountedLanded, Counted, Inside
  <2>6. QED
    BY <2>4, <2>5 DEF Data
<1>3. QED
  BY <1>1, <1>2, Steps


------------------------------------------------------------------------------
(* Coverage: nothing that is claimed is forgotten                            *)

LEMMA AbortStays ==
  ASSUME Geometry, NEW w \in Workers, Worker(w) \/ SpawnWorker(w), abort_requested
  PROVE  abort_requested'
BY DEF Worker, WorkerClaims, WorkerSeesAbort, WorkerLeavesChunk, WorkerWritesNothing,
       WorkerReads, WorkerWrites,
       WorkerAbandonsWrite, WorkerFails, WorkerStoresError, WorkerCounts, WorkerLeaves,
       SpawnWorker, shared_vars

\* Without an abort, and where short reads mean the end, a worker only stops
\* copying at the end of its chunk or of the input.
LEMMA StopsAtEnd ==
  ASSUME Geometry, NEW w \in Workers, Worker(w) \/ SpawnWorker(w),
         Copying(w), ~Copying(w)', ~abort_requested', Exact
  PROVE  Progress(w) >= End(w) \/ Progress(w) >= cfg.source
<1>0. /\ chunk_offset[w] \in Nat /\ chunk_done[w] \in Nat /\ chunk_size \in Nat \ {0}
      /\ cfg.blocksize \in Nat \ {0} /\ cfg.source \in Nat /\ cfg.total_bytes \in Nat
      /\ w_res[w] \in Nat /\ written_so_far[w] \in Nat /\ buffered[w] \in Nat
      /\ ~abort_requested
  BY ConfigTypes, AbortStays DEF Geometry, TypeOK
<1> USE DEF Progress, End, Position, Copying
<1>1. CASE WorkerLeavesChunk(w)
  <2>1. pc[w] = "block" /\ chunk_done[w] >= ChunkLen(w)
    BY <1>0, <1>1 DEF WorkerLeavesChunk
  <2>2. QED
    BY <1>0, <2>1 DEF ChunkLen, Least
<1>2. CASE WorkerReads(w)
  <2>1. PICK n \in Nat : Delivers(w, n)
    BY <1>2, ReadDelivers DEF Geometry
  <2>2. n = 0 /\ pc[w] = "block"
    BY <2>1 DEF Delivers, Geometry, TypeOK
  <2>3. QED
    BY <1>0, <2>1, <2>2 DEF Delivers
<1>3. CASE WorkerCounts(w)
  <2>1. /\ pc[w] = "count" /\ ~(written_so_far[w] + w_res[w] < buffered[w])
        /\ buffered[w] < CurLen(w)
    BY <1>3 DEF WorkerCounts, GoTo, Geometry, TypeOK
  <2>2. Position(w) + buffered[w] = cfg.source
    BY <2>1, BlockBounds
  <2>3. QED
    BY <1>0, <2>1, <2>2
<1>4. CASE WorkerWrites(w)
  BY <1>4 DEF WorkerWrites, GoTo, Geometry, TypeOK
<1>5. CASE WorkerFails(w) \/ WorkerAbandonsWrite(w) \/ WorkerWritesNothing(w)
  BY <1>0, <1>5 DEF WorkerFails, WorkerAbandonsWrite, WorkerWritesNothing
<1>6. CASE WorkerClaims(w) \/ WorkerSeesAbort(w) \/ WorkerStoresError(w) \/ WorkerLeaves(w)
           \/ SpawnWorker(w)
  BY <1>6 DEF WorkerClaims, WorkerSeesAbort, WorkerStoresError, WorkerLeaves, SpawnWorker
<1>7. QED
  BY <1>1, <1>2, <1>3, <1>4, <1>5, <1>6 DEF Worker

\* A byte that is in the output stays there.
LEMMA OutputStays ==
  ASSUME Geometry, NEW w \in Workers, Worker(w) \/ SpawnWorker(w), NEW p \in DOMAIN out,
         out[p] = p
  PROVE  out'[p] = p
BY WhoLands, LandedAt

\* Nobody leaves before everything is claimed, except after an abort.
LEMMA LeavesLast ==
  ASSUME Geometry, NEW w \in Workers, Worker(w) \/ SpawnWorker(w), ~abort_requested',
         pc'[w] \in {"leave", "gone"}
  PROVE  pc[w] \in {"leave", "gone"} \/ next_chunk_offset >= cfg.total_bytes
<1>0. ~abort_requested
  BY AbortStays
<1>1. CASE WorkerClaims(w)
  BY <1>1 DEF WorkerClaims, GoTo, Geometry, TypeOK
<1>2. CASE WorkerSeesAbort(w) \/ WorkerLeaves(w)
  BY <1>0, <1>2 DEF WorkerSeesAbort, WorkerLeaves
<1>3. CASE WorkerCounts(w) \/ WorkerReads(w)
  BY <1>3 DEF WorkerCounts, WorkerReads, GoTo, Geometry, TypeOK
<1>4. CASE WorkerLeavesChunk(w) \/ WorkerWritesNothing(w)
            \/ WorkerFails(w) \/ WorkerStoresError(w) \/ WorkerWrites(w)
           \/ WorkerAbandonsWrite(w) \/ SpawnWorker(w)
  BY <1>4 DEF WorkerLeavesChunk, WorkerWritesNothing, WorkerFails, WorkerStoresError, WorkerWrites,
              WorkerAbandonsWrite, SpawnWorker, GoTo, Geometry, TypeOK
<1>5. QED
  BY <1>1, <1>2, <1>3, <1>4 DEF Worker

LEMMA CoverageStep ==
  ASSUME Geometry, Coverage, NEW w \in Workers, Worker(w) \/ SpawnWorker(w)
  PROVE  Coverage'
<1> SUFFICES ASSUME ~abort_requested'
             PROVE  /\ Exact' =>
                         \A p \in Wanted' : p <= next_chunk_offset' =>
                           out'[p] = p \/ \E v \in Workers : Ahead(v, p)'
                    /\ (\E v \in Workers : pc'[v] \in {"leave", "gone"}) =>
                         next_chunk_offset' >= cfg'.total_bytes
  BY DEF Coverage
<1>0. /\ chunk_size \in Nat /\ next_chunk_offset \in Nat /\ cfg.total_bytes \in Nat
      /\ cfg.source \in Nat /\ DOMAIN out = 1..cfg.total_bytes
      /\ cfg' = cfg /\ ~abort_requested
      /\ Wanted' = Wanted /\ Wanted \subseteq DOMAIN out
  <2>1. /\ chunk_size \in Nat /\ next_chunk_offset \in Nat /\ cfg.total_bytes \in Nat
        /\ cfg.source \in Nat /\ DOMAIN out = 1..cfg.total_bytes
    BY ConfigTypes DEF Geometry, TypeOK
  <2>2. cfg' = cfg /\ ~abort_requested
    BY OwnPart, AbortStays DEF Geometry
  <2>3. QED
    BY <2>1, <2>2 DEF Wanted, Least
<1>1. next_chunk_offset' \in Nat /\ next_chunk_offset' >= next_chunk_offset
  BY <1>0, NextOffset
<1>2. ASSUME Exact, NEW p \in Wanted, p <= next_chunk_offset'
      PROVE  out'[p] = p \/ \E v \in Workers : Ahead(v, p)'
  <2>0. p \in DOMAIN out /\ p \in Nat /\ p <= cfg.source /\ p <= cfg.total_bytes
    BY <1>0 DEF Wanted, Least
  <2>1. CASE out[p] = p
    BY <2>0, <2>1, OutputStays
  <2>2. ASSUME NEW v \in Workers \ {w}, Ahead(v, p)
        PROVE  Ahead(v, p)'
    BY <2>2, OthersKeep
  <2>3. CASE Ahead(w, p)
    <3>1. /\ Copying(w) /\ Progress(w) < p /\ p <= End(w)
          /\ Progress(w) \in Nat /\ End(w) \in Nat
      BY <2>3, Extent DEF Ahead
    <3>2. Copying(w)'
      BY <1>0, <1>2, <2>0, <3>1, StopsAtEnd
    <3>3. CASE WentOn(w)
      BY <2>3, <3>2, <3>3 DEF WentOn, Ahead
    <3>4. ASSUME NEW n \in Nat, Copied(w, n)
          PROVE  out'[p] = p \/ Ahead(w, p)'
      <4>1. out'[p] = IF Progress(w) < p /\ p <= Progress(w) + n THEN p ELSE out[p]
        BY <2>0, <3>4, LandedAt DEF Copied
      <4>2. CASE p <= Progress(w) + n
        BY <3>1, <4>1, <4>2
      <4>3. CASE ~(p <= Progress(w) + n)
        BY <2>0, <3>1, <3>2, <3>4, <4>3 DEF Copied, Ahead
      <4>4. QED
        BY <4>2, <4>3
    <3>5. QED
      BY <3>1, <3>2, <3>3, <3>4, Advance DEF Claimed
  <2>4. CASE p > next_chunk_offset
    <3>1. Claimed(w)
      BY <1>0, <1>1, <1>2, <2>0, <2>4, NextOffset
    <3>2. Copying(w)' /\ Progress(w)' < p /\ p <= End(w)'
      BY <1>0, <1>1, <1>2, <2>0, <2>4, <3>1 DEF Claimed, Copying, Least
    <3>3. QED
      BY <3>2 DEF Ahead
  <2>5. QED
    BY <1>0, <1>2, <2>0, <2>1, <2>2, <2>3, <2>4 DEF Coverage
<1>3. ASSUME NEW v \in Workers, pc'[v] \in {"leave", "gone"}
      PROVE  next_chunk_offset' >= cfg'.total_bytes
  <2>1. next_chunk_offset >= cfg.total_bytes
    <3>1. CASE v = w
      BY <1>0, <1>3, <3>1, LeavesLast DEF Coverage
    <3>2. CASE v # w
      <4>1. pc'[v] = pc[v]
        BY <3>2, OwnPart DEF Geometry
      <4>2. QED
        BY <1>0, <1>3, <4>1 DEF Coverage
    <3>3. QED
      BY <3>1, <3>2
  <2>2. QED
    BY <1>0, <1>1, <2>1
<1>4. QED
  BY <1>0, <1>2, <1>3

LEMMA CoverageQuiet ==
  ASSUME Geometry, Coverage, MainStep
  PROVE  Coverage'
<1>1. /\ UNCHANGED <<cfg, chunk_size, next_chunk_offset, worker_vars, out>>
      /\ abort_requested => abort_requested'
  BY MainQuiet DEF Geometry, TypeOK
<1>2. \A w \in Workers : \A p : Ahead(w, p)' <=> Ahead(w, p)
  BY <1>1 DEF Ahead, Copying, Progress, Position, End, ChunkLen, worker_vars
<1>3. Wanted' = Wanted /\ pc' = pc
  BY <1>1 DEF Wanted, worker_vars
<1>4. QED
  BY <1>1, <1>2, <1>3 DEF Coverage


------------------------------------------------------------------------------
(* Control: who has left, who failed, what the main thread knows             *)

\* What one worker's step does to the flags and counters.
LEMMA WorkerControl ==
  ASSUME Geometry, NEW w \in Workers, Worker(w) \/ SpawnWorker(w)
  PROVE  /\ UNCHANGED <<mpc, w_bytes, exit_status>>
         /\ pc[w] # "gone" /\ pc'[w] # "none"
         /\ active_workers' = IF pc'[w] = "gone" THEN active_workers - 1 ELSE active_workers
         /\ bytes_written' >= bytes_written
         /\ pc[w] = "error" => error_code' = 1
         /\ error_code = 1 => error_code' = 1
         /\ error_code' = 1 => error_code = 1 \/ pc[w] = "error"
         /\ pc'[w] = "error" => abort_requested'
         /\ abort_requested' => abort_requested \/ pc'[w] = "error"
<1>0. pc \in [Workers -> {"none", "top", "block", "write", "count", "error", "leave", "gone"}]
      /\ bytes_written \in Nat /\ w_res[w] \in Nat
  BY DEF Geometry, TypeOK
<1> USE <1>0 DEF GoTo, shared_vars, main_vars
<1>1. CASE WorkerClaims(w)
  BY <1>1 DEF WorkerClaims
<1>2. CASE WorkerSeesAbort(w) \/ WorkerLeavesChunk(w) \/ WorkerWritesNothing(w)
  BY <1>2 DEF WorkerSeesAbort, WorkerLeavesChunk, WorkerWritesNothing
<1>3. CASE WorkerReads(w)
  BY <1>3 DEF WorkerReads
<1>4. CASE WorkerFails(w) \/ WorkerStoresError(w)
  BY <1>4 DEF WorkerFails, WorkerStoresError
<1>5. CASE WorkerWrites(w) \/ WorkerAbandonsWrite(w)
  BY <1>5 DEF WorkerWrites, WorkerAbandonsWrite
<1>6. CASE WorkerCounts(w)
  BY <1>6 DEF WorkerCounts
<1>7. CASE WorkerLeaves(w) \/ SpawnWorker(w)
  BY <1>7 DEF WorkerLeaves, SpawnWorker
<1>8. QED
  BY <1>1, <1>2, <1>3, <1>4, <1>5, <1>6, <1>7 DEF Worker

\* A failure is not forgotten.
LEMMA BrokenStays ==
  ASSUME Geometry, NEW w \in Workers, Worker(w) \/ SpawnWorker(w)
  PROVE  /\ Broken => Broken'
         /\ Broken' => Broken \/ abort_requested'
         /\ abort_requested' => abort_requested \/ Broken'
<1>1. \A v \in Workers \ {w} : pc'[v] = pc[v]
  BY OwnPart DEF Geometry
<1>2. QED
  BY <1>1, WorkerControl DEF Broken

\* A thread that was not created does nothing.
LEMMA NoneOnlySpawns ==
  ASSUME NEW w \in Workers, Worker(w) \/ SpawnWorker(w), pc[w] = "none"
  PROVE  mpc = "spawn"
BY DEF Worker, WorkerClaims, WorkerSeesAbort, WorkerLeavesChunk, WorkerWritesNothing,
       WorkerReads, WorkerWrites,
       WorkerAbandonsWrite, WorkerFails, WorkerStoresError, WorkerCounts, WorkerLeaves,
       SpawnWorker

LEMMA ControlStep ==
  ASSUME Geometry, Control, NEW w \in Workers, Worker(w) \/ SpawnWorker(w)
  PROVE  Control'
<1>0. \A v \in Workers \ {w} : pc'[v] = pc[v]
  BY OwnPart DEF Geometry
<1> DEFINE Here == {v \in Workers : pc[v] # "gone"}
<1>1. active_workers' = Cardinality(Here')
  <2>1. IsFiniteSet(Here) /\ w \in Here
    BY WorkersAssumption, FS_Subset, WorkerControl
  <2>2. CASE pc'[w] = "gone"
    <3>1. Here' = Here \ {w}
      BY <1>0, <2>2
    <3> HIDE DEF Here
    <3>2. Cardinality(Here') = Cardinality(Here) - 1
      BY <2>1, <3>1, FS_RemoveElement
    <3>3. active_workers = Cardinality(Here)
      BY DEF Control, Here
    <3>4. QED
      BY <2>2, <3>2, <3>3, WorkerControl
  <2>3. CASE pc'[w] # "gone"
    <3>1. Here' = Here
      BY <1>0, <2>1, <2>3
    <3>2. QED
      BY <2>3, <3>1, WorkerControl DEF Control
  <2>4. QED
    BY <2>2, <2>3
<1>2. mpc' \notin {"spawn", "join_spawned", "fallback"} => \A v \in Workers : pc'[v] # "none"
  BY <1>0, WorkerControl DEF Control
<1>3. /\ Broken' => abort_requested'
      /\ abort_requested' => Broken' \/ mpc' \in {"join", "done", "join_spawned", "fallback"}
      /\ exit_status' = "failure" => Broken'
  BY BrokenStays, WorkerControl, AbortStays DEF Control
<1>4. /\ mpc' = "done" => \A v \in Workers : pc'[v] = "gone"
      /\ mpc' = "fallback" => \A v \in Workers : pc'[v] \in {"none", "gone"}
  BY WorkerControl, NoneOnlySpawns DEF Control
<1>5. w_bytes' <= bytes_written'
  <2>1. w_bytes \in Nat /\ bytes_written \in Nat /\ bytes_written' \in Nat
    BY TypeStep DEF Geometry, TypeOK
  <2>2. QED
    BY <2>1, WorkerControl DEF Control
<1>6. QED
  BY <1>1, <1>2, <1>3, <1>4, <1>5 DEF Control

LEMMA ControlQuiet ==
  ASSUME Geometry, Control, MainStep
  PROVE  Control'
<1>1. UNCHANGED <<bytes_written, active_workers, error_code, pc>>
  BY MainQuiet DEF Geometry, worker_vars
<1>2. Broken' <=> Broken
  BY <1>1 DEF Broken
<1>3. w_bytes \in Nat /\ bytes_written \in Nat
  BY DEF Geometry, TypeOK
<1> USE <1>1, <1>2, <1>3 DEF Control
<1>4. CASE AllSpawned
  BY <1>4 DEF AllSpawned, shared_vars
<1>5. CASE SpawnFails \/ Cleanup
  BY <1>5 DEF SpawnFails, Cleanup
<1>6. CASE JoinSpawned \/ Join
  BY <1>6 DEF JoinSpawned, Join, shared_vars
<1>7. CASE LimitCheck \/ LoadActive
  BY <1>7 DEF LimitCheck, LoadActive, shared_vars
<1>8. CASE LoadBytes
  BY <1>8 DEF LoadBytes, shared_vars
<1>9. CASE LoadAbort
  BY <1>9 DEF LoadAbort, shared_vars
<1>10. CASE UNCHANGED vars
  BY <1>10 DEF vars, shared_vars, main_vars
<1>11. QED
  BY <1>4, <1>5, <1>6, <1>7, <1>8, <1>9, <1>10 DEF MainStep

------------------------------------------------------------------------------
(* The end of the copy                                                       *)

\* Nobody left to copy and no abort: everything was claimed and copied.
LEMMA NobodyLeft ==
  ASSUME Geometry, Control, Coverage, active_workers = 0, ~abort_requested,
         Exact
  PROVE  Complete
<1>0. next_chunk_offset \in Nat /\ cfg.total_bytes \in Nat /\ cfg.source \in Nat
  BY ConfigTypes DEF Geometry, TypeOK
<1>1. \A w \in Workers : pc[w] = "gone"
  <2>1. {w \in Workers : pc[w] # "gone"} = {}
    BY WorkersAssumption, FS_Subset, FS_EmptySet DEF Control
  <2>2. QED
    BY <2>1
<1>2. next_chunk_offset >= cfg.total_bytes
  BY <1>1, WorkersAssumption DEF Coverage
<1>3. ASSUME NEW p \in Wanted
      PROVE  out[p] = p
  <2>1. p <= next_chunk_offset
    BY <1>0, <1>2 DEF Wanted, Least
  <2>2. \A w \in Workers : ~Ahead(w, p)
    BY <1>1 DEF Ahead, Copying
  <2>3. QED
    BY <2>1, <2>2 DEF Coverage
<1>4. QED
  BY <1>3 DEF Complete, Wanted

\* As many bytes counted as the output has positions: all of them are there.
LEMMA AllCounted ==
  ASSUME Geometry, Data, bytes_written >= cfg.total_bytes
  PROVE  Complete
<1>0. /\ cfg.total_bytes \in Nat /\ cfg.source \in Nat /\ bytes_written \in Nat
      /\ DOMAIN out = 1..cfg.total_bytes
  BY ConfigTypes DEF Geometry, TypeOK
<1> DEFINE S == 1..cfg.total_bytes
           T == Landed \ Pending
<1>1. IsFiniteSet(S) /\ Cardinality(S) = cfg.total_bytes
  <2>1. 1 \in Int /\ cfg.total_bytes \in Int
    BY <1>0
  <2>2. IsFiniteSet(1..cfg.total_bytes) /\ Cardinality(1..cfg.total_bytes) =
          IF 1 > cfg.total_bytes THEN 0 ELSE cfg.total_bytes - 1 + 1
    BY <2>1, FS_Interval
  <2>3. QED
    BY <1>0, <2>2
<1>2. T \in SUBSET S
  BY <1>0 DEF Landed
<1>3. Cardinality(T) <= Cardinality(S) /\ (Cardinality(S) = Cardinality(T) => S = T)
  <2> HIDE DEF S, T
  <2>1. QED
    BY <1>1, <1>2, FS_Subset
<1>4. Cardinality(T) \in Nat /\ bytes_written <= Cardinality(T)
  BY LandedFinite DEF Geometry, Data, Counted
<1>5. S = T
  <2> HIDE DEF S, T
  <2>1. QED
    BY <1>0, <1>1, <1>3, <1>4
<1>6. \A p \in S : out[p] = p
  BY <1>0, <1>5 DEF Landed, Data, InPlace
<1>7. Wanted \subseteq S
  BY <1>0 DEF Wanted, Least
<1>8. QED
  BY <1>6, <1>7 DEF Complete, Wanted

LEMMA LeftCompleteStep ==
  ASSUME Geometry, LeftComplete, NEW w \in Workers, Worker(w) \/ SpawnWorker(w)
  PROVE  LeftComplete'
<1>1. Wanted' = Wanted /\ Wanted \subseteq DOMAIN out
  BY OwnPart, ConfigTypes DEF Geometry, TypeOK, Wanted, Least
<1>2. Complete => Complete'
  BY <1>1, OutputStays DEF Complete, Wanted
<1>3. QED
  BY <1>2, OwnPart, WorkerControl, BrokenStays DEF LeftComplete, Geometry

LEMMA LeftCompleteQuiet ==
  ASSUME IInv, MainStep
  PROVE  LeftComplete'
<1>1. UNCHANGED <<cfg, bytes_written, active_workers, error_code, pc, out>>
  BY MainQuiet DEF IInv, Geometry, worker_vars
<1>2. (Broken' <=> Broken) /\ (Complete' <=> Complete)
  BY <1>1 DEF Broken, Complete, Wanted
<1>3. CASE LimitCheck
  <2>1. SUFFICES ASSUME mpc' = "cleanup"
                 PROVE  Complete
    BY <1>2, <1>3 DEF LimitCheck, LeftComplete
  <2>2. cfg.bytes_to_copy >= 0 /\ w_bytes >= cfg.bytes_to_copy
    BY <1>3, <2>1 DEF LimitCheck
  <2>3. /\ cfg.total_bytes = cfg.bytes_to_copy /\ cfg.total_bytes \in Nat
        /\ w_bytes \in Nat /\ bytes_written \in Nat /\ w_bytes <= bytes_written
    BY <2>2, ConfigTypes DEF IInv, Geometry, TypeOK, Control
  <2>4. QED
    BY <2>2, <2>3, AllCounted DEF IInv
<1>4. CASE LoadActive
  <2>1. SUFFICES ASSUME mpc' = "cleanup", ~Broken, Exact
                 PROVE  Complete
    BY <1>1, <1>2, <1>4 DEF LoadActive, LeftComplete
  <2>2. active_workers = 0 /\ mpc = "load_active"
    BY <1>4, <2>1 DEF LoadActive
  <2>3. ~abort_requested
    BY <2>1, <2>2 DEF IInv, Control
  <2>4. QED
    BY <2>1, <2>2, <2>3, NobodyLeft DEF IInv
<1>5. CASE AllSpawned \/ SpawnFails \/ JoinSpawned \/ LoadBytes \/ LoadAbort
  BY <1>5 DEF AllSpawned, SpawnFails, JoinSpawned, LoadBytes, LoadAbort, LeftComplete
<1>6. CASE Cleanup \/ Join \/ UNCHANGED vars
  BY <1>1, <1>2, <1>6 DEF Cleanup, Join, vars, main_vars, LeftComplete, IInv
<1>7. QED
  BY <1>3, <1>4, <1>5, <1>6 DEF MainStep

------------------------------------------------------------------------------
(* The theorems                                                              *)

LEMMA InvariantInit == Init => IInv
<1> SUFFICES ASSUME Init PROVE IInv
  OBVIOUS
<1>1. Geometry
  BY GeometryInit
<1>2. /\ DOMAIN out = 1..cfg.total_bytes /\ \A p \in DOMAIN out : out[p] = 0
      /\ \A w \in Workers : pc[w] = "none"
      /\ cfg.total_bytes \in Nat /\ cfg.source \in Nat
  BY <1>1, ConfigTypes DEF Init, Geometry, TypeOK
<1>3. Landed = {} /\ \A w \in Workers : Uncounted(w) = {}
  BY <1>2 DEF Landed, Uncounted
<1>4. Data
  <2>1. Landed \ Pending = {} /\ bytes_written = 0
    BY <1>3 DEF Init
  <2>2. Counted
    BY <2>1, FS_EmptySet DEF Counted
  <2>3. QED
    BY <1>2, <1>3, <2>2 DEF Data, InPlace, Fresh, UncountedLanded, Inside
<1>5. Coverage
  <2>1. \A p \in Wanted : ~(p <= next_chunk_offset)
    BY <1>2 DEF Init, Wanted, Least
  <2>2. QED
    BY <1>2, <2>1 DEF Coverage
<1>6. Control
  <2>1. {w \in Workers : pc[w] # "gone"} = Workers
    BY <1>2
  <2>2. active_workers = Cardinality({w \in Workers : pc[w] # "gone"})
    BY <2>1 DEF Init, NumWorkers
  <2>3. ~Broken
    BY <1>2 DEF Init, Broken
  <2>4. QED
    BY <2>2, <2>3 DEF Init, Control
<1>7. LeftComplete
  BY DEF Init, LeftComplete
<1>8. QED
  BY <1>1, <1>4, <1>5, <1>6, <1>7 DEF IInv

LEMMA InvariantStep == IInv /\ [Next]_vars => IInv'
<1> SUFFICES ASSUME IInv, [Next]_vars PROVE IInv'
  OBVIOUS
<1>1. Geometry' /\ Data'
  BY GeometryStep, DataStep DEF IInv
<1>2. ASSUME NEW w \in Workers, Worker(w) \/ SpawnWorker(w)
      PROVE  Coverage' /\ Control' /\ LeftComplete'
  BY <1>2, CoverageStep, ControlStep, LeftCompleteStep DEF IInv
<1>3. ASSUME MainStep
      PROVE  Coverage' /\ Control' /\ LeftComplete'
  <2>1. Geometry /\ Coverage /\ Control
    BY DEF IInv
  <2>2. Coverage' /\ Control'
    BY <1>3, <2>1, CoverageQuiet, ControlQuiet
  <2>3. LeftComplete'
    BY <1>3, LeftCompleteQuiet
  <2>4. QED
    BY <2>2, <2>3
<1>4. QED
  BY <1>1, <1>2, <1>3, Steps DEF IInv

LEMMA Invariance == Spec => []IInv
BY InvariantInit, InvariantStep, PTL DEF Spec

\* Every variable of the sharded copy keeps its type, whatever the number of
\* workers and the way they interleave.
THEOREM Typing == Spec => []TypeOK
<1>1. IInv => TypeOK
  BY DEF IInv, Geometry
<1>2. QED
  BY <1>1, Invariance, PTL

(***************************************************************************)
(* No two workers ever copy overlapping parts of the file, for any number  *)
(* of workers: the atomic counter hands every chunk out once               *)
(* (io_uring.c:212-219).                                                   *)
(***************************************************************************)
LEMMA ChunksAreDisjoint == Spec => []ChunksDisjoint
<1>1. IInv => ChunksDisjoint
  <2> SUFFICES ASSUME IInv, NEW v \in Workers, NEW w \in Workers,
                      v # w, Copying(v), Copying(w)
               PROVE  \/ chunk_offset[v] + ChunkLen(v) <= chunk_offset[w]
                      \/ chunk_offset[w] + ChunkLen(w) <= chunk_offset[v]
    BY DEF ChunksDisjoint
  <2>1. /\ chunk_offset[v] \in Nat /\ chunk_offset[w] \in Nat /\ chunk_size \in Nat
        /\ cfg.total_bytes \in Nat
    BY ConfigTypes DEF IInv, Geometry, TypeOK
  <2>2. \/ chunk_offset[v] + chunk_size <= chunk_offset[w]
        \/ chunk_offset[w] + chunk_size <= chunk_offset[v]
    BY DEF IInv, Geometry, ClaimShape
  <2>3. QED
    BY <2>1, <2>2 DEF ChunkLen, Least
<1>2. QED
  BY <1>1, Invariance, PTL

(***************************************************************************)
(* No two workers ever copy overlapping parts of the file, what is in the  *)
(* output is the input's byte of that position, and until an abort the     *)
(* shared counter is the number of bytes in the output but for the writes  *)
(* just completed, with short writes and for any number of workers         *)
(* (io_uring.c:230-307).                                                   *)
(***************************************************************************)
THEOREM Accounting == Spec => []OutputAccounted
<1>1. IInv => InPlace /\ BytesAccounted
  BY DEF IInv, Data, Counted, Pending, BytesAccounted
<1>2. InPlace /\ BytesAccounted /\ ChunksDisjoint => OutputAccounted
  BY DEF OutputAccounted
<1>3. QED
  BY <1>1, <1>2, Invariance, ChunksAreDisjoint, PTL

(***************************************************************************)
(* A copy that ends with exit status 0 and without a worker that failed    *)
(* has put every byte of the input, up to the limit, into the output,      *)
(* where reads are short at the end of the file only, and a failure is     *)
(* only reported when a worker has failed (io_uring.c:438-471): for every  *)
(* number of workers, chunk size, limit and input, including one that      *)
(* shrinks below the limit.                                                *)
(***************************************************************************)
THEOREM Outcome == Spec => []OutcomeIsTrue
<1>1. IInv => OutcomeIsTrue
  <2> SUFFICES ASSUME IInv, mpc = "done"
               PROVE  /\ exit_status = "success" /\ error_code = 0 /\ Exact =>
                           Complete
                      /\ exit_status = "failure" => error_code # 0
    BY DEF OutcomeIsTrue, SuccessIsComplete, Succeeded, FailureIsReal
  <2>1. \A w \in Workers : pc[w] = "gone"
    BY DEF IInv, Control
  <2>2. Broken => error_code = 1
    BY <2>1 DEF Broken
  <2>3. QED
    BY <2>2 DEF IInv, Control, LeftComplete
<1>2. QED
  BY <1>1, Invariance, PTL



\* The pairs that ScatteredCopy knows about.
Pairs == {<<p, out[p]>> : p \in Landed}

\* A landing write is one of the abstract copy.
LEMMA LandsAbstractly ==
  ASSUME IInv, NEW w \in Workers, Worker(w) \/ SpawnWorker(w),
         NEW n \in Nat \ {0}, Lands(w, n), CopyStatus = "running", CopyStatus' = "running"
  PROVE  Copy!Land
<1> DEFINE first == Progress(w) + 1
           last  == Progress(w) + n
           request == [source |-> cfg.source, limit |-> cfg.total_bytes]
<1>0. Geometry /\ Data
  BY DEF IInv
<1>1. /\ Progress(w) \in Nat /\ cfg.source \in Nat /\ cfg.total_bytes \in Nat
      /\ last <= cfg.source /\ last <= cfg.total_bytes
  BY <1>0, LandsInside
<1>2. first \in Copy!Wanted(request) /\ last \in Copy!Wanted(request) /\ first <= last
  BY <1>1 DEF Copy!Wanted
<1>3. /\ Landed' = Landed \cup first..last
      /\ DOMAIN out' = DOMAIN out
      /\ \A p \in DOMAIN out : out'[p] = IF Progress(w) < p /\ p <= last THEN p ELSE out[p]
      /\ Landed \subseteq DOMAIN out /\ Landed' \subseteq DOMAIN out
      /\ DOMAIN out \subseteq Nat
  <2>1. /\ Landed' = Landed \cup first..last
        /\ DOMAIN out' = DOMAIN out
        /\ \A p \in DOMAIN out : out'[p] = IF Progress(w) < p /\ p <= last THEN p ELSE out[p]
    BY <1>0, LandedGrows, LandedAt
  <2>2. DOMAIN out \subseteq Nat
    BY <1>0, ConfigTypes DEF Geometry, TypeOK
  <2>3. Landed \subseteq DOMAIN out /\ Landed' \subseteq DOMAIN out'
    BY DEF Landed
  <2>4. QED
    BY <2>1, <2>2, <2>3
<1>4. ASSUME NEW p \in Landed
      PROVE  p \notin first..last
  <2>1. Copying(w) /\ last <= End(w) /\ End(w) \in Nat
    BY <1>0, LandedAt, Extent
  <2>2. ASSUME p \in first..last
        PROVE  Ahead(w, p)
    BY <1>1, <2>1, <2>2 DEF Ahead
  <2>3. QED
    BY <1>0, <2>2 DEF Data, Fresh, Landed
<1>5. Pairs' = Pairs \cup Copy!InPlace(first..last)
  <2>1. \A p \in first..last : out'[p] = p /\ p \in Landed'
    BY <1>1, <1>3
  <2>2. \A p \in Landed : out'[p] = out[p] /\ p \in Landed'
    BY <1>1, <1>3, <1>4
  <2>3. QED
    BY <1>3, <2>1, <2>2 DEF Pairs, Copy!InPlace
<1>6. cfg' = cfg
  BY <1>0, OwnPart DEF Geometry
<1> HIDE DEF first, last, request
<1>7. \A pair \in Pairs : pair[1] \notin first..last
  BY <1>4 DEF Pairs
<1>8. QED
  BY <1>2, <1>5, <1>6, <1>7 DEF Copy!Land, Pairs, request

(***************************************************************************)
(* Any number of workers implement the copy in no particular order         *)
(* (io_uring.c:139-312, :438-471): every write lands where nothing was     *)
(* written, inside the limit and the input, none after the copy has        *)
(* ended, and success is only reported when no hole is left, where reads   *)
(* are short at the end of the file only and no worker's failure is lost.  *)
(***************************************************************************)
THEOREM Refinement == Spec => ImplementsScatteredCopy
<1>1. Init => Copy!Init
  <2> SUFFICES ASSUME Init PROVE Copy!Init
    OBVIOUS
  <2>1. cfg.source \in Nat /\ cfg.total_bytes \in Nat
    BY ConfigTypes DEF Init
  <2>2. Landed = {}
    BY DEF Init, Landed
  <2>3. CopyStatus = "running"
    BY DEF Init, CopyStatus, Stopped
  <2>4. QED
    BY <2>1, <2>2, <2>3 DEF Copy!Init, Copy!Requests
<1>2. IInv /\ IInv' /\ [Next]_vars => [Copy!Next]_(Copy!vars)
  <2> SUFFICES ASSUME IInv, IInv', [Next]_vars PROVE [Copy!Next]_(Copy!vars)
    OBVIOUS
  <2>0. Geometry /\ Data /\ Control
    BY DEF IInv
  <2>1. ASSUME NEW w \in Workers, Worker(w) \/ SpawnWorker(w)
        PROVE  [Copy!Next]_(Copy!vars)
    <3>1. mpc' = mpc /\ cfg' = cfg /\ ~Stopped
      <4>1. mpc' = mpc /\ cfg' = cfg /\ pc[w] # "gone"
        BY <2>0, <2>1, WorkerControl, OwnPart DEF Geometry
      <4>2. QED
        BY <2>0, <2>1, <4>1, NoneOnlySpawns DEF Control, Stopped
    <3>2. CopyStatus = "running" /\ CopyStatus' = "running"
      BY <3>1 DEF CopyStatus, Stopped
    <3>3. CASE out' = out
      BY <3>1, <3>2, <3>3 DEF Copy!vars, Landed
    <3>4. ASSUME NEW n \in Nat \ {0}, Lands(w, n)
          PROVE  Copy!Next
      BY <2>1, <3>2, <3>4, LandsAbstractly DEF Copy!Next
    <3>5. ASSUME Lands(w, 0)
          PROVE  out' = out
      <4>1. \A p \in DOMAIN out : out'[p] = out[p]
        <5>1. Progress(w) \in Nat /\ DOMAIN out \subseteq Nat
          BY <2>0, <3>5, LandsInside, ConfigTypes DEF Geometry, TypeOK
        <5>2. \A p \in DOMAIN out :
                out'[p] = IF Progress(w) < p /\ p <= Progress(w) + 0 THEN p ELSE out[p]
          BY <2>0, <3>5, LandedAt
        <5>3. QED
          BY <5>1, <5>2
      <4>2. out \in [DOMAIN out -> Nat] /\ out' \in [DOMAIN out' -> Nat] /\ DOMAIN out' = DOMAIN out
        BY <2>0, <3>1, <3>5, LandedAt DEF IInv, Geometry, TypeOK
      <4>3. QED
        BY <4>1, <4>2
    <3>6. QED
      BY <2>0, <2>1, <3>3, <3>4, <3>5, WhoLands
  <2>2. CASE MainStep
    <3>1. cfg' = cfg /\ out' = out /\ error_code' = error_code
      BY <2>0, <2>2, MainQuiet DEF Geometry
    <3>2. CASE CopyStatus' = CopyStatus
      BY <3>1, <3>2 DEF Copy!vars, Landed
    <3>3. CASE CopyStatus' # CopyStatus
      <4>1. JoinSpawned \/ Join
        BY <2>2, <3>1, <3>3 DEF MainStep, AllSpawned, SpawnFails, LimitCheck, LoadBytes,
             LoadAbort, LoadActive, Cleanup, CopyStatus, Stopped, Succeeded, vars, main_vars
      <4>2. CopyStatus = "running" /\ CopyStatus' \in {"ok", "abandoned"}
        BY <4>1 DEF JoinSpawned, Join, CopyStatus, Stopped
      <4>3. ASSUME CopyStatus' = "ok"
            PROVE  Pairs = Copy!InPlace(Copy!Wanted([source |-> cfg.source,
                                                     limit  |-> cfg.total_bytes]))
        <5>1. Complete' /\ Landed' = Landed
          BY <3>1, <4>3 DEF CopyStatus, Stopped, Succeeded, IInv, Control, LeftComplete, Broken,
                           Landed
        <5>2. /\ cfg.source \in Nat /\ cfg.total_bytes \in Nat
              /\ DOMAIN out = 1..cfg.total_bytes
          BY <2>0, ConfigTypes DEF Geometry, TypeOK
        <5>3. Complete
          BY <3>1, <5>1 DEF Complete
        <5>4. Landed = 1..Least(cfg.source, cfg.total_bytes)
          BY <2>0, <5>2, <5>3 DEF Complete, Data, Inside, Landed, Least
        <5>5. \A p \in Landed : out[p] = p
          BY <5>3, <5>4 DEF Complete
        <5>6. Landed = Copy!Wanted([source |-> cfg.source, limit |-> cfg.total_bytes])
          BY <5>2, <5>4 DEF Copy!Wanted, Least
        <5>7. QED
          BY <5>5, <5>6 DEF Pairs, Copy!InPlace
      <4>4. CASE CopyStatus' = "ok"
        BY <3>1, <4>2, <4>3, <4>4 DEF Copy!Next, Copy!Succeed, Pairs, Landed
      <4>5. CASE CopyStatus' = "abandoned"
        BY <3>1, <4>2, <4>5 DEF Copy!Next, Copy!Abandon, Landed
      <4>6. QED
        BY <4>2, <4>4, <4>5
    <3>4. QED
      BY <3>2, <3>3
  <2>3. QED
    BY <2>1, <2>2, Steps
<1>3. QED
  BY <1>1, <1>2, Invariance, PTL DEF Spec, ImplementsScatteredCopy, Copy!Spec

==============================================================================
