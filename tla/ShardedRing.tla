----------------------------- MODULE ShardedRing -----------------------------
(***************************************************************************)
(* The sharded io_uring backend of the C program (-j N on seekable files,  *)
(* src/src/io_uring.c): N worker threads, each with a ring and a buffer of *)
(* its own, claim chunks of the input from an atomic counter and copy them *)
(* with positioned reads and writes; the main thread polls their counters. *)
(*                                                                         *)
(* All shared state is atomic variables; every load and store of one is a  *)
(* step of its own, except where two are adjacent and commute.  Bytes are  *)
(* named by their position (1, 2, ...) after the start offsets.            *)
(***************************************************************************)
EXTENDS Integers, FiniteSets

CONSTANTS
  Workers,                   \* the worker threads
  Configs,                   \* the command lines and inputs considered
  URING_DEFAULT_CHUNK_SIZE

(***************************************************************************)
(* total_bytes is -l's limit, or else the input's size when it was opened; *)
(* source is what can really be read: less when the limit exceeds the      *)
(* input or the file shrank.  bytes_to_copy is -1 without a limit.         *)
(* short_reads: the file system may return less than there is;             *)
(* empty_writes: a write may complete without having written anything.     *)
(***************************************************************************)
ConfigType ==
  [blocksize : Nat \ {0}, total_bytes : Nat \ {0}, bytes_to_copy : Nat \cup {-1},
   source : Nat, short_reads : BOOLEAN, empty_writes : BOOLEAN]

ASSUME ConfigsAssumption ==
  /\ Configs \subseteq ConfigType
  /\ \A c \in Configs : c.bytes_to_copy >= 0 => c.total_bytes = c.bytes_to_copy
ASSUME WorkersAssumption == IsFiniteSet(Workers) /\ Workers # {}
ASSUME ChunkAssumption == URING_DEFAULT_CHUNK_SIZE \in Nat \ {0}

VARIABLES
  cfg, chunk_size,
  \* struct uring_sharded_state
  next_chunk_offset, bytes_written, active_workers, abort_requested, error_code,
  \* the workers: program counter, chunk claimed, bytes of it done, bytes in
  \* the buffer, bytes of those written, result of the write just completed
  pc, chunk_offset, chunk_done, buffered, written_so_far, w_res,
  \* the main thread: program counter, stats.w_bytes, exit status
  mpc, w_bytes, exit_status,
  \* the output: the input byte found at each position, 0 for none
  out

shared_vars == <<next_chunk_offset, bytes_written, active_workers,
                 abort_requested, error_code>>
worker_vars == <<pc, chunk_offset, chunk_done, buffered, written_so_far, w_res>>
main_vars   == <<mpc, w_bytes, exit_status>>
vars == <<cfg, chunk_size, shared_vars, worker_vars, main_vars, out>>

NumWorkers == Cardinality(Workers)

Least(a, b) == IF a < b THEN a ELSE b
Greatest(a, b) == IF a < b THEN b ELSE a

\* Chunks shrink for small inputs, in whole blocks, to at least one block.
ChunkSize(total, bs) ==
  LET wanted == IF total < URING_DEFAULT_CHUNK_SIZE * NumWorkers * 2
                THEN Greatest(total \div (NumWorkers * 2), bs)
                ELSE URING_DEFAULT_CHUNK_SIZE
  IN  Greatest((wanted \div bs) * bs, bs)

Init ==
  /\ cfg \in Configs
  /\ chunk_size = ChunkSize(cfg.total_bytes, cfg.blocksize)
  /\ next_chunk_offset = 0 /\ bytes_written = 0
  /\ active_workers = NumWorkers
  /\ abort_requested = FALSE /\ error_code = 0
  /\ pc = [w \in Workers |-> "none"]
  /\ chunk_offset = [w \in Workers |-> 0] /\ chunk_done = [w \in Workers |-> 0]
  /\ buffered = [w \in Workers |-> 0] /\ written_so_far = [w \in Workers |-> 0]
  /\ w_res = [w \in Workers |-> 0]
  /\ mpc = "spawn" /\ w_bytes = 0 /\ exit_status = "success"
  /\ out = [p \in 1..cfg.total_bytes |-> 0]

GoTo(w, label) == pc' = [pc EXCEPT ![w] = label]

------------------------------------------------------------------------------
(* uring_shard_worker_thread                                                 *)

ChunkLen(w) == Least(chunk_size, cfg.total_bytes - chunk_offset[w])

\* Position of the last byte of w's chunk that is done.
Position(w) == chunk_offset[w] + chunk_done[w]

CurLen(w) == Least(cfg.blocksize, ChunkLen(w) - chunk_done[w])

\* Fault: the claim reads the counter before it adds to it (no fetch_add):
\* another worker that claims at the same time gets the same chunk.
WorkerClaims_TwoSteps(w) ==
  /\ \/ pc[w] = "top" /\ ~abort_requested
        /\ chunk_offset' = [chunk_offset EXCEPT ![w] = next_chunk_offset]
        /\ GoTo(w, "claim") /\ UNCHANGED <<next_chunk_offset, chunk_done>>
     \/ pc[w] = "claim"
        /\ next_chunk_offset' = chunk_offset[w] + chunk_size
        /\ GoTo(w, IF chunk_offset[w] >= cfg.total_bytes THEN "leave" ELSE "block")
        /\ chunk_done' = [chunk_done EXCEPT ![w] = 0]
        /\ UNCHANGED chunk_offset
  /\ UNCHANGED <<cfg, chunk_size, bytes_written, active_workers, abort_requested,
                 error_code, buffered, written_so_far, w_res, main_vars, out>>

\* Fault: a worker that finds nothing left to claim does not sign off.
WorkerClaims_NoSignOff(w) ==
  /\ pc[w] = "top"
  /\ ~abort_requested
  /\ next_chunk_offset' = next_chunk_offset + chunk_size
  /\ IF next_chunk_offset >= cfg.total_bytes
     THEN GoTo(w, "gone") /\ UNCHANGED <<chunk_offset, chunk_done>>
     ELSE /\ chunk_offset' = [chunk_offset EXCEPT ![w] = next_chunk_offset]
          /\ chunk_done' = [chunk_done EXCEPT ![w] = 0]
          /\ GoTo(w, "block")
  /\ UNCHANGED <<cfg, chunk_size, bytes_written, active_workers, abort_requested,
                 error_code, buffered, written_so_far, w_res, main_vars, out>>

\* Claim the next chunk (atomic fetch_add), unless an abort is seen first or
\* the counter is past the end.
WorkerClaims(w) ==
  /\ pc[w] = "top"
  /\ ~abort_requested
  /\ next_chunk_offset' = next_chunk_offset + chunk_size
  /\ IF next_chunk_offset >= cfg.total_bytes
     THEN GoTo(w, "leave") /\ UNCHANGED <<chunk_offset, chunk_done>>
     ELSE /\ chunk_offset' = [chunk_offset EXCEPT ![w] = next_chunk_offset]
          /\ chunk_done' = [chunk_done EXCEPT ![w] = 0]
          /\ GoTo(w, "block")
  /\ UNCHANGED <<cfg, chunk_size, bytes_written, active_workers, abort_requested,
                 error_code, buffered, written_so_far, w_res, main_vars, out>>

WorkerSeesAbort(w) ==
  /\ pc[w] = "top"
  /\ abort_requested
  /\ GoTo(w, "leave")
  /\ UNCHANGED <<cfg, chunk_size, shared_vars, chunk_offset, chunk_done, buffered,
                 written_so_far, w_res, main_vars, out>>

\* The chunk is done, or an abort is seen before or while waiting for a read.
WorkerLeavesChunk(w) ==
  /\ pc[w] = "block"
  /\ chunk_done[w] >= ChunkLen(w) \/ abort_requested
  /\ GoTo(w, "top")
  /\ UNCHANGED <<cfg, chunk_size, shared_vars, chunk_offset, chunk_done, buffered,
                 written_so_far, w_res, main_vars, out>>

\* A positioned read: the whole block, less at the end of the input (or, on
\* some file systems, anywhere), or nothing beyond it, which ends the chunk.
WorkerReads(w) ==
  /\ pc[w] = "block"
  /\ chunk_done[w] < ChunkLen(w)
  /\ LET most == Least(CurLen(w), Greatest(cfg.source - Position(w), 0))
     IN  \E n \in (IF cfg.short_reads THEN Least(1, most) ELSE most)..most :
           /\ buffered' = [buffered EXCEPT ![w] = n]
           /\ GoTo(w, IF n = 0 THEN "top" ELSE "write")
  /\ written_so_far' = [written_so_far EXCEPT ![w] = 0]
  /\ UNCHANGED <<cfg, chunk_size, shared_vars, chunk_offset, chunk_done, w_res,
                 main_vars, out>>

\* A submission, read or write fails: first the abort flag is stored ...
WorkerFails(w) ==
  /\ \/ pc[w] = "block" /\ chunk_done[w] < ChunkLen(w)
     \/ pc[w] = "write"
  /\ abort_requested' = TRUE
  /\ GoTo(w, "error")
  /\ UNCHANGED <<cfg, chunk_size, next_chunk_offset, bytes_written, active_workers,
                 error_code, chunk_offset, chunk_done, buffered, written_so_far,
                 w_res, main_vars, out>>

\* ... then the error code, then the worker is back at its outer loop.
WorkerStoresError(w) ==
  /\ pc[w] = "error"
  /\ error_code' = 1
  /\ GoTo(w, "top")
  /\ UNCHANGED <<cfg, chunk_size, next_chunk_offset, bytes_written, active_workers,
                 abort_requested, chunk_offset, chunk_done, buffered,
                 written_so_far, w_res, main_vars, out>>

\* Fault: a further write of the block goes to the block's start.
Written_FromStart(w, n) ==
  LET first == Position(w) + written_so_far[w]
  IN  [p \in DOMAIN out |-> IF p \in Position(w) + 1 .. Position(w) + n
                            THEN p + written_so_far[w] ELSE out[p]]

Written(w, n) ==
  LET first == Position(w) + written_so_far[w]
  IN  [p \in DOMAIN out |-> IF p \in first + 1 .. first + n THEN p ELSE out[p]]

\* A positioned write of the rest of the block takes some of its bytes.
WorkerWrites(w) ==
  /\ pc[w] = "write"
  /\ \E n \in 1..(buffered[w] - written_so_far[w]) :
        /\ out' = Written(w, n)
        /\ w_res' = [w_res EXCEPT ![w] = n]
  /\ GoTo(w, "count")
  /\ UNCHANGED <<cfg, chunk_size, shared_vars, chunk_offset, chunk_done, buffered,
                 written_so_far, main_vars>>

\* A write that completes with 0 is no error, and ends the chunk.
WorkerWritesNothing(w) ==
  /\ pc[w] = "write"
  /\ cfg.empty_writes
  /\ GoTo(w, "top")
  /\ UNCHANGED <<cfg, chunk_size, shared_vars, chunk_offset, chunk_done, buffered,
                 written_so_far, w_res, main_vars, out>>

\* Count the bytes; when the block is complete go on with the chunk, or leave
\* it after a short block.
WorkerCounts(w) ==
  /\ pc[w] = "count"
  /\ bytes_written' = bytes_written + w_res[w]
  /\ written_so_far' = [written_so_far EXCEPT ![w] = @ + w_res[w]]
  /\ IF written_so_far'[w] < buffered[w]
     THEN GoTo(w, "write") /\ UNCHANGED chunk_done
     ELSE /\ chunk_done' = [chunk_done EXCEPT ![w] = @ + buffered[w]]
          /\ GoTo(w, IF buffered[w] < CurLen(w) THEN "top" ELSE "block")
  /\ UNCHANGED <<cfg, chunk_size, next_chunk_offset, active_workers, abort_requested,
                 error_code, chunk_offset, buffered, w_res, main_vars, out>>

(***************************************************************************)
(* An abort is seen before the write, or while waiting for it: then some   *)
(* of it may have reached the output without being counted.                *)
(***************************************************************************)
WorkerAbandonsWrite(w) ==
  /\ pc[w] = "write"
  /\ abort_requested
  /\ \E n \in 0..(buffered[w] - written_so_far[w]) : out' = Written(w, n)
  /\ GoTo(w, "top")
  /\ UNCHANGED <<cfg, chunk_size, shared_vars, chunk_offset, chunk_done, buffered,
                 written_so_far, w_res, main_vars>>

WorkerLeaves(w) ==
  /\ pc[w] = "leave"
  /\ active_workers' = active_workers - 1
  /\ GoTo(w, "gone")
  /\ UNCHANGED <<cfg, chunk_size, next_chunk_offset, bytes_written, abort_requested,
                 error_code, chunk_offset, chunk_done, buffered, written_so_far,
                 w_res, main_vars, out>>

------------------------------------------------------------------------------
(* init_sharded_uring: starting the workers                                  *)

SpawnWorker(w) ==
  /\ mpc = "spawn"
  /\ pc[w] = "none"
  /\ GoTo(w, "top")
  /\ UNCHANGED <<cfg, chunk_size, shared_vars, chunk_offset, chunk_done, buffered,
                 written_so_far, w_res, main_vars, out>>

AllSpawned ==
  /\ mpc = "spawn"
  /\ \A w \in Workers : pc[w] # "none"
  /\ mpc' = "loop"
  /\ UNCHANGED <<cfg, chunk_size, shared_vars, worker_vars, w_bytes, exit_status, out>>

\* pthread_create fails: stop the workers that run already, join them and
\* leave the copy to the single-ring backend.
SpawnFails ==
  /\ mpc = "spawn"
  /\ \E w \in Workers : pc[w] = "none"
  /\ abort_requested' = TRUE
  /\ mpc' = "join_spawned"
  /\ UNCHANGED <<cfg, chunk_size, next_chunk_offset, bytes_written, active_workers,
                 error_code, worker_vars, w_bytes, exit_status, out>>

JoinSpawned ==
  /\ mpc = "join_spawned"
  /\ \A w \in Workers : pc[w] \in {"none", "gone"}
  /\ mpc' = "fallback"
  /\ UNCHANGED <<cfg, chunk_size, shared_vars, worker_vars, w_bytes, exit_status, out>>

------------------------------------------------------------------------------
(* dd_copy's loop around uring_sharded_step, and uring_driver_cleanup        *)

LimitCheck ==
  /\ mpc = "loop"
  /\ mpc' = IF cfg.bytes_to_copy >= 0 /\ w_bytes >= cfg.bytes_to_copy
            THEN "cleanup" ELSE "load_bytes"
  /\ UNCHANGED <<cfg, chunk_size, shared_vars, worker_vars, w_bytes, exit_status, out>>

LoadBytes ==
  /\ mpc = "load_bytes"
  /\ w_bytes' = bytes_written
  /\ mpc' = "load_abort"
  /\ UNCHANGED <<cfg, chunk_size, shared_vars, worker_vars, exit_status, out>>

LoadAbort ==
  /\ mpc = "load_abort"
  /\ IF abort_requested
     THEN mpc' = "cleanup" /\ exit_status' = "failure"
     ELSE mpc' = "load_active" /\ UNCHANGED exit_status
  /\ UNCHANGED <<cfg, chunk_size, shared_vars, worker_vars, w_bytes, out>>

\* Fault: the first worker to leave ends the copy.
LoadActive_AnyGone ==
  /\ mpc = "load_active"
  /\ mpc' = IF active_workers < NumWorkers THEN "cleanup" ELSE "loop"
  /\ UNCHANGED <<cfg, chunk_size, shared_vars, worker_vars, w_bytes, exit_status, out>>

\* Nobody works any more: end of the copy.
LoadActive ==
  /\ mpc = "load_active"
  /\ mpc' = IF active_workers = 0 THEN "cleanup" ELSE "loop"
  /\ UNCHANGED <<cfg, chunk_size, shared_vars, worker_vars, w_bytes, exit_status, out>>

Cleanup ==
  /\ mpc = "cleanup"
  /\ abort_requested' = TRUE
  /\ mpc' = "join"
  /\ UNCHANGED <<cfg, chunk_size, next_chunk_offset, bytes_written, active_workers,
                 error_code, worker_vars, w_bytes, exit_status, out>>

\* Fault: only the first worker is joined.
Join_First ==
  /\ mpc = "join"
  /\ \E w \in Workers : pc[w] = "gone"
  /\ mpc' = "done"
  /\ UNCHANGED <<cfg, chunk_size, shared_vars, worker_vars, w_bytes, exit_status, out>>

Join ==
  /\ mpc = "join"
  /\ \A w \in Workers : pc[w] = "gone"
  /\ mpc' = "done"
  /\ UNCHANGED <<cfg, chunk_size, shared_vars, worker_vars, w_bytes, exit_status, out>>

Stopped == mpc \in {"done", "fallback"}
Idle == Stopped /\ UNCHANGED vars

------------------------------------------------------------------------------
Worker(w) ==
  \/ WorkerClaims(w) \/ WorkerSeesAbort(w) \/ WorkerLeavesChunk(w) \/ WorkerReads(w)
  \/ WorkerFails(w) \/ WorkerStoresError(w) \/ WorkerWrites(w) \/ WorkerCounts(w)
  \/ WorkerWritesNothing(w) \/ WorkerAbandonsWrite(w) \/ WorkerLeaves(w)

Main ==
  \/ \E w \in Workers : SpawnWorker(w)
  \/ AllSpawned \/ SpawnFails \/ JoinSpawned
  \/ LimitCheck \/ LoadBytes \/ LoadAbort \/ LoadActive \/ Cleanup \/ Join

Next == (\E w \in Workers : Worker(w)) \/ Main \/ Idle

Spec == Init /\ [][Next]_vars

\* Every thread is scheduled; every submitted read and write completes.
FairSpec == Spec /\ WF_vars(Main) /\ \A w \in Workers : WF_vars(Worker(w))

------------------------------------------------------------------------------
TypeOK ==
  /\ cfg \in Configs
  /\ chunk_size \in Nat \ {0}
  /\ next_chunk_offset \in Nat /\ bytes_written \in Nat
  /\ active_workers \in Int
  /\ abort_requested \in BOOLEAN /\ error_code \in {0, 1}
  /\ pc \in [Workers -> {"none", "top", "block", "write", "count", "error", "leave",
                         "gone"}]
  /\ chunk_offset \in [Workers -> Nat] /\ chunk_done \in [Workers -> Nat]
  /\ buffered \in [Workers -> Nat] /\ written_so_far \in [Workers -> Nat]
  /\ w_res \in [Workers -> Nat]
  /\ mpc \in {"spawn", "join_spawned", "loop", "load_bytes", "load_abort",
              "load_active", "cleanup", "join", "done", "fallback"}
  /\ w_bytes \in Nat /\ exit_status \in {"success", "failure"}
  /\ out \in [1..cfg.total_bytes -> Nat]

Copying(w) == pc[w] \in {"block", "write", "count"}

\* No two workers ever copy overlapping parts of the file.
ChunksDisjoint ==
  \A v, w \in Workers :
    v # w /\ Copying(v) /\ Copying(w) =>
      \/ chunk_offset[v] + ChunkLen(v) <= chunk_offset[w]
      \/ chunk_offset[w] + ChunkLen(w) <= chunk_offset[v]

\* Every byte in the output is the input's byte of the same position.
InPlace == \A p \in DOMAIN out : out[p] \in {0, p}

\* Where the output has bytes, and where w's last write put some that are not
\* counted yet.
Landed == {p \in DOMAIN out : out[p] # 0}

Uncounted(w) ==
  IF pc[w] = "count"
  THEN Position(w) + written_so_far[w] + 1 .. Position(w) + written_so_far[w] + w_res[w]
  ELSE {}

(***************************************************************************)
(* The shared counter is the number of bytes in the output but for writes  *)
(* completed and not counted yet: none is written or counted twice, short  *)
(* writes included.                                                        *)
(***************************************************************************)
BytesAccounted ==
  ~abort_requested =>
    bytes_written = Cardinality(Landed \ UNION {Uncounted(w) : w \in Workers})

(***************************************************************************)
(* The workers claim parts of their own, and what is in the output is in   *)
(* its place and counted once, while they write and cut writes short       *)
(* (io_uring.c:148, 230-307).                                              *)
(***************************************************************************)
OutputAccounted == ChunksDisjoint /\ InPlace /\ BytesAccounted

Complete == \A p \in 1..Least(cfg.source, cfg.total_bytes) : out[p] = p

Succeeded == mpc = "done" /\ exit_status = "success" /\ error_code = 0

\* Reads are short at the end of the file only, and no write is empty.
Exact == ~cfg.short_reads /\ ~cfg.empty_writes

(***************************************************************************)
(* Exit status 0 and no worker that failed: the chunks together make up    *)
(* the whole file, without a hole, whoever copied which.  Not so where a   *)
(* read is short in the middle of the file ("Short read signifies EOF",    *)
(* io_uring.c:304) or a write completes with 0 (io_uring.c:280): then the  *)
(* rest of the chunk is skipped.                                           *)
(***************************************************************************)
SuccessIsComplete == Succeeded /\ Exact => Complete

\* A failure is only reported when a worker failed.
FailureIsReal ==
  mpc = "done" /\ exit_status = "failure" => error_code # 0

\* The exit status says what happened to the file, whichever worker met the
\* end of the input or left last (io_uring.c:438-471).
OutcomeIsTrue == SuccessIsComplete /\ FailureIsReal

(***************************************************************************)
(* The workers together implement the copy in no particular order, where   *)
(* nothing else is taken for the end of the input (Exact) and no worker's  *)
(* failure is lost.                                                        *)
(***************************************************************************)
CopyStatus ==
  IF ~Stopped THEN "running"
  ELSE IF Succeeded /\ Exact THEN "ok" ELSE "abandoned"

Copy == INSTANCE ScatteredCopy WITH
          request <- [source |-> cfg.source, limit |-> cfg.total_bytes],
          out     <- {<<p, out[p]>> : p \in Landed},
          status  <- CopyStatus

ImplementsScatteredCopy == Copy!Spec

\* All threads stop and are joined.
Terminates == <>Stopped

(***************************************************************************)
(* "EXIT_FAILURE on fatal I/O error": a worker's error fails the copy.     *)
(***************************************************************************)
ErrorReported == mpc = "done" /\ error_code # 0 => exit_status = "failure"

==============================================================================
