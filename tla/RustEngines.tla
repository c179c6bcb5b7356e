----------------------------- MODULE RustEngines -----------------------------
(***************************************************************************)
(* execute_transfer_with_control of the Rust program                       *)
(* (src/rust/src/engine.rs): the engines are tried one after the other,    *)
(* reflink, splice, async, io_uring and at last the synchronous loop.      *)
(* Each opens the files for itself, and some of them, when they fail, let  *)
(* the next one start over with the same statistics.                       *)
(*                                                                         *)
(* Bytes are named by their position in the input; 0 is padding or a hole, *)
(* Old what the output held before.  Two engines have threads of their own *)
(* and modules for them: the pipeline's blocks go one after the other here *)
(* (AsyncPipeline), and what the workers of the sharded io_uring engine    *)
(* leave behind is one step (RustShards, which also has reads that end     *)
(* early).  --swab, --sparse, skip and seek are left out.                  *)
(***************************************************************************)
EXTENDS Integers, Sequences, FiniteSets

CONSTANTS
  Jobs,        \* the transfers considered
  CHUNK_SIZE   \* bytes under one leaf of a blks checksum (blks_core)

(***************************************************************************)
(* limit is -l and count is -c, -1 when absent; bad is the position of an  *)
(* unreadable byte, 0 when there is none.  A stdin delivers reads of any   *)
(* size.  "blks" says which checksum "hash" asks for.                       *)
(***************************************************************************)
Flags == {"hash", "blks", "sync", "direct", "nocache", "autotune", "notrunc", "noerror"}

JobType ==
  [engine : {"auto", "reflink", "splice", "async", "uring", "sync"},
   input : {"file", "device", "stdin", "missing"},
   output : {"file", "device", "stdout"},
   flags : SUBSET Flags, threads : Nat \ {0}, blocksize : Nat \ {0},
   limit : Nat \cup {-1}, count : Nat \cup {-1}, source : Nat, bad : Nat]

ASSUME JobsAssumption ==
  /\ Jobs \subseteq JobType
  /\ \A j \in Jobs : j.bad <= j.source
  /\ CHUNK_SIZE \in Nat \ {0}

VARIABLES
  job,
  stage,                       \* the engine being tried
  pc,                          \* "idle", "enter", "copy", "write", "rewrite", "done"
  in_off, out_off,             \* offsets of the open files
  bytes_read,                  \* input bytes in the current block
  pending,                     \* what is still to be written of it
  remaining, remaining_blocks, \* what the limits leave, -1 for no limit
  stats_bytes,                 \* stats, shared by all the engines tried
  hashed,
  out,
  cancel_flag,
  result,                      \* "none", "ok" or "err"
  abandoned,                   \* counted in stats by engines that gave up
  spilled                      \* bytes moved that no later engine makes good

limits    == <<remaining, remaining_blocks>>
offsets   == <<in_off, out_off>>
block     == <<bytes_read, pending>>
verdict   == <<result, abandoned, spilled>>
copy_vars == <<job, stage, pc, offsets, block, limits, stats_bytes, hashed, out, verdict>>
job_vars  == <<copy_vars, cancel_flag>>

Old == -1

Least(a, b) == IF a < b THEN a ELSE b

Has(flag) == flag \in job.flags

Named == job.input # "stdin" /\ job.output # "stdout"

InputBytes(position, n) == [i \in 1..n |-> position + i]

\* The output with bytes at a position of it.
WrittenAt(position, bytes) ==
  SubSeq(out, 1, position) \o bytes \o SubSeq(out, position + Len(bytes) + 1, Len(out))

\* Limits in bytes (reflink, splice, io_uring): -c counts whole blocks.
ByteLimit ==
  LET counted == job.count * job.blocksize
  IN  IF job.count < 0 THEN job.limit
      ELSE IF job.limit < 0 THEN counted ELSE Least(job.limit, counted)

\* What the transfer is to copy: as much as there is, within the limits.
Wanted ==
  IF ByteLimit >= 0 THEN Least(ByteLimit, job.source) ELSE job.source

\* ... and how much of it can be read.
Reach == IF job.bad > 0 THEN Least(Wanted, job.bad - 1) ELSE Wanted

OldContent(j) == IF j.output = "stdout" THEN << >> ELSE <<Old, Old>>

\* A transfer that has not begun.
FreshTransfer(j) ==
  /\ job = j /\ pc = "idle"
  /\ stage = "reflink"
  /\ in_off = 0 /\ out_off = 0 /\ bytes_read = 0 /\ pending = << >>
  /\ remaining = -1 /\ remaining_blocks = -1
  /\ stats_bytes = 0 /\ hashed = << >>
  /\ out = OldContent(j)
  /\ cancel_flag = FALSE
  /\ result = "none" /\ abandoned = 0 /\ spilled = FALSE

------------------------------------------------------------------------------
(* From one engine to the next                                               *)

After(s) ==
  CASE s = "reflink" -> "splice" [] s = "splice" -> "async"
    [] s = "async" -> "uring" [] OTHER -> "sync"

\* The conditions at the head of each part of execute_transfer_with_control.
Wants(s) ==
  CASE s = "reflink" ->
         /\ job.flags \cap {"hash", "sync", "direct", "nocache"} = {}
         /\ job.engine = "reflink" \/ (job.engine = "auto" /\ ~Has("autotune"))
         /\ job.threads = 1 /\ Named
    [] s = "splice" -> job.engine = "splice" /\ job.flags \cap {"hash", "sync"} = {}
    [] s = "async" -> job.engine = "async"
    [] s = "uring" ->
         /\ job.engine = "uring" \/ (job.engine = "auto" /\ job.threads > 1)
         /\ ~Has("sync") /\ Named
    [] OTHER -> TRUE

SkipEngine ==
  /\ pc = "enter"
  /\ ~Wants(stage)
  /\ stage' = After(stage)
  /\ UNCHANGED <<job, pc, offsets, block, limits, stats_bytes, hashed, out, verdict>>

\* open_output_file
Truncates == job.output = "file" /\ ~Has("notrunc")

Opened == IF Truncates THEN << >> ELSE out

\* Each engine starts from the beginning of the files; a stream goes on from
\* where it is.
OpenFiles ==
  /\ pc = "enter"
  /\ Wants(stage)
  /\ job.input # "missing"
  /\ pc' = "copy"
  /\ in_off' = IF job.input = "stdin" THEN in_off ELSE 0
  /\ out_off' = IF job.output = "stdout" THEN out_off ELSE 0
  /\ out' = Opened
  /\ bytes_read' = 0 /\ pending' = << >> /\ hashed' = << >>
  /\ remaining' = IF stage \in {"sync", "async"} THEN job.limit ELSE ByteLimit
  /\ remaining_blocks' = IF stage \in {"sync", "async"} THEN job.count ELSE -1
  /\ UNCHANGED <<job, stage, stats_bytes, verdict>>

\* The transfer fails.
Err == pc' = "done" /\ result' = "err" /\ UNCHANGED <<stage, abandoned, spilled>>

\* The input is opened first; its failure ends the transfer, but reflink opens
\* the output as well before it looks at either.
OpenInputFails ==
  /\ pc = "enter"
  /\ Wants(stage)
  /\ job.input = "missing"
  /\ IF stage = "reflink"
     THEN /\ stage' = After(stage) /\ out' = Opened
          /\ UNCHANGED <<pc, verdict>>
     ELSE Err /\ UNCHANGED out
  /\ UNCHANGED <<job, offsets, block, limits, stats_bytes, hashed>>

OpenOutputFails ==
  /\ pc = "enter"
  /\ Wants(stage)
  /\ job.output # "stdout" /\ job.input # "missing"
  /\ IF stage = "reflink"
     THEN stage' = After(stage) /\ UNCHANGED <<pc, verdict>>
     ELSE Err
  /\ UNCHANGED <<job, offsets, block, limits, stats_bytes, hashed, out>>

\* The next engine takes over, with statistics that go on.
Abandon(counted, lost) ==
  /\ pc' = "enter" /\ stage' = After(stage)
  /\ abandoned' = counted
  /\ spilled' = (spilled \/ lost)
  /\ UNCHANGED result

\* What this engine took from a stream or put into one cannot be taken back.
GiveUp ==
  Abandon(stats_bytes, \/ job.input = "stdin" /\ in_off > 0
                       \/ job.output = "stdout" /\ out_off > 0)

\* What an error means to the engine: splice and io_uring ignore which one.
Fails == IF stage \in {"splice", "uring"} THEN GiveUp ELSE Err

------------------------------------------------------------------------------
(* Copying                                                                   *)

\* Limit in bytes of the sharded engine, which looks at -c only without -l.
ShardLimit ==
  IF job.limit >= 0 THEN job.limit
  ELSE IF job.count >= 0 THEN job.count * job.blocksize ELSE -1

ShardedWanted ==
  IF ShardLimit >= 0 THEN Least(ShardLimit, job.source) ELSE job.source

\* The length is that of the file, 0 for a device.
EffectiveLength == IF job.input = "file" THEN ShardedWanted ELSE 0

\* execute_uring_transfer: several workers, unless they could not compute the
\* checksum.
Sharded ==
  /\ stage = "uring" /\ job.threads > 1
  /\ Has("hash") =>
       Has("blks") /\ job.blocksize % CHUNK_SIZE = 0 /\ EffectiveLength > CHUNK_SIZE

Regular == job.input = "file" /\ job.output = "file"

\* The engines that copy one block after the other.  (reflink looks at the types
\* of the files before anything else.)
Copying(stages) ==
  /\ pc = "copy" /\ stage \in stages /\ ~Sharded
  /\ stage = "reflink" => Regular

Streaming == {"reflink", "splice", "async", "uring", "sync"}

LimitReached == remaining = 0 \/ remaining_blocks = 0

\* Bytes that can be read before the end of the input or an unreadable one.
Readable ==
  IF job.bad > in_off THEN job.bad - 1 - in_off ELSE job.source - in_off

AtBad == job.bad = in_off + 1

Ok == pc' = "done" /\ result' = "ok" /\ UNCHANGED <<stage, abandoned, spilled>>

\* The pipeline returns Ok, unless its reader, which is ahead, has met an error.
CancelVerdict ==
  IF stage # "async" THEN Fails
  ELSE Ok \/ (job.bad \in (in_off + 1)..Wanted /\ ~Has("noerror") /\ Err)

\* Fault: an unreadable block is tried again without a look at the flag.
Cancelled_NotInRetry ==
  /\ Copying(Streaming)
  /\ cancel_flag /\ ~(AtBad /\ Has("noerror"))
  /\ CancelVerdict
  /\ UNCHANGED <<job, offsets, block, limits, stats_bytes, hashed, out>>

Cancelled ==
  /\ Copying(Streaming)
  /\ cancel_flag
  /\ CancelVerdict
  /\ UNCHANGED <<job, offsets, block, limits, stats_bytes, hashed, out>>

\* The limit or the end of the input.  Results of sync_data are ignored.
Finished ==
  /\ Copying(Streaming)
  /\ ~cancel_flag
  /\ LimitReached \/ (in_off = job.source /\ ~AtBad)
  /\ Ok
  /\ UNCHANGED <<job, offsets, block, limits, stats_bytes, hashed, out>>

\* The kernel refuses: copy_file_range needs regular files on file systems
\* that support it, splice two descriptors that do, io_uring a ring.
Unsupported ==
  /\ pc = "copy"
  /\ \/ stage = "reflink" /\ ~Regular
     \/ Copying({"reflink", "splice", "uring"}) /\ ~cancel_flag /\ stats_bytes = 0
  /\ IF stage = "reflink" /\ job.engine = "reflink" THEN Err ELSE GiveUp
  /\ UNCHANGED <<job, offsets, block, limits, stats_bytes, hashed, out>>

BlockSizes ==
  LET want == IF remaining >= 0 THEN Least(remaining, job.blocksize) ELSE job.blocksize
      most == Least(want, Readable)
  IN  IF job.input = "stdin" THEN 1..most ELSE {most} \ {0}

\* copy_file_range moves bytes and counts them in one go.
CopyRange ==
  /\ Copying({"reflink"})
  /\ ~cancel_flag /\ ~LimitReached
  /\ \E n \in BlockSizes :
       /\ out' = WrittenAt(out_off, InputBytes(in_off, n))
       /\ in_off' = in_off + n /\ out_off' = out_off + n
       /\ stats_bytes' = stats_bytes + n
       /\ remaining' = IF remaining >= 0 THEN remaining - n ELSE remaining
  /\ UNCHANGED <<job, stage, pc, block, remaining_blocks, hashed, verdict>>

\* Fault: what is hashed is the padded block.
HashBytes_Padded(bytes, pad) == bytes \o pad

\* --sync pads a block after it was hashed.
HashBytes(bytes, pad) == bytes

Padding(n) ==
  IF stage \in {"sync", "async"} /\ Has("sync")
  THEN [i \in 1..(job.blocksize - n) |-> 0] ELSE << >>

\* A block is read, hashed and padded.  (The limits are counted down at the
\* end of the block in the code, where nothing else sees them before.)
ReadBlock ==
  /\ Copying(Streaming \ {"reflink"})
  /\ ~cancel_flag /\ ~LimitReached
  /\ \E n \in BlockSizes :
       LET bytes == InputBytes(in_off, n)
       IN  /\ bytes_read' = n
           /\ pending' = bytes \o Padding(n)
           /\ hashed' = IF Has("hash") THEN hashed \o HashBytes(bytes, Padding(n)) ELSE hashed
           /\ in_off' = in_off + n
           /\ remaining' = IF remaining >= 0 THEN remaining - n ELSE remaining
  /\ remaining_blocks' = IF remaining_blocks >= 0 THEN remaining_blocks - 1
                         ELSE remaining_blocks
  /\ pc' = "write"
  /\ UNCHANGED <<job, stage, out_off, stats_bytes, out, verdict>>

\* The synchronous loop and the pipeline try an unreadable position again under
\* --noerror.
ReadFails ==
  /\ Copying(Streaming)
  /\ ~cancel_flag /\ ~LimitReached
  /\ AtBad
  /\ IF stage \in {"sync", "async"} /\ Has("noerror") THEN UNCHANGED <<pc, stage, verdict>> ELSE Fails
  /\ UNCHANGED <<job, offsets, block, limits, stats_bytes, hashed, out>>

Rest(m) == SubSeq(pending, m + 1, Len(pending))

\* write_all and the write loops of splice and io_uring: all of the block, in
\* pieces; its input bytes are counted when it is out.
WriteSome ==
  /\ pc \in {"write", "rewrite"}
  /\ \E m \in 1..Len(pending) :
       /\ out' = WrittenAt(out_off, SubSeq(pending, 1, m))
       /\ out_off' = out_off + m
       /\ IF m = Len(pending)
          THEN /\ pending' = << >> /\ pc' = "copy"
               /\ stats_bytes' = stats_bytes + bytes_read
          ELSE /\ pending' = Rest(m)
               /\ UNCHANGED <<pc, stats_bytes>>
  /\ UNCHANGED <<job, stage, in_off, bytes_read, limits, hashed, verdict>>

WriteFails ==
  /\ pc \in {"write", "rewrite"} \/ (Copying({"reflink"}) /\ ~cancel_flag /\ ~LimitReached)
  /\ Fails
  /\ UNCHANGED <<job, offsets, block, limits, stats_bytes, hashed, out>>

\* With --direct a failed write, which may be due to an unaligned tail, is tried
\* once more on the file opened without O_DIRECT: all of the block, from where
\* the first attempt has got to.
WriteAgain ==
  /\ pc = "write"
  /\ stage \in {"sync", "async"} /\ Has("direct") /\ job.output # "stdout"
  /\ LET bytes == InputBytes(in_off - bytes_read, bytes_read)
     IN  /\ pending' = bytes \o Padding(bytes_read)
         /\ spilled' = (spilled \/ pending # pending')
  /\ pc' = "rewrite"
  /\ UNCHANGED <<job, stage, offsets, bytes_read, limits, stats_bytes, hashed, out,
                 result, abandoned>>

\* -c counts reads, however short: those of a stream, or the last one before an
\* unreadable byte.
CutShort(n) ==
  /\ job.count > 0 /\ n \in job.count..Wanted
  /\ job.input = "stdin" \/ (n = job.bad - 1 /\ n > (job.count - 1) * job.blocksize)

\* The workers have copied all there is: they stop at an end of the input
\* without an error, and between two chunks when the transfer is cancelled.
ShardedCopies ==
  /\ pc = "copy" /\ Sharded
  /\ \E n \in 0..ShardedWanted :
       /\ n = ShardedWanted \/ cancel_flag
       /\ job.bad \notin 1..n
       /\ out' = WrittenAt(0, InputBytes(0, n))
       /\ stats_bytes' = stats_bytes + n
       /\ hashed' = IF Has("hash") THEN InputBytes(0, n) ELSE hashed
  /\ Ok
  /\ UNCHANGED <<job, offsets, block, limits>>

\* The output with the bytes at some positions written, up to a length.
Scattered(positions, length) ==
  [i \in 1..length |->
     IF i \in positions THEN i ELSE IF i <= Len(out) THEN out[i] ELSE 0]

\* A worker has no ring, meets an error or the cancel flag inside a chunk: it
\* and the others have written here and there, and counted no more than that.
\* The synchronous loop does not get to what is behind its own limits.
ShardedFails ==
  /\ pc = "copy" /\ Sharded
  /\ \E positions \in SUBSET (1..ShardedWanted \ {job.bad}),
        length \in Len(out)..(Len(out) + ShardedWanted) :
       /\ positions \subseteq 1..length
       /\ length = Len(out) \/ length \in positions
       /\ out' = Scattered(positions, length)
       /\ \E counted \in 0..Cardinality(positions) :
            /\ stats_bytes' = stats_bytes + counted
            /\ Abandon(stats_bytes', ~Truncates /\ ~(positions \subseteq 1..Reach))
  /\ UNCHANGED <<job, offsets, block, limits, hashed>>

Engines ==
  \/ SkipEngine \/ OpenFiles \/ OpenInputFails \/ OpenOutputFails
  \/ Cancelled \/ Finished \/ Unsupported \/ CopyRange \/ ReadBlock
  \/ ReadFails \/ WriteSome \/ WriteFails \/ WriteAgain \/ ShardedCopies
  \/ ShardedFails

==============================================================================
