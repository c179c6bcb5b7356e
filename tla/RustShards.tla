----------------------------- MODULE RustShards -----------------------------
(***************************************************************************)
(* The io_uring engine of the Rust program (src/rust/src/uring.rs):        *)
(* execute_uring_transfer chooses between one ring and several workers     *)
(* that share nothing but an offset, two flags and the byte count.  A      *)
(* worker hashes the leaves of its stripes; the tree is put together when  *)
(* all have been joined.                                                   *)
(*                                                                         *)
(* Bytes are named by their position in the input.  skip and seek are 0.   *)
(***************************************************************************)
EXTENDS BlksTree, FiniteSets, SequencesExt

CONSTANTS
  Transfers,  \* the transfers considered
  STRIPE,     \* 64 MiB in the code
  MaxThreads  \* 64 in the code

\* limit is -l and count is -c, -1 when absent; sized says that metadata()
\* tells the length of the input, which it does not for a device.
TransferType ==
  [threads : 1..MaxThreads, blocksize : Nat \ {0}, limit : Nat \cup {-1},
   count : Nat \cup {-1}, hash : {"none", "blks"}, source : Nat, sized : BOOLEAN]

ASSUME ShardsAssumption ==
  /\ Transfers \subseteq TransferType
  /\ STRIPE \in Nat \ {0} /\ STRIPE % CHUNK_SIZE = 0 /\ STRIPE > CHUNK_SIZE

VARIABLES
  transfer,
  mode,         \* "start", "single", "sharded" or "done"
  next_offset, abort_flag, cancel_flag,
  worker,       \* the threads
  hasher,       \* of the single ring
  in_offset,    \* of the single ring
  stats_bytes,
  out,          \* byte at each position of the output, 0 when unwritten
  ragged,       \* a worker's read ended inside a leaf, before the end
  result        \* "none", "ok" or "err"

shared == <<next_offset, abort_flag>>
single == <<hasher, in_offset>>
ending == <<mode, result>>
vars   == <<transfer, shared, cancel_flag, worker, single, stats_bytes, out, ragged, ending>>

Hashes == transfer.hash = "blks"

ExplicitLimit ==
  IF transfer.limit >= 0 THEN transfer.limit
  ELSE IF transfer.count >= 0 THEN transfer.count * transfer.blocksize ELSE -1

FileLength == IF transfer.sized THEN transfer.source ELSE 0

\* can_parallel_blks
CanParallelBlks ==
  /\ Hashes
  /\ transfer.blocksize % CHUNK_SIZE = 0
  /\ (IF ExplicitLimit >= 0 THEN Least(ExplicitLimit, FileLength) ELSE FileLength) > CHUNK_SIZE

Sharded == transfer.threads > 1 /\ (~Hashes \/ CanParallelBlks)

ChunkSize == IF transfer.blocksize > STRIPE THEN transfer.blocksize ELSE STRIPE

\* total_bytes_to_copy, -1 for None
TotalBytes ==
  IF ExplicitLimit >= 0 THEN ExplicitLimit
  ELSE IF FileLength > 0 THEN FileLength ELSE -1

NewWorker ==
  [pc |-> "init", base |-> 0, done |-> 0, block |-> << >>, written |-> 0,
   leaves |-> << >>, stripes |-> << >>, failed |-> FALSE]

Workers == 1..Len(worker)

Init ==
  /\ transfer \in Transfers
  /\ mode = "start"
  /\ next_offset = 0 /\ abort_flag = FALSE /\ cancel_flag = FALSE
  /\ worker = << >>
  /\ hasher = NewHasher /\ in_offset = 0
  /\ stats_bytes = 0
  /\ out = [i \in 1..transfer.source |-> 0]
  /\ ragged = FALSE
  /\ result = "none"

Start ==
  /\ mode = "start"
  /\ mode' = IF Sharded THEN "sharded" ELSE "single"
  /\ worker' = IF Sharded THEN [w \in 1..transfer.threads |-> NewWorker] ELSE << >>
  /\ UNCHANGED <<transfer, shared, cancel_flag, single, stats_bytes, out, ragged, result>>

InputBytes(position, n) == [i \in 1..n |-> position + i]

WrittenAt(position, bytes) ==
  [i \in 1..Len(out) |->
     IF i - position \in 1..Len(bytes) THEN bytes[i - position] ELSE out[i]]

Cancel ==
  /\ mode \in {"single", "sharded"}
  /\ cancel_flag' = TRUE
  /\ UNCHANGED <<transfer, shared, worker, single, stats_bytes, out, ragged, ending>>

------------------------------------------------------------------------------
(* One ring                                                                  *)

\* Here both limits count.
SingleLimit ==
  LET counted == transfer.count * transfer.blocksize
  IN  IF transfer.count < 0 THEN transfer.limit
      ELSE IF transfer.limit < 0 THEN counted ELSE Least(transfer.limit, counted)

SingleLeft ==
  IF SingleLimit >= 0 THEN Least(SingleLimit, transfer.source) - in_offset
  ELSE transfer.source - in_offset

\* A block is read, hashed and written; RustEngines has the steps in between.
SingleBlock ==
  /\ mode = "single"
  /\ ~cancel_flag
  /\ \E n \in 1..Least(transfer.blocksize, SingleLeft) :
       /\ hasher' = IF Hashes THEN Update(hasher, InputBytes(in_offset, n)) ELSE hasher
       /\ out' = WrittenAt(in_offset, InputBytes(in_offset, n))
       /\ in_offset' = in_offset + n
       /\ stats_bytes' = stats_bytes + n
  /\ UNCHANGED <<transfer, shared, cancel_flag, worker, ragged, ending>>

Finish(outcome) == mode' = "done" /\ result' = outcome

SingleEnds ==
  /\ mode = "single"
  /\ \/ ~cancel_flag /\ SingleLeft = 0 /\ Finish("ok")
     \/ cancel_flag /\ Finish("err")
  /\ UNCHANGED <<transfer, shared, cancel_flag, worker, single, stats_bytes, out, ragged>>

\* The ring cannot be set up, a read or a write fails.
SingleFails ==
  /\ mode = "single"
  /\ Finish("err")
  /\ UNCHANGED <<transfer, shared, cancel_flag, worker, single, stats_bytes, out, ragged>>

------------------------------------------------------------------------------
(* A worker                                                                  *)

At(w, pc) == mode = "sharded" /\ w \in Workers /\ worker[w].pc = pc

\* Fault: the last stripe is not cut at the limit.
ChunkLen_Whole(w) == ChunkSize

ChunkLen(w) ==
  IF TotalBytes >= 0 THEN Least(TotalBytes - worker[w].base, ChunkSize) ELSE ChunkSize

Position(w) == worker[w].base + worker[w].done

\* A stripe that has leaves is kept for the tree.
Kept(w, leaves) ==
  IF leaves # << >> THEN Append(worker[w].stripes, [base |-> worker[w].base, leaves |-> leaves])
  ELSE worker[w].stripes

Ends(w, failed) == worker' = [worker EXCEPT ![w].pc = "ended", ![w].failed = failed]

WorkerStarts(w) ==
  /\ At(w, "init")
  /\ \/ worker' = [worker EXCEPT ![w].pc = "top"]
     \/ Ends(w, TRUE)
  /\ UNCHANGED <<transfer, shared, cancel_flag, single, stats_bytes, out, ragged, ending>>

WorkerGoesOn(w) ==
  /\ At(w, "top")
  /\ ~abort_flag /\ ~cancel_flag
  /\ worker' = [worker EXCEPT ![w].pc = "claim"]
  /\ UNCHANGED <<transfer, shared, cancel_flag, single, stats_bytes, out, ragged, ending>>

\* Fault: the flags are looked at once more after the claim.
WorkerLeaves_AfterClaim(w) ==
  /\ At(w, "top") \/ (At(w, "chunk") /\ worker[w].done = 0)
  /\ abort_flag \/ cancel_flag
  /\ Ends(w, FALSE)
  /\ UNCHANGED <<transfer, shared, cancel_flag, single, stats_bytes, out, ragged, ending>>

\* Also when the user has cancelled: what is done so far is returned as Ok.
WorkerLeaves(w) ==
  /\ At(w, "top")
  /\ abort_flag \/ cancel_flag
  /\ Ends(w, FALSE)
  /\ UNCHANGED <<transfer, shared, cancel_flag, single, stats_bytes, out, ragged, ending>>

\* Fault: the offset moves on by a block only.
Claimed_Block == next_offset + transfer.blocksize

\* fetch_add
Claimed == next_offset + ChunkSize

WorkerClaims(w) ==
  /\ At(w, "claim")
  /\ next_offset' = Claimed
  /\ IF TotalBytes >= 0 /\ next_offset >= TotalBytes
     THEN Ends(w, FALSE)
     ELSE worker' = [worker EXCEPT ![w].pc = "chunk", ![w].base = next_offset,
                                   ![w].done = 0, ![w].leaves = << >>]
  /\ UNCHANGED <<transfer, abort_flag, cancel_flag, single, stats_bytes, out, ragged, ending>>

WorkerCancelled(w) ==
  /\ At(w, "chunk")
  /\ cancel_flag
  /\ Ends(w, TRUE)
  /\ UNCHANGED <<transfer, shared, cancel_flag, single, stats_bytes, out, ragged, ending>>

\* A read of any length up to what is asked for is cut into leaves.
WorkerReads(w) ==
  /\ At(w, "chunk")
  /\ ~cancel_flag
  /\ LET to_read == Least(ChunkLen(w) - worker[w].done, transfer.blocksize)
         most    == Least(to_read, transfer.source - Position(w))
     IN  \E n \in 1..most :
           LET bytes == InputBytes(Position(w), n)
           IN  /\ worker' = [worker EXCEPT
                      ![w].pc = "write", ![w].block = bytes, ![w].written = 0,
                      ![w].leaves = IF Hashes THEN @ \o Leaves(bytes) ELSE @]
               /\ ragged' = (ragged \/ (Hashes /\ n < most /\ n % CHUNK_SIZE # 0))
  /\ UNCHANGED <<transfer, shared, cancel_flag, single, stats_bytes, out, ending>>

\* Fault: an empty read is tried again like an interrupted one.
WorkerMeetsEnd_Retries(w) ==
  At(w, "chunk") /\ Position(w) >= transfer.source /\ UNCHANGED vars

\* Nothing beyond is to be claimed; the stripes below are all claimed already.
WorkerMeetsEnd(w) ==
  /\ At(w, "chunk")
  /\ ~cancel_flag
  /\ Position(w) >= transfer.source
  /\ abort_flag' = TRUE
  /\ worker' = [worker EXCEPT ![w].pc = "ended",
                              ![w].stripes = Kept(w, worker[w].leaves)]
  /\ UNCHANGED <<transfer, next_offset, cancel_flag, single, stats_bytes, out, ragged, ending>>

\* A failure of the ring itself, unlike one of a read or a write, does not stop
\* the other workers.
WorkerFails(w) ==
  /\ At(w, "write") \/ (At(w, "chunk") /\ ~cancel_flag)
  /\ abort_flag' \in {TRUE, abort_flag}
  /\ Ends(w, TRUE)
  /\ UNCHANGED <<transfer, next_offset, cancel_flag, single, stats_bytes, out, ragged, ending>>

\* Short writes are continued; after the last the block is counted, and after
\* the last block the stripe is done.
WorkerWrites(w) ==
  /\ At(w, "write")
  /\ \E m \in 1..(Len(worker[w].block) - worker[w].written) :
       LET written == worker[w].written + m
           done    == worker[w].done + Len(worker[w].block)
       IN  /\ out' = WrittenAt(Position(w) + worker[w].written,
                               SubSeq(worker[w].block, worker[w].written + 1, written))
           /\ IF written < Len(worker[w].block)
              THEN worker' = [worker EXCEPT ![w].written = written] /\ UNCHANGED stats_bytes
              ELSE /\ stats_bytes' = stats_bytes + Len(worker[w].block)
                   /\ worker' = [worker EXCEPT
                        ![w].block = << >>, ![w].written = 0, ![w].done = done,
                        ![w].pc = IF done = ChunkLen(w) THEN "top" ELSE "chunk",
                        ![w].leaves = IF done = ChunkLen(w) THEN << >> ELSE @,
                        ![w].stripes = IF done = ChunkLen(w) THEN Kept(w, worker[w].leaves)
                                       ELSE @]
  /\ UNCHANGED <<transfer, shared, cancel_flag, single, ragged, ending>>

------------------------------------------------------------------------------
(* The end                                                                   *)

Joined ==
  /\ mode = "sharded"
  /\ \A w \in Workers : worker[w].pc = "ended"
  /\ Finish(IF \E w \in Workers : worker[w].failed THEN "err" ELSE "ok")
  /\ UNCHANGED <<transfer, shared, cancel_flag, worker, single, stats_bytes, out, ragged>>

\* Fault: the stripes stay in the order of the workers.
Sorted_Not(stripes) == stripes

\* sort_unstable_by_key
Sorted(stripes) ==
  LET order == CHOOSE p \in Bijection(DOMAIN stripes, DOMAIN stripes) :
                 \A i, j \in DOMAIN stripes :
                   i < j => stripes[p[i]].base <= stripes[p[j]].base
  IN  [i \in DOMAIN stripes |-> stripes[order[i]]]

AllLeaves ==
  LET sorted == Sorted(FlattenSeq([w \in Workers |-> worker[w].stripes]))
  IN  FlattenSeq([i \in 1..Len(sorted) |-> sorted[i].leaves])

\* The digest returned with Ok.
Digest ==
  IF ~Sharded THEN Finalize(hasher)
  ELSE IF AllLeaves = << >> THEN "none" ELSE ReduceNodes(AllLeaves, TRUE)

Worker(w) ==
  \/ WorkerStarts(w) \/ WorkerGoesOn(w) \/ WorkerLeaves(w) \/ WorkerClaims(w)
  \/ WorkerCancelled(w) \/ WorkerReads(w) \/ WorkerMeetsEnd(w) \/ WorkerWrites(w)

Caller == Start \/ SingleBlock \/ SingleEnds \/ Joined

Next ==
  \/ Caller \/ SingleFails \/ Cancel
  \/ \E w \in Workers : Worker(w) \/ WorkerFails(w)

Spec == Init /\ [][Next]_vars

\* The caller joins, and each worker is a thread of the kernel's; neither has
\* to fail.
FairSpec == Spec /\ WF_vars(Caller) /\ \A w \in 1..MaxThreads : WF_vars(Worker(w))

------------------------------------------------------------------------------
(* Properties                                                                *)

\* Stripes begin where a stripe begins and are never begun twice.
TypeOK ==
  /\ mode \in {"start", "single", "sharded", "done"}
  /\ result \in {"none", "ok", "err"}
  /\ stats_bytes \in 0..transfer.source
  /\ \A w \in Workers :
       /\ worker[w].pc \in {"init", "top", "claim", "chunk", "write", "ended"}
       /\ worker[w].base % ChunkSize = 0 /\ worker[w].done <= ChunkSize
       /\ \A v \in Workers \ {w} :
            worker[w].pc \in {"chunk", "write"} /\ worker[v].pc \in {"chunk", "write"}
              => worker[w].base # worker[v].base

\* What the engine copies when nobody stops it.
Wanted ==
  LET limit == IF Sharded THEN ExplicitLimit ELSE SingleLimit
  IN  IF limit >= 0 THEN Least(limit, transfer.source) ELSE transfer.source

Copied == InputBytes(0, stats_bytes)

\* Ok means a gapless output, although the stripes are copied in any order and
\* the end of the input may be met by any worker first; all of it, unless the
\* user has cancelled (the workers then leave with Ok, uring.rs:242).
OkIsPrefix ==
  result = "ok" =>
    /\ stats_bytes = Wanted \/ (Sharded /\ cancel_flag)
    /\ out = Copied \o [i \in 1..(transfer.source - stats_bytes) |-> 0]

\* "Guarantees bit-exact identical tree structures across multithreaded and
\* streaming paths" (tree.rs:111): the digest of an Ok transfer is that of the
\* bytes it copied, from the incremental hasher fed with blocks of any size as
\* well as from leaves hashed by several workers, as long as no worker's read
\* ends inside a leaf.
DigestIsCanonical ==
  result = "ok" /\ Hashes /\ ~ragged =>
    IF Sharded /\ stats_bytes = 0 THEN AllLeaves = << >> ELSE Digest = HashSlice(Copied)

(***************************************************************************)
(* One ring or several implement the copy in no particular order; an Ok    *)
(* after the user has cancelled promises nothing.                          *)
(***************************************************************************)
CopyStatus ==
  IF mode # "done" THEN "running"
  ELSE IF result = "ok" /\ ~(Sharded /\ cancel_flag) THEN "ok" ELSE "abandoned"

Copy == INSTANCE ScatteredCopy WITH
          request <- [source |-> transfer.source,
                      limit  |-> IF Sharded THEN ExplicitLimit ELSE SingleLimit],
          out     <- {<<p, out[p]>> : p \in {i \in DOMAIN out : out[i] # 0}},
          status  <- CopyStatus

ImplementsScatteredCopy == Copy!Spec

\* The workers end and are joined, whoever fails or finds the end.
Terminates == <>(mode = "done")

=============================================================================
