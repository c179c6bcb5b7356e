---------------------------- MODULE AsyncPipeline ----------------------------
(***************************************************************************)
(* The asynchronous backend of the Rust program (execute_async_transfer in *)
(* src/rust/src/engine.rs): a reader thread, the calling thread as writer  *)
(* and a hasher thread, connected by three bounded channels.  queue_depth  *)
(* buffers travel round: recycle -> reader -> data -> writer -> hash ->    *)
(* hasher -> recycle (or straight back from the writer without a hash).    *)
(*                                                                         *)
(* A buffer is owned by one thread at a time (a move in Rust), so only the *)
(* blocks they carry and the number of free ones are modelled.  A byte is  *)
(* named by its position in the input; of --sync's padding only the amount *)
(* is kept.  --swab permutes bytes within a block and --sparse seeks over  *)
(* a zero block: neither changes which block goes where.                   *)
(***************************************************************************)
EXTENDS Integers, Sequences, SequencesExt

CONSTANT
  Configs     \* the configurations and inputs considered

(***************************************************************************)
(* limit and count are -1 when not given; noerror: --noerror; direct:      *)
(* --direct with an output file; cancellable: run from the TUI; bad: the   *)
(* position of the input that can never be read, 0 when there is none.     *)
(***************************************************************************)
ConfigType ==
  [queue_depth : Nat \ {0}, block_size : Nat \ {0}, limit : Nat \cup {-1},
   count : Nat \cup {-1}, has_hash : BOOLEAN, sync : BOOLEAN, noerror : BOOLEAN,
   direct : BOOLEAN, cancellable : BOOLEAN, source : Nat, bad : Nat]

ASSUME ConfigsAssumption ==
  /\ Configs \subseteq ConfigType
  /\ \A c \in Configs : c.bad <= c.source

VARIABLES
  cfg, cancel,
  \* channels: blocks [at, n] in data and hash, number of buffers in recycle
  data, recycle, hash,
  \* reader thread: program counter, block being sent, progress, its Result
  rpc, rblock, total_read, blocks_read, reader_err,
  \* writer (the caller): program counter, block in hand and how
  \* much of it is written, blocks taken, Result
  wpc, wblock, written, blocks, result,
  \* hasher thread: program counter and block in hand
  hpc, hblock,
  \* the world: bytes of the input written, how many of them a second time,
  \* padding bytes written, bytes hashed
  out, repeated, padding, hashed

channels    == <<data, recycle, hash>>
reader_vars == <<rpc, rblock, total_read, blocks_read, reader_err>>
writer_vars == <<wpc, wblock, written, blocks, result>>
hasher_vars == <<hpc, hblock>>
world       == <<out, repeated, padding, hashed>>
vars == <<cfg, cancel, channels, reader_vars, writer_vars, hasher_vars, world>>

NoBlock == [at |-> 0, n |-> 0]

Least(a, b) == IF a < b THEN a ELSE b

\* Fault: one buffer more than the channels have room for.
Init_ExtraBuffer ==
  /\ cfg \in Configs
  /\ cancel = FALSE
  /\ data = << >> /\ recycle = cfg.queue_depth + 1 /\ hash = << >>
  /\ rpc = "check" /\ rblock = NoBlock /\ total_read = 0 /\ blocks_read = 0
  /\ reader_err = FALSE
  /\ wpc = "recv" /\ wblock = NoBlock /\ written = 0 /\ blocks = 0 /\ result = "none"
  /\ hpc = "recv" /\ hblock = NoBlock
  /\ out = << >> /\ repeated = 0 /\ padding = 0 /\ hashed = << >>

Init ==
  /\ cfg \in Configs
  /\ cancel = FALSE
  /\ data = << >> /\ recycle = cfg.queue_depth /\ hash = << >>
  /\ rpc = "check" /\ rblock = NoBlock /\ total_read = 0 /\ blocks_read = 0
  /\ reader_err = FALSE
  /\ wpc = "recv" /\ wblock = NoBlock /\ written = 0 /\ blocks = 0 /\ result = "none"
  /\ hpc = "recv" /\ hblock = NoBlock
  /\ out = << >> /\ repeated = 0 /\ padding = 0 /\ hashed = << >>

\* The receiving end of data is dropped when the writer's function returns.
WriterReturned == wpc = "returned"
\* hash_tx is dropped by the writer before it joins the hasher, or by return.
HashSenderDropped == wpc \in {"join_hasher", "join_reader", "returned"}

\* send on recycle: the buffer is dropped once its receiver, the reader, ended.
Recycle ==
  IF rpc = "ended" THEN recycle' = recycle
  ELSE recycle < cfg.queue_depth /\ recycle' = recycle + 1

------------------------------------------------------------------------------
(* Stage 1: the reader thread                                                *)

ReadLimitReached ==
  \/ cfg.limit >= 0 /\ total_read >= cfg.limit
  \/ cfg.count >= 0 /\ blocks_read >= cfg.count

ToRead ==
  IF cfg.limit >= 0 THEN Least(cfg.block_size, cfg.limit - total_read)
                    ELSE cfg.block_size

\* Top of the loop: cancel flag and limits.
ReaderChecks ==
  /\ rpc = "check"
  /\ rpc' = IF cancel \/ ReadLimitReached THEN "ended" ELSE "recv"
  /\ UNCHANGED <<cfg, cancel, channels, rblock, total_read, blocks_read,
                 reader_err, writer_vars, hasher_vars, world>>

(***************************************************************************)
(* recycle_rx.recv(): waits for a buffer.  It cannot fail: the reader      *)
(* itself holds a sender (reader_recycle_tx), so the channel never closes. *)
(***************************************************************************)
ReaderTakesBuffer ==
  /\ rpc = "recv"
  /\ recycle > 0
  /\ recycle' = recycle - 1
  /\ rpc' = "read"
  /\ UNCHANGED <<cfg, cancel, data, hash, rblock, total_read, blocks_read,
                 reader_err, writer_vars, hasher_vars, world>>

\* A read ends before the position that cannot be read.
Readable == IF cfg.bad > 0 THEN cfg.bad - 1 ELSE cfg.source
AtBad    == cfg.bad > 0 /\ total_read = Readable

ReaderReads ==
  /\ rpc = "read"
  /\ \E n \in 1..Least(ToRead, Readable - total_read) :
        /\ rblock' = [at |-> total_read, n |-> n]
        /\ total_read' = total_read + n
  /\ blocks_read' = blocks_read + 1
  /\ rpc' = "send"
  /\ UNCHANGED <<cfg, cancel, channels, reader_err, writer_vars, hasher_vars, world>>

\* Ok(0), or an error without --noerror: the thread returns, buffer dropped.
ReaderStops ==
  /\ rpc = "read"
  /\ \/ total_read = cfg.source /\ reader_err' = FALSE
     \/ ~cfg.noerror /\ reader_err' = TRUE
  /\ rpc' = "ended"
  /\ UNCHANGED <<cfg, cancel, channels, rblock, total_read, blocks_read,
                 writer_vars, hasher_vars, world>>

\* EINTR, or any error with --noerror: give the buffer back and start over at
\* the same position, as often as it happens.
ReaderRetries ==
  /\ rpc = "read"
  /\ Recycle
  /\ rpc' = "check"
  /\ UNCHANGED <<cfg, cancel, data, hash, rblock, total_read, blocks_read, reader_err,
                 writer_vars, hasher_vars, world>>

\* Fault: a buffer that cannot be sent is used for the next block.
ReaderSends_Reuses ==
  /\ rpc = "send"
  /\ IF WriterReturned
     THEN rpc' = "check" /\ recycle' = recycle + 1 /\ UNCHANGED data
     ELSE /\ Len(data) < cfg.queue_depth
          /\ data' = Append(data, rblock)
          /\ rpc' = "check"
          /\ UNCHANGED recycle
  /\ rblock' = NoBlock
  /\ UNCHANGED <<cfg, cancel, hash, total_read, blocks_read,
                 reader_err, writer_vars, hasher_vars, world>>

\* data_tx.send: waits for room, fails when the writer has returned.
ReaderSends ==
  /\ rpc = "send"
  /\ IF WriterReturned
     THEN rpc' = "ended" /\ UNCHANGED data
     ELSE /\ Len(data) < cfg.queue_depth
          /\ data' = Append(data, rblock)
          /\ rpc' = "check"
  /\ rblock' = NoBlock
  /\ UNCHANGED <<cfg, cancel, recycle, hash, total_read, blocks_read,
                 reader_err, writer_vars, hasher_vars, world>>

------------------------------------------------------------------------------
(* Stage 3: the hasher thread                                                *)

BytesOf(block) == [i \in 1..block.n |-> block.at + i]

HasherReceives ==
  /\ hpc = "recv"
  /\ hash # << >>
  /\ hblock' = Head(hash)
  /\ hash' = Tail(hash)
  /\ hpc' = "update"
  /\ UNCHANGED <<cfg, cancel, data, recycle, reader_vars, writer_vars, world>>

\* Update the checksum, then hand the buffer back.
HasherHashes ==
  /\ hpc = "update"
  /\ hashed' = hashed \o BytesOf(hblock)
  /\ Recycle
  /\ hblock' = NoBlock
  /\ hpc' = "recv"
  /\ UNCHANGED <<cfg, cancel, data, hash, reader_vars, writer_vars, out, repeated, padding>>

HasherEnds ==
  /\ hpc = "recv"
  /\ hash = << >>
  /\ HashSenderDropped
  /\ hpc' = "ended"
  /\ UNCHANGED <<cfg, cancel, channels, reader_vars, writer_vars, hblock, world>>

------------------------------------------------------------------------------
(* Stage 2: the writer                                                       *)

\* Fault: the loop ends as soon as the reader has, whatever is still queued.
WriterReceives_ReaderEnded ==
  /\ wpc = "recv"
  /\ \/ /\ data # << >>
        /\ rpc # "ended"
        /\ wblock' = Head(data)
        /\ data' = Tail(data)
        /\ wpc' = "check"
     \/ /\ rpc = "ended"
        /\ wpc' = "join_hasher"
        /\ UNCHANGED <<wblock, data>>
  /\ UNCHANGED <<cfg, cancel, recycle, hash, reader_vars, written, blocks, result,
                 hasher_vars, world>>

\* data_rx.recv(): a block, or the end once the reader's sender is gone.
WriterReceives ==
  /\ wpc = "recv"
  /\ \/ /\ data # << >>
        /\ wblock' = Head(data)
        /\ data' = Tail(data)
        /\ wpc' = "check"
     \/ /\ data = << >>
        /\ rpc = "ended"
        /\ wpc' = "join_hasher"
        /\ UNCHANGED <<wblock, data>>
  /\ UNCHANGED <<cfg, cancel, recycle, hash, reader_vars, written, blocks, result,
                 hasher_vars, world>>

\* Fault: a cancelled block is skipped, its buffer dropped, the loop goes on.
WriterCancels_Skip ==
  /\ wpc = "check"
  /\ cancel
  /\ wblock' = NoBlock
  /\ wpc' = "recv"
  /\ UNCHANGED <<cfg, cancel, channels, reader_vars, written, blocks, result,
                 hasher_vars, world>>

\* Cancelled: leave the loop, the buffer in hand is dropped.
WriterCancels ==
  /\ wpc = "check"
  /\ cancel
  /\ wblock' = NoBlock
  /\ wpc' = "join_hasher"
  /\ UNCHANGED <<cfg, cancel, channels, reader_vars, written, blocks, result,
                 hasher_vars, world>>

WriterAccepts ==
  /\ wpc = "check"
  /\ ~cancel
  /\ blocks' = blocks + 1
  /\ written' = 0
  /\ wpc' = "write"
  /\ UNCHANGED <<cfg, cancel, channels, reader_vars, wblock, result, hasher_vars, world>>

\* --sync fills a short block up with zeros.
PaddedLen(block) == IF cfg.sync THEN cfg.block_size ELSE block.n

\* Fault: after a short write(2) the block is written from its start.
WriterWrites_FromStart ==
  /\ wpc \in {"write", "rewrite"}
  /\ \E k \in 1..(PaddedLen(wblock) - written) :
        /\ LET bytes == SubSeq(BytesOf(wblock), 1, Least(k, wblock.n))
           IN  out' = out \o bytes /\ padding' = padding + (k - Len(bytes))
        /\ written' = written + k
  /\ wpc' = IF written' = PaddedLen(wblock) THEN "dispatch" ELSE wpc
  /\ UNCHANGED <<cfg, cancel, channels, reader_vars, wblock, blocks, result, hasher_vars,
                 repeated, hashed>>

\* One write(2) of write_all takes some of the remaining bytes: bytes of the
\* input first, then of the padding.
WriterWrites ==
  /\ wpc \in {"write", "rewrite"}
  /\ \E k \in 1..(PaddedLen(wblock) - written) :
        /\ LET bytes == SubSeq(BytesOf(wblock), written + 1, Least(written + k, wblock.n))
           IN  out' = out \o bytes /\ padding' = padding + (k - Len(bytes))
        /\ written' = written + k
  /\ wpc' = IF written' = PaddedLen(wblock) THEN "dispatch" ELSE wpc
  /\ UNCHANGED <<cfg, cancel, channels, reader_vars, wblock, blocks, result, hasher_vars,
                 repeated, hashed>>

(***************************************************************************)
(* A write fails under --direct: the output is reopened without O_DIRECT   *)
(* at the position reached, and the whole block is written from there,     *)
(* whatever part of it the first attempt has written already.              *)
(***************************************************************************)
WriterAgain ==
  /\ wpc = "write"
  /\ cfg.direct
  /\ repeated' = repeated + Least(written, wblock.n)
  /\ written' = 0
  /\ wpc' = "rewrite"
  /\ UNCHANGED <<cfg, cancel, channels, reader_vars, wblock, blocks, result, hasher_vars,
                 out, padding, hashed>>

(***************************************************************************)
(* A write fails (with --direct, reopening or the second attempt): the     *)
(* function returns Err at once; its channel ends are dropped, nobody is   *)
(* joined.                                                                 *)
(***************************************************************************)
WriterFails ==
  /\ wpc \in {"write", "rewrite"}
  /\ wblock' = NoBlock
  /\ data' = << >>
  /\ result' = "error"
  /\ wpc' = "returned"
  /\ UNCHANGED <<cfg, cancel, recycle, hash, reader_vars, blocks, written, hasher_vars, world>>

\* Fault: a short block's buffer is not handed on without a hash.
WriterDispatches_Leak ==
  /\ wpc = "dispatch"
  /\ IF cfg.has_hash
     THEN /\ Len(hash) < cfg.queue_depth
          /\ hash' = Append(hash, wblock)
          /\ UNCHANGED recycle
     ELSE /\ IF wblock.n = cfg.block_size THEN Recycle ELSE UNCHANGED recycle
          /\ UNCHANGED hash
  /\ wblock' = NoBlock
  /\ wpc' = "recv"
  /\ UNCHANGED <<cfg, cancel, data, reader_vars, written, blocks, result,
                 hasher_vars, world>>

\* The written block goes to the hasher, or its buffer back to the reader.
WriterDispatches ==
  /\ wpc = "dispatch"
  /\ IF cfg.has_hash
     THEN /\ Len(hash) < cfg.queue_depth
          /\ hash' = Append(hash, wblock)
          /\ UNCHANGED recycle
     ELSE Recycle /\ UNCHANGED hash
  /\ wblock' = NoBlock
  /\ wpc' = "recv"
  /\ UNCHANGED <<cfg, cancel, data, reader_vars, written, blocks, result,
                 hasher_vars, world>>

WriterJoinsHasher ==
  /\ wpc = "join_hasher"
  /\ hpc = "ended"
  /\ wpc' = "join_reader"
  /\ UNCHANGED <<cfg, cancel, channels, reader_vars, wblock, written, blocks, result, hasher_vars,
                 world>>

\* Fault: the reader's own Result is not propagated.
WriterJoinsReader_IgnoreResult ==
  /\ wpc = "join_reader"
  /\ rpc = "ended"
  /\ result' = IF cancel THEN "cancelled" ELSE "ok"
  /\ data' = << >>
  /\ wpc' = "returned"
  /\ UNCHANGED <<cfg, cancel, recycle, hash, reader_vars, wblock, written, blocks,
                 hasher_vars, world>>

\* The reader's Result is the transfer's; a cancelled transfer returns Ok too
\* ("cancelled" only tells the two Oks apart).  data_rx is dropped.
WriterJoinsReader ==
  /\ wpc = "join_reader"
  /\ rpc = "ended"
  /\ result' = IF reader_err THEN "error" ELSE IF cancel THEN "cancelled" ELSE "ok"
  /\ data' = << >>
  /\ wpc' = "returned"
  /\ UNCHANGED <<cfg, cancel, recycle, hash, reader_vars, wblock, written, blocks,
                 hasher_vars, world>>

\* X or Esc in the TUI.
Cancel ==
  /\ cfg.cancellable
  /\ ~cancel
  /\ wpc # "returned"
  /\ cancel' = TRUE
  /\ UNCHANGED <<cfg, channels, reader_vars, writer_vars, hasher_vars, world>>

Idle == WriterReturned /\ UNCHANGED vars

------------------------------------------------------------------------------
Reader ==
  \/ ReaderChecks \/ ReaderTakesBuffer \/ ReaderReads \/ ReaderStops
  \/ ReaderRetries \/ ReaderSends
Hasher == HasherReceives \/ HasherHashes \/ HasherEnds
Writer ==
  \/ WriterReceives \/ WriterCancels \/ WriterAccepts \/ WriterWrites \/ WriterAgain
  \/ WriterFails \/ WriterDispatches \/ WriterJoinsHasher \/ WriterJoinsReader

Next == Reader \/ Hasher \/ Writer \/ Cancel \/ Idle

Spec == Init /\ [][Next]_vars

(***************************************************************************)
(* Every thread is scheduled and every read and write returns.  A read     *)
(* that is tried again and again is not interrupted for ever: where the    *)
(* input can be read at all, or has ended, or the error is final, that     *)
(* comes out in the end.  Nothing is assumed where it can never be read,   *)
(* and nobody has to cancel.                                               *)
(***************************************************************************)
FairSpec ==
  /\ Spec /\ WF_vars(Reader) /\ WF_vars(Hasher) /\ WF_vars(Writer)
  /\ SF_vars(ReaderReads \/ ReaderStops)

------------------------------------------------------------------------------
Block == [at : Nat, n : Nat]

TypeOK ==
  /\ cfg \in Configs /\ cancel \in BOOLEAN
  /\ data \in Seq(Block) /\ hash \in Seq(Block)
  /\ recycle \in Nat
  /\ rpc \in {"check", "recv", "read", "send", "ended"}
  /\ rblock \in Block /\ total_read \in Nat /\ blocks_read \in Nat
  /\ reader_err \in BOOLEAN
  /\ wpc \in {"recv", "check", "write", "rewrite", "dispatch", "join_hasher",
              "join_reader", "returned"}
  /\ wblock \in Block /\ written \in Nat /\ blocks \in Nat
  /\ result \in {"none", "ok", "error", "cancelled"}
  /\ hpc \in {"recv", "update", "ended"} /\ hblock \in Block
  /\ out \in Seq(Nat) /\ repeated \in Nat /\ padding \in Nat /\ hashed \in Seq(Nat)
  /\ Len(data) <= cfg.queue_depth /\ Len(hash) <= cfg.queue_depth
  /\ recycle <= cfg.queue_depth

(***************************************************************************)
(* While the three stages run, the queue_depth preallocated buffers are    *)
(* all accounted for: none leaks on a retry, a short block or without a    *)
(* hasher, so the reader never starves for a buffer that nobody holds.     *)
(***************************************************************************)
Held(pc, holding) == IF pc \in holding THEN 1 ELSE 0

BuffersConserved ==
  rpc # "ended" /\ wpc \in {"recv", "check", "write", "rewrite", "dispatch"} =>
    cfg.queue_depth = recycle + Len(data) + Len(hash)
                      + Held(rpc, {"read", "send"})
                      + Held(wpc, {"check", "write", "rewrite", "dispatch"})
                      + Held(hpc, {"update"})

(***************************************************************************)
(* A thread that sends never finds its channel full, so the ring of three  *)
(* bounded channels cannot lock up on sends.                               *)
(***************************************************************************)
NoSendBlocks ==
  /\ rpc = "send" => Len(data) < cfg.queue_depth
  /\ wpc = "dispatch" =>
       IF cfg.has_hash THEN Len(hash) < cfg.queue_depth
                       ELSE rpc # "ended" => recycle < cfg.queue_depth
  /\ hpc = "update" /\ rpc # "ended" => recycle < cfg.queue_depth

\* The ring of channels neither starves nor jams: the two facts together.
ChannelsSound == BuffersConserved /\ NoSendBlocks

\* The position of the input up to which the output has been written: what
\* --direct wrote a second time does not count.
Reached == Len(out) - repeated

InputBytes(n) == [i \in 1..n |-> i]

(***************************************************************************)
(* The output holds the first bytes of the input in order; with --sync     *)
(* every block read, however short, fills a whole block of the output.     *)
(* The exception is --direct, whose second attempt repeats what the first  *)
(* has written of a block (engine.rs:969-975): then only nothing is        *)
(* missing up to the position reached.                                     *)
(***************************************************************************)
WrittenInOrder ==
  /\ repeated > 0 => cfg.direct
  /\ repeated = 0 => out = InputBytes(Len(out))
  /\ 1..Reached \subseteq ToSet(out)
  /\ cfg.sync /\ repeated = 0 /\ wpc \notin {"write", "rewrite", "returned"} =>
       Len(out) + padding = blocks * cfg.block_size

(***************************************************************************)
(* The checksum, computed behind the writer's back, covers the blocks of   *)
(* the input in their order, once each and none before it is written: it   *)
(* is that of the output unless --direct has repeated a part of a block.   *)
(***************************************************************************)
HashFollowsOutput == IsPrefix(hashed, InputBytes(Reached))

(***************************************************************************)
(* Ok of a transfer that was not cancelled: all was copied, and hashed;    *)
(* a read error behind queued blocks is not lost; no thread still runs.    *)
(* All the same a part of a block may be in the output twice, and the      *)
(* checksum not the output's, after --direct's second attempt.             *)
(***************************************************************************)
OkIsComplete ==
  wpc = "returned" /\ result = "ok" =>
    /\ \/ Reached = cfg.source
       \/ cfg.limit >= 0 /\ Reached >= cfg.limit
       \/ cfg.count >= 0 /\ blocks >= cfg.count
    /\ cfg.has_hash => hashed = InputBytes(Reached)
    /\ rpc = "ended" /\ hpc = "ended"

\* -l and -c bound what is taken from the input, whatever the block sizes.
WithinLimits ==
  /\ cfg.limit >= 0 => total_read <= cfg.limit
  /\ cfg.count >= 0 => blocks_read <= cfg.count

\* The output follows the input, the checksum the output, both within the
\* limits, at any time and not only at the end (engine.rs:867-1000).
OutputSound == WrittenInOrder /\ HashFollowsOutput /\ WithinLimits

(***************************************************************************)
(* The reader is never more than queue_depth blocks ahead of the writer,   *)
(* and what it still takes from the input after a write error or a cancel, *)
(* when nobody receives its blocks any more, is bounded by that too: the   *)
(* buffers do not come back to it, although its own sender keeps its       *)
(* channel open (engine.rs:856).                                           *)
(***************************************************************************)
ReadAheadBounded == blocks_read - blocks <= cfg.queue_depth

\* The reader meets, under --noerror, a position that can never be read, and
\* all that is before it has been written.
RetriesForEver ==
  cfg.noerror /\ AtBad /\ ~ReadLimitReached /\ Reached = total_read

(***************************************************************************)
(* A transfer nobody cancels returns: no stage waits for ever for another. *)
(* The exception is --noerror at a position that can never be read: the    *)
(* reader asks for it again without end (engine.rs:896-900), and only what *)
(* lies before it still reaches the output.                                *)
(***************************************************************************)
Terminates == <>(WriterReturned \/ cancel \/ RetriesForEver)

WriterLoopLeft == wpc \in {"join_hasher", "join_reader", "returned"}

\* After a cancel request the writer leaves its loop.
CancelStopsWriting == cancel ~> WriterLoopLeft

(***************************************************************************)
(* "allow immediate cancellation via X or Esc": a cancelled transfer       *)
(* returns to its caller.  (Nor does the reader end after a write error:   *)
(* it waits in recv() on a channel of which it holds a sender itself.)     *)
(***************************************************************************)
CancelCompletes == cancel ~> WriterReturned

(***************************************************************************)
(* The pipeline implements the stream copy, which knows no padding; with   *)
(* --direct, one that may step back.                                       *)
(***************************************************************************)
CopyStatus ==
  IF wpc # "returned" THEN "running"
  ELSE IF result = "error" THEN "failed" ELSE result

Copy == INSTANCE StreamCopy WITH
          request <- [source |-> cfg.source, limit |-> cfg.limit,
                      records |-> IF cfg.count >= 0 THEN cfg.count ELSE cfg.source + 1,
                      repeats |-> cfg.direct],
          at <- Reached, status <- CopyStatus

ImplementsStreamCopy == Copy!Spec

==============================================================================
