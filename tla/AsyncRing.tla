------------------------------ MODULE AsyncRing ------------------------------
(***************************************************************************)
(* The asynchronous backend of the C program (src/src/io_async.c): a       *)
(* reader thread fills a ring of slots from stdin while the main thread,   *)
(* inside dd_copy's central loop (src/src/io_engine.c), drains the ring to *)
(* stdout.  One mutex, two condition variables.                            *)
(*                                                                         *)
(* A lock..unlock section of the code is one step; everything done outside *)
(* the lock (filling a slot, every single write(2) of dd_iwrite) is a step *)
(* of its own, so that a slot touched by both threads shows in the output. *)
(* A byte is named by its position in the input; a slot's buffer therefore *)
(* is described by the number of input bytes that precede it ("at").       *)
(***************************************************************************)
EXTENDS Integers, Sequences

CONSTANTS
  Configs,                   \* the command lines and inputs considered
  ASYNC_MIN_CAPACITY,        \* bounds of the automatic ring size
  ASYNC_MAX_CAPACITY,
  ASYNC_TARGET_BUFFER_BYTES  \* memory the automatic ring size aims at

(***************************************************************************)
(* queue_depth is 0 (automatic) or --queue-depth, which the parser keeps   *)
(* within 2..1024; source is the input's length; -1 is "no -l limit";      *)
(* max_bytes of the code is always 0 for this backend and left out.        *)
(***************************************************************************)
ConfigType ==
  [queue_depth : Nat, input_blocksize : Nat \ {0}, bytes_to_copy : Nat \cup {-1},
   max_records : Nat \ {0}, source : Nat]

ASSUME ConfigsAssumption == Configs \subseteq ConfigType

ASSUME CapacityAssumption ==
  /\ ASYNC_MIN_CAPACITY \in Nat /\ ASYNC_MIN_CAPACITY >= 2
  /\ ASYNC_MAX_CAPACITY \in Nat /\ ASYNC_MAX_CAPACITY >= ASYNC_MIN_CAPACITY
  /\ ASYNC_TARGET_BUFFER_BYTES \in Nat

VARIABLES
  cfg,
  \* struct async_pipeline
  capacity, slots, head, tail, count,
  stop_requested, reader_done, r_records_done, total_bytes_read,
  \* the reader thread
  rpc,
  \* the main thread: program counter, bytes of the current slot written so
  \* far (total_written of dd_iwrite), records taken (r_full + r_partial),
  \* stats.w_bytes, the exit status so far
  wpc, nwritten, records, w_bytes, exit_status,
  \* the world: bytes on stdout, bytes given to the checksum
  out, hashed

pipe_vars   == <<capacity, slots, head, tail, count>>
reader_vars == <<reader_done, r_records_done, total_bytes_read, rpc>>
writer_vars == <<wpc, nwritten, records, w_bytes, exit_status, out, hashed>>
vars == <<cfg, pipe_vars, stop_requested, reader_vars, writer_vars>>

Slot == [at : Nat, nread : Nat, is_eof : BOOLEAN, err : BOOLEAN]

EmptySlot == [at |-> 0, nread |-> 0, is_eof |-> FALSE, err |-> FALSE]

\* n bytes of the input after the first "at".
InputBytes(at, n) == [i \in 1..n |-> at + i]

Least(a, b) == IF a < b THEN a ELSE b

Clamp(n, lo, hi) == IF n < lo THEN lo ELSE IF n > hi THEN hi ELSE n

\* Ring size asked for before any allocation is tried.
RequestedCapacity(c) ==
  IF c.queue_depth = 0
  THEN Clamp(ASYNC_TARGET_BUFFER_BYTES \div c.input_blocksize,
             ASYNC_MIN_CAPACITY, ASYNC_MAX_CAPACITY)
  ELSE Clamp(c.queue_depth, 2, 1024)

Init ==
  /\ cfg \in Configs
  /\ capacity = RequestedCapacity(cfg)
  /\ slots = << >>
  /\ head = 0 /\ tail = 0 /\ count = 0
  /\ stop_requested = FALSE
  /\ reader_done = FALSE /\ r_records_done = 0 /\ total_bytes_read = 0
  /\ rpc = "none"
  /\ wpc = "init" /\ nwritten = 0 /\ records = 0 /\ w_bytes = 0
  /\ exit_status = "success"
  /\ out = << >> /\ hashed = << >>

------------------------------------------------------------------------------
(* async_driver_init                                                         *)

\* Memory is short: try again with half the slots, give up below two.
AllocateFails ==
  /\ wpc = "init"
  /\ capacity' = IF capacity > 2 THEN Clamp(capacity \div 2, 2, capacity) ELSE capacity
  /\ wpc' = IF capacity > 2 THEN "init" ELSE "died"
  /\ UNCHANGED <<cfg, slots, head, tail, count, stop_requested, reader_vars,
                 nwritten, records, w_bytes, exit_status, out, hashed>>

\* The slots are allocated; pthread_create succeeds, or dd_copy falls back
\* to the synchronous driver.
StartReader ==
  /\ wpc = "init"
  /\ \/ /\ slots' = [i \in 0..(capacity - 1) |-> EmptySlot]
        /\ rpc' = "top" /\ wpc' = "loop"
     \/ /\ wpc' = "fallback"
        /\ UNCHANGED <<slots, rpc>>
  /\ UNCHANGED <<cfg, capacity, head, tail, count, stop_requested, reader_done,
                 r_records_done, total_bytes_read, nwritten, records, w_bytes,
                 exit_status, out, hashed>>

------------------------------------------------------------------------------
(* async_reader_worker                                                       *)

\* pthread_cond_signal: a thread waiting on the condition re-tests it.
SignalNotEmpty == wpc' = IF wpc = "wait" THEN "step" ELSE wpc
SignalNotFull  == rpc' = IF rpc = "wait" THEN "top" ELSE rpc

\* Fault: the reader claims a slot without looking for a free one.
ReaderAcquire_NoFullTest ==
  /\ rpc = "top"
  /\ rpc' = IF stop_requested THEN "exit" ELSE "fill"
  /\ UNCHANGED <<cfg, pipe_vars, stop_requested, reader_done, r_records_done,
                 total_bytes_read, writer_vars>>

\* Lock, wait for a free slot or a stop request, unlock.
ReaderAcquire ==
  /\ rpc = "top"
  /\ rpc' = IF stop_requested THEN "exit"
            ELSE IF count = capacity THEN "wait" ELSE "fill"
  /\ UNCHANGED <<cfg, pipe_vars, stop_requested, reader_done, r_records_done,
                 total_bytes_read, writer_vars>>

\* POSIX lets pthread_cond_wait return without a signal.
ReaderWakesSpuriously ==
  /\ rpc = "wait"
  /\ rpc' = "top"
  /\ UNCHANGED <<cfg, pipe_vars, stop_requested, reader_done, r_records_done,
                 total_bytes_read, writer_vars>>

\* The record or byte limit is reached.
LimitReached ==
  \/ r_records_done >= cfg.max_records
  \/ cfg.bytes_to_copy >= 0 /\ total_bytes_read >= cfg.bytes_to_copy

\* Fault: the reader measures the limit by what the writer has written.
ToRead_WriterBytes ==
  IF cfg.bytes_to_copy >= 0
  THEN Least(cfg.input_blocksize, cfg.bytes_to_copy - w_bytes)
  ELSE cfg.input_blocksize

ToRead ==
  IF cfg.bytes_to_copy >= 0
  THEN Least(cfg.input_blocksize, cfg.bytes_to_copy - total_bytes_read)
  ELSE cfg.input_blocksize

FillSlot(n, eof, error) ==
  slots' = [slots EXCEPT ![tail] = [at |-> total_bytes_read, nread |-> n,
                                    is_eof |-> eof, err |-> error]]

\* The limit ends the stream with an end-of-file slot, read(2) not called.
ReaderStopsAtLimit ==
  /\ rpc = "fill"
  /\ LimitReached
  /\ FillSlot(0, TRUE, FALSE)
  /\ rpc' = "publish"
  /\ UNCHANGED <<cfg, capacity, head, tail, count, stop_requested, reader_done,
                 r_records_done, total_bytes_read, writer_vars>>

\* read(2) returns between one byte and what was asked for (EINTR retried).
ReaderReads ==
  /\ rpc = "fill"
  /\ ~LimitReached
  /\ \E n \in 1..Least(ToRead, cfg.source - total_bytes_read) :
        /\ FillSlot(n, FALSE, FALSE)
        /\ total_bytes_read' = total_bytes_read + n
  /\ r_records_done' = r_records_done + 1
  /\ rpc' = "publish"
  /\ UNCHANGED <<cfg, capacity, head, tail, count, stop_requested, reader_done,
                 writer_vars>>

\* read(2) finds the end of the input, or fails.
ReaderReadsNothing ==
  /\ rpc = "fill"
  /\ ~LimitReached
  /\ \/ total_bytes_read = cfg.source /\ FillSlot(0, TRUE, FALSE)
     \/ FillSlot(0, TRUE, TRUE)
  /\ rpc' = "publish"
  /\ UNCHANGED <<cfg, capacity, head, tail, count, stop_requested, reader_done,
                 r_records_done, total_bytes_read, writer_vars>>

\* Lock, hand the slot over, signal, unlock; leave after a last slot.
ReaderPublishes ==
  /\ rpc = "publish"
  /\ tail' = (tail + 1) % capacity
  /\ count' = count + 1
  /\ SignalNotEmpty
  /\ rpc' = IF slots[tail].is_eof \/ stop_requested THEN "exit" ELSE "top"
  /\ UNCHANGED <<cfg, capacity, slots, head, stop_requested, reader_done,
                 r_records_done, total_bytes_read, nwritten, records, w_bytes,
                 exit_status, out, hashed>>

ReaderExits ==
  /\ rpc = "exit"
  /\ reader_done' = TRUE
  /\ SignalNotEmpty
  /\ rpc' = "ended"
  /\ UNCHANGED <<cfg, pipe_vars, stop_requested, r_records_done, total_bytes_read,
                 nwritten, records, w_bytes, exit_status, out, hashed>>

------------------------------------------------------------------------------
(* dd_copy's loop around async_driver_step, and async_driver_cleanup         *)

\* The global limit check at the top of the central loop.
LoopLimitReached ==
  IF cfg.bytes_to_copy >= 0 THEN w_bytes >= cfg.bytes_to_copy
                            ELSE records >= cfg.max_records

WriterLoops ==
  /\ wpc = "loop"
  /\ wpc' = IF LoopLimitReached THEN "cleanup" ELSE "step"
  /\ UNCHANGED <<cfg, pipe_vars, stop_requested, reader_vars, nwritten, records,
                 w_bytes, exit_status, out, hashed>>

\* Fault: the reader's end alone, whatever is still queued, ends the loop.
WriterAcquires_DoneFirst ==
  /\ wpc = "step"
  /\ wpc' = IF reader_done THEN "cleanup" ELSE IF count > 0 THEN "take" ELSE "wait"
  /\ UNCHANGED <<cfg, pipe_vars, stop_requested, reader_vars, nwritten, records,
                 w_bytes, exit_status, out, hashed>>

\* Lock, wait for a filled slot or the reader's end, unlock.
WriterAcquires ==
  /\ wpc = "step"
  /\ wpc' = IF count > 0 THEN "take"
            ELSE IF reader_done THEN "cleanup" ELSE "wait"
  /\ UNCHANGED <<cfg, pipe_vars, stop_requested, reader_vars, nwritten, records,
                 w_bytes, exit_status, out, hashed>>

WriterWakesSpuriously ==
  /\ wpc = "wait"
  /\ wpc' = "step"
  /\ UNCHANGED <<cfg, pipe_vars, stop_requested, reader_vars, nwritten, records,
                 w_bytes, exit_status, out, hashed>>

\* Fault: the slot's errno is not looked at.
WriterTakesEof_NoErrno ==
  /\ wpc = "take"
  /\ slots[head].is_eof
  /\ wpc' = "cleanup"
  /\ UNCHANGED <<cfg, pipe_vars, stop_requested, reader_vars, nwritten, records,
                 w_bytes, exit_status, out, hashed>>

\* An end-of-file slot ends the loop; it is never released.
WriterTakesEof ==
  /\ wpc = "take"
  /\ slots[head].is_eof
  /\ exit_status' = IF slots[head].err THEN "failure" ELSE exit_status
  /\ wpc' = "cleanup"
  /\ UNCHANGED <<cfg, pipe_vars, stop_requested, reader_vars, nwritten, records,
                 w_bytes, out, hashed>>

\* A data slot: count the record, hash the whole block, start writing it.
WriterTakesData ==
  /\ wpc = "take"
  /\ ~slots[head].is_eof
  /\ records' = records + 1
  /\ hashed' = hashed \o InputBytes(slots[head].at, slots[head].nread)
  /\ nwritten' = 0
  /\ wpc' = "write"
  /\ UNCHANGED <<cfg, pipe_vars, stop_requested, reader_vars, w_bytes, exit_status,
                 out>>

\* One write(2) of dd_iwrite's loop takes some of the remaining bytes.
WriterWrites ==
  /\ wpc = "write"
  /\ \E n \in 1..(slots[head].nread - nwritten) :
        /\ out' = out \o InputBytes(slots[head].at + nwritten, n)
        /\ nwritten' = nwritten + n
  /\ UNCHANGED <<cfg, pipe_vars, stop_requested, reader_vars, wpc, records, w_bytes,
                 exit_status, hashed>>

\* A write(2) fails: the step fails and the slot is not released.
WriterFails ==
  /\ wpc = "write"
  /\ nwritten < slots[head].nread
  /\ w_bytes' = w_bytes + nwritten
  /\ nwritten' = 0
  /\ exit_status' = "failure"
  /\ wpc' = "cleanup"
  /\ UNCHANGED <<cfg, pipe_vars, stop_requested, reader_vars, records, out, hashed>>

\* The whole block is written: account for it and give the slot back.
WriterReleases ==
  /\ wpc = "write"
  /\ nwritten = slots[head].nread
  /\ w_bytes' = w_bytes + nwritten
  /\ nwritten' = 0
  /\ head' = (head + 1) % capacity
  /\ count' = count - 1
  /\ SignalNotFull
  /\ wpc' = "loop"
  /\ UNCHANGED <<cfg, capacity, slots, tail, stop_requested, reader_done,
                 r_records_done, total_bytes_read, records, exit_status, out, hashed>>

\* Fault: cleanup does not wake a reader that waits for a free slot.
WriterRequestsStop_NoSignal ==
  /\ wpc = "cleanup"
  /\ stop_requested' = TRUE
  /\ wpc' = "join"
  /\ UNCHANGED <<cfg, pipe_vars, reader_vars, nwritten, records, w_bytes, exit_status,
                 out, hashed>>

\* async_driver_cleanup up to pthread_join (async_driver_flush does nothing:
\* this backend leaves ctx->oc at 0).
WriterRequestsStop ==
  /\ wpc = "cleanup"
  /\ stop_requested' = TRUE
  /\ SignalNotFull
  /\ wpc' = "join"
  /\ UNCHANGED <<cfg, pipe_vars, reader_done, r_records_done, total_bytes_read,
                 nwritten, records, w_bytes, exit_status, out, hashed>>

\* pthread_join returns; the slots are freed.
WriterJoins ==
  /\ wpc = "join"
  /\ rpc = "ended"
  /\ wpc' = "done"
  /\ slots' = << >>
  /\ UNCHANGED <<cfg, capacity, head, tail, count, stop_requested, reader_vars,
                 nwritten, records, w_bytes, exit_status, out, hashed>>

Stopped == wpc \in {"done", "fallback", "died"}

Idle == Stopped /\ UNCHANGED vars

------------------------------------------------------------------------------
Reader ==
  \/ ReaderAcquire \/ ReaderWakesSpuriously \/ ReaderStopsAtLimit
  \/ ReaderReads \/ ReaderReadsNothing \/ ReaderPublishes \/ ReaderExits

Writer ==
  \/ AllocateFails \/ StartReader
  \/ WriterLoops \/ WriterAcquires \/ WriterWakesSpuriously \/ WriterTakesEof
  \/ WriterTakesData \/ WriterWrites \/ WriterFails \/ WriterReleases
  \/ WriterRequestsStop \/ WriterJoins

Next == Reader \/ Writer \/ Idle

Spec == Init /\ [][Next]_vars

(***************************************************************************)
(* Both threads are scheduled, and a read(2) or write(2) returns.  Nothing *)
(* is assumed about spurious wakeups: a thread that waits on a condition   *)
(* must be woken by a signal.                                              *)
(***************************************************************************)
ReaderProgress ==
  \/ ReaderAcquire \/ ReaderStopsAtLimit \/ ReaderReads \/ ReaderReadsNothing
  \/ ReaderPublishes \/ ReaderExits

WriterProgress ==
  \/ AllocateFails \/ StartReader \/ WriterLoops \/ WriterAcquires
  \/ WriterTakesEof \/ WriterTakesData \/ WriterWrites \/ WriterFails
  \/ WriterReleases \/ WriterRequestsStop \/ WriterJoins

Fairness == WF_vars(ReaderProgress) /\ WF_vars(WriterProgress)

FairSpec == Spec /\ Fairness

------------------------------------------------------------------------------
TypeOK ==
  /\ cfg \in Configs
  /\ capacity \in Nat /\ capacity >= 2
  /\ IF wpc \in {"init", "done", "fallback", "died"}
     THEN slots = << >>
     ELSE slots \in [0..(capacity - 1) -> Slot]
  /\ head \in 0..(capacity - 1)
  /\ tail \in 0..(capacity - 1)
  /\ count \in 0..capacity
  /\ stop_requested \in BOOLEAN /\ reader_done \in BOOLEAN
  /\ r_records_done \in Nat /\ total_bytes_read \in Nat
  /\ rpc \in {"none", "top", "wait", "fill", "publish", "exit", "ended"}
  /\ wpc \in {"init", "loop", "step", "wait", "take", "write", "cleanup", "join",
              "done", "fallback", "died"}
  /\ nwritten \in Nat /\ records \in Nat /\ w_bytes \in Nat
  /\ exit_status \in {"success", "failure"}
  /\ out \in Seq(Nat) /\ hashed \in Seq(Nat)

(***************************************************************************)
(* The two threads never work on the same slot outside the lock, and the   *)
(* reader works on none once cleanup has freed them.                       *)
(***************************************************************************)
SlotExclusive ==
  rpc \in {"fill", "publish"} =>
    /\ wpc \in {"take", "write"} => head # tail
    /\ ~Stopped

(***************************************************************************)
(* At every moment stdout holds exactly the first bytes of the input: no   *)
(* block lost, repeated, reordered or overwritten in the ring while it is  *)
(* being written.                                                          *)
(***************************************************************************)
PrefixCopied == \A i \in 1..Len(out) : out[i] = i

(***************************************************************************)
(* -l N / -c N: never a byte more than asked for reaches stdout, nor is    *)
(* taken from the input, although reader and writer count separately.      *)
(***************************************************************************)
WithinLimit ==
  cfg.bytes_to_copy >= 0 =>
    Len(out) <= cfg.bytes_to_copy /\ total_bytes_read <= cfg.bytes_to_copy

\* What is on stdout is the right thing, and not too much of it.
OutputSound == PrefixCopied /\ WithinLimit

(***************************************************************************)
(* Exit status 0 means that everything asked for was copied: a read error  *)
(* behind queued blocks, a failed write or an early stop cannot get lost.  *)
(***************************************************************************)
CopyComplete ==
  \/ Len(out) = cfg.source
  \/ cfg.bytes_to_copy >= 0 /\ Len(out) >= cfg.bytes_to_copy
  \/ records >= cfg.max_records

SuccessIsComplete ==
  wpc = "done" /\ exit_status = "success" => CopyComplete

\* The checksum of a successful copy is over exactly the bytes written.
SuccessDigest == wpc = "done" /\ exit_status = "success" => hashed = out

\* Exit status 0 is true of the output and of its checksum.
SuccessIsTrue == SuccessIsComplete /\ SuccessDigest

(***************************************************************************)
(* The copy ends: no lost wakeup, and cleanup's join does not wait for     *)
(* ever, whichever thread stops first.                                     *)
(***************************************************************************)
Terminates == <>Stopped

(***************************************************************************)
(* The ring implements the stream copy: the transfer that dd_copy sees.    *)
(***************************************************************************)
CopyStatus ==
  IF wpc # "done" THEN "running"
  ELSE IF exit_status = "success" THEN "ok" ELSE "failed"

Copy == INSTANCE StreamCopy WITH
          request <- [source |-> cfg.source, limit |-> cfg.bytes_to_copy,
                      records |-> cfg.max_records, repeats |-> FALSE],
          at <- Len(out), blocks <- records,
          status <- CopyStatus

ImplementsStreamCopy == Copy!Spec

==============================================================================
