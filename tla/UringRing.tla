------------------------------ MODULE UringRing ------------------------------
(***************************************************************************)
(* The C io_uring driver with a single ring (src/src/io_uring.c): one read *)
(* and one write in flight at a time over a small pool of buffers, the     *)
(* next block being read while the last one is written.  Also here: the    *)
(* synchronous driver dd_copy falls back to when no ring can be set up     *)
(* (in one step; CopyLoop has its details).                                *)
(*                                                                         *)
(* A byte is named by its position in the input.  The kernel executes the  *)
(* submitted operations in any order and posts a completion for each; the  *)
(* program harvests them one by one, which is what peeking at a batch and  *)
(* walking through it amounts to.                                          *)
(***************************************************************************)
EXTENDS Integers, Sequences

CONSTANTS
  Configs,             \* the command lines and inputs considered
  URING_NUM_BUFFERS,   \* slots in the pool
  MaxDisturbances      \* bound: interrupted or short operations per copy

(***************************************************************************)
(* limit is -l, or -c times the block size (scanargs), -1 when neither is  *)
(* given.  A "file" is seekable, a "pipe" is not and is read and written   *)
(* in pieces of any size.  bad is the position of an unreadable byte, 0    *)
(* when there is none.                                                     *)
(***************************************************************************)
ASSUME RingConfigsAssumption ==
  \A c \in Configs :
    /\ c.input \in {"file", "pipe"} /\ c.output \in {"file", "pipe"}
    /\ c.blocksize \in Nat \ {0} /\ c.limit \in Nat \cup {-1}
    /\ c.source \in Nat /\ c.bad \in 0..c.source

ASSUME RingAssumption ==
  /\ URING_NUM_BUFFERS \in Nat \ {0, 1}
  /\ MaxDisturbances \in Nat

VARIABLES
  cfg,
  pc,                           \* where dd_copy or the driver is
  exit_status,                  \* of dd_copy
  buf, length,                  \* slots: contents (kernel), length (program)
  read_slot, write_slot,
  read_in_flight, write_in_flight,
  read_eof, pipeline_primed,
  in_file_pos, out_file_pos,    \* offsets kept by the driver
  sq,                           \* operations the kernel has not executed
  cq,                           \* completions the program has not seen
  in_off, out_off,              \* offsets kept by the kernel
  w_bytes, out, hashed,
  disturbances,                 \* interrupted or short operations so far
  write_lost                    \* flush dropped a failed write

slot_vars   == <<buf, length, read_slot, write_slot>>
flight_vars == <<read_in_flight, write_in_flight, read_eof, pipeline_primed>>
result_vars == <<w_bytes, hashed, write_lost>>
file_pos    == <<in_file_pos, out_file_pos>>

ring_vars == <<pc, exit_status, buf, length, read_slot, write_slot, flight_vars,
               file_pos, sq, cq, in_off, out_off, w_bytes, out, hashed,
               disturbances, write_lost>>

Slots == 0..(URING_NUM_BUFFERS - 1)

bytes_to_copy == cfg.limit

Least(a, b) == IF a < b THEN a ELSE b

InSeekable == cfg.input = "file"
OutSeekable == cfg.output = "file"

Interrupted == -1   \* -EINTR or -EAGAIN
Failed == -2        \* any other negative result

\* n bytes of the input after a position.
InputBytes(position, n) == [i \in 1..n |-> position + i]

\* Bytes that can be read from a position before the end or an unreadable one.
Readable(position) ==
  IF cfg.bad > position THEN cfg.bad - 1 - position
  ELSE IF position > cfg.source THEN 0 ELSE cfg.source - position

\* The output with bytes at a position; a gap before it reads as zeros.
WrittenAt(position, bytes) ==
  LET end == position + Len(bytes)
      size == IF end > Len(out) THEN end ELSE Len(out)
  IN  [i \in 1..size |->
         IF i > position /\ i <= end THEN bytes[i - position]
         ELSE IF i <= Len(out) THEN out[i] ELSE 0]

RingInit ==
  /\ cfg \in Configs
  /\ exit_status = "success"
  /\ buf = [s \in Slots |-> << >>] /\ length = [s \in Slots |-> 0]
  /\ read_slot = 0 /\ write_slot = 0
  /\ read_in_flight = FALSE /\ write_in_flight = FALSE
  /\ read_eof = FALSE /\ pipeline_primed = FALSE
  /\ in_file_pos = 0 /\ out_file_pos = 0
  /\ sq = {} /\ cq = << >>
  /\ in_off = 0 /\ out_off = 0
  /\ w_bytes = 0 /\ out = << >> /\ hashed = << >>
  /\ disturbances = 0 /\ write_lost = FALSE

------------------------------------------------------------------------------
(* The kernel                                                                *)

\* An operation is executed: out of the submission queue, its result posted.
Complete(op, res) ==
  /\ sq' = sq \ {op}
  /\ cq' = Append(cq, [tag |-> op.tag, res |-> res])

KernelUntouched ==
  UNCHANGED <<cfg, pc, exit_status, length, read_slot, write_slot, flight_vars,
              file_pos, result_vars>>

\* Results of reading up to size bytes from a position.
ReadResults(position, size) ==
  LET most == Least(size, Readable(position))
  IN  IF most = 0 THEN {IF cfg.bad = position + 1 THEN Failed ELSE 0}
      ELSE IF cfg.input = "pipe" THEN 1..most ELSE {most}

\* A read at an explicit offset leaves the descriptor's offset alone.
KernelReads ==
  \E op \in sq :
    /\ op.tag = "read"
    /\ LET from == IF op.pos >= 0 THEN op.pos ELSE in_off
       IN  \E n \in ReadResults(from, op.size) :
             /\ Complete(op, n)
             /\ IF n > 0
                THEN /\ buf' = [buf EXCEPT ![op.slot] =
                                  InputBytes(from, n) \o SubSeq(@, n + 1, Len(@))]
                     /\ in_off' = IF op.pos >= 0 THEN in_off ELSE in_off + n
                ELSE UNCHANGED <<buf, in_off>>
    /\ KernelUntouched /\ UNCHANGED <<out_off, out, disturbances>>

\* Fewer bytes than asked for count as a disturbance.
KernelWrites ==
  \E op \in sq :
    /\ op.tag = "write"
    /\ LET at == IF op.pos >= 0 THEN op.pos ELSE out_off
       IN  \E n \in 0..op.size :
             /\ n = 0 => op.size = 0
             /\ n < op.size => disturbances < MaxDisturbances
             /\ Complete(op, n)
             /\ out' = WrittenAt(at, SubSeq(buf[op.slot], 1, n))
             /\ out_off' = IF op.pos >= 0 THEN out_off ELSE out_off + n
             /\ disturbances' = disturbances + (IF n < op.size THEN 1 ELSE 0)
    /\ KernelUntouched /\ UNCHANGED <<buf, in_off>>

KernelInterrupts ==
  \E op \in sq :
    /\ disturbances < MaxDisturbances
    /\ Complete(op, Interrupted)
    /\ disturbances' = disturbances + 1
    /\ KernelUntouched /\ UNCHANGED <<buf, in_off, out_off, out>>

\* A write may fail at any time (a full disk, a closed pipe).
KernelFailsWrite ==
  \E op \in sq :
    /\ op.tag = "write"
    /\ Complete(op, Failed)
    /\ KernelUntouched /\ UNCHANGED <<buf, in_off, out_off, out, disturbances>>

Kernel == KernelReads \/ KernelWrites \/ KernelInterrupts \/ KernelFailsWrite

------------------------------------------------------------------------------
(* uring_driver_step                                                         *)

\* get_next_read_size
NextReadSize(planned) ==
  IF bytes_to_copy < 0 THEN cfg.blocksize
  ELSE IF planned >= bytes_to_copy THEN 0
  ELSE Least(cfg.blocksize, bytes_to_copy - planned)

ReadOp(slot, size) ==
  [tag |-> "read", slot |-> slot, size |-> size,
   pos |-> IF InSeekable THEN in_file_pos ELSE -1]

WriteOp(slot, size) ==
  [tag |-> "write", slot |-> slot, size |-> size,
   pos |-> IF OutSeekable THEN out_file_pos ELSE -1]

Prime ==
  /\ pc = "step"
  /\ ~pipeline_primed
  /\ IF NextReadSize(0) = 0
     THEN /\ pc' = "flush"
          /\ UNCHANGED <<sq, read_slot, flight_vars>>
     ELSE /\ sq' = sq \cup {ReadOp(0, NextReadSize(0))}
          /\ read_in_flight' = TRUE /\ read_slot' = 0
          /\ pipeline_primed' = TRUE
          /\ pc' = "harvest"
          /\ UNCHANGED <<write_in_flight, read_eof>>
  /\ UNCHANGED <<cfg, exit_status, buf, length, write_slot, file_pos, cq, in_off,
                 out_off, out, disturbances, result_vars>>

Resume ==
  /\ pc = "step"
  /\ pipeline_primed
  /\ pc' = "harvest"
  /\ UNCHANGED <<cfg, exit_status, slot_vars, flight_vars, file_pos, sq, cq,
                 in_off, out_off, out, disturbances, result_vars>>

InFlight == read_in_flight \/ write_in_flight

\* Nothing here is touched by looking at a completion.
HarvestUntouched ==
  UNCHANGED <<cfg, buf, read_slot, write_slot, pipeline_primed, sq, in_off,
              out_off, out, hashed, disturbances, write_lost>>

\* The first completion, as long as the step waits for any.
Harvest(tag) ==
  /\ pc = "harvest"
  /\ InFlight
  /\ cq # << >> /\ Head(cq).tag = tag
  /\ cq' = Tail(cq)

HarvestWrite ==
  /\ Harvest("write")
  /\ write_in_flight' = FALSE
  /\ LET res == Head(cq).res
     IN  /\ pc' = IF res = Failed THEN "flush" ELSE pc
         /\ exit_status' = IF res = Failed THEN "failure" ELSE exit_status
         /\ w_bytes' = IF res > 0 THEN w_bytes + res ELSE w_bytes
         /\ out_file_pos' = IF res > 0 /\ OutSeekable THEN out_file_pos + res
                            ELSE out_file_pos
  /\ HarvestUntouched
  /\ UNCHANGED <<length, read_in_flight, read_eof, in_file_pos>>

\* Fault: the completion of the read-ahead is taken for the last one awaited.
HarvestRead_NoWait ==
  /\ Harvest("read")
  /\ read_in_flight' = FALSE
  /\ LET res == Head(cq).res
     IN  /\ pc' = IF res = Failed THEN "flush" ELSE "submit"
         /\ exit_status' = IF res = Failed THEN "failure" ELSE exit_status
         /\ read_eof' = (read_eof \/ res = 0)
         /\ length' = IF res >= 0 THEN [length EXCEPT ![read_slot] = res] ELSE length
         /\ in_file_pos' = IF res > 0 /\ InSeekable THEN in_file_pos + res
                           ELSE in_file_pos
  /\ HarvestUntouched
  /\ UNCHANGED <<write_in_flight, out_file_pos, w_bytes>>

\* An interrupted read leaves the length of the slot's previous block.
HarvestRead ==
  /\ Harvest("read")
  /\ read_in_flight' = FALSE
  /\ LET res == Head(cq).res
     IN  /\ pc' = IF res = Failed THEN "flush" ELSE pc
         /\ exit_status' = IF res = Failed THEN "failure" ELSE exit_status
         /\ read_eof' = (read_eof \/ res = 0)
         /\ length' = IF res >= 0 THEN [length EXCEPT ![read_slot] = res] ELSE length
         /\ in_file_pos' = IF res > 0 /\ InSeekable THEN in_file_pos + res
                           ELSE in_file_pos
  /\ HarvestUntouched
  /\ UNCHANGED <<write_in_flight, out_file_pos, w_bytes>>

\* Fault: the step goes on as soon as the next block has been read.
Settled_ReadOnly ==
  /\ pc = "harvest"
  /\ ~read_in_flight
  /\ pc' = "submit"
  /\ UNCHANGED <<cfg, exit_status, slot_vars, flight_vars, file_pos, sq, cq,
                 in_off, out_off, out, disturbances, result_vars>>

\* Both operations are done: only then is the next pair submitted, or the end
\* of the copy seen.
Settled ==
  /\ pc = "harvest"
  /\ ~InFlight
  /\ pc' = "submit"
  /\ UNCHANGED <<cfg, exit_status, slot_vars, flight_vars, file_pos, sq, cq,
                 in_off, out_off, out, disturbances, result_vars>>

\* io_uring_wait_cqe is interrupted by a signal: the step ends early.
WaitInterrupted ==
  /\ pc = "harvest"
  /\ InFlight
  /\ cq = << >>
  /\ pc' = "loop"
  /\ UNCHANGED <<exit_status, slot_vars, flight_vars, file_pos, sq, cq, in_off,
                 out_off, out, disturbances, result_vars>>

\* Every byte the limit allows has been written.
Exhausted == bytes_to_copy >= 0 /\ w_bytes >= bytes_to_copy

StepEnds ==
  /\ pc = "submit"
  /\ (read_eof /\ length[read_slot] = 0) \/ Exhausted
  /\ pc' = "flush"
  /\ UNCHANGED <<cfg, exit_status, slot_vars, flight_vars, file_pos, sq, cq,
                 in_off, out_off, out, disturbances, result_vars>>

\* Fault: the next block is read into the slot that is being written.
NextSlot_Same(slot) == slot

NextSlot(slot) == (slot + 1) % URING_NUM_BUFFERS

\* The finished block is hashed and written, and the next one read ahead.
Submit ==
  /\ pc = "submit"
  /\ ~(read_eof /\ length[read_slot] = 0) /\ ~Exhausted
  /\ LET n    == IF bytes_to_copy >= 0
                 THEN Least(length[read_slot], bytes_to_copy - w_bytes)
                 ELSE length[read_slot]
         size == IF read_eof THEN 0 ELSE NextReadSize(w_bytes + n)
         slot == NextSlot(read_slot)
     IN  /\ hashed' = hashed \o SubSeq(buf[read_slot], 1, n)
         /\ write_in_flight' = TRUE /\ write_slot' = read_slot
         /\ read_eof' = (size = 0)
         /\ IF size > 0
            THEN /\ sq' = sq \cup {WriteOp(read_slot, n), ReadOp(slot, size)}
                 /\ read_in_flight' = TRUE /\ read_slot' = slot
            ELSE /\ sq' = sq \cup {WriteOp(read_slot, n)}
                 /\ UNCHANGED <<read_in_flight, read_slot>>
  /\ pc' = "loop"
  /\ UNCHANGED <<cfg, exit_status, buf, length, pipeline_primed, file_pos, cq,
                 in_off, out_off, out, w_bytes, disturbances, write_lost>>

------------------------------------------------------------------------------
(* uring_driver_flush                                                        *)

\* Fault: only a write that succeeded counts as no longer in flight.
FlushHarvests_FailureWaits ==
  /\ pc = "flush"
  /\ write_in_flight
  /\ cq # << >>
  /\ cq' = Tail(cq)
  /\ LET done == Head(cq)
     IN  /\ write_in_flight' = ~(done.tag = "write" /\ done.res > 0)
         /\ IF done.tag = "write" /\ done.res > 0
            THEN /\ w_bytes' = w_bytes + done.res
                 /\ out_file_pos' = IF OutSeekable THEN out_file_pos + done.res
                                    ELSE out_file_pos
            ELSE UNCHANGED <<w_bytes, out_file_pos>>
  /\ UNCHANGED <<cfg, pc, exit_status, slot_vars, read_in_flight, read_eof,
                 pipeline_primed, in_file_pos, sq, in_off, out_off, out, hashed,
                 disturbances, write_lost>>

\* Completions are taken until the last write is among them; its failure is
\* dropped.
FlushHarvests ==
  /\ pc = "flush"
  /\ write_in_flight
  /\ cq # << >>
  /\ cq' = Tail(cq)
  /\ LET done == Head(cq)
     IN  /\ write_in_flight' = (done.tag # "write")
         /\ write_lost' = (write_lost \/ (done.tag = "write" /\ done.res < 0))
         /\ IF done.tag = "write" /\ done.res > 0
            THEN /\ w_bytes' = w_bytes + done.res
                 /\ out_file_pos' = IF OutSeekable THEN out_file_pos + done.res
                                    ELSE out_file_pos
            ELSE UNCHANGED <<w_bytes, out_file_pos>>
  /\ UNCHANGED <<cfg, pc, exit_status, slot_vars, read_in_flight, read_eof,
                 pipeline_primed, in_file_pos, sq, in_off, out_off, out, hashed,
                 disturbances>>

\* The ring is taken down: a read still in flight is cancelled.
Flushed ==
  /\ pc = "flush"
  /\ ~write_in_flight
  /\ pc' = "copied"
  /\ sq' = {}
  /\ UNCHANGED <<cfg, exit_status, slot_vars, flight_vars, file_pos, cq,
                 in_off, out_off, out, disturbances, result_vars>>

------------------------------------------------------------------------------
(* The synchronous driver, reading and writing a block in one step           *)

SyncToRead == NextReadSize(w_bytes)

SyncBlock ==
  /\ pc = "sync_step"
  /\ SyncToRead > 0
  /\ \E n \in ReadResults(in_off, SyncToRead) :
       /\ n > 0
       /\ in_off' = in_off + n
       /\ hashed' = hashed \o InputBytes(in_off, n)
       /\ \E m \in {n, 0} :
            /\ out' = WrittenAt(out_off, InputBytes(in_off, m))
            /\ out_off' = out_off + m
            /\ w_bytes' = w_bytes + m
            /\ pc' = IF m = n THEN "loop" ELSE "flush"
            /\ exit_status' = IF m = n THEN exit_status ELSE "failure"
  /\ UNCHANGED <<cfg, slot_vars, flight_vars, file_pos, sq, cq, disturbances,
                 write_lost>>

SyncEnds ==
  /\ pc = "sync_step"
  /\ \/ SyncToRead = 0 /\ UNCHANGED exit_status
     \/ SyncToRead > 0 /\ 0 \in ReadResults(in_off, SyncToRead) /\ UNCHANGED exit_status
     \/ SyncToRead > 0 /\ Failed \in ReadResults(in_off, SyncToRead) /\ exit_status' = "failure"
  /\ pc' = "flush"
  /\ UNCHANGED <<cfg, slot_vars, flight_vars, file_pos, sq, cq, in_off, out_off,
                 out, disturbances, result_vars>>

Ring ==
  \/ Prime \/ Resume \/ HarvestWrite \/ HarvestRead \/ Settled \/ StepEnds
  \/ Submit \/ FlushHarvests \/ Flushed \/ SyncBlock \/ SyncEnds

=============================================================================
