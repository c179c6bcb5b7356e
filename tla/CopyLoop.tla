------------------------------ MODULE CopyLoop ------------------------------
(***************************************************************************)
(* The single-threaded side of the C program: dd_copy's central loop       *)
(* (src/src/io_engine.c) with the synchronous driver (io_sync.c: autotune, *)
(* --swab with its carried byte, --sync padding, --noerror) and the two    *)
(* kernel-copy drivers (io_reflink.c, io_splice.c), each of which may hand *)
(* over to the synchronous driver in the middle of the loop.               *)
(*                                                                         *)
(* Bytes are named by their position in the input; 0 is a padding zero and *)
(* Stale a byte left in the buffer by an earlier read.  A whole dd_iwrite  *)
(* (write(2) until everything is out or one fails) is one step: no other   *)
(* thread runs.  Sparse seeks, O_DIRECT, skip and seek are left out.       *)
(***************************************************************************)
EXTENDS Integers, Sequences, Functions

CONSTANTS
  Configs,           \* the command lines and inputs considered
  autotune_stages,   \* sequence of block sizes that --autotune tries
  INTMAX_MAX         \* "no block limit"

Conversions == {"swab", "sync", "noerror", "sha256", "blake3", "autotune"}

(***************************************************************************)
(* limit is -l and count is -c, -1 when absent.  "file" is a regular file: *)
(* only reads of a pipe are short before the end of the input.  bad is the *)
(* position of an unreadable byte, 0 when there is none.  "blake3" stands  *)
(* for --blake3 and --blks.                                                *)
(***************************************************************************)
ConfigType ==
  [engine : {"auto", "sync", "reflink", "splice"},
   input : {"file", "pipe"}, output : {"file", "pipe"},
   conversions : SUBSET Conversions, blocksize : Nat \ {0},
   limit : Nat \cup {-1}, count : Nat \cup {-1}, source : Nat, bad : Nat]

(***************************************************************************)
(* --swab with --autotune is left out: a block size that shrinks below     *)
(* what is already collected makes dd_copy_simple's copy length negative   *)
(* (undefined).  So is an unreadable byte under --noerror --sync without   *)
(* any limit: the step pads the output there until the records overflow.   *)
(***************************************************************************)
ASSUME ConfigsAssumption ==
  /\ Configs \subseteq ConfigType
  /\ \A c \in Configs :
       /\ ~({"swab", "autotune"} \subseteq c.conversions)
       /\ c.bad <= c.source
       /\ {"sync", "noerror"} \subseteq c.conversions /\ c.bad > 0 => c.limit >= 0 \/ c.count >= 0

\* What can be counted is below the "no block limit".
ASSUME StagesAssumption ==
  /\ autotune_stages \in Seq(Nat \ {0})
  /\ Len(autotune_stages) > 0
  /\ INTMAX_MAX \in Nat
  /\ \A c \in Configs : c.source < INTMAX_MAX /\ c.limit + c.blocksize < INTMAX_MAX

VARIABLES
  cfg,
  pc, driver, exit_status,
  blocksize, max_records, max_bytes,   \* rewritten by autotune
  records,                             \* stats.r_full + stats.r_partial
  w_bytes,                             \* stats.w_bytes
  at,                                  \* autotune_state_t
  partread, saved,                     \* sync driver: saved_byte, 0 or 1 byte
  pending,                             \* bytes collected for the next block
  in_off, out_off,                     \* file offsets of the descriptors
  in_file_pos, out_file_pos,           \* offsets the splice driver keeps
  out, hashed,                         \* output bytes, bytes in the checksum
  write_error                          \* a failed write was reported

tune_vars  == <<blocksize, max_records, max_bytes, at>>
block_vars == <<partread, saved, pending>>
pos_vars   == <<in_off, out_off, in_file_pos, out_file_pos>>
data_vars  == <<records, w_bytes, block_vars, pos_vars, out, hashed, write_error>>
all_but_pc == <<cfg, driver, exit_status, tune_vars, data_vars>>
vars == <<pc, all_but_pc>>

Stale == -1

Has(conversion) == conversion \in cfg.conversions

Hashing == cfg.conversions \cap {"sha256", "blake3"} # {}

\* dd_iwrite hashes a block before it writes it.
Hash(bytes) == hashed' = IF Hashing THEN hashed \o bytes ELSE hashed

Least(a, b) == IF a < b THEN a ELSE b

\* The output after bytes are written at a position of it.
WrittenAt(position, bytes) ==
  SubSeq(out, 1, position) \o bytes \o SubSeq(out, position + Len(bytes) + 1, Len(out))

\* dd_iwrite got bytes written at the descriptor's offset; they are counted.
Emit(bytes) ==
  /\ out' = WrittenAt(out_off, bytes)
  /\ out_off' = out_off + Len(bytes)
  /\ w_bytes' = w_bytes + Len(bytes)

\* n bytes of the input after the first "position".
InputBytes(position, n) == [i \in 1..n |-> position + i]

\* -c N without -l limits the bytes to N blocks.
BytesToCopy(c) ==
  IF c.limit >= 0 THEN c.limit
  ELSE IF c.count >= 0 THEN c.count * c.blocksize ELSE -1

bytes_to_copy == BytesToCopy(cfg)

\* Bytes that can be read from a position before the end or an unreadable one.
Readable(position) ==
  IF cfg.bad > position THEN cfg.bad - 1 - position ELSE cfg.source - position

AtBad(position) == cfg.bad = position + 1

NoAutotune == [active |-> FALSE, first |-> 0, stage |-> 0, blocks |-> 0]

Init ==
  /\ cfg \in Configs
  /\ pc = "start" /\ driver = "none" /\ exit_status = "success"
  /\ blocksize = cfg.blocksize
  /\ max_records = IF cfg.count >= 0 THEN cfg.count ELSE INTMAX_MAX
  /\ max_bytes = 0
  /\ records = 0 /\ w_bytes = 0
  /\ at = NoAutotune
  /\ partread = 0 /\ saved = << >> /\ pending = << >>
  /\ in_off = 0 /\ out_off = 0 /\ in_file_pos = 0 /\ out_file_pos = 0
  /\ out = << >> /\ hashed = << >>
  /\ write_error = FALSE

------------------------------------------------------------------------------
(* Driver selection and initialisation                                       *)

\* dd_select_io_driver for files and pipes, without threads or direct I/O.
SelectDriver(c) ==
  LET untouched == c.conversions \subseteq {"noerror"}
  IN  IF c.engine # "auto" THEN c.engine
      ELSE IF untouched /\ c.input = "file" /\ c.output = "file" THEN "reflink"
      ELSE IF untouched /\ "pipe" \in {c.input, c.output} THEN "splice"
      ELSE "sync"

\* What the init functions of the kernel-copy drivers accept.
Eligible(c) ==
  CASE SelectDriver(c) = "reflink" ->
         /\ c.conversions \cap {"swab", "sync", "sha256"} = {}
         /\ c.input = "file" /\ c.output = "file"
         /\ c.engine = "reflink" \/ "autotune" \notin c.conversions
    [] SelectDriver(c) = "splice" ->
         c.conversions \cap {"swab", "sync", "sha256"} = {}
    [] OTHER -> FALSE

\* Autotune takes over a block size and recomputes the limits from it, for
\* what remains after "written" bytes and "done" records.
SetBlocksize(size, written, done) ==
  LET remaining == bytes_to_copy - written
  IN  /\ blocksize' = size
      /\ IF bytes_to_copy >= 0 /\ remaining > 0
         THEN /\ max_records' = done + remaining \div size
              /\ max_bytes' = remaining % size
         ELSE UNCHANGED <<max_records, max_bytes>>

\* sync_driver_init: the first autotune stage depends on the hardware.  (With
\* a limit of 0 the loop ends before any of this is used.)
InitSync ==
  /\ driver' = "sync"
  /\ IF Has("autotune")
     THEN \E s \in 0..(Len(autotune_stages) - 1) :
             /\ at' = [active |-> TRUE, first |-> s, stage |-> s, blocks |-> 0]
             /\ SetBlocksize(autotune_stages[s + 1], 0, 0)
     ELSE UNCHANGED tune_vars

\* A count of 0 copies nothing.
StartNothing ==
  /\ pc = "start"
  /\ max_records = 0 /\ max_bytes = 0
  /\ pc' = "done"
  /\ UNCHANGED all_but_pc

StartKernel ==
  /\ pc = "start"
  /\ max_records # 0
  /\ Eligible(cfg)
  /\ driver' = SelectDriver(cfg)
  /\ pc' = "loop"
  /\ UNCHANGED <<cfg, exit_status, tune_vars, data_vars>>

\* The synchronous driver is chosen, or the chosen one does not initialise:
\* it is not eligible, or there is no pipe for splicing file to file.
StartSync ==
  /\ pc = "start"
  /\ max_records # 0
  /\ \/ ~Eligible(cfg)
     \/ SelectDriver(cfg) = "splice" /\ cfg.input = "file" /\ cfg.output = "file"
  /\ InitSync
  /\ pc' = "loop"
  /\ UNCHANGED <<cfg, exit_status, data_vars>>

------------------------------------------------------------------------------
(* dd_copy's loop                                                            *)

LimitReached ==
  IF bytes_to_copy >= 0
  THEN w_bytes >= bytes_to_copy
  ELSE records >= max_records + (IF max_bytes # 0 THEN 1 ELSE 0)

Loop ==
  /\ pc = "loop"
  /\ pc' = IF LimitReached THEN "flush" ELSE "step"
  /\ UNCHANGED all_but_pc

------------------------------------------------------------------------------
(* sync_driver_step                                                          *)

ToRead ==
  LET size == IF records >= max_records THEN max_bytes ELSE blocksize
  IN  IF bytes_to_copy >= 0 THEN Least(size, bytes_to_copy - w_bytes) ELSE size

SyncEnds ==
  /\ pc = "step" /\ driver = "sync"
  /\ \/ ToRead = 0
     \/ in_off = cfg.source /\ ~AtBad(in_off)
  /\ pc' = "flush"
  /\ UNCHANGED all_but_pc

\* Fault: a read error ends the copy like the end of the input.
SyncReadFails_AsEof ==
  /\ pc = "step" /\ driver = "sync" /\ ToRead > 0 /\ AtBad(in_off)
  /\ ~Has("noerror")
  /\ pc' = "flush"
  /\ UNCHANGED all_but_pc

SyncReadFails ==
  /\ pc = "step" /\ driver = "sync" /\ ToRead > 0 /\ AtBad(in_off)
  /\ ~Has("noerror")
  /\ exit_status' = "failure"
  /\ pc' = "flush"
  /\ UNCHANGED <<cfg, driver, tune_vars, data_vars>>

\* --noerror: the step succeeds without having moved the input on.
SyncIgnoresError ==
  /\ pc = "step" /\ driver = "sync" /\ ToRead > 0 /\ AtBad(in_off)
  /\ Has("noerror")
  /\ ~Has("sync") \/ partread # 0
  /\ pc' = "loop"
  /\ UNCHANGED all_but_pc

\* Results of a read(2) that delivers data; 0 is the error that --noerror
\* --sync turns into an empty block.
ReadResults ==
  LET most == Least(ToRead, Readable(in_off))
  IN  IF ToRead > 0 /\ AtBad(in_off)
      THEN IF Has("noerror") /\ Has("sync") /\ partread = 0 THEN {0} ELSE {}
      ELSE IF cfg.input = "pipe" THEN 1..most ELSE {most} \ {0}

\* --sync fills a short block up; with --noerror too the rest of the buffer
\* is not cleared.
Padded(block) ==
  IF Has("sync") /\ Len(block) < blocksize
  THEN block \o [i \in 1..(blocksize - Len(block)) |->
                    IF Has("noerror") THEN Stale ELSE 0]
  ELSE block

\* dd_swab_buffer: adjacent bytes change places; an odd byte is kept back.
SwapPairs(bytes) ==
  [i \in 1..(2 * (Len(bytes) \div 2)) |->
      IF i % 2 = 1 THEN bytes[i + 1] ELSE bytes[i - 1]]

OddByte(bytes) == IF Len(bytes) % 2 = 1 THEN <<bytes[Len(bytes)]>> ELSE << >>

SwabBlock(block) ==
  /\ pending' = pending \o SwapPairs(saved \o block)
  /\ saved' = OddByte(saved \o block)

\* Without --swab one buffer serves both sides and is written at once.
SyncCopies ==
  /\ pc = "step" /\ driver = "sync" /\ ~Has("swab")
  /\ \E n \in ReadResults :
       LET block == Padded(InputBytes(in_off, n))
       IN  /\ in_off' = in_off + n
           /\ partread' = IF n < blocksize THEN n ELSE 0
           /\ Hash(block)
           /\ \E written \in 0..Len(block) :
                /\ Emit(SubSeq(block, 1, written))
                /\ IF written = Len(block)
                   THEN pc' = "tick" /\ UNCHANGED <<exit_status, write_error>>
                   ELSE /\ exit_status' = "failure" /\ write_error' = TRUE
                        /\ pc' = "flush"
  /\ records' = records + 1
  /\ UNCHANGED <<cfg, driver, tune_vars, saved, pending, in_file_pos, out_file_pos>>

\* With --swab the swapped bytes are collected in a second buffer.
SyncCollects ==
  /\ pc = "step" /\ driver = "sync" /\ Has("swab")
  /\ \E n \in ReadResults :
       /\ in_off' = in_off + n
       /\ partread' = IF n < blocksize THEN n ELSE 0
       /\ SwabBlock(Padded(InputBytes(in_off, n)))
  /\ records' = records + 1
  /\ pc' = "drain"
  /\ UNCHANGED <<cfg, driver, exit_status, tune_vars, w_bytes, out_off, in_file_pos,
                 out_file_pos, out, hashed, write_error>>

\* dd_write_output: write one full block, drop it whatever was written.
WriteBlock ==
  /\ pc \in {"drain", "flush_drain"}
  /\ Len(pending) >= blocksize
  /\ \E written \in 0..blocksize :
       /\ Emit(SubSeq(pending, 1, written))
       /\ write_error' = (write_error \/ written # blocksize)
  /\ Hash(SubSeq(pending, 1, blocksize))
  /\ pending' = SubSeq(pending, blocksize + 1, Len(pending))
  /\ UNCHANGED <<cfg, pc, driver, exit_status, tune_vars, records, partread, saved,
                 in_off, in_file_pos, out_file_pos>>

\* Fault: one block is written however many were collected.
Drained_Early ==
  /\ pc = "drain"
  /\ pc' = "tick"
  /\ UNCHANGED all_but_pc

Drained ==
  /\ pc = "drain"
  /\ Len(pending) < blocksize
  /\ pc' = "tick"
  /\ UNCHANGED all_but_pc

------------------------------------------------------------------------------
(* autotune_sample_tick, at the end of every successful step                 *)

\* A stage lasts four blocks, or two when it takes long enough.
TickSameStage ==
  /\ pc = "tick"
  /\ at.active => at.blocks + 1 < 4
  /\ at' = IF at.active THEN [at EXCEPT !.blocks = @ + 1] ELSE at
  /\ pc' = "loop"
  /\ UNCHANGED <<cfg, driver, exit_status, blocksize, max_records, max_bytes,
                 data_vars>>

\* The next stage is not worth trying for what remains of the limit.
NextStageTooLarge ==
  /\ bytes_to_copy >= 0
  /\ LET remaining == bytes_to_copy - w_bytes
     IN  \/ remaining <= 0
         \/ /\ at.stage + 1 < Len(autotune_stages)
            /\ remaining < autotune_stages[at.stage + 2]

TickNextStage ==
  /\ pc = "tick" /\ at.active /\ at.blocks + 1 >= 2
  /\ at.stage + 1 < Len(autotune_stages) /\ ~NextStageTooLarge
  /\ at' = [at EXCEPT !.stage = @ + 1, !.blocks = 0]
  /\ SetBlocksize(autotune_stages[at.stage + 2], w_bytes, records)
  /\ pc' = "loop"
  /\ UNCHANGED <<cfg, driver, exit_status, data_vars>>

\* Tuning ends with the fastest stage measured (stage 0 when no clock tick
\* was seen).
TickSelectsBest ==
  /\ pc = "tick" /\ at.active /\ at.blocks + 1 >= 2
  /\ at.stage + 1 = Len(autotune_stages) \/ NextStageTooLarge
  /\ \E best \in {0} \cup (at.first..at.stage) :
        SetBlocksize(autotune_stages[best + 1], w_bytes, records)
  /\ at' = NoAutotune
  /\ pc' = "loop"
  /\ UNCHANGED <<cfg, driver, exit_status, data_vars>>

------------------------------------------------------------------------------
(* reflink_driver_step and splice_driver_step                                *)

\* splice(2) is given explicit offsets for files; everything else moves the
\* descriptor's own offset.
SourcePos == IF driver = "splice" /\ cfg.input = "file" THEN in_file_pos ELSE in_off
SinkPos   == IF driver = "splice" /\ cfg.output = "file" THEN out_file_pos ELSE out_off

MoveSource(n) ==
  IF driver = "splice" /\ cfg.input = "file"
  THEN in_file_pos' = in_file_pos + n /\ UNCHANGED in_off
  ELSE in_off' = in_off + n /\ UNCHANGED in_file_pos

MoveSink(n) ==
  IF driver = "splice" /\ cfg.output = "file"
  THEN out_file_pos' = out_file_pos + n /\ UNCHANGED out_off
  ELSE out_off' = out_off + n /\ UNCHANGED out_file_pos

\* How much may be moved: the kernel may always move less, so the chunk size
\* (64 KiB to 64 MiB) adds nothing.
Movable ==
  IF bytes_to_copy >= 0
  THEN Least(Readable(SourcePos), bytes_to_copy - w_bytes)
  ELSE Readable(SourcePos)

KernelStep == pc = "step" /\ driver \in {"reflink", "splice"}

ViaPipe == driver = "splice" /\ cfg.input = "file" /\ cfg.output = "file"

\* copy_file_range counts its blocks, splice one record per call.
RecordsMoved(n) ==
  IF driver = "reflink" THEN (n + blocksize - 1) \div blocksize ELSE 1

\* One call moves some bytes.  From file to file splice goes through a pipe
\* of its own, and the second half may fail after a part.
KernelMoves ==
  /\ KernelStep
  /\ \E n \in 1..Movable :
       \E written \in (IF ViaPipe THEN 0..n ELSE {n}) :
         /\ MoveSource(n) /\ MoveSink(written)
         /\ out' = WrittenAt(SinkPos, InputBytes(SourcePos, written))
         /\ IF written = n
            THEN /\ records' = records + RecordsMoved(n)
                 /\ w_bytes' = w_bytes + n
                 /\ pc' = "loop"
                 /\ UNCHANGED <<exit_status, write_error>>
            ELSE /\ exit_status' = "failure" /\ write_error' = TRUE
                 /\ pc' = "flush"
                 /\ UNCHANGED <<records, w_bytes>>
  /\ UNCHANGED <<cfg, driver, tune_vars, block_vars, hashed>>

\* Fault: a call that moves nothing is taken for an interrupted one.
KernelEnds_TriesAgain ==
  /\ KernelStep
  /\ SourcePos = cfg.source /\ ~AtBad(SourcePos)
  /\ pc' = "loop"
  /\ UNCHANGED all_but_pc

KernelEnds ==
  /\ KernelStep
  /\ SourcePos = cfg.source /\ ~AtBad(SourcePos)
  /\ pc' = "flush"
  /\ UNCHANGED all_but_pc

\* Fault: a refused call falls back after some bytes were moved, too.
KernelFallsBack_Always ==
  /\ KernelStep
  /\ ~(driver = "reflink" /\ cfg.engine = "reflink")
  /\ InitSync
  /\ pc' = "loop"
  /\ UNCHANGED <<cfg, exit_status, data_vars>>

\* The kernel refuses the very first call: the synchronous driver goes on,
\* unless -e reflink asked for exactly this one.
KernelFallsBack ==
  /\ KernelStep
  /\ w_bytes = 0
  /\ ~(driver = "reflink" /\ cfg.engine = "reflink")
  /\ InitSync
  /\ pc' = "loop"
  /\ UNCHANGED <<cfg, exit_status, data_vars>>

KernelFails ==
  /\ KernelStep
  /\ exit_status' = "failure"
  /\ pc' = "flush"
  /\ UNCHANGED <<cfg, driver, tune_vars, data_vars>>

------------------------------------------------------------------------------
(* sync_driver_flush (the others have nothing to flush); dd_copy ignores its *)
(* result                                                                    *)

Flush ==
  /\ pc = "flush"
  /\ pending' = pending \o saved
  /\ pc' = "flush_drain"
  /\ UNCHANGED <<cfg, driver, exit_status, tune_vars, records, w_bytes, partread,
                 saved, pos_vars, out, hashed, write_error>>

\* The last block is written; its failure is reported but not returned.
FlushRest ==
  /\ pc = "flush_drain"
  /\ Len(pending) < blocksize
  /\ \E written \in 0..Len(pending) :
       /\ Emit(SubSeq(pending, 1, written))
       /\ write_error' = (write_error \/ written # Len(pending))
       /\ pending' = IF written = Len(pending) THEN << >> ELSE pending
  /\ Hash(pending)
  /\ pc' = "done"
  /\ UNCHANGED <<cfg, driver, exit_status, tune_vars, records, partread, saved,
                 in_off, in_file_pos, out_file_pos>>

Idle == pc = "done" /\ UNCHANGED vars

SyncStep ==
  \/ SyncEnds \/ SyncReadFails \/ SyncIgnoresError \/ SyncCopies \/ SyncCollects
  \/ WriteBlock \/ Drained
  \/ TickSameStage \/ TickNextStage \/ TickSelectsBest

KernelCopy == KernelMoves \/ KernelEnds \/ KernelFallsBack \/ KernelFails

Progress ==
  \/ StartNothing \/ StartKernel \/ StartSync \/ Loop
  \/ SyncStep \/ KernelCopy \/ Flush \/ FlushRest

Next == Progress \/ Idle

Spec == Init /\ [][Next]_vars

\* One thread that is scheduled, and system calls that return.
FairSpec == Spec /\ WF_vars(Progress)

------------------------------------------------------------------------------
TypeOK ==
  /\ cfg \in Configs
  /\ pc \in {"start", "loop", "step", "drain", "tick", "flush", "flush_drain", "done"}
  /\ driver \in {"none", "sync", "reflink", "splice"}
  /\ exit_status \in {"success", "failure"}
  /\ blocksize \in {cfg.blocksize} \cup Range(autotune_stages)
  /\ max_records \in Nat /\ max_bytes \in Nat /\ records \in Nat /\ w_bytes \in Nat
  /\ at.stage \in at.first..(Len(autotune_stages) - 1) /\ at.blocks \in 0..3
  /\ partread \in 0..cfg.source /\ Len(saved) <= 1
  /\ pc \in {"start", "loop", "step"} => Len(pending) < blocksize
  /\ in_off + in_file_pos \in 0..cfg.source
  /\ out_off + out_file_pos = Len(out)
  /\ write_error \in BOOLEAN

\* What the output has of the input; padding is left out.
Payload == Range(out) \ {0}

\* Bytes taken from the input by whichever driver.
Consumed == in_off + in_file_pos

StalePadding == {"sync", "noerror"} \subseteq cfg.conversions

SwabLostWrite == Has("swab") /\ write_error

\* Short reads use up the block count that autotune makes of the byte limit.
AutotunedShort ==
  Has("autotune") /\ bytes_to_copy >= 0 /\ (cfg.input = "pipe" \/ cfg.bad > 0)

(***************************************************************************)
(* The output is the image of the input whatever the sizes of the reads,   *)
(* the driver and the moment of a fallback: in order, nothing repeated or  *)
(* skipped; with --swab every pair changed over, across block boundaries,  *)
(* and only a last odd byte alone.  Not so with --sync --noerror, whose    *)
(* padding repeats old bytes, nor with --swab once a write failed or the   *)
(* padding is changed over, too.                                           *)
(***************************************************************************)
OutputInOrder ==
  /\ ~Has("swab") /\ ~StalePadding =>
       /\ \A i, j \in DOMAIN out : i < j /\ out[j] # 0 => out[i] < out[j]
       /\ \E k \in 0..Len(out) : Payload = 1..k
  /\ Has("swab") /\ ~Has("sync") /\ ~write_error =>
       \A i \in DOMAIN out :
          \/ out[i] = IF i % 2 = 1 THEN i + 1 ELSE i - 1
          \/ pc \in {"flush_drain", "done"} /\ i % 2 = 1 /\ i = Consumed /\ out[i] = i

(***************************************************************************)
(* Whatever ends the loop, every byte taken from the input was written,    *)
(* those still collected for a block and the odd one included.             *)
(***************************************************************************)
ReadIsWritten ==
  pc = "done" /\ ~write_error /\ ~StalePadding => Payload = 1..Consumed

(***************************************************************************)
(* -l and -c bound what is written and what is taken from the input.  (Not *)
(* with --swab, where bytes not yet written escape the limit, nor with     *)
(* --sync, which pads the last block beyond it.)                           *)
(***************************************************************************)
WithinLimit ==
  bytes_to_copy >= 0 /\ cfg.conversions \cap {"swab", "sync"} = {} =>
    Len(out) <= bytes_to_copy /\ Consumed <= bytes_to_copy

\* The output is the input's image, nothing of it is kept back and nothing is
\* beyond the limits, across short reads, fallbacks and block-size changes.
OutputSound == OutputInOrder /\ ReadIsWritten /\ WithinLimit

\* All that was asked for was copied.
CopyComplete ==
  \/ Consumed = cfg.source
  \/ bytes_to_copy >= 0 /\ Len(out) >= bytes_to_copy
  \/ cfg.count >= 0 /\ records >= cfg.count

Succeeded == pc = "done" /\ exit_status = "success"

(***************************************************************************)
(* Exit status 0 means that all was copied, through read errors, failing   *)
(* writes, refused kernel calls and changing block sizes.  Not so with     *)
(* --swab, where dd_write_output and dd_copy_simple only report a failed   *)
(* write and dd_copy ignores the result of flush, nor with --autotune -l   *)
(* on a pipe or before an unreadable byte: autotune turns the rest of the  *)
(* limit into a block count (io_sync.c:141), which short reads use up      *)
(* before the limit is reached or the error is met.                        *)
(***************************************************************************)
SuccessIsComplete ==
  Succeeded /\ ~SwabLostWrite /\ ~AutotunedShort => CopyComplete /\ ~write_error

(***************************************************************************)
(* The checksum of a successful copy is over exactly the bytes written.    *)
(* (-e reflink and -e splice hash nothing, and refuse only sha256.)        *)
(***************************************************************************)
SuccessDigest ==
  Succeeded /\ Hashing /\ driver \in {"none", "sync"} /\ ~write_error => hashed = out

\* Exit status 0: the data is all there and the digest printed is its own.
SuccessIsTrue == SuccessIsComplete /\ SuccessDigest

\* The copy ends, except on a read error that --noerror tries to get past.
Terminates == ~(Has("noerror") /\ cfg.bad > 0) => <>(pc = "done")

(***************************************************************************)
(* Violated: --noerror continues across a read error.  The step retries    *)
(* the same position without end.                                          *)
(***************************************************************************)
ErrorsAreSkipped == <>(pc = "done")

=============================================================================
