------------------------------- MODULE Session -------------------------------
(***************************************************************************)
(* The life of the C program around a copy: signal handlers (signals.c),   *)
(* the streams, the target safety guard and the dry run, the choice of the *)
(* driver, dd_copy's loop with its poll for signals, and the way out:      *)
(* fdatasync and fsync, closing, statistics, exit status (io_engine.c).    *)
(* The copy itself is UringRing's; a driver other than io_uring is         *)
(* represented by the synchronous step there.                              *)
(*                                                                         *)
(* SIGINT is "INT"; SIGUSR1, which asks for statistics, is "INFO".  A      *)
(* signal may arrive between any two steps.                                *)
(***************************************************************************)
EXTENDS UringRing, FiniteSets

CONSTANTS
  Mounts,       \* what /proc/mounts and /proc/swaps list
  MaxSignals    \* bound: signals sent to the process

(***************************************************************************)
(* The rest of a command line and its circumstances.  kinds are the file   *)
(* types of the streams; direct says whether O_DIRECT is asked for and     *)
(* whether the file system takes it; named, whether both streams are given *)
(* by name.  node is the block device the output path leads to and path    *)
(* the last component of the name given for it: equal unless the name is a *)
(* symbolic link.  A device is a disk or (part > 0) a partition of it.     *)
(***************************************************************************)
Device == [disk : STRING, part : Nat]

ASSUME SessionAssumption ==
  /\ MaxSignals \in Nat
  /\ Mounts \subseteq [device : Device, at : STRING]
  /\ \A c \in Configs :
       /\ c.engine \in {"auto", "uring", "reflink", "splice", "async", "sync"}
       /\ c.conversions \subseteq {"swab", "sync", "sha256", "blake3", "blks",
            "sparse", "autotune", "fullblock", "fdatasync", "fsync"}
       /\ c.in_kind \in {"regular", "block", "pipe"}
       /\ c.out_kind \in {"regular", "new", "block", "pipe"}
       /\ c.input = (IF c.in_kind = "pipe" THEN "pipe" ELSE "file")
       /\ c.output = (IF c.out_kind = "pipe" THEN "pipe" ELSE "file")
       /\ c.direct \in {"no", "works", "unsupported"}
       /\ c.named \in BOOLEAN /\ c.nocache \in BOOLEAN /\ c.threads \in Nat \ {0}
       /\ c.force \in BOOLEAN /\ c.dry_run \in BOOLEAN
       /\ c.node \in Device /\ c.path \in Device

VARIABLES
  handler,                 \* disposition of each signal
  masked, pending,         \* signals blocked, and held back meanwhile
  dd_interrupt_signal, dd_info_signal_count,
  interrupt, infos,        \* dd_process_signals' copies of the two
  sent,                    \* signals sent so far
  received, answered,      \* INFO handler runs; counts taken off again
  printed,                 \* statistics printed
  driver,
  direct, nocache,         \* flags in force: O_DIRECT may be given up
  opened,                  \* the output is open, and truncated if it is a file
  synced, status,          \* outcome of the program
  plan                     \* what a dry run announced

signal_vars  == <<handler, masked, pending, dd_interrupt_signal,
                  dd_info_signal_count, received>>
poll_vars    == <<interrupt, infos, answered, printed>>
stream_vars  == <<driver, direct, nocache, opened>>
outcome_vars == <<synced, status, plan>>
session_vars == <<signal_vars, sent, poll_vars, stream_vars, outcome_vars>>
all_but_pc   == <<cfg, exit_status, slot_vars, flight_vars, file_pos, sq, cq,
                  in_off, out_off, out, disturbances, result_vars, session_vars>>
vars         == <<pc, all_but_pc>>

Signals == {"INT", "INFO"}
Ended == {"exited", "killed"}

NoPlan == [engine |-> "none", guard |-> "none"]

Init ==
  /\ RingInit
  /\ pc = "start"
  /\ handler = [s \in Signals |-> "default"]
  /\ masked = FALSE /\ pending = {}
  /\ dd_interrupt_signal = FALSE /\ dd_info_signal_count = 0
  /\ interrupt = FALSE /\ infos = 0
  /\ sent = 0 /\ received = 0 /\ answered = 0 /\ printed = 0
  /\ driver = "none"
  /\ direct = (cfg.direct # "no") /\ nocache = cfg.nocache
  /\ opened = FALSE /\ synced = FALSE /\ status = "none" /\ plan = NoPlan

RingUnchanged == UNCHANGED <<cfg, exit_status, slot_vars, flight_vars, file_pos,
  sq, cq, in_off, out_off, out, disturbances, result_vars>>

Goto(from, to) == pc = from /\ pc' = to

------------------------------------------------------------------------------
(* Signals                                                                   *)

\* The handlers: SA_RESETHAND puts SIGINT back to its default action.
RunHandlers(signals) ==
  /\ dd_interrupt_signal' = (dd_interrupt_signal \/ "INT" \in signals)
  /\ handler' = IF "INT" \in signals THEN [handler EXCEPT !["INT"] = "default"]
                ELSE handler
  /\ dd_info_signal_count' = dd_info_signal_count + (IF "INFO" \in signals THEN 1 ELSE 0)
  /\ received' = received + (IF "INFO" \in signals THEN 1 ELSE 0)

\* A signal comes in; the handler may interrupt io_uring_wait_cqe, or have run
\* just before it.
SignalCaught(s) ==
  /\ sent < MaxSignals /\ pc \notin Ended
  /\ handler[s] = "caught" /\ ~masked
  /\ sent' = sent + 1
  /\ RunHandlers({s})
  /\ WaitInterrupted \/ UNCHANGED ring_vars
  /\ UNCHANGED <<cfg, masked, pending, poll_vars, stream_vars, outcome_vars>>

SignalBlocked(s) ==
  /\ sent < MaxSignals /\ pc \notin Ended
  /\ masked
  /\ sent' = sent + 1
  /\ pending' = pending \cup {s}
  /\ RingUnchanged
  /\ UNCHANGED <<pc, handler, masked, dd_interrupt_signal, dd_info_signal_count,
                 received, poll_vars, stream_vars, outcome_vars>>

\* Before the handlers are installed, or a second SIGINT.
SignalKills(s) ==
  /\ sent < MaxSignals /\ pc \notin Ended
  /\ handler[s] = "default"
  /\ ~masked
  /\ sent' = sent + 1
  /\ pc' = "killed" /\ status' = "signal"
  /\ RingUnchanged
  /\ UNCHANGED <<signal_vars, poll_vars, stream_vars, synced, plan>>

Environment ==
  \E s \in Signals : SignalCaught(s) \/ SignalBlocked(s) \/ SignalKills(s)

InstallHandlers ==
  /\ pc = "start"
  /\ pc' = IF cfg.dry_run THEN "dry_run" ELSE "setup_input"
  /\ handler' = [s \in Signals |-> "caught"]
  /\ RingUnchanged
  /\ UNCHANGED <<masked, pending, dd_interrupt_signal, dd_info_signal_count,
                 received, sent, poll_vars, stream_vars, outcome_vars>>

------------------------------------------------------------------------------
(* The target safety guard                                                   *)

SystemMounts == {"/", "/boot", "/boot/efi", "/home", "swap"}

\* is_partition_of_device, on names; a device is a "partition" of itself.
IsPartitionOf(device, name) ==
  device = name \/ (name.part = 0 /\ device.part > 0 /\ device.disk = name.disk)

\* Fault: only the very device that is mounted is refused.
Guarded_SameNode(c) ==
  c.out_kind = "block" /\ \E m \in Mounts : m.at \in SystemMounts /\ m.device = c.node

\* evaluate_target_safety: the same device, or by name a partition of it.
Guarded(c) ==
  /\ c.out_kind = "block"
  /\ \E m \in Mounts :
       m.at \in SystemMounts /\ (m.device = c.node \/ IsPartitionOf(m.device, c.path))

GuardVerdict(c) ==
  IF ~Guarded(c) THEN "ok" ELSE IF c.force THEN "overridden" ELSE "blocked"

------------------------------------------------------------------------------
(* Which driver                                                              *)

Incompatible == {"swab", "sync", "sha256", "blake3", "blks", "sparse", "autotune"}

\* What reflink and splice need when nobody asked for them.
Untouched(c, incompatible, is_direct, no_cache) ==
  /\ c.conversions \cap (incompatible \cup {"fullblock"}) = {}
  /\ ~no_cache /\ ~is_direct

OpenedKind(c) == IF c.out_kind = "new" THEN "regular" ELSE c.out_kind

AutoDriver(untouched, regular, uring, piped) ==
  IF untouched /\ regular THEN "reflink"
  ELSE IF uring THEN "uring"
  ELSE IF untouched /\ piped THEN "splice" ELSE "sync"

\* dd_select_io_driver, with the flags that survived the opening of the files
SelectDriver ==
  LET kinds == {cfg.in_kind, OpenedKind(cfg)}
  IN  IF cfg.engine # "auto" THEN cfg.engine
      ELSE AutoDriver(Untouched(cfg, Incompatible, direct, nocache),
                      kinds = {"regular"},
                      /\ cfg.conversions \cap {"swab", "autotune"} = {}
                      /\ "block" \in kinds \/ direct \/ cfg.threads > 1,
                      "pipe" \in kinds)

\* Fault: a new file is not expected to be a regular one.
PlannedEngine_NewFile ==
  LET kinds == IF cfg.named THEN {cfg.in_kind, cfg.out_kind} ELSE {"pipe"}
  IN  IF cfg.engine # "auto" THEN cfg.engine
      ELSE AutoDriver(Untouched(cfg, Incompatible \ {"blks"}, direct, nocache),
                      kinds = {"regular"},
                      /\ cfg.conversions \cap {"swab", "autotune"} = {}
                      /\ "block" \in kinds \/ direct,
                      "pipe" \in kinds)

\* dd_execute_dry_run decides by itself: it forgets threads and --blks, and
\* takes a stream without a name for a pipe.
PlannedEngine ==
  LET kinds == IF cfg.named THEN {cfg.in_kind, OpenedKind(cfg)} ELSE {"pipe"}
  IN  IF cfg.engine # "auto" THEN cfg.engine
      ELSE AutoDriver(Untouched(cfg, Incompatible \ {"blks"}, direct, nocache),
                      kinds = {"regular"},
                      /\ cfg.conversions \cap {"swab", "autotune"} = {}
                      /\ "block" \in kinds \/ direct,
                      "pipe" \in kinds)

------------------------------------------------------------------------------
(* dd_execute up to the copy                                                 *)

\* The plan is printed; nothing is opened for writing.
DryRun ==
  /\ Goto("dry_run", "exited")
  /\ plan' = [engine |-> PlannedEngine, guard |-> GuardVerdict(cfg)]
  /\ status' = "success"
  /\ RingUnchanged
  /\ UNCHANGED <<signal_vars, sent, poll_vars, stream_vars, synced>>

\* error(EXIT_FAILURE, ...)
Exit(from, result) ==
  /\ Goto(from, "exited")
  /\ status' = result
  /\ RingUnchanged
  /\ UNCHANGED <<signal_vars, sent, poll_vars, stream_vars, synced, plan>>

\* Without support for O_DIRECT the file is opened again without it.
SetupInput ==
  /\ Goto("setup_input", "check_target")
  /\ direct' = (direct /\ cfg.direct = "works")
  /\ nocache' = (nocache \/ cfg.direct = "unsupported")
  /\ RingUnchanged
  /\ UNCHANGED <<signal_vars, sent, poll_vars, driver, opened, outcome_vars>>

\* check_target_safety
CheckTarget ==
  /\ Goto("check_target", "setup_output")
  /\ GuardVerdict(cfg) # "blocked"
  /\ RingUnchanged /\ UNCHANGED session_vars

RefuseTarget ==
  /\ GuardVerdict(cfg) = "blocked"
  /\ Exit("check_target", "failure")

OpenFails == Exit("setup_input", "failure") \/ Exit("setup_output", "failure")

SetupOutput ==
  /\ Goto("setup_output", "select")
  /\ opened' = TRUE
  /\ RingUnchanged
  /\ UNCHANGED <<signal_vars, sent, poll_vars, driver, direct, nocache, outcome_vars>>

\* Drivers other than io_uring are represented by the synchronous one, which
\* also takes over when no ring can be set up.
ChooseDriver ==
  /\ Goto("select", "loop")
  /\ driver' \in {"sync"} \cup (IF SelectDriver = "uring" THEN {"uring"} ELSE {})
  /\ RingUnchanged
  /\ UNCHANGED <<signal_vars, sent, poll_vars, direct, nocache, opened, outcome_vars>>

------------------------------------------------------------------------------
(* dd_copy's loop: dd_check_signals, then the limit, then a step             *)

SignalSeen == dd_interrupt_signal \/ dd_info_signal_count > 0

LoopChecks ==
  /\ pc = "loop"
  /\ pc' = IF SignalSeen THEN "block" ELSE "limit"
  /\ UNCHANGED all_but_pc

CheckLimit ==
  /\ pc = "limit"
  /\ pc' = IF Exhausted THEN "flush" ELSE IF driver = "uring" THEN "step" ELSE "sync_step"
  /\ UNCHANGED all_but_pc

\* Fault: the counter is read and written back with the signals let through.
BlockSignals_Not ==
  /\ Goto("block", "snapshot")
  /\ UNCHANGED all_but_pc

BlockSignals ==
  /\ Goto("block", "snapshot")
  /\ masked' = TRUE
  /\ RingUnchanged
  /\ UNCHANGED <<handler, pending, dd_interrupt_signal, dd_info_signal_count,
                 received, sent, poll_vars, stream_vars, outcome_vars>>

Snapshot ==
  /\ Goto("snapshot", "decrement")
  /\ interrupt' = dd_interrupt_signal /\ infos' = dd_info_signal_count
  /\ RingUnchanged
  /\ UNCHANGED <<signal_vars, sent, answered, printed, stream_vars, outcome_vars>>

Decrement ==
  /\ Goto("decrement", "unblock")
  /\ IF infos > 0
     THEN /\ dd_info_signal_count' = infos - 1 /\ answered' = answered + 1
     ELSE UNCHANGED <<dd_info_signal_count, answered>>
  /\ RingUnchanged
  /\ UNCHANGED <<handler, masked, pending, dd_interrupt_signal, received, sent,
                 interrupt, infos, printed, stream_vars, outcome_vars>>

\* The signals held back are delivered; a second SIGINT kills.
UnblockSignals ==
  /\ pc = "unblock"
  /\ masked' = FALSE /\ pending' = {}
  /\ RunHandlers(pending)
  /\ IF \E s \in pending : handler[s] = "default"
     THEN pc' = "killed" /\ status' = "signal"
     ELSE pc' = (IF interrupt THEN "close" ELSE "print") /\ UNCHANGED status
  /\ RingUnchanged
  /\ UNCHANGED <<sent, poll_vars, stream_vars, synced, plan>>

PrintForSignal ==
  /\ pc = "print"
  /\ printed' = printed + 1
  /\ pc' = IF SignalSeen THEN "block" ELSE "limit"
  /\ RingUnchanged
  /\ UNCHANGED <<signal_vars, sent, interrupt, infos, answered, stream_vars, outcome_vars>>

------------------------------------------------------------------------------
(* The way out                                                               *)

\* dd_engine_cleanup asks once more whether there was an interrupt.
EngineCleanup ==
  /\ pc = "copied"
  /\ pc' = IF dd_interrupt_signal THEN "close"
           ELSE IF "fdatasync" \in cfg.conversions THEN "fdatasync"
           ELSE IF "fsync" \in cfg.conversions THEN "fsync" ELSE "close"
  /\ UNCHANGED all_but_pc

\* fdatasync works; or it is not supported, and fsync takes its place; or it
\* fails, and whatever fsync does the exit status is a failure.
DataSync ==
  /\ pc = "fdatasync"
  /\ \/ /\ pc' = IF "fsync" \in cfg.conversions THEN "fsync" ELSE "close"
        /\ synced' = TRUE /\ UNCHANGED status
     \/ pc' = "fsync" /\ UNCHANGED <<synced, status>>
     \/ pc' = "fsync" /\ status' = "failure" /\ UNCHANGED synced
  /\ RingUnchanged
  /\ UNCHANGED <<signal_vars, sent, poll_vars, stream_vars, plan>>

Sync ==
  /\ pc = "fsync"
  /\ \/ /\ synced' = TRUE
        /\ pc' = IF status = "failure" THEN "exited" ELSE "close"
        /\ UNCHANGED status
     \/ pc' = "exited" /\ status' = "failure" /\ UNCHANGED synced
  /\ RingUnchanged
  /\ UNCHANGED <<signal_vars, sent, poll_vars, stream_vars, plan>>

CloseFails == Exit("close", "failure")

\* Both files are closed and the statistics printed.  dd_process_signals then
\* raises SIGINT again, with its default action; otherwise dd_execute returns
\* what dd_copy returned.
Finish ==
  /\ pc = "close"
  /\ printed' = printed + 1
  /\ IF interrupt THEN pc' = "killed" /\ status' = "signal"
     ELSE pc' = "exited" /\ status' = exit_status
  /\ RingUnchanged
  /\ UNCHANGED <<signal_vars, sent, interrupt, infos, answered, stream_vars, synced, plan>>

Program ==
  \/ InstallHandlers \/ DryRun \/ SetupInput \/ CheckTarget \/ RefuseTarget
  \/ OpenFails \/ SetupOutput \/ ChooseDriver
  \/ LoopChecks \/ CheckLimit \/ BlockSignals \/ Snapshot \/ Decrement
  \/ UnblockSignals \/ PrintForSignal
  \/ EngineCleanup \/ DataSync \/ Sync \/ CloseFails \/ Finish
  \/ pc \notin Ended /\ Ring /\ UNCHANGED session_vars

Next ==
  \/ Program
  \/ pc \notin Ended /\ Kernel /\ UNCHANGED session_vars
  \/ Environment

Spec == Init /\ [][Next]_vars

\* The program runs, and the kernel finishes what was submitted to it.
FairSpec == Spec /\ WF_vars(Program)
                 /\ WF_vars(pc \notin Ended /\ Kernel /\ UNCHANGED session_vars)

------------------------------------------------------------------------------
(* Properties                                                                *)

\* Slots, operations and signals have their types; at most one read and one
\* write are on their way (io_uring.c keeps one flag for each), and they use
\* different slots.
TypeOK ==
  /\ length \in [Slots -> 0..cfg.blocksize]
  /\ {read_slot, write_slot} \subseteq Slots
  /\ Cardinality(sq) + Len(cq) <= 2
  /\ read_in_flight /\ write_in_flight => read_slot # write_slot
  /\ dd_info_signal_count \in 0..MaxSignals
  /\ pending \subseteq Signals /\ (pending # {} => masked)
  /\ driver \in {"none", "uring", "sync"}
  /\ status \in {"none", "success", "failure", "signal"}

AtEnd == pc = "exited" /\ status = "success" /\ ~cfg.dry_run

Wanted == IF bytes_to_copy >= 0 THEN Least(bytes_to_copy, cfg.source) ELSE cfg.source

\* uring_driver_step keeps every block in its place while the next one is read
\* ahead, whichever of the two the kernel finishes first and wherever a signal
\* interrupts the wait: the output is always the beginning of the input.  It
\* never exceeds the limit, not even after operations that were cut short.
OutputInOrder ==
  /\ disturbances = 0 => out = InputBytes(0, Len(out))
  /\ bytes_to_copy >= 0 => Len(out) <= bytes_to_copy

\* Exit status 0 means the whole input, or the limit, was written and hashed
\* (unless an operation was interrupted or cut short, io_uring.c:697-717), and
\* no failed write was dropped by the flush: the step harvests every write
\* before it reports the end.  The output is synchronised if that was asked
\* for, unless SIGINT came after the copy had looked for it the last time
\* (dd_engine_cleanup, io_engine.c:1066); a SIGINT acted upon is no success.
SuccessIsComplete ==
  AtEnd =>
    /\ disturbances = 0 =>
         out = InputBytes(0, Wanted) /\ hashed = out /\ w_bytes = Len(out)
    /\ ~write_lost
    /\ cfg.conversions \cap {"fdatasync", "fsync"} # {} => synced \/ dd_interrupt_signal
    /\ ~interrupt

\* dd_process_signals blocks the signals around its read and write back of the
\* counter, so no SIGUSR1 is forgotten, and each one taken off the counter is
\* answered with statistics before the copy goes on.
InfoSignalsCounted ==
  /\ received = answered + dd_info_signal_count
  /\ pc \in {"limit", "step", "harvest", "submit"} => printed >= answered

\* The disk that holds m, or m itself, is what the output path leads to.
Holds(m) ==
  m.device = cfg.node \/ (cfg.node.part = 0 /\ cfg.node.disk = m.device.disk)

\* A block device that is, or contains, a mounted system or swap is not opened
\* for writing without --force (check_target_safety comes before the open).
\* The guard compares names: a link to a whole disk is not recognised.
GuardedTargetKept ==
  opened /\ ~cfg.force /\ cfg.out_kind = "block" /\ cfg.path = cfg.node
    => \A m \in Mounts : m.at \in SystemMounts => ~Holds(m)

\* Where the plan and the program are known to differ: -j, --blks, O_DIRECT
\* given up at the open, redirected standard streams.
PlanBlindSpot ==
  cfg.threads > 1 \/ "blks" \in cfg.conversions \/ cfg.direct = "unsupported" \/ ~cfg.named

\* A dry run announces what the real run would do, the driver
\* (dd_execute_dry_run against dd_select_io_driver) and the guard, and leaves
\* the output alone.
PlanIsTrue ==
  plan # NoPlan =>
    /\ PlanBlindSpot \/ plan.engine = SelectDriver
    /\ plan.guard = "blocked" <=> Guarded(cfg) /\ ~cfg.force
    /\ ~opened /\ out = << >>

\* The program ends, whatever signals it gets: nothing is lost between an
\* interrupted wait and the operations still in flight.
Terminates == <>(pc \in Ended)

\* "Zero Data-Loss Guarantee: ... Correctness and data integrity take absolute
\* priority" (CONTRIBUTING.md:7): exit status 0 means a complete output, also
\* when the kernel took only a part of a write (a pipe that is nearly full).
NothingLost == AtEnd => out = InputBytes(0, Wanted)

==============================================================================
