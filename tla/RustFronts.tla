------------------------------ MODULE RustFronts ------------------------------
(***************************************************************************)
(* The two Rust programs around a transfer: blkcp (main.rs), which checks  *)
(* the target and runs the transfer, and blkcp-tui (tui_main.rs,           *)
(* tui_state.rs), whose main loop handles keys and polls the one           *)
(* background job it may have, while the job's thread runs RustEngines.    *)
(*                                                                         *)
(* The keys that set parameters of the next job are represented by the     *)
(* free choice of the job when it starts, apart from those for the target, *)
(* the dry run and the safety override.                                    *)
(***************************************************************************)
EXTENDS RustEngines

CONSTANTS
  TuiJobs,      \* the transfers blkcp-tui may be set up for
  Disks,        \* block devices, in the order of their names
  Typed,        \* paths that may be typed in
  MaxChanges,   \* bound: disks plugged, unplugged, mounted or unmounted
  MaxJobs       \* bound: transfers started

\* build_config knows neither streams nor a count.
ASSUME FrontsAssumption ==
  /\ TuiJobs \subseteq {j \in Jobs : j.input # "stdin" /\ j.output # "stdout" /\ j.count = -1}
  /\ Len(Disks) \in Nat /\ \A i, k \in 1..Len(Disks) : Disks[i] = Disks[k] => i = k
  /\ MaxChanges \in Nat /\ MaxJobs \in Nat

VARIABLES
  front,                     \* which program
  running,
  present, mounted,          \* disks there are, and in use by the system
  changes,
  devices, target_idx,       \* the list on the screen
  modal, dry_run, force_override,
  shown,                     \* the target the confirmation dialog names
  active_job,
  target,                    \* of the last job started
  started, collected         \* jobs started, results taken over

world_vars == <<present, mounted, changes>>
list_vars  == <<devices, target_idx>>
mode_vars  == <<modal, dry_run, force_override, shown>>
jobs_vars  == <<active_job, target, started, collected>>
front_vars == <<front, running, world_vars, list_vars, mode_vars, jobs_vars>>
vars       == <<job_vars, front_vars>>

DiskSet == {Disks[i] : i \in 1..Len(Disks)}

Null == "/dev/null"

Paths == DiskSet \cup Typed \cup {Null}

\* detect_mounted_violation, asked now
InUse(path) == path \in mounted

Kind(path) == IF path \in DiskSet \cup {Null} THEN "device" ELSE "file"

Entry(path, custom) ==
  [path |-> path, custom |-> custom, is_system_root |-> InUse(path)]

\* The elements of a list at some positions of it, in their order.
Picked(list, positions) ==
  [k \in 1..Cardinality(positions) |->
     list[CHOOSE i \in positions : Cardinality({j \in positions : j <= i}) = k]]

\* scan_block_devices_ext: the disks in order, then the virtual ones.
Scan ==
  LET there == Picked(Disks, {i \in 1..Len(Disks) : Disks[i] \in present})
  IN  [i \in 1..Len(there) |-> Entry(there[i], FALSE)] \o <<Entry(Null, FALSE)>>

Positions(list, path) == {i \in 1..Len(list) : list[i].path = path}

\* Entries that were typed in and that a list does not have.
OnlyTyped(list) ==
  {i \in 1..Len(devices) : devices[i].custom /\ Positions(list, devices[i].path) = {}}

NoTarget == [path |-> "none", is_system_root |-> FALSE, confirmed |-> FALSE]

Init ==
  /\ \/ front = "cli" /\ \E j \in Jobs : FreshTransfer(j)
     \/ front = "tui" /\ \E j \in TuiJobs : FreshTransfer(j)
  /\ running = TRUE
  /\ present = DiskSet /\ changes = 0
  /\ mounted \in {{}} \cup {{Disks[i]} : i \in 1..Len(Disks)}
  /\ devices = Scan /\ target_idx = Len(devices)
  /\ modal = "none" /\ shown = "none"
  /\ dry_run \in BOOLEAN /\ force_override \in BOOLEAN
  /\ front = "tui" => ~dry_run /\ ~force_override
  /\ active_job = FALSE /\ target = NoTarget
  /\ started = 0 /\ collected = 0

------------------------------------------------------------------------------
(* The machine                                                               *)

Change ==
  /\ changes < MaxChanges
  /\ changes' = changes + 1
  /\ \E d \in DiskSet :
       \/ present' = (IF d \in present THEN present \ {d} ELSE present \cup {d})
          /\ mounted' = mounted \ {d}
       \/ /\ d \in present /\ UNCHANGED present
          /\ mounted' = (IF d \in mounted THEN mounted \ {d} ELSE mounted \cup {d})
  /\ UNCHANGED <<job_vars, front, running, list_vars, mode_vars, jobs_vars>>

------------------------------------------------------------------------------
(* A job                                                                     *)

\* The thread is spawned, on the path that is selected now.
Spawn(path, as_target) ==
  /\ started < MaxJobs
  /\ started' = started + 1
  /\ target' = as_target
  /\ \E j \in TuiJobs :
       /\ j.output = Kind(path)
       /\ job' = j /\ out' = OldContent(j)
  /\ pc' = "enter" /\ stage' = "reflink"
  /\ in_off' = 0 /\ out_off' = 0 /\ bytes_read' = 0 /\ pending' = << >>
  /\ remaining' = -1 /\ remaining_blocks' = -1
  /\ stats_bytes' = 0 /\ hashed' = << >>
  /\ cancel_flag' = FALSE
  /\ result' = "none" /\ abandoned' = 0 /\ spilled' = FALSE

JobRuns ==
  /\ Engines
  /\ UNCHANGED <<cancel_flag, front_vars>>

\* poll_active_job: a finished job is joined and its result shown.
Poll ==
  /\ front = "tui" /\ running
  /\ active_job /\ pc = "done"
  /\ active_job' = FALSE /\ collected' = collected + 1
  /\ pc' = "idle"
  /\ UNCHANGED <<job, stage, offsets, block, limits, stats_bytes, hashed, out, verdict,
                 cancel_flag, front, running, world_vars, list_vars, mode_vars,
                 target, started>>

------------------------------------------------------------------------------
(* handle_key_event                                                          *)

\* Fault: keys go on to the dialogs and lists while a job is there.
Key_NoReturn(in_modal) == front = "tui" /\ running /\ modal = in_modal

\* While a job is there, all keys but the one that cancels it are ignored.
Key(in_modal) == front = "tui" /\ running /\ ~active_job /\ modal = in_modal

KeyCancel ==
  /\ front = "tui" /\ running /\ active_job
  /\ cancel_flag' = TRUE
  /\ UNCHANGED <<copy_vars, front_vars>>

KeyQuit ==
  /\ Key("none")
  /\ running' = FALSE
  /\ UNCHANGED <<job_vars, front, world_vars, list_vars, mode_vars, jobs_vars>>

KeyMove ==
  /\ Key("none")
  /\ target_idx' \in {target_idx - 1, target_idx + 1} \cap (1..Len(devices))
  /\ UNCHANGED <<job_vars, front, running, world_vars, devices, mode_vars, jobs_vars>>

KeyToggle ==
  /\ Key("none")
  /\ \/ dry_run' = ~dry_run /\ UNCHANGED force_override
     \/ force_override' = ~force_override /\ UNCHANGED dry_run
  /\ UNCHANGED <<job_vars, front, running, world_vars, list_vars, modal, shown, jobs_vars>>

First(positions) == CHOOSE i \in positions : \A k \in positions : i <= k

\* Fault: the index stays what it was.
Reselected_NotLookedUp(list) == target_idx

\* The target is looked up by its path; one that has gone leaves its index.
Reselected(list) ==
  LET same == Positions(list, devices[target_idx].path)
  IN  IF same # {} THEN First(same) ELSE IF target_idx > Len(list) THEN 1 ELSE target_idx

\* refresh_devices: entries that were typed in stay, as they were, unless the
\* scan finds their path.
KeyRefresh ==
  /\ Key("none")
  /\ devices' = Scan \o Picked(devices, OnlyTyped(Scan))
  /\ target_idx' = Reselected(devices')
  /\ UNCHANGED <<job_vars, front, running, world_vars, mode_vars, jobs_vars>>

KeyPath ==
  /\ Key("none")
  /\ modal' = "path"
  /\ UNCHANGED <<job_vars, front, running, world_vars, list_vars, dry_run,
                 force_override, shown, jobs_vars>>

\* add_or_select_custom_path: the path is examined, and listed as a file.
AddOrSelect(path, for_target) ==
  LET same  == Positions(devices, path)
      index == IF same # {} THEN First(same) ELSE Len(devices) + 1
  IN  /\ devices' = IF same # {} THEN [devices EXCEPT ![index] = Entry(path, TRUE)]
                    ELSE Append(devices, Entry(path, TRUE))
      /\ target_idx' = IF for_target THEN index ELSE target_idx

PathEntered ==
  /\ Key("path")
  /\ modal' = "none"
  /\ \/ \E path \in Typed, for_target \in BOOLEAN : AddOrSelect(path, for_target)
     \/ UNCHANGED list_vars
  /\ UNCHANGED <<job_vars, front, running, world_vars, dry_run, force_override,
                 shown, jobs_vars>>

Selected == devices[target_idx]

StartTransfer(confirmed) ==
  /\ active_job' = TRUE
  /\ Spawn(Selected.path, [path |-> Selected.path,
                           is_system_root |-> Selected.is_system_root,
                           confirmed |-> confirmed])
  /\ UNCHANGED collected

\* /dev/null is written without asking.
KeyEnterStarts ==
  /\ Key("none")
  /\ ~dry_run
  /\ Selected.path = Null
  /\ StartTransfer(FALSE)
  /\ UNCHANGED <<front, running, world_vars, list_vars, mode_vars>>

\* Fault: the entry's flag is not looked at.
Refused_Never == FALSE

\* The target is refused on account of its entry in the list, which was right
\* when the list was made.  (With --force it is asked for like any other.)
Refused == Selected.is_system_root /\ ~force_override

KeyEnterAsks ==
  /\ Key("none")
  /\ ~dry_run
  /\ ~Refused /\ Selected.path # Null
  /\ modal' = "confirm" /\ shown' = Selected.path
  /\ UNCHANGED <<job_vars, front, running, world_vars, list_vars, dry_run,
                 force_override, jobs_vars>>

ConfirmYes ==
  /\ Key("confirm")
  /\ modal' = "none" /\ shown' = "none"
  /\ StartTransfer(shown = Selected.path)
  /\ UNCHANGED <<front, running, world_vars, list_vars, dry_run, force_override>>

\* No; or the answer is yes and the limits that were typed in do not parse.
ConfirmNo ==
  /\ Key("confirm")
  /\ modal' = "none" /\ shown' = "none"
  /\ UNCHANGED <<job_vars, front, running, world_vars, list_vars, dry_run,
                 force_override, jobs_vars>>

Keys ==
  \/ KeyCancel \/ KeyQuit \/ KeyMove \/ KeyToggle \/ KeyRefresh \/ KeyPath
  \/ PathEntered \/ KeyEnterStarts \/ KeyEnterAsks \/ ConfirmYes \/ ConfirmNo

------------------------------------------------------------------------------
(* main.rs                                                                   *)

\* Outputs the job may have been given; a stream has no path.
CliPaths ==
  IF job.output = "stdout" THEN {"none"} ELSE {p \in Paths : Kind(p) = job.output}

\* check_target_safety, then execute_transfer.
CliStarts ==
  /\ front = "cli" /\ running /\ pc = "idle"
  /\ ~dry_run
  /\ \E path \in CliPaths :
       /\ InUse(path) => force_override
       /\ target' = [path |-> path, is_system_root |-> InUse(path), confirmed |-> TRUE]
  /\ started' = started + 1
  /\ pc' = "enter"
  /\ UNCHANGED <<job, stage, offsets, block, limits, stats_bytes, hashed, out, verdict,
                 cancel_flag, front, running, world_vars, list_vars, mode_vars,
                 active_job, collected>>

CliRefuses ==
  /\ front = "cli" /\ running /\ pc = "idle"
  /\ ~dry_run /\ ~force_override
  /\ \E path \in CliPaths : InUse(path)
  /\ running' = FALSE
  /\ UNCHANGED <<job_vars, front, world_vars, list_vars, mode_vars, jobs_vars>>

\* A dry run looks at everything and opens nothing (execute_dry_run).
CliPlans ==
  /\ front = "cli" /\ running /\ pc = "idle"
  /\ dry_run
  /\ running' = FALSE
  /\ UNCHANGED <<job_vars, front, world_vars, list_vars, mode_vars, jobs_vars>>

CliEnds ==
  /\ front = "cli" /\ running /\ pc = "done"
  /\ running' = FALSE
  /\ UNCHANGED <<job_vars, front, world_vars, list_vars, mode_vars, jobs_vars>>

Next ==
  \/ JobRuns \/ Poll \/ Change
  \/ Keys \/ CliStarts \/ CliRefuses \/ CliPlans \/ CliEnds

Spec == Init /\ [][Next]_vars

\* The thread runs, and the main loop looks at the job every 50 ms.
FairSpec == Spec /\ WF_vars(JobRuns) /\ WF_vars(Poll)

------------------------------------------------------------------------------
(* Properties                                                                *)

\* Counters and positions stay in their ranges, whatever is listed.
TypeOK ==
  /\ pc \in {"idle", "enter", "copy", "write", "rewrite", "done"}
  /\ stage \in {"reflink", "splice", "async", "uring", "sync"}
  /\ in_off \in 0..job.source /\ remaining >= -1
  /\ Len(pending) <= job.blocksize
  /\ target_idx \in 1..Len(devices)
  /\ modal \in {"none", "path", "confirm"}

Written == {out[i] : i \in 1..Len(out)}

\* But for padding and old content, the output is the first n bytes of the
\* input, each once and in order; without padding, each at its place.
HoldsInput(n) ==
  /\ Written \ {0, Old} = 1..n
  /\ \A i, k \in 1..Len(out) : i < k /\ out[i] > 0 /\ out[k] > 0 => out[i] < out[k]
  /\ ~Has("sync") => \A i \in 1..n : out[i] = i

\* All that was wanted, or as much as -c reads have brought; or, when it was
\* cancelled, what the pipeline (engine.rs:939) or the workers of the sharded
\* engine (uring.rs:242), which then return Ok, had copied.  The sharded engine
\* goes by its own limit (uring.rs:205).
Enough(n) ==
  IF Sharded
  THEN n = ShardedWanted \/ (cancel_flag /\ n <= ShardedWanted)
  ELSE \/ n = Wanted
       \/ stage \in {"sync", "async"} /\ CutShort(n)
       \/ stage = "async" /\ cancel_flag /\ n <= Wanted

\* Statistics include what engines that gave up had counted (engine.rs:646-662,
\* then 789): bytes that are copied again are counted again.
Complete ==
  \E n \in 0..job.source :
    /\ Enough(n)
    /\ HoldsInput(n)
    /\ Truncates => Old \notin Written
    /\ Has("hash") => hashed = InputBytes(0, n)
    /\ stats_bytes = n + abandoned

\* Ok from execute_transfer_with_control means that output, digest of the
\* unpadded input and statistics of the engine that ended the transfer agree on
\* how much was copied, and that it was enough, whichever engines were tried
\* before.  Not so for a stream an abandoned engine has read from or written
\* to, for what a sharded engine wrote behind the limit (uring.rs:205) before
\* it failed, and for a block that --direct has written twice (engine.rs:769
\* and 975).  Without an input the transfer fails and leaves the output alone,
\* unless reflink was tried.
OutcomeIsTrue ==
  pc = "done" =>
    /\ result = "ok" => Complete \/ spilled
    /\ job.input = "missing" =>
         result = "err" /\ (Wants("reflink") \/ out = OldContent(job))

\* At most one job, each joined once before the next starts, and the program
\* is not left while its thread is writing (handle_key_event returns early
\* while there is a job, poll_active_job takes it).
JobsAccounted ==
  front = "tui" =>
    /\ started = collected + (IF active_job THEN 1 ELSE 0)
    /\ ~running => ~active_job
    /\ active_job <=> pc # "idle"

Writing == active_job \/ (front = "cli" /\ pc # "idle")

\* A job of blkcp-tui writes to /dev/null or to the very target the user has
\* confirmed, which was not in use by the system when it was listed, unless
\* overridden: no key changes the target, the override or the dry run between
\* the question and the start.  blkcp's was not in use when it began.
NoUnconfirmedWrite ==
  Writing =>
    /\ ~dry_run
    /\ target.path # Null =>
         target.confirmed /\ (target.is_system_root => force_override)

\* "allow immediate cancellation" (tui_main.rs:46): a job ends and is taken
\* over after the cancel key, also one that retries an unreadable position.
\* (The threads of the pipeline are AsyncPipeline's.)
CancelEnds == (active_job /\ cancel_flag) ~> ~active_job

\* "Zero Data-Loss Guarantee: ... Correctness and data integrity take absolute
\* priority" (CONTRIBUTING.md:7): exit status 0 means the data is there.
OkIsCopy == pc = "done" /\ result = "ok" /\ ~cancel_flag => HoldsInput(Wanted)

==============================================================================
