# A TLA+ development of blkcp

blkcp is a replacement for `dd`: it copies bytes from an input to an output,
with limits, conversions, checksums and several execution backends. The
repository holds two implementations, a Rust program (`src/rust/`, the primary
one) and a C11 program (`src/src/`, the reference). This directory holds TLA+
modules for the parts of both where correctness depends on interleavings,
partial failures and boundary arithmetic, the TLC configurations that check
them, and TLAPS proofs that the safety properties of each of the seven systems
checked hold for every value of the constants.

Paths below are relative to the repository; `io_async.c:92` means line 92 of
`src/src/io_async.c`, `engine.rs` is `src/rust/src/engine.rs`, `uring.rs` is
`src/rust/src/uring.rs`.

Contents: 1 inventory · 2 modules and their correspondence to the code ·
3 runs, bounds, fairness · 4 proofs · 5 disagreements found · 6 what is not
modelled · 7 plan.

## 1. Inventory

### The C program

| Part | State it keeps | Operations | Hard behaviour | Correct when |
|---|---|---|---|---|
| Central loop, `io_engine.c` (`dd_copy` 733, `dd_iwrite` 494, `dd_copy_simple` 578, driver selection 619) | `dd_context_t`: statistics, output block being collected, checksum, limits | select a driver, init, loop of limit check and `step`, fallback, flush, cleanup | limits enforced in several places, fallback in mid-loop, partial writes | output is the input's image, in order, within the limit; status 0 means complete; digest is that of the output |
| Synchronous driver, `io_sync.c`, `conversions.c` | autotune stage, carried swab byte, `partread` | init, step, flush | odd bytes across blocks, padding, block size changing during the copy, read errors skipped | same, for every size of every read |
| Asynchronous driver, `io_async.c` | ring of slots, head/tail/count, flags; a reader thread; one mutex and two condition variables | init (with halving under memory pressure), reader loop, step, flush, cleanup | two threads, stop from either side, error behind queued blocks | slot exclusivity, order, no lost wakeup, join always returns |
| io_uring driver, sharded, `io_uring.c:60-471` | atomics: next chunk, byte and record counters, active workers, abort flag, error code; one ring per worker | spawn, claim a chunk, read, write, count, abort; polling step; cleanup | lock-free claims, several loads that are not one snapshot, thread creation failing half-way | chunks disjoint, everything claimed is copied or the copy fails, counter right |
| io_uring driver, single ring, `io_uring.c:473-975` | four buffer slots, one read and one write in flight, file positions | prime, harvest completions, submit write and read-ahead, flush | completions in any order, short and interrupted operations | order, position, limit |
| Kernel-copy drivers, `io_splice.c`, `io_reflink.c` | explicit file offsets, an internal pipe | init (eligibility), step, fallback request | refusal at the first call, loss between the two halves of a splice | nothing moved is copied twice or lost over a fallback |
| Signals, `signals.c` | an interrupt flag and a counter of statistics requests, set by handlers; the dispositions and the mask | install, poll, process | handlers run between any two steps; the counter is read and written back; a second SIGINT kills | no request is forgotten, an interrupt ends the program and is no success |
| Safety guard, stream setup, dry run and end, `io_engine.c:137-306`, `619-731`, `925-1430` | flags that opening may change (O_DIRECT, no cache) | check the target, open streams, announce a plan, synchronise, close | decision before an irreversible open; the plan decides a second time what the program decides; an interrupt on the way out | a mounted system disk is never a target unless forced; the plan is true; status 0 means synchronised where asked |
| Command line, statistics, TUI (`tui/`) | configuration; counters; screen state | parse, print, draw; the TUI builds a command line and runs it | overflow in sizes and counts | — |

### The Rust program

| Part | State it keeps | Operations | Hard behaviour | Correct when |
|---|---|---|---|---|
| Asynchronous engine, `engine.rs:826-1020` | a fixed set of buffers circulating through three bounded channels; reader and hasher threads, writer in the caller | read, send, write, hash, recycle, cancel, join | three threads, channel disconnection as the only end signal, cancellation | buffers conserved, order, digest behind the writer equals the output, `Ok` means complete |
| Dispatch and sequential engines, `engine.rs:98-824` | streams, `TransferStats` | reflink, splice, async, io_uring, sync, each falling through to the next | an engine that fails after consuming input; errors that are ignored; a direct write that is repeated | `Ok` means complete output, true digest and statistics over any fall-through |
| io_uring engine, `uring.rs` | next offset, abort flag, byte count; per-worker leaves of each stripe | choose one ring or workers; claim stripes, copy, hash, join, reduce | any worker may meet the end or fail while others are behind it; leaves hashed in pieces must reduce to the hash of the whole | no gaps; digest equals the sequential one |
| Tree hash, `crates/blks-core/` | a buffer of less than a leaf, or one leaf, and the leaves so far | update, finalize, slices in parallel | order and grouping of reductions | same digest however the input is cut |
| TUI, `tui_state.rs`, `tui_main.rs`, `tui_device.rs` | one job (thread handle, cancel flag), the list of targets with their guard flags, dialogs | keys, start, cancel, poll, quit, scan | keys and changes of the machine while the job runs; the list is older than the question | one job at a time, each joined; written is what was confirmed |
| Safety guard, `safety.rs` | none | classify the target | decision table | as in C |
| Command line, statistics, buffers, rendering | — | — | — | — |

### How they interact

The command line fixes a configuration; the guard and the stream setup run
once; the loop (`dd_copy` in C, `execute_transfer` in Rust) picks a backend and
calls it through a small interface: *init / step / flush / cleanup* in C
(`io_driver.h`), one function per engine in Rust. A backend communicates with
its own threads by shared ring (C async), atomics (C sharded), channels (Rust
async). A backend that cannot work is replaced by the synchronous one. The TUI
starts the same engines in a thread and talks to them through an atomic cancel
flag and shared statistics.

The hazards this code is exposed to, each at its line and with the properties
that would catch it, are listed under `hazards` in `PROJECT.json`.

## 2. Modules

| Module | Models | Role |
|---|---|---|
| `StreamCopy` | the promise of a backend that copies in order | abstract specification |
| `ScatteredCopy` | the promise of a backend that copies in no particular order | abstract specification |
| `AsyncRing`, `AsyncRing_proofs` | C asynchronous driver with the loop around it | implements `StreamCopy` |
| `AsyncPipeline`, `AsyncPipeline_proofs` | Rust asynchronous engine with the TUI's cancel flag | implements `StreamCopy` |
| `ShardedRing`, `ShardedRing_proofs` | C io_uring driver in sharded mode with the loop around it | implements `ScatteredCopy` |
| `CopyLoop`, `CopyLoop_proofs` | C central loop, synchronous, reflink and splice drivers | |
| `UringRing` | C io_uring driver with a single ring, and the kernel behind it | component of `Session` |
| `Session`, `Session_proofs` | the C program from start to exit status: signals, guard, driver selection, dry run, synchronisation | composes `UringRing`; its proofs begin with those about the ring |
| `RustEngines` | the Rust engines tried one after the other | component of `RustFronts` |
| `RustFronts`, `RustFronts_proofs` | `blkcp` (`main.rs`) and `blkcp-tui` around a transfer | composes `RustEngines` |
| `BlksTree`, `BlksTree_proofs` | the tree hash: at once, in slices, incrementally | component of `RustShards` |
| `RustShards`, `RustShards_proofs` | Rust io_uring engine with its workers and their digest | composes `BlksTree`, its proofs use those of `BlksTree`; implements `ScatteredCopy` |
| `MC*` | the instances TLC checks | |

A module ending in `_proofs` EXTENDS the one it is about and adds an inductive
invariant, lemmas and theorems; it defines no behaviour.

Conventions. A byte is named by its position in the input, so the contents of a
buffer or of the output say by themselves whether anything was lost, repeated
or moved. Definitions keep the source's names. A module has one program counter
per thread; a step is what no other thread can see the inside of (a lock
section, one atomic operation, one system call). Definitions named
`Action_Something` and introduced by "Fault:" are plausible wrong versions of
the definition before the underscore; the specification never uses them. Each
property of a passing run is paired with such a fault (`mutants` in
`PROJECT.json`) that TLC finds to violate it.

**StreamCopy.** State: the request (input length, byte limit, block limit), the
output, the number of blocks taken, a status. The output only ever grows by the
next input bytes, within the limit; the status becomes `ok` only when everything
asked for is out; a transfer may fail or be cancelled at any time. `at` is the
position of the input up to which the output goes; a request with `repeats` may step
back from it and write a part again (only the Rust pipeline under `--direct` has one).

**ScatteredCopy.** The same for workers that copy parts of the input in any order: the
output is a set of pairs of a position and a byte, a write adds consecutive positions
that were not written before, each with its own byte, and `ok` needs all of them.

**AsyncRing.** `slots`, `head`, `tail`, `count`, `stop_requested`, `reader_done`
are the fields of `async_pipeline_t`; `rpc` and `wpc` are the positions of the
reader thread and of the main thread, with value `wait` while blocked on a
condition variable. `Reader*` actions are `async_reader_worker`
(`io_async.c:92-200`): acquire a free slot, stop at the limit or read, publish,
exit. `Writer*` actions are `dd_copy`'s loop, `async_driver_step` (302-364),
`dd_iwrite` and `async_driver_cleanup` (392-420). A signal moves the other
thread from `wait` back to its test; spurious wakeups are actions. `AllocateFails`
is the halving of the ring under memory pressure, `StartReader` includes
`pthread_create` failing (`fallback`: the copy continues in `CopyLoop`). Writing a slot
is split into single writes so that a slot shared by both threads would show.

**AsyncPipeline.** The `data`, `recycle` and `hash` channels of
`execute_async_transfer` with their bounded capacity and their disconnection
(a channel is closed when its last sender is dropped; the reader's own clone of
the recycle sender, `engine.rs:856`, is modelled), the reader, hasher and writer
threads, `--sync` padding, and the cancel flag set by the TUI (`tui_main.rs:45-54`).
`ReaderRetries` is a read tried again, at the same position and as often as it happens
(`EINTR`, or any error under `--noerror`); `cfg.bad` is a position that can never be read.
`WriterAgain` is the second attempt of `--direct` at a failed write: the output is opened
again and the whole block written from the position reached (`engine.rs:969-975`).
`out` has the input's bytes only: of the padding, which is not hashed, the amount is kept
(`padding`), and of the bytes written twice the number (`repeated`), so that
`Reached` is the position of the input up to which the output goes.

**ShardedRing.** The atomics of `uring_sharded_state_t` are variables, one
action per atomic operation or completed read or write: `WorkerClaims` is the
`fetch_add` at `io_uring.c:148`, the three `Load*` actions are the separate loads
of `uring_sharded_step` (444-470), `SpawnFails`/`JoinSpawned` the abort of a
half-finished start (411-427). A configuration with
`short_reads` is a file system that may return less than there is in mid-file, which
`WorkerReads` takes for the end as the code does; one with `empty_writes` has writes
that complete with 0 bytes, which end the chunk (`WorkerWritesNothing`). Atomic operations are interleaved (sequential
consistency); the code uses relaxed order in places, which on the modelled
counters could only make the reported disagreements more likely.

**CopyLoop.** One thread, so a step is a driver's whole `step` split only where
the code loops over blocks (`WriteBlock`). `StartKernel`/`StartSync` are driver
selection and init; `Sync*` is `sync_driver_step`; `SwabBlock` is
`dd_swab_buffer`, modelled by its effect: pairs are exchanged over the carried byte
and the block together; `Tick*` is `autotune_sample_tick`, where the clock is a
free choice; `Kernel*` is one `copy_file_range` or `splice` call of any length, or
its refusal (`KernelFallsBack`) or failure. The offsets of the descriptors and
those splice keeps itself are separate variables, since a fallback goes from one
to the other. `Flush`/`FlushRest` are `sync_driver_flush`, whose result is ignored
(`io_engine.c:862`).

**UringRing.** `read_slot`, `write_slot`, `read_in_flight`, `write_in_flight`,
`read_eof`, `in_file_pos`, `out_file_pos` are the fields of `uring_driver_state_t`. `sq` and
`cq` are what the kernel has still to do and what the program has still to see;
`KernelReads` and `KernelWrites` execute the submitted operations in any order, each
with its own length or error, `KernelInterrupts` is `-EINTR`/`-EAGAIN`. Interrupted
operations and writes cut short are counted by `disturbances` up to
`MaxDisturbances`, because the code is known to mishandle them. The actions of
the program are the priming, the harvest of one completion, the submission of a
write and the next read, the wait, the flush and the cleanup. The synchronous driver
that takes over when no ring can be set up is one step (`CopyLoop` has it in full).

**Session.** It EXTENDS `UringRing` with what `dd_execute` does around the copy. A
signal may arrive between any two steps (`SignalCaught`, `SignalBlocked`,
`SignalKills`); `BlockSignals`, `Snapshot`, `Decrement`, `UnblockSignals` and
`PrintForSignal` are `dd_process_signals` statement by statement, because its
safety rests on their order. `Guarded` is `evaluate_target_safety` with the
comparison of names in `is_partition_of_device`; `Mounts` is what
`/proc/mounts` and `/proc/swaps` list. `SelectDriver` and `PlannedEngine` are the
two places that decide which driver runs. `EngineCleanup`, `DataSync`, `Sync`,
`CloseFails` and `Finish` are the way out with every exit status. `MaxSignals` bounds
the signals sent.

**RustEngines.** `stage` is the engine being tried; `Wants` holds the conditions
at the head of each part of `execute_transfer_with_control`; `OpenFiles` opens
(and truncates) again for each engine; `Fails` is where the engines differ in what
they do with an error (`GiveUp` to the next one, or `Err`). The engines that copy one
block after the other, the pipeline among them, share `ReadBlock`, `WriteSome` and what
can go wrong with each; they differ in their limits, in what they do with errors and a
cancellation (`CancelVerdict`), in padding and in repeated writes. `WriteAgain` is that of
`--direct` in the synchronous engine and in the pipeline. `Sharded` is the condition under
which the io_uring engine runs workers, with the limit they go by (`ShardLimit`, which
has `-c` only without `-l`); what they leave behind is one step, `ShardedCopies` or
`ShardedFails`, in which any positions may have been written when one of them failed.
The threads of the pipeline are in `AsyncPipeline`, those of the workers in `RustShards`.
`abandoned` and `spilled` are history variables: what engines that gave up had counted; and
whether bytes were moved that no later engine makes good, out of a stream or onto one,
behind its limit, or twice.

**RustFronts.** It EXTENDS `RustEngines`. `CliStarts`, `CliRefuses`, `CliPlans`
(the dry run) and `CliEnds` are `main.rs`, with `--force`. For the TUI, `Key*`, `PathEntered`, `Confirm*` are
`handle_key_event` by dialog, `Poll` is `poll_active_job`, `Scan` is `scan_block_devices_ext`, `Change` is
the machine: a disk is plugged, unplugged, mounted or unmounted (`MaxChanges`) while
the list on the screen stays what it was. `JobRuns` is the thread. `MaxJobs` bounds
the jobs started.

**BlksTree.** A hash value is the tree of what went into it, so two are equal only
if the trees are. `Leaves`, `NextLevel`, `ReduceNodes`, `HashSlice` and the hasher's
`Update` and `Finalize` are functions of `tree.rs`; `CHUNK_SIZE` and `SUBTREE_CHUNKS`
are its constants, parameters here. `Levels` is the loop of `reduce_nodes`, a recursive
function so that proofs can use it; `TreeAssumption` says that a subtree has a power of
two of leaves, as in the code (`tree.rs:16`).

**RustShards.** `WorkerClaims` is the `fetch_add` of a stripe, `WorkerGoesOn` and
`WorkerLeaves` the look at the two flags before it, `WorkerReads`, `WorkerWrites`,
`WorkerMeetsEnd`, `WorkerFails`, `WorkerCancelled` the loop over a stripe.
`AllLeaves` is what the caller puts together after the join. `ragged` is a history
variable: a worker's read ended inside a leaf.

## 3. Runs

Passing runs:

| Run | States | Question |
|---|---|---|
| `async_ring` | 10 820 | do reader thread and main thread copy correctly in every interleaving, and stop? |
| `async_pipeline` | 10 054 | the same for the three Rust threads, with cancellation |
| `sharded_ring` | 724 374 | do lock-free claims cover the input exactly once, and is every outcome reported truthfully? |
| `copy_loop` | 19 114 | does the sequential copy survive odd reads, conversions, retuning and fallbacks? |
| `session` | 475 254 | from start to exit status: completions in any order, signals anywhere, guard, plan, synchronisation |
| `rust_fronts` | 854 571 | is an `Ok` true whichever engines were tried, and does the TUI keep track of its job and its target? |
| `rust_shards` | 455 396 | do stripes copied and hashed in any order make up the file and its digest? |

What they show (each module's `TypeOK` is checked too):

- **async_ring.** `SlotExclusive`: the threads never share a slot outside the
  lock. `OutputSound`: the output is always a prefix of the input, and the reader's and
  the loop's separate limit checks agree on where it ends. `SuccessIsTrue`: status 0
  means complete output and a digest of exactly that. `Terminates`: no lost wakeup,
  join returns.
  `ImplementsStreamCopy`: refinement of `StreamCopy`.
- **async_pipeline.** `ChannelsSound`: the circulating buffers are never lost or
  duplicated, and so no bounded send ever blocks. `OutputSound`: written in order,
  within the limits, with the hasher behind the writer on the same blocks.
  `OkIsComplete`: an `Ok` means that all is out, hashed, and no thread left. `OutputSound`
  and the refinement except `--direct`, whose second attempt may put a part of a block into the
  output twice, so that the digest is not the output's any more.
  `CancelStopsWriting`: after a cancel request the writer leaves its loop;
  `ReadAheadBounded`: the reader takes at most as many blocks
  ahead of the writer as there are buffers, also behind a writer that failed or was
  cancelled; `Terminates`: a transfer that nobody cancels returns, after write errors and
  any number of retried reads too; or, as the code does not give up, it is at a position that
  can never be read under `--noerror`, and has written all that lies before it
  (`RetriesForEver`). `ImplementsStreamCopy`.
- **sharded_ring.** `OutputAccounted`: no two workers hold overlapping ranges,
  every byte lands at its own position, and until an abort the
  counter plus what is written and not yet counted is the number of bytes in the
  output. `OutcomeIsTrue`: without a worker's error success is complete unless
  reads are short in mid-file or writes empty, and failure is only reported after an error. `Terminates`.
  `ImplementsScatteredCopy`: refinement of `ScatteredCopy`; a success with `short_reads`, with
  `empty_writes` or with a worker's error maps to `abandoned`.
- **copy_loop.** `OutputSound`: the output is the image of the input, with `--swab`
  in exchanged pairs across block boundaries; nothing taken from the input is left
  behind; within the limits. `SuccessIsTrue`: status 0 means complete, and the
  digest is the output's. `Terminates`. The combinations where the code is known not to
  keep a promise are named in the properties themselves (`SwabLostWrite`,
  `AutotunedShort`, `StalePadding`, and `--swab`/`--sync` in `WithinLimit`), so what is
  excluded can be read off the definitions.
- **session.** `OutputInOrder`: a block being written and the next being read ahead
  never get in each other's way; the limit holds even after short and interrupted
  operations. `SuccessIsComplete`: status 0 means written, hashed, synchronised
  where asked for, with no failed write dropped by the flush and no interrupt acted
  upon. `InfoSignalsCounted`: no SIGUSR1 is forgotten, and each is answered before the
  copy goes on. `GuardedTargetKept`: a disk that is or contains a mounted system is
  not opened without `--force`. `PlanIsTrue`: a dry run announces the engine and
  verdict of the real run and touches nothing. `Terminates`: a signal that ends a wait
  loses none of the operations in flight. Known exceptions are in the definitions:
  `disturbances`, `PlanBlindSpot`, a link to a whole disk, a late SIGINT.
- **rust_fronts.** `OutcomeIsTrue`: `Ok` means complete output without old
  contents, digest and statistics of just that; a missing input is an error and
  leaves the output alone. What engines that gave up had counted stays in the statistics,
  and the property says so (`n + abandoned`). Excepted are `spilled` transfers and
  reflink's truncation; a cancelled pipeline, or cancelled workers, may return `Ok` with
  less. Under `-c` a stream, or a file with an unreadable byte, may give less, as reads
  are counted however short they are (`CutShort`). `JobsAccounted`: at most one job, each joined once, none left
  behind by quitting. `NoUnconfirmedWrite`: what is written is what the dialog
  named, across refreshes, typed paths and disks that come and go. `CancelEnds`: a
  cancelled job ends and is collected, also one that retries an unreadable position.
- **rust_shards.** `OkIsPrefix`: no gap in the output of an `Ok`, though any worker
  may meet the end first. `DigestIsCanonical`: the digest of workers, of the
  incremental hasher and of a hashed slice agree (unless `ragged`). `Terminates`.
  `ImplementsScatteredCopy`: one ring or several never write a position twice, and an `Ok`
  that nobody cancelled leaves no hole.

**Bounds and why they suffice.** Inputs have 0 to 13 bytes and blocks 1 to 7.
A copy distinguishes: an empty input; fewer bytes than a block; a multiple of
the block and not; limits at, below, above a block boundary and beyond the
input; block counts. All occur among the configurations (`MCConfigs`). The
rings of `AsyncRing` have 2 to 4 slots and inputs need more blocks than slots, so
indices wrap and both "full" and "empty" waits happen; two slots is the smallest
ring the code allows. The pipelines have one to three buffers, with more blocks than
buffers. `ShardedRing` has two workers, chunks of one block and of several, an end
off the block boundary, a file that shrank under the copy, `-l` below the input
and beyond it, reads cut short in mid-file, empty writes: a third worker would add no new kind of conflict, as claims
conflict in pairs. `CopyLoop` has 26 configurations, one or more for each driver
and option modelled; autotune has three stages in place of four.

`Session` has two buffers, the fewest that read-ahead needs, while the code has four:
since one write and one read are in flight at most, more buffers only make reuse
rarer. Files and pipes in each pairing that matters, limits off and on a block
boundary, an unreadable byte; `MaxDisturbances = 1` and `MaxSignals = 2`: two signals
make a second SIGINT, one of each, and two requests for statistics. The guard is asked
about a system disk, its root partition, a neighbouring partition, an unrelated
mounted disk and links to them; the plan about every pairing of file kinds with
conversions that change the choice, and once about each blind spot. `RustFronts` has
two disks, two paths to type (one of them a disk), `MaxChanges = 1`, `MaxJobs = 2`
(a second start needs a first) and 25 transfers over all engines, three of them the TUI's. `RustShards` has leaves
of 2 bytes, subtrees of 2 leaves, stripes of 4 bytes and up to three workers: a tree of
seven leaves has left-over nodes at two levels, and three workers let one be
before, one behind and one at the end of the input.

The number of read and write errors, retried reads, short reads and spurious wakeups is not bounded,
nor are short writes, except on the single ring. A position that can never be read (`bad`)
is one per configuration, where there is any.

**Fairness.** Weak fairness for each thread (in `ShardedRing`, for the main thread
and for each worker): threads are scheduled and the system calls they make return.
There is none for spurious wakeups, for cancellation, for signals or keys, or for
system calls to succeed. `AsyncPipeline` has strong fairness, besides, for a read that is not
one to be tried again: signals do not interrupt every read for ever, and where the input
can be read, or has ended, it is; it promises nothing at a position that can never be
read, where no such step is possible. `AsyncRing` uses one condition for all the steps of a
thread, not one per action, so an action that is merely possible (a failing write)
is never forced. `Session` assumes it of the program and of the kernel, which
finishes what was submitted; `RustFronts` of the job's thread and of the main loop,
which wakes up every 50 ms and polls; `RustShards` of the caller and of each worker,
not of their failures. Deadlock is checked for `AsyncRing`, `ShardedRing` and
`CopyLoop`, whose finished states idle by an explicit step. The others really stop:
a cancelled pipeline possibly for good (section 5), the programs of `Session` and
`RustFronts` when they exit, `RustShards` with its result; there the liveness
properties say that they stop only where they should.

## 4. Proofs

Every safety property the passing runs check is proved for every value of the
constants that the named assumptions allow, and so are the two refinements of
`StreamCopy` and the two of `ScatteredCopy`. The assumptions say what the command line and the program's own
constants can be (types, an unreadable byte inside the input, a limit that is the size
a sharded copy works to) and name what the models leave out: `--swab` with `--autotune`, and
`--sync --noerror` over an unreadable byte without any limit, in `CopyLoop`. No bound of the runs (`MaxSignals`, `MaxDisturbances`, `MaxJobs`,
`MaxChanges`) is needed by a proof: each is any natural number.

None of the properties is inductive alone. Each proof module defines `IInv`, proves
`Init => IInv` and `IInv /\ [Next]_vars => IInv'` with one lemma or step per action and
part, combines them in a lemma (`Invariance`), and derives the theorems from `IInv`.
TLC checked every `IInv` as an invariant of the module's instance first; that of
`CopyLoop`, whose instance picks its command lines by hand, also on 9 024
combinations of options, limits and sizes (2 648 686 states).

| Module | Theorems | States |
|---|---|---|
| `AsyncRing_proofs` | `Typing`, `Exclusion`, `OutputIsSound`, `SuccessMeansTrue` | `TypeOK`, `SlotExclusive`, `OutputSound`, `SuccessIsTrue` |
| | `Refinement` | `ImplementsStreamCopy` |
| `AsyncPipeline_proofs` | `Typing`, `RingIsSound`, `OutputIsSound`, `OkMeansComplete`, `ReadAheadIsBounded` | `TypeOK`, `ChannelsSound`, `OutputSound`, `OkIsComplete`, `ReadAheadBounded` |
| | `Refinement` | `ImplementsStreamCopy` |
| `ShardedRing_proofs` | `Typing`, `Accounting`, `Outcome` | `TypeOK`, `OutputAccounted`, `OutcomeIsTrue` |
| | `Refinement` | `ImplementsScatteredCopy` |
| `CopyLoop_proofs` | `Typing`, `Soundness`, `Truth` | `TypeOK`, `OutputSound`, `SuccessIsTrue` |
| `Session_proofs` | `Typing`, `OutputIsInOrder`, `SuccessMeansComplete`, `SignalsAreCounted`, `GuardHolds`, `PlansAreTrue` | `TypeOK`, `OutputInOrder`, `SuccessIsComplete`, `InfoSignalsCounted`, `GuardedTargetKept`, `PlanIsTrue` |
| `RustFronts_proofs` | `Typing`, `Outcome`, `JobsAreAccounted`, `OnlyConfirmed` | `TypeOK`, `OutcomeIsTrue`, `JobsAccounted`, `NoUnconfirmedWrite` |
| `RustShards_proofs` | `Typing`, `OkMeansPrefix`, `DigestsAgree` | `TypeOK`, `OkIsPrefix`, `DigestIsCanonical` |
| | `Refinement` | `ImplementsScatteredCopy` |
| `BlksTree_proofs` | `SubtreesChangeNothing`, `IncrementalIsCanonical` | the tree of any data is one, hashed at once, in subtrees, or update by update |

**AsyncRing** (`ConfigsAssumption`, `CapacityAssumption`: any ring of at least two slots).

1. `Control`: types; `Phases`, which combinations of the two program counters
   with `reader_done`, `stop_requested` and the existence of the slots occur;
   `RingShape`, `tail = (head + count) % capacity` and when `count` is less than
   `capacity`. `SlotExclusive` follows.
2. `Queue`: the queued slots hold consecutive pieces of the input (`Chain`), from
   what the main thread has taken to what the reader has read; an end-of-file slot
   is the last (`EofLast`), is there once the reader has left for that reason
   (`EofQueued`), and the records agree (`RecordsAgree`).
3. `ReadBound`: the reader never takes more than the limit or the input.
4. `OutputPrefix`, `HashPrefix`: output and checksum are prefixes, and
   how long, given the main thread's position.
5. `LeftComplete`: when the loop has been left successfully, the copy is complete.

**AsyncPipeline** (`ConfigsAssumption`: any number of buffers). That the blocks in the
`data` channel, in the writer's hands and in the `hash` channel join without a gap is
one chain from the reader to the digest: `ReaderShape` and `DataChain` (from the
reader's position back to the oldest queued block), `InHand` (from there to the
output), `HashChain` (from the output to the hash). `BlocksCounted` carries the limit on
blocks over the channel, `Buffers` counts the buffers over all six places they can be in,
from which no bounded `send` blocks and the reader stays within its buffers of the writer,
`Padded` is what `--sync` adds, and `Final` what the result says. All positions are those of
the input (`Reached`), so that the chain holds across a second attempt of `--direct`, too;
what such an attempt leaves in the output is `OutShape`: nothing is missing. In both refinements every
step is one of `StreamCopy` or changes none of its variables.

**ShardedRing** (`ConfigsAssumption`, `WorkersAssumption`, `ChunkAssumption`: any finite
set of workers). `Geometry`: chunks being copied lie inside the file, below the shared
counter, a whole chunk apart; a block in the buffer is what its position says. `Data`:
every byte is in its place, what nobody has reached is unwritten (`Fresh`, without which a
byte could be counted twice), and the counter is the number of bytes in the output except
those of writes completed and not counted yet. `Coverage`: until an abort every position
below the shared counter is written or still ahead of the worker that claimed it, and
nobody leaves before all is claimed. `Control`: who has left, and that an abort has a
failed worker behind it. `LeftComplete`: a main thread that left its loop while no worker
had failed left a complete copy, reads and writes being `Exact`; that it may leave and a worker fail afterwards is the
run `shard_lost_error`. In the refinement `Fresh` is what makes a worker's write one of
`ScatteredCopy`, which allows positions not written before only, and `LeftComplete` what
makes the end one that may say `ok`.

**CopyLoop** (`ConfigsAssumption`, `StagesAssumption`: any sequence of autotune stages).
`Placed`: which driver is where, and that the two kinds of offsets add up to the bytes
taken and written, across a fallback. `Direct` and `Crossed` are what the output is: without
`--swab` every step writes all it read; with it, the output, the bytes collected for a
block and the odd byte carried to the next one are together the image of all that was
read, whose last byte, when odd, is in its own place only at the end. `Counted`,
`Limited`, `RecordLimits` relate bytes and records to the limits. `Budgeted` is the reason why
`--autotune -l` is exact: at every test, the byte limit's rest is the records left of
the current block size and the rest below one, as long as all reads are full; the
exception of `AutotunedShort` was found when this part failed to be inductive for an
unreadable byte. `Digested` and `Ended` are the checksum and the exit status.

**UringRing and Session** (`RingConfigsAssumption`, `RingAssumption`, `SessionAssumption`: any
number of slots above one). `RingInv` holds of the ring under the kernel's and the
driver's steps: the submitted operations and the completions belong to the flags
`read_in_flight` and `write_in_flight`, at most one each, of different slots
(`Submitted`, `Posted`, `InQueues`); what the program counts is what is in the output but
for a completion it has not seen (`Counts`); as long as nothing was interrupted or cut
short, reading, writing and hashing stand in a fixed distance (`InOrder` with `Reading` and
`Writing`); the flush leaves nothing behind (`Ends`). `Session_proofs` adds the program
around it: `SignalsHeld` (received signals are answered or counted, and signals are held
back exactly between the two mask calls) and `Answers`; `DriverChosen`; `Asked` (the guard was
asked before the output is opened, the flags the plan depends on are still the command
line's when it is made); `Leaving` (where an interrupt leads, and what has been synchronised).

**RustEngines and RustFronts** (`JobsAssumption`, `FrontsAssumption`: any disks, paths and
transfers, any number of jobs). `EngineInv`: unless the transfer has `spilled`, what lies
behind the offset is old, or what an earlier engine left there: the byte that belongs there,
or a hole of the workers (`Behind`, `LeftBehind`), and all of it is reached by the synchronous engine,
which is the last. A new engine begins at the beginning of streams nobody has touched,
with what is counted in `abandoned` (`Between`); while an engine moves
bytes, the output up to its offset and the block in hand are what was read (`Stream`), within
the limits (`Limited`, `CountedDown`), statistics and digest included (`Counted`); workers do all
in one step, so their engine is at the beginning until then (`Places`). `NoInput` and
`Sole` are for a missing input and for the engines that must be the first.
`FrontInv`: the entry a confirmation dialog asks about is the selected one (`Asked`), with
`JobsAccounted` and `NoUnconfirmedWrite` inductive beside it.

**RustShards** (`TreeAssumption`, `ShardsAssumption`: any number of workers and size of
stripes). `Several`, for workers, has the parts of `ShardedRing`'s proof with stripes in
place of chunks, an end that any worker may meet first, and cancellation (`Geometry`, `InPlace`,
`Fresh`, `Counted`, `Coverage`, `Control`); `Alone` is the single ring. `Digested` is added to
it for the digest. For workers whose reads are not `ragged` it is `Leafed`: the leaves a worker has are those of what it
has read of its stripe (`Hashed`); it has read whole leaves except at the end of the stripe
or of the input, from which the leaves of two pieces are those of both together; a stripe
that is kept has all its leaves and is kept once; and every stripe that was claimed and is
wanted is in some worker's hands or kept, unless a worker failed. After the join the stripes
kept are therefore all that there are, `FlattenSeq` collects and `Sorted` orders them, and
their leaves are the input's. For the single ring, `Represents` relates the hasher to the
bytes it was given. TLC checked `Leafed` on the states of `rust_shards`, too.

**BlksTree** (`TreeAssumption`: any size of leaves, any power of two of leaves in a subtree). The
two theorems are inductions over the height of a tree and over the updates, and the
loops of `tree.rs` are recursive functions. The induction theorems of the library take an
operator as a parameter, which the installed provers cannot instantiate. The module
begins with two replacements: induction over a *set* of numbers (`NatSetInduction`), from
the well-foundedness of the natural numbers, and that a function defined by recursion over
them exists (`RecursionExists`), with which the definition of `Levels` may be unfolded
(`LevelsDef`). Then: a level of reductions halves the nodes, in their order (`NextLevelFacts`);
levels compose (`LevelsCompose`) and settle at one node (`LevelsSettle`); after as many levels
as a subtree is high, the nodes are the roots of the subtrees (`SubtreeRoot`, `Grouping`), which
is where the power of two is needed; the leaves of data cut at whole leaves are the
leaves of its parts (`LeavesConcat`). `SubtreesChangeNothing` follows. For
`IncrementalIsCanonical`, `Represents` says what a hasher holds after any updates: the leaves
of all full chunks behind which there is more, and the rest in its buffer. Each of the three
parts of `update` keeps it (`UpdateRepresents`), and `finalize` then gives the tree
(`FinalizeTree`).

Only model-checked: liveness (`Terminates` of each module, `CancelStopsWriting`, `CancelEnds`),
as liveness under fairness is out of the proof system's reach.

## 5. Where code and documentation disagree

Each is a run that TLC ends with a counterexample, with the line it contradicts.

| Run | What happens |
|---|---|
| `pipeline_cancel` | Rust: a cancelled writer leaves with buffers in flight; the reader waits for one on a channel that cannot close because it holds a sender itself; the join hangs. |
| `shard_lost_error` | C sharded: the step reads the abort flag, then the number of active workers; a failure in between ends the copy with status 0. |
| `noerror_progress` | C `--noerror`: an unreadable position is retried for ever. |
| `uring_short_write` | C single ring: a write the kernel cuts short is never continued; the block's rest is missing and the status is 0. |
| `rust_fallthrough` | Rust: splicing from stdin fails after it has taken bytes; the error is ignored, the synchronous engine goes on behind them and returns `Ok`. |

Further ones, met while modelling, that no run is spent on. Most appear as an exception
in a property, where its comment names it.

C program:

- `--swab`: a write error below `dd_copy_simple` is reported, but the copy goes on and
  ends with status 0 (`io_engine.c:566`); `--swab -l` can overshoot the limit, as bytes
  not yet written do not count against it (`io_sync.c:226`).
- `--autotune -l N` on a pipe or before an unreadable byte: short reads use up the block
  count derived from N, and the copy ends early with status 0 (`io_sync.c:141`).
- `--sync` pads beyond `-l`; `--sync --noerror` pads with old buffer contents.
- `-e splice` and `-e reflink` with `--blake3` print the digest of an empty stream.
- Sharded: a write that completes with 0 bytes ends its chunk without an error and leaves a
  hole, with status 0 (`io_uring.c:280`; `empty_writes` in `OutcomeIsTrue`).
- Sharded: the byte counter is read before the number of active workers, so the final
  count can miss the last bytes (`io_uring.c:444`); a read that is short in mid-file ends
  its chunk without an error and leaves a hole, with status 0 (`io_uring.c:305`; `short_reads`
  in `OutcomeIsTrue`).
- Single ring: a read that is interrupted leaves the slot's old length, which is then
  written (`io_uring.c:717`).
- SIGINT after the last poll of the loop skips `fdatasync` and `fsync`, with status 0
  (`io_engine.c:1066`).
- The dry run announces another engine than the program uses for `-j`, `--blks`, a
  refused O_DIRECT and redirected streams (`PlanBlindSpot`).
- The guard does not recognise a whole disk given through a symbolic link.

Rust program:

- The pipeline's reader outlives a writer that failed, for the reason of `pipeline_cancel`
  (`engine.rs:856`, `884`); a cancelled pipeline returns `Ok` (`engine.rs:939`), and so
  do cancelled io_uring workers (`uring.rs:242`), which other engines report as an error.
- With `--direct` a failed write is repeated in full from where the first attempt got to,
  in the synchronous engine (`engine.rs:769`) and in the pipeline (`engine.rs:969-975`): a part
  of the block is in the output twice, the digest is the input's, the result `Ok`.
- With `--noerror` the pipeline and the synchronous engine ask for an unreadable position
  again without end (`engine.rs:896-900`, `719-728`): the disagreement that `noerror_progress`
  shows in C.
- The statistics are those of all engines tried: bytes that an engine moved before it gave
  up are counted again by the next (`engine.rs:646-662`, then `789`; `abandoned`).
- Reflink truncates the output though the input cannot be opened (`engine.rs:489`).
- The results of the final synchronisation are ignored.
- With several workers `-c` is ignored when `-l` is given (`uring.rs:205`), and when they fail,
  what they wrote behind that `-c` stays in the output behind the synchronous engine's.
- A worker's read that ends inside a leaf changes the digest (`ragged`), where the
  documentation promises the same digest on every path (`tree.rs:111`).
- The TUI's guard flags are as old as the list; those of typed-in entries are not
  renewed by a refresh.

## 6. What is not modelled

Left aside as a whole: `include/` and `lib/`, vendored portability code (gnulib headers,
a static archive) that makes up 88 of 100 lines of the repository and has no state of
this program's; the build system, packaging, shell completions, translations.

Of the program itself:

- Writes completing with 0 bytes, but for the C sharded driver: `dd_iwrite` and the Rust
  splice and io_uring engines then try again without end, `write_all` fails (which is modelled as a
  failed write), the single ring of C goes on behind the block as after a short write.
- Short reads of a file or device that are not at its end on the single ring of the C
  driver; `ShardedRing` and `RustShards` have them.
- Memory order weaker than sequential consistency.
- `skip` and `seek`, sparse output, page cache eviction, retries of single calls after
  a refused O_DIRECT in C; `--swab` and `--sparse` in Rust.
- A full submission queue: two operations at most cannot fill one.
- Data: sparse detection, the byte swapping instructions, the hash compression
  function and its vector versions. A checksum is the sequence of bytes it was given,
  a tree hash the tree.
- Parsing of command lines and sizes; stall counters, progress, JSON and summary
  output; drawing and layout of both text interfaces. The C text interface builds
  a command line and runs the program as a child: it has no part in a copy.
- In the Rust TUI, the keys that set parameters of the next job: the job that starts is
  any of those listed.
- What makes a disk "in use" in `safety.rs` (device numbers, holders): it is the set
  of disks in use that `RustFronts` changes freely.

## 7. Plan

All modules planned are written, and the safety properties they state are proved. None of
the modules uses a RECURSIVE operator. What can follow:

1. `CopyLoop` against `StreamCopy`, for the options that do not change the data: the output of
   `--swab` and `--sync` is not a prefix of the input, so that the abstract copy would have
   to take the image as a parameter.
2. Action properties next to the invariants: a byte of the output is never written again
   but by the paths `spilled` names; the statistics never decrease.
3. What the main thread of the sharded driver reports: the last bytes it can miss
   (`io_uring.c:444`) reach the totals and the file offsets set from them.
4. The single ring with short reads in mid-file, and with operations that complete with
   0 bytes.
