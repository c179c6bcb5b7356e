---------------------------- MODULE MCRustFronts ----------------------------
(* Instances of RustFronts, and with it of RustEngines, for TLC.             *)
EXTENDS RustFronts

Job(engine, input, output, flags) ==
  [engine |-> engine, input |-> input, output |-> output, flags |-> flags,
   threads |-> 1, blocksize |-> 2, limit |-> -1, count |-> -1, source |-> 3, bad |-> 0]

FileJobs ==
  { Job("auto", "file", "file", {}),
    Job("reflink", "device", "file", {}),
    [Job("splice", "file", "file", {"notrunc"}) EXCEPT !.bad = 3],
    [Job("async", "file", "file", {"hash"}) EXCEPT !.count = 1],
    [Job("uring", "file", "file", {"hash"}) EXCEPT !.limit = 3, !.source = 4],
    [Job("auto", "file", "file", {"direct"}) EXCEPT !.threads = 2, !.bad = 3],
    [Job("uring", "file", "file", {"hash", "blks"}) EXCEPT !.threads = 2],
    [Job("uring", "file", "file", {"hash"}) EXCEPT !.threads = 2, !.limit = 2],
    Job("sync", "file", "file", {"sync", "hash"}),
    [Job("sync", "file", "file", {"noerror"}) EXCEPT !.bad = 3],
    Job("sync", "file", "file", {"direct", "hash"}),
    [Job("async", "file", "file", {"notrunc"}) EXCEPT !.count = 1, !.bad = 2],
    Job("async", "file", "file", {"direct", "sync", "hash"}),
    Job("auto", "missing", "file", {}),
    Job("uring", "missing", "file", {}) }

DeviceJobs ==
  { Job("auto", "file", "device", {"autotune"}),
    [Job("uring", "device", "device", {}) EXCEPT !.count = 1],
    [Job("uring", "device", "device", {}) EXCEPT !.threads = 2, !.limit = 3, !.count = 1] }

StreamJobs ==
  { Job("splice", "stdin", "stdout", {}),
    [Job("splice", "stdin", "file", {}) EXCEPT !.limit = 2],
    [Job("auto", "stdin", "stdout", {"hash"}) EXCEPT !.count = 2],
    Job("async", "stdin", "stdout", {}) }

SpliceJobs == { Job("splice", "stdin", "file", {}) }

\* What blkcp-tui runs: a source that cannot be read, and the speed test.
MCTuiJobs ==
  { [Job("sync", "file", "file", {"noerror"}) EXCEPT !.source = 2, !.bad = 2],
    [Job("async", "file", "file", {"noerror"}) EXCEPT !.bad = 2],
    [Job("uring", "device", "device", {}) EXCEPT !.threads = 2, !.limit = 1] }

MCJobs == FileJobs \cup DeviceJobs \cup StreamJobs \cup MCTuiJobs

MCDisks == <<"/dev/sda", "/dev/sdb">>
MCTyped == {"/dev/sda", "image"}

=============================================================================
