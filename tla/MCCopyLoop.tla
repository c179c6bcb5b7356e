---------------------------- MODULE MCCopyLoop ----------------------------
(* Instances of CopyLoop for TLC.                                            *)
EXTENDS CopyLoop

Config(engine, input, output, conversions, bs, limit, count, source, bad) ==
  [engine |-> engine, input |-> input, output |-> output,
   conversions |-> conversions, blocksize |-> bs, limit |-> limit,
   count |-> count, source |-> source, bad |-> bad]

SyncConfigs ==
  { Config("sync", "pipe", "file", {}, 2, -1, -1, 5, 0),
    Config("auto", "pipe", "pipe", {"sha256"}, 2, 3, -1, 5, 0),
    Config("auto", "file", "file", {"blake3"}, 2, -1, 2, 5, 0),
    Config("sync", "pipe", "pipe", {}, 2, -1, 2, 5, 0),
    Config("sync", "file", "file", {}, 2, -1, 0, 3, 0),
    Config("sync", "file", "file", {}, 2, -1, -1, 5, 4) }

\* Odd and even block sizes; limits and errors that leave an odd byte.
SwabConfigs ==
  { Config("auto", "pipe", "file", {"swab", "sha256"}, 2, -1, -1, 5, 0),
    Config("auto", "pipe", "file", {"swab"}, 3, -1, -1, 7, 0),
    Config("auto", "pipe", "file", {"swab"}, 3, -1, -1, 3, 0),
    Config("auto", "pipe", "file", {"swab", "sync"}, 3, -1, -1, 5, 0),
    Config("auto", "file", "file", {"swab"}, 3, -1, -1, 6, 6),
    Config("auto", "pipe", "file", {"swab"}, 4, 5, -1, 7, 0) }

PaddingConfigs ==
  { Config("sync", "pipe", "file", {"sync", "sha256"}, 3, -1, -1, 5, 0),
    Config("sync", "pipe", "file", {"sync", "noerror"}, 2, 7, -1, 5, 4) }

KernelConfigs ==
  { Config("auto", "file", "file", {}, 2, -1, -1, 4, 0),
    Config("auto", "file", "file", {"noerror"}, 2, 3, -1, 4, 0),
    Config("reflink", "file", "file", {}, 2, -1, 1, 4, 0),
    Config("reflink", "file", "pipe", {}, 2, -1, -1, 3, 0),
    Config("splice", "file", "file", {}, 2, 3, -1, 4, 0),
    Config("auto", "file", "pipe", {}, 2, -1, -1, 4, 3),
    Config("auto", "pipe", "file", {}, 2, 3, -1, 4, 0) }

TuneConfigs ==
  { Config("auto", "file", "file", {"autotune"}, 1, 7, -1, 9, 0),
    Config("auto", "pipe", "file", {"autotune"}, 1, -1, -1, 7, 0) }

UnreadableConfigs == { Config("sync", "file", "file", {"noerror"}, 2, -1, -1, 5, 4) }

TunedShortConfigs ==
  { Config("auto", "pipe", "file", {"autotune"}, 1, 8, -1, 9, 0),
    Config("auto", "file", "file", {"autotune"}, 4, 8, -1, 9, 7) }

MCConfigs ==
  SyncConfigs \cup SwabConfigs \cup PaddingConfigs \cup KernelConfigs \cup TuneConfigs
    \cup UnreadableConfigs \cup TunedShortConfigs

\* Block sizes that --autotune tries, in place of 64 KiB to 4 MiB.
Stages == <<1, 2, 4>>

===========================================================================
