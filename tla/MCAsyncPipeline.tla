--------------------------- MODULE MCAsyncPipeline ---------------------------
(* Instances of AsyncPipeline for TLC.                                       *)
EXTENDS AsyncPipeline

Config(depth, size, limit, count, flags, len, unreadable) ==
  [queue_depth |-> depth, block_size |-> size, limit |-> limit, count |-> count,
   has_hash |-> "hash" \in flags, sync |-> "sync" \in flags,
   noerror |-> "noerror" \in flags, direct |-> "direct" \in flags,
   cancellable |-> "cancel" \in flags, source |-> len, bad |-> unreadable]

\* With and without hash, padding, limits (on and off a block boundary, above
\* the input, zero, before the unreadable position), block counts, a second
\* attempt at a block, unreadable positions with and without --noerror, and
\* cancellation.
MCConfigs ==
  { Config(1, 2, -1, -1, {"hash"}, 3, 0),
    Config(2, 2, -1, -1, {"hash", "cancel"}, 4, 0),
    Config(2, 2, -1, -1, {"sync", "noerror"}, 4, 0),
    Config(3, 1, -1, -1, {"hash"}, 4, 4),
    Config(2, 2,  3, -1, {"hash", "sync"}, 5, 0),
    Config(2, 2,  4, -1, {"cancel"}, 4, 0),
    Config(2, 2,  6,  2, {"noerror"}, 5, 0),
    Config(2, 1, -1,  2, {"hash", "cancel"}, 4, 0),
    Config(2, 2,  0, -1, { }, 2, 0),
    Config(2, 2, -1, -1, {"hash", "direct"}, 3, 0),
    Config(1, 2,  3, -1, {"sync", "direct"}, 4, 0),
    Config(2, 2, -1, -1, {"hash", "noerror", "cancel"}, 4, 4),
    Config(2, 2,  2, -1, {"noerror"}, 3, 3) }

\* A job of the TUI, which can be cancelled.
CancelConfigs == { Config(2, 1, -1, -1, {"cancel"}, 4, 0) }

==============================================================================
