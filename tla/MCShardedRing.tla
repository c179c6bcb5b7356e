---------------------------- MODULE MCShardedRing ----------------------------
(* Instances of ShardedRing for TLC.                                         *)
EXTENDS ShardedRing

Config(bs, total, limit, len) ==
  [blocksize |-> bs, total_bytes |-> total, bytes_to_copy |-> limit, source |-> len,
   short_reads |-> FALSE, empty_writes |-> FALSE]

WithShortReads(config)  == [config EXCEPT !.short_reads = TRUE]
WithEmptyWrites(config) == [config EXCEPT !.empty_writes = TRUE]

(***************************************************************************)
(* Chunks of several blocks and of one; an end off the block boundary; a   *)
(* file that shrank to a block boundary and off it; -l below the input;    *)
(* -l beyond it; reads that are short in the middle of the file; writes    *)
(* that write nothing.                                                     *)
(***************************************************************************)
MCConfigs ==
  { Config(1, 4, -1, 4), Config(2, 5, -1, 5), Config(2, 6, -1, 3),
    Config(2, 4, -1, 2), Config(2, 3, 3, 5),  Config(2, 6, 6, 3),
    WithShortReads(Config(2, 5, -1, 5)), WithEmptyWrites(Config(2, 4, -1, 4)) }

SmallConfigs == { Config(1, 2, -1, 2) }

==============================================================================
