---------------------------- MODULE MCRustShards ----------------------------
(* Instances of RustShards, and with it of BlksTree, for TLC.                *)
EXTENDS RustShards

Plain ==
  [threads |-> 2, blocksize |-> 4, limit |-> -1, count |-> -1, hash |-> "blks",
   source |-> 9, sized |-> TRUE]

MCTransfers ==
  { Plain,
    [Plain EXCEPT !.blocksize = 2, !.count = 4],
    [Plain EXCEPT !.threads = 3, !.source = 10, !.limit = 6],
    [Plain EXCEPT !.blocksize = 3, !.source = 8],              \* not of whole leaves
    [Plain EXCEPT !.limit = 2],                                \* a single leaf
    [Plain EXCEPT !.threads = 1, !.blocksize = 7, !.source = 13],
    [Plain EXCEPT !.threads = 1, !.source = 0],
    [Plain EXCEPT !.hash = "none", !.blocksize = 3, !.source = 6, !.sized = FALSE],
    [Plain EXCEPT !.hash = "none", !.blocksize = 6, !.source = 8, !.limit = 12],
    [Plain EXCEPT !.hash = "none", !.threads = 1, !.source = 5, !.limit = 4, !.count = 2] }

=============================================================================
