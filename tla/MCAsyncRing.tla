----------------------------- MODULE MCAsyncRing -----------------------------
(* Instances of AsyncRing for TLC.                                           *)
EXTENDS AsyncRing

\* "No limit": INTMAX_MAX in the code, more blocks than any input here has.
NoRecordLimit == 99

Config(depth, blocksize, limit, max, len) ==
  [queue_depth |-> depth, input_blocksize |-> blocksize, bytes_to_copy |-> limit,
   max_records |-> max, source |-> len]

(***************************************************************************)
(* No limit; -l below, at and off a block boundary and beyond the input;   *)
(* -c N (which also sets bytes_to_copy to N blocks); -c with a larger -l.  *)
(***************************************************************************)
MCConfigs ==
  { Config(2, 2, -1, NoRecordLimit, 5), Config(2, 2, -1, NoRecordLimit, 0),
    Config(0, 2, -1, NoRecordLimit, 4), Config(3, 1, -1, NoRecordLimit, 4),
    Config(2, 2, 3, NoRecordLimit, 5),  Config(2, 2, 4, NoRecordLimit, 4),
    Config(3, 2, 6, NoRecordLimit, 4),  Config(2, 2, 0, NoRecordLimit, 2),
    Config(2, 2, 4, 2, 6),              Config(2, 2, 5, 1, 6) }

==============================================================================
