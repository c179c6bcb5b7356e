----------------------------- MODULE StreamCopy -----------------------------
(***************************************************************************)
(* What every blkcp transfer backend promises, whatever threads and        *)
(* buffers it uses: the output is the input, byte by byte and in order, up *)
(* to the requested limit, and the transfer reports success only when it   *)
(* delivered everything that was asked for.  A backend that writes a block *)
(* again from the position it reached steps back in the input: bytes then  *)
(* occur twice in the output, but none up to that position is missing.     *)
(*                                                                         *)
(* A byte is named by its position in the input (1, 2, ...).               *)
(***************************************************************************)
EXTENDS Integers, Sequences

VARIABLES
  request,    \* what was asked for (never changes): see Requests
  out,        \* the bytes delivered to the output so far
  at,         \* position of the input up to which they go
  blocks,     \* number of blocks taken from the input and being delivered
  status      \* "running", "ok" (exit 0), "failed" or "cancelled"

vars == <<request, out, at, blocks, status>>

(***************************************************************************)
(* source: length of the input in bytes.  limit: byte limit, or -1 for     *)
(* none.  records: block limit (a large number stands for "none").         *)
(* repeats: the backend may write a block again.                           *)
(***************************************************************************)
Requests == [source : Nat, limit : Int, records : Nat, repeats : BOOLEAN]

Statuses == {"running", "ok", "failed", "cancelled"}

\* The n input bytes behind position from appended, in input order.
Deliver(copied, from, n) == copied \o [i \in 1..n |-> from + i]

\* Nothing is left to do after n bytes out of b blocks.
IsAll(req, n, b) ==
  \/ n = req.source
  \/ req.limit >= 0 /\ n >= req.limit
  \/ b >= req.records

Init ==
  /\ request \in Requests
  /\ out = << >>
  /\ at = 0
  /\ blocks = 0
  /\ status = "running"

TakeBlock ==
  /\ status = "running"
  /\ blocks' = blocks + 1
  /\ UNCHANGED <<request, out, at, status>>

Transfer ==
  /\ status = "running"
  /\ \E n \in 1..(request.source - at) :
        /\ request.limit >= 0 => at + n <= request.limit
        /\ out' = Deliver(out, at, n)
        /\ at' = at + n
  /\ UNCHANGED <<request, blocks, status>>

StepBack ==
  /\ status = "running"
  /\ request.repeats
  /\ at' \in 0..at
  /\ UNCHANGED <<request, out, blocks, status>>

Succeed ==
  /\ status = "running"
  /\ IsAll(request, at, blocks)
  /\ status' = "ok"
  /\ UNCHANGED <<request, out, at, blocks>>

Abandon ==
  /\ status = "running"
  /\ status' \in {"failed", "cancelled"}
  /\ UNCHANGED <<request, out, at, blocks>>

Next == TakeBlock \/ Transfer \/ StepBack \/ Succeed \/ Abandon

Spec == Init /\ [][Next]_vars

=============================================================================
