---------------------------- MODULE ScatteredCopy ----------------------------
(***************************************************************************)
(* What the backends that copy in no particular order promise (the sharded *)
(* rings of the C and of the Rust program): every write puts input bytes   *)
(* where nothing was written before, each at its own position and none     *)
(* beyond the limit, and success is reported only when no hole is left.    *)
(*                                                                         *)
(* A byte is named by its position in the input (1, 2, ...).               *)
(***************************************************************************)
EXTENDS Integers

VARIABLES
  request,    \* what was asked for (never changes): see Requests
  out,        \* what has been written: pairs of a position and a byte
  status      \* "running", "ok" or "abandoned" (nothing is promised)

vars == <<request, out, status>>

\* source: length of the input in bytes.  limit: byte limit, or -1 for none.
Requests == [source : Nat, limit : Nat \cup {-1}]

Wanted(req) ==
  1 .. (IF req.limit < 0 \/ req.source < req.limit THEN req.source ELSE req.limit)

InPlace(positions) == {<<p, p>> : p \in positions}

Init ==
  /\ request \in Requests
  /\ out = {}
  /\ status = "running"

\* One write, of consecutive bytes.
Land ==
  /\ status = "running"
  /\ \E first, last \in Wanted(request) :
       /\ first <= last
       /\ \A pair \in out : pair[1] \notin first..last
       /\ out' = out \cup InPlace(first..last)
  /\ UNCHANGED <<request, status>>

Succeed ==
  /\ status = "running"
  /\ out = InPlace(Wanted(request))
  /\ status' = "ok"
  /\ UNCHANGED <<request, out>>

Abandon ==
  /\ status = "running"
  /\ status' = "abandoned"
  /\ UNCHANGED <<request, out>>

Next == Land \/ Succeed \/ Abandon

Spec == Init /\ [][Next]_vars

==============================================================================
