--------------------------- MODULE AsyncRing_proofs ---------------------------
(***************************************************************************)
(* Proofs about AsyncRing, for every ring size, block size, limit and      *)
(* input.                                                                  *)
(***************************************************************************)
EXTENDS AsyncRing, TLAPS

------------------------------------------------------------------------------
(* The inductive invariant                                                   *)

\* The main thread is in dd_copy's loop.
Running == wpc \in {"loop", "step", "wait", "take", "write"}

\* Index of the i-th slot from the head.
Idx(i) == IF head + i < capacity THEN head + i ELSE head + i - capacity

\* Which program counters and flags go together.
Phases ==
  /\ stop_requested <=> wpc \in {"join", "done"}
  /\ reader_done <=> rpc = "ended"
  /\ rpc = "none" <=> wpc \in {"init", "died", "fallback"}
  /\ wpc = "done" => rpc = "ended"
  /\ wpc # "write" => nwritten = 0
  /\ exit_status = "failure" => wpc \in {"cleanup", "join", "done"}
  /\ wpc = "init" => /\ head = 0 /\ tail = 0 /\ count = 0
                     /\ r_records_done = 0 /\ total_bytes_read = 0
                     /\ records = 0 /\ w_bytes = 0

\* The slots handed over lie between head and tail; a thread that works on a
\* slot is on its own side.
RingShape ==
  /\ tail = Idx(count)
  /\ rpc \in {"fill", "publish"} => count < capacity
  /\ wpc \in {"take", "write"} => count > 0

Control == TypeOK /\ Phases /\ RingShape

\* Filled slots: those handed over, and the one about to be.
Filled == IF rpc = "publish" THEN count + 1 ELSE count

\* The i-th slot from the head.
Nth(i) == slots[Idx(i)]

\* Number of input bytes before the i-th slot.
Start(i) == IF i < Filled THEN Nth(i).at ELSE total_bytes_read

\* Where the i-th filled slot ends.
End(i) == Nth(i).at + Nth(i).nread

\* The filled slots join up, from what is written to what is read.
Chain ==
  Running =>
    /\ Start(0) = w_bytes
    /\ \A i \in 0..(Filled - 1) : End(i) = Start(i + 1) /\ End(i) <= total_bytes_read
    /\ wpc = "write" => nwritten <= Nth(0).nread

\* An end-of-file slot is empty, the last one, and there for a reason.
EofLast ==
  \A i \in 0..(Filled - 1) :
    Running /\ Nth(i).is_eof =>
      /\ i = Filled - 1
      /\ Nth(i).nread = 0
      /\ rpc \in {"publish", "exit", "ended"}
      /\ ~Nth(i).err => LimitReached \/ total_bytes_read = cfg.source
      /\ ~(wpc = "write" /\ i = 0)

\* The reader leaves a running copy only behind an end-of-file slot.
LastIsEof == Filled > 0 /\ Nth(Filled - 1).is_eof

EofQueued == Running /\ rpc \in {"exit", "ended"} => LastIsEof

\* Both threads count the same records.
InHand == IF wpc = "write" THEN 1 ELSE 0
Sentinels == IF LastIsEof THEN 1 ELSE 0

RecordsAgree ==
  Running => records + Filled = r_records_done + InHand + Sentinels

\* The reader's byte counter respects the input and the limit.
ReadBound ==
  /\ total_bytes_read <= cfg.source
  /\ cfg.bytes_to_copy >= 0 => total_bytes_read <= cfg.bytes_to_copy

\* What is written is a prefix of what is read; the hash runs one block ahead.
OutputPrefix ==
  /\ PrefixCopied
  /\ Len(out) = w_bytes + nwritten
  /\ Len(out) <= total_bytes_read

HashPrefix ==
  /\ \A i \in 1..Len(hashed) : hashed[i] = i
  /\ exit_status = "success" =>
       Len(hashed) = IF wpc = "write" THEN w_bytes + slots[head].nread ELSE w_bytes

\* A main thread that left its loop without a failure had copied everything.
LeftComplete ==
  wpc \in {"cleanup", "join", "done"} /\ exit_status = "success" => CopyComplete

Queue == Chain /\ EofLast /\ EofQueued /\ RecordsAgree

IInv == Control /\ Queue /\ ReadBound /\ OutputPrefix /\ HashPrefix /\ LeftComplete

------------------------------------------------------------------------------
(* Wrapping around the ring                                                  *)

\* The index after t in a ring of c slots.
LEMMA WrapNext ==
  ASSUME NEW c \in Nat, c >= 2, NEW t \in 0..(c - 1)
  PROVE  (t + 1) % c = IF t + 1 < c THEN t + 1 ELSE 0
OBVIOUS

\* The ring size the program asks for is never below two slots.
LEMMA RequestedCapacityBound ==
  ASSUME NEW c \in ConfigType
  PROVE  RequestedCapacity(c) \in Nat /\ RequestedCapacity(c) >= 2
<1>1. /\ ASYNC_TARGET_BUFFER_BYTES \div c.input_blocksize \in Int
      /\ c.queue_depth \in Nat
  BY CapacityAssumption DEF ConfigType
<1>2. QED
  BY <1>1, CapacityAssumption DEF RequestedCapacity, Clamp

------------------------------------------------------------------------------
(* Control: types, phases, and who owns which part of the ring               *)

\* A run of input bytes appended to a sequence.
LEMMA AppendBytes ==
  ASSUME NEW s \in Seq(Nat), NEW a \in Nat, NEW n \in Nat
  PROVE  /\ s \o InputBytes(a, n) \in Seq(Nat)
         /\ Len(s \o InputBytes(a, n)) = Len(s) + n
         /\ \A i \in 1..(Len(s) + n) :
              (s \o InputBytes(a, n))[i] = IF i <= Len(s) THEN s[i] ELSE a + (i - Len(s))
<1>1. InputBytes(a, n) \in Seq(Nat) /\ Len(InputBytes(a, n)) = n
  BY DEF InputBytes
<1>2. \A i \in 1..n : InputBytes(a, n)[i] = a + i
  BY DEF InputBytes
<1>3. QED
  BY <1>1, <1>2

\* The slots at both ends of the ring, while there is a ring.
LEMMA RingSlots ==
  ASSUME TypeOK, Phases,
         rpc \notin {"none", "ended"} \/ wpc \in {"take", "write", "cleanup", "join"}
  PROVE  /\ slots \in [0..(capacity - 1) -> Slot]
         /\ slots[head] \in Slot /\ slots[tail] \in Slot
BY DEF TypeOK, Phases

LEMMA ControlInit == Init => Control
<1> SUFFICES ASSUME Init PROVE Control
  OBVIOUS
<1>1. cfg \in ConfigType
  BY ConfigsAssumption DEF Init
<1>2. TypeOK
  <2>1. capacity \in Nat /\ capacity >= 2
    BY <1>1, RequestedCapacityBound DEF Init
  <2>2. out \in Seq(Nat) /\ hashed \in Seq(Nat)
    BY DEF Init
  <2>3. head \in 0..(capacity - 1) /\ tail \in 0..(capacity - 1) /\ count \in 0..capacity
    BY <2>1 DEF Init
  <2>4. QED
    BY <2>1, <2>2, <2>3 DEF Init, TypeOK
<1>3. Phases /\ RingShape
  BY <1>1, RequestedCapacityBound DEF Init, Phases, RingShape, Idx
<1>4. QED
  BY <1>2, <1>3 DEF Control

LEMMA ControlStep == Control /\ [Next]_vars => Control'
<1> SUFFICES ASSUME Control, [Next]_vars PROVE Control'
  OBVIOUS
<1> USE DEF Control
<1>0. cfg \in ConfigType
  BY ConfigsAssumption DEF TypeOK
<1>1. CASE AllocateFails
  <2>1. TypeOK'
    BY <1>0, <1>1 DEF TypeOK, Phases, RingShape, AllocateFails, reader_vars, Clamp
  <2>2. Phases'
    BY <1>0, <1>1 DEF TypeOK, Phases, AllocateFails, reader_vars, Clamp
  <2>3. RingShape'
    BY <1>0, <1>1 DEF TypeOK, Phases, RingShape, Idx, AllocateFails, reader_vars, Clamp
  <2>4. QED
    BY <2>1, <2>2, <2>3
<1>2. CASE StartReader
  <2>1. TypeOK'
    <3>1. EmptySlot \in Slot
      BY DEF EmptySlot, Slot
    <3>2. QED
      BY <1>2, <3>1 DEF TypeOK, StartReader
  <2>2. Phases'
    BY <1>0, <1>2 DEF TypeOK, Phases, StartReader, EmptySlot
  <2>3. RingShape'
    BY <1>0, <1>2 DEF TypeOK, Phases, RingShape, Idx, StartReader, EmptySlot
  <2>4. QED
    BY <2>1, <2>2, <2>3
<1>3. CASE ReaderAcquire
  <2>1. TypeOK'
    BY <1>0, <1>3 DEF TypeOK, Phases, RingShape, ReaderAcquire, pipe_vars, writer_vars
  <2>2. Phases'
    BY <1>0, <1>3 DEF TypeOK, Phases, ReaderAcquire, pipe_vars, writer_vars
  <2>3. RingShape'
    BY <1>0, <1>3 DEF TypeOK, Phases, RingShape, Idx, ReaderAcquire, pipe_vars, writer_vars
  <2>4. QED
    BY <2>1, <2>2, <2>3
<1>4. CASE ReaderWakesSpuriously
  <2>1. TypeOK'
    BY <1>0, <1>4 DEF TypeOK, Phases, RingShape, ReaderWakesSpuriously, pipe_vars, writer_vars
  <2>2. Phases'
    BY <1>0, <1>4 DEF TypeOK, Phases, ReaderWakesSpuriously, pipe_vars, writer_vars
  <2>3. RingShape'
    BY <1>0, <1>4 DEF TypeOK, Phases, RingShape, Idx, ReaderWakesSpuriously, pipe_vars, writer_vars
  <2>4. QED
    BY <2>1, <2>2, <2>3
<1>5. CASE ReaderStopsAtLimit
  <2>1. TypeOK'
    <3>1. /\ slots \in [0..(capacity - 1) -> Slot]
          /\ wpc \notin {"init", "done", "fallback", "died"}
      BY <1>5, RingSlots DEF ReaderStopsAtLimit, Phases
    <3>2. [at |-> total_bytes_read, nread |-> 0, is_eof |-> TRUE, err |-> FALSE] \in Slot
      BY DEF TypeOK, Slot
    <3>3. slots' \in [0..(capacity - 1) -> Slot]
      BY <1>5, <3>1, <3>2 DEF ReaderStopsAtLimit, FillSlot
    <3>4. QED
      BY <1>5, <3>1, <3>3 DEF TypeOK, ReaderStopsAtLimit, writer_vars
  <2>2. Phases'
    BY <1>0, <1>5 DEF TypeOK, Phases, ReaderStopsAtLimit, writer_vars, FillSlot
  <2>3. RingShape'
    BY <1>0, <1>5 DEF TypeOK, Phases, RingShape, Idx, ReaderStopsAtLimit, writer_vars, FillSlot
  <2>4. QED
    BY <2>1, <2>2, <2>3
<1>6. CASE ReaderReads
  <2>1. TypeOK'
    <3>1. /\ slots \in [0..(capacity - 1) -> Slot]
          /\ wpc \notin {"init", "done", "fallback", "died"}
      BY <1>6, RingSlots DEF ReaderReads, Phases
    <3>2. PICK n \in 1..Least(ToRead, cfg.source - total_bytes_read) :
            FillSlot(n, FALSE, FALSE) /\ total_bytes_read' = total_bytes_read + n
      BY <1>6 DEF ReaderReads
    <3>3. n \in Nat
      BY <1>0, <3>2 DEF Least, ToRead, ConfigType, TypeOK
    <3>4. [at |-> total_bytes_read, nread |-> n, is_eof |-> FALSE, err |-> FALSE] \in Slot
      BY <3>3 DEF TypeOK, Slot
    <3>5. slots' \in [0..(capacity - 1) -> Slot]
      BY <1>6, <3>1, <3>2, <3>4 DEF ReaderReads, FillSlot
    <3>6. total_bytes_read' \in Nat /\ r_records_done' \in Nat
      BY <1>6, <3>2, <3>3 DEF ReaderReads, TypeOK
    <3>7. QED
      BY <1>6, <3>1, <3>5, <3>6 DEF TypeOK, ReaderReads, writer_vars
  <2>2. Phases'
    BY <1>0, <1>6 DEF TypeOK, Phases, ReaderReads, writer_vars, FillSlot
  <2>3. RingShape'
    BY <1>0, <1>6 DEF TypeOK, Phases, RingShape, Idx, ReaderReads, writer_vars, FillSlot
  <2>4. QED
    BY <2>1, <2>2, <2>3
<1>7. CASE ReaderReadsNothing
  <2>1. TypeOK'
    <3>1. /\ slots \in [0..(capacity - 1) -> Slot]
          /\ wpc \notin {"init", "done", "fallback", "died"}
      BY <1>7, RingSlots DEF ReaderReadsNothing, Phases
    <3>2. \A e, f \in BOOLEAN :
            [at |-> total_bytes_read, nread |-> 0, is_eof |-> e, err |-> f] \in Slot
      BY DEF TypeOK, Slot
    <3>3. slots' \in [0..(capacity - 1) -> Slot]
      BY <1>7, <3>1, <3>2 DEF ReaderReadsNothing, FillSlot
    <3>4. QED
      BY <1>7, <3>1, <3>3 DEF TypeOK, ReaderReadsNothing, writer_vars
  <2>2. Phases'
    BY <1>0, <1>7 DEF TypeOK, Phases, ReaderReadsNothing, writer_vars, FillSlot
  <2>3. RingShape'
    BY <1>0, <1>7 DEF TypeOK, Phases, RingShape, Idx, ReaderReadsNothing, writer_vars, FillSlot
  <2>4. QED
    BY <2>1, <2>2, <2>3
<1>8. CASE ReaderPublishes
  <2>0. tail' = IF tail + 1 < capacity THEN tail + 1 ELSE 0
    BY <1>8, WrapNext DEF TypeOK, ReaderPublishes
  <2>1. TypeOK'
    BY <1>8, <2>0 DEF TypeOK, RingShape, ReaderPublishes, SignalNotEmpty
  <2>2. Phases'
    BY <1>0, <1>8 DEF TypeOK, Phases, ReaderPublishes, SignalNotEmpty
  <2>3. RingShape'
    BY <1>8, <2>0 DEF TypeOK, RingShape, Idx, ReaderPublishes, SignalNotEmpty
  <2>4. QED
    BY <2>1, <2>2, <2>3
<1>9. CASE ReaderExits
  <2>1. TypeOK'
    BY <1>0, <1>9 DEF TypeOK, Phases, RingShape, ReaderExits, pipe_vars, SignalNotEmpty
  <2>2. Phases'
    BY <1>0, <1>9 DEF TypeOK, Phases, ReaderExits, pipe_vars, SignalNotEmpty
  <2>3. RingShape'
    BY <1>0, <1>9 DEF TypeOK, Phases, RingShape, Idx, ReaderExits, pipe_vars, SignalNotEmpty
  <2>4. QED
    BY <2>1, <2>2, <2>3
<1>10. CASE WriterLoops
  <2>1. TypeOK'
    BY <1>0, <1>10 DEF TypeOK, Phases, RingShape, WriterLoops, pipe_vars, reader_vars
  <2>2. Phases'
    BY <1>0, <1>10 DEF TypeOK, Phases, WriterLoops, pipe_vars, reader_vars
  <2>3. RingShape'
    BY <1>0, <1>10 DEF TypeOK, Phases, RingShape, Idx, WriterLoops, pipe_vars, reader_vars
  <2>4. QED
    BY <2>1, <2>2, <2>3
<1>11. CASE WriterAcquires
  <2>1. TypeOK'
    BY <1>0, <1>11 DEF TypeOK, Phases, RingShape, WriterAcquires, pipe_vars, reader_vars
  <2>2. Phases'
    BY <1>0, <1>11 DEF TypeOK, Phases, WriterAcquires, pipe_vars, reader_vars
  <2>3. RingShape'
    BY <1>0, <1>11 DEF TypeOK, Phases, RingShape, Idx, WriterAcquires, pipe_vars, reader_vars
  <2>4. QED
    BY <2>1, <2>2, <2>3
<1>12. CASE WriterWakesSpuriously
  <2>1. TypeOK'
    BY <1>0, <1>12 DEF TypeOK, Phases, RingShape, WriterWakesSpuriously, pipe_vars, reader_vars
  <2>2. Phases'
    BY <1>0, <1>12 DEF TypeOK, Phases, WriterWakesSpuriously, pipe_vars, reader_vars
  <2>3. RingShape'
    BY <1>0, <1>12 DEF TypeOK, Phases, RingShape, Idx, WriterWakesSpuriously, pipe_vars, reader_vars
  <2>4. QED
    BY <2>1, <2>2, <2>3
<1>13. CASE WriterTakesEof
  <2>1. TypeOK'
    BY <1>0, <1>13 DEF TypeOK, Phases, RingShape, WriterTakesEof, pipe_vars, reader_vars
  <2>2. Phases'
    BY <1>0, <1>13 DEF TypeOK, Phases, WriterTakesEof, pipe_vars, reader_vars
  <2>3. RingShape'
    BY <1>0, <1>13 DEF TypeOK, Phases, RingShape, Idx, WriterTakesEof, pipe_vars, reader_vars
  <2>4. QED
    BY <2>1, <2>2, <2>3
<1>14. CASE WriterTakesData
  <2>1. TypeOK'
    <3>1. slots[head].at \in Nat /\ slots[head].nread \in Nat
      BY <1>14, RingSlots DEF WriterTakesData, Slot
    <3>2. hashed' \in Seq(Nat)
      BY <1>14, <3>1, AppendBytes DEF WriterTakesData, TypeOK
    <3>3. QED
      BY <1>14, <3>2 DEF TypeOK, WriterTakesData, pipe_vars, reader_vars
  <2>2. Phases'
    BY <1>0, <1>14 DEF TypeOK, Phases, WriterTakesData, pipe_vars, reader_vars
  <2>3. RingShape'
    BY <1>0, <1>14 DEF TypeOK, Phases, RingShape, Idx, WriterTakesData, pipe_vars, reader_vars
  <2>4. QED
    BY <2>1, <2>2, <2>3
<1>15. CASE WriterWrites
  <2>1. TypeOK'
    <3>1. slots[head].at + nwritten \in Nat /\ slots[head].nread \in Nat
      <4>1. slots[head] \in Slot
        BY <1>15, RingSlots DEF WriterWrites
      <4>2. QED
        BY <4>1 DEF Slot, TypeOK
    <3>2. PICK n \in 1..(slots[head].nread - nwritten) :
            /\ out' = out \o InputBytes(slots[head].at + nwritten, n)
            /\ nwritten' = nwritten + n
      BY <1>15 DEF WriterWrites
    <3>3. n \in Nat /\ nwritten' \in Nat
      BY <3>1, <3>2 DEF TypeOK
    <3>4. out' \in Seq(Nat)
      BY <3>1, <3>2, <3>3, AppendBytes DEF TypeOK
    <3>5. QED
      BY <1>15, <3>3, <3>4 DEF TypeOK, WriterWrites, pipe_vars, reader_vars
  <2>2. Phases'
    BY <1>0, <1>15 DEF TypeOK, Phases, WriterWrites, pipe_vars, reader_vars
  <2>3. RingShape'
    BY <1>0, <1>15 DEF TypeOK, Phases, RingShape, Idx, WriterWrites, pipe_vars, reader_vars
  <2>4. QED
    BY <2>1, <2>2, <2>3
<1>16. CASE WriterFails
  <2>1. TypeOK'
    BY <1>0, <1>16 DEF TypeOK, Phases, RingShape, WriterFails, pipe_vars, reader_vars
  <2>2. Phases'
    BY <1>0, <1>16 DEF TypeOK, Phases, WriterFails, pipe_vars, reader_vars
  <2>3. RingShape'
    BY <1>0, <1>16 DEF TypeOK, Phases, RingShape, Idx, WriterFails, pipe_vars, reader_vars
  <2>4. QED
    BY <2>1, <2>2, <2>3
<1>17. CASE WriterReleases
  <2>0. head' = IF head + 1 < capacity THEN head + 1 ELSE 0
    BY <1>17, WrapNext DEF TypeOK, WriterReleases
  <2>1. TypeOK'
    <3>1. /\ head' \in 0..(capacity - 1) /\ count' \in 0..capacity
          /\ w_bytes' \in Nat /\ nwritten' \in Nat
      <4>1. /\ capacity \in Nat /\ head \in 0..(capacity - 1) /\ count \in 0..capacity
            /\ count > 0 /\ w_bytes \in Nat /\ nwritten \in Nat
        BY <1>17 DEF TypeOK, RingShape, WriterReleases
      <4>2. /\ count' = count - 1 /\ nwritten' = 0 /\ w_bytes' = w_bytes + nwritten
        BY <1>17 DEF WriterReleases
      <4>3. QED
        BY <2>0, <4>1, <4>2
    <3>2. QED
      BY <1>17, <3>1 DEF TypeOK, WriterReleases, SignalNotFull
  <2>2. Phases'
    BY <1>0, <1>17 DEF TypeOK, Phases, WriterReleases, SignalNotFull
  <2>3. RingShape'
    <3>1. /\ capacity \in Nat /\ head \in 0..(capacity - 1) /\ count \in 0..capacity
          /\ count > 0 /\ tail = Idx(count)
      BY <1>17 DEF TypeOK, RingShape, WriterReleases
    <3>2. /\ tail' = tail /\ count' = count - 1 /\ capacity' = capacity
          /\ rpc' \in {"fill", "publish"} => rpc \in {"fill", "publish"}
          /\ wpc' = "loop"
      BY <1>17 DEF WriterReleases, SignalNotFull
    <3>3. tail' = Idx(count)'
      BY <2>0, <3>1, <3>2 DEF Idx
    <3>4. QED
      BY <3>1, <3>2, <3>3 DEF RingShape
  <2>4. QED
    BY <2>1, <2>2, <2>3
<1>18. CASE WriterRequestsStop
  <2>1. TypeOK'
    BY <1>0, <1>18 DEF TypeOK, Phases, RingShape, WriterRequestsStop, pipe_vars, SignalNotFull
  <2>2. Phases'
    BY <1>0, <1>18 DEF TypeOK, Phases, WriterRequestsStop, pipe_vars, SignalNotFull
  <2>3. RingShape'
    BY <1>0, <1>18 DEF TypeOK, Phases, RingShape, Idx, WriterRequestsStop, pipe_vars, SignalNotFull
  <2>4. QED
    BY <2>1, <2>2, <2>3
<1>19. CASE WriterJoins
  <2>1. TypeOK'
    BY <1>0, <1>19 DEF TypeOK, Phases, RingShape, WriterJoins, reader_vars
  <2>2. Phases'
    BY <1>0, <1>19 DEF TypeOK, Phases, WriterJoins, reader_vars
  <2>3. RingShape'
    BY <1>0, <1>19 DEF TypeOK, Phases, RingShape, Idx, WriterJoins, reader_vars
  <2>4. QED
    BY <2>1, <2>2, <2>3
<1>20. CASE UNCHANGED vars
  BY <1>20 DEF TypeOK, Phases, RingShape, Idx, vars, pipe_vars, reader_vars, writer_vars
<1>21. QED
  BY <1>1, <1>2, <1>3, <1>4, <1>5, <1>6, <1>7, <1>8, <1>9, <1>10, <1>11, <1>12, <1>13, <1>14, <1>15, <1>16, <1>17, <1>18, <1>19, <1>20 DEF Next, Reader, Writer, Idle

LEMMA ControlInv == Spec => []Control
BY ControlInit, ControlStep, PTL DEF Spec

(***************************************************************************)
(* Every variable keeps its type: head, tail and count stay within the     *)
(* ring, and there are slots exactly while the two threads may use them.   *)
(***************************************************************************)
THEOREM Typing == Spec => []TypeOK
<1>1. Control => TypeOK
  BY DEF Control
<1>2. QED
  BY <1>1, ControlInv, PTL

(***************************************************************************)
(* async_reader_worker and async_driver_step never work on the same slot   *)
(* outside the lock, for every ring size.                                  *)
(***************************************************************************)
THEOREM Exclusion == Spec => []SlotExclusive
<1>1. Control => SlotExclusive
  BY DEF Control, TypeOK, Phases, RingShape, Idx, SlotExclusive, Stopped
<1>2. QED
  BY <1>1, ControlInv, PTL

------------------------------------------------------------------------------
(* The queue of filled slots                                                 *)

\* The filled slots are slots; the first one is the head.
LEMMA QueueTypes ==
  ASSUME Control, Running \/ rpc \in {"fill", "publish"}
  PROVE  /\ Filled \in 0..capacity
         /\ \A i \in 0..(capacity - 1) : Nth(i) \in Slot
         /\ Nth(0) = slots[head]
BY DEF Control, TypeOK, Phases, RingShape, Running, Filled, Nth, Idx

\* Filling a slot adds it behind the others.
LEMMA FillNth ==
  ASSUME Control, rpc = "fill", rpc' = "publish",
         NEW n, NEW eof, NEW error, FillSlot(n, eof, error),
         UNCHANGED <<capacity, head, tail, count>>
  PROVE  /\ Filled = count /\ Filled' = count + 1 /\ count \in 0..(capacity - 1)
         /\ \A i \in 0..(count - 1) : Nth(i)' = Nth(i)
         /\ Nth(count)' = [at |-> total_bytes_read, nread |-> n, is_eof |-> eof,
                           err |-> error]
<1>1. /\ capacity \in Nat /\ head \in 0..(capacity - 1) /\ count \in 0..(capacity - 1)
      /\ tail \in 0..(capacity - 1) /\ tail = Idx(count)
  BY DEF Control, TypeOK, RingShape
<1>2. slots \in [0..(capacity - 1) -> Slot]
  BY RingSlots DEF Control
<1>3. \A i \in 0..count : Idx(i)' = Idx(i) /\ Idx(i) \in 0..(capacity - 1)
  BY <1>1 DEF Idx
<1>4. \A i \in 0..(count - 1) : Idx(i) # tail
  BY <1>1 DEF Idx
<1>5. QED
  BY <1>1, <1>2, <1>3, <1>4 DEF Nth, FillSlot, Filled

\* A block read behind the others continues the chain.
LEMMA FillChain ==
  ASSUME Control, Chain, rpc = "fill", rpc' = "publish",
         NEW n \in Nat, NEW eof, NEW error, FillSlot(n, eof, error),
         total_bytes_read' = total_bytes_read + n,
         UNCHANGED <<capacity, head, tail, count, wpc, nwritten, w_bytes>>
  PROVE  Chain'
<1> SUFFICES ASSUME Running PROVE Chain'
  BY DEF Chain, Running
<1>1. /\ Filled = count /\ Filled' = count + 1 /\ count \in 0..(capacity - 1)
      /\ \A i \in 0..(count - 1) : Nth(i)' = Nth(i)
      /\ Nth(count)' = [at |-> total_bytes_read, nread |-> n, is_eof |-> eof,
                        err |-> error]
  BY FillNth
<1>2. total_bytes_read \in Nat /\ capacity \in Nat
  BY DEF Control, TypeOK
<1>3. \A i \in 0..count : Start(i)' = Start(i)
  BY <1>1, <1>2 DEF Start
<1>4. Start(count + 1)' = total_bytes_read + n
  BY <1>1, <1>2 DEF Start
<1>5. \A i \in 0..(count - 1) : End(i)' = End(i)
  BY <1>1, <1>2 DEF End
<1>6. End(count)' = total_bytes_read + n
  BY <1>1, <1>2 DEF End
<1>7. \A i \in 0..(count - 1) : End(i) \in Nat
  <2>1. \A i \in 0..(capacity - 1) : Nth(i) \in Slot
    BY QueueTypes
  <2>2. QED
    BY <1>1, <1>2, <2>1 DEF End, Slot
<1>8. \A i \in 0..count : End(i)' = Start(i + 1)' /\ End(i)' <= total_bytes_read'
  BY <1>1, <1>2, <1>3, <1>4, <1>5, <1>6, <1>7 DEF Chain
<1>9. Start(0)' = w_bytes'
  BY <1>1, <1>3 DEF Chain
<1>10. wpc' = "write" => nwritten' <= Nth(0)'.nread
  BY <1>1 DEF Chain, Control, RingShape
<1>11. QED
  BY <1>1, <1>2, <1>8, <1>9, <1>10 DEF Chain

\* Releasing the head moves every other filled slot up by one.
LEMMA ReleaseNth ==
  ASSUME Control, WriterReleases
  PROVE  /\ Filled' = Filled - 1 /\ Filled \in 1..capacity
         /\ \A i \in 0..(Filled - 2) : Nth(i)' = Nth(i + 1)
         /\ slots[head] = Nth(0)
<1>1. /\ capacity \in Nat /\ head \in 0..(capacity - 1) /\ count \in 1..capacity
      /\ rpc = "publish" => count < capacity
  BY DEF Control, TypeOK, RingShape, WriterReleases
<1>2. head' = IF head + 1 < capacity THEN head + 1 ELSE 0
  BY WrapNext DEF Control, TypeOK, WriterReleases
<1>3. /\ capacity' = capacity /\ slots' = slots /\ count' = count - 1
      /\ rpc' = "publish" <=> rpc = "publish"
  BY DEF WriterReleases, SignalNotFull
<1>4. Filled' = Filled - 1 /\ Filled \in 1..capacity
  BY <1>1, <1>3 DEF Filled
<1>5. \A i \in 0..(capacity - 2) : Idx(i)' = Idx(i + 1)
  BY <1>1, <1>2, <1>3 DEF Idx
<1>6. QED
  BY <1>1, <1>3, <1>4, <1>5 DEF Nth, Idx

LEMMA QueueInit == Init => Queue
BY DEF Init, Queue, Chain, EofLast, EofQueued, RecordsAgree, Running

\* A step that leaves the filled slots and the counters alone, and after which
\* the reader has not left a running copy too early.
LEMMA QueueFrame ==
  ASSUME Control, Queue,
         UNCHANGED <<cfg, capacity, head, slots, r_records_done, total_bytes_read,
                     nwritten, records, w_bytes, Filled>>,
         Running' => Running, wpc' = "write" <=> wpc = "write",
         rpc \in {"publish", "exit", "ended"} => rpc' \in {"publish", "exit", "ended"},
         Running' /\ rpc' \in {"exit", "ended"} => LastIsEof
  PROVE  Queue'
<1> SUFFICES ASSUME Running' PROVE Queue'
  BY DEF Queue, Chain, EofLast, EofQueued, RecordsAgree
<1>1. \A i \in Int : Nth(i)' = Nth(i)
  BY DEF Nth, Idx
<1>2. count \in Nat /\ Filled \in Nat
  BY DEF Control, TypeOK, Filled
<1>3. \A i \in Int : Start(i)' = Start(i) /\ End(i)' = End(i)
  BY <1>1 DEF Start, End
<1>4. LastIsEof' = LastIsEof
  BY <1>1, <1>2 DEF LastIsEof
<1>5. Chain'
  BY <1>1, <1>2, <1>3 DEF Queue, Chain
<1>6. EofLast'
  BY <1>1, <1>2 DEF Queue, EofLast, LimitReached
<1>7. EofQueued'
  BY <1>4 DEF EofQueued
<1>8. RecordsAgree'
  BY <1>4 DEF Queue, RecordsAgree, InHand, Sentinels
<1>9. QED
  BY <1>5, <1>6, <1>7, <1>8 DEF Queue

LEMMA QueueStep ==
  ASSUME Control, Control', Queue, [Next]_vars
  PROVE  Queue'
<1>1. CASE ReaderAcquire
  BY <1>1, QueueFrame
  DEF ReaderAcquire, pipe_vars, writer_vars, Control, Phases, Running, Filled
<1>2. CASE ReaderWakesSpuriously
  BY <1>2, QueueFrame DEF ReaderWakesSpuriously, pipe_vars, writer_vars, Running, Filled
<1>3. CASE ReaderPublishes
  <2>1. slots[tail] = Nth(count) /\ Filled = count + 1 /\ count \in Nat
    BY <1>3 DEF ReaderPublishes, Control, TypeOK, RingShape, Nth, Filled
  <2>2. /\ UNCHANGED <<cfg, capacity, head, slots, r_records_done, total_bytes_read,
                       nwritten, records, w_bytes, Filled>>
        /\ Running' = Running /\ (wpc' = "write" <=> wpc = "write")
    BY <1>3, <2>1 DEF ReaderPublishes, SignalNotEmpty, Running, Filled
  <2>3. Running /\ rpc' \in {"exit", "ended"} => LastIsEof
    BY <1>3, <2>1 DEF ReaderPublishes, Control, Phases, Running, LastIsEof
  <2>4. rpc' \in {"exit", "top"} /\ (rpc' = "top" => ~slots[tail].is_eof)
    BY <1>3 DEF ReaderPublishes
  <2>5. CASE rpc' = "exit"
    BY <2>2, <2>3, <2>5, QueueFrame
  <2>6. CASE rpc' = "top"
    <3>1. ~LastIsEof
      BY <2>1, <2>4, <2>6 DEF LastIsEof
    <3>2. \A i \in Int : Nth(i)' = Nth(i)
      BY <2>2 DEF Nth, Idx
    <3>3. \A i \in Int : Start(i)' = Start(i) /\ End(i)' = End(i)
      BY <2>2, <3>2 DEF Start, End
    <3>4. Chain'
      BY <2>1, <2>2, <3>2, <3>3 DEF Queue, Chain
    <3>5. \A i \in 0..(Filled - 1) : Running => ~Nth(i).is_eof
      BY <2>1, <3>1 DEF Queue, EofLast, LastIsEof
    <3>6. EofLast' /\ EofQueued'
      BY <2>1, <2>2, <2>6, <3>2, <3>5 DEF EofLast, EofQueued
    <3>7. LastIsEof' = LastIsEof
      BY <2>1, <2>2, <3>2 DEF LastIsEof
    <3>8. RecordsAgree'
      BY <2>2, <3>7 DEF Queue, RecordsAgree, InHand, Sentinels
    <3>9. QED
      BY <3>4, <3>6, <3>8 DEF Queue
  <2>7. QED
    BY <2>4, <2>5, <2>6
<1>4. CASE ReaderExits
  BY <1>4, QueueFrame
  DEF ReaderExits, SignalNotEmpty, pipe_vars, Running, Filled, Queue, EofQueued
<1>5. CASE ReaderStopsAtLimit
  <2>0. FillSlot(0, TRUE, FALSE) /\ total_bytes_read' = total_bytes_read + 0
    <3>1. total_bytes_read \in Nat
      BY DEF Control, TypeOK
    <3>2. QED
      BY <1>5, <3>1 DEF ReaderStopsAtLimit, FillSlot
  <2>1. /\ Filled = count /\ Filled' = count + 1 /\ count \in 0..(capacity - 1)
        /\ \A i \in 0..(count - 1) : Nth(i)' = Nth(i)
        /\ Nth(count)' = [at |-> total_bytes_read, nread |-> 0, is_eof |-> TRUE, err |-> FALSE]
    BY <1>5, <2>0, FillNth DEF ReaderStopsAtLimit
  <2>2. /\ total_bytes_read \in Nat /\ w_bytes' = w_bytes /\ wpc' = wpc /\ nwritten' = nwritten
        /\ records' = records /\ rpc = "fill" /\ rpc' = "publish" /\ cfg' = cfg
    BY <1>5 DEF Control, TypeOK, ReaderStopsAtLimit, writer_vars
  <2>3. Chain'
    BY <1>5, <2>0, FillChain DEF Queue, ReaderStopsAtLimit, writer_vars
  <2>4. EofLast'
    BY <1>5, <2>0, <2>1, <2>2 DEF Control, RingShape, Queue, EofLast, Running, LimitReached, ReaderStopsAtLimit
  <2>5. EofQueued'
    BY <2>2 DEF EofQueued
  <2>6. RecordsAgree'
    BY <1>5, <2>1, <2>2 DEF Control, TypeOK, Queue, EofLast, RecordsAgree, InHand, Sentinels, LastIsEof, Running, ReaderStopsAtLimit
  <2>7. QED
    BY <2>3, <2>4, <2>5, <2>6 DEF Queue
<1>6. CASE ReaderReads
  <2>0. PICK n \in 1..Least(ToRead, cfg.source - total_bytes_read) :
          FillSlot(n, FALSE, FALSE) /\ total_bytes_read' = total_bytes_read + n
    BY <1>6 DEF ReaderReads
  <2>0a. n \in Nat
    BY <2>0, ConfigsAssumption DEF Least, ToRead, ConfigType, Control, TypeOK
  <2>1. /\ Filled = count /\ Filled' = count + 1 /\ count \in 0..(capacity - 1)
        /\ \A i \in 0..(count - 1) : Nth(i)' = Nth(i)
        /\ Nth(count)' = [at |-> total_bytes_read, nread |-> n, is_eof |-> FALSE, err |-> FALSE]
    BY <1>6, <2>0, <2>0a, FillNth DEF ReaderReads
  <2>2. /\ total_bytes_read \in Nat /\ w_bytes' = w_bytes /\ wpc' = wpc /\ nwritten' = nwritten
        /\ records' = records /\ rpc = "fill" /\ rpc' = "publish" /\ cfg' = cfg
    BY <1>6 DEF Control, TypeOK, ReaderReads, writer_vars
  <2>3. Chain'
    BY <1>6, <2>0, <2>0a, FillChain DEF Queue, ReaderReads, writer_vars
  <2>4. EofLast'
    BY <1>6, <2>0, <2>0a, <2>1, <2>2 DEF Queue, EofLast, Running, LimitReached, ReaderReads
  <2>5. EofQueued'
    BY <2>2 DEF EofQueued
  <2>6. RecordsAgree'
    BY <1>6, <2>1, <2>2 DEF Control, TypeOK, Queue, EofLast, RecordsAgree, InHand, Sentinels, LastIsEof, Running, ReaderReads
  <2>7. QED
    BY <2>3, <2>4, <2>5, <2>6 DEF Queue
<1>7. CASE ReaderReadsNothing
  <2>0. PICK f \in BOOLEAN : 
          /\ FillSlot(0, TRUE, f) /\ total_bytes_read' = total_bytes_read + 0
          /\ ~f => total_bytes_read = cfg.source
    <3>1. total_bytes_read \in Nat
      BY DEF Control, TypeOK
    <3>2. total_bytes_read' = total_bytes_read + 0
      BY <1>7, <3>1 DEF ReaderReadsNothing
    <3>3. CASE total_bytes_read = cfg.source /\ FillSlot(0, TRUE, FALSE)
      <4>1. /\ FillSlot(0, TRUE, FALSE) /\ total_bytes_read' = total_bytes_read + 0
            /\ ~FALSE => total_bytes_read = cfg.source
        BY <3>2, <3>3
      <4>2. QED
        BY <4>1, FALSE \in BOOLEAN
    <3>4. CASE FillSlot(0, TRUE, TRUE)
      <4>1. /\ FillSlot(0, TRUE, TRUE) /\ total_bytes_read' = total_bytes_read + 0
            /\ ~TRUE => total_bytes_read = cfg.source
        BY <3>2, <3>4
      <4>2. QED
        BY <4>1, TRUE \in BOOLEAN
    <3>5. QED
      BY <1>7, <3>3, <3>4 DEF ReaderReadsNothing
  <2>1. /\ Filled = count /\ Filled' = count + 1 /\ count \in 0..(capacity - 1)
        /\ \A i \in 0..(count - 1) : Nth(i)' = Nth(i)
        /\ Nth(count)' = [at |-> total_bytes_read, nread |-> 0, is_eof |-> TRUE, err |-> f]
    BY <1>7, <2>0, FillNth DEF ReaderReadsNothing
  <2>2. /\ total_bytes_read \in Nat /\ w_bytes' = w_bytes /\ wpc' = wpc /\ nwritten' = nwritten
        /\ records' = records /\ rpc = "fill" /\ rpc' = "publish" /\ cfg' = cfg
    BY <1>7 DEF Control, TypeOK, ReaderReadsNothing, writer_vars
  <2>3. Chain'
    BY <1>7, <2>0, FillChain DEF Queue, ReaderReadsNothing, writer_vars
  <2>4. EofLast'
    BY <1>7, <2>0, <2>1, <2>2 DEF Control, RingShape, Queue, EofLast, Running, LimitReached, ReaderReadsNothing
  <2>5. EofQueued'
    BY <2>2 DEF EofQueued
  <2>6. RecordsAgree'
    BY <1>7, <2>1, <2>2 DEF Control, TypeOK, Queue, EofLast, RecordsAgree, InHand, Sentinels, LastIsEof, Running, ReaderReadsNothing
  <2>7. QED
    BY <2>3, <2>4, <2>5, <2>6 DEF Queue
<1>8. CASE WriterReleases
  <2>1. /\ Filled' = Filled - 1 /\ Filled \in 1..capacity
        /\ \A i \in 0..(Filled - 2) : Nth(i)' = Nth(i + 1)
        /\ slots[head] = Nth(0)
    BY <1>8, ReleaseNth
  <2>2. /\ total_bytes_read' = total_bytes_read /\ w_bytes' = w_bytes + Nth(0).nread
        /\ wpc = "write" /\ wpc' = "loop" /\ records' = records /\ cfg' = cfg
        /\ r_records_done' = r_records_done
        /\ \A l \in {"publish", "exit", "ended"} : rpc' = l <=> rpc = l
    BY <1>8, <2>1 DEF WriterReleases, SignalNotFull
  <2>3. /\ \A i \in 0..(Filled - 1) : Start(i)' = Start(i + 1)
        /\ \A i \in 0..(Filled - 2) : End(i)' = End(i + 1)
    <3>1. capacity \in Nat
      BY DEF Control, TypeOK
    <3>2. QED
      BY <2>1, <2>2, <3>1 DEF Start, End
  <2>4. Chain'
    <3>1. capacity \in Nat /\ Running /\ Nth(0).nread \in Nat
      BY <2>1, <2>2, QueueTypes DEF Control, TypeOK, Running, Slot
    <3>2. Start(0)' = w_bytes'
      BY <2>1, <2>2, <2>3, <3>1 DEF Queue, Chain, Start, End
    <3>3. \A i \in 0..(Filled - 2) : End(i)' = Start(i + 1)' /\ End(i)' <= total_bytes_read'
      BY <2>1, <2>2, <2>3, <3>1 DEF Queue, Chain
    <3>4. QED
      BY <2>1, <2>2, <3>1, <3>2, <3>3 DEF Chain
  <2>5. EofLast'
    BY <2>1, <2>2 DEF Queue, EofLast, Running, LimitReached
  <2>6. EofQueued'
    BY <2>1, <2>2 DEF Queue, EofLast, EofQueued, LastIsEof, Running
  <2>7. RecordsAgree'
    BY SMTT(30), <2>1, <2>2 DEF Control, TypeOK, Queue, EofLast, RecordsAgree, InHand, Sentinels, LastIsEof, Running
  <2>8. QED
    BY <2>4, <2>5, <2>6, <2>7 DEF Queue
<1>9. CASE StartReader
  <2>1. CASE wpc' = "loop"
    <3>1. /\ Filled' = 0 /\ total_bytes_read' = 0 /\ w_bytes' = 0 /\ records' = 0
          /\ r_records_done' = 0 /\ rpc' = "top"
      BY <1>9, <2>1 DEF StartReader, Control, Phases, Filled
    <3>2. Chain'
      BY <2>1, <3>1 DEF Chain, Start
    <3>3. QED
      BY <2>1, <3>1, <3>2
      DEF Queue, EofLast, EofQueued, RecordsAgree, LastIsEof, Sentinels, InHand
  <2>2. CASE wpc' = "fallback"
    BY <2>2 DEF Queue, Chain, EofLast, EofQueued, RecordsAgree, Running
  <2>3. QED
    BY <1>9, <2>1, <2>2 DEF StartReader
<1>10. CASE WriterLoops
  BY <1>10, QueueFrame
  DEF WriterLoops, pipe_vars, reader_vars, Running, Filled, Queue, EofQueued
<1>11. CASE WriterAcquires
  BY <1>11, QueueFrame
  DEF WriterAcquires, pipe_vars, reader_vars, Running, Filled, Queue, EofQueued
<1>12. CASE WriterWakesSpuriously
  BY <1>12, QueueFrame
  DEF WriterWakesSpuriously, pipe_vars, reader_vars, Running, Filled, Queue, EofQueued
<1>13. CASE WriterTakesData \/ WriterWrites
  <2>1. /\ Running /\ Running' /\ UNCHANGED <<w_bytes, total_bytes_read, cfg, rpc, r_records_done>>
        /\ wpc' = "write" /\ wpc \in {"take", "write"}
        /\ UNCHANGED Filled /\ \A i \in Int : Nth(i)' = Nth(i)
    BY <1>13
    DEF WriterTakesData, WriterWrites, pipe_vars, reader_vars, Running, Nth, Idx, Filled
  <2>2. \A i \in Int : Start(i)' = Start(i) /\ End(i)' = End(i)
    BY <2>1 DEF Start, End
  <2>3. capacity \in Nat /\ capacity >= 2 /\ nwritten \in Nat /\ count \in Nat /\ count > 0
    BY <2>1 DEF Control, TypeOK, RingShape
  <2>4. /\ Nth(0) \in Slot /\ Filled \in Nat /\ Filled > 0 /\ Nth(0) = slots[head]
        /\ Nth(0).nread \in Nat
    BY <2>1, <2>3, QueueTypes DEF Slot, Filled
  <2>5. nwritten' <= Nth(0).nread /\ ~Nth(0).is_eof
    <3>1. CASE WriterTakesData
      BY <2>4, <3>1 DEF WriterTakesData
    <3>2. CASE WriterWrites
      BY <2>1, <2>3, <2>4, <3>2 DEF WriterWrites, Queue, EofLast
    <3>3. QED
      BY <1>13, <3>1, <3>2
  <2>6. Chain'
    BY <2>1, <2>2, <2>4, <2>5 DEF Queue, Chain
  <2>7. EofLast'
    BY <2>1, <2>4, <2>5 DEF Queue, EofLast, LimitReached
  <2>8. LastIsEof' = LastIsEof
    BY <2>1, <2>4 DEF LastIsEof
  <2>9. EofQueued'
    BY <2>1, <2>8 DEF Queue, EofQueued
  <2>10. RecordsAgree'
    <3>1. records + InHand' = records' + InHand
      <4>1. CASE WriterTakesData
        BY <4>1 DEF WriterTakesData, InHand, Control, TypeOK
      <4>2. CASE WriterWrites
        BY <4>2 DEF WriterWrites, InHand
      <4>3. QED
        BY <1>13, <4>1, <4>2
    <3>2. records + Filled = r_records_done + InHand + Sentinels
      BY <2>1 DEF Queue, RecordsAgree
    <3>3. records \in Nat /\ records' \in Nat /\ r_records_done \in Nat
      BY DEF Control, TypeOK
    <3>4. InHand \in Nat /\ InHand' \in Nat /\ Sentinels \in Nat /\ Sentinels' = Sentinels
      BY <2>8 DEF InHand, Sentinels
    <3>5. records' + Filled = r_records_done + InHand' + Sentinels
      BY <2>4, <3>1, <3>2, <3>3, <3>4
    <3>6. QED
      BY <2>1, <3>4, <3>5 DEF RecordsAgree
  <2>11. QED
    BY <2>6, <2>7, <2>9, <2>10 DEF Queue
<1>14. CASE \/ AllocateFails \/ WriterTakesEof \/ WriterFails
            \/ WriterRequestsStop \/ WriterJoins
  <2>1. ~Running'
    BY <1>14
    DEF AllocateFails, WriterTakesEof, WriterFails, WriterRequestsStop, WriterJoins, Running
  <2>2. QED
    BY <2>1 DEF Queue, Chain, EofLast, EofQueued, RecordsAgree
<1>15. CASE UNCHANGED vars
  BY <1>15, QueueFrame
  DEF vars, pipe_vars, reader_vars, writer_vars, Running, Filled, Queue, EofQueued
<1>16. QED
  BY <1>1, <1>2, <1>3, <1>4, <1>5, <1>6, <1>7, <1>8, <1>9, <1>10, <1>11, <1>12, <1>13,
     <1>14, <1>15
  DEF Next, Reader, Writer, Idle

------------------------------------------------------------------------------
(* What is read, written and hashed                                          *)

LEMMA QuietActions ==
  ASSUME Control,
         \/ AllocateFails \/ StartReader \/ ReaderAcquire \/ ReaderWakesSpuriously
         \/ ReaderStopsAtLimit \/ ReaderReadsNothing \/ ReaderPublishes \/ ReaderExits
         \/ WriterLoops \/ WriterAcquires \/ WriterWakesSpuriously \/ WriterTakesEof
         \/ WriterRequestsStop \/ WriterJoins \/ UNCHANGED vars
  PROVE  UNCHANGED <<cfg, total_bytes_read, w_bytes, nwritten, out, hashed, records>>
BY DEF AllocateFails, StartReader, ReaderAcquire, ReaderWakesSpuriously,
       ReaderStopsAtLimit, ReaderReadsNothing, ReaderPublishes, ReaderExits,
       WriterLoops, WriterAcquires, WriterWakesSpuriously, WriterTakesEof,
       WriterRequestsStop, WriterJoins, vars, reader_vars, writer_vars

LEMMA ReadBoundStep ==
  ASSUME Control, ReadBound, [Next]_vars
  PROVE  ReadBound'
<1>1. cfg \in ConfigType /\ total_bytes_read \in Nat
  BY ConfigsAssumption DEF Control, TypeOK
<1>2. CASE ReaderReads
  <2>1. ~LimitReached /\ cfg' = cfg
    BY <1>2 DEF ReaderReads
  <2>2. PICK n \in 1..Least(ToRead, cfg.source - total_bytes_read) :
          total_bytes_read' = total_bytes_read + n
    BY <1>2 DEF ReaderReads
  <2>3. QED
    BY <1>1, <2>1, <2>2 DEF ReadBound, Least, ToRead, ConfigType
<1>3. CASE UNCHANGED <<cfg, total_bytes_read>>
  BY <1>3 DEF ReadBound
<1>4. CASE WriterTakesData \/ WriterWrites \/ WriterFails \/ WriterReleases
  BY <1>3, <1>4 DEF WriterTakesData, WriterWrites, WriterFails, WriterReleases, reader_vars
<1>5. QED
  BY <1>2, <1>3, <1>4, QuietActions DEF Next, Reader, Writer, Idle

\* The block in hand is the input right behind what is written.
LEMMA BlockInHand ==
  ASSUME Control, Queue, wpc \in {"take", "write"}
  PROVE  /\ slots[head] \in Slot
         /\ slots[head].at = w_bytes
         /\ slots[head].at + slots[head].nread <= total_bytes_read
<1>1. capacity \in Nat /\ capacity >= 2 /\ Filled \in Nat /\ Filled > 0
  BY DEF Control, TypeOK, RingShape, Filled
<1>2. Nth(0) = slots[head] /\ Nth(0) \in Slot
  BY <1>1, QueueTypes DEF Running
<1>3. Start(0) = slots[head].at /\ End(0) = slots[head].at + slots[head].nread
  BY <1>1, <1>2 DEF Start, End
<1>4. QED
  BY <1>1, <1>2, <1>3 DEF Queue, Chain, Running

LEMMA OutputStep ==
  ASSUME Control, Queue, OutputPrefix, [Next]_vars
  PROVE  OutputPrefix'
<1>1. /\ total_bytes_read \in Nat /\ w_bytes \in Nat /\ nwritten \in Nat
      /\ out \in Seq(Nat) /\ cfg \in ConfigType
  BY ConfigsAssumption DEF Control, TypeOK
<1>2. CASE ReaderReads
  <2>1. PICK n \in 1..Least(ToRead, cfg.source - total_bytes_read) :
          total_bytes_read' = total_bytes_read + n
    BY <1>2 DEF ReaderReads
  <2>2. total_bytes_read' \in Nat /\ total_bytes_read' >= total_bytes_read
    BY <1>1, <2>1 DEF Least, ToRead, ConfigType
  <2>3. UNCHANGED <<out, w_bytes, nwritten>>
    BY <1>2 DEF ReaderReads, writer_vars
  <2>4. QED
    BY <1>1, <2>2, <2>3 DEF OutputPrefix, PrefixCopied
<1>3. CASE WriterWrites
  <2>1. /\ slots[head].at = w_bytes /\ slots[head].nread \in Nat
        /\ w_bytes + slots[head].nread <= total_bytes_read
    BY <1>3, BlockInHand DEF WriterWrites, Slot
  <2>2. PICK n \in 1..(slots[head].nread - nwritten) :
          /\ out' = out \o InputBytes(w_bytes + nwritten, n)
          /\ nwritten' = nwritten + n
    BY <1>3, <2>1 DEF WriterWrites
  <2>3. n \in Nat /\ n <= slots[head].nread - nwritten
    BY <1>1, <2>1, <2>2
  <2>4. /\ Len(out') = Len(out) + n
        /\ \A i \in 1..(Len(out) + n) :
             out'[i] = IF i <= Len(out) THEN out[i] ELSE w_bytes + nwritten + (i - Len(out))
    <3>1. w_bytes + nwritten \in Nat
      BY <1>1
    <3>2. QED
      BY ZenonT(40), <1>1, <2>2, <2>3, <3>1, AppendBytes
  <2>5. w_bytes' = w_bytes /\ total_bytes_read' = total_bytes_read
    BY <1>3 DEF WriterWrites, reader_vars
  <2>6. Len(out) = w_bytes + nwritten /\ Len(out) \in Nat
    BY <1>1 DEF OutputPrefix
  <2>7. PrefixCopied'
    <3>1. \A i \in 1..Len(out) : out[i] = i
      BY DEF OutputPrefix, PrefixCopied
    <3>2. \A i \in 1..(Len(out) + n) : out'[i] = i
      BY <1>1, <2>3, <2>4, <2>6, <3>1
    <3>3. QED
      BY <2>4, <3>2 DEF PrefixCopied
  <2>8. Len(out') = w_bytes' + nwritten' /\ Len(out') <= total_bytes_read'
    BY <1>1, <2>1, <2>2, <2>3, <2>4, <2>5, <2>6
  <2>9. QED
    BY <2>7, <2>8 DEF OutputPrefix
<1>4. CASE WriterFails \/ WriterReleases
  BY <1>1, <1>4 DEF OutputPrefix, PrefixCopied, WriterFails, WriterReleases, reader_vars
<1>5. CASE WriterTakesData
  BY <1>1, <1>5 DEF Control, Phases, OutputPrefix, PrefixCopied, WriterTakesData, reader_vars
<1>6. CASE UNCHANGED <<total_bytes_read, w_bytes, nwritten, out>>
  BY <1>6 DEF OutputPrefix, PrefixCopied
<1>7. QED
  BY <1>2, <1>3, <1>4, <1>5, <1>6, QuietActions DEF Next, Reader, Writer, Idle

LEMMA HashStep ==
  ASSUME Control, Control', Queue, HashPrefix, [Next]_vars
  PROVE  HashPrefix'
<1>1. w_bytes \in Nat /\ nwritten \in Nat /\ hashed \in Seq(Nat)
  BY DEF Control, TypeOK
<1>2. CASE WriterTakesData
  <2>1. /\ slots[head].at = w_bytes /\ slots[head].nread \in Nat
    BY <1>2, BlockInHand DEF WriterTakesData, Slot
  <2>2. /\ hashed' = hashed \o InputBytes(w_bytes, slots[head].nread)
        /\ UNCHANGED <<slots, head, w_bytes, exit_status>> /\ wpc = "take" /\ wpc' = "write"
    BY <1>2, <2>1 DEF WriterTakesData, pipe_vars
  <2>3. /\ Len(hashed') = Len(hashed) + slots[head].nread
        /\ \A i \in 1..(Len(hashed) + slots[head].nread) :
             hashed'[i] = IF i <= Len(hashed) THEN hashed[i] ELSE w_bytes + (i - Len(hashed))
    BY <1>1, <2>1, <2>2, AppendBytes
  <2>4. exit_status = "success"
    BY <2>2 DEF Control, TypeOK, Phases
  <2>5. Len(hashed) = w_bytes /\ \A i \in 1..Len(hashed) : hashed[i] = i
    BY <2>2, <2>4 DEF HashPrefix
  <2>6. Len(hashed') = w_bytes + slots[head].nread
        /\ \A i \in 1..(w_bytes + slots[head].nread) : hashed'[i] = i
    BY <1>1, <2>1, <2>3, <2>5
  <2>7. QED
    BY <2>2, <2>6 DEF HashPrefix
<1>3. CASE WriterFails
  BY <1>3 DEF HashPrefix, WriterFails
<1>4. CASE WriterReleases
  BY <1>1, <1>4 DEF HashPrefix, WriterReleases
<1>5. CASE WriterWrites
  BY <1>5 DEF HashPrefix, WriterWrites, pipe_vars
<1>6. CASE ReaderStopsAtLimit \/ ReaderReads \/ ReaderReadsNothing
  <2>1. /\ UNCHANGED <<head, wpc, w_bytes, exit_status, hashed>>
        /\ \E n, eof, error : FillSlot(n, eof, error)
        /\ rpc = "fill"
    BY <1>6 DEF ReaderStopsAtLimit, ReaderReads, ReaderReadsNothing, writer_vars
  <2>2. wpc = "write" => slots'[head'] = slots[head]
    <3>1. wpc = "write" => head # tail
      BY <2>1 DEF Control, TypeOK, RingShape, Idx
    <3>2. slots \in [0..(capacity - 1) -> Slot] /\ head \in 0..(capacity - 1)
      BY <2>1, RingSlots DEF Control, TypeOK
    <3>3. QED
      BY <2>1, <3>1, <3>2 DEF FillSlot
  <2>3. QED
    BY <2>1, <2>2 DEF HashPrefix
<1>7. CASE UNCHANGED <<head, w_bytes, exit_status, hashed>> /\ (wpc' = "write" <=> wpc = "write")
           /\ (wpc = "write" => slots' = slots)
  BY <1>7 DEF HashPrefix
<1>8. CASE \/ AllocateFails \/ StartReader \/ ReaderAcquire \/ ReaderWakesSpuriously
           \/ ReaderPublishes \/ ReaderExits \/ WriterLoops \/ WriterAcquires
           \/ WriterWakesSpuriously \/ WriterRequestsStop \/ WriterJoins \/ UNCHANGED vars
  BY <1>7, <1>8
  DEF AllocateFails, StartReader, ReaderAcquire, ReaderWakesSpuriously, ReaderPublishes,
      ReaderExits, WriterLoops, WriterAcquires, WriterWakesSpuriously, WriterRequestsStop,
      WriterJoins, SignalNotEmpty, vars, pipe_vars, reader_vars, writer_vars
<1>9. CASE WriterTakesEof
  BY <1>9 DEF HashPrefix, WriterTakesEof, pipe_vars
<1>10. QED
  BY <1>2, <1>3, <1>4, <1>5, <1>6, <1>8, <1>9 DEF Next, Reader, Writer, Idle

\* An end-of-file slot without an error at the head: nothing is left to copy.
LEMMA EofComplete ==
  ASSUME Control, Queue, OutputPrefix, wpc = "take", slots[head].is_eof, ~slots[head].err
  PROVE  CopyComplete
<1>1. /\ capacity \in Nat /\ capacity >= 2 /\ Filled \in Nat /\ Filled > 0
      /\ total_bytes_read \in Nat /\ records \in Nat /\ r_records_done \in Nat
  BY DEF Control, TypeOK, RingShape, Filled
<1>2. Nth(0) = slots[head] /\ Nth(0) \in Slot
  BY <1>1, QueueTypes DEF Running
<1>3. /\ Filled = 1 /\ slots[head].nread = 0
      /\ LimitReached \/ total_bytes_read = cfg.source
  BY <1>1, <1>2 DEF Queue, EofLast, Running
<1>4. w_bytes = total_bytes_read
  BY <1>1, <1>2, <1>3, QueueTypes DEF Queue, Chain, Start, End, Running, Slot
<1>5. records = r_records_done
  BY <1>1, <1>2, <1>3 DEF Queue, RecordsAgree, InHand, Sentinels, LastIsEof, Running
<1>6. Len(out) = total_bytes_read
  BY <1>1, <1>4 DEF OutputPrefix, Control, Phases
<1>7. QED
  BY <1>3, <1>5, <1>6 DEF LimitReached, CopyComplete

LEMMA LeftCompleteStep ==
  ASSUME Control, Queue, OutputPrefix, LeftComplete, [Next]_vars
  PROVE  LeftComplete'
<1>1. CASE UNCHANGED <<cfg, out, records, exit_status>> /\
           (wpc' \in {"cleanup", "join", "done"} => wpc \in {"cleanup", "join", "done"})
  BY <1>1 DEF LeftComplete, CopyComplete
<1>2. CASE WriterTakesEof
  <2>1. UNCHANGED <<cfg, out, records>>
    BY <1>2 DEF WriterTakesEof
  <2>2. ~slots[head].err => CopyComplete
    BY <1>2, EofComplete DEF WriterTakesEof
  <2>3. slots[head].err => exit_status' = "failure"
    BY <1>2 DEF WriterTakesEof
  <2>4. QED
    BY <2>1, <2>2, <2>3 DEF LeftComplete, CopyComplete
<1>3. CASE WriterLoops
  <2>1. LoopLimitReached => CopyComplete
    BY <1>3 DEF WriterLoops, LoopLimitReached, CopyComplete, OutputPrefix, Control, TypeOK,
                Phases
  <2>2. UNCHANGED <<cfg, out, records>> /\ (wpc' = "cleanup" => LoopLimitReached)
    BY <1>3 DEF WriterLoops
  <2>3. wpc' \in {"cleanup", "step"}
    BY <1>3 DEF WriterLoops
  <2>4. QED
    BY <2>1, <2>2, <2>3 DEF LeftComplete, CopyComplete
<1>4. CASE WriterAcquires
  <2>1. count = 0 => ~reader_done
    BY <1>4 DEF WriterAcquires, Control, TypeOK, Phases, Queue, EofQueued, LastIsEof, Running,
                Filled
  <2>2. count \in Nat
    BY DEF Control, TypeOK
  <2>3. QED
    BY <1>4, <2>1, <2>2 DEF WriterAcquires, LeftComplete
<1>5. CASE WriterFails
  BY <1>5 DEF WriterFails, LeftComplete
<1>6. CASE WriterTakesData \/ WriterWrites \/ WriterReleases
  BY <1>6 DEF WriterTakesData, WriterWrites, WriterReleases, LeftComplete
<1>7. CASE \/ AllocateFails \/ StartReader \/ ReaderAcquire \/ ReaderWakesSpuriously
           \/ ReaderStopsAtLimit \/ ReaderReads \/ ReaderReadsNothing
           \/ ReaderPublishes \/ ReaderExits \/ WriterWakesSpuriously
           \/ WriterRequestsStop \/ WriterJoins \/ UNCHANGED vars
  BY <1>1, <1>7
  DEF AllocateFails, StartReader, ReaderAcquire, ReaderWakesSpuriously, ReaderStopsAtLimit,
      ReaderReads, ReaderReadsNothing, ReaderPublishes, ReaderExits, WriterWakesSpuriously,
      WriterRequestsStop, WriterJoins, SignalNotEmpty, vars, reader_vars, writer_vars
<1>8. QED
  BY <1>2, <1>3, <1>4, <1>5, <1>6, <1>7 DEF Next, Reader, Writer, Idle

------------------------------------------------------------------------------
(* The theorems                                                              *)

LEMMA Invariance == Spec => []IInv
<1>1. Init => IInv
  <2> SUFFICES ASSUME Init PROVE IInv
    OBVIOUS
  <2>1. cfg \in ConfigType
    BY ConfigsAssumption DEF Init
  <2>2. ReadBound
    BY <2>1 DEF Init, ReadBound, ConfigType
  <2>3. OutputPrefix /\ HashPrefix /\ LeftComplete
    BY DEF Init, OutputPrefix, PrefixCopied, HashPrefix, LeftComplete
  <2>4. QED
    BY <2>2, <2>3, ControlInit, QueueInit DEF IInv
<1>2. IInv /\ [Next]_vars => IInv'
  BY ControlStep, QueueStep, ReadBoundStep, OutputStep, HashStep, LeftCompleteStep DEF IInv
<1>3. QED
  BY <1>1, <1>2, PTL DEF Spec

(***************************************************************************)
(* What dd_iwrite has put on stdout is, at every moment, the beginning of  *)
(* the input: no block is lost, repeated, reordered or overwritten.        *)
(***************************************************************************)
LEMMA CopyInOrder == Spec => []PrefixCopied
<1>1. IInv => PrefixCopied
  BY DEF IInv, OutputPrefix
<1>2. QED
  BY <1>1, Invariance, PTL

(***************************************************************************)
(* -l and -c hold although the reader thread and dd_copy's loop count      *)
(* bytes and records independently.                                        *)
(***************************************************************************)
LEMMA LimitRespected == Spec => []WithinLimit
<1>1. IInv => WithinLimit
  <2> SUFFICES ASSUME IInv PROVE WithinLimit
    OBVIOUS
  <2>1. cfg \in ConfigType /\ total_bytes_read \in Nat /\ out \in Seq(Nat)
    BY ConfigsAssumption DEF IInv, Control, TypeOK
  <2>2. QED
    BY <2>1 DEF IInv, ReadBound, OutputPrefix, WithinLimit, ConfigType
<1>2. QED
  BY <1>1, Invariance, PTL

(***************************************************************************)
(* In every interleaving of async_reader_worker and dd_copy, stdout holds  *)
(* the beginning of the input, and neither thread goes beyond the limit.   *)
(***************************************************************************)
THEOREM OutputIsSound == Spec => []OutputSound
<1>1. PrefixCopied /\ WithinLimit => OutputSound
  BY DEF OutputSound
<1>2. QED
  BY <1>1, CopyInOrder, LimitRespected, PTL

(***************************************************************************)
(* Exit status 0 of dd_copy means that everything asked for was copied.    *)
(***************************************************************************)
LEMMA SuccessMeansComplete == Spec => []SuccessIsComplete
<1>1. IInv => SuccessIsComplete
  BY DEF IInv, LeftComplete, SuccessIsComplete
<1>2. QED
  BY <1>1, Invariance, PTL

(***************************************************************************)
(* The checksum of a successful copy covers exactly the bytes written.     *)
(***************************************************************************)
LEMMA DigestMatches == Spec => []SuccessDigest
<1>1. IInv => SuccessDigest
  <2> SUFFICES ASSUME IInv, wpc = "done", exit_status = "success" PROVE hashed = out
    BY DEF SuccessDigest
  <2>1. out \in Seq(Nat) /\ hashed \in Seq(Nat) /\ w_bytes \in Nat /\ nwritten = 0
    BY DEF IInv, Control, TypeOK, Phases
  <2>2. Len(out) = w_bytes /\ Len(hashed) = w_bytes
    BY <2>1 DEF IInv, OutputPrefix, HashPrefix
  <2>3. \A i \in 1..w_bytes : out[i] = i /\ hashed[i] = i
    BY <2>2 DEF IInv, OutputPrefix, PrefixCopied, HashPrefix
  <2>4. QED
    BY <2>1, <2>2, <2>3
<1>2. QED
  BY <1>1, Invariance, PTL

(***************************************************************************)
(* Exit status 0 of dd_copy means that everything asked for is on stdout   *)
(* and that the checksum is of exactly that.                               *)
(***************************************************************************)
THEOREM SuccessMeansTrue == Spec => []SuccessIsTrue
<1>1. SuccessIsComplete /\ SuccessDigest => SuccessIsTrue
  BY DEF SuccessIsTrue
<1>2. QED
  BY <1>1, SuccessMeansComplete, DigestMatches, PTL

\* How much a write adds to the output.
LEMMA ConcatLength ==
  ASSUME NEW s \in Seq(Nat), NEW t \in Seq(Nat)
  PROVE  Len(s \o t) = Len(s) + Len(t)
OBVIOUS

(***************************************************************************)
(* The ring, its lock and its two threads implement the plain stream copy: *)
(* taking a slot and every write(2) are the abstract steps, pthread_join   *)
(* reports the outcome, everything else changes nothing.                   *)
(***************************************************************************)
THEOREM Refinement == Spec => ImplementsStreamCopy
<1>1. Init => Copy!Init
  <2> SUFFICES ASSUME Init PROVE Copy!Init
    OBVIOUS
  <2>1. cfg \in ConfigType
    BY ConfigsAssumption DEF Init
  <2>2. QED
    BY <2>1 DEF Init, Copy!Init, Copy!Requests, ConfigType, CopyStatus
<1>2. IInv /\ IInv' /\ [Next]_vars => [Copy!Next]_(Copy!vars)
  <2> SUFFICES ASSUME IInv, IInv', [Next]_vars PROVE [Copy!Next]_(Copy!vars)
    OBVIOUS
  <2>1. CASE UNCHANGED <<cfg, out, records>> /\ CopyStatus' = CopyStatus
    BY <2>1 DEF Copy!vars
  <2>2. CASE WriterTakesData
    BY <2>2 DEF WriterTakesData, Copy!Next, Copy!TakeBlock, CopyStatus
  <2>3. CASE WriterWrites
    <3>1. /\ slots[head].at = w_bytes /\ slots[head].nread \in Nat
          /\ w_bytes + slots[head].nread <= total_bytes_read
          /\ w_bytes \in Nat /\ nwritten \in Nat /\ total_bytes_read \in Nat
          /\ out \in Seq(Nat) /\ cfg \in ConfigType
      BY <2>3, BlockInHand, ConfigsAssumption DEF WriterWrites, Slot, IInv, Control, TypeOK
    <3>2. PICK n \in 1..(slots[head].nread - nwritten) :
            out' = out \o InputBytes(w_bytes + nwritten, n)
      BY <2>3, <3>1 DEF WriterWrites
    <3>3. Len(out) = w_bytes + nwritten
      BY DEF IInv, OutputPrefix
    <3>4. /\ n \in 1..(cfg.source - Len(out))
          /\ cfg.bytes_to_copy >= 0 => Len(out) + n <= cfg.bytes_to_copy
      <4>1. /\ cfg.source \in Nat /\ cfg.bytes_to_copy \in Int
            /\ total_bytes_read <= cfg.source
            /\ cfg.bytes_to_copy >= 0 => total_bytes_read <= cfg.bytes_to_copy
        BY <3>1 DEF IInv, ReadBound, ConfigType
      <4>2. n \in Nat /\ n > 0 /\ nwritten + n <= slots[head].nread
        BY <3>1, <3>2
      <4>3. QED
        BY SMTT(30), <3>1, <3>3, <4>1, <4>2
    <3>5. /\ out' = Copy!Deliver(out, Len(out), n)
          /\ Len(out') = Len(out) + n
      <4> DEFINE new == [i \in 1..n |-> Len(out) + i]
      <4>1. out' = out \o new
        BY <3>2, <3>3 DEF InputBytes
      <4>2. new \in Seq(Nat) /\ Len(new) = n
        BY <3>1, <3>2, <3>3
      <4>3. Copy!Deliver(out, Len(out), n) = out \o new
        BY DEF Copy!Deliver
      <4> HIDE DEF new
      <4>4. Len(out \o new) = Len(out) + Len(new)
        <5>1. out \in Seq(Nat) /\ new \in Seq(Nat)
          BY <3>1, <4>2
        <5>2. QED
          BY <5>1, ConcatLength
      <4>5. QED
        BY <4>1, <4>2, <4>3, <4>4
    <3>6. UNCHANGED <<cfg, records>> /\ wpc = "write" /\ wpc' = "write"
      BY <2>3 DEF WriterWrites
    <3>7. Copy!Transfer
      BY <3>4, <3>5, <3>6 DEF Copy!Transfer, CopyStatus
    <3>8. QED
      BY <3>7 DEF Copy!Next
  <2>4. CASE WriterJoins
    <3>1. /\ UNCHANGED <<cfg, out, records, exit_status>> /\ wpc = "join" /\ wpc' = "done"
      BY <2>4 DEF WriterJoins
    <3>2. CASE exit_status = "success"
      <4>1. CopyComplete
        BY <3>1, <3>2 DEF IInv, LeftComplete
      <4>2. Copy!Succeed
        BY <3>1, <3>2, <4>1 DEF Copy!Succeed, Copy!IsAll, CopyComplete, CopyStatus
      <4>3. QED
        BY <4>2 DEF Copy!Next
    <3>3. CASE exit_status # "success"
      BY <3>1, <3>3 DEF Copy!Next, Copy!Abandon, CopyStatus
    <3>4. QED
      BY <3>2, <3>3
  <2>5. CASE \/ AllocateFails \/ StartReader \/ ReaderAcquire \/ ReaderWakesSpuriously
             \/ ReaderStopsAtLimit \/ ReaderReads \/ ReaderReadsNothing
             \/ ReaderPublishes \/ ReaderExits \/ WriterLoops \/ WriterAcquires
             \/ WriterWakesSpuriously \/ WriterTakesEof \/ WriterFails
             \/ WriterReleases \/ WriterRequestsStop \/ UNCHANGED vars
    BY <2>1, <2>5
    DEF AllocateFails, StartReader, ReaderAcquire, ReaderWakesSpuriously, ReaderStopsAtLimit,
        ReaderReads, ReaderReadsNothing, ReaderPublishes, ReaderExits, WriterLoops,
        WriterAcquires, WriterWakesSpuriously, WriterTakesEof, WriterFails, WriterReleases,
        WriterRequestsStop, SignalNotEmpty, CopyStatus, vars, reader_vars, writer_vars
  <2>6. QED
    BY <2>2, <2>3, <2>4, <2>5 DEF Next, Reader, Writer, Idle
<1>3. QED
  BY <1>1, <1>2, Invariance, PTL DEF Spec, ImplementsStreamCopy, Copy!Spec

==============================================================================
