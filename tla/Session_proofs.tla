---------------------------- MODULE Session_proofs ----------------------------
(***************************************************************************)
(* Proofs about Session: the C program from start to exit status around    *)
(* the single io_uring ring, for every set of command lines, any number of *)
(* slots, signals, and operations interrupted or cut short.  The first     *)
(* part is about the ring: its invariant, and that the kernel and the      *)
(* driver keep it.                                                         *)
(***************************************************************************)
EXTENDS Session, SequenceTheorems, FiniteSetTheorems, TLAPS

------------------------------------------------------------------------------
(* The invariant                                                             *)

DriverPlaces == {"step", "harvest", "submit", "sync_step"}

RingTyped ==
  /\ cfg \in Configs /\ exit_status \in {"success", "failure"}
  /\ buf \in [Slots -> Seq(Nat)] /\ length \in [Slots -> 0..cfg.blocksize]
  /\ read_slot \in Slots /\ write_slot \in Slots
  /\ read_in_flight \in BOOLEAN /\ write_in_flight \in BOOLEAN
  /\ read_eof \in BOOLEAN /\ pipeline_primed \in BOOLEAN /\ write_lost \in BOOLEAN
  /\ in_file_pos \in Nat /\ out_file_pos \in Nat /\ in_off \in Nat /\ out_off \in Nat
  /\ w_bytes \in Nat /\ out \in Seq(Nat) /\ hashed \in Seq(Nat)
  /\ disturbances \in Nat

\* A slot's length is never more than what is in it.
Filled == \A s \in Slots : length[s] <= Len(buf[s])

\* What was submitted and not executed yet.
Submitted ==
  /\ \A op \in sq :
       \/ /\ op.tag = "read" /\ read_in_flight
          /\ op.slot = read_slot /\ op.size \in 1..cfg.blocksize
          /\ op.pos = (IF InSeekable THEN in_file_pos ELSE -1)
       \/ /\ op.tag = "write" /\ write_in_flight
          /\ op.slot = write_slot /\ op.size \in Nat /\ op.size <= Len(buf[write_slot])
          /\ op.pos = (IF OutSeekable THEN out_file_pos ELSE -1)
          /\ bytes_to_copy >= 0 => w_bytes + op.size <= bytes_to_copy
  /\ \A a, b \in sq : a.tag = b.tag => a = b

\* What was executed and not looked at yet.
Posted ==
  /\ cq \in Seq([tag : {"read", "write"}, res : Int])
  /\ \A i \in 1..Len(cq) :
       /\ cq[i].res \in Nat \cup {Interrupted, Failed}
       /\ cq[i].tag = "read" => /\ read_in_flight
                                /\ cq[i].res <= Len(buf[read_slot]) /\ cq[i].res <= cfg.blocksize
       /\ cq[i].tag = "write" => write_in_flight
  /\ \A i, k \in 1..Len(cq) : cq[i].tag = cq[k].tag => i = k
  /\ \A op \in sq, i \in 1..Len(cq) : op.tag # cq[i].tag

One(flag) == IF flag THEN 1 ELSE 0

\* Every operation is accounted for by a flag of the driver.
InQueues ==
  /\ IsFiniteSet(sq)
  /\ Cardinality(sq) + Len(cq) <= One(read_in_flight) + One(write_in_flight)
  /\ read_in_flight /\ write_in_flight => read_slot # write_slot
  /\ read_in_flight => ~read_eof

\* What the program counts is what the output holds, but for the write whose
\* completion it has not seen.
Counts ==
  /\ (\A i \in 1..Len(cq) : cq[i].tag # "write") => Len(out) = w_bytes
  /\ \A i \in 1..Len(cq) :
       cq[i].tag = "write" =>
         Len(out) = w_bytes + (IF cq[i].res > 0 THEN cq[i].res ELSE 0)
  /\ bytes_to_copy >= 0 => Len(out) <= bytes_to_copy
  /\ pipeline_primed /\ OutSeekable => out_file_pos = w_bytes
  /\ ~OutSeekable => out_off = Len(out)
  /\ write_in_flight /\ bytes_to_copy >= 0 => w_bytes < bytes_to_copy

\* The ring is not in use: not yet, or because the synchronous driver works.
NotPrimed ==
  ~pipeline_primed =>
    /\ sq = {} /\ cq = << >> /\ ~read_in_flight /\ ~write_in_flight /\ ~read_eof
    /\ in_file_pos = 0 /\ out_file_pos = 0 /\ disturbances = 0
    /\ in_off <= cfg.source /\ out_off = w_bytes
    /\ exit_status = "success" => in_off = w_bytes /\ Len(hashed) = w_bytes

Places ==
  /\ pc \in {"harvest", "submit"} => pipeline_primed
  /\ pc = "submit" => ~InFlight
  /\ pc = "sync_step" => ~pipeline_primed
  /\ pc = "step" /\ ~pipeline_primed => w_bytes = 0
  /\ pc \in DriverPlaces => exit_status = "success"
  /\ pc = "flush" /\ write_in_flight => exit_status = "failure"
  /\ write_lost => exit_status = "failure"

\* Where the next byte comes from.
ReadAt == IF InSeekable THEN in_file_pos ELSE in_off

HoldsFrom(slot, position, n) ==
  n <= Len(buf[slot]) /\ \A i \in 1..n : buf[slot][i] = position + i

Within(n) == n <= cfg.source /\ (bytes_to_copy >= 0 => n <= bytes_to_copy)

\* The block that was read, n bytes behind those that were hashed.
Block(n) ==
  /\ HoldsFrom(read_slot, Len(hashed), n) /\ Within(Len(hashed) + n)
  /\ n = 0 => Len(hashed) = cfg.source

Reading ==
  /\ \A op \in sq :
       op.tag = "read" =>
         ReadAt = Len(hashed) /\ (bytes_to_copy >= 0 => Len(hashed) + op.size <= bytes_to_copy)
  /\ \A i \in 1..Len(cq) :
       cq[i].tag = "read" =>
         /\ cq[i].res # Interrupted
         /\ cq[i].res >= 0 => /\ Block(cq[i].res)
                              /\ ReadAt = Len(hashed) + (IF InSeekable THEN 0 ELSE cq[i].res)
  /\ pipeline_primed /\ ~read_in_flight /\ exit_status = "success" =>
       IF read_eof /\ length[read_slot] > 0
       THEN bytes_to_copy >= 0 /\ Len(hashed) = bytes_to_copy
       ELSE /\ Block(length[read_slot])
            /\ ReadAt = Len(hashed) + length[read_slot]
            /\ read_eof <=> length[read_slot] = 0

Writing ==
  /\ \A op \in sq :
       op.tag = "write" =>
         HoldsFrom(write_slot, w_bytes, op.size) /\ Len(hashed) = w_bytes + op.size
  /\ \A i \in 1..Len(cq) :
       cq[i].tag = "write" =>
         cq[i].res # Interrupted /\ (cq[i].res >= 0 => Len(hashed) = w_bytes + cq[i].res)
  /\ ~write_in_flight /\ exit_status = "success" => Len(hashed) = w_bytes

\* As long as nothing was interrupted or cut short.
InOrder ==
  disturbances = 0 =>
    /\ \A i \in 1..Len(out) : out[i] = i
    /\ \A i \in 1..Len(hashed) : hashed[i] = i
    /\ Within(Len(hashed))
    /\ Reading /\ Writing

\* Everything was written, and counted and hashed.
Everything ==
  LET wanted == IF bytes_to_copy >= 0 THEN Least(bytes_to_copy, cfg.source) ELSE cfg.source
  IN  Len(out) = wanted /\ Len(hashed) = wanted /\ w_bytes = wanted

Ends == pc = "flush" /\ exit_status = "success" /\ disturbances = 0 => Everything

RingInv ==
  /\ RingTyped /\ Filled /\ Submitted /\ Posted /\ InQueues
  /\ Counts /\ NotPrimed /\ Places /\ InOrder /\ Ends

------------------------------------------------------------------------------
(* Command lines, numbers and sequences                                      *)

LEMMA CfgFacts ==
  ASSUME RingTyped
  PROVE  /\ cfg.blocksize \in Nat /\ cfg.blocksize >= 1
         /\ cfg.source \in Nat /\ cfg.bad \in Nat /\ cfg.bad <= cfg.source
         /\ bytes_to_copy \in Nat \cup {-1}
BY RingConfigsAssumption DEF RingTyped, bytes_to_copy

LEMMA NextSlotFacts ==
  ASSUME NEW slot \in Slots
  PROVE  NextSlot(slot) \in Slots /\ NextSlot(slot) # slot
<1>1. URING_NUM_BUFFERS \in Nat /\ URING_NUM_BUFFERS >= 2 /\ slot \in Nat
      /\ slot < URING_NUM_BUFFERS
  BY RingAssumption DEF Slots
<1>2. \A n, k \in Nat : n >= 2 /\ k < n => (k + 1) % n = IF k + 1 < n THEN k + 1 ELSE 0
  OBVIOUS
<1>3. QED
  BY <1>1, <1>2 DEF NextSlot, Slots

\* A read size never exceeds a block or what the limit leaves.
LEMMA NextReadFacts ==
  ASSUME RingTyped, NEW planned \in Nat
  PROVE  /\ NextReadSize(planned) \in 0..cfg.blocksize
         /\ bytes_to_copy >= 0 /\ NextReadSize(planned) > 0 =>
              planned + NextReadSize(planned) <= bytes_to_copy
         /\ NextReadSize(planned) = 0 <=> (bytes_to_copy >= 0 /\ planned >= bytes_to_copy)
BY CfgFacts DEF NextReadSize, Least

\* What a read can bring.
LEMMA ReadFacts ==
  ASSUME RingTyped, NEW from \in Nat, NEW size \in Nat, size >= 1,
         NEW n \in ReadResults(from, size)
  PROVE  /\ n \in Nat \cup {Failed} /\ n <= size
         /\ n > 0 => from + n <= cfg.source
         /\ n = 0 => from >= cfg.source
<1>1. /\ cfg.source \in Nat /\ cfg.bad \in Nat /\ cfg.bad <= cfg.source
  BY CfgFacts
<1> DEFINE most == Least(size, Readable(from))
<1>2. /\ most \in Nat /\ most <= size /\ (most > 0 => from + most <= cfg.source)
      /\ most = 0 => cfg.bad = from + 1 \/ from >= cfg.source
  BY <1>1 DEF Least, Readable
<1>3. n \in (IF most = 0 THEN {IF cfg.bad = from + 1 THEN Failed ELSE 0}
             ELSE IF cfg.input = "pipe" THEN 1..most ELSE {most})
  BY DEF ReadResults
<1> HIDE DEF most
<1>4. CASE most = 0
  BY <1>2, <1>3, <1>4 DEF Failed
<1>5. CASE most # 0
  BY <1>1, <1>2, <1>3, <1>5
<1>6. QED
  BY <1>4, <1>5

LEMMA InputFacts ==
  ASSUME NEW position \in Nat, NEW n \in Nat
  PROVE  /\ InputBytes(position, n) \in Seq(Nat) /\ Len(InputBytes(position, n)) = n
         /\ \A i \in 1..n : InputBytes(position, n)[i] = position + i
BY DEF InputBytes

LEMMA ConcatFacts ==
  ASSUME NEW S, NEW s \in Seq(S), NEW t \in Seq(S)
  PROVE  /\ s \o t \in Seq(S) /\ Len(s \o t) = Len(s) + Len(t)
         /\ Len(s) \in Nat /\ Len(t) \in Nat
         /\ \A i \in 1..Len(s) : (s \o t)[i] = s[i]
         /\ \A i \in 1..Len(t) : (s \o t)[Len(s) + i] = t[i]
OBVIOUS

LEMMA PartFacts ==
  ASSUME NEW S, NEW s \in Seq(S), NEW m \in Nat, NEW n \in Nat, n <= Len(s)
  PROVE  /\ SubSeq(s, m + 1, n) \in Seq(S)
         /\ Len(SubSeq(s, m + 1, n)) = IF m <= n THEN n - m ELSE 0
         /\ \A i \in 1..n - m : SubSeq(s, m + 1, n)[i] = s[m + i]
<1>1. CASE m < n
  BY <1>1
<1>2. CASE m >= n
  <2>1. SubSeq(s, m + 1, n) = << >>
    BY <1>2
  <2>2. QED
    BY <1>2, <2>1, EmptySeq
<1>3. QED
  BY <1>1, <1>2

\* A slot after a read into it: nothing of what it held gets shorter.
LEMMA FilledFacts ==
  ASSUME NEW old \in Seq(Nat), NEW position \in Nat, NEW n \in Nat
  PROVE  LET new == InputBytes(position, n) \o SubSeq(old, n + 1, Len(old))
         IN  /\ new \in Seq(Nat) /\ Len(new) >= Len(old) /\ Len(new) >= n
             /\ \A i \in 1..n : new[i] = position + i
<1> DEFINE bytes == InputBytes(position, n)
           rest  == SubSeq(old, n + 1, Len(old))
<1>1. bytes \in Seq(Nat) /\ Len(bytes) = n /\ \A i \in 1..n : bytes[i] = position + i
  BY InputFacts
<1>2. Len(old) \in Nat
  OBVIOUS
<1>3. rest \in Seq(Nat) /\ Len(rest) = IF n <= Len(old) THEN Len(old) - n ELSE 0
  BY <1>2, PartFacts
<1> HIDE DEF bytes, rest
<1>4. bytes \o rest \in Seq(Nat) /\ Len(bytes \o rest) = Len(bytes) + Len(rest)
      /\ \A i \in 1..Len(bytes) : (bytes \o rest)[i] = bytes[i]
  BY <1>1, <1>3, ConcatFacts
<1>5. QED
  BY <1>1, <1>2, <1>3, <1>4 DEF bytes, rest

\* Both drivers only ever write at the end of the output.
LEMMA WrittenFacts ==
  ASSUME out \in Seq(Nat), NEW bytes \in Seq(Nat)
  PROVE  /\ WrittenAt(Len(out), bytes) \in Seq(Nat)
         /\ Len(WrittenAt(Len(out), bytes)) = Len(out) + Len(bytes)
         /\ \A i \in 1..Len(out) : WrittenAt(Len(out), bytes)[i] = out[i]
         /\ \A i \in 1..Len(bytes) : WrittenAt(Len(out), bytes)[Len(out) + i] = bytes[i]
<1> DEFINE l == Len(out)
           e == l + Len(bytes)
           w == [i \in 1..e |-> IF i > l /\ i <= e THEN bytes[i - l] ELSE out[i]]
<1>1. l \in Nat /\ Len(bytes) \in Nat /\ e \in Nat
  OBVIOUS
<1>2. WrittenAt(l, bytes) = w
  <2>1. (IF e > l THEN e ELSE l) = e
    BY <1>1
  <2>2. \A i \in 1..e : (i > l /\ i <= e) \/ i <= l
    BY <1>1
  <2>3. QED
    BY <2>1, <2>2 DEF WrittenAt
<1>3. w \in Seq(Nat) /\ Len(w) = e
  <2>1. \A i \in 1..e : w[i] \in Nat
    <3> SUFFICES ASSUME NEW i \in 1..e PROVE w[i] \in Nat
      OBVIOUS
    <3>1. CASE i > l
      <4>1. i - l \in 1..Len(bytes)
        BY <1>1, <3>1
      <4>2. QED
        BY <3>1, <4>1
    <3>2. CASE i <= l
      <4>1. i \in 1..Len(out)
        BY <1>1, <3>2
      <4>2. QED
        BY <1>1, <3>2, <4>1
    <3>3. QED
      BY <1>1, <3>1, <3>2
  <2>2. QED
    BY <1>1, <2>1
<1>4. \A i \in 1..l : w[i] = out[i]
  BY <1>1
<1>5. \A i \in 1..Len(bytes) : w[l + i] = bytes[i]
  <2> SUFFICES ASSUME NEW i \in 1..Len(bytes) PROVE w[l + i] = bytes[i]
    OBVIOUS
  <2>1. l + i \in 1..e /\ l + i > l /\ l + i <= e /\ (l + i) - l = i
    BY <1>1
  <2>2. QED
    BY <2>1
<1>6. QED
  BY <1>2, <1>3, <1>4, <1>5


------------------------------------------------------------------------------
(* The kernel                                                                *)

LEMMA OpFacts ==
  ASSUME RingTyped, Submitted, NEW op \in sq
  PROVE  /\ op.tag \in {"read", "write"} /\ op.slot \in Slots /\ op.size \in Nat
         /\ op.tag = "read" => read_in_flight /\ op.slot = read_slot
         /\ op.tag = "write" => write_in_flight /\ op.slot = write_slot
BY CfgFacts DEF RingTyped, Submitted

\* The queues after an operation was executed.
LEMMA Executed ==
  ASSUME RingTyped, Submitted, Posted, InQueues, NEW op \in sq,
         NEW res \in Nat \cup {Interrupted, Failed}, Complete(op, res)
  PROVE  /\ cq' \in Seq([tag : {"read", "write"}, res : Int]) /\ Len(cq') = Len(cq) + 1
         /\ Len(cq) \in Nat
         /\ \A i \in 1..Len(cq') : cq'[i] = (IF i <= Len(cq) THEN cq[i] ELSE [tag |-> op.tag, res |-> res])
         /\ sq' \subseteq sq /\ \A a \in sq' : a.tag # op.tag
         /\ IsFiniteSet(sq') /\ Cardinality(sq') + Len(cq') = Cardinality(sq) + Len(cq)
         /\ \A i \in 1..Len(cq) : cq[i].tag # op.tag
<1> DEFINE e == [tag |-> op.tag, res |-> res]
           R == [tag : {"read", "write"}, res : Int]
<1>1. e \in R
  BY OpFacts DEF Interrupted, Failed
<1>2. cq \in Seq(R) /\ cq' = Append(cq, e) /\ sq' = sq \ {op}
  BY DEF Posted, Complete
<1> HIDE DEF e, R
<1>3. /\ cq' \in Seq(R) /\ Len(cq') = Len(cq) + 1 /\ Len(cq) \in Nat
      /\ \A i \in 1..Len(cq') : cq'[i] = (IF i <= Len(cq) THEN cq[i] ELSE e)
  BY <1>1, <1>2
<1>4. sq' \subseteq sq /\ \A a \in sq' : a.tag # op.tag
  BY <1>2 DEF Submitted
<1>5. IsFiniteSet(sq') /\ Cardinality(sq') = Cardinality(sq) - 1 /\ Cardinality(sq) \in Nat
  BY <1>2, FS_RemoveElement, FS_CardinalityType DEF InQueues
<1>6. \A i \in 1..Len(cq) : cq[i].tag # op.tag
  BY DEF Posted
<1>7. Cardinality(sq') + Len(cq') = Cardinality(sq) + Len(cq)
  BY <1>3, <1>5
<1>8. QED
  BY <1>3, <1>4, <1>5, <1>6, <1>7 DEF e, R

\* What is the same for whatever the kernel does.
LEMMA KernelQueues ==
  ASSUME RingInv, NEW op \in sq, NEW res \in Nat \cup {Interrupted, Failed},
         Complete(op, res), KernelUntouched, buf' \in [Slots -> Seq(Nat)],
         \A s \in Slots : Len(buf'[s]) >= Len(buf[s]),
         op.tag = "read" => res <= Len(buf'[read_slot]) /\ res <= cfg.blocksize
  PROVE  Filled' /\ Submitted' /\ Posted' /\ InQueues' /\ NotPrimed' /\ Places'
<1> USE DEF KernelUntouched, flight_vars, file_pos, result_vars
<1>1. RingTyped /\ Submitted /\ Posted /\ InQueues /\ Filled /\ NotPrimed /\ Places
  BY DEF RingInv
<1>2. /\ cq' \in Seq([tag : {"read", "write"}, res : Int]) /\ Len(cq') = Len(cq) + 1
      /\ Len(cq) \in Nat
      /\ \A i \in 1..Len(cq') : cq'[i] = (IF i <= Len(cq) THEN cq[i] ELSE [tag |-> op.tag, res |-> res])
      /\ sq' \subseteq sq /\ \A a \in sq' : a.tag # op.tag
      /\ IsFiniteSet(sq') /\ Cardinality(sq') + Len(cq') = Cardinality(sq) + Len(cq)
      /\ \A i \in 1..Len(cq) : cq[i].tag # op.tag
  BY <1>1, Executed
<1>3. /\ op.tag = "read" => read_in_flight
      /\ op.tag = "write" => write_in_flight
      /\ op.tag \in {"read", "write"}
  BY <1>1, OpFacts
<1>4. read_slot \in Slots /\ write_slot \in Slots /\ buf \in [Slots -> Seq(Nat)]
      /\ length \in [Slots -> 0..cfg.blocksize] /\ cfg.blocksize \in Nat
  BY <1>1, CfgFacts DEF RingTyped
<1>5. \A s \in Slots : Len(buf'[s]) \in Nat /\ Len(buf[s]) \in Nat /\ length[s] \in Nat
  BY <1>4
<1>6. Filled'
  BY <1>1, <1>5 DEF Filled, Slots
<1>7. Submitted'
  <2>1. Len(buf'[write_slot]) >= Len(buf[write_slot]) /\ Len(buf'[write_slot]) \in Nat
        /\ Len(buf[write_slot]) \in Nat
    BY <1>4, <1>5
  <2>2. \A n \in Nat : n <= Len(buf[write_slot]) => n <= Len(buf'[write_slot])
    BY <2>1
  <2>3. QED
    BY <1>1, <1>2, <2>2 DEF Submitted, InSeekable, OutSeekable, bytes_to_copy
<1>8. Posted'
  <2>1. \A i \in 1..Len(cq') : i <= Len(cq) => i \in 1..Len(cq)
    BY <1>2
  <2>2. Len(buf'[read_slot]) >= Len(buf[read_slot]) /\ Len(buf'[read_slot]) \in Nat
        /\ Len(buf[read_slot]) \in Nat
    BY <1>4, <1>5
  <2>3. \A i \in 1..Len(cq') :
          /\ cq'[i].res \in Nat \cup {Interrupted, Failed}
          /\ cq'[i].tag = "read" => /\ read_in_flight
                                   /\ cq'[i].res <= Len(buf'[read_slot]) /\ cq'[i].res <= cfg.blocksize
          /\ cq'[i].tag = "write" => write_in_flight
    <3> SUFFICES ASSUME NEW i \in 1..Len(cq')
                 PROVE  /\ cq'[i].res \in Nat \cup {Interrupted, Failed}
                        /\ cq'[i].tag = "read" =>
                             /\ read_in_flight
                             /\ cq'[i].res <= Len(buf'[read_slot]) /\ cq'[i].res <= cfg.blocksize
                        /\ cq'[i].tag = "write" => write_in_flight
      OBVIOUS
    <3>1. CASE i <= Len(cq)
      <4>1. cq'[i] = cq[i] /\ i \in 1..Len(cq)
        BY <1>2, <2>1, <3>1
      <4>2. cq[i].res \in Int
        BY <1>1, <4>1 DEF Posted, Interrupted, Failed
      <4>3. \A n \in Int : n <= Len(buf[read_slot]) => n <= Len(buf'[read_slot])
        BY <2>2
      <4>4. QED
        BY <1>1, <4>1, <4>2, <4>3 DEF Posted
    <3>2. CASE ~(i <= Len(cq))
      <4>1. cq'[i].tag = op.tag /\ cq'[i].res = res
        BY <1>2, <3>2
      <4>2. QED
        BY <1>3, <4>1
    <3>3. QED
      BY <3>1, <3>2
  <2>4. \A i, k \in 1..Len(cq') : cq'[i].tag = cq'[k].tag => i = k
    <3> SUFFICES ASSUME NEW i \in 1..Len(cq'), NEW k \in 1..Len(cq'), cq'[i].tag = cq'[k].tag
                 PROVE  i = k
      OBVIOUS
    <3>1. CASE i <= Len(cq) /\ k <= Len(cq)
      BY <1>1, <1>2, <2>1, <3>1 DEF Posted
    <3>2. CASE ~(i <= Len(cq)) /\ ~(k <= Len(cq))
      BY <1>2, <3>2
    <3>3. CASE i <= Len(cq) /\ ~(k <= Len(cq))
      BY <1>2, <2>1, <3>3
    <3>4. CASE ~(i <= Len(cq)) /\ k <= Len(cq)
      BY <1>2, <2>1, <3>4
    <3>5. QED
      BY <3>1, <3>2, <3>3, <3>4
  <2>5. \A a \in sq', i \in 1..Len(cq') : a.tag # cq'[i].tag
    BY SMTT(30), <1>1, <1>2, <2>1 DEF Posted
  <2>6. QED
    BY <1>2, <2>3, <2>4, <2>5 DEF Posted
<1>9. InQueues'
  BY <1>1, <1>2 DEF InQueues, One
<1>10. pipeline_primed
  BY <1>1 DEF NotPrimed
<1>11. NotPrimed' /\ Places'
  BY <1>1, <1>10 DEF NotPrimed, Places, InFlight
<1>12. QED
  BY <1>6, <1>7, <1>8, <1>9, <1>11


\* What the program counts, and what is in the output by then.
LEMMA KernelCounts ==
  ASSUME RingInv, NEW op \in sq, NEW res \in Nat \cup {Interrupted, Failed}, NEW n \in Nat,
         Complete(op, res), KernelUntouched, n = (IF res > 0 THEN res ELSE 0),
         op.tag = "write" => n <= op.size,
         op.tag = "read" => UNCHANGED <<out, out_off>>,
         op.tag = "write" => Len(out') = Len(out) + n
                             /\ out_off' = (IF OutSeekable THEN out_off ELSE out_off + n)
  PROVE  Counts'
<1> USE DEF KernelUntouched, flight_vars, file_pos, result_vars
<1>1. RingTyped /\ Submitted /\ Posted /\ InQueues /\ Counts
  BY DEF RingInv
<1>2. /\ Len(cq') = Len(cq) + 1 /\ Len(cq) \in Nat
      /\ \A i \in 1..Len(cq') : cq'[i] = (IF i <= Len(cq) THEN cq[i] ELSE [tag |-> op.tag, res |-> res])
      /\ \A i \in 1..Len(cq) : cq[i].tag # op.tag
  BY <1>1, Executed
<1>3. /\ \A i \in 1..Len(cq) : i \in 1..Len(cq') /\ cq'[i] = cq[i]
      /\ Len(cq') \in 1..Len(cq') /\ cq'[Len(cq')] = [tag |-> op.tag, res |-> res]
      /\ \A i \in 1..Len(cq') : i \in 1..Len(cq) \/ i = Len(cq')
  BY <1>2
<1>4. w_bytes \in Nat /\ Len(out) \in Nat /\ out_off \in Nat /\ bytes_to_copy \in Nat \cup {-1}
      /\ op.size \in Nat
  BY <1>1, CfgFacts, OpFacts DEF RingTyped
<1>5. bytes_to_copy' = bytes_to_copy /\ (OutSeekable' <=> OutSeekable)
  BY DEF bytes_to_copy, OutSeekable
<1>6. CASE op.tag = "read"
  BY <1>1, <1>3, <1>5, <1>6 DEF Counts
<1>7. CASE op.tag = "write"
  <2>1. Len(out) = w_bytes
    BY <1>1, <1>2, <1>7 DEF Counts
  <2>2. bytes_to_copy >= 0 => w_bytes + op.size <= bytes_to_copy
    BY <1>1, <1>7 DEF Submitted
  <2>3. Len(out') = w_bytes + n /\ (bytes_to_copy >= 0 => Len(out') <= bytes_to_copy)
    BY <1>4, <1>7, <2>1, <2>2
  <2>4. ~OutSeekable => out_off' = Len(out')
    BY <1>1, <1>7 DEF Counts
  <2>5. \A i \in 1..Len(cq') : cq'[i].tag = "write" => cq'[i].res = res
    BY <1>2, <1>3, <1>7
  <2>6. ~ \A i \in 1..Len(cq') : cq'[i].tag # "write"
    BY <1>3, <1>7
  <2>7. QED
    BY <1>1, <1>5, <2>3, <2>4, <2>5, <2>6 DEF Counts
<1>8. QED
  BY <1>1, <1>6, <1>7, OpFacts

\* The end of the copy is not changed behind the program's back.
LEMMA KernelEnds ==
  ASSUME RingInv, NEW op \in sq, KernelUntouched, op.tag = "write" \/ UNCHANGED out,
         disturbances' = 0 => disturbances = 0
  PROVE  Ends'
<1> USE DEF KernelUntouched, flight_vars, file_pos, result_vars
<1>1. RingTyped /\ Submitted /\ Places /\ Ends
  BY DEF RingInv
<1>2. pc = "flush" /\ exit_status = "success" => UNCHANGED out
  BY <1>1, OpFacts DEF Places
<1>3. QED
  BY <1>1, <1>2 DEF Ends, Everything, bytes_to_copy

LEMMA KernelReadsStep == RingInv /\ KernelReads => RingInv'
<1> SUFFICES ASSUME RingInv, KernelReads PROVE RingInv'
  OBVIOUS
<1> USE DEF flight_vars, file_pos, result_vars
<1> DEFINE From(op) == IF op.pos >= 0 THEN op.pos ELSE in_off
<1>0. PICK op \in sq :
        /\ op.tag = "read"
        /\ \E n \in ReadResults(From(op), op.size) :
             /\ Complete(op, n)
             /\ IF n > 0
                THEN /\ buf' = [buf EXCEPT ![op.slot] =
                                  InputBytes(From(op), n) \o SubSeq(@, n + 1, Len(@))]
                     /\ in_off' = IF op.pos >= 0 THEN in_off ELSE in_off + n
                ELSE UNCHANGED <<buf, in_off>>
        /\ KernelUntouched /\ UNCHANGED <<out_off, out, disturbances>>
  BY DEF KernelReads
<1>1. PICK n \in ReadResults(From(op), op.size) :
        /\ op.tag = "read"
        /\ Complete(op, n)
        /\ IF n > 0
           THEN /\ buf' = [buf EXCEPT ![op.slot] =
                             InputBytes(From(op), n) \o SubSeq(@, n + 1, Len(@))]
                /\ in_off' = IF op.pos >= 0 THEN in_off ELSE in_off + n
           ELSE UNCHANGED <<buf, in_off>>
        /\ KernelUntouched /\ UNCHANGED <<out_off, out, disturbances>>
  BY <1>0
<1>2. RingTyped /\ Submitted /\ Posted /\ InQueues /\ Filled /\ Counts /\ InOrder /\ NotPrimed
  BY DEF RingInv
<1>3. /\ read_in_flight /\ op.slot = read_slot /\ read_slot \in Slots
      /\ op.size \in Nat /\ op.size >= 1 /\ op.size <= cfg.blocksize /\ cfg.blocksize \in Nat
      /\ op.pos = (IF InSeekable THEN in_file_pos ELSE -1)
  BY <1>1, <1>2, CfgFacts, OpFacts DEF Submitted
<1>4. in_file_pos \in Nat /\ in_off \in Nat /\ buf \in [Slots -> Seq(Nat)]
  BY <1>2 DEF RingTyped
<1> DEFINE from == From(op)
<1>5. from = ReadAt /\ from \in Nat
  BY <1>3, <1>4 DEF ReadAt
<1>6. /\ n \in Nat \cup {Failed} /\ n <= op.size
      /\ n > 0 => from + n <= cfg.source
      /\ n = 0 => from >= cfg.source
  BY <1>2, <1>3, <1>5, ReadFacts
<1> DEFINE new == InputBytes(from, n) \o SubSeq(buf[read_slot], n + 1, Len(buf[read_slot]))
<1>7. n > 0 => /\ n \in Nat /\ new \in Seq(Nat) /\ Len(new) >= Len(buf[read_slot]) /\ Len(new) >= n
               /\ \A i \in 1..n : new[i] = from + i
  <2> SUFFICES ASSUME n > 0
               PROVE  /\ n \in Nat /\ new \in Seq(Nat) /\ Len(new) >= Len(buf[read_slot])
                      /\ Len(new) >= n /\ \A i \in 1..n : new[i] = from + i
    OBVIOUS
  <2>1. n \in Nat
    BY <1>6 DEF Failed
  <2>2. buf[read_slot] \in Seq(Nat)
    BY <1>3, <1>4
  <2> HIDE DEF from
  <2>3. QED
    BY <1>5, <2>1, <2>2, FilledFacts
<1>8. /\ n > 0 => buf' = [buf EXCEPT ![read_slot] = new]
                  /\ in_off' = (IF InSeekable THEN in_off ELSE in_off + n)
      /\ ~(n > 0) => buf' = buf /\ in_off' = in_off
  <2>1. CASE n > 0
    <3>1. /\ buf' = [buf EXCEPT ![op.slot] =
                       InputBytes(from, n) \o SubSeq(buf[op.slot], n + 1, Len(buf[op.slot]))]
          /\ in_off' = IF op.pos >= 0 THEN in_off ELSE in_off + n
      BY <1>1, <2>1
    <3>2. in_off' = (IF InSeekable THEN in_off ELSE in_off + n)
      <4> HIDE DEF from, new
      <4>1. op.pos >= 0 <=> InSeekable
        BY <1>3, <1>4
      <4>2. QED
        BY <3>1, <4>1
    <3>3. QED
      BY <1>3, <2>1, <3>1, <3>2
  <2>2. CASE ~(n > 0)
    BY <1>1, <2>2
  <2>3. QED
    BY <2>1, <2>2
<1> HIDE DEF new, from
<1>9. /\ buf' \in [Slots -> Seq(Nat)] /\ in_off' \in Nat
      /\ n > 0 => buf'[read_slot] = new
      /\ \A s \in Slots : s # read_slot => buf'[s] = buf[s]
  <2>1. CASE n > 0
    <3>1. n \in Nat /\ new \in Seq(Nat)
      BY <1>7, <2>1
    <3>2. buf' = [buf EXCEPT ![read_slot] = new]
      BY <1>8, <2>1
    <3>3. in_off' \in Nat
      BY <1>4, <1>8, <2>1, <3>1
    <3>4. QED
      BY <1>3, <1>4, <3>1, <3>2, <3>3
  <2>2. CASE ~(n > 0)
    BY <1>4, <1>8, <2>2
  <2>3. QED
    BY <2>1, <2>2
<1>10. \A s \in Slots : Len(buf'[s]) >= Len(buf[s])
  <2> SUFFICES ASSUME NEW s \in Slots PROVE Len(buf'[s]) >= Len(buf[s])
    OBVIOUS
  <2>1. Len(buf[s]) \in Nat
    BY <1>4
  <2>2. CASE n > 0 /\ s = read_slot
    BY <1>7, <1>9, <2>2
  <2>3. CASE ~(n > 0) \/ s # read_slot
    BY <1>8, <1>9, <2>1, <2>3
  <2>4. QED
    BY <2>2, <2>3
<1>11. n <= Len(buf'[read_slot]) /\ n <= cfg.blocksize /\ Len(buf'[read_slot]) \in Nat
  <2>1. Len(buf'[read_slot]) \in Nat /\ n \in Int
    BY <1>3, <1>6, <1>9 DEF Failed
  <2>2. n > 0 => n <= Len(buf'[read_slot])
    BY <1>7, <1>9
  <2>3. QED
    BY <1>3, <1>6, <2>1, <2>2
<1>12. n \in Nat \cup {Interrupted, Failed} /\ n \in Int /\ Complete(op, n) /\ KernelUntouched
       /\ UNCHANGED <<out_off, out, disturbances>> /\ op.tag = "read"
  BY <1>1, <1>6 DEF Failed
<1>13. Filled' /\ Submitted' /\ Posted' /\ InQueues' /\ NotPrimed' /\ Places'
  BY <1>9, <1>10, <1>11, <1>12, KernelQueues
<1>14. Counts'
  <2>1. PICK m \in Nat : m = (IF n > 0 THEN n ELSE 0)
    BY <1>12
  <2>2. QED
    BY <1>12, <2>1, KernelCounts
<1>15. Ends'
  BY <1>12, KernelEnds
<1>16. RingTyped'
  BY <1>2, <1>9, <1>12 DEF RingTyped, KernelUntouched
<1>17. InOrder'
  <2> SUFFICES ASSUME disturbances = 0 PROVE InOrder'
    BY <1>12 DEF InOrder
  <2> DEFINE H == Len(hashed)
  <2>1. /\ \A i \in 1..Len(out) : out[i] = i
        /\ \A i \in 1..Len(hashed) : hashed[i] = i
        /\ Within(Len(hashed)) /\ Reading /\ Writing
    BY <1>2 DEF InOrder
  <2>2. H \in Nat /\ cfg.source \in Nat /\ bytes_to_copy \in Nat \cup {-1}
    BY <1>2, CfgFacts DEF RingTyped
  <2>3. from = H /\ (bytes_to_copy >= 0 => H + op.size <= bytes_to_copy)
    BY <1>5, <1>12, <2>1 DEF Reading
  <2>4. /\ Len(cq') = Len(cq) + 1 /\ Len(cq) \in Nat
        /\ \A i \in 1..Len(cq') : cq'[i] = (IF i <= Len(cq) THEN cq[i] ELSE [tag |-> op.tag, res |-> n])
        /\ \A i \in 1..Len(cq) : cq[i].tag # op.tag
        /\ sq' \subseteq sq /\ \A a \in sq' : a.tag # op.tag
    BY <1>2, <1>12, Executed
  <2>5. UNCHANGED <<cfg, hashed, w_bytes, write_slot, read_slot, read_in_flight, write_in_flight,
                    exit_status, pipeline_primed, in_file_pos>>
    BY <1>12 DEF KernelUntouched
  <2>6. n >= 0 => Block(n)'
    <3> SUFFICES ASSUME n >= 0 PROVE Block(n)'
      OBVIOUS
    <3>1. n \in Nat
      BY <1>12 DEF Interrupted, Failed
    <3>2. HoldsFrom(read_slot, H, n)'
      <4>1. n <= Len(buf'[read_slot])
        BY <1>11
      <4>2. CASE n = 0
        BY <2>5, <4>1, <4>2 DEF HoldsFrom
      <4>3. CASE n > 0
        <5>1. \A i \in 1..n : buf'[read_slot][i] = H + i
          BY <1>7, <1>9, <2>3, <4>3
        <5>2. QED
          BY <2>5, <4>1, <5>1 DEF HoldsFrom
      <4>4. QED
        BY <3>1, <4>2, <4>3
    <3>3. Within(H + n)'
      <4>1. H + n <= cfg.source /\ (bytes_to_copy >= 0 => H + n <= bytes_to_copy)
        BY <1>3, <1>6, <2>1, <2>2, <2>3, <3>1 DEF Within
      <4>2. QED
        BY <2>5, <4>1 DEF Within, bytes_to_copy
    <3>4. n = 0 => H = cfg.source
      BY <1>6, <2>1, <2>2, <2>3 DEF Within
    <3>5. QED
      BY <2>5, <3>2, <3>3, <3>4 DEF Block
  <2>7. Reading'
    <3>1. \A i \in 1..Len(cq') : cq'[i].tag = "read" => cq'[i].res = n
      BY <1>12, <2>4
    <3>2. n # Interrupted
      BY <1>6 DEF Interrupted, Failed
    <3>3. n >= 0 => ReadAt' = Len(hashed') + (IF InSeekable THEN 0 ELSE n)
      <4>1. n > 0 => ReadAt' = H + (IF InSeekable THEN 0 ELSE n)
        BY <1>4, <1>5, <1>8, <2>2, <2>3, <2>5, <1>12 DEF ReadAt, InSeekable
      <4>2. n = 0 => ReadAt' = H + (IF InSeekable THEN 0 ELSE n)
        BY <1>4, <1>5, <1>8, <2>2, <2>3, <2>5, <1>12 DEF ReadAt, InSeekable
      <4>3. QED
        BY <1>12, <2>5, <4>1, <4>2
    <3>4. InSeekable' <=> InSeekable
      BY <2>5 DEF InSeekable
    <3>5. \A a \in sq' : a.tag # "read"
      BY <1>12, <2>4
    <3>6. QED
      BY <1>3, <2>5, <2>6, <3>1, <3>2, <3>3, <3>4, <3>5 DEF Reading, Block, HoldsFrom, Within
  <2>8. Writing'
    <3>1. write_in_flight => buf'[write_slot] = buf[write_slot]
      BY <1>2, <1>3, <1>9 DEF InQueues, RingTyped
    <3>2. \A i \in 1..Len(cq') : cq'[i].tag = "write" => i \in 1..Len(cq) /\ cq'[i] = cq[i]
      BY <1>12, <2>4
    <3>3. \A a \in sq' : a \in sq /\ (a.tag = "write" => write_in_flight)
      BY <1>2, <2>4, OpFacts
    <3>4. QED
      BY <2>1, <2>5, <3>1, <3>2, <3>3 DEF Writing, HoldsFrom
  <2>9. Within(Len(hashed))'
    BY <2>1, <2>5 DEF Within, bytes_to_copy
  <2>10. QED
    BY <1>12, <2>1, <2>5, <2>7, <2>8, <2>9 DEF InOrder
<1>18. QED
  BY <1>13, <1>14, <1>15, <1>16, <1>17 DEF RingInv


LEMMA KernelWritesStep == RingInv /\ KernelWrites => RingInv'
<1> SUFFICES ASSUME RingInv, KernelWrites PROVE RingInv'
  OBVIOUS
<1> USE DEF flight_vars, file_pos, result_vars
<1> DEFINE At(op) == IF op.pos >= 0 THEN op.pos ELSE out_off
<1>0. PICK op \in sq :
        /\ op.tag = "write"
        /\ \E n \in 0..op.size :
             /\ n < op.size => disturbances < MaxDisturbances
             /\ Complete(op, n)
             /\ out' = WrittenAt(At(op), SubSeq(buf[op.slot], 1, n))
             /\ out_off' = IF op.pos >= 0 THEN out_off ELSE out_off + n
             /\ disturbances' = disturbances + (IF n < op.size THEN 1 ELSE 0)
        /\ KernelUntouched /\ UNCHANGED <<buf, in_off>>
  BY DEF KernelWrites
<1>1. PICK n \in 0..op.size :
        /\ Complete(op, n)
        /\ out' = WrittenAt(At(op), SubSeq(buf[op.slot], 1, n))
        /\ out_off' = IF op.pos >= 0 THEN out_off ELSE out_off + n
        /\ disturbances' = disturbances + (IF n < op.size THEN 1 ELSE 0)
  BY <1>0
<1>2. RingTyped /\ Submitted /\ Posted /\ InQueues /\ Filled /\ Counts /\ InOrder /\ NotPrimed
  BY DEF RingInv
<1>3. /\ write_in_flight /\ op.slot = write_slot /\ write_slot \in Slots
      /\ op.size \in Nat /\ op.size <= Len(buf[write_slot])
      /\ op.pos = (IF OutSeekable THEN out_file_pos ELSE -1)
  BY <1>0, <1>2, OpFacts DEF Submitted, RingTyped
<1>4. /\ out_file_pos \in Nat /\ out_off \in Nat /\ buf \in [Slots -> Seq(Nat)]
      /\ w_bytes \in Nat /\ out \in Seq(Nat) /\ Len(out) \in Nat /\ disturbances \in Nat
  BY <1>2 DEF RingTyped
<1>5. n \in Nat /\ n <= op.size
  BY <1>3
<1>6. /\ Len(cq') = Len(cq) + 1 /\ Len(cq) \in Nat
      /\ \A i \in 1..Len(cq') : cq'[i] = (IF i <= Len(cq) THEN cq[i] ELSE [tag |-> op.tag, res |-> n])
      /\ \A i \in 1..Len(cq) : cq[i].tag # op.tag
      /\ sq' \subseteq sq /\ \A a \in sq' : a.tag # op.tag
  BY <1>1, <1>2, <1>5, Executed
<1>7. Len(out) = w_bytes /\ At(op) = Len(out)
  <2>1. Len(out) = w_bytes
    BY <1>0, <1>2, <1>6 DEF Counts
  <2>2. pipeline_primed
    BY <1>2 DEF NotPrimed
  <2>3. QED
    BY <1>2, <1>3, <1>4, <2>1, <2>2 DEF Counts
<1> DEFINE slot == buf[write_slot]
           bytes == SubSeq(slot, 1, n)
<1>8. bytes \in Seq(Nat) /\ Len(bytes) = n /\ \A i \in 1..n : bytes[i] = slot[i]
  <2>1. slot \in Seq(Nat) /\ Len(slot) \in Nat
    BY <1>3, <1>4
  <2>2. n <= Len(slot)
    BY <1>3, <1>5, <2>1
  <2> HIDE DEF slot
  <2>3. 0 \in Nat /\ 0 + 1 = 1 /\ n - 0 = n
    BY <1>5
  <2>4. SubSeq(slot, 0 + 1, n) \in Seq(Nat) /\ Len(SubSeq(slot, 0 + 1, n)) = (IF 0 <= n THEN n - 0 ELSE 0)
        /\ \A i \in 1..n - 0 : SubSeq(slot, 0 + 1, n)[i] = slot[0 + i]
    BY <1>5, <2>1, <2>2, PartFacts
  <2>5. \A i \in 1..n : 0 + i = i
    BY <1>5
  <2>6. QED
    BY <1>5, <2>3, <2>4, <2>5
<1>9. out' = WrittenAt(Len(out), bytes)
  BY <1>1, <1>3, <1>7
<1> HIDE DEF bytes, slot
<1>10. /\ out' \in Seq(Nat) /\ Len(out') = Len(out) + n
       /\ \A i \in 1..Len(out) : out'[i] = out[i]
       /\ \A i \in 1..n : out'[Len(out) + i] = slot[i]
  BY <1>4, <1>8, <1>9, WrittenFacts
<1>11. out_off' = (IF OutSeekable THEN out_off ELSE out_off + n)
  BY <1>1, <1>3, <1>4
<1>12. UNCHANGED <<cfg, hashed, w_bytes, write_slot, read_slot, read_in_flight, write_in_flight,
                   exit_status, pipeline_primed, in_file_pos, length, buf, in_off, read_eof>>
       /\ disturbances' \in Nat /\ (disturbances' = 0 => disturbances = 0 /\ n = op.size)
  BY <1>0, <1>1, <1>3, <1>4 DEF KernelUntouched
<1>13. Complete(op, n) /\ op.tag = "write" /\ KernelUntouched
       /\ n \in Nat \cup {Interrupted, Failed}
  BY <1>0, <1>1
<1>14. Filled' /\ Submitted' /\ Posted' /\ InQueues' /\ NotPrimed' /\ Places'
  <2>1. \A s \in Slots : Len(buf'[s]) >= Len(buf[s])
    BY <1>4, <1>12
  <2>2. QED
    BY <1>4, <1>12, <1>13, <2>1, KernelQueues
<1>15. Counts'
  <2>1. n = (IF n > 0 THEN n ELSE 0)
    BY <1>5
  <2>2. QED
    BY <1>5, <1>10, <1>11, <1>13, <2>1, KernelCounts
<1>16. Ends'
  BY <1>12, <1>13, KernelEnds
<1>17. RingTyped'
  BY <1>2, <1>4, <1>5, <1>10, <1>11, <1>12, <1>13 DEF RingTyped, KernelUntouched
<1>18. InOrder'
  <2> SUFFICES ASSUME disturbances = 0, n = op.size PROVE InOrder'
    BY <1>12 DEF InOrder
  <2>1. /\ \A i \in 1..Len(out) : out[i] = i
        /\ \A i \in 1..Len(hashed) : hashed[i] = i
        /\ Within(Len(hashed)) /\ Reading /\ Writing
    BY <1>2 DEF InOrder
  <2>2. (\A i \in 1..n : slot[i] = w_bytes + i) /\ Len(hashed) = w_bytes + n
    BY <1>13, <2>1 DEF Writing, HoldsFrom, slot
  <2>3. \A i \in 1..Len(out') : out'[i] = i
    <3> SUFFICES ASSUME NEW i \in 1..Len(out') PROVE out'[i] = i
      OBVIOUS
    <3>1. CASE i <= Len(out)
      BY SMTT(30), <1>4, <1>10, <2>1, <3>1
    <3>2. CASE i > Len(out)
      <4>1. (i - Len(out)) \in 1..n /\ Len(out) + (i - Len(out)) = i
        BY <1>4, <1>5, <1>10, <3>2
      <4>2. out'[Len(out) + (i - Len(out))] = w_bytes + (i - Len(out))
        BY <1>10, <2>2, <4>1
      <4>3. QED
        BY <1>4, <1>7, <4>1, <4>2
    <3>3. QED
      BY <1>4, <3>1, <3>2
  <2>4. Reading'
    <3>1. \A i \in 1..Len(cq') : cq'[i].tag = "read" => i \in 1..Len(cq) /\ cq'[i] = cq[i]
      BY <1>6, <1>13
    <3>2. QED
      BY <1>6, <1>12, <2>1, <3>1
         DEF Reading, Block, HoldsFrom, Within, ReadAt, InSeekable, bytes_to_copy
  <2>5. Writing'
    <3>1. \A i \in 1..Len(cq') : cq'[i].tag = "write" => cq'[i].res = n
      BY <1>6, <1>13
    <3>2. n # Interrupted
      BY <1>5 DEF Interrupted
    <3>3. QED
      BY <1>3, <1>6, <1>12, <1>13, <2>2, <3>1, <3>2 DEF Writing
  <2>6. QED
    BY <1>12, <2>1, <2>3, <2>4, <2>5 DEF InOrder, Within, bytes_to_copy
<1>19. QED
  BY <1>14, <1>15, <1>16, <1>17, <1>18 DEF RingInv

\* Nothing but the queues has changed.
LEMMA KernelFailsStep ==
  ASSUME RingInv, NEW op \in sq, NEW res \in {Interrupted, Failed}, Complete(op, res),
         KernelUntouched, UNCHANGED <<buf, in_off, out_off, out>>, disturbances' \in Nat,
         disturbances' = 0 => disturbances = 0 /\ op.tag = "write" /\ res = Failed
  PROVE  RingInv'
<1> USE DEF flight_vars, file_pos, result_vars
<1>1. RingTyped /\ Submitted /\ Posted /\ InQueues /\ Filled /\ Counts /\ InOrder /\ NotPrimed
  BY DEF RingInv
<1>2. res \in Int /\ res < 0 /\ res \in Nat \cup {Interrupted, Failed}
  BY DEF Interrupted, Failed
<1>3. /\ buf \in [Slots -> Seq(Nat)] /\ read_slot \in Slots /\ cfg.blocksize \in Nat
      /\ op.size \in Nat
  BY <1>1, CfgFacts, OpFacts DEF RingTyped
<1>4. Filled' /\ Submitted' /\ Posted' /\ InQueues' /\ NotPrimed' /\ Places'
  <2>1. buf' \in [Slots -> Seq(Nat)] /\ \A s \in Slots : Len(buf'[s]) >= Len(buf[s])
    BY <1>3
  <2>2. res <= Len(buf'[read_slot]) /\ res <= cfg.blocksize
    BY SMTT(30), <1>2, <1>3
  <2>3. QED
    BY <1>2, <2>1, <2>2, KernelQueues
<1>5. Counts'
  <2>1. 0 = (IF res > 0 THEN res ELSE 0) /\ 0 \in Nat /\ 0 <= op.size
    BY <1>2, <1>3
  <2>2. Len(out') = Len(out) + 0 /\ out_off' = (IF OutSeekable THEN out_off ELSE out_off + 0)
    BY <1>1 DEF RingTyped
  <2>3. QED
    BY <1>2, <2>1, <2>2, KernelCounts
<1>6. Ends'
  BY KernelEnds
<1>7. RingTyped'
  BY <1>1 DEF RingTyped, KernelUntouched
<1>8. InOrder'
  <2> SUFFICES ASSUME disturbances = 0, op.tag = "write", res = Failed PROVE InOrder'
    BY DEF InOrder
  <2>1. /\ Len(cq') = Len(cq) + 1 /\ Len(cq) \in Nat
        /\ \A i \in 1..Len(cq') : cq'[i] = (IF i <= Len(cq) THEN cq[i] ELSE [tag |-> op.tag, res |-> res])
        /\ \A i \in 1..Len(cq) : cq[i].tag # op.tag
        /\ sq' \subseteq sq /\ \A a \in sq' : a.tag # op.tag
    BY <1>1, <1>2, Executed
  <2>2. UNCHANGED <<cfg, hashed, w_bytes, write_slot, read_slot, read_in_flight, write_in_flight,
                    exit_status, pipeline_primed, in_file_pos, length, read_eof>>
    BY DEF KernelUntouched
  <2>3. /\ \A i \in 1..Len(out) : out[i] = i
        /\ \A i \in 1..Len(hashed) : hashed[i] = i
        /\ Within(Len(hashed)) /\ Reading /\ Writing
    BY <1>1 DEF InOrder
  <2>4. Reading'
    <3>1. \A i \in 1..Len(cq') : cq'[i].tag = "read" => i \in 1..Len(cq) /\ cq'[i] = cq[i]
      BY <2>1
    <3>2. QED
      BY <2>1, <2>2, <2>3, <3>1
         DEF Reading, Block, HoldsFrom, Within, ReadAt, InSeekable, bytes_to_copy
  <2>5. Writing'
    <3>1. \A i \in 1..Len(cq') : cq'[i].tag = "write" => cq'[i].res = Failed
      BY <2>1
    <3>2. write_in_flight
      BY <1>1, OpFacts
    <3>3. Failed # Interrupted /\ ~(Failed >= 0)
      BY DEF Failed, Interrupted
    <3>4. QED
      BY <2>1, <2>2, <3>1, <3>2, <3>3 DEF Writing
  <2>6. QED
    BY <2>2, <2>3, <2>4, <2>5 DEF InOrder, Within, bytes_to_copy
<1>9. QED
  BY <1>4, <1>5, <1>6, <1>7, <1>8 DEF RingInv

LEMMA KernelStep == RingInv /\ Kernel => RingInv'
<1> SUFFICES ASSUME RingInv, Kernel PROVE RingInv'
  OBVIOUS
<1>0. disturbances \in Nat
  BY DEF RingInv, RingTyped
<1>1. CASE KernelInterrupts
  <2>1. PICK op \in sq : /\ Complete(op, Interrupted) /\ disturbances' = disturbances + 1
                         /\ KernelUntouched /\ UNCHANGED <<buf, in_off, out_off, out>>
    BY <1>1 DEF KernelInterrupts
  <2>2. disturbances' \in Nat /\ disturbances' # 0
    BY <1>0, <2>1
  <2>3. QED
    BY <2>1, <2>2, KernelFailsStep
<1>2. CASE KernelFailsWrite
  <2>1. PICK op \in sq : /\ op.tag = "write" /\ Complete(op, Failed)
                         /\ KernelUntouched /\ UNCHANGED <<buf, in_off, out_off, out, disturbances>>
    BY <1>2 DEF KernelFailsWrite
  <2>2. QED
    BY <1>0, <2>1, KernelFailsStep
<1>3. QED
  BY <1>1, <1>2, KernelReadsStep, KernelWritesStep DEF Kernel


------------------------------------------------------------------------------
(* The drivers                                                               *)

LEMMA RingInitial == RingInit /\ pc = "start" => RingInv
<1> SUFFICES ASSUME RingInit, pc = "start" PROVE RingInv
  OBVIOUS
<1> USE DEF RingInit
<1>0. cfg \in Configs /\ cfg.blocksize \in Nat \ {0} /\ cfg.source \in Nat
      /\ cfg.bad \in 0..cfg.source /\ bytes_to_copy \in Nat \cup {-1}
  BY RingConfigsAssumption DEF bytes_to_copy
<1>1. 0 \in Slots
  BY RingAssumption DEF Slots
<1>2. RingTyped
  BY <1>0, <1>1 DEF RingTyped
<1>3. Filled
  BY DEF Filled
<1>4. Submitted /\ Posted
  BY DEF Submitted, Posted
<1>5. InQueues
  BY FS_EmptySet DEF InQueues, One
<1>6. Counts
  BY <1>0 DEF Counts
<1>7. NotPrimed /\ Places /\ Ends
  BY <1>0 DEF NotPrimed, Places, Ends, DriverPlaces
<1>8. InOrder
  BY <1>0 DEF InOrder, Within, Reading, Writing
<1>9. QED
  BY <1>2, <1>3, <1>4, <1>5, <1>6, <1>7, <1>8 DEF RingInv

\* Steps that only go from one place to another.
LEMMA RingIdles ==
  ASSUME RingInv, Places', Ends',
         UNCHANGED <<cfg, exit_status, slot_vars, flight_vars, file_pos, sq, cq, in_off, out_off,
                     out, disturbances, result_vars>>
  PROVE  RingInv'
<1> USE DEF slot_vars, flight_vars, file_pos, result_vars
<1>1. RingTyped' /\ Filled' /\ Submitted' /\ Posted' /\ InQueues' /\ NotPrimed'
  BY DEF RingInv, RingTyped, Filled, Submitted, Posted, InQueues, NotPrimed, InSeekable,
         OutSeekable, bytes_to_copy
<1>2. Counts' /\ InOrder'
  BY DEF RingInv, Counts, InOrder, Within, Reading, Writing, Block, HoldsFrom, ReadAt,
         InSeekable, OutSeekable, bytes_to_copy
<1>3. QED
  BY <1>1, <1>2 DEF RingInv

\* Where the limit has been reached the copy is complete.
LEMMA ExhaustedFacts ==
  ASSUME RingInv, Exhausted, exit_status = "success"
  PROVE  ~write_in_flight /\ (disturbances = 0 => Everything)
<1>1. RingTyped /\ Submitted /\ Posted /\ Counts /\ InOrder
  BY DEF RingInv
<1>2. /\ w_bytes \in Nat /\ bytes_to_copy \in Nat /\ w_bytes >= bytes_to_copy
      /\ cfg.source \in Nat /\ Len(out) \in Nat /\ Len(hashed) \in Nat
  BY <1>1, CfgFacts DEF Exhausted, RingTyped
<1>3. ~write_in_flight
  BY <1>1, <1>2 DEF Counts
<1>4. Len(out) = w_bytes /\ Len(out) <= bytes_to_copy
  BY <1>1, <1>2, <1>3 DEF Posted, Counts
<1>5. disturbances = 0 => Len(hashed) = w_bytes /\ Within(Len(hashed))
  BY <1>1, <1>3 DEF InOrder, Writing
<1>6. QED
  BY <1>2, <1>3, <1>4, <1>5 DEF Everything, Within, Least

\* The end of the input has been met, and everything before it written.
LEMMA AtEndFacts ==
  ASSUME RingInv, exit_status = "success", disturbances = 0, ~write_in_flight,
         Len(hashed) = cfg.source
  PROVE  Everything
<1>1. RingTyped /\ Posted /\ Counts /\ InOrder
  BY DEF RingInv
<1>2. w_bytes \in Nat /\ bytes_to_copy \in Nat \cup {-1} /\ cfg.source \in Nat
  BY <1>1, CfgFacts DEF RingTyped
<1>3. Len(out) = w_bytes
  BY <1>1 DEF Posted, Counts
<1>4. Len(hashed) = w_bytes /\ Within(Len(hashed))
  BY <1>1 DEF InOrder, Writing
<1>5. QED
  BY <1>2, <1>3, <1>4 DEF Everything, Within, Least

LEMMA Settles == RingInv /\ (Resume \/ Settled \/ (WaitInterrupted /\ UNCHANGED cfg)) => RingInv'
<1> SUFFICES ASSUME RingInv, Resume \/ Settled \/ (WaitInterrupted /\ UNCHANGED cfg)
             PROVE  RingInv'
  OBVIOUS
<1> USE DEF Resume, Settled, WaitInterrupted, slot_vars, flight_vars, file_pos, result_vars
<1>1. Places' /\ Ends'
  BY DEF RingInv, Places, Ends, InFlight, DriverPlaces
<1>2. QED
  BY <1>1, RingIdles

LEMMA StepEndsStep == RingInv /\ StepEnds => RingInv'
<1> SUFFICES ASSUME RingInv, StepEnds PROVE RingInv'
  OBVIOUS
<1> USE DEF StepEnds, slot_vars, flight_vars, file_pos, result_vars
<1>1. RingTyped /\ Places /\ InOrder
  BY DEF RingInv
<1>2. exit_status = "success" /\ ~read_in_flight /\ ~write_in_flight /\ pipeline_primed
  BY <1>1 DEF Places, InFlight, DriverPlaces
<1>3. disturbances = 0 => Everything
  <2>1. CASE Exhausted
    BY <1>2, <2>1, ExhaustedFacts
  <2>2. CASE read_eof /\ length[read_slot] = 0
    <3>1. disturbances = 0 => Len(hashed) = cfg.source
      BY <1>1, <1>2, <2>2 DEF InOrder, Reading, Block
    <3>2. QED
      BY <1>2, <3>1, AtEndFacts
  <2>3. QED
    BY <2>1, <2>2
<1>4. Places' /\ Ends'
  BY <1>1, <1>2, <1>3 DEF Places, Ends, Everything, bytes_to_copy, DriverPlaces
<1>5. QED
  BY <1>4, RingIdles

\* The first completion is taken off.
LEMMA Harvested ==
  ASSUME RingTyped, Posted, cq # << >>, cq' = Tail(cq)
  PROVE  /\ cq' \in Seq([tag : {"read", "write"}, res : Int])
         /\ Len(cq) \in Nat /\ Len(cq') = Len(cq) - 1 /\ Len(cq) >= 1
         /\ 1 \in 1..Len(cq) /\ Head(cq) = cq[1]
         /\ Head(cq).res \in Nat \cup {Interrupted, Failed} /\ Head(cq).res \in Int
         /\ \A i \in 1..Len(cq') : i + 1 \in 1..Len(cq) /\ cq'[i] = cq[i + 1]
         /\ \A i \in 1..Len(cq') : cq'[i].tag # Head(cq).tag
         /\ \A i, k \in 1..Len(cq') : cq'[i].tag = cq'[k].tag => i = k
         /\ \A op \in sq : op.tag # Head(cq).tag /\ \A i \in 1..Len(cq') : op.tag # cq'[i].tag
<1> DEFINE R == [tag : {"read", "write"}, res : Int]
<1>1. cq \in Seq(R)
  BY DEF Posted
<1> HIDE DEF R
<1>2. /\ cq' \in Seq(R)
      /\ Len(cq) \in Nat /\ Len(cq') = Len(cq) - 1 /\ Len(cq) >= 1
      /\ 1 \in 1..Len(cq) /\ Head(cq) = cq[1]
      /\ \A i \in 1..Len(cq') : i + 1 \in 1..Len(cq) /\ cq'[i] = cq[i + 1]
  BY <1>1
<1>3. \A i, k \in 1..Len(cq) : cq[i].tag = cq[k].tag => i = k
  BY DEF Posted
<1>4. \A i \in 1..Len(cq') : cq'[i].tag # Head(cq).tag
  <2> SUFFICES ASSUME NEW i \in 1..Len(cq'), cq'[i].tag = Head(cq).tag PROVE FALSE
    OBVIOUS
  <2>1. i + 1 = 1
    BY <1>2, <1>3
  <2>2. QED
    BY <1>2, <2>1
<1>5. \A i, k \in 1..Len(cq') : cq'[i].tag = cq'[k].tag => i = k
  <2> SUFFICES ASSUME NEW i \in 1..Len(cq'), NEW k \in 1..Len(cq'), cq'[i].tag = cq'[k].tag
               PROVE  i = k
    OBVIOUS
  <2>1. i + 1 = k + 1
    BY <1>2, <1>3
  <2>2. QED
    BY <2>1
<1>6. \A op \in sq : op.tag # Head(cq).tag /\ \A i \in 1..Len(cq') : op.tag # cq'[i].tag
  BY <1>2 DEF Posted
<1>7. Head(cq).res \in Nat \cup {Interrupted, Failed} /\ Head(cq).res \in Int
  BY <1>2 DEF Posted, Interrupted, Failed
<1>8. QED
  BY <1>2, <1>4, <1>5, <1>6, <1>7 DEF R


\* The completion of the write is taken, by a step or by the flush.
LEMMA WriteSeen ==
  ASSUME RingInv, cq # << >>, Head(cq).tag = "write", cq' = Tail(cq), write_in_flight' = FALSE,
         w_bytes' = (IF Head(cq).res > 0 THEN w_bytes + Head(cq).res ELSE w_bytes),
         out_file_pos' = (IF Head(cq).res > 0 /\ OutSeekable THEN out_file_pos + Head(cq).res
                          ELSE out_file_pos),
         UNCHANGED <<cfg, buf, length, read_slot, write_slot, read_in_flight, read_eof,
                     pipeline_primed, in_file_pos, sq, in_off, out_off, out, hashed, disturbances>>,
         exit_status' \in {"success", "failure"}, write_lost' \in BOOLEAN,
         exit_status' = "success" => exit_status = "success" /\ Head(cq).res # Failed,
         Places', Ends'
  PROVE  RingInv'
<1> DEFINE res == Head(cq).res
<1>1. RingTyped /\ Filled /\ Submitted /\ Posted /\ InQueues /\ Counts /\ NotPrimed /\ InOrder
  BY DEF RingInv
<1>2. /\ cq' \in Seq([tag : {"read", "write"}, res : Int])
      /\ Len(cq) \in Nat /\ Len(cq') = Len(cq) - 1 /\ Len(cq) >= 1
      /\ 1 \in 1..Len(cq) /\ Head(cq) = cq[1]
      /\ res \in Nat \cup {Interrupted, Failed} /\ res \in Int
      /\ \A i \in 1..Len(cq') : i + 1 \in 1..Len(cq) /\ cq'[i] = cq[i + 1]
      /\ \A i \in 1..Len(cq') : cq'[i].tag # "write"
      /\ \A i, k \in 1..Len(cq') : cq'[i].tag = cq'[k].tag => i = k
      /\ \A op \in sq : op.tag # "write" /\ \A i \in 1..Len(cq') : op.tag # cq'[i].tag
  BY <1>1, Harvested
<1>3. /\ w_bytes \in Nat /\ out_file_pos \in Nat /\ Len(out) \in Nat
      /\ bytes_to_copy \in Nat \cup {-1}
  BY <1>1, CfgFacts DEF RingTyped
<1>4. write_in_flight /\ pipeline_primed /\ Len(out) = w_bytes + (IF res > 0 THEN res ELSE 0)
  BY <1>1, <1>2 DEF Posted, Counts, NotPrimed
<1> DEFINE n == IF res > 0 THEN res ELSE 0
<1>5. n \in Nat /\ w_bytes' = w_bytes + n
      /\ out_file_pos' = (IF OutSeekable THEN out_file_pos + n ELSE out_file_pos)
  BY <1>2, <1>3
<1> HIDE DEF n, res
<1>6. w_bytes' \in Nat /\ out_file_pos' \in Nat /\ Len(out) = w_bytes'
  BY <1>3, <1>4, <1>5 DEF n
<1>7. RingTyped'
  BY <1>1, <1>6 DEF RingTyped, Slots
<1>8. Filled'
  BY <1>1 DEF Filled
<1>9. Submitted'
  BY <1>1, <1>2 DEF Submitted, InSeekable
<1>10. Posted'
  BY <1>1, <1>2 DEF Posted
<1>11. InQueues'
  <2>1. One(write_in_flight) = 1 /\ One(write_in_flight') = 0 /\ One(read_in_flight) \in Nat
        /\ Cardinality(sq) \in Nat
    BY <1>1, <1>4, FS_CardinalityType DEF One, InQueues
  <2>2. QED
    BY <1>1, <1>2, <2>1 DEF InQueues
<1>12. Counts'
  <2>1. OutSeekable => out_file_pos' = w_bytes'
    BY <1>1, <1>4, <1>5 DEF Counts
  <2>2. QED
    BY <1>1, <1>2, <1>6, <2>1 DEF Counts, OutSeekable, bytes_to_copy
<1>13. NotPrimed'
  BY <1>4 DEF NotPrimed
<1>14. InOrder'
  <2> SUFFICES ASSUME disturbances = 0 PROVE InOrder'
    BY DEF InOrder
  <2>1. /\ \A i \in 1..Len(out) : out[i] = i
        /\ \A i \in 1..Len(hashed) : hashed[i] = i
        /\ Within(Len(hashed)) /\ Reading /\ Writing
    BY <1>1 DEF InOrder
  <2>2. Reading'
    BY <1>2, <2>1 DEF Reading, Block, HoldsFrom, Within, ReadAt, InSeekable, bytes_to_copy
  <2>3. Writing'
    <3>1. exit_status' = "success" => Len(hashed) = w_bytes'
      <4> SUFFICES ASSUME exit_status' = "success" PROVE Len(hashed) = w_bytes'
        OBVIOUS
      <4>1. res # Interrupted /\ (res >= 0 => Len(hashed) = w_bytes + res)
        BY <1>2, <2>1 DEF Writing, res
      <4>2. res \in Nat
        BY <1>2, <4>1 DEF res
      <4>3. n = res
        BY <4>2 DEF n
      <4>4. QED
        BY <1>5, <4>1, <4>2, <4>3
    <3>2. QED
      BY <1>2, <3>1 DEF Writing
  <2>4. QED
    BY <2>1, <2>2, <2>3 DEF InOrder, Within, bytes_to_copy
<1>15. QED
  BY <1>7, <1>8, <1>9, <1>10, <1>11, <1>12, <1>13, <1>14 DEF RingInv

LEMMA HarvestWriteStep == RingInv /\ HarvestWrite => RingInv'
<1> SUFFICES ASSUME RingInv, HarvestWrite PROVE RingInv'
  OBVIOUS
<1> USE DEF HarvestWrite, Harvest, HarvestUntouched
<1>1. Places /\ RingTyped
  BY DEF RingInv
<1>2. exit_status = "success" /\ pc = "harvest" /\ ~write_lost
  BY <1>1 DEF Places, DriverPlaces, RingTyped
<1>3. pc' = "flush" => exit_status' = "failure"
  BY <1>2
<1>4. pc' \in {"flush", "harvest"} /\ (pc' = "harvest" => exit_status' = "success")
  BY <1>2
<1>5. Places' /\ Ends'
  BY <1>1, <1>2, <1>3, <1>4 DEF Places, Ends, DriverPlaces, InFlight
<1>6. exit_status' \in {"success", "failure"} /\ write_lost' \in BOOLEAN
      /\ (exit_status' = "success" => Head(cq).res # Failed)
  BY <1>1, <1>2 DEF RingTyped
<1>7. QED
  BY <1>2, <1>5, <1>6, WriteSeen

LEMMA FlushHarvestsStep == RingInv /\ FlushHarvests => RingInv'
<1> SUFFICES ASSUME RingInv, FlushHarvests PROVE RingInv'
  OBVIOUS
<1> USE DEF FlushHarvests, slot_vars
<1>1. RingTyped /\ Filled /\ Submitted /\ Posted /\ InQueues /\ Counts /\ NotPrimed /\ InOrder
      /\ Places
  BY DEF RingInv
<1>2. exit_status = "failure" /\ exit_status' = "failure" /\ pc' = "flush" /\ pipeline_primed
  BY <1>1 DEF Places, NotPrimed
<1>3. /\ cq' \in Seq([tag : {"read", "write"}, res : Int])
      /\ Len(cq) \in Nat /\ Len(cq') = Len(cq) - 1 /\ Len(cq) >= 1
      /\ 1 \in 1..Len(cq) /\ Head(cq) = cq[1]
      /\ Head(cq).res \in Nat \cup {Interrupted, Failed} /\ Head(cq).res \in Int
      /\ \A i \in 1..Len(cq') : i + 1 \in 1..Len(cq) /\ cq'[i] = cq[i + 1]
      /\ \A i \in 1..Len(cq') : cq'[i].tag # Head(cq).tag
      /\ \A i, k \in 1..Len(cq') : cq'[i].tag = cq'[k].tag => i = k
      /\ \A op \in sq : op.tag # Head(cq).tag /\ \A i \in 1..Len(cq') : op.tag # cq'[i].tag
  BY <1>1, Harvested
<1>4. write_lost' \in BOOLEAN /\ write_in_flight' \in BOOLEAN
  BY <1>1 DEF RingTyped
<1>5. Places' /\ Ends'
  BY <1>1, <1>2 DEF Places, Ends, DriverPlaces, InFlight
<1>6. CASE Head(cq).tag = "write"
  <2>1. /\ write_in_flight' = FALSE
        /\ w_bytes' = (IF Head(cq).res > 0 THEN w_bytes + Head(cq).res ELSE w_bytes)
        /\ out_file_pos' = (IF Head(cq).res > 0 /\ OutSeekable THEN out_file_pos + Head(cq).res
                            ELSE out_file_pos)
    BY <1>6
  <2>2. QED
    BY <1>2, <1>4, <1>5, <1>6, <2>1, WriteSeen
<1>7. CASE Head(cq).tag # "write"
  <2>1. write_in_flight' = TRUE /\ UNCHANGED <<w_bytes, out_file_pos>>
    BY <1>7
  <2>2. Head(cq).tag = "read"
    <3>1. cq[1] \in [tag : {"read", "write"}, res : Int]
      BY <1>1, <1>3, ElementOfSeq DEF Posted
    <3>2. QED
      BY <1>3, <1>7, <3>1
  <2>3. RingTyped' /\ Filled' /\ Submitted' /\ NotPrimed'
    BY <1>1, <1>2, <1>4, <2>1
       DEF RingTyped, Filled, Submitted, NotPrimed, InSeekable, OutSeekable, bytes_to_copy
  <2>4. Posted' /\ InQueues'
    <3>1. Cardinality(sq) + Len(cq') <= One(read_in_flight) + One(write_in_flight)
      BY <1>1, <1>3, FS_CardinalityType DEF InQueues, One
    <3>2. QED
      BY <1>1, <1>3, <2>1, <3>1 DEF Posted, InQueues, One
  <2>5. Counts'
    <3>1. (\A i \in 1..Len(cq') : cq'[i].tag # "write") => \A i \in 1..Len(cq) : cq[i].tag # "write"
      <4> SUFFICES ASSUME \A i \in 1..Len(cq') : cq'[i].tag # "write", NEW i \in 1..Len(cq)
                   PROVE  cq[i].tag # "write"
        OBVIOUS
      <4>1. CASE i = 1
        BY <1>3, <2>2, <4>1
      <4>2. CASE i # 1
        <5>1. i - 1 \in 1..Len(cq') /\ (i - 1) + 1 = i
          BY <1>3, <4>2
        <5>2. QED
          BY <1>3, <5>1
      <4>3. QED
        BY <4>1, <4>2
    <3>2. QED
      BY <1>1, <1>3, <2>1, <3>1 DEF Counts, OutSeekable, bytes_to_copy
  <2>6. InOrder'
    BY <1>1, <1>2, <1>3, <2>1 DEF InOrder, Within, Reading, Writing, Block, HoldsFrom, ReadAt,
         InSeekable, bytes_to_copy
  <2>7. QED
    BY <1>5, <2>3, <2>4, <2>5, <2>6 DEF RingInv
<1>8. QED
  BY <1>6, <1>7

LEMMA FlushedStep == RingInv /\ Flushed => RingInv'
<1> SUFFICES ASSUME RingInv, Flushed PROVE RingInv'
  OBVIOUS
<1> USE DEF Flushed, slot_vars, flight_vars, file_pos, result_vars
<1>1. RingTyped /\ Filled /\ Submitted /\ Posted /\ InQueues /\ Counts /\ NotPrimed /\ InOrder
      /\ Places
  BY DEF RingInv
<1>2. RingTyped' /\ Filled' /\ Submitted' /\ Posted' /\ NotPrimed' /\ Places' /\ Ends'
  BY <1>1 DEF RingTyped, Filled, Submitted, Posted, NotPrimed, Places, Ends, DriverPlaces
<1>3. InQueues'
  <2>1. IsFiniteSet(sq') /\ Cardinality(sq') = 0
    BY FS_EmptySet
  <2>2. Cardinality(sq) \in Nat /\ Len(cq) \in Nat
    BY <1>1, FS_CardinalityType DEF InQueues, Posted
  <2>3. QED
    BY <1>1, <2>1, <2>2 DEF InQueues, One
<1>4. Counts' /\ InOrder'
  BY <1>1 DEF Counts, InOrder, Within, Reading, Writing, Block, HoldsFrom, ReadAt,
       InSeekable, OutSeekable, bytes_to_copy
<1>5. QED
  BY <1>2, <1>3, <1>4 DEF RingInv


LEMMA HarvestReadStep == RingInv /\ HarvestRead => RingInv'
<1> SUFFICES ASSUME RingInv, HarvestRead PROVE RingInv'
  OBVIOUS
<1> USE DEF HarvestRead, Harvest, HarvestUntouched
<1> DEFINE res == Head(cq).res
<1>1. RingTyped /\ Filled /\ Submitted /\ Posted /\ InQueues /\ Counts /\ NotPrimed /\ InOrder
      /\ Places
  BY DEF RingInv
<1>2. exit_status = "success" /\ pc = "harvest" /\ ~write_lost /\ pipeline_primed
  BY <1>1 DEF Places, DriverPlaces, RingTyped
<1>3. /\ cq' \in Seq([tag : {"read", "write"}, res : Int])
      /\ Len(cq) \in Nat /\ Len(cq') = Len(cq) - 1 /\ Len(cq) >= 1
      /\ 1 \in 1..Len(cq) /\ Head(cq) = cq[1]
      /\ res \in Nat \cup {Interrupted, Failed} /\ res \in Int
      /\ \A i \in 1..Len(cq') : i + 1 \in 1..Len(cq) /\ cq'[i] = cq[i + 1]
      /\ \A i \in 1..Len(cq') : cq'[i].tag # "read"
      /\ \A i, k \in 1..Len(cq') : cq'[i].tag = cq'[k].tag => i = k
      /\ \A op \in sq : op.tag # "read" /\ \A i \in 1..Len(cq') : op.tag # cq'[i].tag
  BY <1>1, Harvested
<1>4. /\ read_slot \in Slots /\ buf \in [Slots -> Seq(Nat)] /\ length \in [Slots -> 0..cfg.blocksize]
      /\ in_file_pos \in Nat /\ in_off \in Nat /\ cfg.blocksize \in Nat /\ Len(hashed) \in Nat
  BY <1>1, CfgFacts DEF RingTyped
<1>5. read_in_flight /\ ~read_eof /\ res <= Len(buf[read_slot]) /\ res <= cfg.blocksize
  BY <1>1, <1>3 DEF Posted, InQueues
<1>6. /\ length' = (IF res >= 0 THEN [length EXCEPT ![read_slot] = res] ELSE length)
      /\ in_file_pos' = (IF res > 0 /\ InSeekable THEN in_file_pos + res ELSE in_file_pos)
      /\ read_eof' = (read_eof \/ res = 0) /\ read_in_flight' = FALSE
      /\ pc' = (IF res = Failed THEN "flush" ELSE pc)
      /\ exit_status' = (IF res = Failed THEN "failure" ELSE exit_status)
      /\ UNCHANGED <<cfg, buf, read_slot, write_slot, pipeline_primed, sq, in_off,
                     out_off, out, hashed, disturbances, write_lost, write_in_flight, out_file_pos,
                     w_bytes>>
  OBVIOUS
<1> HIDE DEF res, HarvestRead, Harvest, HarvestUntouched
<1>7. res >= 0 => res \in Nat
  BY <1>3
<1>8. RingTyped'
  <2>1. length' \in [Slots -> 0..cfg.blocksize]
    BY <1>4, <1>5, <1>6, <1>7
  <2>2. in_file_pos' \in Nat
    BY <1>3, <1>4, <1>6
  <2>3. read_eof' \in BOOLEAN /\ exit_status' \in {"success", "failure"}
    BY <1>1, <1>6 DEF RingTyped
  <2>4. QED
    BY <1>1, <1>6, <2>1, <2>2, <2>3 DEF RingTyped
<1>9. Filled'
  BY <1>1, <1>4, <1>5, <1>6, <1>7 DEF Filled
<1>10. Submitted'
  BY <1>1, <1>3, <1>6 DEF Submitted, OutSeekable, bytes_to_copy
<1>11. Posted'
  <2>1. \A i \in 1..Len(cq') :
          /\ cq'[i].res \in Nat \cup {Interrupted, Failed} /\ cq'[i].tag # "read"
          /\ cq'[i].tag = "write" => write_in_flight
    <3>1. SUFFICES ASSUME NEW i \in 1..Len(cq')
                   PROVE  /\ cq'[i].res \in Nat \cup {Interrupted, Failed} /\ cq'[i].tag # "read"
                          /\ cq'[i].tag = "write" => write_in_flight
      OBVIOUS
    <3>2. i + 1 \in 1..Len(cq) /\ cq'[i] = cq[i + 1] /\ cq'[i].tag # "read"
      BY <1>3
    <3>3. \A k \in 1..Len(cq) : /\ cq[k].res \in Nat \cup {Interrupted, Failed}
                                /\ cq[k].tag = "write" => write_in_flight
      BY <1>1 DEF Posted
    <3>4. QED
      BY <3>2, <3>3
  <2>2. \A op \in sq', i \in 1..Len(cq') : op.tag # cq'[i].tag
    BY <1>3, <1>6
  <2>3. QED
    BY <1>3, <1>6, <2>1, <2>2 DEF Posted
<1>12. InQueues'
  <2>1. One(read_in_flight) = 1 /\ One(read_in_flight') = 0 /\ One(write_in_flight) \in Nat
        /\ Cardinality(sq) \in Nat
    BY <1>1, <1>5, <1>6, FS_CardinalityType DEF One, InQueues
  <2>2. QED
    BY <1>1, <1>3, <1>6, <2>1 DEF InQueues
<1>13. Counts'
  <2>1. (\A i \in 1..Len(cq') : cq'[i].tag # "write") => \A i \in 1..Len(cq) : cq[i].tag # "write"
    <3> SUFFICES ASSUME \A i \in 1..Len(cq') : cq'[i].tag # "write", NEW i \in 1..Len(cq)
                 PROVE  cq[i].tag # "write"
      OBVIOUS
    <3>1. CASE i = 1
      <4>1. Head(cq).tag = "read"
        BY DEF HarvestRead, Harvest
      <4>2. QED
        BY <1>3, <3>1, <4>1
    <3>2. CASE i # 1
      <4>1. i - 1 \in 1..Len(cq') /\ (i - 1) + 1 = i
        BY <1>3, <3>2
      <4>2. QED
        BY <1>3, <4>1
    <3>3. QED
      BY <3>1, <3>2
  <2>2. QED
    BY <1>1, <1>3, <1>6, <2>1 DEF Counts, OutSeekable, bytes_to_copy
<1>14. NotPrimed'
  BY <1>2, <1>6 DEF NotPrimed
<1>15. Places' /\ Ends'
  BY <1>1, <1>2, <1>6 DEF Places, Ends, DriverPlaces, InFlight
<1>16. InOrder'
  <2> SUFFICES ASSUME disturbances = 0 PROVE InOrder'
    BY <1>6 DEF InOrder
  <2>1. /\ \A i \in 1..Len(out) : out[i] = i
        /\ \A i \in 1..Len(hashed) : hashed[i] = i
        /\ Within(Len(hashed)) /\ Reading /\ Writing
    BY <1>1 DEF InOrder
  <2>2. Writing'
    BY ZenonT(40), <1>2, <1>3, <1>6, <2>1 DEF Writing, HoldsFrom
  <2>3. exit_status' = "success" =>
          /\ res \in Nat /\ Block(res)
          /\ ReadAt = Len(hashed) + (IF InSeekable THEN 0 ELSE res)
    <3> SUFFICES ASSUME exit_status' = "success"
                 PROVE  /\ res \in Nat /\ Block(res)
                        /\ ReadAt = Len(hashed) + (IF InSeekable THEN 0 ELSE res)
      OBVIOUS
    <3>1. Head(cq).tag = "read"
      BY DEF HarvestRead, Harvest
    <3>2. /\ res # Interrupted
          /\ res >= 0 => Block(res) /\ ReadAt = Len(hashed) + (IF InSeekable THEN 0 ELSE res)
      BY <1>3, <2>1, <3>1 DEF Reading, res
    <3>3. res \in Nat
      BY <1>3, <1>6, <3>2
    <3>4. QED
      BY <3>2, <3>3
  <2>4. exit_status' = "success" =>
          /\ ~(read_eof' /\ length'[read_slot'] > 0)
          /\ Block(length[read_slot])'
          /\ ReadAt' = Len(hashed') + length'[read_slot']
          /\ read_eof' <=> length'[read_slot'] = 0
    <3> SUFFICES ASSUME exit_status' = "success"
                 PROVE  /\ ~(read_eof' /\ length'[read_slot'] > 0)
                        /\ Block(length[read_slot])'
                        /\ ReadAt' = Len(hashed') + length'[read_slot']
                        /\ read_eof' <=> length'[read_slot'] = 0
      OBVIOUS
    <3>1. length'[read_slot'] = res
      BY <1>4, <1>6, <2>3
    <3>2. read_eof' <=> res = 0
      BY <1>5, <1>6
    <3>3. Block(length[read_slot])'
      BY <1>6, <2>3, <3>1 DEF Block, HoldsFrom, Within, bytes_to_copy
    <3>4. ReadAt' = Len(hashed') + length'[read_slot']
      <4>1. CASE InSeekable
        <5>1. in_file_pos' = in_file_pos + res
          BY <1>4, <1>6, <2>3, <4>1
        <5>2. QED
          BY <1>4, <1>6, <2>3, <3>1, <4>1, <5>1 DEF ReadAt, InSeekable
      <4>2. CASE ~InSeekable
        BY <1>4, <1>6, <2>3, <3>1, <4>2 DEF ReadAt, InSeekable
      <4>3. QED
        BY <4>1, <4>2
    <3>5. QED
      BY <2>3, <3>1, <3>2, <3>3, <3>4
  <2>5. Reading'
    BY <1>3, <1>6, <2>4 DEF Reading
  <2>6. QED
    BY <1>6, <2>1, <2>2, <2>5 DEF InOrder, Within, bytes_to_copy
<1>17. QED
  BY <1>8, <1>9, <1>10, <1>11, <1>12, <1>13, <1>14, <1>15, <1>16 DEF RingInv

LEMMA PrimeStep == RingInv /\ Prime => RingInv'
<1> SUFFICES ASSUME RingInv, Prime PROVE RingInv'
  OBVIOUS
<1> USE DEF Prime, flight_vars, file_pos, result_vars
<1>1. RingTyped /\ Filled /\ NotPrimed /\ Places /\ InOrder /\ Counts /\ InQueues /\ Posted
  BY DEF RingInv
<1>2. /\ sq = {} /\ cq = << >> /\ ~read_in_flight /\ ~write_in_flight /\ ~read_eof
      /\ in_file_pos = 0 /\ out_file_pos = 0 /\ w_bytes = 0 /\ in_off = 0 /\ Len(hashed) = 0
      /\ exit_status = "success" /\ ~write_lost
  BY <1>1 DEF NotPrimed, Places, DriverPlaces, RingTyped
<1>3. bytes_to_copy \in Nat \cup {-1} /\ 0 \in Nat
  BY <1>1, CfgFacts
<1>4. CASE NextReadSize(0) = 0
  <2>1. bytes_to_copy >= 0 /\ 0 >= bytes_to_copy
    BY <1>1, <1>3, <1>4, NextReadFacts
  <2>2. Exhausted
    BY <1>2, <2>1 DEF Exhausted
  <2>3. disturbances = 0 => Everything
    BY <1>2, <2>2, ExhaustedFacts
  <2>4. pc' = "flush" /\ UNCHANGED <<cfg, exit_status, slot_vars, flight_vars, file_pos, sq, cq,
          in_off, out_off, out, disturbances, result_vars>>
    BY <1>4 DEF slot_vars
  <2>5. Places' /\ Ends'
    BY <1>1, <1>2, <2>3, <2>4 DEF Places, Ends, Everything, bytes_to_copy, DriverPlaces
  <2>6. QED
    BY <2>4, <2>5, RingIdles
<1>5. CASE NextReadSize(0) # 0
  <2> DEFINE op == ReadOp(0, NextReadSize(0))
  <2>1. PICK size \in 0..cfg.blocksize : size = NextReadSize(0)
    BY <1>1, <1>3, NextReadFacts
  <2>2. size \in 1..cfg.blocksize /\ (bytes_to_copy >= 0 => size <= bytes_to_copy) /\ size \in Nat
    BY <1>1, <1>3, <1>5, <2>1, NextReadFacts, CfgFacts
  <2>3. /\ sq' = {op} /\ read_in_flight' = TRUE /\ read_slot' = 0 /\ pipeline_primed' = TRUE
        /\ pc' = "harvest" /\ cq' = << >> /\ write_in_flight' = FALSE /\ read_eof' = FALSE
        /\ UNCHANGED <<cfg, exit_status, buf, length, write_slot, in_file_pos, out_file_pos, in_off,
                       out_off, out, disturbances, w_bytes, hashed, write_lost>>
    BY <1>1, <1>2, <1>5 DEF RingTyped
  <2>4. op.tag = "read" /\ op.slot = 0 /\ op.size = size
        /\ op.pos = (IF InSeekable THEN in_file_pos ELSE -1)
    BY <2>1 DEF ReadOp
  <2> HIDE DEF op, Prime
  <2>5. 0 \in Slots
    BY RingAssumption DEF Slots
  <2>6. RingTyped' /\ Filled' /\ Posted' /\ NotPrimed'
    <3>1. RingTyped'
      BY <1>1, <2>3, <2>5 DEF RingTyped, Slots
    <3>2. Filled' /\ NotPrimed'
      BY <1>1, <2>3 DEF Filled, NotPrimed
    <3>3. Posted'
      <4>1. cq' = << >>
        BY <2>3
      <4>2. QED
        BY <4>1 DEF Posted
    <3>4. QED
      BY <3>1, <3>2, <3>3
  <2>7. Submitted'
    BY <2>2, <2>3, <2>4 DEF Submitted, InSeekable
  <2>8. InQueues'
    <3>1. IsFiniteSet(sq') /\ Cardinality(sq') = 1 /\ Len(cq') = 0
      BY <2>3, FS_Singleton
    <3>2. One(read_in_flight') = 1 /\ One(write_in_flight') = 0
      BY <2>3 DEF One
    <3>3. QED
      BY <2>3, <3>1, <3>2 DEF InQueues
  <2>9. Counts' /\ Places' /\ Ends'
    BY <1>1, <1>2, <2>3 DEF Counts, Places, Ends, OutSeekable, bytes_to_copy, DriverPlaces
  <2>10. InOrder'
    <3> SUFFICES ASSUME disturbances = 0 PROVE InOrder'
      BY <2>3 DEF InOrder
    <3>1. Reading'
      <4>1. ReadAt' = 0 /\ Len(hashed') = 0
        BY <1>2, <2>3 DEF ReadAt, InSeekable
      <4>2. bytes_to_copy' = bytes_to_copy
        BY <2>3 DEF bytes_to_copy
      <4>3. QED
        BY <1>3, <2>2, <2>3, <2>4, <4>1, <4>2 DEF Reading
    <3>2. Writing'
      BY <1>2, <2>3, <2>4 DEF Writing
    <3>3. QED
      BY <1>1, <2>3, <3>1, <3>2 DEF InOrder, Within, bytes_to_copy
  <2>11. QED
    BY <2>6, <2>7, <2>8, <2>9, <2>10 DEF RingInv
<1>6. QED
  BY <1>4, <1>5


LEMMA SubmitStep == RingInv /\ Submit => RingInv'
<1> SUFFICES ASSUME RingInv, Submit PROVE RingInv'
  OBVIOUS
<1> USE DEF file_pos
<1>1. RingTyped /\ Filled /\ Submitted /\ Posted /\ InQueues /\ Counts /\ NotPrimed /\ InOrder
      /\ Places
  BY DEF RingInv
<1>2. /\ exit_status = "success" /\ ~read_in_flight /\ ~write_in_flight /\ pipeline_primed
      /\ ~write_lost /\ ~(read_eof /\ length[read_slot] = 0) /\ ~Exhausted
  BY <1>1 DEF Places, DriverPlaces, RingTyped, InFlight, Submit
<1>3. /\ cfg.blocksize \in Nat /\ cfg.source \in Nat /\ bytes_to_copy \in Nat \cup {-1}
      /\ w_bytes \in Nat /\ read_slot \in Slots /\ buf \in [Slots -> Seq(Nat)]
      /\ length[read_slot] \in Nat /\ length[read_slot] <= cfg.blocksize
      /\ hashed \in Seq(Nat) /\ Len(hashed) \in Nat /\ length \in [Slots -> 0..cfg.blocksize]
  BY <1>1, CfgFacts DEF RingTyped
<1>4. sq = {} /\ cq = << >>
  <2>1. sq = {}
    BY <1>1, <1>2 DEF Submitted
  <2>2. ~ \E i \in 1..Len(cq) : TRUE
    <3> SUFFICES ASSUME NEW i \in 1..Len(cq) PROVE FALSE
      OBVIOUS
    <3>1. cq[i].tag \in {"read", "write"}
      <4>1. cq[i] \in [tag : {"read", "write"}, res : Int]
        BY <1>1, ElementOfSeq DEF Posted
      <4>2. QED
        BY <4>1
    <3>2. QED
      BY <1>1, <1>2, <3>1 DEF Posted
  <2>3. Len(cq) \in Nat /\ cq \in Seq([tag : {"read", "write"}, res : Int])
    BY <1>1 DEF Posted
  <2>4. Len(cq) = 0
    BY <2>2, <2>3
  <2>5. QED
    BY <2>1, <2>3, <2>4, EmptySeq
<1>5. Len(out) = w_bytes /\ bytes_to_copy >= 0 => w_bytes < bytes_to_copy
  BY <1>2, <1>3 DEF Exhausted
<1>6. Len(out) = w_bytes
  BY <1>1, <1>4 DEF Counts
<1> DEFINE n    == IF bytes_to_copy >= 0 THEN Least(length[read_slot], bytes_to_copy - w_bytes)
                   ELSE length[read_slot]
           size == IF read_eof THEN 0 ELSE NextReadSize(w_bytes + n)
           slot == NextSlot(read_slot)
           part == SubSeq(buf[read_slot], 1, n)
           w    == WriteOp(read_slot, n)
           r    == ReadOp(slot, size)
<1>7. /\ hashed' = hashed \o part /\ write_in_flight' = TRUE /\ write_slot' = read_slot
      /\ read_eof' = (size = 0)
      /\ size > 0 => sq' = sq \cup {w, r} /\ read_in_flight' = TRUE /\ read_slot' = slot
      /\ ~(size > 0) => sq' = sq \cup {w} /\ UNCHANGED <<read_in_flight, read_slot>>
      /\ pc' = "loop"
      /\ UNCHANGED <<cfg, exit_status, buf, length, pipeline_primed, in_file_pos, out_file_pos, cq,
                     in_off, out_off, out, w_bytes, disturbances, write_lost>>
  BY DEF Submit
<1>8. n \in Nat /\ n <= length[read_slot] /\ (bytes_to_copy >= 0 => w_bytes + n <= bytes_to_copy)
      /\ (bytes_to_copy < 0 \/ w_bytes + length[read_slot] <= bytes_to_copy => n = length[read_slot])
  BY <1>3, <1>5, <1>6 DEF Least
<1>9. slot \in Slots /\ slot # read_slot
  BY <1>3, NextSlotFacts
<1>10. w.tag = "write" /\ w.slot = read_slot /\ w.size = n
       /\ w.pos = (IF OutSeekable THEN out_file_pos ELSE -1)
       /\ r.tag = "read" /\ r.slot = slot /\ r.size = size
       /\ r.pos = (IF InSeekable THEN in_file_pos ELSE -1)
  BY DEF WriteOp, ReadOp
<1> HIDE DEF n, slot, w, r
<1>11. /\ size \in Nat /\ size <= cfg.blocksize
       /\ size > 0 => ~read_eof /\ (bytes_to_copy >= 0 => w_bytes + n + size <= bytes_to_copy)
       /\ size = 0 => read_eof \/ (bytes_to_copy >= 0 /\ w_bytes + n >= bytes_to_copy)
  <2>1. w_bytes + n \in Nat
    BY <1>3, <1>8
  <2>2. PICK total \in Nat : total = w_bytes + n
    BY <2>1
  <2>3. size = IF read_eof THEN 0 ELSE NextReadSize(total)
    BY <2>2
  <2> HIDE DEF size
  <2>4. /\ NextReadSize(total) \in 0..cfg.blocksize
        /\ bytes_to_copy >= 0 /\ NextReadSize(total) > 0 =>
             total + NextReadSize(total) <= bytes_to_copy
        /\ NextReadSize(total) = 0 <=> (bytes_to_copy >= 0 /\ total >= bytes_to_copy)
    BY <1>1, NextReadFacts
  <2>5. QED
    BY <1>3, <2>2, <2>3, <2>4
<1>12. n <= Len(buf[read_slot]) /\ Len(buf[read_slot]) \in Nat /\ buf[read_slot] \in Seq(Nat)
  BY <1>1, <1>3, <1>8 DEF Filled
<1>13. part \in Seq(Nat) /\ Len(part) = n /\ \A i \in 1..n : part[i] = buf[read_slot][i]
  <2>1. PICK block \in Seq(Nat) : block = buf[read_slot]
    BY <1>12
  <2>2. part = SubSeq(block, 0 + 1, n) /\ n <= Len(block) /\ 0 \in Nat
    BY <1>8, <1>12, <2>1
  <2> HIDE DEF part
  <2>3. SubSeq(block, 0 + 1, n) \in Seq(Nat) /\ Len(SubSeq(block, 0 + 1, n)) = (IF 0 <= n THEN n - 0 ELSE 0)
        /\ \A i \in 1..n - 0 : SubSeq(block, 0 + 1, n)[i] = block[0 + i]
    BY <1>8, <2>2, PartFacts
  <2>4. n - 0 = n /\ 0 <= n /\ \A i \in 1..n : 0 + i = i
    BY <1>8
  <2>5. QED
    BY <2>1, <2>2, <2>3, <2>4
<1> HIDE DEF part
<1>14. hashed' \in Seq(Nat) /\ Len(hashed') = Len(hashed) + n
       /\ (\A i \in 1..Len(hashed) : hashed'[i] = hashed[i])
       /\ \A i \in 1..n : hashed'[Len(hashed) + i] = part[i]
  <2>1. PICK p \in Seq(Nat) : p = part
    BY <1>13
  <2>2. PICK h \in Seq(Nat) : h = hashed
    BY <1>3
  <2>3. hashed' = h \o p /\ Len(p) = n
    BY <1>7, <1>13, <2>1, <2>2
  <2>4. /\ h \o p \in Seq(Nat) /\ Len(h \o p) = Len(h) + Len(p)
        /\ \A i \in 1..Len(h) : (h \o p)[i] = h[i]
        /\ \A i \in 1..Len(p) : (h \o p)[Len(h) + i] = p[i]
    BY ConcatFacts
  <2>5. QED
    BY <2>1, <2>2, <2>3, <2>4
<1>15. /\ sq' = (IF size > 0 THEN {w, r} ELSE {w}) /\ w # r /\ cq' = << >>
       /\ size > 0 => read_in_flight' = TRUE /\ read_eof' = FALSE /\ read_slot' = slot
       /\ ~(size > 0) => read_in_flight' = FALSE /\ read_eof' = TRUE /\ read_slot' = read_slot
  <2>1. w # r
    BY <1>10
  <2>2. CASE size > 0
    <3>1. size # 0
      BY <1>11, <2>2
    <3>2. sq' = {w, r} /\ cq' = << >> /\ read_in_flight' = TRUE /\ read_slot' = slot
      BY <1>4, <1>7, <2>2
    <3>3. read_eof' = FALSE
      BY <1>7, <3>1
    <3>4. QED
      BY <2>1, <2>2, <3>2, <3>3
  <2>3. CASE ~(size > 0)
    <3>1. size = 0
      BY <1>11, <2>3
    <3>2. sq' = {w} /\ cq' = << >> /\ UNCHANGED <<read_in_flight, read_slot>>
      BY <1>4, <1>7, <2>3
    <3>3. read_in_flight' = FALSE
      BY <1>1, <1>2, <3>2 DEF RingTyped
    <3>4. read_eof' = TRUE
      BY <1>7, <3>1
    <3>5. QED
      BY <2>1, <2>3, <3>2, <3>3, <3>4
  <2>4. QED
    BY <2>2, <2>3
<1> HIDE DEF size
<1>16. RingTyped'
  BY <1>1, <1>3, <1>7, <1>9, <1>14, <1>15 DEF RingTyped, Slots
<1>17. Filled' /\ NotPrimed'
  BY <1>1, <1>2, <1>7 DEF Filled, NotPrimed
<1>18. Submitted'
  <2>1. bytes_to_copy' = bytes_to_copy /\ InSeekable' = InSeekable /\ OutSeekable' = OutSeekable
    BY <1>7 DEF bytes_to_copy, InSeekable, OutSeekable
  <2>2. \A op \in sq' : op = w \/ (op = r /\ size > 0)
    BY <1>15
  <2>3. size > 0 => size \in 1..cfg.blocksize
    BY <1>3, <1>11
  <2>4. w.size \in Nat /\ w.size <= Len(buf'[write_slot'])
        /\ (bytes_to_copy >= 0 => w_bytes + w.size <= bytes_to_copy)
    BY <1>7, <1>8, <1>10, <1>12
  <2>5. QED
    BY <1>7, <1>10, <1>15, <2>1, <2>2, <2>3, <2>4 DEF Submitted
<1>19. Posted'
  BY <1>15 DEF Posted
<1>20. InQueues'
  <2>1. IsFiniteSet({w}) /\ Cardinality({w}) = 1
    BY FS_Singleton
  <2>2. r \notin {w}
    BY <1>15
  <2>3. IsFiniteSet({w} \cup {r}) /\ Cardinality({w} \cup {r}) = 1 + 1
    BY <2>1, <2>2, FS_AddElement
  <2>4. {w} \cup {r} = {w, r}
    OBVIOUS
  <2>5. One(write_in_flight') = 1 /\ One(read_in_flight') = (IF size > 0 THEN 1 ELSE 0) /\ Len(cq') = 0
    BY <1>7, <1>15 DEF One
  <2>6. read_in_flight' => read_slot' # write_slot' /\ ~read_eof'
    <3>1. write_slot' = read_slot
      BY <1>7
    <3>2. QED
      BY <1>9, <1>15, <3>1
  <2>7. QED
    BY <1>15, <2>1, <2>3, <2>4, <2>5, <2>6 DEF InQueues
<1>21. Counts'
  <2>1. bytes_to_copy' = bytes_to_copy /\ (OutSeekable' <=> OutSeekable)
    BY <1>7 DEF bytes_to_copy, OutSeekable
  <2>2. QED
    BY <1>1, <1>4, <1>5, <1>6, <1>7, <1>15, <2>1 DEF Counts
<1>22. Places' /\ Ends'
  BY <1>1, <1>2, <1>7 DEF Places, Ends, DriverPlaces
<1>23. InOrder'
  <2> SUFFICES ASSUME disturbances = 0 PROVE InOrder'
    BY <1>7 DEF InOrder
  <2>1. /\ \A i \in 1..Len(out) : out[i] = i
        /\ \A i \in 1..Len(hashed) : hashed[i] = i
        /\ Within(Len(hashed)) /\ Reading /\ Writing
    BY <1>1 DEF InOrder
  <2>2. Len(hashed) = w_bytes
    BY <1>2, <2>1 DEF Writing
  <2>3. ~(read_eof /\ length[read_slot] > 0)
    BY <1>2, <1>3, <1>5, <1>6, <2>1, <2>2 DEF Reading
  <2>4. /\ Block(length[read_slot]) /\ ReadAt = Len(hashed) + length[read_slot]
        /\ read_eof <=> length[read_slot] = 0
    BY <1>2, <2>1, <2>3 DEF Reading
  <2>5. ~read_eof /\ length[read_slot] > 0
    BY <1>2, <1>3, <2>4
  <2>6. n = length[read_slot]
    BY <1>3, <1>8, <2>2, <2>4 DEF Block, Within
  <2>7. \A i \in 1..n : buf[read_slot][i] = w_bytes + i
    BY <2>2, <2>4, <2>6 DEF Block, HoldsFrom
  <2>8. Within(Len(hashed))'
    <3>1. Within(Len(hashed) + n)
      BY <2>4, <2>6 DEF Block
    <3>2. QED
      BY <1>7, <1>14, <3>1 DEF Within, bytes_to_copy
  <2>9. \A i \in 1..Len(hashed') : hashed'[i] = i
    <3> SUFFICES ASSUME NEW i \in 1..Len(hashed') PROVE hashed'[i] = i
      OBVIOUS
    <3>1. CASE i <= Len(hashed)
      BY SMTT(30), <1>3, <1>14, <2>1, <3>1
    <3>2. CASE i > Len(hashed)
      <4>1. (i - Len(hashed)) \in 1..n /\ Len(hashed) + (i - Len(hashed)) = i
        BY <1>3, <1>8, <1>14, <3>2
      <4>2. hashed'[Len(hashed) + (i - Len(hashed))] = w_bytes + (i - Len(hashed))
        BY <1>13, <1>14, <2>7, <4>1
      <4>3. QED
        BY <1>3, <2>2, <4>1, <4>2
    <3>3. QED
      BY <1>3, <3>1, <3>2
  <2>10. Reading'
    <3>1. ReadAt' = Len(hashed')
      BY <1>7, <1>14, <2>4, <2>6 DEF ReadAt, InSeekable
    <3>2. bytes_to_copy' = bytes_to_copy
      BY <1>7 DEF bytes_to_copy
    <3>3. \A op \in sq' : op.tag = "read" => op.size = size /\ size > 0
      BY <1>10, <1>15
    <3>4. size > 0 /\ bytes_to_copy >= 0 => Len(hashed') + size <= bytes_to_copy
      BY <1>11, <1>14, <2>2
    <3>5. CASE size > 0
      <4>1. read_in_flight' = TRUE
        BY <1>15, <3>5
      <4>2. QED
        BY <1>15, <3>1, <3>2, <3>3, <3>4, <4>1 DEF Reading
    <3>6. CASE ~(size > 0)
      <4>1. size = 0 /\ read_eof' = TRUE /\ read_slot' = read_slot /\ length' = length
        <5>1. length' = length
          BY <1>7
        <5>2. QED
          BY <1>11, <1>15, <3>6, <5>1
      <4>2. bytes_to_copy >= 0 /\ w_bytes + n = bytes_to_copy
        BY <1>3, <1>8, <1>11, <2>5, <4>1
      <4>3. Len(hashed') = bytes_to_copy
        BY <1>14, <2>2, <4>2
      <4>4. \A op \in sq' : op.tag # "read"
        BY <3>3, <3>6
      <4>5. read_eof' /\ length'[read_slot'] > 0
        BY <2>5, <4>1
      <4>6. QED
        BY <1>15, <3>2, <4>2, <4>3, <4>4, <4>5 DEF Reading
    <3>7. QED
      BY <3>5, <3>6
  <2>11. Writing'
    <3>1. \A op \in sq' : op.tag = "write" => op.size = n
      BY <1>10, <1>15
    <3>2. write_slot' = read_slot /\ buf' = buf /\ w_bytes' = w_bytes /\ write_in_flight' = TRUE
      BY <1>7
    <3>3. Len(hashed') = w_bytes + n
      BY <1>14, <2>2
    <3>4. QED
      BY <1>12, <1>15, <2>7, <3>1, <3>2, <3>3 DEF Writing, HoldsFrom
  <2>12. QED
    BY <1>7, <2>1, <2>8, <2>9, <2>10, <2>11 DEF InOrder
<1>24. QED
  BY <1>16, <1>17, <1>18, <1>19, <1>20, <1>21, <1>22, <1>23 DEF RingInv


LEMMA SyncFacts ==
  ASSUME RingInv, pc = "sync_step"
  PROVE  /\ ~pipeline_primed /\ exit_status = "success" /\ ~write_lost
         /\ sq = {} /\ cq = << >> /\ ~read_in_flight /\ ~write_in_flight
         /\ disturbances = 0 /\ in_off \in Nat /\ in_off <= cfg.source /\ in_off = w_bytes
         /\ out_off = Len(out) /\ Len(out) = w_bytes /\ Len(hashed) = w_bytes
         /\ SyncToRead \in Nat
         /\ SyncToRead > 0 /\ bytes_to_copy >= 0 => w_bytes + SyncToRead <= bytes_to_copy
         /\ SyncToRead = 0 => Exhausted
<1>1. RingTyped /\ Places /\ NotPrimed /\ Counts
  BY DEF RingInv
<1>2. /\ ~pipeline_primed /\ exit_status = "success" /\ ~write_lost
  BY <1>1 DEF Places, DriverPlaces, RingTyped
<1>3. /\ sq = {} /\ cq = << >> /\ ~read_in_flight /\ ~write_in_flight
      /\ disturbances = 0 /\ in_off <= cfg.source /\ in_off = w_bytes
      /\ Len(hashed) = w_bytes /\ out_off = w_bytes
  BY <1>1, <1>2 DEF NotPrimed
<1>4. Len(out) = w_bytes
  BY <1>1, <1>3 DEF Counts
<1>5. in_off \in Nat /\ w_bytes \in Nat
  BY <1>1 DEF RingTyped
<1>6. PICK planned \in Nat : planned = w_bytes
  BY <1>5
<1>7. /\ NextReadSize(planned) \in 0..cfg.blocksize /\ cfg.blocksize \in Nat
      /\ bytes_to_copy >= 0 /\ NextReadSize(planned) > 0 =>
           planned + NextReadSize(planned) <= bytes_to_copy
      /\ NextReadSize(planned) = 0 <=> (bytes_to_copy >= 0 /\ planned >= bytes_to_copy)
  BY <1>1, NextReadFacts, CfgFacts
<1>8. SyncToRead = NextReadSize(planned)
  BY <1>6 DEF SyncToRead
<1>9. SyncToRead \in Nat
  BY <1>7, <1>8
<1>10. SyncToRead > 0 /\ bytes_to_copy >= 0 => w_bytes + SyncToRead <= bytes_to_copy
  BY <1>6, <1>7, <1>8
<1>11. SyncToRead = 0 => Exhausted
  BY <1>6, <1>7, <1>8 DEF Exhausted
<1>12. QED
  BY <1>2, <1>3, <1>4, <1>5, <1>9, <1>10, <1>11

LEMMA SyncEndsStep == RingInv /\ SyncEnds => RingInv'
<1> SUFFICES ASSUME RingInv, SyncEnds PROVE RingInv'
  OBVIOUS
<1> USE DEF SyncEnds, slot_vars, flight_vars, file_pos, result_vars
<1>1. RingTyped /\ Filled /\ Submitted /\ Posted /\ InQueues /\ Counts /\ NotPrimed /\ InOrder
      /\ Places
  BY DEF RingInv
<1>2. pc = "sync_step" /\ pc' = "flush" /\ exit_status' \in {"success", "failure"}
      /\ exit_status = "success"
  BY <1>1, SyncFacts DEF RingTyped
<1>3. /\ ~pipeline_primed /\ ~write_lost
      /\ sq = {} /\ cq = << >> /\ ~read_in_flight /\ ~write_in_flight
      /\ disturbances = 0 /\ in_off \in Nat /\ in_off <= cfg.source /\ in_off = w_bytes
      /\ Len(hashed) = w_bytes /\ SyncToRead \in Nat
      /\ SyncToRead = 0 => Exhausted
  BY <1>2, SyncFacts
<1>4. exit_status' = "success" => Everything
  <2> SUFFICES ASSUME exit_status' = "success" PROVE Everything
    OBVIOUS
  <2>1. CASE SyncToRead = 0
    BY <1>2, <1>3, <2>1, ExhaustedFacts
  <2>2. CASE SyncToRead > 0 /\ 0 \in ReadResults(in_off, SyncToRead)
    <3>1. PICK size \in Nat : size = SyncToRead /\ size >= 1
      BY <1>3, <2>2
    <3>2. PICK from \in Nat : from = in_off
      BY <1>3
    <3>3. 0 \in ReadResults(from, size)
      BY <2>2, <3>1, <3>2
    <3>4. from >= cfg.source
      BY <1>1, <3>1, <3>3, ReadFacts
    <3>5. Len(hashed) = cfg.source
      BY <1>1, <1>3, <3>2, <3>4, CfgFacts
    <3>6. QED
      BY <1>2, <1>3, <3>5, AtEndFacts
  <2>3. QED
    BY <2>1, <2>2
<1>5. Places' /\ Ends'
  BY <1>1, <1>2, <1>3, <1>4 DEF Places, Ends, Everything, bytes_to_copy, DriverPlaces
<1>6. RingTyped' /\ Filled' /\ Submitted' /\ Posted' /\ InQueues' /\ NotPrimed'
  BY <1>1, <1>2 DEF RingTyped, Filled, Submitted, Posted, InQueues, NotPrimed, InSeekable,
         OutSeekable, bytes_to_copy
<1>7. Counts' /\ InOrder'
  BY <1>1, <1>2 DEF Counts, InOrder, Within, Reading, Writing, Block, HoldsFrom, ReadAt,
         InSeekable, OutSeekable, bytes_to_copy
<1>8. QED
  BY <1>5, <1>6, <1>7 DEF RingInv

LEMMA SyncBlockStep == RingInv /\ SyncBlock => RingInv'
<1> SUFFICES ASSUME RingInv, SyncBlock PROVE RingInv'
  OBVIOUS
<1> USE DEF slot_vars, flight_vars, file_pos
<1>1. RingTyped /\ Filled /\ Submitted /\ Posted /\ InQueues /\ Counts /\ NotPrimed /\ InOrder
      /\ Places
  BY DEF RingInv
<1>2. pc = "sync_step" /\ SyncToRead > 0
  BY DEF SyncBlock
<1>3. /\ ~pipeline_primed /\ exit_status = "success" /\ ~write_lost
      /\ sq = {} /\ cq = << >> /\ ~read_in_flight /\ ~write_in_flight
      /\ disturbances = 0 /\ in_off \in Nat /\ in_off <= cfg.source /\ in_off = w_bytes
      /\ out_off = Len(out) /\ Len(out) = w_bytes /\ Len(hashed) = w_bytes /\ SyncToRead \in Nat
      /\ SyncToRead > 0 /\ bytes_to_copy >= 0 => w_bytes + SyncToRead <= bytes_to_copy
  BY <1>2, SyncFacts
<1>4. PICK n \in ReadResults(in_off, SyncToRead) :
        /\ n > 0
        /\ in_off' = in_off + n
        /\ hashed' = hashed \o InputBytes(in_off, n)
        /\ \E m \in {n, 0} :
             /\ out' = WrittenAt(out_off, InputBytes(in_off, m))
             /\ out_off' = out_off + m
             /\ w_bytes' = w_bytes + m
             /\ pc' = IF m = n THEN "loop" ELSE "flush"
             /\ exit_status' = IF m = n THEN exit_status ELSE "failure"
  BY DEF SyncBlock
<1>5. PICK m \in {n, 0} :
        /\ out' = WrittenAt(out_off, InputBytes(in_off, m))
        /\ out_off' = out_off + m
        /\ w_bytes' = w_bytes + m
        /\ pc' = IF m = n THEN "loop" ELSE "flush"
        /\ exit_status' = IF m = n THEN exit_status ELSE "failure"
  BY <1>4
<1>6. UNCHANGED <<cfg, buf, length, read_slot, write_slot, read_in_flight, write_in_flight, read_eof,
        pipeline_primed, in_file_pos, out_file_pos, sq, cq, disturbances, write_lost>>
  BY DEF SyncBlock
<1>7. /\ n \in Nat /\ n <= SyncToRead /\ in_off + n <= cfg.source
      /\ cfg.source \in Nat /\ bytes_to_copy \in Nat \cup {-1} /\ w_bytes \in Nat
  <2>1. PICK size \in Nat : size = SyncToRead /\ size >= 1
    BY <1>2, <1>3
  <2>2. PICK from \in Nat : from = in_off
    BY <1>3
  <2>3. n \in ReadResults(from, size)
    BY <2>1, <2>2
  <2>4. /\ n \in Nat \cup {Failed} /\ n <= size /\ (n > 0 => from + n <= cfg.source)
    BY <1>1, <2>1, <2>3, ReadFacts
  <2>5. n \in Nat
    BY <1>4, <2>4 DEF Failed
  <2>6. QED
    BY <1>1, <1>3, <1>4, <2>1, <2>2, <2>4, <2>5, CfgFacts
<1>8. m \in Nat /\ m <= n /\ (exit_status' = "success" => m = n) /\ pc' \in {"loop", "flush"}
      /\ (pc' = "flush" => exit_status' = "failure") /\ exit_status' \in {"success", "failure"}
  BY <1>3, <1>5, <1>7
<1>9. PICK from \in Nat : from = in_off
  BY <1>3
<1>10. /\ out' \in Seq(Nat) /\ Len(out') = Len(out) + m
       /\ \A i \in 1..Len(out) : out'[i] = out[i]
       /\ \A i \in 1..m : out'[Len(out) + i] = from + i
  <2> DEFINE bytes == InputBytes(from, m)
  <2>1. bytes \in Seq(Nat) /\ Len(bytes) = m /\ \A i \in 1..m : bytes[i] = from + i
    BY <1>8, InputFacts
  <2>2. out \in Seq(Nat)
    BY <1>1 DEF RingTyped
  <2>3. out' = WrittenAt(Len(out), bytes)
    BY <1>3, <1>5, <1>9
  <2> HIDE DEF bytes
  <2>4. /\ WrittenAt(Len(out), bytes) \in Seq(Nat)
        /\ Len(WrittenAt(Len(out), bytes)) = Len(out) + Len(bytes)
        /\ \A i \in 1..Len(out) : WrittenAt(Len(out), bytes)[i] = out[i]
        /\ \A i \in 1..Len(bytes) : WrittenAt(Len(out), bytes)[Len(out) + i] = bytes[i]
    BY <2>1, <2>2, WrittenFacts
  <2>5. QED
    BY <2>1, <2>3, <2>4
<1>11. /\ hashed' \in Seq(Nat) /\ Len(hashed') = Len(hashed) + n
       /\ \A i \in 1..Len(hashed) : hashed'[i] = hashed[i]
       /\ \A i \in 1..n : hashed'[Len(hashed) + i] = from + i
  <2>1. PICK p \in Seq(Nat) : p = InputBytes(from, n) /\ Len(p) = n /\ \A i \in 1..n : p[i] = from + i
    BY <1>7, InputFacts
  <2>2. PICK h \in Seq(Nat) : h = hashed
    BY <1>1 DEF RingTyped
  <2>3. hashed' = h \o p
    BY <1>4, <1>9, <2>1, <2>2
  <2>4. /\ h \o p \in Seq(Nat) /\ Len(h \o p) = Len(h) + Len(p)
        /\ \A i \in 1..Len(h) : (h \o p)[i] = h[i]
        /\ \A i \in 1..Len(p) : (h \o p)[Len(h) + i] = p[i]
    BY ConcatFacts
  <2>5. QED
    BY <2>1, <2>2, <2>3, <2>4
<1>12. in_off' = in_off + n /\ out_off' = out_off + m /\ w_bytes' = w_bytes + m
  BY <1>4, <1>5
<1>13. in_off' \in Nat /\ w_bytes' \in Nat /\ out_off' \in Nat
  BY <1>3, <1>7, <1>8, <1>12
<1>14. RingTyped' /\ Filled' /\ Submitted' /\ Posted' /\ InQueues'
  BY <1>1, <1>6, <1>8, <1>10, <1>11, <1>13, <1>3
     DEF RingTyped, Filled, Submitted, Posted, InQueues, Slots
<1>15. Places' /\ Ends'
  BY <1>1, <1>3, <1>6, <1>8 DEF Places, Ends, DriverPlaces
<1>16. NotPrimed'
  <2>1. in_off' <= cfg.source /\ out_off' = w_bytes'
    BY <1>3, <1>7, <1>12
  <2>2. exit_status' = "success" => in_off' = w_bytes' /\ Len(hashed') = w_bytes'
    BY <1>3, <1>7, <1>8, <1>11, <1>12
  <2>3. QED
    BY <1>1, <1>3, <1>6, <2>1, <2>2 DEF NotPrimed
<1>17. Counts'
  <2>1. Len(out') = w_bytes' /\ out_off' = Len(out')
    BY <1>3, <1>7, <1>8, <1>10, <1>12
  <2>2. bytes_to_copy >= 0 => Len(out') <= bytes_to_copy
    BY <1>2, <1>3, <1>7, <1>8, <1>10
  <2>3. QED
    BY <1>3, <1>6, <2>1, <2>2 DEF Counts, bytes_to_copy
<1>18. InOrder'
  <2>1. /\ \A i \in 1..Len(out) : out[i] = i
        /\ \A i \in 1..Len(hashed) : hashed[i] = i
    BY <1>1, <1>3 DEF InOrder
  <2>2. \A i \in 1..Len(out') : out'[i] = i
    <3> SUFFICES ASSUME NEW i \in 1..Len(out') PROVE out'[i] = i
      OBVIOUS
    <3>1. CASE i <= Len(out)
      BY <1>3, <1>7, <1>10, <2>1, <3>1
    <3>2. CASE i > Len(out)
      <4>1. (i - Len(out)) \in 1..m /\ Len(out) + (i - Len(out)) = i
        BY <1>3, <1>7, <1>8, <1>10, <3>2
      <4>2. QED
        BY <1>3, <1>9, <1>10, <4>1
    <3>3. QED
      BY <1>3, <1>7, <3>1, <3>2
  <2>3. \A i \in 1..Len(hashed') : hashed'[i] = i
    <3> SUFFICES ASSUME NEW i \in 1..Len(hashed') PROVE hashed'[i] = i
      OBVIOUS
    <3>1. CASE i <= Len(hashed)
      BY <1>3, <1>7, <1>11, <2>1, <3>1
    <3>2. CASE i > Len(hashed)
      <4>1. (i - Len(hashed)) \in 1..n /\ Len(hashed) + (i - Len(hashed)) = i
        BY <1>3, <1>7, <1>11, <3>2
      <4>2. QED
        BY <1>3, <1>9, <1>11, <4>1
    <3>3. QED
      BY <1>3, <1>7, <3>1, <3>2
  <2>4. Len(hashed') <= cfg.source /\ (bytes_to_copy >= 0 => Len(hashed') <= bytes_to_copy)
    BY <1>2, <1>3, <1>7, <1>11
  <2>5. Within(Len(hashed))'
    BY <1>6, <2>4 DEF Within, bytes_to_copy
  <2>6. exit_status' = "success" => Len(hashed') = w_bytes'
    BY <1>3, <1>7, <1>8, <1>11, <1>12
  <2>7. Reading' /\ Writing'
    BY <1>3, <1>6, <2>6 DEF Reading, Writing
  <2>8. QED
    BY <2>2, <2>3, <2>5, <2>7 DEF InOrder
<1>19. QED
  BY <1>14, <1>15, <1>16, <1>17, <1>18 DEF RingInv

LEMMA RingStep == RingInv /\ Ring => RingInv'
BY PrimeStep, Settles, HarvestWriteStep, HarvestReadStep, StepEndsStep, SubmitStep,
   FlushHarvestsStep, FlushedStep, SyncBlockStep, SyncEndsStep DEF Ring

------------------------------------------------------------------------------
(* The inductive invariant                                                   *)

Early   == {"start", "dry_run", "setup_input", "check_target", "setup_output", "select"}
Looping == {"loop", "limit", "block", "snapshot", "decrement", "unblock", "print"}
Copied  == {"copied", "fdatasync", "fsync", "close"}

SessionTyped ==
  /\ pc \in Early \cup Looping \cup DriverPlaces \cup Copied \cup {"flush"} \cup Ended
  /\ handler \in [Signals -> {"default", "caught"}]
  /\ masked \in BOOLEAN /\ dd_interrupt_signal \in BOOLEAN /\ interrupt \in BOOLEAN
  /\ pending \subseteq Signals
  /\ dd_info_signal_count \in Nat /\ infos \in Nat
  /\ sent \in Nat /\ received \in Nat /\ answered \in Nat /\ printed \in Nat
  /\ driver \in {"none", "uring", "sync"}
  /\ direct \in BOOLEAN /\ nocache \in BOOLEAN /\ opened \in BOOLEAN /\ synced \in BOOLEAN
  /\ status \in {"none", "success", "failure", "signal"}

\* The counter of SIGUSR1 is only handled while signals are held back.
SignalsHeld ==
  /\ received = answered + dd_info_signal_count
  /\ received + One("INFO" \in pending) <= sent /\ sent <= MaxSignals
  /\ masked <=> pc \in {"snapshot", "decrement", "unblock"}
  /\ pending # {} => masked
  /\ pc = "decrement" => infos = dd_info_signal_count

Answers ==
  /\ pc \in {"unblock", "print"} => printed + 1 >= answered
  /\ pc \in Early \cup DriverPlaces \cup {"loop", "limit", "block", "snapshot", "decrement"}
       => printed >= answered

DriverChosen ==
  /\ pc \in Early => driver = "none"
  /\ pc \notin Early \cup Ended => driver # "none"
  /\ driver # "uring" => ~pipeline_primed
  /\ driver # "sync" /\ ~pipeline_primed => w_bytes = 0
  /\ pc \in {"step", "harvest", "submit"} => driver = "uring"
  /\ pc = "sync_step" => driver = "sync"
  /\ exit_status = "failure" => pc \in {"flush"} \cup Copied \cup Ended

Asked ==
  /\ pc = "setup_output" \/ opened => GuardVerdict(cfg) # "blocked"
  /\ pc \in {"start", "dry_run"} =>
       ~opened /\ (direct <=> cfg.direct # "no") /\ (nocache <=> cfg.nocache)
  /\ pc = "dry_run" => cfg.dry_run
  /\ plan # NoPlan => pc = "exited"
  /\ PlanIsTrue

\* An interrupt that was seen leads to the end by signal.
Leaving ==
  /\ interrupt => pc \in {"decrement", "unblock", "close"} \cup Ended
  /\ pc \notin {"fsync"} \cup Ended => status = "none"
  /\ pc = "fsync" => status \in {"none", "failure"}
  /\ pc \in Copied /\ ~interrupt =>
       sq = {} /\ (exit_status = "success" /\ disturbances = 0 => Everything)
  /\ pc = "close" /\ ~interrupt /\ cfg.conversions \cap {"fdatasync", "fsync"} # {} =>
       synced \/ dd_interrupt_signal
  /\ SuccessIsComplete

IInv ==
  /\ RingInv
  /\ SessionTyped /\ SignalsHeld /\ Answers /\ DriverChosen /\ Asked /\ Leaving

------------------------------------------------------------------------------
(* The ring                                                                  *)

LEMMA SessionInit == Init => IInv
<1> SUFFICES ASSUME Init PROVE IInv
  OBVIOUS
<1> USE DEF Init
<1>1. RingInv
  BY RingInitial
<1>2. /\ cfg \in Configs /\ cfg.nocache \in BOOLEAN /\ MaxSignals \in Nat
      /\ w_bytes = 0 /\ ~pipeline_primed /\ exit_status = "success" /\ out = << >>
  BY SessionAssumption DEF RingInit
<1>3. SessionTyped
  BY <1>2 DEF SessionTyped, Early, Signals
<1>4. SignalsHeld /\ Answers /\ DriverChosen
  BY <1>2 DEF SignalsHeld, Answers, DriverChosen, One, Early
<1>5. Asked
  BY <1>2 DEF Asked, PlanIsTrue
<1>6. Leaving
  BY <1>2 DEF Leaving, SuccessIsComplete, AtEnd, Ended, Copied
<1>7. QED
  BY <1>1, <1>3, <1>4, <1>5, <1>6 DEF IInv

\* What the program does outside the driver: the ring is left alone.
Outside ==
  \/ InstallHandlers \/ DryRun \/ SetupInput \/ CheckTarget \/ RefuseTarget
  \/ OpenFails \/ SetupOutput \/ ChooseDriver
  \/ LoopChecks \/ BlockSignals \/ Snapshot \/ Decrement
  \/ UnblockSignals \/ PrintForSignal
  \/ EngineCleanup \/ DataSync \/ Sync \/ CloseFails \/ Finish

LEMMA OutsideFacts ==
  ASSUME Outside
  PROVE  RingUnchanged /\ pc' \notin DriverPlaces \cup {"flush"} /\ pc \notin Ended
<1> USE DEF Ended, Goto, Exit, DriverPlaces
<1>1. CASE InstallHandlers \/ DryRun \/ SetupInput \/ CheckTarget \/ RefuseTarget
  BY <1>1 DEF InstallHandlers, DryRun, SetupInput, CheckTarget, RefuseTarget
<1>2. CASE OpenFails \/ SetupOutput \/ ChooseDriver
  BY <1>2 DEF OpenFails, SetupOutput, ChooseDriver
<1>3. CASE LoopChecks \/ EngineCleanup
  BY <1>3 DEF LoopChecks, EngineCleanup, all_but_pc, RingUnchanged
<1>4. CASE BlockSignals \/ Snapshot \/ Decrement \/ UnblockSignals \/ PrintForSignal
  BY <1>4 DEF BlockSignals, Snapshot, Decrement, UnblockSignals, PrintForSignal
<1>5. CASE DataSync \/ Sync \/ CloseFails \/ Finish
  BY <1>5 DEF DataSync, Sync, CloseFails, Finish
<1>6. QED
  BY <1>1, <1>2, <1>3, <1>4, <1>5 DEF Outside

LEMMA RingStays ==
  ASSUME RingInv, RingUnchanged, pc' = pc \/ pc' \notin DriverPlaces \cup {"flush"}
  PROVE  RingInv'
<1> USE DEF RingUnchanged, slot_vars, flight_vars, file_pos, result_vars
<1>1. Places'
  BY DEF RingInv, Places, InFlight, DriverPlaces
<1>2. Ends'
  BY DEF RingInv, Ends, Everything, bytes_to_copy
<1>3. QED
  BY <1>1, <1>2, RingIdles

\* The driver is entered, or the copy is over.
LEMMA RingEntered == IInv /\ CheckLimit => RingInv'
<1> SUFFICES ASSUME IInv, CheckLimit PROVE RingInv'
  OBVIOUS
<1> USE DEF CheckLimit, all_but_pc, slot_vars, flight_vars, file_pos, result_vars
<1>1. RingInv /\ RingTyped /\ Places /\ DriverChosen
  BY DEF IInv, RingInv
<1>2. exit_status = "success"
  BY <1>1 DEF RingTyped, DriverChosen, Copied, Ended
<1>3. CASE Exhausted
  <2>1. ~write_in_flight /\ (disturbances = 0 => Everything)
    BY <1>1, <1>2, <1>3, ExhaustedFacts
  <2>2. Places' /\ Ends'
    BY <1>1, <1>2, <1>3, <2>1 DEF Places, Ends, Everything, bytes_to_copy, DriverPlaces
  <2>3. QED
    BY <1>1, <2>2, RingIdles
<1>4. CASE ~Exhausted
  <2>1. Places' /\ Ends'
    BY <1>1, <1>2, <1>4 DEF Places, Ends, DriverPlaces, DriverChosen
  <2>2. QED
    BY <1>1, <2>1, RingIdles
<1>5. QED
  BY <1>3, <1>4

LEMMA RingPart == IInv /\ [Next]_vars => RingInv'
<1> SUFFICES ASSUME IInv, [Next]_vars PROVE RingInv'
  OBVIOUS
<1>0. RingInv
  BY DEF IInv
<1>1. CASE Outside
  BY <1>0, <1>1, OutsideFacts, RingStays
<1>2. CASE CheckLimit
  BY <1>2, RingEntered
<1>3. CASE Ring
  BY <1>0, <1>3, RingStep
<1>4. CASE Kernel
  BY <1>0, <1>4, KernelStep
<1>5. CASE Environment
  <2>1. PICK s \in Signals : SignalCaught(s) \/ SignalBlocked(s) \/ SignalKills(s)
    BY <1>5 DEF Environment
  <2>2. CASE SignalCaught(s)
    <3>1. UNCHANGED cfg /\ (WaitInterrupted \/ UNCHANGED ring_vars)
      BY <2>2 DEF SignalCaught
    <3>2. CASE WaitInterrupted
      BY <1>0, <3>1, <3>2, Settles
    <3>3. CASE UNCHANGED ring_vars
      <4>1. RingUnchanged /\ pc' = pc
        BY <3>1, <3>3 DEF RingUnchanged, ring_vars, slot_vars, result_vars
      <4>2. QED
        BY <1>0, <4>1, RingStays
    <3>4. QED
      BY <3>1, <3>2, <3>3
  <2>3. CASE SignalBlocked(s)
    BY <1>0, <2>3, RingStays DEF SignalBlocked
  <2>4. CASE SignalKills(s)
    <3>1. RingUnchanged /\ pc' = "killed"
      BY <2>4 DEF SignalKills
    <3>2. QED
      BY <1>0, <3>1, RingStays DEF DriverPlaces
  <2>5. QED
    BY <2>1, <2>2, <2>3, <2>4
<1>6. CASE UNCHANGED vars
  BY <1>0, <1>6, RingStays DEF vars, all_but_pc, RingUnchanged
<1>7. QED
  BY <1>1, <1>2, <1>3, <1>4, <1>5, <1>6 DEF Next, Program, Outside

------------------------------------------------------------------------------
(* Steps of the driver and the kernel, seen from the program                 *)

\* Where a step of the driver leads, and what it leaves behind.
LEMMA RingMoves ==
  ASSUME IInv, Ring
  PROVE  /\ cfg' = cfg
         /\ \/ pc \in DriverPlaces /\ pc' \in {"harvest", "submit", "loop", "flush"}
            \/ pc = "flush" /\ pc' \in {"flush", "copied"}
         /\ pc' \in {"harvest", "submit"} => driver = "uring"
         /\ pipeline_primed' => driver = "uring"
         /\ driver # "sync" /\ ~pipeline_primed' => w_bytes' = 0
         /\ exit_status' = "failure" => pc' \in {"flush", "copied"}
         /\ pc' = "copied" =>
              sq' = {} /\ (exit_status' = "success" /\ disturbances' = 0 => Everything')
<1> USE DEF DriverPlaces, slot_vars, flight_vars, file_pos, result_vars, HarvestUntouched
<1>1. RingInv /\ RingTyped /\ Places /\ NotPrimed /\ Ends /\ DriverChosen /\ SessionTyped
  BY DEF IInv, RingInv
<1>2. /\ pc \in {"step", "harvest", "submit"} => driver = "uring"
      /\ pc = "sync_step" => driver = "sync"
      /\ driver # "uring" => ~pipeline_primed
      /\ driver # "sync" /\ ~pipeline_primed => w_bytes = 0
      /\ pc \in DriverPlaces => exit_status = "success"
      /\ pc \in {"harvest", "submit"} => pipeline_primed
      /\ pc = "sync_step" => ~pipeline_primed
      /\ write_in_flight => pipeline_primed
      /\ pipeline_primed \in BOOLEAN
  BY <1>1 DEF DriverChosen, Places, NotPrimed, RingTyped
<1>3. CASE Prime
  BY <1>2, <1>3 DEF Prime
<1>4. CASE Resume \/ Settled \/ StepEnds
  BY <1>2, <1>4 DEF Resume, Settled, StepEnds
<1>5. CASE HarvestWrite
  BY <1>2, <1>5 DEF HarvestWrite, Harvest
<1>6. CASE HarvestRead
  BY <1>2, <1>6 DEF HarvestRead, Harvest
<1>7. CASE Submit
  BY <1>2, <1>7 DEF Submit
<1>8. CASE FlushHarvests
  BY <1>2, <1>8 DEF FlushHarvests
<1>9. CASE Flushed
  <2>1. exit_status' = "success" /\ disturbances' = 0 => Everything'
    BY <1>1, <1>9 DEF Flushed, Ends, Everything, bytes_to_copy
  <2>2. QED
    BY <1>2, <1>9, <2>1 DEF Flushed
<1>10. CASE SyncBlock
  BY <1>2, <1>10 DEF SyncBlock
<1>11. CASE SyncEnds
  BY <1>2, <1>11 DEF SyncEnds
<1>12. QED
  BY <1>3, <1>4, <1>5, <1>6, <1>7, <1>8, <1>9, <1>10, <1>11 DEF Ring

LEMMA KernelMoves ==
  ASSUME Kernel
  PROVE  /\ KernelUntouched /\ sq # {}
<1>1. CASE KernelReads
  BY <1>1 DEF KernelReads
<1>2. CASE KernelWrites
  BY <1>2 DEF KernelWrites
<1>3. CASE KernelInterrupts \/ KernelFailsWrite
  BY <1>3 DEF KernelInterrupts, KernelFailsWrite
<1>4. QED
  BY <1>1, <1>2, <1>3 DEF Kernel

\* Of the variables of the program a step of the driver or the kernel changes
\* none but pc.
LEMMA SessionRing ==
  ASSUME IInv, Ring \/ Kernel, pc \notin Ended, UNCHANGED session_vars
  PROVE  SessionTyped' /\ SignalsHeld' /\ Answers' /\ DriverChosen' /\ Asked' /\ Leaving'
<1> USE DEF session_vars, signal_vars, poll_vars, stream_vars, outcome_vars
<1>1. SessionTyped /\ SignalsHeld /\ Answers /\ DriverChosen /\ Asked /\ Leaving
  BY DEF IInv
<1>2. plan = NoPlan
  BY <1>1 DEF Asked, Ended
<1>3. CASE Ring
  <2>1. /\ cfg' = cfg
        /\ \/ pc \in DriverPlaces /\ pc' \in {"harvest", "submit", "loop", "flush"}
           \/ pc = "flush" /\ pc' \in {"flush", "copied"}
        /\ pc' \in {"harvest", "submit"} => driver = "uring"
        /\ pipeline_primed' => driver = "uring"
        /\ driver # "sync" /\ ~pipeline_primed' => w_bytes' = 0
        /\ exit_status' = "failure" => pc' \in {"flush", "copied"}
        /\ pc' = "copied" =>
             sq' = {} /\ (exit_status' = "success" /\ disturbances' = 0 => Everything')
    BY <1>3, RingMoves
  <2>2. SessionTyped' /\ SignalsHeld'
    BY <1>1, <2>1 DEF SessionTyped, SignalsHeld, Early, Looping, Copied, DriverPlaces, Ended
  <2>3. Answers' /\ DriverChosen'
    BY <1>1, <2>1 DEF Answers, DriverChosen, DriverPlaces, Early, Copied
  <2>4. Asked'
    BY <1>1, <1>2, <2>1 DEF Asked, PlanIsTrue, DriverPlaces, GuardVerdict, Guarded
  <2>5. Leaving'
    BY <1>1, <2>1 DEF Leaving, SuccessIsComplete, AtEnd, DriverPlaces, Copied, Ended
  <2>6. QED
    BY <2>2, <2>3, <2>4, <2>5
<1>4. CASE Kernel
  <2>1. KernelUntouched /\ sq # {}
    BY <1>4, KernelMoves
  <2> USE DEF KernelUntouched, flight_vars, result_vars
  <2>2. SessionTyped' /\ SignalsHeld' /\ Answers' /\ DriverChosen'
    BY <1>1, <2>1 DEF SessionTyped, SignalsHeld, Answers, DriverChosen
  <2>3. Asked'
    BY <1>1, <1>2, <2>1 DEF Asked, PlanIsTrue, GuardVerdict, Guarded
  <2>4. Leaving'
    BY <1>1, <2>1 DEF Leaving, SuccessIsComplete, AtEnd, Ended
  <2>5. QED
    BY <2>2, <2>3, <2>4
<1>5. QED
  BY <1>3, <1>4

------------------------------------------------------------------------------
(* Signals from outside                                                      *)

LEMMA SessionSignals ==
  ASSUME IInv, Environment
  PROVE  SessionTyped' /\ SignalsHeld' /\ Answers' /\ DriverChosen' /\ Asked' /\ Leaving'
<1>1. SessionTyped /\ SignalsHeld /\ Answers /\ DriverChosen /\ Asked /\ Leaving
  BY DEF IInv
<1>2. PICK s \in Signals : SignalCaught(s) \/ SignalBlocked(s) \/ SignalKills(s)
  BY DEF Environment
<1>3. /\ cfg' = cfg /\ plan = NoPlan /\ pc \notin Ended /\ UNCHANGED stream_vars
      /\ UNCHANGED poll_vars /\ plan' = plan /\ synced' = synced
      /\ UNCHANGED <<exit_status, sq, disturbances, out, hashed, w_bytes, pipeline_primed>>
      /\ pc' = pc \/ (pc = "harvest" /\ pc' = "loop") \/ pc' = "killed"
      /\ pc' = pc \/ pc' = "loop" => status' = status /\ (dd_interrupt_signal => dd_interrupt_signal')
      /\ pc' = "killed" => status' = "signal"
  <2>1. CASE SignalCaught(s)
    BY <1>1, <2>1 DEF SignalCaught, RunHandlers, WaitInterrupted, ring_vars, slot_vars, flight_vars,
         file_pos, result_vars, outcome_vars, Asked, Ended
  <2>2. CASE SignalBlocked(s)
    BY <1>1, <2>2 DEF SignalBlocked, RingUnchanged, slot_vars, flight_vars, file_pos, result_vars,
         outcome_vars, Asked, Ended
  <2>3. CASE SignalKills(s)
    BY <1>1, <2>3 DEF SignalKills, RingUnchanged, slot_vars, flight_vars, file_pos, result_vars,
         signal_vars, Asked, Ended
  <2>4. QED
    BY <1>2, <2>1, <2>2, <2>3
<1> USE DEF stream_vars, poll_vars
<1>4. SessionTyped' /\ SignalsHeld'
  <2> USE DEF Signals, SessionTyped, SignalsHeld, Early, Looping, Copied, DriverPlaces, Ended, One
  <2>1. CASE SignalCaught(s)
    <3>1. /\ handler' \in [Signals -> {"default", "caught"}]
          /\ dd_interrupt_signal' \in BOOLEAN /\ pending' = pending /\ masked' = masked
          /\ pending = {} /\ ~masked /\ sent' = sent + 1 /\ sent < MaxSignals
          /\ dd_info_signal_count' = dd_info_signal_count + (IF "INFO" \in {s} THEN 1 ELSE 0)
          /\ received' = received + (IF "INFO" \in {s} THEN 1 ELSE 0)
      BY <1>1, <2>1 DEF SignalCaught, RunHandlers
    <3>2. MaxSignals \in Nat
      BY SessionAssumption
    <3>3. SessionTyped'
      BY <1>1, <1>3, <3>1
    <3>4. SignalsHeld'
      BY <1>1, <1>3, <3>1, <3>2
    <3>5. QED
      BY <3>3, <3>4
  <2>2. CASE SignalBlocked(s)
    <3>1. /\ handler' = handler /\ dd_interrupt_signal' = dd_interrupt_signal
          /\ pending' = pending \cup {s} /\ masked' = masked /\ pc' = pc
          /\ masked /\ sent' = sent + 1 /\ sent < MaxSignals
          /\ dd_info_signal_count' = dd_info_signal_count /\ received' = received
      BY <1>1, <2>2 DEF SignalBlocked
    <3>2. MaxSignals \in Nat
      BY SessionAssumption
    <3>3. SessionTyped'
      BY <1>1, <1>3, <3>1
    <3>4. SignalsHeld'
      BY <1>1, <1>3, <3>1, <3>2
    <3>5. QED
      BY <3>3, <3>4
  <2>3. CASE SignalKills(s)
    <3>1. /\ UNCHANGED signal_vars /\ pc' = "killed" /\ status' = "signal"
          /\ ~masked /\ sent' = sent + 1 /\ sent < MaxSignals
      BY <1>1, <2>3 DEF SignalKills
    <3>2. MaxSignals \in Nat
      BY SessionAssumption
    <3>3. SessionTyped'
      BY <1>1, <1>3, <3>1 DEF signal_vars
    <3>4. SignalsHeld'
      BY <1>1, <1>3, <3>1, <3>2 DEF signal_vars
    <3>5. QED
      BY <3>3, <3>4
  <2>4. QED
    BY <1>2, <2>1, <2>2, <2>3
<1>5. Answers' /\ DriverChosen'
  BY <1>1, <1>3 DEF Answers, DriverChosen, Early, DriverPlaces, Copied, Ended
<1>6. Asked'
  BY <1>1, <1>3 DEF Asked, PlanIsTrue, GuardVerdict, Guarded, Ended
<1>7. Leaving'
  BY <1>1, <1>3 DEF Leaving, SuccessIsComplete, AtEnd, Copied, Ended, Everything, bytes_to_copy
<1>8. QED
  BY <1>4, <1>5, <1>6, <1>7

------------------------------------------------------------------------------
(* Steps of the program outside the driver                                   *)

LEMMA TypedStep == IInv /\ (Outside \/ CheckLimit) => SessionTyped'
<1> SUFFICES ASSUME IInv, Outside \/ CheckLimit PROVE SessionTyped'
  OBVIOUS
<1>1. SessionTyped /\ RingTyped
  BY DEF IInv, RingInv
<1>2. exit_status \in {"success", "failure"} /\ Signals = {"INT", "INFO"}
  BY <1>1 DEF RingTyped, Signals
<1> USE DEF SessionTyped, Early, Looping, Copied, DriverPlaces, Ended, Goto, Exit,
        session_vars, signal_vars, poll_vars, stream_vars, outcome_vars
<1>3. CASE InstallHandlers \/ DryRun \/ RefuseTarget \/ OpenFails
  BY <1>1, <1>3 DEF InstallHandlers, DryRun, RefuseTarget, OpenFails
<1>4. CASE SetupInput
  <2>1. direct' \in BOOLEAN /\ nocache' \in BOOLEAN
    BY <1>4 DEF SetupInput
  <2>2. QED
    BY <1>1, <1>4, <2>1 DEF SetupInput
<1>5. CASE CheckTarget \/ SetupOutput \/ ChooseDriver
  <2>1. opened' \in BOOLEAN
    BY <1>1, <1>5 DEF CheckTarget, SetupOutput, ChooseDriver
  <2>2. driver' \in {"none", "uring", "sync"} /\ pc' \in {"setup_output", "select", "loop"}
    BY <1>1, <1>5 DEF CheckTarget, SetupOutput, ChooseDriver
  <2>3. UNCHANGED <<signal_vars, sent, poll_vars, direct, nocache, outcome_vars>>
    BY <1>5 DEF CheckTarget, SetupOutput, ChooseDriver
  <2>4. QED
    BY <1>1, <2>1, <2>2, <2>3
<1>6. CASE LoopChecks \/ CheckLimit \/ EngineCleanup
  BY <1>1, <1>6 DEF LoopChecks, CheckLimit, EngineCleanup, all_but_pc
<1>7. CASE BlockSignals \/ Snapshot
  <2>1. masked' \in BOOLEAN
    BY <1>1, <1>7 DEF BlockSignals, Snapshot
  <2>2. interrupt' \in BOOLEAN /\ infos' \in Nat
    BY <1>1, <1>7 DEF BlockSignals, Snapshot
  <2>3. /\ pc' \in {"snapshot", "decrement"}
        /\ UNCHANGED <<handler, pending, dd_interrupt_signal, dd_info_signal_count, received, sent,
                       answered, printed, stream_vars, outcome_vars>>
    BY <1>7 DEF BlockSignals, Snapshot
  <2>4. QED
    BY <1>1, <2>1, <2>2, <2>3
<1>8. CASE Decrement
  BY <1>1, <1>8 DEF Decrement
<1>9. CASE UnblockSignals
  <2>1. dd_interrupt_signal' \in BOOLEAN
    BY <1>9 DEF UnblockSignals, RunHandlers
  <2>2. handler' \in [Signals -> {"default", "caught"}]
    BY <1>1, <1>2, <1>9 DEF UnblockSignals, RunHandlers
  <2>3. dd_info_signal_count' \in Nat /\ received' \in Nat
    BY <1>1, <1>9 DEF UnblockSignals, RunHandlers
  <2>4. status' \in {status, "signal"} /\ pc' \in {"killed", "close", "print"}
    BY <1>9 DEF UnblockSignals
  <2>5. QED
    BY ZenonT(40), <1>1, <1>9, <2>1, <2>2, <2>3, <2>4 DEF UnblockSignals
<1>10. CASE PrintForSignal
  BY <1>1, <1>10 DEF PrintForSignal
<1>11. CASE DataSync
  <2>1. synced' \in BOOLEAN
    BY <1>1, <1>11 DEF DataSync
  <2>2. /\ pc' \in {"fsync", "close"} /\ status' \in {status, "failure"}
        /\ UNCHANGED <<signal_vars, sent, poll_vars, stream_vars>>
    BY <1>11 DEF DataSync
  <2>3. QED
    BY <1>1, <2>1, <2>2
<1>12. CASE Sync
  BY ZenonT(40), <1>1, <1>12 DEF Sync
<1>13. CASE CloseFails \/ Finish
  <2>1. /\ pc' \in {"exited", "killed"} /\ status' \in {"signal", "failure", exit_status}
        /\ printed' \in {printed, printed + 1}
        /\ UNCHANGED <<signal_vars, sent, interrupt, infos, answered, stream_vars, synced>>
    BY <1>13 DEF CloseFails, Finish
  <2>2. QED
    BY <1>1, <1>2, <2>1
<1>14. QED
  BY <1>3, <1>4, <1>5, <1>6, <1>7, <1>8, <1>9, <1>10, <1>11, <1>12, <1>13 DEF Outside

LEMMA SignalsStep == IInv /\ (Outside \/ CheckLimit) => SignalsHeld'
<1> SUFFICES ASSUME IInv, Outside \/ CheckLimit PROVE SignalsHeld'
  OBVIOUS
<1>1. SessionTyped /\ SignalsHeld
  BY DEF IInv
<1>2. /\ dd_info_signal_count \in Nat /\ infos \in Nat /\ answered \in Nat /\ received \in Nat
      /\ sent \in Nat /\ masked \in BOOLEAN /\ pending \subseteq Signals /\ MaxSignals \in Nat
  BY <1>1, SessionAssumption DEF SessionTyped
<1> USE DEF SignalsHeld, Goto, Exit, One,
        session_vars, signal_vars, poll_vars, stream_vars, outcome_vars
<1>3. CASE InstallHandlers \/ DryRun \/ RefuseTarget \/ OpenFails
  BY <1>1, <1>2, <1>3 DEF InstallHandlers, DryRun, RefuseTarget, OpenFails
<1>4. CASE SetupInput \/ CheckTarget \/ SetupOutput \/ ChooseDriver
  BY <1>1, <1>2, <1>4 DEF SetupInput, CheckTarget, SetupOutput, ChooseDriver
<1>5. CASE LoopChecks \/ CheckLimit \/ EngineCleanup
  BY <1>1, <1>2, <1>5 DEF LoopChecks, CheckLimit, EngineCleanup, all_but_pc
<1>6. CASE BlockSignals \/ Snapshot \/ PrintForSignal
  BY <1>1, <1>2, <1>6 DEF BlockSignals, Snapshot, PrintForSignal
<1>7. CASE Decrement
  BY <1>1, <1>2, <1>7 DEF Decrement
<1>8. CASE UnblockSignals
  BY <1>1, <1>2, <1>8 DEF UnblockSignals, RunHandlers
<1>9. CASE DataSync \/ Sync \/ CloseFails \/ Finish
  BY <1>1, <1>2, <1>9 DEF DataSync, Sync, CloseFails, Finish
<1>10. QED
  BY <1>3, <1>4, <1>5, <1>6, <1>7, <1>8, <1>9 DEF Outside

LEMMA AnswersStep == IInv /\ (Outside \/ CheckLimit) => Answers'
<1> SUFFICES ASSUME IInv, Outside \/ CheckLimit PROVE Answers'
  OBVIOUS
<1>1. Answers /\ answered \in Nat /\ printed \in Nat
  BY DEF IInv, SessionTyped
<1> USE DEF Answers, Early, DriverPlaces, Goto, Exit,
        session_vars, signal_vars, poll_vars, stream_vars, outcome_vars
<1>2. CASE InstallHandlers \/ DryRun \/ RefuseTarget \/ OpenFails
  BY <1>1, <1>2 DEF InstallHandlers, DryRun, RefuseTarget, OpenFails
<1>3. CASE SetupInput \/ CheckTarget \/ SetupOutput \/ ChooseDriver
  BY <1>1, <1>3 DEF SetupInput, CheckTarget, SetupOutput, ChooseDriver
<1>4. CASE LoopChecks \/ CheckLimit \/ EngineCleanup
  BY <1>1, <1>4 DEF LoopChecks, CheckLimit, EngineCleanup, all_but_pc
<1>5. CASE BlockSignals \/ Snapshot \/ Decrement
  BY <1>1, <1>5 DEF BlockSignals, Snapshot, Decrement
<1>6. CASE UnblockSignals \/ PrintForSignal
  BY <1>1, <1>6 DEF UnblockSignals, PrintForSignal
<1>7. CASE DataSync \/ Sync \/ CloseFails \/ Finish
  BY <1>1, <1>7 DEF DataSync, Sync, CloseFails, Finish
<1>8. QED
  BY <1>2, <1>3, <1>4, <1>5, <1>6, <1>7 DEF Outside

LEMMA DriverStep == IInv /\ (Outside \/ CheckLimit) => DriverChosen'
<1> SUFFICES ASSUME IInv, Outside \/ CheckLimit PROVE DriverChosen'
  OBVIOUS
<1>1. DriverChosen /\ driver \in {"none", "uring", "sync"}
  BY DEF IInv, SessionTyped
<1>2. UNCHANGED <<exit_status, pipeline_primed, w_bytes>>
  <2>1. CASE Outside
    BY <2>1, OutsideFacts DEF RingUnchanged, flight_vars, result_vars
  <2>2. CASE CheckLimit
    BY <2>2 DEF CheckLimit, all_but_pc, flight_vars, result_vars
  <2>3. QED
    BY <2>1, <2>2
<1> USE DEF DriverChosen, Early, Copied, Ended, Goto, Exit,
        session_vars, signal_vars, poll_vars, stream_vars, outcome_vars
<1>3. CASE InstallHandlers \/ DryRun \/ RefuseTarget \/ OpenFails
  BY <1>1, <1>2, <1>3 DEF InstallHandlers, DryRun, RefuseTarget, OpenFails
<1>4. CASE SetupInput \/ CheckTarget \/ SetupOutput
  BY <1>1, <1>2, <1>4 DEF SetupInput, CheckTarget, SetupOutput
<1>5. CASE ChooseDriver
  BY <1>1, <1>2, <1>5 DEF ChooseDriver
<1>6. CASE LoopChecks \/ CheckLimit \/ EngineCleanup
  BY <1>1, <1>2, <1>6 DEF LoopChecks, CheckLimit, EngineCleanup, all_but_pc
<1>7. CASE BlockSignals \/ Snapshot \/ Decrement \/ UnblockSignals \/ PrintForSignal
  BY <1>1, <1>2, <1>7 DEF BlockSignals, Snapshot, Decrement, UnblockSignals, PrintForSignal
<1>8. CASE DataSync \/ Sync \/ CloseFails \/ Finish
  BY <1>1, <1>2, <1>8 DEF DataSync, Sync, CloseFails, Finish
<1>9. QED
  BY <1>3, <1>4, <1>5, <1>6, <1>7, <1>8 DEF Outside

\* Outside the blind spot the plan decides as the program does.
LEMMA PlanAgrees ==
  ASSUME cfg \in Configs, ~PlanBlindSpot
  PROVE  PlannedEngine = SelectDriver
<1>1. cfg.named /\ "blks" \notin cfg.conversions /\ ~(cfg.threads > 1)
  BY SessionAssumption DEF PlanBlindSpot
<1>2. cfg.conversions \cap ((Incompatible \ {"blks"}) \cup {"fullblock"})
        = cfg.conversions \cap (Incompatible \cup {"fullblock"})
  BY <1>1
<1>3. Untouched(cfg, Incompatible \ {"blks"}, direct, nocache)
        <=> Untouched(cfg, Incompatible, direct, nocache)
  BY <1>2 DEF Untouched
<1>4. CASE cfg.engine # "auto"
  BY <1>4 DEF PlannedEngine, SelectDriver
<1>5. CASE cfg.engine = "auto"
  <2> DEFINE kinds == {cfg.in_kind, OpenedKind(cfg)}
             uring == /\ cfg.conversions \cap {"swab", "autotune"} = {}
                      /\ "block" \in kinds \/ direct
             real  == /\ cfg.conversions \cap {"swab", "autotune"} = {}
                      /\ "block" \in kinds \/ direct \/ cfg.threads > 1
  <2>1. PlannedEngine = AutoDriver(Untouched(cfg, Incompatible \ {"blks"}, direct, nocache),
                                   kinds = {"regular"}, uring, "pipe" \in kinds)
    BY <1>1, <1>5 DEF PlannedEngine
  <2>2. SelectDriver = AutoDriver(Untouched(cfg, Incompatible, direct, nocache),
                                  kinds = {"regular"}, real, "pipe" \in kinds)
    BY <1>5 DEF SelectDriver
  <2>3. uring <=> real
    BY <1>1
  <2>4. QED
    BY <1>3, <2>1, <2>2, <2>3 DEF AutoDriver
<1>6. QED
  BY <1>4, <1>5

LEMMA AskedStep == IInv /\ (Outside \/ CheckLimit) => Asked'
<1> SUFFICES ASSUME IInv, Outside \/ CheckLimit PROVE Asked'
  OBVIOUS
<1>1. Asked /\ cfg \in Configs
  BY DEF IInv, RingInv, RingTyped
<1>2. RingUnchanged /\ cfg' = cfg /\ pc \notin Ended
  <2>1. CASE Outside
    BY <2>1, OutsideFacts DEF RingUnchanged
  <2>2. CASE CheckLimit
    BY <2>2 DEF CheckLimit, all_but_pc, RingUnchanged, Ended
  <2>3. QED
    BY <2>1, <2>2
<1>3. plan = NoPlan /\ GuardVerdict(cfg)' = GuardVerdict(cfg)
  BY <1>1, <1>2 DEF Asked, Ended, GuardVerdict, Guarded
<1>4. CASE DryRun
  <2>1. pc = "dry_run" /\ pc' = "exited" /\ ~opened' /\ UNCHANGED stream_vars
        /\ plan' = [engine |-> PlannedEngine, guard |-> GuardVerdict(cfg)]
    BY <1>1, <1>4 DEF DryRun, Goto, stream_vars, Asked
  <2>2. out' = << >>
    <3>1. out' = out /\ out \in Seq(Nat)
      BY <1>2 DEF RingUnchanged, IInv, RingInv, RingTyped
    <3>2. Len(out) = 0
      BY <2>1 DEF IInv, RingInv, DriverChosen, Early, NotPrimed, Counts
    <3>3. QED
      BY <3>1, <3>2
  <2>3. ~PlanBlindSpot' => PlannedEngine = SelectDriver'
    <3>1. PlanBlindSpot' <=> PlanBlindSpot
      BY <1>2 DEF PlanBlindSpot
    <3>2. SelectDriver' = SelectDriver
      BY <1>2, <2>1 DEF SelectDriver, Untouched, OpenedKind, AutoDriver, stream_vars
    <3>3. QED
      BY <1>1, <3>1, <3>2, PlanAgrees
  <2>4. GuardVerdict(cfg) = "blocked" <=> (Guarded(cfg)' /\ ~cfg'.force)
    BY <1>2 DEF GuardVerdict, Guarded
  <2>5. PlanIsTrue'
    BY <2>1, <2>2, <2>3, <2>4 DEF PlanIsTrue
  <2>6. QED
    BY <2>1, <2>5 DEF Asked
<1>5. CASE ~DryRun
  <2> USE DEF Goto, Exit, session_vars, stream_vars, outcome_vars
  <2>1. /\ plan' = plan
        /\ pc' = "setup_output" => GuardVerdict(cfg) # "blocked"
        /\ opened' => opened \/ pc = "setup_output"
        /\ pc' \notin {"start", "dry_run"} \/ (pc = "start" /\ UNCHANGED stream_vars)
        /\ pc' = "dry_run" => cfg.dry_run
    <3>1. CASE InstallHandlers \/ RefuseTarget \/ OpenFails
      BY <3>1 DEF InstallHandlers, RefuseTarget, OpenFails
    <3>2. CASE SetupInput \/ CheckTarget \/ SetupOutput \/ ChooseDriver
      BY <3>2 DEF SetupInput, CheckTarget, SetupOutput, ChooseDriver
    <3>3. CASE LoopChecks \/ CheckLimit \/ EngineCleanup
      BY <3>3 DEF LoopChecks, CheckLimit, EngineCleanup, all_but_pc
    <3>4. CASE BlockSignals \/ Snapshot \/ Decrement \/ UnblockSignals \/ PrintForSignal
      BY <3>4 DEF BlockSignals, Snapshot, Decrement, UnblockSignals, PrintForSignal
    <3>5. CASE DataSync \/ Sync \/ CloseFails \/ Finish
      BY <3>5 DEF DataSync, Sync, CloseFails, Finish
    <3>6. QED
      BY <1>5, <3>1, <3>2, <3>3, <3>4, <3>5 DEF Outside
  <2>2. PlanIsTrue'
    BY <1>3, <2>1 DEF PlanIsTrue, NoPlan
  <2>3. QED
    BY <1>1, <1>2, <1>3, <2>1, <2>2 DEF Asked, NoPlan
<1>6. QED
  BY <1>4, <1>5

\* The outcome with which the program ends: the only success outside a dry run
\* is that of a copy that closed both files.
LEMMA FinishFacts ==
  ASSUME IInv, Finish
  PROVE  SuccessIsComplete'
<1> SUFFICES ASSUME AtEnd'
             PROVE  /\ disturbances' = 0 => out' = InputBytes(0, Wanted') /\ hashed' = out'
                                            /\ w_bytes' = Len(out')
                    /\ ~write_lost'
                    /\ cfg'.conversions \cap {"fdatasync", "fsync"} # {} =>
                         synced' \/ dd_interrupt_signal'
                    /\ ~interrupt'
  BY DEF SuccessIsComplete, InputBytes
<1> USE DEF outcome_vars, signal_vars
<1>1. RingTyped /\ Places /\ InOrder /\ Leaving
  BY DEF IInv, RingInv
<1>2. pc = "close" /\ ~interrupt /\ exit_status = "success" /\ RingUnchanged
      /\ UNCHANGED <<signal_vars, interrupt, synced>>
  BY DEF AtEnd, Finish
<1>3. UNCHANGED <<cfg, out, hashed, w_bytes, disturbances, write_lost>>
  BY <1>2 DEF RingUnchanged, result_vars
<1>4. ~write_lost
  BY <1>1, <1>2 DEF Places
<1>5. cfg.conversions \cap {"fdatasync", "fsync"} # {} => synced \/ dd_interrupt_signal
  BY <1>1, <1>2 DEF Leaving
<1>6. disturbances = 0 => out = InputBytes(0, Wanted) /\ hashed = out /\ w_bytes = Len(out)
  <2> SUFFICES ASSUME disturbances = 0
               PROVE  out = InputBytes(0, Wanted) /\ hashed = out /\ w_bytes = Len(out)
    OBVIOUS
  <2>1. Len(out) = Wanted /\ Len(hashed) = Wanted /\ w_bytes = Wanted
    BY <1>1, <1>2 DEF Leaving, Copied, Everything, Wanted
  <2>2. (\A i \in 1..Len(out) : out[i] = i) /\ (\A i \in 1..Len(hashed) : hashed[i] = i)
    BY <1>1 DEF InOrder
  <2>3. out \in Seq(Nat) /\ hashed \in Seq(Nat) /\ Wanted \in Nat
    BY <1>1, <2>1 DEF RingTyped
  <2>4. PICK n \in Nat : n = Wanted
    BY <2>3
  <2>5. InputBytes(0, n) \in Seq(Nat) /\ Len(InputBytes(0, n)) = n
        /\ \A i \in 1..n : InputBytes(0, n)[i] = 0 + i
    BY InputFacts
  <2>6. PICK bytes \in Seq(Nat) : bytes = InputBytes(0, n)
    BY <2>5
  <2>7. Len(bytes) = n /\ \A i \in 1..n : bytes[i] = i
    BY <2>5, <2>6
  <2>8. out = bytes /\ hashed = bytes
    BY <2>1, <2>2, <2>3, <2>4, <2>6, <2>7
  <2>9. QED
    BY <2>1, <2>4, <2>6, <2>8
<1>7. Wanted' = Wanted
  BY <1>3 DEF Wanted, bytes_to_copy
<1>8. QED
  BY <1>2, <1>3, <1>4, <1>5, <1>6, <1>7

LEMMA LeavingStep == IInv /\ (Outside \/ CheckLimit) => Leaving'
<1> SUFFICES ASSUME IInv, Outside \/ CheckLimit PROVE Leaving'
  OBVIOUS
<1>1. Leaving /\ status \in {"none", "success", "failure", "signal"}
  BY DEF IInv, SessionTyped
<1>2. RingUnchanged /\ pc \notin Ended
  <2>1. CASE Outside
    BY <2>1, OutsideFacts
  <2>2. CASE CheckLimit
    BY <2>2 DEF CheckLimit, all_but_pc, RingUnchanged, Ended
  <2>3. QED
    BY <2>1, <2>2
<1>3. UNCHANGED <<cfg, sq, exit_status, disturbances, out, hashed, w_bytes>>
  BY <1>2 DEF RingUnchanged, result_vars
<1>4. Everything' <=> Everything
  BY <1>3 DEF Everything, bytes_to_copy
<1> DEFINE Synced == cfg.conversions \cap {"fdatasync", "fsync"} # {} => synced \/ dd_interrupt_signal
<1>5. SuccessIsComplete'
  <2>1. CASE Finish
    BY <2>1, FinishFacts
  <2>2. CASE ~Finish
    <3> USE DEF Goto, Exit, session_vars, outcome_vars
    <3>1. pc' # "exited" \/ status' = "failure" \/ cfg.dry_run
      <4>1. CASE InstallHandlers \/ SetupInput \/ CheckTarget \/ RefuseTarget \/ OpenFails
        BY <4>1 DEF InstallHandlers, SetupInput, CheckTarget, RefuseTarget, OpenFails
      <4>2. CASE DryRun
        BY <4>2 DEF DryRun, IInv, Asked
      <4>3. CASE SetupOutput \/ ChooseDriver \/ LoopChecks \/ CheckLimit \/ EngineCleanup
        BY <4>3 DEF SetupOutput, ChooseDriver, LoopChecks, CheckLimit, EngineCleanup
      <4>4. CASE BlockSignals \/ Snapshot \/ Decrement \/ UnblockSignals \/ PrintForSignal
        BY <4>4 DEF BlockSignals, Snapshot, Decrement, UnblockSignals, PrintForSignal
      <4>5. CASE DataSync \/ Sync \/ CloseFails
        BY <4>5 DEF DataSync, Sync, CloseFails
      <4>6. QED
        BY <2>2, <4>1, <4>2, <4>3, <4>4, <4>5 DEF Outside
    <3>2. ~AtEnd'
      BY <1>3, <3>1 DEF AtEnd
    <3>3. QED
      BY <3>2 DEF SuccessIsComplete
  <2>3. QED
    BY <2>1, <2>2
<1> USE DEF Goto, Exit, session_vars, signal_vars, poll_vars, outcome_vars, Copied, Ended
<1>6. /\ interrupt' => pc' \in {"decrement", "unblock", "close"} \cup Ended
      /\ pc' \notin {"fsync"} \cup Ended => status' = "none"
      /\ pc' = "fsync" => status' \in {"none", "failure"}
      /\ pc' \in Copied /\ ~interrupt' => pc \in Copied /\ ~interrupt
      /\ pc' = "close" /\ ~interrupt' => (Synced)'
  <2>1. CASE InstallHandlers \/ DryRun \/ RefuseTarget \/ OpenFails
    BY <1>1, <2>1 DEF Leaving, InstallHandlers, DryRun, RefuseTarget, OpenFails
  <2>2. CASE SetupInput \/ CheckTarget \/ SetupOutput \/ ChooseDriver
    BY <1>1, <2>2 DEF Leaving, SetupInput, CheckTarget, SetupOutput, ChooseDriver
  <2>3. CASE LoopChecks \/ CheckLimit
    BY <1>1, <2>3 DEF Leaving, LoopChecks, CheckLimit, all_but_pc
  <2>4. CASE EngineCleanup
    BY <1>1, <2>4 DEF Leaving, EngineCleanup, all_but_pc
  <2>5. CASE BlockSignals \/ Snapshot \/ Decrement \/ PrintForSignal
    BY <1>1, <2>5 DEF Leaving, BlockSignals, Snapshot, Decrement, PrintForSignal
  <2>6. CASE UnblockSignals
    BY <1>1, <2>6 DEF Leaving, UnblockSignals
  <2>7. CASE DataSync
    BY <1>1, <1>3, <2>7 DEF Leaving, DataSync
  <2>8. CASE Sync
    BY <1>1, <1>3, <2>8 DEF Leaving, Sync
  <2>9. CASE CloseFails \/ Finish
    BY <1>1, <2>9 DEF Leaving, CloseFails, Finish
  <2>10. QED
    BY <2>1, <2>2, <2>3, <2>4, <2>5, <2>6, <2>7, <2>8, <2>9 DEF Outside
<1>7. pc' \in Copied /\ ~interrupt' =>
        sq' = {} /\ (exit_status' = "success" /\ disturbances' = 0 => Everything')
  BY <1>1, <1>3, <1>4, <1>6 DEF Leaving
<1>8. QED
  BY <1>5, <1>6, <1>7 DEF Leaving

LEMMA IInvStep == IInv /\ [Next]_vars => IInv'
<1> SUFFICES ASSUME IInv, [Next]_vars PROVE IInv'
  OBVIOUS
<1>0. RingInv'
  BY RingPart
<1>1. CASE Outside \/ CheckLimit
  BY <1>0, <1>1, TypedStep, SignalsStep, AnswersStep, DriverStep, AskedStep, LeavingStep DEF IInv
<1>2. CASE pc \notin Ended /\ (Ring \/ Kernel) /\ UNCHANGED session_vars
  BY <1>0, <1>2, SessionRing DEF IInv
<1>3. CASE Environment
  BY <1>0, <1>3, SessionSignals DEF IInv
<1>4. CASE UNCHANGED vars
  <2> USE DEF vars, all_but_pc, session_vars, signal_vars, poll_vars, stream_vars, outcome_vars,
              flight_vars, result_vars
  <2>1. SessionTyped /\ SignalsHeld /\ Answers /\ DriverChosen /\ Asked /\ Leaving
    BY DEF IInv
  <2>2. SessionTyped' /\ SignalsHeld' /\ Answers' /\ DriverChosen'
    BY <1>4, <2>1 DEF SessionTyped, SignalsHeld, Answers, DriverChosen
  <2>3. Asked'
    BY <1>4, <2>1 DEF Asked, PlanIsTrue, PlanBlindSpot, SelectDriver, GuardVerdict, Guarded,
         Untouched, OpenedKind, AutoDriver, NoPlan
  <2>4. Leaving'
    BY <1>4, <2>1 DEF Leaving, SuccessIsComplete, AtEnd, Everything, Wanted, InputBytes,
         bytes_to_copy
  <2>5. QED
    BY <1>0, <2>2, <2>3, <2>4 DEF IInv
<1>5. QED
  BY <1>1, <1>2, <1>3, <1>4 DEF Next, Program, Outside

------------------------------------------------------------------------------
(* Theorems                                                                  *)

LEMMA Invariance == Spec => []IInv
BY SessionInit, IInvStep, PTL DEF Spec

\* Slots, operations and signals keep their types; one read and one write at
\* most are on their way, in different slots (the read_in_flight and
\* write_in_flight flags of uring_driver_step).
THEOREM Typing == Spec => []TypeOK
<1>1. IInv => TypeOK
  <2> SUFFICES ASSUME IInv PROVE TypeOK
    OBVIOUS
  <2>1. RingTyped /\ InQueues /\ Posted /\ SessionTyped /\ SignalsHeld
    BY DEF IInv, RingInv
  <2>2. Cardinality(sq) + Len(cq) <= 2
    <3>1. Cardinality(sq) \in Nat /\ Len(cq) \in Nat
      BY <2>1, FS_CardinalityType DEF InQueues, Posted
    <3>2. QED
      BY <2>1, <3>1 DEF InQueues, One
  <2>3. dd_info_signal_count \in 0..MaxSignals
    BY <2>1, SessionAssumption DEF SessionTyped, SignalsHeld, One
  <2>4. QED
    BY <2>1, <2>2, <2>3 DEF TypeOK, RingTyped, InQueues, SessionTyped, SignalsHeld
<1>2. QED
  BY <1>1, Invariance, PTL

\* The read-ahead of uring_driver_step never mixes up the blocks: the output is
\* the beginning of the input whatever order the kernel finishes in and wherever
\* signals interrupt the wait, and never longer than the limit.
THEOREM OutputIsInOrder == Spec => []OutputInOrder
<1>1. IInv => OutputInOrder
  <2> SUFFICES ASSUME IInv PROVE OutputInOrder
    OBVIOUS
  <2>1. RingTyped /\ InOrder /\ Counts
    BY DEF IInv, RingInv
  <2>2. ASSUME disturbances = 0 PROVE out = InputBytes(0, Len(out))
    <3>1. out \in Seq(Nat) /\ \A i \in 1..Len(out) : out[i] = i
      BY <2>1, <2>2 DEF RingTyped, InOrder
    <3>2. PICK n \in Nat : n = Len(out)
      BY <3>1
    <3>3. InputBytes(0, n) \in Seq(Nat) /\ Len(InputBytes(0, n)) = n
          /\ \A i \in 1..n : InputBytes(0, n)[i] = 0 + i
      BY InputFacts
    <3>4. PICK bytes \in Seq(Nat) : bytes = InputBytes(0, n)
      BY <3>3
    <3>5. Len(bytes) = n /\ \A i \in 1..n : bytes[i] = i
      BY <3>3, <3>4
    <3>6. out = bytes
      BY <3>1, <3>2, <3>5
    <3>7. QED
      BY <3>2, <3>4, <3>6
  <2>3. QED
    BY <2>1, <2>2 DEF OutputInOrder, Counts
<1>2. QED
  BY <1>1, Invariance, PTL

\* Exit status 0 means that everything was written, hashed, counted, and
\* synchronised where that was asked for (dd_copy, dd_engine_cleanup).
THEOREM SuccessMeansComplete == Spec => []SuccessIsComplete
<1>1. IInv => SuccessIsComplete
  BY DEF IInv, Leaving
<1>2. QED
  BY <1>1, Invariance, PTL

\* Blocking the signals around the counter (dd_process_signals) loses no
\* SIGUSR1, and each one is answered before the copy goes on.
THEOREM SignalsAreCounted == Spec => []InfoSignalsCounted
<1>1. IInv => InfoSignalsCounted
  BY DEF IInv, SignalsHeld, Answers, InfoSignalsCounted, DriverPlaces
<1>2. QED
  BY <1>1, Invariance, PTL

\* The verdict of evaluate_target_safety is enough: what is mounted as a system
\* directory is neither the target nor on it.
THEOREM GuardHolds == Spec => []GuardedTargetKept
<1>1. IInv => GuardedTargetKept
  <2> SUFFICES ASSUME IInv, opened, ~cfg.force, cfg.out_kind = "block", cfg.path = cfg.node,
                      NEW m \in Mounts, m.at \in SystemMounts
               PROVE  ~Holds(m)
    BY DEF GuardedTargetKept
  <2>1. cfg \in Configs /\ GuardVerdict(cfg) # "blocked"
    BY DEF IInv, Asked, RingInv, RingTyped
  <2>2. ~(m.device = cfg.node \/ IsPartitionOf(m.device, cfg.node))
    BY <2>1 DEF GuardVerdict, Guarded
  <2>3. cfg.node \in Device /\ m.device \in Device
    BY <2>1, SessionAssumption
  <2>4. PICK node \in Device, device \in Device : node = cfg.node /\ device = m.device
    BY <2>3
  <2>5. node.part = 0 /\ node.disk = device.disk => device = node \/ device.part > 0
    <3> SUFFICES ASSUME node.part = 0, node.disk = device.disk, ~(device.part > 0)
                 PROVE  device = node
      OBVIOUS
    <3>1. device.part = 0
      BY DEF Device
    <3>2. QED
      BY <3>1 DEF Device
  <2>6. QED
    BY <2>2, <2>4, <2>5 DEF Holds, IsPartitionOf
<1>2. QED
  BY <1>1, Invariance, PTL

\* What a dry run announces (dd_execute_dry_run) is what the program would do
\* (dd_select_io_driver, check_target_safety), and it does nothing else.
THEOREM PlansAreTrue == Spec => []PlanIsTrue
<1>1. IInv => PlanIsTrue
  BY DEF IInv, Asked
<1>2. QED
  BY <1>1, Invariance, PTL

==============================================================================
