-------------------------- MODULE RustFronts_proofs --------------------------
(***************************************************************************)
(* Proofs about RustFronts and RustEngines, for every set of transfers,    *)
(* disks and paths, and every bound on changes and jobs.                   *)
(***************************************************************************)
EXTENDS RustFronts, SequenceTheorems, FiniteSetTheorems, TLAPS

------------------------------------------------------------------------------
(* The inductive invariant: the engines                                      *)

Moving  == pc \in {"copy", "write", "rewrite"}
Waiting == pc = "enter" \/ (pc = "idle" /\ front = "cli")

JobsTyped ==
  /\ job \in Jobs /\ cancel_flag \in BOOLEAN
  /\ pc \in {"idle", "enter", "copy", "write", "rewrite", "done"}
  /\ stage \in {"reflink", "splice", "async", "uring", "sync"}
  /\ result \in {"none", "ok", "err"} /\ abandoned \in Nat /\ spilled \in BOOLEAN

DataTyped ==
  /\ in_off \in 0..job.source /\ out_off \in Nat
  /\ bytes_read \in 0..job.blocksize /\ stats_bytes \in Nat
  /\ remaining \in Nat \cup {-1} /\ remaining_blocks \in Nat \cup {-1}
  /\ pending \in Seq(Nat) /\ Len(pending) <= job.blocksize
  /\ hashed \in Seq(Nat) /\ out \in Seq(Nat \cup {Old})

\* Which engine is where, and what a block in hand is.
Places ==
  /\ Moving => Wants(stage) /\ job.input # "missing" /\ out_off <= Len(out)
  /\ pc = "copy" => pending = << >>
  /\ pc \in {"write", "rewrite"} =>
       /\ stage \in {"splice", "async", "uring", "sync"}
       /\ bytes_read >= 1 /\ bytes_read <= in_off
  /\ Sharded /\ Moving => pc = "copy" /\ in_off = 0 /\ out_off = 0
  /\ Waiting \/ Moving => result = "none"
  /\ job.output = "stdout" /\ (Waiting \/ Moving) => out_off = Len(out)

\* An input that is not there is never read.
NoInput ==
  job.input = "missing" =>
    /\ result # "ok" \/ pc = "idle"
    /\ Wants("reflink") \/ out = OldContent(job)

\* No engine before this one has opened the files.
Sole ==
  job.engine = "async" \/ (Wants("uring") /\ job.threads > 1 /\ stage # "sync")

\* What an engine that was given up has left at a position: the byte that goes
\* there, or a hole.
LeftBehind(i) ==
  /\ ~Sole /\ ~Has("sync") /\ job.input # "stdin"
  /\ out[i] \in {0, i} /\ i <= Reach

\* Behind the offset the output is old, or as an earlier engine left it.
Behind ==
  \A i \in 1..Len(out) :
    i > (IF Moving THEN out_off ELSE 0) => out[i] = Old \/ LeftBehind(i)

\* Between two engines.
Between ==
  /\ stats_bytes = abandoned
  /\ job.input = "stdin" => in_off = 0
  /\ job.output = "stdout" => out_off = 0

\* The output up to the offset, and what is still to be written of the block.
At(i) == IF i <= out_off THEN out[i] ELSE pending[i - out_off]
Positioned == 1..(out_off + Len(pending))

\* It is what was read of the input.
Stream ==
  /\ \A i \in Positioned : At(i) \in 0..in_off
  /\ \A v \in 1..in_off : \E i \in Positioned : At(i) = v
  /\ \A i, k \in Positioned : i < k /\ At(i) > 0 /\ At(k) > 0 => At(i) < At(k)
  /\ ~Has("sync") => out_off + Len(pending) = in_off /\ \A i \in Positioned : At(i) = i

\* How far the limits allow.
Limited ==
  /\ in_off <= Reach
  /\ LET limit == IF stage \in {"sync", "async"} THEN job.limit ELSE ByteLimit
     IN  remaining = IF limit < 0 THEN -1 ELSE limit - in_off

BlocksDone == job.count - remaining_blocks

CountedDown ==
  /\ stage \notin {"sync", "async"} \/ job.count < 0 => remaining_blocks = -1
  /\ stage \in {"sync", "async"} /\ job.count >= 0 =>
       /\ remaining_blocks \in 0..job.count
       /\ BlocksDone <= in_off /\ in_off <= BlocksDone * job.blocksize
       /\ job.input # "stdin" =>
            \/ in_off = BlocksDone * job.blocksize
            \/ in_off = job.source \/ (job.limit >= 0 /\ in_off = job.limit)
            \/ in_off = job.bad - 1 /\ in_off > (BlocksDone - 1) * job.blocksize

Counted ==
  /\ stats_bytes + (IF pc = "copy" THEN 0 ELSE bytes_read) = in_off + abandoned
  /\ Has("hash") => hashed = InputBytes(0, in_off)

Copied ==
  /\ ~spilled /\ (Moving \/ (Waiting /\ ~Truncates)) => Behind
  /\ ~spilled /\ Waiting => Between
  /\ ~spilled /\ Moving => Stream /\ Limited /\ CountedDown /\ Counted
  /\ Truncates /\ Moving => \A i \in 1..Len(out) : out[i] # Old

EngineInv ==
  /\ JobsTyped /\ DataTyped /\ Places /\ NoInput /\ Copied
  /\ OutcomeIsTrue

------------------------------------------------------------------------------
(* The inductive invariant: the programs                                     *)

\* Entries under the numbers from 1 on.
IsList(list) == list \in Seq({list[i] : i \in DOMAIN list}) /\ Len(list) \in Nat

FrontTyped ==
  /\ front \in {"cli", "tui"} /\ running \in BOOLEAN
  /\ active_job \in BOOLEAN /\ force_override \in BOOLEAN /\ dry_run \in BOOLEAN
  /\ modal \in {"none", "path", "confirm"}
  /\ started \in Nat /\ collected \in Nat
  /\ IsList(devices) /\ target_idx \in 1..Len(devices)
  /\ front = "cli" => ~active_job

\* The question on the screen is about the entry that is selected.
Asked ==
  modal = "confirm" =>
    ~dry_run /\ shown = Selected.path /\ (Selected.is_system_root => force_override)

FrontInv ==
  /\ FrontTyped /\ Asked
  /\ JobsAccounted /\ NoUnconfirmedWrite

IInv == EngineInv /\ FrontInv

------------------------------------------------------------------------------
(* Numbers and sequences                                                     *)

LEMMA ProductFacts ==
  ASSUME NEW a \in Nat, NEW b \in Nat, NEW c \in Nat, a <= b
  PROVE  a * c \in Nat /\ b * c \in Nat /\ a * c <= b * c
         /\ (a + 1) * c = a * c + c
OBVIOUS

LEMMA JobFacts ==
  ASSUME job \in Jobs
  PROVE  /\ job.engine \in {"auto", "reflink", "splice", "async", "uring", "sync"}
         /\ job.input \in {"file", "device", "stdin", "missing"}
         /\ job.output \in {"file", "device", "stdout"}
         /\ job.threads \in Nat \ {0} /\ job.blocksize \in Nat \ {0}
         /\ job.limit \in Nat \cup {-1} /\ job.count \in Nat \cup {-1}
         /\ job.source \in Nat /\ job.bad \in Nat /\ job.bad <= job.source
BY JobsAssumption DEF JobType

\* What the limits leave of the input.
LEMMA WantedFacts ==
  ASSUME job \in Jobs
  PROVE  /\ ByteLimit \in Nat \cup {-1}
         /\ Wanted \in Nat /\ Wanted <= job.source
         /\ ByteLimit >= 0 => Wanted <= ByteLimit
         /\ job.limit >= 0 => Wanted <= job.limit
         /\ Wanted = job.source \/ Wanted = ByteLimit
         /\ Reach \in Nat /\ Reach <= Wanted
         /\ (job.bad > 0 => Reach <= job.bad - 1)
         /\ (Reach = Wanted \/ Reach = job.bad - 1)
         /\ ShardedWanted \in Nat /\ ShardedWanted <= job.source
<1>1. job.count >= 0 => job.count * job.blocksize \in Nat
  BY JobFacts, ProductFacts
<1>2. ByteLimit \in Nat \cup {-1}
  BY <1>1, JobFacts DEF ByteLimit, Least
<1>3. job.limit >= 0 => ByteLimit >= 0 /\ ByteLimit <= job.limit
  BY <1>1, JobFacts DEF ByteLimit, Least
<1>4. ShardedWanted \in Nat /\ ShardedWanted <= job.source
  BY <1>1, JobFacts DEF ShardedWanted, ShardLimit, Least
<1>5. QED
  BY <1>2, <1>3, <1>4, JobFacts DEF Wanted, Reach, Least

LEMMA InputFacts ==
  ASSUME NEW position \in Nat, NEW n \in Nat
  PROVE  /\ InputBytes(position, n) \in Seq(Nat) /\ Len(InputBytes(position, n)) = n
         /\ \A i \in 1..n : InputBytes(position, n)[i] = position + i
BY DEF InputBytes

LEMMA ConcatFacts ==
  ASSUME NEW S, NEW s \in Seq(S), NEW t \in Seq(S)
  PROVE  /\ s \o t \in Seq(S) /\ Len(s \o t) = Len(s) + Len(t)
         /\ Len(s) \in Nat /\ Len(t) \in Nat
         /\ \A i \in 1..Len(s) : (s \o t)[i] = s[i]
         /\ \A i \in 1..Len(t) : (s \o t)[Len(s) + i] = t[i]
OBVIOUS

\* A part of a sequence, to its end or not.
LEMMA PartFacts ==
  ASSUME NEW S, NEW s \in Seq(S), NEW m \in Nat, NEW n \in Nat, n <= Len(s)
  PROVE  /\ SubSeq(s, m + 1, n) \in Seq(S)
         /\ Len(SubSeq(s, m + 1, n)) = IF m <= n THEN n - m ELSE 0
         /\ \A i \in 1..n - m : SubSeq(s, m + 1, n)[i] = s[m + i]
<1>1. CASE m < n
  BY <1>1
<1>2. CASE m >= n
  <2>1. SubSeq(s, m + 1, n) = << >>
    BY <1>2
  <2>2. QED
    BY <1>2, <2>1, EmptySeq
<1>3. QED
  BY <1>1, <1>2

\* The output after a write.
LEMMA WrittenFacts ==
  ASSUME NEW S, out \in Seq(S), NEW bytes \in Seq(S), NEW position \in Nat,
         position <= Len(out)
  PROVE  LET after == WrittenAt(position, bytes)
             end   == position + Len(bytes)
         IN  /\ after \in Seq(S) /\ end \in Nat
             /\ Len(after) = IF end > Len(out) THEN end ELSE Len(out)
             /\ \A i \in 1..Len(after) :
                  after[i] = IF i > position /\ i <= end THEN bytes[i - position] ELSE out[i]
<1> DEFINE end == position + Len(bytes)
           head == SubSeq(out, 1, position)
           tail == SubSeq(out, end + 1, Len(out))
           front_part == head \o bytes
<1>1. Len(out) \in Nat /\ Len(bytes) \in Nat /\ end \in Nat
  OBVIOUS
<1>2. /\ head \in Seq(S) /\ Len(head) = position
      /\ \A i \in 1..position : head[i] = out[i]
  <2>1. 0 \in Nat /\ 0 + 1 = 1 /\ \A i \in 1..position : 0 + i = i
    OBVIOUS
  <2>2. /\ SubSeq(out, 0 + 1, position) \in Seq(S)
        /\ Len(SubSeq(out, 0 + 1, position)) = position
        /\ \A i \in 1..position - 0 : SubSeq(out, 0 + 1, position)[i] = out[0 + i]
    BY PartFacts
  <2>3. QED
    BY <2>1, <2>2
<1>3. /\ tail \in Seq(S) /\ Len(tail) = (IF end <= Len(out) THEN Len(out) - end ELSE 0)
      /\ \A i \in 1..Len(out) - end : tail[i] = out[end + i]
  BY <1>1, PartFacts
<1> HIDE DEF head, tail
<1>4. /\ front_part \in Seq(S) /\ Len(front_part) = end
      /\ \A i \in 1..position : front_part[i] = head[i]
      /\ \A i \in 1..Len(bytes) : front_part[position + i] = bytes[i]
  <2>1. head \in Seq(S)
    BY <1>2
  <2>2. /\ front_part \in Seq(S) /\ Len(front_part) = Len(head) + Len(bytes)
        /\ \A i \in 1..Len(head) : front_part[i] = head[i]
        /\ \A i \in 1..Len(bytes) : front_part[Len(head) + i] = bytes[i]
    BY <2>1, ConcatFacts
  <2> HIDE DEF front_part
  <2>3. QED
    BY <1>2, <2>2
<1> HIDE DEF front_part
<1>5. /\ front_part \o tail \in Seq(S) /\ Len(front_part \o tail) = end + Len(tail)
      /\ \A i \in 1..end : (front_part \o tail)[i] = front_part[i]
      /\ \A i \in 1..Len(tail) : (front_part \o tail)[end + i] = tail[i]
  <2>1. front_part \in Seq(S) /\ tail \in Seq(S)
    BY <1>3, <1>4
  <2> DEFINE whole == front_part \o tail
  <2>2. /\ whole \in Seq(S) /\ Len(whole) = Len(front_part) + Len(tail)
        /\ \A i \in 1..Len(front_part) : whole[i] = front_part[i]
        /\ \A i \in 1..Len(tail) : whole[Len(front_part) + i] = tail[i]
    BY <2>1, ConcatFacts
  <2> HIDE DEF whole, end
  <2>3. /\ whole \in Seq(S) /\ Len(whole) = end + Len(tail)
        /\ \A i \in 1..end : whole[i] = front_part[i]
        /\ \A i \in 1..Len(tail) : whole[end + i] = tail[i]
    BY <1>4, <2>2
  <2>4. QED
    BY <2>3 DEF whole
<1>6. WrittenAt(position, bytes) = front_part \o tail
  BY DEF WrittenAt, front_part, head, tail
<1> DEFINE after == WrittenAt(position, bytes)
<1> HIDE DEF end, after
<1>7. after \in Seq(S) /\ Len(after) = IF end > Len(out) THEN end ELSE Len(out)
  BY <1>1, <1>3, <1>5, <1>6 DEF after
<1>8. ASSUME NEW i \in 1..Len(after)
      PROVE  after[i] = IF i > position /\ i <= end THEN bytes[i - position] ELSE out[i]
  <2>0. after = front_part \o tail /\ i \in Nat
    BY <1>1, <1>6, <1>7 DEF after
  <2>1. CASE i <= position
    BY <1>1, <1>2, <1>4, <1>5, <2>0, <2>1 DEF end
  <2>2. CASE i > position /\ i <= end
    <3>1. i - position \in 1..Len(bytes) /\ position + (i - position) = i /\ i \in 1..end
      BY <1>1, <2>2 DEF end
    <3>2. QED
      BY <1>4, <1>5, <2>0, <2>2, <3>1
  <2>3. CASE i > end
    <3>1. i - end \in 1..Len(tail) /\ end + (i - end) = i /\ i - end \in 1..Len(out) - end
      BY <1>1, <1>3, <1>7, <2>0, <2>3
    <3>2. after[i] = tail[i - end] /\ tail[i - end] = out[i]
      BY <1>3, <1>5, <2>0, <3>1
    <3>3. QED
      BY <1>1, <2>0, <2>3, <3>2
  <2>4. QED
    BY <1>1, <2>0, <2>1, <2>2, <2>3
<1>9. QED
  BY <1>1, <1>7, <1>8 DEF end, after


------------------------------------------------------------------------------
(* Steps                                                                     *)

engine_frame == <<job, stage, pc, in_off, out_off, bytes_read, pending, remaining,
                  remaining_blocks, stats_bytes, hashed, out, result, abandoned,
                  spilled, cancel_flag, front>>

\* A job starts over.
Restarted ==
  /\ front = "tui" /\ front' = front
  /\ job' \in TuiJobs /\ out' = OldContent(job')
  /\ pc' = "enter" /\ stage' = "reflink"
  /\ in_off' = 0 /\ out_off' = 0 /\ bytes_read' = 0 /\ pending' = << >>
  /\ remaining' = -1 /\ remaining_blocks' = -1
  /\ stats_bytes' = 0 /\ hashed' = << >>
  /\ cancel_flag' = FALSE
  /\ result' = "none" /\ abandoned' = 0 /\ spilled' = FALSE

\* Steps of the programs that an engine notices: the command line lets it begin,
\* the result is taken, the cancel key is pressed.
Nudged ==
  /\ UNCHANGED <<job, stage, in_off, out_off, bytes_read, pending, remaining,
                 remaining_blocks, stats_bytes, hashed, out, result, abandoned,
                 spilled, front>>
  /\ \/ front = "cli" /\ pc = "idle" /\ pc' = "enter" /\ UNCHANGED cancel_flag
     \/ front = "tui" /\ pc = "done" /\ pc' = "idle" /\ UNCHANGED cancel_flag
     \/ cancel_flag' = TRUE /\ UNCHANGED pc

LEMMA Steps ==
  ASSUME [Next]_vars
  PROVE  \/ Engines /\ UNCHANGED <<cancel_flag, front>>
         \/ Restarted \/ Nudged \/ UNCHANGED engine_frame
<1> USE DEF job_vars, front_vars, vars, copy_vars, offsets, block, limits, verdict,
            world_vars, list_vars, mode_vars, jobs_vars, engine_frame
<1>1. CASE JobRuns
  BY <1>1 DEF JobRuns
<1>2. CASE Poll
  BY <1>2 DEF Poll, Nudged
<1>3. CASE Change
  BY <1>3 DEF Change
<1>4. CASE Keys
  <2>1. CASE KeyCancel
    BY <2>1 DEF KeyCancel, Nudged
  <2>2. CASE KeyQuit \/ KeyMove \/ KeyToggle \/ KeyRefresh \/ KeyPath \/ KeyEnterAsks \/ ConfirmNo
    BY <2>2 DEF KeyQuit, KeyMove, KeyToggle, KeyRefresh, KeyPath, KeyEnterAsks, ConfirmNo
  <2>3. CASE PathEntered
    BY <2>3 DEF PathEntered
  <2>4. CASE KeyEnterStarts \/ ConfirmYes
    <3>1. /\ front = "tui" /\ front' = front
          /\ \E path, as_target : Spawn(path, as_target)
      BY <2>4 DEF KeyEnterStarts, ConfirmYes, StartTransfer, Key
    <3>2. QED
      BY <3>1 DEF Spawn, Restarted
  <2>5. QED
    BY <1>4, <2>1, <2>2, <2>3, <2>4 DEF Keys
<1>5. CASE CliStarts
  BY <1>5 DEF CliStarts, Nudged
<1>6. CASE CliRefuses \/ CliPlans \/ CliEnds
  BY <1>6 DEF CliRefuses, CliPlans, CliEnds
<1>7. CASE UNCHANGED vars
  BY <1>7
<1>8. QED
  BY <1>1, <1>2, <1>3, <1>4, <1>5, <1>6, <1>7 DEF Next


------------------------------------------------------------------------------
(* The engines: jobs begin and end                                           *)

LEMMA FreshFacts ==
  ASSUME NEW j
  PROVE  /\ OldContent(j) \in Seq(Nat \cup {Old}) /\ Len(OldContent(j)) \in Nat
         /\ \A i \in 1..Len(OldContent(j)) : OldContent(j)[i] = Old
         /\ j.output = "stdout" => OldContent(j) = << >> /\ Len(OldContent(j)) = 0
<1>1. /\ << >> \in Seq(Nat \cup {Old}) /\ Len(<< >>) = 0
      /\ <<Old, Old>> \in Seq(Nat \cup {Old}) /\ Len(<<Old, Old>>) = 2
      /\ <<Old, Old>>[1] = Old /\ <<Old, Old>>[2] = Old
  BY EmptySeq
<1>2. \A i \in 1..2 : i = 1 \/ i = 2
  OBVIOUS
<1>3. CASE j.output = "stdout"
  BY <1>1, <1>3 DEF OldContent
<1>4. CASE j.output # "stdout"
  <2>1. OldContent(j) = <<Old, Old>>
    BY <1>4 DEF OldContent
  <2>2. QED
    BY <1>1, <1>2, <1>4, <2>1
<1>5. QED
  BY <1>3, <1>4

LEMMA EngineInit == Init => EngineInv
<1> SUFFICES ASSUME Init PROVE EngineInv
  OBVIOUS
<1>1. job \in Jobs /\ FreshTransfer(job)
  BY FrontsAssumption DEF Init, FreshTransfer
<1>2. /\ pc = "idle" /\ stage = "reflink"
      /\ in_off = 0 /\ out_off = 0 /\ bytes_read = 0 /\ pending = << >>
      /\ remaining = -1 /\ remaining_blocks = -1 /\ stats_bytes = 0 /\ hashed = << >>
      /\ out = OldContent(job) /\ cancel_flag = FALSE
      /\ result = "none" /\ abandoned = 0 /\ spilled = FALSE
  BY <1>1 DEF FreshTransfer
<1>3. JobsTyped
  BY <1>1, <1>2 DEF JobsTyped
<1>4. DataTyped
  <2>1. << >> \in Seq(Nat) /\ Len(<< >>) = 0 /\ out \in Seq(Nat \cup {Old})
    BY <1>2, EmptySeq, FreshFacts
  <2>2. job.source \in Nat /\ job.blocksize \in Nat
    BY <1>1, JobFacts
  <2>3. QED
    BY <1>2, <2>1, <2>2 DEF DataTyped
<1>5. Places
  BY <1>2, FreshFacts DEF Places, Moving
<1>7. NoInput
  BY <1>2 DEF NoInput
<1>8. Copied
  <2>1. Between
    BY <1>2 DEF Between
  <2>2. Behind
    BY <1>2, FreshFacts DEF Behind
  <2>3. QED
    BY <1>2, <2>1, <2>2 DEF Copied, Moving
<1>9. OutcomeIsTrue
  BY <1>2 DEF OutcomeIsTrue
<1>10. QED
  BY <1>3, <1>4, <1>5, <1>7, <1>8, <1>9 DEF EngineInv

LEMMA EngineRestarts ==
  ASSUME Restarted
  PROVE  EngineInv'
<1>1. /\ job' \in Jobs
      /\ pc' = "enter" /\ stage' = "reflink"
      /\ in_off' = 0 /\ out_off' = 0 /\ bytes_read' = 0 /\ pending' = << >>
      /\ remaining' = -1 /\ remaining_blocks' = -1 /\ stats_bytes' = 0 /\ hashed' = << >>
      /\ out' = OldContent(job') /\ cancel_flag' = FALSE
      /\ result' = "none" /\ abandoned' = 0 /\ spilled' = FALSE
  BY FrontsAssumption DEF Restarted
<1>3. JobsTyped'
  BY <1>1 DEF JobsTyped
<1>4. DataTyped'
  <2>1. << >> \in Seq(Nat) /\ Len(<< >>) = 0 /\ out' \in Seq(Nat \cup {Old})
    BY <1>1, EmptySeq, FreshFacts
  <2>2. job'.source \in Nat /\ job'.blocksize \in Nat
    BY <1>1, JobsAssumption DEF JobType
  <2>3. QED
    BY <1>1, <2>1, <2>2 DEF DataTyped
<1>5. Places'
  BY <1>1, FreshFacts DEF Places, Moving
<1>7. NoInput'
  BY <1>1 DEF NoInput
<1>8. Copied'
  <2>1. Between'
    BY <1>1 DEF Between
  <2>2. Behind'
    BY <1>1, FreshFacts DEF Behind
  <2>3. QED
    BY <1>1, <2>1, <2>2 DEF Copied, Moving
<1>9. OutcomeIsTrue'
  BY <1>1 DEF OutcomeIsTrue
<1>10. QED
  BY <1>3, <1>4, <1>5, <1>7, <1>8, <1>9 DEF EngineInv

\* What depends on the transfer alone.
LEMMA SameJob ==
  ASSUME job' = job
  PROVE  /\ ByteLimit' = ByteLimit /\ Wanted' = Wanted /\ Reach' = Reach
         /\ Truncates' = Truncates /\ Regular' = Regular
         /\ \A f : Has(f)' = Has(f)
         /\ \A s : Wants(s)' = Wants(s)
         /\ \A n : CutShort(n)' = CutShort(n)
         /\ ShardedWanted' = ShardedWanted
         /\ stage' = stage => (Sharded' <=> Sharded) /\ (Sole' <=> Sole)
<1>1. /\ ByteLimit' = ByteLimit /\ Wanted' = Wanted /\ Reach' = Reach
      /\ Truncates' = Truncates /\ Regular' = Regular
      /\ \A f : Has(f)' = Has(f)
      /\ \A s : Wants(s)' = Wants(s)
      /\ \A n : CutShort(n)' = CutShort(n)
  BY DEF ByteLimit, Wanted, Reach, Truncates, Regular, Has, Wants, CutShort, Named
<1>2. ShardedWanted' = ShardedWanted /\ EffectiveLength' = EffectiveLength
  BY DEF ShardedWanted, ShardLimit, EffectiveLength
<1>3. QED
  BY <1>1, <1>2 DEF Sharded, Sole

\* The output that was reached does not depend on the programs around it.
LEMMA SameOutcome ==
  ASSUME UNCHANGED <<job, stage, out, hashed, stats_bytes, abandoned>>,
         cancel_flag => cancel_flag', Complete
  PROVE  Complete'
<1>1. /\ Wanted' = Wanted /\ ShardedWanted' = ShardedWanted /\ Truncates' = Truncates
      /\ (\A f : Has(f)' = Has(f)) /\ (\A n : CutShort(n)' = CutShort(n))
      /\ (Sharded' <=> Sharded)
  BY SameJob
<1>2. PICK n \in 0..job.source :
        /\ Enough(n)
        /\ HoldsInput(n)
        /\ Truncates => Old \notin Written
        /\ Has("hash") => hashed = InputBytes(0, n)
        /\ stats_bytes = n + abandoned
  BY DEF Complete
<1>3. Enough(n)'
  BY <1>1, <1>2 DEF Enough
<1>4. HoldsInput(n)' /\ Written' = Written
  BY <1>1, <1>2 DEF HoldsInput, Written
<1>5. Has("hash")' => hashed' = InputBytes(0, n)
  BY <1>1, <1>2
<1>6. QED
  BY <1>1, <1>2, <1>3, <1>4, <1>5 DEF Complete, InputBytes

LEMMA EngineNudged ==
  ASSUME EngineInv, Nudged
  PROVE  EngineInv'
<1>1. /\ UNCHANGED <<job, stage, in_off, out_off, bytes_read, pending, remaining,
                     remaining_blocks, stats_bytes, hashed, out, result, abandoned,
                     spilled, front>>
      /\ Wanted' = Wanted /\ Reach' = Reach /\ Truncates' = Truncates /\ ByteLimit' = ByteLimit
      /\ (\A f : Has(f)' = Has(f)) /\ (\A s : Wants(s)' = Wants(s))
      /\ (Sharded' <=> Sharded) /\ (Sole' <=> Sole)
  BY SameJob DEF Nudged
<1>2. JobsTyped'
  BY DEF EngineInv, Nudged, JobsTyped
<1>3. DataTyped'
  BY <1>1 DEF EngineInv, DataTyped
<1>4. (Moving' <=> Moving) /\ (Waiting' => Waiting) /\ (Moving' => pc' = pc)
  BY DEF Nudged, Moving, Waiting
<1>5. Places'
  BY <1>1, <1>4 DEF EngineInv, Nudged, Places, Moving, Waiting
<1>7. NoInput'
  BY <1>1 DEF EngineInv, Nudged, NoInput, Places, Waiting, Moving
<1>8. Copied'
  <2>1. Behind' <=> Behind
    BY <1>1, <1>4 DEF Behind, LeftBehind
  <2>4. /\ (Between' <=> Between) /\ (Stream' <=> Stream) /\ (Limited' <=> Limited)
        /\ (CountedDown' <=> CountedDown)
    BY <1>1 DEF Between, Stream, At, Positioned, Limited, CountedDown, BlocksDone
  <2>2. pc' = pc => (Counted' <=> Counted)
    BY <1>1 DEF Counted
  <2>3. QED
    BY <1>1, <1>4, <2>1, <2>2, <2>4 DEF EngineInv, Copied
<1>9. OutcomeIsTrue'
  <2>1. CASE pc' # "done"
    BY <2>1 DEF OutcomeIsTrue
  <2>2. CASE pc' = "done"
    <3>1. pc = "done" /\ (cancel_flag => cancel_flag')
      BY <2>2 DEF Nudged, EngineInv, JobsTyped
    <3>2. Complete => Complete'
      BY <1>1, <3>1, SameOutcome
    <3>3. QED
      BY <1>1, <2>2, <3>1, <3>2 DEF EngineInv, OutcomeIsTrue
  <2>3. QED
    BY <2>1, <2>2
<1>10. QED
  BY <1>2, <1>3, <1>5, <1>7, <1>8, <1>9 DEF EngineInv

LEMMA EngineIdles ==
  ASSUME EngineInv, UNCHANGED engine_frame
  PROVE  EngineInv'
<1>1. /\ Wanted' = Wanted /\ Reach' = Reach /\ Truncates' = Truncates /\ ByteLimit' = ByteLimit
      /\ (\A f : Has(f)' = Has(f)) /\ (\A s : Wants(s)' = Wants(s))
      /\ (Sharded' <=> Sharded) /\ (Sole' <=> Sole)
  BY SameJob DEF engine_frame
<1> USE <1>1 DEF engine_frame
<1>2. /\ JobsTyped' /\ DataTyped' /\ Places' /\ NoInput'
  BY DEF EngineInv, JobsTyped, DataTyped, Places, NoInput, Moving, Waiting
<1>3. Copied'
  BY DEF EngineInv, Copied, Moving, Waiting, Behind, LeftBehind, Between, Stream, At,
         Positioned, Limited, CountedDown, BlocksDone, Counted
<1>4. OutcomeIsTrue'
  BY SameOutcome DEF EngineInv, OutcomeIsTrue
<1>5. QED
  BY <1>2, <1>3, <1>4 DEF EngineInv


------------------------------------------------------------------------------
(* The engines: from one to the next                                         *)

data_frame == <<job, in_off, out_off, bytes_read, pending, remaining,
                remaining_blocks, stats_bytes, hashed, out, cancel_flag, front>>

LEMMA EngineErr ==
  ASSUME EngineInv, UNCHANGED data_frame, Err
  PROVE  EngineInv'
<1>1. /\ UNCHANGED data_frame /\ pc' = "done" /\ result' = "err"
      /\ UNCHANGED <<stage, abandoned, spilled>> /\ ~Moving' /\ ~Waiting'
      /\ \A s : Wants(s)' = Wants(s)
  BY SameJob DEF Err, Moving, Waiting, data_frame
<1> USE DEF data_frame
<1>2. JobsTyped'
  BY <1>1 DEF EngineInv, JobsTyped
<1>3. DataTyped'
  BY <1>1 DEF EngineInv, DataTyped
<1>4. Places' /\ Copied'
  BY <1>1 DEF Places, Copied, EngineInv
<1>5. NoInput'
  BY <1>1 DEF EngineInv, NoInput
<1>6. OutcomeIsTrue'
  BY <1>1 DEF EngineInv, NoInput, OutcomeIsTrue
<1>7. QED
  BY <1>2, <1>3, <1>4, <1>5, <1>6 DEF EngineInv

LEMMA EngineGivesUp ==
  ASSUME EngineInv, UNCHANGED data_frame, Moving, stage \in {"reflink", "splice", "uring"}, GiveUp
  PROVE  EngineInv'
<1>1. /\ UNCHANGED data_frame /\ pc' = "enter" /\ stage' = After(stage) /\ result' = result
      /\ stage' \in {"splice", "async", "sync"}
      /\ ~Moving' /\ Waiting'
      /\ abandoned' = stats_bytes
      /\ spilled' = (spilled \/ (job.input = "stdin" /\ in_off > 0)
                             \/ (job.output = "stdout" /\ out_off > 0))
      /\ (\A s : Wants(s)' = Wants(s)) /\ Reach' = Reach /\ (\A f : Has(f)' = Has(f))
      /\ Truncates' = Truncates
  BY SameJob DEF GiveUp, Abandon, Moving, Waiting, data_frame, After
<1> USE DEF data_frame
<1>2. JobsTyped'
  BY <1>1 DEF EngineInv, JobsTyped, DataTyped
<1>3. DataTyped'
  BY <1>1 DEF EngineInv, DataTyped
<1>4. ~Has("sync") /\ job.input # "missing" /\ Wants(stage)
  BY DEF EngineInv, Places, Wants, Has
<1>5. Places'
  BY <1>1 DEF EngineInv, Places
<1>7. NoInput'
  BY <1>1, <1>4 DEF NoInput
<1>8. Copied'
  <2> SUFFICES ASSUME ~spilled' PROVE Behind' /\ Between'
    BY <1>1 DEF Copied
  <2>1. /\ ~spilled /\ (job.input = "stdin" => in_off = 0) /\ (job.output = "stdout" => out_off = 0)
    <3>1. in_off \in Nat /\ out_off \in Nat
      BY JobFacts DEF EngineInv, DataTyped, JobsTyped
    <3>2. (~(in_off > 0) => in_off = 0) /\ (~(out_off > 0) => out_off = 0)
      BY <3>1
    <3>3. QED
      BY <1>1, <3>2
  <2>2. Behind /\ Stream /\ Limited
    BY <2>1 DEF EngineInv, Copied
  <2>3. Between'
    BY <1>1, <2>1 DEF Between
  <2>7. ~Sole'
    <3>1. stage' # "sync" => job.engine = "splice" \/ job.threads = 1
      BY <1>1, <1>4 DEF Wants, After
    <3>2. job.engine # "async"
      BY <1>4 DEF Wants
    <3>3. QED
      BY <1>1, <3>1, <3>2 DEF Sole, Wants
  <2>4. ASSUME NEW i \in 1..Len(out)
        PROVE  out[i] = Old \/ (job.input # "stdin" /\ out[i] \in {0, i} /\ i <= Reach)
    <3>1. CASE i > out_off
      BY <2>2, <3>1 DEF Behind, LeftBehind
    <3>2. CASE i <= out_off
      <4>1. /\ in_off \in Nat /\ out_off \in Nat /\ Len(pending) \in Nat /\ i \in Nat
            /\ Reach \in Nat /\ in_off <= Reach
        BY <2>2, JobFacts, WantedFacts DEF EngineInv, DataTyped, JobsTyped, Limited
      <4>2. i \in Positioned /\ out_off + Len(pending) = in_off
        BY <1>4, <2>2, <3>2, <4>1 DEF Positioned, Stream
      <4>3. At(i) = i /\ At(i) = out[i]
        BY <1>4, <2>2, <3>2, <4>2 DEF Stream, At
      <4>4. i <= in_off /\ in_off > 0
        BY <3>2, <4>1, <4>2
      <4>5. QED
        BY <2>1, <4>1, <4>3, <4>4
    <3>3. QED
      BY <3>1, <3>2 DEF EngineInv, DataTyped
  <2>5. Behind'
    BY <1>1, <1>4, <2>4, <2>7 DEF Behind, LeftBehind
  <2>6. QED
    BY <2>3, <2>5
<1>9. OutcomeIsTrue'
  BY <1>1 DEF OutcomeIsTrue
<1>10. QED
  BY <1>2, <1>3, <1>5, <1>7, <1>8, <1>9 DEF EngineInv

\* An engine has reached its end.
LEMMA EngineEndsWell ==
  ASSUME EngineInv, pc = "copy", UNCHANGED data_frame, Ok, ~spilled => Complete
  PROVE  EngineInv'
<1>1. /\ pc' = "done" /\ result' = "ok" /\ UNCHANGED data_frame
      /\ UNCHANGED <<stage, abandoned, spilled>>
      /\ ~Moving' /\ ~Waiting' /\ Moving
  BY DEF Ok, Moving, Waiting
<1>2. job.input # "missing"
  BY <1>1 DEF EngineInv, Places
<1> USE DEF data_frame
<1>3. JobsTyped'
  BY <1>1 DEF EngineInv, JobsTyped
<1>4. DataTyped'
  BY <1>1 DEF EngineInv, DataTyped
<1>5. Places' /\ Copied' /\ NoInput'
  BY <1>1, <1>2 DEF Places, Copied, NoInput, EngineInv
<1>6. OutcomeIsTrue'
  <2>1. Complete => Complete'
    BY <1>1, SameOutcome
  <2>2. QED
    BY <1>1, <1>2, <2>1 DEF OutcomeIsTrue
<1>7. QED
  BY <1>3, <1>4, <1>5, <1>6 DEF EngineInv

LEMMA EngineFails ==
  ASSUME EngineInv, UNCHANGED data_frame, Moving, Fails
  PROVE  EngineInv'
<1>1. CASE stage \in {"splice", "uring"}
  BY <1>1, EngineGivesUp DEF Fails
<1>2. CASE stage \notin {"splice", "uring"}
  BY <1>2, EngineErr DEF Fails
<1>3. QED
  BY <1>1, <1>2

LEMMA EngineStops ==
  ASSUME EngineInv, UNCHANGED <<cancel_flag, front>>,
         Unsupported \/ ReadFails \/ WriteFails
  PROVE  EngineInv'
<1>1. UNCHANGED data_frame /\ Moving
  BY DEF data_frame, offsets, block, limits, Unsupported, ReadFails, WriteFails,
         Copying, Moving
<1>2. CASE WriteFails
  <2>1. Fails
    BY <1>2 DEF WriteFails
  <2>2. QED
    BY <1>1, <2>1, EngineFails
<1>3. CASE Unsupported
  <2>1. CASE stage = "reflink" /\ job.engine = "reflink"
    BY <1>1, <1>3, <2>1, EngineErr DEF Unsupported
  <2>2. CASE ~(stage = "reflink" /\ job.engine = "reflink")
    <3>1. GiveUp /\ stage \in {"reflink", "splice", "uring"}
      BY <1>3, <2>2 DEF Unsupported, Copying
    <3>2. QED
      BY <1>1, <3>1, EngineGivesUp
  <2>3. QED
    BY <2>1, <2>2
<1>4. CASE ReadFails
  <2>1. CASE stage \in {"sync", "async"} /\ Has("noerror")
    <3>1. UNCHANGED engine_frame
      BY <1>1, <1>4, <2>1 DEF ReadFails, data_frame, verdict, engine_frame
    <3>2. QED
      BY <3>1, EngineIdles
  <2>2. CASE ~(stage \in {"sync", "async"} /\ Has("noerror"))
    <3>1. Fails
      BY <1>4, <2>2 DEF ReadFails
    <3>2. QED
      BY <1>1, <3>1, EngineFails
  <2>3. QED
    BY <2>1, <2>2
<1>5. QED
  BY <1>2, <1>3, <1>4


LEMMA EngineSkips ==
  ASSUME EngineInv, SkipEngine, UNCHANGED <<cancel_flag, front>>
  PROVE  EngineInv'
<1>1. /\ UNCHANGED data_frame /\ UNCHANGED verdict /\ pc = "enter" /\ pc' = "enter"
      /\ ~Wants(stage) /\ stage' = After(stage) /\ stage # "sync"
      /\ ~Moving' /\ Waiting' /\ ~Moving /\ Waiting
      /\ (\A s : Wants(s)' = Wants(s)) /\ Reach' = Reach /\ (\A f : Has(f)' = Has(f))
      /\ Truncates' = Truncates
  BY SameJob DEF SkipEngine, offsets, block, limits, data_frame, Moving, Waiting, Wants
<1>2. stage' \in {"splice", "async", "uring", "sync"}
  BY <1>1 DEF After
<1> USE DEF data_frame, verdict
<1>3. JobsTyped' /\ DataTyped' /\ Places' /\ NoInput'
  BY <1>1, <1>2 DEF EngineInv, JobsTyped, DataTyped, Places, NoInput
<1>5. Copied'
  <2>1. Sole' => Sole
    BY <1>1 DEF Sole
  <2>2. Behind => Behind'
    BY <1>1, <2>1 DEF Behind, LeftBehind
  <2>3. QED
    BY <1>1, <2>2 DEF EngineInv, Copied, Between
<1>6. OutcomeIsTrue'
  BY <1>1 DEF OutcomeIsTrue
<1>7. QED
  BY <1>3, <1>5, <1>6 DEF EngineInv

LEMMA OpenedFacts ==
  ASSUME DataTyped
  PROVE  /\ Opened \in Seq(Nat \cup {Old})
         /\ Truncates => Opened = << >> /\ Len(Opened) = 0
         /\ ~Truncates => Opened = out
<1>1. << >> \in Seq(Nat \cup {Old}) /\ Len(<< >>) = 0
  BY EmptySeq
<1>2. QED
  BY <1>1 DEF Opened, DataTyped

LEMMA EngineCannotOpen ==
  ASSUME EngineInv, OpenInputFails \/ OpenOutputFails, UNCHANGED <<cancel_flag, front>>
  PROVE  EngineInv'
<1>1. /\ pc = "enter" /\ Wants(stage) /\ ~Moving /\ Waiting
      /\ (\A s : Wants(s)' = Wants(s)) /\ Reach' = Reach /\ (\A f : Has(f)' = Has(f))
      /\ Truncates' = Truncates
  BY SameJob DEF OpenInputFails, OpenOutputFails, Moving, Waiting
<1>2. CASE stage # "reflink"
  <2>1. UNCHANGED data_frame /\ Err
    BY <1>2 DEF OpenInputFails, OpenOutputFails, data_frame, offsets, block, limits
  <2>2. QED
    BY <2>1, EngineErr
<1>3. CASE stage = "reflink"
  <2>1. /\ UNCHANGED <<job, in_off, out_off, bytes_read, pending, remaining,
                       remaining_blocks, stats_bytes, hashed, cancel_flag, front,
                       result, abandoned, spilled>>
        /\ pc' = "enter" /\ stage' = "splice" /\ (out' = out \/ out' = Opened)
        /\ ~Moving' /\ Waiting'
    BY <1>1, <1>3 DEF OpenInputFails, OpenOutputFails, offsets, block, limits, verdict,
                      After, Moving, Waiting
  <2>2. Wants("reflink") /\ (Sole' <=> Sole)
    BY <1>1, <1>3, <2>1 DEF Sole
  <2>3. /\ out' \in Seq(Nat \cup {Old}) /\ Len(out') \in Nat
        /\ out' = out \/ Len(out') = 0
        /\ job.output = "stdout" => out' = out
    BY <2>1, OpenedFacts DEF EngineInv, DataTyped, Truncates
  <2>4. JobsTyped'
    BY <2>1 DEF EngineInv, JobsTyped
  <2>5. DataTyped'
    BY <2>1, <2>3 DEF EngineInv, DataTyped
  <2>6. Places' /\ NoInput'
    BY <1>1, <2>1, <2>2, <2>3 DEF EngineInv, Places, NoInput
  <2>7. Copied'
    <3>1. Between' <=> Between
      BY <2>1 DEF Between
    <3>2. Behind => Behind'
      BY <1>1, <2>1, <2>2, <2>3 DEF Behind, LeftBehind
    <3>3. QED
      BY <1>1, <2>1, <3>1, <3>2 DEF EngineInv, Copied
  <2>8. OutcomeIsTrue'
    BY <2>1 DEF OutcomeIsTrue
  <2>9. QED
    BY <2>4, <2>5, <2>6, <2>7, <2>8 DEF EngineInv
<1>4. QED
  BY <1>2, <1>3

LEMMA EngineOpens ==
  ASSUME EngineInv, OpenFiles, UNCHANGED <<cancel_flag, front>>
  PROVE  EngineInv'
<1>1. /\ pc = "enter" /\ Wants(stage) /\ job.input # "missing" /\ ~Moving /\ Waiting
      /\ pc' = "copy" /\ Moving' /\ ~Waiting'
      /\ in_off' = (IF job.input = "stdin" THEN in_off ELSE 0)
      /\ out_off' = (IF job.output = "stdout" THEN out_off ELSE 0)
      /\ out' = Opened
      /\ bytes_read' = 0 /\ pending' = << >> /\ hashed' = << >>
      /\ remaining' = (IF stage \in {"sync", "async"} THEN job.limit ELSE ByteLimit)
      /\ remaining_blocks' = (IF stage \in {"sync", "async"} THEN job.count ELSE -1)
      /\ UNCHANGED <<job, stage, stats_bytes, result, abandoned, spilled, cancel_flag, front>>
  BY DEF OpenFiles, verdict, Moving, Waiting
<1>2. /\ ByteLimit' = ByteLimit /\ Reach' = Reach /\ Truncates' = Truncates
      /\ (\A f : Has(f)' = Has(f)) /\ (\A s : Wants(s)' = Wants(s))
      /\ (Sharded' <=> Sharded) /\ (Sole' <=> Sole)
  BY <1>1, SameJob
<1>3. /\ job.limit \in Nat \cup {-1} /\ job.count \in Nat \cup {-1} /\ job.source \in Nat
      /\ job.blocksize \in Nat /\ ByteLimit \in Nat \cup {-1} /\ Reach \in Nat
      /\ in_off \in 0..job.source /\ out_off \in Nat /\ Len(out) \in Nat
  BY JobFacts, WantedFacts DEF EngineInv, JobsTyped, DataTyped
<1>4. /\ out' \in Seq(Nat \cup {Old}) /\ Len(out') \in Nat
      /\ out' = (IF Truncates THEN << >> ELSE out)
      /\ Truncates => Len(out') = 0
      /\ job.output = "stdout" => out' = out /\ out_off = Len(out) /\ out_off' = Len(out')
      /\ job.output # "stdout" => out_off' = 0
  BY <1>1, OpenedFacts DEF EngineInv, DataTyped, Places, Truncates
<1>5. << >> \in Seq(Nat) /\ Len(<< >>) = 0 /\ Len(pending') = 0
  BY <1>1, EmptySeq
<1>6. JobsTyped'
  BY <1>1 DEF EngineInv, JobsTyped
<1>7. DataTyped'
  BY <1>1, <1>3, <1>4, <1>5 DEF EngineInv, DataTyped
<1>8. Places'
  <2>1. Sharded => in_off' = 0 /\ out_off' = 0
    BY <1>1 DEF Sharded, Wants, Named
  <2>2. QED
    BY <1>1, <1>2, <1>3, <1>4, <2>1 DEF EngineInv, Places
<1>10. NoInput'
  BY <1>1 DEF NoInput
<1>11. Copied'
  <2>1. Truncates' => \A i \in 1..Len(out') : out'[i] # Old
    BY <1>2, <1>4
  <2> SUFFICES ASSUME ~spilled
               PROVE  Behind' /\ Stream' /\ Limited' /\ CountedDown' /\ Counted'
    BY <1>1, <2>1 DEF Copied
  <2>2. (~Truncates => Behind) /\ Between
    BY <1>1 DEF EngineInv, Copied
  <2>3. in_off' = 0 /\ out_off' = 0
    BY <1>1, <2>2 DEF Between
  <2>4. Behind'
    <3>1. (~Truncates /\ out' = out) \/ Len(out') = 0
      BY <1>4
    <3>2. QED
      BY <1>1, <1>2, <2>2, <2>3, <3>1 DEF Behind, LeftBehind
  <2>5. Stream'
    BY <1>1, <1>5, <2>3 DEF Stream, Positioned
  <2>6. Limited'
    BY <1>1, <1>2, <1>3, <2>3 DEF Limited
  <2>7. CountedDown'
    <3>1. (BlocksDone' * job.blocksize = 0 /\ BlocksDone' = 0) \/ stage \notin {"sync", "async"}
      BY <1>1, <1>3 DEF BlocksDone
    <3>2. QED
      BY <1>1, <1>3, <2>3, <3>1 DEF CountedDown
  <2>8. Counted'
    <3>1. InputBytes(0, 0) = << >>
      BY EmptySeq, InputFacts
    <3>2. stats_bytes' = abandoned' /\ hashed' = InputBytes(0, 0)
      BY <1>1, <2>2, <3>1 DEF Between
    <3>3. abandoned \in Nat
      BY DEF EngineInv, JobsTyped
    <3>4. QED
      BY <1>1, <2>3, <3>2, <3>3 DEF Counted, InputBytes
  <2>9. QED
    BY <2>4, <2>5, <2>6, <2>7, <2>8
<1>12. OutcomeIsTrue'
  BY <1>1 DEF OutcomeIsTrue
<1>13. QED
  BY <1>6, <1>7, <1>8, <1>10, <1>11, <1>12 DEF EngineInv


------------------------------------------------------------------------------
(* The engines: copying                                                      *)

\* The numbers of a job that is under way.
LEMMA Numbers ==
  ASSUME EngineInv
  PROVE  /\ job.limit \in Int /\ job.limit >= -1 /\ job.count \in Int /\ job.count >= -1
         /\ job.source \in Nat
         /\ job.blocksize \in Nat /\ job.blocksize > 0 /\ job.bad \in Nat /\ job.bad <= job.source
         /\ ByteLimit \in Int /\ ByteLimit >= -1 /\ Wanted \in Nat /\ Reach \in Nat
         /\ in_off <= job.source /\ in_off \in Nat /\ out_off \in Nat
         /\ bytes_read \in Nat /\ bytes_read <= job.blocksize /\ stats_bytes \in Nat
         /\ remaining \in Int /\ remaining >= -1 /\ remaining_blocks \in Int /\ remaining_blocks >= -1
         /\ Len(pending) \in Nat /\ Len(pending) <= job.blocksize /\ Len(out) \in Nat
<1>1. job \in Jobs /\ DataTyped
  BY DEF EngineInv, JobsTyped
<1>2. /\ in_off \in 0..job.source /\ out_off \in Nat
      /\ bytes_read \in 0..job.blocksize /\ stats_bytes \in Nat
      /\ remaining \in Nat \cup {-1} /\ remaining_blocks \in Nat \cup {-1}
      /\ pending \in Seq(Nat) /\ Len(pending) <= job.blocksize
      /\ out \in Seq(Nat \cup {Old}) /\ hashed \in Seq(Nat)
  BY <1>1 DEF DataTyped
<1>3. QED
  BY SMTT(30), <1>1, <1>2, JobFacts, WantedFacts

\* What one read can bring.
LEMMA TakeFacts ==
  ASSUME EngineInv, NEW n \in BlockSizes
  PROVE  /\ n \in Nat \ {0} /\ n <= job.blocksize /\ in_off + n <= job.source
         /\ (remaining >= 0 => n <= remaining)
         /\ (job.bad > in_off => in_off + n <= job.bad - 1)
         /\ job.input # "stdin" =>
              \/ n = job.blocksize \/ (remaining >= 0 /\ n = remaining)
              \/ in_off + n = job.source \/ in_off + n = job.bad - 1
<1>0. /\ job.limit \in Int /\ job.limit >= -1 /\ job.count \in Int /\ job.count >= -1
      /\ job.source \in Nat
      /\ job.blocksize \in Nat /\ job.blocksize > 0 /\ job.bad \in Nat /\ job.bad <= job.source
      /\ ByteLimit \in Int /\ ByteLimit >= -1 /\ Wanted \in Nat /\ Reach \in Nat
      /\ in_off <= job.source /\ in_off \in Nat
      /\ remaining \in Int /\ remaining >= -1 /\ remaining_blocks \in Int /\ remaining_blocks >= -1
  BY Numbers
<1>1. Readable \in Nat /\ in_off + Readable <= job.source
      /\ Readable = IF job.bad > in_off THEN job.bad - 1 - in_off ELSE job.source - in_off
  BY <1>0 DEF Readable
<1> DEFINE want == IF remaining >= 0 THEN Least(remaining, job.blocksize) ELSE job.blocksize
           most == Least(want, Readable)
<1>2. /\ most \in Nat /\ most <= job.blocksize /\ most <= Readable
      /\ (remaining >= 0 => most <= remaining)
      /\ (most = job.blocksize \/ (remaining >= 0 /\ most = remaining) \/ most = Readable)
  BY <1>1, <1>0 DEF Least
<1>3. n \in (IF job.input = "stdin" THEN 1..most ELSE {most} \ {0})
  BY DEF BlockSizes
<1> HIDE DEF most
<1>4. n \in Nat \ {0} /\ n <= most /\ (job.input # "stdin" => n = most)
  BY <1>2, <1>3
<1>5. QED
  BY <1>1, <1>2, <1>4, <1>0

LEMMA StillLimited ==
  ASSUME EngineInv, ~spilled, Moving, ~LimitReached,
         NEW n \in BlockSizes,
         UNCHANGED <<job, stage>>, in_off' = in_off + n,
         remaining' = IF remaining >= 0 THEN remaining - n ELSE remaining
  PROVE  Limited'
<1>0. /\ job.limit \in Int /\ job.limit >= -1 /\ job.count \in Int /\ job.count >= -1
      /\ job.source \in Nat
      /\ job.blocksize \in Nat /\ job.blocksize > 0 /\ job.bad \in Nat /\ job.bad <= job.source
      /\ ByteLimit \in Int /\ ByteLimit >= -1 /\ Wanted \in Nat /\ Reach \in Nat
      /\ in_off <= job.source /\ in_off \in Nat
      /\ remaining \in Int /\ remaining >= -1 /\ remaining_blocks \in Int /\ remaining_blocks >= -1
  BY Numbers
<1>1. Limited /\ CountedDown
  BY DEF EngineInv, Copied
<1>2. /\ n \in Nat \ {0} /\ n <= job.blocksize /\ in_off + n <= job.source
      /\ (remaining >= 0 => n <= remaining)
      /\ (job.bad > in_off => in_off + n <= job.bad - 1)
  BY TakeFacts
<1>3. /\ in_off <= Reach /\ in_off \in Nat /\ Reach \in Nat /\ Reach <= Wanted
      /\ (job.bad > 0 => Reach <= job.bad - 1)
      /\ (ByteLimit >= 0 => Wanted <= ByteLimit) /\ (job.limit >= 0 => Wanted <= job.limit)
  BY <1>1, <1>0, WantedFacts DEF Limited, EngineInv, JobsTyped
<1>4. job.bad > 0 => in_off + n <= job.bad - 1
  BY <1>2, <1>3, <1>0
<1>12. /\ stage \in {"sync", "async"} => remaining = IF job.limit < 0 THEN -1 ELSE job.limit - in_off
       /\ stage \notin {"sync", "async"} => remaining = IF ByteLimit < 0 THEN -1 ELSE ByteLimit - in_off
  BY <1>1 DEF Limited
<1>5. ASSUME job.limit >= 0, stage \in {"sync", "async"}
      PROVE  in_off + n <= job.limit
  <2>1. remaining = job.limit - in_off
    BY <1>0, <1>5, <1>12
  <2>2. QED
    BY <1>0, <1>2, <2>1, <1>3, <1>5
<1>6. ASSUME ByteLimit >= 0, stage \notin {"sync", "async"}
      PROVE  in_off + n <= ByteLimit
  <2>1. remaining = ByteLimit - in_off
    BY <1>0, <1>6, <1>12
  <2>2. QED
    BY <1>0, <1>2, <2>1, <1>3, <1>6
<1>7. ASSUME job.count >= 0, stage \in {"sync", "async"}
      PROVE  in_off + n <= job.count * job.blocksize
  <2>1. /\ remaining_blocks \in 1..job.count /\ in_off <= BlocksDone * job.blocksize
        /\ BlocksDone \in Nat /\ BlocksDone + 1 <= job.count /\ job.count \in Nat
    BY <1>1, <1>7, <1>0 DEF CountedDown, LimitReached, BlocksDone
  <2>2. /\ (BlocksDone + 1) * job.blocksize <= job.count * job.blocksize
        /\ (BlocksDone + 1) * job.blocksize = BlocksDone * job.blocksize + job.blocksize
        /\ BlocksDone * job.blocksize \in Nat /\ job.count * job.blocksize \in Nat
    <3>1. /\ BlocksDone \in Nat /\ BlocksDone + 1 \in Nat /\ BlocksDone <= BlocksDone + 1
          /\ job.count \in Nat /\ job.blocksize \in Nat /\ BlocksDone + 1 <= job.count
      BY <1>0, <2>1
    <3> HIDE DEF BlocksDone
    <3>2. QED
      BY <3>1, ProductFacts
  <2> DEFINE done == BlocksDone * job.blocksize
             next == (BlocksDone + 1) * job.blocksize
             all  == job.count * job.blocksize
  <2> HIDE DEF done, next, all
  <2>3. next <= all /\ next = done + job.blocksize /\ done \in Nat /\ all \in Nat /\ in_off <= done
    BY <2>1, <2>2 DEF done, next, all
  <2>4. in_off + n <= all
    BY <1>2, <2>3, <1>0
  <2>5. QED
    BY <2>4 DEF all
<1>8. ByteLimit >= 0 => in_off + n <= ByteLimit
  <2> DEFINE all == job.count * job.blocksize
  <2>1. ByteLimit = IF job.count < 0 THEN job.limit
                    ELSE IF job.limit < 0 THEN all ELSE Least(job.limit, all)
    BY DEF ByteLimit
  <2>2. job.count >= 0 /\ stage \in {"sync", "async"} => in_off + n <= all
    BY <1>7
  <2> HIDE DEF all
  <2>3. QED
    BY <1>5, <1>6, <2>1, <2>2, <1>0 DEF Least
<1>9. in_off + n <= Reach
  BY <1>2, <1>4, <1>8, <1>0 DEF Reach, Wanted, Least
<1>10. Reach' = Reach /\ ByteLimit' = ByteLimit
  BY SameJob
<1>11. /\ stage \in {"sync", "async"} => remaining' = IF job.limit < 0 THEN -1 ELSE job.limit - in_off'
       /\ stage \notin {"sync", "async"} => remaining' = IF ByteLimit < 0 THEN -1 ELSE ByteLimit - in_off'
  BY <1>0, <1>2, <1>5, <1>6, <1>12
<1>13. in_off' <= Reach' /\ job' = job /\ stage' = stage
  BY <1>9, <1>10
<1>14. QED
  BY <1>10, <1>11, <1>13 DEF Limited

\* The end that was reached is the end of what was wanted.
LEMMA EndFacts ==
  ASSUME EngineInv, ~spilled, pc = "copy",
         LimitReached \/ in_off = job.source
  PROVE  /\ in_off = Wanted \/ (stage \in {"sync", "async"} /\ CutShort(in_off))
         /\ job.input # "stdin" => in_off >= Reach
<1>0. /\ job.limit \in Int /\ job.limit >= -1 /\ job.count \in Int /\ job.count >= -1
      /\ job.source \in Nat
      /\ job.blocksize \in Nat /\ job.blocksize > 0 /\ job.bad \in Nat /\ job.bad <= job.source
      /\ ByteLimit \in Int /\ ByteLimit >= -1 /\ Wanted \in Nat /\ Reach \in Nat
      /\ in_off <= job.source /\ in_off \in Nat
      /\ remaining \in Int /\ remaining >= -1 /\ remaining_blocks \in Int /\ remaining_blocks >= -1
  BY Numbers
<1>1. Limited /\ CountedDown /\ in_off <= Reach /\ Reach <= Wanted
      /\ (job.bad > 0 => Reach <= job.bad - 1) /\ Wanted <= job.source
      /\ (ByteLimit >= 0 => Wanted <= ByteLimit)
      /\ (Wanted = job.source \/ Wanted = ByteLimit)
      /\ (Reach = Wanted \/ Reach = job.bad - 1)
  BY WantedFacts DEF EngineInv, Copied, Moving, Limited, JobsTyped
<1>2. CASE in_off = job.source
  BY <1>1, <1>2, <1>0
<1>3. CASE remaining = 0 /\ stage \notin {"sync", "async"}
  BY <1>1, <1>3, <1>0 DEF Limited
<1> DEFINE all    == job.count * job.blocksize
           before == (job.count - 1) * job.blocksize
<1>4. ByteLimit = IF job.count < 0 THEN job.limit
                  ELSE IF job.limit < 0 THEN all ELSE Least(job.limit, all)
  BY DEF ByteLimit
<1>5. (job.count >= 0 => all \in Nat) /\ (job.count = 0 => all = 0)
  BY <1>0, ProductFacts
<1>6. remaining_blocks = 0 =>
        /\ stage \in {"sync", "async"} /\ job.count \in Nat /\ job.count <= in_off /\ in_off <= all
        /\ job.input # "stdin" =>
             \/ in_off = all \/ in_off = job.source \/ (job.limit >= 0 /\ in_off = job.limit)
             \/ in_off = job.bad - 1 /\ in_off > before
  BY <1>1, <1>0 DEF CountedDown, BlocksDone
<1>7. ASSUME NEW n, n = in_off, job.count > 0, n \in job.count..Wanted,
             job.input = "stdin" \/ (n = job.bad - 1 /\ n > before)
      PROVE  CutShort(in_off)
  BY <1>7 DEF CutShort
<1> HIDE DEF all, before
<1>8. CASE stage \in {"sync", "async"} /\ job.limit >= 0 /\ in_off = job.limit
  BY <1>0, <1>1, <1>4, <1>5, <1>8 DEF Least
<1>9. CASE stage \in {"sync", "async"} /\ remaining = 0
  <2>1. remaining = IF job.limit < 0 THEN -1 ELSE job.limit - in_off
    BY <1>1, <1>9 DEF Limited
  <2>2. job.limit >= 0 /\ in_off = job.limit
    BY <1>0, <1>9, <2>1
  <2>3. QED
    BY <1>8, <1>9, <2>2
<1>10. CASE remaining_blocks = 0
  <2>1. /\ stage \in {"sync", "async"} /\ job.count \in Nat /\ job.count <= in_off /\ in_off <= all
        /\ job.input # "stdin" =>
             \/ in_off = all \/ in_off = job.source \/ (job.limit >= 0 /\ in_off = job.limit)
             \/ in_off = job.bad - 1 /\ in_off > before
    BY <1>6, <1>10
  <2>2. CASE in_off = all
    BY <1>0, <1>1, <1>4, <1>5, <2>1, <2>2 DEF Least
  <2>3. CASE in_off # all
    <3>1. job.count > 0 /\ in_off \in job.count..Wanted
      BY <1>0, <1>1, <1>5, <2>1, <2>3
    <3>2. CASE job.input = "stdin"
      BY <1>7, <2>1, <3>1, <3>2
    <3>3. CASE job.input # "stdin" /\ in_off = job.bad - 1 /\ in_off > before
      <4>1. CutShort(in_off)
        BY <1>7, <3>1, <3>3
      <4>2. in_off >= Reach
        BY <1>0, <1>1, <3>1, <3>3
      <4>3. QED
        BY <2>1, <4>1, <4>2
    <3>4. QED
      BY <1>2, <1>8, <2>1, <2>3, <3>2, <3>3
  <2>4. QED
    BY <2>2, <2>3
<1>11. QED
  BY <1>2, <1>3, <1>9, <1>10 DEF LimitReached

\* The output of a transfer that ends here.
LEMMA CompleteFacts ==
  ASSUME EngineInv, ~spilled, pc = "copy", Enough(in_off),
         Sole \/ (job.input # "stdin" => in_off >= Reach)
  PROVE  Complete
<1>2. /\ in_off \in Nat /\ out_off \in Nat /\ Len(out) \in Nat /\ Reach \in Nat /\ Wanted \in Nat
      /\ Len(pending) = 0 /\ out_off <= Len(out)
  <2>1. pending = << >> /\ out_off <= Len(out)
    BY DEF EngineInv, Places, Moving
  <2>2. QED
    BY <2>1, Numbers, EmptySeq
<1>3. Behind /\ Stream /\ Limited /\ Counted
  BY DEF EngineInv, Copied, Moving
<1>4. /\ Positioned = 1..out_off
      /\ \A i \in 1..out_off : At(i) = out[i] /\ i \in 1..Len(out)
  BY <1>2 DEF Positioned, At
<1>5. /\ \A i \in 1..out_off : out[i] \in 0..in_off
      /\ \A v \in 1..in_off : \E i \in 1..out_off : out[i] = v
      /\ \A i, k \in 1..out_off : i < k /\ out[i] > 0 /\ out[k] > 0 => out[i] < out[k]
      /\ ~Has("sync") => out_off = in_off /\ \A i \in 1..in_off : out[i] = i
  <2>1. /\ \A i \in Positioned : At(i) \in 0..in_off
        /\ \A v \in 1..in_off : \E i \in Positioned : At(i) = v
        /\ \A i, k \in Positioned : i < k /\ At(i) > 0 /\ At(k) > 0 => At(i) < At(k)
        /\ ~Has("sync") => out_off + Len(pending) = in_off /\ \A i \in Positioned : At(i) = i
    BY <1>3 DEF Stream
  <2> HIDE DEF At, Positioned
  <2>2. \A i \in 1..out_off : i \in Positioned /\ At(i) = out[i]
    BY <1>4
  <2>3. \A i \in 1..out_off : out[i] \in 0..in_off
    BY <2>1, <2>2
  <2>4. \A v \in 1..in_off : \E i \in 1..out_off : out[i] = v
    <3> SUFFICES ASSUME NEW v \in 1..in_off PROVE \E i \in 1..out_off : out[i] = v
      OBVIOUS
    <3>1. PICK i \in Positioned : At(i) = v
      BY <2>1
    <3>2. i \in 1..out_off
      BY <1>4, <3>1
    <3>3. out[i] = v
      BY <2>2, <3>1, <3>2
    <3>4. QED
      BY <3>2, <3>3
  <2>5. ASSUME NEW i \in 1..out_off, NEW k \in 1..out_off, i < k, out[i] > 0, out[k] > 0
        PROVE  out[i] < out[k]
    <3>1. i \in Positioned /\ k \in Positioned /\ At(i) = out[i] /\ At(k) = out[k]
      BY <2>2
    <3>2. QED
      BY <2>1, <2>5, <3>1
  <2>6. ~Has("sync") => out_off = in_off /\ \A i \in 1..in_off : out[i] = i
    BY <1>2, <2>1, <2>2
  <2>7. QED
    BY <2>3, <2>4, <2>5, <2>6
<1>6. ASSUME NEW i \in 1..Len(out), i > out_off
      PROVE  out[i] = Old
  <2>1. out[i] = Old \/ (~Sole /\ ~Has("sync") /\ job.input # "stdin" /\ i <= Reach)
    BY <1>3, <1>6 DEF Behind, LeftBehind, Moving
  <2>2. ~(~Sole /\ ~Has("sync") /\ job.input # "stdin" /\ i <= Reach)
    BY <1>2, <1>5, <1>6
  <2>3. QED
    BY <2>1, <2>2
<1>7. HoldsInput(in_off)
  <2>1. ASSUME NEW v \in 1..in_off
        PROVE  v \in Written \ {0, Old}
    <3>1. PICK i \in 1..out_off : out[i] = v
      BY <1>5
    <3>2. i \in 1..Len(out) /\ v # 0 /\ v # Old
      BY <1>4 DEF Old
    <3>3. QED
      BY <3>1, <3>2 DEF Written
  <2>2. ASSUME NEW v \in Written \ {0, Old}
        PROVE  v \in 1..in_off
    <3>1. PICK i \in 1..Len(out) : out[i] = v
      BY DEF Written
    <3>2. i \in 1..out_off
      BY <1>2, <1>6, <3>1
    <3>3. v \in 0..in_off /\ v # 0
      BY <1>5, <3>1, <3>2
    <3>4. QED
      BY <1>2, <3>3
  <2>3. ASSUME NEW i \in 1..Len(out), NEW k \in 1..Len(out), i < k, out[i] > 0, out[k] > 0
        PROVE  out[i] < out[k]
    <3>1. ~(Old > 0)
      BY DEF Old
    <3>2. i \in 1..out_off /\ k \in 1..out_off
      BY <1>2, <1>6, <2>3, <3>1
    <3>3. QED
      BY <1>5, <2>3, <3>2
  <2>4. QED
    BY <1>5, <2>1, <2>2, <2>3 DEF HoldsInput
<1>8. Truncates => Old \notin Written
  BY DEF EngineInv, Copied, Moving, Written
<1>9. (Has("hash") => hashed = InputBytes(0, in_off)) /\ stats_bytes = in_off + abandoned
  <2>1. /\ Has("hash") => hashed = InputBytes(0, in_off)
        /\ stats_bytes + 0 = in_off + abandoned
    BY <1>3 DEF Counted
  <2>2. stats_bytes \in Nat
    BY Numbers
  <2>3. QED
    BY <2>1, <2>2
<1>10. in_off \in 0..job.source
  BY DEF EngineInv, DataTyped
<1>11. QED
  BY <1>7, <1>8, <1>9, <1>10 DEF Complete

LEMMA EngineFinishes ==
  ASSUME EngineInv, Finished, UNCHANGED <<cancel_flag, front>>
  PROVE  EngineInv'
<1>1. /\ pc = "copy" /\ ~Sharded /\ UNCHANGED data_frame /\ Ok
      /\ LimitReached \/ in_off = job.source
  BY DEF Finished, Copying, offsets, block, limits, data_frame
<1>2. ASSUME ~spilled
      PROVE  Complete
  <2>1. /\ in_off = Wanted \/ (stage \in {"sync", "async"} /\ CutShort(in_off))
        /\ job.input # "stdin" => in_off >= Reach
    BY <1>1, <1>2, EndFacts
  <2>2. Enough(in_off)
    BY <1>1, <2>1 DEF Enough
  <2>3. QED
    BY <1>1, <1>2, <2>1, <2>2, CompleteFacts
<1>3. QED
  BY <1>1, <1>2, EngineEndsWell

LEMMA EngineCancelled ==
  ASSUME EngineInv, Cancelled, UNCHANGED <<cancel_flag, front>>
  PROVE  EngineInv'
<1>1. /\ pc = "copy" /\ Moving /\ ~Sharded /\ UNCHANGED data_frame /\ cancel_flag /\ CancelVerdict
  BY DEF Cancelled, Copying, offsets, block, limits, data_frame, Moving
<1>2. CASE stage # "async"
  BY <1>1, <1>2, EngineFails DEF CancelVerdict
<1>3. CASE stage = "async" /\ Err
  BY <1>1, <1>3, EngineErr
<1>4. CASE stage = "async" /\ Ok
  <2>1. ASSUME ~spilled
        PROVE  Complete
    <3>1. in_off <= Wanted
      <4>1. in_off <= Reach
        BY <1>1, <2>1 DEF EngineInv, Copied, Limited
      <4>2. Reach \in Nat /\ Wanted \in Nat /\ Reach <= Wanted /\ in_off \in Nat
        BY Numbers, WantedFacts DEF EngineInv, JobsTyped
      <4>3. QED
        BY <4>1, <4>2
    <3>2. Enough(in_off)
      BY <1>1, <1>4, <3>1 DEF Enough
    <3>3. Sole
      BY <1>1, <1>4 DEF Sole, EngineInv, Places, Wants
    <3>4. QED
      BY <1>1, <2>1, <3>2, <3>3, CompleteFacts
  <2>2. QED
    BY <1>1, <1>4, <2>1, EngineEndsWell
<1>5. QED
  BY <1>1, <1>2, <1>3, <1>4 DEF CancelVerdict


LEMMA WiderSeq ==
  ASSUME NEW s \in Seq(Nat)
  PROVE  s \in Seq(Nat \cup {Old})
OBVIOUS

\* What a piece of a write does to the output.
LEMMA PutFacts ==
  ASSUME EngineInv, Moving, NEW bytes \in Seq(Nat), out' = WrittenAt(out_off, bytes)
  PROVE  LET end == out_off + Len(bytes)
         IN  /\ out' \in Seq(Nat \cup {Old}) /\ end \in Nat /\ Len(out') \in Nat
             /\ Len(out') = IF end > Len(out) THEN end ELSE Len(out)
             /\ \A i \in 1..Len(out') :
                  out'[i] = IF i > out_off /\ i <= end THEN bytes[i - out_off] ELSE out[i]
             /\ \A i \in 1..Len(bytes) : bytes[i] \in Nat
<1>1. /\ out \in Seq(Nat \cup {Old}) /\ bytes \in Seq(Nat \cup {Old})
      /\ out_off \in Nat /\ out_off <= Len(out)
  BY WiderSeq DEF EngineInv, DataTyped, Places
<1> DEFINE after == WrittenAt(out_off, bytes)
           end   == out_off + Len(bytes)
<1>2. /\ after \in Seq(Nat \cup {Old}) /\ end \in Nat
      /\ Len(after) = IF end > Len(out) THEN end ELSE Len(out)
      /\ \A i \in 1..Len(after) :
           after[i] = IF i > out_off /\ i <= end THEN bytes[i - out_off] ELSE out[i]
  BY <1>1, WrittenFacts
<1>3. \A i \in 1..Len(bytes) : bytes[i] \in Nat
  OBVIOUS
<1> HIDE DEF after
<1>4. out' = after /\ Len(after) \in Nat
  BY <1>2 DEF after
<1>5. QED
  BY <1>2, <1>3, <1>4

LEMMA EngineMoves ==
  ASSUME EngineInv, Moving, Moving',
         UNCHANGED <<job, stage, result, abandoned, cancel_flag, front>>,
         spilled' \in BOOLEAN, DataTyped', Places', Copied'
  PROVE  EngineInv'
<1>1. pc' \in {"copy", "write", "rewrite"} /\ ~Waiting' /\ pc' # "done" /\ job.input # "missing"
  BY DEF Moving, Waiting, EngineInv, Places
<1>2. JobsTyped'
  BY <1>1 DEF EngineInv, JobsTyped
<1>3. NoInput' /\ OutcomeIsTrue'
  BY <1>1 DEF NoInput, OutcomeIsTrue
<1>4. QED
  BY <1>2, <1>3 DEF EngineInv

LEMMA EngineCopiesRange ==
  ASSUME EngineInv, CopyRange, UNCHANGED <<cancel_flag, front>>
  PROVE  EngineInv'
<1>1. PICK n \in BlockSizes :
        /\ out' = WrittenAt(out_off, InputBytes(in_off, n))
        /\ in_off' = in_off + n /\ out_off' = out_off + n
        /\ stats_bytes' = stats_bytes + n
        /\ remaining' = IF remaining >= 0 THEN remaining - n ELSE remaining
  BY DEF CopyRange
<1>2. /\ pc = "copy" /\ pc' = "copy" /\ stage = "reflink" /\ ~Sharded /\ ~LimitReached
      /\ UNCHANGED <<job, stage, bytes_read, pending, remaining_blocks, hashed, result,
                     abandoned, spilled>>
      /\ Moving /\ Moving' /\ ~Waiting'
  BY DEF CopyRange, Copying, block, verdict, Moving, Waiting
<1>3. /\ n \in Nat \ {0} /\ in_off + n <= job.source /\ (remaining >= 0 => n <= remaining)
  BY TakeFacts
<1>4. /\ in_off \in Nat /\ out_off \in Nat /\ stats_bytes \in Nat /\ Len(out) \in Nat
      /\ job.source \in Nat /\ remaining \in Int /\ remaining >= -1
  BY Numbers
<1>5. /\ InputBytes(in_off, n) \in Seq(Nat) /\ Len(InputBytes(in_off, n)) = n
      /\ \A i \in 1..n : InputBytes(in_off, n)[i] = in_off + i
  BY <1>3, <1>4, InputFacts
<1> DEFINE bytes == InputBytes(in_off, n)
           end == out_off + n
<1> HIDE DEF bytes
<1>6. /\ out' \in Seq(Nat \cup {Old}) /\ end \in Nat /\ Len(out') \in Nat
      /\ Len(out') = IF end > Len(out) THEN end ELSE Len(out)
      /\ \A i \in 1..Len(out') :
           out'[i] = IF i > out_off /\ i <= end THEN bytes[i - out_off] ELSE out[i]
  <2>1. bytes \in Seq(Nat) /\ out' = WrittenAt(out_off, bytes) /\ Len(bytes) = n
    BY <1>1, <1>5 DEF bytes
  <2>2. QED
    BY <1>2, <2>1, PutFacts
<1>7. \A i \in 1..n : bytes[i] = in_off + i
  BY <1>5 DEF bytes
<1>8. DataTyped'
  <2>1. /\ in_off' \in 0..job.source /\ out_off' \in Nat /\ stats_bytes' \in Nat
        /\ remaining' \in Nat \cup {-1}
    BY <1>1, <1>3, <1>4
  <2>2. QED
    BY <1>2, <1>6, <2>1 DEF EngineInv, DataTyped
<1>9. ~Has("sync") /\ ~Has("hash") /\ (\A s : Wants(s)' = Wants(s)) /\ (\A f : Has(f)' = Has(f))
      /\ Reach' = Reach /\ Truncates' = Truncates /\ ~Sharded' /\ (Sole' <=> Sole)
  BY <1>2, SameJob DEF EngineInv, Places, Wants, Has
<1>10. /\ pending = << >> /\ Len(pending) = 0 /\ out_off <= Len(out)
       /\ (job.output = "stdout" => out_off = Len(out)) /\ job.input # "missing"
       /\ result = "none" /\ Wants(stage)
  BY <1>2, EmptySeq DEF EngineInv, Places
<1>11. Places'
  <2>1. out_off' <= Len(out') /\ (job.output = "stdout" => out_off' = Len(out'))
    BY <1>1, <1>3, <1>4, <1>6, <1>10
  <2>2. QED
    BY <1>2, <1>9, <1>10, <2>1 DEF Places
<1>12. ASSUME Truncates, NEW i \in 1..Len(out')
       PROVE  out'[i] # Old
  <2>1. CASE i > out_off /\ i <= end
    <3>1. i - out_off \in 1..n
      BY <1>3, <1>4, <2>1
    <3>2. out'[i] = in_off + (i - out_off)
      BY <1>6, <1>7, <2>1, <3>1
    <3>3. QED
      BY <1>4, <3>1, <3>2 DEF Old
  <2>2. CASE ~(i > out_off /\ i <= end)
    <3>1. i \in 1..Len(out) /\ out'[i] = out[i]
      BY <1>4, <1>6, <1>10, <2>2
    <3>2. QED
      BY <1>2, <1>12, <3>1 DEF EngineInv, Copied
  <2>3. QED
    BY <2>1, <2>2
<1>13. ASSUME ~spilled
       PROVE  Behind' /\ Stream' /\ Limited' /\ CountedDown' /\ Counted'
  <2>1. Behind /\ Stream /\ Limited /\ CountedDown /\ Counted
    BY <1>2, <1>13 DEF EngineInv, Copied
  <2>2. out_off = in_off /\ \A i \in 1..out_off : out[i] = i
    <3>1. Positioned = 1..out_off
      BY <1>4, <1>10 DEF Positioned
    <3>2. /\ out_off + Len(pending) = in_off
          /\ \A i \in 1..out_off : IF i <= out_off THEN out[i] = i ELSE TRUE
      BY <1>9, <2>1, <3>1 DEF Stream, At
    <3>3. QED
      BY <1>4, <1>10, <3>2
  <2>3. \A i \in 1..end : i \in 1..Len(out') /\ out'[i] = i
    <3> SUFFICES ASSUME NEW i \in 1..end PROVE i \in 1..Len(out') /\ out'[i] = i
      OBVIOUS
    <3>1. i \in 1..Len(out')
      BY <1>4, <1>6, <1>10
    <3>2. CASE i > out_off
      <4>1. i - out_off \in 1..n /\ i <= end
        BY <1>3, <1>4, <1>6, <3>2
      <4>2. out'[i] = in_off + (i - out_off)
        BY <1>6, <1>7, <3>1, <3>2, <4>1
      <4>3. QED
        BY <1>4, <2>2, <3>1, <4>1, <4>2
    <3>3. CASE i <= out_off
      <4>1. out'[i] = out[i] /\ i \in 1..out_off
        BY <1>4, <1>6, <3>1, <3>3
      <4>2. QED
        BY <2>2, <3>1, <4>1
    <3>4. QED
      BY <1>4, <1>6, <3>2, <3>3
  <2>4. Behind'
    <3> SUFFICES ASSUME NEW i \in 1..Len(out'), i > end
                 PROVE  out'[i] = Old \/ LeftBehind(i)'
      BY <1>1, <1>2 DEF Behind
    <3>1. i \in 1..Len(out) /\ out'[i] = out[i] /\ i > out_off
      BY <1>3, <1>4, <1>6
    <3>2. QED
      BY <1>2, <1>9, <2>1, <3>1 DEF Behind, LeftBehind
  <2>5. in_off' = end /\ out_off' = end /\ Positioned' = 1..end /\ end \in Nat
    BY <1>1, <1>2, <1>6, <1>10, <2>2 DEF Positioned
  <2>6. \A i \in 1..end : At(i)' = i
    BY <2>3, <2>5 DEF At
  <2>7. Stream'
    <3>1. /\ \A i \in 1..end : At(i)' \in 0..end
          /\ \A v \in 1..end : \E i \in 1..end : At(i)' = v
          /\ \A i, k \in 1..end : i < k => At(i)' < At(k)'
      BY <2>5, <2>6
    <3>2. out_off' + Len(pending') = in_off'
      BY <1>2, <1>10, <2>5
    <3>3. QED
      BY <2>5, <2>6, <3>1, <3>2 DEF Stream
  <2>8. Limited'
    BY <1>1, <1>2, <1>13, StillLimited
  <2>9. CountedDown'
    BY <1>2, <2>1 DEF CountedDown
  <2>10. Counted'
    <3>1. stats_bytes' + 0 = in_off' + abandoned
      <4>1. stats_bytes + 0 = in_off + abandoned /\ abandoned \in Nat
        BY <1>2, <2>1 DEF Counted, EngineInv, JobsTyped
      <4>2. QED
        BY <1>1, <1>3, <1>4, <4>1
    <3>2. QED
      BY <1>2, <1>9, <3>1 DEF Counted
  <2>11. QED
    BY <2>4, <2>7, <2>8, <2>9, <2>10
<1>14. Copied'
  BY <1>2, <1>9, <1>12, <1>13 DEF Copied
<1>15. spilled' \in BOOLEAN
  BY <1>2 DEF EngineInv, JobsTyped
<1>16. QED
  BY <1>2, <1>8, <1>11, <1>14, <1>15, EngineMoves


LEMMA EngineShardsCopy ==
  ASSUME EngineInv, ShardedCopies, UNCHANGED <<cancel_flag, front>>
  PROVE  EngineInv'
<1>1. PICK n \in 0..ShardedWanted :
        /\ n = ShardedWanted \/ cancel_flag
        /\ out' = WrittenAt(0, InputBytes(0, n))
        /\ stats_bytes' = stats_bytes + n
        /\ hashed' = IF Has("hash") THEN InputBytes(0, n) ELSE hashed
  BY DEF ShardedCopies
<1>2. /\ pc = "copy" /\ Sharded /\ pc' = "done" /\ Moving /\ ~Moving' /\ ~Waiting'
      /\ UNCHANGED <<job, stage, in_off, out_off, bytes_read, pending, remaining,
                     remaining_blocks, abandoned, spilled, cancel_flag>>
      /\ result' = "ok"
  BY DEF ShardedCopies, Ok, offsets, block, limits, Moving, Waiting
<1>3. in_off = 0 /\ out_off = 0 /\ Wants("uring") /\ stage = "uring" /\ job.input # "missing" /\ Sole
  BY <1>2 DEF EngineInv, Places, Sharded, Sole
<1>4. /\ n \in Nat /\ ShardedWanted \in Nat /\ Len(out) \in Nat /\ n <= job.source
      /\ job.source \in Nat /\ n <= ShardedWanted /\ stats_bytes \in Nat
  BY Numbers, WantedFacts DEF EngineInv, JobsTyped
<1>5. /\ InputBytes(0, n) \in Seq(Nat) /\ Len(InputBytes(0, n)) = n
      /\ \A i \in 1..n : InputBytes(0, n)[i] = 0 + i
  BY <1>4, InputFacts
<1> DEFINE bytes == InputBytes(0, n)
<1> HIDE DEF bytes
<1>6. \A i \in 1..n : bytes[i] = i
  BY <1>4, <1>5 DEF bytes
<1>7. /\ out' \in Seq(Nat \cup {Old}) /\ Len(out') = (IF n > Len(out) THEN n ELSE Len(out))
      /\ \A i \in 1..Len(out') : out'[i] = IF i <= n THEN bytes[i] ELSE out[i]
  <2>1. bytes \in Seq(Nat) /\ out' = WrittenAt(out_off, bytes) /\ Len(bytes) = n
    BY <1>1, <1>3, <1>5 DEF bytes
  <2>2. /\ out' \in Seq(Nat \cup {Old})
        /\ Len(out') = IF out_off + n > Len(out) THEN out_off + n ELSE Len(out)
        /\ \A i \in 1..Len(out') :
             out'[i] = IF i > out_off /\ i <= out_off + n THEN bytes[i - out_off] ELSE out[i]
    BY <1>2, <2>1, PutFacts
  <2>3. out_off + n = n /\ Len(out') \in Nat
    BY <1>3, <1>4, <2>2
  <2>4. ASSUME NEW i \in 1..Len(out')
        PROVE  out'[i] = IF i <= n THEN bytes[i] ELSE out[i]
    <3>1. i - out_off = i /\ i > out_off
      BY <1>3, <2>3
    <3>2. QED
      BY <2>2, <2>3, <3>1
  <2>5. QED
    BY <2>2, <2>3, <2>4
<1>8. DataTyped'
  <2>1. hashed' \in Seq(Nat) /\ stats_bytes' \in Nat
    BY <1>1, <1>4, <1>5 DEF EngineInv, DataTyped
  <2>2. QED
    BY <1>2, <1>7, <2>1 DEF EngineInv, DataTyped
<1>9. JobsTyped'
  BY <1>2 DEF EngineInv, JobsTyped
<1>10. Places' /\ Copied' /\ NoInput'
  BY <1>2, <1>3 DEF Places, Copied, NoInput
<1>11. OutcomeIsTrue'
  <2> SUFFICES ASSUME ~spilled PROVE Complete'
    BY <1>2, <1>3 DEF OutcomeIsTrue
  <2>1. Behind /\ Counted
    BY <1>2 DEF EngineInv, Copied
  <2>2. ASSUME NEW i \in 1..Len(out'), i > n
        PROVE  i \in 1..Len(out) /\ out'[i] = out[i] /\ out'[i] = Old
    <3>1. i \in 1..Len(out) /\ out'[i] = out[i] /\ i > out_off
      BY <1>3, <1>4, <1>7, <2>2
    <3>2. out[i] = Old
      BY <1>2, <1>3, <2>1, <3>1 DEF Behind, LeftBehind
    <3>3. QED
      BY <3>1, <3>2
  <2>3. \A i \in 1..n : i \in 1..Len(out') /\ out'[i] = i
    BY <1>4, <1>6, <1>7
  <2>4. (Written \ {0, Old})' = 1..n
    <3>1. ASSUME NEW v \in 1..n
          PROVE  v \in Written' \ {0, Old}
      BY <2>3 DEF Written, Old
    <3>2. ASSUME NEW v \in Written' \ {0, Old}
          PROVE  v \in 1..n
      <4>1. PICK i \in 1..Len(out') : out'[i] = v
        BY DEF Written
      <4>2. i \in 1..n
        BY <1>4, <2>2, <3>2, <4>1
      <4>3. QED
        BY <2>3, <4>1, <4>2
    <3>3. QED
      BY <3>1, <3>2 DEF Old
  <2>5. ASSUME NEW i \in 1..Len(out'), NEW k \in 1..Len(out'), i < k, out'[i] > 0, out'[k] > 0
        PROVE  out'[i] < out'[k]
    <3>1. ~(Old > 0)
      BY DEF Old
    <3>2. i \in 1..n /\ k \in 1..n
      BY <1>4, <2>2, <2>5, <3>1
    <3>3. QED
      BY <2>3, <2>5, <3>2
  <2>6. HoldsInput(n)'
    BY <2>3, <2>4, <2>5 DEF HoldsInput
  <2>7. Truncates' => Old \notin Written'
    <3>1. ASSUME Truncates, NEW i \in 1..Len(out')
          PROVE  out'[i] # Old
      <4>1. CASE i > n
        BY <1>2, <2>2, <3>1, <4>1 DEF EngineInv, Copied
      <4>2. CASE i <= n
        BY <2>3, <4>2 DEF Old
      <4>3. QED
        BY <1>4, <4>1, <4>2
    <3>2. Truncates' = Truncates
      BY <1>2, SameJob
    <3>3. QED
      BY <3>1, <3>2 DEF Written
  <2>8. ShardedWanted' = ShardedWanted /\ (\A f : Has(f)' = Has(f)) /\ Sharded'
    BY <1>2, SameJob
  <2>9. Has("hash")' => hashed' = InputBytes(0, n)
    BY <1>1, <2>8
  <2>10. stats_bytes' = n + abandoned'
    <3>1. stats_bytes + 0 = 0 + abandoned /\ abandoned \in Nat
      BY <1>2, <1>3, <2>1 DEF Counted, EngineInv, JobsTyped
    <3>2. QED
      BY <1>1, <1>2, <1>4, <3>1
  <2>11. Enough(n)'
    BY <1>1, <1>2, <1>4, <2>8 DEF Enough
  <2>12. n \in 0..job'.source
    BY <1>2, <1>4
  <2>13. QED
    BY <2>6, <2>7, <2>9, <2>10, <2>11, <2>12 DEF Complete, InputBytes
<1>12. QED
  BY <1>8, <1>9, <1>10, <1>11 DEF EngineInv

LEMMA EngineShardsFail ==
  ASSUME EngineInv, ShardedFails, UNCHANGED <<cancel_flag, front>>
  PROVE  EngineInv'
<1>1. PICK positions \in SUBSET (1..ShardedWanted \ {job.bad}),
           length \in Len(out)..(Len(out) + ShardedWanted) :
        /\ positions \subseteq 1..length
        /\ length = Len(out) \/ length \in positions
        /\ out' = Scattered(positions, length)
        /\ \E counted \in 0..Cardinality(positions) :
             /\ stats_bytes' = stats_bytes + counted
             /\ Abandon(stats_bytes', ~Truncates /\ ~(positions \subseteq 1..Reach))
  BY DEF ShardedFails
<1>2. PICK counted \in 0..Cardinality(positions) :
        /\ stats_bytes' = stats_bytes + counted
        /\ Abandon(stats_bytes', ~Truncates /\ ~(positions \subseteq 1..Reach))
  BY <1>1
<1>3. /\ pc = "copy" /\ Sharded /\ stage = "uring" /\ Moving
      /\ pc' = "enter" /\ stage' = "sync" /\ result' = result /\ ~Moving' /\ Waiting'
      /\ abandoned' = stats_bytes'
      /\ spilled' = (spilled \/ (~Truncates /\ ~(positions \subseteq 1..Reach)))
      /\ UNCHANGED <<job, in_off, out_off, bytes_read, pending, remaining, remaining_blocks,
                     hashed, cancel_flag, front>>
  BY <1>2 DEF ShardedFails, Sharded, Abandon, After, Moving, Waiting, offsets, block, limits
<1>4. /\ in_off = 0 /\ out_off = 0 /\ Wants("uring") /\ job.input \notin {"missing", "stdin"}
      /\ job.output # "stdout" /\ ~Has("sync") /\ result = "none" /\ job.engine # "async"
  BY <1>3 DEF EngineInv, Places, Wants, Named
<1>5. /\ Len(out) \in Nat /\ ShardedWanted \in Nat /\ Reach \in Nat /\ stats_bytes \in Nat
      /\ length \in Nat /\ length >= Len(out)
  BY Numbers, WantedFacts DEF EngineInv, JobsTyped
<1>6. Cardinality(positions) \in Nat
  <2>1. IsFiniteSet(1..ShardedWanted)
    BY <1>5, FS_Interval
  <2>2. IsFiniteSet(positions)
    BY <2>1, FS_Subset
  <2>3. QED
    BY <2>2, FS_CardinalityType
<1>7. counted \in Nat /\ stats_bytes' \in Nat
  BY <1>2, <1>5, <1>6
<1>8. /\ (\A s : Wants(s)' = Wants(s)) /\ (\A f : Has(f)' = Has(f))
      /\ Reach' = Reach /\ Truncates' = Truncates
  BY <1>3, SameJob
<1>9. /\ out' \in Seq(Nat \cup {Old}) /\ Len(out') = length
      /\ \A i \in 1..length :
           out'[i] = IF i \in positions THEN i ELSE IF i <= Len(out) THEN out[i] ELSE 0
  <2> DEFINE f == [i \in 1..length |->
                     IF i \in positions THEN i ELSE IF i <= Len(out) THEN out[i] ELSE 0]
  <2>1. ASSUME NEW i \in 1..length
        PROVE  (IF i \in positions THEN i ELSE IF i <= Len(out) THEN out[i] ELSE 0) \in Nat \cup {Old}
    <3>1. i \in Nat /\ (i <= Len(out) => i \in 1..Len(out))
      BY <1>5
    <3>2. out \in Seq(Nat \cup {Old})
      BY DEF EngineInv, DataTyped
    <3>3. i <= Len(out) => out[i] \in Nat \cup {Old}
      BY <3>1, <3>2
    <3>4. QED
      BY <3>1, <3>3
  <2>2. f \in Seq(Nat \cup {Old}) /\ Len(f) = length
    BY <1>5, <2>1
  <2>3. out' = f
    BY <1>1 DEF Scattered
  <2> HIDE DEF f
  <2>4. out' \in Seq(Nat \cup {Old}) /\ Len(out') = length
    BY <2>2, <2>3
  <2>5. QED
    BY <2>3, <2>4 DEF f
<1>10. JobsTyped'
  BY <1>3, <1>4, <1>7 DEF EngineInv, JobsTyped
<1>11. DataTyped'
  BY <1>3, <1>7, <1>9 DEF EngineInv, DataTyped
<1>12. Places' /\ NoInput' /\ OutcomeIsTrue'
  BY <1>3, <1>4 DEF Places, NoInput, OutcomeIsTrue
<1>13. Between'
  BY <1>3, <1>4 DEF Between
<1>14. ASSUME ~spilled', ~Truncates
       PROVE  Behind'
  <2>1. ~spilled /\ positions \subseteq 1..Reach
    BY <1>3, <1>14
  <2>2. Behind
    BY <1>3, <2>1 DEF EngineInv, Copied
  <2>3. ~Sole'
    BY <1>3, <1>4 DEF Sole
  <2>4. ASSUME NEW i \in 1..length
        PROVE  out'[i] = Old \/ (out'[i] \in {0, i} /\ i <= Reach)
    <3>1. CASE i \in positions
      <4>1. i \in 1..Reach
        BY <2>1, <3>1
      <4>2. QED
        BY <1>9, <3>1, <4>1
    <3>2. CASE i \notin positions /\ i <= Len(out)
      <4>1. i \in 1..Len(out) /\ i > 0 /\ out'[i] = out[i]
        BY <1>5, <1>9, <3>2
      <4>2. QED
        BY <1>3, <1>4, <2>2, <4>1 DEF Behind, LeftBehind
    <3>3. CASE i \notin positions /\ ~(i <= Len(out))
      <4>1. length \in positions
        BY <1>1, <1>5, <3>3
      <4>2. length <= Reach
        BY <2>1, <4>1
      <4>3. QED
        BY <1>5, <1>9, <3>3, <4>2
    <3>4. QED
      BY <3>1, <3>2, <3>3
  <2>5. QED
    BY <1>3, <1>4, <1>8, <1>9, <2>3, <2>4 DEF Behind, LeftBehind
<1>15. Copied'
  BY <1>3, <1>8, <1>13, <1>14 DEF Copied
<1>16. QED
  BY <1>10, <1>11, <1>12, <1>15 DEF EngineInv

LEMMA PaddingFacts ==
  ASSUME EngineInv, NEW n \in Nat, n <= job.blocksize
  PROVE  /\ Padding(n) \in Seq(Nat) /\ Len(Padding(n)) \in Nat
         /\ n + Len(Padding(n)) <= job.blocksize
         /\ \A i \in 1..Len(Padding(n)) : Padding(n)[i] = 0
         /\ ~Has("sync") => Len(Padding(n)) = 0
<1>1. job.blocksize \in Nat
  BY Numbers
<1> DEFINE k == job.blocksize - n
<1>2. k \in Nat /\ n + k <= job.blocksize
  BY <1>1
<1> HIDE DEF k
<1>3. /\ [i \in 1..k |-> 0] \in Seq(Nat) /\ Len([i \in 1..k |-> 0]) = k
      /\ \A i \in 1..k : [j \in 1..k |-> 0][i] = 0
  BY <1>2
<1>4. CASE stage \in {"sync", "async"} /\ Has("sync")
  <2>1. Padding(n) = [i \in 1..k |-> 0]
    BY <1>4 DEF Padding, k
  <2>2. QED
    BY <1>2, <1>3, <1>4, <2>1
<1>5. CASE ~(stage \in {"sync", "async"} /\ Has("sync"))
  <2>1. Padding(n) = << >>
    BY <1>5 DEF Padding
  <2>2. << >> \in Seq(Nat) /\ Len(<< >>) = 0
    BY EmptySeq
  <2>3. QED
    BY <1>1, <2>1, <2>2
<1>6. QED
  BY <1>4, <1>5

\* A block as it is in the buffer.
LEMMA BlockFacts ==
  ASSUME EngineInv, NEW n \in Nat, n <= job.blocksize, NEW position \in Nat
  PROVE  LET whole == InputBytes(position, n) \o Padding(n)
             len   == n + Len(Padding(n))
         IN  /\ whole \in Seq(Nat) /\ Len(whole) = len /\ len \in Nat
             /\ len >= n /\ len <= job.blocksize
             /\ \A i \in 1..len : whole[i] = IF i <= n THEN position + i ELSE 0
             /\ ~Has("sync") => len = n
<1>1. /\ Padding(n) \in Seq(Nat) /\ Len(Padding(n)) \in Nat
      /\ n + Len(Padding(n)) <= job.blocksize
      /\ \A i \in 1..Len(Padding(n)) : Padding(n)[i] = 0
      /\ ~Has("sync") => Len(Padding(n)) = 0
  BY PaddingFacts
<1>2. /\ InputBytes(position, n) \in Seq(Nat) /\ Len(InputBytes(position, n)) = n
      /\ \A i \in 1..n : InputBytes(position, n)[i] = position + i
  BY InputFacts
<1> DEFINE bytes == InputBytes(position, n)
           pad == Padding(n)
           whole == bytes \o pad
<1> HIDE DEF bytes, pad
<1>3. bytes \in Seq(Nat) /\ pad \in Seq(Nat)
  BY <1>1, <1>2 DEF bytes, pad
<1>4. /\ whole \in Seq(Nat) /\ Len(whole) = Len(bytes) + Len(pad)
      /\ \A i \in 1..Len(bytes) : whole[i] = bytes[i]
      /\ \A i \in 1..Len(pad) : whole[Len(bytes) + i] = pad[i]
  BY <1>3, ConcatFacts
<1> HIDE DEF whole
<1>5. /\ Len(bytes) = n /\ Len(pad) \in Nat /\ \A i \in 1..n : bytes[i] = position + i
      /\ \A i \in 1..Len(pad) : pad[i] = 0
  BY <1>1, <1>2 DEF bytes, pad
<1>6. ASSUME NEW i \in 1..(n + Len(pad))
      PROVE  whole[i] = IF i <= n THEN position + i ELSE 0
  <2>1. CASE i <= n
    BY <1>4, <1>5, <2>1
  <2>2. CASE i > n
    <3>1. i - n \in 1..Len(pad) /\ n + (i - n) = i
      BY <1>5, <2>2
    <3>2. whole[n + (i - n)] = pad[i - n] /\ pad[i - n] = 0
      BY <1>4, <1>5, <3>1
    <3>3. QED
      BY <2>2, <3>1, <3>2
  <2>3. QED
    BY <1>5, <2>1, <2>2
<1>7. QED
  BY <1>1, <1>4, <1>5, <1>6 DEF whole, bytes, pad

\* What was hashed, and the next block.
LEMMA HashFacts ==
  ASSUME NEW a \in Nat, NEW n \in Nat
  PROVE  InputBytes(0, a) \o InputBytes(a, n) = InputBytes(0, a + n)
<1> DEFINE s == InputBytes(0, a)
           t == InputBytes(a, n)
           u == InputBytes(0, a + n)
<1>1. /\ s \in Seq(Nat) /\ Len(s) = a /\ \A i \in 1..a : s[i] = i
      /\ t \in Seq(Nat) /\ Len(t) = n /\ \A i \in 1..n : t[i] = a + i
      /\ u \in Seq(Nat) /\ Len(u) = a + n /\ \A i \in 1..(a + n) : u[i] = i
  <2>1. ASSUME NEW b \in Nat
        PROVE  /\ InputBytes(0, b) \in Seq(Nat) /\ Len(InputBytes(0, b)) = b
               /\ \A i \in 1..b : InputBytes(0, b)[i] = i
    BY DEF InputBytes
  <2>2. a + n \in Nat
    OBVIOUS
  <2>3. /\ t \in Seq(Nat) /\ Len(t) = n /\ \A i \in 1..n : t[i] = a + i
    BY InputFacts
  <2>4. QED
    BY <2>1, <2>2, <2>3
<1> HIDE DEF s, t, u
<1>2. s \in Seq(Nat) /\ t \in Seq(Nat)
  BY <1>1
<1> DEFINE st == s \o t
<1>3. /\ st \in Seq(Nat) /\ Len(st) = Len(s) + Len(t)
      /\ \A i \in 1..Len(s) : st[i] = s[i]
      /\ \A i \in 1..Len(t) : st[Len(s) + i] = t[i]
  BY <1>2, ConcatFacts
<1> HIDE DEF st
<1>4. Len(st) = Len(u) /\ st \in Seq(Nat) /\ u \in Seq(Nat)
  BY <1>1, <1>3
<1>5. ASSUME NEW i \in 1..Len(st)
      PROVE  st[i] = u[i]
  <2>1. i \in 1..(a + n)
    BY <1>1, <1>4
  <2>2. CASE i <= a
    BY <1>1, <1>3, <2>1, <2>2
  <2>3. CASE i > a
    <3>1. i - a \in 1..n /\ a + (i - a) = i
      BY <2>1, <2>3
    <3>2. st[a + (i - a)] = t[i - a] /\ t[i - a] = a + (i - a)
      BY <1>1, <1>3, <3>1
    <3>3. QED
      BY <1>1, <2>1, <3>1, <3>2
  <2>4. QED
    BY <2>1, <2>2, <2>3
<1>6. st = u
  BY <1>4, <1>5, SeqEqual
<1>7. QED
  BY <1>6 DEF st, s, t, u


LEMMA EngineReads ==
  ASSUME EngineInv, ReadBlock, UNCHANGED <<cancel_flag, front>>
  PROVE  EngineInv'
<1>1. PICK n \in BlockSizes :
        /\ bytes_read' = n
        /\ pending' = InputBytes(in_off, n) \o Padding(n)
        /\ hashed' = IF Has("hash") THEN hashed \o HashBytes(InputBytes(in_off, n), Padding(n))
                     ELSE hashed
        /\ in_off' = in_off + n
        /\ remaining' = IF remaining >= 0 THEN remaining - n ELSE remaining
  BY DEF ReadBlock
<1>2. /\ pc = "copy" /\ pc' = "write" /\ stage \in {"splice", "async", "uring", "sync"} /\ ~LimitReached
      /\ UNCHANGED <<job, stage, out_off, stats_bytes, out, result, abandoned, spilled>>
      /\ remaining_blocks' = IF remaining_blocks >= 0 THEN remaining_blocks - 1
                             ELSE remaining_blocks
      /\ Moving /\ Moving' /\ ~Waiting'
      /\ ~Sharded
  BY DEF ReadBlock, Copying, Streaming, verdict, Moving, Waiting
<1>3. /\ n \in Nat /\ n > 0 /\ n <= job.blocksize /\ in_off + n <= job.source
      /\ (remaining >= 0 => n <= remaining)
      /\ job.input # "stdin" =>
           \/ n = job.blocksize \/ (remaining >= 0 /\ n = remaining)
           \/ in_off + n = job.source \/ in_off + n = job.bad - 1
  BY TakeFacts
<1>4. /\ in_off \in Nat /\ out_off \in Nat /\ stats_bytes \in Nat /\ Len(out) \in Nat
      /\ job.source \in Nat /\ remaining \in Int /\ remaining >= -1
      /\ remaining_blocks \in Int /\ remaining_blocks >= -1
      /\ job.blocksize \in Nat /\ job.blocksize > 0 /\ job.count \in Int /\ job.count >= -1
  BY Numbers
<1> DEFINE len == n + Len(Padding(n))
<1>5. /\ pending' \in Seq(Nat) /\ Len(pending') = len /\ len \in Nat
      /\ len >= n /\ len <= job.blocksize
      /\ \A i \in 1..len : pending'[i] = IF i <= n THEN in_off + i ELSE 0
      /\ ~Has("sync") => len = n
  <2>1. n \in Nat /\ n <= job.blocksize /\ in_off \in Nat
    BY <1>3, <1>4
  <2> DEFINE whole == InputBytes(in_off, n) \o Padding(n)
  <2>2. /\ whole \in Seq(Nat) /\ Len(whole) = len /\ len \in Nat
        /\ len >= n /\ len <= job.blocksize
        /\ \A i \in 1..len : whole[i] = IF i <= n THEN in_off + i ELSE 0
        /\ ~Has("sync") => len = n
    BY <2>1, BlockFacts
  <2>3. pending' = whole
    BY <1>1
  <2> HIDE DEF whole, len
  <2>4. QED
    BY <2>2, <2>3
<1> HIDE DEF len
<1>6. InputBytes(in_off, n) \in Seq(Nat) /\ hashed \in Seq(Nat)
  BY <1>3, <1>4, InputFacts DEF EngineInv, DataTyped
<1>7. DataTyped'
  <2>1. hashed' \in Seq(Nat)
    BY <1>1, <1>6, ConcatFacts DEF HashBytes
  <2>2. /\ in_off' \in 0..job.source /\ bytes_read' \in 0..job.blocksize
        /\ remaining' \in Nat \cup {-1} /\ remaining_blocks' \in Nat \cup {-1}
    BY <1>1, <1>2, <1>3, <1>4
  <2>3. QED
    BY <1>2, <1>5, <2>1, <2>2 DEF EngineInv, DataTyped
<1>8. (\A s : Wants(s)' = Wants(s)) /\ (\A f : Has(f)' = Has(f))
      /\ Reach' = Reach /\ Truncates' = Truncates /\ ~Sharded' /\ (Sole' <=> Sole)
  BY <1>2, SameJob
<1>9. Places'
  <2>1. bytes_read' >= 1 /\ bytes_read' <= in_off'
    BY <1>1, <1>3, <1>4
  <2>2. QED
    BY <1>2, <1>8, <2>1 DEF EngineInv, Places
<1>10. pending = << >> /\ Len(pending) = 0
  BY <1>2, EmptySeq DEF EngineInv, Places
<1>11. ASSUME ~spilled
       PROVE  Behind' /\ Stream' /\ Limited' /\ CountedDown' /\ Counted'
  <2>1. Behind /\ Stream /\ Limited /\ CountedDown /\ Counted
    BY <1>2, <1>11 DEF EngineInv, Copied
  <2>2. Behind'
    BY <1>2, <1>8, <2>1 DEF Behind, LeftBehind
  <2>3. Positioned = 1..out_off /\ Positioned' = 1..(out_off + len)
    BY <1>2, <1>4, <1>5, <1>10 DEF Positioned
  <2>4. /\ \A i \in 1..out_off : At(i)' = At(i)
        /\ \A i \in 1..(out_off + len) : i > out_off =>
             At(i)' = IF i - out_off <= n THEN in_off + (i - out_off) ELSE 0
    <3>1. \A i \in 1..out_off : At(i)' = At(i)
      BY <1>2, <1>4 DEF At
    <3>2. ASSUME NEW i \in 1..(out_off + len), i > out_off
          PROVE  At(i)' = IF i - out_off <= n THEN in_off + (i - out_off) ELSE 0
      <4>1. ~(i <= out_off) /\ i - out_off \in 1..len
        BY <1>4, <1>5, <3>2
      <4>2. At(i)' = pending'[i - out_off]
        BY <1>2, <4>1 DEF At
      <4>3. QED
        BY <1>5, <4>1, <4>2
    <3>3. QED
      BY <3>1, <3>2
  <2>5. /\ \A i \in 1..out_off : At(i) \in 0..in_off
        /\ \A v \in 1..in_off : \E i \in 1..out_off : At(i) = v
        /\ \A i, k \in 1..out_off : i < k /\ At(i) > 0 /\ At(k) > 0 => At(i) < At(k)
        /\ ~Has("sync") => out_off + 0 = in_off /\ \A i \in 1..out_off : At(i) = i
    BY <1>10, <2>1, <2>3 DEF Stream
  <2> HIDE DEF At, Positioned
  <2>6. ASSUME NEW i \in 1..(out_off + len)
        PROVE  \/ i \in 1..out_off /\ At(i)' = At(i) /\ At(i) \in 0..in_off
               \/ i - out_off \in 1..n /\ i > out_off /\ At(i)' = in_off + (i - out_off)
               \/ i > out_off + n /\ At(i)' = 0
    <3>1. CASE i <= out_off
      BY <1>4, <1>5, <2>4, <2>5, <3>1
    <3>2. CASE i > out_off
      BY <1>3, <1>4, <1>5, <2>4, <3>2
    <3>3. QED
      BY <1>4, <1>5, <3>1, <3>2
  <2>7. ASSUME NEW i \in 1..(out_off + len)
        PROVE  At(i)' \in 0..(in_off + n)
    BY <1>3, <1>4, <2>6
  <2>8. ASSUME NEW v \in 1..(in_off + n)
        PROVE  \E i \in 1..(out_off + len) : At(i)' = v
    <3>1. CASE v <= in_off
      <4>1. PICK i \in 1..out_off : At(i) = v
        BY <1>4, <2>5, <3>1
      <4>2. i \in 1..(out_off + len) /\ At(i)' = v
        BY <1>4, <1>5, <2>4, <4>1
      <4>3. QED
        BY <4>2
    <3>2. CASE v > in_off
      <4>0. out_off + (v - in_off) \in 1..(out_off + len)
        BY <1>3, <1>4, <1>5, <3>2
      <4>1. PICK w \in 1..(out_off + len) :
              w > out_off /\ w - out_off <= n /\ in_off + (w - out_off) = v
        BY <1>3, <1>4, <3>2, <4>0
      <4>2. At(w)' = v
        BY <2>4, <4>1
      <4>3. QED
        BY <4>1, <4>2
    <3>3. QED
      BY <1>3, <1>4, <3>1, <3>2
  <2>9. ASSUME NEW i \in 1..(out_off + len), NEW k \in 1..(out_off + len),
               i < k, At(i)' > 0, At(k)' > 0
        PROVE  At(i)' < At(k)'
    <3>1. CASE i <= out_off /\ k <= out_off
      <4>1. i \in 1..out_off /\ k \in 1..out_off /\ At(i)' = At(i) /\ At(k)' = At(k)
        BY <1>4, <2>4, <3>1
      <4>2. QED
        BY <2>5, <2>9, <4>1
    <3>2. CASE k > out_off
      <4>1. k - out_off \in 1..n /\ At(k)' = in_off + (k - out_off)
        BY <1>3, <1>4, <2>6, <2>9, <3>2
      <4>2. CASE i <= out_off
        <5>1. At(i)' \in 0..in_off
          BY <1>3, <1>4, <2>6, <4>2
        <5>2. QED
          BY <1>3, <1>4, <4>1, <5>1
      <4>3. CASE i > out_off
        <5>1. At(i)' = in_off + (i - out_off)
          BY <1>3, <1>4, <2>6, <2>9, <4>3
        <5>2. QED
          BY <1>3, <1>4, <2>9, <4>1, <5>1
      <4>4. QED
        BY <1>4, <4>2, <4>3
    <3>3. QED
      BY <1>4, <2>9, <3>1, <3>2
  <2>10. ASSUME ~Has("sync")
         PROVE  out_off + len = in_off + n /\ \A i \in 1..(out_off + len) : At(i)' = i
    <3>1. out_off = in_off /\ len = n /\ \A i \in 1..out_off : At(i) = i
      BY <1>4, <1>5, <2>5, <2>10
    <3>2. ASSUME NEW i \in 1..(out_off + len)
          PROVE  At(i)' = i
      <4>1. ~(i > out_off + n)
        BY <1>3, <1>4, <3>1
      <4>2. \/ i \in 1..out_off /\ At(i)' = At(i)
            \/ At(i)' = in_off + (i - out_off)
        BY <2>6, <4>1
      <4>3. QED
        BY <1>4, <3>1, <4>2
    <3>3. QED
      BY <3>1, <3>2
  <2>11. Stream'
    <3>1. /\ out_off' + Len(pending') = out_off + len /\ in_off' = in_off + n
          /\ Positioned' = 1..(out_off + len) /\ (Has("sync")' <=> Has("sync"))
      BY <1>1, <1>2, <1>5, <1>8, <2>3
    <3>2. QED
      BY <2>7, <2>8, <2>9, <2>10, <3>1 DEF Stream
  <2>12. Limited'
    BY <1>1, <1>2, <1>11, StillLimited
  <2>13. CountedDown'
    <3>1. CASE stage \notin {"sync", "async"} \/ job.count < 0
      <4>1. remaining_blocks = -1
        BY <2>1, <3>1 DEF CountedDown
      <4>2. remaining_blocks' = -1
        BY <1>2, <4>1
      <4>3. QED
        BY <1>2, <1>4, <3>1, <4>2 DEF CountedDown
    <3>2. CASE stage \in {"sync", "async"} /\ job.count >= 0
      <4> DEFINE d == BlocksDone
                 size == job.blocksize
      <4>1. /\ remaining_blocks \in 1..job.count /\ remaining_blocks' = remaining_blocks - 1
            /\ d \in Nat /\ d <= in_off /\ in_off <= d * size
            /\ job.input # "stdin" =>
                 \/ in_off = d * size
                 \/ in_off = job.source \/ (job.limit >= 0 /\ in_off = job.limit)
                 \/ in_off = job.bad - 1
        BY <1>2, <1>4, <2>1, <3>2 DEF CountedDown, BlocksDone, LimitReached
      <4>2. BlocksDone' = d + 1 /\ BlocksDone' - 1 = d /\ job' = job
        BY <1>2, <1>4, <4>1 DEF BlocksDone
      <4> HIDE DEF d
      <4>3. (d + 1) * size = d * size + size /\ d * size \in Nat
        <5>1. d + 1 \in Nat /\ d <= d + 1 /\ size \in Nat /\ d \in Nat
          BY <1>4, <4>1
        <5>2. QED
          BY <5>1, ProductFacts
      <4> DEFINE all == d * size
                 next == (d + 1) * size
      <4>4. /\ all \in Nat /\ next = all + size /\ in_off <= all
            /\ job.input # "stdin" =>
                 \/ in_off = all
                 \/ in_off = job.source \/ (job.limit >= 0 /\ in_off = job.limit)
                 \/ in_off = job.bad - 1
        BY <4>1, <4>3
      <4>5. BlocksDone' * job'.blocksize = next /\ (BlocksDone' - 1) * job'.blocksize = all
        BY <4>2
      <4> HIDE DEF all, next
      <4>6. d + 1 <= in_off + n /\ in_off + n <= next
        BY <1>3, <1>4, <4>1, <4>4
      <4>7. ASSUME job.input # "stdin"
            PROVE  \/ in_off + n = next
                   \/ in_off + n = job.source \/ (job.limit >= 0 /\ in_off + n = job.limit)
                   \/ in_off + n = job.bad - 1 /\ in_off + n > all
        <5>0. /\ remaining = IF job.limit < 0 THEN -1 ELSE job.limit - in_off
              /\ (job.bad > 0 => Reach <= job.bad - 1) /\ in_off <= Reach
              /\ Reach <= Wanted
          BY <2>1, <3>2, WantedFacts DEF Limited, EngineInv, JobsTyped
        <5>1. /\ job.limit \in Int /\ job.bad \in Nat /\ job.bad <= job.source /\ Reach \in Nat
          BY Numbers
        <5>2. job.bad > in_off => in_off + n <= job.bad - 1
          BY TakeFacts
        <5>3. in_off = all
          <6>1. in_off # job.source
            BY <1>3, <1>4
          <6>2. ~(job.limit >= 0 /\ in_off = job.limit)
            BY <1>2, <1>4, <5>0, <5>1 DEF LimitReached
          <6>3. in_off # job.bad - 1
            BY <1>3, <1>4, <5>1, <5>2
          <6>4. QED
            BY <4>4, <4>7, <6>1, <6>2, <6>3
        <5>4. CASE n = job.blocksize
          BY <4>4, <5>3, <5>4
        <5>5. CASE remaining >= 0 /\ n = remaining
          BY <1>4, <5>0, <5>1, <5>5
        <5>6. CASE in_off + n = job.source
          BY <5>6
        <5>7. CASE in_off + n = job.bad - 1
          BY <1>3, <1>4, <4>4, <5>3, <5>7
        <5>8. QED
          BY <1>3, <4>7, <5>4, <5>5, <5>6, <5>7
      <4>8. in_off' = in_off + n /\ stage' \in {"sync", "async"} /\ job' = job /\ job.count >= 0
        BY <1>1, <1>2, <3>2
      <4>9. /\ remaining_blocks' \in 0..job'.count
            /\ BlocksDone' <= in_off' /\ in_off' <= BlocksDone' * job'.blocksize
        BY <1>4, <4>1, <4>2, <4>5, <4>6, <4>8
      <4>10. job'.input # "stdin" =>
               \/ in_off' = BlocksDone' * job'.blocksize
               \/ in_off' = job'.source \/ (job'.limit >= 0 /\ in_off' = job'.limit)
               \/ in_off' = job'.bad - 1 /\ in_off' > (BlocksDone' - 1) * job'.blocksize
        BY <4>5, <4>7, <4>8
      <4>11. ~(stage' \notin {"sync", "async"} \/ job'.count < 0)
        BY <1>4, <4>8
      <4>12. QED
        BY <4>9, <4>10, <4>11 DEF CountedDown
    <3>3. QED
      BY <1>4, <3>1, <3>2
  <2>14. Counted'
    <3>1. stats_bytes + 0 = in_off + abandoned /\ abandoned \in Nat
      BY <1>2, <2>1 DEF Counted, EngineInv, JobsTyped
    <3>2. stats_bytes' + bytes_read' = in_off' + abandoned'
      BY <1>1, <1>2, <1>3, <1>4, <3>1
    <3>3. Has("hash") => hashed' = InputBytes(0, in_off + n)
      <4>1. Has("hash") => hashed = InputBytes(0, in_off)
        BY <2>1 DEF Counted
      <4>2. QED
        BY <1>1, <1>3, <1>4, <4>1, HashFacts DEF HashBytes
    <3>4. Has("hash")' => hashed' = InputBytes(0, in_off')
      BY <1>1, <1>8, <3>3
    <3>5. QED
      BY <1>2, <3>2, <3>4 DEF Counted, InputBytes
  <2>15. QED
    BY <2>2, <2>11, <2>12, <2>13, <2>14
<1>12. Copied'
  BY <1>2, <1>8, <1>11 DEF Copied, EngineInv
<1>13. spilled' \in BOOLEAN
  BY <1>2 DEF EngineInv, JobsTyped
<1>14. QED
  BY <1>2, <1>7, <1>9, <1>12, <1>13, EngineMoves


LEMMA EngineWrites ==
  ASSUME EngineInv, WriteSome, UNCHANGED <<cancel_flag, front>>
  PROVE  EngineInv'
<1>1. PICK m \in 1..Len(pending) :
        /\ out' = WrittenAt(out_off, SubSeq(pending, 1, m))
        /\ out_off' = out_off + m
        /\ IF m = Len(pending)
           THEN /\ pending' = << >> /\ pc' = "copy"
                /\ stats_bytes' = stats_bytes + bytes_read
           ELSE /\ pending' = Rest(m)
                /\ UNCHANGED <<pc, stats_bytes>>
  BY DEF WriteSome
<1>2. /\ pc \in {"write", "rewrite"} /\ pc' \in {pc, "copy"} /\ stage \in {"splice", "async", "uring", "sync"} /\ ~Sharded
      /\ UNCHANGED <<job, stage, in_off, bytes_read, remaining, remaining_blocks, hashed, result,
                     abandoned, spilled>>
      /\ Moving /\ Moving' /\ ~Waiting'
  BY <1>1 DEF WriteSome, limits, verdict, Moving, Waiting, EngineInv, Places
<1>3. /\ in_off \in Nat /\ out_off \in Nat /\ stats_bytes \in Nat /\ Len(out) \in Nat
      /\ Len(pending) \in Nat /\ bytes_read \in Nat /\ Len(pending) <= job.blocksize
      /\ job.blocksize \in Nat /\ m \in Nat /\ m >= 1 /\ m <= Len(pending)
  BY Numbers
<1>4. pending \in Seq(Nat)
  BY DEF EngineInv, DataTyped
<1> DEFINE piece == SubSeq(pending, 1, m)
           end == out_off + m
<1>5. /\ piece \in Seq(Nat) /\ Len(piece) = m
      /\ \A i \in 1..m : piece[i] = pending[i]
  BY <1>3, <1>4
<1>6. /\ pending' \in Seq(Nat) /\ Len(pending') = Len(pending) - m
      /\ \A i \in 1..(Len(pending) - m) : pending'[i] = pending[m + i]
  <2>1. CASE m = Len(pending)
    <3>1. pending' = << >>
      BY <1>1, <2>1
    <3>2. << >> \in Seq(Nat) /\ Len(<< >>) = 0
      BY EmptySeq
    <3>3. QED
      BY <1>3, <2>1, <3>1, <3>2
  <2>2. CASE m # Len(pending)
    <3>1. pending' = SubSeq(pending, m + 1, Len(pending))
      BY <1>1, <2>2 DEF Rest
    <3>2. /\ SubSeq(pending, m + 1, Len(pending)) \in Seq(Nat)
          /\ Len(SubSeq(pending, m + 1, Len(pending)))
               = IF m <= Len(pending) THEN Len(pending) - m ELSE 0
          /\ \A i \in 1..Len(pending) - m :
               SubSeq(pending, m + 1, Len(pending))[i] = pending[m + i]
      BY <1>3, <1>4, PartFacts
    <3>3. QED
      BY <1>3, <3>1, <3>2
  <2>3. QED
    BY <2>1, <2>2
<1> HIDE DEF piece
<1>7. /\ out' \in Seq(Nat \cup {Old}) /\ Len(out') \in Nat
      /\ Len(out') = IF end > Len(out) THEN end ELSE Len(out)
      /\ \A i \in 1..Len(out') :
           out'[i] = IF i > out_off /\ i <= end THEN piece[i - out_off] ELSE out[i]
      /\ \A i \in 1..m : piece[i] \in Nat
  <2>1. piece \in Seq(Nat) /\ out' = WrittenAt(out_off, piece) /\ Len(piece) = m
    BY <1>1, <1>5 DEF piece
  <2>2. QED
    BY <1>2, <2>1, PutFacts
<1>8. out_off <= Len(out) /\ (job.output = "stdout" => out_off = Len(out))
  BY <1>2 DEF EngineInv, Places
<1>9. DataTyped'
  <2>1. out_off' \in Nat /\ stats_bytes' \in Nat /\ Len(pending') <= job.blocksize
    BY <1>1, <1>3, <1>6
  <2>2. QED
    BY <1>2, <1>6, <1>7, <2>1 DEF EngineInv, DataTyped
<1>10. (\A s : Wants(s)' = Wants(s)) /\ (\A f : Has(f)' = Has(f))
       /\ Reach' = Reach /\ Truncates' = Truncates /\ ~Sharded' /\ (Sole' <=> Sole)
  BY <1>2, SameJob
<1>11. Places'
  <2>1. out_off' <= Len(out') /\ (job.output = "stdout" => out_off' = Len(out'))
    BY <1>1, <1>3, <1>7, <1>8
  <2>2. /\ pc' = "copy" => pending' = << >>
        /\ pc' \in {"write", "rewrite"} => pc' = pc
    BY <1>1, <1>2
  <2>3. QED
    BY <1>2, <1>10, <2>1, <2>2 DEF EngineInv, Places
<1>12. ASSUME Truncates, NEW i \in 1..Len(out')
       PROVE  out'[i] # Old
  <2>1. CASE i > out_off /\ i <= end
    <3>1. i - out_off \in 1..m
      BY <1>3, <2>1
    <3>2. out'[i] = piece[i - out_off] /\ piece[i - out_off] \in Nat
      BY <1>7, <2>1, <3>1
    <3>3. QED
      BY <3>2 DEF Old
  <2>2. CASE ~(i > out_off /\ i <= end)
    <3>1. i \in 1..Len(out) /\ out'[i] = out[i]
      BY <1>3, <1>7, <1>8, <2>2
    <3>2. QED
      BY <1>2, <1>12, <3>1 DEF EngineInv, Copied
  <2>3. QED
    BY <2>1, <2>2
<1>13. ASSUME ~spilled
       PROVE  Behind' /\ Stream' /\ Limited' /\ CountedDown' /\ Counted'
  <2>1. Behind /\ Stream /\ Limited /\ CountedDown /\ Counted
    BY <1>2, <1>13 DEF EngineInv, Copied
  <2>2. Behind'
    <3> SUFFICES ASSUME NEW i \in 1..Len(out'), i > end
                 PROVE  out'[i] = Old \/ LeftBehind(i)'
      BY <1>1, <1>2 DEF Behind
    <3>1. i \in 1..Len(out) /\ out'[i] = out[i] /\ i > out_off
      BY <1>3, <1>7
    <3>2. QED
      BY <1>2, <1>10, <2>1, <3>1 DEF Behind, LeftBehind
  <2>3. out_off' + Len(pending') = out_off + Len(pending) /\ Positioned' = Positioned
    BY <1>1, <1>3, <1>6 DEF Positioned
  <2>4. ASSUME NEW i \in Positioned
        PROVE  At(i)' = At(i)
    <3>0. i \in Nat /\ i >= 1 /\ i <= out_off + Len(pending) /\ out_off' = end
      BY <1>1, <1>3 DEF Positioned
    <3>1. CASE i <= out_off
      <4>1. i \in 1..Len(out') /\ i <= end
        BY <1>3, <1>7, <1>8, <3>0, <3>1
      <4>2. out'[i] = out[i]
        BY <1>3, <1>7, <3>0, <3>1, <4>1
      <4>3. QED
        BY <3>0, <3>1, <4>1, <4>2 DEF At
    <3>2. CASE i > out_off /\ i <= end
      <4>1. i \in 1..Len(out') /\ i - out_off \in 1..m /\ ~(i <= out_off)
        BY <1>3, <1>7, <1>8, <3>0, <3>2
      <4>2. out'[i] = piece[i - out_off] /\ piece[i - out_off] = pending[i - out_off]
        BY <1>5, <1>7, <3>2, <4>1 DEF piece
      <4>3. QED
        BY <3>0, <3>2, <4>1, <4>2 DEF At
    <3>3. CASE i > end
      <4>1. /\ i - end \in 1..(Len(pending) - m) /\ m + (i - end) = i - out_off
            /\ ~(i <= out_off) /\ ~(i <= end)
        BY <1>3, <3>0, <3>3
      <4>2. pending'[i - end] = pending[i - out_off]
        BY <1>6, <4>1
      <4>3. QED
        BY <3>0, <4>1, <4>2 DEF At
    <3>4. QED
      BY <1>3, <3>0, <3>1, <3>2, <3>3
  <2>5. Stream'
    <3> HIDE DEF At, Positioned
    <3>1. /\ \A i \in Positioned : At(i)' \in 0..in_off
          /\ \A i, k \in Positioned : i < k /\ At(i)' > 0 /\ At(k)' > 0 => At(i)' < At(k)'
          /\ ~Has("sync") => out_off + Len(pending) = in_off /\ \A i \in Positioned : At(i)' = i
      BY <2>1, <2>4 DEF Stream
    <3>2. ASSUME NEW v \in 1..in_off
          PROVE  \E i \in Positioned : At(i)' = v
      <4>1. PICK i \in Positioned : At(i) = v
        BY <2>1 DEF Stream
      <4>2. QED
        BY <2>4, <4>1
    <3>3. QED
      BY <1>2, <1>10, <2>3, <3>1, <3>2 DEF Stream
  <2>6. Limited' /\ CountedDown'
    <3>1. ByteLimit' = ByteLimit
      BY <1>2, SameJob
    <3>2. QED
      BY <1>2, <1>10, <2>1, <3>1 DEF Limited, CountedDown, BlocksDone
  <2>7. Counted'
    <3>1. stats_bytes + bytes_read = in_off + abandoned /\ abandoned \in Nat
      BY <1>2, <2>1 DEF Counted, EngineInv, JobsTyped
    <3>2. CASE m = Len(pending)
      <4>1. pc' = "copy" /\ stats_bytes' = stats_bytes + bytes_read
        BY <1>1, <3>2
      <4>2. stats_bytes' + 0 = in_off' + abandoned'
        BY <1>2, <1>3, <3>1, <4>1
      <4>3. QED
        BY <1>2, <1>10, <2>1, <4>1, <4>2 DEF Counted
    <3>3. CASE m # Len(pending)
      BY <1>1, <1>2, <1>10, <2>1, <3>3 DEF Counted
    <3>4. QED
      BY <3>2, <3>3
  <2>8. QED
    BY <2>2, <2>5, <2>6, <2>7
<1>14. Copied'
  BY <1>2, <1>10, <1>12, <1>13 DEF Copied
<1>15. spilled' \in BOOLEAN
  BY <1>2 DEF EngineInv, JobsTyped
<1>16. QED
  BY <1>2, <1>9, <1>11, <1>14, <1>15, EngineMoves

LEMMA EngineWritesAgain ==
  ASSUME EngineInv, WriteAgain, UNCHANGED <<cancel_flag, front>>
  PROVE  EngineInv'
<1>1. /\ pc = "write" /\ pc' = "rewrite" /\ stage \in {"sync", "async"}
      /\ pending' = InputBytes(in_off - bytes_read, bytes_read) \o Padding(bytes_read)
      /\ spilled' = (spilled \/ pending # pending')
      /\ UNCHANGED <<job, stage, in_off, out_off, bytes_read, remaining, remaining_blocks,
                     stats_bytes, hashed, out, result, abandoned>>
      /\ Moving /\ Moving' /\ ~Waiting'
  BY DEF WriteAgain, offsets, limits, Moving, Waiting
<1>2. bytes_read \in Nat /\ bytes_read <= job.blocksize /\ in_off - bytes_read \in Nat
  <2>1. bytes_read \in Nat /\ bytes_read <= job.blocksize /\ in_off \in Nat
    BY Numbers
  <2>2. bytes_read <= in_off
    BY <1>1 DEF EngineInv, Places
  <2>3. QED
    BY <2>1, <2>2
<1>3. pending' \in Seq(Nat) /\ Len(pending') <= job.blocksize
  <2> DEFINE position == in_off - bytes_read
             whole == InputBytes(position, bytes_read) \o Padding(bytes_read)
             len == bytes_read + Len(Padding(bytes_read))
  <2>1. position \in Nat
    BY <1>2
  <2> HIDE DEF position
  <2>2. whole \in Seq(Nat) /\ Len(whole) = len /\ len <= job.blocksize
    BY <1>2, <2>1, BlockFacts
  <2>3. pending' = whole
    BY <1>1 DEF position
  <2> HIDE DEF whole, len
  <2>4. QED
    BY <2>2, <2>3
<1>4. DataTyped'
  BY <1>1, <1>3 DEF EngineInv, DataTyped
<1>5. (\A s : Wants(s)' = Wants(s)) /\ (\A f : Has(f)' = Has(f))
      /\ Reach' = Reach /\ Truncates' = Truncates /\ ByteLimit' = ByteLimit
      /\ (Sharded' <=> Sharded) /\ (Sole' <=> Sole)
  BY <1>1, SameJob
<1>6. Places'
  BY <1>1, <1>5 DEF EngineInv, Places
<1>7. Copied'
  <2>1. Truncates => \A i \in 1..Len(out) : out[i] # Old
    BY <1>1 DEF EngineInv, Copied
  <2>2. ASSUME ~spilled'
        PROVE  Behind' /\ Stream' /\ Limited' /\ CountedDown' /\ Counted'
    <3>1. ~spilled /\ pending' = pending
      BY <1>1, <2>2
    <3>2. Behind /\ Stream /\ Limited /\ CountedDown /\ Counted
      BY <1>1, <3>1 DEF EngineInv, Copied
    <3>3. Behind'
      BY <1>1, <1>5, <3>2 DEF Behind, LeftBehind
    <3>4. Stream'
      BY <1>1, <1>5, <3>1, <3>2 DEF Stream, At, Positioned
    <3>5. Limited' /\ CountedDown' /\ Counted'
      BY <1>1, <1>5, <3>2 DEF Limited, CountedDown, BlocksDone, Counted
    <3>6. QED
      BY <3>3, <3>4, <3>5
  <2>3. QED
    BY <1>1, <1>5, <2>1, <2>2 DEF Copied
<1>8. spilled' \in BOOLEAN
  BY <1>1
<1>9. QED
  BY <1>1, <1>4, <1>6, <1>7, <1>8, EngineMoves

LEMMA EngineStep ==
  ASSUME EngineInv, [Next]_vars
  PROVE  EngineInv'
<1>1. CASE Engines /\ UNCHANGED <<cancel_flag, front>>
  BY <1>1, EngineSkips, EngineOpens, EngineCannotOpen, EngineStops, EngineFinishes,
     EngineCancelled, EngineCopiesRange, EngineReads, EngineWrites, EngineWritesAgain,
     EngineShardsCopy, EngineShardsFail DEF Engines
<1>2. CASE Restarted
  BY <1>2, EngineRestarts
<1>3. CASE Nudged
  BY <1>3, EngineNudged
<1>4. CASE UNCHANGED engine_frame
  BY <1>4, EngineIdles
<1>5. QED
  BY <1>1, <1>2, <1>3, <1>4, Steps


------------------------------------------------------------------------------
(* The programs: lists of devices                                            *)

LEMMA ListFacts ==
  ASSUME NEW S, NEW list \in Seq(S)
  PROVE  IsList(list)
BY DEF IsList

LEMMA JoinedLists ==
  ASSUME NEW s, NEW t, IsList(s), IsList(t)
  PROVE  IsList(s \o t) /\ Len(s \o t) = Len(s) + Len(t) /\ Len(s) \in Nat /\ Len(t) \in Nat
<1> DEFINE S == {s[i] : i \in DOMAIN s} \cup {t[i] : i \in DOMAIN t}
<1>1. s \in Seq(S) /\ t \in Seq(S)
  BY DEF IsList
<1> HIDE DEF S
<1>2. s \o t \in Seq(S) /\ Len(s \o t) = Len(s) + Len(t) /\ Len(s) \in Nat /\ Len(t) \in Nat
  BY <1>1, ConcatFacts
<1>3. QED
  BY <1>2, ListFacts

LEMMA NumberedList ==
  ASSUME NEW n \in Nat, NEW f, f = [i \in 1..n |-> f[i]]
  PROVE  IsList(f) /\ Len(f) = n
<1>1. [i \in 1..n |-> f[i]] \in Seq({f[i] : i \in 1..n}) /\ Len([i \in 1..n |-> f[i]]) = n
  OBVIOUS
<1>2. QED
  BY <1>1, ListFacts

LEMMA PickedFacts ==
  ASSUME NEW list, NEW n \in Nat, NEW positions \in SUBSET (1..n)
  PROVE  IsList(Picked(list, positions)) /\ Len(Picked(list, positions)) \in Nat
<1>1. Cardinality(positions) \in Nat
  <2>1. IsFiniteSet(1..n)
    BY FS_Interval
  <2>2. IsFiniteSet(positions)
    BY <2>1, FS_Subset
  <2>3. QED
    BY <2>2, FS_CardinalityType
<1>2. \A f : f = Picked(list, positions) => f = [i \in 1..Cardinality(positions) |-> f[i]]
  BY DEF Picked
<1>3. QED
  BY <1>1, <1>2, NumberedList

LEMMA ScanFacts == IsList(Scan) /\ Len(Scan) >= 1
<1> DEFINE positions == {i \in 1..Len(Disks) : Disks[i] \in present}
           there == Picked(Disks, positions)
           n == Len(there)
           disks == [i \in 1..n |-> Entry(there[i], FALSE)]
           virtual == <<Entry(Null, FALSE)>>
<1>1. n \in Nat
  BY FrontsAssumption, PickedFacts
<1>2. IsList(disks)
  BY <1>1, NumberedList
<1>3. IsList(virtual) /\ Len(virtual) = 1
  <2>1. \A e : <<e>> \in Seq({e}) /\ Len(<<e>>) = 1
    OBVIOUS
  <2>2. QED
    BY <2>1, ListFacts
<1> HIDE DEF disks, virtual
<1>4. IsList(disks \o virtual) /\ Len(disks \o virtual) = Len(disks) + Len(virtual)
      /\ Len(disks) \in Nat
  BY <1>2, <1>3, JoinedLists
<1>5. Len(disks \o virtual) >= 1
  BY <1>3, <1>4
<1>6. QED
  BY <1>4, <1>5 DEF Scan, disks, virtual

LEMMA FirstFacts ==
  ASSUME NEW n \in Nat, NEW positions \in SUBSET (1..n), positions # {}
  PROVE  First(positions) \in positions
<1> DEFINE S == 1..n
           below == StrictSubsetOrdering(S)
           sets == {1..i : i \in positions}
<1>1. IsFiniteSet(S)
  BY FS_Interval
<1>2. IsWellFoundedOn(below, SUBSET S)
  BY <1>1, FS_StrictSubsetOrderingWellFounded, FS_FiniteSubsetsOfFinite
<1>3. \A i, k \in S : k < i => <<1..k, 1..i>> \in below
  <2> SUFFICES ASSUME NEW i \in S, NEW k \in S, k < i PROVE <<1..k, 1..i>> \in below
    OBVIOUS
  <2> HIDE DEF below
  <2>1. i \in Nat /\ k \in Nat /\ 1 <= i /\ i <= n /\ k < i
    OBVIOUS
  <2>2. (1..k) \in SUBSET S /\ (1..i) \in SUBSET S /\ (1..k) \subseteq (1..i)
    BY <2>1
  <2>3. (1..k) # (1..i)
    <3>1. i \in 1..i /\ i \notin 1..k
      BY <2>1
    <3>2. QED
      BY <3>1
  <2> HIDE DEF S
  <2>4. QED
    BY <2>2, <2>3 DEF StrictSubsetOrdering, below
<1>4. sets \subseteq SUBSET S /\ sets # {}
  <2> HIDE DEF below
  <2>1. \A i \in S : (1..i) \in SUBSET S
    OBVIOUS
  <2>2. positions \subseteq S
    OBVIOUS
  <2> HIDE DEF S
  <2>3. QED
    BY <2>1, <2>2
<1> HIDE DEF below, S
<1>5. \E x \in sets : \A y \in sets : ~(<<y, x>> \in below)
  BY <1>2, <1>4, WFMin
<1>6. PICK i \in positions : \A k \in positions : ~(<<1..k, 1..i>> \in below)
  BY <1>5
<1>7. \A k \in positions : i <= k
  <2> SUFFICES ASSUME NEW k \in positions PROVE i <= k
    OBVIOUS
  <2>1. ~(k < i)
    BY <1>3, <1>6 DEF S
  <2>2. i \in Nat /\ k \in Nat
    OBVIOUS
  <2>3. QED
    BY <2>1, <2>2
<1>8. QED
  BY <1>7 DEF First


LEMMA PositionsFacts ==
  ASSUME NEW list, IsList(list), NEW path, Positions(list, path) # {}
  PROVE  First(Positions(list, path)) \in 1..Len(list)
<1>1. Positions(list, path) \in SUBSET (1..Len(list)) /\ Len(list) \in Nat
  BY DEF Positions, IsList
<1>2. QED
  BY <1>1, FirstFacts

------------------------------------------------------------------------------
(* The programs                                                              *)

LEMMA FrontInit == Init => FrontInv
<1> SUFFICES ASSUME Init PROVE FrontInv
  OBVIOUS
<1>1. pc = "idle"
  BY DEF Init, FreshTransfer
<1>2. IsList(devices) /\ target_idx \in 1..Len(devices)
  <2>1. IsList(Scan) /\ Len(Scan) >= 1 /\ Len(Scan) \in Nat
    BY ScanFacts DEF IsList
  <2>2. devices = Scan /\ target_idx = Len(devices)
    BY DEF Init
  <2> HIDE DEF Scan
  <2>3. QED
    BY <2>1, <2>2
<1>3. FrontTyped
  BY <1>2 DEF Init, FrontTyped
<1>4. Asked /\ JobsAccounted /\ NoUnconfirmedWrite
  BY <1>1 DEF Init, Asked, JobsAccounted, NoUnconfirmedWrite, Writing
<1>5. QED
  BY <1>3, <1>4 DEF FrontInv

\* The list and the selected entry.
LEMMA ListStep ==
  ASSUME FrontTyped, [Next]_vars
  PROVE  IsList(devices') /\ target_idx' \in 1..Len(devices')
<1> USE DEF job_vars, front_vars, vars, copy_vars, offsets, block, limits, verdict,
            world_vars, list_vars, mode_vars, jobs_vars
<1>1. IsList(devices) /\ target_idx \in 1..Len(devices) /\ Len(devices) \in Nat
  BY DEF FrontTyped, IsList
<1>2. CASE UNCHANGED list_vars
  BY <1>1, <1>2
<1>3. CASE KeyMove
  BY <1>1, <1>3 DEF KeyMove
<1>4. CASE KeyRefresh
  <2> DEFINE kept == Picked(devices, OnlyTyped(Scan))
             list == Scan \o kept
  <2>1. devices' = list /\ target_idx' = Reselected(devices')
    BY <1>4 DEF KeyRefresh
  <2>2. OnlyTyped(Scan) \in SUBSET (1..Len(devices))
    BY DEF OnlyTyped
  <2>3. IsList(kept)
    BY <1>1, <2>2, PickedFacts
  <2>4. IsList(list) /\ Len(list) = Len(Scan) + Len(kept) /\ Len(Scan) \in Nat /\ Len(kept) \in Nat
    BY <2>3, ScanFacts, JoinedLists
  <2> HIDE DEF kept, list
  <2>5. Len(list) \in Nat /\ Len(list) >= 1
    BY <2>4, ScanFacts
  <2>6. Reselected(list) \in 1..Len(list)
    BY <1>1, <2>4, <2>5, PositionsFacts DEF Reselected
  <2>7. QED
    BY <2>1, <2>4, <2>6
<1>5. CASE PathEntered
  <2>1. CASE UNCHANGED list_vars
    BY <1>1, <2>1
  <2>2. CASE \E path \in Typed, for_target \in BOOLEAN : AddOrSelect(path, for_target)
    <3>1. PICK path \in Typed, for_target \in BOOLEAN : AddOrSelect(path, for_target)
      BY <2>2
    <3> DEFINE same == Positions(devices, path)
               e == Entry(path, TRUE)
    <3>2. CASE same # {}
      <4> DEFINE index == First(same)
      <4>1. index \in 1..Len(devices)
        BY <1>1, <3>2, PositionsFacts
      <4>2. devices' = [devices EXCEPT ![index] = e] /\ target_idx' \in {index, target_idx}
        BY <3>1, <3>2 DEF AddOrSelect
      <4> HIDE DEF index, e, same
      <4> DEFINE S == {devices[i] : i \in DOMAIN devices} \cup {e}
      <4>3. devices \in Seq(S) /\ e \in S
        BY <1>1 DEF IsList
      <4> HIDE DEF S
      <4>4. devices' \in Seq(S) /\ Len(devices') = Len(devices)
        BY <4>1, <4>2, <4>3
      <4>5. QED
        BY <1>1, <4>1, <4>2, <4>4, ListFacts
    <3>3. CASE same = {}
      <4>1. devices' = Append(devices, e) /\ target_idx' \in {Len(devices) + 1, target_idx}
        BY <3>1, <3>3 DEF AddOrSelect
      <4> HIDE DEF e, same
      <4> DEFINE S == {devices[i] : i \in DOMAIN devices} \cup {e}
      <4>2. devices \in Seq(S) /\ e \in S
        BY <1>1 DEF IsList
      <4> HIDE DEF S
      <4>3. devices' \in Seq(S) /\ Len(devices') = Len(devices) + 1
        BY <4>1, <4>2
      <4>4. IsList(devices')
        BY <4>3, ListFacts
      <4>5. target_idx' \in 1..(Len(devices) + 1)
        BY <1>1, <4>1
      <4>6. QED
        BY <4>3, <4>4, <4>5
    <3>4. QED
      BY <3>2, <3>3
  <2>3. QED
    BY <1>5, <2>1, <2>2 DEF PathEntered
<1>6. QED
  BY <1>2, <1>3, <1>4, <1>5
     DEF Next, Keys, JobRuns, Poll, Change, KeyCancel, KeyQuit, KeyToggle, KeyPath, KeyEnterStarts,
         KeyEnterAsks, ConfirmYes, ConfirmNo, CliStarts, CliRefuses, CliPlans, CliEnds,
         StartTransfer


\* A thread that works is there, and is there afterwards.
LEMMA EnginesAreBusy ==
  ASSUME Engines
  PROVE  pc # "idle" /\ pc' # "idle"
<1> USE DEF Copying, Fails, GiveUp, Abandon, CancelVerdict, Err, Ok, verdict, limits, offsets, block
<1>1. CASE SkipEngine \/ OpenFiles \/ OpenInputFails \/ OpenOutputFails
  BY <1>1 DEF SkipEngine, OpenFiles, OpenInputFails, OpenOutputFails
<1>2. CASE Cancelled \/ Finished \/ Unsupported \/ CopyRange \/ ReadBlock
  BY <1>2 DEF Cancelled, Finished, Unsupported, CopyRange, ReadBlock
<1>3. CASE ReadFails
  BY <1>3 DEF ReadFails
<1>4. CASE WriteSome \/ WriteFails \/ WriteAgain
  BY <1>4 DEF WriteSome, WriteFails, WriteAgain
<1>5. CASE ShardedCopies \/ ShardedFails
  BY <1>5 DEF ShardedCopies, ShardedFails
<1>6. QED
  BY <1>1, <1>2, <1>3, <1>4, <1>5 DEF Engines

\* Steps that leave the program alone, or all of it but the list of disks.
LEMMA FrontIdles ==
  ASSUME FrontInv, UNCHANGED <<front, running, devices, target_idx, mode_vars, jobs_vars>>,
         pc = "idle" <=> pc' = "idle"
  PROVE  Asked' /\ JobsAccounted' /\ NoUnconfirmedWrite'
<1> USE DEF FrontInv, mode_vars, jobs_vars
<1>1. Asked'
  BY DEF Asked, Selected
<1>2. JobsAccounted'
  BY DEF JobsAccounted
<1>3. NoUnconfirmedWrite'
  BY DEF NoUnconfirmedWrite, Writing
<1>4. QED
  BY <1>1, <1>2, <1>3

\* Keys while there is no job: the list, a dialog or an option may change.
LEMMA FrontKeyed ==
  ASSUME FrontInv, ~active_job, front = "tui", UNCHANGED <<job_vars, front, jobs_vars>>, Asked'
  PROVE  Asked' /\ JobsAccounted' /\ NoUnconfirmedWrite'
<1> USE DEF FrontInv, jobs_vars, job_vars, copy_vars
<1>1. ~active_job' /\ front' = front
  OBVIOUS
<1>2. JobsAccounted'
  <2>1. started' = started /\ collected' = collected /\ pc' = pc
    OBVIOUS
  <2>2. front = "tui" => started = collected + 0 /\ pc = "idle"
    BY DEF JobsAccounted
  <2>3. QED
    BY <1>1, <2>1, <2>2 DEF JobsAccounted
<1>3. NoUnconfirmedWrite'
  BY <1>1 DEF NoUnconfirmedWrite, Writing
<1>4. QED
  BY <1>2, <1>3

\* A job starts.
LEMMA FrontStarts ==
  ASSUME FrontInv, ~active_job, front = "tui", running, NEW confirmed \in BOOLEAN,
         StartTransfer(confirmed), UNCHANGED <<front, running, list_vars, dry_run, force_override>>,
         modal' = "none", ~dry_run,
         Selected.path # Null => confirmed /\ (Selected.is_system_root => force_override)
  PROVE  Asked' /\ JobsAccounted' /\ NoUnconfirmedWrite'
<1> USE DEF FrontInv, StartTransfer, Spawn, list_vars
<1>1. Asked'
  BY DEF Asked
<1>2. JobsAccounted'
  <2>1. started \in Nat /\ collected \in Nat /\ started = collected
    BY DEF JobsAccounted, FrontTyped
  <2>2. started' = started + 1 /\ collected' = collected /\ active_job' = TRUE /\ pc' = "enter"
    OBVIOUS
  <2>3. started' = collected' + 1
    BY <2>1, <2>2
  <2>4. QED
    BY <2>2, <2>3 DEF JobsAccounted
<1>3. NoUnconfirmedWrite'
  <2>1. target'.path = Selected.path /\ target'.confirmed = confirmed
        /\ target'.is_system_root = Selected.is_system_root
    OBVIOUS
  <2>2. QED
    BY <2>1 DEF NoUnconfirmedWrite, Writing
<1>4. QED
  BY <1>1, <1>2, <1>3

LEMMA FrontStep == FrontInv /\ [Next]_vars => FrontInv'
<1> SUFFICES ASSUME FrontInv, [Next]_vars PROVE FrontInv'
  OBVIOUS
<1> USE DEF job_vars, front_vars, vars, copy_vars, offsets, block, limits, verdict,
            world_vars, list_vars, mode_vars, jobs_vars
<1>0. FrontTyped /\ active_job \in BOOLEAN /\ front \in {"cli", "tui"}
      /\ (front = "cli" => ~active_job)
  BY DEF FrontInv, FrontTyped
<1>1. FrontTyped'
  <2>1. IsList(devices') /\ target_idx' \in 1..Len(devices')
    BY <1>0, ListStep
  <2>2. running' \in BOOLEAN /\ force_override' \in BOOLEAN /\ dry_run' \in BOOLEAN
        /\ front' = front /\ modal' \in {"none", "path", "confirm"}
    BY <1>0 DEF FrontTyped, Next, Keys, JobRuns, Poll, Change, KeyCancel, KeyQuit, KeyMove,
         KeyToggle, KeyRefresh, KeyPath, PathEntered, KeyEnterStarts, KeyEnterAsks, ConfirmYes,
         ConfirmNo, CliStarts, CliRefuses, CliPlans, CliEnds, StartTransfer, Key
  <2>4. active_job' \in BOOLEAN /\ (front' = "cli" => ~active_job')
    <3>1. CASE KeyEnterStarts \/ ConfirmYes
      <4>1. active_job' = TRUE /\ front' = "tui"
        BY <3>1 DEF KeyEnterStarts, ConfirmYes, StartTransfer, Key
      <4>2. QED
        BY <4>1
    <3>2. CASE Poll
      <4>1. active_job' = FALSE
        BY <3>2 DEF Poll
      <4>2. QED
        BY <4>1
    <3>3. CASE UNCHANGED <<front, active_job>>
      BY <1>0, <3>3
    <3>4. QED
      BY <3>1, <3>2, <3>3
         DEF Next, Keys, JobRuns, Change, KeyCancel, KeyQuit, KeyMove, KeyToggle, KeyRefresh,
             KeyPath, PathEntered, KeyEnterAsks, ConfirmNo, CliStarts, CliRefuses, CliPlans, CliEnds
  <2>3. started' \in Nat /\ collected' \in Nat
    BY <1>0 DEF FrontTyped, Next, Keys, JobRuns, Poll, Change, KeyCancel, KeyQuit, KeyMove,
         KeyToggle, KeyRefresh, KeyPath, PathEntered, KeyEnterStarts, KeyEnterAsks, ConfirmYes,
         ConfirmNo, CliStarts, CliRefuses, CliPlans, CliEnds, StartTransfer, Spawn
  <2>5. QED
    BY <1>0, <2>1, <2>2, <2>3, <2>4 DEF FrontTyped
<1>2. Asked' /\ JobsAccounted' /\ NoUnconfirmedWrite'
  <2>1. CASE JobRuns
    <3>1. pc # "idle" /\ pc' # "idle"
      BY <2>1, EnginesAreBusy DEF JobRuns
    <3>2. QED
      BY <2>1, <3>1, FrontIdles DEF JobRuns
  <2>2. CASE Poll
    <3>1. Asked' /\ NoUnconfirmedWrite'
      BY <2>2 DEF Poll, FrontInv, Asked, Selected, NoUnconfirmedWrite, Writing
    <3>2. JobsAccounted'
      <4>1. started \in Nat /\ collected \in Nat /\ started = collected + 1 /\ running
        BY <2>2 DEF Poll, FrontInv, FrontTyped, JobsAccounted
      <4>2. started' = started /\ collected' = collected + 1 /\ ~active_job' /\ pc' = "idle"
            /\ running'
        BY <2>2, <4>1 DEF Poll
      <4>3. started' = collected' + 0
        BY <4>1, <4>2
      <4>4. QED
        BY <4>2, <4>3 DEF JobsAccounted
    <3>3. QED
      BY <3>1, <3>2
  <2>3. CASE Change \/ KeyCancel \/ UNCHANGED vars
    BY <2>3, FrontIdles DEF Change, KeyCancel
  <2>4. CASE KeyQuit \/ KeyMove \/ KeyToggle \/ KeyRefresh \/ KeyPath \/ PathEntered
             \/ KeyEnterAsks \/ ConfirmNo
    <3>1. ~active_job /\ front = "tui" /\ UNCHANGED <<job_vars, front, jobs_vars>>
      BY <2>4 DEF KeyQuit, KeyMove, KeyToggle, KeyRefresh, KeyPath, PathEntered, KeyEnterAsks,
                  ConfirmNo, Key
    <3>2. Asked'
      <4>1. CASE KeyEnterAsks
        BY <4>1 DEF KeyEnterAsks, Asked, Selected, Refused, Key
      <4>2. CASE ~KeyEnterAsks
        BY <2>4, <4>2 DEF KeyQuit, KeyMove, KeyToggle, KeyRefresh, KeyPath, PathEntered, ConfirmNo,
                          Asked, Key
      <4>3. QED
        BY <4>1, <4>2
    <3>3. QED
      BY <3>1, <3>2, FrontKeyed
  <2>5. CASE KeyEnterStarts
    <3>1. Selected.path = Null /\ StartTransfer(FALSE) /\ ~active_job /\ modal' = "none"
          /\ front = "tui" /\ running /\ ~dry_run
          /\ UNCHANGED <<front, running, list_vars, dry_run, force_override>>
      BY <2>5 DEF KeyEnterStarts, Key
    <3>2. QED
      BY <3>1, FrontStarts
  <2>6. CASE ConfirmYes
    <3>1. StartTransfer(shown = Selected.path) /\ ~active_job /\ modal' = "none" /\ modal = "confirm"
          /\ front = "tui" /\ running /\ UNCHANGED <<front, running, list_vars, dry_run, force_override>>
      BY <2>6 DEF ConfirmYes, Key
    <3>2. ~dry_run /\ shown = Selected.path /\ (Selected.is_system_root => force_override)
      BY <3>1 DEF FrontInv, Asked
    <3>3. (shown = Selected.path) \in BOOLEAN
      OBVIOUS
    <3>4. QED
      BY <3>1, <3>2, <3>3, FrontStarts
  <2>7. CASE CliStarts \/ CliRefuses \/ CliPlans \/ CliEnds
    <3>1. /\ front = "cli" /\ front' = "cli"
          /\ UNCHANGED <<modal, shown, devices, target_idx, dry_run, force_override, active_job>>
      BY <2>7 DEF CliStarts, CliRefuses, CliPlans, CliEnds
    <3>2. Asked' /\ JobsAccounted'
      BY <3>1 DEF FrontInv, Asked, Selected, JobsAccounted
    <3>3. CASE CliStarts
      <4>1. /\ ~dry_run' /\ target'.confirmed = TRUE
            /\ target'.is_system_root => force_override'
        BY <3>1, <3>3 DEF CliStarts
      <4>2. QED
        BY <3>2, <4>1 DEF NoUnconfirmedWrite
    <3>4. CASE ~CliStarts
      <4>1. UNCHANGED <<pc, target>>
        BY <2>7, <3>4 DEF CliRefuses, CliPlans, CliEnds
      <4>2. QED
        BY <3>1, <3>2, <4>1 DEF FrontInv, NoUnconfirmedWrite, Writing
    <3>5. QED
      BY <3>3, <3>4
  <2>8. QED
    BY <2>1, <2>2, <2>3, <2>4, <2>5, <2>6, <2>7 DEF Next, Keys
<1>3. QED
  BY <1>1, <1>2 DEF FrontInv

LEMMA Invariance == Spec => []IInv
<1>1. Init => IInv
  BY EngineInit, FrontInit DEF IInv
<1>2. IInv /\ [Next]_vars => IInv'
  BY EngineStep, FrontStep DEF IInv
<1>3. QED
  BY <1>1, <1>2, PTL DEF Spec

------------------------------------------------------------------------------
(* What follows                                                              *)

\* Offsets, limits and the block in hand stay in their ranges, and the selected
\* entry is one of the list, whatever is plugged, listed or typed in
\* (refresh_devices, add_or_select_custom_path).
THEOREM Typing == Spec => []TypeOK
<1>1. IInv => TypeOK
  <2> SUFFICES ASSUME IInv PROVE TypeOK
    OBVIOUS
  <2>1. remaining >= -1
    BY DEF IInv, EngineInv, DataTyped
  <2>2. QED
    BY <2>1 DEF IInv, EngineInv, JobsTyped, DataTyped, FrontInv, FrontTyped, TypeOK
<1>2. QED
  BY <1>1, Invariance, PTL

\* Whichever engines were tried before, "ok" from execute_transfer_with_control
\* means enough of the input in the output, each byte at its place, its digest,
\* and statistics that count it once more than the engines that gave up had, but
\* for the spilled transfers OutcomeIsTrue names.
THEOREM Outcome == Spec => []OutcomeIsTrue
<1>1. IInv => OutcomeIsTrue
  BY DEF IInv, EngineInv
<1>2. QED
  BY <1>1, Invariance, PTL

\* At most one job at a time, each joined once, and none left behind when the
\* program ends (handle_key_event, poll_active_job).
THEOREM JobsAreAccounted == Spec => []JobsAccounted
<1>1. IInv => JobsAccounted
  BY DEF IInv, FrontInv
<1>2. QED
  BY <1>1, Invariance, PTL

\* A job writes to the target that was shown and confirmed: nothing between the
\* question and the answer changes what is selected or what is allowed
\* (handle_key_event, start_transfer).
THEOREM OnlyConfirmed == Spec => []NoUnconfirmedWrite
<1>1. IInv => NoUnconfirmedWrite
  BY DEF IInv, FrontInv
<1>2. QED
  BY <1>1, Invariance, PTL

==============================================================================
