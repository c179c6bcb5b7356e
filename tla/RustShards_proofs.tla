--------------------------- MODULE RustShards_proofs ---------------------------
(***************************************************************************)
(* Proofs about RustShards: the Rust io_uring engine, with one ring or     *)
(* several workers, for every set of transfers, number of workers, stripe  *)
(* and leaf size: what the workers may do at the same time, what is in the *)
(* output when they return Ok, and which digest goes with it.              *)
(***************************************************************************)
EXTENDS RustShards, BlksTree_proofs, SequenceTheorems, FiniteSetTheorems, FunctionTheorems,
        TLAPS

------------------------------------------------------------------------------
(* The inductive invariant                                                   *)

Leaf == [chunk : Seq(Nat), root : BOOLEAN]

WorkerType ==
  [pc : {"init", "top", "claim", "chunk", "write", "ended"}, base : Nat, done : Nat,
   block : Seq(Nat), written : Nat, leaves : Seq(Leaf),
   stripes : Seq([base : Nat, leaves : Seq(Leaf)]), failed : BOOLEAN]

Typed ==
  /\ transfer \in Transfers
  /\ mode \in {"start", "single", "sharded", "done"}
  /\ result \in {"none", "ok", "err"} /\ (result = "none" <=> mode # "done")
  /\ next_offset \in Nat /\ in_offset \in Nat /\ stats_bytes \in Nat
  /\ abort_flag \in BOOLEAN /\ cancel_flag \in BOOLEAN /\ ragged \in BOOLEAN
  /\ out \in [1..transfer.source -> Nat]
  /\ mode = "single" => ~Sharded
  /\ mode = "sharded" => Sharded
  /\ IF Sharded /\ mode # "start" THEN worker \in [1..transfer.threads -> WorkerType]
     ELSE worker = << >>

Active(w) == worker[w].pc \in {"chunk", "write"}

\* w has bytes of its own in the output that nobody has counted.
Owner(w) == Active(w) \/ worker[w].written > 0

\* The block in w's buffer is the input's at its position.
Holding(w) ==
  /\ worker[w].written < Len(worker[w].block)
  /\ worker[w].done + Len(worker[w].block) <= ChunkLen(w)
  /\ Position(w) + Len(worker[w].block) <= transfer.source
  /\ \A i \in 1..Len(worker[w].block) : worker[w].block[i] = Position(w) + i

\* Stripes begin at a multiple of their size, within what is to be copied and
\* below the shared offset, and those being copied are a stripe apart.
Geometry ==
  /\ next_offset % ChunkSize = 0
  /\ \A w \in Workers :
       /\ worker[w].base % ChunkSize = 0 /\ worker[w].done <= ChunkSize
       /\ worker[w].written > 0 => worker[w].pc \in {"write", "ended"}
       /\ worker[w].pc = "ended" /\ worker[w].written > 0 => worker[w].failed
       /\ worker[w].failed => worker[w].pc = "ended"
       /\ Owner(w) => /\ worker[w].base + ChunkSize <= next_offset
                      /\ TotalBytes >= 0 => worker[w].base < TotalBytes
       /\ worker[w].pc = "chunk" => worker[w].done < ChunkLen(w)
       /\ worker[w].pc = "write" \/ worker[w].written > 0 => Holding(w)
       /\ \A v \in Workers \ {w} : Owner(w) /\ Owner(v) =>
            \/ worker[v].base + ChunkSize <= worker[w].base
            \/ worker[w].base + ChunkSize <= worker[v].base

Progress(w) == Position(w) + worker[w].written

\* Positions that w has claimed and not reached yet.
Ahead(w, p) ==
  Active(w) /\ Progress(w) < p /\ p <= worker[w].base + ChunkLen(w)

InPlace == \A p \in DOMAIN out : out[p] \in {0, p}

IsClaimed(p) == p <= next_offset /\ (TotalBytes >= 0 => p <= TotalBytes)

\* What nobody has claimed, or its worker has not reached, is not written.
Fresh ==
  \A p \in DOMAIN out :
    ~IsClaimed(p) \/ (\E w \in Workers : Ahead(w, p)) => out[p] = 0

Landed == {p \in DOMAIN out : out[p] # 0}

\* Written bytes of a block that is not complete.
Uncounted(w) == Position(w) + 1 .. Progress(w)

Pending == UNION {Uncounted(w) : w \in Workers}

Counted ==
  /\ \A w \in Workers : Uncounted(w) \subseteq Landed
  /\ stats_bytes = Cardinality(Landed \ Pending)

Broken == \E w \in Workers : worker[w].failed

\* Whatever was claimed is copied, or its worker is still at it.
Coverage ==
  Broken \/ \A p \in DOMAIN out :
    IsClaimed(p) => out[p] = p \/ \E w \in Workers : Ahead(w, p)

\* Nobody leaves, or makes the others leave, before everything is claimed.
Control ==
  /\ abort_flag => Broken \/ next_offset >= Wanted
  /\ \A w \in Workers :
       worker[w].pc = "ended" => Broken \/ cancel_flag \/ next_offset >= Wanted

Several == Geometry /\ InPlace /\ Fresh /\ Counted /\ Coverage /\ Control

\* The single ring copies from the beginning on.
Alone ==
  /\ stats_bytes = in_offset /\ in_offset <= Wanted
  /\ \A p \in DOMAIN out : out[p] = IF p <= in_offset THEN p ELSE 0

IInv == Typed /\ (Sharded => Several) /\ (~Sharded => Alone) /\ OkIsPrefix

------------------------------------------------------------------------------
(* Transfers, and what is to be copied                                       *)

LEMMA TransferFacts ==
  ASSUME transfer \in Transfers
  PROVE  /\ transfer.threads \in Nat \ {0} /\ transfer.blocksize \in Nat \ {0}
         /\ transfer.source \in Nat /\ transfer.sized \in BOOLEAN
         /\ transfer.limit \in Nat \cup {-1} /\ transfer.count \in Nat \cup {-1}
BY ShardsAssumption DEF TransferType

LEMMA LimitFacts ==
  ASSUME transfer \in Transfers
  PROVE  /\ ChunkSize \in Nat \ {0}
         /\ ExplicitLimit \in Nat \cup {-1} /\ SingleLimit \in Nat \cup {-1}
         /\ TotalBytes \in Nat \cup {-1}
         /\ Wanted \in Nat /\ Wanted <= transfer.source
         /\ Sharded => /\ TotalBytes >= 0 => Wanted = Least(TotalBytes, transfer.source)
                       /\ TotalBytes < 0 => Wanted = transfer.source
         /\ ~Sharded => /\ SingleLimit >= 0 => Wanted = Least(SingleLimit, transfer.source)
                        /\ SingleLimit < 0 => Wanted = transfer.source
<1>1. /\ transfer.blocksize \in Nat \ {0} /\ transfer.source \in Nat /\ transfer.sized \in BOOLEAN
      /\ transfer.limit \in Nat \cup {-1} /\ transfer.count \in Nat \cup {-1}
  BY TransferFacts
<1>2. ChunkSize \in Nat \ {0}
  BY <1>1, ShardsAssumption DEF ChunkSize
<1> DEFINE counted == transfer.count * transfer.blocksize
<1>3. transfer.count >= 0 => counted \in Nat
  BY <1>1
<1>4. /\ ExplicitLimit = (IF transfer.limit >= 0 THEN transfer.limit
                          ELSE IF transfer.count >= 0 THEN counted ELSE -1)
      /\ SingleLimit = (IF transfer.count < 0 THEN transfer.limit
                        ELSE IF transfer.limit < 0 THEN counted ELSE Least(transfer.limit, counted))
  BY DEF ExplicitLimit, SingleLimit
<1> HIDE DEF counted
<1>5. ExplicitLimit \in Nat \cup {-1} /\ SingleLimit \in Nat \cup {-1}
  BY <1>1, <1>3, <1>4 DEF Least
<1>6. TotalBytes = (IF ExplicitLimit >= 0 THEN ExplicitLimit
                    ELSE IF transfer.sized /\ transfer.source > 0 THEN transfer.source ELSE -1)
  BY <1>1 DEF TotalBytes, FileLength
<1>7. Wanted = LET limit == IF Sharded THEN ExplicitLimit ELSE SingleLimit
               IN  IF limit >= 0 THEN Least(limit, transfer.source) ELSE transfer.source
  BY DEF Wanted
<1>8. QED
  BY <1>1, <1>2, <1>5, <1>6, <1>7 DEF Least

\* All of that stays as it is.
LEMMA Fixed ==
  ASSUME transfer' = transfer
  PROVE  /\ Sharded' <=> Sharded
         /\ ChunkSize' = ChunkSize /\ TotalBytes' = TotalBytes /\ Wanted' = Wanted
         /\ SingleLimit' = SingleLimit
BY DEF Sharded, Hashes, CanParallelBlks, ExplicitLimit, FileLength, ChunkSize, TotalBytes,
       Wanted, SingleLimit, Least

LEMMA LengthFacts ==
  ASSUME NEW n \in Nat, NEW S, NEW f \in [1..n -> S]
  PROVE  f \in Seq(S) /\ Len(f) = n
OBVIOUS

LEMMA Team ==
  ASSUME Typed
  PROVE  /\ Sharded /\ mode # "start" => /\ Workers = 1..transfer.threads
                                         /\ \A w \in Workers : worker[w] \in WorkerType
         /\ ~(Sharded /\ mode # "start") => Workers = {}
<1>1. CASE Sharded /\ mode # "start"
  <2>1. worker \in [1..transfer.threads -> WorkerType] /\ transfer.threads \in Nat
    BY <1>1, TransferFacts DEF Typed
  <2>2. Len(worker) = transfer.threads
    BY <2>1, LengthFacts
  <2>3. QED
    BY <1>1, <2>1, <2>2 DEF Workers
<1>2. CASE ~(Sharded /\ mode # "start")
  BY <1>2 DEF Typed, Workers
<1>3. QED
  BY <1>1, <1>2

\* A multiple plus the number itself is a multiple again.
LEMMA NextMultiple ==
  ASSUME NEW n \in Nat, NEW c \in Nat \ {0}, n % c = 0
  PROVE  (n + c) % c = 0
<1>0. \A a \in Nat : a = c * (a \div c) + (a % c) /\ a \div c \in Int /\ 0 <= a % c /\ a % c < c
                     /\ a % c \in Int
  OBVIOUS
<1>1. PICK k \in Int : n = c * k
  <2>1. n = c * (n \div c) + (n % c) /\ n \div c \in Int
    BY <1>0
  <2>2. PICK q \in Int : q = n \div c
    BY <2>1
  <2>3. n = c * q + 0
    BY <2>1, <2>2
  <2>4. c * q \in Int
    OBVIOUS
  <2>5. QED
    BY <2>3, <2>4
<1>2. PICK q \in Int, r \in Int : n + c = c * q + r /\ 0 <= r /\ r < c /\ r = (n + c) % c
  <2>1. n + c \in Nat
    OBVIOUS
  <2>2. PICK s \in Nat : s = n + c
    BY <2>1
  <2>3. s = c * (s \div c) + (s % c) /\ s \div c \in Int /\ 0 <= s % c /\ s % c < c /\ s % c \in Int
    BY <1>0
  <2>4. QED
    BY <2>2, <2>3
<1>3. c * (k + 1 - q) = r
  BY <1>1, <1>2
<1>4. PICK d \in Int : d = k + 1 - q
  BY <1>1, <1>2
<1>5. c * d = r
  BY <1>3, <1>4
<1>6. d >= 1 => c * d >= c
  OBVIOUS
<1>7. d <= -1 => c * d <= -c
  OBVIOUS
<1>8. d = 0
  BY <1>2, <1>4, <1>5, <1>6, <1>7
<1>9. QED
  BY <1>2, <1>5, <1>8


------------------------------------------------------------------------------
(* The kinds of steps a worker takes                                         *)

LEMMA BytesType ==
  ASSUME NEW p \in Nat, NEW n \in Nat
  PROVE  /\ InputBytes(p, n) \in Seq(Nat) /\ Len(InputBytes(p, n)) = n
         /\ \A i \in 1..n : InputBytes(p, n)[i] = p + i
<1>1. InputBytes(p, n) \in [1..n -> Nat]
  BY DEF InputBytes
<1>2. QED
  BY <1>1, LengthFacts DEF InputBytes

LEMMA LeavesType ==
  ASSUME NEW bytes \in Seq(Nat)
  PROVE  Leaves(bytes) \in Seq(Leaf)
<1>1. CHUNK_SIZE \in Nat \ {0} /\ Len(bytes) \in Nat
  BY TreeAssumption
<1>2. PICK n \in Nat : n = (Len(bytes) + CHUNK_SIZE - 1) \div CHUNK_SIZE
  <2>1. \A a \in Nat : \A c \in Nat \ {0} : a \div c \in Nat
    OBVIOUS
  <2>2. Len(bytes) + CHUNK_SIZE - 1 \in Nat
    BY <1>1
  <2>3. QED
    BY <1>1, <2>1, <2>2
<1> DEFINE chunks == Chunks(bytes, CHUNK_SIZE)
<1>3. \A i \in 1..n : chunks[i] \in Seq(Nat)
  <2>1. ASSUME NEW i \in 1..n
        PROVE  chunks[i] \in Seq(Nat)
    <3>1. PICK a \in Nat : a = (i - 1) * CHUNK_SIZE
      <4>1. i - 1 \in Nat
        OBVIOUS
      <4>2. \A x \in Nat : \A y \in Nat : x * y \in Nat
        OBVIOUS
      <4>3. QED
        BY <1>1, <4>1, <4>2
    <3>2. PICK b \in Nat : b = i * CHUNK_SIZE
      <4>1. \A x \in Nat : \A y \in Nat : x * y \in Nat
        OBVIOUS
      <4>2. i \in Nat
        OBVIOUS
      <4>3. QED
        BY <1>1, <4>1, <4>2
    <3>3. chunks[i] = SubSeq(bytes, a + 1, Least(b, Len(bytes)))
      BY <1>2, <3>1, <3>2 DEF Chunks
    <3>4. PICK e \in Nat : e = Least(b, Len(bytes)) /\ e <= Len(bytes)
      BY <1>1 DEF Least
    <3>5. SubSeq(bytes, a + 1, e) \in Seq(Nat)
      <4>1. \A j \in a + 1 .. e : j \in 1..Len(bytes)
        BY <1>1, <3>4
      <4>2. QED
        BY <4>1, SubSeqProperties
    <3>6. QED
      BY <3>3, <3>4, <3>5
  <2>2. QED
    BY <2>1
<1>4. Len(chunks) = n
  <2>1. chunks \in [1..n -> Seq(Nat)]
    BY <1>2, <1>3 DEF Chunks
  <2> HIDE DEF chunks
  <2>2. QED
    BY <2>1, LengthFacts
<1>5. Leaves(bytes) = [i \in 1..n |-> [chunk |-> chunks[i], root |-> FALSE]]
  BY <1>4 DEF Leaves, HashChunk
<1> HIDE DEF chunks
<1>6. Leaves(bytes) \in [1..n -> Leaf]
  BY <1>3, <1>5 DEF Leaf
<1>7. QED
  BY <1>6, LengthFacts


Step(w) == Worker(w) \/ WorkerFails(w)

Quiet == UNCHANGED <<out, stats_bytes, abort_flag>>

\* The block and what of it is written stay.
Same(w) ==
  /\ worker'[w].base = worker[w].base /\ worker'[w].done = worker[w].done
  /\ worker'[w].block = worker[w].block /\ worker'[w].written = worker[w].written

AllClaimed == TotalBytes >= 0 /\ next_offset >= TotalBytes

\* Between two stripes.
Idles(w) ==
  /\ worker[w].pc \in {"init", "top", "claim"} /\ worker'[w].pc \in {"top", "claim", "ended"}
  /\ Same(w) /\ Quiet
  /\ next_offset' = next_offset \/ (AllClaimed /\ next_offset' = next_offset + ChunkSize)
  /\ worker'[w].pc = "ended" => worker'[w].failed \/ abort_flag \/ cancel_flag \/ AllClaimed
  /\ worker'[w].failed => worker[w].failed \/ worker'[w].pc = "ended"

Takes(w) ==
  /\ worker[w].pc = "claim" /\ worker'[w].pc = "chunk"
  /\ worker'[w].base = next_offset /\ worker'[w].done = 0
  /\ worker'[w].block = worker[w].block /\ worker'[w].written = worker[w].written
  /\ worker'[w].failed = worker[w].failed
  /\ ~AllClaimed /\ next_offset' = next_offset + ChunkSize
  /\ Quiet

Fills(w, n) ==
  /\ worker[w].pc = "chunk" /\ worker'[w].pc = "write"
  /\ worker'[w].base = worker[w].base /\ worker'[w].done = worker[w].done
  /\ n >= 1 /\ n <= ChunkLen(w) - worker[w].done /\ n <= transfer.source - Position(w)
  /\ worker'[w].block = InputBytes(Position(w), n) /\ worker'[w].written = 0
  /\ worker'[w].failed = worker[w].failed
  /\ next_offset' = next_offset /\ Quiet

Stops(w) ==
  /\ Active(w) /\ worker'[w].pc = "ended"
  /\ Same(w) /\ UNCHANGED <<out, stats_bytes, next_offset>>
  /\ \/ worker'[w].failed /\ abort_flag' \in BOOLEAN
     \/ /\ worker[w].pc = "chunk" /\ Position(w) >= transfer.source
        /\ worker'[w].failed = worker[w].failed /\ abort_flag' = TRUE

Lands(w, m) ==
  /\ worker[w].pc = "write" /\ m \in 1..(Len(worker[w].block) - worker[w].written)
  /\ out' = WrittenAt(Progress(w), SubSeq(worker[w].block, worker[w].written + 1,
                                          worker[w].written + m))
  /\ worker'[w].base = worker[w].base /\ worker'[w].failed = worker[w].failed
  /\ UNCHANGED <<next_offset, abort_flag>>

\* The rest of the block remains.
Part(w, m) ==
  /\ Lands(w, m) /\ worker[w].written + m < Len(worker[w].block)
  /\ worker'[w].pc = "write" /\ worker'[w].done = worker[w].done
  /\ worker'[w].block = worker[w].block /\ worker'[w].written = worker[w].written + m
  /\ stats_bytes' = stats_bytes

\* The block is complete, and perhaps the stripe.
Whole(w, m) ==
  /\ Lands(w, m) /\ worker[w].written + m = Len(worker[w].block)
  /\ worker'[w].done = worker[w].done + Len(worker[w].block)
  /\ worker'[w].pc = IF worker'[w].done = ChunkLen(w) THEN "top" ELSE "chunk"
  /\ worker'[w].block = << >> /\ worker'[w].written = 0
  /\ stats_bytes' = stats_bytes + Len(worker[w].block)

Kinds(w) ==
  \/ Idles(w) \/ Takes(w) \/ Stops(w)
  \/ \E n \in Nat : Fills(w, n) \/ Part(w, n) \/ Whole(w, n)

LEMMA Sizes ==
  ASSUME Typed, NEW w \in Workers
  PROVE  /\ worker[w] \in WorkerType /\ worker[w].base \in Nat /\ worker[w].done \in Nat
         /\ worker[w].written \in Nat /\ worker[w].block \in Seq(Nat)
         /\ Len(worker[w].block) \in Nat
         /\ ChunkLen(w) \in Int /\ Position(w) \in Nat /\ Progress(w) \in Nat
         /\ transfer.source \in Nat /\ transfer.blocksize \in Nat \ {0}
         /\ ChunkSize \in Nat \ {0} /\ TotalBytes \in Nat \cup {-1}
         /\ next_offset \in Nat /\ Wanted \in Nat /\ Wanted <= transfer.source
         /\ Sharded /\ mode # "start" /\ Workers = 1..transfer.threads
         /\ worker \in [Workers -> WorkerType]
<1>1. /\ transfer \in Transfers /\ next_offset \in Nat
      /\ Sharded /\ mode # "start" /\ Workers = 1..transfer.threads /\ worker[w] \in WorkerType
      /\ worker \in [1..transfer.threads -> WorkerType]
  BY Team DEF Typed
<1>2. /\ worker[w].base \in Nat /\ worker[w].done \in Nat
      /\ worker[w].written \in Nat /\ worker[w].block \in Seq(Nat)
  BY <1>1 DEF WorkerType
<1>3. Len(worker[w].block) \in Nat
  BY <1>2
<1>4. /\ transfer.source \in Nat /\ transfer.blocksize \in Nat \ {0}
      /\ ChunkSize \in Nat \ {0} /\ TotalBytes \in Nat \cup {-1}
      /\ Wanted \in Nat /\ Wanted <= transfer.source
  BY <1>1, TransferFacts, LimitFacts
<1>5. ChunkLen(w) \in Int
  BY <1>2, <1>4 DEF ChunkLen, Least
<1>6. Position(w) \in Nat /\ Progress(w) \in Nat
  <2>1. Position(w) \in Nat
    BY <1>2 DEF Position
  <2>2. QED
    BY <1>2, <2>1 DEF Progress
<1>7. QED
  BY <1>1, <1>2, <1>3, <1>4, <1>5, <1>6

LEMMA KeptType ==
  ASSUME Typed, NEW w \in Workers
  PROVE  Kept(w, worker[w].leaves) \in Seq([base : Nat, leaves : Seq(Leaf)])
<1>1. worker[w] \in WorkerType
  BY Sizes
<1>2. /\ worker[w].base \in Nat /\ worker[w].leaves \in Seq(Leaf)
      /\ worker[w].stripes \in Seq([base : Nat, leaves : Seq(Leaf)])
  BY <1>1 DEF WorkerType
<1>3. [base |-> worker[w].base, leaves |-> worker[w].leaves] \in [base : Nat, leaves : Seq(Leaf)]
  BY <1>2
<1>4. \A s \in Seq([base : Nat, leaves : Seq(Leaf)]), r \in [base : Nat, leaves : Seq(Leaf)] :
        Append(s, r) \in Seq([base : Nat, leaves : Seq(Leaf)])
  BY AppendProperties
<1>5. QED
  BY <1>2, <1>3, <1>4 DEF Kept

\* What every step of a worker leaves alone, and the kind it is of.
Own(w) ==
  /\ UNCHANGED <<transfer, cancel_flag, single, mode, result>>
  /\ ragged' \in BOOLEAN /\ next_offset' \in Nat /\ abort_flag' \in BOOLEAN
  /\ stats_bytes' \in Nat
  /\ worker' \in [Workers -> WorkerType]
  /\ \A v \in Workers \ {w} : worker'[v] = worker[v]
  /\ Kinds(w)

LEMMA OwnMove ==
  ASSUME Typed, NEW w \in Workers,
         WorkerStarts(w) \/ WorkerGoesOn(w) \/ WorkerLeaves(w) \/ WorkerClaims(w)
  PROVE  Own(w)
<1>0. /\ worker \in [Workers -> WorkerType] /\ next_offset \in Nat /\ ChunkSize \in Nat \ {0}
      /\ ragged \in BOOLEAN /\ stats_bytes \in Nat /\ TotalBytes \in Nat \cup {-1}
      /\ worker[w] \in WorkerType
  BY Sizes DEF Typed
<1>a. abort_flag \in BOOLEAN
  BY DEF Typed
<1>b. /\ UNCHANGED <<transfer, cancel_flag, single, mode, result, ragged>> /\ Quiet
      /\ next_offset' \in {next_offset, next_offset + ChunkSize}
  BY DEF WorkerStarts, WorkerGoesOn, WorkerLeaves, WorkerClaims, Claimed, Quiet, shared, ending
<1>c. /\ ragged' \in BOOLEAN /\ abort_flag' \in BOOLEAN /\ stats_bytes' \in Nat
      /\ next_offset' \in Nat
  <2>1. ragged' = ragged /\ abort_flag' = abort_flag /\ stats_bytes' = stats_bytes
    BY <1>b DEF Quiet
  <2>2. next_offset' \in Nat
    BY <1>0, <1>b
  <2>3. QED
    BY <1>0, <1>a, <2>1, <2>2
<1> DEFINE r(pc, failed) == [worker[w] EXCEPT !.pc = pc, !.failed = failed]
<1>1. ASSUME NEW pc \in {"top", "claim", "ended"}, NEW failed \in BOOLEAN,
             worker' = [worker EXCEPT ![w] = r(pc, failed)]
      PROVE  /\ worker' \in [Workers -> WorkerType]
             /\ \A v \in Workers \ {w} : worker'[v] = worker[v]
             /\ Same(w) /\ worker'[w].pc = pc /\ worker'[w].failed = failed
  <2>1. r(pc, failed) \in WorkerType
    BY <1>0, <1>1 DEF WorkerType
  <2>2. r(pc, failed).pc = pc /\ r(pc, failed).failed = failed
        /\ r(pc, failed).base = worker[w].base /\ r(pc, failed).done = worker[w].done
        /\ r(pc, failed).block = worker[w].block /\ r(pc, failed).written = worker[w].written
    BY <1>0 DEF WorkerType
  <2>3. PICK q \in WorkerType : q = r(pc, failed)
    BY <2>1
  <2> HIDE DEF r
  <2>4. worker' = [worker EXCEPT ![w] = q]
    BY <1>1, <2>3
  <2>5. /\ worker' \in [Workers -> WorkerType] /\ worker'[w] = q
        /\ \A v \in Workers \ {w} : worker'[v] = worker[v]
    BY <1>0, <2>4
  <2>6. QED
    BY <2>2, <2>3, <2>5 DEF Same
<1>2. worker[w].failed \in BOOLEAN
  BY <1>0 DEF WorkerType
<1>3. \A pc \in {"top", "claim", "ended"} : \A failed \in BOOLEAN :
        [worker EXCEPT ![w] = r(pc, failed)] = [worker EXCEPT ![w].pc = pc, ![w].failed = failed]
  BY <1>0 DEF WorkerType
<1>4. \A pc \in {"top", "claim", "ended"} :
        [worker EXCEPT ![w] = r(pc, worker[w].failed)] = [worker EXCEPT ![w].pc = pc]
  BY <1>0 DEF WorkerType
<1> HIDE DEF r
<1>5. CASE WorkerStarts(w) \/ WorkerGoesOn(w) \/ WorkerLeaves(w) \/ (WorkerClaims(w) /\ AllClaimed)
  <2>1. /\ worker[w].pc \in {"init", "top", "claim"}
        /\ next_offset' = next_offset \/ (AllClaimed /\ next_offset' = next_offset + ChunkSize)
    BY <1>5 DEF WorkerStarts, WorkerGoesOn, WorkerLeaves, WorkerClaims, Claimed, At, shared
  <2>2. \/ worker' = [worker EXCEPT ![w].pc = "top"]
        \/ worker' = [worker EXCEPT ![w].pc = "claim"]
        \/ worker' = [worker EXCEPT ![w].pc = "ended", ![w].failed = TRUE]
        \/ /\ worker' = [worker EXCEPT ![w].pc = "ended", ![w].failed = FALSE]
           /\ abort_flag \/ cancel_flag \/ AllClaimed
    BY <1>5 DEF WorkerStarts, WorkerGoesOn, WorkerLeaves, WorkerClaims, AllClaimed, Ends
  <2>3. PICK pc \in {"top", "claim", "ended"}, failed \in BOOLEAN :
          /\ worker' = [worker EXCEPT ![w] = r(pc, failed)]
          /\ pc = "ended" => failed \/ abort_flag \/ cancel_flag \/ AllClaimed
          /\ failed => pc = "ended" \/ worker[w].failed
    BY <1>2, <1>3, <1>4, <2>2
  <2>4. /\ worker' \in [Workers -> WorkerType]
        /\ \A v \in Workers \ {w} : worker'[v] = worker[v]
        /\ Same(w) /\ worker'[w].pc = pc /\ worker'[w].failed = failed
    BY <1>1, <2>3
  <2>5. Idles(w)
    BY <1>b, <2>1, <2>3, <2>4 DEF Idles
  <2>6. QED
    BY <1>b, <1>c, <2>4, <2>5 DEF Own, Kinds
<1>6. CASE WorkerClaims(w) /\ ~AllClaimed
  <2>1. /\ worker' = [worker EXCEPT ![w].pc = "chunk", ![w].base = next_offset,
                                    ![w].done = 0, ![w].leaves = << >>]
        /\ worker[w].pc = "claim" /\ next_offset' = next_offset + ChunkSize
    BY <1>6 DEF WorkerClaims, AllClaimed, Claimed, At
  <2>2. << >> \in Seq(Leaf)
    OBVIOUS
  <2>3. /\ worker' \in [Workers -> WorkerType]
        /\ \A v \in Workers \ {w} : worker'[v] = worker[v]
    BY <1>0, <2>1, <2>2 DEF WorkerType
  <2>4. /\ worker'[w].pc = "chunk" /\ worker'[w].base = next_offset /\ worker'[w].done = 0
        /\ worker'[w].block = worker[w].block /\ worker'[w].written = worker[w].written
        /\ worker'[w].failed = worker[w].failed
    BY <1>0, <2>1 DEF WorkerType
  <2>5. Takes(w)
    BY <1>b, <1>6, <2>1, <2>4 DEF Takes
  <2>6. QED
    BY <1>b, <1>c, <2>3, <2>5 DEF Own, Kinds
<1>7. QED
  BY <1>5, <1>6


LEMMA OwnStop ==
  ASSUME Typed, NEW w \in Workers,
         WorkerCancelled(w) \/ WorkerMeetsEnd(w) \/ WorkerFails(w)
  PROVE  Own(w)
<1>0. /\ worker \in [Workers -> WorkerType] /\ next_offset \in Nat
      /\ ragged \in BOOLEAN /\ stats_bytes \in Nat /\ worker[w] \in WorkerType
  BY Sizes DEF Typed
<1>a. abort_flag \in BOOLEAN
  BY DEF Typed
<1>b. UNCHANGED <<transfer, cancel_flag, single, mode, result, ragged, out, stats_bytes, next_offset>>
  BY DEF WorkerCancelled, WorkerMeetsEnd, WorkerFails, shared, ending
<1>c. /\ ragged' \in BOOLEAN /\ abort_flag' \in BOOLEAN /\ stats_bytes' \in Nat
      /\ next_offset' \in Nat
  <2>1. ragged' = ragged /\ next_offset' = next_offset /\ stats_bytes' = stats_bytes
    BY <1>b
  <2>2. abort_flag' \in BOOLEAN
    BY <1>a DEF WorkerCancelled, WorkerMeetsEnd, WorkerFails, shared
  <2>3. QED
    BY <1>0, <2>1, <2>2
<1>1. Active(w)
  BY DEF WorkerCancelled, WorkerMeetsEnd, WorkerFails, At, Active
<1>2. CASE WorkerCancelled(w) \/ WorkerFails(w)
  <2>1. worker' = [worker EXCEPT ![w].pc = "ended", ![w].failed = TRUE]
    BY <1>2 DEF WorkerCancelled, WorkerFails, Ends
  <2>2. /\ worker' \in [Workers -> WorkerType]
        /\ \A v \in Workers \ {w} : worker'[v] = worker[v]
    BY <1>0, <2>1 DEF WorkerType
  <2>3. Same(w) /\ worker'[w].pc = "ended" /\ worker'[w].failed
    BY <1>0, <2>1 DEF WorkerType, Same
  <2>4. Stops(w)
    BY <1>1, <1>b, <1>c, <2>3 DEF Stops
  <2>5. QED
    BY <1>b, <1>c, <2>2, <2>4 DEF Own, Kinds
<1>3. CASE WorkerMeetsEnd(w)
  <2>1. /\ worker' = [worker EXCEPT ![w].pc = "ended", ![w].stripes = Kept(w, worker[w].leaves)]
        /\ worker[w].pc = "chunk" /\ Position(w) >= transfer.source /\ abort_flag' = TRUE
    BY <1>3 DEF WorkerMeetsEnd, At
  <2>2. PICK stripes \in Seq([base : Nat, leaves : Seq(Leaf)]) : stripes = Kept(w, worker[w].leaves)
    BY KeptType
  <2>3. worker' = [worker EXCEPT ![w].pc = "ended", ![w].stripes = stripes]
    BY <2>1, <2>2
  <2>4. /\ worker' \in [Workers -> WorkerType]
        /\ \A v \in Workers \ {w} : worker'[v] = worker[v]
    BY <1>0, <2>3 DEF WorkerType
  <2>5. Same(w) /\ worker'[w].pc = "ended" /\ worker'[w].failed = worker[w].failed
    BY <1>0, <2>3 DEF WorkerType, Same
  <2>6. Stops(w)
    BY <1>1, <1>b, <2>1, <2>5 DEF Stops
  <2>7. QED
    BY <1>b, <1>c, <2>4, <2>6 DEF Own, Kinds
<1>4. QED
  BY <1>2, <1>3

LEMMA OwnRead ==
  ASSUME Typed, NEW w \in Workers, WorkerReads(w)
  PROVE  Own(w)
<1>0. /\ worker \in [Workers -> WorkerType] /\ next_offset \in Nat
      /\ stats_bytes \in Nat /\ worker[w] \in WorkerType
      /\ Position(w) \in Nat /\ ChunkLen(w) \in Int /\ worker[w].done \in Nat
      /\ transfer.blocksize \in Nat /\ transfer.source \in Nat
  BY Sizes DEF Typed
<1>a. abort_flag \in BOOLEAN
  BY DEF Typed
<1>b. /\ UNCHANGED <<transfer, cancel_flag, single, mode, result, next_offset>> /\ Quiet
      /\ worker[w].pc = "chunk"
  BY DEF WorkerReads, Quiet, shared, ending, At
<1>1. \A a, b \in Int : Least(a, b) \in Int /\ Least(a, b) <= a /\ Least(a, b) <= b
  BY DEF Least
<1> DEFINE to_read == Least(ChunkLen(w) - worker[w].done, transfer.blocksize)
           most    == Least(to_read, transfer.source - Position(w))
<1>2. /\ most \in Int /\ most <= ChunkLen(w) - worker[w].done
      /\ most <= transfer.source - Position(w)
  <2>0. /\ ChunkLen(w) - worker[w].done \in Int /\ transfer.blocksize \in Int
        /\ transfer.source - Position(w) \in Int
    BY <1>0
  <2>1. to_read \in Int /\ to_read <= ChunkLen(w) - worker[w].done
    BY <1>1, <2>0
  <2> HIDE DEF to_read
  <2>2. most \in Int /\ most <= to_read /\ most <= transfer.source - Position(w)
    BY <1>1, <2>0, <2>1
  <2> HIDE DEF most
  <2>3. QED
    BY <1>0, <2>1, <2>2
<1>3. PICK n \in 1..most :
        /\ worker' = [worker EXCEPT
              ![w].pc = "write", ![w].block = InputBytes(Position(w), n), ![w].written = 0,
              ![w].leaves = IF Hashes THEN @ \o Leaves(InputBytes(Position(w), n)) ELSE @]
        /\ ragged' = (ragged \/ (Hashes /\ n < most /\ n % CHUNK_SIZE # 0))
  BY DEF WorkerReads
<1>4. ragged' \in BOOLEAN
  BY <1>3
<1> HIDE DEF to_read, most
<1>5. /\ n \in Nat /\ n >= 1 /\ n <= ChunkLen(w) - worker[w].done
      /\ n <= transfer.source - Position(w)
  BY <1>0, <1>2
<1>6. PICK bytes \in Seq(Nat) : bytes = InputBytes(Position(w), n)
  BY <1>0, <1>5, BytesType
<1>7. worker[w].leaves \in Seq(Leaf) /\ Leaves(bytes) \in Seq(Leaf)
  BY <1>0, LeavesType DEF WorkerType
<1>8. PICK leaves \in Seq(Leaf) :
        leaves = IF Hashes THEN worker[w].leaves \o Leaves(bytes) ELSE worker[w].leaves
  <2>1. worker[w].leaves \o Leaves(bytes) \in Seq(Leaf)
    BY <1>7, ConcatProperties
  <2>2. QED
    BY <1>7, <2>1
<1>9. worker' = [worker EXCEPT ![w].pc = "write", ![w].block = bytes, ![w].written = 0,
                               ![w].leaves = leaves]
  BY <1>0, <1>3, <1>6, <1>8
<1>10. /\ worker' \in [Workers -> WorkerType]
       /\ \A v \in Workers \ {w} : worker'[v] = worker[v]
  BY <1>0, <1>9 DEF WorkerType
<1>11. /\ worker'[w].pc = "write" /\ worker'[w].block = bytes /\ worker'[w].written = 0
       /\ worker'[w].base = worker[w].base /\ worker'[w].done = worker[w].done
       /\ worker'[w].failed = worker[w].failed
  BY <1>0, <1>9 DEF WorkerType
<1>12. Fills(w, n)
  BY <1>b, <1>5, <1>6, <1>11 DEF Fills
<1>13. /\ abort_flag' \in BOOLEAN /\ stats_bytes' \in Nat /\ next_offset' \in Nat
  BY <1>0, <1>a, <1>b DEF Quiet
<1>14. QED
  BY <1>b, <1>4, <1>5, <1>10, <1>12, <1>13 DEF Own, Kinds

LEMMA OwnWrite ==
  ASSUME Typed, NEW w \in Workers, WorkerWrites(w)
  PROVE  Own(w)
<1>0. /\ worker \in [Workers -> WorkerType] /\ next_offset \in Nat /\ ragged \in BOOLEAN
      /\ stats_bytes \in Nat /\ worker[w] \in WorkerType
      /\ worker[w].base \in Nat /\ worker[w].done \in Nat /\ worker[w].written \in Nat
      /\ Len(worker[w].block) \in Nat
  BY Sizes DEF Typed
<1>a. abort_flag \in BOOLEAN
  BY DEF Typed
<1>b. /\ UNCHANGED <<transfer, cancel_flag, single, mode, result, next_offset, abort_flag, ragged>>
      /\ worker[w].pc = "write"
  BY DEF WorkerWrites, shared, ending, At
<1>c. abort_flag' \in BOOLEAN /\ ragged' \in BOOLEAN /\ next_offset' \in Nat
  BY <1>0, <1>a, <1>b
<1> DEFINE done == worker[w].done + Len(worker[w].block)
           ends == done = ChunkLen(w)
<1>1. PICK m \in 1..(Len(worker[w].block) - worker[w].written) :
        /\ out' = WrittenAt(Position(w) + worker[w].written,
                            SubSeq(worker[w].block, worker[w].written + 1, worker[w].written + m))
        /\ IF worker[w].written + m < Len(worker[w].block)
           THEN /\ worker' = [worker EXCEPT ![w].written = worker[w].written + m]
                /\ UNCHANGED stats_bytes
           ELSE /\ stats_bytes' = stats_bytes + Len(worker[w].block)
                /\ worker' = [worker EXCEPT
                     ![w].block = << >>, ![w].written = 0, ![w].done = done,
                     ![w].pc = IF ends THEN "top" ELSE "chunk",
                     ![w].leaves = IF ends THEN << >> ELSE @,
                     ![w].stripes = IF ends THEN Kept(w, worker[w].leaves) ELSE @]
  BY DEF WorkerWrites
<1>2. CASE worker[w].written + m < Len(worker[w].block)
  <2>1. worker' = [worker EXCEPT ![w].written = worker[w].written + m] /\ stats_bytes' = stats_bytes
    BY <1>1, <1>2
  <2>2. worker[w].written + m \in Nat
    BY <1>0
  <2>3. /\ worker' \in [Workers -> WorkerType]
        /\ \A v \in Workers \ {w} : worker'[v] = worker[v]
    BY <1>0, <2>1, <2>2 DEF WorkerType
  <2>4. /\ worker'[w].pc = "write" /\ worker'[w].block = worker[w].block
        /\ worker'[w].written = worker[w].written + m
        /\ worker'[w].base = worker[w].base /\ worker'[w].done = worker[w].done
        /\ worker'[w].failed = worker[w].failed
    BY <1>0, <1>b, <2>1 DEF WorkerType
  <2>5. Part(w, m) /\ m \in Nat
    BY <1>b, <1>1, <1>2, <2>1, <2>4 DEF Part, Lands, Progress
  <2>6. QED
    BY <1>0, <1>b, <1>c, <2>1, <2>3, <2>5 DEF Own, Kinds
<1>3. CASE ~(worker[w].written + m < Len(worker[w].block))
  <2>1. /\ stats_bytes' = stats_bytes + Len(worker[w].block)
        /\ worker' = [worker EXCEPT
                     ![w].block = << >>, ![w].written = 0, ![w].done = done,
                     ![w].pc = IF ends THEN "top" ELSE "chunk",
                     ![w].leaves = IF ends THEN << >> ELSE @,
                     ![w].stripes = IF ends THEN Kept(w, worker[w].leaves) ELSE @]
    BY <1>1, <1>3
  <2>2. /\ done \in Nat /\ stats_bytes' \in Nat /\ << >> \in Seq(Nat)
        /\ worker[w].written + m = Len(worker[w].block)
    <3>1. stats_bytes' \in Nat
      BY <1>0, <2>1
    <3>2. m <= Len(worker[w].block) - worker[w].written
      OBVIOUS
    <3>3. worker[w].written + m = Len(worker[w].block)
      BY <1>0, <1>3, <3>2
    <3>4. done \in Nat
      BY <1>0
    <3>5. QED
      BY <3>1, <3>3, <3>4
  <2> HIDE DEF ends
  <2>3. PICK leaves \in Seq(Leaf) : leaves = IF ends THEN << >> ELSE worker[w].leaves
    <3>1. worker[w].leaves \in Seq(Leaf) /\ << >> \in Seq(Leaf)
      BY <1>0 DEF WorkerType
    <3>2. QED
      BY <3>1
  <2>4. PICK stripes \in Seq([base : Nat, leaves : Seq(Leaf)]) :
          stripes = IF ends THEN Kept(w, worker[w].leaves) ELSE worker[w].stripes
    BY <1>0, KeptType DEF WorkerType
  <2>5. PICK pc \in {"top", "chunk"} : pc = IF ends THEN "top" ELSE "chunk"
    OBVIOUS
  <2>6. PICK d \in Nat : d = done
    BY <2>2
  <2>7. worker' = [worker EXCEPT ![w].block = << >>, ![w].written = 0, ![w].done = d,
                                 ![w].pc = pc, ![w].leaves = leaves, ![w].stripes = stripes]
    BY <1>0, <2>1, <2>3, <2>4, <2>5, <2>6
  <2>8. /\ worker' \in [Workers -> WorkerType]
        /\ \A v \in Workers \ {w} : worker'[v] = worker[v]
    BY <1>0, <2>2, <2>7 DEF WorkerType
  <2>9. /\ worker'[w].pc = pc /\ worker'[w].block = << >> /\ worker'[w].written = 0
        /\ worker'[w].base = worker[w].base /\ worker'[w].done = d
        /\ worker'[w].failed = worker[w].failed
    BY <1>0, <2>7 DEF WorkerType
  <2>10. Lands(w, m) /\ m \in Nat
    BY <1>b, <1>1, <2>9 DEF Lands, Progress
  <2>11. Whole(w, m)
    BY <2>1, <2>2, <2>5, <2>6, <2>9, <2>10 DEF Whole, ends
  <2>12. QED
    BY <1>b, <1>c, <2>2, <2>8, <2>10, <2>11 DEF Own, Kinds
<1>4. QED
  BY <1>2, <1>3

LEMMA OwnPart ==
  ASSUME Typed, NEW w \in Workers, Step(w)
  PROVE  Own(w)
BY OwnMove, OwnStop, OwnRead, OwnWrite DEF Step, Worker


------------------------------------------------------------------------------
(* Geometry                                                                  *)

\* A step of w leaves what the other workers have as it is.
LEMMA OthersStay ==
  ASSUME Typed, NEW w \in Workers, Own(w), NEW v \in Workers \ {w}
  PROVE  /\ worker'[v] = worker[v]
         /\ Active(v)' <=> Active(v)
         /\ Owner(v)' <=> Owner(v)
         /\ Holding(v)' <=> Holding(v)
         /\ Progress(v)' = Progress(v) /\ Uncounted(v)' = Uncounted(v)
         /\ ChunkLen(v)' = ChunkLen(v)
         /\ \A p : Ahead(v, p)' <=> Ahead(v, p)
<1>1. /\ worker'[v] = worker[v] /\ transfer' = transfer
      /\ ChunkSize' = ChunkSize /\ TotalBytes' = TotalBytes
  BY Fixed DEF Own
<1>2. /\ Active(v)' <=> Active(v)
      /\ Owner(v)' <=> Owner(v)
  BY <1>1 DEF Active, Owner
<1>3. /\ Position(v)' = Position(v) /\ Progress(v)' = Progress(v)
      /\ ChunkLen(v)' = ChunkLen(v)
  BY <1>1 DEF Position, Progress, ChunkLen, Least
<1>4. Uncounted(v)' = Uncounted(v)
  BY <1>3 DEF Uncounted
<1>5. Holding(v)' <=> Holding(v)
  BY <1>1, <1>3 DEF Holding
<1>6. \A p : Ahead(v, p)' <=> Ahead(v, p)
  BY <1>1, <1>2, <1>3 DEF Ahead
<1>7. QED
  BY <1>1, <1>2, <1>3, <1>4, <1>5, <1>6

LEMMA TeamStays ==
  ASSUME Typed, NEW w \in Workers, Own(w)
  PROVE  /\ Workers' = Workers /\ worker'[w] \in WorkerType
         /\ ChunkSize' = ChunkSize /\ TotalBytes' = TotalBytes /\ Wanted' = Wanted
         /\ ChunkLen(w)' = IF TotalBytes >= 0 THEN Least(TotalBytes - worker'[w].base, ChunkSize)
                           ELSE ChunkSize
         /\ Position(w)' = worker'[w].base + worker'[w].done
         /\ Progress(w)' = worker'[w].base + worker'[w].done + worker'[w].written
<1>1. Workers = 1..transfer.threads /\ transfer.threads \in Nat
  BY Sizes, TransferFacts DEF Typed
<1>2. worker' \in [1..transfer.threads -> WorkerType]
  BY <1>1 DEF Own
<1>3. Len(worker') = transfer.threads
  BY <1>1, <1>2, LengthFacts
<1>4. Workers' = Workers /\ worker'[w] \in WorkerType
  BY <1>1, <1>2, <1>3 DEF Workers
<1>5. /\ ChunkSize' = ChunkSize /\ TotalBytes' = TotalBytes /\ Wanted' = Wanted
  BY Fixed DEF Own
<1>6. QED
  BY <1>4, <1>5 DEF ChunkLen, Position, Progress, Least

\* What is known of a worker by itself.
Shape(w) ==
  /\ worker[w].base % ChunkSize = 0 /\ worker[w].done <= ChunkSize
  /\ worker[w].written > 0 => worker[w].pc \in {"write", "ended"}
  /\ worker[w].pc = "ended" /\ worker[w].written > 0 => worker[w].failed
  /\ worker[w].failed => worker[w].pc = "ended"
  /\ Owner(w) => /\ worker[w].base + ChunkSize <= next_offset
                 /\ TotalBytes >= 0 => worker[w].base < TotalBytes
  /\ worker[w].pc = "chunk" => worker[w].done < ChunkLen(w)
  /\ worker[w].pc = "write" \/ worker[w].written > 0 => Holding(w)

Apart(w, v) ==
  Owner(w) /\ Owner(v) =>
    \/ worker[v].base + ChunkSize <= worker[w].base
    \/ worker[w].base + ChunkSize <= worker[v].base

LEMMA GeometryParts ==
  Geometry <=> /\ next_offset % ChunkSize = 0
               /\ \A w \in Workers : Shape(w) /\ \A v \in Workers \ {w} : Apart(w, v)
BY DEF Geometry, Shape, Apart

\* What a worker has got to lies in its stripe.
LEMMA Extent ==
  ASSUME Typed, Geometry, NEW w \in Workers, Owner(w)
  PROVE  /\ worker[w].base \in Nat /\ Progress(w) \in Nat /\ Position(w) \in Nat
         /\ ChunkLen(w) \in Nat /\ ChunkSize \in Nat /\ next_offset \in Nat
         /\ worker[w].base <= Position(w) /\ Position(w) <= Progress(w)
         /\ Progress(w) <= worker[w].base + ChunkLen(w)
         /\ ChunkLen(w) <= ChunkSize
         /\ TotalBytes \in Nat \cup {-1}
         /\ TotalBytes >= 0 => worker[w].base + ChunkLen(w) <= TotalBytes
         /\ worker[w].base + ChunkSize <= next_offset
<1>1. /\ worker[w].base \in Nat /\ worker[w].done \in Nat /\ worker[w].written \in Nat
      /\ Len(worker[w].block) \in Nat /\ ChunkLen(w) \in Int
      /\ ChunkSize \in Nat \ {0} /\ TotalBytes \in Nat \cup {-1} /\ next_offset \in Nat
      /\ Position(w) \in Nat /\ Progress(w) \in Nat
  BY Sizes
<1>2. Shape(w)
  BY GeometryParts
<1>a. /\ worker[w].base + ChunkSize <= next_offset
      /\ TotalBytes >= 0 => worker[w].base < TotalBytes
      /\ worker[w].pc = "chunk" => worker[w].done < ChunkLen(w)
      /\ worker[w].pc = "write" \/ worker[w].written > 0 => Holding(w)
      /\ worker[w].written > 0 => worker[w].pc \in {"write", "ended"}
  BY <1>2 DEF Shape
<1>3. /\ Position(w) = worker[w].base + worker[w].done
      /\ Progress(w) = Position(w) + worker[w].written
      /\ ChunkLen(w) = IF TotalBytes >= 0 THEN Least(TotalBytes - worker[w].base, ChunkSize)
                       ELSE ChunkSize
  BY DEF Position, Progress, ChunkLen
<1>4. /\ ChunkLen(w) <= ChunkSize /\ ChunkLen(w) \in Nat
      /\ TotalBytes >= 0 => worker[w].base + ChunkLen(w) <= TotalBytes
  BY SMTT(30), <1>1, <1>a, <1>3 DEF Least
<1>5. CASE worker[w].pc = "chunk"
  <2>1. worker[w].done < ChunkLen(w) /\ worker[w].written = 0
    BY <1>1, <1>a, <1>5
  <2>2. QED
    BY <1>1, <1>a, <1>3, <1>4, <2>1
<1>6. CASE worker[w].pc # "chunk"
  <2>1. Holding(w)
    BY <1>a, <1>6 DEF Owner, Active
  <2>2. worker[w].written < Len(worker[w].block)
        /\ worker[w].done + Len(worker[w].block) <= ChunkLen(w)
    BY <2>1 DEF Holding
  <2>3. worker[w].done + worker[w].written <= ChunkLen(w)
    BY <1>1, <2>2
  <2>4. worker[w].base <= Position(w) /\ Position(w) <= Progress(w)
    BY SMTT(30), <1>1, <1>3
  <2>5. Progress(w) <= worker[w].base + ChunkLen(w)
    <3>1. Progress(w) = worker[w].base + (worker[w].done + worker[w].written)
      BY SMTT(30), <1>1, <1>3
    <3>2. \A a, b, c \in Int : b <= c => a + b <= a + c
      OBVIOUS
    <3>3. worker[w].done + worker[w].written \in Int
      BY <1>1
    <3>4. QED
      BY <1>1, <2>3, <3>1, <3>2, <3>3
  <2>6. QED
    BY <1>1, <1>a, <1>4, <2>4, <2>5
<1>7. QED
  BY <1>5, <1>6

LEMMA OffsetStep ==
  ASSUME Typed, Geometry, NEW w \in Workers, Own(w)
  PROVE  /\ next_offset' % ChunkSize = 0 /\ next_offset' >= next_offset
         /\ next_offset' \in Nat
         /\ next_offset' # next_offset => AllClaimed \/ Takes(w)
<1>1. next_offset \in Nat /\ ChunkSize \in Nat \ {0} /\ next_offset % ChunkSize = 0
  BY Sizes DEF Geometry
<1>2. next_offset' \in {next_offset, next_offset + ChunkSize}
      /\ (next_offset' # next_offset => AllClaimed \/ Takes(w))
  BY DEF Own, Kinds, Idles, Takes, Stops, Fills, Part, Whole, Lands
<1>3. (next_offset + ChunkSize) % ChunkSize = 0
  BY <1>1, NextMultiple
<1>4. next_offset' % ChunkSize = 0
  BY <1>1, <1>2, <1>3
<1>5. next_offset' >= next_offset /\ next_offset' \in Nat
  BY <1>1, <1>2
<1>6. QED
  BY <1>2, <1>4, <1>5

LEMMA ShapeStep ==
  ASSUME Typed, Geometry, NEW w \in Workers, Own(w)
  PROVE  Shape(w)'
<1>0. /\ worker[w].base \in Nat /\ worker[w].done \in Nat /\ worker[w].written \in Nat
      /\ Len(worker[w].block) \in Nat /\ ChunkLen(w) \in Int
      /\ ChunkSize \in Nat \ {0} /\ TotalBytes \in Nat \cup {-1} /\ next_offset \in Nat
      /\ Position(w) \in Nat /\ transfer.source \in Nat
  BY Sizes
<1>1. Shape(w)
  BY GeometryParts
<1>2. /\ ChunkSize' = ChunkSize /\ TotalBytes' = TotalBytes /\ transfer' = transfer
      /\ ChunkLen(w)' = IF TotalBytes >= 0 THEN Least(TotalBytes - worker'[w].base, ChunkSize)
                        ELSE ChunkSize
      /\ Position(w)' = worker'[w].base + worker'[w].done
      /\ worker'[w].failed \in BOOLEAN
  BY TeamStays DEF Own, WorkerType
<1>3. next_offset' >= next_offset /\ next_offset' \in Nat /\ next_offset % ChunkSize = 0
  BY OffsetStep DEF Geometry
<1>4. /\ Position(w) = worker[w].base + worker[w].done
      /\ ChunkLen(w) = IF TotalBytes >= 0 THEN Least(TotalBytes - worker[w].base, ChunkSize)
                       ELSE ChunkSize
  BY DEF Position, ChunkLen
<1>5. CASE Idles(w)
  <2>1. worker[w].written = 0 /\ ~worker[w].failed
    BY <1>0, <1>1, <1>5 DEF Idles, Shape
  <2>2. /\ worker'[w].written = 0 /\ worker'[w].base = worker[w].base
        /\ worker'[w].done = worker[w].done /\ worker'[w].pc \in {"top", "claim", "ended"}
        /\ worker'[w].failed => worker'[w].pc = "ended"
    BY <1>5, <2>1 DEF Idles, Same
  <2>3. ~Owner(w)'
    BY <2>2 DEF Owner, Active
  <2>4. QED
    BY <1>1, <1>2, <2>2, <2>3 DEF Shape
<1>6. CASE Takes(w)
  <2>1. worker[w].written = 0 /\ ~worker[w].failed
    BY <1>0, <1>1, <1>6 DEF Takes, Shape
  <2>2. /\ worker'[w].written = 0 /\ worker'[w].base = next_offset /\ worker'[w].done = 0
        /\ worker'[w].pc = "chunk" /\ ~worker'[w].failed
        /\ next_offset' = next_offset + ChunkSize /\ ~AllClaimed
    BY <1>6, <2>1 DEF Takes
  <2>3. TotalBytes >= 0 => next_offset < TotalBytes
    BY <1>0, <2>2 DEF AllClaimed
  <2>4. ChunkLen(w)' > 0
    BY <1>0, <1>2, <2>2, <2>3 DEF Least
  <2>5. QED
    BY <1>0, <1>2, <1>3, <2>2, <2>3, <2>4 DEF Shape
<1>7. ASSUME NEW n \in Nat, Fills(w, n)
      PROVE  Shape(w)'
  <2>1. /\ worker[w].pc = "chunk" /\ worker'[w].pc = "write"
        /\ worker'[w].base = worker[w].base /\ worker'[w].done = worker[w].done
        /\ worker'[w].written = 0 /\ worker'[w].failed = worker[w].failed
        /\ worker'[w].block = InputBytes(Position(w), n)
        /\ n >= 1 /\ n <= ChunkLen(w) - worker[w].done /\ n <= transfer.source - Position(w)
        /\ next_offset' = next_offset
    BY <1>7 DEF Fills
  <2>2. ChunkLen(w)' = ChunkLen(w) /\ Position(w)' = Position(w)
    BY <1>2, <1>4, <2>1
  <2>3. Len(worker'[w].block) = n /\ \A i \in 1..n : worker'[w].block[i] = Position(w) + i
    <3>1. PICK p \in Nat : p = Position(w)
      BY <1>0
    <3>2. worker'[w].block = InputBytes(p, n)
      BY <2>1, <3>1
    <3>3. QED
      BY ZenonT(40), <3>1, <3>2, BytesType
  <2>4. Holding(w)'
    <3>1. /\ ChunkLen(w) \in Int /\ Position(w) \in Nat /\ worker[w].done \in Nat
          /\ transfer.source \in Nat /\ transfer' = transfer
      BY <1>0 DEF Own
    <3>2. /\ 0 < n /\ worker[w].done + n <= ChunkLen(w)
          /\ Position(w) + n <= transfer.source
      BY <2>1, <3>1
    <3> HIDE <1>0, <1>2, <2>1
    <3>3. QED
      BY <2>1, <2>2, <2>3, <3>1, <3>2 DEF Holding
  <2>5. Owner(w) /\ ~worker[w].failed
    BY <1>1, <2>1 DEF Shape, Owner, Active
  <2>6. QED
    BY <1>1, <1>2, <2>1, <2>4, <2>5 DEF Shape
<1>8. CASE Stops(w)
  <2>1. /\ worker'[w].base = worker[w].base /\ worker'[w].done = worker[w].done
        /\ worker'[w].written = worker[w].written /\ worker'[w].block = worker[w].block
        /\ worker'[w].pc = "ended" /\ next_offset' = next_offset
        /\ worker'[w].failed \/ worker[w].pc = "chunk"
        /\ Active(w)
    BY <1>8 DEF Stops, Same
  <2>2. ChunkLen(w)' = ChunkLen(w) /\ Position(w)' = Position(w)
    BY <1>2, <1>4, <2>1
  <2>3. Holding(w)' <=> Holding(w)
    BY <1>2, <2>1, <2>2 DEF Holding
  <2>4. QED
    BY <1>1, <1>2, <2>1, <2>3 DEF Shape, Owner
<1>9. ASSUME NEW m \in Nat, Part(w, m)
      PROVE  Shape(w)'
  <2>1. /\ worker[w].pc = "write" /\ worker'[w].pc = "write"
        /\ worker'[w].base = worker[w].base /\ worker'[w].done = worker[w].done
        /\ worker'[w].written = worker[w].written + m /\ worker'[w].block = worker[w].block
        /\ worker[w].written + m < Len(worker[w].block)
        /\ worker'[w].failed = worker[w].failed /\ next_offset' = next_offset
    BY <1>9 DEF Part, Lands
  <2>2. ChunkLen(w)' = ChunkLen(w) /\ Position(w)' = Position(w)
    BY <1>2, <1>4, <2>1
  <2>3. Holding(w)'
    BY <1>1, <1>2, <2>1, <2>2 DEF Holding, Shape
  <2>4. Owner(w) /\ ~worker[w].failed
    BY <1>1, <2>1 DEF Shape, Owner, Active
  <2>5. QED
    BY <1>1, <1>2, <2>1, <2>3, <2>4 DEF Shape
<1>10. ASSUME NEW m \in Nat, Whole(w, m)
       PROVE  Shape(w)'
  <2>1. /\ worker[w].pc = "write"
        /\ worker'[w].pc = IF worker'[w].done = ChunkLen(w) THEN "top" ELSE "chunk"
        /\ worker'[w].base = worker[w].base
        /\ worker'[w].done = worker[w].done + Len(worker[w].block)
        /\ worker'[w].written = 0
        /\ worker'[w].failed = worker[w].failed /\ next_offset' = next_offset
    BY <1>10 DEF Whole, Lands
  <2>2. Holding(w) /\ Owner(w) /\ ~worker[w].failed
    BY <1>1, <2>1 DEF Shape, Owner, Active
  <2>3. worker'[w].done <= ChunkLen(w) /\ worker'[w].done \in Nat
    BY <1>0, <2>1, <2>2 DEF Holding
  <2>4. ChunkLen(w) <= ChunkSize /\ ChunkLen(w)' = ChunkLen(w)
    BY <1>2, <1>4, <2>1, <2>2, Extent
  <2>5. worker'[w].done <= ChunkSize
    BY <1>0, <2>3, <2>4
  <2>6. worker'[w].pc = "chunk" => worker'[w].done < ChunkLen(w)
    BY <1>0, <2>1, <2>3
  <2>7. QED
    BY <1>1, <1>2, <2>1, <2>2, <2>4, <2>5, <2>6 DEF Shape
<1>11. QED
  BY <1>5, <1>6, <1>7, <1>8, <1>9, <1>10 DEF Own, Kinds


LEMMA GeometryStep ==
  ASSUME Typed, Geometry, NEW w \in Workers, Own(w)
  PROVE  Geometry'
<1>0. /\ Workers' = Workers /\ ChunkSize' = ChunkSize
      /\ ChunkSize \in Nat \ {0} /\ next_offset \in Nat
      /\ next_offset' >= next_offset /\ next_offset' \in Nat
      /\ TotalBytes' = TotalBytes
  BY TeamStays, Sizes, OffsetStep
<1>1. next_offset' % ChunkSize = 0
  BY OffsetStep
<1>2. ASSUME NEW v \in Workers \ {w}
      PROVE  Shape(v)'
  <2>1. Shape(v) /\ (Owner(v) => worker[v].base \in Nat)
    BY GeometryParts, Extent
  <2>2. /\ worker'[v] = worker[v] /\ (Owner(v)' <=> Owner(v)) /\ (Holding(v)' <=> Holding(v))
        /\ ChunkLen(v)' = ChunkLen(v)
    BY OthersStay
  <2>3. Owner(v) => worker[v].base + ChunkSize <= next_offset'
    BY <1>0, <2>1 DEF Shape
  <2>4. QED
    BY <1>0, <2>1, <2>2, <2>3 DEF Shape
<1>3. ASSUME NEW v \in Workers \ {w}
      PROVE  Apart(w, v)' /\ Apart(v, w)'
  <2>1. worker'[v] = worker[v] /\ (Owner(v)' <=> Owner(v))
    BY OthersStay
  <2>2. Apart(w, v)
    BY GeometryParts
  <2>3. CASE Takes(w)
    <3>1. worker'[w].base = next_offset
      BY <2>3 DEF Takes
    <3>2. Owner(v) => worker[v].base + ChunkSize <= next_offset
      BY Extent
    <3>3. QED
      BY <1>0, <2>1, <3>1, <3>2 DEF Apart
  <2>4. CASE ~Takes(w)
    <3>1. worker'[w].base = worker[w].base
      BY <2>4 DEF Own, Kinds, Idles, Stops, Same, Fills, Part, Whole, Lands
    <3>2. Owner(w)' => Owner(w)
      <4>1. CASE Idles(w)
        <5>0. Shape(w) /\ worker[w].written \in Nat
          BY GeometryParts, Sizes
        <5>1. worker[w].written = 0
          BY <4>1, <5>0 DEF Idles, Shape
        <5>2. worker'[w].written = 0 /\ worker'[w].pc \notin {"chunk", "write"}
          BY <4>1, <5>1 DEF Idles, Same
        <5>3. QED
          BY <5>2 DEF Owner, Active
      <4>2. CASE ~Idles(w)
        BY <2>4, <4>2 DEF Own, Kinds, Stops, Fills, Part, Whole, Lands, Owner, Active
      <4>3. QED
        BY <4>1, <4>2
    <3>3. QED
      BY <1>0, <2>1, <2>2, <3>1, <3>2 DEF Apart
  <2>5. QED
    BY <2>3, <2>4
<1>4. ASSUME NEW u \in Workers \ {w}, NEW v \in Workers \ {w, u}
      PROVE  Apart(u, v)'
  <2>1. Apart(u, v)
    BY GeometryParts
  <2>2. /\ worker'[v] = worker[v] /\ (Owner(v)' <=> Owner(v))
        /\ worker'[u] = worker[u] /\ (Owner(u)' <=> Owner(u))
    BY OthersStay
  <2>3. QED
    BY <1>0, <2>1, <2>2 DEF Apart
<1>5. \A u \in Workers : Shape(u)' /\ \A v \in Workers \ {u} : Apart(u, v)'
  BY ShapeStep, <1>2, <1>3, <1>4
<1>6. QED
  BY <1>0, <1>1, <1>5 DEF Geometry, Shape, Apart


------------------------------------------------------------------------------
(* What a step does to the output and the count                              *)

LEMMA OutFacts ==
  ASSUME Typed
  PROVE  /\ DOMAIN out = 1..transfer.source /\ transfer.source \in Nat
         /\ Len(out) = transfer.source
         /\ \A p \in DOMAIN out : p \in Nat /\ out[p] \in Nat
<1>1. out \in [1..transfer.source -> Nat] /\ transfer.source \in Nat
  BY TransferFacts DEF Typed
<1>2. QED
  BY <1>1, LengthFacts

\* The bytes that land are the next ones ahead of the worker.
LEMMA LandedAt ==
  ASSUME Typed, Geometry, NEW w \in Workers, NEW m \in Nat, Lands(w, m)
  PROVE  /\ Active(w) /\ Owner(w) /\ Holding(w) /\ m >= 1
         /\ Progress(w) + m <= Position(w) + Len(worker[w].block)
         /\ Progress(w) + m <= worker[w].base + ChunkLen(w)
         /\ Progress(w) + m <= transfer.source
         /\ out' \in [1..transfer.source -> Nat]
         /\ \A p \in DOMAIN out :
              out'[p] = IF Progress(w) < p /\ p <= Progress(w) + m THEN p ELSE out[p]
<1>0. /\ worker[w].base \in Nat /\ worker[w].done \in Nat /\ worker[w].written \in Nat
      /\ worker[w].block \in Seq(Nat) /\ Len(worker[w].block) \in Nat
      /\ ChunkLen(w) \in Int /\ Position(w) \in Nat /\ Progress(w) \in Nat
  BY Sizes
<1>1. Active(w) /\ Owner(w) /\ Holding(w) /\ m >= 1
  BY GeometryParts DEF Lands, Active, Owner, Shape
<1>2. /\ Position(w) = worker[w].base + worker[w].done
      /\ Progress(w) = Position(w) + worker[w].written
  BY DEF Position, Progress
<1>3. m <= Len(worker[w].block) - worker[w].written
  BY DEF Lands
<1>4. /\ worker[w].done + Len(worker[w].block) <= ChunkLen(w)
      /\ Position(w) + Len(worker[w].block) <= transfer.source
      /\ \A i \in 1..Len(worker[w].block) : worker[w].block[i] = Position(w) + i
  BY <1>1 DEF Holding
<1>5. Progress(w) + m <= Position(w) + Len(worker[w].block)
  BY <1>0, <1>2, <1>3
<1>6. Progress(w) + m <= transfer.source
  BY <1>0, <1>4, <1>5, OutFacts
<1>7. Progress(w) + m <= worker[w].base + ChunkLen(w)
  <2>1. worker[w].done + Len(worker[w].block) <= ChunkLen(w)
    BY <1>4
  <2>2. Progress(w) + m <= worker[w].base + worker[w].done + Len(worker[w].block)
    BY <1>2, <1>5
  <2>3. /\ Progress(w) \in Nat /\ ChunkLen(w) \in Int
        /\ worker[w].base \in Nat /\ worker[w].done \in Nat /\ Len(worker[w].block) \in Nat
    BY <1>0
  <2>4. QED
    BY <2>1, <2>2, <2>3
<1> DEFINE bytes == SubSeq(worker[w].block, worker[w].written + 1, worker[w].written + m)
<1>8. Len(bytes) = m /\ \A j \in 1..m : bytes[j] = Progress(w) + j
  <2>1. PICK a \in Nat, s \in Seq(Nat) : a = worker[w].written /\ s = worker[w].block
    BY <1>0
  <2>a. a + m <= Len(s) /\ Len(s) \in Nat
    BY <1>0, <1>3, <2>1
  <2>2. \A i \in a + 1 .. a + m : s[i] \in Nat
    BY <2>a
  <2>3. /\ Len(SubSeq(s, a + 1, a + m)) = IF a + 1 <= a + m THEN a + m - (a + 1) + 1 ELSE 0
        /\ \A j \in 1 .. a + m - (a + 1) + 1 : SubSeq(s, a + 1, a + m)[j] = s[a + 1 + j - 1]
    BY <2>2, SubSeqProperties
  <2>4. Len(SubSeq(s, a + 1, a + m)) = m
    BY <1>1, <2>3
  <2>5. ASSUME NEW j \in 1..m
        PROVE  SubSeq(s, a + 1, a + m)[j] = Progress(w) + j
    <3>1. SubSeq(s, a + 1, a + m)[j] = s[a + j]
      BY <2>3
    <3>2. s[a + j] = Position(w) + (a + j)
      <4>1. a + j \in 1..Len(s)
        BY <2>a
      <4>2. \A i \in 1..Len(s) : s[i] = Position(w) + i
        BY <1>4, <2>1
      <4>3. QED
        BY <4>1, <4>2
    <3>3. PICK p \in Nat : p = Position(w)
      BY <1>0
    <3>4. Progress(w) = p + a
      BY <1>2, <2>1, <3>3
    <3>5. QED
      BY <3>1, <3>2, <3>3, <3>4
  <2>6. QED
    BY <2>1, <2>4, <2>5
<1>9. out' = [i \in 1..transfer.source |->
                IF i - Progress(w) \in 1..m THEN bytes[i - Progress(w)] ELSE out[i]]
  BY <1>8, OutFacts DEF Lands, WrittenAt
<1> HIDE DEF bytes
<1>10. ASSUME NEW i \in 1..transfer.source
       PROVE  /\ i \in Nat /\ (i - Progress(w) \in 1..m <=> Progress(w) < i /\ i <= Progress(w) + m)
              /\ i - Progress(w) \in 1..m => bytes[i - Progress(w)] = i
  BY <1>0, <1>8, OutFacts
<1>11. \A p \in 1..transfer.source :
         out'[p] = IF Progress(w) < p /\ p <= Progress(w) + m THEN p ELSE out[p]
  BY <1>9, <1>10
<1>12. out' \in [1..transfer.source -> Nat]
  BY <1>9, <1>10, OutFacts
<1>13. QED
  BY <1>1, <1>5, <1>6, <1>7, <1>11, <1>12, OutFacts

\* No byte of the output is touched; what lies ahead afterwards lay ahead
\* before, or has just been claimed.
Calm(w) ==
  /\ out' = out /\ stats_bytes' = stats_bytes
  /\ Uncounted(w)' = Uncounted(w)
  /\ \A p \in DOMAIN out :
       /\ Ahead(w, p)' => Ahead(w, p) \/ p > next_offset
       /\ Ahead(w, p) => Ahead(w, p)' \/ worker'[w].failed

Lays(w, m) ==
  /\ Lands(w, m)
  /\ \A p \in DOMAIN out : Ahead(w, p)' <=> Ahead(w, p) /\ p > Progress(w) + m
  /\ \/ Uncounted(w)' = Uncounted(w) \cup (Progress(w) + 1 .. Progress(w) + m)
        /\ stats_bytes' = stats_bytes
     \/ /\ Uncounted(w)' = {} /\ worker[w].written + m = Len(worker[w].block)
        /\ stats_bytes' = stats_bytes + Len(worker[w].block)

LEMMA Effect ==
  ASSUME Typed, Geometry, NEW w \in Workers, Own(w)
  PROVE  Calm(w) \/ \E m \in Nat : Lays(w, m)
<1>0. /\ worker[w].base \in Nat /\ worker[w].done \in Nat /\ worker[w].written \in Nat
      /\ Len(worker[w].block) \in Nat
      /\ ChunkLen(w) \in Int /\ Position(w) \in Nat /\ Progress(w) \in Nat
      /\ next_offset \in Nat
  BY Sizes
<1>1. Shape(w)
  BY GeometryParts
<1>2. /\ ChunkLen(w)' = IF TotalBytes >= 0 THEN Least(TotalBytes - worker'[w].base, ChunkSize)
                        ELSE ChunkSize
      /\ Position(w)' = worker'[w].base + worker'[w].done
      /\ Progress(w)' = worker'[w].base + worker'[w].done + worker'[w].written
  BY TeamStays
<1>3. /\ Position(w) = worker[w].base + worker[w].done
      /\ Progress(w) = worker[w].base + worker[w].done + worker[w].written
      /\ ChunkLen(w) = IF TotalBytes >= 0 THEN Least(TotalBytes - worker[w].base, ChunkSize)
                       ELSE ChunkSize
  BY DEF Position, ChunkLen, Progress
<1>4. worker[w].pc # "write" => (worker[w].written = 0 \/ worker[w].pc = "ended")
  BY <1>0, <1>1 DEF Shape
<1>5. \A a \in Nat : a + 1 .. a = {}
  OBVIOUS
<1>6. CASE Idles(w)
  <2>1. /\ Progress(w)' = Progress(w) /\ Position(w)' = Position(w)
        /\ ~Active(w) /\ ~Active(w)'
    BY <1>2, <1>3, <1>6 DEF Idles, Same, Active
  <2>2. QED
    BY <1>6, <2>1 DEF Idles, Quiet, Calm, Uncounted, Ahead
<1>7. CASE Takes(w)
  <2>1. worker[w].written = 0 /\ worker'[w].written = 0 /\ worker'[w].base = next_offset
        /\ worker'[w].done = 0 /\ ~Active(w)
    BY <1>4, <1>7 DEF Takes, Active
  <2>2. /\ Progress(w)' = next_offset /\ Position(w)' = next_offset
        /\ Progress(w) = Position(w)
    BY <1>0, <1>2, <1>3, <2>1
  <2>3. Uncounted(w)' = {} /\ Uncounted(w) = {}
    BY <1>0, <1>5, <2>2 DEF Uncounted
  <2>4. QED
    BY <1>0, <1>7, <2>1, <2>2, <2>3, OutFacts DEF Takes, Quiet, Calm, Ahead
<1>8. ASSUME NEW n \in Nat, Fills(w, n)
      PROVE  Calm(w)
  <2>1. /\ worker[w].written = 0 /\ worker'[w].written = 0
        /\ worker'[w].base = worker[w].base /\ worker'[w].done = worker[w].done
        /\ Active(w) /\ Active(w)'
    BY <1>4, <1>8 DEF Fills, Active
  <2>2. /\ Progress(w)' = Progress(w) /\ Position(w)' = Position(w)
        /\ ChunkLen(w)' = ChunkLen(w)
    BY <1>0, <1>2, <1>3, <2>1
  <2>3. QED
    BY <1>8, <2>1, <2>2 DEF Fills, Quiet, Calm, Uncounted, Ahead
<1>9. CASE Stops(w)
  <2>1. /\ Progress(w)' = Progress(w) /\ Position(w)' = Position(w) /\ ~Active(w)'
    BY <1>2, <1>3, <1>9 DEF Stops, Same, Active
  <2>2. ASSUME ~worker'[w].failed, NEW p \in DOMAIN out
        PROVE  ~Ahead(w, p)
    <3>1. worker[w].pc = "chunk" /\ Position(w) >= transfer.source
      BY <1>9, <2>2 DEF Stops
    <3>2. Progress(w) = Position(w)
      BY <1>0, <1>3, <1>4, <3>1
    <3>3. p <= transfer.source /\ p \in Nat /\ transfer.source \in Nat
      BY OutFacts
    <3>4. QED
      BY <1>0, <3>1, <3>2, <3>3 DEF Ahead
  <2>3. QED
    BY <1>9, <2>1, <2>2 DEF Stops, Calm, Uncounted, Ahead
<1>10. ASSUME NEW m \in Nat, Part(w, m)
       PROVE  Lays(w, m)
  <2>1. /\ worker'[w].base = worker[w].base /\ worker'[w].done = worker[w].done
        /\ worker'[w].written = worker[w].written + m
        /\ Active(w) /\ Active(w)' /\ stats_bytes' = stats_bytes /\ Lands(w, m)
    BY <1>10 DEF Part, Lands, Active
  <2>2. /\ Progress(w)' = Progress(w) + m /\ Position(w)' = Position(w)
        /\ ChunkLen(w)' = ChunkLen(w)
    BY <1>0, <1>2, <1>3, <2>1
  <2>3. Uncounted(w)' = Uncounted(w) \cup (Progress(w) + 1 .. Progress(w) + m)
    <3>1. Position(w) <= Progress(w)
      BY <1>0, <1>3
    <3>2. \A a, b, c \in Nat : a <= b => a + 1 .. b + c = (a + 1 .. b) \cup (b + 1 .. b + c)
      OBVIOUS
    <3>3. QED
      BY <1>0, <2>2, <3>1, <3>2 DEF Uncounted
  <2>4. \A p \in DOMAIN out : Ahead(w, p)' <=> Ahead(w, p) /\ p > Progress(w) + m
    BY <1>0, <2>1, <2>2, OutFacts DEF Ahead
  <2>5. QED
    BY <2>1, <2>3, <2>4 DEF Lays
<1>11. ASSUME NEW m \in Nat, Whole(w, m)
       PROVE  Lays(w, m)
  <2>1. /\ worker'[w].base = worker[w].base
        /\ worker'[w].done = worker[w].done + Len(worker[w].block)
        /\ worker'[w].written = 0 /\ worker[w].written + m = Len(worker[w].block)
        /\ worker'[w].pc = IF worker'[w].done = ChunkLen(w) THEN "top" ELSE "chunk"
        /\ Active(w) /\ stats_bytes' = stats_bytes + Len(worker[w].block) /\ Lands(w, m)
    BY <1>11 DEF Whole, Lands, Active
  <2>a. \A b, d, l, n \in Nat : n + m = l => b + (d + l) + 0 = b + d + n + m
    OBVIOUS
  <2>2. Progress(w)' = Progress(w) + m /\ Position(w)' = Progress(w) + m
    <3>1. /\ Progress(w)' = worker[w].base + (worker[w].done + Len(worker[w].block)) + 0
          /\ Position(w)' = worker[w].base + (worker[w].done + Len(worker[w].block))
      BY <1>2, <2>1
    <3>2. Progress(w)' = Progress(w) + m
      <4>1. PICK b \in Nat, d \in Nat, l \in Nat, n \in Nat :
              /\ b = worker[w].base /\ d = worker[w].done
              /\ l = Len(worker[w].block) /\ n = worker[w].written
        BY <1>0
      <4>2. Progress(w) = b + d + n /\ n + m = l
        BY <1>3, <2>1, <4>1
      <4>3. Progress(w)' = b + (d + l) + 0
        BY <3>1, <4>1
      <4>4. QED
        BY <2>a, <4>2, <4>3
    <3>3. Position(w)' = Progress(w)'
      BY <1>0, <3>1
    <3>4. QED
      BY <3>2, <3>3
  <2>3. ChunkLen(w)' = ChunkLen(w)
    BY <1>2, <1>3, <2>1
  <2>4. Uncounted(w)' = {}
    <3>1. PICK a \in Nat : a = Progress(w) + m
      BY <1>0
    <3>2. QED
      BY <1>5, <2>2, <3>1 DEF Uncounted
  <2>5. Active(w)' <=> worker'[w].done # ChunkLen(w)
    BY <2>1 DEF Active
  <2>6. worker'[w].done = ChunkLen(w) => Progress(w) + m = worker[w].base + ChunkLen(w)
    <3>1. Position(w)' = worker[w].base + worker'[w].done
      BY <1>2, <2>1
    <3>2. QED
      BY <2>2, <3>1
  <2>7. \A p \in DOMAIN out : Ahead(w, p)' <=> Ahead(w, p) /\ p > Progress(w) + m
    BY <1>0, <2>1, <2>2, <2>3, <2>5, <2>6, OutFacts DEF Ahead
  <2>8. QED
    BY <2>1, <2>4, <2>7 DEF Lays
<1>12. QED
  BY <1>6, <1>7, <1>8, <1>9, <1>10, <1>11 DEF Own, Kinds


\* No position belongs to two stripes.
LEMMA NoOverlap ==
  ASSUME Typed, Geometry, NEW w \in Workers, NEW v \in Workers \ {w}, Owner(v), Owner(w),
         NEW p \in Nat, worker[v].base < p, p <= worker[v].base + ChunkLen(v),
         worker[w].base < p, p <= worker[w].base + ChunkLen(w)
  PROVE  FALSE
<1>1. /\ worker[v].base \in Nat /\ ChunkLen(v) \in Nat /\ ChunkLen(v) <= ChunkSize
      /\ worker[w].base \in Nat /\ ChunkLen(w) \in Nat /\ ChunkLen(w) <= ChunkSize
      /\ ChunkSize \in Nat
  BY Extent
<1>2. \/ worker[v].base + ChunkSize <= worker[w].base
      \/ worker[w].base + ChunkSize <= worker[v].base
  BY DEF Geometry
<1>3. QED
  BY <1>1, <1>2

LEMMA LimitsStay ==
  ASSUME Typed, Geometry, NEW w \in Workers, Own(w)
  PROVE  /\ \A p \in Nat : IsClaimed(p) => IsClaimed(p)'
         /\ \A p \in Nat : IsClaimed(p)' => IsClaimed(p) \/ (Takes(w) /\ p > next_offset)
         /\ transfer' = transfer /\ Workers' = Workers
<1>1. /\ TotalBytes' = TotalBytes /\ transfer' = transfer /\ Workers' = Workers
      /\ next_offset \in Nat /\ next_offset' \in Nat /\ next_offset' >= next_offset
      /\ TotalBytes \in Nat \cup {-1}
      /\ next_offset' # next_offset => AllClaimed \/ Takes(w)
  BY TeamStays, OffsetStep, Sizes DEF Own
<1>2. QED
  BY <1>1 DEF IsClaimed, AllClaimed

LEMMA OutStep ==
  ASSUME Typed, Geometry, NEW w \in Workers, Own(w)
  PROVE  out' \in [1..transfer.source -> Nat] /\ DOMAIN out' = DOMAIN out
<1>1. out \in [1..transfer.source -> Nat]
  BY DEF Typed
<1>2. QED
  BY <1>1, Effect, LandedAt DEF Calm, Lays

LEMMA InPlaceStep ==
  ASSUME Typed, Geometry, InPlace, NEW w \in Workers, Own(w)
  PROVE  InPlace'
<1>1. CASE Calm(w)
  BY <1>1 DEF InPlace, Calm
<1>2. ASSUME NEW m \in Nat, Lays(w, m)
      PROVE  InPlace'
  BY <1>2, LandedAt, OutStep DEF InPlace, Lays
<1>3. QED
  BY <1>1, <1>2, Effect

\* What w is about to write is fresh, and belongs to nobody else.
LEMMA AheadOfIt ==
  ASSUME Typed, Geometry, NEW w \in Workers, NEW m \in Nat, Lands(w, m),
         NEW p \in DOMAIN out, Progress(w) < p, p <= Progress(w) + m
  PROVE  /\ Ahead(w, p) /\ IsClaimed(p)
         /\ \A v \in Workers \ {w} : ~Ahead(v, p)
<1>0. p \in Nat
  BY OutFacts
<1>1. /\ Active(w) /\ Owner(w) /\ Progress(w) + m <= worker[w].base + ChunkLen(w)
  BY LandedAt
<1>2. /\ worker[w].base \in Nat /\ Progress(w) \in Nat /\ ChunkLen(w) \in Nat
      /\ worker[w].base <= Progress(w) /\ ChunkLen(w) <= ChunkSize
      /\ TotalBytes >= 0 => worker[w].base + ChunkLen(w) <= TotalBytes
      /\ worker[w].base + ChunkSize <= next_offset
      /\ ChunkSize \in Nat /\ next_offset \in Nat /\ TotalBytes \in Nat \cup {-1}
  BY <1>1, Extent
<1>3. p <= worker[w].base + ChunkLen(w) /\ worker[w].base < p
  BY <1>0, <1>1, <1>2
<1>4. Ahead(w, p)
  BY <1>1, <1>3 DEF Ahead
<1>5. IsClaimed(p)
  BY <1>0, <1>2, <1>3 DEF IsClaimed
<1>6. ASSUME NEW v \in Workers \ {w}, Ahead(v, p)
      PROVE  FALSE
  <2>1. Owner(v) /\ Progress(v) < p /\ p <= worker[v].base + ChunkLen(v)
    BY <1>6 DEF Ahead, Owner
  <2>2. worker[v].base \in Nat /\ worker[v].base <= Progress(v) /\ Progress(v) \in Nat
    <3>1. /\ worker[v].base \in Nat /\ Progress(v) \in Nat /\ Position(v) \in Nat
          /\ worker[v].base <= Position(v) /\ Position(v) <= Progress(v)
      BY <2>1, Extent
    <3>2. QED
      BY <3>1
  <2>3. worker[v].base < p
    BY <1>0, <2>1, <2>2
  <2>4. QED
    BY <1>0, <1>1, <1>3, <2>1, <2>3, NoOverlap
<1>7. QED
  BY <1>4, <1>5, <1>6

LEMMA FreshStep ==
  ASSUME Typed, Geometry, Fresh, NEW w \in Workers, Own(w)
  PROVE  Fresh'
<1>0. /\ DOMAIN out' = DOMAIN out /\ Workers' = Workers /\ next_offset \in Nat
      /\ \A p \in DOMAIN out : p \in Nat
  BY OutStep, TeamStays, OutFacts, Sizes
<1>1. CASE Calm(w)
  <2>1. ASSUME NEW p \in DOMAIN out, ~IsClaimed(p)' \/ \E v \in Workers : Ahead(v, p)'
        PROVE  ~IsClaimed(p) \/ \E v \in Workers : Ahead(v, p)
    <3>1. CASE ~IsClaimed(p)'
      BY <1>0, <3>1, LimitsStay
    <3>2. CASE Ahead(w, p)'
      BY <1>0, <1>1, <3>2 DEF Calm, IsClaimed
    <3>3. CASE \E v \in Workers \ {w} : Ahead(v, p)'
      BY <3>3, OthersStay
    <3>4. QED
      BY <2>1, <3>1, <3>2, <3>3
  <2>2. QED
    BY <1>0, <1>1, <2>1 DEF Fresh, Calm
<1>2. ASSUME NEW m \in Nat, Lays(w, m)
      PROVE  Fresh'
  <2>1. Lands(w, m) /\ Progress(w) \in Nat
    BY <1>2, Sizes DEF Lays
  <2>2. ASSUME NEW p \in DOMAIN out, ~IsClaimed(p)' \/ \E v \in Workers : Ahead(v, p)'
        PROVE  /\ ~IsClaimed(p) \/ \E v \in Workers : Ahead(v, p)
               /\ ~(Progress(w) < p /\ p <= Progress(w) + m)
    <3>1. CASE ~IsClaimed(p)'
      BY <1>0, <2>1, <3>1, LimitsStay, AheadOfIt
    <3>2. CASE Ahead(w, p)'
      <4>1. Ahead(w, p) /\ p > Progress(w) + m
        BY <1>2, <3>2 DEF Lays
      <4>2. QED
        BY <1>0, <2>1, <4>1
    <3>3. CASE \E v \in Workers \ {w} : Ahead(v, p)'
      BY <2>1, <3>3, OthersStay, AheadOfIt
    <3>4. QED
      BY <2>2, <3>1, <3>2, <3>3
  <2>3. QED
    BY <1>0, <2>1, <2>2, LandedAt DEF Fresh
<1>3. QED
  BY <1>1, <1>2, Effect

LEMMA FailedStays ==
  ASSUME Typed, Geometry, NEW w \in Workers, Own(w)
  PROVE  /\ ~worker[w].failed
         /\ Broken => Broken'
         /\ worker'[w].failed => Broken'
<1>1. ~worker[w].failed
  BY GeometryParts DEF Own, Kinds, Shape, Idles, Takes, Stops, Active, Fills, Part, Whole, Lands
<1>2. Workers' = Workers /\ \A v \in Workers \ {w} : worker'[v] = worker[v]
  BY TeamStays DEF Own
<1>3. QED
  BY <1>1, <1>2 DEF Broken

LEMMA CoverageStep ==
  ASSUME Typed, Geometry, Coverage, NEW w \in Workers, Own(w)
  PROVE  Coverage'
<1> SUFFICES ASSUME ~Broken'
             PROVE  Coverage'
  BY DEF Coverage
<1>0. /\ DOMAIN out' = DOMAIN out /\ Workers' = Workers /\ next_offset \in Nat
      /\ \A p \in DOMAIN out : p \in Nat
      /\ ~Broken /\ ~worker'[w].failed
  BY OutStep, TeamStays, OutFacts, Sizes, FailedStays
<1>1. ASSUME NEW p \in DOMAIN out, IsClaimed(p)'
      PROVE  out'[p] = p \/ \E v \in Workers : Ahead(v, p)'
  <2>1. CASE IsClaimed(p)
    <3>1. CASE out[p] = p
      BY <3>1, Effect, LandedAt DEF Calm, Lays
    <3>2. CASE \E v \in Workers \ {w} : Ahead(v, p)
      BY <3>2, OthersStay
    <3>3. CASE Ahead(w, p)
      <4>1. CASE Calm(w)
        BY <1>0, <3>3, <4>1 DEF Calm
      <4>2. ASSUME NEW m \in Nat, Lays(w, m)
            PROVE  out'[p] = p \/ Ahead(w, p)'
        <5>1. Progress(w) \in Nat /\ Progress(w) < p /\ p \in Nat
          BY <1>0, <3>3, Sizes DEF Ahead
        <5>2. CASE p <= Progress(w) + m
          BY <4>2, <5>1, <5>2, LandedAt DEF Lays
        <5>3. CASE p > Progress(w) + m
          BY <3>3, <4>2, <5>3 DEF Lays
        <5>4. QED
          BY <5>1, <5>2, <5>3
      <4>3. QED
        BY <4>1, <4>2, Effect
    <3>4. QED
      BY <1>0, <2>1, <3>1, <3>2, <3>3 DEF Coverage
  <2>2. CASE Takes(w) /\ p > next_offset
    <3>1. /\ worker'[w].base = next_offset /\ worker'[w].done = 0 /\ worker'[w].written = 0
          /\ worker'[w].pc = "chunk" /\ next_offset' = next_offset + ChunkSize
      <4>1. worker[w].written = 0
        <5>1. Shape(w) /\ worker[w].written \in Nat
          BY GeometryParts, Sizes
        <5>2. ~(worker[w].written > 0)
          BY <2>2, <5>1 DEF Takes, Shape
        <5>3. QED
          BY <5>1, <5>2
      <4>2. QED
        BY <2>2, <4>1 DEF Takes
    <3>2. /\ Progress(w)' = next_offset /\ Active(w)'
          /\ ChunkLen(w)' = IF TotalBytes >= 0 THEN Least(TotalBytes - next_offset, ChunkSize)
                            ELSE ChunkSize
          /\ TotalBytes' = TotalBytes
      BY <1>0, <3>1, TeamStays DEF Active
    <3>3. p <= next_offset + ChunkSize /\ (TotalBytes >= 0 => p <= TotalBytes)
      BY <1>1, <3>1, <3>2 DEF IsClaimed
    <3>4. p <= next_offset + ChunkLen(w)'
      BY <1>0, <3>2, <3>3, Sizes DEF Least
    <3>5. Ahead(w, p)'
      BY <2>2, <3>1, <3>2, <3>4, <1>0 DEF Ahead
    <3>6. QED
      BY <3>5
  <2>3. QED
    BY <1>0, <1>1, <2>1, <2>2, LimitsStay
<1>2. QED
  BY <1>0, <1>1 DEF Coverage

LEMMA ControlStep ==
  ASSUME Typed, Geometry, Control, NEW w \in Workers, Own(w)
  PROVE  Control'
<1>0. /\ Workers' = Workers /\ Wanted' = Wanted /\ next_offset \in Nat /\ next_offset' \in Nat
      /\ next_offset' >= next_offset /\ Wanted \in Nat /\ Wanted <= transfer.source
      /\ transfer.source \in Nat /\ cancel_flag' = cancel_flag
      /\ (Broken => Broken') /\ (worker'[w].failed => Broken')
  BY TeamStays, Sizes, OffsetStep, FailedStays DEF Own
<1>1. next_offset >= Wanted => next_offset' >= Wanted'
  BY <1>0
<1>2. AllClaimed => next_offset >= Wanted
  <2>1. /\ Sharded /\ transfer \in Transfers /\ TotalBytes \in Nat \cup {-1}
    BY Sizes DEF Typed
  <2>2. TotalBytes >= 0 => Wanted = Least(TotalBytes, transfer.source)
    BY <2>1, LimitFacts
  <2>3. QED
    BY <1>0, <2>1, <2>2 DEF AllClaimed, Least
<1>3. Stops(w) => worker'[w].failed \/ next_offset >= Wanted
  <2> SUFFICES ASSUME Stops(w), ~worker'[w].failed
               PROVE  next_offset >= Wanted
    OBVIOUS
  <2>1. worker[w].pc = "chunk" /\ Position(w) >= transfer.source /\ Owner(w)
    BY DEF Stops, Owner
  <2>2. /\ worker[w].base \in Nat /\ Progress(w) \in Nat /\ Position(w) \in Nat
        /\ Position(w) <= Progress(w) /\ Progress(w) <= worker[w].base + ChunkLen(w)
        /\ ChunkLen(w) <= ChunkSize /\ ChunkLen(w) \in Nat /\ ChunkSize \in Nat
        /\ worker[w].base + ChunkSize <= next_offset
    BY <2>1, Extent
  <2>3. Position(w) <= next_offset
    BY <1>0, <2>2
  <2>4. QED
    BY <1>0, <2>1, <2>2, <2>3
<1>4. ASSUME abort_flag'
      PROVE  Broken' \/ next_offset' >= Wanted'
  <2>1. CASE Stops(w)
    BY <1>0, <1>1, <1>3, <2>1
  <2>2. CASE ~Stops(w)
    <3>1. abort_flag
      BY <1>4, <2>2 DEF Own, Kinds, Idles, Takes, Fills, Part, Whole, Lands, Quiet
    <3>2. QED
      BY <1>0, <1>1, <3>1 DEF Control
  <2>3. QED
    BY <2>1, <2>2
<1>5. ASSUME worker'[w].pc = "ended"
      PROVE  Broken' \/ cancel_flag' \/ next_offset' >= Wanted'
  <2>1. CASE Stops(w)
    BY <1>0, <1>1, <1>3, <2>1
  <2>2. CASE Idles(w)
    <3>1. worker'[w].failed \/ abort_flag \/ cancel_flag \/ AllClaimed
      BY <1>5, <2>2 DEF Idles
    <3>2. QED
      BY <1>0, <1>1, <1>2, <3>1 DEF Control
  <2>3. CASE ~Stops(w) /\ ~Idles(w)
    BY <1>5, <2>3 DEF Own, Kinds, Takes, Fills, Part, Whole, Lands
  <2>4. QED
    BY <2>1, <2>2, <2>3
<1>6. ASSUME NEW v \in Workers \ {w}, worker'[v].pc = "ended"
      PROVE  Broken' \/ cancel_flag' \/ next_offset' >= Wanted'
  <2>1. worker[v].pc = "ended"
    BY <1>6 DEF Own
  <2>2. QED
    BY <1>0, <1>1, <2>1 DEF Control
<1>7. QED
  BY <1>0, <1>4, <1>5, <1>6 DEF Control


\* Whose bytes are not counted has them in its stripe.
LEMMA UncountedExtent ==
  ASSUME Typed, Geometry, NEW w \in Workers, NEW p \in Uncounted(w)
  PROVE  /\ Owner(w) /\ p \in Nat /\ worker[w].base < p /\ p <= worker[w].base + ChunkLen(w)
         /\ p <= Progress(w)
<1>1. Position(w) \in Nat /\ Progress(w) \in Nat /\ worker[w].written \in Nat
      /\ Progress(w) = Position(w) + worker[w].written
  BY Sizes DEF Progress
<1>2. p \in Nat /\ Position(w) < p /\ p <= Progress(w)
  BY <1>1 DEF Uncounted
<1>3. Owner(w)
  BY <1>1, <1>2 DEF Owner
<1>4. /\ worker[w].base \in Nat /\ worker[w].base <= Position(w)
      /\ Progress(w) <= worker[w].base + ChunkLen(w) /\ ChunkLen(w) \in Nat
  BY <1>3, Extent
<1>5. worker[w].base < p /\ p <= worker[w].base + ChunkLen(w)
  BY <1>1, <1>2, <1>4
<1>6. QED
  BY <1>2, <1>3, <1>5

LEMMA UncountedApart ==
  ASSUME Typed, Geometry, NEW w \in Workers, NEW v \in Workers \ {w}
  PROVE  Uncounted(v) \cap Uncounted(w) = {}
<1>1. ASSUME NEW p \in Uncounted(v), p \in Uncounted(w)
      PROVE  FALSE
  <2>1. /\ Owner(v) /\ p \in Nat /\ worker[v].base < p /\ p <= worker[v].base + ChunkLen(v)
    BY UncountedExtent
  <2>2. /\ Owner(w) /\ worker[w].base < p /\ p <= worker[w].base + ChunkLen(w)
    BY <1>1, UncountedExtent
  <2>3. QED
    BY <2>1, <2>2, NoOverlap
<1>2. QED
  BY <1>1

LEMMA FiniteBytes ==
  ASSUME NEW n \in Nat, NEW S, S \subseteq 1..n
  PROVE  IsFiniteSet(S) /\ Cardinality(S) \in Nat /\ Cardinality(S) <= n
<1>1. IsFiniteSet(1..n) /\ Cardinality(1..n) = n
  <2>1. 1 \in Int /\ n \in Int /\ (IF 1 > n THEN 0 ELSE n - 1 + 1) = n
    OBVIOUS
  <2>2. QED
    BY <2>1, FS_Interval
<1>2. QED
  BY <1>1, FS_Subset, FS_CardinalityType

LEMMA LandedFinite ==
  ASSUME Typed
  PROVE  /\ Landed \subseteq 1..transfer.source
         /\ IsFiniteSet(Landed \ Pending) /\ Cardinality(Landed \ Pending) \in Nat
         /\ Cardinality(Landed \ Pending) <= transfer.source
<1>1. transfer.source \in Nat /\ Landed \subseteq 1..transfer.source
  BY OutFacts DEF Landed
<1>2. Landed \ Pending \subseteq 1..transfer.source
  BY <1>1
<1>3. QED
  BY <1>1, <1>2, FiniteBytes

\* Landing bytes land on fresh positions.
LEMMA NewlyLanded ==
  ASSUME Typed, Geometry, Fresh, NEW w \in Workers, NEW m \in Nat, Lands(w, m)
  PROVE  /\ Landed' = Landed \cup (Progress(w) + 1 .. Progress(w) + m)
         /\ Landed \cap (Progress(w) + 1 .. Progress(w) + m) = {}
<1>0. /\ Progress(w) \in Nat /\ DOMAIN out = 1..transfer.source /\ transfer.source \in Nat
      /\ Progress(w) + m <= transfer.source
      /\ out' \in [1..transfer.source -> Nat]
      /\ \A p \in DOMAIN out :
           out'[p] = IF Progress(w) < p /\ p <= Progress(w) + m THEN p ELSE out[p]
  BY Sizes, OutFacts, LandedAt
<1> DEFINE new == Progress(w) + 1 .. Progress(w) + m
<1>1. /\ \A p \in DOMAIN out : p \in new <=> Progress(w) < p /\ p <= Progress(w) + m
      /\ new \subseteq DOMAIN out
  BY <1>0
<1>2. \A p \in new : p # 0
  BY <1>0
<1> HIDE DEF new
<1>3. Landed' = Landed \cup new
  BY <1>0, <1>1, <1>2 DEF Landed
<1>4. ASSUME NEW p \in new
      PROVE  out[p] = 0
  <2>1. p \in DOMAIN out /\ Progress(w) < p /\ p <= Progress(w) + m
    BY <1>1
  <2>2. Ahead(w, p)
    BY <2>1, AheadOfIt
  <2>3. QED
    BY <2>1, <2>2 DEF Fresh
<1>5. Landed \cap new = {}
  BY <1>4 DEF Landed
<1>6. QED
  BY <1>3, <1>5 DEF new

LEMMA CountedStep ==
  ASSUME Typed, Geometry, Fresh, Counted, NEW w \in Workers, Own(w)
  PROVE  Counted'
<1>0. /\ Workers' = Workers /\ stats_bytes \in Nat
      /\ Position(w) \in Nat /\ Progress(w) \in Nat
      /\ worker[w].written \in Nat /\ Len(worker[w].block) \in Nat
      /\ Progress(w) = Position(w) + worker[w].written
      /\ IsFiniteSet(Landed \ Pending) /\ Cardinality(Landed \ Pending) \in Nat
  BY TeamStays, Sizes, LandedFinite DEF Typed, Progress
<1>1. \A v \in Workers \ {w} : Uncounted(v)' = Uncounted(v)
  BY OthersStay
<1>2. /\ \A v \in Workers : Uncounted(v) \subseteq Landed
      /\ stats_bytes = Cardinality(Landed \ Pending)
  BY DEF Counted
<1> DEFINE Others == UNION {Uncounted(v) : v \in Workers \ {w}}
<1>3. Pending = Others \cup Uncounted(w) /\ Pending' = Others \cup Uncounted(w)'
  BY <1>0, <1>1 DEF Pending
<1>4. Uncounted(w) \cap Others = {}
  BY UncountedApart
<1>5. Others \subseteq Landed
  BY <1>2
<1>6. CASE Calm(w)
  <2>1. Landed' = Landed /\ Pending' = Pending
    BY <1>3, <1>6 DEF Calm, Landed
  <2>2. \A v \in Workers : Uncounted(v)' \subseteq Landed'
    BY <1>1, <1>2, <1>6, <2>1 DEF Calm
  <2>3. QED
    BY <1>0, <1>2, <1>6, <2>1, <2>2 DEF Calm, Counted
<1>7. ASSUME NEW m \in Nat, Lays(w, m)
      PROVE  Counted'
  <2> DEFINE new == Progress(w) + 1 .. Progress(w) + m
  <2>1. Landed' = Landed \cup new /\ Landed \cap new = {}
    BY <1>7, NewlyLanded DEF Lays
  <2>2. \A v \in Workers \ {w} : Uncounted(v)' \subseteq Landed'
    BY <1>1, <1>2, <2>1
  <2>3. CASE Uncounted(w)' = Uncounted(w) \cup new /\ stats_bytes' = stats_bytes
    <3>1. Uncounted(w)' \subseteq Landed'
      BY <1>2, <2>1, <2>3
    <3>2. (Landed \ Pending)' = Landed \ Pending
      BY <1>3, <1>5, <2>1, <2>3
    <3>3. QED
      BY <1>0, <1>2, <2>2, <2>3, <3>1, <3>2 DEF Counted
  <2>4. CASE /\ Uncounted(w)' = {} /\ worker[w].written + m = Len(worker[w].block)
             /\ stats_bytes' = stats_bytes + Len(worker[w].block)
    <3>1. PICK a \in Nat, n \in Nat, d \in Nat :
            a = Position(w) /\ n = Len(worker[w].block) /\ d = worker[w].written
      BY <1>0
    <3>2. Progress(w) = a + d /\ d + m = n
      BY <1>0, <2>4, <3>1
    <3>3. Uncounted(w) \cup new = a + 1 .. a + n
      <4>1. Uncounted(w) = a + 1 .. a + d /\ new = a + d + 1 .. a + d + m
        BY <3>1, <3>2 DEF Uncounted
      <4>2. (a + 1 .. a + d) \cup (a + d + 1 .. a + d + m) = a + 1 .. a + n
        BY <3>2
      <4>3. QED
        BY <4>1, <4>2
    <3>4. IsFiniteSet(a + 1 .. a + n) /\ Cardinality(a + 1 .. a + n) = n
      <4>1. PICK l \in Int, h \in Int : l = a + 1 /\ h = a + n
        OBVIOUS
      <4>2. (IF l > h THEN 0 ELSE h - l + 1) = n
        BY <4>1
      <4>3. IsFiniteSet(l .. h) /\ Cardinality(l .. h) = n
        BY <4>2, FS_Interval
      <4>4. QED
        BY <4>1, <4>3
    <3> DEFINE block == a + 1 .. a + n
    <3>5. (Landed \ Pending)' = (Landed \ Pending) \cup block
      BY <1>2, <1>3, <1>4, <1>5, <2>1, <2>4, <3>3
    <3>6. (Landed \ Pending) \cap block = {}
      BY <1>3, <2>1, <3>3
    <3> HIDE DEF block, Others, new
    <3>7. Cardinality((Landed \ Pending) \cup block) = Cardinality(Landed \ Pending) + n
      <4>1. PICK S : S = Landed \ Pending
        OBVIOUS
      <4>2. IsFiniteSet(S) /\ IsFiniteSet(block) /\ S \cap block = {} /\ Cardinality(block) = n
        BY <1>0, <3>4, <3>6, <4>1 DEF block
      <4>3. Cardinality(S \cup block) =
              Cardinality(S) + Cardinality(block) - Cardinality(S \cap block)
        BY <4>2, FS_Union
      <4>4. Cardinality(S \cap block) = 0
        BY <4>2, FS_EmptySet
      <4>5. Cardinality(S) \in Nat
        BY <1>0, <4>1
      <4>6. QED
        BY <4>1, <4>2, <4>3, <4>4, <4>5
    <3>8. stats_bytes' = Cardinality((Landed \ Pending)')
      BY <1>2, <2>4, <3>1, <3>5, <3>7
    <3>9. QED
      BY <1>0, <2>2, <2>4, <3>8 DEF Counted
  <2>5. QED
    BY <1>7, <2>3, <2>4 DEF Lays
<1>8. QED
  BY <1>6, <1>7, Effect

LEMMA TypedStep ==
  ASSUME Typed, Geometry, NEW w \in Workers, Own(w)
  PROVE  Typed'
<1>1. /\ UNCHANGED <<transfer, cancel_flag, single, mode, result>>
      /\ ragged' \in BOOLEAN /\ next_offset' \in Nat /\ abort_flag' \in BOOLEAN
      /\ stats_bytes' \in Nat
      /\ worker' \in [1..transfer.threads -> WorkerType]
      /\ Sharded /\ mode # "start" /\ (Sharded' <=> Sharded)
  BY Sizes, Fixed DEF Own
<1>2. out' \in [1..transfer.source -> Nat]
  BY OutStep
<1>3. QED
  BY <1>1, <1>2 DEF Typed, single


------------------------------------------------------------------------------
(* The end of several workers, and the single ring                           *)

LEMMA SeveralStep ==
  ASSUME Typed, Several, NEW w \in Workers, Own(w)
  PROVE  Typed' /\ Several'
BY TypedStep, GeometryStep, InPlaceStep, FreshStep, CountedStep, CoverageStep, ControlStep
   DEF Several

\* Nothing of it depends on the mode or the result.
LEMMA SeveralStays ==
  ASSUME Several, UNCHANGED <<transfer, shared, worker, stats_bytes, out>>,
         cancel_flag => cancel_flag'
  PROVE  Several'
<1>1. /\ UNCHANGED <<transfer, next_offset, abort_flag, worker, stats_bytes, out>>
      /\ ChunkSize' = ChunkSize /\ TotalBytes' = TotalBytes /\ Wanted' = Wanted
      /\ Workers' = Workers
  BY Fixed DEF shared, Workers
<1>2. \A w : /\ (Active(w)' <=> Active(w)) /\ (Owner(w)' <=> Owner(w))
             /\ Position(w)' = Position(w) /\ Progress(w)' = Progress(w)
             /\ ChunkLen(w)' = ChunkLen(w) /\ Uncounted(w)' = Uncounted(w)
  BY <1>1 DEF Active, Owner, Position, Progress, ChunkLen, Uncounted, Least
<1>3. \A w : /\ (Holding(w)' <=> Holding(w))
             /\ \A p : Ahead(w, p)' <=> Ahead(w, p)
  BY <1>1, <1>2 DEF Holding, Ahead
<1>4. Geometry'
  BY <1>1, <1>2, <1>3 DEF Several, Geometry
<1>5. InPlace'
  BY <1>1 DEF Several, InPlace
<1>6. \A p : IsClaimed(p)' <=> IsClaimed(p)
  BY <1>1 DEF IsClaimed
<1>7. Fresh'
  BY <1>1, <1>3, <1>6 DEF Several, Fresh
<1>8. Counted'
  <2>1. Landed' = Landed /\ Pending' = Pending
    BY <1>1, <1>2 DEF Landed, Pending
  <2>2. QED
    BY <1>1, <1>2, <2>1 DEF Several, Counted
<1>9. Broken' <=> Broken
  BY <1>1 DEF Broken
<1>10. Coverage'
  BY <1>1, <1>3, <1>6, <1>9 DEF Several, Coverage
<1>11. Control'
  BY <1>1, <1>9 DEF Several, Control
<1>12. QED
  BY <1>4, <1>5, <1>7, <1>8, <1>10, <1>11 DEF Several

\* An output that holds the input up to k and nothing beyond.
UpTo(k) == \A p \in DOMAIN out : out[p] = IF p <= k THEN p ELSE 0

LEMMA PrefixForm ==
  ASSUME Typed, NEW k \in Nat, k <= transfer.source, UpTo(k)
  PROVE  out = InputBytes(0, k) \o [i \in 1..(transfer.source - k) |-> 0]
<1>1. PICK n \in Nat : n = transfer.source
  BY OutFacts
<1>2. n - k \in Nat
  BY <1>1
<1>3. PICK m \in Nat : m = n - k
  BY <1>2
<1> DEFINE a == InputBytes(0, k)
           b == [i \in 1..m |-> 0]
<1>4. a \in Seq(Nat) /\ Len(a) = k /\ \A i \in 1..k : a[i] = i
  <2>1. 0 \in Nat /\ \A i \in 1..k : 0 + i = i
    OBVIOUS
  <2>2. QED
    BY <2>1, BytesType
<1>5. b \in Seq(Nat) /\ Len(b) = m /\ \A i \in 1..m : b[i] = 0
  <2>1. b \in [1..m -> Nat]
    OBVIOUS
  <2>2. QED
    BY <2>1, LengthFacts
<1> HIDE DEF a, b
<1>6. out \in Seq(Nat) /\ Len(out) = n
  BY <1>1, LengthFacts, OutFacts DEF Typed
<1>7. /\ a \o b \in Seq(Nat) /\ Len(a \o b) = k + m
      /\ \A i \in 1..k + m : (a \o b)[i] = IF i <= k THEN a[i] ELSE b[i - k]
  <2>1. /\ a \o b \in Seq(Nat) /\ Len(a \o b) = Len(a) + Len(b)
        /\ \A i \in 1..Len(a) + Len(b) :
             (a \o b)[i] = IF i <= Len(a) THEN a[i] ELSE b[i - Len(a)]
    BY <1>4, <1>5, ConcatProperties
  <2>2. QED
    BY <1>4, <1>5, <2>1
<1>8. k + m = n
  BY <1>3
<1>9. \A i \in 1..n : out[i] = (a \o b)[i]
  <2>1. ASSUME NEW i \in 1..n
        PROVE  out[i] = (a \o b)[i]
    <3>1. out[i] = IF i <= k THEN i ELSE 0
      BY <1>1, OutFacts DEF UpTo
    <3>2. (a \o b)[i] = IF i <= k THEN a[i] ELSE b[i - k]
      BY <1>7, <1>8
    <3>3. i <= k => a[i] = i
      BY <1>4
    <3>4. ~(i <= k) => b[i - k] = 0
      BY <1>3, <1>5
    <3>5. QED
      BY <3>1, <3>2, <3>3, <3>4
  <2>2. QED
    BY <2>1
<1>10. out = a \o b
  BY <1>6, <1>7, <1>8, <1>9, SeqEqual
<1>11. QED
  BY <1>1, <1>3, <1>10 DEF a, b

\* When all have ended and none has failed, what is claimed is there.
LEMMA AllThere ==
  ASSUME Typed, Several, mode = "sharded",
         \A w \in Workers : worker[w].pc = "ended" /\ ~worker[w].failed
  PROVE  /\ stats_bytes \in Nat /\ stats_bytes <= transfer.source
         /\ UpTo(stats_bytes)
         /\ stats_bytes = Least(next_offset, Wanted)
         /\ stats_bytes = Wanted \/ cancel_flag
<1>0. /\ Sharded /\ Workers = 1..transfer.threads /\ transfer.threads > 1
      /\ transfer.threads \in Nat /\ transfer \in Transfers
  BY Team, TransferFacts DEF Typed, Sharded
<1>1. 1 \in Workers
  BY <1>0
<1>2. ~Broken
  BY DEF Broken
<1>3. \A w \in Workers : Uncounted(w) = {}
  <2>1. ASSUME NEW w \in Workers
        PROVE  Uncounted(w) = {}
    <3>0. Shape(w) /\ worker[w].written \in Nat /\ Position(w) \in Nat
      BY GeometryParts, Sizes DEF Several
    <3>1. worker[w].written = 0
      BY <3>0 DEF Shape
    <3>2. Progress(w) = Position(w)
      BY <3>0, <3>1 DEF Progress
    <3>3. \A a \in Nat : a + 1 .. a = {}
      OBVIOUS
    <3>4. QED
      BY <3>0, <3>2, <3>3 DEF Uncounted
  <2>2. QED
    BY <2>1
<1>4. stats_bytes = Cardinality(Landed)
  <2>1. Pending = {}
    BY <1>3 DEF Pending
  <2>2. QED
    BY <2>1 DEF Several, Counted
<1>5. \A p \in DOMAIN out : out[p] = IF IsClaimed(p) THEN p ELSE 0
  BY <1>2 DEF Several, Coverage, Fresh, Ahead, Active
<1>6. /\ DOMAIN out = 1..transfer.source /\ transfer.source \in Nat
      /\ next_offset \in Nat /\ TotalBytes \in Nat \cup {-1}
      /\ Wanted \in Nat /\ Wanted <= transfer.source
      /\ TotalBytes >= 0 => Wanted = Least(TotalBytes, transfer.source)
      /\ TotalBytes < 0 => Wanted = transfer.source
  BY <1>0, OutFacts, LimitFacts DEF Typed
<1>7. PICK k \in Nat : k = Least(next_offset, Wanted)
  BY <1>6 DEF Least
<1>8. k <= transfer.source /\ \A p \in 1..transfer.source : IsClaimed(p) <=> p <= k
  BY <1>6, <1>7 DEF IsClaimed, Least
<1>9. UpTo(k)
  BY <1>5, <1>6, <1>8 DEF UpTo
<1>10. Landed = 1..k
  BY <1>6, <1>8, <1>9 DEF Landed, UpTo
<1>11. Cardinality(1..k) = k
  <2>1. 1 \in Int /\ k \in Int /\ (IF 1 > k THEN 0 ELSE k - 1 + 1) = k
    OBVIOUS
  <2>2. QED
    BY <2>1, FS_Interval
<1>12. stats_bytes = k
  BY <1>4, <1>10, <1>11
<1>13. cancel_flag \/ next_offset >= Wanted
  BY <1>1, <1>2 DEF Several, Control
<1>14. cancel_flag \/ k = Wanted
  BY <1>6, <1>7, <1>13 DEF Least
<1>15. QED
  BY <1>7, <1>8, <1>9, <1>12, <1>14

LEMMA SingleStep ==
  ASSUME Typed, Alone, ~Sharded, SingleBlock
  PROVE  Typed' /\ Alone'
<1>0. /\ transfer.blocksize \in Nat \ {0} /\ transfer.source \in Nat /\ in_offset \in Nat
      /\ transfer \in Transfers /\ SingleLimit \in Nat \cup {-1}
      /\ Wanted \in Nat /\ Wanted <= transfer.source
      /\ DOMAIN out = 1..transfer.source /\ Len(out) = transfer.source
  BY TransferFacts, LimitFacts, OutFacts DEF Typed
<1>1. SingleLeft = Wanted - in_offset
  BY <1>0, LimitFacts DEF SingleLeft
<1>2. PICK n \in 1..Least(transfer.blocksize, SingleLeft) :
        /\ out' = WrittenAt(in_offset, InputBytes(in_offset, n))
        /\ in_offset' = in_offset + n /\ stats_bytes' = stats_bytes + n
  BY DEF SingleBlock
<1>3. UNCHANGED <<transfer, next_offset, abort_flag, cancel_flag, worker, ragged, mode, result>>
  BY DEF SingleBlock, shared, ending
<1>4. n \in Nat /\ in_offset + n <= Wanted
  BY <1>0, <1>1, <1>2 DEF Least
<1>5. Len(InputBytes(in_offset, n)) = n /\ \A i \in 1..n : InputBytes(in_offset, n)[i] = in_offset + i
  BY <1>0, <1>4, BytesType
<1>6. out' = [i \in 1..transfer.source |->
                IF i - in_offset \in 1..n THEN i ELSE out[i]]
  <2>1. out' = [i \in 1..transfer.source |->
                 IF i - in_offset \in 1..n THEN InputBytes(in_offset, n)[i - in_offset] ELSE out[i]]
    BY <1>0, <1>2, <1>5 DEF WrittenAt
  <2>2. \A i \in 1..transfer.source : i - in_offset \in 1..n =>
          InputBytes(in_offset, n)[i - in_offset] = i
    BY <1>0, <1>5
  <2>3. QED
    BY <2>1, <2>2
<1>7. out' \in [1..transfer.source -> Nat]
  BY <1>0, <1>6 DEF Typed
<1>8. Typed'
  <2>1. /\ in_offset' \in Nat /\ stats_bytes' \in Nat /\ (Sharded' <=> Sharded)
    BY <1>0, <1>2, <1>3, <1>4, Fixed DEF Typed
  <2>2. QED
    BY <1>3, <1>7, <2>1 DEF Typed
<1>9. Wanted' = Wanted
  BY <1>3, Fixed
<1>10. \A p \in 1..transfer.source : out'[p] = IF p <= in_offset + n THEN p ELSE 0
  BY <1>0, <1>4, <1>6 DEF Alone
<1>11. QED
  BY <1>0, <1>2, <1>4, <1>7, <1>8, <1>9, <1>10 DEF Alone


------------------------------------------------------------------------------
(* Invariance                                                                *)

LEMMA InitInv ==
  Init => IInv
<1> SUFFICES ASSUME Init
             PROVE  IInv
  OBVIOUS
<1>1. /\ transfer \in Transfers /\ mode = "start" /\ result = "none"
      /\ next_offset = 0 /\ abort_flag = FALSE /\ cancel_flag = FALSE
      /\ worker = << >> /\ in_offset = 0 /\ stats_bytes = 0 /\ ragged = FALSE
      /\ out = [i \in 1..transfer.source |-> 0]
      /\ transfer.source \in Nat /\ ChunkSize \in Nat \ {0} /\ Wanted \in Nat
  BY TransferFacts, LimitFacts DEF Init
<1>2. Workers = {} /\ DOMAIN out = 1..transfer.source
      /\ out \in [1..transfer.source -> Nat]
      /\ \A p \in 1..transfer.source : out[p] = 0 /\ p >= 1
  BY <1>1 DEF Workers
<1>3. Typed
  BY <1>1, <1>2 DEF Typed
<1>4. Several
  <2>1. Geometry
    <3>1. \A c \in Nat \ {0} : 0 % c = 0
      OBVIOUS
    <3>2. QED
      BY <1>1, <1>2, <3>1 DEF Geometry
  <2>2. InPlace /\ Fresh
    BY <1>2 DEF InPlace, Fresh
  <2>3. Counted
    <3>1. Landed = {}
      BY <1>2 DEF Landed
    <3>2. QED
      BY <1>1, <1>2, <3>1, FS_EmptySet DEF Counted
  <2>4. Coverage
    BY <1>1, <1>2 DEF Coverage, IsClaimed
  <2>5. Control
    BY <1>1, <1>2 DEF Control
  <2>6. QED
    BY <2>1, <2>2, <2>3, <2>4, <2>5 DEF Several
<1>5. Alone
  BY <1>1, <1>2 DEF Alone
<1>6. QED
  BY <1>1, <1>3, <1>4, <1>5 DEF IInv, OkIsPrefix

LEMMA StartStep ==
  ASSUME Typed, Several, Sharded, Start
  PROVE  Typed' /\ Several'
<1>1. /\ mode = "start" /\ mode' = "sharded" /\ worker = << >>
      /\ worker' = [w \in 1..transfer.threads |-> NewWorker]
      /\ UNCHANGED <<transfer, next_offset, abort_flag, cancel_flag, in_offset,
                     stats_bytes, out, ragged, result>>
      /\ transfer.threads \in Nat /\ transfer.source \in Nat /\ transfer \in Transfers
      /\ ChunkSize \in Nat \ {0}
  BY TransferFacts, LimitFacts DEF Start, Typed, shared, single
<1>2. NewWorker \in WorkerType
  BY DEF NewWorker, WorkerType
<1>3. worker' \in [1..transfer.threads -> WorkerType]
  BY <1>1, <1>2
<1>4. Workers' = 1..transfer.threads /\ Workers = {}
  <2>1. Len(worker') = transfer.threads
    BY <1>1, <1>3, LengthFacts
  <2>2. QED
    BY <1>1, <2>1 DEF Workers
<1>5. /\ ChunkSize' = ChunkSize /\ TotalBytes' = TotalBytes /\ Wanted' = Wanted
      /\ (Sharded' <=> Sharded)
  BY <1>1, Fixed
<1>6. \A w \in Workers' :
        /\ worker'[w].pc = "init" /\ worker'[w].base = 0 /\ worker'[w].done = 0
        /\ worker'[w].written = 0 /\ worker'[w].failed = FALSE
  BY <1>1, <1>4 DEF NewWorker
<1>7. \A w \in Workers' : Position(w)' = 0 /\ Progress(w)' = 0
  BY <1>6 DEF Position, Progress
<1>8. \A w \in Workers' : Uncounted(w)' = {}
  <2>1. 0 + 1 .. 0 = {}
    OBVIOUS
  <2>2. QED
    BY <1>7, <2>1 DEF Uncounted
<1>9. \A w \in Workers' : ~Active(w)' /\ ~Owner(w)' /\ \A p : ~Ahead(w, p)'
  BY <1>6 DEF Active, Owner, Ahead
<1>10. Typed'
  BY <1>1, <1>3, <1>5 DEF Typed
<1>11. Geometry'
  <2>1. \A c \in Nat \ {0} : 0 % c = 0 /\ 0 <= c
    OBVIOUS
  <2>2. 0 % ChunkSize' = 0 /\ 0 <= ChunkSize' /\ ~(0 > 0)
    BY <1>1, <1>5, <2>1
  <2>3. \A w \in Workers' : Shape(w)' /\ \A v \in Workers' \ {w} : Apart(w, v)'
    BY <1>6, <1>9, <2>2 DEF Shape, Apart
  <2>4. next_offset' % ChunkSize' = 0
    BY <1>1, <1>5 DEF Several, Geometry
  <2>5. QED
    BY <2>3, <2>4 DEF Geometry, Shape, Apart
<1>12. InPlace'
  BY <1>1 DEF Several, InPlace
<1>13. \A p : IsClaimed(p)' <=> IsClaimed(p)
  BY <1>1, <1>5 DEF IsClaimed
<1>14. Fresh'
  BY <1>1, <1>4, <1>9, <1>13 DEF Several, Fresh
<1>15. Counted'
  <2>1. Landed' = Landed /\ Pending = {} /\ Pending' = {}
    BY <1>1, <1>4, <1>8 DEF Landed, Pending
  <2>2. QED
    BY <1>1, <1>8, <2>1 DEF Several, Counted
<1>16. Coverage'
  BY <1>1, <1>4, <1>13 DEF Several, Coverage, Broken
<1>17. Control'
  BY <1>1, <1>4, <1>5, <1>6 DEF Several, Control, Broken
<1>18. QED
  BY <1>10, <1>11, <1>12, <1>14, <1>15, <1>16, <1>17 DEF Several

\* The steps that end the transfer, with or without workers: what is there
\* when they return Ok.
LEMMA EndsOk ==
  ASSUME IInv, SingleEnds \/ SingleFails \/ Joined, result' = "ok"
  PROVE  /\ stats_bytes = Wanted \/ (Sharded /\ cancel_flag)
         /\ stats_bytes \in Nat /\ stats_bytes <= transfer.source
         /\ UpTo(stats_bytes)
<1>1. Typed /\ transfer \in Transfers
  BY DEF IInv, Typed
<1>3. CASE SingleEnds \/ SingleFails
  <2>1. mode = "single" /\ SingleLeft = 0 /\ ~Sharded /\ Alone
    BY <1>1, <1>3 DEF SingleEnds, SingleFails, Finish, IInv, Typed
  <2>2. /\ transfer.source \in Nat /\ in_offset \in Nat /\ SingleLimit \in Nat \cup {-1}
        /\ Wanted \in Nat /\ Wanted <= transfer.source
    BY <1>1, TransferFacts, LimitFacts DEF Typed
  <2>3. SingleLeft = Wanted - in_offset
    BY <1>1, <2>1, LimitFacts DEF SingleLeft
  <2>4. in_offset = Wanted /\ stats_bytes = Wanted
    BY <2>1, <2>2, <2>3 DEF Alone
  <2>5. UpTo(stats_bytes)
    BY <2>1, <2>4 DEF UpTo, Alone
  <2>6. QED
    BY <2>2, <2>4, <2>5
<1>4. CASE Joined
  <2>1. /\ mode = "sharded" /\ Sharded /\ Several
        /\ \A w \in Workers : worker[w].pc = "ended" /\ ~worker[w].failed
    BY <1>1, <1>4 DEF Joined, Finish, IInv, Typed
  <2>2. /\ stats_bytes \in Nat /\ stats_bytes <= transfer.source
        /\ UpTo(stats_bytes)
        /\ stats_bytes = Wanted \/ cancel_flag
    BY <1>1, <2>1, AllThere
  <2>3. QED
    BY <2>1, <2>2
<1>5. QED
  BY <1>3, <1>4

LEMMA EndStep ==
  ASSUME IInv, SingleEnds \/ SingleFails \/ Joined
  PROVE  OkIsPrefix'
<1>1. /\ UNCHANGED <<transfer, cancel_flag, worker, in_offset, stats_bytes, out>>
      /\ Typed /\ transfer \in Transfers
  BY DEF SingleEnds, SingleFails, Joined, single, IInv, Typed
<1>2. Wanted' = Wanted /\ (Sharded' <=> Sharded)
  BY <1>1, Fixed
<1> SUFFICES ASSUME result' = "ok"
             PROVE  /\ stats_bytes = Wanted \/ (Sharded /\ cancel_flag)
                    /\ out = Copied \o [i \in 1..(transfer.source - stats_bytes) |-> 0]
  BY <1>1, <1>2 DEF OkIsPrefix, Copied, InputBytes
<1>3. QED
  BY <1>1, EndsOk, PrefixForm DEF Copied

LEMMA StepInv ==
  IInv /\ [Next]_vars => IInv'
<1> SUFFICES ASSUME IInv, [Next]_vars
             PROVE  IInv'
  OBVIOUS
<1>0. /\ Typed /\ OkIsPrefix /\ (Sharded => Several) /\ (~Sharded => Alone)
  BY DEF IInv
<1>1. ASSUME NEW w \in Workers, Step(w)
      PROVE  IInv'
  <2>1. Own(w) /\ Sharded
    BY <1>0, <1>1, OwnPart, Sizes
  <2>2. Typed' /\ Several'
    BY SMTT(30), <1>0, <2>1, SeveralStep
  <2>3. (Sharded' <=> Sharded) /\ result' = result /\ mode = "sharded"
    BY <1>1, <2>1, Fixed DEF Own, Step, Worker, WorkerStarts, WorkerGoesOn, WorkerLeaves,
       WorkerClaims, WorkerCancelled, WorkerReads, WorkerMeetsEnd, WorkerWrites, WorkerFails, At
  <2>4. OkIsPrefix'
    BY <1>0, <2>3 DEF OkIsPrefix, Typed
  <2>5. QED
    BY <2>1, <2>2, <2>3, <2>4 DEF IInv
<1>2. CASE Start
  <2>1. /\ UNCHANGED <<transfer, shared, cancel_flag, single, stats_bytes, out, ragged, result>>
        /\ mode = "start" /\ result' = "none" /\ (Sharded' <=> Sharded) /\ Wanted' = Wanted
    BY <1>0, <1>2, Fixed DEF Start, Typed
  <2>2. OkIsPrefix'
    BY <2>1 DEF OkIsPrefix
  <2>3. CASE Sharded
    BY <1>0, <1>2, <2>1, <2>2, <2>3, StartStep DEF IInv
  <2>4. CASE ~Sharded
    <3>1. worker' = << >> /\ mode' = "single"
      BY <1>2, <2>4 DEF Start
    <3>2. Typed' /\ Alone'
      BY <1>0, <2>1, <2>4, <3>1 DEF Typed, Alone, shared, single
    <3>3. QED
      BY <2>1, <2>2, <2>4, <3>2 DEF IInv
  <2>5. QED
    BY <2>3, <2>4
<1>3. CASE SingleBlock
  <2>1. ~Sharded /\ mode = "single" /\ transfer' = transfer /\ result' = result
    BY <1>0, <1>3 DEF SingleBlock, Typed, ending
  <2>2. Typed' /\ Alone' /\ ~Sharded'
    BY <1>0, <1>3, <2>1, SingleStep, Fixed
  <2>3. OkIsPrefix'
    BY <1>0, <2>1 DEF OkIsPrefix, Typed
  <2>4. QED
    BY <2>2, <2>3 DEF IInv
<1>4. CASE \/ SingleEnds \/ SingleFails \/ Joined \/ Cancel \/ UNCHANGED vars
  <2>1. /\ UNCHANGED <<transfer, shared, worker, single, stats_bytes, out, ragged>>
        /\ cancel_flag => cancel_flag'
    BY <1>4 DEF SingleEnds, SingleFails, Joined, Cancel, vars
  <2>2. (Sharded' <=> Sharded) /\ Wanted' = Wanted
    BY <2>1, Fixed
  <2>3. Sharded' => Several'
    BY <1>0, <2>1, <2>2, SeveralStays
  <2>4. ~Sharded' => Alone'
    BY <1>0, <2>1, <2>2 DEF Alone, single
  <2>5. CASE SingleEnds \/ SingleFails \/ Joined
    <3>1. /\ mode \in {"single", "sharded"} /\ mode' = "done" /\ result' \in {"ok", "err"}
          /\ cancel_flag' = cancel_flag
      BY <2>5 DEF SingleEnds, SingleFails, Joined, Finish
    <3>2. Typed'
      BY <1>0, <2>1, <2>2, <3>1 DEF Typed, shared, single
    <3>3. OkIsPrefix'
      BY <2>5, EndStep
    <3>4. QED
      BY <2>3, <2>4, <3>2, <3>3 DEF IInv
  <2>6. CASE Cancel
    <3>1. mode' = mode /\ result' = result /\ cancel_flag' = TRUE /\ mode # "done"
      BY <2>6 DEF Cancel, ending
    <3>2. Typed'
      BY <1>0, <2>1, <2>2, <3>1 DEF Typed, shared, single
    <3>3. OkIsPrefix'
      BY <1>0, <3>1 DEF OkIsPrefix, Typed
    <3>4. QED
      BY <2>3, <2>4, <3>2, <3>3 DEF IInv
  <2>7. CASE UNCHANGED vars
    <3>1. mode' = mode /\ result' = result /\ cancel_flag' = cancel_flag
      BY <2>7 DEF vars, ending
    <3>2. Typed'
      BY <1>0, <2>1, <2>2, <3>1 DEF Typed, shared, single
    <3>3. OkIsPrefix'
      BY <1>0, <2>1, <2>2, <3>1 DEF OkIsPrefix, Copied, InputBytes
    <3>4. QED
      BY <2>3, <2>4, <3>2, <3>3 DEF IInv
  <2>8. QED
    BY <1>4, <2>5, <2>6, <2>7
<1>5. QED
  BY <1>1, <1>2, <1>3, <1>4 DEF Next, Caller, Step

LEMMA Invariance ==
  Spec => []IInv
BY InitInv, StepInv, PTL DEF Spec

\* Workers keep to stripes of their own that begin where a stripe begins, and
\* the count never exceeds the input (fetch_add of uring.rs's next_offset).
THEOREM Typing ==
  Spec => []TypeOK
<1>1. IInv => TypeOK
  <2> SUFFICES ASSUME IInv
               PROVE  TypeOK
    OBVIOUS
  <2>1. Typed /\ transfer \in Transfers
    BY DEF IInv, Typed
  <2>2. stats_bytes \in 0..transfer.source
    <3>1. CASE Sharded
      <4>1. stats_bytes = Cardinality(Landed \ Pending)
        BY <3>1 DEF IInv, Several, Counted
      <4>2. QED
        BY <2>1, <4>1, LandedFinite, OutFacts DEF Typed
    <3>2. CASE ~Sharded
      BY <2>1, <3>2, LimitFacts, TransferFacts DEF IInv, Alone, Typed
    <3>3. QED
      BY <3>1, <3>2
  <2>3. ASSUME NEW w \in Workers
        PROVE  /\ worker[w].pc \in {"init", "top", "claim", "chunk", "write", "ended"}
               /\ worker[w].base % ChunkSize = 0 /\ worker[w].done <= ChunkSize
               /\ \A v \in Workers \ {w} :
                    worker[w].pc \in {"chunk", "write"} /\ worker[v].pc \in {"chunk", "write"}
                      => worker[w].base # worker[v].base
    <3>1. Sharded /\ Geometry /\ worker[w] \in WorkerType /\ ChunkSize \in Nat \ {0}
      BY <2>1, Sizes DEF IInv, Several
    <3>2. worker[w].base % ChunkSize = 0 /\ worker[w].done <= ChunkSize
      BY <3>1 DEF Geometry
    <3>3. ASSUME NEW v \in Workers \ {w}, Active(w), Active(v)
          PROVE  worker[w].base # worker[v].base
      <4>1. worker[v].base \in Nat /\ worker[w].base \in Nat
        BY <2>1, Sizes
      <4>2. \/ worker[v].base + ChunkSize <= worker[w].base
            \/ worker[w].base + ChunkSize <= worker[v].base
        BY <3>1, <3>3 DEF Geometry, Owner
      <4>3. QED
        BY <3>1, <4>1, <4>2
    <3>4. QED
      BY <3>1, <3>2, <3>3 DEF WorkerType, Active
  <2>4. QED
    BY <2>1, <2>2, <2>3 DEF TypeOK, Typed
<1>2. QED
  BY <1>1, Invariance, PTL

\* Ok is only returned with a gapless output, complete unless cancelled,
\* although the workers copy their stripes in any order.
THEOREM OkMeansPrefix ==
  Spec => []OkIsPrefix
BY Invariance, PTL DEF IInv


------------------------------------------------------------------------------
(* Refinement                                                                *)

Limit == IF Sharded THEN ExplicitLimit ELSE SingleLimit

Request == [source |-> transfer.source, limit |-> Limit]

\* The pairs that ScatteredCopy knows about.
Pairs == {<<p, out[p]>> : p \in {i \in DOMAIN out : out[i] # 0}}

LEMMA RequestFacts ==
  ASSUME transfer \in Transfers
  PROVE  /\ Request \in Copy!Requests
         /\ Copy!Wanted(Request) = 1..Wanted
<1>1. /\ transfer.source \in Nat /\ Limit \in Nat \cup {-1}
      /\ Wanted = IF Limit >= 0 THEN Least(Limit, transfer.source) ELSE transfer.source
  BY TransferFacts, LimitFacts DEF Limit, Wanted
<1> HIDE DEF Limit
<1>2. QED
  BY <1>1 DEF Request, Copy!Requests, Copy!Wanted, Least

\* Consecutive bytes that land where nothing was written, within what is to be
\* copied, are a write of the abstract copy.
LEMMA LandsAbstractly ==
  ASSUME Typed, mode # "done", mode' = mode, transfer' = transfer,
         NEW a \in Nat, NEW n \in Nat \ {0}, a + n <= Wanted,
         out' \in [1..transfer.source -> Nat],
         \A p \in DOMAIN out : a < p /\ p <= a + n => out[p] = 0,
         \A p \in DOMAIN out : out'[p] = IF a < p /\ p <= a + n THEN p ELSE out[p]
  PROVE  Copy!Land
<1> DEFINE first == a + 1
           last  == a + n
           Set   == {i \in DOMAIN out : out[i] # 0}
<1>1. /\ transfer \in Transfers /\ transfer.source \in Nat
      /\ Wanted \in Nat /\ Wanted <= transfer.source
      /\ DOMAIN out = 1..transfer.source /\ DOMAIN out' = 1..transfer.source
  BY TransferFacts, LimitFacts, OutFacts DEF Typed
<1>2. first \in 1..Wanted /\ last \in 1..Wanted /\ first <= last
  BY <1>1
<1>3. \A p \in 1..transfer.source : p \in first..last <=> a < p /\ p <= a + n
  OBVIOUS
<1>4. Set' = Set \cup first..last
  <2>1. first..last \subseteq 1..transfer.source
    BY <1>1, <1>2
  <2>2. \A p \in 1..transfer.source : out'[p] # 0 <=> p \in Set \/ p \in first..last
    BY <1>1, <1>3
  <2>3. QED
    BY <1>1, <2>1, <2>2
<1>5. Pairs' = Pairs \cup Copy!InPlace(first..last)
  <2>1. \A p \in first..last : out'[p] = p
    BY <1>1, <1>2, <1>3
  <2>2. \A p \in Set : out'[p] = out[p]
    BY <1>1, <1>3
  <2>3. Pairs = {<<p, out[p]>> : p \in Set} /\ Pairs' = {<<p, out'[p]>> : p \in Set'}
    BY DEF Pairs
  <2> HIDE DEF Set, first, last
  <2>4. QED
    BY <1>4, <2>1, <2>2, <2>3 DEF Copy!InPlace
<1>6. \A pair \in Pairs : pair[1] \notin first..last
  BY <1>1, <1>3 DEF Pairs
<1>7. CopyStatus = "running" /\ CopyStatus' = "running"
  BY DEF CopyStatus
<1>8. Request' = Request /\ first \in Copy!Wanted(Request) /\ last \in Copy!Wanted(Request)
  BY <1>1, <1>2, RequestFacts, Fixed DEF Request, Limit, ExplicitLimit
<1> HIDE DEF first, last, Set
<1>9. QED
  BY <1>2, <1>5, <1>6, <1>7, <1>8 DEF Copy!Land, Pairs, Request, Limit

(***************************************************************************)
(* One ring, or several workers that share nothing but an offset           *)
(* (uring.rs:196-388), implement the copy in no particular order: every    *)
(* write lands where nothing was written, none beyond the limit, none      *)
(* after the transfer has returned, and Ok, unless the user has cancelled, *)
(* is only returned when no hole is left.                                  *)
(***************************************************************************)
THEOREM Refinement ==
  Spec => ImplementsScatteredCopy
<1>1. Init => Copy!Init
  <2> SUFFICES ASSUME Init PROVE Copy!Init
    OBVIOUS
  <2>1. /\ transfer \in Transfers /\ transfer.source \in Nat /\ mode = "start"
        /\ out = [i \in 1..transfer.source |-> 0]
    BY TransferFacts DEF Init
  <2>2. Request \in Copy!Requests
    BY <2>1, RequestFacts
  <2>3. CopyStatus = "running" /\ Pairs = {}
    BY <2>1 DEF CopyStatus, Pairs
  <2>4. QED
    BY <2>2, <2>3 DEF Copy!Init, Request, Limit, Pairs
<1>2. IInv /\ IInv' /\ [Next]_vars => [Copy!Next]_(Copy!vars)
  <2> SUFFICES ASSUME IInv, IInv', [Next]_vars PROVE [Copy!Next]_(Copy!vars)
    OBVIOUS
  <2>0. Typed /\ transfer \in Transfers /\ (Sharded => Several) /\ (~Sharded => Alone)
    BY DEF IInv, Typed
  <2>1. ASSUME UNCHANGED <<transfer, out>>, CopyStatus' = CopyStatus
        PROVE  UNCHANGED Copy!vars
    BY <2>1, Fixed DEF Copy!vars, ExplicitLimit
  <2>2. ASSUME NEW w \in Workers, Step(w)
        PROVE  [Copy!Next]_(Copy!vars)
    <3>1. /\ Own(w) /\ Sharded /\ Several /\ transfer' = transfer /\ mode' = mode
          /\ mode = "sharded"
      <4>1. Own(w) /\ Sharded
        BY SMTT(30), <2>0, <2>2, OwnPart, Sizes
      <4>2. mode = "sharded"
        BY <2>2 DEF Step, Worker, WorkerStarts, WorkerGoesOn, WorkerLeaves, WorkerClaims,
           WorkerCancelled, WorkerReads, WorkerMeetsEnd, WorkerWrites, WorkerFails, At
      <4>3. QED
        BY <2>0, <4>1, <4>2 DEF Own
    <3>2. CASE Calm(w)
      <4>1. out' = out /\ CopyStatus' = CopyStatus
        BY <3>1, <3>2 DEF Calm, CopyStatus
      <4>2. QED
        BY <2>1, <3>1, <4>1
    <3>3. ASSUME NEW m \in Nat, Lays(w, m)
          PROVE  Copy!Land
      <4>1. /\ Lands(w, m) /\ Geometry /\ Fresh
        BY <3>1, <3>3 DEF Lays, Several
      <4>2. /\ Active(w) /\ Owner(w) /\ m >= 1
            /\ Progress(w) + m <= worker[w].base + ChunkLen(w)
            /\ Progress(w) + m <= transfer.source
            /\ out' \in [1..transfer.source -> Nat]
            /\ \A p \in DOMAIN out :
                 out'[p] = IF Progress(w) < p /\ p <= Progress(w) + m THEN p ELSE out[p]
        BY <2>0, <4>1, LandedAt
      <4>3. /\ Progress(w) \in Nat /\ worker[w].base \in Nat /\ ChunkLen(w) \in Nat
            /\ transfer.source \in Nat /\ Wanted \in Nat
            /\ TotalBytes >= 0 => worker[w].base + ChunkLen(w) <= TotalBytes
            /\ TotalBytes \in Nat \cup {-1}
        BY <2>0, <4>1, <4>2, Extent, Sizes
      <4>4. Progress(w) + m <= Wanted
        BY <2>0, <3>1, <4>2, <4>3, LimitFacts DEF Least
      <4>5. \A p \in DOMAIN out : Progress(w) < p /\ p <= Progress(w) + m => out[p] = 0
        <5>1. ASSUME NEW p \in DOMAIN out, Progress(w) < p, p <= Progress(w) + m
              PROVE  Ahead(w, p)
          <6>1. p \in Nat
            BY <2>0, OutFacts
          <6>2. p <= worker[w].base + ChunkLen(w)
            BY <4>2, <4>3, <5>1, <6>1
          <6>3. QED
            BY <4>2, <5>1, <6>2 DEF Ahead
        <5>2. QED
          BY <4>1, <5>1 DEF Fresh
      <4>6. QED
        BY <2>0, <3>1, <4>2, <4>3, <4>4, <4>5, LandsAbstractly
    <3>4. QED
      BY <2>0, <3>1, <3>2, <3>3, Effect DEF Copy!Next, Several
  <2>3. CASE SingleBlock
    <3>1. /\ ~Sharded /\ mode = "single" /\ mode' = mode /\ transfer' = transfer /\ Alone
          /\ Alone' /\ Typed'
      BY <2>0, <2>3, SingleStep DEF SingleBlock, Typed, ending
    <3>2. PICK n \in 1..Least(transfer.blocksize, SingleLeft) : in_offset' = in_offset + n
      BY <2>3 DEF SingleBlock
    <3>3. /\ transfer.blocksize \in Nat \ {0} /\ transfer.source \in Nat /\ in_offset \in Nat
          /\ Wanted \in Nat /\ Wanted <= transfer.source /\ Wanted' = Wanted
          /\ SingleLimit \in Nat \cup {-1}
          /\ DOMAIN out = 1..transfer.source
      BY <2>0, <3>1, TransferFacts, LimitFacts, OutFacts, Fixed DEF Typed
    <3>4. n \in Nat \ {0}
      <4>1. SingleLeft \in Int
        BY <2>0, <3>1, <3>3, LimitFacts DEF SingleLeft, Least
      <4>2. QED
        BY <3>2, <3>3, <4>1 DEF Least
    <3>5. in_offset + n <= Wanted
      BY <3>1, <3>2, <3>3 DEF Alone
    <3>6. out' \in [1..transfer.source -> Nat]
      BY <3>1 DEF Typed
    <3>7. \A p \in DOMAIN out :
            /\ in_offset < p /\ p <= in_offset + n => out[p] = 0
            /\ out'[p] = IF in_offset < p /\ p <= in_offset + n THEN p ELSE out[p]
      BY <3>1, <3>2, <3>3, <3>4, <3>6 DEF Alone
    <3>8. Copy!Land
      BY <2>0, <3>1, <3>3, <3>4, <3>5, <3>6, <3>7, LandsAbstractly
    <3>9. QED
      BY <3>8 DEF Copy!Next
  <2>4. CASE Start \/ Cancel \/ UNCHANGED vars
    <3>1. UNCHANGED <<transfer, out>> /\ CopyStatus' = CopyStatus
      <4>1. CASE Start \/ Cancel
        BY <4>1 DEF Start, Cancel, CopyStatus, ending
      <4>2. CASE UNCHANGED vars
        BY <4>2, Fixed DEF vars, ending, CopyStatus
      <4>3. QED
        BY <2>4, <4>1, <4>2
    <3>2. QED
      BY <2>1, <3>1
  <2>5. CASE SingleEnds \/ SingleFails \/ Joined
    <3>1. /\ UNCHANGED <<transfer, out, cancel_flag>>
          /\ mode # "done" /\ mode' = "done" /\ (Sharded' <=> Sharded)
      BY <2>5, Fixed DEF SingleEnds, SingleFails, Joined, Finish
    <3>2. CopyStatus = "running" /\ CopyStatus' \in {"ok", "abandoned"}
          /\ Request' = Request /\ Pairs' = Pairs
      BY <3>1, Fixed DEF CopyStatus, Request, Limit, ExplicitLimit, Pairs
    <3>3. CASE CopyStatus' = "abandoned"
      BY <3>2, <3>3 DEF Copy!Next, Copy!Abandon, Request, Limit, Pairs
    <3>4. CASE CopyStatus' = "ok"
      <4>1. result' = "ok" /\ ~(Sharded /\ cancel_flag)
        BY <3>1, <3>4 DEF CopyStatus
      <4>2. UpTo(Wanted) /\ Wanted \in Nat /\ Wanted <= transfer.source
            /\ DOMAIN out = 1..transfer.source /\ transfer.source \in Nat
        BY <2>0, <2>5, <4>1, EndsOk, OutFacts
      <4>3. {i \in DOMAIN out : out[i] # 0} = 1..Wanted
        BY <4>2 DEF UpTo
      <4>4. \A p \in 1..Wanted : out[p] = p
        BY <4>2 DEF UpTo
      <4>5. Pairs = Copy!InPlace(Copy!Wanted(Request))
        BY <2>0, <4>3, <4>4, RequestFacts DEF Pairs, Copy!InPlace
      <4>6. Copy!Succeed
        BY <3>2, <3>4, <4>5 DEF Copy!Succeed, Request, Limit, Pairs
      <4>7. QED
        BY <4>6 DEF Copy!Next
    <3>5. QED
      BY <3>2, <3>3, <3>4
  <2>6. QED
    BY <2>2, <2>3, <2>4, <2>5 DEF Next, Caller, Step
<1>3. QED
  BY <1>1, <1>2, Invariance, PTL DEF Spec, ImplementsScatteredCopy, Copy!Spec


------------------------------------------------------------------------------
(* FlattenSeq                                                                *)

\* What FlattenSeq has put together after each of the sequences.
Joins(f, seqs) ==
  /\ f[0] = << >>
  /\ \A i \in 1..Len(seqs) : f[i] = f[i - 1] \o seqs[i]

LEMMA FlattenJoins ==
  ASSUME NEW seqs, IsList(seqs), \A i \in 1..Len(seqs) : IsList(seqs[i])
  PROVE  \E f : Joins(f, seqs) /\ FlattenSeq(seqs) = f[Len(seqs)]
<1> DEFINE n == Len(seqs)
           IsFlatten(g) == g = [i \in 1..n |-> IF i = 1 THEN seqs[i] ELSE g[i - 1] \o seqs[i]]
<1>0. n \in Nat
  BY ListFacts
<1>1. CASE n = 0
  <2>1. seqs = << >>
    BY <1>1, EmptyList
  <2>2. FlattenSeq(seqs) = seqs
    BY <1>1 DEF FlattenSeq
  <2> DEFINE f == [i \in 0..0 |-> << >>]
  <2>3. f[0] = << >>
    OBVIOUS
  <2> HIDE DEF f
  <2>4. Joins(f, seqs)
    BY <1>1, <2>3 DEF Joins
  <2>5. QED
    BY <1>1, <2>1, <2>2, <2>3, <2>4
<1>2. CASE n > 0
  <2>1. FlattenSeq(seqs) = (CHOOSE g : IsFlatten(g))[n]
    <3>1. Len(seqs) # 0
      BY <1>0, <1>2
    <3>2. QED
      BY <3>1, Zenon DEF FlattenSeq
  <2>2. \E g : IsFlatten(g)
    <3> DEFINE how == [kind |-> "join", seqs |-> seqs]
    <3>1. PICK f : RecursionUpTo(f, n, << >>, how)
      BY <1>0, UpToExists
    <3>2. \A i \in 0..n : f[i] = IF i = 0 THEN << >> ELSE f[i - 1] \o seqs[i]
      BY <3>1 DEF RecursionUpTo, After
    <3> DEFINE g == [i \in 1..n |-> f[i]]
    <3>3. \A i \in 1..n : g[i] = IF i = 1 THEN seqs[i] ELSE g[i - 1] \o seqs[i]
      <4>1. ASSUME NEW i \in 1..n
            PROVE  g[i] = IF i = 1 THEN seqs[i] ELSE g[i - 1] \o seqs[i]
        <5>1. i # 0 /\ g[i] = f[i - 1] \o seqs[i]
          <6>1. i \in 0..n /\ i # 0
            BY <1>0
          <6>2. f[i] = f[i - 1] \o seqs[i]
            BY <3>2, <6>1
          <6>3. g[i] = f[i]
            OBVIOUS
          <6>4. QED
            BY <6>1, <6>2, <6>3
        <5>2. CASE i = 1
          <6>1. f[0] = << >>
            BY <1>0, <3>2
          <6>2. << >> \o seqs[1] = seqs[1]
            BY <5>2, EmptyList
          <6>3. i - 1 = 0
            BY <5>2
          <6>4. g[i] = seqs[i]
            BY <5>1, <5>2, <6>1, <6>2, <6>3
          <6>5. QED
            BY <5>2, <6>4
        <5>3. CASE i # 1
          <6>1. i - 1 \in 1..n
            BY <1>0, <5>3
          <6>2. QED
            BY <5>1, <5>3, <6>1
        <5>4. QED
          BY <5>2, <5>3
      <4>2. QED
        BY <4>1
    <3>4. IsFlatten(g)
      <4> DEFINE h == [i \in 1..n |-> IF i = 1 THEN seqs[i] ELSE g[i - 1] \o seqs[i]]
      <4>1. \A i \in 1..n : g[i] = h[i]
        BY <3>3
      <4>2. g = [i \in 1..n |-> g[i]] /\ h = [i \in 1..n |-> h[i]]
        OBVIOUS
      <4> HIDE DEF g, h
      <4>3. g = h
        BY <4>1, <4>2
      <4>4. QED
        BY ZenonT(40), <4>3 DEF h
    <3>5. QED
      BY <3>4
  <2>3. PICK g : IsFlatten(g) /\ FlattenSeq(seqs) = g[n]
    <3>1. IsFlatten(CHOOSE g : IsFlatten(g))
      BY <2>2
    <3>2. QED
      BY <2>1, <3>1
  <2>4. \A i \in 1..n : g[i] = IF i = 1 THEN seqs[i] ELSE g[i - 1] \o seqs[i]
    BY <2>3
  <2> DEFINE f == [i \in 0..n |-> IF i = 0 THEN << >> ELSE g[i]]
  <2>5. f[0] = << >> /\ \A i \in 1..n : f[i] = g[i]
    BY <1>0
  <2> HIDE DEF f, IsFlatten
  <2>6. \A i \in 1..n : f[i] = f[i - 1] \o seqs[i]
    <3>1. ASSUME NEW i \in 1..n
          PROVE  f[i] = f[i - 1] \o seqs[i]
      <4>1. CASE i = 1
        <5>1. << >> \o seqs[1] = seqs[1]
          BY <4>1, EmptyList
        <5>2. f[i - 1] = << >> /\ f[i] = seqs[1]
          BY <1>0, <2>4, <2>5, <4>1
        <5>3. QED
          BY <4>1, <5>1, <5>2
      <4>2. CASE i # 1
        <5>1. i - 1 \in 1..n
          BY <1>0, <4>2
        <5>2. QED
          BY <2>4, <2>5, <4>2, <5>1
      <4>3. QED
        BY <4>1, <4>2
    <3>2. QED
      BY <3>1
  <2>7. FlattenSeq(seqs) = f[n]
    BY <1>0, <1>2, <2>3, <2>5
  <2>8. QED
    BY <2>5, <2>6, <2>7 DEF Joins
<1>3. QED
  BY <1>0, <1>1, <1>2


\* Everything in the first m sequences, each once.
Gathers(F, seqs, m) ==
  /\ IsList(F)
  /\ \A k \in 1..Len(F) : \E i \in 1..m : \E j \in 1..Len(seqs[i]) : F[k] = seqs[i][j]
  /\ \A i \in 1..m : \A j \in 1..Len(seqs[i]) : \E k \in 1..Len(F) : F[k] = seqs[i][j]

\* No two begin at the same place.
Distinct(F) == \A k \in 1..Len(F), l \in 1..Len(F) : k # l => F[k].base # F[l].base

AllDistinct(seqs) ==
  \A i \in 1..Len(seqs), h \in 1..Len(seqs) :
    \A j \in 1..Len(seqs[i]), l \in 1..Len(seqs[h]) :
      i # h \/ j # l => seqs[i][j].base # seqs[h][l].base

LEMMA GatherNext ==
  ASSUME NEW seqs, AllDistinct(seqs), NEW m \in Nat, m + 1 <= Len(seqs), Len(seqs) \in Nat,
         IsList(seqs[m + 1]), NEW F, Gathers(F, seqs, m), Distinct(F)
  PROVE  Gathers(F \o seqs[m + 1], seqs, m + 1) /\ Distinct(F \o seqs[m + 1])
<1> DEFINE s == seqs[m + 1]
           G == F \o s
           a == Len(F)
           b == Len(s)
<1>1. /\ IsList(F) /\ IsList(s) /\ a \in Nat /\ b \in Nat
  BY ListFacts DEF Gathers
<1>2. /\ IsList(G) /\ Len(G) = a + b
      /\ \A k \in 1..a : G[k] = F[k]
      /\ \A k \in 1..b : G[a + k] = s[k]
  BY <1>1, ListConcat
<1>3. /\ \A k \in 1..a : \E i \in 1..m : \E j \in 1..Len(seqs[i]) : F[k] = seqs[i][j]
      /\ \A i \in 1..m : \A j \in 1..Len(seqs[i]) : \E k \in 1..a : F[k] = seqs[i][j]
  BY DEF Gathers
<1>4. m + 1 \in 1..(m + 1) /\ m + 1 \in 1..Len(seqs) /\ \A i \in 1..(m + 1) : i # m + 1 => i \in 1..m
  OBVIOUS
<1>5. \A i \in 1..m : i \in 1..(m + 1) /\ i \in 1..Len(seqs) /\ i # m + 1
  OBVIOUS
<1> HIDE DEF G, a, b
<1>6. ASSUME NEW k \in 1..Len(G), ~(k \in 1..a)
      PROVE  \E j \in 1..b : k = a + j /\ G[k] = s[j]
  <2>1. k - a \in 1..b /\ a + (k - a) = k
    BY <1>1, <1>2, <1>6
  <2>2. G[a + (k - a)] = s[k - a]
    BY <1>2, <2>1
  <2>3. QED
    BY <2>1, <2>2
<1>7. ASSUME NEW k \in 1..Len(G)
      PROVE  \E i \in 1..(m + 1) : \E j \in 1..Len(seqs[i]) : G[k] = seqs[i][j]
  <2>1. CASE k \in 1..a
    <3>1. PICK i \in 1..m : \E j \in 1..Len(seqs[i]) : F[k] = seqs[i][j]
      BY <1>3, <2>1
    <3>2. QED
      BY <1>2, <1>5, <2>1, <3>1
  <2>2. CASE ~(k \in 1..a)
    BY <1>4, <1>6, <2>2 DEF b
  <2>3. QED
    BY <2>1, <2>2
<1>8. ASSUME NEW i \in 1..(m + 1), NEW j \in 1..Len(seqs[i])
      PROVE  \E k \in 1..Len(G) : G[k] = seqs[i][j]
  <2>1. CASE i = m + 1
    <3>1. j \in 1..b
      BY <2>1 DEF b
    <3>2. a + j \in 1..Len(G) /\ G[a + j] = s[j]
      BY <1>1, <1>2, <3>1
    <3>3. QED
      BY <2>1, <3>2
  <2>2. CASE i # m + 1
    <3>1. i \in 1..m
      BY <1>4, <2>2
    <3>2. PICK k \in 1..a : F[k] = seqs[i][j]
      BY <1>3, <3>1
    <3>3. k \in 1..Len(G)
      BY <1>1, <1>2
    <3>4. QED
      BY <1>2, <3>2, <3>3
  <2>3. QED
    BY <2>1, <2>2
<1>9. ASSUME NEW k \in 1..a, NEW j \in 1..b
      PROVE  F[k].base # s[j].base
  <2>a. PICK i \in 1..m : \E l \in 1..Len(seqs[i]) : F[k] = seqs[i][l]
    BY <1>3
  <2>1. PICK l \in 1..Len(seqs[i]) : F[k] = seqs[i][l]
    BY <2>a
  <2>2. j \in 1..Len(seqs[m + 1])
    BY DEF b
  <2>3. i \in 1..Len(seqs) /\ i # m + 1
    BY <1>5
  <2>4. seqs[i][l].base # seqs[m + 1][j].base
    BY <1>4, <2>1, <2>2, <2>3 DEF AllDistinct
  <2>5. QED
    BY <2>1, <2>4
<1>10. \A i \in 1..b, j \in 1..b : i # j => s[i].base # s[j].base
  BY <1>4 DEF AllDistinct, b
<1>11. \A i \in 1..a, j \in 1..a : i # j => F[i].base # F[j].base
  BY DEF Distinct, a
<1>12. ASSUME NEW k \in 1..Len(G), NEW l \in 1..Len(G), k # l
       PROVE  G[k].base # G[l].base
  <2>1. CASE k \in 1..a /\ l \in 1..a
    BY <1>2, <1>11, <1>12, <2>1
  <2>2. CASE k \in 1..a /\ ~(l \in 1..a)
    BY <1>2, <1>6, <1>9, <2>2
  <2>3. CASE ~(k \in 1..a) /\ l \in 1..a
    BY <1>2, <1>6, <1>9, <2>3
  <2>4. CASE ~(k \in 1..a) /\ ~(l \in 1..a)
    <3>1. PICK i \in 1..b : k = a + i /\ G[k] = s[i]
      BY <1>6, <2>4
    <3>2. PICK j \in 1..b : l = a + j /\ G[l] = s[j]
      BY <1>6, <2>4
    <3>3. i # j
      BY <1>12, <3>1, <3>2
    <3>4. QED
      BY <1>10, <3>1, <3>2, <3>3
  <2>5. QED
    BY <2>1, <2>2, <2>3, <2>4
<1>13. QED
  BY <1>2, <1>7, <1>8, <1>12 DEF Gathers, Distinct, G

LEMMA FlattenGathers ==
  ASSUME NEW seqs, IsList(seqs), \A i \in 1..Len(seqs) : IsList(seqs[i]), AllDistinct(seqs)
  PROVE  Gathers(FlattenSeq(seqs), seqs, Len(seqs)) /\ Distinct(FlattenSeq(seqs))
<1>1. Len(seqs) \in Nat
  BY ListFacts
<1>2. PICK f : Joins(f, seqs) /\ FlattenSeq(seqs) = f[Len(seqs)]
  BY FlattenJoins
<1> DEFINE Good(m) == m <= Len(seqs) => Gathers(f[m], seqs, m) /\ Distinct(f[m])
           S == {m \in Nat : Good(m)}
<1>3. 0 \in S
  <2>1. f[0] = << >>
    BY <1>2 DEF Joins
  <2>2. IsList(<< >>) /\ Len(<< >>) = 0 /\ 1..0 = {}
    BY EmptyList
  <2>3. Gathers(<< >>, seqs, 0) /\ Distinct(<< >>)
    BY <2>2 DEF Gathers, Distinct
  <2>4. QED
    BY <2>1, <2>3
<1>4. ASSUME NEW m \in Nat, m \in S
      PROVE  m + 1 \in S
  <2>1. ASSUME m + 1 <= Len(seqs)
        PROVE  Gathers(f[m + 1], seqs, m + 1) /\ Distinct(f[m + 1])
    <3>1. m <= Len(seqs) /\ m + 1 \in 1..Len(seqs) /\ (m + 1) - 1 = m
      BY <1>1, <2>1
    <3>2. Gathers(f[m], seqs, m) /\ Distinct(f[m])
      BY <1>4, <3>1
    <3>3. f[m + 1] = f[m] \o seqs[m + 1]
      BY <1>2, <3>1 DEF Joins
    <3>4. IsList(seqs[m + 1])
      BY <3>1
    <3>5. QED
      BY <1>1, <2>1, <3>2, <3>3, <3>4, GatherNext
  <2>2. QED
    BY <2>1
<1> HIDE DEF S
<1>5. \A m \in Nat : m \in S
  BY <1>3, <1>4, NatSetInduction
<1>6. QED
  BY <1>1, <1>2, <1>5 DEF S


------------------------------------------------------------------------------
(* Stripes in order                                                          *)

\* Stripes begin at the first multiples of c, as many as are below T.
Tiles(s, c, T) ==
  /\ \A i \in 1..Len(s) : \E k \in Nat : s[i].base = k * c /\ k * c < T
  /\ \A k \in Nat : k * c < T => \E i \in 1..Len(s) : s[i].base = k * c

LEMMA TilesNumber ==
  ASSUME NEW s, IsList(s), Distinct(s), NEW c \in Nat \ {0}, NEW T \in Nat, Tiles(s, c, T)
  PROVE  /\ T <= Len(s) * c /\ (Len(s) > 0 => (Len(s) - 1) * c < T)
         /\ \E p \in Bijection(1..Len(s), 1..Len(s)) :
              \A i \in 1..Len(s) : s[p[i]].base = (i - 1) * c
<1> DEFINE n == Len(s)
<1>0. n \in Nat
  BY ListFacts
<1>1. PICK m \in Nat : T <= m * c /\ (m > 0 => (m - 1) * c < T)
  <2> DEFINE q == (T + c - 1) \div c
  <2>1. q \in Nat /\ T <= q * c /\ (T > 0 => (q - 1) * c < T) /\ (T = 0 => q = 0)
    BY Ceiling
  <2> HIDE DEF q
  <2>2. q > 0 => (q - 1) * c < T
    BY <2>1
  <2>3. QED
    BY <2>1, <2>2
<1>2. \A k \in Nat : k < m <=> k * c < T
  <2>1. ASSUME NEW k \in Nat
        PROVE  k < m <=> k * c < T
    <3>1. k \in Int /\ m \in Int /\ m - 1 \in Int
      OBVIOUS
    <3>2. k * c \in Int /\ m * c \in Int /\ (m - 1) * c \in Int /\ (k >= m => m * c <= k * c)
          /\ (k <= m - 1 => k * c <= (m - 1) * c)
      BY <3>1, Times
    <3>3. QED
      BY <1>1, <3>2
  <2>2. QED
    BY <2>1
<1>3. ASSUME NEW i \in 1..m
      PROVE  \E j \in 1..n : s[j].base = (i - 1) * c
  <2>1. i - 1 \in Nat /\ i - 1 < m
    OBVIOUS
  <2>2. (i - 1) * c < T
    BY <1>2, <2>1
  <2>3. QED
    BY <2>1, <2>2 DEF Tiles
<1> DEFINE p == [i \in 1..m |-> CHOOSE j \in 1..n : s[j].base = (i - 1) * c]
<1>4. \A i \in 1..m : p[i] \in 1..n /\ s[p[i]].base = (i - 1) * c
  BY <1>3
<1>5. p \in [1..m -> 1..n]
  BY <1>4
<1> HIDE DEF p
<1>6. \A i \in 1..m, j \in 1..m : p[i] = p[j] => i = j
  <2>1. ASSUME NEW i \in 1..m, NEW j \in 1..m, p[i] = p[j]
        PROVE  i = j
    <3>1. (i - 1) * c = (j - 1) * c
      BY <1>4, <2>1
    <3>2. i - 1 \in Int /\ j - 1 \in Int
      OBVIOUS
    <3>3. /\ (i - 1) * c \in Int /\ (j - 1) * c \in Int
          /\ (i - 1 <= j - 1 <=> (i - 1) * c <= (j - 1) * c)
          /\ (j - 1 <= i - 1 <=> (j - 1) * c <= (i - 1) * c)
      BY <3>2, Times
    <3>4. i - 1 <= j - 1 /\ j - 1 <= i - 1
      BY <3>1, <3>3
    <3>5. QED
      BY <3>4
  <2>2. QED
    BY <2>1
<1>7. \A j \in 1..n : \E i \in 1..m : p[i] = j
  <2>1. ASSUME NEW j \in 1..n
        PROVE  \E i \in 1..m : p[i] = j
    <3>1. PICK k \in Nat : s[j].base = k * c /\ k * c < T
      BY DEF Tiles
    <3>2. k < m
      BY <1>2, <3>1
    <3>3. k + 1 \in 1..m /\ (k + 1) - 1 = k
      BY <3>2
    <3>4. s[p[k + 1]].base = s[j].base /\ p[k + 1] \in 1..n
      BY <1>4, <3>1, <3>3
    <3>5. p[k + 1] = j
      BY <3>4 DEF Distinct
    <3>6. QED
      BY <3>3, <3>5
  <2>2. QED
    BY <2>1
<1>8. p \in Bijection(1..m, 1..n)
  BY <1>5, <1>6, <1>7, Fun_IsBij
<1>9. n = m
  <2>1. ExistsBijection(1..m, 1..n)
    BY <1>8 DEF ExistsBijection
  <2>2. \A k \in Nat : IsFiniteSet(1..k) /\ Cardinality(1..k) = k
    <3>1. ASSUME NEW k \in Nat
          PROVE  IsFiniteSet(1..k) /\ Cardinality(1..k) = k
      <4>1. 1 \in Int /\ k \in Int /\ (IF 1 > k THEN 0 ELSE k - 1 + 1) = k
        OBVIOUS
      <4>2. QED
        BY <4>1, FS_Interval
    <3>2. QED
      BY <3>1
  <2>3. Cardinality(1..n) = Cardinality(1..m)
    BY <2>1, <2>2, FS_Bijection
  <2>4. QED
    BY <1>0, <2>2, <2>3
<1>10. p \in Bijection(1..n, 1..n) /\ \A i \in 1..n : s[p[i]].base = (i - 1) * c
  BY <1>4, <1>8, <1>9
<1>11. QED
  BY <1>1, <1>9, <1>10


\* Distinct multiples in increasing order are the multiples one after another.
LEMMA SortedTiles ==
  ASSUME NEW s, IsList(s), Distinct(s), NEW c \in Nat \ {0}, NEW T \in Nat, Tiles(s, c, T)
  PROVE  LET sorted == Sorted(s)
         IN  /\ IsList(sorted) /\ Len(sorted) = Len(s)
             /\ \A i \in 1..Len(s) : /\ sorted[i].base = (i - 1) * c
                                     /\ \E j \in 1..Len(s) : sorted[i] = s[j]
<1> DEFINE n == Len(s)
           D == DOMAIN s
           InOrder(p) == \A i, j \in D : i < j => s[p[i]].base <= s[p[j]].base
           order == CHOOSE p \in Bijection(D, D) : InOrder(p)
           sorted == [i \in D |-> s[order[i]]]
<1>0. n \in Nat /\ D = 1..n
  BY ListFacts
<1>1. Sorted(s) = sorted
  BY Zenon DEF Sorted
<1>2. \E p \in Bijection(D, D) : InOrder(p)
  <2>1. PICK p \in Bijection(1..n, 1..n) : \A i \in 1..n : s[p[i]].base = (i - 1) * c
    BY TilesNumber
  <2>2. ASSUME NEW i \in 1..n, NEW j \in 1..n, i < j
        PROVE  s[p[i]].base <= s[p[j]].base
    <3>1. i - 1 \in Int /\ j - 1 \in Int /\ i - 1 <= j - 1
      BY <2>2
    <3>2. (i - 1) * c <= (j - 1) * c
      BY <3>1, Times
    <3>3. QED
      BY <2>1, <3>2
  <2>3. QED
    BY <1>0, <2>1, <2>2
<1>3. order \in Bijection(D, D) /\ InOrder(order)
  BY <1>2
<1> HIDE DEF order
<1>4. /\ \A i \in 1..n : order[i] \in 1..n
      /\ \A i \in 1..n, j \in 1..n : order[i] = order[j] => i = j
      /\ \A j \in 1..n : \E i \in 1..n : order[i] = j
  <2>1. order \in Bijection(1..n, 1..n)
    BY <1>0, <1>3
  <2>2. order \in [1..n -> 1..n]
    BY <2>1, Fun_BijectionProperties
  <2>3. \A i, j \in 1..n : order[i] = order[j] => i = j
    BY <2>1, <2>2 DEF Bijection, Injection, IsInjective
  <2>4. \A j \in 1..n : \E i \in 1..n : order[i] = j
    BY <2>1, Fun_BijectionProperties
  <2>5. QED
    BY <2>2, <2>3, <2>4
<1>5. IsList(sorted) /\ Len(sorted) = n /\ \A i \in 1..n : sorted[i] = s[order[i]]
  <2>1. sorted = [i \in 1..n |-> sorted[i]] /\ \A i \in 1..n : sorted[i] = s[order[i]]
    BY <1>0
  <2> HIDE DEF sorted
  <2>2. QED
    BY <1>0, <2>1, MakesList
<1> HIDE DEF sorted, InOrder, D
<1>6. \A i \in 1..n, j \in 1..n : i < j => sorted[i].base <= sorted[j].base
  BY <1>0, <1>3, <1>5 DEF InOrder
<1>7. \A i \in 1..n, j \in 1..n : i # j => sorted[i].base # sorted[j].base
  <2>1. ASSUME NEW i \in 1..n, NEW j \in 1..n, i # j
        PROVE  sorted[i].base # sorted[j].base
    <3>1. order[i] # order[j] /\ order[i] \in 1..n /\ order[j] \in 1..n
      BY <1>4, <2>1
    <3>2. s[order[i]].base # s[order[j]].base
      BY <3>1 DEF Distinct
    <3>3. QED
      BY <1>5, <3>2
  <2>2. QED
    BY <2>1
<1>8. \A i \in 1..n : \E k \in Nat : sorted[i].base = k * c /\ k * c < T
  <2>1. ASSUME NEW i \in 1..n
        PROVE  \E k \in Nat : sorted[i].base = k * c /\ k * c < T
    <3>1. PICK k \in Nat : s[order[i]].base = k * c /\ k * c < T
      BY <1>4 DEF Tiles
    <3>2. QED
      BY <1>5, <3>1
  <2>2. QED
    BY <2>1
<1>9. \A k \in Nat : k * c < T => \E i \in 1..n : sorted[i].base = k * c
  <2>1. ASSUME NEW k \in Nat, k * c < T
        PROVE  \E i \in 1..n : sorted[i].base = k * c
    <3>1. PICK j \in 1..n : s[j].base = k * c
      BY <2>1 DEF Tiles
    <3>2. PICK i \in 1..n : order[i] = j
      BY <1>4
    <3>3. QED
      BY <1>5, <3>1, <3>2
  <2>2. QED
    BY <2>1
<1> DEFINE Good(m) == \A i \in 1..n : i <= m => sorted[i].base = (i - 1) * c
           S == {m \in Nat : Good(m)}
<1>10. 0 \in S
  OBVIOUS
<1>11. ASSUME NEW m \in Nat, m \in S
       PROVE  m + 1 \in S
  <2>1. \A i \in 1..n : i <= m => sorted[i].base = (i - 1) * c
    BY <1>11
  <2>2. ASSUME m + 1 \in 1..n
        PROVE  sorted[m + 1].base = m * c
    <3>1. PICK k \in Nat : sorted[m + 1].base = k * c /\ k * c < T
      BY <1>8, <2>2
    <3>2. m \in Int /\ k \in Int /\ m * c \in Int /\ k * c \in Int
          /\ (m <= k <=> m * c <= k * c) /\ (k <= m <=> k * c <= m * c)
      BY Times
    <3>3. k >= m
      <4>1. SUFFICES ASSUME k < m PROVE FALSE
        BY <3>2
      <4>2. k + 1 \in 1..n /\ k + 1 <= m /\ (k + 1) - 1 = k /\ k + 1 # m + 1
        BY <1>0, <2>2, <4>1
      <4>3. sorted[k + 1].base = k * c
        BY <2>1, <4>2
      <4>4. QED
        BY <1>7, <2>2, <3>1, <4>2, <4>3
    <3>4. m * c < T
      BY <3>1, <3>2, <3>3
    <3>5. PICK i \in 1..n : sorted[i].base = m * c
      BY <1>9, <3>4
    <3>6. i > m
      <4>1. SUFFICES ASSUME i <= m PROVE FALSE
        OBVIOUS
      <4>2. sorted[i].base = (i - 1) * c
        BY <2>1, <4>1
      <4>3. i - 1 \in Int /\ m \in Int /\ (i - 1 < m <=> (i - 1) * c < m * c)
            /\ (i - 1) * c \in Int
        <5>1. i - 1 \in Int /\ m \in Int
          OBVIOUS
        <5>2. QED
          BY <5>1, Times
      <4>4. i - 1 < m
        BY <4>1
      <4>5. QED
        BY <3>2, <3>5, <4>2, <4>3, <4>4
    <3>7. k * c <= m * c
      <4>1. CASE i = m + 1
        BY <3>1, <3>2, <3>5, <4>1
      <4>2. CASE i # m + 1
        <5>1. m + 1 < i
          BY <3>6, <4>2
        <5>2. sorted[m + 1].base <= sorted[i].base
          BY <1>6, <2>2, <5>1
        <5>3. QED
          BY <3>1, <3>5, <5>2
      <4>3. QED
        BY <4>1, <4>2
    <3>8. k = m
      BY <3>2, <3>3, <3>7
    <3>9. QED
      BY <3>1, <3>8
  <2>3. Good(m + 1)
    <3>1. ASSUME NEW i \in 1..n, i <= m + 1
          PROVE  sorted[i].base = (i - 1) * c
      <4>1. CASE i <= m
        BY <2>1, <4>1
      <4>2. CASE i = m + 1
        <5>1. (m + 1) - 1 = m
          OBVIOUS
        <5>2. QED
          BY <2>2, <4>2, <5>1
      <4>3. QED
        BY <3>1, <4>1, <4>2
    <3>2. QED
      BY <3>1
  <2>4. QED
    BY <2>3
<1> HIDE DEF S
<1>12. n \in S
  BY <1>0, <1>10, <1>11, NatSetInduction
<1>13. \A i \in 1..n : sorted[i].base = (i - 1) * c
  BY <1>0, <1>12 DEF S
<1>14. \A i \in 1..n : \E j \in 1..n : sorted[i] = s[j]
  BY <1>4, <1>5
<1>15. QED
  BY <1>1, <1>5, <1>13, <1>14


------------------------------------------------------------------------------
(* The leaves of the stripes in order                                        *)

LEMMA InputIsList ==
  ASSUME NEW p \in Nat, NEW n \in Nat
  PROVE  IsList(InputBytes(p, n)) /\ Len(InputBytes(p, n)) = n
BY BytesType, SeqIsList

PartIs(p, n, x, b) == SubSeq(InputBytes(p, n), x + 1, b) = InputBytes(p + x, b - x)

LEMMA InputPart ==
  ASSUME NEW p \in Nat, NEW n \in Nat, NEW x \in Nat, NEW b \in Nat, x <= b, b <= n
  PROVE  PartIs(p, n, x, b)
<1> DEFINE left == SubSeq(InputBytes(p, n), x + 1, b)
           right == InputBytes(p + x, b - x)
<1>1. p + x \in Nat /\ b - x \in Nat /\ \A i \in 1..(b - x) : x + i \in 1..n
  OBVIOUS
<1>2. /\ IsList(left) /\ Len(left) = b - x
      /\ \A i \in 1..(b - x) : left[i] = InputBytes(p, n)[x + i]
  BY InputIsList, PartFacts
<1>3. /\ IsList(right) /\ Len(right) = b - x
      /\ \A i \in 1..(b - x) : right[i] = (p + x) + i
  BY <1>1, InputIsList, BytesType
<1>4. \A i \in 1..n : InputBytes(p, n)[i] = p + i
  BY BytesType
<1> HIDE DEF left, right
<1>5. \A i \in 1..(b - x) : left[i] = right[i]
  <2>1. ASSUME NEW i \in 1..(b - x)
        PROVE  left[i] = right[i]
    <3>1. left[i] = p + (x + i) /\ right[i] = (p + x) + i
      BY <1>1, <1>2, <1>3, <1>4
    <3>2. QED
      BY <3>1
  <2>2. QED
    BY <2>1
<1>6. left = right
  BY <1>2, <1>3, <1>5, ListEqual
<1>7. QED
  BY <1>6 DEF left, right, PartIs

LEMMA InputConcat ==
  ASSUME NEW p \in Nat, NEW n \in Nat, NEW m \in Nat
  PROVE  InputBytes(p, n) \o InputBytes(p + n, m) = InputBytes(p, n + m)
<1> DEFINE all == InputBytes(p, n + m)
<1>1. n + m \in Nat /\ IsList(all) /\ Len(all) = n + m
  BY InputIsList
<1>2. SubSeq(all, 0 + 1, n) \o SubSeq(all, n + 1, n + m) = SubSeq(all, 0 + 1, n + m)
  <2>1. 0 \in Nat /\ 0 <= n /\ n <= n + m
    OBVIOUS
  <2> HIDE DEF all
  <2>2. QED
    BY <1>1, <2>1, PartsConcat
<1>3. /\ SubSeq(all, 0 + 1, n) = InputBytes(p + 0, n - 0)
      /\ SubSeq(all, n + 1, n + m) = InputBytes(p + n, (n + m) - n)
      /\ SubSeq(all, 0 + 1, n + m) = InputBytes(p + 0, (n + m) - 0)
  <2>1. 0 \in Nat /\ 0 <= n /\ 0 <= n + m /\ n <= n + m /\ n + m <= n + m
    OBVIOUS
  <2>2. PICK t \in Nat : t = n + m
    BY <1>1
  <2>3. PartIs(p, t, 0, n) /\ PartIs(p, t, n, t) /\ PartIs(p, t, 0, t)
    BY <2>1, <2>2, InputPart
  <2>4. QED
    BY <2>2, <2>3 DEF PartIs
<1>4. p + 0 = p /\ n - 0 = n /\ (n + m) - n = m /\ (n + m) - 0 = n + m
  OBVIOUS
<1>5. QED
  BY <1>2, <1>3, <1>4

\* Leaves of bytes that follow whole leaves.
LEMMA LeavesFollow ==
  ASSUME NEW p \in Nat, NEW a \in Nat, NEW n \in Nat
  PROVE  Leaves(InputBytes(p, a * CHUNK_SIZE)) \o Leaves(InputBytes(p + a * CHUNK_SIZE, n))
           = Leaves(InputBytes(p, a * CHUNK_SIZE + n))
<1>1. PICK x \in Nat : x = a * CHUNK_SIZE
  BY TreeAssumption, Times
<1> DEFINE all == InputBytes(p, x + n)
<1>2. x + n \in Nat /\ IsList(all) /\ Len(all) = x + n
  BY InputIsList
<1>3. /\ SubSeq(all, 0 + 1, x) = InputBytes(p + 0, x - 0)
      /\ SubSeq(all, x + 1, x + n) = InputBytes(p + x, (x + n) - x)
      /\ SubSeq(all, 0 + 1, x + n) = InputBytes(p + 0, (x + n) - 0)
  <2>1. 0 \in Nat /\ 0 <= x /\ 0 <= x + n /\ x <= x + n /\ x + n <= x + n
    OBVIOUS
  <2>2. PICK t \in Nat : t = x + n
    BY <1>2
  <2>3. PartIs(p, t, 0, x) /\ PartIs(p, t, x, t) /\ PartIs(p, t, 0, t)
    BY <2>1, <2>2, InputPart
  <2>4. QED
    BY <2>2, <2>3 DEF PartIs
<1>4. p + 0 = p /\ x - 0 = x /\ (x + n) - x = n /\ (x + n) - 0 = x + n /\ 0 + 1 = 1
  OBVIOUS
<1>5. /\ SubSeq(all, 1, x) = InputBytes(p, x)
      /\ SubSeq(all, x + 1, x + n) = InputBytes(p + x, n)
      /\ SubSeq(all, 1, x + n) = InputBytes(p, x + n)
  BY <1>3, <1>4
<1>6. Leaves(SubSeq(all, 1, x + n)) = Leaves(SubSeq(all, 1, x)) \o Leaves(SubSeq(all, x + 1, x + n))
  <2> HIDE DEF all
  <2>1. a * CHUNK_SIZE <= x + n /\ x + n <= Len(all)
    BY <1>1, <1>2
  <2>2. QED
    BY <1>1, <1>2, <2>1, LeavesOfPrefix
<1>7. QED
  BY <1>1, <1>5, <1>6

\* From stripes of q whole leaves each, the last perhaps shorter.
LEMMA LeavesJoin ==
  ASSUME NEW seqs, IsList(seqs), NEW q \in Nat \ {0}, NEW c, c = q * CHUNK_SIZE, NEW T \in Nat,
         T <= Len(seqs) * c, Len(seqs) > 0 => (Len(seqs) - 1) * c < T,
         \A i \in 1..Len(seqs) :
           seqs[i] = Leaves(InputBytes((i - 1) * c, Least(c, T - (i - 1) * c)))
  PROVE  FlattenSeq(seqs) = Leaves(InputBytes(0, T))
<1> DEFINE n == Len(seqs)
           piece(i) == InputBytes((i - 1) * c, Least(c, T - (i - 1) * c))
<1>0. n \in Nat /\ c \in Nat \ {0} /\ CHUNK_SIZE \in Nat \ {0}
  <2>1. CHUNK_SIZE \in Nat \ {0} /\ q \in Int /\ 0 \in Int /\ q > 0
    BY TreeAssumption
  <2>2. q * CHUNK_SIZE \in Int /\ 0 * CHUNK_SIZE < q * CHUNK_SIZE /\ 0 * CHUNK_SIZE = 0
    BY <2>1, Times
  <2>3. n \in Nat
    BY ListFacts
  <2>4. c \in Int /\ 0 < c
    BY <2>2
  <2>5. QED
    BY <2>1, <2>3, <2>4
<1>1. \A k \in Nat : k * c \in Nat
  <2>1. ASSUME NEW k \in Nat PROVE k * c \in Nat
    <3>1. k \in Int /\ k >= 0
      OBVIOUS
    <3>2. QED
      BY <1>0, <3>1, Times
  <2>2. QED
    BY <2>1
<1>2. ASSUME NEW m \in Nat, m + 1 <= n
      PROVE  /\ m * c < T /\ m * c + Least(c, T - m * c) = Least((m + 1) * c, T)
             /\ seqs[m + 1] = Leaves(InputBytes(m * c, Least(c, T - m * c)))
             /\ Least(c, T - m * c) \in Nat
  <2>1. m \in Int /\ n - 1 \in Int /\ m <= n - 1 /\ n > 0 /\ (m + 1) - 1 = m /\ m + 1 \in 1..n
    BY <1>0, <1>2
  <2>2. m * c <= (n - 1) * c /\ (m + 1) * c = m * c + c /\ m * c \in Nat /\ (n - 1) * c \in Int
    <3> HIDE DEF n
    <3>1. m * c <= (n - 1) * c
      BY <1>0, <2>1, Times
    <3>2. (m + 1) * c = m * c + c
      BY <1>0, <2>1, Times
    <3>3. (n - 1) * c \in Int
      BY <1>0, <2>1, Times
    <3>4. QED
      BY <1>1, <3>1, <3>2, <3>3
  <2>3. m * c < T
    BY <2>1, <2>2
  <2>4. QED
    BY <1>0, <2>1, <2>2, <2>3 DEF Least
<1>3. \A i \in 1..n : IsList(seqs[i])
  <2>1. ASSUME NEW i \in 1..n PROVE IsList(seqs[i])
    <3>1. i - 1 \in Nat /\ (i - 1) + 1 <= n /\ (i - 1) + 1 = i
      BY <1>0
    <3>2. /\ seqs[i] = Leaves(InputBytes((i - 1) * c, Least(c, T - (i - 1) * c)))
          /\ Least(c, T - (i - 1) * c) \in Nat /\ (i - 1) * c \in Nat
      BY <1>1, <1>2, <3>1
    <3>3. QED
      BY <3>2, InputIsList, LeavesFacts
  <2>2. QED
    BY <2>1
<1>4. PICK f : Joins(f, seqs) /\ FlattenSeq(seqs) = f[n]
  BY <1>3, FlattenJoins
<1> DEFINE Good(m) == m <= n => f[m] = Leaves(InputBytes(0, Least(m * c, T)))
           S == {m \in Nat : Good(m)}
<1>5. 0 \in S
  <2>1. f[0] = << >> /\ 0 * c = 0 /\ Least(0, T) = 0
    BY <1>0, <1>4 DEF Joins, Least
  <2>2. Leaves(InputBytes(0, 0)) = << >>
    <3>1. IsList(InputBytes(0, 0)) /\ Len(InputBytes(0, 0)) = 0
      BY InputIsList
    <3>2. 0 \in Nat /\ 0 * CHUNK_SIZE = 0
      BY <1>0
    <3>3. Len(Leaves(InputBytes(0, 0))) = 0 /\ IsList(Leaves(InputBytes(0, 0)))
      BY <3>1, <3>2, WholeLeaves, LeavesFacts
    <3>4. QED
      BY <3>3, EmptyList
  <2>3. QED
    BY <2>1, <2>2
<1>6. ASSUME NEW m \in Nat, m \in S
      PROVE  m + 1 \in S
  <2>1. ASSUME m + 1 <= n
        PROVE  f[m + 1] = Leaves(InputBytes(0, Least((m + 1) * c, T)))
    <3>1. m <= n /\ m + 1 \in 1..n /\ (m + 1) - 1 = m
      BY <1>0, <2>1
    <3>2. f[m + 1] = f[m] \o seqs[m + 1]
      BY <1>4, <3>1 DEF Joins
    <3>3. m * c < T /\ m * c \in Nat
      BY <1>1, <1>2, <2>1
    <3>4. f[m] = Leaves(InputBytes(0, m * c))
      BY <1>6, <3>1, <3>3 DEF Least
    <3>5. PICK a \in Nat : a = m * q
      <4>1. q \in Nat \ {0} /\ m \in Int /\ m >= 0
        OBVIOUS
      <4>2. m * q \in Int /\ m * q >= 0
        BY <4>1, Times
      <4>3. QED
        BY <4>2
    <3>6. a * CHUNK_SIZE = m * c
      <4>1. \A u \in Nat, v \in Nat, z \in Nat : (u * v) * z = u * (v * z)
        OBVIOUS
      <4>2. QED
        BY <1>0, <3>5, <4>1
    <3>7. PICK l \in Nat : l = Least(c, T - m * c)
      BY <1>2, <2>1
    <3>8. seqs[m + 1] = Leaves(InputBytes(0 + a * CHUNK_SIZE, l))
      BY <1>2, <2>1, <3>3, <3>6, <3>7
    <3>9. f[m + 1] = Leaves(InputBytes(0, a * CHUNK_SIZE + l))
      <4>1. 0 \in Nat
        OBVIOUS
      <4>2. Leaves(InputBytes(0, a * CHUNK_SIZE)) \o Leaves(InputBytes(0 + a * CHUNK_SIZE, l))
              = Leaves(InputBytes(0, a * CHUNK_SIZE + l))
        BY <4>1, LeavesFollow
      <4>3. f[m] = Leaves(InputBytes(0, a * CHUNK_SIZE))
        BY <3>4, <3>6
      <4>4. QED
        BY <3>2, <3>8, <4>2, <4>3
    <3>10. QED
      BY <1>2, <2>1, <3>6, <3>7, <3>9
  <2>2. QED
    BY <2>1
<1> HIDE DEF S
<1>7. n \in S
  BY <1>0, <1>5, <1>6, NatSetInduction
<1>8. f[n] = Leaves(InputBytes(0, Least(n * c, T)))
  BY <1>0, <1>7 DEF S
<1>9. Least(n * c, T) = T
  BY <1>0, <1>1 DEF Least
<1>10. QED
  BY <1>4, <1>8, <1>9


------------------------------------------------------------------------------
(* What the workers hash                                                     *)

\* How far w's stripe is hashed.
Reached(w) ==
  IF worker[w].pc = "write" THEN worker[w].done + Len(worker[w].block) ELSE worker[w].done

InWholeLeaves(n) == \E a \in Nat : n = a * CHUNK_SIZE

\* The leaves are those of the bytes read so far, which are whole leaves until
\* the last is read.
Hashed(w) ==
  /\ worker[w].leaves = Leaves(InputBytes(worker[w].base, Reached(w)))
  /\ \/ InWholeLeaves(Reached(w)) \/ Reached(w) = ChunkLen(w)
     \/ worker[w].base + Reached(w) = transfer.source
  /\ Reached(w) > 0 => worker[w].base + Reached(w) <= transfer.source

StripeLen(base) == Least(ChunkSize, Wanted - base)

\* A stripe that is kept has all of its leaves.
Finished(s) ==
  /\ s.base % ChunkSize = 0 /\ s.base < Wanted /\ s.base + ChunkSize <= next_offset
  /\ s.leaves = Leaves(InputBytes(s.base, StripeLen(s.base)))

Begins(w, i) == worker[w].stripes[i].base

\* Some worker copies, or has kept, the stripe that begins at base.
InHand(base) ==
  \E w \in Workers : \/ Active(w) /\ worker[w].base = base
                     \/ \E i \in 1..Len(worker[w].stripes) : Begins(w, i) = base

KeptOnce(w, i) ==
  /\ Finished(worker[w].stripes[i])
  /\ \A v \in Workers :
       /\ Active(v) => worker[v].base # Begins(w, i)
       /\ \A j \in 1..Len(worker[v].stripes) : v # w \/ j # i => Begins(v, j) # Begins(w, i)

Leafed ==
  /\ \A w \in Workers : Active(w) => Hashed(w)
  /\ \A w \in Workers : \A i \in 1..Len(worker[w].stripes) : KeptOnce(w, i)
  /\ Broken \/ \A base \in Nat :
       base % ChunkSize = 0 /\ base < next_offset /\ base < Wanted => InHand(base)

SameStripes(w) == worker'[w].stripes = worker[w].stripes

Rests(w) ==
  /\ ~Active(w) /\ ~Active(w)' /\ SameStripes(w)
  /\ next_offset' = next_offset \/ (AllClaimed /\ next_offset' = next_offset + ChunkSize)

Begun(w) ==
  /\ ~Active(w) /\ Active(w)' /\ SameStripes(w)
  /\ worker'[w].base = next_offset /\ Reached(w)' = 0 /\ worker'[w].leaves = << >>
  /\ ~AllClaimed /\ next_offset' = next_offset + ChunkSize

Adds(w, n) ==
  /\ worker[w].pc = "chunk" /\ Active(w)' /\ SameStripes(w)
  /\ worker'[w].base = worker[w].base /\ Reached(w)' = worker[w].done + n
  /\ worker'[w].leaves = worker[w].leaves \o Leaves(InputBytes(Position(w), n))
  /\ n >= 1 /\ n <= transfer.source - Position(w)
  /\ ~ragged' => \/ n % CHUNK_SIZE = 0 \/ n = transfer.blocksize
                 \/ n = ChunkLen(w) - worker[w].done \/ n = transfer.source - Position(w)
  /\ next_offset' = next_offset

Goes(w) ==
  /\ Active(w) /\ Active(w)' /\ SameStripes(w)
  /\ worker'[w].base = worker[w].base /\ Reached(w)' = Reached(w)
  /\ worker'[w].leaves = worker[w].leaves /\ next_offset' = next_offset

Keeps(w) ==
  /\ Active(w) /\ ~Active(w)' /\ worker'[w].stripes = Kept(w, worker[w].leaves)
  /\ Reached(w) = ChunkLen(w) \/ worker[w].base + Reached(w) >= transfer.source
  /\ next_offset' = next_offset

Drops(w) ==
  Active(w) /\ ~Active(w)' /\ SameStripes(w) /\ worker'[w].failed /\ next_offset' = next_offset

LeafKinds(w) ==
  Rests(w) \/ Begun(w) \/ (\E n \in Nat : Adds(w, n)) \/ Goes(w) \/ Keeps(w) \/ Drops(w)

LEMMA LeafMove ==
  ASSUME Typed, NEW w \in Workers,
         WorkerStarts(w) \/ WorkerGoesOn(w) \/ WorkerLeaves(w) \/ WorkerClaims(w)
  PROVE  LeafKinds(w)
<1>0. /\ worker \in [Workers -> WorkerType] /\ worker[w] \in WorkerType
  BY Sizes
<1>1. CASE WorkerStarts(w) \/ WorkerGoesOn(w) \/ WorkerLeaves(w) \/ (WorkerClaims(w) /\ AllClaimed)
  <2>1. /\ worker[w].pc \in {"init", "top", "claim"}
        /\ next_offset' = next_offset \/ (AllClaimed /\ next_offset' = next_offset + ChunkSize)
    BY <1>1 DEF WorkerStarts, WorkerGoesOn, WorkerLeaves, WorkerClaims, Claimed, At, shared
  <2>2. \/ worker' = [worker EXCEPT ![w].pc = "top"]
        \/ worker' = [worker EXCEPT ![w].pc = "claim"]
        \/ worker' = [worker EXCEPT ![w].pc = "ended", ![w].failed = TRUE]
        \/ worker' = [worker EXCEPT ![w].pc = "ended", ![w].failed = FALSE]
    BY <1>1 DEF WorkerStarts, WorkerGoesOn, WorkerLeaves, WorkerClaims, AllClaimed, Ends
  <2>3. worker'[w].pc \in {"top", "claim", "ended"} /\ SameStripes(w)
    BY <1>0, <2>2 DEF WorkerType, SameStripes
  <2>4. QED
    BY <2>1, <2>3 DEF LeafKinds, Rests, Active
<1>2. CASE WorkerClaims(w) /\ ~AllClaimed
  <2>1. /\ worker' = [worker EXCEPT ![w].pc = "chunk", ![w].base = next_offset,
                                    ![w].done = 0, ![w].leaves = << >>]
        /\ worker[w].pc = "claim" /\ next_offset' = next_offset + ChunkSize
    BY <1>2 DEF WorkerClaims, AllClaimed, Claimed, At
  <2>2. /\ worker'[w].pc = "chunk" /\ worker'[w].base = next_offset /\ worker'[w].done = 0
        /\ worker'[w].leaves = << >> /\ SameStripes(w)
    BY <1>0, <2>1 DEF WorkerType, SameStripes
  <2>3. QED
    BY <1>2, <2>1, <2>2 DEF LeafKinds, Begun, Active, Reached
<1>3. QED
  BY <1>1, <1>2

LEMMA LeafStop ==
  ASSUME Typed, NEW w \in Workers,
         WorkerCancelled(w) \/ WorkerMeetsEnd(w) \/ WorkerFails(w)
  PROVE  LeafKinds(w)
<1>0. /\ worker \in [Workers -> WorkerType] /\ worker[w] \in WorkerType
  BY Sizes
<1>1. Active(w) /\ next_offset' = next_offset
  BY DEF WorkerCancelled, WorkerMeetsEnd, WorkerFails, At, Active, shared
<1>2. CASE WorkerCancelled(w) \/ WorkerFails(w)
  <2>1. worker' = [worker EXCEPT ![w].pc = "ended", ![w].failed = TRUE]
    BY <1>2 DEF WorkerCancelled, WorkerFails, Ends
  <2>2. worker'[w].pc = "ended" /\ worker'[w].failed /\ SameStripes(w)
    BY <1>0, <2>1 DEF WorkerType, SameStripes
  <2>3. QED
    BY <1>1, <2>2 DEF LeafKinds, Drops, Active
<1>3. CASE WorkerMeetsEnd(w)
  <2>1. /\ worker' = [worker EXCEPT ![w].pc = "ended", ![w].stripes = Kept(w, worker[w].leaves)]
        /\ worker[w].pc = "chunk" /\ Position(w) >= transfer.source
    BY <1>3 DEF WorkerMeetsEnd, At
  <2>2. worker'[w].pc = "ended" /\ worker'[w].stripes = Kept(w, worker[w].leaves)
    BY <1>0, <2>1 DEF WorkerType
  <2>3. worker[w].base + Reached(w) >= transfer.source
    BY <2>1 DEF Reached, Position
  <2>4. QED
    BY <1>1, <2>2, <2>3 DEF LeafKinds, Keeps, Active
<1>4. QED
  BY <1>2, <1>3

LEMMA LeafRead ==
  ASSUME Typed, Hashes, NEW w \in Workers, WorkerReads(w)
  PROVE  LeafKinds(w)
<1>0. /\ worker \in [Workers -> WorkerType] /\ worker[w] \in WorkerType
      /\ ChunkLen(w) \in Int /\ Position(w) \in Nat /\ worker[w].done \in Nat
      /\ transfer.source \in Nat /\ transfer.blocksize \in Nat \ {0}
  BY Sizes
<1> DEFINE to_read == Least(ChunkLen(w) - worker[w].done, transfer.blocksize)
           most    == Least(to_read, transfer.source - Position(w))
<1>1. /\ most \in Int /\ most <= transfer.source - Position(w)
      /\ \/ most = transfer.blocksize \/ most = ChunkLen(w) - worker[w].done
         \/ most = transfer.source - Position(w)
  BY <1>0 DEF Least
<1>2. PICK n \in 1..most :
        /\ worker' = [worker EXCEPT
              ![w].pc = "write", ![w].block = InputBytes(Position(w), n), ![w].written = 0,
              ![w].leaves = worker[w].leaves \o Leaves(InputBytes(Position(w), n))]
        /\ ragged' = (ragged \/ (n < most /\ n % CHUNK_SIZE # 0))
  BY DEF WorkerReads
<1>3. worker[w].pc = "chunk" /\ next_offset' = next_offset
  BY DEF WorkerReads, At, shared
<1> HIDE DEF most
<1>4. n \in Nat /\ n >= 1 /\ n <= transfer.source - Position(w) /\ (n < most \/ n = most)
  BY <1>0, <1>1
<1>5. Len(InputBytes(Position(w), n)) = n
  BY <1>0, <1>4, BytesType
<1>6. /\ worker'[w].pc = "write" /\ worker'[w].block = InputBytes(Position(w), n)
      /\ worker'[w].base = worker[w].base /\ worker'[w].done = worker[w].done
      /\ worker'[w].leaves = worker[w].leaves \o Leaves(InputBytes(Position(w), n))
      /\ SameStripes(w)
  BY <1>0, <1>2 DEF WorkerType, SameStripes
<1>7. Reached(w)' = worker[w].done + n
  BY <1>5, <1>6 DEF Reached
<1>8. ~ragged' => \/ n % CHUNK_SIZE = 0 \/ n = transfer.blocksize
                  \/ n = ChunkLen(w) - worker[w].done \/ n = transfer.source - Position(w)
  BY <1>1, <1>2, <1>4
<1>9. Adds(w, n)
  BY <1>3, <1>4, <1>6, <1>7, <1>8 DEF Adds, Active
<1>10. QED
  BY <1>4, <1>9 DEF LeafKinds

LEMMA LeafWrite ==
  ASSUME Typed, NEW w \in Workers, WorkerWrites(w)
  PROVE  LeafKinds(w)
<1>0. /\ worker \in [Workers -> WorkerType] /\ worker[w] \in WorkerType
      /\ worker[w].done \in Nat /\ worker[w].written \in Nat /\ Len(worker[w].block) \in Nat
  BY Sizes
<1>b. next_offset' = next_offset /\ worker[w].pc = "write"
  BY DEF WorkerWrites, shared, At
<1> DEFINE done == worker[w].done + Len(worker[w].block)
           ends == done = ChunkLen(w)
<1>1. PICK m \in 1..(Len(worker[w].block) - worker[w].written) :
        IF worker[w].written + m < Len(worker[w].block)
        THEN worker' = [worker EXCEPT ![w].written = worker[w].written + m]
        ELSE worker' = [worker EXCEPT
                          ![w].block = << >>, ![w].written = 0, ![w].done = done,
                          ![w].pc = IF ends THEN "top" ELSE "chunk",
                          ![w].leaves = IF ends THEN << >> ELSE @,
                          ![w].stripes = IF ends THEN Kept(w, worker[w].leaves) ELSE @]
  BY DEF WorkerWrites
<1>2. CASE worker[w].written + m < Len(worker[w].block)
  <2>1. worker' = [worker EXCEPT ![w].written = worker[w].written + m]
    BY <1>1, <1>2
  <2>2. /\ worker'[w].pc = "write" /\ worker'[w].block = worker[w].block
        /\ worker'[w].base = worker[w].base /\ worker'[w].done = worker[w].done
        /\ worker'[w].leaves = worker[w].leaves /\ SameStripes(w)
    BY <1>0, <1>b, <2>1 DEF WorkerType, SameStripes
  <2>3. Reached(w)' = Reached(w)
    BY <1>b, <2>2 DEF Reached
  <2>4. QED
    BY <1>b, <2>2, <2>3 DEF LeafKinds, Goes, Active
<1>3. CASE ~(worker[w].written + m < Len(worker[w].block))
  <2>1. worker' = [worker EXCEPT
                     ![w].block = << >>, ![w].written = 0, ![w].done = done,
                     ![w].pc = IF ends THEN "top" ELSE "chunk",
                     ![w].leaves = IF ends THEN << >> ELSE @,
                     ![w].stripes = IF ends THEN Kept(w, worker[w].leaves) ELSE @]
    BY <1>1, <1>3
  <2>2. Reached(w) = done
    BY <1>b DEF Reached
  <2> HIDE DEF done
  <2>3. CASE ends
    <3>1. worker' = [worker EXCEPT
                       ![w].block = << >>, ![w].written = 0, ![w].done = done,
                       ![w].pc = "top", ![w].leaves = << >>,
                       ![w].stripes = Kept(w, worker[w].leaves)]
      BY <2>1, <2>3
    <3>2. worker'[w].pc = "top" /\ worker'[w].stripes = Kept(w, worker[w].leaves)
      BY <1>0, <3>1 DEF WorkerType
    <3>3. QED
      BY <1>b, <2>2, <2>3, <3>2 DEF LeafKinds, Keeps, Active
  <2>4. CASE ~ends
    <3>1. worker' = [worker EXCEPT
                       ![w].block = << >>, ![w].written = 0, ![w].done = done,
                       ![w].pc = "chunk", ![w].leaves = @, ![w].stripes = @]
      BY <2>1, <2>4
    <3>2. /\ worker'[w].pc = "chunk" /\ worker'[w].done = done
          /\ worker'[w].base = worker[w].base /\ worker'[w].leaves = worker[w].leaves
          /\ SameStripes(w)
      BY <1>0, <3>1 DEF WorkerType, SameStripes
    <3>3. Reached(w)' = Reached(w)
      BY <2>2, <3>2 DEF Reached
    <3>4. QED
      BY <1>b, <3>2, <3>3 DEF LeafKinds, Goes, Active
  <2>5. QED
    BY <2>3, <2>4
<1>4. QED
  BY <1>2, <1>3

LEMMA LeafStep ==
  ASSUME Typed, Hashes, NEW w \in Workers, Step(w)
  PROVE  LeafKinds(w)
BY LeafMove, LeafStop, LeafRead, LeafWrite DEF Step, Worker


\* A step of w leaves the leaves and the stripes of the others as they are.
LEMMA OthersHash ==
  ASSUME Typed, NEW w \in Workers, Own(w), NEW v \in Workers \ {w}
  PROVE  /\ worker'[v] = worker[v] /\ (Active(v)' <=> Active(v)) /\ (Hashed(v)' <=> Hashed(v))
         /\ \A i : Begins(v, i)' = Begins(v, i)
<1>1. /\ worker'[v] = worker[v] /\ (Active(v)' <=> Active(v)) /\ ChunkLen(v)' = ChunkLen(v)
      /\ transfer' = transfer
  BY OthersStay DEF Own
<1>2. Reached(v)' = Reached(v)
  BY <1>1 DEF Reached
<1>3. QED
  BY <1>1, <1>2 DEF Hashed, Begins, InputBytes

LEMMA MultipleFacts ==
  ASSUME NEW n \in Nat, NEW c \in Nat \ {0}
  PROVE  n % c = 0 <=> \E k \in Nat : n = k * c
<1>1. PICK q \in Nat, r \in Nat : n = c * q + r /\ r < c /\ r = n % c
  <2>1. n = c * (n \div c) + (n % c) /\ n \div c \in Nat /\ n % c \in Nat /\ n % c < c
    OBVIOUS
  <2>2. PICK q \in Nat : q = n \div c
    BY <2>1
  <2>3. QED
    BY <2>1, <2>2
<1>2. c * q = q * c /\ q * c \in Nat
  OBVIOUS
<1>3. n % c = 0 => n = q * c
  BY <1>1, <1>2
<1>4. ASSUME NEW k \in Nat, n = k * c
      PROVE  r = 0
  <2>1. (k - q) * c = r
    <3>1. k \in Int /\ q \in Int
      OBVIOUS
    <3>2. (k - q) * c = k * c - q * c /\ k * c \in Int /\ q * c \in Int
      BY <3>1, Times
    <3>3. QED
      BY <1>1, <1>2, <1>4, <3>2
  <2>2. PICK d \in Int : d = k - q
    OBVIOUS
  <2>3. 1 * c = c /\ 0 * c = 0
    OBVIOUS
  <2>4. /\ 1 <= d => 1 * c <= d * c
        /\ d < 0 => d * c < 0 * c
    BY <2>2, Times
  <2>5. d * c = r
    BY <2>1, <2>2
  <2>6. d = 0
    BY <1>1, <2>2, <2>3, <2>4, <2>5
  <2>7. QED
    BY <2>3, <2>5, <2>6
<1>5. QED
  BY <1>1, <1>3, <1>4

LEMMA NoLeaves ==
  ASSUME NEW p \in Nat
  PROVE  /\ Leaves(InputBytes(p, 0)) = << >>
         /\ \A n \in Nat : n > 0 => Leaves(InputBytes(p, n)) # << >>
<1>0. CHUNK_SIZE \in Nat \ {0} /\ 0 * CHUNK_SIZE = 0 /\ 0 \in Nat
  BY TreeAssumption
<1>1. Leaves(InputBytes(p, 0)) = << >>
  <2>1. IsList(InputBytes(p, 0)) /\ Len(InputBytes(p, 0)) = 0 * CHUNK_SIZE
    BY <1>0, InputIsList
  <2>2. Len(Leaves(InputBytes(p, 0))) = 0 /\ IsList(Leaves(InputBytes(p, 0)))
    BY <1>0, <2>1, WholeLeaves, LeavesFacts
  <2>3. QED
    BY <2>2, EmptyList
<1>2. ASSUME NEW n \in Nat, n > 0, Leaves(InputBytes(p, n)) = << >>
      PROVE  FALSE
  <2>1. IsList(InputBytes(p, n)) /\ Len(InputBytes(p, n)) = n
    BY InputIsList
  <2>2. n <= Len(Leaves(InputBytes(p, n))) * CHUNK_SIZE
    BY <2>1, LeavesFacts
  <2>3. Len(<< >>) = 0
    OBVIOUS
  <2>4. QED
    BY <1>0, <1>2, <2>2, <2>3
<1>3. QED
  BY <1>1, <1>2

\* Only with blocks of whole leaves do several workers hash.
LEMMA BlockLeaves ==
  ASSUME Typed, Sharded, Hashes
  PROVE  /\ \E k \in Nat : transfer.blocksize = k * CHUNK_SIZE
         /\ \E q \in Nat \ {0} : ChunkSize = q * CHUNK_SIZE
         /\ Wanted > CHUNK_SIZE /\ ChunkSize > CHUNK_SIZE
<1>0. /\ transfer.blocksize \in Nat \ {0} /\ transfer.source \in Nat
      /\ CHUNK_SIZE \in Nat \ {0} /\ transfer \in Transfers
      /\ STRIPE \in Nat \ {0} /\ STRIPE % CHUNK_SIZE = 0 /\ STRIPE > CHUNK_SIZE
  BY TransferFacts, TreeAssumption, ShardsAssumption DEF Typed
<1>1. /\ transfer.blocksize % CHUNK_SIZE = 0
      /\ (IF ExplicitLimit >= 0 THEN Least(ExplicitLimit, FileLength) ELSE FileLength) > CHUNK_SIZE
  BY DEF Sharded, CanParallelBlks
<1>2. PICK k \in Nat : transfer.blocksize = k * CHUNK_SIZE
  BY <1>0, <1>1, MultipleFacts
<1>3. PICK j \in Nat : STRIPE = j * CHUNK_SIZE
  BY <1>0, MultipleFacts
<1>4. k # 0 /\ j # 0
  <2>1. 0 * CHUNK_SIZE = 0
    BY <1>0
  <2>2. QED
    BY <1>0, <1>2, <1>3, <2>1
<1>5. \E q \in Nat \ {0} : ChunkSize = q * CHUNK_SIZE
  BY <1>2, <1>3, <1>4 DEF ChunkSize
<1>6. ChunkSize > CHUNK_SIZE
  BY <1>0 DEF ChunkSize
<1>7. Wanted > CHUNK_SIZE
  <2>1. ExplicitLimit \in Nat \cup {-1}
    BY <1>0, LimitFacts
  <2>2. FileLength \in {0, transfer.source}
    BY DEF FileLength
  <2>3. Wanted = IF ExplicitLimit >= 0 THEN Least(ExplicitLimit, transfer.source) ELSE transfer.source
    BY DEF Wanted
  <2>4. QED
    BY <1>0, <1>1, <2>1, <2>2, <2>3 DEF Least
<1>8. QED
  BY <1>2, <1>5, <1>6, <1>7


\* Another read after whole leaves.
LEMMA HashMore ==
  ASSUME Typed, Geometry, Sharded, Hashes, NEW w \in Workers, Own(w), Hashed(w), NEW n \in Nat,
         Adds(w, n), ~ragged'
  PROVE  Hashed(w)'
<1> DEFINE base == worker[w].base
           done == worker[w].done
<1>0. /\ base \in Nat /\ done \in Nat /\ ChunkLen(w) \in Int /\ Position(w) = base + done
      /\ transfer.source \in Nat /\ CHUNK_SIZE \in Nat \ {0}
  BY Sizes, TreeAssumption DEF Position
<1>1. /\ worker[w].pc = "chunk" /\ worker'[w].base = base /\ Reached(w)' = done + n
      /\ worker'[w].leaves = worker[w].leaves \o Leaves(InputBytes(Position(w), n))
      /\ n >= 1 /\ n <= transfer.source - Position(w)
      /\ \/ n % CHUNK_SIZE = 0 \/ n = transfer.blocksize
         \/ n = ChunkLen(w) - done \/ n = transfer.source - Position(w)
  BY DEF Adds
<1>2. /\ ChunkLen(w)' = ChunkLen(w) /\ transfer' = transfer
  BY <1>1, TeamStays DEF Own, ChunkLen
<1>3. Reached(w) = done /\ done < ChunkLen(w)
  BY <1>1, GeometryParts DEF Reached, Shape
<1>4. PICK a \in Nat : done = a * CHUNK_SIZE
  BY <1>0, <1>1, <1>3 DEF Hashed, InWholeLeaves
<1>5. worker[w].leaves = Leaves(InputBytes(base, done))
  BY <1>3 DEF Hashed
<1> HIDE DEF base, done
<1>6. worker'[w].leaves = Leaves(InputBytes(base, done + n))
  <2>1. Leaves(InputBytes(base, a * CHUNK_SIZE)) \o Leaves(InputBytes(base + a * CHUNK_SIZE, n))
          = Leaves(InputBytes(base, a * CHUNK_SIZE + n))
    BY <1>0, LeavesFollow
  <2>2. QED
    BY <1>0, <1>1, <1>4, <1>5, <2>1
<1>7. ASSUME n % CHUNK_SIZE = 0 \/ n = transfer.blocksize
      PROVE  InWholeLeaves(done + n)
  <2>1. PICK b \in Nat : n = b * CHUNK_SIZE
    BY <1>0, <1>7, MultipleFacts, BlockLeaves
  <2>2. a \in Int /\ b \in Int /\ a + b \in Nat
    OBVIOUS
  <2>3. (a + b) * CHUNK_SIZE = a * CHUNK_SIZE + b * CHUNK_SIZE
    BY <1>0, <2>2, Times
  <2>4. QED
    BY <1>4, <2>1, <2>2, <2>3 DEF InWholeLeaves
<1>8. \/ InWholeLeaves(done + n) \/ done + n = ChunkLen(w) \/ base + (done + n) = transfer.source
  BY <1>0, <1>1, <1>7
<1>9. base + (done + n) <= transfer.source
  BY <1>0, <1>1
<1>10. InWholeLeaves(Reached(w))' <=> InWholeLeaves(done + n)
  BY <1>1 DEF InWholeLeaves
<1>11. Leaves(InputBytes(worker[w].base, Reached(w)))' = Leaves(InputBytes(base, done + n))
  BY <1>1 DEF InputBytes
<1>12. QED
  BY <1>1, <1>2, <1>6, <1>8, <1>9, <1>10, <1>11 DEF Hashed

LEMMA HashedStep ==
  ASSUME Typed, Geometry, Sharded, Hashes, NEW w \in Workers, Own(w), LeafKinds(w), ~ragged',
         Active(w) => Hashed(w), Active(w)'
  PROVE  Hashed(w)'
<1>0. CHUNK_SIZE \in Nat \ {0} /\ next_offset \in Nat /\ transfer' = transfer
  BY TreeAssumption DEF Typed, Own
<1>1. CASE Begun(w)
  <2>1. worker'[w].base = next_offset /\ Reached(w)' = 0 /\ worker'[w].leaves = << >>
    BY <1>1 DEF Begun
  <2>2. Leaves(InputBytes(worker[w].base, Reached(w)))' = Leaves(InputBytes(next_offset, 0))
    BY <2>1 DEF InputBytes
  <2>3. Leaves(InputBytes(next_offset, 0)) = << >>
    BY <1>0, NoLeaves
  <2>4. InWholeLeaves(Reached(w))'
    <3>1. 0 = 0 * CHUNK_SIZE /\ 0 \in Nat
      BY <1>0
    <3>2. QED
      BY <2>1, <3>1 DEF InWholeLeaves
  <2>5. QED
    BY <2>1, <2>2, <2>3, <2>4 DEF Hashed
<1>2. CASE \E n \in Nat : Adds(w, n)
  BY <1>2, HashMore DEF Adds, Active
<1>3. CASE Goes(w)
  <2>1. /\ Active(w) /\ worker'[w].base = worker[w].base /\ Reached(w)' = Reached(w)
        /\ worker'[w].leaves = worker[w].leaves
    BY <1>3 DEF Goes
  <2>2. ChunkLen(w)' = ChunkLen(w)
    BY <2>1, TeamStays DEF ChunkLen
  <2>3. Leaves(InputBytes(worker[w].base, Reached(w)))' = Leaves(InputBytes(worker[w].base, Reached(w)))
    BY <2>1 DEF InputBytes
  <2>4. InWholeLeaves(Reached(w))' <=> InWholeLeaves(Reached(w))
    BY <2>1 DEF InWholeLeaves
  <2>5. QED
    BY <1>0, <2>1, <2>2, <2>3, <2>4 DEF Hashed
<1>4. QED
  BY <1>1, <1>2, <1>3 DEF LeafKinds, Rests, Keeps, Drops

\* A stripe that ends without a failure.
LEMMA StripeEnds ==
  ASSUME Typed, Geometry, Sharded, NEW w \in Workers, Active(w), Hashed(w),
         Reached(w) = ChunkLen(w) \/ worker[w].base + Reached(w) >= transfer.source
  PROVE  /\ worker[w].leaves # << >> =>
              Finished([base |-> worker[w].base, leaves |-> worker[w].leaves])
         /\ worker[w].base < Wanted => worker[w].leaves # << >>
<1> DEFINE base == worker[w].base
           r == Reached(w)
<1>0. /\ base \in Nat /\ worker[w].done \in Nat /\ Len(worker[w].block) \in Nat
      /\ ChunkLen(w) \in Int /\ transfer.source \in Nat /\ ChunkSize \in Nat \ {0}
      /\ TotalBytes \in Nat \cup {-1} /\ next_offset \in Nat /\ Wanted \in Nat
      /\ transfer \in Transfers
  BY Sizes DEF Typed
<1>1. /\ TotalBytes >= 0 => Wanted = Least(TotalBytes, transfer.source)
      /\ TotalBytes < 0 => Wanted = transfer.source
  BY <1>0, LimitFacts
<1>2. /\ base % ChunkSize = 0 /\ base + ChunkSize <= next_offset
      /\ TotalBytes >= 0 => base < TotalBytes
  BY GeometryParts DEF Shape, Owner
<1>3. r \in Nat /\ r <= ChunkLen(w)
  <2>1. CASE worker[w].pc = "chunk"
    BY <1>0, <2>1, GeometryParts DEF Shape, Reached
  <2>2. CASE worker[w].pc = "write"
    BY <1>0, <2>2, GeometryParts DEF Shape, Holding, Reached
  <2>3. QED
    BY <2>1, <2>2 DEF Active
<1>4. ChunkLen(w) = IF TotalBytes >= 0 THEN Least(TotalBytes - base, ChunkSize) ELSE ChunkSize
  BY DEF ChunkLen
<1>5. /\ worker[w].leaves = Leaves(InputBytes(base, r))
      /\ r > 0 => base + r <= transfer.source
      /\ r = ChunkLen(w) \/ base + r >= transfer.source
  BY DEF Hashed
<1> HIDE DEF base, r
<1>6. worker[w].leaves # << >> <=> r > 0
  BY <1>0, <1>3, <1>5, NoLeaves
<1>7. base < Wanted => r > 0
  BY <1>0, <1>1, <1>2, <1>3, <1>4, <1>5 DEF Least
<1>8. r > 0 => base < Wanted /\ r = StripeLen(base)
  BY <1>0, <1>1, <1>2, <1>3, <1>4, <1>5 DEF Least, StripeLen
<1>9. QED
  BY <1>2, <1>5, <1>6, <1>7, <1>8 DEF Finished, base


\* Stripes are only ever added, by a worker that has ended one.
LEMMA StripesGrow ==
  ASSUME Typed, NEW w \in Workers, Own(w), LeafKinds(w), NEW v \in Workers
  PROVE  /\ Len(worker[v].stripes) \in Nat
         /\ \A i \in 1..Len(worker[v].stripes) :
              i \in 1..Len(worker'[v].stripes) /\ worker'[v].stripes[i] = worker[v].stripes[i]
         /\ \A i \in 1..Len(worker'[v].stripes) :
              \/ i \in 1..Len(worker[v].stripes)
              \/ /\ v = w /\ Keeps(w) /\ worker[w].leaves # << >>
                 /\ i = Len(worker[w].stripes) + 1
                 /\ worker'[w].stripes[i] = [base |-> worker[w].base, leaves |-> worker[w].leaves]
         /\ v = w /\ Keeps(w) /\ worker[w].leaves # << >> =>
              /\ Len(worker[w].stripes) + 1 \in 1..Len(worker'[w].stripes)
              /\ worker'[w].stripes[Len(worker[w].stripes) + 1].base = worker[w].base
<1> DEFINE Stripe == [base : Nat, leaves : Seq(Leaf)]
           s == worker[v].stripes
           e == [base |-> worker[w].base, leaves |-> worker[w].leaves]
<1>1. s \in Seq(Stripe) /\ Len(s) \in Nat
  <2>1. worker[v] \in WorkerType
    BY Sizes
  <2>2. QED
    BY <2>1 DEF WorkerType
<1>2. CASE worker'[v].stripes = s
  <2>1. ~(v = w /\ Keeps(w) /\ worker[w].leaves # << >>)
    <3> SUFFICES ASSUME v = w, Keeps(w), worker[w].leaves # << >>
                 PROVE  FALSE
      OBVIOUS
    <3>1. worker'[w].stripes = Append(s, e)
      BY DEF Keeps, Kept
    <3>2. e \in Stripe
      <4>1. worker[w] \in WorkerType
        BY Sizes
      <4>2. QED
        BY <4>1 DEF WorkerType
    <3>3. Len(Append(s, e)) = Len(s) + 1
      BY <1>1, <3>2, AppendProperties
    <3>4. QED
      BY <1>1, <1>2, <3>1, <3>3
  <2>2. QED
    BY <1>1, <1>2, <2>1
<1>3. CASE worker'[v].stripes # s
  <2>1. v = w /\ Keeps(w) /\ worker[w].leaves # << >> /\ worker'[v].stripes = Append(s, e)
    BY <1>3, OthersHash DEF LeafKinds, Rests, Begun, Adds, Goes, Drops, SameStripes, Keeps, Kept
  <2>2. e \in Stripe
    <3>1. worker[w] \in WorkerType
      BY Sizes
    <3>2. QED
      BY <3>1 DEF WorkerType
  <2> HIDE DEF Stripe, e, s
  <2>3. /\ Len(Append(s, e)) = Len(s) + 1
        /\ \A i \in 1..Len(s) : Append(s, e)[i] = s[i]
        /\ Append(s, e)[Len(s) + 1] = e
    BY <1>1, <2>2, AppendProperties
  <2>4. PICK t : t = worker'[v].stripes
    OBVIOUS
  <2>5. /\ Len(t) = Len(s) + 1 /\ \A i \in 1..Len(s) : t[i] = s[i]
        /\ t[Len(s) + 1] = e
    BY <2>1, <2>3, <2>4
  <2>6. /\ \A i \in 1..Len(s) : i \in 1..Len(t) /\ t[i] = s[i]
        /\ \A i \in 1..Len(t) : i \in 1..Len(s) \/ (i = Len(s) + 1 /\ t[i] = e)
        /\ Len(s) + 1 \in 1..Len(t)
    BY <1>1, <2>5
  <2>7. e.base = worker[w].base
    BY DEF e
  <2>8. QED
    BY <1>1, <2>1, <2>4, <2>5, <2>6, <2>7 DEF s, e
<1>4. QED
  BY <1>2, <1>3

LEMMA FinishedStays ==
  ASSUME Typed, Geometry, NEW w \in Workers, Own(w), NEW s, s.base \in Nat, Finished(s)
  PROVE  Finished(s)' /\ next_offset >= s.base + ChunkSize
<1>1. /\ ChunkSize' = ChunkSize /\ Wanted' = Wanted /\ next_offset' >= next_offset
      /\ next_offset \in Nat /\ next_offset' \in Nat /\ ChunkSize \in Nat /\ Wanted \in Nat
  BY TeamStays, OffsetStep, Sizes
<1>2. /\ s.base % ChunkSize = 0 /\ s.base < Wanted /\ s.base + ChunkSize <= next_offset
      /\ s.leaves = Leaves(InputBytes(s.base, StripeLen(s.base)))
  BY DEF Finished
<1>3. s.base + ChunkSize <= next_offset'
  BY <1>1, <1>2
<1>4. QED
  BY <1>1, <1>2, <1>3 DEF Finished, StripeLen, InputBytes


LEMMA StripeBase ==
  ASSUME Typed, NEW w \in Workers, NEW i \in 1..Len(worker[w].stripes)
  PROVE  Begins(w, i) \in Nat
<1>1. worker[w] \in WorkerType
  BY Sizes
<1>2. worker[w].stripes \in Seq([base : Nat, leaves : Seq(Leaf)])
  BY <1>1 DEF WorkerType
<1>3. worker[w].stripes[i] \in [base : Nat, leaves : Seq(Leaf)]
  BY <1>2, ElementOfSeq
<1>4. QED
  BY <1>3 DEF Begins

LEMMA KeptStep ==
  ASSUME Typed, Geometry, Sharded, NEW w \in Workers, Own(w), LeafKinds(w),
         Active(w) => Hashed(w),
         \A v \in Workers : \A i \in 1..Len(worker[v].stripes) : KeptOnce(v, i)
  PROVE  \A v \in Workers : \A i \in 1..Len(worker'[v].stripes) : KeptOnce(v, i)'
<1>0. /\ Workers' = Workers /\ next_offset \in Nat /\ ChunkSize \in Nat \ {0}
      /\ \A v \in Workers : worker[v].base \in Nat
  BY TeamStays, Sizes
<1> DEFINE n == Len(worker[w].stripes)
           new(v, i) == v = w /\ Keeps(w) /\ worker[w].leaves # << >> /\ i = n + 1
<1>1. ASSUME NEW v \in Workers
      PROVE  /\ \A i \in 1..Len(worker[v].stripes) : Begins(v, i)' = Begins(v, i)
             /\ \A i \in 1..Len(worker'[v].stripes) :
                  i \in 1..Len(worker[v].stripes)
                    \/ (new(v, i) /\ Begins(v, i)' = worker[w].base)
  <2>1. ASSUME NEW i \in 1..Len(worker[v].stripes)
        PROVE  Begins(v, i)' = Begins(v, i)
    <3>1. worker'[v].stripes[i] = worker[v].stripes[i]
      BY StripesGrow
    <3>2. QED
      BY <3>1 DEF Begins
  <2>2. ASSUME NEW i \in 1..Len(worker'[v].stripes), ~(i \in 1..Len(worker[v].stripes))
        PROVE  new(v, i) /\ Begins(v, i)' = worker[w].base
    <3>1. /\ new(v, i)
          /\ worker'[w].stripes[i] = [base |-> worker[w].base, leaves |-> worker[w].leaves]
      BY <2>2, StripesGrow
    <3>2. worker'[w].stripes[i].base = worker[w].base
      BY <3>1
    <3>3. QED
      BY <3>1, <3>2 DEF Begins
  <2>3. QED
    BY <2>1, <2>2
<1>2. ASSUME NEW u \in Workers, NEW v \in Workers, NEW i \in 1..Len(worker[v].stripes), Active(u)'
      PROVE  worker'[u].base # Begins(v, i)
  <2>1. CASE u # w
    <3>1. Active(u) /\ worker'[u].base = worker[u].base
      BY <1>2, <2>1, OthersHash
    <3>2. QED
      BY <3>1 DEF KeptOnce
  <2>2. CASE u = w /\ Begun(w)
    <3>1. worker'[w].base = next_offset
      BY <2>2 DEF Begun
    <3>2. Begins(v, i) \in Nat
      BY StripeBase
    <3>3. Begins(v, i) + ChunkSize <= next_offset
      BY <3>2, FinishedStays DEF KeptOnce, Begins
    <3>4. QED
      BY <1>0, <2>2, <3>1, <3>2, <3>3
  <2>3. CASE u = w /\ ~Begun(w)
    <3>1. Active(w) /\ worker'[w].base = worker[w].base
      BY <1>2, <2>3 DEF LeafKinds, Rests, Adds, Goes, Keeps, Drops, Active
    <3>2. QED
      BY <2>3, <3>1 DEF KeptOnce
  <2>4. QED
    BY <2>1, <2>2, <2>3
<1>3. ASSUME NEW v \in Workers, NEW i \in 1..Len(worker'[v].stripes),
             NEW u \in Workers, NEW j \in 1..Len(worker'[u].stripes), u # v \/ j # i
      PROVE  Begins(u, j)' # Begins(v, i)'
  <2>1. CASE i \in 1..Len(worker[v].stripes) /\ j \in 1..Len(worker[u].stripes)
    <3>1. Begins(u, j) # Begins(v, i)
      BY <1>3, <2>1 DEF KeptOnce
    <3>2. QED
      BY <1>1, <2>1, <3>1
  <2>2. CASE i \in 1..Len(worker[v].stripes) /\ new(u, j)
    <3>1. Active(w) /\ Begins(u, j)' = worker[w].base
      BY <1>1, <2>2, StripesGrow DEF Keeps
    <3>2. worker[w].base # Begins(v, i)
      BY <2>2, <3>1 DEF KeptOnce
    <3>3. QED
      BY <1>1, <2>2, <3>1, <3>2
  <2>3. CASE new(v, i) /\ j \in 1..Len(worker[u].stripes)
    <3>1. Active(w) /\ Begins(v, i)' = worker[w].base
      BY <1>1, <2>3, StripesGrow DEF Keeps
    <3>2. worker[w].base # Begins(u, j)
      BY <2>3, <3>1 DEF KeptOnce
    <3>3. QED
      BY <1>1, <2>3, <3>1, <3>2
  <2>4. CASE new(v, i) /\ new(u, j)
    BY <1>3, <2>4
  <2>5. QED
    BY <1>1, <2>1, <2>2, <2>3, <2>4
<1>4. ASSUME NEW v \in Workers, NEW i \in 1..Len(worker'[v].stripes), NEW u \in Workers, Active(u)'
      PROVE  worker'[u].base # Begins(v, i)'
  <2>1. CASE i \in 1..Len(worker[v].stripes)
    BY <1>1, <1>2, <1>4, <2>1
  <2>2. CASE new(v, i) /\ Begins(v, i)' = worker[w].base
    <3>1. Active(w) /\ ~Active(w)'
      BY <2>2 DEF Keeps
    <3>2. u # w
      BY <1>4, <3>1
    <3>3. Active(u) /\ worker'[u].base = worker[u].base
      BY <1>4, <3>2, OthersHash
    <3>4. \/ worker[u].base + ChunkSize <= worker[w].base
          \/ worker[w].base + ChunkSize <= worker[u].base
      BY <3>1, <3>2, <3>3 DEF Geometry, Owner
    <3>5. worker[u].base \in Nat /\ worker[w].base \in Nat
      BY <1>0
    <3>6. QED
      BY <1>0, <2>2, <3>3, <3>4, <3>5
  <2>3. QED
    BY <1>1, <2>1, <2>2
<1>5. ASSUME NEW v \in Workers, NEW i \in 1..Len(worker'[v].stripes)
      PROVE  Finished(worker[v].stripes[i])'
  <2>1. CASE i \in 1..Len(worker[v].stripes)
    <3>1. Finished(worker[v].stripes[i]) /\ worker[v].stripes[i].base \in Nat
      BY <2>1, StripeBase DEF KeptOnce, Begins
    <3>2. worker'[v].stripes[i] = worker[v].stripes[i]
      BY <2>1, StripesGrow
    <3>3. PICK s : s = worker[v].stripes[i] /\ s = worker'[v].stripes[i]
      BY <3>2
    <3>4. Finished(s)'
      BY <3>1, <3>3, FinishedStays
    <3>5. QED
      BY <3>3, <3>4 DEF Finished, InputBytes, StripeLen
  <2>2. CASE ~(i \in 1..Len(worker[v].stripes))
    <3>1. /\ Keeps(w) /\ worker[w].leaves # << >>
          /\ worker'[v].stripes[i] = [base |-> worker[w].base, leaves |-> worker[w].leaves]
      BY <2>2, StripesGrow
    <3>2. PICK s : s = [base |-> worker[w].base, leaves |-> worker[w].leaves]
      OBVIOUS
    <3>3. Finished(s) /\ s.base \in Nat
      BY <1>0, <3>1, <3>2, StripeEnds DEF Keeps
    <3>4. Finished(s)'
      BY <3>3, FinishedStays
    <3>5. s = worker'[v].stripes[i]
      BY <3>1, <3>2
    <3>6. QED
      BY <3>4, <3>5 DEF Finished, InputBytes, StripeLen
  <2>3. QED
    BY <2>1, <2>2
<1>6. QED
  BY <1>0, <1>3, <1>4, <1>5 DEF KeptOnce


LEMMA InHandStep ==
  ASSUME Typed, Geometry, Sharded, NEW w \in Workers, Own(w), LeafKinds(w), ~Broken',
         Active(w) => Hashed(w), NEW base \in Nat, base < Wanted, InHand(base)
  PROVE  InHand(base)'
<1>0. Workers' = Workers
  BY TeamStays
<1>1. PICK v \in Workers : \/ Active(v) /\ worker[v].base = base
                           \/ \E i \in 1..Len(worker[v].stripes) : Begins(v, i) = base
  BY DEF InHand
<1>2. CASE \E i \in 1..Len(worker[v].stripes) : Begins(v, i) = base
  <2>1. PICK i \in 1..Len(worker[v].stripes) : Begins(v, i) = base
    BY <1>2
  <2>2. i \in 1..Len(worker'[v].stripes) /\ worker'[v].stripes[i] = worker[v].stripes[i]
    BY StripesGrow
  <2>3. Begins(v, i)' = base
    BY <2>1, <2>2 DEF Begins
  <2>4. QED
    BY <1>0, <2>2, <2>3 DEF InHand
<1>3. CASE Active(v) /\ worker[v].base = base /\ v # w
  <2>1. Active(v)' /\ worker'[v].base = base
    BY <1>3, OthersHash
  <2>2. QED
    BY <1>0, <2>1 DEF InHand
<1>4. CASE Active(v) /\ worker[v].base = base /\ v = w
  <2>1. ~Drops(w)
    <3>1. worker'[w].failed => Broken'
      BY <1>0 DEF Broken
    <3>2. QED
      BY <3>1 DEF Drops
  <2>2. CASE Keeps(w)
    <3>1. worker[w].leaves # << >>
      BY <1>4, <2>2, StripeEnds DEF Keeps
    <3>2. /\ Len(worker[w].stripes) + 1 \in 1..Len(worker'[w].stripes)
          /\ worker'[w].stripes[Len(worker[w].stripes) + 1].base = worker[w].base
      BY <2>2, <3>1, StripesGrow
    <3>3. PICK i \in 1..Len(worker'[w].stripes) : worker'[w].stripes[i].base = base
      BY <1>4, <3>2
    <3>4. Begins(w, i)' = base
      BY <3>3 DEF Begins
    <3>5. QED
      BY <1>0, <3>4 DEF InHand
  <2>3. CASE ~Keeps(w)
    <3>1. Active(w)' /\ worker'[w].base = base
      BY <1>4, <2>1, <2>3 DEF LeafKinds, Rests, Begun, Adds, Goes, Active
    <3>2. QED
      BY <1>0, <3>1 DEF InHand
  <2>4. QED
    BY <2>2, <2>3
<1>5. QED
  BY <1>1, <1>2, <1>3, <1>4

LEMMA SameMultiple ==
  ASSUME NEW c \in Nat \ {0}, NEW a \in Nat, NEW b \in Nat, a % c = 0, b % c = 0,
         b <= a, a < b + c
  PROVE  a = b
<1>1. PICK i \in Nat : a = i * c
  BY MultipleFacts
<1>2. PICK j \in Nat : b = j * c
  BY MultipleFacts
<1>3. /\ i \in Int /\ j \in Int /\ j + 1 \in Int
  OBVIOUS
<1>4. /\ (j + 1) * c = j * c + c /\ i * c \in Int /\ j * c \in Int
      /\ (j + 1 <= i => (j + 1) * c <= i * c)
      /\ (i <= j - 1 => i * c <= (j - 1) * c) /\ (j - 1) * c = j * c - c
  BY <1>3, Times
<1>5. ~(j + 1 <= i) /\ ~(i <= j - 1)
  BY <1>1, <1>2, <1>4
<1>6. i = j
  BY <1>3, <1>5
<1>7. QED
  BY <1>1, <1>2, <1>6

LEMMA LeafedStep ==
  ASSUME Typed, Several, Sharded, Hashes, Leafed, NEW w \in Workers, Own(w), LeafKinds(w),
         ~ragged'
  PROVE  Leafed'
<1>0. /\ Geometry /\ Workers' = Workers /\ ChunkSize' = ChunkSize /\ Wanted' = Wanted
      /\ ChunkSize \in Nat \ {0} /\ next_offset \in Nat /\ next_offset' \in Nat
      /\ TotalBytes \in Nat \cup {-1} /\ Wanted \in Nat
  BY TeamStays, Sizes, OffsetStep DEF Several
<1>1. \A v \in Workers : Active(v) => Hashed(v)
  BY DEF Leafed
<1>2. ASSUME NEW v \in Workers, Active(v)'
      PROVE  Hashed(v)'
  <2>1. CASE v = w
    BY <1>0, <1>1, <1>2, <2>1, HashedStep
  <2>2. CASE v # w
    BY <1>1, <1>2, <2>2, OthersHash
  <2>3. QED
    BY <2>1, <2>2
<1>3. \A v \in Workers : \A i \in 1..Len(worker'[v].stripes) : KeptOnce(v, i)'
  BY <1>0, <1>1, KeptStep DEF Leafed
<1>4. ASSUME ~Broken', NEW base \in Nat, base % ChunkSize = 0, base < next_offset', base < Wanted
      PROVE  InHand(base)'
  <2>1. ~Broken
    BY <1>0, <1>4, FailedStays
  <2>2. CASE base < next_offset
    <3>1. InHand(base)
      BY <1>4, <2>1, <2>2 DEF Leafed
    <3>2. QED
      BY <1>0, <1>1, <1>4, <3>1, InHandStep
  <2>3. CASE ~(base < next_offset)
    <3>1. next_offset' = next_offset + ChunkSize
      BY <1>4, <2>3 DEF LeafKinds, Rests, Begun, Adds, Goes, Keeps, Drops
    <3>2. ~AllClaimed
      <4>1. transfer \in Transfers
        BY DEF Typed
      <4>2. TotalBytes >= 0 => Wanted <= TotalBytes
        BY <1>0, <4>1, LimitFacts DEF Least
      <4>3. QED
        BY <1>0, <1>4, <2>3, <4>2 DEF AllClaimed
    <3>3. Begun(w)
      BY <1>0, <3>1, <3>2 DEF LeafKinds, Rests, Adds, Goes, Keeps, Drops
    <3>4. base = next_offset
      <4>1. next_offset % ChunkSize = 0
        BY <1>0 DEF Geometry
      <4>2. next_offset <= base /\ base < next_offset + ChunkSize
        BY <1>0, <1>4, <2>3, <3>1
      <4>3. QED
        BY <1>0, <1>4, <4>1, <4>2, SameMultiple
    <3>5. Active(w)' /\ worker'[w].base = base
      BY <3>3, <3>4 DEF Begun
    <3>6. QED
      BY <1>0, <3>5 DEF InHand
  <2>4. QED
    BY <2>2, <2>3
<1>5. QED
  BY <1>0, <1>2, <1>3, <1>4 DEF Leafed


\* Leafed is about the workers and what they have claimed.
LEMMA LeafedStays ==
  ASSUME Leafed, UNCHANGED <<transfer, next_offset, worker>>
  PROVE  Leafed'
<1>1. /\ worker' = worker /\ transfer' = transfer /\ next_offset' = next_offset
      /\ ChunkSize' = ChunkSize /\ Wanted' = Wanted /\ TotalBytes' = TotalBytes
      /\ Workers' = Workers /\ (Broken' <=> Broken)
  BY Fixed DEF Workers, Broken
<1>2. \A w : /\ Active(w)' <=> Active(w)
             /\ \A i : Begins(w, i)' = Begins(w, i)
  BY <1>1 DEF Active, Begins
<1>3. \A w : Hashed(w)' <=> Hashed(w)
  <2>1. \A w : Reached(w)' = Reached(w) /\ ChunkLen(w)' = ChunkLen(w)
    BY <1>1 DEF Reached, ChunkLen, Least
  <2>2. QED
    BY <1>1, <2>1 DEF Hashed, InputBytes, InWholeLeaves
<1>4. \A s : Finished(s)' <=> Finished(s)
  BY <1>1 DEF Finished, StripeLen, InputBytes
<1>5. \A w, i : KeptOnce(w, i)' <=> KeptOnce(w, i)
  BY <1>1, <1>2, <1>4 DEF KeptOnce
<1>6. \A base : InHand(base)' <=> InHand(base)
  BY <1>1, <1>2 DEF InHand
<1>7. QED
  BY <1>1, <1>2, <1>3, <1>5, <1>6 DEF Leafed

\* The threads begin with nothing.
LEMMA LeafedStart ==
  ASSUME Typed, Leafed, Sharded, Start
  PROVE  Leafed'
<1>1. /\ mode = "start" /\ worker' = [w \in 1..transfer.threads |-> NewWorker]
      /\ transfer' = transfer /\ next_offset' = next_offset
      /\ ChunkSize' = ChunkSize /\ Wanted' = Wanted
  BY Fixed DEF Start, shared
<1>2. Workers = {} /\ ~Broken
  BY <1>1, Team DEF Broken
<1>3. Workers' = 1..transfer.threads
  <2>1. transfer.threads \in Nat
    BY TransferFacts DEF Typed
  <2>2. worker' \in [1..transfer.threads -> {NewWorker}]
    BY <1>1
  <2>3. Len(worker') = transfer.threads
    BY <2>1, <2>2, LengthFacts
  <2>4. QED
    BY <2>3 DEF Workers
<1>4. \A w \in Workers' : ~Active(w)' /\ worker'[w].stripes = << >>
  BY <1>1, <1>3 DEF Active, NewWorker
<1>5. Len(<< >>) = 0 /\ 1..0 = {}
  OBVIOUS
<1>6. \A w \in Workers' : 1..Len(worker'[w].stripes) = {}
  BY <1>4, <1>5
<1>7. \A base \in Nat : ~(base % ChunkSize = 0 /\ base < next_offset /\ base < Wanted)
  BY <1>2 DEF Leafed, InHand
<1>8. QED
  BY <1>1, <1>4, <1>6, <1>7 DEF Leafed



\* When all have ended and none has failed, the stripes in order have the
\* leaves of what is copied.
LEMMA StripesTogether ==
  ASSUME Typed, Several, Leafed, Hashes, mode = "sharded",
         \A w \in Workers : worker[w].pc = "ended" /\ ~worker[w].failed
  PROVE  AllLeaves = Leaves(Copied)
<1> DEFINE seqs == [w \in Workers |-> worker[w].stripes]
           F == FlattenSeq(seqs)
           c == ChunkSize
           T == stats_bytes
<1>0. /\ T \in Nat /\ T = Least(next_offset, Wanted) /\ next_offset \in Nat /\ Wanted \in Nat
      /\ c \in Nat \ {0} /\ Sharded /\ ~Broken
      /\ Workers = 1..Len(worker) /\ Len(worker) \in Nat
  <2>1. T \in Nat /\ T = Least(next_offset, Wanted)
    BY AllThere
  <2>2. next_offset \in Nat /\ Wanted \in Nat /\ c \in Nat \ {0} /\ Sharded
    BY LimitFacts DEF Typed
  <2>3. Len(worker) \in Nat
    <3>1. worker \in [1..transfer.threads -> WorkerType] /\ transfer.threads \in Nat
      BY TransferFacts DEF Typed
    <3>2. QED
      BY <3>1, LengthFacts
  <2>4. QED
    BY <2>1, <2>2, <2>3 DEF Broken, Workers
<1>1. /\ IsList(seqs) /\ Len(seqs) = Len(worker)
      /\ \A w \in Workers : seqs[w] = worker[w].stripes /\ IsList(seqs[w])
  <2>1. ASSUME NEW w \in Workers
        PROVE  seqs[w] = worker[w].stripes /\ IsList(seqs[w])
    <3>1. worker[w] \in WorkerType
      BY Sizes
    <3>2. worker[w].stripes \in Seq([base : Nat, leaves : Seq(Leaf)])
      BY <3>1 DEF WorkerType
    <3>3. QED
      BY <3>2, SeqIsList
  <2>2. PICK n \in Nat : n = Len(worker) /\ Workers = 1..n
    BY <1>0
  <2>3. seqs = [w \in 1..n |-> seqs[w]]
    BY <2>2
  <2> HIDE DEF seqs
  <2>4. IsList(seqs) /\ Len(seqs) = n
    BY <2>3, MakesList
  <2>5. QED
    BY <2>1, <2>2, <2>4
<1> HIDE DEF seqs
<1>2. AllDistinct(seqs)
  <2>1. \A v, w \in Workers : \A i \in 1..Len(worker[w].stripes), j \in 1..Len(worker[v].stripes) :
          v # w \/ j # i => Begins(v, j) # Begins(w, i)
    BY DEF Leafed, KeptOnce
  <2>2. ASSUME NEW i \in 1..Len(seqs), NEW h \in 1..Len(seqs), NEW j \in 1..Len(seqs[i]),
               NEW l \in 1..Len(seqs[h]), i # h \/ j # l
        PROVE  seqs[i][j].base # seqs[h][l].base
    <3>1. i \in Workers /\ h \in Workers /\ seqs[i] = worker[i].stripes /\ seqs[h] = worker[h].stripes
      BY <1>0, <1>1
    <3>2. Begins(i, j) # Begins(h, l)
      BY <2>1, <2>2, <3>1
    <3>3. QED
      BY <3>1, <3>2 DEF Begins
  <2>3. QED
    BY <2>2 DEF AllDistinct
<1>3. Gathers(F, seqs, Len(seqs)) /\ Distinct(F)
  BY <1>0, <1>1, <1>2, FlattenGathers
<1> HIDE DEF F
<1>4. IsList(F) /\ Len(F) \in Nat
  BY <1>3, ListFacts DEF Gathers
<1>5. ASSUME NEW k \in 1..Len(F)
      PROVE  Finished(F[k]) /\ F[k].base \in Nat
  <2>1. PICK w \in Workers : \E j \in 1..Len(seqs[w]) : F[k] = seqs[w][j]
    BY <1>0, <1>1, <1>3 DEF Gathers
  <2>2. PICK j \in 1..Len(worker[w].stripes) : F[k] = worker[w].stripes[j]
    BY <1>1, <2>1
  <2>3. KeptOnce(w, j)
    BY DEF Leafed
  <2>4. Begins(w, j) \in Nat
    BY StripeBase
  <2>5. QED
    BY <2>2, <2>3, <2>4 DEF KeptOnce, Begins
<1>6. ASSUME NEW base \in Nat, base % c = 0, base < T
      PROVE  \E k \in 1..Len(F) : F[k].base = base
  <2>1. base < next_offset /\ base < Wanted
    BY <1>0, <1>6 DEF Least
  <2>2. InHand(base)
    BY <1>0, <1>6, <2>1 DEF Leafed
  <2>3. PICK w \in Workers : \E i \in 1..Len(worker[w].stripes) : Begins(w, i) = base
    BY <2>2 DEF InHand, Active
  <2>4. PICK i \in 1..Len(seqs[w]) : seqs[w][i].base = base
    BY <1>1, <2>3 DEF Begins
  <2>5. \E k \in 1..Len(F) : F[k] = seqs[w][i]
    BY <1>0, <1>1, <1>3, <2>3, <2>4 DEF Gathers
  <2>6. QED
    BY <2>4, <2>5
<1>7. ASSUME NEW k \in 1..Len(F)
      PROVE  F[k].base + c <= next_offset /\ F[k].base < Wanted /\ F[k].base < T
  <2>1. Finished(F[k]) /\ F[k].base \in Nat
    BY <1>5
  <2>2. F[k].base < Wanted /\ F[k].base + c <= next_offset
    BY <2>1 DEF Finished
  <2>3. QED
    BY <1>0, <2>1, <2>2 DEF Least
<1>8. Tiles(F, c, T)
  <2>1. ASSUME NEW i \in 1..Len(F)
        PROVE  \E k \in Nat : F[i].base = k * c /\ k * c < T
    <3>1. F[i].base % c = 0 /\ F[i].base \in Nat /\ F[i].base < T
      BY <1>5, <1>7 DEF Finished
    <3> HIDE DEF c, T
    <3>2. PICK k \in Nat : F[i].base = k * c
      BY <1>0, <3>1, MultipleFacts
    <3>3. QED
      BY <3>1, <3>2
  <2>2. ASSUME NEW k \in Nat, k * c < T
        PROVE  \E i \in 1..Len(F) : F[i].base = k * c
    <3> HIDE DEF c, T
    <3>1. k \in Int /\ k >= 0
      OBVIOUS
    <3>2. k * c \in Int /\ k * c >= 0
      BY <1>0, <3>1, Times
    <3>3. PICK n \in Nat : n = k * c
      BY <3>2
    <3>4. n % c = 0
      BY <1>0, <3>3, MultipleFacts
    <3>5. QED
      BY <1>6, <2>2, <3>3, <3>4
  <2> HIDE DEF c, T
  <2>3. QED
    BY <2>1, <2>2 DEF Tiles
<1> DEFINE sorted == Sorted(F)
           parts == [i \in 1..Len(sorted) |-> sorted[i].leaves]
<1>9. /\ IsList(sorted) /\ Len(sorted) = Len(F)
      /\ \A i \in 1..Len(F) : sorted[i].base = (i - 1) * c /\ \E j \in 1..Len(F) : sorted[i] = F[j]
  <2> HIDE DEF c, T
  <2> QED
    BY <1>0, <1>3, <1>4, <1>8, SortedTiles
<1>10. T <= Len(F) * c /\ (Len(F) > 0 => (Len(F) - 1) * c < T)
  <2> HIDE DEF c, T
  <2> QED
    BY <1>0, <1>3, <1>4, <1>8, TilesNumber
<1>11. AllLeaves = FlattenSeq(parts)
  BY DEF AllLeaves, F, seqs
<1> HIDE DEF sorted
<1>12. IsList(parts) /\ Len(parts) = Len(F)
  <2>1. PICK n \in Nat : n = Len(F)
    BY <1>4
  <2>2. parts = [i \in 1..n |-> parts[i]]
    BY <1>9, <2>1
  <2> HIDE DEF parts
  <2>3. QED
    BY <2>1, <2>2, MakesList
<1>13. ASSUME NEW i \in 1..Len(F)
       PROVE  parts[i] = Leaves(InputBytes((i - 1) * c, Least(c, T - (i - 1) * c)))
  <2>1. PICK j \in 1..Len(F) : sorted[i] = F[j]
    BY <1>9
  <2>2. PICK b \in Nat : b = F[j].base
    BY <1>5
  <2>3. b = (i - 1) * c
    BY <1>9, <2>1, <2>2
  <2>4. F[j].leaves = Leaves(InputBytes(b, Least(c, Wanted - b)))
    BY <1>5, <2>2 DEF Finished, StripeLen
  <2>5. Least(c, Wanted - b) = Least(c, T - b)
    <3>1. b + c <= next_offset /\ b < Wanted
      BY <1>7, <2>2
    <3> HIDE DEF c, T
    <3>2. QED
      BY <1>0, <3>1 DEF Least
  <2>6. parts[i] = F[j].leaves
    BY <1>9, <2>1
  <2>7. QED
    BY <2>3, <2>4, <2>5, <2>6
<1> HIDE DEF parts
<1>14. PICK q \in Nat \ {0} : c = q * CHUNK_SIZE
  BY <1>0, BlockLeaves
<1>15. FlattenSeq(parts) = Leaves(InputBytes(0, T))
  <2> HIDE DEF c, T
  <2>1. T <= Len(parts) * c /\ (Len(parts) > 0 => (Len(parts) - 1) * c < T)
    BY <1>10, <1>12
  <2>2. \A i \in 1..Len(parts) : parts[i] = Leaves(InputBytes((i - 1) * c, Least(c, T - (i - 1) * c)))
    BY <1>12, <1>13
  <2>3. QED
    BY <1>0, <1>12, <1>14, <2>1, <2>2, LeavesJoin
<1>16. QED
  BY <1>11, <1>15 DEF Copied



LEMMA CopiedFacts ==
  ASSUME Typed
  PROVE  /\ Copied \in Seq(Nat) /\ IsList(Copied) /\ Len(Copied) = stats_bytes
         /\ HashSlice(Copied) = Tree(Copied)
<1>1. 0 \in Nat /\ stats_bytes \in Nat
  BY DEF Typed
<1>2. Copied \in Seq(Nat) /\ IsList(Copied) /\ Len(Copied) = stats_bytes
  BY <1>1, BytesType, InputIsList DEF Copied
<1>3. QED
  BY <1>2, SubtreesChangeNothing

\* The digest of the workers' leaves.
LEMMA ShardedDigest ==
  ASSUME Typed, Several, Leafed, Hashes, mode = "sharded",
         \A w \in Workers : worker[w].pc = "ended" /\ ~worker[w].failed
  PROVE  IF stats_bytes = 0 THEN AllLeaves = << >> ELSE Digest = HashSlice(Copied)
<1>0. /\ Sharded /\ stats_bytes \in Nat /\ next_offset \in Nat /\ Wanted \in Nat
      /\ ChunkSize \in Nat \ {0} /\ CHUNK_SIZE \in Nat
      /\ next_offset % ChunkSize = 0
  BY LimitFacts, TreeAssumption DEF Typed, Several, Geometry
<1>1. AllLeaves = Leaves(Copied)
  BY StripesTogether
<1>2. stats_bytes = Least(next_offset, Wanted)
  BY AllThere
<1>3. CASE stats_bytes = 0
  <2>1. Leaves(InputBytes(0, 0)) = << >>
    BY NoLeaves
  <2>2. QED
    BY <1>1, <1>3, <2>1 DEF Copied
<1>4. CASE stats_bytes # 0
  <2>1. next_offset >= ChunkSize
    <3>1. 0 % ChunkSize = 0 /\ 0 \in Nat
      BY <1>0
    <3>2. next_offset < 0 + ChunkSize => next_offset = 0
      BY <1>0, <3>1, SameMultiple
    <3>3. next_offset # 0
      BY <1>0, <1>2, <1>4 DEF Least
    <3>4. QED
      BY <1>0, <3>2, <3>3
  <2>2. Wanted > CHUNK_SIZE /\ ChunkSize > CHUNK_SIZE
    BY <1>0, BlockLeaves
  <2>3. stats_bytes > CHUNK_SIZE
    BY <1>0, <1>2, <2>1, <2>2 DEF Least
  <2>4. Tree(Copied) = ReduceNodes(Leaves(Copied), TRUE)
    <3>1. ~(Len(Copied) <= CHUNK_SIZE)
      BY <1>0, <2>3, CopiedFacts
    <3>2. QED
      BY <3>1, Zenon DEF Tree
  <2>5. Leaves(Copied) # << >>
    BY <1>0, <1>4, NoLeaves DEF Copied
  <2>6. Digest = ReduceNodes(AllLeaves, TRUE)
    BY <1>0, <1>1, <2>5 DEF Digest
  <2>7. QED
    BY <1>1, <1>4, <2>4, <2>6, CopiedFacts
<1>5. QED
  BY <1>3, <1>4


------------------------------------------------------------------------------
(* The digest                                                                *)

\* What is hashed while the transfer runs: the leaves of whole stripes, as long
\* as no read has ended inside a leaf, or all the bytes in one hasher.
Digested ==
  /\ Hashes /\ Sharded /\ ~ragged => Leafed
  /\ Hashes /\ ~Sharded => Represents(hasher, Copied)

\* A block of the single ring.
LEMMA SingleHashes ==
  ASSUME Typed, Alone, Hashes, ~Sharded, SingleBlock, Represents(hasher, Copied)
  PROVE  Represents(hasher, Copied)'
<1>1. in_offset \in Nat /\ stats_bytes = in_offset /\ transfer' = transfer
  BY DEF Typed, Alone, SingleBlock
<1>2. PICK n \in 1..Least(transfer.blocksize, SingleLeft) :
        /\ hasher' = Update(hasher, InputBytes(in_offset, n))
        /\ stats_bytes' = stats_bytes + n
  BY DEF SingleBlock
<1>3. n \in Nat
  <2>1. SingleLeft \in Int /\ transfer.blocksize \in Nat
    BY <1>1, LimitFacts, TransferFacts DEF SingleLeft, Typed, Least
  <2>2. QED
    BY <2>1 DEF Least
<1>4. IsList(Copied) /\ IsList(InputBytes(in_offset, n))
  BY <1>1, <1>3, CopiedFacts, InputIsList
<1>5. Represents(hasher', Copied \o InputBytes(in_offset, n))
  BY <1>2, <1>4, UpdateRepresents
<1>6. Copied \o InputBytes(in_offset, n) = Copied'
  <2>1. InputBytes(0, in_offset) \o InputBytes(0 + in_offset, n) = InputBytes(0, in_offset + n)
    BY <1>1, <1>3, InputConcat
  <2>2. Copied' = InputBytes(0, in_offset + n)
    BY <1>1, <1>2 DEF Copied, InputBytes
  <2>3. 0 + in_offset = in_offset
    BY <1>1
  <2>4. QED
    BY <1>1, <2>1, <2>2, <2>3 DEF Copied
<1>7. QED
  BY <1>5, <1>6

LEMMA DigestedInit ==
  ASSUME Init
  PROVE  Digested
<1>1. worker = << >> /\ next_offset = 0 /\ stats_bytes = 0 /\ hasher = NewHasher
  BY DEF Init
<1>2. Leafed
  <2>1. Workers = {}
    BY <1>1 DEF Workers
  <2>2. \A base \in Nat : ~(base < next_offset)
    BY <1>1
  <2>3. QED
    BY <2>1, <2>2 DEF Leafed
<1>3. Represents(hasher, Copied)
  <2>1. InputBytes(0, 0) = << >>
    BY InputIsList, EmptyList
  <2>2. QED
    BY <1>1, <2>1, NewRepresents DEF Copied
<1>4. QED
  BY <1>2, <1>3 DEF Digested


\* Once a read has ended inside a leaf, this is never forgotten.
LEMMA RaggedStays ==
  ASSUME Next, ragged
  PROVE  ragged'
<1>1. CASE Caller \/ SingleFails \/ Cancel
  BY <1>1 DEF Caller, Start, SingleBlock, SingleEnds, Joined, SingleFails, Cancel
<1>2. ASSUME NEW w \in Workers, Worker(w) \/ WorkerFails(w)
      PROVE  ragged'
  BY <1>2 DEF Worker, WorkerStarts, WorkerGoesOn, WorkerLeaves, WorkerClaims, WorkerCancelled,
     WorkerReads, WorkerMeetsEnd, WorkerWrites, WorkerFails
<1>3. QED
  BY <1>1, <1>2 DEF Next

LEMMA DigestedStep ==
  ASSUME IInv, Digested, [Next]_vars
  PROVE  Digested'
<1>0. /\ Typed /\ (Sharded => Several) /\ (~Sharded => Alone)
  BY DEF IInv
<1>1. ~ragged' => ~ragged
  <2>1. ragged \in BOOLEAN
    BY <1>0 DEF Typed
  <2>2. QED
    BY <2>1, RaggedStays DEF vars
<1>2. transfer' = transfer /\ (Hashes' <=> Hashes) /\ (Sharded' <=> Sharded)
  <2>1. transfer' = transfer
    BY DEF Next, Caller, Start, SingleBlock, SingleEnds, Joined, SingleFails, Cancel, Worker,
       WorkerStarts, WorkerGoesOn, WorkerLeaves, WorkerClaims, WorkerCancelled, WorkerReads,
       WorkerMeetsEnd, WorkerWrites, WorkerFails, vars
  <2>2. QED
    BY SMTT(30), <2>1, Fixed DEF Hashes
<1>3. ASSUME Hashes, Sharded, ~ragged'
      PROVE  Leafed'
  <2>1. Leafed /\ Several
    BY <1>0, <1>1, <1>3 DEF Digested
  <2>2. ASSUME NEW w \in Workers, Step(w)
        PROVE  Leafed'
    <3>1. Own(w) /\ LeafKinds(w)
      BY <1>0, <1>3, <2>2, OwnPart, LeafStep
    <3>2. QED
      BY <1>0, <1>3, <2>1, <3>1, LeafedStep
  <2>3. CASE Start
    BY <1>0, <1>3, <2>1, <2>3, LeafedStart
  <2>4. CASE SingleBlock \/ SingleEnds \/ SingleFails \/ Joined \/ Cancel \/ UNCHANGED vars
    <3>1. UNCHANGED <<transfer, next_offset, worker>>
      BY <2>4 DEF SingleBlock, SingleEnds, SingleFails, Joined, Cancel, shared, vars
    <3>2. QED
      BY <2>1, <3>1, LeafedStays
  <2>5. QED
    BY <2>2, <2>3, <2>4 DEF Next, Caller, Step
<1>4. ASSUME Hashes, ~Sharded
      PROVE  Represents(hasher, Copied)'
  <2>1. Represents(hasher, Copied) /\ Alone
    BY <1>0, <1>4 DEF Digested
  <2>2. CASE SingleBlock
    BY <1>0, <1>4, <2>1, <2>2, SingleHashes
  <2>3. CASE ~SingleBlock
    <3>1. Workers = {}
      BY <1>0, <1>4, Team
    <3>2. hasher' = hasher /\ stats_bytes' = stats_bytes
      BY <2>3, <3>1 DEF Next, Caller, Start, SingleEnds, SingleFails, Joined, Cancel, single, vars
    <3>3. Copied' = Copied
      BY <3>2 DEF Copied, InputBytes
    <3>4. QED
      BY <2>1, <3>2, <3>3
  <2>4. QED
    BY <2>2, <2>3
<1>5. QED
  BY <1>2, <1>3, <1>4 DEF Digested

\* A transfer that ends with Ok has the digest of what it has copied.
LEMMA DigestAtEnd ==
  ASSUME IInv, Digested, SingleEnds \/ Joined, result' = "ok", Hashes, ~ragged
  PROVE  IF Sharded /\ stats_bytes = 0 THEN AllLeaves = << >> ELSE Digest = HashSlice(Copied)
<1>0. /\ Typed /\ (Sharded => Several)
  BY DEF IInv
<1>1. CASE SingleEnds
  <2>1. ~Sharded
    BY <1>0, <1>1 DEF SingleEnds, Typed
  <2>2. Finalize(hasher) = Tree(Copied)
    BY <1>0, <2>1, CopiedFacts, FinalizeTree DEF Digested
  <2>3. QED
    BY <1>0, <2>1, <2>2, CopiedFacts DEF Digest
<1>2. CASE Joined
  <2>1. /\ mode = "sharded" /\ Sharded
        /\ \A w \in Workers : worker[w].pc = "ended" /\ ~worker[w].failed
    BY <1>0, <1>2 DEF Joined, Finish, Typed
  <2>2. QED
    BY <1>0, <2>1, ShardedDigest DEF Digested
<1>3. QED
  BY <1>1, <1>2

LEMMA CanonicalStep ==
  ASSUME IInv, Digested, DigestIsCanonical, [Next]_vars
  PROVE  DigestIsCanonical'
<1>0. Typed
  BY DEF IInv
<1>1. CASE SingleEnds \/ SingleFails \/ Joined \/ UNCHANGED vars
  <2>1. /\ UNCHANGED <<transfer, worker, hasher, stats_bytes, ragged>>
    BY <1>1 DEF SingleEnds, SingleFails, Joined, single, vars
  <2>2. /\ (Sharded' <=> Sharded) /\ (Hashes' <=> Hashes) /\ Copied' = Copied
        /\ AllLeaves' = AllLeaves
    BY <2>1, Fixed DEF Hashes, Copied, InputBytes, AllLeaves, Workers
  <2>3. Digest' = Digest
    BY <2>1, <2>2 DEF Digest
  <2>4. ASSUME result' = "ok", Hashes, ~ragged
        PROVE  IF Sharded /\ stats_bytes = 0 THEN AllLeaves = << >>
               ELSE Digest = HashSlice(Copied)
    <3>1. CASE SingleEnds \/ Joined
      BY <2>4, <3>1, DigestAtEnd
    <3>2. CASE SingleFails
      BY <2>4, <3>2 DEF SingleFails, Finish
    <3>3. CASE UNCHANGED vars
      <4>1. result = "ok"
        BY <2>4, <3>3 DEF vars, ending
      <4>2. QED
        BY <2>4, <4>1 DEF DigestIsCanonical
    <3>4. QED
      BY <1>1, <3>1, <3>2, <3>3
  <2>5. QED
    BY <2>1, <2>2, <2>3, <2>4 DEF DigestIsCanonical
<1>2. CASE ~(SingleEnds \/ SingleFails \/ Joined \/ UNCHANGED vars)
  <2>1. mode # "done" /\ result' = result
    BY <1>2 DEF Next, Caller, Start, SingleBlock, Cancel, Worker, WorkerStarts, WorkerGoesOn,
       WorkerLeaves, WorkerClaims, WorkerCancelled, WorkerReads, WorkerMeetsEnd, WorkerWrites,
       WorkerFails, At, ending
  <2>2. result' # "ok"
    BY <1>0, <2>1 DEF Typed
  <2>3. QED
    BY SMTT(30), <2>2 DEF DigestIsCanonical
<1>3. QED
  BY <1>1, <1>2

(***************************************************************************)
(* "Guarantees bit-exact identical tree structures across multithreaded    *)
(* and streaming paths" (tree.rs:111): whoever copies which stripe when,   *)
(* and however long the reads are, the digest of an Ok transfer is that of *)
(* the bytes it copied hashed as one slice, unless a worker's read ends    *)
(* inside a leaf.                                                          *)
(***************************************************************************)
THEOREM DigestsAgree ==
  Spec => []DigestIsCanonical
<1>1. Init => IInv /\ Digested /\ DigestIsCanonical
  BY InitInv, DigestedInit DEF Init, DigestIsCanonical
<1>2. IInv /\ Digested /\ DigestIsCanonical /\ [Next]_vars
        => (IInv /\ Digested /\ DigestIsCanonical)'
  BY StepInv, DigestedStep, CanonicalStep
<1>3. QED
  BY <1>1, <1>2, PTL DEF Spec

==============================================================================
