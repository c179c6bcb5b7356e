---------------------------- MODULE CopyLoop_proofs ----------------------------
(***************************************************************************)
(* Proofs about CopyLoop: the central loop with the synchronous and the    *)
(* kernel-copy drivers, for every set of command lines, sequence of        *)
(* autotune stages and record limit.                                       *)
(***************************************************************************)
EXTENDS CopyLoop, SequenceTheorems, TLAPS

------------------------------------------------------------------------------
(* The inductive invariant                                                   *)

Pcs == {"start", "loop", "step", "drain", "tick", "flush", "flush_drain", "done"}

Sizes == {cfg.blocksize} \cup Range(autotune_stages)

Typed ==
  /\ cfg \in Configs /\ pc \in Pcs
  /\ driver \in {"none", "sync", "reflink", "splice"}
  /\ exit_status \in {"success", "failure"}
  /\ blocksize \in Sizes
  /\ max_records \in Nat /\ max_bytes \in Nat /\ records \in Nat /\ w_bytes \in Nat
  /\ at \in [active : BOOLEAN, first : Nat, stage : Nat, blocks : 0..3]
  /\ at.first <= at.stage /\ at.stage < Len(autotune_stages)
  /\ partread \in 0..cfg.source
  /\ saved \in Seq(Int) /\ pending \in Seq(Int) /\ out \in Seq(Int) /\ hashed \in Seq(Int)
  /\ in_off \in Nat /\ out_off \in Nat /\ in_file_pos \in Nat /\ out_file_pos \in Nat
  /\ write_error \in BOOLEAN

KernelDriver == driver \in {"reflink", "splice"}

Leaving == pc \in {"flush", "flush_drain", "done"}

\* Which driver is at work where, and where its descriptors are.
Placed ==
  /\ pc = "start" => driver = "none"
  /\ driver = "none" =>
       /\ pc \in {"start", "done"} /\ records = 0 /\ w_bytes = 0 /\ Consumed = 0
       /\ out = << >> /\ hashed = << >> /\ pending = << >> /\ saved = << >>
       /\ ~write_error
  /\ pc \in {"drain", "tick"} => driver = "sync"
  /\ pc = "drain" => Has("swab")
  /\ KernelDriver => cfg.conversions \cap {"swab", "sync", "sha256"} = {}
  /\ Consumed <= cfg.source /\ SourcePos = Consumed
  /\ out_off + out_file_pos = Len(out) /\ SinkPos = Len(out)
  /\ Len(saved) <= 1
  /\ pc \notin {"drain", "flush_drain"} => Len(pending) < blocksize
  /\ at.active => Has("autotune")
  /\ ~Has("autotune") => blocksize = cfg.blocksize

\* s has the first k bytes of the input in their order, and padding.
Rising(s, k) ==
  /\ k <= Len(s) /\ Range(s) \ {0} = 1..k
  /\ \A i, j \in DOMAIN s : i < j /\ s[j] # 0 => s[i] < s[j]

\* Without --swab everything read is written by the same step.
Direct ==
  ~Has("swab") =>
    /\ pending = << >> /\ saved = << >>
    /\ write_error => exit_status = "failure" /\ Leaving
    /\ ~StalePadding =>
         \E k \in 0..Consumed : Rising(out, k) /\ (~write_error => k = Consumed)
    /\ ~Has("sync") => Len(out) <= Consumed /\ (~write_error => Len(out) = Consumed)

\* flush has moved the odd byte to the block.
Held == IF pc \in {"flush_drain", "done"} THEN << >> ELSE saved

\* All that was made of the input, written or not.
Collected == out \o pending \o Held

\* The i-th byte of the image of n bytes.
Swapped(i, n) == IF i % 2 = 0 THEN i - 1 ELSE IF i < n THEN i + 1 ELSE i

\* With --swab what was written and what is collected are one image, and
\* nothing is left collected in the end.
Crossed ==
  Has("swab") /\ ~write_error =>
    /\ pc = "done" => pending = << >>
    /\ ~StalePadding => Range(Collected) \ {0} = 1..Consumed
    /\ ~Has("sync") =>
         /\ Len(Collected) = Consumed
         /\ \A i \in DOMAIN Collected : Collected[i] = Swapped(i, Consumed)
         /\ Len(saved) = Consumed % 2

\* Every record brought at least a byte.
Counted ==
  /\ w_bytes <= Len(out)
  /\ ~write_error =>
       /\ w_bytes = Len(out)
       /\ records <= Len(Collected)
       /\ records <= Consumed \/ (StalePadding /\ cfg.bad > 0)

\* A step begins below the limit, and none goes beyond it.
Limited ==
  bytes_to_copy >= 0 =>
    /\ pc = "step" => w_bytes < bytes_to_copy
    /\ cfg.conversions \cap {"swab", "sync"} = {} =>
         Len(out) <= bytes_to_copy /\ Consumed <= bytes_to_copy

\* Only autotune rewrites the limits on records.
RecordLimits ==
  ~Has("autotune") \/ bytes_to_copy < 0 \/ driver = "none" =>
    /\ max_records = IF cfg.count >= 0 THEN cfg.count ELSE INTMAX_MAX
    /\ max_bytes = 0

\* Only a pipe or an unreadable byte makes a read short before the end.
FullReads == cfg.input = "file" /\ cfg.bad = 0

\* What autotune makes of the byte limit is exact as long as reads are full.
Budgeted ==
  Has("autotune") /\ FullReads /\ driver = "sync" /\ pc \in {"loop", "step", "tick"} =>
    \/ w_bytes >= bytes_to_copy
    \/ in_off = cfg.source
    \/ /\ records <= max_records /\ max_bytes < blocksize
       /\ bytes_to_copy - w_bytes = (max_records - records) * blocksize + max_bytes

Digested ==
  Hashing /\ ~write_error =>
    IF KernelDriver THEN hashed = << >> ELSE hashed = out

Ended ==
  Leaving /\ exit_status = "success" /\ ~SwabLostWrite /\ ~AutotunedShort =>
    CopyComplete /\ ~write_error

IInv ==
  /\ Typed /\ Placed /\ Direct /\ Crossed /\ Counted /\ Limited
  /\ RecordLimits /\ Budgeted /\ Digested /\ Ended

------------------------------------------------------------------------------
(* Command lines                                                             *)

LEMMA ConfigFacts ==
  ASSUME cfg \in Configs
  PROVE  /\ cfg.engine \in {"auto", "sync", "reflink", "splice"}
         /\ cfg.input \in {"file", "pipe"} /\ cfg.output \in {"file", "pipe"}
         /\ cfg.blocksize \in Nat /\ cfg.blocksize > 0
         /\ cfg.limit \in Nat \cup {-1} /\ cfg.count \in Nat \cup {-1}
         /\ cfg.source \in Nat /\ cfg.bad \in Nat /\ cfg.bad <= cfg.source
         /\ ~(Has("swab") /\ Has("autotune"))
         /\ INTMAX_MAX \in Nat /\ cfg.source < INTMAX_MAX
         /\ cfg.limit + cfg.blocksize < INTMAX_MAX
<1>1. cfg \in ConfigType
  BY ConfigsAssumption
<1>2. ~({"swab", "autotune"} \subseteq cfg.conversions) /\ cfg.bad <= cfg.source
  BY ConfigsAssumption
<1>3. QED
  BY <1>1, <1>2, StagesAssumption DEF ConfigType, Has

LEMMA BytesFacts ==
  ASSUME cfg \in Configs
  PROVE  /\ bytes_to_copy \in Nat \cup {-1}
         /\ bytes_to_copy < 0 <=> cfg.limit < 0 /\ cfg.count < 0
         /\ cfg.limit >= 0 => bytes_to_copy = cfg.limit
         /\ StalePadding /\ cfg.bad > 0 => bytes_to_copy >= 0
<1>1. /\ cfg.blocksize \in Nat /\ cfg.limit \in Nat \cup {-1} /\ cfg.count \in Nat \cup {-1}
  BY ConfigFacts
<1> DEFINE counted == cfg.count * cfg.blocksize
<1>2. cfg.count >= 0 => counted \in Nat
  BY <1>1
<1>3. bytes_to_copy = (IF cfg.limit >= 0 THEN cfg.limit
                       ELSE IF cfg.count >= 0 THEN counted ELSE -1)
  BY DEF bytes_to_copy, BytesToCopy
<1>4. StalePadding /\ cfg.bad > 0 => cfg.limit >= 0 \/ cfg.count >= 0
  BY ConfigsAssumption DEF StalePadding
<1> HIDE DEF counted
<1>5. QED
  BY <1>1, <1>2, <1>3, <1>4

LEMMA SizeFacts ==
  ASSUME cfg \in Configs
  PROVE  /\ Len(autotune_stages) \in Nat /\ Len(autotune_stages) > 0
         /\ \A size \in Sizes : size \in Nat /\ size > 0
         /\ \A s \in 0..(Len(autotune_stages) - 1) : autotune_stages[s + 1] \in Sizes
<1>1. /\ Len(autotune_stages) \in Nat /\ DOMAIN autotune_stages = 1..Len(autotune_stages)
      /\ \A i \in 1..Len(autotune_stages) : autotune_stages[i] \in Nat \ {0}
  BY StagesAssumption, LenProperties, ElementOfSeq
<1>2. cfg.blocksize \in Nat /\ cfg.blocksize > 0
  BY ConfigFacts
<1>3. \A i \in 1..Len(autotune_stages) : autotune_stages[i] \in Range(autotune_stages)
  BY <1>1 DEF Range
<1>4. \A size \in Range(autotune_stages) : size \in Nat /\ size > 0
  BY <1>1 DEF Range
<1>5. ASSUME NEW s \in 0..(Len(autotune_stages) - 1)
      PROVE  autotune_stages[s + 1] \in Range(autotune_stages)
  <2>1. s + 1 \in 1..Len(autotune_stages)
    BY <1>1
  <2>2. QED
    BY <1>3, <2>1
<1>6. QED
  BY <1>1, <1>2, <1>4, <1>5, StagesAssumption DEF Sizes

\* The command line and what depends on it alone never change.
LEMMA Fixed ==
  ASSUME cfg' = cfg
  PROVE  /\ bytes_to_copy' = bytes_to_copy /\ Sizes' = Sizes
         /\ Hashing' <=> Hashing
         /\ StalePadding' <=> StalePadding
         /\ AutotunedShort' <=> AutotunedShort
         /\ FullReads' <=> FullReads
         /\ Has("swab")' <=> Has("swab")
         /\ Has("sync")' <=> Has("sync")
         /\ Has("autotune")' <=> Has("autotune")
BY DEF bytes_to_copy, Sizes, Hashing, StalePadding, AutotunedShort, FullReads, Has

------------------------------------------------------------------------------
(* Sequences of bytes                                                        *)

LEMMA ConcatFacts ==
  ASSUME NEW s \in Seq(Int), NEW t \in Seq(Int)
  PROVE  /\ s \o t \in Seq(Int)
         /\ Len(s) \in Nat /\ Len(t) \in Nat /\ Len(s \o t) = Len(s) + Len(t)
         /\ DOMAIN s = 1..Len(s) /\ DOMAIN t = 1..Len(t)
         /\ DOMAIN (s \o t) = 1..(Len(s) + Len(t))
         /\ \A i \in 1..Len(s) : (s \o t)[i] = s[i]
         /\ \A i \in 1..Len(t) : (s \o t)[Len(s) + i] = t[i]
         /\ \A i \in (Len(s) + 1)..(Len(s) + Len(t)) : (s \o t)[i] = t[i - Len(s)]
<1>1. Len(s) \in Nat /\ Len(t) \in Nat /\ DOMAIN s = 1..Len(s) /\ DOMAIN t = 1..Len(t)
  BY LenProperties
<1>2. /\ s \o t \in Seq(Int) /\ Len(s \o t) = Len(s) + Len(t)
      /\ \A i \in 1..(Len(s) + Len(t)) :
           (s \o t)[i] = IF i <= Len(s) THEN s[i] ELSE t[i - Len(s)]
  BY ConcatProperties
<1>3. DOMAIN (s \o t) = 1..(Len(s) + Len(t))
  BY <1>2, LenProperties
<1>4. QED
  BY SMTT(30), <1>1, <1>2, <1>3

LEMMA PartFacts ==
  ASSUME NEW s \in Seq(Int), NEW m \in 0..Len(s)
  PROVE  /\ SubSeq(s, 1, m) \in Seq(Int) /\ Len(SubSeq(s, 1, m)) = m
         /\ \A i \in 1..m : SubSeq(s, 1, m)[i] = s[i]
         /\ SubSeq(s, m + 1, Len(s)) \in Seq(Int)
         /\ Len(SubSeq(s, m + 1, Len(s))) = Len(s) - m
         /\ SubSeq(s, 1, m) \o SubSeq(s, m + 1, Len(s)) = s
<1>1. Len(s) \in Nat /\ m \in Nat /\ m <= Len(s)
  BY LenProperties
<1>2. \A i \in 1..Len(s) : s[i] \in Int
  BY ElementOfSeq
<1>3. /\ SubSeq(s, 1, m) \in Seq(Int)
      /\ Len(SubSeq(s, 1, m)) = IF 1 <= m THEN m - 1 + 1 ELSE 0
      /\ \A i \in 1..(m - 1 + 1) : SubSeq(s, 1, m)[i] = s[1 + i - 1]
  BY <1>1, <1>2, SubSeqProperties, 1 \in Int, m \in Int, \A i \in 1..m : s[i] \in Int
<1>4. /\ SubSeq(s, m + 1, Len(s)) \in Seq(Int)
      /\ Len(SubSeq(s, m + 1, Len(s)))
           = IF m + 1 <= Len(s) THEN Len(s) - (m + 1) + 1 ELSE 0
  BY <1>1, <1>2, SubSeqProperties, m + 1 \in Int, Len(s) \in Int,
     \A i \in (m + 1)..Len(s) : s[i] \in Int
<1>5. SubSeq(s, 1, m) \o SubSeq(s, m + 1, Len(s)) = SubSeq(s, 1, Len(s))
  BY <1>1, ConcatAdjacentSubSeq, 1 \in 1..(Len(s) + 1), m \in (1 - 1)..Len(s),
     Len(s) \in m..Len(s)
<1>6. SubSeq(s, 1, Len(s)) = s
  BY SubSeqFull
<1>7. /\ Len(SubSeq(s, 1, m)) = m
      /\ \A i \in 1..m : SubSeq(s, 1, m)[i] = s[i]
  BY <1>1, <1>3
<1>8. Len(SubSeq(s, m + 1, Len(s))) = Len(s) - m
  BY <1>1, <1>4
<1>9. QED
  BY <1>3, <1>4, <1>5, <1>6, <1>7, <1>8

\* What is written at the end is appended; writing nothing changes nothing.
LEMMA WrittenFacts ==
  ASSUME out \in Seq(Int)
  PROVE  /\ \A b \in Seq(Int) : WrittenAt(Len(out), b) = out \o b
         /\ \A p \in 0..Len(out) : WrittenAt(p, << >>) = out
<1>1. Len(out) \in Nat
  BY LenProperties
<1>2. ASSUME NEW b \in Seq(Int) PROVE WrittenAt(Len(out), b) = out \o b
  <2>1. Len(b) \in Nat /\ out \o b \in Seq(Int)
    BY LenProperties, ConcatProperties
  <2>2. SubSeq(out, 1, Len(out)) = out
    BY SubSeqFull
  <2>3. SubSeq(out, Len(out) + Len(b) + 1, Len(out)) = << >>
    <3>1. PICK p \in Nat : p = Len(out) + Len(b) + 1
      BY <1>1, <2>1
    <3>2. SubSeq(out, p, Len(out)) = << >>
      BY <1>1, <2>1, <3>1, SubSeqEmpty, p \in Int, Len(out) \in Int, Len(out) < p
    <3>3. QED
      BY <3>1, <3>2
  <2>4. (out \o b) \o << >> = out \o b
    BY <2>1, ConcatEmptySeq
  <2>5. QED
    BY <2>2, <2>3, <2>4 DEF WrittenAt
<1>3. ASSUME NEW p \in 0..Len(out) PROVE WrittenAt(p, << >>) = out
  <2>1. SubSeq(out, 1, p) \in Seq(Int) /\ SubSeq(out, 1, p) \o SubSeq(out, p + 1, Len(out)) = out
    BY PartFacts
  <2>2. SubSeq(out, 1, p) \o << >> = SubSeq(out, 1, p)
    BY <2>1, ConcatEmptySeq
  <2>3. Len(<< >>) = 0 /\ p + 0 + 1 = p + 1
    BY <1>1
  <2>4. QED
    BY <2>1, <2>2, <2>3 DEF WrittenAt
<1>4. QED
  BY <1>2, <1>3

\* Bytes of the input, followed by padding, keep the output rising.
LEMMA RisingGrows ==
  ASSUME NEW s \in Seq(Int), NEW b \in Seq(Int), NEW c \in Nat, NEW n \in Nat,
         Rising(s, c), \A i \in 1..Len(b) : b[i] = IF i <= n THEN c + i ELSE 0
  PROVE  Rising(s \o b, c + Least(n, Len(b)))
<1>1. PICK t : t = s \o b
  OBVIOUS
<1>2. PICK p \in Nat, q \in Nat : p = Len(s) /\ q = Len(b)
  BY LenProperties
<1>3. /\ Len(t) = p + q /\ DOMAIN s = 1..p /\ DOMAIN t = 1..(p + q)
      /\ \A i \in 1..p : t[i] = s[i]
      /\ \A i \in (p + 1)..(p + q) : t[i] = b[i - p]
  BY <1>1, <1>2, ConcatFacts
<1>4. PICK m \in Nat : m = Least(n, Len(b)) /\ m <= n /\ m <= q /\ (m = n \/ m = q)
  BY <1>2 DEF Least
<1>5. /\ c <= p /\ Range(s) \ {0} = 1..c
      /\ \A i, j \in 1..p : i < j /\ s[j] # 0 => s[i] < s[j]
  BY <1>2, <1>3 DEF Rising
<1>6. \A i \in 1..p : t[i] = 0 \/ (1 <= t[i] /\ t[i] <= c /\ t[i] \in Int)
  <2>1. SUFFICES ASSUME NEW i \in 1..p, t[i] # 0 PROVE t[i] \in 1..c
    OBVIOUS
  <2>2. s[i] \in Range(s) /\ t[i] = s[i]
    BY <1>3 DEF Range
  <2>3. QED
    BY <1>5, <2>1, <2>2
<1>7. \A i \in (p + 1)..(p + q) : t[i] = IF i - p <= m THEN c + (i - p) ELSE 0
  <2>1. SUFFICES ASSUME NEW i \in (p + 1)..(p + q)
                 PROVE  t[i] = IF i - p <= m THEN c + (i - p) ELSE 0
    OBVIOUS
  <2>2. PICK j \in 1..q : j = i - p
    OBVIOUS
  <2>3. t[i] = b[j] /\ b[j] = IF j <= n THEN c + j ELSE 0
    BY <1>2, <1>3, <2>2
  <2>4. j <= n <=> j <= m
    BY <1>4
  <2>5. QED
    BY <2>2, <2>3, <2>4
<1>8. c + m <= Len(t)
  BY <1>3, <1>4, <1>5
<1>9. \A i, j \in 1..(p + q) : i < j /\ t[j] # 0 => t[i] < t[j]
  <2>1. SUFFICES ASSUME NEW i \in 1..(p + q), NEW j \in 1..(p + q), i < j, t[j] # 0
                 PROVE  t[i] < t[j]
    OBVIOUS
  <2>2. CASE j <= p
    <3>1. i \in 1..p /\ j \in 1..p
      BY <2>1, <2>2
    <3>2. s[i] < s[j] /\ t[i] = s[i] /\ t[j] = s[j]
      BY <1>3, <1>5, <2>1, <3>1
    <3>3. QED
      BY <3>2
  <2>3. CASE j > p
    <3>1. t[j] = c + (j - p) /\ j - p <= m
      BY <1>7, <2>1, <2>3
    <3>2. CASE i <= p
      <4>1. t[i] = 0 \/ (t[i] <= c /\ t[i] \in Int)
        BY <1>6, <3>2
      <4>2. QED
        BY <2>3, <3>1, <4>1
    <3>3. CASE i > p
      <4>1. t[i] = c + (i - p)
        BY <1>7, <2>1, <3>1, <3>3
      <4>2. QED
        BY <2>1, <3>1, <4>1
    <3>4. QED
      BY <3>2, <3>3
  <2>4. QED
    BY <2>2, <2>3
<1>10. Range(t) \ {0} = 1..(c + m)
  <2>1. ASSUME NEW i \in 1..(p + q), t[i] # 0 PROVE t[i] \in 1..(c + m)
    <3>1. CASE i <= p
      BY <1>6, <2>1, <3>1
    <3>2. CASE i > p
      BY <1>7, <2>1, <3>2
    <3>3. QED
      BY <3>1, <3>2
  <2>2. ASSUME NEW v \in 1..(c + m) PROVE \E i \in 1..(p + q) : t[i] = v
    <3>1. CASE v <= c
      <4>1. v \in Range(s)
        BY <1>5, <2>2, <3>1
      <4>2. PICK i \in 1..p : s[i] = v
        BY <1>3, <4>1 DEF Range
      <4>3. QED
        BY <1>3, <4>2
    <3>2. CASE v > c
      <4>1. PICK i \in Nat : i = p + (v - c)
        BY <2>2, <3>2
      <4>2. i \in (p + 1)..(p + q) /\ i - p = v - c /\ v - c <= m
        BY <1>4, <2>2, <3>2, <4>1
      <4>3. t[i] = c + (v - c)
        BY <1>7, <4>2
      <4>4. QED
        BY <2>2, <4>2, <4>3
    <3>3. QED
      BY <2>2, <3>1, <3>2
  <2>3. ASSUME NEW v \in Range(t), v # 0 PROVE v \in 1..(c + m)
    BY <1>3, <2>1, <2>3 DEF Range
  <2>4. ASSUME NEW v \in 1..(c + m) PROVE v \in Range(t) /\ v # 0
    <3>1. v # 0
      BY <2>4
    <3>2. PICK i \in 1..(p + q) : t[i] = v
      BY <2>2
    <3>3. QED
      BY <1>3, <3>1, <3>2 DEF Range
  <2>5. QED
    BY <2>3, <2>4
<1>11. Rising(t, c + m)
  BY <1>3, <1>8, <1>9, <1>10 DEF Rising
<1>12. QED
  BY <1>1, <1>4, <1>11

\* dd_swab_buffer keeps every byte and lets only pairs change places.
LEMMA SwapFacts ==
  ASSUME NEW x \in Seq(Int)
  PROVE  /\ SwapPairs(x) \in Seq(Int) /\ Len(SwapPairs(x)) = 2 * (Len(x) \div 2)
         /\ OddByte(x) \in Seq(Int) /\ Len(OddByte(x)) = Len(x) % 2
         /\ Len(x) % 2 = 1 => OddByte(x)[1] = x[Len(x)]
         /\ \A i \in 1..(2 * (Len(x) \div 2)) :
              SwapPairs(x)[i] = IF i % 2 = 1 THEN x[i + 1] ELSE x[i - 1]
         /\ Range(SwapPairs(x)) \cup Range(OddByte(x)) = Range(x)
<1>1. /\ Len(x) \in Nat /\ DOMAIN x = 1..Len(x)
      /\ \A i \in 1..Len(x) : x[i] \in Int
  BY LenProperties, ElementOfSeq
<1>2. PICK h \in Nat : h = Len(x) \div 2
  BY <1>1
<1>3. Len(x) = (2 * h) + (Len(x) % 2) /\ Len(x) % 2 \in {0, 1}
  <2>1. PICK l \in Nat : l = Len(x)
    BY <1>1
  <2>2. l = (2 * (l \div 2)) + (l % 2) /\ l % 2 \in {0, 1}
    OBVIOUS
  <2>3. QED
    BY <1>2, <2>1, <2>2
<1>4. \A i \in 1..(2 * h) : /\ i % 2 = 1 => i + 1 \in 1..(2 * h)
                            /\ i % 2 # 1 => i - 1 \in 1..(2 * h) /\ (i - 1) % 2 = 1
                            /\ i % 2 = 1 => (i + 1) % 2 # 1
  OBVIOUS
<1>5. \A i \in 1..(2 * h) : i \in 1..Len(x)
  <2>1. 2 * h <= Len(x) /\ 2 * h \in Nat
    BY <1>1, <1>3
  <2>2. QED
    BY <1>1, <2>1
<1> DEFINE p == SwapPairs(x)
           o == OddByte(x)
<1>6. p = [i \in 1..(2 * h) |-> IF i % 2 = 1 THEN x[i + 1] ELSE x[i - 1]]
  BY <1>2 DEF SwapPairs
<1>7. \A i \in 1..(2 * h) : (IF i % 2 = 1 THEN x[i + 1] ELSE x[i - 1]) \in Int
  BY <1>1, <1>4, <1>5
<1>8. p \in Seq(Int) /\ Len(p) = 2 * h /\ DOMAIN p = 1..(2 * h)
  <2>1. p \in [1..(2 * h) -> Int]
    BY <1>6, <1>7
  <2>2. p \in Seq(Int)
    BY <2>1, SeqDef, 2 * h \in Nat
  <2>3. QED
    BY <2>1, <2>2, LenProperties, 2 * h \in Nat
<1>9. o = IF Len(x) % 2 = 1 THEN <<x[Len(x)]>> ELSE << >>
  BY DEF OddByte
<1>10. /\ o \in Seq(Int) /\ Len(o) = Len(x) % 2 /\ DOMAIN o = 1..(Len(x) % 2)
       /\ Len(x) % 2 = 1 => o[1] = x[Len(x)]
  <2>1. CASE Len(x) % 2 = 1
    <3>1. x[Len(x)] \in Int /\ o = <<x[Len(x)]>>
      <4>1. Len(x) \in 1..Len(x)
        BY <1>1, <2>1
      <4>2. QED
        BY <1>1, <1>9, <2>1, <4>1
    <3>2. o \in Seq(Int) /\ Len(o) = 1 /\ o[1] = x[Len(x)]
      BY <3>1
    <3>3. QED
      BY <2>1, <3>2, LenProperties
  <2>2. CASE Len(x) % 2 = 0
    <3>1. o = << >>
      BY <1>9, <2>2
    <3>2. o \in Seq(Int) /\ Len(o) = 0
      BY <3>1, EmptySeq
    <3>3. QED
      BY <2>2, <3>2, LenProperties
  <2>3. QED
    BY <1>3, <2>1, <2>2
<1> HIDE DEF p, o
<1>11. Range(p) \cup Range(o) = Range(x)
  <2>1. ASSUME NEW v \in Range(p) PROVE v \in Range(x)
    <3>1. PICK i \in 1..(2 * h) : v = IF i % 2 = 1 THEN x[i + 1] ELSE x[i - 1]
      BY <1>6, <1>8 DEF Range
    <3>2. \E j \in 1..(2 * h) : v = x[j]
      BY <1>4, <3>1
    <3>3. QED
      BY <1>1, <1>5, <3>2 DEF Range
  <2>2. ASSUME NEW v \in Range(o) PROVE v \in Range(x)
    <3>1. Len(x) % 2 = 1 /\ v = x[Len(x)]
      BY <1>3, <1>10 DEF Range
    <3>2. Len(x) \in 1..Len(x)
      BY <1>1, <1>3, <3>1
    <3>3. QED
      BY <1>1, <3>1, <3>2 DEF Range
  <2>3. ASSUME NEW v \in Range(x) PROVE v \in Range(p) \/ v \in Range(o)
    <3>1. PICK i \in 1..Len(x) : v = x[i]
      BY <1>1 DEF Range
    <3>2. CASE i \in 1..(2 * h)
      <4>1. CASE i % 2 = 1
        <5>1. p[i + 1] = x[i + 1 - 1] /\ i + 1 \in 1..(2 * h) /\ i + 1 - 1 = i
          BY <1>4, <1>6, <3>2, <4>1
        <5>2. QED
          BY <1>8, <3>1, <5>1 DEF Range
      <4>2. CASE i % 2 # 1
        <5>1. p[i - 1] = x[i - 1 + 1] /\ i - 1 \in 1..(2 * h) /\ i - 1 + 1 = i
          BY <1>4, <1>6, <3>2, <4>2
        <5>2. QED
          BY <1>8, <3>1, <5>1 DEF Range
      <4>3. QED
        BY <4>1, <4>2
    <3>3. CASE i \notin 1..(2 * h)
      <4>1. Len(x) % 2 = 1 /\ i = Len(x)
        <5>1. PICK l \in Nat, r \in {0, 1} : l = Len(x) /\ r = Len(x) % 2 /\ l = (2 * h) + r
          BY <1>1, <1>3
        <5>2. QED
          BY <3>1, <3>3, <5>1
      <4>2. QED
        BY SMTT(30), <1>10, <3>1, <4>1 DEF Range
    <3>4. QED
      BY <3>2, <3>3
  <2>4. QED
    BY <2>1, <2>2, <2>3
<1>12. QED
  BY <1>2, <1>6, <1>8, <1>10, <1>11 DEF p, o

LEMMA Parity ==
  /\ \A a \in Nat : a % 2 = 0 \/ a % 2 = 1
  /\ \A a, b \in Nat : a = b + (a % 2) => b % 2 = 0
  /\ \A a, b \in Nat : a % 2 = 0 => (a + b) % 2 = b % 2
  /\ \A h \in Nat : \A j \in 1..(2 * h) : j % 2 = 1 => j < 2 * h
OBVIOUS

\* The image of the input goes on across the byte that was kept back.
LEMMA ImageGrows ==
  ASSUME NEW u \in Seq(Int), NEW s \in Seq(Int), NEW b \in Seq(Int), NEW c \in Nat,
         Len(u \o s) = c, \A i \in 1..c : (u \o s)[i] = Swapped(i, c), Len(s) = c % 2,
         \A i \in 1..Len(b) : b[i] = c + i
  PROVE  /\ Len((u \o SwapPairs(s \o b)) \o OddByte(s \o b)) = c + Len(b)
         /\ \A i \in 1..(c + Len(b)) :
              ((u \o SwapPairs(s \o b)) \o OddByte(s \o b))[i] = Swapped(i, c + Len(b))
         /\ Len(OddByte(s \o b)) = (c + Len(b)) % 2
<1>1. PICK e \in Nat, r \in Nat, n \in Nat : e = Len(u) /\ r = Len(s) /\ n = Len(b)
  BY LenProperties
<1>2. c = e + r /\ r = c % 2
  BY <1>1, ConcatFacts
<1>3. e % 2 = 0 /\ r <= 1 /\ (r = 1 => c % 2 # 0)
  <2>1. e % 2 = 0
    BY <1>2, Parity
  <2>2. c % 2 = 0 \/ c % 2 = 1
    BY Parity
  <2>3. QED
    BY <1>2, <2>1, <2>2
<1>4. /\ \A i \in 1..e : (u \o s)[i] = u[i]
      /\ \A i \in 1..r : (u \o s)[e + i] = s[i]
  <2>1. /\ \A i \in 1..Len(u) : (u \o s)[i] = u[i]
        /\ \A i \in 1..Len(s) : (u \o s)[Len(u) + i] = s[i]
    BY ConcatFacts
  <2>2. QED
    BY <1>1, <2>1
<1>5. PICK x \in Seq(Int) : x = s \o b
  BY ConcatFacts
<1>6. /\ Len(x) = r + n
      /\ \A i \in 1..r : x[i] = s[i]
      /\ \A i \in 1..n : x[r + i] = b[i]
  <2>1. Len(s \o b) = Len(s) + Len(b)
    BY ConcatFacts
  <2>2. \A i \in 1..Len(s) : (s \o b)[i] = s[i]
    BY ConcatFacts
  <2>3. \A i \in 1..Len(b) : (s \o b)[Len(s) + i] = b[i]
    BY ConcatFacts
  <2>4. QED
    BY <1>1, <1>5, <2>1, <2>2, <2>3
<1>7. \A i \in 1..e : u[i] = Swapped(i, c)
  <2>1. \A i \in 1..e : i \in 1..c
    BY <1>2
  <2>2. QED
    BY <1>4, <2>1
<1>8. \A j \in 1..(r + n) : x[j] = e + j
  <2>1. SUFFICES ASSUME NEW j \in 1..(r + n) PROVE x[j] = e + j
    OBVIOUS
  <2>2. CASE j <= r
    <3>1. r = 1 /\ j = 1 /\ c = e + 1 /\ c \in 1..c
      BY <1>2, <1>3, <2>2
    <3>2. (u \o s)[c] = s[1]
      BY <1>4, <3>1
    <3>3. Swapped(c, c) = c
      BY <1>3, <3>1 DEF Swapped
    <3>4. QED
      BY <1>6, <3>1, <3>2, <3>3
  <2>3. CASE j > r
    <3>1. PICK i \in 1..n : j = r + i
      BY <2>3, j - r \in 1..n
    <3>2. x[j] = b[i]
      BY <1>6, <3>1
    <3>3. b[i] = c + i
      BY <1>1
    <3>4. c + i = e + j
      BY <1>2, <3>1
    <3>5. QED
      BY <3>2, <3>3, <3>4
  <2>4. QED
    BY <2>2, <2>3
<1>9. PICK l \in Nat, h \in Nat, q \in Nat :
        l = r + n /\ h = l \div 2 /\ q = l % 2
  OBVIOUS
<1>10. l = (2 * h) + q /\ (q = 0 \/ q = 1)
  BY <1>9
<1>11. c + n = e + l
  BY <1>2, <1>9
<1>12. (c + n) % 2 = q
  <2>1. (e + l) % 2 = l % 2
    BY <1>3, Parity
  <2>2. QED
    BY <1>9, <1>11, <2>1
<1>13. PICK swapped \in Seq(Int), odd \in Seq(Int) :
         swapped = SwapPairs(x) /\ odd = OddByte(x)
  BY SwapFacts
<1>14. /\ Len(swapped) = 2 * h /\ Len(odd) = q
       /\ q = 1 => odd[1] = x[l]
       /\ \A i \in 1..(2 * h) : swapped[i] = IF i % 2 = 1 THEN x[i + 1] ELSE x[i - 1]
  <2>1. Len(x) = l
    BY <1>6, <1>9
  <2>2. /\ Len(swapped) = 2 * (Len(x) \div 2) /\ Len(odd) = Len(x) % 2
        /\ Len(x) % 2 = 1 => odd[1] = x[Len(x)]
        /\ \A i \in 1..(2 * (Len(x) \div 2)) :
             swapped[i] = IF i % 2 = 1 THEN x[i + 1] ELSE x[i - 1]
    BY <1>13, SwapFacts
  <2>3. QED
    BY <1>9, <2>1, <2>2
<1>15. PICK w \in Seq(Int) : w = u \o swapped
  BY <1>1, ConcatFacts
<1>16. PICK k \in Nat, m \in Nat : k = 2 * h /\ m = e + k
  OBVIOUS
<1>17. /\ Len(w) = m
       /\ \A i \in 1..e : w[i] = u[i]
       /\ \A i \in 1..k : w[e + i] = swapped[i]
  <2>1. /\ Len(w) = Len(u) + Len(swapped)
        /\ \A i \in 1..Len(u) : w[i] = u[i]
        /\ \A i \in 1..Len(swapped) : w[Len(u) + i] = swapped[i]
    BY <1>15, ConcatFacts
  <2>2. Len(swapped) = k
    BY <1>14, <1>16
  <2>3. QED
    BY <1>1, <1>16, <2>1, <2>2
<1>18. PICK v \in Seq(Int) : v = w \o odd
  BY ConcatFacts
<1>19. /\ Len(v) = m + q
       /\ \A i \in 1..m : v[i] = w[i]
       /\ \A i \in 1..q : v[m + i] = odd[i]
  <2>1. /\ Len(v) = Len(w) + Len(odd)
        /\ \A i \in 1..Len(w) : v[i] = w[i]
        /\ \A i \in 1..Len(odd) : v[Len(w) + i] = odd[i]
    BY <1>18, ConcatFacts
  <2>2. QED
    BY <1>14, <1>17, <2>1
<1>20. \A i \in 1..e : v[i] = Swapped(i, c)
  <2>1. \A i \in 1..e : i \in 1..m
    BY <1>16
  <2>2. QED
    BY <1>7, <1>17, <1>19, <2>1
<1>21. \A i \in 1..(2 * h) : v[e + i] = IF i % 2 = 1 THEN x[i + 1] ELSE x[i - 1]
  <2>1. \A i \in 1..k : e + i \in 1..m
    BY <1>16
  <2>2. QED
    BY <1>14, <1>16, <1>17, <1>19, <2>1
<1>22. q = 1 => v[e + l] = x[l]
  <2>1. q = 1 => e + l = m + 1
    BY <1>10, <1>16
  <2>2. q = 1 => v[m + 1] = odd[1]
    BY <1>19
  <2>3. QED
    BY <1>14, <2>1, <2>2
<1>23. e <= c /\ c <= e + l /\ \A j \in 1..l : x[j] = e + j
  BY <1>2, <1>8, <1>9
<1>24. \A i \in 1..(e + l) : v[i] = Swapped(i, e + l)
  <2>1. SUFFICES ASSUME NEW i \in 1..(e + l) PROVE v[i] = Swapped(i, e + l)
    OBVIOUS
  <2>2. i % 2 = 0 \/ i % 2 = 1
    BY Parity, i \in Nat
  <2>3. CASE i <= e
    <3>1. v[i] = Swapped(i, c)
      BY <1>20, <2>3
    <3>2. i % 2 = 1 => i < e
      BY <1>3, <2>3
    <3>3. i % 2 = 1 => i < c /\ i < e + l
      BY <1>2, <2>3, <3>2
    <3>4. QED
      BY <2>2, <3>1, <3>3 DEF Swapped
  <2>4. CASE i > e /\ i <= e + (2 * h)
    <3>1. PICK j \in 1..(2 * h) : i = e + j
      BY <2>4, i - e \in 1..(2 * h)
    <3>2. v[i] = IF j % 2 = 1 THEN x[j + 1] ELSE x[j - 1]
      BY <1>21, <3>1
    <3>3. i % 2 = j % 2 /\ j \in Nat
      <4>1. j \in Nat /\ e % 2 = 0
        BY <1>3
      <4>2. (e + j) % 2 = j % 2
        BY <4>1, Parity
      <4>3. QED
        BY <3>1, <4>1, <4>2
    <3>4. CASE j % 2 = 1
      <4>1. j < 2 * h
        BY <3>1, <3>4, Parity
      <4>2. j + 1 \in 1..l /\ j < l
        BY <1>10, <4>1
      <4>3. v[i] = e + (j + 1)
        BY <1>23, <3>2, <3>4, <4>2
      <4>4. i < e + l /\ i % 2 # 0 /\ i + 1 = e + (j + 1)
        BY <3>1, <3>3, <3>4, <4>2
      <4>5. QED
        BY <4>3, <4>4 DEF Swapped
    <3>5. CASE j % 2 = 0
      <4>1. j # 1
        BY <3>5
      <4>2. j - 1 \in 1..l
        BY <1>10, <4>1
      <4>3. v[i] = e + (j - 1)
        BY <1>23, <3>2, <3>5, <4>2
      <4>4. i % 2 = 0 /\ i - 1 = e + (j - 1)
        BY <3>1, <3>3, <3>5
      <4>5. QED
        BY <4>3, <4>4 DEF Swapped
    <3>6. QED
      BY <2>2, <3>3, <3>4, <3>5
  <2>5. CASE i > e + (2 * h)
    <3>1. q = 1 /\ i = e + l /\ l \in 1..l
      BY <1>10, <2>5
    <3>2. i % 2 = 1
      BY <1>11, <1>12, <3>1
    <3>3. v[i] = i
      BY <1>22, <1>23, <3>1
    <3>4. QED
      BY <3>1, <3>2, <3>3 DEF Swapped
  <2>6. QED
    BY <2>3, <2>4, <2>5
<1>25. Len(v) = c + n
  BY <1>10, <1>11, <1>16, <1>19
<1>26. QED
  BY <1>1, <1>5, <1>11, <1>12, <1>13, <1>14, <1>15, <1>18, <1>24, <1>25

------------------------------------------------------------------------------
(* States                                                                    *)

LEMMA StateFacts ==
  ASSUME Typed
  PROVE  /\ blocksize \in Nat /\ blocksize > 0
         /\ Len(out) \in Nat /\ Len(pending) \in Nat /\ Len(saved) \in Nat
         /\ Consumed \in Nat /\ SourcePos \in Nat /\ SinkPos \in Nat
         /\ at.active \in BOOLEAN /\ at.first \in Nat /\ at.stage \in Nat
         /\ at.blocks \in 0..3
         /\ write_error \in BOOLEAN
<1>1. blocksize \in Nat /\ blocksize > 0
  BY SizeFacts DEF Typed
<1>2. Len(out) \in Nat /\ Len(pending) \in Nat /\ Len(saved) \in Nat
  BY LenProperties DEF Typed
<1>3. Consumed \in Nat /\ SourcePos \in Nat /\ SinkPos \in Nat
  BY DEF Typed, Consumed, SourcePos, SinkPos
<1>4. at.active \in BOOLEAN /\ at.first \in Nat /\ at.stage \in Nat /\ at.blocks \in 0..3
  BY DEF Typed
<1>5. QED
  BY <1>1, <1>2, <1>3, <1>4 DEF Typed

LEMMA CollectedFacts ==
  ASSUME Typed
  PROVE  /\ Held \in Seq(Int) /\ Len(Held) \in Nat /\ out \o pending \in Seq(Int)
         /\ Collected \in Seq(Int)
         /\ Len(Collected) = Len(out) + Len(pending) + Len(Held)
         /\ DOMAIN Collected = 1..Len(Collected)
         /\ Range(Collected) = (Range(out) \cup Range(pending)) \cup Range(Held)
         /\ pending = << >> /\ Held = << >> => Collected = out
<1>1. Held \in Seq(Int) /\ Len(Held) \in Nat
  <2>1. << >> \in Seq(Int)
    BY EmptySeq
  <2>2. Held \in Seq(Int)
    BY <2>1 DEF Typed, Held
  <2>3. QED
    BY <2>2, LenProperties
<1>2. /\ out \o pending \in Seq(Int)
      /\ Len(out \o pending) = Len(out) + Len(pending)
      /\ Range(out \o pending) = Range(out) \cup Range(pending)
  BY ConcatProperties, RangeConcatenation DEF Typed
<1>3. /\ (out \o pending) \o Held \in Seq(Int)
      /\ Len((out \o pending) \o Held) = Len(out \o pending) + Len(Held)
      /\ Range((out \o pending) \o Held) = Range(out \o pending) \cup Range(Held)
  <2>1. PICK both \in Seq(Int), kept \in Seq(Int) : both = out \o pending /\ kept = Held
    BY <1>1, <1>2
  <2>2. /\ both \o kept \in Seq(Int) /\ Len(both \o kept) = Len(both) + Len(kept)
        /\ Range(both \o kept) = Range(both) \cup Range(kept)
    BY ConcatProperties, RangeConcatenation
  <2>3. QED
    BY <2>1, <2>2
<1>4. Collected = (out \o pending) \o Held
  BY DEF Collected
<1>5. DOMAIN Collected = 1..Len(Collected)
  BY <1>3, <1>4, LenProperties
<1>6. pending = << >> /\ Held = << >> => Collected = out
  BY <1>4, ConcatEmptySeq DEF Typed
<1>7. QED
  BY <1>1, <1>2, <1>3, <1>4, <1>5, <1>6

\* Without --swab nothing is collected.
LEMMA DirectCollected ==
  ASSUME Typed, Direct, ~Has("swab")
  PROVE  pending = << >> /\ saved = << >> /\ Collected = out
<1>1. pending = << >> /\ saved = << >>
  BY DEF Direct
<1>2. Held = << >>
  BY <1>1 DEF Held
<1>3. QED
  BY <1>1, <1>2, CollectedFacts

\* A kernel driver at work has not failed, and what it read is written.
LEMMA KernelFacts ==
  ASSUME IInv, KernelStep
  PROVE  /\ ~Has("swab") /\ ~Has("sync") /\ ~StalePadding /\ ~write_error
         /\ pending = << >> /\ saved = << >>
         /\ w_bytes = Len(out) /\ Len(out) = Consumed
<1>1. KernelDriver /\ ~Leaving
  BY DEF KernelStep, KernelDriver, Leaving
<1>2. ~Has("swab") /\ ~Has("sync") /\ ~StalePadding
  BY <1>1 DEF IInv, Placed, Has, StalePadding
<1>3. ~write_error /\ Len(out) = Consumed /\ pending = << >> /\ saved = << >>
  BY <1>1, <1>2 DEF IInv, Direct
<1>4. w_bytes = Len(out)
  BY <1>3 DEF IInv, Counted
<1>5. QED
  BY <1>2, <1>3, <1>4

------------------------------------------------------------------------------
(* Block sizes                                                               *)

LEMMA SetBlocksizeFacts ==
  ASSUME Typed, NEW size \in Nat, size > 0, NEW written \in Nat, NEW done \in Nat,
         SetBlocksize(size, written, done)
  PROVE  /\ blocksize' = size /\ max_records' \in Nat /\ max_bytes' \in Nat
         /\ bytes_to_copy < 0 => UNCHANGED <<max_records, max_bytes>>
         /\ \/ written >= bytes_to_copy
            \/ /\ done <= max_records' /\ max_bytes' < size
               /\ bytes_to_copy - written = (max_records' - done) * size + max_bytes'
<1>1. bytes_to_copy \in Nat \cup {-1}
  BY BytesFacts DEF Typed
<1>2. max_records \in Nat /\ max_bytes \in Nat
  BY DEF Typed
<1>3. CASE bytes_to_copy >= 0 /\ bytes_to_copy - written > 0
  <2>1. PICK remaining \in Nat : remaining = bytes_to_copy - written
    BY <1>1, <1>3
  <2>2. /\ blocksize' = size
        /\ max_records' = done + remaining \div size
        /\ max_bytes' = remaining % size
    BY <1>3, <2>1 DEF SetBlocksize
  <2>3. PICK d \in Nat, r \in Nat : d = remaining \div size /\ r = remaining % size
    BY <2>1
  <2>4. remaining = (d * size) + r /\ r < size
    BY <2>3
  <2>5. max_records' = done + d /\ max_records' - done = d /\ max_bytes' = r
    BY <2>2, <2>3
  <2>6. (max_records' - done) * size = d * size
    BY <2>5
  <2>7. max_records' \in Nat /\ max_bytes' \in Nat /\ done <= max_records' /\ max_bytes' < size
    BY <2>4, <2>5
  <2>8. bytes_to_copy - written = (max_records' - done) * size + max_bytes'
    BY <2>1, <2>4, <2>5, <2>6
  <2>9. QED
    BY <1>1, <1>3, <2>2, <2>7, <2>8
<1>4. CASE ~(bytes_to_copy >= 0 /\ bytes_to_copy - written > 0)
  <2>1. blocksize' = size /\ UNCHANGED <<max_records, max_bytes>>
    BY <1>4 DEF SetBlocksize
  <2>2. written >= bytes_to_copy
    BY <1>1, <1>4
  <2>3. QED
    BY <1>2, <2>1, <2>2
<1>5. QED
  BY <1>3, <1>4

\* What autotune may do: the new sizes, and the budget when they are rewritten.
Retuned ==
  /\ blocksize' \in Sizes /\ max_records' \in Nat /\ max_bytes' \in Nat
  /\ at' \in [active : BOOLEAN, first : Nat, stage : Nat, blocks : 0..3]
  /\ at'.first <= at'.stage /\ at'.stage < Len(autotune_stages)
  /\ at'.active => Has("autotune")
  /\ ~Has("autotune") => blocksize' = blocksize
  /\ ~Has("autotune") \/ bytes_to_copy < 0 => UNCHANGED <<max_records, max_bytes>>
  /\ \/ /\ pc = "tick" \/ ~Has("autotune")
        /\ UNCHANGED <<blocksize, max_records, max_bytes>>
     \/ w_bytes >= bytes_to_copy
     \/ /\ records <= max_records' /\ max_bytes' < blocksize'
        /\ bytes_to_copy - w_bytes = (max_records' - records) * blocksize' + max_bytes'

LEMMA StageTaken ==
  ASSUME Typed, Has("autotune"), NEW s \in 0..(Len(autotune_stages) - 1),
         SetBlocksize(autotune_stages[s + 1], w_bytes, records),
         at' \in [active : BOOLEAN, first : Nat, stage : Nat, blocks : 0..3],
         at'.first <= at'.stage, at'.stage < Len(autotune_stages)
  PROVE  Retuned
<1>1. PICK size \in Sizes : size = autotune_stages[s + 1]
  BY SizeFacts DEF Typed
<1>2. size \in Nat /\ size > 0
  BY SizeFacts DEF Typed
<1>3. w_bytes \in Nat /\ records \in Nat
  BY DEF Typed
<1>4. SetBlocksize(size, w_bytes, records)
  BY <1>1
<1>5. /\ blocksize' = size /\ max_records' \in Nat /\ max_bytes' \in Nat
      /\ bytes_to_copy < 0 => UNCHANGED <<max_records, max_bytes>>
      /\ \/ w_bytes >= bytes_to_copy
         \/ /\ records <= max_records' /\ max_bytes' < size
            /\ bytes_to_copy - w_bytes = (max_records' - records) * size + max_bytes'
  BY <1>2, <1>3, <1>4, SetBlocksizeFacts
<1>6. \/ w_bytes >= bytes_to_copy
      \/ /\ records <= max_records' /\ max_bytes' < blocksize'
         /\ bytes_to_copy - w_bytes = (max_records' - records) * blocksize' + max_bytes'
  BY <1>5
<1>7. QED
  BY <1>1, <1>5, <1>6 DEF Retuned

LEMMA TuneStays ==
  ASSUME Typed, Placed, UNCHANGED tune_vars, ~Has("autotune")
  PROVE  Retuned
<1>1. UNCHANGED <<blocksize, max_records, max_bytes, at>>
  BY DEF tune_vars
<1>2. QED
  BY <1>1 DEF Typed, Placed, Retuned

LEMMA InitSyncFacts ==
  ASSUME Typed, Placed, InitSync, w_bytes = 0, records = 0
  PROVE  Retuned /\ driver' = "sync"
<1>1. driver' = "sync"
  BY DEF InitSync
<1>2. CASE Has("autotune")
  <2>1. PICK s \in 0..(Len(autotune_stages) - 1) :
          /\ at' = [active |-> TRUE, first |-> s, stage |-> s, blocks |-> 0]
          /\ SetBlocksize(autotune_stages[s + 1], 0, 0)
    BY <1>2 DEF InitSync
  <2>2. s \in Nat /\ s < Len(autotune_stages)
    BY SizeFacts DEF Typed
  <2>3. /\ at' \in [active : BOOLEAN, first : Nat, stage : Nat, blocks : 0..3]
        /\ at'.first <= at'.stage /\ at'.stage < Len(autotune_stages)
    BY <2>1, <2>2
  <2>4. SetBlocksize(autotune_stages[s + 1], w_bytes, records)
    BY <2>1
  <2>5. QED
    BY <1>1, <1>2, <2>3, <2>4, StageTaken
<1>3. CASE ~Has("autotune")
  BY <1>1, <1>3, TuneStays DEF InitSync
<1>4. QED
  BY <1>2, <1>3

Retune ==
  StartSync \/ KernelFallsBack \/ TickSameStage \/ TickNextStage \/ TickSelectsBest

\* The synchronous driver begins, or goes on, where the copy is.
LEMMA RetuneFacts ==
  ASSUME IInv, Retune
  PROVE  /\ UNCHANGED <<cfg, exit_status, data_vars>> /\ pc' = "loop" /\ driver' = "sync"
         /\ pc \in {"start", "step", "tick"} /\ Retuned
         /\ in_file_pos = 0 /\ out_file_pos = 0
         /\ pc # "tick" => records = 0 /\ out = << >> /\ w_bytes = 0
         /\ (pc = "tick") <=> (driver = "sync")
<1>1. Typed /\ Placed
  BY DEF IInv
<1>2. in_off \in Nat /\ in_file_pos \in Nat /\ out_off \in Nat /\ out_file_pos \in Nat
  BY <1>1 DEF Typed
<1>3. CASE StartSync
  <2>1. pc = "start" /\ InitSync /\ pc' = "loop" /\ UNCHANGED <<cfg, exit_status, data_vars>>
    BY <1>3 DEF StartSync
  <2>2. driver = "none" /\ records = 0 /\ w_bytes = 0 /\ Consumed = 0 /\ out = << >>
    BY <1>1, <2>1 DEF Placed
  <2>3. in_file_pos = 0
    BY <1>2, <2>2 DEF Consumed
  <2>4. out_off + out_file_pos = 0
    BY <1>1, <2>2, EmptySeq DEF Placed
  <2>5. out_file_pos = 0
    BY <1>2, <2>4
  <2>6. QED
    BY <1>1, <2>1, <2>2, <2>3, <2>5, InitSyncFacts
<1>4. CASE KernelFallsBack
  <2>1. /\ KernelStep /\ w_bytes = 0 /\ InitSync /\ pc' = "loop"
        /\ UNCHANGED <<cfg, exit_status, data_vars>>
    BY <1>4 DEF KernelFallsBack
  <2>2. /\ ~Has("swab") /\ ~write_error /\ Len(out) = 0 /\ Consumed = 0
        /\ pc = "step" /\ driver # "sync"
    BY <2>1, KernelFacts DEF KernelStep
  <2>3. out = << >>
    BY <1>1, <2>2, EmptySeq DEF Typed
  <2>4. Collected = out
    BY <1>1, <2>2, DirectCollected DEF IInv
  <2>5. records = 0
    <3>1. records \in Nat /\ records <= Len(Collected)
      BY <1>1, <2>2 DEF IInv, Counted, Typed
    <3>2. QED
      BY <2>2, <2>4, <3>1
  <2>6. in_file_pos = 0
    BY <1>2, <2>2 DEF Consumed
  <2>7. out_off + out_file_pos = 0
    BY <1>1, <2>2 DEF Placed
  <2>8. out_file_pos = 0
    BY <1>2, <2>7
  <2>9. QED
    BY <1>1, <2>1, <2>2, <2>3, <2>5, <2>6, <2>8, InitSyncFacts
<1>5. ASSUME pc = "tick"
      PROVE  driver = "sync" /\ in_file_pos = 0 /\ out_file_pos = 0
  <2>1. driver = "sync"
    BY <1>1, <1>5 DEF Placed
  <2>2. in_off = in_off + in_file_pos /\ out_off = out_off + out_file_pos
    BY <1>1, <2>1 DEF Placed, SourcePos, SinkPos, Consumed
  <2>3. QED
    BY <1>2, <2>1, <2>2
<1>6. CASE TickSameStage
  <2>1. /\ pc = "tick" /\ pc' = "loop"
        /\ UNCHANGED <<cfg, driver, exit_status, blocksize, max_records, max_bytes, data_vars>>
        /\ at.active => at.blocks + 1 < 4
        /\ at' = IF at.active THEN [at EXCEPT !.blocks = @ + 1] ELSE at
    BY <1>6 DEF TickSameStage
  <2>2. /\ at' \in [active : BOOLEAN, first : Nat, stage : Nat, blocks : 0..3]
        /\ at'.first = at.first /\ at'.stage = at.stage /\ at'.active = at.active
    <3>1. at \in [active : BOOLEAN, first : Nat, stage : Nat, blocks : 0..3]
      BY <1>1 DEF Typed
    <3>2. CASE at.active
      <4>1. at.blocks + 1 \in 0..3
        BY <2>1, <3>1, <3>2
      <4>2. QED
        BY <2>1, <3>1, <3>2, <4>1
    <3>3. CASE ~at.active
      BY <2>1, <3>1, <3>3
    <3>4. QED
      BY <3>2, <3>3
  <2>3. Retuned
    BY <1>1, <2>1, <2>2 DEF Retuned, Typed, Placed
  <2>4. QED
    BY <1>5, <2>1, <2>3
<1>7. CASE TickNextStage
  <2>1. /\ pc = "tick" /\ pc' = "loop" /\ UNCHANGED <<cfg, driver, exit_status, data_vars>>
        /\ at.active /\ at.stage + 1 < Len(autotune_stages)
        /\ at' = [at EXCEPT !.stage = @ + 1, !.blocks = 0]
        /\ SetBlocksize(autotune_stages[at.stage + 2], w_bytes, records)
    BY <1>7 DEF TickNextStage
  <2>2. /\ at \in [active : BOOLEAN, first : Nat, stage : Nat, blocks : 0..3]
        /\ at.first \in Nat /\ at.stage \in Nat /\ at.first <= at.stage
        /\ Has("autotune") /\ Len(autotune_stages) \in Nat
    BY <1>1, <2>1, SizeFacts DEF Typed, Placed
  <2>3. PICK s \in 0..(Len(autotune_stages) - 1) : s = at.stage + 1
    BY <2>1, <2>2
  <2>4. /\ at' \in [active : BOOLEAN, first : Nat, stage : Nat, blocks : 0..3]
        /\ at'.first = at.first /\ at'.stage = s
    <3>1. at' = [at EXCEPT !.stage = s, !.blocks = 0] /\ s \in Nat
      BY <2>1, <2>2, <2>3
    <3>2. PICK a \in BOOLEAN, f \in Nat, g \in Nat, b \in 0..3 :
            at = [active |-> a, first |-> f, stage |-> g, blocks |-> b]
      BY <2>2
    <3>3. at' = [active |-> a, first |-> f, stage |-> s, blocks |-> 0] /\ at.first = f
      BY <3>1, <3>2
    <3>4. at' \in [active : BOOLEAN, first : Nat, stage : Nat, blocks : 0..3]
      BY <3>1, <3>3
    <3>5. QED
      BY <3>3, <3>4
  <2>5. at'.first <= at'.stage /\ at'.stage < Len(autotune_stages)
    BY <2>2, <2>3, <2>4
  <2>6. SetBlocksize(autotune_stages[s + 1], w_bytes, records)
    <3>1. at.stage + 2 = s + 1
      BY <2>2, <2>3
    <3>2. QED
      BY <2>1, <3>1
  <2>7. QED
    BY <1>1, <1>5, <2>1, <2>2, <2>4, <2>5, <2>6, StageTaken
<1>8. CASE TickSelectsBest
  <2>1. /\ pc = "tick" /\ pc' = "loop" /\ UNCHANGED <<cfg, driver, exit_status, data_vars>>
        /\ at.active /\ at' = NoAutotune
        /\ \E best \in {0} \cup (at.first..at.stage) :
             SetBlocksize(autotune_stages[best + 1], w_bytes, records)
    BY <1>8 DEF TickSelectsBest
  <2>2. /\ at.first \in Nat /\ at.stage \in Nat /\ at.stage < Len(autotune_stages)
        /\ Has("autotune") /\ Len(autotune_stages) \in Nat
    BY <1>1, <2>1, SizeFacts, StateFacts DEF Typed, Placed
  <2>3. PICK best \in 0..(Len(autotune_stages) - 1) :
          SetBlocksize(autotune_stages[best + 1], w_bytes, records)
    BY <2>1, <2>2
  <2>4. /\ at' \in [active : BOOLEAN, first : Nat, stage : Nat, blocks : 0..3]
        /\ at'.first <= at'.stage /\ at'.stage < Len(autotune_stages)
    BY <2>1, <2>2 DEF NoAutotune
  <2>5. QED
    BY <1>1, <1>5, <2>1, <2>2, <2>3, <2>4, StageTaken
<1>9. QED
  BY <1>3, <1>4, <1>6, <1>7, <1>8 DEF Retune

LEMMA RetuneStep == IInv /\ Retune => IInv'
<1>1. SUFFICES ASSUME IInv, Retune PROVE IInv'
  OBVIOUS
<1>2. Typed /\ Placed /\ Direct
  BY <1>1 DEF IInv
<1>3. /\ UNCHANGED <<cfg, exit_status, data_vars>> /\ pc' = "loop" /\ driver' = "sync"
      /\ pc \in {"start", "step", "tick"} /\ Retuned
      /\ in_file_pos = 0 /\ out_file_pos = 0
      /\ pc # "tick" => records = 0 /\ out = << >> /\ w_bytes = 0
      /\ (pc = "tick") <=> (driver = "sync")
  BY <1>1, RetuneFacts
<1>4. UNCHANGED <<cfg, exit_status, records, w_bytes, partread, saved, pending, in_off,
                  out_off, in_file_pos, out_file_pos, out, hashed, write_error>>
  BY <1>3 DEF data_vars, block_vars, pos_vars
<1>5. /\ bytes_to_copy' = bytes_to_copy /\ Sizes' = Sizes
      /\ Hashing' <=> Hashing
      /\ StalePadding' <=> StalePadding
      /\ AutotunedShort' <=> AutotunedShort
      /\ FullReads' <=> FullReads
      /\ Has("swab")' <=> Has("swab")
      /\ Has("sync")' <=> Has("sync")
      /\ Has("autotune")' <=> Has("autotune")
  BY <1>4, Fixed
<1>6. Held' = Held /\ Collected' = Collected /\ Consumed' = Consumed
  BY <1>3, <1>4 DEF Held, Collected, Consumed
<1>7. ~Leaving /\ ~Leaving' /\ ~KernelDriver'
  BY <1>3 DEF Leaving, KernelDriver
<1>8. Typed'
  BY <1>2, <1>3, <1>4, <1>5 DEF Typed, Retuned, Pcs
<1>9. Placed'
  <2>1. Len(pending) < blocksize'
    <3>1. CASE Has("swab")
      <4>1. ~Has("autotune")
        BY <1>2, <3>1, ConfigFacts DEF Typed
      <4>2. blocksize' = blocksize
        BY <1>3, <4>1 DEF Retuned
      <4>3. QED
        BY <1>2, <1>3, <4>2 DEF Placed
    <3>2. CASE ~Has("swab")
      <4>1. pending = << >>
        BY <1>2, <3>2 DEF Direct
      <4>2. blocksize' \in Nat /\ blocksize' > 0
        BY <1>2, <1>3, SizeFacts DEF Typed, Retuned
      <4>3. QED
        BY <4>1, <4>2, EmptySeq
    <3>3. QED
      BY <3>1, <3>2
  <2>2. in_off = Consumed /\ out_off = Len(out)
    <3>1. in_off \in Nat /\ out_off \in Nat
      BY <1>2 DEF Typed
    <3>2. out_off + out_file_pos = Len(out)
      BY <1>2 DEF Placed
    <3>3. QED
      BY <1>3, <3>1, <3>2 DEF Consumed
  <2>3. SourcePos' = in_off /\ SinkPos' = out_off
    BY <1>3, <1>4 DEF SourcePos, SinkPos
  <2>4. /\ at'.active => Has("autotune")
        /\ ~Has("autotune") => blocksize' = cfg.blocksize
    BY <1>2, <1>3 DEF Retuned, Placed
  <2>5. Consumed <= cfg.source /\ out_off + out_file_pos = Len(out) /\ Len(saved) <= 1
    BY <1>2 DEF Placed
  <2>6. QED
    BY <1>3, <1>4, <1>5, <1>6, <1>7, <2>1, <2>2, <2>3, <2>4, <2>5 DEF Placed
<1>10. Direct'
  BY <1>2, <1>4, <1>5, <1>6, <1>7 DEF Direct
<1>11. Crossed'
  BY <1>1, <1>3, <1>4, <1>5, <1>6 DEF IInv, Crossed
<1>12. Counted'
  BY <1>1, <1>4, <1>5, <1>6 DEF IInv, Counted
<1>13. Limited'
  BY <1>1, <1>3, <1>4, <1>5, <1>6 DEF IInv, Limited
<1>14. RecordLimits'
  BY <1>1, <1>3, <1>4, <1>5 DEF IInv, RecordLimits, Retuned
<1>15. Budgeted'
  <2>1. SUFFICES ASSUME Has("autotune"), FullReads
                 PROVE  \/ w_bytes >= bytes_to_copy
                        \/ in_off = cfg.source
                        \/ /\ records <= max_records' /\ max_bytes' < blocksize'
                           /\ bytes_to_copy - w_bytes
                                = (max_records' - records) * blocksize' + max_bytes'
    BY <1>4, <1>5 DEF Budgeted
  <2>2. CASE pc = "tick" /\ UNCHANGED <<blocksize, max_records, max_bytes>>
    BY <1>1, <1>3, <2>1, <2>2 DEF IInv, Budgeted
  <2>3. CASE ~(pc = "tick" /\ UNCHANGED <<blocksize, max_records, max_bytes>>)
    BY <1>3, <2>1, <2>3 DEF Retuned
  <2>4. QED
    BY <2>2, <2>3
<1>16. Digested'
  <2>1. SUFFICES ASSUME Hashing, ~write_error PROVE hashed = out
    BY <1>4, <1>5, <1>7 DEF Digested
  <2>2. IF KernelDriver THEN hashed = << >> ELSE hashed = out
    BY <1>1, <2>1 DEF IInv, Digested
  <2>3. KernelDriver => out = << >>
    BY <1>3 DEF KernelDriver
  <2>4. QED
    BY <2>2, <2>3
<1>17. Ended'
  BY <1>7 DEF Ended
<1>18. QED
  BY <1>8, <1>9, <1>10, <1>11, <1>12, <1>13, <1>14, <1>15, <1>16, <1>17 DEF IInv

------------------------------------------------------------------------------
(* Steps that move no data                                                   *)

\* Records stay below the "no block limit" where no block limit is given.
LEMMA RecordsBelow ==
  ASSUME IInv, ~write_error, cfg.count < 0,
         bytes_to_copy >= 0 =>
           pc = "step" /\ ~Has("autotune")
  PROVE  records < INTMAX_MAX
<1>1. Typed /\ Placed /\ Counted
  BY DEF IInv
<1>2. /\ cfg.source < INTMAX_MAX /\ cfg.limit + cfg.blocksize < INTMAX_MAX
      /\ cfg.source \in Nat /\ INTMAX_MAX \in Nat /\ cfg.blocksize \in Nat
      /\ cfg.limit \in Nat \cup {-1}
  BY <1>1, ConfigFacts DEF Typed
<1>3. records \in Nat /\ w_bytes \in Nat /\ Consumed \in Nat
  BY <1>1, StateFacts DEF Typed
<1>4. w_bytes = Len(out) /\ records <= Len(Collected)
      /\ (records <= Consumed \/ (StalePadding /\ cfg.bad > 0))
  BY <1>1 DEF Counted
<1>5. CASE bytes_to_copy < 0
  <2>1. ~(StalePadding /\ cfg.bad > 0)
    BY <1>1, <1>5, BytesFacts DEF Typed
  <2>2. records <= cfg.source
    BY <1>1, <1>2, <1>3, <1>4, <2>1 DEF Placed
  <2>3. QED
    BY <1>2, <1>3, <2>2
<1>6. CASE bytes_to_copy >= 0
  <2>1. pc = "step" /\ ~Has("autotune")
    BY <1>6
  <2>2. bytes_to_copy = cfg.limit /\ w_bytes < cfg.limit
    <3>1. cfg.limit >= 0
      BY <1>1, <1>2, <1>6, BytesFacts DEF Typed
    <3>2. QED
      BY <1>1, <1>6, <2>1, <3>1, BytesFacts DEF IInv, Limited, Typed
  <2>3. blocksize = cfg.blocksize /\ Len(pending) < blocksize /\ Len(saved) <= 1
    BY <1>1, <2>1 DEF Placed
  <2>4. Held = saved
    BY <2>1 DEF Held
  <2>5. Len(Collected) = Len(out) + Len(pending) + Len(saved)
    BY <1>1, <2>4, CollectedFacts
  <2>6. Len(out) \in Nat /\ Len(pending) \in Nat /\ Len(saved) \in Nat
    BY <1>1, StateFacts
  <2>7. QED
    BY <1>2, <1>3, <1>4, <2>2, <2>3, <2>5, <2>6
<1>7. bytes_to_copy \in Int
  BY <1>1, BytesFacts DEF Typed
<1>8. QED
  BY <1>5, <1>6, <1>7

LEMMA LoopEnds ==
  ASSUME IInv, pc = "loop", LimitReached, ~write_error
  PROVE  CopyComplete
<1>1. /\ Typed /\ records \in Nat /\ w_bytes \in Nat /\ INTMAX_MAX \in Nat
      /\ cfg.count \in Nat \cup {-1}
  BY ConfigFacts DEF IInv, Typed
<1>2. bytes_to_copy \in Nat \cup {-1} /\ (bytes_to_copy < 0 <=> cfg.limit < 0 /\ cfg.count < 0)
  BY <1>1, BytesFacts DEF Typed
<1>3. CASE bytes_to_copy >= 0
  <2>1. w_bytes >= bytes_to_copy /\ w_bytes = Len(out)
    BY <1>3 DEF LimitReached, IInv, Counted
  <2>2. QED
    BY <1>3, <2>1 DEF CopyComplete
<1>4. CASE bytes_to_copy < 0
  <2>1. cfg.count < 0
    BY <1>2, <1>4
  <2>2. max_records = INTMAX_MAX /\ max_bytes = 0
    BY <1>1, <1>4, <2>1 DEF IInv, RecordLimits
  <2>3. records >= INTMAX_MAX
    BY <1>1, <1>2, <1>4, <2>2 DEF LimitReached
  <2>4. records < INTMAX_MAX
    BY <1>2, <1>4, <2>1, RecordsBelow
  <2>5. QED
    BY <1>1, <2>3, <2>4
<1>5. QED
  BY <1>2, <1>3, <1>4

\* The synchronous step ends at the end of the input, or of what was asked for.
LEMMA StepEnds ==
  ASSUME IInv, SyncEnds, ~write_error, ~AutotunedShort
  PROVE  CopyComplete
<1>1. /\ Typed /\ Placed /\ records \in Nat /\ w_bytes \in Nat /\ INTMAX_MAX \in Nat
      /\ max_records \in Nat /\ max_bytes \in Nat /\ in_off \in Nat
      /\ cfg.count \in Nat \cup {-1} /\ blocksize \in Nat /\ blocksize > 0
  BY ConfigFacts, StateFacts DEF IInv, Typed
<1>2. bytes_to_copy \in Nat \cup {-1} /\ (bytes_to_copy < 0 <=> cfg.limit < 0 /\ cfg.count < 0)
  BY <1>1, BytesFacts DEF Typed
<1>3. pc = "step" /\ driver = "sync" /\ (ToRead = 0 \/ in_off = cfg.source)
  BY DEF SyncEnds
<1>4. in_off = Consumed
  BY <1>1, <1>3 DEF Placed, SourcePos
<1>5. CASE in_off = cfg.source
  BY <1>4, <1>5 DEF CopyComplete
<1>6. CASE ToRead = 0 /\ in_off # cfg.source
  <2>1. bytes_to_copy >= 0 => w_bytes < bytes_to_copy
    BY <1>3 DEF IInv, Limited
  <2>2. records >= max_records /\ max_bytes = 0
    BY <1>1, <1>2, <1>6, <2>1 DEF ToRead, Least
  <2>3. CASE Has("autotune") /\ bytes_to_copy >= 0
    <3>1. FullReads
      <4>1. cfg.input = "file" \/ cfg.input = "pipe"
        BY <1>1, ConfigFacts DEF Typed
      <4>2. ~(cfg.bad > 0) => cfg.bad = 0
        BY <1>1, ConfigFacts DEF Typed
      <4>3. QED
        BY <2>3, <4>1, <4>2 DEF AutotunedShort, FullReads
    <3>2. \/ w_bytes >= bytes_to_copy
          \/ /\ records <= max_records
             /\ bytes_to_copy - w_bytes = (max_records - records) * blocksize + max_bytes
      BY <1>3, <1>6, <2>3, <3>1 DEF IInv, Budgeted
    <3>3. /\ ~(w_bytes >= bytes_to_copy) /\ records = max_records
          /\ bytes_to_copy - w_bytes = (max_records - records) * blocksize + max_bytes
      BY <1>1, <1>2, <2>1, <2>2, <2>3, <3>2
    <3>4. (max_records - records) * blocksize = 0
      BY <1>1, <3>3
    <3>5. QED
      BY <1>1, <1>2, <2>2, <3>3, <3>4
  <2>4. CASE ~(Has("autotune") /\ bytes_to_copy >= 0)
    <3>1. max_records = IF cfg.count >= 0 THEN cfg.count ELSE INTMAX_MAX
      BY <1>2, <2>4 DEF IInv, RecordLimits
    <3>2. CASE cfg.count >= 0
      BY <2>2, <3>1, <3>2 DEF CopyComplete
    <3>3. CASE cfg.count < 0
      <4>1. records >= INTMAX_MAX
        BY <1>1, <2>2, <3>1, <3>3
      <4>2. records < INTMAX_MAX
        BY <1>3, <2>4, <3>3, RecordsBelow
      <4>3. QED
        BY <1>1, <4>1, <4>2
    <3>4. QED
      BY <1>1, <3>2, <3>3
  <2>5. QED
    BY <2>3, <2>4
<1>7. QED
  BY <1>3, <1>5, <1>6

Control ==
  \/ StartNothing \/ StartKernel \/ Loop \/ SyncEnds \/ SyncReadFails
  \/ SyncIgnoresError \/ Drained \/ KernelEnds \/ KernelFails \/ UNCHANGED vars

LEMMA NothingStarts ==
  ASSUME IInv, StartNothing
  PROVE  CopyComplete
<1>1. pc = "start" /\ max_records = 0 /\ max_bytes = 0
  BY DEF StartNothing
<1>2. /\ records = 0 /\ Typed /\ cfg.count \in Nat \cup {-1} /\ INTMAX_MAX > 0
      /\ driver = "none"
  <2>1. Typed /\ Placed
    BY DEF IInv
  <2>2. QED
    BY <1>1, <2>1, ConfigFacts DEF Typed, Placed
<1>3. max_records = IF cfg.count >= 0 THEN cfg.count ELSE INTMAX_MAX
  BY <1>2 DEF IInv, RecordLimits
<1>4. cfg.count = 0
  BY <1>1, <1>2, <1>3
<1>5. QED
  BY <1>2, <1>4 DEF CopyComplete

LEMMA ControlFacts ==
  ASSUME IInv, Control
  PROVE  /\ UNCHANGED <<cfg, tune_vars, data_vars>>
         /\ exit_status' \in {exit_status, "failure"}
         /\ \/ driver' = driver
            \/ /\ pc = "start" /\ pc' = "loop" /\ driver' = SelectDriver(cfg)
               /\ Eligible(cfg)
         /\ \/ UNCHANGED <<pc, driver, exit_status>>
            \/ pc = "start" /\ pc' = "done" /\ driver' = driver
            \/ pc = "start" /\ pc' = "loop" /\ driver' # driver
            \/ pc = "loop" /\ pc' = "step" /\ ~LimitReached /\ driver' = driver
            \/ pc \in {"loop", "step"} /\ pc' = "flush" /\ driver' = driver
            \/ pc = "step" /\ pc' = "loop" /\ driver' = driver
            \/ pc = "drain" /\ pc' = "tick" /\ Len(pending) < blocksize /\ driver' = driver
         /\ pc' \in {"flush", "done"} /\ exit_status' = "success" =>
              \/ UNCHANGED <<pc, exit_status>>
              \/ StartNothing \/ SyncEnds \/ (pc = "loop" /\ LimitReached) \/ KernelEnds
<1>1. Placed
  BY DEF IInv
<1>2. CASE StartNothing
  BY <1>2 DEF StartNothing, all_but_pc
<1>3. CASE StartKernel
  <2>1. driver = "none"
    BY <1>1, <1>3 DEF StartKernel, Placed
  <2>2. SelectDriver(cfg) # "none"
    BY <1>3 DEF StartKernel, Eligible
  <2>3. QED
    BY <1>3, <2>1, <2>2 DEF StartKernel
<1>4. CASE Loop
  <2>1. pc = "loop" /\ pc' = (IF LimitReached THEN "flush" ELSE "step") /\ UNCHANGED all_but_pc
    BY <1>4 DEF Loop
  <2>2. QED
    BY <2>1 DEF all_but_pc
<1>5. CASE SyncEnds
  BY <1>5 DEF SyncEnds, all_but_pc
<1>6. CASE SyncReadFails
  BY <1>6 DEF SyncReadFails
<1>7. CASE SyncIgnoresError
  BY <1>7 DEF SyncIgnoresError, all_but_pc
<1>8. CASE Drained
  BY <1>8 DEF Drained, all_but_pc
<1>9. CASE KernelEnds
  BY <1>9 DEF KernelEnds, KernelStep, all_but_pc
<1>10. CASE KernelFails
  BY <1>10 DEF KernelFails, KernelStep
<1>11. CASE UNCHANGED vars
  BY <1>11 DEF vars, all_but_pc
<1>12. QED
  BY <1>2, <1>3, <1>4, <1>5, <1>6, <1>7, <1>8, <1>9, <1>10, <1>11 DEF Control

LEMMA ControlStep == IInv /\ Control => IInv'
<1>1. SUFFICES ASSUME IInv, Control PROVE IInv'
  OBVIOUS
<1>2. Typed /\ Placed /\ Direct
  BY <1>1 DEF IInv
<1>3. /\ UNCHANGED <<cfg, tune_vars, data_vars>>
      /\ exit_status' \in {exit_status, "failure"}
      /\ \/ driver' = driver
         \/ /\ pc = "start" /\ pc' = "loop" /\ driver' = SelectDriver(cfg)
            /\ Eligible(cfg)
  BY <1>1, ControlFacts
<1>4. \/ UNCHANGED <<pc, driver, exit_status>>
      \/ pc = "start" /\ pc' = "done" /\ driver' = driver
      \/ pc = "start" /\ pc' = "loop" /\ driver' # driver
      \/ pc = "loop" /\ pc' = "step" /\ ~LimitReached /\ driver' = driver
      \/ pc \in {"loop", "step"} /\ pc' = "flush" /\ driver' = driver
      \/ pc = "step" /\ pc' = "loop" /\ driver' = driver
      \/ pc = "drain" /\ pc' = "tick" /\ Len(pending) < blocksize /\ driver' = driver
  BY <1>1, ControlFacts
<1>5. UNCHANGED <<cfg, blocksize, max_records, max_bytes, at, records, w_bytes, partread,
                  saved, pending, in_off, out_off, in_file_pos, out_file_pos, out, hashed,
                  write_error>>
  BY <1>3 DEF tune_vars, data_vars, block_vars, pos_vars
<1>6. /\ bytes_to_copy' = bytes_to_copy /\ Sizes' = Sizes
      /\ Hashing' <=> Hashing
      /\ StalePadding' <=> StalePadding
      /\ AutotunedShort' <=> AutotunedShort
      /\ FullReads' <=> FullReads
      /\ Has("swab")' <=> Has("swab")
      /\ Has("sync")' <=> Has("sync")
      /\ Has("autotune")' <=> Has("autotune")
  BY <1>5, Fixed
<1>7. pc = "start" => /\ driver = "none" /\ records = 0 /\ w_bytes = 0 /\ Consumed = 0
                      /\ out = << >> /\ hashed = << >> /\ pending = << >> /\ saved = << >>
                      /\ ~write_error
  BY <1>2 DEF Placed
<1>8. Held' = Held
  BY <1>4, <1>5, <1>7 DEF Held
<1>9. Collected' = Collected /\ Consumed' = Consumed
  BY <1>5, <1>8 DEF Collected, Consumed
<1>10. driver' \in {"none", "sync", "reflink", "splice"}
       /\ (driver' # driver => /\ KernelDriver' /\ driver = "none"
                               /\ cfg.conversions \cap {"swab", "sync", "sha256"} = {})
  <2>1. CASE driver' = driver
    BY <1>2, <2>1 DEF Typed
  <2>2. CASE driver' # driver
    <3>1. pc = "start" /\ driver' = SelectDriver(cfg) /\ Eligible(cfg)
      BY <1>3, <2>2
    <3>2. /\ SelectDriver(cfg) \in {"reflink", "splice"}
          /\ cfg.conversions \cap {"swab", "sync", "sha256"} = {}
      BY <3>1 DEF Eligible
    <3>3. QED
      BY <1>7, <3>1, <3>2 DEF KernelDriver
  <2>3. QED
    BY <2>1, <2>2
<1>11. pc' \in Pcs /\ exit_status' \in {"success", "failure"}
  BY <1>2, <1>3, <1>4 DEF Typed, Pcs
<1>12. Typed'
  BY <1>2, <1>5, <1>6, <1>10, <1>11 DEF Typed
<1>13. Placed'
  <2>1. /\ pc' = "start" => driver' = "none"
        /\ driver' = "none" => pc' \in {"start", "done"}
        /\ driver' = "none" => driver = "none"
        /\ pc' \in {"drain", "tick"} => driver' = "sync"
        /\ pc' = "drain" => Has("swab")
    BY <1>2, <1>4, <1>10 DEF Placed, KernelDriver
  <2>2. KernelDriver' => cfg.conversions \cap {"swab", "sync", "sha256"} = {}
    BY <1>2, <1>10 DEF Placed, KernelDriver
  <2>3. SourcePos' = Consumed /\ SinkPos' = Len(out)
    <3>1. CASE driver' = driver
      <4>1. SourcePos' = SourcePos /\ SinkPos' = SinkPos
        BY <1>5, <3>1 DEF SourcePos, SinkPos
      <4>2. QED
        BY <1>2, <4>1 DEF Placed
    <3>2. CASE driver' # driver
      <4>1. Consumed = 0 /\ Len(out) = 0
        BY <1>3, <1>7, <3>2, EmptySeq
      <4>2. in_off = 0 /\ in_file_pos = 0
        BY <1>2, <4>1 DEF Typed, Consumed
      <4>3. out_off + out_file_pos = 0
        BY <1>2, <4>1 DEF Placed
      <4>4. out_off = 0 /\ out_file_pos = 0
        BY <1>2, <4>3 DEF Typed
      <4>5. QED
        BY <1>5, <4>1, <4>2, <4>4 DEF SourcePos, SinkPos
    <3>3. QED
      BY <3>1, <3>2
  <2>4. pc' \notin {"drain", "flush_drain"} => Len(pending) < blocksize
    BY <1>2, <1>4 DEF Placed
  <2>5. /\ Consumed <= cfg.source /\ out_off + out_file_pos = Len(out) /\ Len(saved) <= 1
        /\ at.active => Has("autotune")
        /\ ~Has("autotune") => blocksize = cfg.blocksize
        /\ driver = "none" =>
             /\ records = 0 /\ w_bytes = 0 /\ Consumed = 0
             /\ out = << >> /\ hashed = << >> /\ pending = << >> /\ saved = << >>
             /\ ~write_error
    BY <1>2 DEF Placed
  <2>6. QED
    BY <1>5, <1>6, <1>9, <2>1, <2>2, <2>3, <2>4, <2>5 DEF Placed
<1>14. ~Has("swab") /\ write_error => UNCHANGED <<pc, driver, exit_status>>
  BY <1>2, <1>4, <1>7 DEF Direct, Leaving
<1>15. Direct'
  <2>1. ~Has("swab") /\ write_error => exit_status' = "failure" /\ Leaving'
    BY <1>2, <1>14 DEF Direct, Leaving
  <2>2. QED
    BY <1>2, <1>5, <1>6, <1>9, <2>1 DEF Direct
<1>16. Crossed'
  <2>1. pc' = "done" /\ pc # "done" => pending = << >>
    BY <1>4, <1>7
  <2>2. QED
    BY <1>1, <1>5, <1>6, <1>9, <2>1 DEF IInv, Crossed
<1>17. Counted'
  BY <1>1, <1>5, <1>6, <1>9 DEF IInv, Counted
<1>18. Limited'
  <2>1. ASSUME pc' = "step", bytes_to_copy >= 0 PROVE w_bytes < bytes_to_copy
    <3>1. CASE pc = "step"
      BY <1>1, <2>1, <3>1 DEF IInv, Limited
    <3>2. CASE pc # "step"
      <4>1. ~LimitReached
        BY <1>4, <2>1, <3>2
      <4>2. w_bytes \in Nat /\ bytes_to_copy \in Int
        BY <1>2, BytesFacts DEF Typed
      <4>3. QED
        BY <2>1, <4>1, <4>2 DEF LimitReached
    <3>3. QED
      BY <3>1, <3>2
  <2>2. QED
    BY <1>1, <1>5, <1>6, <1>9, <2>1 DEF IInv, Limited
<1>19. RecordLimits'
  BY <1>1, <1>5, <1>6, <1>10 DEF IInv, RecordLimits, KernelDriver
<1>20. Budgeted'
  <2>1. SUFFICES ASSUME Has("autotune"), FullReads, driver' = "sync",
                        pc' \in {"loop", "step", "tick"}
                 PROVE  driver = "sync" /\ pc \in {"loop", "step", "tick"}
    BY <1>1, <1>5, <1>6 DEF IInv, Budgeted
  <2>2. driver = "sync"
    BY <1>10, <2>1 DEF KernelDriver
  <2>3. pc # "start"
    BY <1>7, <2>2
  <2>4. pc # "drain"
    BY <1>2, <2>1, ConfigFacts DEF Placed, Typed
  <2>5. QED
    BY <1>4, <2>1, <2>2, <2>3, <2>4
<1>21. Digested'
  <2>1. CASE driver' = driver
    BY <1>1, <1>5, <1>6, <2>1 DEF IInv, Digested, KernelDriver
  <2>2. CASE driver' # driver
    <3>1. out = << >> /\ hashed = << >>
      BY <1>3, <1>7, <2>2
    <3>2. QED
      BY <1>5, <3>1 DEF Digested
  <2>3. QED
    BY <2>1, <2>2
<1>22. Ended'
  <2>1. SUFFICES ASSUME Leaving', exit_status' = "success", ~(Has("swab") /\ write_error),
                        ~AutotunedShort
                 PROVE  CopyComplete' /\ ~write_error
    BY <1>5, <1>6 DEF Ended, SwabLostWrite
  <2>2. CopyComplete => CopyComplete'
    BY <1>5, <1>6, <1>9 DEF CopyComplete
  <2>3. CASE UNCHANGED <<pc, driver, exit_status>>
    <3>1. CopyComplete /\ ~write_error
      BY <1>1, <2>1, <2>3 DEF IInv, Ended, SwabLostWrite, Leaving
    <3>2. QED
      BY <2>2, <3>1
  <2>4. CASE ~UNCHANGED <<pc, driver, exit_status>>
    <3>1. ~write_error
      BY <1>14, <2>1, <2>4
    <3>2. pc' \in {"flush", "done"} /\ pc # pc'
      BY <1>4, <2>1, <2>4 DEF Leaving
    <3>3. StartNothing \/ SyncEnds \/ (pc = "loop" /\ LimitReached) \/ KernelEnds
      BY <1>1, <2>1, <3>2, ControlFacts
    <3>4. CASE KernelEnds
      <4>1. SourcePos = cfg.source
        BY <3>4 DEF KernelEnds
      <4>2. Consumed = cfg.source
        BY <1>2, <4>1 DEF Placed
      <4>3. QED
        BY <2>2, <3>1, <4>2 DEF CopyComplete
    <3>5. QED
      BY <1>1, <2>1, <2>2, <3>1, <3>3, <3>4, NothingStarts, StepEnds, LoopEnds
  <2>5. QED
    BY <2>3, <2>4
<1>23. QED
  BY <1>12, <1>13, <1>15, <1>16, <1>17, <1>18, <1>19, <1>20, <1>21, <1>22 DEF IInv

------------------------------------------------------------------------------
(* What a read delivers                                                      *)

LEMMA ToReadFacts ==
  ASSUME IInv, pc = "step"
  PROVE  /\ ToRead \in Nat
         /\ bytes_to_copy >= 0 => w_bytes < bytes_to_copy /\ ToRead <= bytes_to_copy - w_bytes
         /\ ToRead <= IF records >= max_records THEN max_bytes ELSE blocksize
         /\ \/ ToRead = IF records >= max_records THEN max_bytes ELSE blocksize
            \/ bytes_to_copy >= 0 /\ ToRead = bytes_to_copy - w_bytes
<1>1. /\ Typed /\ records \in Nat /\ max_records \in Nat /\ max_bytes \in Nat
      /\ blocksize \in Nat /\ w_bytes \in Nat
  BY StateFacts DEF IInv, Typed
<1>2. bytes_to_copy \in Nat \cup {-1}
  BY <1>1, BytesFacts DEF Typed
<1>3. bytes_to_copy >= 0 => w_bytes < bytes_to_copy
  BY DEF IInv, Limited
<1>4. PICK size \in Nat : size = IF records >= max_records THEN max_bytes ELSE blocksize
  BY <1>1
<1>5. ToRead = IF bytes_to_copy >= 0 THEN Least(size, bytes_to_copy - w_bytes) ELSE size
  BY <1>4 DEF ToRead
<1>6. QED
  BY <1>1, <1>2, <1>3, <1>4, <1>5 DEF Least

LEMMA ReadFacts ==
  ASSUME IInv, pc = "step", driver = "sync", NEW n \in ReadResults
  PROVE  /\ n \in Nat /\ in_off = Consumed /\ n <= cfg.source - in_off
         /\ n <= ToRead
         /\ n = 0 => StalePadding /\ cfg.bad > 0
         /\ FullReads => n = Least(ToRead, cfg.source - in_off)
<1>1. /\ Typed /\ Placed /\ in_off \in Nat /\ cfg.source \in Nat /\ cfg.bad \in Nat
      /\ cfg.bad <= cfg.source /\ cfg.input \in {"file", "pipe"}
  BY ConfigFacts DEF IInv, Typed
<1>2. in_off = Consumed /\ in_off <= cfg.source
  BY <1>1 DEF Placed, SourcePos
<1>3. ToRead \in Nat
  BY ToReadFacts
<1>4. PICK readable \in Nat : /\ readable = Readable(in_off) /\ readable <= cfg.source - in_off
                              /\ cfg.bad = 0 => readable = cfg.source - in_off
  BY <1>1, <1>2 DEF Readable
<1>5. PICK most \in Nat : /\ most = Least(ToRead, Readable(in_off)) /\ most <= ToRead
                          /\ most <= readable
  BY <1>3, <1>4 DEF Least
<1>6. CASE ToRead > 0 /\ AtBad(in_off)
  <2>1. cfg.bad = in_off + 1
    BY <1>6 DEF AtBad
  <2>2. n = 0 /\ Has("noerror") /\ Has("sync")
    BY <1>6 DEF ReadResults
  <2>3. StalePadding
    BY <2>2 DEF StalePadding, Has
  <2>4. QED
    BY <1>1, <1>2, <1>3, <2>1, <2>2, <2>3 DEF FullReads
<1>7. CASE ~(ToRead > 0 /\ AtBad(in_off))
  <2>1. n \in IF cfg.input = "pipe" THEN 1..most ELSE {most} \ {0}
    BY <1>5, <1>7 DEF ReadResults
  <2>2. n \in Nat /\ n > 0 /\ n <= most
    BY <2>1
  <2>3. FullReads => n = Least(ToRead, cfg.source - in_off)
    <3>1. SUFFICES ASSUME FullReads PROVE n = Least(ToRead, cfg.source - in_off)
      OBVIOUS
    <3>2. n = most /\ Readable(in_off) = cfg.source - in_off
      BY <1>4, <2>1, <3>1 DEF FullReads
    <3>3. QED
      BY <1>5, <3>2
  <2>4. QED
    BY <1>1, <1>2, <1>3, <1>4, <1>5, <2>2, <2>3
<1>8. QED
  BY <1>6, <1>7

LEMMA PaddedFacts ==
  ASSUME Typed, NEW c \in Nat, NEW n \in Nat, n > 0 \/ Has("sync")
  PROVE  LET block == Padded(InputBytes(c, n))
         IN  /\ block \in Seq(Int) /\ Len(block) \in Nat /\ Len(block) > 0 /\ n <= Len(block)
             /\ ~Has("sync") => Len(block) = n
             /\ Has("sync") => blocksize <= Len(block)
             /\ n >= blocksize => Len(block) = n
             /\ ~StalePadding =>
                  \A i \in 1..Len(block) : block[i] = IF i <= n THEN c + i ELSE 0
<1>1. blocksize \in Nat /\ blocksize > 0
  BY StateFacts
<1>2. PICK read \in Seq(Int) : /\ read = InputBytes(c, n) /\ Len(read) = n
                               /\ \A i \in 1..n : read[i] = c + i
  <2>1. InputBytes(c, n) \in [1..n -> Int]
    BY DEF InputBytes
  <2>2. InputBytes(c, n) \in Seq(Int)
    BY <2>1, SeqDef
  <2>3. Len(InputBytes(c, n)) = n
    BY <2>1, <2>2, LenProperties
  <2>4. QED
    BY <2>2, <2>3 DEF InputBytes
<1>3. CASE Has("sync") /\ n < blocksize
  <2>1. PICK k \in Nat : k = blocksize - n
    BY <1>1, <1>3
  <2>2. PICK z : z = IF Has("noerror") THEN Stale ELSE 0
    OBVIOUS
  <2>3. z \in Int /\ (~StalePadding => z = 0)
    BY <1>3, <2>2 DEF Stale, StalePadding, Has
  <2>4. PICK rest \in Seq(Int) : /\ rest = [i \in 1..k |-> z] /\ Len(rest) = k
                                 /\ \A i \in 1..k : rest[i] = z
    <3>1. [i \in 1..k |-> z] \in [1..k -> Int]
      BY <2>3
    <3>2. [i \in 1..k |-> z] \in Seq(Int)
      BY <3>1, SeqDef
    <3>3. Len([i \in 1..k |-> z]) = k
      BY <3>1, <3>2, LenProperties
    <3>4. QED
      BY <3>2, <3>3
  <2>5. Padded(read) = read \o rest
    BY <1>2, <1>3, <2>1, <2>2, <2>4 DEF Padded
  <2>6. /\ read \o rest \in Seq(Int) /\ Len(read \o rest) = Len(read) + Len(rest)
        /\ \A i \in 1..Len(read) : (read \o rest)[i] = read[i]
        /\ \A i \in (Len(read) + 1)..(Len(read) + Len(rest)) :
             (read \o rest)[i] = rest[i - Len(read)]
    BY ConcatFacts
  <2>7. PICK block \in Seq(Int) :
          /\ block = Padded(read) /\ Len(block) = n + k
          /\ \A i \in 1..n : block[i] = read[i]
          /\ \A i \in (n + 1)..(n + k) : block[i] = rest[i - n]
    <3>1. PICK block \in Seq(Int) : block = read \o rest
      BY <2>6
    <3>2. Len(read) = n /\ Len(rest) = k
      BY <1>2, <2>4
    <3>3. /\ Len(block) = n + k
          /\ \A i \in 1..n : block[i] = read[i]
      BY <2>6, <3>1, <3>2
    <3>4. \A i \in (n + 1)..(n + k) : block[i] = rest[i - n]
      BY <2>6, <3>1, <3>2
    <3>5. QED
      BY <2>5, <3>1, <3>3, <3>4
  <2>8. \A i \in 1..n : block[i] = c + i
    BY <1>2, <2>7
  <2>9. \A i \in (n + 1)..(n + k) : block[i] = z
    <3>1. \A i \in (n + 1)..(n + k) : i - n \in 1..k
      OBVIOUS
    <3>2. QED
      BY <2>4, <2>7, <3>1
  <2>10. ~StalePadding => \A i \in 1..(n + k) : block[i] = IF i <= n THEN c + i ELSE 0
    BY <2>3, <2>8, <2>9
  <2>11. n + k = blocksize
    BY <1>1, <2>1
  <2>12. QED
    BY <1>1, <1>2, <1>3, <2>7, <2>10, <2>11
<1>4. CASE ~(Has("sync") /\ n < blocksize)
  <2>1. Padded(read) = read
    BY <1>2, <1>4 DEF Padded
  <2>2. QED
    BY <1>1, <1>2, <1>4, <2>1
<1>5. QED
  BY <1>3, <1>4

------------------------------------------------------------------------------
(* Steps that read and write at once                                         *)

\* n bytes are taken from the input, and b of a block of "full" is appended.
Moves(n, b, full) ==
  /\ UNCHANGED <<cfg, driver, blocksize, max_records, max_bytes, at, saved, pending>>
  /\ out' = out \o b /\ Consumed' = Consumed + n /\ Consumed + n <= cfg.source
  /\ SourcePos' = Consumed' /\ SinkPos' = Len(out) + Len(b)
  /\ out_off' + out_file_pos' = Len(out) + Len(b)
  /\ in_off' \in Nat /\ in_file_pos' \in Nat /\ out_off' \in Nat /\ out_file_pos' \in Nat
  /\ partread' \in 0..cfg.source /\ hashed' \in Seq(Int)
  /\ ~StalePadding => \A i \in 1..Len(b) : b[i] = IF i <= n THEN Consumed + i ELSE 0
  /\ ~Has("sync") =>
       full = n /\ (bytes_to_copy >= 0 => n <= bytes_to_copy - w_bytes)
  /\ records' \in Nat /\ w_bytes' \in Nat /\ w_bytes' <= w_bytes + Len(b)
  /\ Len(b) = full =>
       /\ exit_status' = exit_status /\ write_error' = FALSE /\ pc' \in {"tick", "loop"}
       /\ pc' = "tick" => driver = "sync"
       /\ w_bytes' = w_bytes + full /\ records' <= records + full
       /\ records' <= records + n \/ (StalePadding /\ cfg.bad > 0)
       /\ Hashing => hashed' = IF KernelDriver THEN hashed ELSE hashed \o b
  /\ Len(b) # full =>
       exit_status' = "failure" /\ write_error' = TRUE /\ pc' = "flush"

LEMMA BlockRecords ==
  ASSUME NEW n \in Nat, n > 0, NEW size \in Nat, size > 0
  PROVE  (n + size - 1) \div size \in Nat /\ (n + size - 1) \div size <= n
<1>1. PICK m \in Nat : m = n + size - 1
  OBVIOUS
<1>2. PICK q \in Nat, r \in Nat : q = m \div size /\ r = m % size
  BY <1>1
<1>3. m = (q * size) + r
  BY <1>2
<1>4. q <= n
  <2>1. SUFFICES ASSUME q >= n + 1 PROVE FALSE
    BY <1>2
  <2>2. q * size >= (n + 1) * size
    <3>1. \A a, b, c \in Nat : a >= b => a * c >= b * c
      OBVIOUS
    <3>2. q \in Nat /\ n + 1 \in Nat
      BY <1>2
    <3>3. QED
      BY <2>1, <3>1, <3>2
  <2>3. (n + 1) * size = (n * size) + size
    OBVIOUS
  <2>4. n * size >= n
    OBVIOUS
  <2>5. n * size \in Nat /\ q * size \in Nat
    BY <1>2
  <2>6. QED
    BY <1>1, <1>2, <1>3, <2>2, <2>3, <2>4, <2>5
<1>5. QED
  BY <1>1, <1>2, <1>4

LEMMA KernelMovesFacts ==
  ASSUME IInv, KernelMoves
  PROVE  \E n \in Nat, b \in Seq(Int), full \in Nat :
           /\ Moves(n, b, full) /\ Len(b) <= full /\ n <= full
           /\ driver # "sync"
<1>1. /\ KernelStep /\ Typed /\ Placed
      /\ UNCHANGED <<cfg, driver, tune_vars, block_vars, hashed>>
  BY DEF KernelMoves, IInv
<1>2. /\ ~Has("swab") /\ ~Has("sync") /\ ~StalePadding /\ ~write_error
      /\ w_bytes = Len(out) /\ Len(out) = Consumed
      /\ pc = "step" /\ KernelDriver
  BY <1>1, KernelFacts DEF KernelStep, KernelDriver
<1>3. PICK n \in 1..Movable : \E written \in (IF ViaPipe THEN 0..n ELSE {n}) :
         /\ MoveSource(n) /\ MoveSink(written)
         /\ out' = WrittenAt(SinkPos, InputBytes(SourcePos, written))
         /\ IF written = n
            THEN /\ records' = records + RecordsMoved(n)
                 /\ w_bytes' = w_bytes + n
                 /\ pc' = "loop"
                 /\ UNCHANGED <<exit_status, write_error>>
            ELSE /\ exit_status' = "failure" /\ write_error' = TRUE
                 /\ pc' = "flush"
                 /\ UNCHANGED <<records, w_bytes>>
  BY DEF KernelMoves
<1>4. /\ cfg.source \in Nat /\ cfg.bad \in Nat /\ cfg.bad <= cfg.source
      /\ bytes_to_copy \in Nat \cup {-1}
  BY <1>1, ConfigFacts, BytesFacts DEF Typed
<1>5. /\ SourcePos = Consumed /\ SinkPos = Len(out) /\ Consumed <= cfg.source
      /\ out_off + out_file_pos = Len(out)
      /\ Consumed \in Nat /\ blocksize \in Nat /\ blocksize > 0
      /\ in_off \in Nat /\ in_file_pos \in Nat /\ out_off \in Nat /\ out_file_pos \in Nat
      /\ w_bytes \in Nat /\ records \in Nat
  BY <1>1, StateFacts DEF Placed, Typed
<1>6. PICK readable \in Nat : readable = Readable(SourcePos) /\ readable <= cfg.source - Consumed
  BY <1>4, <1>5 DEF Readable
<1>7. /\ Movable \in Int /\ Movable <= readable
      /\ bytes_to_copy >= 0 => Movable <= bytes_to_copy - w_bytes
  BY <1>4, <1>5, <1>6 DEF Movable, Least
<1>8. n \in Nat /\ n > 0 /\ Consumed + n <= cfg.source
      /\ (bytes_to_copy >= 0 => n <= bytes_to_copy - w_bytes)
  BY <1>4, <1>5, <1>6, <1>7
<1>9. PICK written \in 0..n :
         /\ MoveSource(n) /\ MoveSink(written)
         /\ out' = WrittenAt(SinkPos, InputBytes(SourcePos, written))
         /\ IF written = n
            THEN /\ records' = records + RecordsMoved(n)
                 /\ w_bytes' = w_bytes + n
                 /\ pc' = "loop"
                 /\ UNCHANGED <<exit_status, write_error>>
            ELSE /\ exit_status' = "failure" /\ write_error' = TRUE
                 /\ pc' = "flush"
                 /\ UNCHANGED <<records, w_bytes>>
  BY <1>3, <1>8
<1>10. PICK b \in Seq(Int) : /\ b = InputBytes(SourcePos, written) /\ Len(b) = written
                             /\ \A i \in 1..written : b[i] = Consumed + i
  <2>1. InputBytes(SourcePos, written) = [i \in 1..written |-> Consumed + i]
    BY <1>5 DEF InputBytes
  <2>2. [i \in 1..written |-> Consumed + i] \in [1..written -> Int]
    BY <1>5
  <2>3. written \in Nat
    BY <1>8
  <2>4. [i \in 1..written |-> Consumed + i] \in Seq(Int)
    BY <2>2, <2>3, SeqDef
  <2>5. Len([i \in 1..written |-> Consumed + i]) = written
    BY <2>2, <2>3, <2>4, LenProperties
  <2>6. QED
    BY <2>1, <2>4, <2>5
<1>11. out' = out \o b
  BY <1>1, <1>5, <1>9, <1>10, WrittenFacts DEF Typed
<1>12. /\ Consumed' = Consumed + n /\ SourcePos' = Consumed'
       /\ in_off' \in Nat /\ in_file_pos' \in Nat
  <2>1. driver' = driver /\ cfg' = cfg
    BY <1>1
  <2>2. CASE driver = "splice" /\ cfg.input = "file"
    <3>1. in_file_pos' = in_file_pos + n /\ in_off' = in_off
      BY <1>9, <2>2 DEF MoveSource
    <3>2. in_off = 0
      BY <1>5, <2>2 DEF SourcePos, Consumed
    <3>3. QED
      BY <1>5, <1>8, <2>1, <2>2, <3>1, <3>2 DEF SourcePos, Consumed
  <2>3. CASE ~(driver = "splice" /\ cfg.input = "file")
    <3>1. in_off' = in_off + n /\ in_file_pos' = in_file_pos
      BY <1>9, <2>3 DEF MoveSource
    <3>2. in_file_pos = 0
      BY <1>5, <2>3 DEF SourcePos, Consumed
    <3>3. QED
      BY <1>5, <1>8, <2>1, <2>3, <3>1, <3>2 DEF SourcePos, Consumed
  <2>4. QED
    BY <2>2, <2>3
<1>13. /\ SinkPos' = Len(out) + written /\ out_off' + out_file_pos' = Len(out) + written
       /\ out_off' \in Nat /\ out_file_pos' \in Nat
  <2>1. driver' = driver /\ cfg' = cfg /\ Len(out) \in Nat /\ written \in Nat
    BY <1>1, <1>2, <1>5, <1>8
  <2>2. CASE driver = "splice" /\ cfg.output = "file"
    <3>1. out_file_pos' = out_file_pos + written /\ out_off' = out_off
      BY <1>9, <2>2 DEF MoveSink
    <3>2. out_off = 0
      BY <1>5, <2>2 DEF SinkPos
    <3>3. QED
      BY <1>5, <2>1, <2>2, <3>1, <3>2 DEF SinkPos
  <2>3. CASE ~(driver = "splice" /\ cfg.output = "file")
    <3>1. out_off' = out_off + written /\ out_file_pos' = out_file_pos
      BY <1>9, <2>3 DEF MoveSink
    <3>2. out_file_pos = 0
      BY <1>5, <2>3 DEF SinkPos
    <3>3. QED
      BY <1>5, <2>1, <2>3, <3>1, <3>2 DEF SinkPos
  <2>4. QED
    BY <2>2, <2>3
<1>14. RecordsMoved(n) \in Nat /\ RecordsMoved(n) <= n
  <2>1. (n + blocksize - 1) \div blocksize \in Nat /\ (n + blocksize - 1) \div blocksize <= n
    <3>1. PICK size \in Nat : size = blocksize /\ size > 0
      BY <1>5
    <3>2. n \in Nat /\ n > 0
      BY <1>8
    <3>3. (n + size - 1) \div size \in Nat /\ (n + size - 1) \div size <= n
      BY <3>1, <3>2, BlockRecords
    <3>4. QED
      BY <3>1, <3>3
  <2>2. QED
    BY <1>8, <2>1 DEF RecordsMoved
<1>15. /\ records' \in Nat /\ w_bytes' \in Nat /\ w_bytes' <= w_bytes + written
       /\ written = n =>
            /\ exit_status' = exit_status /\ write_error' = FALSE /\ pc' = "loop"
            /\ w_bytes' = w_bytes + n /\ records' <= records + n
       /\ written # n =>
            exit_status' = "failure" /\ write_error' = TRUE /\ pc' = "flush"
  BY <1>2, <1>5, <1>8, <1>9, <1>14
<1>16. /\ UNCHANGED <<cfg, driver, blocksize, max_records, max_bytes, at, saved, pending>>
       /\ partread' \in 0..cfg.source /\ hashed' \in Seq(Int) /\ hashed' = hashed
  BY <1>1 DEF tune_vars, block_vars, Typed
<1>17. \A i \in 1..Len(b) : b[i] = IF i <= n THEN Consumed + i ELSE 0
  BY <1>8, <1>10
<1>18. Moves(n, b, n)
  BY <1>2, <1>8, <1>10, <1>11, <1>12, <1>13, <1>15, <1>16, <1>17 DEF Moves
<1>19. driver # "sync"
  BY <1>2 DEF KernelDriver
<1>20. QED
  BY <1>8, <1>10, <1>18, <1>19

\* What SyncCopies does with n bytes read, whose block is "block".
LEMMA SyncCopiesFacts ==
  ASSUME IInv, SyncCopies
  PROVE  \E n \in ReadResults, b \in Seq(Int) : \E full \in Nat :
           /\ n \in Nat /\ Moves(n, b, full) /\ Len(b) <= full /\ n <= full
           /\ in_off' = in_off + n /\ records' = records + 1
           /\ driver = "sync" /\ pc = "step" /\ (pc' = "tick" \/ pc' = "flush")
           /\ Len(b) = full => pc' = "tick"
           /\ n >= blocksize => full = n
           /\ Has("sync") => blocksize <= full
<1>1. /\ Typed /\ Placed /\ pc = "step" /\ driver = "sync" /\ ~Has("swab")
      /\ records' = records + 1
      /\ UNCHANGED <<cfg, driver, tune_vars, saved, pending, in_file_pos, out_file_pos>>
  BY DEF SyncCopies, IInv
<1>2. PICK n \in ReadResults :
        LET block == Padded(InputBytes(in_off, n))
        IN  /\ in_off' = in_off + n
            /\ partread' = IF n < blocksize THEN n ELSE 0
            /\ Hash(block)
            /\ \E written \in 0..Len(block) :
                 /\ Emit(SubSeq(block, 1, written))
                 /\ IF written = Len(block)
                    THEN pc' = "tick" /\ UNCHANGED <<exit_status, write_error>>
                    ELSE /\ exit_status' = "failure" /\ write_error' = TRUE
                         /\ pc' = "flush"
  BY DEF SyncCopies
<1>3. /\ n \in Nat /\ in_off = Consumed /\ n <= cfg.source - in_off /\ n <= ToRead
      /\ n = 0 => StalePadding /\ cfg.bad > 0
  BY <1>1, ReadFacts
<1>4. n > 0 \/ Has("sync")
  BY <1>3 DEF StalePadding, Has
<1>5. /\ Consumed \in Nat /\ blocksize \in Nat /\ blocksize > 0 /\ in_off \in Nat
      /\ w_bytes \in Nat /\ records \in Nat /\ in_file_pos \in Nat /\ out_off \in Nat
      /\ out_file_pos \in Nat /\ out \in Seq(Int) /\ hashed \in Seq(Int) /\ Len(out) \in Nat
      /\ cfg.source \in Nat /\ write_error \in BOOLEAN
  BY <1>1, StateFacts, ConfigFacts DEF Typed
<1>6. /\ SinkPos = Len(out) /\ out_off + out_file_pos = Len(out) /\ SinkPos = out_off
      /\ in_file_pos = 0 /\ out_file_pos = 0 /\ out_off = Len(out)
  <2>1. SinkPos = Len(out) /\ out_off + out_file_pos = Len(out) /\ SourcePos = Consumed
    BY <1>1 DEF Placed
  <2>2. SinkPos = out_off /\ SourcePos = in_off
    BY <1>1 DEF SinkPos, SourcePos
  <2>3. QED
    BY <1>5, <2>1, <2>2 DEF Consumed
<1>7. ~write_error /\ w_bytes = Len(out)
  <2>1. ~write_error
    BY <1>1 DEF IInv, Direct, Leaving
  <2>2. QED
    BY <2>1 DEF IInv, Counted
<1>8. PICK block \in Seq(Int), full \in Nat :
        /\ block = Padded(InputBytes(in_off, n)) /\ full = Len(block) /\ full > 0 /\ n <= full
        /\ ~Has("sync") => full = n
        /\ Has("sync") => blocksize <= full
        /\ n >= blocksize => full = n
        /\ ~StalePadding =>
             \A i \in 1..full : block[i] = IF i <= n THEN Consumed + i ELSE 0
  <2>1. PICK c \in Nat : c = in_off
    BY <1>5
  <2>2. LET padded == Padded(InputBytes(c, n))
        IN  /\ padded \in Seq(Int) /\ Len(padded) \in Nat /\ Len(padded) > 0 /\ n <= Len(padded)
            /\ ~Has("sync") => Len(padded) = n
            /\ Has("sync") => blocksize <= Len(padded)
            /\ n >= blocksize => Len(padded) = n
            /\ ~StalePadding =>
                 \A i \in 1..Len(padded) : padded[i] = IF i <= n THEN c + i ELSE 0
    BY <1>1, <1>3, <1>4, PaddedFacts
  <2>3. PICK block \in Seq(Int) : block = Padded(InputBytes(c, n))
    BY <2>2
  <2>4. /\ Len(block) \in Nat /\ Len(block) > 0 /\ n <= Len(block)
        /\ ~Has("sync") => Len(block) = n
        /\ Has("sync") => blocksize <= Len(block)
        /\ n >= blocksize => Len(block) = n
        /\ ~StalePadding =>
             \A i \in 1..Len(block) : block[i] = IF i <= n THEN c + i ELSE 0
    BY <2>2, <2>3
  <2>5. c = Consumed
    BY <1>3, <2>1
  <2>6. QED
    BY <2>1, <2>3, <2>4, <2>5
<1>9. PICK written \in 0..full :
        /\ Emit(SubSeq(block, 1, written))
        /\ IF written = full
           THEN pc' = "tick" /\ UNCHANGED <<exit_status, write_error>>
           ELSE /\ exit_status' = "failure" /\ write_error' = TRUE
                /\ pc' = "flush"
  BY <1>2, <1>8
<1>10. /\ in_off' = in_off + n /\ partread' = (IF n < blocksize THEN n ELSE 0)
       /\ hashed' = IF Hashing THEN hashed \o block ELSE hashed
  BY <1>2, <1>8 DEF Hash
<1>11. PICK b \in Seq(Int) :
         /\ b = SubSeq(block, 1, written) /\ Len(b) = written
         /\ \A i \in 1..written : b[i] = block[i]
         /\ written = full => b = block
  <2>1. /\ SubSeq(block, 1, written) \in Seq(Int) /\ Len(SubSeq(block, 1, written)) = written
        /\ \A i \in 1..written : SubSeq(block, 1, written)[i] = block[i]
    BY <1>8, PartFacts
  <2>2. written = full => SubSeq(block, 1, written) = block
    BY <1>8, SubSeqFull
  <2>3. QED
    BY <2>1, <2>2
<1>12. /\ out' = out \o b /\ out_off' = out_off + written /\ w_bytes' = w_bytes + written
  <2>1. out' = WrittenAt(out_off, b) /\ out_off' = out_off + Len(b) /\ w_bytes' = w_bytes + Len(b)
    BY <1>9, <1>11 DEF Emit
  <2>2. WrittenAt(Len(out), b) = out \o b
    BY <1>5, WrittenFacts
  <2>3. QED
    BY <1>6, <1>11, <2>1, <2>2
<1>13. written \in Nat /\ written <= full
  BY <1>8
<1>14. /\ Consumed' = Consumed + n /\ Consumed + n <= cfg.source
       /\ SourcePos' = Consumed' /\ SinkPos' = Len(out) + written
       /\ out_off' + out_file_pos' = Len(out) + written
       /\ in_off' \in Nat /\ in_file_pos' \in Nat /\ out_off' \in Nat /\ out_file_pos' \in Nat
  <2>1. /\ driver' = "sync" /\ in_file_pos' = 0 /\ out_file_pos' = 0
        /\ in_off' = Consumed + n /\ out_off' = Len(out) + written
    BY <1>1, <1>3, <1>6, <1>10, <1>12
  <2>2. Consumed' = Consumed + n /\ SourcePos' = Consumed + n /\ SinkPos' = Len(out) + written
    BY <1>3, <1>5, <2>1 DEF Consumed, SourcePos, SinkPos
  <2>3. QED
    BY <1>3, <1>5, <1>13, <2>1, <2>2
<1>15. partread' \in 0..cfg.source
  BY <1>3, <1>5, <1>10
<1>16. hashed' \in Seq(Int)
  BY <1>5, <1>8, <1>10, ConcatFacts
<1>17. ~StalePadding => \A i \in 1..Len(b) : b[i] = IF i <= n THEN Consumed + i ELSE 0
  <2>1. \A i \in 1..Len(b) : i \in 1..full
    BY <1>11, <1>13
  <2>2. QED
    BY <1>8, <1>11, <2>1
<1>18. ~Has("sync") => full = n /\ (bytes_to_copy >= 0 => n <= bytes_to_copy - w_bytes)
  <2>1. bytes_to_copy >= 0 => ToRead <= bytes_to_copy - w_bytes
    BY <1>1, ToReadFacts
  <2>2. ToRead \in Nat /\ bytes_to_copy \in Int
    BY <1>1, ToReadFacts, BytesFacts DEF Typed
  <2>3. QED
    BY <1>3, <1>5, <1>8, <2>1, <2>2
<1>19. records' \in Nat /\ w_bytes' \in Nat /\ w_bytes' <= w_bytes + Len(b)
  BY <1>1, <1>5, <1>11, <1>12, <1>13
<1>20. Len(b) = full =>
       /\ exit_status' = exit_status /\ write_error' = FALSE /\ pc' = "tick"
       /\ w_bytes' = w_bytes + full /\ records' <= records + full
       /\ records' <= records + n \/ (StalePadding /\ cfg.bad > 0)
       /\ Hashing => hashed' = hashed \o b
  <2>1. SUFFICES ASSUME Len(b) = full
                 PROVE  /\ exit_status' = exit_status /\ write_error' = FALSE /\ pc' = "tick"
                        /\ w_bytes' = w_bytes + full /\ records' <= records + full
                        /\ records' <= records + n \/ (StalePadding /\ cfg.bad > 0)
                        /\ Hashing => hashed' = hashed \o b
    OBVIOUS
  <2>2. written = full /\ b = block
    BY <1>11, <2>1
  <2>3. exit_status' = exit_status /\ write_error' = write_error /\ pc' = "tick"
    BY <1>9, <2>2
  <2>4. w_bytes' = w_bytes + full /\ records' <= records + full
    BY <1>1, <1>5, <1>8, <1>12, <2>2
  <2>5. records' <= records + n \/ (StalePadding /\ cfg.bad > 0)
    BY <1>1, <1>3, <1>5
  <2>6. Hashing => hashed' = hashed \o b
    BY <1>10, <2>2
  <2>7. QED
    BY <1>7, <2>3, <2>4, <2>5, <2>6
<1>21. Len(b) # full =>
         exit_status' = "failure" /\ write_error' = TRUE /\ pc' = "flush"
  BY <1>9, <1>11
<1>22. /\ UNCHANGED <<cfg, driver, blocksize, max_records, max_bytes, at, saved, pending>>
       /\ ~KernelDriver
  BY <1>1 DEF tune_vars, KernelDriver
<1>23. Moves(n, b, full)
  BY <1>1, <1>11, <1>12, <1>14, <1>15, <1>16, <1>17, <1>18, <1>19, <1>20, <1>21, <1>22 DEF Moves
<1>24. /\ n \in Nat /\ Moves(n, b, full) /\ Len(b) <= full /\ n <= full
       /\ in_off' = in_off + n /\ records' = records + 1
       /\ driver = "sync" /\ pc = "step" /\ (pc' = "tick" \/ pc' = "flush")
       /\ Len(b) = full => pc' = "tick"
       /\ n >= blocksize => full = n
       /\ Has("sync") => blocksize <= full
  BY <1>1, <1>3, <1>8, <1>9, <1>10, <1>11, <1>13, <1>20, <1>21, <1>23
<1>25. QED
  BY <1>24

LEMMA MovesStep ==
  ASSUME IInv, pc = "step", ~Has("swab"),
         NEW n \in Nat, NEW b \in Seq(Int), NEW full \in Nat,
         Moves(n, b, full), Len(b) <= full, n <= full
  PROVE  /\ Typed' /\ Placed' /\ Direct' /\ Crossed' /\ Counted' /\ Limited'
         /\ RecordLimits' /\ Digested' /\ Ended'
<1>1. Typed /\ Placed /\ Direct
  BY DEF IInv
<1>2. UNCHANGED <<cfg, driver, blocksize, max_records, max_bytes, at, saved, pending>>
  BY DEF Moves
<1>3. /\ bytes_to_copy' = bytes_to_copy /\ Sizes' = Sizes
      /\ Hashing' <=> Hashing
      /\ StalePadding' <=> StalePadding
      /\ AutotunedShort' <=> AutotunedShort
      /\ FullReads' <=> FullReads
      /\ Has("swab")' <=> Has("swab")
      /\ Has("sync")' <=> Has("sync")
      /\ Has("autotune")' <=> Has("autotune")
  BY <1>2, Fixed
<1>4. pending = << >> /\ saved = << >> /\ Collected = out
  BY <1>1, DirectCollected
<1>5. ~write_error /\ w_bytes = Len(out) /\ records <= Len(out)
      /\ (records <= Consumed \/ (StalePadding /\ cfg.bad > 0))
  <2>1. ~write_error
    BY <1>1 DEF Direct, Leaving
  <2>2. QED
    BY <1>4, <2>1 DEF IInv, Counted
<1>6. /\ out \in Seq(Int) /\ Len(out) \in Nat /\ Len(b) \in Nat /\ Consumed \in Nat
      /\ records \in Nat /\ w_bytes \in Nat /\ blocksize \in Nat /\ blocksize > 0
      /\ hashed \in Seq(Int)
  BY <1>1, StateFacts, LenProperties DEF Typed
<1>7. /\ out' = out \o b /\ Consumed' = Consumed + n /\ Consumed + n <= cfg.source
      /\ SourcePos' = Consumed' /\ SinkPos' = Len(out) + Len(b)
      /\ out_off' + out_file_pos' = Len(out) + Len(b)
  BY DEF Moves
<1>8. out' \in Seq(Int) /\ Len(out') = Len(out) + Len(b)
  BY <1>6, <1>7, ConcatFacts
<1>9. \/ /\ Len(b) = full /\ exit_status' = exit_status /\ write_error' = FALSE
         /\ pc' \in {"tick", "loop"} /\ (pc' = "tick" => driver = "sync")
         /\ w_bytes' = w_bytes + full /\ records' <= records + full
         /\ records' <= records + n \/ (StalePadding /\ cfg.bad > 0)
         /\ Hashing => hashed' = IF KernelDriver THEN hashed ELSE hashed \o b
      \/ /\ Len(b) # full /\ exit_status' = "failure" /\ write_error' = TRUE
         /\ pc' = "flush"
  BY DEF Moves
<1>10. /\ records' \in Nat /\ w_bytes' \in Nat /\ w_bytes' <= w_bytes + Len(b)
       /\ in_off' \in Nat /\ in_file_pos' \in Nat /\ out_off' \in Nat
       /\ out_file_pos' \in Nat /\ partread' \in 0..cfg.source /\ hashed' \in Seq(Int)
  BY DEF Moves
<1>11. /\ pc' \in {"tick", "loop", "flush"} /\ (pc' = "tick" => driver = "sync")
       /\ exit_status' \in {"success", "failure"}
       /\ write_error' => exit_status' = "failure" /\ pc' = "flush"
       /\ pc' = "flush" => exit_status' = "failure"
       /\ ~write_error' => Len(b) = full
  BY <1>1, <1>9 DEF Typed
<1>12. write_error' \in BOOLEAN
  <2>1. CASE Len(b) = full
    <3>1. write_error' = FALSE
      BY <2>1 DEF Moves
    <3>2. QED
      BY <3>1
  <2>2. CASE Len(b) # full
    BY <1>9, <2>2
  <2>3. QED
    BY <2>1, <2>2
<1>13. pending' = << >> /\ saved' = << >> /\ Held' = << >>
  BY <1>2, <1>4 DEF Held
<1>14. Collected' = out'
  <2>1. out' \o << >> = out'
    BY <1>8, ConcatEmptySeq
  <2>2. QED
    BY <1>13, <2>1 DEF Collected
<1>15. Typed'
  BY <1>1, <1>2, <1>3, <1>8, <1>10, <1>11, <1>12 DEF Typed, Pcs
<1>16. Placed'
  <2>1. driver # "none"
    BY <1>1 DEF Placed
  <2>2. Len(pending) < blocksize /\ Len(saved) <= 1
    BY <1>4, <1>6, EmptySeq
  <2>3. /\ at.active => Has("autotune")
        /\ ~Has("autotune") => blocksize = cfg.blocksize
        /\ KernelDriver => cfg.conversions \cap {"swab", "sync", "sha256"} = {}
    BY <1>1 DEF Placed
  <2>4. KernelDriver' <=> KernelDriver
    BY <1>2 DEF KernelDriver
  <2>5. QED
    BY <1>2, <1>3, <1>7, <1>8, <1>11, <2>1, <2>2, <2>3, <2>4 DEF Placed
<1>17. Direct'
  <2>1. write_error' => exit_status' = "failure" /\ Leaving'
    BY <1>11 DEF Leaving
  <2>2. ASSUME ~StalePadding
        PROVE  \E k \in 0..Consumed' : Rising(out', k) /\ (~write_error' => k = Consumed')
    <3>1. Rising(out, Consumed)
      <4>1. \E k \in 0..Consumed : Rising(out, k) /\ (~write_error => k = Consumed)
        BY <1>1, <2>2 DEF Direct
      <4>2. QED
        BY <1>5, <4>1
    <3>2. \A i \in 1..Len(b) : b[i] = IF i <= n THEN Consumed + i ELSE 0
      BY <2>2 DEF Moves
    <3>3. PICK c \in Nat : c = Consumed
      BY <1>6
    <3>4. Rising(out \o b, c + Least(n, Len(b)))
      <4>1. Rising(out, c) /\ \A i \in 1..Len(b) : b[i] = IF i <= n THEN c + i ELSE 0
        BY <3>1, <3>2, <3>3
      <4>2. QED
        BY <1>6, <4>1, RisingGrows
    <3>5. PICK m \in Nat : m = Least(n, Len(b)) /\ m <= n /\ (Len(b) = full => m = n)
      BY <1>6 DEF Least
    <3>6. c + m \in 0..Consumed' /\ (~write_error' => c + m = Consumed')
      BY <1>7, <1>11, <3>3, <3>5
    <3>7. Rising(out', c + m)
      BY <1>7, <3>4, <3>5
    <3>8. QED
      BY <3>6, <3>7
  <2>3. ASSUME ~Has("sync")
        PROVE  Len(out') <= Consumed' /\ (~write_error' => Len(out') = Consumed')
    <3>1. Len(out) = Consumed /\ full = n
      BY <1>1, <1>5, <2>3 DEF Direct, Moves
    <3>2. QED
      BY <1>6, <1>7, <1>8, <1>11, <3>1
  <2>4. QED
    BY <1>3, <1>13, <2>1, <2>2, <2>3 DEF Direct
<1>18. Crossed'
  BY <1>3 DEF Crossed
<1>19. Counted'
  <2>1. w_bytes' <= Len(out')
    BY <1>5, <1>6, <1>8, <1>10
  <2>2. ASSUME ~write_error'
        PROVE  /\ w_bytes' = Len(out') /\ records' <= Len(out')
               /\ records' <= Consumed' \/ (StalePadding /\ cfg.bad > 0)
    <3>1. /\ Len(b) = full /\ w_bytes' = w_bytes + full /\ records' <= records + full
          /\ records' <= records + n \/ (StalePadding /\ cfg.bad > 0)
      BY <1>9, <2>2
    <3>2. w_bytes' = Len(out') /\ records' <= Len(out')
      BY SMTT(30), <1>5, <1>6, <1>8, <1>10, <3>1
    <3>3. records' <= Consumed' \/ (StalePadding /\ cfg.bad > 0)
      BY <1>5, <1>6, <1>7, <1>10, <3>1
    <3>4. QED
      BY <3>2, <3>3
  <2>3. QED
    BY <1>2, <1>3, <1>14, <2>1, <2>2 DEF Counted
<1>20. Limited'
  <2>1. SUFFICES ASSUME bytes_to_copy >= 0, cfg.conversions \cap {"swab", "sync"} = {}
                 PROVE  Len(out') <= bytes_to_copy /\ Consumed' <= bytes_to_copy
    BY <1>2, <1>3, <1>11 DEF Limited
  <2>2. ~Has("sync")
    BY <2>1 DEF Has
  <2>3. Len(out) = Consumed /\ full = n /\ n <= bytes_to_copy - w_bytes
    BY <1>1, <1>5, <2>1, <2>2 DEF Direct, Moves
  <2>4. bytes_to_copy \in Int
    BY <1>1, BytesFacts DEF Typed
  <2>5. QED
    BY <1>5, <1>6, <1>7, <1>8, <2>3, <2>4
<1>21. RecordLimits'
  BY <1>2, <1>3 DEF IInv, RecordLimits
<1>22. Digested'
  <2>1. SUFFICES ASSUME Hashing, ~write_error'
                 PROVE  IF KernelDriver THEN hashed' = << >> ELSE hashed' = out'
    BY <1>2, <1>3 DEF Digested, KernelDriver
  <2>2. IF KernelDriver THEN hashed = << >> ELSE hashed = out
    BY <1>5, <2>1 DEF IInv, Digested
  <2>3. hashed' = IF KernelDriver THEN hashed ELSE hashed \o b
    BY <1>9, <2>1
  <2>4. QED
    BY <1>7, <2>2, <2>3
<1>23. Ended'
  <2>1. Leaving' => exit_status' = "failure"
    BY <1>11 DEF Leaving
  <2>2. QED
    BY <2>1 DEF Ended
<1>24. QED
  BY <1>15, <1>16, <1>17, <1>18, <1>19, <1>20, <1>21, <1>22, <1>23

LEMMA KernelMovesStep == IInv /\ KernelMoves => IInv'
<1>1. SUFFICES ASSUME IInv, KernelMoves PROVE IInv'
  OBVIOUS
<1>2. PICK n \in Nat, b \in Seq(Int), full \in Nat :
        Moves(n, b, full) /\ Len(b) <= full /\ n <= full /\ driver # "sync"
  BY <1>1, KernelMovesFacts
<1>3. ~Has("swab") /\ pc = "step"
  BY <1>1, KernelFacts DEF KernelMoves, KernelStep
<1>4. /\ Typed' /\ Placed' /\ Direct' /\ Crossed' /\ Counted' /\ Limited'
      /\ RecordLimits' /\ Digested' /\ Ended'
  BY <1>1, <1>2, <1>3, MovesStep
<1>5. driver' = driver
  BY <1>2 DEF Moves
<1>6. Budgeted'
  BY <1>2, <1>5 DEF Budgeted
<1>7. QED
  BY <1>4, <1>6 DEF IInv

LEMMA SyncCopiesStep == IInv /\ SyncCopies => IInv'
<1>1. SUFFICES ASSUME IInv, SyncCopies PROVE IInv'
  OBVIOUS
<1>2. PICK n \in ReadResults, b \in Seq(Int) : \E full \in Nat :
        /\ n \in Nat /\ Moves(n, b, full) /\ Len(b) <= full /\ n <= full
        /\ in_off' = in_off + n /\ records' = records + 1
        /\ driver = "sync" /\ pc = "step" /\ (pc' = "tick" \/ pc' = "flush")
        /\ Len(b) = full => pc' = "tick"
        /\ n >= blocksize => full = n
        /\ Has("sync") => blocksize <= full
  BY <1>1, SyncCopiesFacts
<1>3. PICK full \in Nat :
        /\ n \in Nat /\ Moves(n, b, full) /\ Len(b) <= full /\ n <= full
        /\ in_off' = in_off + n /\ records' = records + 1
        /\ driver = "sync" /\ pc = "step" /\ (pc' = "tick" \/ pc' = "flush")
        /\ Len(b) = full => pc' = "tick"
        /\ n >= blocksize => full = n
        /\ Has("sync") => blocksize <= full
  BY <1>2
<1>4. ~Has("swab")
  BY <1>1 DEF SyncCopies
<1>5. /\ Typed' /\ Placed' /\ Direct' /\ Crossed' /\ Counted' /\ Limited'
      /\ RecordLimits' /\ Digested' /\ Ended'
  BY <1>1, <1>3, <1>4, MovesStep
<1>6. UNCHANGED <<cfg, driver, blocksize, max_records, max_bytes, at, saved, pending>>
  BY <1>3 DEF Moves
<1>7. /\ bytes_to_copy' = bytes_to_copy
      /\ FullReads' <=> FullReads
      /\ Has("autotune")' <=> Has("autotune")
  BY <1>6, Fixed
<1>8. Budgeted'
  <2>1. SUFFICES ASSUME Has("autotune"), FullReads, pc' # "flush"
                 PROVE  \/ w_bytes' >= bytes_to_copy
                        \/ in_off' = cfg.source
                        \/ /\ records' <= max_records /\ max_bytes < blocksize
                           /\ bytes_to_copy - w_bytes'
                                = (max_records - records') * blocksize + max_bytes
    BY <1>6, <1>7 DEF Budgeted
  <2>2. Len(b) = full
    BY <1>3, <2>1 DEF Moves
  <2>3. w_bytes' = w_bytes + full
    BY <1>3, <2>2 DEF Moves
  <2>4. Typed
    BY <1>1 DEF IInv
  <2>5. /\ records \in Nat /\ max_records \in Nat /\ max_bytes \in Nat /\ w_bytes \in Nat
        /\ blocksize \in Nat /\ blocksize > 0 /\ bytes_to_copy \in Int
        /\ cfg.source \in Nat /\ in_off \in Nat
    BY <2>4, StateFacts, BytesFacts, ConfigFacts DEF Typed
  <2>6. /\ n <= cfg.source - in_off
        /\ n = Least(ToRead, cfg.source - in_off)
    BY <1>1, <1>3, <2>1, ReadFacts
  <2>7. \/ w_bytes >= bytes_to_copy
        \/ in_off = cfg.source
        \/ /\ records <= max_records /\ max_bytes < blocksize
           /\ bytes_to_copy - w_bytes = (max_records - records) * blocksize + max_bytes
    BY <1>1, <1>3, <2>1 DEF IInv, Budgeted
  <2>8. CASE w_bytes >= bytes_to_copy
    BY <2>3, <2>5, <2>8
  <2>9. CASE in_off = cfg.source
    BY <1>3, <2>5, <2>6, <2>9
  <2>10. CASE /\ w_bytes < bytes_to_copy
              /\ records <= max_records /\ max_bytes < blocksize
              /\ bytes_to_copy - w_bytes = (max_records - records) * blocksize + max_bytes
    <3>1. /\ ToRead \in Nat /\ ToRead <= bytes_to_copy - w_bytes
          /\ ToRead <= IF records >= max_records THEN max_bytes ELSE blocksize
          /\ \/ ToRead = IF records >= max_records THEN max_bytes ELSE blocksize
             \/ ToRead = bytes_to_copy - w_bytes
      BY <1>1, <1>3, <2>5, <2>10, ToReadFacts
    <3>2. CASE n = cfg.source - in_off
      BY <1>3, <2>5, <3>2
    <3>3. CASE n # cfg.source - in_off
      <4>1. n = ToRead
        BY <2>6, <3>3 DEF Least
      <4>2. CASE records < max_records
        <5>1. PICK d \in Nat : d = max_records - records - 1
          BY <2>5, <4>2
        <5>2. PICK p \in Nat : p = d * blocksize
          BY <2>5
        <5>3. (max_records - records) * blocksize = p + blocksize
          <6>1. max_records - records = d + 1
            BY <2>5, <5>1
          <6>2. (d + 1) * blocksize = d * blocksize + blocksize
            BY <2>5
          <6>3. QED
            BY <5>2, <6>1, <6>2
        <5>4. bytes_to_copy - w_bytes = p + blocksize + max_bytes
          BY <2>10, <5>3
        <5>5. n = blocksize /\ full = blocksize
          BY <1>3, <2>5, <3>1, <4>1, <4>2, <5>4
        <5>6. (max_records - records') * blocksize = p
          <6>1. max_records - records' = d
            BY <1>3, <2>5, <5>1
          <6>2. QED
            BY <5>2, <6>1
        <5>7. records' <= max_records
          BY <1>3, <2>5, <4>2
        <5>8. bytes_to_copy - w_bytes' = (max_records - records') * blocksize + max_bytes
          BY <2>3, <2>5, <5>4, <5>5, <5>6
        <5>9. QED
          BY <2>10, <5>7, <5>8
      <4>3. CASE records = max_records
        <5>1. (max_records - records) * blocksize = 0
          BY <2>5, <4>3
        <5>2. bytes_to_copy - w_bytes = max_bytes
          BY <2>5, <2>10, <5>1
        <5>3. n = max_bytes
          BY <2>5, <3>1, <4>1, <4>3, <5>2
        <5>4. QED
          BY <1>3, <2>3, <2>5, <5>2, <5>3
      <4>4. QED
        BY <2>5, <2>10, <4>2, <4>3
    <3>4. QED
      BY <3>2, <3>3
  <2>11. QED
    BY <2>5, <2>7, <2>8, <2>9, <2>10
<1>9. QED
  BY <1>5, <1>8 DEF IInv

------------------------------------------------------------------------------
(* Steps of --swab                                                           *)

LEMMA SwabFacts ==
  ASSUME Typed, Has("swab")
  PROVE  ~Has("autotune") /\ cfg.conversions \cap {"swab", "sync"} # {}
BY ConfigFacts DEF Typed, Has

LEMMA BothFacts ==
  ASSUME NEW s \in Seq(Int), NEW t \in Seq(Int)
  PROVE  /\ s \o t \in Seq(Int) /\ Len(s \o t) = Len(s) + Len(t)
         /\ Range(s \o t) = Range(s) \cup Range(t)
         /\ Len(s) \in Nat /\ Len(t) \in Nat
BY ConcatProperties, RangeConcatenation, LenProperties

LEMMA Associative ==
  ASSUME NEW s \in Seq(Int), NEW t \in Seq(Int), NEW u \in Seq(Int)
  PROVE  (s \o t) \o u = s \o (t \o u)
BY ConcatAssociative

\* Collecting a block adds its bytes to what was made of the input.
LEMMA SwabGrows ==
  ASSUME NEW b \in Seq(Int)
  PROVE  /\ out \in Seq(Int) /\ pending \in Seq(Int) /\ saved \in Seq(Int)
         /\ pending' = pending \o SwapPairs(saved \o b) /\ saved' = OddByte(saved \o b)
         /\ Collected = (out \o pending) \o saved
         /\ Collected' = (out \o pending') \o saved'
         => /\ pending' \in Seq(Int) /\ saved' \in Seq(Int) /\ Len(saved') <= 1
            /\ Collected' = ((out \o pending) \o SwapPairs(saved \o b)) \o OddByte(saved \o b)
            /\ Collected' \in Seq(Int)
            /\ Len(Collected') = Len(Collected) + Len(b)
            /\ Range(Collected') = Range(Collected) \cup Range(b)
<1>a. SUFFICES ASSUME out \in Seq(Int), pending \in Seq(Int), saved \in Seq(Int),
                      pending' = pending \o SwapPairs(saved \o b),
                      saved' = OddByte(saved \o b),
                      Collected = (out \o pending) \o saved,
                      Collected' = (out \o pending') \o saved'
      PROVE  /\ pending' \in Seq(Int) /\ saved' \in Seq(Int) /\ Len(saved') <= 1
             /\ Collected' = ((out \o pending) \o SwapPairs(saved \o b))
                                 \o OddByte(saved \o b)
             /\ Collected' \in Seq(Int)
             /\ Len(Collected') = Len(Collected) + Len(b)
             /\ Range(Collected') = Range(Collected) \cup Range(b)
  OBVIOUS
<1>0. PICK u \in Seq(Int), p \in Seq(Int), s \in Seq(Int) :
        u = out /\ p = pending /\ s = saved
  BY <1>a
<1>b. ASSUME NEW d \in Seq(Int) PROVE (u \o p) \o d = u \o (p \o d)
  BY SMTT(30), Associative
<1>1. PICK x \in Seq(Int) : x = s \o b
  BY ConcatFacts
<1>2. Len(x) = Len(s) + Len(b) /\ Range(x) = Range(s) \cup Range(b)
  BY <1>1, ConcatProperties, RangeConcatenation
<1>3. PICK m \in Seq(Int), o \in Seq(Int) : m = SwapPairs(x) /\ o = OddByte(x)
  BY SwapFacts
<1>4. /\ Len(m) = 2 * (Len(x) \div 2) /\ Len(o) = Len(x) % 2
      /\ Range(m) \cup Range(o) = Range(x)
  BY <1>3, SwapFacts
<1>5. Len(m) + Len(o) = Len(x) /\ Len(o) <= 1
  <2>1. PICK l \in Nat : l = Len(x)
    BY LenProperties
  <2>2. l = (2 * (l \div 2)) + (l % 2) /\ l % 2 <= 1
    OBVIOUS
  <2>3. QED
    BY <1>4, <2>1, <2>2
<1>6. PICK w \in Seq(Int), q \in Seq(Int) : w = u \o p /\ q = p \o m
  BY BothFacts
<1>7. u \o q = w \o m
  <2>1. (u \o p) \o m = u \o (p \o m)
    BY <1>b
  <2>2. QED
    BY <1>6, <2>1
<1>8. PICK y \in Seq(Int), v \in Seq(Int) : y = w \o m /\ v = w \o s
  BY BothFacts
<1>9. PICK z \in Seq(Int) : z = y \o o
  BY BothFacts
<1>10. /\ Len(y) = Len(w) + Len(m) /\ Range(y) = Range(w) \cup Range(m)
       /\ Len(v) = Len(w) + Len(s) /\ Range(v) = Range(w) \cup Range(s)
  BY <1>8, BothFacts
<1>11. Len(z) = Len(y) + Len(o) /\ Range(z) = Range(y) \cup Range(o)
  BY <1>9, BothFacts
<1>12. Len(z) = Len(v) + Len(b)
  <2>1. Len(w) \in Nat /\ Len(m) \in Nat /\ Len(o) \in Nat /\ Len(s) \in Nat /\ Len(b) \in Nat
    BY LenProperties
  <2>2. PICK i1 \in Nat, i2 \in Nat, i3 \in Nat, i4 \in Nat, i5 \in Nat :
          i1 = Len(w) /\ i2 = Len(m) /\ i3 = Len(o) /\ i4 = Len(s) /\ i5 = Len(b)
    BY <2>1
  <2>3. i2 + i3 = i4 + i5
    BY <1>2, <1>5, <2>2
  <2>4. Len(y) = i1 + i2 /\ Len(v) = i1 + i4
    BY <1>10, <2>2
  <2>5. Len(z) = (i1 + i2) + i3
    BY <1>11, <2>2, <2>4
  <2>6. (i1 + i2) + i3 = (i1 + i4) + i5
    BY <2>3
  <2>7. QED
    BY <2>2, <2>4, <2>5, <2>6
<1>13. Range(z) = Range(v) \cup Range(b)
  BY <1>2, <1>4, <1>10, <1>11
<1>14. /\ Collected = v /\ pending' = q /\ saved' = o /\ Collected' = z
       /\ z = ((out \o pending) \o SwapPairs(saved \o b)) \o OddByte(saved \o b)
  BY <1>a, <1>0, <1>1, <1>3, <1>6, <1>7, <1>8, <1>9
<1>15. QED
  BY <1>5, <1>12, <1>13, <1>14

LEMMA SyncCollectsStep == IInv /\ SyncCollects => IInv'
<1>1. SUFFICES ASSUME IInv, SyncCollects PROVE IInv'
  OBVIOUS
<1>2. Typed /\ Placed
  BY <1>1 DEF IInv
<1>3. pc = "step" /\ driver = "sync" /\ Has("swab") /\ pc' = "drain" /\ records' = records + 1
      /\ UNCHANGED <<cfg, driver, exit_status, blocksize, max_records, max_bytes, at, w_bytes,
                     out_off, in_file_pos, out_file_pos, out, hashed, write_error>>
  BY <1>1 DEF SyncCollects, tune_vars
<1>4. PICK n \in ReadResults :
        /\ in_off' = in_off + n
        /\ partread' = IF n < blocksize THEN n ELSE 0
        /\ SwabBlock(Padded(InputBytes(in_off, n)))
  BY <1>1 DEF SyncCollects
<1>5. /\ n \in Nat /\ in_off = Consumed /\ n <= cfg.source - in_off
      /\ n = 0 => StalePadding /\ cfg.bad > 0
  BY <1>1, <1>3, ReadFacts
<1>6. /\ bytes_to_copy' = bytes_to_copy /\ Sizes' = Sizes
      /\ Hashing' <=> Hashing
      /\ StalePadding' <=> StalePadding
      /\ Has("swab")' <=> Has("swab")
      /\ Has("sync")' <=> Has("sync")
      /\ Has("autotune")' <=> Has("autotune")
  BY <1>3, Fixed
<1>7. PICK c \in Nat : c = in_off /\ c = Consumed
  BY <1>2, <1>5 DEF Typed
<1>8. StalePadding => Has("sync")
  BY DEF StalePadding, Has
<1>9. n > 0 \/ Has("sync")
  BY <1>5, <1>8
<1>10. PICK b \in Seq(Int) :
        /\ b = Padded(InputBytes(c, n)) /\ Len(b) \in Nat /\ Len(b) > 0 /\ n <= Len(b)
        /\ ~Has("sync") => Len(b) = n
        /\ ~StalePadding => \A i \in 1..Len(b) : b[i] = IF i <= n THEN c + i ELSE 0
  BY <1>2, <1>5, <1>9, PaddedFacts
<1>11. /\ pending' = pending \o SwapPairs(saved \o b)
       /\ saved' = OddByte(saved \o b)
  BY <1>4, <1>7, <1>10 DEF SwabBlock
<1>12. /\ out \in Seq(Int) /\ pending \in Seq(Int) /\ saved \in Seq(Int)
       /\ records \in Nat /\ Len(out) \in Nat /\ cfg.source \in Nat
  BY <1>2, StateFacts, ConfigFacts DEF Typed
<1>13. Collected = (out \o pending) \o saved
  BY <1>3 DEF Collected, Held
<1>14. Collected' = (out \o pending') \o saved'
  BY <1>3 DEF Collected, Held
<1>15. /\ Collected' = ((out \o pending) \o SwapPairs(saved \o b)) \o OddByte(saved \o b)
       /\ pending' \in Seq(Int) /\ saved' \in Seq(Int) /\ Len(saved') <= 1
       /\ Collected' \in Seq(Int)
       /\ Len(Collected') = Len(Collected) + Len(b)
       /\ Range(Collected') = Range(Collected) \cup Range(b)
  BY <1>11, <1>12, <1>13, <1>14, SwabGrows
<1>16. Consumed' = c + n /\ c + n <= cfg.source
  <2>1. in_off' + in_file_pos' = in_off + in_file_pos + n
    BY <1>2, <1>3, <1>4, <1>5 DEF Typed
  <2>2. QED
    BY <1>5, <1>7, <1>12, <2>1 DEF Consumed
<1>17. Typed'
  <2>1. in_off' \in Nat /\ records' \in Nat
    BY <1>3, <1>4, <1>5, <1>7, <1>12
  <2>2. partread' \in 0..cfg.source
    BY <1>4, <1>5, <1>7, <1>12
  <2>3. QED
    BY <1>2, <1>3, <1>6, <1>15, <2>1, <2>2 DEF Typed, Pcs
<1>18. Placed'
  <2>1. SourcePos' = Consumed'
    <3>1. SourcePos' = in_off'
      BY <1>3 DEF SourcePos
    <3>2. QED
      BY <1>4, <1>7, <1>16, <3>1
  <2>2. SinkPos' = Len(out')
    <3>1. SinkPos' = SinkPos
      BY <1>3 DEF SinkPos
    <3>2. QED
      BY <1>2, <1>3, <3>1 DEF Placed
  <2>3. ~KernelDriver'
    BY <1>3 DEF KernelDriver
  <2>4. Consumed' <= cfg'.source
    BY <1>3, <1>16
  <2>5. QED
    BY <1>2, <1>3, <1>6, <1>15, <2>1, <2>2, <2>3, <2>4 DEF Placed
<1>19. Direct'
  BY <1>3, <1>6 DEF Direct
<1>20. Crossed'
  <2>1. SUFFICES ASSUME ~write_error
                 PROVE  /\ ~StalePadding => Range(Collected') \ {0} = 1..Consumed'
                        /\ ~Has("sync") =>
                             /\ Len(Collected') = Consumed'
                             /\ \A i \in DOMAIN Collected' : Collected'[i] = Swapped(i, Consumed')
                             /\ Len(saved') = Consumed' % 2
    BY <1>3, <1>6 DEF Crossed
  <2>2. ASSUME ~StalePadding PROVE Range(Collected') \ {0} = 1..Consumed'
    <3>1. Range(Collected) \ {0} = 1..c
      BY <1>1, <1>3, <1>7, <2>1, <2>2 DEF IInv, Crossed
    <3>2. DOMAIN b = 1..Len(b) /\ \A i \in 1..Len(b) : b[i] = IF i <= n THEN c + i ELSE 0
      BY <1>10, <2>2, LenProperties
    <3>3. ASSUME NEW v \in Range(b), v # 0 PROVE v \in (c + 1)..(c + n)
      <4>1. PICK i \in 1..Len(b) : v = b[i]
        BY <3>2, <3>3 DEF Range
      <4>2. i <= n /\ v = c + i
        BY <3>2, <3>3, <4>1
      <4>3. QED
        BY <1>5, <1>10, <4>1, <4>2
    <3>4. ASSUME NEW v \in (c + 1)..(c + n) PROVE v \in Range(b) /\ v # 0
      <4>1. PICK i \in 1..n : v = c + i
        BY <1>5, <3>4, v - c \in 1..n
      <4>2. i \in 1..Len(b)
        BY <1>5, <1>10, <4>1
      <4>3. b[i] = v
        BY <3>2, <4>1, <4>2
      <4>4. v # 0
        BY <4>1
      <4>5. QED
        BY <3>2, <4>2, <4>3, <4>4 DEF Range
    <3>5. Range(b) \ {0} = (c + 1)..(c + n)
      BY <3>3, <3>4
    <3>6. Range(Collected') \ {0} = (1..c) \cup ((c + 1)..(c + n))
      BY <1>15, <3>1, <3>5
    <3>7. (1..c) \cup ((c + 1)..(c + n)) = 1..(c + n)
      BY <1>5
    <3>8. QED
      BY <1>16, <3>6, <3>7
  <2>3. ASSUME ~Has("sync")
        PROVE  /\ Len(Collected') = Consumed'
               /\ \A i \in DOMAIN Collected' : Collected'[i] = Swapped(i, Consumed')
               /\ Len(saved') = Consumed' % 2
    <3>1. /\ Len(Collected) = c
          /\ \A i \in DOMAIN Collected : Collected[i] = Swapped(i, c)
          /\ Len(saved) = c % 2
      BY <1>1, <1>3, <1>7, <2>1, <2>3 DEF IInv, Crossed
    <3>2. DOMAIN Collected = 1..Len(Collected)
      BY <1>2, CollectedFacts
    <3>3. PICK u \in Seq(Int) : u = out \o pending
      BY <1>12, ConcatProperties
    <3>4. /\ Len(u \o saved) = c
          /\ \A i \in 1..c : (u \o saved)[i] = Swapped(i, c)
      BY <1>13, <3>1, <3>2, <3>3
    <3>5. Len(b) = n /\ ~StalePadding
      BY <1>8, <1>10, <2>3
    <3>6. \A i \in 1..Len(b) : b[i] = c + i
      <4>1. \A i \in 1..Len(b) : i <= n
        BY <1>5, <3>5
      <4>2. QED
        BY <1>10, <3>5, <4>1
    <3>7. /\ Len((u \o SwapPairs(saved \o b)) \o OddByte(saved \o b)) = c + Len(b)
          /\ \A i \in 1..(c + Len(b)) :
               ((u \o SwapPairs(saved \o b)) \o OddByte(saved \o b))[i]
                 = Swapped(i, c + Len(b))
          /\ Len(OddByte(saved \o b)) = (c + Len(b)) % 2
      <4>1. PICK s \in Seq(Int) : s = saved
        BY <1>12
      <4>2. /\ Len(u \o s) = c /\ Len(s) = c % 2
            /\ \A i \in 1..c : (u \o s)[i] = Swapped(i, c)
        BY <3>1, <3>4, <4>1
      <4>3. /\ Len((u \o SwapPairs(s \o b)) \o OddByte(s \o b)) = c + Len(b)
            /\ \A i \in 1..(c + Len(b)) :
                 ((u \o SwapPairs(s \o b)) \o OddByte(s \o b))[i] = Swapped(i, c + Len(b))
            /\ Len(OddByte(s \o b)) = (c + Len(b)) % 2
        BY <3>6, <4>2, ImageGrows
      <4>4. QED
        BY <4>1, <4>3
    <3>8. Collected' = (u \o SwapPairs(saved \o b)) \o OddByte(saved \o b)
      BY <1>15, <3>3
    <3>9. /\ Len(Collected') = c + n
          /\ \A i \in 1..(c + n) : Collected'[i] = Swapped(i, c + n)
          /\ Len(saved') = (c + n) % 2
      BY <1>11, <3>5, <3>7, <3>8
    <3>10. DOMAIN Collected' = 1..Len(Collected')
      BY <1>15, LenProperties
    <3>11. DOMAIN Collected' = 1..(c + n)
      BY <3>9, <3>10
    <3>12. \A i \in DOMAIN Collected' : Collected'[i] = Swapped(i, c + n)
      BY <3>9, <3>11
    <3>13. Consumed' = c + n
      BY <1>16
    <3>14. Len(saved') = Consumed' % 2 /\ Len(Collected') = Consumed'
      BY <3>9, <3>13
    <3>15. \A i \in DOMAIN Collected' : Collected'[i] = Swapped(i, Consumed')
      BY <3>12, <3>13
    <3>16. QED
      BY <3>14, <3>15
  <2>4. QED
    BY <2>2, <2>3
<1>21. Counted'
  <2>1. w_bytes <= Len(out)
    BY <1>1 DEF IInv, Counted
  <2>2. ASSUME ~write_error
        PROVE  /\ w_bytes = Len(out)
               /\ records' <= Len(Collected')
               /\ records' <= Consumed' \/ (StalePadding /\ cfg.bad > 0)
    <3>1. /\ w_bytes = Len(out) /\ records <= Len(Collected)
          /\ records <= c \/ (StalePadding /\ cfg.bad > 0)
      BY <1>1, <1>7, <2>2 DEF IInv, Counted
    <3>2. Len(Collected) \in Nat
      BY <1>2, CollectedFacts, LenProperties
    <3>3. records' <= Len(Collected')
      BY <1>3, <1>10, <1>12, <1>15, <3>1, <3>2
    <3>4. records' <= Consumed' \/ (StalePadding /\ cfg.bad > 0)
      BY <1>3, <1>5, <1>12, <1>16, <3>1
    <3>5. QED
      BY <3>1, <3>3, <3>4
  <2>3. QED
    BY <1>3, <1>6, <2>1, <2>2 DEF Counted
<1>22. Limited'
  BY <1>2, <1>3, SwabFacts DEF Limited
<1>23. RecordLimits'
  BY <1>1, <1>3, <1>6 DEF IInv, RecordLimits
<1>24. Budgeted'
  BY <1>3 DEF Budgeted
<1>25. Digested'
  BY <1>1, <1>3, <1>6 DEF IInv, Digested, KernelDriver
<1>26. Ended'
  BY <1>3 DEF Ended, Leaving
<1>27. QED
  BY <1>17, <1>18, <1>19, <1>20, <1>21, <1>22, <1>23, <1>24, <1>25, <1>26 DEF IInv

\* Writing at the descriptor's offset appends to the output.
LEMMA EmitFacts ==
  ASSUME Typed, Placed, ~KernelDriver, NEW b \in Seq(Int), Emit(b),
         UNCHANGED <<cfg, driver, out_file_pos>>
  PROVE  /\ out' = out \o b /\ out' \in Seq(Int) /\ Len(out') = Len(out) + Len(b)
         /\ out_off' \in Nat /\ w_bytes' = w_bytes + Len(b) /\ w_bytes' \in Nat
         /\ out_off' + out_file_pos' = Len(out') /\ SinkPos' = Len(out')
<1>1. /\ out \in Seq(Int) /\ Len(out) \in Nat /\ Len(b) \in Nat /\ w_bytes \in Nat
      /\ out_off \in Nat /\ out_file_pos \in Nat
  BY LenProperties DEF Typed
<1>2. out_off = Len(out) /\ out_file_pos = 0
  <2>1. SinkPos = out_off
    BY DEF SinkPos, KernelDriver
  <2>2. out_off + out_file_pos = Len(out) /\ SinkPos = Len(out)
    BY DEF Placed
  <2>3. QED
    BY <1>1, <2>1, <2>2
<1>3. /\ out' = WrittenAt(out_off, b) /\ out_off' = out_off + Len(b)
      /\ w_bytes' = w_bytes + Len(b)
  BY DEF Emit
<1>4. out' = out \o b
  <2>1. WrittenAt(Len(out), b) = out \o b
    BY <1>1, WrittenFacts
  <2>2. QED
    BY <1>2, <1>3, <2>1
<1>5. out' \in Seq(Int) /\ Len(out') = Len(out) + Len(b)
  BY <1>1, <1>4, BothFacts
<1>6. SinkPos' = out_off'
  BY DEF SinkPos, KernelDriver
<1>7. QED
  BY <1>1, <1>2, <1>3, <1>4, <1>5, <1>6

\* A block leaves the collected bytes for the output, or the write fails.
LEMMA SwabWrites ==
  ASSUME IInv, Has("swab"), pc \in {"drain", "flush_drain"},
         NEW first \in Seq(Int), NEW rest \in Seq(Int), first \o rest = pending,
         NEW b \in Seq(Int), Len(b) <= Len(first), Len(b) = Len(first) => b = first,
         Emit(b), Hash(first), write_error' = (write_error \/ Len(b) # Len(first)),
         pending' \in Seq(Int), ~write_error' => pending' = rest,
         \/ pc' = pc
         \/ /\ pc = "flush_drain" /\ pc' = "done" /\ Len(pending') < blocksize
            /\ ~write_error' => pending' = << >>,
         UNCHANGED <<cfg, driver, exit_status, tune_vars, records, partread, saved,
                     in_off, in_file_pos, out_file_pos>>
  PROVE  IInv'
<1>1. Typed /\ Placed
  BY DEF IInv
<1>2. UNCHANGED <<cfg, driver, exit_status, blocksize, max_records, max_bytes, at, records,
                  partread, saved, in_off, in_file_pos, out_file_pos>>
  BY DEF tune_vars
<1>3. /\ bytes_to_copy' = bytes_to_copy /\ Sizes' = Sizes
      /\ Hashing' <=> Hashing
      /\ StalePadding' <=> StalePadding
      /\ AutotunedShort' <=> AutotunedShort
      /\ Has("swab")' <=> Has("swab")
      /\ Has("sync")' <=> Has("sync")
      /\ Has("autotune")' <=> Has("autotune")
  BY <1>2, Fixed
<1>4. ~KernelDriver /\ ~KernelDriver'
  BY <1>1, <1>2, SwabFacts DEF Placed, KernelDriver, Has
<1>5. /\ out' = out \o b /\ out' \in Seq(Int) /\ Len(out') = Len(out) + Len(b)
      /\ out_off' \in Nat /\ w_bytes' = w_bytes + Len(b) /\ w_bytes' \in Nat
      /\ out_off' + out_file_pos' = Len(out') /\ SinkPos' = Len(out')
  BY <1>1, <1>2, <1>4, EmitFacts
<1>6. /\ out \in Seq(Int) /\ Len(out) \in Nat /\ Len(b) \in Nat /\ w_bytes \in Nat
      /\ hashed \in Seq(Int) /\ records \in Nat /\ write_error \in BOOLEAN
  BY <1>1, LenProperties DEF Typed
<1>7. hashed' = (IF Hashing THEN hashed \o first ELSE hashed) /\ hashed' \in Seq(Int)
  <2>1. hashed \o first \in Seq(Int)
    BY <1>6, BothFacts
  <2>2. QED
    BY <1>6, <2>1 DEF Hash
<1>8. ~write_error' => ~write_error /\ b = first /\ pending' = rest
  OBVIOUS
<1>9. Held' = Held
  BY <1>2 DEF Held
<1>10. ~write_error' => Collected' = Collected
  <2>1. SUFFICES ASSUME ~write_error' PROVE Collected' = Collected
    OBVIOUS
  <2>2. (out \o first) \o rest = out \o (first \o rest)
    BY ZenonT(40), <1>6, Associative
  <2>3. out' \o pending' = out \o pending
    BY <1>5, <1>8, <2>1, <2>2
  <2>4. QED
    BY <1>9, <2>3 DEF Collected
<1>11. Consumed' = Consumed
  BY <1>2 DEF Consumed
<1>12. Typed'
  <2>1. write_error' \in BOOLEAN
    BY <1>6
  <2>2. QED
    BY <1>1, <1>2, <1>3, <1>5, <1>7, <2>1 DEF Typed, Pcs
<1>13. Placed'
  <2>1. SourcePos' = SourcePos
    BY <1>2 DEF SourcePos
  <2>2. driver # "none"
    BY <1>1 DEF Placed
  <2>3. QED
    BY <1>1, <1>2, <1>3, <1>4, <1>5, <1>11, <2>1, <2>2 DEF Placed
<1>14. Direct'
  BY <1>3 DEF Direct
<1>15. Crossed'
  <2>1. SUFFICES ASSUME ~write_error' PROVE Crossed'
    BY DEF Crossed
  <2>2. Collected' = Collected /\ ~write_error
    BY <1>8, <1>10, <2>1
  <2>3. pc' = "done" => pending' = << >>
    BY <2>1
  <2>4. QED
    BY <1>2, <1>3, <1>11, <2>2, <2>3 DEF IInv, Crossed
<1>16. Counted'
  <2>1. w_bytes <= Len(out)
    BY DEF IInv, Counted
  <2>2. w_bytes' <= Len(out')
    BY <1>5, <1>6, <2>1
  <2>3. ASSUME ~write_error'
        PROVE  /\ w_bytes' = Len(out') /\ records <= Len(Collected')
               /\ records <= Consumed \/ (StalePadding /\ cfg.bad > 0)
    <3>1. /\ w_bytes = Len(out) /\ records <= Len(Collected)
          /\ records <= Consumed \/ (StalePadding /\ cfg.bad > 0)
      BY <1>8, <2>3 DEF IInv, Counted
    <3>2. w_bytes' = Len(out')
      BY <1>5, <1>6, <3>1
    <3>3. QED
      BY <1>10, <2>3, <3>1, <3>2
  <2>4. QED
    BY <1>2, <1>3, <1>11, <2>2, <2>3 DEF Counted
<1>17. Limited'
  <2>1. pc' # "step"
    OBVIOUS
  <2>2. QED
    BY <1>1, <1>2, <2>1, SwabFacts DEF Limited
<1>18. RecordLimits'
  BY <1>2, <1>3 DEF IInv, RecordLimits
<1>19. Budgeted'
  BY DEF Budgeted
<1>20. Digested'
  <2>1. SUFFICES ASSUME Hashing, ~write_error' PROVE hashed' = out'
    BY <1>3, <1>4 DEF Digested
  <2>2. hashed = out
    BY <1>4, <1>8, <2>1 DEF IInv, Digested
  <2>3. QED
    BY <1>5, <1>7, <1>8, <2>1, <2>2
<1>21. Ended'
  <2>1. SUFFICES ASSUME Leaving', exit_status = "success", ~write_error', ~AutotunedShort
                 PROVE  CopyComplete'
    BY <1>2, <1>3 DEF Ended, SwabLostWrite
  <2>2. Leaving
    BY <2>1 DEF Leaving
  <2>3. CopyComplete
    BY <1>8, <2>1, <2>2 DEF IInv, Ended, SwabLostWrite
  <2>4. bytes_to_copy \in Int
    BY <1>1, BytesFacts DEF Typed
  <2>5. Len(out) >= bytes_to_copy => Len(out') >= bytes_to_copy
    BY <1>5, <1>6, <2>4
  <2>6. QED
    BY <1>2, <1>3, <1>11, <2>3, <2>5 DEF CopyComplete
<1>22. QED
  BY <1>12, <1>13, <1>14, <1>15, <1>16, <1>17, <1>18, <1>19, <1>20, <1>21 DEF IInv

LEMMA WriteBlockStep == IInv /\ WriteBlock => IInv'
<1>1. SUFFICES ASSUME IInv, WriteBlock PROVE IInv'
  OBVIOUS
<1>2. Typed /\ Placed /\ Direct
  BY <1>1 DEF IInv
<1>3. pc \in {"drain", "flush_drain"} /\ Len(pending) >= blocksize /\ pc' = pc
  BY <1>1 DEF WriteBlock
<1>4. /\ pending \in Seq(Int) /\ blocksize \in Nat /\ blocksize > 0
      /\ blocksize \in 0..Len(pending)
  BY <1>2, <1>3, StateFacts DEF Typed
<1>5. Has("swab")
  BY <1>2, <1>3, <1>4, EmptySeq DEF Direct
<1>6. PICK written \in 0..blocksize :
        /\ Emit(SubSeq(pending, 1, written))
        /\ write_error' = (write_error \/ written # blocksize)
  BY <1>1 DEF WriteBlock
<1>7. PICK first \in Seq(Int), rest \in Seq(Int) :
        /\ first = SubSeq(pending, 1, blocksize)
        /\ rest = SubSeq(pending, blocksize + 1, Len(pending))
        /\ Len(first) = blocksize /\ first \o rest = pending
  BY ZenonT(40), <1>4, PartFacts
<1>8. PICK b \in Seq(Int) : b = SubSeq(pending, 1, written) /\ Len(b) = written
  <2>1. written \in 0..Len(pending)
    BY <1>3, <1>4
  <2>2. QED
    BY <1>4, <2>1, PartFacts
<1>9. Len(b) <= Len(first) /\ (Len(b) = Len(first) => b = first)
  <2>1. written = blocksize => b = first
    BY <1>7, <1>8
  <2>2. Len(b) = written /\ Len(first) = blocksize /\ written <= blocksize
    BY <1>4, <1>7, <1>8
  <2>3. QED
    BY <2>1, <2>2
<1>10. Emit(b) /\ write_error' = (write_error \/ Len(b) # Len(first))
  BY <1>6, <1>7, <1>8
<1>11. Hash(first) /\ pending' = rest
  BY <1>1, <1>7 DEF WriteBlock
<1>12. UNCHANGED <<cfg, driver, exit_status, tune_vars, records, partread, saved,
                   in_off, in_file_pos, out_file_pos>>
  BY <1>1 DEF WriteBlock
<1>13. QED
  BY <1>1, <1>3, <1>5, <1>7, <1>9, <1>10, <1>11, <1>12, SwabWrites

LEMMA FlushStep == IInv /\ Flush => IInv'
<1>1. SUFFICES ASSUME IInv, Flush PROVE IInv'
  OBVIOUS
<1>2. Typed /\ Placed /\ Direct
  BY <1>1 DEF IInv
<1>3. /\ pc = "flush" /\ pc' = "flush_drain" /\ pending' = pending \o saved
      /\ UNCHANGED <<cfg, driver, exit_status, blocksize, max_records, max_bytes, at, records,
                     w_bytes, partread, saved, in_off, out_off, in_file_pos, out_file_pos,
                     out, hashed, write_error>>
  BY <1>1 DEF Flush, tune_vars, pos_vars
<1>4. /\ bytes_to_copy' = bytes_to_copy /\ Sizes' = Sizes
      /\ Hashing' <=> Hashing
      /\ StalePadding' <=> StalePadding
      /\ AutotunedShort' <=> AutotunedShort
      /\ Has("swab")' <=> Has("swab")
      /\ Has("sync")' <=> Has("sync")
      /\ Has("autotune")' <=> Has("autotune")
  BY <1>3, Fixed
<1>5. out \in Seq(Int) /\ pending \in Seq(Int) /\ saved \in Seq(Int)
  BY <1>2 DEF Typed
<1>6. pending' \in Seq(Int)
  BY <1>3, <1>5, BothFacts
<1>7. Collected' = Collected
  <2>1. Collected = (out \o pending) \o saved
    BY <1>3 DEF Collected, Held
  <2>2. Collected' = (out \o (pending \o saved)) \o << >>
    BY <1>3 DEF Collected, Held
  <2>3. (out \o pending) \o saved = out \o (pending \o saved)
    BY <1>5, Associative
  <2>4. out \o (pending \o saved) \in Seq(Int)
    BY <1>3, <1>5, <1>6, BothFacts
  <2>5. (out \o (pending \o saved)) \o << >> = out \o (pending \o saved)
    BY <2>4, ConcatEmptySeq
  <2>6. QED
    BY <2>1, <2>2, <2>3, <2>5
<1>8. Consumed' = Consumed /\ SourcePos' = SourcePos /\ SinkPos' = SinkPos
  BY <1>3 DEF Consumed, SourcePos, SinkPos
<1>9. Leaving /\ Leaving' /\ (KernelDriver' <=> KernelDriver)
  BY <1>3 DEF Leaving, KernelDriver
<1>10. Typed'
  BY <1>2, <1>3, <1>4, <1>6 DEF Typed, Pcs
<1>11. Placed'
  BY <1>2, <1>3, <1>4, <1>8, <1>9 DEF Placed
<1>12. Direct'
  <2>1. ~Has("swab") => pending' = << >>
    <3>1. << >> \in Seq(Int) /\ << >> \o << >> = << >>
      BY EmptySeq, ConcatEmptySeq
    <3>2. QED
      BY <1>2, <1>3, <3>1 DEF Direct
  <2>2. QED
    BY <1>2, <1>3, <1>4, <1>8, <1>9, <2>1 DEF Direct
<1>13. Crossed'
  BY <1>1, <1>3, <1>4, <1>7, <1>8 DEF IInv, Crossed
<1>14. Counted'
  BY <1>1, <1>3, <1>4, <1>7, <1>8 DEF IInv, Counted
<1>15. Limited'
  BY <1>1, <1>3, <1>4, <1>8 DEF IInv, Limited
<1>16. RecordLimits'
  BY <1>1, <1>3, <1>4 DEF IInv, RecordLimits
<1>17. Budgeted'
  BY <1>3 DEF Budgeted
<1>18. Digested'
  BY <1>1, <1>3, <1>4, <1>9 DEF IInv, Digested
<1>19. Ended'
  <2>1. CopyComplete' <=> CopyComplete
    BY <1>3, <1>4, <1>8 DEF CopyComplete
  <2>2. SwabLostWrite' <=> SwabLostWrite
    BY <1>3, <1>4 DEF SwabLostWrite
  <2>3. QED
    BY <1>1, <1>3, <1>4, <1>9, <2>1, <2>2 DEF IInv, Ended
<1>20. QED
  BY <1>10, <1>11, <1>12, <1>13, <1>14, <1>15, <1>16, <1>17, <1>18, <1>19 DEF IInv

LEMMA FlushRestStep == IInv /\ FlushRest => IInv'
<1>1. SUFFICES ASSUME IInv, FlushRest PROVE IInv'
  OBVIOUS
<1>2. Typed /\ Placed /\ Direct
  BY <1>1 DEF IInv
<1>3. /\ pc = "flush_drain" /\ pc' = "done" /\ Len(pending) < blocksize /\ Hash(pending)
      /\ UNCHANGED <<cfg, driver, exit_status, tune_vars, records, partread, saved,
                     in_off, in_file_pos, out_file_pos>>
  BY <1>1 DEF FlushRest
<1>4. PICK written \in 0..Len(pending) :
        /\ Emit(SubSeq(pending, 1, written))
        /\ write_error' = (write_error \/ written # Len(pending))
        /\ pending' = IF written = Len(pending) THEN << >> ELSE pending
  BY <1>1 DEF FlushRest
<1>5. /\ pending \in Seq(Int) /\ Len(pending) \in Nat /\ blocksize \in Nat /\ blocksize > 0
  BY <1>2, StateFacts DEF Typed
<1>6. CASE Has("swab")
  <2>1. PICK b \in Seq(Int) : b = SubSeq(pending, 1, written) /\ Len(b) = written
    BY <1>5, PartFacts
  <2>2. Len(b) <= Len(pending) /\ (Len(b) = Len(pending) => b = pending)
    <3>1. SubSeq(pending, 1, Len(pending)) = pending
      BY <1>5, SubSeqFull
    <3>2. written = Len(pending) => b = pending
      BY <2>1, <3>1
    <3>3. QED
      BY <1>5, <2>1, <3>2
  <2>3. PICK rest \in Seq(Int) : rest = << >> /\ pending \o rest = pending
    BY <1>5, EmptySeq, ConcatEmptySeq
  <2>4. /\ pending' \in Seq(Int) /\ Len(pending') < blocksize
        /\ ~write_error' => pending' = << >>
    BY <1>3, <1>4, <1>5, EmptySeq
  <2>5. Emit(b) /\ write_error' = (write_error \/ Len(b) # Len(pending))
    BY <1>4, <2>1
  <2>6. ~write_error' => pending' = rest
    BY <2>3, <2>4
  <2>7. PICK first \in Seq(Int) : first = pending
    BY <1>5
  <2>8. /\ first \o rest = pending /\ Len(b) <= Len(first)
        /\ (Len(b) = Len(first) => b = first)
        /\ Hash(first) /\ write_error' = (write_error \/ Len(b) # Len(first))
    BY <1>3, <2>2, <2>3, <2>5, <2>7
  <2>9. QED
    BY <1>1, <1>3, <1>6, <2>4, <2>5, <2>6, <2>8, SwabWrites
<1>7. CASE ~Has("swab")
  <2>1. pending = << >> /\ saved = << >> /\ Collected = out
    BY <1>2, <1>7, DirectCollected
  <2>2. /\ Emit(<< >>) /\ pending' = << >> /\ write_error' = write_error
    <3>1. written = 0
      BY <2>1, EmptySeq
    <3>2. SubSeq(pending, 1, written) = << >>
      <4>1. SubSeq(pending, 1, 0) \in Seq(Int) /\ Len(SubSeq(pending, 1, 0)) = 0
        BY <1>5, PartFacts
      <4>2. QED
        BY <3>1, <4>1, EmptySeq
    <3>3. write_error \in BOOLEAN /\ written = Len(pending)
      BY <1>2, <2>1, <3>1, EmptySeq DEF Typed
    <3>4. QED
      BY <1>4, <3>2, <3>3
  <2>3. out' = out /\ out_off' = out_off /\ w_bytes' = w_bytes
    <3>1. /\ out \in Seq(Int) /\ out_off \in Nat /\ out_file_pos \in Nat /\ w_bytes \in Nat
          /\ Len(out) \in Nat /\ out_off + out_file_pos = Len(out)
      BY <1>2, LenProperties DEF Typed, Placed
    <3>2. out_off \in 0..Len(out) /\ Len(<< >>) = 0
      BY <3>1, EmptySeq
    <3>3. WrittenAt(out_off, << >>) = out
      BY <3>1, <3>2, WrittenFacts
    <3>4. QED
      BY <2>2, <3>1, <3>2, <3>3 DEF Emit
  <2>4. hashed' = hashed
    <3>1. hashed \in Seq(Int) /\ hashed \o << >> = hashed
      BY <1>2, ConcatEmptySeq DEF Typed
    <3>2. QED
      BY <1>3, <2>1, <3>1 DEF Hash
  <2>5. UNCHANGED <<cfg, driver, exit_status, blocksize, max_records, max_bytes, at, records,
                    w_bytes, partread, saved, pending, in_off, out_off, in_file_pos,
                    out_file_pos, out, hashed, write_error>>
    BY <1>3, <2>1, <2>2, <2>3, <2>4 DEF tune_vars
  <2>6. /\ bytes_to_copy' = bytes_to_copy /\ Sizes' = Sizes
        /\ Hashing' <=> Hashing
        /\ StalePadding' <=> StalePadding
        /\ AutotunedShort' <=> AutotunedShort
        /\ Has("swab")' <=> Has("swab")
        /\ Has("sync")' <=> Has("sync")
        /\ Has("autotune")' <=> Has("autotune")
    BY <2>5, Fixed
  <2>7. Held' = Held /\ Collected' = Collected /\ Consumed' = Consumed
        /\ SourcePos' = SourcePos /\ SinkPos' = SinkPos
    BY <1>3, <2>5 DEF Held, Collected, Consumed, SourcePos, SinkPos
  <2>8. Leaving /\ Leaving' /\ (KernelDriver' <=> KernelDriver)
    BY <1>3, <2>5 DEF Leaving, KernelDriver
  <2>9. Typed'
    BY <1>2, <1>3, <2>5, <2>6 DEF Typed, Pcs
  <2>10. Placed'
    BY <1>2, <1>3, <2>5, <2>6, <2>7, <2>8 DEF Placed
  <2>11. Direct'
    BY <1>2, <2>5, <2>6, <2>7, <2>8 DEF Direct
  <2>12. Crossed'
    BY <1>7, <2>6 DEF Crossed
  <2>13. Counted'
    BY <1>1, <2>5, <2>6, <2>7 DEF IInv, Counted
  <2>14. Limited'
    BY <1>1, <1>3, <2>5, <2>6, <2>7 DEF IInv, Limited
  <2>15. RecordLimits'
    BY <1>1, <2>5, <2>6 DEF IInv, RecordLimits
  <2>16. Budgeted'
    BY <1>3 DEF Budgeted
  <2>17. Digested'
    BY <1>1, <2>5, <2>6, <2>8 DEF IInv, Digested
  <2>18. Ended'
    <3>1. CopyComplete' <=> CopyComplete
      BY <2>5, <2>6, <2>7 DEF CopyComplete
    <3>2. SwabLostWrite' <=> SwabLostWrite
      BY <2>5, <2>6 DEF SwabLostWrite
    <3>3. QED
      BY <1>1, <2>5, <2>6, <2>8, <3>1, <3>2 DEF IInv, Ended
  <2>19. QED
    BY <2>9, <2>10, <2>11, <2>12, <2>13, <2>14, <2>15, <2>16, <2>17, <2>18 DEF IInv
<1>8. QED
  BY <1>6, <1>7

------------------------------------------------------------------------------
(* The invariant                                                             *)

LEMMA InitInv == Init => IInv
<1>1. SUFFICES ASSUME Init PROVE IInv
  OBVIOUS
<1>2. /\ cfg \in Configs /\ pc = "start" /\ driver = "none" /\ exit_status = "success"
      /\ blocksize = cfg.blocksize /\ max_bytes = 0 /\ records = 0 /\ w_bytes = 0
      /\ max_records = (IF cfg.count >= 0 THEN cfg.count ELSE INTMAX_MAX)
      /\ at = [active |-> FALSE, first |-> 0, stage |-> 0, blocks |-> 0]
      /\ partread = 0 /\ saved = << >> /\ pending = << >> /\ out = << >> /\ hashed = << >>
      /\ in_off = 0 /\ out_off = 0 /\ in_file_pos = 0 /\ out_file_pos = 0
      /\ write_error = FALSE
  BY <1>1 DEF Init, NoAutotune
<1>3. /\ cfg.blocksize \in Nat /\ cfg.blocksize > 0 /\ cfg.source \in Nat
      /\ cfg.count \in Nat \cup {-1} /\ INTMAX_MAX \in Nat
  BY <1>2, ConfigFacts
<1>4. /\ Len(autotune_stages) \in Nat /\ Len(autotune_stages) > 0
      /\ << >> \in Seq(Int) /\ Len(<< >>) = 0
  BY <1>2, SizeFacts, EmptySeq
<1>5. Typed
  <2>1. blocksize \in Sizes
    BY <1>2 DEF Sizes
  <2>2. max_records \in Nat
    BY <1>2, <1>3
  <2>3. /\ at \in [active : BOOLEAN, first : Nat, stage : Nat, blocks : 0..3]
        /\ at.first <= at.stage /\ at.stage < Len(autotune_stages)
    BY <1>2, <1>4
  <2>4. QED
    <3>1. /\ pc \in Pcs /\ driver \in {"none", "sync", "reflink", "splice"}
          /\ exit_status \in {"success", "failure"} /\ partread \in 0..cfg.source
      BY <1>2, <1>3 DEF Pcs
    <3>5. write_error \in BOOLEAN
      BY <1>2
    <3>2. /\ saved \in Seq(Int) /\ pending \in Seq(Int) /\ out \in Seq(Int)
          /\ hashed \in Seq(Int)
      BY <1>2, <1>4
    <3>3. /\ max_bytes \in Nat /\ records \in Nat /\ w_bytes \in Nat
          /\ in_off \in Nat /\ out_off \in Nat /\ in_file_pos \in Nat /\ out_file_pos \in Nat
      BY <1>2
    <3>4. QED
      BY <1>2, <2>1, <2>2, <2>3, <3>1, <3>2, <3>3, <3>5 DEF Typed
<1>6. Consumed = 0 /\ SourcePos = 0 /\ SinkPos = 0
  BY <1>2 DEF Consumed, SourcePos, SinkPos
<1>7. Placed
  BY <1>2, <1>3, <1>4, <1>6 DEF Placed, KernelDriver
<1>8. Held = << >> /\ Collected = << >>
  <2>1. Held = << >>
    BY <1>2 DEF Held
  <2>2. QED
    BY <1>2, <1>5, <2>1, CollectedFacts
<1>9. Range(<< >>) = {} /\ DOMAIN << >> = {} /\ (1..0) = {}
  BY <1>4, LenProperties DEF Range
<1>10. Direct
  <2>1. Rising(out, 0)
    BY <1>2, <1>4, <1>9 DEF Rising
  <2>2. 0 \in 0..Consumed
    BY <1>6
  <2>3. \E k \in 0..Consumed : Rising(out, k) /\ (~write_error => k = Consumed)
    BY <1>6, <2>1, <2>2
  <2>4. QED
    BY <1>2, <1>4, <1>6, <2>3 DEF Direct
<1>11. Crossed
  <2>1. Len(Collected) = Consumed /\ Range(Collected) \ {0} = 1..Consumed
    BY <1>4, <1>6, <1>8, <1>9
  <2>2. \A i \in DOMAIN Collected : Collected[i] = Swapped(i, Consumed)
    BY <1>8, <1>9
  <2>3. Len(saved) = Consumed % 2
    BY <1>2, <1>4, <1>6
  <2>4. QED
    BY <1>2, <2>1, <2>2, <2>3 DEF Crossed
<1>12. Counted
  BY <1>2, <1>4, <1>6, <1>8 DEF Counted
<1>13. Limited
  BY <1>2, <1>4, <1>6 DEF Limited
<1>14. RecordLimits /\ Budgeted /\ Digested /\ Ended
  BY <1>2 DEF RecordLimits, Budgeted, Digested, KernelDriver, Ended, Leaving
<1>15. QED
  BY <1>5, <1>7, <1>10, <1>11, <1>12, <1>13, <1>14 DEF IInv

LEMMA StepInv == IInv /\ [Next]_vars => IInv'
<1>1. SUFFICES ASSUME IInv, [Next]_vars PROVE IInv'
  OBVIOUS
<1>2. \/ Retune \/ Control \/ SyncCopies \/ SyncCollects \/ WriteBlock \/ KernelMoves
      \/ Flush \/ FlushRest
  BY <1>1 DEF Next, Progress, SyncStep, KernelCopy, Idle, Retune, Control
<1>3. QED
  BY <1>1, <1>2, RetuneStep, ControlStep, SyncCopiesStep, SyncCollectsStep, WriteBlockStep,
     KernelMovesStep, FlushStep, FlushRestStep

LEMMA Invariance == Spec => []IInv
<1>1. QED
  BY InitInv, StepInv, PTL DEF Spec

------------------------------------------------------------------------------
(* Theorems                                                                  *)

(***************************************************************************)
(* The variables keep their types for every command line: the block size   *)
(* is the one asked for or an autotune stage, at most one byte is carried  *)
(* over, less than a block stays collected between steps, and the offsets  *)
(* of the descriptors and those splice keeps account for all data moved.   *)
(***************************************************************************)
THEOREM Typing == Spec => []TypeOK
<1>1. IInv => TypeOK
  <2>1. SUFFICES ASSUME IInv PROVE TypeOK
    OBVIOUS
  <2>2. Typed /\ Placed
    BY <2>1 DEF IInv
  <2>3. at.stage \in at.first..(Len(autotune_stages) - 1) /\ at.blocks \in 0..3
    <3>1. at.first \in Nat /\ at.stage \in Nat /\ at.blocks \in 0..3
      BY <2>2, StateFacts
    <3>2. Len(autotune_stages) \in Nat
      BY <2>2, SizeFacts DEF Typed
    <3>3. QED
      BY <2>2, <3>1, <3>2 DEF Typed
  <2>4. in_off + in_file_pos \in 0..cfg.source
    <3>1. cfg.source \in Nat
      BY <2>2, ConfigFacts DEF Typed
    <3>2. QED
      BY <2>2, <3>1 DEF Typed, Placed, Consumed
  <2>5. /\ pc \in {"start", "loop", "step"} => Len(pending) < blocksize
        /\ Len(saved) <= 1 /\ out_off + out_file_pos = Len(out)
    BY <2>2 DEF Placed
  <2>6. QED
    BY <2>2, <2>3, <2>4, <2>5 DEF TypeOK, Typed, Pcs, Sizes
<1>2. QED
  BY <1>1, Invariance, PTL

(***************************************************************************)
(* The output is the image of the input, nothing read is kept back at the  *)
(* end and -l and -c are kept to, however short the reads and whatever the *)
(* driver, the moment of a fallback and the block sizes of autotune: the   *)
(* byte that --swab carries from block to block is what makes this hard.   *)
(***************************************************************************)
THEOREM Soundness == Spec => []OutputSound
<1>1. ASSUME IInv PROVE OutputInOrder
  <2>1. Typed /\ Placed /\ Direct /\ Crossed
    BY <1>1 DEF IInv
  <2>2. ASSUME ~Has("swab"), ~StalePadding
        PROVE  /\ \A i, j \in DOMAIN out : i < j /\ out[j] # 0 => out[i] < out[j]
               /\ \E k \in 0..Len(out) : Payload = 1..k
    <3>1. PICK k \in 0..Consumed : Rising(out, k)
      BY <2>1, <2>2 DEF Direct
    <3>2. /\ k \in 0..Len(out) /\ Payload = 1..k
          /\ \A i, j \in DOMAIN out : i < j /\ out[j] # 0 => out[i] < out[j]
      <4>1. Len(out) \in Nat /\ Consumed \in Nat
        BY <2>1, StateFacts
      <4>2. QED
        BY <3>1, <4>1 DEF Rising, Payload
    <3>3. QED
      BY <3>2
  <2>3. ASSUME Has("swab"), ~Has("sync"), ~write_error, NEW i \in DOMAIN out
        PROVE  \/ out[i] = IF i % 2 = 1 THEN i + 1 ELSE i - 1
               \/ pc \in {"flush_drain", "done"} /\ i % 2 = 1 /\ i = Consumed /\ out[i] = i
    <3>1. /\ Len(Collected) = Consumed
          /\ \A j \in DOMAIN Collected : Collected[j] = Swapped(j, Consumed)
          /\ Len(saved) = Consumed % 2
      BY <2>1, <2>3 DEF Crossed
    <3>2. PICK c \in Nat, l \in Nat, m \in Nat :
            c = Consumed /\ l = Len(out) /\ m = Len(pending)
      BY <2>1, StateFacts
    <3>3. /\ Len(Collected) = Len(out) + Len(pending) + Len(Held)
          /\ DOMAIN Collected = 1..Len(Collected) /\ Len(Held) \in Nat
      BY <2>1, CollectedFacts
    <3>4. i \in 1..l
      BY <2>1, <2>3, <3>2, LenProperties DEF Typed
    <3>5. i \in DOMAIN Collected /\ i <= c
      BY <3>1, <3>2, <3>3, <3>4
    <3>6. Collected[i] = out[i]
      <4>1. PICK u \in Seq(Int), p \in Seq(Int), h \in Seq(Int) :
              u = out /\ p = pending /\ h = Held
        BY <2>1, CollectedFacts DEF Typed
      <4>2. PICK w \in Seq(Int) : w = u \o p
        BY BothFacts
      <4>3. w[i] = u[i] /\ Len(w) = Len(u) + Len(p) /\ Len(u) \in Nat /\ Len(p) \in Nat
        <5>1. i \in 1..Len(u)
          BY <3>2, <3>4, <4>1
        <5>2. QED
          BY <4>2, <5>1, ConcatFacts
      <4>4. i \in 1..Len(w)
        BY <3>2, <3>4, <4>1, <4>3
      <4>5. (w \o h)[i] = w[i]
        BY <4>4, ConcatFacts
      <4>6. QED
        BY <4>1, <4>2, <4>3, <4>5 DEF Collected
    <3>7. out[i] = Swapped(i, c)
      BY <3>1, <3>2, <3>5, <3>6
    <3>8. i % 2 = 0 \/ i % 2 = 1
      BY <3>4, Parity
    <3>9. CASE i % 2 = 0
      BY <3>7, <3>9 DEF Swapped
    <3>10. CASE i % 2 = 1 /\ i < c
      BY <3>7, <3>10 DEF Swapped
    <3>11. CASE i % 2 = 1 /\ i = c
      <4>1. out[i] = i
        BY <3>7, <3>11 DEF Swapped
      <4>2. pc \in {"flush_drain", "done"}
        <5>1. SUFFICES ASSUME pc \notin {"flush_drain", "done"} PROVE FALSE
          OBVIOUS
        <5>2. Held = saved
          BY <5>1 DEF Held
        <5>3. Len(saved) = 1
          BY <3>1, <3>2, <3>11
        <5>4. c = l + m + 1
          BY <3>1, <3>2, <3>3, <5>2, <5>3
        <5>5. QED
          BY <3>2, <3>4, <3>11, <5>4
      <4>3. QED
        BY <3>2, <3>11, <4>1, <4>2
    <3>12. QED
      BY <3>4, <3>5, <3>8, <3>9, <3>10, <3>11
  <2>4. QED
    BY <2>2, <2>3 DEF OutputInOrder
<1>2. ASSUME IInv PROVE ReadIsWritten
  <2>1. SUFFICES ASSUME pc = "done", ~write_error, ~StalePadding
                 PROVE  Payload = 1..Consumed
    BY DEF ReadIsWritten
  <2>2. Typed /\ Direct /\ Crossed
    BY <1>2 DEF IInv
  <2>3. CASE Has("swab")
    <3>1. pending = << >> /\ Range(Collected) \ {0} = 1..Consumed
      BY <2>1, <2>2, <2>3 DEF Crossed
    <3>2. Held = << >>
      BY <2>1 DEF Held
    <3>3. Collected = out
      BY <2>2, <3>1, <3>2, CollectedFacts
    <3>4. QED
      BY <3>1, <3>3 DEF Payload
  <2>4. CASE ~Has("swab")
    <3>1. Rising(out, Consumed)
      BY <2>1, <2>2, <2>4 DEF Direct
    <3>2. QED
      BY <3>1 DEF Rising, Payload
  <2>5. QED
    BY <2>3, <2>4
<1>3. ASSUME IInv PROVE WithinLimit
  BY <1>3 DEF IInv, Limited, WithinLimit
<1>4. IInv => OutputSound
  BY <1>1, <1>2, <1>3 DEF OutputSound
<1>5. QED
  BY <1>4, Invariance, PTL

(***************************************************************************)
(* Exit status 0 means that the copy is complete and that no write failed, *)
(* and the checksum printed then is the one of the output: a read error,   *)
(* a failing write, a refused kernel call and the limits on records that   *)
(* autotune recomputes never make an incomplete copy look like success.    *)
(***************************************************************************)
THEOREM Truth == Spec => []SuccessIsTrue
<1>1. ASSUME IInv PROVE SuccessIsComplete
  BY <1>1 DEF IInv, Ended, SuccessIsComplete, Succeeded, Leaving
<1>2. ASSUME IInv PROVE SuccessDigest
  <2>1. driver \in {"none", "sync"} => ~KernelDriver
    BY DEF KernelDriver
  <2>2. QED
    BY <1>2, <2>1 DEF IInv, Digested, SuccessDigest
<1>3. IInv => SuccessIsTrue
  BY <1>1, <1>2 DEF SuccessIsTrue
<1>4. QED
  BY <1>3, Invariance, PTL

==============================================================================
