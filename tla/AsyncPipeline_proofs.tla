------------------------- MODULE AsyncPipeline_proofs -------------------------
(***************************************************************************)
(* Proofs about AsyncPipeline, for every number of buffers, block size,    *)
(* limit, input, unreadable position, second attempts and cancellation.    *)
(***************************************************************************)
EXTENDS AsyncPipeline, SequenceTheorems, TLAPS

------------------------------------------------------------------------------
(* The inductive invariant                                                   *)

\* Where in the input the next block to be sent begins, and the next block to
\* be received.
Sent == IF rpc = "send" THEN rblock.at ELSE total_read
Queued == IF data = << >> THEN Sent ELSE data[1].at

Looping == wpc \in {"recv", "check", "write", "rewrite", "dispatch"}
Writing == wpc \in {"write", "rewrite"}
Joining == wpc \in {"join_hasher", "join_reader"}

\* The reader stays inside the input and the limits, and only ends early for a
\* reason.
ReaderShape ==
  /\ total_read <= cfg.source /\ WithinLimits
  /\ rpc = "send" => rblock.at + rblock.n = total_read /\ rblock.n \in 1..cfg.block_size
  /\ rpc \in {"recv", "read"} => ~ReadLimitReached
  /\ rpc = "ended" /\ ~reader_err /\ ~cancel /\ ~WriterReturned =>
       total_read = cfg.source \/ ReadLimitReached

\* The blocks in the data channel follow each other without a gap.
DataChain ==
  /\ WriterReturned => data = << >>
  /\ \A i \in 1..Len(data) :
       /\ data[i].n \in 1..cfg.block_size
       /\ data[i].at + data[i].n = IF i < Len(data) THEN data[i + 1].at ELSE Sent
       /\ data[i].at + data[i].n <= total_read

\* Nothing is missing up to the position reached, and nothing is there twice but
\* for --direct's second attempts.
OutShape ==
  /\ repeated <= Len(out) /\ (repeated > 0 => cfg.direct)
  /\ repeated = 0 => \A i \in 1..Len(out) : out[i] = i
  /\ \A p \in 1..Reached : \E i \in 1..Len(out) : out[i] = p

\* The output goes up to the block in the writer's hands, and what has been
\* written of that.
InHand ==
  /\ wpc = "recv" => Reached = Queued
  /\ wpc = "check" \/ Writing \/ wpc = "dispatch" =>
       /\ wblock.n \in 1..cfg.block_size
       /\ wblock.at + wblock.n = Queued /\ wblock.at + wblock.n <= total_read
  /\ wpc = "check" => Reached = wblock.at
  /\ Writing => /\ written < PaddedLen(wblock)
                /\ Reached = wblock.at + Least(written, wblock.n)
  /\ wpc = "dispatch" => Reached = wblock.at + wblock.n
  /\ Joining /\ ~cancel => data = << >> /\ rpc = "ended" /\ Reached = total_read

\* With --sync the blocks taken fill whole blocks of the output.
Padded ==
  cfg.sync /\ repeated = 0 =>
    /\ ~Writing /\ wpc # "returned" => Len(out) + padding = blocks * cfg.block_size
    /\ Writing => Len(out) + padding = (blocks - 1) * cfg.block_size + written

\* How far the hasher will get with the block in its hands, and with those in
\* the hash channel.
InHasher == IF hpc = "update" THEN hblock.at + hblock.n ELSE Len(hashed)
Handed == IF hash = << >> THEN InHasher ELSE hash[Len(hash)].at + hash[Len(hash)].n

\* The hasher follows the writer block by block, and a block is handed on when
\* it is written.
HashChain ==
  /\ Len(hashed) <= Handed /\ Handed <= Reached
  /\ \A i \in 1..Len(hashed) : hashed[i] = i
  /\ hpc = "update" => hblock.at = Len(hashed) /\ hblock.at + hblock.n <= Handed
  /\ \A i \in 1..Len(hash) :
       /\ hash[i].at = IF i = 1 THEN InHasher ELSE hash[i - 1].at + hash[i - 1].n
       /\ hash[i].at + hash[i].n <= Handed
  /\ ~cfg.has_hash => hash = << >> /\ hpc # "update" /\ Len(hashed) = 0
  /\ cfg.has_hash /\ (wpc \in {"recv", "check"} \/ Joining) => Handed = Reached
  /\ cfg.has_hash /\ (Writing \/ wpc = "dispatch") => Handed = wblock.at
  /\ hpc = "ended" => hash = << >> /\ HashSenderDropped
  /\ wpc = "join_reader" => hpc = "ended"

\* Every block read is taken, queued or just read.
BlocksCounted ==
  Looping \/ (Joining /\ ~cancel) =>
    blocks_read = blocks + Len(data) + Held(rpc, {"send"}) + Held(wpc, {"check"})

\* Never more buffers than were allocated.
BuffersBounded ==
  recycle + Len(data) + Len(hash) + Held(rpc, {"read", "send"})
    + Held(wpc, {"check", "write", "rewrite", "dispatch"}) + Held(hpc, {"update"}) <= cfg.queue_depth

Buffers == BuffersConserved /\ BuffersBounded

\* Every block read and not accepted has cost a buffer, which travels on with
\* it or is gone; the others are free or hold blocks that were accepted.
ReadAhead ==
  blocks_read - blocks + recycle + Len(hash) + Held(rpc, {"read"})
    + Held(wpc, {"write", "rewrite", "dispatch"}) + Held(hpc, {"update"}) <= cfg.queue_depth

Final == OkIsComplete /\ (result = "none" <=> ~WriterReturned)

IInv ==
  /\ TypeOK /\ ReaderShape /\ DataChain /\ OutShape /\ InHand /\ Padded
  /\ HashChain /\ BlocksCounted /\ Buffers /\ ReadAhead /\ Final

------------------------------------------------------------------------------
(* Sequences and types                                                       *)

LEMMA AppendFacts ==
  ASSUME NEW S, NEW s \in Seq(S), NEW e \in S
  PROVE  /\ Append(s, e) \in Seq(S) /\ Len(Append(s, e)) = Len(s) + 1 /\ Append(s, e) # << >>
         /\ Len(s) \in Nat
         /\ \A i \in 1..Len(s) : Append(s, e)[i] = s[i]
         /\ Append(s, e)[Len(s) + 1] = e
OBVIOUS

LEMMA TailFacts ==
  ASSUME NEW S, NEW s \in Seq(S), s # << >>
  PROVE  /\ Len(s) \in Nat \ {0} /\ Head(s) = s[1] /\ Head(s) \in S
         /\ Tail(s) \in Seq(S) /\ Len(Tail(s)) = Len(s) - 1
         /\ \A i \in 1..Len(s) - 1 : Tail(s)[i] = s[i + 1]
         /\ Tail(s) = << >> <=> Len(s) = 1
<1>1. Len(s) \in Nat \ {0} /\ Head(s) = s[1]
  BY EmptySeq
<1>2. /\ Head(s) \in S /\ Tail(s) \in Seq(S) /\ Len(Tail(s)) = Len(s) - 1
      /\ \A i \in 1..Len(Tail(s)) : Tail(s)[i] = s[i + 1]
  BY HeadTailProperties
<1>3. Tail(s) = << >> <=> Len(s) = 1
  <2> DEFINE t == Tail(s)
  <2>1. t \in Seq(S) /\ Len(t) = Len(s) - 1
    BY <1>2
  <2> HIDE DEF t
  <2>2. (t = << >> => Len(t) = 0) /\ (t # << >> => Len(t) # 0)
    BY <2>1, EmptySeq
  <2>3. QED
    BY <1>1, <2>1, <2>2 DEF t
<1>4. QED
  BY <1>1, <1>2, <1>3

LEMMA ConcatFacts ==
  ASSUME NEW S, NEW s \in Seq(S), NEW t \in Seq(S)
  PROVE  /\ s \o t \in Seq(S) /\ Len(s \o t) = Len(s) + Len(t)
         /\ Len(s) \in Nat /\ Len(t) \in Nat
         /\ \A i \in 1..Len(s) : (s \o t)[i] = s[i]
         /\ \A i \in 1..Len(t) : (s \o t)[Len(s) + i] = t[i]
OBVIOUS

LEMMA InputFacts ==
  ASSUME NEW n \in Nat
  PROVE  /\ InputBytes(n) \in Seq(Nat) /\ Len(InputBytes(n)) = n
         /\ \A i \in 1..n : InputBytes(n)[i] = i
BY DEF InputBytes

LEMMA ConfigTypes ==
  ASSUME cfg \in Configs
  PROVE  /\ cfg.queue_depth \in Nat \ {0} /\ cfg.block_size \in Nat \ {0}
         /\ cfg.limit \in Nat \cup {-1} /\ cfg.count \in Nat \cup {-1}
         /\ cfg.has_hash \in BOOLEAN /\ cfg.sync \in BOOLEAN /\ cfg.direct \in BOOLEAN
         /\ cfg.noerror \in BOOLEAN /\ cfg.source \in Nat
         /\ Readable \in Nat /\ Readable <= cfg.source
<1>1. cfg \in ConfigType /\ cfg.bad <= cfg.source
  BY ConfigsAssumption
<1>2. QED
  BY <1>1 DEF ConfigType, Readable

\* The bytes of a block, and a part of them.
LEMMA BytesFacts ==
  ASSUME NEW b \in Block
  PROVE  /\ BytesOf(b) \in Seq(Nat) /\ Len(BytesOf(b)) = b.n
         /\ \A i \in 1..b.n : BytesOf(b)[i] = b.at + i
BY DEF Block, BytesOf

LEMMA PartFacts ==
  ASSUME NEW b \in Block, NEW from \in Nat, NEW k \in Nat
  PROVE  LET part == SubSeq(BytesOf(b), from + 1, Least(from + k, b.n))
         IN  /\ part \in Seq(Nat)
             /\ Len(part) = Least(from + k, b.n) - Least(from, b.n)
             /\ Len(part) \in 0..k
             /\ \A i \in 1..Len(part) : part[i] = b.at + Least(from, b.n) + i
<1> DEFINE to == Least(from + k, b.n)
           part == SubSeq(BytesOf(b), from + 1, to)
<1>1. /\ b.n \in Nat /\ b.at \in Nat /\ to \in Nat /\ to <= b.n /\ to <= from + k
      /\ BytesOf(b) \in Seq(Nat) /\ Len(BytesOf(b)) = b.n
      /\ \A i \in 1..b.n : BytesOf(b)[i] = b.at + i
      /\ to = Least(from + k, b.n)
  BY BytesFacts DEF Block, Least
<1> HIDE DEF to
<1>2. CASE from >= b.n
  <2>1. part = << >>
    BY <1>1, <1>2
  <2>2. Len(part) = 0 /\ part \in Seq(Nat)
    BY <2>1, EmptySeq
  <2>3. Least(from + k, b.n) - Least(from, b.n) = 0
    BY <1>1, <1>2 DEF Least
  <2>4. QED
    BY <1>1, <2>2, <2>3
<1>3. CASE from < b.n
  <2>1. Len(part) = to - from /\ from + 1 <= to + 1
    BY <1>1, <1>3 DEF Least
  <2>2. \A i \in 1..to - from : part[i] = BytesOf(b)[from + i] /\ from + i \in 1..b.n
    BY <1>1, <1>3
  <2>3. part \in Seq(Nat)
    BY <1>1, <1>3
  <2>4. Least(from, b.n) = from
    BY <1>1, <1>3 DEF Least
  <2>5. to - from \in 0..k
    BY <1>1, <1>3 DEF Least
  <2> HIDE DEF part
  <2>6. ASSUME NEW i \in 1..Len(part)
        PROVE  part[i] = b.at + Least(from, b.n) + i
    <3>1. i \in 1..to - from
      BY <2>1
    <3>2. part[i] = BytesOf(b)[from + i] /\ from + i \in 1..b.n
      BY <2>2, <3>1
    <3>3. BytesOf(b)[from + i] = b.at + (from + i)
      BY <1>1, <3>2
    <3>4. QED
      BY SMTT(30), <1>1, <2>4, <3>1, <3>2, <3>3
  <2>7. QED
    BY <1>1, <2>1, <2>3, <2>4, <2>5, <2>6 DEF part
<1>4. QED
  BY <1>1, <1>2, <1>3


------------------------------------------------------------------------------
(* Types                                                                     *)

LEMMA TypeInit == Init => TypeOK
<1> SUFFICES ASSUME Init PROVE TypeOK
  OBVIOUS
<1>1. /\ cfg \in Configs /\ cfg.queue_depth \in Nat \ {0}
  BY ConfigTypes DEF Init
<1>2. /\ << >> \in Seq(Block) /\ << >> \in Seq(Nat) /\ Len(<< >>) = 0 /\ NoBlock \in Block
  BY EmptySeq DEF NoBlock, Block
<1>3. recycle \in Nat /\ recycle <= cfg.queue_depth
  BY <1>1 DEF Init
<1>4. /\ data \in Seq(Block) /\ hash \in Seq(Block) /\ out \in Seq(Nat) /\ hashed \in Seq(Nat)
      /\ Len(data) <= cfg.queue_depth /\ Len(hash) <= cfg.queue_depth
  BY <1>1, <1>2 DEF Init
<1>5. QED
  BY <1>1, <1>2, <1>3, <1>4 DEF Init, TypeOK

\* A buffer that is given back leaves no more buffers than there are.
LEMMA RecycleFacts ==
  ASSUME TypeOK, Recycle, cfg' = cfg
  PROVE  recycle' \in Nat /\ recycle' <= cfg.queue_depth
BY ConfigTypes DEF TypeOK, Recycle

\* What one write puts into the output.
LEMMA WriteFacts ==
  ASSUME TypeOK, WriterWrites
  PROVE  \E k \in 1..(PaddedLen(wblock) - written) :
           /\ written' = written + k /\ repeated' = repeated
           /\ out' \in Seq(Nat) /\ padding' \in Nat
           /\ Reached' = Reached + (Len(out') - Len(out))
           /\ Len(out') = Len(out) + (Least(written + k, wblock.n) - Least(written, wblock.n))
           /\ Len(out') \in Len(out)..Len(out) + k
           /\ padding' = padding + k - (Len(out') - Len(out))
           /\ \A i \in 1..Len(out) : out'[i] = out[i]
           /\ \A i \in 1..Len(out') - Len(out) :
                out'[Len(out) + i] = wblock.at + Least(written, wblock.n) + i
<1>0. PICK k \in 1..(PaddedLen(wblock) - written) :
        LET part == SubSeq(BytesOf(wblock), written + 1, Least(written + k, wblock.n))
        IN  /\ out' = out \o part /\ padding' = padding + (k - Len(part))
            /\ written' = written + k /\ repeated' = repeated
  BY DEF WriterWrites
<1> DEFINE part == SubSeq(BytesOf(wblock), written + 1, Least(written + k, wblock.n))
<1>1. /\ out' = out \o part /\ padding' = padding + (k - Len(part))
      /\ written' = written + k /\ repeated' = repeated
  BY <1>0
<1>2. /\ wblock \in Block /\ wblock.n \in Nat /\ wblock.at \in Nat /\ written \in Nat /\ k \in Nat
      /\ out \in Seq(Nat) /\ padding \in Nat /\ repeated \in Nat
  BY ConfigTypes DEF TypeOK, Block, PaddedLen
<1>3. /\ part \in Seq(Nat)
      /\ Len(part) = Least(written + k, wblock.n) - Least(written, wblock.n)
      /\ Len(part) \in 0..k
      /\ \A i \in 1..Len(part) : part[i] = wblock.at + Least(written, wblock.n) + i
  BY <1>2, PartFacts
<1> HIDE DEF part
<1>4. /\ out' \in Seq(Nat) /\ Len(out') = Len(out) + Len(part) /\ Len(out) \in Nat
      /\ \A i \in 1..Len(out) : out'[i] = out[i]
      /\ \A i \in 1..Len(part) : out'[Len(out) + i] = part[i]
  <2>1. /\ out \o part \in Seq(Nat) /\ Len(out \o part) = Len(out) + Len(part)
        /\ Len(out) \in Nat
        /\ \A i \in 1..Len(out) : (out \o part)[i] = out[i]
        /\ \A i \in 1..Len(part) : (out \o part)[Len(out) + i] = part[i]
    <3>1. out \in Seq(Nat) /\ part \in Seq(Nat)
      BY <1>2, <1>3
    <3>2. QED
      BY <3>1, ConcatFacts
  <2>2. QED
    BY <1>1, <2>1
<1>5. Len(out') - Len(out) = Len(part)
  BY <1>3, <1>4
<1>6. padding' \in Nat /\ padding' = padding + k - (Len(out') - Len(out))
  BY <1>1, <1>2, <1>3, <1>4, <1>5
<1>7. Len(out') \in Len(out)..Len(out) + k
  BY <1>2, <1>3, <1>4
<1>8. \A i \in 1..Len(out') - Len(out) :
        out'[Len(out) + i] = wblock.at + Least(written, wblock.n) + i
  BY <1>3, <1>4, <1>5
<1>9. Reached' = Reached + (Len(out') - Len(out))
  BY <1>1, <1>2, <1>3, <1>4 DEF Reached
<1>10. QED
  BY <1>1, <1>3, <1>4, <1>6, <1>7, <1>8, <1>9

LEMMA TypeStep ==
  ASSUME TypeOK, [Next]_vars
  PROVE  TypeOK'
<1>0. /\ cfg.queue_depth \in Nat \ {0} /\ cfg.block_size \in Nat \ {0}
      /\ cfg.source \in Nat /\ Readable \in Nat /\ NoBlock \in Block
      /\ cfg.limit \in Nat \cup {-1}
  BY ConfigTypes DEF TypeOK, NoBlock, Block
<1> USE DEF channels, reader_vars, writer_vars, hasher_vars, world
<1>1. CASE ReaderChecks
  BY <1>1 DEF ReaderChecks, TypeOK
<1>2. CASE ReaderTakesBuffer
  BY <1>0, <1>2 DEF ReaderTakesBuffer, TypeOK
<1>3. CASE ReaderReads
  <2>1. rblock' \in Block /\ total_read' \in Nat /\ blocks_read' \in Nat
    BY <1>0, <1>3 DEF ReaderReads, TypeOK, Block, ToRead, Least
  <2>2. QED
    BY <1>3, <2>1 DEF ReaderReads, TypeOK
<1>4. CASE ReaderStops
  BY <1>4 DEF ReaderStops, TypeOK
<1>5. CASE ReaderRetries
  <2>1. recycle' \in Nat /\ recycle' <= cfg.queue_depth
    BY <1>5, RecycleFacts DEF ReaderRetries
  <2>2. QED
    BY <1>5, <2>1 DEF ReaderRetries, TypeOK
<1>6. CASE ReaderSends
  <2>1. data' \in Seq(Block) /\ Len(data') <= cfg.queue_depth
    <3>1. CASE WriterReturned
      BY <1>6, <3>1 DEF ReaderSends, TypeOK
    <3>2. CASE ~WriterReturned
      <4>1. Len(data) < cfg.queue_depth /\ data' = Append(data, rblock)
        BY <1>6, <3>2 DEF ReaderSends
      <4>2. QED
        BY <1>0, <4>1, AppendFacts DEF TypeOK
    <3>3. QED
      BY <3>1, <3>2
  <2>2. QED
    BY <1>0, <1>6, <2>1 DEF ReaderSends, TypeOK
<1>7. CASE HasherReceives
  <2>1. hblock' \in Block /\ hash' \in Seq(Block) /\ Len(hash') <= cfg.queue_depth
    BY <1>0, <1>7, TailFacts DEF HasherReceives, TypeOK
  <2>2. QED
    BY <1>7, <2>1 DEF HasherReceives, TypeOK
<1>8. CASE HasherHashes
  <2>1. hashed' \in Seq(Nat)
    BY <1>8, BytesFacts, ConcatFacts DEF HasherHashes, TypeOK
  <2>2. recycle' \in Nat /\ recycle' <= cfg.queue_depth
    BY <1>8, RecycleFacts DEF HasherHashes
  <2>3. QED
    BY <1>0, <1>8, <2>1, <2>2 DEF HasherHashes, TypeOK
<1>9. CASE HasherEnds
  BY <1>9 DEF HasherEnds, TypeOK
<1>10. CASE WriterReceives
  <2>1. wblock' \in Block /\ data' \in Seq(Block) /\ Len(data') <= cfg.queue_depth
    <3>1. CASE data # << >> /\ wblock' = Head(data) /\ data' = Tail(data)
      <4>1. data \in Seq(Block) /\ Len(data) <= cfg.queue_depth
        BY DEF TypeOK
      <4>2. QED
        BY <1>0, <3>1, <4>1, TailFacts
    <3>2. CASE UNCHANGED <<wblock, data>>
      BY <1>10, <3>2 DEF WriterReceives, TypeOK
    <3>3. QED
      BY <1>10, <3>1, <3>2 DEF WriterReceives
  <2>2. QED
    BY <1>10, <2>1 DEF WriterReceives, TypeOK
<1>11. CASE WriterCancels
  BY <1>0, <1>11 DEF WriterCancels, TypeOK
<1>12. CASE WriterAccepts
  BY <1>12 DEF WriterAccepts, TypeOK
<1>13. CASE WriterWrites
  <2>1. out' \in Seq(Nat) /\ padding' \in Nat /\ written' \in Nat
    BY <1>13, WriteFacts DEF TypeOK
  <2>2. QED
    BY <1>13, <2>1 DEF WriterWrites, TypeOK
<1>14. CASE WriterFails
  BY <1>0, <1>14, EmptySeq DEF WriterFails, TypeOK
<1>15. CASE WriterDispatches
  <2>1. /\ recycle' \in Nat /\ recycle' <= cfg.queue_depth
        /\ hash' \in Seq(Block) /\ Len(hash') <= cfg.queue_depth
    <3>1. CASE cfg.has_hash
      <4>1. Len(hash) < cfg.queue_depth /\ hash' = Append(hash, wblock) /\ recycle' = recycle
        BY <1>15, <3>1 DEF WriterDispatches
      <4>2. QED
        BY <1>0, <4>1, AppendFacts DEF TypeOK
    <3>2. CASE ~cfg.has_hash
      BY <1>15, <3>2, RecycleFacts DEF WriterDispatches, TypeOK
    <3>3. QED
      BY <3>1, <3>2
  <2>2. QED
    BY <1>0, <1>15, <2>1 DEF WriterDispatches, TypeOK
<1>16. CASE WriterJoinsHasher
  BY <1>16 DEF WriterJoinsHasher, TypeOK
<1>17. CASE WriterJoinsReader
  BY <1>0, <1>17, EmptySeq DEF WriterJoinsReader, TypeOK
<1>18. CASE Cancel
  BY <1>18 DEF Cancel, TypeOK
<1>19. CASE WriterAgain
  <2>1. repeated' \in Nat
    BY <1>19 DEF WriterAgain, TypeOK, Block, Least
  <2>2. QED
    BY <1>19, <2>1 DEF WriterAgain, TypeOK
<1>20. CASE UNCHANGED vars
  BY <1>20 DEF vars, TypeOK
<1>21. QED
  BY <1>1, <1>2, <1>3, <1>4, <1>5, <1>6, <1>7, <1>8, <1>9, <1>10, <1>11, <1>12, <1>13, <1>14,
     <1>15, <1>16, <1>17, <1>18, <1>19, <1>20 DEF Next, Reader, Hasher, Writer, Idle


------------------------------------------------------------------------------
(* Who changes what                                                          *)

Rest == Cancel \/ UNCHANGED vars

LEMMA Steps ==
  ASSUME [Next]_vars
  PROVE  Reader \/ Hasher \/ Writer \/ Rest
BY DEF Next, Idle, Rest

LEMMA ReaderQuiet ==
  ASSUME TypeOK, Hasher \/ Writer \/ Rest
  PROVE  /\ UNCHANGED <<cfg, rpc, rblock, total_read, blocks_read, reader_err>>
         /\ cancel => cancel'
         /\ WriterReturned => WriterReturned'
BY DEF Hasher, Writer, Rest, HasherReceives, HasherHashes, HasherEnds, WriterReceives,
       WriterCancels, WriterAccepts, WriterWrites, WriterAgain, WriterFails, WriterDispatches,
       WriterJoinsHasher, WriterJoinsReader, Cancel, vars, channels, reader_vars, writer_vars,
       hasher_vars, world, WriterReturned

LEMMA WriterQuiet ==
  ASSUME TypeOK, Reader \/ Hasher \/ Rest
  PROVE  /\ UNCHANGED <<cfg, wpc, wblock, written, blocks, result, out, repeated,
                       padding, Reached>>
         /\ cancel => cancel'
BY DEF Reached, Reader, Hasher, Rest, ReaderChecks, ReaderTakesBuffer, ReaderReads, ReaderStops,
       ReaderRetries, ReaderSends, HasherReceives, HasherHashes, HasherEnds, Cancel, vars,
       channels, reader_vars, writer_vars, hasher_vars, world

LEMMA HasherQuiet ==
  ASSUME TypeOK, Reader \/ Writer \/ Rest
  PROVE  UNCHANGED <<cfg, hpc, hblock, hashed>>
BY DEF Reader, Writer, Rest, ReaderChecks, ReaderTakesBuffer, ReaderReads, ReaderStops,
       ReaderRetries, ReaderSends, WriterReceives, WriterCancels, WriterAccepts, WriterWrites,
       WriterAgain, WriterFails, WriterDispatches, WriterJoinsHasher, WriterJoinsReader, Cancel, vars,
       channels, reader_vars, writer_vars, hasher_vars, world

\* The writer only touches the data channel when it receives or returns.
LEMMA DataQuiet ==
  ASSUME TypeOK, Hasher \/ Writer \/ Rest, ~WriterReceives, ~WriterFails, ~WriterJoinsReader
  PROVE  data' = data /\ (WriterReturned <=> WriterReturned')
BY DEF Hasher, Writer, Rest, HasherReceives, HasherHashes, HasherEnds,
       WriterCancels, WriterAccepts, WriterWrites, WriterAgain, WriterDispatches,
       WriterJoinsHasher, Cancel, vars, channels, reader_vars, writer_vars,
       hasher_vars, world, WriterReturned

------------------------------------------------------------------------------
(* The reader and the data channel                                           *)

LEMMA ReaderStep ==
  ASSUME TypeOK, ReaderShape, [Next]_vars
  PROVE  ReaderShape'
<1>0. /\ cfg.block_size \in Nat \ {0} /\ cfg.source \in Nat /\ cfg.limit \in Nat \cup {-1}
      /\ cfg.count \in Nat \cup {-1} /\ total_read \in Nat /\ blocks_read \in Nat
      /\ rblock \in Block /\ Readable \in Nat /\ Readable <= cfg.source
  BY ConfigTypes DEF TypeOK
<1> USE DEF ReaderShape, WithinLimits, ReadLimitReached
<1>1. CASE ReaderChecks \/ ReaderTakesBuffer \/ ReaderStops \/ ReaderRetries
  <2> USE DEF channels, writer_vars, WriterReturned
  <2>1. CASE ReaderChecks
    BY <1>0, <2>1 DEF ReaderChecks
  <2>2. CASE ReaderTakesBuffer
    BY <1>0, <2>2 DEF ReaderTakesBuffer
  <2>3. CASE ReaderStops
    BY <1>0, <2>3 DEF ReaderStops
  <2>4. CASE ReaderRetries
    BY <1>0, <2>4 DEF ReaderRetries
  <2>5. QED
    BY <1>1, <2>1, <2>2, <2>3, <2>4
<1>2. CASE ReaderReads
  <2>1. PICK n \in 1..Least(ToRead, Readable - total_read) :
          rblock' = [at |-> total_read, n |-> n] /\ total_read' = total_read + n
    BY <1>2 DEF ReaderReads
  <2>2. /\ rblock'.at = total_read /\ rblock'.n = n /\ n \in Nat \ {0}
        /\ n <= cfg.source - total_read /\ n <= cfg.block_size
        /\ cfg.limit >= 0 => n <= cfg.limit - total_read
    BY <1>0, <2>1 DEF ToRead, Least
  <2>3. /\ rpc = "read" /\ rpc' = "send" /\ cfg' = cfg /\ blocks_read' = blocks_read + 1
    BY <1>2 DEF ReaderReads
  <2>4. QED
    BY <1>0, <2>1, <2>2, <2>3
<1>3. CASE ReaderSends
  BY <1>0, <1>3 DEF ReaderSends, writer_vars, WriterReturned
<1>4. CASE Hasher \/ Writer \/ Rest
  BY <1>4, ReaderQuiet
<1>5. QED
  BY <1>1, <1>2, <1>3, <1>4, Steps DEF Reader

LEMMA DataChainStep ==
  ASSUME TypeOK, ReaderShape, DataChain, [Next]_vars
  PROVE  DataChain'
<1>0. /\ cfg.block_size \in Nat \ {0} /\ total_read \in Nat /\ rblock \in Block
      /\ data \in Seq(Block) /\ Len(data) \in Nat /\ NoBlock \in Block
      /\ \A i \in 1..Len(data) : data[i] \in Block /\ data[i].at \in Nat /\ data[i].n \in Nat
  <2>1. data \in Seq(Block)
    BY DEF TypeOK
  <2>2. \A i \in 1..Len(data) : data[i] \in Block
    BY <2>1, ElementOfSeq
  <2>3. \A b \in Block : b.at \in Nat /\ b.n \in Nat
    BY DEF Block
  <2>4. QED
    BY <2>1, <2>2, <2>3, ConfigTypes, LenProperties DEF TypeOK, Block, NoBlock
<1>1. CASE /\ UNCHANGED <<cfg, data>> /\ Sent' = Sent /\ total_read' >= total_read
           /\ WriterReturned' => WriterReturned \/ data = << >>
  <2>1. total_read' \in Nat
    BY TypeStep DEF TypeOK
  <2>2. QED
    BY <1>0, <1>1, <2>1 DEF DataChain
<1>2. CASE ReaderChecks \/ ReaderTakesBuffer \/ ReaderStops \/ ReaderRetries
  <2>1. /\ UNCHANGED <<cfg, data, wpc, total_read, rblock>> /\ rpc # "send" /\ rpc' # "send"
    BY <1>2 DEF ReaderChecks, ReaderTakesBuffer, ReaderStops, ReaderRetries, channels, writer_vars
  <2>2. QED
    BY <1>0, <1>1, <2>1 DEF Sent, WriterReturned
<1>3. CASE ReaderReads
  <2>1. /\ UNCHANGED <<cfg, data, wpc>> /\ rpc # "send" /\ rpc' = "send"
        /\ \E n \in Nat : rblock' = [at |-> total_read, n |-> n] /\ total_read' = total_read + n
    BY <1>0, <1>3, ConfigTypes DEF ReaderReads, channels, writer_vars, TypeOK
  <2>2. QED
    BY <1>0, <1>1, <2>1 DEF Sent, WriterReturned
<1>4. CASE ReaderSends
  <2>1. /\ UNCHANGED <<cfg, wpc, total_read>> /\ rpc = "send" /\ rpc' # "send"
    BY <1>4 DEF ReaderSends, writer_vars
  <2>2. CASE WriterReturned
    BY <1>4, <2>1, <2>2 DEF ReaderSends, DataChain, WriterReturned
  <2>3. CASE ~WriterReturned
    <3>1. data' = Append(data, rblock)
      BY <1>4, <2>3 DEF ReaderSends
    <3>2. /\ Len(data') = Len(data) + 1 /\ data'[Len(data) + 1] = rblock
          /\ \A i \in 1..Len(data) : data'[i] = data[i]
      BY <1>0, <3>1, AppendFacts
    <3>3. Sent = rblock.at /\ Sent' = total_read
      BY <2>1 DEF Sent
    <3>4. /\ rblock.n \in 1..cfg.block_size /\ rblock.at + rblock.n = total_read
      BY <2>1 DEF ReaderShape
    <3>5. ASSUME NEW i \in 1..Len(data')
          PROVE  /\ data'[i].n \in 1..cfg'.block_size
                 /\ data'[i].at + data'[i].n = IF i < Len(data') THEN data'[i + 1].at ELSE Sent'
                 /\ data'[i].at + data'[i].n <= total_read'
      <4>1. CASE i = Len(data) + 1
        BY <1>0, <2>1, <3>2, <3>3, <3>4, <4>1
      <4>2. CASE i # Len(data) + 1
        <5>1. i \in 1..Len(data) /\ data'[i] = data[i]
          BY <1>0, <3>2, <4>2
        <5>2. (IF i < Len(data') THEN data'[i + 1].at ELSE Sent') =
              (IF i < Len(data) THEN data[i + 1].at ELSE Sent)
          BY <1>0, <3>2, <3>3, <5>1
        <5>3. QED
          BY <2>1, <5>1, <5>2 DEF DataChain
      <4>3. QED
        BY <4>1, <4>2
    <3>6. QED
      BY <2>1, <2>3, <3>5 DEF DataChain, WriterReturned
  <2>4. QED
    BY <2>2, <2>3
<1>5. CASE WriterReceives
  <2>0. UNCHANGED <<cfg, rpc, rblock, total_read>> /\ ~WriterReturned' /\ Sent' = Sent
    BY <1>5 DEF WriterReceives, reader_vars, WriterReturned, Sent
  <2>1. CASE data # << >> /\ data' = Tail(data)
    <3>1. /\ Len(data') = Len(data) - 1
          /\ \A i \in 1..Len(data) - 1 : data'[i] = data[i + 1]
      BY <1>0, <2>1, TailFacts
    <3>2. ASSUME NEW i \in 1..Len(data')
          PROVE  /\ data'[i].n \in 1..cfg'.block_size
                 /\ data'[i].at + data'[i].n = IF i < Len(data') THEN data'[i + 1].at ELSE Sent'
                 /\ data'[i].at + data'[i].n <= total_read'
      <4>1. i + 1 \in 1..Len(data) /\ data'[i] = data[i + 1]
        BY <1>0, <3>1
      <4>2. (IF i < Len(data') THEN data'[i + 1].at ELSE Sent') =
            (IF i + 1 < Len(data) THEN data[(i + 1) + 1].at ELSE Sent)
        BY <1>0, <2>0, <3>1, <4>1
      <4>3. QED
        BY <2>0, <4>1, <4>2 DEF DataChain
    <3>3. QED
      BY <2>0, <3>2 DEF DataChain
  <2>2. CASE data' = data
    BY <1>0, <1>1, <2>0, <2>2
  <2>3. QED
    BY <1>5, <2>1, <2>2 DEF WriterReceives
<1>6. CASE WriterFails \/ WriterJoinsReader
  <2>1. data' = << >>
    BY <1>6 DEF WriterFails, WriterJoinsReader
  <2>2. QED
    BY <2>1 DEF DataChain
<1>7. CASE (Hasher \/ Writer \/ Rest) /\ ~WriterReceives /\ ~WriterFails /\ ~WriterJoinsReader
  <2>1. Sent' = Sent /\ UNCHANGED <<cfg, total_read>>
    BY <1>7, ReaderQuiet DEF Sent
  <2>2. QED
    BY <1>0, <1>1, <1>7, <2>1, DataQuiet
<1>8. QED
  BY <1>2, <1>3, <1>4, <1>5, <1>6, <1>7, Steps DEF Reader


------------------------------------------------------------------------------
(* The writer and the output                                                 *)

\* The reader's steps do not change what the writer is waiting for.
LEMMA QueuedStays ==
  ASSUME TypeOK, Reader, ~WriterReturned
  PROVE  /\ Queued' = Queued /\ rpc # "ended"
         /\ total_read' \in Nat /\ total_read' >= total_read
<1>0. /\ data \in Seq(Block) /\ rblock \in Block /\ total_read \in Nat
  BY DEF TypeOK
<1>1. CASE ReaderChecks \/ ReaderTakesBuffer \/ ReaderStops \/ ReaderRetries
  <2>1. UNCHANGED <<data, total_read>> /\ rpc \notin {"send", "ended"} /\ rpc' # "send"
    BY <1>1 DEF ReaderChecks, ReaderTakesBuffer, ReaderStops, ReaderRetries, channels
  <2>2. QED
    BY <1>0, <2>1 DEF Queued, Sent
<1>2. CASE ReaderReads
  <2>1. /\ data' = data /\ rpc = "read" /\ rpc' = "send"
        /\ \E n \in Nat : rblock' = [at |-> total_read, n |-> n] /\ total_read' = total_read + n
    BY <1>0, <1>2, ConfigTypes DEF ReaderReads, channels, TypeOK
  <2>2. QED
    BY <1>0, <2>1 DEF Queued, Sent
<1>3. CASE ReaderSends
  <2>1. /\ data' = Append(data, rblock) /\ rpc = "send" /\ total_read' = total_read
    BY <1>3 DEF ReaderSends
  <2>2. /\ data' # << >> /\ Len(data) \in Nat
        /\ \A i \in 1..Len(data) : data'[i] = data[i]
        /\ data'[Len(data) + 1] = rblock
    BY <1>0, <2>1, AppendFacts
  <2>3. CASE data = << >>
    <3>1. data'[1] = rblock
      BY <2>2, <2>3
    <3>2. QED
      BY <1>0, <2>1, <2>2, <2>3, <3>1 DEF Queued, Sent
  <2>4. CASE data # << >>
    <3>1. 1 \in 1..Len(data)
      BY <1>0, <2>4, EmptySeq
    <3>2. QED
      BY <1>0, <2>1, <2>2, <2>4, <3>1 DEF Queued
  <2>5. QED
    BY <2>3, <2>4
<1>4. QED
  BY <1>1, <1>2, <1>3 DEF Reader

\* The block that the writer receives is the next one.
LEMMA ReceiveFacts ==
  ASSUME TypeOK, DataChain, data # << >>, wblock' = Head(data), data' = Tail(data),
         UNCHANGED <<cfg, rpc, rblock, total_read>>
  PROVE  /\ wblock'.at = Queued /\ wblock'.n \in 1..cfg.block_size
         /\ wblock'.at + wblock'.n = Queued' /\ wblock'.at + wblock'.n <= total_read
<1>0. data \in Seq(Block)
  BY DEF TypeOK
<1>1. /\ Len(data) \in Nat \ {0} /\ wblock' = data[1] /\ Len(data') = Len(data) - 1
      /\ \A i \in 1..Len(data) - 1 : data'[i] = data[i + 1]
      /\ data' = << >> <=> Len(data) = 1
  BY <1>0, TailFacts
<1>2. /\ data[1].n \in 1..cfg.block_size
      /\ data[1].at + data[1].n = IF 1 < Len(data) THEN data[1 + 1].at ELSE Sent
      /\ data[1].at + data[1].n <= total_read
  BY <1>1 DEF DataChain
<1>3. (IF 1 < Len(data) THEN data[1 + 1].at ELSE Sent) = Queued'
  <2>1. Sent' = Sent
    BY DEF Sent
  <2>2. CASE Len(data) = 1
    BY <1>1, <2>1, <2>2 DEF Queued
  <2>3. CASE Len(data) # 1
    <3>1. 1 < Len(data) /\ data'[1] = data[1 + 1] /\ data' # << >>
      BY <1>1, <2>3
    <3>2. QED
      BY <3>1 DEF Queued
  <2>4. QED
    BY <2>2, <2>3
<1>4. QED
  BY <1>1, <1>2, <1>3 DEF Queued

\* The position reached lies in the output.
LEMMA ReachedType ==
  ASSUME TypeOK, OutShape
  PROVE  Reached \in Nat /\ Len(out) \in Nat /\ repeated \in Nat
<1>1. out \in Seq(Nat) /\ repeated \in Nat
  BY DEF TypeOK
<1>2. Len(out) \in Nat
  BY <1>1, LenProperties
<1>3. QED
  BY <1>1, <1>2 DEF OutShape, Reached

LEMMA OutShapeStep ==
  ASSUME TypeOK, OutShape, InHand, [Next]_vars
  PROVE  OutShape'
<1>0. /\ Reached \in Nat /\ Len(out) \in Nat /\ repeated \in Nat /\ written \in Nat
      /\ wblock.at \in Nat /\ wblock.n \in Nat /\ Reached = Len(out) - repeated
  BY ReachedType DEF TypeOK, Block, Reached
<1>1. CASE Reader \/ Hasher \/ Rest
  BY <1>1, WriterQuiet DEF OutShape
<1>2. CASE WriterWrites
  <2>1. cfg' = cfg /\ Writing
    BY <1>2 DEF WriterWrites, Writing
  <2>2. PICK k \in 1..(PaddedLen(wblock) - written) :
           /\ repeated' = repeated
           /\ Reached' = Reached + (Len(out') - Len(out))
           /\ Len(out') \in Len(out)..Len(out) + k
           /\ \A i \in 1..Len(out) : out'[i] = out[i]
           /\ \A i \in 1..Len(out') - Len(out) :
                out'[Len(out) + i] = wblock.at + Least(written, wblock.n) + i
    BY <1>2, WriteFacts
  <2>3. /\ Len(out') \in Nat /\ Len(out') >= Len(out)
        /\ \A i \in 1..Len(out') - Len(out) : out'[Len(out) + i] = Reached + i
    <3>1. Reached = wblock.at + Least(written, wblock.n)
      BY <2>1 DEF InHand
    <3>2. Len(out') \in Nat /\ Len(out') >= Len(out)
      BY <1>0, <2>2
    <3>3. QED
      BY <2>2, <3>1, <3>2
  <2>4. ASSUME repeated' = 0, NEW i \in 1..Len(out')
        PROVE  out'[i] = i
    <3>1. CASE i <= Len(out)
      BY <1>0, <2>2, <2>4, <3>1 DEF OutShape
    <3>2. CASE i > Len(out)
      <4>1. i - Len(out) \in 1..Len(out') - Len(out) /\ Len(out) + (i - Len(out)) = i
        BY <1>0, <2>3, <3>2
      <4>2. out'[Len(out) + (i - Len(out))] = Reached + (i - Len(out))
        BY <2>3, <4>1
      <4>3. QED
        BY <1>0, <2>2, <2>4, <4>1, <4>2
    <3>3. QED
      BY <1>0, <2>3, <3>1, <3>2
  <2>5. ASSUME NEW p \in 1..Reached'
        PROVE  \E i \in 1..Len(out') : out'[i] = p
    <3>1. CASE p <= Reached
      <4>1. PICK i \in 1..Len(out) : out[i] = p
        BY <1>0, <3>1 DEF OutShape
      <4>2. i \in 1..Len(out') /\ out'[i] = p
        BY <1>0, <2>2, <2>3, <4>1
      <4>3. QED
        BY <4>2
    <3>2. CASE p > Reached
      <4>1. p - Reached \in 1..Len(out') - Len(out) /\ Reached + (p - Reached) = p
            /\ Len(out) + (p - Reached) \in 1..Len(out')
        BY <1>0, <2>2, <2>3, <3>2
      <4>2. out'[Len(out) + (p - Reached)] = p
        BY <2>3, <4>1
      <4>3. QED
        BY <4>1, <4>2
    <3>3. QED
      BY <1>0, <2>2, <2>3, <3>1, <3>2
  <2>6. QED
    BY <1>0, <2>1, <2>2, <2>3, <2>4, <2>5 DEF OutShape
<1>3. CASE WriterAgain
  <2>1. /\ UNCHANGED <<cfg, out>> /\ cfg.direct /\ Writing
        /\ repeated' = repeated + Least(written, wblock.n)
    BY <1>3 DEF WriterAgain, Writing
  <2>2. Reached = wblock.at + Least(written, wblock.n)
    BY <2>1 DEF InHand
  <2>3. Least(written, wblock.n) \in Nat
    BY <1>0 DEF Least
  <2>4. repeated' >= repeated /\ repeated' \in Nat /\ repeated' <= Len(out)
    BY <1>0, <2>1, <2>2, <2>3
  <2>5. Reached' \in Nat /\ Reached' <= Reached
    BY <1>0, <2>1, <2>4 DEF Reached
  <2>6. repeated' = 0 => repeated = 0
    BY <1>0, <2>4
  <2>7. \A p \in 1..Reached' : p \in 1..Reached
    BY <1>0, <2>5
  <2>8. Len(out') = Len(out) /\ repeated' <= Len(out') /\ cfg'.direct
    BY <2>1, <2>4
  <2>9. QED
    BY <2>1, <2>6, <2>7, <2>8 DEF OutShape
<1>4. CASE Writer /\ ~WriterWrites /\ ~WriterAgain
  <2>1. UNCHANGED <<cfg, out, repeated, Reached>>
    BY <1>4 DEF Writer, WriterReceives, WriterCancels, WriterAccepts, WriterFails,
       WriterDispatches, WriterJoinsHasher, WriterJoinsReader, world, Reached
  <2>2. QED
    BY <2>1 DEF OutShape
<1>5. QED
  BY <1>1, <1>2, <1>3, <1>4, Steps

LEMMA InHandStep ==
  ASSUME TypeOK, ReaderShape, DataChain, OutShape, InHand, [Next]_vars
  PROVE  InHand'
<1>0. /\ cfg.block_size \in Nat \ {0} /\ total_read \in Nat /\ written \in Nat
      /\ wblock.at \in Nat /\ wblock.n \in Nat /\ Reached \in Nat /\ cfg.sync \in BOOLEAN
  BY ConfigTypes, ReachedType DEF TypeOK, Block
<1> USE DEF Writing
<1>1. CASE Reader
  <2>1. UNCHANGED <<cfg, wpc, wblock, written, Reached>> /\ (cancel => cancel')
    BY <1>1, WriterQuiet
  <2>2. CASE WriterReturned
    BY <2>1, <2>2 DEF InHand, WriterReturned, Joining
  <2>3. CASE ~WriterReturned
    <3>1. Queued' = Queued /\ rpc # "ended" /\ total_read' \in Nat /\ total_read' >= total_read
      BY <1>1, <2>3, QueuedStays
    <3>2. QED
      BY <1>0, <2>1, <3>1 DEF InHand, PaddedLen, Joining
  <2>4. QED
    BY <2>2, <2>3
<1>2. CASE Hasher \/ Rest
  <2>1. UNCHANGED <<cfg, wpc, wblock, written, Reached>> /\ (cancel => cancel')
    BY <1>2, WriterQuiet
  <2>2. UNCHANGED <<data, rpc, rblock, total_read>>
    BY <1>2, ReaderQuiet, DataQuiet DEF Hasher, Rest, HasherReceives, HasherHashes, HasherEnds,
       Cancel, vars, channels
  <2>3. Queued' = Queued
    BY <2>2 DEF Queued, Sent
  <2>4. QED
    BY <1>0, <2>1, <2>2, <2>3 DEF InHand, PaddedLen, Joining
<1>3. CASE WriterReceives
  <2>0. /\ UNCHANGED <<cfg, rpc, rblock, total_read, Reached>> /\ wpc = "recv"
        /\ Reached = Queued
    BY <1>3 DEF WriterReceives, reader_vars, world, InHand, Reached
  <2>1. CASE data # << >> /\ wblock' = Head(data) /\ data' = Tail(data) /\ wpc' = "check"
    BY <2>0, <2>1, ReceiveFacts DEF InHand, Joining
  <2>2. CASE data = << >> /\ rpc = "ended" /\ wpc' = "join_hasher" /\ UNCHANGED <<wblock, data>>
    BY <2>0, <2>2 DEF InHand, Joining, Queued, Sent
  <2>3. QED
    BY <1>3, <2>1, <2>2 DEF WriterReceives
<1>4. CASE WriterCancels
  BY <1>4 DEF WriterCancels, InHand, Joining, world, Reached
<1>5. CASE WriterAccepts
  <2>1. UNCHANGED <<cfg, data, rpc, rblock, total_read, Reached, wblock>> /\ wpc = "check"
        /\ wpc' = "write" /\ written' = 0
    BY <1>5 DEF WriterAccepts, channels, reader_vars, world, Reached
  <2>2. Queued' = Queued
    BY <2>1 DEF Queued, Sent
  <2>3. QED
    BY <1>0, <2>1, <2>2 DEF InHand, PaddedLen, Joining, Least
<1>6. CASE WriterWrites
  <2>1. /\ UNCHANGED <<cfg, data, rpc, rblock, total_read, wblock, cancel>> /\ Writing
        /\ wpc' = IF written' = PaddedLen(wblock) THEN "dispatch" ELSE wpc
    BY <1>6 DEF WriterWrites, channels, reader_vars
  <2>2. Queued' = Queued
    BY <2>1 DEF Queued, Sent
  <2>3. PICK k \in 1..(PaddedLen(wblock) - written) :
           /\ written' = written + k /\ Len(out') \in Len(out)..Len(out) + k
           /\ Len(out') = Len(out) + (Least(written + k, wblock.n) - Least(written, wblock.n))
           /\ Reached' = Reached + (Len(out') - Len(out))
    BY <1>6, WriteFacts
  <2>4. /\ PaddedLen(wblock) \in Nat /\ PaddedLen(wblock) >= wblock.n
        /\ Reached = wblock.at + Least(written, wblock.n) /\ written < PaddedLen(wblock)
        /\ k \in Nat /\ Len(out) \in Nat
    BY <1>0, <2>1, ReachedType DEF InHand, PaddedLen
  <2>5. Reached' = wblock.at + Least(written + k, wblock.n)
    <3>1. Least(written + k, wblock.n) \in Int /\ Least(written, wblock.n) \in Int
      BY <1>0, <2>4 DEF Least
    <3>2. Len(out') - Len(out) = Least(written + k, wblock.n) - Least(written, wblock.n)
      BY <2>3, <2>4, <3>1
    <3>3. Reached' = Reached + (Least(written + k, wblock.n) - Least(written, wblock.n))
      BY <2>3, <3>2
    <3>4. QED
      BY <1>0, <2>4, <3>1, <3>3
  <2>7. CASE written' = PaddedLen(wblock)
    <3>1. Least(written + k, wblock.n) = wblock.n
      BY <1>0, <2>3, <2>4, <2>7 DEF Least
    <3>2. QED
      BY <2>1, <2>2, <2>5, <2>7, <3>1 DEF InHand, Joining
  <2>8. CASE written' # PaddedLen(wblock)
    <3>1. written' < PaddedLen(wblock)' /\ written' = written + k
      <4>1. PaddedLen(wblock)' = PaddedLen(wblock)
        BY <2>1 DEF PaddedLen
      <4>2. QED
        <5>1. written' = written + k /\ k <= PaddedLen(wblock) - written
          BY <1>0, <2>3, <2>4
        <5>2. QED
          BY <1>0, <2>4, <2>8, <4>1, <5>1
    <3>2. QED
      BY <2>1, <2>2, <2>5, <2>8, <3>1 DEF InHand, Joining
  <2>9. QED
    BY <2>7, <2>8
<1>11. CASE WriterAgain
  <2>1. /\ UNCHANGED <<cfg, data, rpc, rblock, total_read, wblock>> /\ wpc = "write"
        /\ wpc' = "rewrite" /\ written' = 0 /\ out' = out
        /\ repeated' = repeated + Least(written, wblock.n)
    BY <1>11 DEF WriterAgain, channels, reader_vars
  <2>2. Queued' = Queued
    BY <2>1 DEF Queued, Sent
  <2>3. Reached = wblock.at + Least(written, wblock.n) /\ written < PaddedLen(wblock)
    BY <2>1 DEF InHand
  <2>4. Reached' = wblock.at
    BY <1>0, <2>1, <2>3, ReachedType DEF Reached, Least
  <2>5. 0 < PaddedLen(wblock) /\ PaddedLen(wblock)' = PaddedLen(wblock) /\ Least(0, wblock.n) = 0
    BY <1>0, <2>1, <2>3 DEF PaddedLen, Least
  <2>6. QED
    BY <1>0, <2>1, <2>2, <2>4, <2>5 DEF InHand, Joining
<1>7. CASE WriterFails
  BY <1>7 DEF WriterFails, InHand, Joining, world, Reached
<1>8. CASE WriterDispatches
  <2>1. /\ UNCHANGED <<cfg, data, rpc, rblock, total_read, Reached>> /\ wpc = "dispatch"
        /\ wpc' = "recv"
    BY <1>8 DEF WriterDispatches, reader_vars, world, Reached
  <2>2. Queued' = Queued
    BY <2>1 DEF Queued, Sent
  <2>3. QED
    BY <2>1, <2>2 DEF InHand, Joining
<1>9. CASE WriterJoinsHasher \/ WriterJoinsReader
  BY <1>9 DEF WriterJoinsHasher, WriterJoinsReader, InHand, Joining, channels, reader_vars,
     world, Reached
<1>10. QED
  BY <1>1, <1>2, <1>3, <1>4, <1>5, <1>6, <1>7, <1>8, <1>9, <1>11, Steps DEF Writer

LEMMA PaddedStep ==
  ASSUME TypeOK, OutShape, InHand, Padded, [Next]_vars
  PROVE  Padded'
<1>0. /\ cfg.block_size \in Nat \ {0} /\ written \in Nat /\ padding \in Nat /\ blocks \in Nat
      /\ Len(out) \in Nat /\ repeated \in Nat /\ wblock.n \in Nat
  BY ConfigTypes, ReachedType DEF TypeOK, Block
<1> USE DEF Writing
<1>1. CASE Reader \/ Hasher \/ Rest
  BY <1>1, WriterQuiet DEF Padded
<1>2. CASE WriterReceives \/ WriterCancels \/ WriterFails \/ WriterDispatches
           \/ WriterJoinsHasher \/ WriterJoinsReader
  BY <1>2 DEF Padded, WriterReceives, WriterCancels, WriterFails, WriterDispatches,
              WriterJoinsHasher, WriterJoinsReader, world
<1>3. CASE WriterAccepts
  <2>1. /\ UNCHANGED <<cfg, out, repeated, padding>> /\ wpc = "check" /\ wpc' = "write"
        /\ blocks' = blocks + 1 /\ written' = 0
    BY <1>3 DEF WriterAccepts, world
  <2>2. (blocks' - 1) * cfg'.block_size + written' = blocks * cfg.block_size
    BY <1>0, <2>1
  <2>3. QED
    BY <2>1, <2>2 DEF Padded
<1>4. CASE WriterWrites
  <2>1. PICK k \in 1..(PaddedLen(wblock) - written) :
           /\ written' = written + k /\ repeated' = repeated
           /\ Len(out') \in Len(out)..Len(out) + k
           /\ padding' = padding + k - (Len(out') - Len(out))
    BY <1>4, WriteFacts
  <2>2. /\ UNCHANGED <<cfg, blocks>> /\ Writing
        /\ wpc' = IF written' = PaddedLen(wblock) THEN "dispatch" ELSE wpc
    BY <1>4 DEF WriterWrites
  <2>3. SUFFICES ASSUME cfg.sync, repeated = 0
                 PROVE  /\ Writing' => Len(out') + padding' =
                                               (blocks - 1) * cfg.block_size + written'
                        /\ wpc' = "dispatch" => Len(out') + padding' = blocks * cfg.block_size
    BY <2>1, <2>2 DEF Padded
  <2>4. Len(out) + padding = (blocks - 1) * cfg.block_size + written
    BY <2>2, <2>3 DEF Padded
  <2>5. (blocks - 1) * cfg.block_size + cfg.block_size = blocks * cfg.block_size
        /\ (blocks - 1) * cfg.block_size \in Int
    BY <1>0
  <2>6. k \in Int
    BY <2>1
  <2>7. Len(out') + padding' = (blocks - 1) * cfg.block_size + written'
    <3> DEFINE base == (blocks - 1) * cfg.block_size
    <3>1. base \in Int /\ Len(out) + padding = base + written
      BY <2>4, <2>5
    <3> HIDE DEF base
    <3>2. Len(out') \in Nat
      BY <1>0, <2>1
    <3>3. Len(out') + padding' = base + written'
      BY <1>0, <2>1, <2>6, <3>1, <3>2
    <3>4. QED
      BY <3>3 DEF base
  <2>8. QED
    BY <2>2, <2>3, <2>5, <2>7 DEF PaddedLen
<1>5. CASE WriterAgain
  <2>1. /\ UNCHANGED <<cfg, out, padding, blocks>> /\ wpc = "write" /\ wpc' = "rewrite"
        /\ written' = 0 /\ repeated' = repeated + Least(written, wblock.n)
    BY <1>5 DEF WriterAgain
  <2>2. wblock.n # 0
    BY <2>1 DEF InHand
  <2>3. repeated' = 0 => repeated = 0 /\ written = 0
    BY <1>0, <2>1, <2>2 DEF Least
  <2>4. QED
    BY <2>1, <2>3 DEF Padded
<1>6. QED
  BY <1>1, <1>2, <1>3, <1>4, <1>5, Steps DEF Writer


------------------------------------------------------------------------------
(* The hasher and its channel                                                *)

LEMMA HashQuiet ==
  ASSUME TypeOK, Reader \/ Rest \/ (Writer /\ ~WriterDispatches)
  PROVE  hash' = hash
BY DEF Reader, Writer, Rest, ReaderChecks, ReaderTakesBuffer, ReaderReads, ReaderStops,
       ReaderRetries, ReaderSends, WriterReceives, WriterCancels, WriterAccepts, WriterWrites,
       WriterAgain, WriterFails, WriterJoinsHasher, WriterJoinsReader, Cancel, vars, channels

LEMMA BlockTypes ==
  ASSUME NEW s \in Seq(Block)
  PROVE  /\ Len(s) \in Nat
         /\ \A i \in 1..Len(s) : s[i] \in Block /\ s[i].at \in Nat /\ s[i].n \in Nat
<1>1. \A i \in 1..Len(s) : s[i] \in Block
  BY ElementOfSeq
<1>2. \A b \in Block : b.at \in Nat /\ b.n \in Nat
  BY DEF Block
<1>3. QED
  BY <1>1, <1>2, LenProperties

LEMMA HandedType ==
  ASSUME TypeOK
  PROVE  Handed \in Nat /\ InHasher \in Nat
<1>1. hash \in Seq(Block) /\ hblock \in Block /\ hashed \in Seq(Nat)
  BY DEF TypeOK
<1>2. /\ Len(hash) \in Nat /\ Len(hashed) \in Nat
      /\ \A i \in 1..Len(hash) : hash[i].at \in Nat /\ hash[i].n \in Nat
  BY <1>1, BlockTypes, LenProperties
<1>3. hash # << >> => Len(hash) \in 1..Len(hash)
  BY <1>1, <1>2, EmptySeq
<1>4. InHasher \in Nat
  BY <1>1, <1>2 DEF InHasher, Block
<1>5. QED
  BY <1>2, <1>3, <1>4 DEF Handed

LEMMA HashChainStep ==
  ASSUME TypeOK, OutShape, InHand, HashChain, [Next]_vars
  PROVE  HashChain'
<1>0. /\ hash \in Seq(Block) /\ Len(hash) \in Nat /\ wblock \in Block /\ hblock \in Block
      /\ wblock.at \in Nat /\ wblock.n \in Nat /\ hblock.at \in Nat /\ hblock.n \in Nat
      /\ Reached \in Nat /\ Len(hashed) \in Nat /\ cfg.has_hash \in BOOLEAN
      /\ hashed \in Seq(Nat)
      /\ \A i \in 1..Len(hash) : hash[i] \in Block /\ hash[i].at \in Nat /\ hash[i].n \in Nat
  <2>1. /\ hash \in Seq(Block) /\ wblock \in Block /\ hblock \in Block
        /\ hashed \in Seq(Nat)
    BY DEF TypeOK
  <2>2. cfg.has_hash \in BOOLEAN
    BY ConfigTypes DEF TypeOK
  <2>3. QED
    BY <2>1, <2>2, BlockTypes, LenProperties, ReachedType DEF Block
<1>1. CASE Reader \/ Rest
  <2>1. UNCHANGED <<cfg, wpc, wblock, Reached, hpc, hblock, hashed, hash>>
    BY <1>1, WriterQuiet, HasherQuiet, HashQuiet
  <2>2. InHasher' = InHasher /\ Handed' = Handed /\ (HashSenderDropped' <=> HashSenderDropped)
    BY <2>1 DEF Handed, InHasher, HashSenderDropped
  <2>3. QED
    BY <2>1, <2>2 DEF HashChain, Joining, Writing
<1>2. CASE HasherReceives
  <2>1. /\ UNCHANGED <<cfg, wpc, wblock, Reached, hashed>> /\ hash # << >> /\ hpc = "recv"
        /\ hpc' = "update" /\ hblock' = Head(hash) /\ hash' = Tail(hash)
    BY <1>2 DEF HasherReceives, writer_vars, world, Reached
  <2>2. /\ Len(hash) \in Nat \ {0} /\ hblock' = hash[1] /\ Len(hash') = Len(hash) - 1
        /\ \A i \in 1..Len(hash) - 1 : hash'[i] = hash[i + 1]
        /\ hash' = << >> <=> Len(hash) = 1
    BY <1>0, <2>1, TailFacts
  <2>3. hash[1].at = Len(hashed) /\ hash[1].at + hash[1].n <= Handed
    BY <2>1, <2>2 DEF HashChain, InHasher
  <2>4. InHasher' = hash[1].at + hash[1].n
    BY <2>1, <2>2 DEF InHasher
  <2>6. Handed' = Handed
    <3>1. CASE Len(hash) = 1
      BY <2>1, <2>2, <2>4, <3>1 DEF Handed
    <3>2. CASE Len(hash) # 1
      <4>1. /\ Len(hash') \in 1..Len(hash) - 1 /\ Len(hash') + 1 = Len(hash)
        BY <2>2, <3>2
      <4>2. hash'[Len(hash')] = hash[Len(hash)] /\ hash' # << >>
        BY <2>2, <3>2, <4>1
      <4>3. QED
        BY <2>1, <4>2 DEF Handed
    <3>3. QED
      BY <3>1, <3>2
  <2>5. ASSUME NEW i \in 1..Len(hash')
        PROVE  /\ hash'[i].at = IF i = 1 THEN InHasher' ELSE hash'[i - 1].at + hash'[i - 1].n
               /\ hash'[i].at + hash'[i].n <= Handed'
    <3>0. i \in 1..Len(hash) - 1 /\ i \in Nat /\ Len(hash) \in Nat
      BY <2>2
    <3>1. i + 1 \in 1..Len(hash) /\ hash'[i] = hash[i + 1] /\ i + 1 # 1 /\ (i + 1) - 1 = i
      BY <2>2, <3>0
    <3>2. /\ hash[i + 1].at = hash[i].at + hash[i].n
          /\ hash[i + 1].at + hash[i + 1].n <= Handed
      BY <3>1 DEF HashChain
    <3>3. CASE i = 1
      BY <2>1, <2>4, <2>6, <3>1, <3>2, <3>3
    <3>4. CASE i # 1
      <4>1. i - 1 \in 1..Len(hash) - 1 /\ (i - 1) + 1 = i
        BY <1>0, <2>2, <3>4
      <4>2. hash'[i - 1] = hash[i]
        BY <2>2, <4>1
      <4>3. QED
        BY <2>1, <2>6, <3>1, <3>2, <3>4, <4>2
    <3>5. QED
      BY <3>3, <3>4
  <2>7. cfg.has_hash
    BY <1>0, <2>1 DEF HashChain
  <2>8. /\ Len(hashed') <= Handed' /\ Handed' <= Reached'
        /\ \A i \in 1..Len(hashed') : hashed'[i] = i
        /\ hblock'.at = Len(hashed') /\ hblock'.at + hblock'.n <= Handed'
    BY <2>1, <2>2, <2>3, <2>6 DEF HashChain
  <2>9. QED
    BY <2>1, <2>5, <2>6, <2>7, <2>8 DEF HashChain, Joining, Writing
<1>3. CASE HasherHashes
  <2>1. /\ UNCHANGED <<cfg, wpc, wblock, Reached, hash>> /\ hpc = "update" /\ hpc' = "recv"
        /\ hashed' = hashed \o BytesOf(hblock)
    BY <1>3 DEF HasherHashes, writer_vars, Reached
  <2>2. /\ BytesOf(hblock) \in Seq(Nat) /\ Len(BytesOf(hblock)) = hblock.n
        /\ \A i \in 1..hblock.n : BytesOf(hblock)[i] = hblock.at + i
    BY <1>0, BytesFacts
  <2>3. /\ Len(hashed') = Len(hashed) + hblock.n
        /\ \A i \in 1..Len(hashed) : hashed'[i] = hashed[i]
        /\ \A i \in 1..hblock.n : hashed'[Len(hashed) + i] = BytesOf(hblock)[i]
    <3>1. hashed \in Seq(Nat) /\ BytesOf(hblock) \in Seq(Nat)
      BY <1>0, <2>2
    <3>2. /\ Len(hashed \o BytesOf(hblock)) = Len(hashed) + Len(BytesOf(hblock))
          /\ \A i \in 1..Len(hashed) : (hashed \o BytesOf(hblock))[i] = hashed[i]
          /\ \A i \in 1..Len(BytesOf(hblock)) :
               (hashed \o BytesOf(hblock))[Len(hashed) + i] = BytesOf(hblock)[i]
      BY <3>1, ConcatFacts
    <3>3. QED
      BY <2>1, <2>2, <3>2
  <2>4. hblock.at = Len(hashed) /\ hblock.at + hblock.n <= Handed
    BY <2>1 DEF HashChain
  <2>5. ASSUME NEW i \in 1..Len(hashed')
        PROVE  hashed'[i] = i
    <3>1. CASE i <= Len(hashed)
      <4>1. i \in 1..Len(hashed)
        BY <3>1
      <4>2. QED
        BY <2>3, <4>1 DEF HashChain
    <3>2. CASE i > Len(hashed)
      <4>1. i - Len(hashed) \in 1..hblock.n /\ Len(hashed) + (i - Len(hashed)) = i
        BY <1>0, <2>3, <3>2
      <4>2. hashed'[Len(hashed) + (i - Len(hashed))] = hblock.at + (i - Len(hashed))
        BY <2>2, <2>3, <4>1
      <4>3. QED
        BY <1>0, <2>4, <4>1, <4>2
    <3>3. QED
      BY <1>0, <2>3, <3>1, <3>2
  <2>6. InHasher' = InHasher
    BY <2>1, <2>3, <2>4 DEF InHasher
  <2>7. Handed' = Handed /\ Len(hashed') <= Handed'
    <3>1. Handed' = Handed
      BY <2>1, <2>6 DEF Handed
    <3>2. QED
      BY <2>3, <2>4, <3>1
  <2>8. QED
    BY <2>1, <2>5, <2>6, <2>7 DEF HashChain, Joining, Writing
<1>4. CASE HasherEnds
  BY <1>4 DEF HasherEnds, HashChain, Handed, InHasher, HashSenderDropped, Joining, Writing, Reached,
              channels, writer_vars, world
<1>5. CASE Writer /\ ~WriterDispatches
  <2>1. UNCHANGED <<cfg, hpc, hblock, hashed, hash>>
    BY <1>5, HasherQuiet, HashQuiet
  <2>2. InHasher' = InHasher /\ Handed' = Handed
    BY <2>1 DEF InHasher, Handed
  <2>3. Handed <= Reached'
    <3>1. CASE WriterWrites
      <4>1. PICK k \in 1..(PaddedLen(wblock) - written) :
              /\ Reached' = Reached + (Len(out') - Len(out))
              /\ Len(out') \in Len(out)..Len(out) + k
        BY <3>1, WriteFacts
      <4>2. Len(out) \in Nat /\ Handed \in Nat
        BY ReachedType, HandedType
      <4>3. QED
        BY <1>0, <4>1, <4>2 DEF HashChain
    <3>2. CASE WriterAgain
      <4>1. /\ out' = out /\ wpc = "write" /\ repeated' = repeated + Least(written, wblock.n)
        BY <3>2 DEF WriterAgain
      <4>2. Reached = wblock.at + Least(written, wblock.n)
        BY <4>1 DEF InHand, Writing
      <4>3. Least(written, wblock.n) \in Int /\ Len(out) \in Nat /\ repeated \in Nat
        BY <1>0, ReachedType DEF Least, TypeOK
      <4>4. Reached' = wblock.at
        BY SMTT(30), <1>0, <4>1, <4>2, <4>3 DEF Reached
      <4>5. CASE cfg.has_hash
        BY <4>1, <4>4, <4>5, <1>0 DEF HashChain, Writing
      <4>6. CASE ~cfg.has_hash
        BY <1>0, <4>4, <4>6 DEF HashChain, Handed, InHasher
      <4>7. QED
        BY <4>5, <4>6
    <3>3. CASE ~WriterWrites /\ ~WriterAgain
      <4>1. Reached' = Reached
        BY <1>5, <3>3 DEF Writer, WriterReceives, WriterCancels, WriterAccepts, WriterFails,
           WriterJoinsHasher, WriterJoinsReader, world, Reached
      <4>2. QED
        BY <4>1 DEF HashChain
    <3>4. QED
      BY <3>1, <3>2, <3>3
  <2>4. /\ Len(hashed') <= Handed' /\ Handed' <= Reached'
        /\ \A i \in 1..Len(hashed') : hashed'[i] = i
        /\ hpc' = "update" => hblock'.at = Len(hashed') /\ hblock'.at + hblock'.n <= Handed'
        /\ \A i \in 1..Len(hash') :
             /\ hash'[i].at = IF i = 1 THEN InHasher' ELSE hash'[i - 1].at + hash'[i - 1].n
             /\ hash'[i].at + hash'[i].n <= Handed'
        /\ ~cfg'.has_hash => hash' = << >> /\ hpc' # "update" /\ Len(hashed') = 0
    BY <1>0, <2>1, <2>2, <2>3 DEF HashChain
  <2>5. /\ cfg'.has_hash /\ (wpc' \in {"recv", "check"} \/ Joining') => Handed' = Reached'
        /\ cfg'.has_hash /\ (Writing' \/ wpc' = "dispatch") => Handed' = wblock'.at
        /\ hpc' = "ended" => hash' = << >> /\ HashSenderDropped'
        /\ wpc' = "join_reader" => hpc' = "ended"
    <3> USE <2>1, <2>2 DEF HashChain, HashSenderDropped, Joining, Writing, Reached
    <3>1. CASE WriterReceives
      BY <3>1 DEF WriterReceives, world
    <3>2. CASE WriterCancels \/ WriterFails
      BY <3>2 DEF WriterCancels, WriterFails, world
    <3>3. CASE WriterAccepts
      BY <3>3 DEF WriterAccepts, world, InHand
    <3>4. CASE WriterWrites
      BY <3>4 DEF WriterWrites
    <3>7. CASE WriterAgain
      BY <3>7 DEF WriterAgain
    <3>5. CASE WriterJoinsHasher \/ WriterJoinsReader
      BY <3>5 DEF WriterJoinsHasher, WriterJoinsReader, world
    <3>6. QED
      BY <1>5, <3>1, <3>2, <3>3, <3>4, <3>5, <3>7 DEF Writer
  <2>6. QED
    BY <2>4, <2>5 DEF HashChain
<1>6. CASE WriterDispatches
  <2>1. /\ UNCHANGED <<cfg, hpc, hblock, hashed, Reached>> /\ wpc = "dispatch" /\ wpc' = "recv"
        /\ InHasher' = InHasher
    BY <1>6, HasherQuiet DEF WriterDispatches, world, InHasher, Writer, Reached
  <2>2. Reached = wblock.at + wblock.n /\ hpc # "ended"
    BY <2>1 DEF InHand, HashChain, HashSenderDropped
  <2>3. CASE ~cfg.has_hash
    BY <1>0, <1>6, <2>1, <2>2, <2>3 DEF WriterDispatches, HashChain, Handed, Joining
  <2>4. CASE cfg.has_hash
    <3>1. hash' = Append(hash, wblock) /\ Handed = wblock.at
      BY <1>6, <2>1, <2>4 DEF WriterDispatches, HashChain
    <3>2. /\ Len(hash') = Len(hash) + 1 /\ hash' # << >> /\ hash'[Len(hash) + 1] = wblock
          /\ \A i \in 1..Len(hash) : hash'[i] = hash[i]
      BY <1>0, <3>1, AppendFacts
    <3>3. Handed' = wblock.at + wblock.n
      BY <2>1, <3>2 DEF Handed
    <3>4. ASSUME NEW i \in 1..Len(hash')
          PROVE  /\ hash'[i].at = IF i = 1 THEN InHasher' ELSE hash'[i - 1].at + hash'[i - 1].n
                 /\ hash'[i].at + hash'[i].n <= Handed'
      <4>1. CASE i = Len(hash) + 1
        <5>1. CASE hash = << >>
          <6>1. i = 1 /\ Handed = InHasher
            BY <1>0, <4>1, <5>1, EmptySeq DEF Handed
          <6>2. hash'[i] = wblock /\ wblock.at + wblock.n <= Handed'
            BY <3>2, <3>3, <4>1, <1>0
          <6>3. wblock.at = InHasher'
            BY <2>1, <3>1, <6>1
          <6>4. QED
            BY <2>1, <6>1, <6>2, <6>3
        <5>2. CASE hash # << >>
          <6>1. i # 1 /\ i - 1 = Len(hash) /\ Len(hash) \in 1..Len(hash)
            BY <1>0, <4>1, <5>2, EmptySeq
          <6>2. hash'[i - 1] = hash[Len(hash)]
            BY <3>2, <6>1
          <6>3. Handed = hash'[i - 1].at + hash'[i - 1].n
            BY <5>2, <6>2 DEF Handed
          <6>4. hash'[i] = wblock /\ wblock.at + wblock.n <= Handed'
            BY <3>2, <3>3, <4>1, <1>0
          <6>5. QED
            BY <2>1, <3>1, <6>1, <6>3, <6>4
        <5>3. QED
          BY <5>1, <5>2
      <4>2. CASE i # Len(hash) + 1
        <5>1. i \in 1..Len(hash) /\ hash'[i] = hash[i]
          BY <1>0, <3>2, <4>2
        <5>2. ASSUME i # 1
              PROVE  i - 1 \in 1..Len(hash) /\ hash'[i - 1] = hash[i - 1]
          <6>1. Len(hash) \in Nat
            BY <1>0
          <6>2. i - 1 \in 1..Len(hash)
            BY <5>1, <5>2, <6>1
          <6>3. QED
            BY <3>2, <6>2
        <5>3. hash[i].at + hash[i].n <= Handed'
          <6>1. hash[i].at + hash[i].n <= Handed
            BY <5>1 DEF HashChain
          <6>2. QED
            BY <1>0, <3>1, <3>3, <5>1, <6>1
        <5>4. QED
          BY <2>1, <5>1, <5>2, <5>3 DEF HashChain
      <4>3. QED
        BY <4>1, <4>2
    <3>5. /\ Handed' = Reached' /\ Len(hashed') <= Handed'
          /\ hpc' = "update" => hblock'.at + hblock'.n <= Handed'
      <4>1. /\ Len(hashed) <= Handed
            /\ hpc = "update" => hblock.at + hblock.n <= Handed
        BY DEF HashChain
      <4>2. QED
        BY <1>0, <2>1, <2>2, <3>1, <3>3, <4>1
    <3>6. QED
      BY <1>0, <2>1, <2>2, <2>4, <3>4, <3>5 DEF HashChain, Joining, Writing
  <2>5. QED
    BY <2>3, <2>4
<1>7. QED
  BY <1>1, <1>2, <1>3, <1>4, <1>5, <1>6, Steps DEF Hasher


------------------------------------------------------------------------------
(* Blocks and buffers                                                        *)

LEMMA BlocksCountedStep ==
  ASSUME TypeOK, InHand, BlocksCounted, [Next]_vars
  PROVE  BlocksCounted'
<1>0. /\ data \in Seq(Block) /\ Len(data) \in Nat /\ rblock \in Block
      /\ blocks \in Nat /\ blocks_read \in Nat
  <2>1. data \in Seq(Block)
    BY DEF TypeOK
  <2>2. QED
    BY <2>1, LenProperties DEF TypeOK
<1> USE DEF Looping, Joining, Held
<1>1. CASE ReaderChecks \/ ReaderTakesBuffer \/ ReaderStops \/ ReaderRetries
  BY <1>1 DEF BlocksCounted, ReaderChecks, ReaderTakesBuffer, ReaderStops, ReaderRetries,
              channels, writer_vars
<1>2. CASE ReaderReads
  BY <1>0, <1>2 DEF BlocksCounted, ReaderReads, channels, writer_vars
<1>3. CASE ReaderSends
  <2>1. /\ UNCHANGED <<cancel, wpc, blocks, blocks_read>> /\ rpc = "send"
        /\ wpc # "returned" => rpc' = "check" /\ data' = Append(data, rblock)
    BY <1>3 DEF ReaderSends, writer_vars, WriterReturned
  <2>2. wpc # "returned" => Len(data') = Len(data) + 1
    BY <1>0, <2>1, AppendFacts
  <2>3. QED
    BY <1>0, <2>1, <2>2 DEF BlocksCounted
<1>4. CASE WriterReceives
  <2>1. /\ UNCHANGED <<cancel, rpc, blocks, blocks_read>> /\ wpc = "recv"
        /\ \/ data # << >> /\ data' = Tail(data) /\ wpc' = "check"
           \/ wpc' = "join_hasher" /\ data' = data
    BY <1>4 DEF WriterReceives, reader_vars
  <2>2. data # << >> => Len(Tail(data)) = Len(data) - 1
    BY <1>0, TailFacts
  <2>3. QED
    BY <1>0, <2>1, <2>2 DEF BlocksCounted
<1>5. CASE WriterAccepts
  BY <1>0, <1>5 DEF BlocksCounted, WriterAccepts, channels, reader_vars
<1>6. CASE WriterCancels
  BY <1>6 DEF BlocksCounted, WriterCancels
<1>7. CASE WriterWrites \/ WriterAgain \/ WriterDispatches
  BY <1>7 DEF BlocksCounted, WriterWrites, WriterAgain, WriterDispatches, channels, reader_vars
<1>8. CASE WriterFails \/ WriterJoinsHasher \/ WriterJoinsReader
  BY <1>8 DEF BlocksCounted, WriterFails, WriterJoinsHasher, WriterJoinsReader, channels,
              reader_vars
<1>9. CASE Hasher \/ Rest
  BY <1>9 DEF BlocksCounted, Hasher, Rest, HasherReceives, HasherHashes, HasherEnds, Cancel,
              vars, channels, reader_vars, writer_vars
<1>10. QED
  BY <1>1, <1>2, <1>3, <1>4, <1>5, <1>6, <1>7, <1>8, <1>9, Steps DEF Reader, Writer

\* All buffers, as a sum.
Total == recycle + Len(data) + Len(hash) + Held(rpc, {"read", "send"})
           + Held(wpc, {"check", "write", "rewrite", "dispatch"}) + Held(hpc, {"update"})

Circulating == rpc # "ended" /\ wpc \in {"recv", "check", "write", "rewrite", "dispatch"}

LEMMA BuffersSum ==
  ASSUME TypeOK
  PROVE  /\ Total \in Nat /\ recycle \in Nat /\ Len(data) \in Nat /\ Len(hash) \in Nat
         /\ cfg.queue_depth \in Nat \ {0}
         /\ Buffers <=> Total <= cfg.queue_depth /\ (Circulating => Total = cfg.queue_depth)
<1>1. data \in Seq(Block) /\ hash \in Seq(Block) /\ recycle \in Nat
  BY DEF TypeOK
<1>2. cfg.queue_depth \in Nat \ {0}
  BY ConfigTypes DEF TypeOK
<1>3. Len(data) \in Nat /\ Len(hash) \in Nat
  BY <1>1, LenProperties
<1>4. QED
  BY <1>1, <1>2, <1>3 DEF Total, Circulating, Buffers, BuffersConserved, BuffersBounded, Held

\* No step creates a buffer, and none loses one while the three stages run.
LEMMA TotalStep ==
  ASSUME TypeOK, HashChain, [Next]_vars
  PROVE  Total' <= Total /\ (Circulating' => Circulating /\ Total' = Total)
<1>0. /\ recycle \in Nat /\ Len(data) \in Nat /\ Len(hash) \in Nat
      /\ data \in Seq(Block) /\ hash \in Seq(Block) /\ rblock \in Block /\ wblock \in Block
  BY BuffersSum DEF TypeOK
<1> USE DEF Total, Circulating, Held
<1>1. CASE ReaderChecks \/ ReaderStops
  BY <1>0, <1>1 DEF ReaderChecks, ReaderStops, channels, writer_vars, hasher_vars
<1>2. CASE ReaderTakesBuffer
  BY <1>0, <1>2 DEF ReaderTakesBuffer, writer_vars, hasher_vars
<1>3. CASE ReaderReads
  BY <1>0, <1>3 DEF ReaderReads, channels, writer_vars, hasher_vars
<1>4. CASE ReaderRetries
  BY <1>0, <1>4 DEF ReaderRetries, Recycle, writer_vars, hasher_vars
<1>5. CASE ReaderSends
  <2>1. /\ UNCHANGED <<recycle, hash, wpc, hpc>> /\ rpc = "send"
        /\ \/ wpc = "returned" /\ rpc' = "ended" /\ data' = data
           \/ rpc' = "check" /\ data' = Append(data, rblock)
    BY <1>5 DEF ReaderSends, writer_vars, hasher_vars, WriterReturned
  <2>2. Len(Append(data, rblock)) = Len(data) + 1
    BY <1>0, AppendFacts
  <2>3. QED
    BY SMTT(30), <1>0, <2>1, <2>2
<1>6. CASE HasherReceives
  <2>1. /\ UNCHANGED <<recycle, data, rpc, wpc>> /\ hpc = "recv" /\ hpc' = "update"
        /\ hash # << >> /\ hash' = Tail(hash)
    BY <1>6 DEF HasherReceives, reader_vars, writer_vars
  <2>2. Len(hash') = Len(hash) - 1
    BY <1>0, <2>1, TailFacts
  <2>3. QED
    BY SMTT(30), <1>0, <2>1, <2>2
<1>7. CASE HasherHashes
  <2>1. /\ UNCHANGED <<data, hash, rpc, wpc>> /\ hpc = "update" /\ hpc' = "recv"
        /\ IF rpc = "ended" THEN recycle' = recycle ELSE recycle' = recycle + 1
    BY <1>7 DEF HasherHashes, Recycle, reader_vars, writer_vars
  <2>2. CASE rpc = "ended"
    BY SMTT(30), <1>0, <2>1, <2>2
  <2>3. CASE rpc # "ended"
    BY SMTT(30), <1>0, <2>1, <2>3
  <2>4. QED
    BY <2>2, <2>3
<1>8. CASE HasherEnds
  BY <1>0, <1>8 DEF HasherEnds, reader_vars, writer_vars, channels
<1>9. CASE WriterReceives
  <2>1. /\ UNCHANGED <<recycle, hash, rpc, hpc>> /\ wpc = "recv"
        /\ \/ data # << >> /\ data' = Tail(data) /\ wpc' = "check"
           \/ wpc' = "join_hasher" /\ data' = data
    BY <1>9 DEF WriterReceives, reader_vars, hasher_vars
  <2>2. data # << >> => Len(Tail(data)) = Len(data) - 1
    BY <1>0, TailFacts
  <2>3. QED
    BY SMTT(30), <1>0, <2>1, <2>2
<1>10. CASE WriterCancels \/ WriterAccepts \/ WriterWrites \/ WriterAgain
  BY <1>0, <1>10 DEF WriterCancels, WriterAccepts, WriterWrites, WriterAgain, channels,
     reader_vars, hasher_vars
<1>11. CASE WriterFails
  BY <1>0, <1>11, EmptySeq DEF WriterFails, reader_vars, hasher_vars
<1>12. CASE WriterDispatches
  <2>1. /\ UNCHANGED <<data, rpc, hpc>> /\ wpc = "dispatch" /\ wpc' = "recv"
        /\ \/ hash' = Append(hash, wblock) /\ recycle' = recycle
           \/ Recycle /\ hash' = hash
    BY <1>12 DEF WriterDispatches, reader_vars, hasher_vars
  <2>2. CASE hash' = Append(hash, wblock) /\ recycle' = recycle
    <3>1. Len(hash') = Len(hash) + 1
      BY <1>0, <2>2, AppendFacts
    <3>2. QED
      BY <1>0, <2>1, <2>2, <3>1
  <2>3. CASE Recycle /\ hash' = hash
    <3>1. CASE rpc = "ended"
      BY <1>0, <2>1, <2>3, <3>1 DEF Recycle
    <3>2. CASE rpc # "ended"
      BY <1>0, <2>1, <2>3, <3>2 DEF Recycle
    <3>3. QED
      BY <3>1, <3>2
  <2>4. QED
    BY <2>1, <2>2, <2>3
<1>13. CASE WriterJoinsHasher
  BY <1>0, <1>13 DEF WriterJoinsHasher, channels, reader_vars, hasher_vars
<1>14. CASE WriterJoinsReader
  BY <1>0, <1>14, EmptySeq DEF WriterJoinsReader, reader_vars, hasher_vars
<1>15. CASE Rest
  BY <1>0, <1>15 DEF Rest, Cancel, vars, channels, reader_vars, writer_vars, hasher_vars
<1>16. QED
  BY <1>1, <1>2, <1>3, <1>4, <1>5, <1>6, <1>7, <1>8, <1>9, <1>10, <1>11, <1>12, <1>13, <1>14,
     <1>15, Steps DEF Reader, Hasher, Writer

LEMMA BuffersStep ==
  ASSUME TypeOK, HashChain, Buffers, [Next]_vars
  PROVE  Buffers'
<1>1. /\ Total \in Nat /\ cfg.queue_depth \in Nat
      /\ Total <= cfg.queue_depth /\ (Circulating => Total = cfg.queue_depth)
  BY BuffersSum
<1>2. Total' <= Total /\ (Circulating' => Circulating /\ Total' = Total)
  BY TotalStep
<1>3. cfg' = cfg
  BY ReaderQuiet, WriterQuiet, Steps
<1>4. Total' <= cfg'.queue_depth /\ (Circulating' => Total' = cfg'.queue_depth)
  <2>1. TypeOK'
    BY TypeStep
  <2>2. Total' \in Nat
    <3>1. data' \in Seq(Block) /\ hash' \in Seq(Block) /\ recycle' \in Nat
      BY <2>1 DEF TypeOK
    <3>2. Len(data') \in Nat /\ Len(hash') \in Nat
      BY <3>1, LenProperties
    <3>3. QED
      BY <3>1, <3>2 DEF Total, Held
  <2>3. QED
    BY <1>1, <1>2, <1>3, <2>2
<1>5. QED
  BY <1>4 DEF Buffers, BuffersConserved, BuffersBounded, Total, Circulating

LEMMA ReadAheadStep ==
  ASSUME TypeOK, ReadAhead, [Next]_vars
  PROVE  ReadAhead'
<1>0. /\ recycle \in Nat /\ Len(hash) \in Nat /\ blocks \in Nat /\ blocks_read \in Nat
      /\ cfg.queue_depth \in Nat /\ hash \in Seq(Block) /\ wblock \in Block
  BY BuffersSum DEF TypeOK
<1> USE DEF ReadAhead, Held
<1>1. CASE ReaderChecks \/ ReaderStops \/ ReaderSends
  BY <1>0, <1>1 DEF ReaderChecks, ReaderStops, ReaderSends, channels, writer_vars, hasher_vars
<1>2. CASE ReaderTakesBuffer \/ ReaderReads
  BY SMTT(30), <1>0, <1>2 DEF ReaderTakesBuffer, ReaderReads, channels, writer_vars, hasher_vars
<1>3. CASE ReaderRetries
  BY <1>0, <1>3 DEF ReaderRetries, Recycle, writer_vars, hasher_vars
<1>4. CASE HasherReceives
  <2>1. Len(hash') = Len(hash) - 1
    BY <1>0, <1>4, TailFacts DEF HasherReceives
  <2>2. QED
    BY <1>0, <1>4, <2>1 DEF HasherReceives, reader_vars, writer_vars
<1>5. CASE HasherHashes
  BY <1>0, <1>5 DEF HasherHashes, Recycle, reader_vars, writer_vars
<1>6. CASE HasherEnds
  BY <1>0, <1>6 DEF HasherEnds, reader_vars, writer_vars, channels
<1>7. CASE WriterReceives \/ WriterCancels \/ WriterAccepts
  BY SMTT(30), <1>0, <1>7 DEF WriterReceives, WriterCancels, WriterAccepts, channels, reader_vars,
     hasher_vars
<1>8. CASE WriterWrites \/ WriterAgain
  <2>1. /\ UNCHANGED <<cfg, rpc, hpc, blocks, blocks_read, recycle, hash>>
        /\ wpc \in {"write", "rewrite"} /\ wpc' \in {"write", "rewrite", "dispatch"}
    BY <1>8 DEF WriterWrites, WriterAgain, channels, reader_vars, hasher_vars
  <2>2. QED
    BY <1>0, <2>1
<1>9. CASE WriterDispatches
  <2>1. /\ UNCHANGED <<cfg, rpc, hpc, blocks, blocks_read>> /\ wpc = "dispatch" /\ wpc' = "recv"
        /\ \/ hash' = Append(hash, wblock) /\ recycle' = recycle
           \/ Recycle /\ hash' = hash
    BY <1>9 DEF WriterDispatches, reader_vars, hasher_vars
  <2>2. Len(Append(hash, wblock)) = Len(hash) + 1
    BY <1>0, AppendFacts
  <2>3. CASE hash' = Append(hash, wblock) /\ recycle' = recycle
    BY <1>0, <2>1, <2>2, <2>3
  <2>4. CASE Recycle /\ hash' = hash
    <3>1. recycle' = recycle \/ recycle' = recycle + 1
      BY <2>4 DEF Recycle
    <3>2. QED
      BY <1>0, <2>1, <2>4, <3>1
  <2>5. QED
    BY <2>1, <2>3, <2>4
<1>10. CASE WriterFails \/ WriterJoinsHasher \/ WriterJoinsReader
  BY SMTT(30), <1>0, <1>10 DEF WriterFails, WriterJoinsHasher, WriterJoinsReader, channels, reader_vars,
     hasher_vars
<1>11. CASE Rest
  BY <1>0, <1>11 DEF Rest, Cancel, vars, channels, reader_vars, writer_vars, hasher_vars
<1>12. QED
  BY <1>1, <1>2, <1>3, <1>4, <1>5, <1>6, <1>7, <1>8, <1>9, <1>10, <1>11, Steps
     DEF Reader, Hasher, Writer


------------------------------------------------------------------------------
(* The end of a transfer                                                     *)

LEMMA FinalStep ==
  ASSUME TypeOK, ReaderShape, OutShape, InHand, HashChain, BlocksCounted, Final, [Next]_vars
  PROVE  Final'
<1>1. CASE WriterJoinsReader
  <2>1. /\ UNCHANGED <<cfg, rpc, hpc, Reached, hashed, blocks>> /\ wpc = "join_reader"
        /\ wpc' = "returned" /\ rpc = "ended"
        /\ result' = IF reader_err THEN "error" ELSE IF cancel THEN "cancelled" ELSE "ok"
    BY <1>1 DEF WriterJoinsReader, reader_vars, hasher_vars, world, Reached
  <2>2. SUFFICES ASSUME ~reader_err, ~cancel
                 PROVE  /\ \/ Reached = cfg.source
                           \/ cfg.limit >= 0 /\ Reached >= cfg.limit
                           \/ cfg.count >= 0 /\ blocks >= cfg.count
                        /\ cfg.has_hash => hashed = InputBytes(Reached)
                        /\ hpc = "ended"
    BY <2>1 DEF Final, OkIsComplete, WriterReturned
  <2>3. data = << >> /\ Reached = total_read
    BY <2>1, <2>2 DEF InHand, Joining
  <2>4. blocks_read = blocks
    BY <2>1, <2>2, <2>3 DEF BlocksCounted, Joining, Held, TypeOK
  <2>5. total_read = cfg.source \/ ReadLimitReached
    BY <2>1, <2>2 DEF ReaderShape, WriterReturned
  <2>6. hpc = "ended" /\ hash = << >>
    BY <2>1 DEF HashChain
  <2>7. ASSUME cfg.has_hash
        PROVE  hashed = InputBytes(Reached)
    <3>1. Len(hashed) = Reached /\ Reached \in Nat
      BY <2>1, <2>6, <2>7, ReachedType DEF HashChain, Handed, InHasher, Joining
    <3>2. /\ InputBytes(Reached) \in Seq(Nat) /\ Len(InputBytes(Reached)) = Reached
          /\ \A i \in 1..Reached : InputBytes(Reached)[i] = i
      BY <3>1, InputFacts
    <3>3. \A i \in 1..Len(hashed) : hashed[i] = InputBytes(Reached)[i]
      BY <3>1, <3>2 DEF HashChain
    <3>4. hashed \in Seq(Nat)
      BY DEF TypeOK
    <3>5. QED
      BY <3>1, <3>2, <3>3, <3>4, SeqEqual
  <2>8. QED
    BY <2>3, <2>4, <2>5, <2>6, <2>7 DEF ReadLimitReached
<1>2. CASE WriterFails
  BY <1>2 DEF WriterFails, Final, OkIsComplete, WriterReturned
<1>3. CASE Writer /\ ~WriterJoinsReader /\ ~WriterFails
  <2>1. result' = result /\ wpc # "returned" /\ wpc' # "returned"
    BY <1>3 DEF Writer, WriterReceives, WriterCancels, WriterAccepts, WriterWrites,
       WriterAgain, WriterDispatches, WriterJoinsHasher
  <2>2. QED
    BY <2>1 DEF Final, OkIsComplete, WriterReturned
<1>4. CASE Reader \/ Hasher \/ Rest
  <2>1. UNCHANGED <<cfg, wpc, result, Reached, blocks>>
    BY <1>4, WriterQuiet
  <2>2. CASE wpc = "returned" /\ result = "ok"
    <3>1. rpc = "ended" /\ hpc = "ended"
      BY <2>2 DEF Final, OkIsComplete
    <3>2. UNCHANGED <<rpc, hpc, hashed>>
      BY <1>4, <3>1 DEF Reader, Hasher, Rest, ReaderChecks, ReaderTakesBuffer, ReaderReads,
         ReaderStops, ReaderRetries, ReaderSends, HasherReceives, HasherHashes, HasherEnds,
         Cancel, vars, reader_vars, hasher_vars, world
    <3>3. QED
      BY <2>1, <3>2 DEF Final, OkIsComplete, WriterReturned
  <2>3. CASE ~(wpc = "returned" /\ result = "ok")
    BY <2>1, <2>3 DEF Final, OkIsComplete, WriterReturned
  <2>4. QED
    BY <2>2, <2>3
<1>5. QED
  BY <1>1, <1>2, <1>3, <1>4, Steps

------------------------------------------------------------------------------
(* The theorems                                                              *)

LEMMA InvariantInit == Init => IInv
<1> SUFFICES ASSUME Init PROVE IInv
  OBVIOUS
<1>1. TypeOK
  BY TypeInit
<1>2. /\ cfg.queue_depth \in Nat \ {0} /\ cfg.block_size \in Nat \ {0} /\ cfg.source \in Nat
      /\ cfg.limit \in Nat \cup {-1} /\ cfg.count \in Nat \cup {-1}
  BY <1>1, ConfigTypes DEF TypeOK
<1>3. ReaderShape
  BY <1>2 DEF Init, ReaderShape, WithinLimits, ReadLimitReached
<1>4. DataChain /\ OutShape /\ InHand
  BY DEF Init, DataChain, OutShape, InHand, Joining, Writing, Queued, Sent, WriterReturned, Reached
<1>5. Padded
  BY <1>2 DEF Init, Padded, Writing
<1>6. HashChain
  BY DEF Init, HashChain, Joining, Writing, Handed, InHasher, Reached
<1>7. BlocksCounted
  BY DEF Init, BlocksCounted, Held
<1>8. Buffers
  BY <1>2 DEF Init, Buffers, BuffersConserved, BuffersBounded, Held
<1>9. ReadAhead
  BY <1>2 DEF Init, ReadAhead, Held
<1>10. Final
  BY DEF Init, Final, OkIsComplete, WriterReturned
<1>11. QED
  BY <1>1, <1>3, <1>4, <1>5, <1>6, <1>7, <1>8, <1>9, <1>10 DEF IInv

LEMMA InvariantStep == IInv /\ [Next]_vars => IInv'
<1> SUFFICES ASSUME IInv, [Next]_vars PROVE IInv'
  OBVIOUS
<1>1. /\ TypeOK /\ ReaderShape /\ DataChain /\ OutShape /\ InHand /\ Padded
      /\ HashChain /\ BlocksCounted /\ Buffers /\ ReadAhead /\ Final
  BY DEF IInv
<1>2. TypeOK' /\ ReaderShape' /\ DataChain'
  BY <1>1, TypeStep, ReaderStep, DataChainStep
<1>3. OutShape' /\ InHand' /\ Padded' /\ HashChain'
  BY <1>1, OutShapeStep, InHandStep, PaddedStep, HashChainStep
<1>4. BlocksCounted' /\ Buffers' /\ ReadAhead' /\ Final'
  BY <1>1, BlocksCountedStep, BuffersStep, ReadAheadStep, FinalStep
<1>5. QED
  BY <1>2, <1>3, <1>4 DEF IInv

LEMMA Invariance == Spec => []IInv
BY InvariantInit, InvariantStep, PTL DEF Spec

\* Every variable of the pipeline keeps its type, and no channel ever holds more
\* than it has room for, whatever the three threads do.
THEOREM Typing == Spec => []TypeOK
<1>1. IInv => TypeOK
  BY DEF IInv
<1>2. QED
  BY <1>1, Invariance, PTL

(***************************************************************************)
(* While the three stages run, every one of the queue_depth buffers is in  *)
(* a channel or in a thread's hands, and a thread that sends never finds   *)
(* its channel full: the ring of bounded channels neither starves nor jams *)
(* (engine.rs:850-1000), for every queue depth.                            *)
(***************************************************************************)
THEOREM RingIsSound == Spec => []ChannelsSound
<1>1. IInv => ChannelsSound
  <2> SUFFICES ASSUME IInv PROVE ChannelsSound
    OBVIOUS
  <2>1. TypeOK /\ BuffersConserved /\ BuffersBounded /\ HashChain
    BY DEF IInv, Buffers
  <2>2. recycle \in Nat /\ Len(data) \in Nat /\ Len(hash) \in Nat /\ cfg.queue_depth \in Nat
    BY <2>1, BuffersSum
  <2>3. NoSendBlocks
    BY <2>1, <2>2 DEF NoSendBlocks, BuffersBounded, Held
  <2>4. QED
    BY <2>1, <2>3 DEF ChannelsSound
<1>2. QED
  BY <1>1, Invariance, PTL

(***************************************************************************)
(* The output is the beginning of the input, in order, and with --sync     *)
(* every block read fills a block of it, unless --direct has repeated a    *)
(* part of a block; even then nothing is missing up to the position        *)
(* reached, the checksum is that of a beginning of the input which has     *)
(* been written, and -l and -c are respected (engine.rs:867-1000).         *)
(***************************************************************************)
THEOREM OutputIsSound == Spec => []OutputSound
<1>1. IInv => OutputSound
  <2> SUFFICES ASSUME IInv PROVE OutputSound
    OBVIOUS
  <2>0. /\ TypeOK /\ out \in Seq(Nat) /\ Len(out) \in Nat /\ Reached \in Nat
        /\ repeated \in Nat /\ hashed \in Seq(Nat) /\ Len(hashed) \in Nat
    BY ReachedType, LenProperties DEF IInv, TypeOK
  <2>1. WrittenInOrder
    <3>1. ASSUME repeated = 0
          PROVE  out = InputBytes(Len(out))
      <4>1. /\ InputBytes(Len(out)) \in Seq(Nat) /\ Len(InputBytes(Len(out))) = Len(out)
            /\ \A i \in 1..Len(out) : InputBytes(Len(out))[i] = i
        BY <2>0, InputFacts
      <4>2. \A i \in 1..Len(out) : out[i] = InputBytes(Len(out))[i]
        BY <3>1, <4>1 DEF IInv, OutShape
      <4>3. QED
        BY <2>0, <4>1, <4>2, SeqEqual
    <3>2. 1..Reached \subseteq ToSet(out)
      <4>1. \A p \in 1..Reached : \E i \in 1..Len(out) : out[i] = p
        BY DEF IInv, OutShape
      <4>2. DOMAIN out = 1..Len(out)
        BY <2>0, LenProperties
      <4>3. QED
        BY <4>1, <4>2 DEF ToSet
    <3>3. repeated > 0 => cfg.direct
      BY DEF IInv, OutShape
    <3>4. cfg.sync /\ repeated = 0 /\ wpc \notin {"write", "rewrite", "returned"} =>
            Len(out) + padding = blocks * cfg.block_size
      BY DEF IInv, Padded, Writing
    <3>5. QED
      BY <3>1, <3>2, <3>3, <3>4 DEF WrittenInOrder
  <2>2. HashFollowsOutput
    <3> DEFINE whole == InputBytes(Reached)
    <3>1. whole \in Seq(Nat) /\ Len(whole) = Reached /\ \A i \in 1..Reached : whole[i] = i
      BY <2>0, InputFacts
    <3> HIDE DEF whole
    <3>2. Len(hashed) <= Reached
      <4>1. Len(hashed) <= Handed /\ Handed <= Reached
        BY DEF IInv, HashChain
      <4>2. Handed \in Nat
        BY <2>0, HandedType
      <4>3. QED
        BY <2>0, <4>1, <4>2
    <3>3. \A i \in 1..Len(hashed) : hashed[i] = whole[i]
      BY <2>0, <3>1, <3>2 DEF IInv, HashChain
    <3>4. SubSeq(hashed, 1, Len(hashed)) = SubSeq(whole, 1, Len(hashed))
      BY <2>0, <3>1, <3>2, <3>3
    <3>5. QED
      BY <3>1, <3>2, <3>4 DEF HashFollowsOutput, IsPrefix, whole
  <2>3. WithinLimits
    BY DEF IInv, ReaderShape
  <2>4. QED
    BY <2>1, <2>2, <2>3 DEF OutputSound
<1>2. QED
  BY <1>1, Invariance, PTL

(***************************************************************************)
(* A transfer that returns Ok without having been cancelled has written    *)
(* all that was asked for, though --direct may have written a part of a    *)
(* block twice, has hashed exactly that input, and has left no thread      *)
(* behind; a read error behind queued blocks is never lost                 *)
(* (engine.rs:1003-1024).                                                  *)
(***************************************************************************)
THEOREM OkMeansComplete == Spec => []OkIsComplete
<1>1. IInv => OkIsComplete
  BY DEF IInv, Final
<1>2. QED
  BY <1>1, Invariance, PTL

(***************************************************************************)
(* The reader is at most queue_depth blocks ahead of the writer, also when *)
(* it is left behind after a write error or a cancelled transfer           *)
(* (engine.rs:856-915).                                                    *)
(***************************************************************************)
THEOREM ReadAheadIsBounded == Spec => []ReadAheadBounded
<1>1. IInv => ReadAheadBounded
  <2> SUFFICES ASSUME IInv PROVE ReadAheadBounded
    OBVIOUS
  <2>1. TypeOK /\ ReadAhead
    BY DEF IInv
  <2>2. recycle \in Nat /\ Len(hash) \in Nat /\ cfg.queue_depth \in Nat
    BY <2>1, BuffersSum
  <2>3. QED
    BY <2>1, <2>2 DEF ReadAhead, ReadAheadBounded, Held, TypeOK
<1>2. QED
  BY <1>1, Invariance, PTL

(***************************************************************************)
(* The three threads and their channels implement the abstract stream      *)
(* copy: every step delivers the next bytes of the input, takes a block,   *)
(* steps back to write a block again (with --direct only), ends the copy   *)
(* for a reason the copy allows, or changes nothing of it.                 *)
(***************************************************************************)
THEOREM Refinement == Spec => ImplementsStreamCopy
<1>1. Init => Copy!Init
  <2> SUFFICES ASSUME Init PROVE Copy!Init
    OBVIOUS
  <2>1. cfg.source \in Nat /\ cfg.limit \in Nat \cup {-1} /\ cfg.count \in Nat \cup {-1}
        /\ cfg.direct \in BOOLEAN
    BY ConfigTypes DEF Init
  <2>2. Reached = 0
    BY DEF Init, Reached
  <2>3. QED
    BY <2>1, <2>2 DEF Init, Copy!Init, Copy!Requests, CopyStatus
<1>2. IInv /\ IInv' /\ [Next]_vars => [Copy!Next]_(Copy!vars)
  <2> SUFFICES ASSUME IInv, IInv', [Next]_vars PROVE [Copy!Next]_(Copy!vars)
    OBVIOUS
  <2>0. /\ TypeOK /\ cfg.block_size \in Nat \ {0} /\ cfg.source \in Nat
        /\ cfg.limit \in Nat \cup {-1} /\ cfg.count \in Nat \cup {-1} /\ out \in Seq(Nat)
        /\ Len(out) \in Nat /\ wblock.at \in Nat /\ wblock.n \in Nat /\ written \in Nat
        /\ total_read \in Nat /\ blocks \in Nat /\ Reached \in Nat /\ repeated \in Nat
        /\ Reached = Len(out) - repeated
    <3>1. TypeOK /\ out \in Seq(Nat)
      BY DEF IInv, TypeOK
    <3>2. QED
      BY <3>1, ConfigTypes, ReachedType DEF IInv, TypeOK, Block, Reached
  <2>1. CASE UNCHANGED <<cfg, out, Reached, blocks, wpc, result>>
    BY <2>1 DEF Copy!vars, CopyStatus
  <2>2. CASE Reader \/ Hasher \/ Rest
    BY <2>0, <2>1, <2>2, WriterQuiet
  <2>3. CASE WriterReceives \/ WriterCancels \/ WriterDispatches \/ WriterJoinsHasher
    <3>1. UNCHANGED <<cfg, out, Reached, blocks, result>> /\ wpc # "returned"
          /\ wpc' # "returned"
      BY <2>3 DEF WriterReceives, WriterCancels, WriterDispatches, WriterJoinsHasher, world,
         Reached
    <3>2. QED
      BY <3>1 DEF Copy!vars, CopyStatus
  <2>4. CASE WriterAccepts
    BY <2>4 DEF WriterAccepts, world, Reached, Copy!Next, Copy!TakeBlock, CopyStatus
  <2>5. CASE WriterFails
    BY <2>5 DEF WriterFails, world, Reached, Copy!Next, Copy!Abandon, CopyStatus
  <2>6. CASE WriterWrites
    <3>1. /\ UNCHANGED <<cfg, blocks, result, total_read>> /\ Writing /\ wpc' # "returned"
          /\ wpc # "returned"
      BY <2>6 DEF WriterWrites, reader_vars, Writing
    <3>2. PICK k \in 1..(PaddedLen(wblock) - written) :
             /\ out' \in Seq(Nat)
             /\ Reached' = Reached + (Len(out') - Len(out))
             /\ Len(out') = Len(out) + (Least(written + k, wblock.n) - Least(written, wblock.n))
             /\ Len(out') \in Len(out)..Len(out) + k
             /\ \A i \in 1..Len(out) : out'[i] = out[i]
             /\ \A i \in 1..Len(out') - Len(out) :
                  out'[Len(out) + i] = wblock.at + Least(written, wblock.n) + i
      BY <2>0, <2>6, WriteFacts
    <3> DEFINE n == Len(out') - Len(out)
    <3>3. n \in Nat /\ Len(out') \in Nat /\ Len(out') = Len(out) + n /\ Reached' = Reached + n
      BY SMTT(30), <2>0, <3>2
    <3>0. Reached = wblock.at + Least(written, wblock.n)
      BY <3>1 DEF IInv, InHand
    <3>4. Reached' <= total_read
      <4>0. Least(written + k, wblock.n) \in Int /\ Least(written, wblock.n) \in Int
        BY <2>0, <3>2 DEF Least
      <4>5. Len(out') - Len(out) = Least(written + k, wblock.n) - Least(written, wblock.n)
        BY <2>0, <3>2, <4>0
      <4>6. Reached' = Reached + (Least(written + k, wblock.n) - Least(written, wblock.n))
        BY <3>2, <4>5
      <4>1. Reached' = wblock.at + Least(written + k, wblock.n)
        BY SMTT(30), <2>0, <3>0, <4>0, <4>6
      <4>2. wblock.at + wblock.n <= total_read
        BY <3>1 DEF IInv, InHand
      <4>3. k \in Int
        BY <3>2
      <4>4. QED
        BY <2>0, <4>1, <4>2, <4>3 DEF Least
    <3>5. /\ total_read <= cfg.source /\ (cfg.limit >= 0 => total_read <= cfg.limit)
      BY DEF IInv, ReaderShape, WithinLimits
    <3>6. \A i \in 1..n : out'[Len(out) + i] = Reached + i
      BY <3>0, <3>2
    <3>7. CASE n = 0
      <4>0. Len(out') = Len(out) /\ Reached' = Reached
        <5> HIDE DEF n
        <5>1. QED
          BY <2>0, <3>3, <3>7
      <4>1. Len(out') = Len(out) /\ \A i \in 1..Len(out') : out'[i] = out[i]
        BY <3>2, <4>0
      <4>2. out' \in Seq(Nat) /\ out \in Seq(Nat)
        BY <2>0, <3>2
      <4>3. out' = out
        BY <4>1, <4>2, SeqEqual
      <4>4. QED
        BY <3>1, <4>0, <4>3 DEF Copy!vars, CopyStatus
    <3>8. CASE n # 0
      <4>1. out' = Copy!Deliver(out, Reached, n)
        <5> DEFINE new == [i \in 1..n |-> Reached + i]
        <5> HIDE DEF n
        <5>1. new \in Seq(Nat) /\ Len(new) = n /\ \A i \in 1..n : new[i] = Reached + i
          BY <2>0, <3>3
        <5>2. /\ out \o new \in Seq(Nat) /\ Len(out \o new) = Len(out) + n
              /\ \A i \in 1..Len(out) : (out \o new)[i] = out[i]
              /\ \A i \in 1..n : (out \o new)[Len(out) + i] = new[i]
          <6>1. out \in Seq(Nat) /\ new \in Seq(Nat)
            BY <2>0, <5>1
          <6> HIDE DEF new
          <6>2. /\ out \o new \in Seq(Nat) /\ Len(out \o new) = Len(out) + Len(new)
                /\ \A i \in 1..Len(out) : (out \o new)[i] = out[i]
                /\ \A i \in 1..Len(new) : (out \o new)[Len(out) + i] = new[i]
            BY <6>1, ConcatFacts
          <6>3. QED
            BY <5>1, <6>2
        <5>3. ASSUME NEW i \in 1..Len(out')
              PROVE  out'[i] = (out \o new)[i]
          <6>1. CASE i <= Len(out)
            <7>1. i \in 1..Len(out)
              BY <2>0, <6>1
            <7>2. QED
              BY <3>2, <5>2, <7>1
          <6>2. CASE i > Len(out)
            <7>1. i - Len(out) \in 1..n /\ Len(out) + (i - Len(out)) = i
              BY <2>0, <3>3, <6>2
            <7>2. new[i - Len(out)] = Reached + (i - Len(out))
              BY <5>1, <7>1
            <7> HIDE DEF new
            <7>3. QED
              BY <3>6, <5>2, <7>1, <7>2
          <6>3. QED
            BY <2>0, <3>3, <6>1, <6>2
        <5>4. out' = out \o new
          <6>1. Len(out') = Len(out \o new) /\ out' \in Seq(Nat) /\ out \o new \in Seq(Nat)
            BY <3>2, <3>3, <5>2
          <6> HIDE DEF new
          <6>2. QED
            BY <5>3, <6>1, SeqEqual
        <5>5. QED
          BY <5>4 DEF Copy!Deliver
      <4>2. /\ n \in 1..(cfg.source - Reached)
            /\ cfg.limit >= 0 => Reached + n <= cfg.limit
        <5> HIDE DEF n
        <5>1. Reached + n <= total_read /\ n >= 1
          BY <2>0, <3>3, <3>4, <3>8
        <5>2. QED
          BY SMTT(30), <2>0, <3>3, <3>5, <5>1
      <4>3. Copy!Transfer
        BY <3>1, <3>3, <4>1, <4>2 DEF Copy!Transfer, CopyStatus
      <4>4. QED
        BY <4>3 DEF Copy!Next
    <3>9. QED
      BY <3>7, <3>8
  <2>9. CASE WriterAgain
    <3>1. /\ UNCHANGED <<cfg, out, blocks, result>> /\ Writing /\ cfg.direct
          /\ wpc = "write" /\ wpc' = "rewrite"
          /\ repeated' = repeated + Least(written, wblock.n)
      BY <2>9 DEF WriterAgain, Writing
    <3>2. Reached = wblock.at + Least(written, wblock.n)
      BY <3>1 DEF IInv, InHand
    <3>3. Least(written, wblock.n) \in Nat /\ Reached' = Len(out) - repeated'
      BY <2>0, <3>1 DEF Least, Reached
    <3>4. Reached' \in 0..Reached
      BY SMTT(30), <2>0, <3>1, <3>2, <3>3
    <3>5. QED
      BY <3>1, <3>4 DEF Copy!Next, Copy!StepBack, CopyStatus
  <2>7. CASE WriterJoinsReader
    <3>1. /\ UNCHANGED <<cfg, out, Reached, blocks>> /\ wpc = "join_reader"
          /\ wpc' = "returned" /\ result' \in {"error", "cancelled", "ok"}
      BY <2>7 DEF WriterJoinsReader, world, Reached
    <3>2. CASE result' = "ok"
      <4>1. \/ Reached = cfg.source
            \/ cfg.limit >= 0 /\ Reached >= cfg.limit
            \/ cfg.count >= 0 /\ blocks >= cfg.count
        BY <3>1, <3>2 DEF IInv, Final, OkIsComplete
      <4>2. Copy!Succeed
        BY <3>1, <3>2, <4>1 DEF Copy!Succeed, Copy!IsAll, CopyStatus
      <4>3. QED
        BY <4>2 DEF Copy!Next
    <3>3. CASE result' # "ok"
      BY <3>1, <3>3 DEF Copy!Next, Copy!Abandon, CopyStatus
    <3>4. QED
      BY <3>2, <3>3
  <2>8. QED
    BY <2>2, <2>3, <2>4, <2>5, <2>6, <2>7, <2>9, Steps DEF Writer
<1>3. QED
  BY <1>1, <1>2, Invariance, PTL DEF Spec, ImplementsStreamCopy, Copy!Spec


==============================================================================
