--------------------------- MODULE BlksTree_proofs ---------------------------
(***************************************************************************)
(* Proofs about BlksTree: the digest of some data is one, whether the data *)
(* is hashed in one piece, in subtrees, or bit by bit, for every size of   *)
(* chunks, every power of two of chunks in a subtree and all data.         *)
(***************************************************************************)
EXTENDS BlksTree, SequenceTheorems, WellFoundedInduction, TLAPS

------------------------------------------------------------------------------
(* Induction over the natural numbers, for a set                             *)

Below == OpToRel(<, Nat)

LEMMA NatSetInduction ==
  ASSUME NEW S, 0 \in S, \A n \in Nat : n \in S => n + 1 \in S
  PROVE  \A n \in Nat : n \in S
<1> DEFINE T == Nat \ S
<1>1. SUFFICES ASSUME T # {} PROVE FALSE
  OBVIOUS
<1>2. IsWellFoundedOn(Below, Nat)
  BY NatLessThanWellFounded DEF Below
<1>3. PICK x \in T : \A y \in T : ~ (<<y, x>> \in Below)
  <2>1. T \subseteq Nat
    OBVIOUS
  <2> HIDE DEF T
  <2> QED BY <1>1, <1>2, <2>1, WFMin
<1>4. \A a, b \in Nat : a < b => <<a, b>> \in Below
  BY DEF Below, OpToRel
<1>5. x # 0 /\ x - 1 \in Nat
  OBVIOUS
<1>6. x - 1 \in T
  BY <1>5
<1>7. <<x - 1, x>> \in Below
  BY <1>4, <1>5
<1>8. QED
  BY <1>3, <1>6, <1>7

------------------------------------------------------------------------------
(* The recursive functions                                                   *)

(***************************************************************************)
(* One step of each recursion: the next level of a tree, the next power of *)
(* two, the next sequence put behind the others.  What is said of a        *)
(* function defined with it is said of all three.                          *)
(***************************************************************************)
After(how, n, x) ==
  IF how.kind = "level" THEN NextLevel(x, how.is_root)
  ELSE IF how.kind = "power" THEN 2 * x
  ELSE x \o how.seqs[n]

Recursion(f, first, how) ==
  f = [n \in Nat |-> IF n = 0 THEN first ELSE After(how, n, f[n - 1])]

\* The function exists up to any number, and the parts agree.
RecursionUpTo(f, n, first, how) ==
  f = [i \in 0..n |-> IF i = 0 THEN first ELSE After(how, i, f[i - 1])]

LEMMA UpToExists ==
  ASSUME NEW first, NEW how
  PROVE  \A n \in Nat : \E f : RecursionUpTo(f, n, first, how)
<1> DEFINE S == {n \in Nat : \E f : RecursionUpTo(f, n, first, how)}
<1>1. 0 \in S
  <2> DEFINE f == [i \in 0..0 |-> first]
  <2>1. RecursionUpTo(f, 0, first, how)
    BY DEF RecursionUpTo
  <2>2. QED
    BY <2>1
<1>2. ASSUME NEW n \in Nat, n \in S
      PROVE  n + 1 \in S
  <2>1. PICK f : RecursionUpTo(f, n, first, how)
    BY <1>2
  <2> DEFINE g == [i \in 0..n + 1 |-> IF i <= n THEN f[i] ELSE After(how, n + 1, f[n])]
  <2>2. ASSUME NEW i \in 0..n + 1
        PROVE  g[i] = IF i = 0 THEN first ELSE After(how, i, g[i - 1])
    <3>1. CASE i = 0
      BY <2>1, <3>1 DEF RecursionUpTo
    <3>2. CASE i \in 1..n
      <4>1. g[i] = f[i] /\ g[i - 1] = f[i - 1] /\ f[i] = After(how, i, f[i - 1])
        BY <2>1, <3>2 DEF RecursionUpTo
      <4>2. QED
        BY <3>2, <4>1
    <3>3. CASE i = n + 1
      <4>1. g[i] = After(how, n + 1, f[n]) /\ g[i - 1] = f[n]
        BY <3>3
      <4>2. QED
        BY <3>3, <4>1
    <3>4. QED
      BY <3>1, <3>2, <3>3
  <2>3. RecursionUpTo(g, n + 1, first, how)
    BY <2>2 DEF RecursionUpTo
  <2>4. QED
    BY <2>3
<1>3. \A n \in Nat : n \in S
  <2> HIDE DEF S
  <2> QED
    BY <1>1, <1>2, NatSetInduction
<1>4. QED
  BY <1>3

LEMMA UpToAgree ==
  ASSUME NEW first, NEW how, NEW f, NEW g, NEW m \in Nat, NEW n \in Nat,
         RecursionUpTo(f, m, first, how), RecursionUpTo(g, n, first, how)
  PROVE  \A i \in Nat : i <= m /\ i <= n => f[i] = g[i]
<1> DEFINE S == {i \in Nat : i <= m /\ i <= n => f[i] = g[i]}
<1>1. 0 \in S
  BY DEF RecursionUpTo
<1>2. ASSUME NEW i \in Nat, i \in S
      PROVE  i + 1 \in S
  <2>1. SUFFICES ASSUME i + 1 <= m, i + 1 <= n
                 PROVE  f[i + 1] = g[i + 1]
    OBVIOUS
  <2>2. f[i] = g[i]
    BY <1>2, <2>1
  <2>3. f[i + 1] = After(how, i + 1, f[(i + 1) - 1]) /\ g[i + 1] = After(how, i + 1, g[(i + 1) - 1])
    BY <2>1 DEF RecursionUpTo
  <2>4. (i + 1) - 1 = i
    OBVIOUS
  <2>5. QED
    BY <2>2, <2>3, <2>4
<1>3. \A i \in Nat : i \in S
  <2> HIDE DEF S
  <2> QED
    BY <1>1, <1>2, NatSetInduction
<1>4. QED
  BY <1>3

LEMMA RecursionExists ==
  ASSUME NEW first, NEW how
  PROVE  \E f : Recursion(f, first, how)
<1> DEFINE part(n) == CHOOSE f : RecursionUpTo(f, n, first, how)
           whole == [n \in Nat |-> part(n)[n]]
<1>1. ASSUME NEW n \in Nat
      PROVE  RecursionUpTo(part(n), n, first, how)
  BY UpToExists, Zenon
<1>2. ASSUME NEW n \in Nat
      PROVE  whole[n] = IF n = 0 THEN first ELSE After(how, n, whole[n - 1])
  <2>1. RecursionUpTo(part(n), n, first, how)
    BY <1>1
  <2>2. whole[n] = part(n)[n]
    BY Zenon
  <2> HIDE DEF part
  <2>3. part(n)[n] = IF n = 0 THEN first ELSE After(how, n, part(n)[n - 1])
    <3>1. n \in 0..n
      OBVIOUS
    <3>2. QED
      BY <2>1, <3>1, Zenon DEF RecursionUpTo
  <2>4. CASE n = 0
    BY <2>2, <2>3, <2>4
  <2>5. CASE n # 0
    <3>1. n - 1 \in Nat
      BY <2>5
    <3>2. RecursionUpTo(part(n - 1), n - 1, first, how)
      BY <1>1, <3>1, Zenon
    <3>3. part(n - 1)[n - 1] = part(n)[n - 1]
      <4>1. n - 1 <= n /\ n - 1 <= n - 1
        OBVIOUS
      <4>2. QED
        BY <2>1, <3>1, <3>2, <4>1, UpToAgree
    <3>4. whole[n - 1] = part(n - 1)[n - 1]
      BY <3>1
    <3>5. QED
      BY <2>2, <2>3, <2>5, <3>3, <3>4
  <2>6. QED
    BY <2>4, <2>5
<1>3. whole = [n \in Nat |-> IF n = 0 THEN first ELSE After(how, n, whole[n - 1])]
  <2> DEFINE other == [n \in Nat |-> IF n = 0 THEN first ELSE After(how, n, whole[n - 1])]
  <2>1. \A n \in Nat : whole[n] = other[n]
    <3>1. ASSUME NEW n \in Nat PROVE whole[n] = other[n]
      <4> DEFINE value == IF n = 0 THEN first ELSE After(how, n, whole[n - 1])
      <4>1. other[n] = value
        BY Zenon
      <4>2. whole[n] = value
        BY <1>2
      <4>3. QED
        BY <4>1, <4>2, Zenon
    <3>2. QED
      BY <3>1
  <2>2. whole = [n \in Nat |-> whole[n]] /\ other = [n \in Nat |-> other[n]]
    BY SMT
  <2> HIDE DEF whole, other
  <2>3. whole = other
    BY <2>1, <2>2
  <2>4. QED
    BY <2>3 DEF other
<1>4. QED
  <2> HIDE DEF whole
  <2>1. Recursion(whole, first, how)
    BY <1>3, Zenon DEF Recursion
  <2>2. QED
    BY <2>1

LEMMA LevelsDef ==
  ASSUME NEW nodes, NEW is_root
  PROVE  /\ Levels(nodes, is_root)[0] = nodes
         /\ \A n \in Nat : Levels(nodes, is_root)[n + 1]
                             = NextLevel(Levels(nodes, is_root)[n], is_root)
<1> DEFINE how == [kind |-> "level", is_root |-> is_root]
<1>1. \A n, x : After(how, n, x) = NextLevel(x, is_root)
  BY DEF After
<1> HIDE DEF how
<1>2. PICK f : Recursion(f, nodes, how)
  BY RecursionExists
<1>3. f = [n \in Nat |-> IF n = 0 THEN nodes ELSE NextLevel(f[n - 1], is_root)]
  BY <1>1, <1>2 DEF Recursion
<1> DEFINE L == Levels(nodes, is_root)
<1>5. L = [n \in Nat |-> IF n = 0 THEN nodes ELSE NextLevel(L[n - 1], is_root)]
  BY <1>3, Zenon DEF Levels
<1> HIDE DEF L
<1>6. L[0] = nodes
  BY <1>5
<1>7. ASSUME NEW n \in Nat
      PROVE  L[n + 1] = NextLevel(L[n], is_root)
  <2>1. n + 1 \in Nat /\ n + 1 # 0 /\ (n + 1) - 1 = n
    OBVIOUS
  <2>2. L[n + 1] = NextLevel(L[(n + 1) - 1], is_root)
    BY <1>5, <2>1
  <2>3. QED
    BY <2>1, <2>2
<1>8. QED
  BY <1>6, <1>7 DEF L

LEMMA PowerDef ==
  /\ PowerOfTwo[0] = 1
  /\ \A n \in Nat : PowerOfTwo[n] \in Nat \ {0} /\ PowerOfTwo[n + 1] = 2 * PowerOfTwo[n]
<1> DEFINE how == [kind |-> "power"]
<1>1. \A n, x : After(how, n, x) = 2 * x
  BY DEF After
<1> HIDE DEF how
<1>2. PICK f : Recursion(f, 1, how)
  BY RecursionExists
<1>3. f = [n \in Nat |-> IF n = 0 THEN 1 ELSE 2 * f[n - 1]]
  BY <1>1, <1>2 DEF Recursion
<1>4. PowerOfTwo = [n \in Nat |-> IF n = 0 THEN 1 ELSE 2 * PowerOfTwo[n - 1]]
  BY <1>3, Zenon DEF PowerOfTwo
<1>5. PowerOfTwo[0] = 1
  BY <1>4
<1>6. ASSUME NEW n \in Nat
      PROVE  PowerOfTwo[n + 1] = 2 * PowerOfTwo[n]
  <2>1. n + 1 \in Nat /\ n + 1 # 0 /\ (n + 1) - 1 = n
    OBVIOUS
  <2>2. PowerOfTwo[n + 1] = 2 * PowerOfTwo[(n + 1) - 1]
    BY <1>4, <2>1
  <2>3. QED
    BY <2>1, <2>2
<1> DEFINE S == {n \in Nat : PowerOfTwo[n] \in Nat \ {0}}
<1>7. 0 \in S
  BY <1>5
<1>8. ASSUME NEW n \in Nat, n \in S PROVE n + 1 \in S
  BY <1>6, <1>8
<1>9. \A n \in Nat : n \in S
  <2> HIDE DEF S
  <2> QED
    BY <1>7, <1>8, NatSetInduction
<1>10. QED
  BY <1>5, <1>6, <1>9

------------------------------------------------------------------------------
(* Lists of nodes                                                            *)

IsList(s) == s \in Seq({s[i] : i \in DOMAIN s})

LEMMA ListFacts ==
  ASSUME NEW s, IsList(s)
  PROVE  Len(s) \in Nat /\ DOMAIN s = 1..Len(s) /\ s = [i \in 1..Len(s) |-> s[i]]
BY LenProperties DEF IsList

LEMMA MakesList ==
  ASSUME NEW n \in Nat, NEW s, s = [i \in 1..n |-> s[i]]
  PROVE  IsList(s) /\ Len(s) = n
<1> DEFINE S == {s[i] : i \in 1..n}
<1>1. DOMAIN s = 1..n
  OBVIOUS
<1>2. s \in [1..n -> S]
  OBVIOUS
<1>3. s \in Seq(S)
  <2> HIDE DEF S
  <2> QED
    BY <1>2, SeqDef
<1>4. Len(s) = n
  <2> HIDE DEF S
  <2> QED
    BY <1>1, <1>3, LenProperties
<1>5. QED
  BY <1>1, <1>3, <1>4 DEF IsList

LEMMA SeqIsList ==
  ASSUME NEW S, NEW s \in Seq(S)
  PROVE  IsList(s)
<1>1. Len(s) \in Nat /\ s = [i \in 1..Len(s) |-> s[i]]
  BY LenProperties
<1>2. QED
  BY <1>1, MakesList

LEMMA ListEqual ==
  ASSUME NEW s, NEW t, IsList(s), IsList(t), Len(s) = Len(t),
         \A i \in 1..Len(s) : s[i] = t[i]
  PROVE  s = t
BY ListFacts

LEMMA ListConcat ==
  ASSUME NEW s, NEW t, IsList(s), IsList(t)
  PROVE  /\ IsList(s \o t)
         /\ Len(s \o t) = Len(s) + Len(t)
         /\ \A i \in 1..Len(s) : (s \o t)[i] = s[i]
         /\ \A i \in 1..Len(t) : (s \o t)[Len(s) + i] = t[i]
<1> DEFINE S == {s[i] : i \in DOMAIN s} \cup {t[i] : i \in DOMAIN t}
<1>1. s \in Seq(S) /\ t \in Seq(S)
  <2>1. s \in Seq({s[i] : i \in DOMAIN s}) /\ t \in Seq({t[i] : i \in DOMAIN t})
    BY DEF IsList
  <2>2. {s[i] : i \in DOMAIN s} \subseteq S /\ {t[i] : i \in DOMAIN t} \subseteq S
    OBVIOUS
  <2> HIDE DEF S
  <2>3. QED
    BY <2>1, <2>2, SeqMonotonic
<1> HIDE DEF S
<1>2. /\ s \o t \in Seq(S) /\ Len(s \o t) = Len(s) + Len(t)
      /\ \A i \in 1..Len(s) + Len(t) :
           (s \o t)[i] = IF i <= Len(s) THEN s[i] ELSE t[i - Len(s)]
  BY <1>1, ConcatProperties
<1>3. IsList(s \o t)
  BY <1>2, SeqIsList
<1>4. Len(s) \in Nat /\ Len(t) \in Nat
  BY ListFacts
<1>5. \A i \in 1..Len(t) : Len(s) + i \in 1..Len(s) + Len(t) /\ ~(Len(s) + i <= Len(s))
                             /\ (Len(s) + i) - Len(s) = i
  BY <1>4
<1>6. \A i \in 1..Len(t) : (s \o t)[Len(s) + i] = t[i]
  BY <1>2, <1>5
<1>7. \A i \in 1..Len(s) : (s \o t)[i] = s[i]
  BY <1>2, <1>4
<1>8. QED
  BY <1>2, <1>3, <1>6, <1>7

LEMMA ListPart ==
  ASSUME NEW s, IsList(s), NEW a \in Nat, NEW b \in Nat, 1 <= a, a <= b + 1, b <= Len(s)
  PROVE  /\ IsList(SubSeq(s, a, b))
         /\ Len(SubSeq(s, a, b)) = b - a + 1
         /\ \A i \in 1..(b - a + 1) : SubSeq(s, a, b)[i] = s[a + i - 1]
<1> DEFINE S == {s[i] : i \in DOMAIN s}
<1>1. Len(s) \in Nat /\ DOMAIN s = 1..Len(s)
  BY ListFacts
<1>2. \A i \in a..b : s[i] \in S
  BY <1>1
<1> HIDE DEF S
<1>3. /\ SubSeq(s, a, b) \in Seq(S)
      /\ Len(SubSeq(s, a, b)) = IF a <= b THEN b - a + 1 ELSE 0
      /\ \A i \in 1..b - a + 1 : SubSeq(s, a, b)[i] = s[a + i - 1]
  BY <1>2, SubSeqProperties
<1>4. IsList(SubSeq(s, a, b))
  BY <1>3, SeqIsList
<1>5. QED
  BY <1>3, <1>4

------------------------------------------------------------------------------
(* The levels of a tree                                                      *)

\* Half a level, the left-over node included.
LEMMA NextLevelFacts ==
  ASSUME NEW level, IsList(level), NEW is_root \in BOOLEAN
  PROVE  LET next == NextLevel(level, is_root)
             n    == Len(level)
         IN  /\ n \in Nat /\ IsList(next)
             /\ n % 2 = 0 => Len(next) + Len(next) = n
             /\ n % 2 = 1 => Len(next) + Len(next) = n + 1 /\ next[Len(next)] = level[n]
             /\ \A i \in 1..Len(next) : i + i <= n =>
                  next[i] = CompressParent(level[i + i - 1], level[i + i], is_root /\ n = 2)
<1> DEFINE n == Len(level)
           half == n \div 2
           pairs == [i \in 1..half |->
                       CompressParent(level[2 * i - 1], level[2 * i], is_root /\ n = 2)]
           rest == SubSeq(level, 2 * half + 1, n)
           next == NextLevel(level, is_root)
<1>1. n \in Nat
  BY ListFacts
<1>2. half \in Nat /\ (n = half + half \/ n = half + half + 1) /\ 2 * half = half + half
      /\ (n % 2 = 0 <=> n = half + half) /\ (n % 2 = 1 <=> n = half + half + 1)
  <2> HIDE DEF n
  <2> QED
    BY <1>1
<1>3. next = pairs \o rest
  BY DEF NextLevel
<1>4. IsList(pairs) /\ Len(pairs) = half
  <2>1. pairs = [i \in 1..half |-> pairs[i]]
    OBVIOUS
  <2> HIDE DEF pairs, half
  <2>2. QED
    BY <1>2, <2>1, MakesList
<1>5. /\ IsList(rest) /\ Len(rest) = n - (half + half)
      /\ n = half + half + 1 => rest[1] = level[n]
  <2> HIDE DEF half, n
  <2>1. 2 * half + 1 \in Nat /\ 1 <= 2 * half + 1 /\ 2 * half + 1 <= n + 1 /\ n <= Len(level)
    BY <1>1, <1>2 DEF n
  <2>2. /\ IsList(rest) /\ Len(rest) = n - (2 * half + 1) + 1
        /\ \A i \in 1..(n - (2 * half + 1) + 1) : rest[i] = level[2 * half + 1 + i - 1]
    BY <1>1, <2>1, ListPart
  <2>3. QED
    BY <1>1, <1>2, <2>2
<1>6. /\ IsList(next) /\ Len(next) = half + (n - (half + half))
      /\ \A i \in 1..half : next[i] = pairs[i]
      /\ n = half + half + 1 => next[half + 1] = level[n]
  <2> HIDE DEF half, n, pairs, rest, next
  <2>0. /\ IsList(pairs \o rest) /\ Len(pairs \o rest) = Len(pairs) + Len(rest)
        /\ \A i \in 1..Len(pairs) : (pairs \o rest)[i] = pairs[i]
        /\ \A i \in 1..Len(rest) : (pairs \o rest)[Len(pairs) + i] = rest[i]
    <3>1. IsList(pairs) /\ IsList(rest)
      BY <1>4, <1>5
    <3>2. QED
      BY <3>1, ListConcat
  <2>1. /\ IsList(next) /\ Len(next) = Len(pairs) + Len(rest)
        /\ \A i \in 1..Len(pairs) : next[i] = pairs[i]
        /\ \A i \in 1..Len(rest) : next[Len(pairs) + i] = rest[i]
    BY <1>3, <2>0
  <2>2. QED
    BY <1>1, <1>2, <1>4, <1>5, <2>1
<1>7. ASSUME NEW i \in 1..half
      PROVE  next[i] = CompressParent(level[i + i - 1], level[i + i], is_root /\ n = 2)
  <2>1. pairs[i] = CompressParent(level[2 * i - 1], level[2 * i], is_root /\ n = 2)
    BY DEF pairs
  <2>2. 2 * i = i + i
    BY <1>2
  <2> HIDE DEF half, n, pairs, rest, next
  <2>3. QED
    BY <1>6, <2>1, <2>2
<1>8. QED
  <2> HIDE DEF half, n, next
  <2>1. \A i \in 1..Len(next) : i + i <= n => i \in 1..half
    BY <1>1, <1>2, <1>6
  <2>2. \A i \in 1..Len(next) : i + i <= n =>
          next[i] = CompressParent(level[i + i - 1], level[i + i], is_root /\ n = 2)
    BY <1>7, <2>1
  <2>3. /\ n % 2 = 0 => Len(next) + Len(next) = n
        /\ n % 2 = 1 => Len(next) + Len(next) = n + 1 /\ next[Len(next)] = level[n]
    BY <1>1, <1>2, <1>6
  <2>4. QED
    BY <1>1, <1>6, <2>2, <2>3 DEF n, next


\* B is a part of A, after the first c elements.
Slice(B, A, c) ==
  IsList(B) /\ IsList(A) /\ c + Len(B) <= Len(A) /\ \A i \in 1..Len(B) : B[i] = A[c + i]

(***************************************************************************)
(* A part that begins behind whole pairs, and ends with a pair or with the *)
(* level, is taken to a part of the next level.                            *)
(***************************************************************************)
LEMMA SliceNext ==
  ASSUME NEW A, NEW B, NEW c \in Nat, NEW is_root \in BOOLEAN, Slice(B, A, c + c), Len(A) > 2,
         Len(B) % 2 = 0 \/ c + c + Len(B) = Len(A)
  PROVE  /\ Slice(NextLevel(B, FALSE), NextLevel(A, is_root), c)
         /\ c + c + Len(B) = Len(A) =>
              c + Len(NextLevel(B, FALSE)) = Len(NextLevel(A, is_root))
<1> DEFINE a == Len(A)
           b == Len(B)
           na == NextLevel(A, is_root)
           nb == NextLevel(B, FALSE)
<1>1. /\ IsList(A) /\ IsList(B) /\ c + c + b <= a /\ a > 2
      /\ \A i \in 1..b : B[i] = A[c + c + i]
  BY DEF Slice
<1>2. /\ a \in Nat /\ IsList(na)
      /\ a % 2 = 0 => Len(na) + Len(na) = a
      /\ a % 2 = 1 => Len(na) + Len(na) = a + 1 /\ na[Len(na)] = A[a]
      /\ \A i \in 1..Len(na) : i + i <= a =>
           na[i] = CompressParent(A[i + i - 1], A[i + i], is_root /\ a = 2)
  BY <1>1, NextLevelFacts
<1>3. /\ b \in Nat /\ IsList(nb)
      /\ b % 2 = 0 => Len(nb) + Len(nb) = b
      /\ b % 2 = 1 => Len(nb) + Len(nb) = b + 1 /\ nb[Len(nb)] = B[b]
      /\ \A i \in 1..Len(nb) : i + i <= b =>
           nb[i] = CompressParent(B[i + i - 1], B[i + i], FALSE /\ b = 2)
  BY <1>1, NextLevelFacts
<1>4. b % 2 = 0 \/ c + c + b = a
  OBVIOUS
<1> HIDE DEF a, b, na, nb
<1>5. Len(na) \in Nat /\ Len(nb) \in Nat /\ a \in Nat /\ b \in Nat
  BY <1>2, <1>3, ListFacts
<1>6. (a % 2 = 0 \/ a % 2 = 1) /\ (b % 2 = 0 \/ b % 2 = 1)
  BY <1>2, <1>3
<1>7. b % 2 = 1 => a % 2 = 1 /\ c + c + b = a /\ c + Len(nb) = Len(na)
  <2>1. SUFFICES ASSUME b % 2 = 1 PROVE a % 2 = 1 /\ c + c + b = a /\ c + Len(nb) = Len(na)
    OBVIOUS
  <2>2. c + c + b = a
    BY <1>3, <1>4, <2>1
  <2>3. a % 2 = 1
    <3>1. Len(nb) + Len(nb) = b + 1
      BY <1>3, <2>1
    <3>2. SUFFICES ASSUME a % 2 = 0 PROVE FALSE
      BY <1>6
    <3>3. Len(na) + Len(na) = a
      BY <1>2, <3>2
    <3>4. QED
      BY <1>5, <2>2, <3>1, <3>3
  <2>4. QED
    BY <1>2, <1>3, <1>5, <2>1, <2>2, <2>3
<1>8. c + Len(nb) <= Len(na) /\ (c + c + b = a => c + Len(nb) = Len(na))
  <2>1. CASE b % 2 = 1
    BY <1>5, <1>7, <2>1
  <2>2. CASE b % 2 = 0
    <3>1. Len(nb) + Len(nb) = b /\ (Len(na) + Len(na) = a \/ Len(na) + Len(na) = a + 1)
      BY <1>2, <1>3, <1>6, <2>2
    <3>2. c + c + b <= a
      BY <1>1
    <3>3. QED
      BY <1>5, <3>1, <3>2
  <2>3. QED
    BY <1>6, <2>1, <2>2
<1>9. ASSUME NEW i \in 1..Len(nb)
      PROVE  nb[i] = na[c + i]
  <2>1. CASE i + i <= b
    <3>1. i \in 1..Len(na) /\ c + i \in 1..Len(na)
      BY <1>5, <1>8
    <3>2. /\ i + i \in 1..b /\ i + i - 1 \in 1..b
          /\ (c + i) + (c + i) <= a
          /\ (c + i) + (c + i) - 1 = c + c + (i + i - 1) /\ (c + i) + (c + i) = c + c + (i + i)
      BY <1>1, <1>2, <1>3, <1>5, <2>1
    <3>3. B[i + i - 1] = A[c + c + (i + i - 1)] /\ B[i + i] = A[c + c + (i + i)]
      BY <1>1, <3>2
    <3>4. nb[i] = CompressParent(B[i + i - 1], B[i + i], FALSE /\ b = 2)
      BY <1>3, <2>1
    <3>5. na[c + i] = CompressParent(A[(c + i) + (c + i) - 1], A[(c + i) + (c + i)],
                                     is_root /\ a = 2)
      BY <1>2, <3>1, <3>2
    <3>6. (FALSE /\ b = 2) = FALSE /\ (is_root /\ a = 2) = FALSE
      BY <1>1, <1>2
    <3>7. QED
      BY <3>2, <3>3, <3>4, <3>5, <3>6
  <2>2. CASE i + i > b
    <3> DEFINE l == Len(nb)
    <3>i. l \in Nat /\ i \in 1..l /\ b \in Nat
      BY <1>5
    <3>e. b % 2 = 0 => l + l = b
      BY <1>3
    <3>o. b % 2 = 1 => l + l = b + 1
      BY <1>3
    <3> HIDE DEF l
    <3>p. b % 2 # 0
      <4>1. l + l # b
        BY <2>2, <3>i
      <4>2. QED
        BY <3>e, <4>1
    <3>q. b % 2 = 1
      BY <1>6, <3>p
    <3>r. i = l
      <4>1. l + l = b + 1
        BY <3>o, <3>q
      <4>2. QED
        BY <2>2, <3>i, <4>1
    <3>1. b % 2 = 1 /\ i = Len(nb)
      BY <3>q, <3>r DEF l
    <3>2. nb[i] = B[b] /\ na[c + i] = A[a]
      BY <1>2, <1>3, <1>7, <3>1
    <3>3. b \in 1..b /\ c + c + b = a
      BY <1>3, <1>7, <3>1
    <3>4. B[b] = A[c + c + b]
      BY <1>1, <3>3
    <3>5. QED
      BY <3>2, <3>3, <3>4
  <2>3. QED
    BY <1>3, <1>5, <2>1, <2>2
<1>10. QED
  BY <1>2, <1>3, <1>8, <1>9 DEF Slice, a, b, na, nb


LEMMA LevelsShrink ==
  ASSUME NEW nodes, IsList(nodes), Len(nodes) > 0, NEW is_root \in BOOLEAN
  PROVE  \A n \in Nat : LET level == Levels(nodes, is_root)[n]
                        IN  /\ IsList(level) /\ Len(level) \in Nat /\ Len(level) > 0
                            /\ Len(level) = 1 \/ Len(level) + n <= Len(nodes)
<1> DEFINE L == Levels(nodes, is_root)
           Good(n) == /\ IsList(L[n]) /\ Len(L[n]) \in Nat /\ Len(L[n]) > 0
                      /\ Len(L[n]) = 1 \/ Len(L[n]) + n <= Len(nodes)
           S == {n \in Nat : Good(n)}
<1>0. L[0] = nodes /\ \A n \in Nat : L[n + 1] = NextLevel(L[n], is_root)
  BY LevelsDef
<1>1. Len(nodes) \in Nat
  BY ListFacts
<1> HIDE DEF L
<1>2. 0 \in S
  BY <1>0, <1>1
<1>3. ASSUME NEW n \in Nat, n \in S
      PROVE  n + 1 \in S
  <2> DEFINE a == Len(L[n])
             b == Len(L[n + 1])
             most == Len(nodes)
  <2>1. /\ IsList(L[n]) /\ a \in Nat /\ a > 0 /\ (a = 1 \/ a + n <= most)
        /\ L[n + 1] = NextLevel(L[n], is_root) /\ most \in Nat
    BY <1>0, <1>1, <1>3
  <2>2. /\ IsList(L[n + 1])
        /\ a % 2 = 0 => b + b = a
        /\ a % 2 = 1 => b + b = a + 1
    BY <2>1, NextLevelFacts
  <2>3. b \in Nat
    BY <2>2, ListFacts
  <2>4. b > 0 /\ (b = 1 \/ b + (n + 1) <= most)
    <3> HIDE DEF a, b, most
    <3>1. b + b = a \/ b + b = a + 1
      <4>1. a % 2 = 0 \/ a % 2 = 1
        BY <2>1
      <4>2. QED
        BY <2>2, <4>1
    <3>2. QED
      BY <2>1, <2>3, <3>1
  <2>5. Good(n + 1)
    BY <2>2, <2>3, <2>4
  <2>6. n + 1 \in Nat
    OBVIOUS
  <2> HIDE DEF Good
  <2>7. QED
    BY <2>5, <2>6
<1>4. \A n \in Nat : n \in S
  <2> HIDE DEF S
  <2> QED
    BY <1>2, <1>3, NatSetInduction
<1>5. QED
  BY <1>4 DEF L

LEMMA LevelsSettle ==
  ASSUME NEW nodes, NEW is_root \in BOOLEAN, NEW m \in Nat,
         IsList(Levels(nodes, is_root)[m]), Len(Levels(nodes, is_root)[m]) = 1
  PROVE  \A k \in Nat : Levels(nodes, is_root)[m + k] = Levels(nodes, is_root)[m]
<1> DEFINE L == Levels(nodes, is_root)
           S == {k \in Nat : L[m + k] = L[m]}
<1>0. IsList(L[m]) /\ Len(L[m]) = 1 /\ \A n \in Nat : L[n + 1] = NextLevel(L[n], is_root)
  BY LevelsDef
<1> HIDE DEF L
<1>1. NextLevel(L[m], is_root) = L[m]
  <2> DEFINE level == L[m]
             next == NextLevel(level, is_root)
  <2>1. /\ IsList(next)
        /\ Len(level) % 2 = 1 =>
             Len(next) + Len(next) = Len(level) + 1 /\ next[Len(next)] = level[Len(level)]
    BY <1>0, NextLevelFacts
  <2>2. Len(next) \in Nat /\ Len(level) = 1
    BY <1>0, <2>1, ListFacts
  <2> HIDE DEF next
  <2>3. Len(next) = 1 /\ next[1] = level[1]
    <3>1. Len(level) % 2 = 1
      BY <2>2
    <3>2. Len(next) + Len(next) = 2 /\ next[Len(next)] = level[1]
      BY <2>1, <2>2, <3>1
    <3>3. Len(next) = 1
      <4>1. \A x \in Nat : x + x = 2 => x = 1
        OBVIOUS
      <4>2. QED
        BY <2>2, <3>2, <4>1
    <3>4. QED
      BY <3>2, <3>3
  <2>4. next = level
    <3>1. IsList(next) /\ IsList(level) /\ Len(next) = Len(level)
      BY <1>0, <2>1, <2>3
    <3>2. \A i \in 1..Len(next) : next[i] = level[i]
      BY <2>3
    <3> HIDE DEF level
    <3>3. QED
      BY <3>1, <3>2, ListEqual
  <2>5. QED
    BY <2>4 DEF next
<1>2. 0 \in S
  OBVIOUS
<1>3. ASSUME NEW k \in Nat, k \in S
      PROVE  k + 1 \in S
  <2>1. m + k \in Nat /\ m + (k + 1) = (m + k) + 1
    OBVIOUS
  <2>2. L[m + (k + 1)] = NextLevel(L[m + k], is_root)
    BY <1>0, <2>1
  <2>3. QED
    BY <1>1, <1>3, <2>2
<1>4. \A k \in Nat : k \in S
  <2> HIDE DEF S
  <2> QED
    BY <1>2, <1>3, NatSetInduction
<1>5. QED
  BY <1>4 DEF L

\* The root is what any level with a single node holds.
LEMMA RootAt ==
  ASSUME NEW nodes, IsList(nodes), Len(nodes) > 0, NEW is_root \in BOOLEAN, NEW m \in Nat,
         Len(Levels(nodes, is_root)[m]) = 1
  PROVE  ReduceNodes(nodes, is_root) = Levels(nodes, is_root)[m][1]
<1> DEFINE L == Levels(nodes, is_root)
           n == Len(nodes)
<1>1. n \in Nat
  BY ListFacts
<1>2. /\ IsList(L[m]) /\ IsList(L[n]) /\ Len(L[n]) \in Nat /\ Len(L[n]) > 0
      /\ Len(L[n]) = 1 \/ Len(L[n]) + n <= n
  BY <1>1, LevelsShrink
<1>3. Len(L[n]) = 1
  <2> HIDE DEF L, n
  <2> QED
    BY <1>1, <1>2
<1>4. L[n] = L[m]
  <2>1. \A k \in Nat : L[m + k] = L[m]
    BY <1>2, LevelsSettle
  <2>2. \A k \in Nat : L[n + k] = L[n]
    BY <1>1, <1>2, <1>3, LevelsSettle
  <2> HIDE DEF L, n
  <2>3. CASE m <= n
    <3>1. n - m \in Nat /\ m + (n - m) = n
      BY <1>1, <2>3
    <3>2. QED
      BY <2>1, <3>1
  <2>4. CASE n <= m
    <3>1. m - n \in Nat /\ n + (m - n) = m
      BY <1>1, <2>4
    <3>2. QED
      BY <2>2, <3>1
  <2>5. QED
    BY <1>1, <2>3, <2>4
<1>5. QED
  BY <1>4 DEF ReduceNodes

LEMMA LevelsCompose ==
  ASSUME NEW nodes, NEW is_root \in BOOLEAN, NEW m \in Nat
  PROVE  \A k \in Nat : Levels(nodes, is_root)[m + k]
                          = Levels(Levels(nodes, is_root)[m], is_root)[k]
<1> DEFINE L == Levels(nodes, is_root)
           M == Levels(L[m], is_root)
           S == {k \in Nat : L[m + k] = M[k]}
<1>1. \A n \in Nat : L[n + 1] = NextLevel(L[n], is_root)
  BY LevelsDef
<1>2. M[0] = L[m] /\ \A n \in Nat : M[n + 1] = NextLevel(M[n], is_root)
  BY LevelsDef
<1> HIDE DEF L, M
<1>3. 0 \in S
  BY <1>2
<1>4. ASSUME NEW k \in Nat, k \in S
      PROVE  k + 1 \in S
  <2>1. m + k \in Nat /\ m + (k + 1) = (m + k) + 1
    OBVIOUS
  <2>2. L[m + (k + 1)] = NextLevel(L[m + k], is_root)
    BY <1>1, <2>1
  <2>3. QED
    BY <1>2, <1>4, <2>2
<1>5. \A k \in Nat : k \in S
  <2> HIDE DEF S
  <2> QED
    BY <1>3, <1>4, NatSetInduction
<1>6. QED
  BY <1>5 DEF L, M


------------------------------------------------------------------------------
(* Subtrees                                                                  *)

\* What is known of the next level's length.
LEMMA NextLength ==
  ASSUME NEW level, IsList(level), NEW is_root \in BOOLEAN
  PROVE  LET a == Len(level)
             b == Len(NextLevel(level, is_root))
         IN  a \in Nat /\ b \in Nat /\ (b + b = a \/ b + b = a + 1)
<1> DEFINE next == NextLevel(level, is_root)
           a == Len(level)
<1>1. /\ a \in Nat /\ IsList(next)
      /\ a % 2 = 0 => Len(next) + Len(next) = a
      /\ a % 2 = 1 => Len(next) + Len(next) = a + 1
  BY NextLevelFacts
<1>2. Len(next) \in Nat
  BY <1>1, ListFacts
<1>3. a % 2 = 0 \/ a % 2 = 1
  <2> HIDE DEF a
  <2> QED
    BY <1>1
<1>4. QED
  BY <1>1, <1>2, <1>3

(***************************************************************************)
(* 2^k nodes in line, or the fewer at the end, reduced for themselves,     *)
(* give the node that stands for them on level k of the whole tree.        *)
(***************************************************************************)
LEMMA SubtreeRoot ==
  ASSUME NEW A, NEW B, NEW k \in Nat, NEW o \in Nat,
         Slice(B, A, o * PowerOfTwo[k]), Len(B) \in 1..PowerOfTwo[k], Len(A) > PowerOfTwo[k],
         Len(B) = PowerOfTwo[k] \/ o * PowerOfTwo[k] + Len(B) = Len(A)
  PROVE  /\ ReduceNodes(B, FALSE) = Levels(A, TRUE)[k][o + 1]
         /\ o + 1 <= Len(Levels(A, TRUE)[k])
         /\ o * PowerOfTwo[k] + Len(B) = Len(A) => o + 1 = Len(Levels(A, TRUE)[k])
<1> DEFINE P == PowerOfTwo
           LA == Levels(A, TRUE)
           LB == Levels(B, FALSE)
           end == o * P[k] + Len(B) = Len(A)
           Good(j) == /\ Slice(LB[j], LA[j], o * P[k - j])
                      /\ Len(LB[j]) \in 1..P[k - j]
                      /\ Len(LB[j]) = P[k - j] \/ o * P[k - j] + Len(LB[j]) = Len(LA[j])
                      /\ Len(LA[j]) > P[k - j]
                      /\ end => o * P[k - j] + Len(LB[j]) = Len(LA[j])
           S == {j \in Nat : j <= k => Good(j)}
<1>1. /\ LA[0] = A /\ LB[0] = B
      /\ \A n \in Nat : LA[n + 1] = NextLevel(LA[n], TRUE) /\ LB[n + 1] = NextLevel(LB[n], FALSE)
  BY LevelsDef
<1>2. P[0] = 1 /\ \A n \in Nat : P[n] \in Nat \ {0} /\ P[n + 1] = 2 * P[n]
  BY PowerDef
<1>0. /\ Slice(B, A, o * P[k]) /\ Len(B) \in 1..P[k] /\ Len(A) > P[k]
      /\ Len(B) = P[k] \/ o * P[k] + Len(B) = Len(A)
  OBVIOUS
<1> HIDE DEF P, LA, LB
<1>3. 0 \in S
  <2>1. k - 0 = k
    OBVIOUS
  <2>2. Good(0)
    BY <1>0, <1>1, <2>1
  <2>3. QED
    BY <2>2
<1>4. ASSUME NEW j \in Nat, j \in S
      PROVE  j + 1 \in S
  <2>1. SUFFICES ASSUME j + 1 <= k PROVE Good(j + 1)
    OBVIOUS
  <2>2. Good(j)
    BY <1>4, <2>1
  <2> DEFINE v == P[k - (j + 1)]
             w == P[k - j]
             a == Len(LA[j])
             b == Len(LB[j])
             a1 == Len(LA[j + 1])
             b1 == Len(LB[j + 1])
  <2>3. v \in Nat \ {0} /\ w = v + v /\ o * w = o * v + o * v /\ o * v \in Nat
    <3>1. k - (j + 1) \in Nat /\ (k - (j + 1)) + 1 = k - j
      BY <2>1
    <3>2. v \in Nat \ {0} /\ w = 2 * v
      BY <1>2, <3>1
    <3> HIDE DEF v, w
    <3>3. QED
      BY <3>2
  <2>4. /\ Slice(LB[j], LA[j], o * w) /\ b \in 1..w /\ a > w
        /\ b = w \/ o * w + b = a
        /\ end => o * w + b = a
    BY <2>2
  <2>5. LA[j + 1] = NextLevel(LA[j], TRUE) /\ LB[j + 1] = NextLevel(LB[j], FALSE)
    BY <1>1
  <2>6. IsList(LA[j]) /\ IsList(LB[j])
    BY <2>4 DEF Slice
  <2>7. /\ a \in Nat /\ a1 \in Nat /\ (a1 + a1 = a \/ a1 + a1 = a + 1)
        /\ b \in Nat /\ b1 \in Nat /\ (b1 + b1 = b \/ b1 + b1 = b + 1)
    <3>1. TRUE \in BOOLEAN /\ FALSE \in BOOLEAN
      OBVIOUS
    <3>2. QED
      BY <2>5, <2>6, <3>1, NextLength
  <2> DEFINE c == o * v
  <2>8. Slice(LB[j + 1], LA[j + 1], c) /\ (c + c + b = a => c + b1 = a1)
    <3>1. c \in Nat /\ Slice(LB[j], LA[j], c + c)
      BY <2>3, <2>4
    <3>2. a > 2 /\ (b % 2 = 0 \/ c + c + b = a)
      <4>1. v \in Nat /\ v > 0 /\ w = v + v /\ o * w = c + c
        BY <2>3
      <4>2. b = w => b % 2 = 0
        <5> HIDE DEF v, w, b
        <5> QED
          BY <4>1
      <4>3. a > 2
        <5>1. a > w /\ a \in Nat
          BY <2>4, <2>7
        <5> HIDE DEF v, w, a
        <5>2. QED
          BY <4>1, <5>1
      <4>4. QED
        BY <2>4, <4>1, <4>2, <4>3
    <3> HIDE DEF c
    <3>3. TRUE \in BOOLEAN
      OBVIOUS
    <3>4. /\ Slice(NextLevel(LB[j], FALSE), NextLevel(LA[j], TRUE), c)
          /\ c + c + Len(LB[j]) = Len(LA[j]) =>
               c + Len(NextLevel(LB[j], FALSE)) = Len(NextLevel(LA[j], TRUE))
      BY <3>1, <3>2, <3>3, SliceNext
    <3>5. QED
      BY <2>5, <3>4
  <2>9. c \in Nat /\ o * w = c + c
    BY <2>3
  <2> HIDE DEF v, w, a, b, a1, b1, c, end
  <2>10. /\ b1 \in 1..v /\ a1 > v
         /\ b1 = v \/ c + b1 = a1
         /\ end => c + b1 = a1
    <3>1. b1 \in 1..v /\ a1 > v
      BY <2>3, <2>4, <2>7
    <3>2. b = w => b1 = v
      BY <2>3, <2>7
    <3>3. QED
      BY <2>4, <2>8, <2>9, <3>1, <3>2
  <2>11. QED
    BY <2>8, <2>10 DEF v, c, a1, b1
<1>5. \A j \in Nat : j \in S
  <2> HIDE DEF S
  <2> QED
    BY <1>3, <1>4, NatSetInduction
<1>6. Good(k)
  BY <1>5
<1>7. /\ Slice(LB[k], LA[k], o) /\ Len(LB[k]) = 1 /\ (end => o + 1 = Len(LA[k]))
  <2>1. k - k = 0 /\ o * 1 = o
    OBVIOUS
  <2>2. P[k - k] = 1 /\ o * P[k - k] = o
    BY <1>2, <2>1
  <2>3. Slice(LB[k], LA[k], o * P[k - k]) /\ Len(LB[k]) \in 1..P[k - k]
        /\ (end => o * P[k - k] + Len(LB[k]) = Len(LA[k]))
    BY <1>6
  <2> HIDE DEF end
  <2>4. Len(LB[k]) = 1
    BY <2>2, <2>3
  <2>5. QED
    BY <2>2, <2>3, <2>4
<1>8. LB[k][1] = LA[k][o + 1] /\ o + 1 <= Len(LA[k])
  BY <1>7 DEF Slice
<1>9. ReduceNodes(B, FALSE) = LB[k][1]
  <2>1. IsList(B) /\ Len(B) > 0 /\ FALSE \in BOOLEAN
    BY <1>0, <1>2 DEF Slice
  <2>2. Len(Levels(B, FALSE)[k]) = 1
    BY <1>7 DEF LB
  <2>3. ReduceNodes(B, FALSE) = Levels(B, FALSE)[k][1]
    BY <2>1, <2>2, RootAt
  <2>4. QED
    BY <2>3 DEF LB
<1>10. QED
  BY <1>7, <1>8, <1>9 DEF LA, P


(***************************************************************************)
(* Nodes reduced in groups of 2^k, the last group with what is left, give  *)
(* the root that the nodes give at once.                                   *)
(***************************************************************************)
Grouped(G, B, A, p) ==
  \A q \in 1..Len(G) :
    /\ G[q] = ReduceNodes(B[q], FALSE) /\ Slice(B[q], A, (q - 1) * p)
    /\ Len(B[q]) \in 1..p
    /\ IF q < Len(G) THEN Len(B[q]) = p ELSE (q - 1) * p + Len(B[q]) = Len(A)

LEMMA Grouping ==
  ASSUME NEW A, NEW G, NEW B, NEW k \in Nat, IsList(A), IsList(G), Len(G) >= 2,
         Grouped(G, B, A, PowerOfTwo[k])
  PROVE  ReduceNodes(G, TRUE) = ReduceNodes(A, TRUE)
<1> DEFINE p == PowerOfTwo[k]
           L == Levels(A, TRUE)
           M == Levels(G, TRUE)
           m == Len(G)
<1>1. p \in Nat \ {0}
  BY PowerDef
<1>2. m \in Nat /\ Len(A) \in Nat /\ m >= 2
  BY ListFacts
<1>3. ASSUME NEW q \in 1..m
      PROVE  /\ G[q] = ReduceNodes(B[q], FALSE) /\ Slice(B[q], A, (q - 1) * p)
             /\ Len(B[q]) \in 1..p
             /\ q # m => Len(B[q]) = p
             /\ q = m => (q - 1) * p + Len(B[q]) = Len(A)
  <2>1. (q < m <=> q # m)
    BY <1>2
  <2>2. QED
    BY <2>1 DEF Grouped
<1>m. Len(G) = m
  OBVIOUS
<1> HIDE DEF p, m, L, M
<1>4. Len(A) > p
  <2>1. m \in 1..m /\ m - 1 \in Nat /\ m - 1 >= 1
    BY <1>2
  <2>2. Len(B[m]) \in 1..p /\ (m - 1) * p + Len(B[m]) = Len(A)
    BY <1>3, <2>1, Zenon
  <2>3. (m - 1) * p >= p
    <3>1. \A x \in Nat : x >= 1 => x * p >= p
      BY <1>1
    <3>2. QED
      BY <2>1, <3>1
  <2>4. (m - 1) * p \in Nat
    BY <1>1, <2>1
  <2> DEFINE y == (m - 1) * p
             b == Len(B[m])
  <2>5. y \in Nat /\ y >= p /\ b \in 1..p /\ y + b = Len(A)
    BY <2>2, <2>3, <2>4
  <2> HIDE DEF y, b
  <2>6. QED
    BY <1>1, <1>2, <2>5
<1>5. ASSUME NEW q \in 1..m
      PROVE  G[q] = L[k][q] /\ q <= Len(L[k]) /\ (q = m => q = Len(L[k]))
  <2> DEFINE o == q - 1
  <2>1. o \in Nat /\ o + 1 = q
    BY <1>2
  <2>2. /\ Slice(B[q], A, o * p) /\ Len(B[q]) \in 1..p
        /\ Len(B[q]) = p \/ o * p + Len(B[q]) = Len(A)
        /\ q = m => o * p + Len(B[q]) = Len(A)
    BY <1>2, <1>3
  <2> HIDE DEF o
  <2>3. /\ ReduceNodes(B[q], FALSE) = L[k][o + 1] /\ o + 1 <= Len(L[k])
        /\ o * p + Len(B[q]) = Len(A) => o + 1 = Len(L[k])
    <3> USE DEF p, L
    <3> DEFINE part == B[q]
    <3>1. o \in Nat
      BY <2>1
    <3>2. Slice(part, A, o * PowerOfTwo[k])
      BY <2>2
    <3>3. Len(part) \in 1..PowerOfTwo[k] /\ Len(A) > PowerOfTwo[k]
      BY <1>4, <2>2
    <3>4. Len(part) = PowerOfTwo[k] \/ o * PowerOfTwo[k] + Len(part) = Len(A)
      BY <2>2
    <3> HIDE DEF part
    <3>5. /\ ReduceNodes(part, FALSE) = Levels(A, TRUE)[k][o + 1]
          /\ o + 1 <= Len(Levels(A, TRUE)[k])
          /\ o * PowerOfTwo[k] + Len(part) = Len(A) => o + 1 = Len(Levels(A, TRUE)[k])
      BY <3>1, <3>2, <3>3, <3>4, SubtreeRoot, ZenonT(60)
    <3>6. QED
      BY <3>5 DEF part
  <2>4. QED
    BY <1>3, <2>1, <2>2, <2>3
<1>6. IsList(L[k]) /\ Len(A) > 0
  <2>1. Len(A) > 0
    BY <1>1, <1>2, <1>4
  <2>2. QED
    BY <2>1, LevelsShrink DEF L
<1>7. G = L[k]
  <2>1. m \in 1..m
    BY <1>2
  <2>2. Len(L[k]) = m
    BY <1>5, <2>1
  <2>3. QED
    BY <1>5, <1>6, <1>m, <2>2, ListEqual
<1>8. Len(M[m]) = 1
  <2>1. Len(G) > 0 /\ m \in Nat /\ TRUE \in BOOLEAN
    BY <1>2, <1>m
  <2>2. Len(M[m]) \in Nat /\ Len(M[m]) > 0 /\ (Len(M[m]) = 1 \/ Len(M[m]) + m <= Len(G))
    BY <2>1, LevelsShrink DEF M
  <2>3. QED
    BY <1>2, <1>m, <2>2
<1>9. M[m] = L[k + m]
  <2>1. Levels(A, TRUE)[k + m] = Levels(Levels(A, TRUE)[k], TRUE)[m]
    <3>1. TRUE \in BOOLEAN /\ m \in Nat
      BY <1>2
    <3>2. QED
      BY <3>1, LevelsCompose, Zenon
  <2>2. QED
    BY <1>7, <2>1, Zenon DEF L, M
<1>10. ReduceNodes(G, TRUE) = M[m][1]
  <2>1. Len(Levels(G, TRUE)[m]) = 1
    BY <1>8, Zenon DEF M
  <2>2. Len(G) > 0 /\ m \in Nat /\ TRUE \in BOOLEAN
    BY <1>2, <1>m
  <2>3. QED
    BY <2>1, <2>2, RootAt, Zenon DEF M
<1>11. ReduceNodes(A, TRUE) = L[k + m][1]
  <2>1. k + m \in Nat /\ TRUE \in BOOLEAN
    BY <1>2
  <2>2. Len(L[k + m]) = 1
    BY <1>8, <1>9, Zenon
  <2>3. Len(Levels(A, TRUE)[k + m]) = 1
    BY <2>2, Zenon DEF L
  <2>4. QED
    BY <1>6, <2>1, <2>3, RootAt, Zenon DEF L
<1>12. QED
  BY <1>9, <1>10, <1>11

------------------------------------------------------------------------------
(* Chunks                                                                    *)

LEMMA Ceiling ==
  ASSUME NEW n \in Nat, NEW size \in Nat \ {0}
  PROVE  LET c == (n + size - 1) \div size
         IN  /\ c \in Nat /\ n <= c * size
             /\ n > 0 => c > 0 /\ (c - 1) * size < n
             /\ n = 0 => c = 0
<1> DEFINE x == n + size - 1
           c == x \div size
<1>1. x \in Nat
  OBVIOUS
<1>2. c \in Int /\ size * c <= x /\ x < size * c + size
  <2> HIDE DEF x
  <2>1. x = size * (x \div size) + (x % size) /\ x % size \in 0..size - 1 /\ x \div size \in Int
    BY <1>1
  <2>2. QED
    BY <1>1, <2>1
<1>3. size * c = c * size /\ (c - 1) * size = c * size - size
  <2> HIDE DEF c
  <2> QED
    BY <1>2
<1> DEFINE y == c * size
<1>4. y \in Int /\ y <= x /\ x < y + size /\ (c - 1) * size = y - size
  <2> HIDE DEF c, x
  <2> QED
    BY <1>2, <1>3
<1>5. c >= 0
  <2>1. y > 0 - size
    <3> HIDE DEF c, y
    <3> QED
      BY <1>4
  <2> HIDE DEF c, x
  <2>2. c <= -1 => y <= 0 - size
    BY <1>2
  <2>3. QED
    BY <1>2, <1>4, <2>1, <2>2
<1>6. n > 0 => c # 0
  <2>1. c = 0 => y = 0
    <3> HIDE DEF c, x
    <3> QED
      OBVIOUS
  <2> HIDE DEF c, y
  <2>2. QED
    BY <1>4, <2>1
<1>7. n = 0 => c = 0
  <2>1. c >= 1 => y >= size
    <3> HIDE DEF c, x
    <3> QED
      BY <1>2
  <2> HIDE DEF c, y
  <2>2. QED
    BY <1>2, <1>4, <1>5, <2>1
<1>8. QED
  <2>1. c \in Nat /\ n <= y /\ (n > 0 => c > 0 /\ y - size < n)
    <3> HIDE DEF c, y
    <3> QED
      BY <1>2, <1>4, <1>5, <1>6
  <2>2. QED
    BY <1>4, <1>7, <2>1


\* Products with the size of a chunk.
LEMMA Times ==
  ASSUME NEW a \in Int, NEW b \in Int, NEW s \in Nat \ {0}
  PROVE  /\ a * s \in Int /\ (a + b) * s = a * s + b * s /\ (a - 1) * s = a * s - s
         /\ (a + 1) * s = a * s + s /\ (a - b) * s = a * s - b * s
         /\ a <= b <=> a * s <= b * s
         /\ a < b <=> a * s < b * s
         /\ a >= 0 => a * s >= 0
<1>1. /\ a * s \in Int /\ b * s \in Int /\ (a + b) * s = a * s + b * s
      /\ (a - 1) * s = a * s - s /\ (a + 1) * s = a * s + s
  OBVIOUS
<1>2. \A x, y \in Int : x < y => x * s < y * s
  <2>1. SUFFICES ASSUME NEW x \in Int, NEW y \in Int, x < y PROVE x * s < y * s
    OBVIOUS
  <2>2. PICK d \in Int : d = y - x
    OBVIOUS
  <2>3. d > 0 /\ y = x + d
    BY <2>1, <2>2
  <2>4. d * s > 0 /\ y * s = x * s + d * s
    BY <2>3
  <2>5. x * s \in Int /\ d * s \in Int
    OBVIOUS
  <2> DEFINE u == x * s
             v == d * s
             w == y * s
  <2>6. u \in Int /\ v \in Int /\ v > 0 /\ w = u + v
    BY <2>4, <2>5
  <2> HIDE DEF u, v, w
  <2>7. u < w
    BY <2>6
  <2>8. QED
    BY <2>7 DEF u, w
<1>3. a < b => a * s < b * s
  BY <1>2
<1>4. b < a => b * s < a * s
  BY <1>2
<1>5. a >= 0 => a * s >= 0
  OBVIOUS
<1>6. (a - b) * s = a * s - b * s
  OBVIOUS
<1> DEFINE u == a * s
           w == b * s
<1>7. /\ u \in Int /\ w \in Int /\ (a < b => u < w) /\ (b < a => w < u) /\ (a = b => u = w)
  BY <1>1, <1>3, <1>4
<1>8. (a <= b <=> u <= w) /\ (a < b <=> u < w)
  <2> HIDE DEF u, w
  <2> QED
    BY <1>7
<1>9. QED
  BY <1>1, <1>5, <1>6, <1>8

\* The part behind the first x elements.
LEMMA PartFacts ==
  ASSUME NEW s, IsList(s), NEW x \in Nat, NEW b \in Nat, x <= b, b <= Len(s)
  PROVE  /\ IsList(SubSeq(s, x + 1, b)) /\ Len(SubSeq(s, x + 1, b)) = b - x
         /\ \A i \in 1..(b - x) : SubSeq(s, x + 1, b)[i] = s[x + i]
<1> DEFINE a == x + 1
<1>1. /\ a \in Nat /\ 1 <= a /\ a <= b + 1 /\ b - a + 1 = b - x
      /\ \A i \in Int : a + i - 1 = x + i
  OBVIOUS
<1> HIDE DEF a
<1>2. /\ IsList(SubSeq(s, a, b))
      /\ Len(SubSeq(s, a, b)) = b - a + 1
      /\ \A i \in 1..(b - a + 1) : SubSeq(s, a, b)[i] = s[a + i - 1]
  BY <1>1, ListPart
<1>3. /\ IsList(SubSeq(s, a, b)) /\ Len(SubSeq(s, a, b)) = b - x
      /\ \A i \in 1..(b - x) : SubSeq(s, a, b)[i] = s[x + i]
  BY <1>1, <1>2
<1>4. QED
  BY <1>3, Zenon DEF a

\* A part of a part.
LEMMA PartOfPart ==
  ASSUME NEW s, IsList(s), NEW x \in Nat, NEW b \in Nat, x <= b, b <= Len(s),
         NEW u \in Nat, NEW v \in Nat, u <= v, x + v <= b
  PROVE  SubSeq(SubSeq(s, x + 1, b), u + 1, v) = SubSeq(s, (x + u) + 1, x + v)
<1> DEFINE t == SubSeq(s, x + 1, b)
           left == SubSeq(t, u + 1, v)
           y == x + u
           z == x + v
           right == SubSeq(s, y + 1, z)
<1>0. /\ Len(s) \in Nat /\ y \in Nat /\ z \in Nat /\ y <= z /\ z <= Len(s)
      /\ z - y = v - u /\ v <= b - x
  BY ListFacts
<1>1. /\ IsList(t) /\ Len(t) = b - x
      /\ \A i \in 1..(b - x) : t[i] = s[x + i]
  BY PartFacts
<1> HIDE DEF t
<1>2. /\ IsList(left) /\ Len(left) = v - u
      /\ \A i \in 1..(v - u) : left[i] = t[u + i]
  BY <1>0, <1>1, PartFacts
<1>y. \A i \in Int : y + i = x + (u + i)
  OBVIOUS
<1> HIDE DEF y, z
<1>3. /\ IsList(right) /\ Len(right) = z - y
      /\ \A i \in 1..(z - y) : right[i] = s[y + i]
  BY <1>0, PartFacts
<1> HIDE DEF left, right
<1>4. \A i \in 1..Len(left) : left[i] = right[i]
  <2>1. \A i \in 1..(v - u) : u + i \in 1..(b - x) /\ y + i = x + (u + i)
    BY <1>0, <1>y
  <2>2. QED
    BY ZenonT(40), <1>0, <1>1, <1>2, <1>3, <2>1
<1>5. left = right
  BY <1>0, <1>2, <1>3, <1>4, ListEqual
<1>6. QED
  BY <1>5 DEF left, right, t, y, z

\* The chunks of some bytes: as many as are needed, the last one with the rest.
LEMMA ChunksFacts ==
  ASSUME NEW bytes, IsList(bytes), NEW size \in Nat \ {0}
  PROVE  LET c == Len(Chunks(bytes, size))
         IN  /\ IsList(Chunks(bytes, size)) /\ c \in Nat
             /\ Len(bytes) <= c * size
             /\ c > 0 => (c - 1) * size < Len(bytes)
             /\ \A i \in 1..c : Chunks(bytes, size)[i]
                  = SubSeq(bytes, (i - 1) * size + 1, Least(i * size, Len(bytes)))
<1> DEFINE n == Len(bytes)
           c == (n + size - 1) \div size
           chunks == Chunks(bytes, size)
<1>1. n \in Nat
  BY ListFacts
<1>2. /\ c \in Nat /\ n <= c * size
      /\ n > 0 => c > 0 /\ (c - 1) * size < n
      /\ n = 0 => c = 0
  BY <1>1, Ceiling
<1>3. chunks = [i \in 1..c |-> SubSeq(bytes, (i - 1) * size + 1, Least(i * size, n))]
  BY DEF Chunks
<1> HIDE DEF c, chunks, n
<1>4. chunks = [i \in 1..c |-> chunks[i]]
  BY <1>3
<1>5. IsList(chunks) /\ Len(chunks) = c
  BY <1>2, <1>4, MakesList
<1>6. c > 0 => (c - 1) * size < n
  BY <1>1, <1>2
<1>7. QED
  BY <1>2, <1>3, <1>5, <1>6 DEF chunks, n

LEMMA LeavesFacts ==
  ASSUME NEW bytes, IsList(bytes)
  PROVE  LET c == Len(Leaves(bytes))
         IN  /\ IsList(Leaves(bytes)) /\ c \in Nat
             /\ Len(bytes) <= c * CHUNK_SIZE
             /\ c > 0 => (c - 1) * CHUNK_SIZE < Len(bytes)
             /\ \A i \in 1..c : Leaves(bytes)[i]
                  = HashChunk(SubSeq(bytes, (i - 1) * CHUNK_SIZE + 1,
                                     Least(i * CHUNK_SIZE, Len(bytes))), FALSE)
<1> DEFINE chunks == Chunks(bytes, CHUNK_SIZE)
           c == Len(chunks)
           leaves == Leaves(bytes)
<1>1. /\ c \in Nat /\ Len(bytes) <= c * CHUNK_SIZE
      /\ c > 0 => (c - 1) * CHUNK_SIZE < Len(bytes)
      /\ \A i \in 1..c : chunks[i] = SubSeq(bytes, (i - 1) * CHUNK_SIZE + 1,
                                            Least(i * CHUNK_SIZE, Len(bytes)))
  BY TreeAssumption, ChunksFacts
<1>2. leaves = [i \in 1..c |-> HashChunk(chunks[i], FALSE)]
  BY DEF Leaves
<1> HIDE DEF c, chunks, leaves
<1>3. leaves = [i \in 1..c |-> leaves[i]]
  BY <1>2
<1>4. IsList(leaves) /\ Len(leaves) = c
  BY <1>1, <1>3, MakesList
<1>5. \A i \in 1..c : leaves[i] = HashChunk(SubSeq(bytes, (i - 1) * CHUNK_SIZE + 1,
                                            Least(i * CHUNK_SIZE, Len(bytes))), FALSE)
  BY <1>1, <1>2
<1>6. QED
  BY <1>1, <1>4, <1>5 DEF leaves


(***************************************************************************)
(* The leaves of a part that begins with a chunk, and ends with one or     *)
(* with the data, are a part of the leaves of the data.                    *)
(***************************************************************************)
LEMMA LeavesOfPart ==
  ASSUME NEW data, IsList(data), NEW a \in Nat, NEW b \in Nat,
         a * CHUNK_SIZE <= b, b <= Len(data),
         b = Len(data) \/ \E e \in Nat : b = e * CHUNK_SIZE
  PROVE  LET part == SubSeq(data, a * CHUNK_SIZE + 1, b)
         IN  /\ Slice(Leaves(part), Leaves(data), a)
             /\ b = Len(data) => a + Len(Leaves(part)) = Len(Leaves(data))
<1> DEFINE C == CHUNK_SIZE
           x == a * C
           part == SubSeq(data, x + 1, b)
           all == Leaves(data)
           some == Leaves(part)
           N == Len(data)
           n == Len(all)
           k == Len(some)
<1>1. C \in Nat \ {0}
  BY TreeAssumption
<1>2. x \in Nat /\ N \in Nat /\ x <= b /\ b <= N
  BY <1>1, Times, ListFacts
<1>3. /\ IsList(part) /\ Len(part) = b - x
  BY <1>2, PartFacts
<1>4. /\ IsList(all) /\ n \in Nat /\ N <= n * C /\ (n > 0 => (n - 1) * C < N)
      /\ \A i \in 1..n : all[i] = HashChunk(SubSeq(data, (i - 1) * C + 1, Least(i * C, N)), FALSE)
  BY LeavesFacts
<1>5. /\ IsList(some) /\ k \in Nat /\ b - x <= k * C /\ (k > 0 => (k - 1) * C < b - x)
      /\ \A i \in 1..k :
           some[i] = HashChunk(SubSeq(part, (i - 1) * C + 1, Least(i * C, b - x)), FALSE)
  BY <1>3, LeavesFacts
<1>e. b = N \/ \E e \in Nat : b = e * C
  OBVIOUS
<1> HIDE DEF C, x, part, all, some, N, n, k
<1>6. a + k <= n
  <2>1. CASE k = 0
    <3>1. x <= n * C /\ n * C \in Int
      BY <1>1, <1>2, <1>4, Times
    <3>2. a <= n
      BY <1>1, <1>4, <3>1, Times DEF x
    <3>3. QED
      BY <1>4, <2>1, <3>2
  <2>2. CASE k > 0
    <3>1. /\ (k - 1) * C \in Int /\ n * C \in Int /\ a * C \in Int
          /\ (a + (k - 1)) * C = a * C + (k - 1) * C
          /\ a + (k - 1) < n <=> (a + (k - 1)) * C < n * C
      <4>1. k - 1 \in Int /\ n \in Int /\ a \in Int /\ a + (k - 1) \in Int
        BY <1>4, <1>5
      <4>2. QED
        BY <1>1, <4>1, Times
    <3> DEFINE u == (k - 1) * C
               w == n * C
               y == (a + (k - 1)) * C
    <3>2. u \in Int /\ w \in Int /\ y = x + u /\ u < b - x /\ N <= w
      BY <1>4, <1>5, <2>2, <3>1 DEF x
    <3>3. y < w
      <4> HIDE DEF u, w, y
      <4> QED
        BY <1>2, <3>2
    <3>4. a + (k - 1) < n
      BY <3>1, <3>3
    <3>5. QED
      BY <1>4, <1>5, <3>4
  <2>3. QED
    BY <1>5, <2>1, <2>2
<1>7. b = N => a + k = n
  <2>1. SUFFICES ASSUME b = N PROVE n <= a + k
    BY <1>4, <1>5, <1>6
  <2>2. CASE n = 0
    BY <1>5, <2>2
  <2>3. CASE n > 0
    <3>1. /\ (n - 1) * C \in Int /\ k * C \in Int /\ (a + k) * C = a * C + k * C
          /\ n - 1 < a + k <=> (n - 1) * C < (a + k) * C
      <4>1. k \in Int /\ n - 1 \in Int /\ a \in Int /\ a + k \in Int
        BY <1>4, <1>5
      <4>2. QED
        BY <1>1, <4>1, Times
    <3> DEFINE u == (n - 1) * C
               w == k * C
               y == (a + k) * C
    <3>2. u \in Int /\ w \in Int /\ y = x + w /\ u < N /\ N - x <= w
      BY <1>4, <1>5, <2>1, <2>3, <3>1 DEF x
    <3>3. u < y
      <4> HIDE DEF u, w, y
      <4> QED
        BY <1>2, <3>2
    <3>4. n - 1 < a + k
      BY <3>1, <3>3
    <3>5. QED
      BY <1>4, <1>5, <3>4
  <2>4. QED
    BY <1>4, <2>2, <2>3
<1>8. ASSUME NEW i \in 1..k
      PROVE  some[i] = all[a + i]
  <2> DEFINE u == (i - 1) * C
             v == i * C
             j == a + i
             end == Least(v, b - x)
             stop == Least(j * C, N)
  <2>1. /\ j \in 1..n /\ i \in Nat /\ i - 1 \in Nat /\ j - 1 \in Nat
    BY <1>4, <1>5, <1>6
  <2>2. /\ u \in Nat /\ v \in Nat /\ u < v
        /\ (j - 1) * C = x + u /\ j * C = x + v
    <3>1. /\ (i - 1) * C \in Int /\ i * C \in Int /\ (i - 1) * C >= 0 /\ i * C >= 0
          /\ (a + (i - 1)) * C = a * C + (i - 1) * C /\ (a + i) * C = a * C + i * C
          /\ i - 1 < i <=> (i - 1) * C < i * C
      <4>1. i \in Int /\ i - 1 \in Int /\ a \in Int /\ i >= 0 /\ i - 1 >= 0
        BY <2>1
      <4>2. QED
        BY <1>1, <4>1, Times
    <3>2. j - 1 = a + (i - 1)
      BY <2>1
    <3>3. QED
      BY <3>1, <3>2 DEF x
  <2>3. u < b - x
    <3>1. /\ i - 1 <= k - 1 <=> (i - 1) * C <= (k - 1) * C
          /\ (k - 1) * C \in Int
      <4>1. i - 1 \in Int /\ k - 1 \in Int
        BY <1>5, <2>1
      <4>2. QED
        BY <1>1, <4>1, Times
    <3> DEFINE w == (k - 1) * C
    <3>2. u <= w /\ w < b - x /\ w \in Int
      BY <1>5, <3>1
    <3> HIDE DEF u, w
    <3>3. QED
      BY <1>2, <2>2, <3>2
  <2>4. x + end = stop /\ end \in Nat /\ u <= end /\ x + end <= b
    <3>1. CASE b = N
      <4>1. x + v \in Nat /\ x + (b - x) = N /\ (v < b - x <=> x + v < N)
        BY <1>2, <2>2, <3>1
      <4>2. j * C = x + v
        BY <2>2
      <4> HIDE DEF j, u, v
      <4>3. QED
        BY <1>2, <2>2, <2>3, <3>1, <4>1, <4>2 DEF Least
    <3>2. ASSUME NEW e \in Nat, b = e * C
          PROVE  x + v <= b
      <4>1. e \in Int /\ j - 1 \in Int
        BY <2>1
      <4>2. (j - 1) * C < e * C
        <5>1. (j - 1) * C = x + u
          BY <2>2
        <5> HIDE DEF j, u
        <5>2. QED
          BY <1>2, <2>2, <2>3, <3>2, <5>1
      <4>3. j - 1 < e
        BY <1>1, <4>1, <4>2, Times
      <4>4. j <= e /\ j \in Int
        BY <2>1, <4>3
      <4>5. j * C <= e * C
        BY <1>1, <4>1, <4>4, Times
      <4>6. QED
        BY <2>2, <3>2, <4>5
    <3>3. CASE x + v <= b
      <4>1. j * C = x + v
        BY <2>2
      <4> HIDE DEF j, u, v
      <4>2. (v < b - x \/ v = b - x) /\ (x + v < N \/ x + v = N)
        BY <1>2, <2>2, <3>3
      <4>3. end = v /\ stop = x + v
        BY <1>2, <2>2, <4>1, <4>2 DEF Least
      <4>4. QED
        BY <1>2, <2>2, <3>3, <4>3
    <3>4. QED
      BY <1>e, <3>1, <3>2, <3>3
  <2>5. some[i] = HashChunk(SubSeq(part, u + 1, end), FALSE)
    BY <1>5
  <2>6. all[j] = HashChunk(SubSeq(data, (x + u) + 1, x + end), FALSE)
    <3>1. all[j] = HashChunk(SubSeq(data, (j - 1) * C + 1, stop), FALSE)
      BY <1>4, <2>1
    <3> HIDE DEF end, stop, u, j
    <3>2. QED
      BY <2>2, <2>4, <3>1
  <2>7. SubSeq(part, u + 1, end) = SubSeq(data, (x + u) + 1, x + end)
    <3> HIDE DEF end, stop, u, j
    <3> QED
      BY <1>2, <2>2, <2>4, PartOfPart DEF part, N
  <2>8. QED
    BY <2>5, <2>6, <2>7
<1>9. Slice(some, all, a)
  BY <1>4, <1>5, <1>6, <1>8 DEF Slice, n, k
<1>10. QED
  BY <1>7, <1>9 DEF C, x, part, all, some, N, n, k


\* Two slices that together are the list make it up.
LEMMA SlicesConcat ==
  ASSUME NEW A, NEW B, NEW D, NEW a \in Nat, Slice(B, A, 0), Slice(D, A, a),
         Len(B) = a, a + Len(D) = Len(A)
  PROVE  A = B \o D
<1>1. IsList(A) /\ IsList(B) /\ IsList(D) /\ Len(A) \in Nat /\ Len(B) \in Nat /\ Len(D) \in Nat
  BY ListFacts DEF Slice
<1>2. /\ IsList(B \o D) /\ Len(B \o D) = Len(A)
      /\ \A i \in 1..Len(B) : (B \o D)[i] = B[i]
      /\ \A i \in 1..Len(D) : (B \o D)[a + i] = D[i]
  BY <1>1, ListConcat
<1>3. ASSUME NEW i \in 1..Len(A)
      PROVE  A[i] = (B \o D)[i]
  <2>1. CASE i <= a
    <3>1. i \in 1..Len(B) /\ 0 + i = i
      BY <1>1, <2>1
    <3>2. B[i] = A[0 + i]
      BY <3>1 DEF Slice
    <3>3. QED
      BY <1>2, <3>1, <3>2
  <2>2. CASE i > a
    <3>1. i - a \in 1..Len(D) /\ a + (i - a) = i
      BY <1>1, <2>2
    <3>2. D[i - a] = A[a + (i - a)]
      BY <3>1 DEF Slice
    <3>3. QED
      BY <1>2, <3>1, <3>2
  <2>3. QED
    BY <1>1, <2>1, <2>2
<1>4. QED
  BY <1>1, <1>2, <1>3, ListEqual

\* The number of leaves of whole chunks.
LEMMA WholeLeaves ==
  ASSUME NEW bytes, IsList(bytes), NEW a \in Nat, Len(bytes) = a * CHUNK_SIZE
  PROVE  Len(Leaves(bytes)) = a
<1> DEFINE C == CHUNK_SIZE
           n == Len(Leaves(bytes))
<1>1. C \in Nat \ {0}
  BY TreeAssumption
<1>2. n \in Nat /\ a * C <= n * C /\ (n > 0 => (n - 1) * C < a * C)
  BY LeavesFacts
<1> HIDE DEF C, n
<1>3. a <= n
  BY <1>1, <1>2, Times
<1>4. CASE n > 0
  <2>1. n - 1 \in Int /\ (n - 1) * C < a * C
    BY <1>2, <1>4
  <2>2. n - 1 < a
    BY <1>1, <2>1, Times
  <2>3. QED
    BY <1>2, <1>3, <2>2 DEF n
<1>5. CASE n = 0
  BY <1>2, <1>3, <1>5 DEF n
<1>6. QED
  BY <1>2, <1>4, <1>5

\* Leaves are made of the whole chunks and of what follows them.
LEMMA LeavesConcat ==
  ASSUME NEW data, IsList(data), NEW a \in Nat, a * CHUNK_SIZE <= Len(data)
  PROVE  Leaves(data) = Leaves(SubSeq(data, 1, a * CHUNK_SIZE))
                          \o Leaves(SubSeq(data, a * CHUNK_SIZE + 1, Len(data)))
<1> DEFINE C == CHUNK_SIZE
           x == a * C
           first == SubSeq(data, 1, x)
           rest == SubSeq(data, x + 1, Len(data))
<1>1. C \in Nat \ {0}
  BY TreeAssumption
<1>2. x \in Nat /\ Len(data) \in Nat /\ x <= Len(data) /\ 0 * C = 0
  BY <1>1, Times, ListFacts
<1>3. /\ Slice(Leaves(rest), Leaves(data), a)
      /\ a + Len(Leaves(rest)) = Len(Leaves(data))
  BY <1>2, LeavesOfPart
<1>4. Slice(Leaves(first), Leaves(data), 0)
  <2>1. 0 \in Nat /\ 0 * CHUNK_SIZE <= x /\ (\E e \in Nat : x = e * CHUNK_SIZE)
    BY <1>2
  <2> HIDE DEF x
  <2>2. Slice(Leaves(SubSeq(data, 0 * CHUNK_SIZE + 1, x)), Leaves(data), 0)
    BY <1>2, <2>1, LeavesOfPart
  <2>3. 0 * CHUNK_SIZE + 1 = 1
    BY <1>2
  <2>4. QED
    BY <2>2, <2>3
<1>5. Len(Leaves(first)) = a
  <2>1. IsList(SubSeq(data, 0 + 1, x)) /\ Len(SubSeq(data, 0 + 1, x)) = x - 0
    <3> HIDE DEF x
    <3> QED
      BY <1>2, PartFacts
  <2>2. 0 + 1 = 1 /\ x - 0 = x
    BY <1>2
  <2>3. IsList(first) /\ Len(first) = x
    BY <2>1, <2>2
  <2> HIDE DEF first
  <2>4. QED
    BY <2>3, WholeLeaves
<1>6. QED
  <2> HIDE DEF first, rest
  <2>1. Leaves(data) = Leaves(first) \o Leaves(rest)
    BY <1>3, <1>4, <1>5, SlicesConcat
  <2>2. QED
    BY <2>1 DEF first, rest


------------------------------------------------------------------------------
(* Subtrees of a slice                                                       *)

\* The tree over all the leaves at once; some data no longer than a chunk is
\* the root itself.
Tree(data) ==
  IF Len(data) <= CHUNK_SIZE THEN HashChunk(data, TRUE) ELSE ReduceNodes(Leaves(data), TRUE)

\* Which bytes subtree q is made of.
LEMMA SubtreeBounds ==
  ASSUME NEW n \in Nat, NEW m \in Nat, NEW p \in Nat \ {0}, NEW q \in 1..m,
         n <= m * (CHUNK_SIZE * p), (m - 1) * (CHUNK_SIZE * p) < n
  PROVE  LET x == ((q - 1) * p) * CHUNK_SIZE
             y == (q * p) * CHUNK_SIZE
         IN  /\ x \in Nat /\ y \in Nat /\ x < n /\ y = x + p * CHUNK_SIZE
             /\ x = (q - 1) * (CHUNK_SIZE * p) /\ y = q * (CHUNK_SIZE * p)
             /\ q # m => y < n
             /\ q = m => n <= y
<1> DEFINE s == CHUNK_SIZE * p
           x == ((q - 1) * p) * CHUNK_SIZE
           y == (q * p) * CHUNK_SIZE
<1>1. CHUNK_SIZE \in Nat \ {0}
  BY TreeAssumption
<1>2. /\ s \in Nat \ {0} /\ q \in Nat /\ q - 1 \in Nat /\ m - 1 \in Int
      /\ q - 1 <= m - 1 /\ (q # m => q <= m - 1)
  <2>1. s \in Nat \ {0}
    BY <1>1
  <2>2. q \in Nat /\ q - 1 \in Nat /\ m - 1 \in Int /\ q - 1 <= m - 1 /\ (q # m => q <= m - 1)
    OBVIOUS
  <2>3. QED
    BY <2>1, <2>2
<1>3. x = (q - 1) * s /\ y = q * s
  <2>1. \A i \in Nat : (i * p) * CHUNK_SIZE = i * (CHUNK_SIZE * p)
    BY <1>1
  <2>2. QED
    BY <1>2, <2>1
<1>4. x \in Nat /\ y \in Nat
  <2> HIDE DEF s, x, y
  <2>1. (q - 1) * s \in Int /\ (q - 1) * s >= 0 /\ q * s \in Int /\ q * s >= 0
    <3>1. q - 1 \in Int /\ q \in Int /\ q - 1 >= 0 /\ q >= 0
      BY <1>2
    <3>2. QED
      BY <1>2, <3>1, Times
  <2>2. QED
    BY <1>3, <2>1
<1>5. y = x + p * CHUNK_SIZE
  <2>1. (q * p) * CHUNK_SIZE = ((q - 1) * p) * CHUNK_SIZE + p * CHUNK_SIZE
    <3>1. q * p = (q - 1) * p + p /\ (q - 1) * p \in Int /\ p \in Int
      BY <1>2
    <3>2. QED
      BY <1>1, <3>1, Times
  <2>2. QED
    BY <2>1
<1> HIDE DEF s, x, y
<1>6. x < n
  <2>1. (q - 1) * s <= (m - 1) * s /\ (m - 1) * s \in Int
    <3>1. q - 1 \in Int
      BY <1>2
    <3>2. QED
      BY <1>2, <3>1, Times
  <2> DEFINE u == (m - 1) * s
  <2>2. x <= u /\ u < n /\ u \in Int
    BY <1>3, <2>1 DEF s
  <2> HIDE DEF u
  <2>3. QED
    BY <1>4, <2>2
<1>7. q # m => y < n
  <2>1. SUFFICES ASSUME q # m PROVE y < n
    OBVIOUS
  <2>2. q * s <= (m - 1) * s /\ (m - 1) * s \in Int
    <3>1. q \in Int
      BY <1>2
    <3>2. QED
      BY <1>2, <2>1, <3>1, Times
  <2> DEFINE u == (m - 1) * s
  <2>3. y <= u /\ u < n /\ u \in Int
    BY <1>3, <2>2 DEF s
  <2> HIDE DEF u
  <2>4. QED
    BY <1>4, <2>3
<1>8. q = m => n <= y
  BY <1>3 DEF s
<1>9. QED
  BY <1>3, <1>4, <1>5, <1>6, <1>7, <1>8 DEF x, y, s

LEMMA SubtreesOfSlice ==
  ASSUME NEW data, IsList(data), Len(data) >= 2 * CHUNK_SIZE * SUBTREE_CHUNKS
  PROVE  HashSlice(data) = ReduceNodes(Leaves(data), TRUE) /\ Len(data) > CHUNK_SIZE
<1> DEFINE C == CHUNK_SIZE
           p == SUBTREE_CHUNKS
           N == Len(data)
           slices == Chunks(data, C * p)
           m == Len(slices)
           A == Leaves(data)
           B == [q \in 1..m |-> Leaves(slices[q])]
           G == [q \in 1..m |-> ReduceNodes(Leaves(slices[q]), FALSE)]
<1>1. PICK k \in Nat : p = PowerOfTwo[k]
  BY TreeAssumption
<1>2. C \in Nat \ {0} /\ p \in Nat \ {0} /\ C * p \in Nat \ {0} /\ N \in Nat
  <2>1. C \in Nat \ {0}
    BY TreeAssumption
  <2>2. p \in Nat \ {0}
    BY <1>1, PowerDef
  <2>3. QED
    BY <2>1, <2>2, ListFacts
<1>3. /\ IsList(slices) /\ m \in Nat /\ N <= m * (C * p) /\ (m > 0 => (m - 1) * (C * p) < N)
      /\ \A q \in 1..m : slices[q] = SubSeq(data, (q - 1) * (C * p) + 1, Least(q * (C * p), N))
  <2> HIDE DEF C, p
  <2> QED
    BY <1>2, ChunksFacts
<1>4. C * p >= C /\ 2 * C * p = 2 * (C * p)
  <2>1. \A x \in Nat : x >= 1 => C * x >= C
    BY <1>2
  <2>2. QED
    BY <1>2, <2>1
<1>5. N > C /\ m >= 2 /\ N >= 2 * C * p
  <2> DEFINE s == C * p
  <2>0. N >= 2 * C * p
    OBVIOUS
  <2>1. s \in Nat \ {0} /\ N >= 2 * s /\ s >= C
    BY <1>2, <1>4
  <2>2. m < 2 => m * s <= s
    <3> HIDE DEF s, m
    <3>1. m < 2 => m = 0 \/ m = 1
      BY <1>3
    <3>2. 0 * s = 0 /\ 1 * s = s
      BY <2>1
    <3>3. QED
      BY <2>1, <3>1, <3>2
  <2> DEFINE t == m * s
  <2>3. N <= t /\ (m < 2 => t <= s) /\ t \in Int
    BY <1>2, <1>3, <2>2
  <2> HIDE DEF s, t, m, C, N
  <2>4. N > C /\ m >= 2
    BY <1>2, <1>3, <2>1, <2>3
  <2>5. QED
    BY <2>0, <2>4
<1>6. ASSUME NEW q \in 1..m
      PROVE  /\ G[q] = ReduceNodes(B[q], FALSE) /\ Slice(B[q], A, (q - 1) * p)
             /\ Len(B[q]) \in 1..p
             /\ q # m => Len(B[q]) = p
             /\ q = m => (q - 1) * p + Len(B[q]) = Len(A)
  <2> DEFINE o == (q - 1) * p
             x == o * C
             y == (q * p) * C
             b == Least(y, N)
             part == SubSeq(data, o * C + 1, b)
  <2>1. /\ x \in Nat /\ y \in Nat /\ x < N /\ y = x + p * C
        /\ x = (q - 1) * (C * p) /\ y = q * (C * p)
        /\ q # m => y < N
        /\ q = m => N <= y
    <3>2. N \in Nat /\ m \in Nat /\ N <= m * (CHUNK_SIZE * p) /\ (m - 1) * (CHUNK_SIZE * p) < N
      BY <1>2, <1>3, <1>5
    <3> HIDE DEF N, m, p
    <3>3. QED
      BY <1>2, <3>2, SubtreeBounds
  <2>2. slices[q] = part
    BY <1>3, <2>1
  <2>3. B[q] = Leaves(part) /\ G[q] = ReduceNodes(B[q], FALSE)
    BY <2>2, Zenon
  <2>4. o \in Nat
    <3>1. q - 1 \in Nat
      BY <1>3
    <3>2. QED
      BY <1>2, <3>1
  <2>5. /\ b \in Nat /\ x <= b /\ b <= N /\ x < b
        /\ (q # m => b = x + p * C) /\ (q = m => b = N) /\ b - x <= p * C
        /\ b = N \/ b = y
    <3>1. p * C \in Nat /\ p * C > 0
      BY <1>2
    <3> DEFINE z == p * C
    <3>2. z \in Nat /\ z > 0 /\ y = x + z
      BY <2>1, <3>1
    <3> HIDE DEF x, y, z, N, m
    <3>3. QED
      BY <1>2, <2>1, <3>2 DEF Least, z
  <2>6. /\ Slice(B[q], A, o)
        /\ b = N => o + Len(B[q]) = Len(A)
    <3>1. b = Len(data) \/ \E e \in Nat : b = e * CHUNK_SIZE
      <4>1. q * p \in Nat
        BY <1>2, <1>3
      <4>2. QED
        BY <2>5, <4>1
    <3>2. /\ o * CHUNK_SIZE <= b /\ b <= Len(data) /\ b \in Nat
      BY <2>5
    <3> HIDE DEF o, b
    <3>3. /\ Slice(Leaves(SubSeq(data, o * CHUNK_SIZE + 1, b)), Leaves(data), o)
          /\ b = Len(data) =>
               o + Len(Leaves(SubSeq(data, o * CHUNK_SIZE + 1, b))) = Len(Leaves(data))
      BY <2>4, <3>1, <3>2, LeavesOfPart
    <3>4. QED
      BY <2>3, <3>3
  <2>7. Len(B[q]) \in 1..p /\ (b - x = p * C => Len(B[q]) = p)
    <3>1. IsList(part) /\ Len(part) = b - x
      <4>1. x \in Nat /\ b \in Nat /\ x <= b /\ b <= N
        BY <2>1, <2>5
      <4> HIDE DEF x, b
      <4>2. IsList(SubSeq(data, x + 1, b)) /\ Len(SubSeq(data, x + 1, b)) = b - x
        BY <4>1, PartFacts
      <4>3. QED
        BY <4>2 DEF x
    <3> DEFINE l == Len(Leaves(part))
    <3>2. l \in Nat /\ b - x <= l * C /\ (l > 0 => (l - 1) * C < b - x)
      <4> HIDE DEF part
      <4> QED
        BY <3>1, LeavesFacts
    <3>3. b - x > 0 /\ b - x <= p * C /\ b - x \in Int
      <4>1. x \in Nat /\ b \in Nat
        BY <2>1, <2>5
      <4> HIDE DEF x, b
      <4>2. QED
        BY <2>5, <4>1
    <3> DEFINE d == b - x
    <3> HIDE DEF l, d, C, p
    <3>4. d \in Int /\ d > 0 /\ d <= p * C /\ d <= l * C /\ (l > 0 => (l - 1) * C < d)
      BY <3>2, <3>3 DEF d
    <3>5. l * C \in Int /\ p * C \in Int /\ (l - 1) * C \in Int
      BY <1>2, <3>2
    <3>6. l # 0
      <4>1. 0 * C = 0
        BY <1>2
      <4>2. QED
        BY <3>4, <4>1
    <3>7. l <= p
      <4>1. (l - 1) * C < p * C
        <5> DEFINE u == (l - 1) * C
                   v == p * C
        <5>1. u \in Int /\ v \in Int /\ u < d /\ d <= v
          BY <3>2, <3>4, <3>5, <3>6
        <5> HIDE DEF u, v
        <5>2. u < v
          BY <3>4, <5>1
        <5>3. QED
          BY <5>2 DEF u, v
      <4>2. l - 1 \in Int /\ p \in Int
        BY <1>2, <3>2
      <4>3. l - 1 < p
        BY <1>2, <4>1, <4>2, Times
      <4>4. QED
        BY <1>2, <3>2, <4>3
    <3>8. d = p * C => p <= l
      <4>1. l \in Int /\ p \in Int
        BY <1>2, <3>2
      <4>2. QED
        BY <1>2, <3>4, <4>1, Times
    <3>9. l \in 1..p /\ (d = p * C => l = p)
      BY <1>2, <3>2, <3>6, <3>7, <3>8
    <3>10. QED
      BY <2>3, <3>9 DEF l, d
  <2>8. q # m => b - x = p * C
    <3>1. x \in Nat /\ p * C \in Int
      BY <1>2, <2>1
    <3> DEFINE z == p * C
    <3>2. z \in Int /\ (q # m => b = x + z)
      BY <2>5, <3>1
    <3> HIDE DEF x, b, z
    <3>3. q # m => b - x = z
      BY <3>1, <3>2
    <3>4. QED
      BY <3>3 DEF z
  <2> HIDE DEF x, b, N, m, A, B, G, o, y
  <2>9. QED
    BY <2>3, <2>5, <2>6, <2>7, <2>8 DEF o
<1>7. IsList(A) /\ IsList(G) /\ Len(G) = m
  <2>1. IsList(A)
    BY LeavesFacts
  <2>2. G = [q \in 1..m |-> G[q]]
    OBVIOUS
  <2> HIDE DEF G, A, m
  <2>3. QED
    BY <1>3, <2>1, <2>2, MakesList
<1>8. ReduceNodes(G, TRUE) = ReduceNodes(A, TRUE)
  <2>1. Len(G) >= 2
    BY <1>5, <1>7
  <2>2. Grouped(G, B, A, PowerOfTwo[k])
    <3> HIDE DEF A, B, G, m
    <3>1. \A q \in 1..m : q < m <=> q # m
      BY <1>3
    <3>2. QED
      BY <1>1, <1>6, <1>7, <3>1 DEF Grouped
  <2> HIDE DEF A, B, G
  <2>3. QED
    BY <1>7, <2>1, <2>2, Grouping
<1>9. HashSlice(data) = ReduceNodes(G, TRUE)
  <2>1. ~(Len(data) <= CHUNK_SIZE)
    BY <1>2, <1>5
  <2>2. QED
    BY <2>1, Zenon DEF HashSlice
<1>10. QED
  BY <1>5, <1>8, <1>9

(***************************************************************************)
(* "each thread ... reduces its own subtree" (tree.rs:158): the digest of  *)
(* a slice does not depend on its being cut into subtrees, for any data.   *)
(***************************************************************************)
THEOREM SubtreesChangeNothing ==
  ASSUME NEW S, NEW data \in Seq(S)
  PROVE  HashSlice(data) = Tree(data)
<1>1. IsList(data)
  BY SeqIsList
<1>2. CASE Len(data) >= 2 * CHUNK_SIZE * SUBTREE_CHUNKS
  <2>1. HashSlice(data) = ReduceNodes(Leaves(data), TRUE) /\ Len(data) > CHUNK_SIZE
    BY <1>1, <1>2, SubtreesOfSlice
  <2>2. ~(Len(data) <= CHUNK_SIZE)
    BY <1>1, <2>1, ListFacts, TreeAssumption
  <2>3. QED
    BY <2>1, <2>2 DEF Tree
<1>3. CASE ~(Len(data) >= 2 * CHUNK_SIZE * SUBTREE_CHUNKS)
  BY <1>3, Zenon DEF HashSlice, Tree
<1>4. QED
  BY <1>2, <1>3


------------------------------------------------------------------------------
(* The incremental hasher                                                    *)

LEMMA EmptyList ==
  ASSUME NEW s, IsList(s)
  PROVE  /\ IsList(<< >>) /\ Len(<< >>) = 0
         /\ s = << >> <=> Len(s) = 0
         /\ s \o << >> = s /\ << >> \o s = s
<1>1. IsList(<< >>) /\ Len(<< >>) = 0
  <2>1. << >> \in Seq({}) /\ Len(<< >>) = 0
    BY EmptySeq
  <2>2. QED
    BY <2>1, SeqIsList
<1>2. s = << >> <=> Len(s) = 0
  <2>1. ASSUME Len(s) = 0 PROVE s = << >>
    <3>1. \A i \in 1..Len(s) : s[i] = << >>[i]
      BY <2>1
    <3>2. QED
      BY <1>1, <2>1, <3>1, ListEqual
  <2>2. QED
    BY <1>1, <2>1
<1>3. s \o << >> = s /\ << >> \o s = s
  BY ConcatEmptySeq DEF IsList
<1>4. QED
  BY <1>1, <1>2, <1>3

\* A hasher that has been given the first e bytes of some data: the leaves of
\* m chunks, and what follows them in the buffer.
IsHasher(h) == h = [buffer |-> h.buffer, leaf_hashes |-> h.leaf_hashes]

Consumed(h, data, m, e) ==
  /\ IsHasher(h) /\ m \in Nat /\ e \in Nat
  /\ m * CHUNK_SIZE <= e /\ e <= m * CHUNK_SIZE + CHUNK_SIZE /\ e <= Len(data)
  /\ h.leaf_hashes = Leaves(SubSeq(data, 1, m * CHUNK_SIZE))
  /\ h.buffer = SubSeq(data, m * CHUNK_SIZE + 1, e)

\* The first x bytes.
LEMMA PrefixFacts ==
  ASSUME NEW s, IsList(s), NEW x \in Nat, x <= Len(s)
  PROVE  /\ IsList(SubSeq(s, 1, x)) /\ Len(SubSeq(s, 1, x)) = x
         /\ \A i \in 1..x : SubSeq(s, 1, x)[i] = s[i]
<1> DEFINE z == 0
<1>1. z \in Nat /\ z <= x /\ z + 1 = 1 /\ x - z = x /\ \A i \in Nat : z + i = i
  OBVIOUS
<1> HIDE DEF z
<1>2. /\ IsList(SubSeq(s, z + 1, x)) /\ Len(SubSeq(s, z + 1, x)) = x - z
      /\ \A i \in 1..(x - z) : SubSeq(s, z + 1, x)[i] = s[z + i]
  BY <1>1, PartFacts
<1>3. QED
  BY <1>1, <1>2

\* A part of the first bytes, and the first bytes of a part.
LEMMA PartOfPrefix ==
  ASSUME NEW s, IsList(s), NEW b \in Nat, b <= Len(s),
         NEW u \in Nat, NEW v \in Nat, u <= v, v <= b
  PROVE  SubSeq(SubSeq(s, 1, b), u + 1, v) = SubSeq(s, u + 1, v)
<1> DEFINE z == 0
<1>1. z \in Nat /\ z <= b /\ z + 1 = 1 /\ z + u = u /\ z + v = v
  OBVIOUS
<1> HIDE DEF z
<1>2. SubSeq(SubSeq(s, z + 1, b), u + 1, v) = SubSeq(s, (z + u) + 1, z + v)
  BY <1>1, PartOfPart
<1>3. QED
  BY <1>1, <1>2

LEMMA PrefixOfPart ==
  ASSUME NEW s, IsList(s), NEW x \in Nat, NEW b \in Nat, x <= b, b <= Len(s),
         NEW v \in Nat, x + v <= b
  PROVE  SubSeq(SubSeq(s, x + 1, b), 1, v) = SubSeq(s, x + 1, x + v)
<1> DEFINE z == 0
<1>1. z \in Nat /\ z <= v /\ z + 1 = 1 /\ x + z = x
  OBVIOUS
<1> HIDE DEF z
<1>2. SubSeq(SubSeq(s, x + 1, b), z + 1, v) = SubSeq(s, (x + z) + 1, x + v)
  BY <1>1, PartOfPart
<1>3. QED
  BY <1>1, <1>2

LEMMA PrefixOfPrefix ==
  ASSUME NEW s, IsList(s), NEW b \in Nat, b <= Len(s), NEW v \in Nat, v <= b
  PROVE  SubSeq(SubSeq(s, 1, b), 1, v) = SubSeq(s, 1, v)
<1> DEFINE z == 0
<1>1. z \in Nat /\ z <= v /\ z + 1 = 1
  OBVIOUS
<1> HIDE DEF z
<1>2. SubSeq(SubSeq(s, 1, b), z + 1, v) = SubSeq(s, z + 1, v)
  BY <1>1, PartOfPrefix
<1>3. QED
  BY <1>1, <1>2

\* Two neighbouring parts.
LEMMA PartsConcat ==
  ASSUME NEW s, IsList(s), NEW x \in Nat, NEW b \in Nat, NEW e \in Nat,
         x <= b, b <= e, e <= Len(s)
  PROVE  SubSeq(s, x + 1, b) \o SubSeq(s, b + 1, e) = SubSeq(s, x + 1, e)
<1> DEFINE A == SubSeq(s, x + 1, e)
           B == SubSeq(s, x + 1, b)
           D == SubSeq(s, b + 1, e)
<1>1. Len(s) \in Nat /\ x <= e /\ b <= Len(s)
  BY ListFacts
<1>2. IsList(A) /\ Len(A) = e - x /\ \A i \in 1..(e - x) : A[i] = s[x + i]
  BY <1>1, PartFacts
<1>3. IsList(B) /\ Len(B) = b - x /\ \A i \in 1..(b - x) : B[i] = s[x + i]
  BY <1>1, PartFacts
<1>4. IsList(D) /\ Len(D) = e - b /\ \A i \in 1..(e - b) : D[i] = s[b + i]
  BY <1>1, PartFacts
<1> HIDE DEF A, B, D
<1>5. Slice(B, A, 0)
  <2>1. \A i \in 1..(b - x) : i \in 1..(e - x) /\ 0 + i = i
    OBVIOUS
  <2>2. QED
    BY <1>2, <1>3, <2>1 DEF Slice
<1>6. Slice(D, A, b - x)
  <2>1. \A i \in 1..(e - b) : (b - x) + i \in 1..(e - x) /\ x + ((b - x) + i) = b + i
    BY <1>1
  <2>2. QED
    BY <1>2, <1>4, <2>1 DEF Slice
<1>7. A = B \o D
  <2>1. b - x \in Nat /\ (b - x) + Len(D) = Len(A)
    BY <1>2, <1>4
  <2>2. QED
    BY <1>3, <1>5, <1>6, <2>1, SlicesConcat
<1>8. QED
  BY <1>7 DEF A, B, D

\* The leaves of the first chunks and of what follows them.
LEMMA LeavesOfPrefix ==
  ASSUME NEW data, IsList(data), NEW a \in Nat, NEW b \in Nat,
         a * CHUNK_SIZE <= b, b <= Len(data)
  PROVE  Leaves(SubSeq(data, 1, b)) = Leaves(SubSeq(data, 1, a * CHUNK_SIZE))
                                        \o Leaves(SubSeq(data, a * CHUNK_SIZE + 1, b))
<1> DEFINE x == a * CHUNK_SIZE
           all == SubSeq(data, 1, b)
<1>1. x \in Nat /\ Len(data) \in Nat /\ x <= b
  BY TreeAssumption, Times, ListFacts
<1> HIDE DEF x
<1>2. IsList(all) /\ Len(all) = b
  BY PrefixFacts
<1>3. SubSeq(all, 1, x) = SubSeq(data, 1, x)
  BY <1>1, PrefixOfPrefix
<1>4. SubSeq(all, x + 1, b) = SubSeq(data, x + 1, b)
  BY <1>1, PartOfPrefix
<1> HIDE DEF all
<1>5. Leaves(all) = Leaves(SubSeq(all, 1, x)) \o Leaves(SubSeq(all, x + 1, Len(all)))
  BY <1>1, <1>2, LeavesConcat DEF x
<1>6. QED
  BY <1>2, <1>3, <1>4, <1>5 DEF all, x

\* A chunk, or less, has a single leaf.
LEMMA SingleLeaf ==
  ASSUME NEW bytes, IsList(bytes), Len(bytes) > 0, Len(bytes) <= CHUNK_SIZE
  PROVE  Leaves(bytes) = <<HashChunk(bytes, FALSE)>>
<1> DEFINE C == CHUNK_SIZE
           n == Len(Leaves(bytes))
           l == Len(bytes)
           leaf == <<HashChunk(bytes, FALSE)>>
<1>1. C \in Nat \ {0} /\ l \in Nat /\ l > 0 /\ l <= C
  BY TreeAssumption, ListFacts
<1>2. /\ IsList(Leaves(bytes)) /\ n \in Nat /\ l <= n * C /\ (n > 0 => (n - 1) * C < l)
      /\ \A i \in 1..n : Leaves(bytes)[i]
           = HashChunk(SubSeq(bytes, (i - 1) * C + 1, Least(i * C, l)), FALSE)
  BY LeavesFacts
<1> HIDE DEF C, n, l
<1>3. n # 0
  <2>1. 0 * C = 0
    BY <1>1
  <2>2. QED
    BY <1>1, <1>2, <2>1
<1>4. n = 1
  <2>1. n - 1 < 1
    <3>1. (n - 1) * C \in Int /\ 1 * C = C
      BY <1>1, <1>2
    <3> DEFINE u == (n - 1) * C
    <3>2. u \in Int /\ u < l
      BY <1>2, <1>3, <3>1
    <3> HIDE DEF u
    <3>3. u < C
      BY <1>1, <3>2
    <3>4. (n - 1) * C < 1 * C /\ n - 1 \in Int /\ 1 \in Int
      BY <1>2, <3>1, <3>3 DEF u
    <3>5. QED
      BY <1>1, <3>4, Times
  <2>2. QED
    BY <1>2, <1>3, <2>1
<1>5. Leaves(bytes)[1] = HashChunk(bytes, FALSE)
  <2>1. (1 - 1) * C + 1 = 1 /\ 1 * C = C /\ 1 \in 1..n
    BY <1>1, <1>4
  <2>2. Least(C, l) = l
    BY <1>1 DEF Least
  <2>3. Leaves(bytes)[1] = HashChunk(SubSeq(bytes, 1, l), FALSE)
    BY <1>2, <2>1, <2>2
  <2>4. SubSeq(bytes, 1, l) = bytes
    <3>1. /\ IsList(SubSeq(bytes, 1, l)) /\ Len(SubSeq(bytes, 1, l)) = l
          /\ \A i \in 1..l : SubSeq(bytes, 1, l)[i] = bytes[i]
      BY <1>1, PrefixFacts DEF l
    <3>2. QED
      BY <3>1, ListEqual DEF l
  <2>5. QED
    BY <2>3, <2>4
<1>6. IsList(leaf) /\ Len(leaf) = 1 /\ leaf[1] = HashChunk(bytes, FALSE)
  <2>1. leaf \in Seq({HashChunk(bytes, FALSE)})
    OBVIOUS
  <2>2. QED
    BY <2>1, SeqIsList
<1> HIDE DEF leaf
<1>7. \A i \in 1..n : Leaves(bytes)[i] = leaf[i]
  <2>1. \A i \in 1..n : i = 1
    BY <1>4
  <2>2. leaf[1] = Leaves(bytes)[1]
    BY <1>5, <1>6
  <2>3. QED
    BY <2>1, <2>2, Zenon
<1>8. Leaves(bytes) = leaf
  BY <1>2, <1>4, <1>6, <1>7, ListEqual DEF n
<1>9. QED
  BY <1>8 DEF leaf

LEMMA AppendOfConcat ==
  ASSUME NEW s, IsList(s), NEW e
  PROVE  Append(s, e) = s \o <<e>>
<1> DEFINE S == {s[i] : i \in DOMAIN s} \cup {e}
<1>1. s \in Seq(S)
  <2>1. s \in Seq({s[i] : i \in DOMAIN s}) /\ {s[i] : i \in DOMAIN s} \subseteq S
    BY DEF IsList
  <2> HIDE DEF S
  <2>2. QED
    BY <2>1, SeqMonotonic
<1>2. e \in S
  OBVIOUS
<1> HIDE DEF S
<1>3. QED
  BY <1>1, <1>2


\* What the buffer holds.
LEMMA BufferFacts ==
  ASSUME NEW data, IsList(data), NEW h, NEW m, NEW e, Consumed(h, data, m, e)
  PROVE  LET x == m * CHUNK_SIZE
         IN  /\ m \in Nat /\ e \in Nat /\ x \in Nat /\ x <= e /\ e <= Len(data)
             /\ e <= x + CHUNK_SIZE /\ Len(data) \in Nat
             /\ IsList(h.buffer) /\ Len(h.buffer) = e - x /\ (h.buffer = << >> <=> e = x)
             /\ IsList(h.leaf_hashes) /\ Len(h.leaf_hashes) = m
             /\ (h.leaf_hashes = << >> <=> m = 0)
<1> DEFINE x == m * CHUNK_SIZE
<1>1. /\ m \in Nat /\ e \in Nat /\ x <= e /\ e <= x + CHUNK_SIZE /\ e <= Len(data)
      /\ h.leaf_hashes = Leaves(SubSeq(data, 1, x)) /\ h.buffer = SubSeq(data, x + 1, e)
  BY DEF Consumed
<1>2. x \in Nat /\ Len(data) \in Nat
  BY <1>1, TreeAssumption, Times, ListFacts
<1>x. m * CHUNK_SIZE = x
  OBVIOUS
<1> HIDE DEF x
<1>3. IsList(h.buffer) /\ Len(h.buffer) = e - x
  BY <1>1, <1>2, PartFacts
<1>4. h.buffer = << >> <=> e = x
  <2>1. e - x = 0 <=> e = x
    BY <1>1, <1>2
  <2>2. h.buffer = << >> <=> Len(h.buffer) = 0
    BY <1>3, EmptyList
  <2>3. QED
    BY <1>3, <2>1, <2>2
<1>5. IsList(SubSeq(data, 1, x)) /\ Len(SubSeq(data, 1, x)) = x
  <2>1. x <= Len(data)
    BY <1>1, <1>2
  <2>2. QED
    BY <1>2, <2>1, PrefixFacts
<1>6. IsList(h.leaf_hashes) /\ Len(h.leaf_hashes) = m
  <2>1. IsList(Leaves(SubSeq(data, 1, x)))
    BY <1>5, LeavesFacts
  <2>2. Len(Leaves(SubSeq(data, 1, x))) = m
    BY <1>1, <1>5, <1>x, WholeLeaves
  <2>3. QED
    BY <1>1, <2>1, <2>2
<1>7. h.leaf_hashes = << >> <=> m = 0
  BY <1>6, EmptyList
<1>8. QED
  BY <1>1, <1>2, <1>3, <1>4, <1>6, <1>7 DEF x

\* A buffer that is not empty becomes a leaf.
LEMMA PushFacts ==
  ASSUME NEW data, IsList(data), NEW h, NEW m, NEW e, Consumed(h, data, m, e),
         h.buffer # << >>
  PROVE  Push(h).leaf_hashes = Leaves(SubSeq(data, 1, e))
<1> DEFINE x == m * CHUNK_SIZE
<1>1. /\ m \in Nat /\ e \in Nat /\ x \in Nat /\ x <= e /\ e <= Len(data) /\ e <= x + CHUNK_SIZE
      /\ IsList(h.buffer) /\ Len(h.buffer) = e - x /\ e # x
      /\ IsList(h.leaf_hashes)
  BY BufferFacts
<1>2. h.leaf_hashes = Leaves(SubSeq(data, 1, x)) /\ h.buffer = SubSeq(data, x + 1, e)
  BY DEF Consumed
<1>3. Leaves(SubSeq(data, 1, e)) = Leaves(SubSeq(data, 1, x)) \o Leaves(SubSeq(data, x + 1, e))
  BY <1>1, LeavesOfPrefix
<1>4. Len(h.buffer) > 0 /\ Len(h.buffer) <= CHUNK_SIZE
  <2>1. CHUNK_SIZE \in Nat
    BY TreeAssumption
  <2> HIDE DEF x
  <2>2. QED
    BY <1>1, <2>1
<1>5. Leaves(h.buffer) = <<HashChunk(h.buffer, FALSE)>>
  BY <1>1, <1>4, SingleLeaf
<1>6. Push(h).leaf_hashes = h.leaf_hashes \o <<HashChunk(h.buffer, FALSE)>>
  <2> DEFINE leaf == HashChunk(h.buffer, FALSE)
  <2>1. Push(h).leaf_hashes = Append(h.leaf_hashes, leaf)
    BY DEF Push
  <2> HIDE DEF leaf
  <2>2. Append(h.leaf_hashes, leaf) = h.leaf_hashes \o <<leaf>>
    BY <1>1, AppendOfConcat
  <2>3. QED
    BY <2>1, <2>2 DEF leaf
<1> HIDE DEF x
<1>7. QED
  BY <1>2, <1>3, <1>5, <1>6

\* A full one.
LEMMA PushStep ==
  ASSUME NEW data, IsList(data), NEW h, NEW m, NEW e, Consumed(h, data, m, e),
         e = m * CHUNK_SIZE + CHUNK_SIZE
  PROVE  Consumed(Push(h), data, m + 1, e)
<1>0. CHUNK_SIZE \in Nat \ {0}
  BY TreeAssumption
<1>1. /\ m \in Nat /\ e \in Nat /\ m * CHUNK_SIZE \in Nat /\ e <= Len(data)
      /\ Len(data) \in Nat /\ (h.buffer = << >> <=> e = m * CHUNK_SIZE)
  BY BufferFacts
<1> DEFINE y == (m + 1) * CHUNK_SIZE
<1>2. y = e /\ e # m * CHUNK_SIZE
  <2>1. y = m * CHUNK_SIZE + CHUNK_SIZE
    BY <1>0, <1>1, Times
  <2> DEFINE x == m * CHUNK_SIZE
  <2>2. x \in Nat /\ e = x + CHUNK_SIZE
    BY <1>1
  <2> HIDE DEF x, y
  <2>3. e # x
    BY <1>0, <2>2
  <2>4. QED
    BY <2>1, <2>3 DEF x
<1>3. Push(h).leaf_hashes = Leaves(SubSeq(data, 1, e))
  BY <1>1, <1>2, PushFacts
<1>4. Push(h).buffer = << >> /\ IsHasher(Push(h))
  BY DEF Push, IsHasher
<1>5. SubSeq(data, y + 1, e) = << >>
  <2>1. y \in Nat /\ y <= e
    BY <1>1, <1>2
  <2> HIDE DEF y
  <2>2. IsList(SubSeq(data, y + 1, e)) /\ Len(SubSeq(data, y + 1, e)) = e - y
    BY <1>1, <2>1, PartFacts
  <2>3. e - y = 0
    BY <1>1, <1>2
  <2>4. QED
    BY <2>2, <2>3, EmptyList
<1>6. m + 1 \in Nat /\ y <= e /\ e <= y + CHUNK_SIZE /\ e <= Len(data)
  <2>1. m + 1 \in Nat
    BY <1>1
  <2> HIDE DEF y
  <2>2. QED
    BY <1>0, <1>1, <1>2, <2>1
<1>7. QED
  <2>1. /\ Push(h).leaf_hashes = Leaves(SubSeq(data, 1, y))
        /\ Push(h).buffer = SubSeq(data, y + 1, e)
    BY <1>2, <1>3, <1>4, <1>5
  <2>2. QED
    BY <1>1, <1>4, <1>6, <2>1 DEF Consumed

\* More bytes for the buffer.
LEMMA FillStep ==
  ASSUME NEW data, IsList(data), NEW h, NEW m, NEW e, Consumed(h, data, m, e),
         NEW f \in Nat, e <= f, f <= Len(data), f <= m * CHUNK_SIZE + CHUNK_SIZE
  PROVE  Consumed([h EXCEPT !.buffer = @ \o SubSeq(data, e + 1, f)], data, m, f)
<1> DEFINE x == m * CHUNK_SIZE
           g == [h EXCEPT !.buffer = @ \o SubSeq(data, e + 1, f)]
<1>1. /\ m \in Nat /\ e \in Nat /\ x \in Nat /\ x <= e /\ Len(data) \in Nat
  BY BufferFacts
<1>2. /\ IsHasher(h) /\ h.leaf_hashes = Leaves(SubSeq(data, 1, x))
      /\ h.buffer = SubSeq(data, x + 1, e)
  BY DEF Consumed
<1>3. /\ g.buffer = h.buffer \o SubSeq(data, e + 1, f) /\ g.leaf_hashes = h.leaf_hashes
      /\ IsHasher(g)
  <2>1. h = [buffer |-> h.buffer, leaf_hashes |-> h.leaf_hashes]
    BY <1>2 DEF IsHasher
  <2> DEFINE new == h.buffer \o SubSeq(data, e + 1, f)
  <2>2. g = [h EXCEPT !.buffer = new]
    OBVIOUS
  <2> HIDE DEF g, new
  <2>3. g = [buffer |-> new, leaf_hashes |-> h.leaf_hashes]
    BY <2>1, <2>2
  <2>4. QED
    BY <2>3 DEF new, IsHasher
<1> HIDE DEF g
<1>4. g.buffer = SubSeq(data, x + 1, f)
  <2>x. x <= e /\ e <= f /\ f <= Len(data)
    BY <1>1
  <2> HIDE DEF x
  <2>1. SubSeq(data, x + 1, e) \o SubSeq(data, e + 1, f) = SubSeq(data, x + 1, f)
    BY <1>1, <2>x, PartsConcat
  <2>2. QED
    BY <1>2, <1>3, <2>1
<1>5. x <= f
  <2> HIDE DEF x
  <2> QED
    BY <1>1
<1>6. Consumed(g, data, m, f)
  BY <1>1, <1>2, <1>3, <1>4, <1>5 DEF Consumed
<1>7. QED
  BY <1>6 DEF g


(* The steps of update.                                                      *)

Opened(h, input) == IF Len(h.buffer) = CHUNK_SIZE /\ input # << >> THEN Push(h) ELSE h

Taken(opened, input) ==
  IF opened.buffer = << >> THEN 0 ELSE Least(CHUNK_SIZE - Len(opened.buffer), Len(input))

Filled(opened, input, t) == [opened EXCEPT !.buffer = @ \o SubSeq(input, 1, t)]

Ready(filled, rest) == IF filled.buffer # << >> /\ rest # << >> THEN Push(filled) ELSE filled

Bulked(ready, rest) ==
  LET bulk == Hashable(Len(rest))
  IN  [buffer |-> ready.buffer \o SubSeq(rest, bulk + 1, Len(rest)),
       leaf_hashes |-> ready.leaf_hashes \o Leaves(SubSeq(rest, 1, bulk))]

LEMMA UpdateInSteps ==
  ASSUME NEW h, NEW input
  PROVE  LET opened == Opened(h, input)
             t      == Taken(opened, input)
             rest   == SubSeq(input, t + 1, Len(input))
         IN  Update(h, input) = Bulked(Ready(Filled(opened, input, t), rest), rest)
BY Zenon DEF Update, Opened, Taken, Filled, Ready, Bulked

\* The bytes that are left, and there is a byte left to be buffered.
Left(data, input, e) == IsList(data) /\ e \in Nat /\ e <= Len(data)
                          /\ input = SubSeq(data, e + 1, Len(data))

LEMMA LeftFacts ==
  ASSUME NEW data, NEW input, NEW e, Left(data, input, e)
  PROVE  /\ IsList(input) /\ Len(data) \in Nat /\ e \in Nat /\ e <= Len(data)
         /\ Len(input) = Len(data) - e /\ (input = << >> <=> e = Len(data))
<1>1. /\ IsList(data) /\ e \in Nat /\ e <= Len(data) /\ Len(data) \in Nat
      /\ input = SubSeq(data, e + 1, Len(data))
  BY ListFacts DEF Left
<1>2. IsList(input) /\ Len(input) = Len(data) - e
  BY <1>1, PartFacts
<1>3. input = << >> <=> Len(input) = 0
  BY <1>2, EmptyList
<1>4. Len(data) - e = 0 <=> e = Len(data)
  BY <1>1
<1>5. QED
  BY <1>1, <1>2, <1>3, <1>4

LEMMA LeftStep ==
  ASSUME NEW data, NEW input, NEW e \in Nat, NEW t \in Nat, Left(data, input, e),
         t <= Len(input)
  PROVE  /\ Left(data, SubSeq(input, t + 1, Len(input)), e + t)
         /\ SubSeq(input, 1, t) = SubSeq(data, e + 1, e + t)
<1>1. /\ IsList(input) /\ Len(data) \in Nat /\ e \in Nat /\ e <= Len(data)
      /\ Len(input) = Len(data) - e /\ IsList(data)
      /\ input = SubSeq(data, e + 1, Len(data))
  BY ZenonT(40), LeftFacts DEF Left
<1> DEFINE L == Len(data)
           i == Len(input)
<1>2. L \in Nat /\ i \in Nat /\ e + i = L /\ t <= i /\ e <= L /\ e + t <= L /\ e + t \in Nat
  BY <1>1
<1>3. SubSeq(SubSeq(data, e + 1, L), t + 1, i) = SubSeq(data, (e + t) + 1, e + i)
  <2> HIDE DEF i
  <2>1. e + i <= L /\ L <= Len(data)
    BY <1>2
  <2> HIDE DEF L
  <2>2. QED
    BY <1>1, <1>2, <2>1, PartOfPart
<1>4. SubSeq(SubSeq(data, e + 1, L), 1, t) = SubSeq(data, e + 1, e + t)
  <2>1. L <= Len(data)
    BY <1>2
  <2> HIDE DEF L
  <2>2. QED
    BY <1>1, <1>2, <2>1, PrefixOfPart
<1>5. QED
  <2>1. SubSeq(input, t + 1, i) = SubSeq(data, (e + t) + 1, L)
    BY <1>1, <1>2, <1>3
  <2>2. SubSeq(input, 1, t) = SubSeq(data, e + 1, e + t)
    BY <1>1, <1>4
  <2>3. QED
    BY <1>1, <1>2, <2>1, <2>2 DEF Left

LEMMA OpenStep ==
  ASSUME NEW data, NEW input, NEW h, NEW m, NEW e,
         Consumed(h, data, m, e), Left(data, input, e)
  PROVE  \E k \in Nat : /\ Consumed(Opened(h, input), data, k, e)
                        /\ input # << >> => e < k * CHUNK_SIZE + CHUNK_SIZE
                        /\ input = << >> => k = m
<1> DEFINE x == m * CHUNK_SIZE
<1>1. IsList(data) /\ CHUNK_SIZE \in Nat \ {0}
  BY TreeAssumption DEF Left
<1>2. /\ m \in Nat /\ e \in Nat /\ x \in Nat /\ x <= e /\ e <= x + CHUNK_SIZE
      /\ Len(h.buffer) = e - x
  BY <1>1, BufferFacts
<1> HIDE DEF x
<1>3. CASE Len(h.buffer) = CHUNK_SIZE /\ input # << >>
  <2>1. e = x + CHUNK_SIZE
    BY <1>1, <1>2, <1>3
  <2>2. Consumed(Push(h), data, m + 1, e)
    BY <1>1, <2>1, PushStep DEF x
  <2>3. (m + 1) * CHUNK_SIZE = x + CHUNK_SIZE
    BY <1>1, <1>2, Times DEF x
  <2>4. m + 1 \in Nat /\ e < (m + 1) * CHUNK_SIZE + CHUNK_SIZE
    BY <1>1, <1>2, <2>1, <2>3
  <2>5. Opened(h, input) = Push(h)
    BY <1>3 DEF Opened
  <2>6. QED
    BY <1>3, <2>2, <2>4, <2>5
<1>4. CASE ~(Len(h.buffer) = CHUNK_SIZE /\ input # << >>)
  <2>1. input # << >> => e < x + CHUNK_SIZE
    BY <1>1, <1>2, <1>4
  <2>2. Opened(h, input) = h
    BY <1>4 DEF Opened
  <2>3. QED
    BY <1>2, <2>1, <2>2 DEF x
<1>5. QED
  BY <1>3, <1>4

\* A byte is taken unless the buffer is empty, and then as many as fit.
LEMMA TakeStep ==
  ASSUME NEW data, NEW input, NEW h, NEW m, NEW e,
         Consumed(h, data, m, e), Left(data, input, e)
  PROVE  LET t == Taken(h, input)
         IN  /\ t \in Nat /\ t <= Len(input)
             /\ Consumed(Filled(h, input, t), data, m, e + t)
             /\ h.buffer = << >> => t = 0
             /\ h.buffer # << >> => t = Len(input) \/ e + t = m * CHUNK_SIZE + CHUNK_SIZE
<1> DEFINE x == m * CHUNK_SIZE
           t == Taken(h, input)
<1>1. IsList(data) /\ CHUNK_SIZE \in Nat \ {0}
  BY TreeAssumption DEF Left
<1>2. /\ m \in Nat /\ e \in Nat /\ x \in Nat /\ x <= e /\ e <= x + CHUNK_SIZE
      /\ Len(h.buffer) = e - x
  BY <1>1, BufferFacts
<1>3. Len(data) \in Nat /\ e <= Len(data) /\ Len(input) = Len(data) - e
  BY LeftFacts
<1> HIDE DEF x
<1>4. /\ t \in Nat /\ t <= Len(input) /\ e + t <= x + CHUNK_SIZE
      /\ h.buffer = << >> => t = 0
      /\ h.buffer # << >> => t = Len(input) \/ e + t = x + CHUNK_SIZE
  <2>1. CASE h.buffer = << >>
    <3>1. t = 0
      BY <2>1 DEF Taken
    <3> HIDE DEF t
    <3>2. QED
      BY <1>1, <1>2, <1>3, <2>1, <3>1
  <2>2. CASE h.buffer # << >>
    <3>1. t = Least(CHUNK_SIZE - (e - x), Len(data) - e)
      BY <1>2, <1>3, <2>2 DEF Taken
    <3> HIDE DEF t
    <3>2. QED
      BY <1>1, <1>2, <1>3, <2>2, <3>1 DEF Least
  <2>3. QED
    BY <2>1, <2>2
<1> HIDE DEF t
<1>5. SubSeq(input, 1, t) = SubSeq(data, e + 1, e + t)
  <2>1. ASSUME NEW s \in Nat, s <= Len(input)
        PROVE  SubSeq(input, 1, s) = SubSeq(data, e + 1, e + s)
    BY <1>2, <2>1, LeftStep
  <2>2. QED
    BY <1>4, <2>1
<1>6. Consumed([h EXCEPT !.buffer = @ \o SubSeq(data, e + 1, e + t)], data, m, e + t)
  <2> DEFINE f == e + t
  <2>1. f \in Nat /\ e <= f /\ f <= Len(data) /\ f <= x + CHUNK_SIZE
    BY <1>2, <1>3, <1>4
  <2> HIDE DEF f
  <2>2. Consumed([h EXCEPT !.buffer = @ \o SubSeq(data, e + 1, f)], data, m, f)
    BY <1>1, <2>1, FillStep DEF x
  <2>3. QED
    BY <2>2 DEF f
<1>7. Filled(h, input, t) = [h EXCEPT !.buffer = @ \o SubSeq(data, e + 1, e + t)]
  BY <1>5 DEF Filled
<1>8. QED
  BY <1>4, <1>6, <1>7 DEF t, x


\* A buffer with more bytes behind it is full and becomes a leaf.
LEMMA ReadyStep ==
  ASSUME NEW data, NEW rest, NEW h, NEW m, NEW e,
         Consumed(h, data, m, e), Left(data, rest, e),
         h.buffer # << >> /\ rest # << >> => e = m * CHUNK_SIZE + CHUNK_SIZE
  PROVE  \E k \in Nat : /\ Consumed(Ready(h, rest), data, k, e)
                        /\ rest # << >> => e = k * CHUNK_SIZE
                        /\ rest = << >> => k = m
<1>1. IsList(data) /\ CHUNK_SIZE \in Nat \ {0}
  BY TreeAssumption DEF Left
<1>2. /\ m \in Nat /\ e \in Nat /\ m * CHUNK_SIZE \in Nat
      /\ (h.buffer = << >> <=> e = m * CHUNK_SIZE)
  BY <1>1, BufferFacts
<1>3. CASE h.buffer # << >> /\ rest # << >>
  <2>1. Consumed(Push(h), data, m + 1, e)
    BY <1>1, <1>3, PushStep
  <2>2. (m + 1) * CHUNK_SIZE = e /\ m + 1 \in Nat
    BY <1>1, <1>2, <1>3, Times
  <2>3. Ready(h, rest) = Push(h)
    BY <1>3 DEF Ready
  <2>4. QED
    BY <1>3, <2>1, <2>2, <2>3
<1>4. CASE ~(h.buffer # << >> /\ rest # << >>)
  <2>1. Ready(h, rest) = h
    BY <1>4 DEF Ready
  <2>2. QED
    BY <1>2, <1>4, <2>1
<1>5. QED
  BY <1>3, <1>4

\* Whole chunks, and at least a byte behind them.
LEMMA HashableFacts ==
  ASSUME NEW n \in Nat
  PROVE  \E j \in Nat : /\ Hashable(n) = j * CHUNK_SIZE /\ j * CHUNK_SIZE \in Nat
                        /\ n > 0 => j * CHUNK_SIZE < n
                        /\ n = 0 => j * CHUNK_SIZE = 0
                        /\ n <= j * CHUNK_SIZE + CHUNK_SIZE
<1> DEFINE C == CHUNK_SIZE
           q == n \div C
<1>1. C \in Nat \ {0}
  BY TreeAssumption
<1>2. q \in Nat /\ n % C \in 0..(C - 1) /\ n = C * q + (n % C)
  <2> HIDE DEF C
  <2> QED
    BY <1>1
<1>c. q * C = C * q /\ q * C \in Nat /\ (q - 1) * C = q * C - C
  BY <1>1, <1>2, Times
<1> DEFINE y == q * C
           r == n % C
<1>3. y \in Nat /\ r \in 0..(C - 1) /\ n = y + r /\ (q - 1) * C = y - C
  BY <1>2, <1>c
<1>4. CASE n <= C
  <2>1. Hashable(n) = 0 /\ 0 * C = 0
    BY <1>1, <1>4 DEF Hashable
  <2>2. QED
    BY <1>1, <1>4, <2>1
<1>5. CASE ~(n <= C) /\ r = 0
  <2>1. Hashable(n) = n - C
    BY <1>5 DEF Hashable
  <2>2. q # 0
    <3>1. 0 * C = 0
      BY <1>1
    <3> HIDE DEF q, r
    <3>2. QED
      BY <1>1, <1>3, <1>5, <3>1
  <2>3. q - 1 \in Nat
    BY <1>2, <2>2
  <2> DEFINE z == (q - 1) * C
  <2>4. z = n - C /\ n - C \in Nat /\ n - C < n /\ n <= (n - C) + C
    <3> HIDE DEF y, r, C
    <3> QED
      BY <1>1, <1>3, <1>5
  <2>5. n > 0
    BY <1>1, <1>5
  <2> HIDE DEF q, C, r
  <2>6. QED
    BY <2>1, <2>3, <2>4, <2>5 DEF C
<1>6. CASE ~(n <= C) /\ r # 0
  <2>1. Hashable(n) = y
    BY <1>6 DEF Hashable
  <2>2. y < n /\ n <= y + C /\ n > 0
    <3> HIDE DEF y, r, C
    <3> QED
      BY <1>1, <1>3, <1>6
  <2> HIDE DEF q, C, r
  <2>3. QED
    BY <1>2, <1>3, <2>1, <2>2 DEF C
<1>7. QED
  BY <1>4, <1>5, <1>6

LEMMA BulkStep ==
  ASSUME NEW data, NEW rest, NEW h, NEW m, NEW e,
         Consumed(h, data, m, e), Left(data, rest, e),
         rest # << >> => e = m * CHUNK_SIZE
  PROVE  \E k \in Nat : /\ Consumed(Bulked(h, rest), data, k, Len(data))
                        /\ rest # << >> => k * CHUNK_SIZE < Len(data)
                        /\ rest = << >> => k = m
<1> DEFINE L == Len(data)
           n == Len(rest)
           bulk == Hashable(n)
           g == Bulked(h, rest)
<1>1. IsList(data) /\ CHUNK_SIZE \in Nat \ {0}
  BY TreeAssumption DEF Left
<1>2. /\ m \in Nat /\ e \in Nat /\ m * CHUNK_SIZE \in Nat /\ e <= L /\ L \in Nat /\ n = L - e
      /\ (rest = << >> <=> e = L) /\ IsList(rest) /\ n \in Nat
      /\ IsList(h.buffer) /\ IsList(h.leaf_hashes)
      /\ (h.buffer = << >> <=> e = m * CHUNK_SIZE)
  <2>1. /\ m \in Nat /\ e \in Nat /\ m * CHUNK_SIZE \in Nat
        /\ IsList(h.buffer) /\ IsList(h.leaf_hashes)
        /\ (h.buffer = << >> <=> e = m * CHUNK_SIZE)
    BY <1>1, BufferFacts
  <2>2. /\ e <= L /\ L \in Nat /\ n = L - e
        /\ (rest = << >> <=> e = L) /\ IsList(rest)
    BY LeftFacts
  <2>3. n \in Nat
    BY <2>2, ListFacts
  <2>4. QED
    BY <2>1, <2>2, <2>3
<1>3. PICK j \in Nat : /\ bulk = j * CHUNK_SIZE /\ j * CHUNK_SIZE \in Nat
                       /\ n > 0 => j * CHUNK_SIZE < n
                       /\ n = 0 => j * CHUNK_SIZE = 0
                       /\ n <= j * CHUNK_SIZE + CHUNK_SIZE
  BY <1>2, HashableFacts
<1>4. /\ g.buffer = h.buffer \o SubSeq(rest, bulk + 1, n) /\ IsHasher(g)
      /\ g.leaf_hashes = h.leaf_hashes \o Leaves(SubSeq(rest, 1, bulk))
  BY DEF Bulked, IsHasher
<1>5. h.buffer = SubSeq(data, m * CHUNK_SIZE + 1, e)
      /\ h.leaf_hashes = Leaves(SubSeq(data, 1, m * CHUNK_SIZE)) /\ IsHasher(h)
  BY DEF Consumed
<1>e. rest # << >> => e = m * CHUNK_SIZE
  OBVIOUS
<1>6. bulk \in Nat /\ bulk <= n
  <2> HIDE DEF bulk, n
  <2> QED
    BY <1>2, <1>3
<1> DEFINE f == e + bulk
<1>7. f \in Nat /\ e <= f /\ f <= L /\ e + n = L
  <2> HIDE DEF bulk, n, L
  <2> QED
    BY <1>2, <1>6
<1>8. SubSeq(rest, 1, bulk) = SubSeq(data, e + 1, f) /\ SubSeq(rest, bulk + 1, n) = SubSeq(data, f + 1, L)
  <2>1. /\ Left(data, SubSeq(rest, bulk + 1, Len(rest)), e + bulk)
        /\ SubSeq(rest, 1, bulk) = SubSeq(data, e + 1, e + bulk)
    <3>0. e \in Nat
      BY <1>2
    <3>1. ASSUME NEW t \in Nat, t <= Len(rest)
          PROVE  /\ Left(data, SubSeq(rest, t + 1, Len(rest)), e + t)
                 /\ SubSeq(rest, 1, t) = SubSeq(data, e + 1, e + t)
      BY <3>0, <3>1, LeftStep
    <3>2. bulk <= Len(rest)
      BY <1>6
    <3> HIDE DEF bulk
    <3>3. QED
      BY <1>6, <3>1, <3>2
  <2>2. SubSeq(rest, bulk + 1, Len(rest)) = SubSeq(data, f + 1, Len(data))
    BY <2>1 DEF Left
  <2>3. QED
    BY <2>1, <2>2
<1>9. CASE rest = << >>
  <2>1. e = L /\ n = 0 /\ bulk = 0 /\ f = L
    <3>1. n = 0
      BY <1>2, <1>9
    <3>2. bulk = 0
      BY <1>3, <3>1
    <3> HIDE DEF L, n, bulk
    <3>3. QED
      BY <1>2, <1>9, <3>1, <3>2
  <2>2. SubSeq(rest, bulk + 1, n) = << >> /\ SubSeq(rest, 1, bulk) = << >>
    <3>1. SubSeq(rest, bulk + 1, n) = << >>
      <4>1. IsList(SubSeq(rest, bulk + 1, n)) /\ Len(SubSeq(rest, bulk + 1, n)) = n - bulk
        <5>1. n <= Len(rest)
          BY <1>2
        <5> HIDE DEF bulk, n
        <5>2. QED
          BY <1>2, <1>6, <5>1, PartFacts
      <4>2. n - bulk = 0
        BY <2>1
      <4>3. QED
        BY <4>1, <4>2, EmptyList
    <3>2. SubSeq(rest, 1, bulk) = << >>
      <4>1. IsList(SubSeq(rest, 1, bulk)) /\ Len(SubSeq(rest, 1, bulk)) = bulk
        <5>1. bulk <= Len(rest)
          BY <1>6
        <5> HIDE DEF bulk, n
        <5>2. QED
          BY <1>2, <1>6, <5>1, PrefixFacts
      <4>2. QED
        BY <2>1, <4>1, EmptyList
    <3>3. QED
      BY <3>1, <3>2
  <2>3. Leaves(<< >>) = << >>
    <3>1. IsList(<< >>) /\ Len(<< >>) = 0 * CHUNK_SIZE /\ 0 \in Nat
      BY <1>1, <1>2, EmptyList
    <3>2. Len(Leaves(<< >>)) = 0 /\ IsList(Leaves(<< >>))
      BY <3>1, WholeLeaves, LeavesFacts
    <3>3. QED
      BY <3>2, EmptyList
  <2>4. g.buffer = h.buffer /\ g.leaf_hashes = h.leaf_hashes
    BY <1>2, <1>4, <2>2, <2>3, EmptyList
  <2>5. g = h
    <3> HIDE DEF g
    <3> QED
      BY <1>4, <1>5, <2>4 DEF IsHasher
  <2>6. Consumed(g, data, m, L)
    <3> HIDE DEF g, L
    <3> QED
      BY <2>1, <2>5
  <2>7. QED
    BY <1>2, <1>9, <2>6
<1>10. CASE rest # << >>
  <2> DEFINE k == m + j
             y == k * CHUNK_SIZE
  <2>1. e = m * CHUNK_SIZE /\ h.buffer = << >> /\ n > 0
    <3>1. e = m * CHUNK_SIZE /\ h.buffer = << >> /\ e # L
      BY <1>2, <1>10
    <3> HIDE DEF n, L
    <3>2. n > 0
      BY <1>2, <3>1
    <3>3. QED
      BY <3>1, <3>2
  <2>2. k \in Nat /\ y = f
    <3>1. y = m * CHUNK_SIZE + j * CHUNK_SIZE
      BY <1>1, <1>2, Times
    <3>2. QED
      BY <1>2, <1>3, <2>1, <3>1
  <2>3. f < L /\ L <= f + CHUNK_SIZE
    <3>1. bulk < n /\ n <= bulk + CHUNK_SIZE
      BY <1>3, <2>1
    <3> HIDE DEF bulk, n, L
    <3>2. QED
      BY <1>1, <1>2, <1>6, <3>1
  <2>4. g.buffer = SubSeq(data, f + 1, L)
    <3>1. IsList(SubSeq(data, f + 1, L))
      <4> HIDE DEF f
      <4> QED
        BY <1>1, <1>2, <1>7, PartFacts
    <3>2. << >> \o SubSeq(data, f + 1, L) = SubSeq(data, f + 1, L)
      BY <3>1, EmptyList
    <3>3. QED
      BY <1>4, <1>8, <2>1, <3>2
  <2>5. g.leaf_hashes = Leaves(SubSeq(data, 1, f))
    <3>1. Leaves(SubSeq(data, 1, f)) = Leaves(SubSeq(data, 1, m * CHUNK_SIZE))
                                         \o Leaves(SubSeq(data, m * CHUNK_SIZE + 1, f))
      <4>1. m * CHUNK_SIZE <= f /\ f <= Len(data) /\ f \in Nat
        BY <1>7, <2>1
      <4> HIDE DEF f
      <4>2. QED
        BY <1>1, <1>2, <4>1, LeavesOfPrefix
    <3> HIDE DEF f, g, bulk
    <3>2. QED
      BY <1>4, <1>5, <1>8, <2>1, <3>1
  <2> HIDE DEF g, f, y, k
  <2>6. Consumed(g, data, k, L)
    <3>1. /\ y <= L /\ L <= y + CHUNK_SIZE /\ L <= L
      BY <1>1, <1>2, <1>7, <2>2, <2>3
    <3>2. /\ g.leaf_hashes = Leaves(SubSeq(data, 1, y)) /\ g.buffer = SubSeq(data, y + 1, L)
      BY <2>2, <2>4, <2>5
    <3>3. QED
      BY <1>2, <1>4, <2>2, <3>1, <3>2 DEF Consumed, y
  <2>7. k * CHUNK_SIZE < Len(data)
    BY <2>2, <2>3 DEF y
  <2>8. QED
    BY <1>10, <2>2, <2>6, <2>7 DEF g
<1>11. QED
  BY <1>9, <1>10


(***************************************************************************)
(* All of the data has been given, and if there is any a byte of it is     *)
(* still in the buffer.                                                    *)
(***************************************************************************)
Represents(h, data) ==
  \E m \in Nat : /\ Consumed(h, data, m, Len(data))
                 /\ data # << >> => m * CHUNK_SIZE < Len(data)

LEMMA UpdateLeft ==
  ASSUME NEW data, NEW input, NEW h, NEW m, NEW e,
         Consumed(h, data, m, e), Left(data, input, e),
         data # << >> => m * CHUNK_SIZE < e \/ input # << >>
  PROVE  Represents(Update(h, input), data)
<1> DEFINE opened == Opened(h, input)
           t      == Taken(opened, input)
           filled == Filled(opened, input, t)
           f      == e + t
           rest   == SubSeq(input, t + 1, Len(input))
           ready  == Ready(filled, rest)
<1>0. /\ IsList(data) /\ Len(data) \in Nat /\ e \in Nat /\ Len(input) = Len(data) - e
      /\ (input = << >> <=> e = Len(data)) /\ CHUNK_SIZE \in Nat \ {0}
  <2>1. IsList(data) /\ CHUNK_SIZE \in Nat \ {0}
    BY TreeAssumption DEF Left
  <2>2. /\ Len(data) \in Nat /\ e \in Nat /\ Len(input) = Len(data) - e
        /\ (input = << >> <=> e = Len(data))
    BY LeftFacts
  <2>3. QED
    BY <2>1, <2>2
<1>1. Update(h, input) = Bulked(ready, rest)
  BY UpdateInSteps
<1>2. PICK m1 \in Nat : /\ Consumed(opened, data, m1, e)
                        /\ input # << >> => e < m1 * CHUNK_SIZE + CHUNK_SIZE
                        /\ input = << >> => m1 = m
  BY OpenStep
<1>3. m1 * CHUNK_SIZE \in Nat /\ (opened.buffer = << >> <=> e = m1 * CHUNK_SIZE)
      /\ m1 * CHUNK_SIZE <= e
  <2> HIDE DEF opened
  <2> QED
    BY <1>0, <1>2, BufferFacts
<1>4. /\ t \in Nat /\ t <= Len(input) /\ Consumed(filled, data, m1, f)
      /\ opened.buffer = << >> => t = 0
      /\ opened.buffer # << >> => t = Len(input) \/ f = m1 * CHUNK_SIZE + CHUNK_SIZE
  <2> HIDE DEF opened
  <2> QED
    BY <1>2, TakeStep
<1>5. Left(data, rest, f)
  <2>1. ASSUME NEW s \in Nat, s <= Len(input)
        PROVE  Left(data, SubSeq(input, s + 1, Len(input)), e + s)
    BY <1>0, <2>1, LeftStep
  <2> HIDE DEF t
  <2>2. QED
    BY <1>4, <2>1
<1>6. /\ f \in Nat /\ f <= Len(data) /\ (rest = << >> <=> f = Len(data))
      /\ (filled.buffer = << >> <=> f = m1 * CHUNK_SIZE)
  <2> HIDE DEF f, rest, filled
  <2>1. f \in Nat /\ f <= Len(data) /\ (rest = << >> <=> f = Len(data))
    BY <1>5, LeftFacts
  <2>2. filled.buffer = << >> <=> f = m1 * CHUNK_SIZE
    BY <1>0, <1>4, BufferFacts
  <2>3. QED
    BY <2>1, <2>2
<1>7. filled.buffer # << >> /\ rest # << >> => f = m1 * CHUNK_SIZE + CHUNK_SIZE
  <2>1. SUFFICES ASSUME f # m1 * CHUNK_SIZE, f # Len(data)
                 PROVE  f = m1 * CHUNK_SIZE + CHUNK_SIZE
    BY <1>6
  <2>2. t = Len(input) => f = Len(data)
    <3> HIDE DEF t
    <3> QED
      BY <1>0, <1>4
  <2>3. opened.buffer # << >>
    <3>1. t = 0 => f = e
      BY <1>0
    <3> HIDE DEF t, opened, f
    <3>2. QED
      BY <1>3, <1>4, <2>1, <3>1
  <2> HIDE DEF t, f
  <2>4. QED
    BY <1>4, <2>1, <2>2, <2>3
<1> HIDE DEF ready
<1>8. PICK m2 \in Nat : /\ Consumed(ready, data, m2, f)
                        /\ rest # << >> => f = m2 * CHUNK_SIZE
                        /\ rest = << >> => m2 = m1
  <2> HIDE DEF filled, rest, f
  <2> QED
    BY <1>4, <1>5, <1>7, ReadyStep DEF ready
<1>9. PICK k \in Nat : /\ Consumed(Bulked(ready, rest), data, k, Len(data))
                       /\ rest # << >> => k * CHUNK_SIZE < Len(data)
                       /\ rest = << >> => k = m2
  <2> HIDE DEF rest, f
  <2> QED
    BY <1>5, <1>8, BulkStep
<1>10. data # << >> => k * CHUNK_SIZE < Len(data)
  <2>1. SUFFICES ASSUME data # << >>, rest = << >>
                 PROVE  m1 * CHUNK_SIZE < Len(data)
    BY <1>8, <1>9
  <2>2. CASE input = << >>
    BY <1>0, <1>2, <2>1, <2>2
  <2>3. CASE input # << >>
    <3>1. e < Len(data)
      BY <1>0, <2>3, LeftFacts
    <3>2. m1 * CHUNK_SIZE <= e
      BY <1>3
    <3>3. QED
      BY <1>0, <1>3, <3>1, <3>2
  <2>4. QED
    BY <2>2, <2>3
<1>11. QED
  BY <1>1, <1>9, <1>10 DEF Represents

\* The bytes before do not change when others are put behind them.
LEMMA BehindFacts ==
  ASSUME NEW s, NEW t, IsList(s), IsList(t)
  PROVE  /\ IsList(s \o t) /\ Len(s \o t) = Len(s) + Len(t) /\ Len(s) \in Nat /\ Len(t) \in Nat
         /\ SubSeq(s \o t, Len(s) + 1, Len(s \o t)) = t
         /\ \A u \in Nat, v \in Nat : u <= v /\ v <= Len(s) =>
              SubSeq(s \o t, u + 1, v) = SubSeq(s, u + 1, v)
         /\ \A v \in Nat : v <= Len(s) => SubSeq(s \o t, 1, v) = SubSeq(s, 1, v)
<1> DEFINE all == s \o t
           a == Len(s)
           b == Len(t)
           L == Len(all)
<1>1. /\ IsList(all) /\ L = a + b /\ a \in Nat /\ b \in Nat
      /\ \A i \in 1..a : all[i] = s[i]
      /\ \A i \in 1..b : all[a + i] = t[i]
  <2>1. a \in Nat /\ b \in Nat
    BY ListFacts
  <2>2. QED
    BY <2>1, ListConcat
<1> HIDE DEF all
<1>2. SubSeq(all, a + 1, L) = t
  <2>1. a <= L /\ L <= Len(all) /\ L \in Nat /\ L - a = b
    BY <1>1
  <2> HIDE DEF L, a
  <2>2. /\ IsList(SubSeq(all, a + 1, L)) /\ Len(SubSeq(all, a + 1, L)) = L - a
        /\ \A i \in 1..(L - a) : SubSeq(all, a + 1, L)[i] = all[a + i]
    BY <1>1, <2>1, PartFacts
  <2>3. QED
    BY <1>1, <2>1, <2>2, ListEqual
<1>3. ASSUME NEW u \in Nat, NEW v \in Nat, u <= v, v <= a
      PROVE  SubSeq(all, u + 1, v) = SubSeq(s, u + 1, v)
  <2> DEFINE x == SubSeq(all, u + 1, v)
             y == SubSeq(s, u + 1, v)
  <2>1. v <= L
    BY <1>1, <1>3
  <2>2. IsList(x) /\ Len(x) = v - u /\ \A i \in 1..(v - u) : x[i] = all[u + i]
    BY <1>1, <1>3, <2>1, PartFacts
  <2>3. IsList(y) /\ Len(y) = v - u /\ \A i \in 1..(v - u) : y[i] = s[u + i]
    BY <1>1, <1>3, PartFacts
  <2>4. \A i \in 1..(v - u) : u + i \in 1..a
    BY <1>1, <1>3
  <2> HIDE DEF x, y
  <2>5. \A i \in 1..(v - u) : x[i] = y[i]
    BY <1>1, <2>2, <2>3, <2>4
  <2>6. x = y
    BY <2>2, <2>3, <2>5, ListEqual
  <2>7. QED
    BY <2>6 DEF x, y
<1>4. ASSUME NEW v \in Nat, v <= a
      PROVE  SubSeq(all, 1, v) = SubSeq(s, 1, v)
  <2> DEFINE z == 0
  <2>1. z \in Nat /\ z <= v /\ z + 1 = 1
    OBVIOUS
  <2> HIDE DEF z
  <2>2. SubSeq(all, z + 1, v) = SubSeq(s, z + 1, v)
    BY <1>3, <1>4, <2>1
  <2>3. QED
    BY <2>1, <2>2
<1>5. QED
  BY <1>1, <1>2, <1>3, <1>4 DEF all

\* update, whatever it is given.
LEMMA UpdateRepresents ==
  ASSUME NEW data, NEW input, NEW h, IsList(data), IsList(input), Represents(h, data)
  PROVE  Represents(Update(h, input), data \o input)
<1> DEFINE all == data \o input
           e == Len(data)
<1>1. PICK m \in Nat : Consumed(h, data, m, e) /\ (data # << >> => m * CHUNK_SIZE < e)
  BY DEF Represents
<1>2. /\ IsList(all) /\ Len(all) = e + Len(input) /\ e \in Nat /\ Len(input) \in Nat
      /\ SubSeq(all, e + 1, Len(all)) = input
      /\ \A u \in Nat, v \in Nat : u <= v /\ v <= e => SubSeq(all, u + 1, v) = SubSeq(data, u + 1, v)
      /\ \A v \in Nat : v <= e => SubSeq(all, 1, v) = SubSeq(data, 1, v)
  BY BehindFacts
<1> HIDE DEF all
<1>3. Consumed(h, all, m, e)
  <2> DEFINE x == m * CHUNK_SIZE
  <2>1. x \in Nat /\ x <= e /\ e <= x + CHUNK_SIZE
    BY <1>1, BufferFacts
  <2>2. SubSeq(all, 1, x) = SubSeq(data, 1, x) /\ SubSeq(all, x + 1, e) = SubSeq(data, x + 1, e)
    <3>1. e <= e
      BY <1>2
    <3> HIDE DEF x, e
    <3>2. QED
      BY <1>2, <2>1, <3>1
  <2>3. e <= Len(all)
    BY <1>2
  <2>4. QED
    BY <1>1, <1>2, <2>1, <2>2, <2>3 DEF Consumed
<1>4. Left(all, input, e)
  BY <1>2 DEF Left
<1>5. all # << >> => m * CHUNK_SIZE < e \/ input # << >>
  <2>1. data = << >> /\ input = << >> => all = << >>
    BY EmptyList DEF all
  <2>2. QED
    BY <1>1, <2>1
<1>6. Represents(Update(h, input), all)
  <2> HIDE DEF e
  <2> QED
    BY <1>3, <1>4, <1>5, UpdateLeft
<1>7. QED
  BY <1>6 DEF all

LEMMA NewRepresents ==
  Represents(NewHasher, << >>)
<1>1. IsList(<< >>) /\ Len(<< >>) = 0 /\ 0 \in Nat /\ 0 * CHUNK_SIZE = 0 /\ CHUNK_SIZE \in Nat
  <2>1. << >> \in Seq({}) /\ Len(<< >>) = 0
    BY EmptySeq
  <2>2. IsList(<< >>)
    BY <2>1, SeqIsList
  <2>3. CHUNK_SIZE \in Nat
    BY TreeAssumption
  <2>4. QED
    BY <2>1, <2>2, <2>3
<1>2. SubSeq(<< >>, 1, 0) = << >>
  BY SubSeqEmpty
<1>3. Leaves(<< >>) = << >>
  <2>1. Len(Leaves(<< >>)) = 0 /\ IsList(Leaves(<< >>))
    BY <1>1, WholeLeaves, LeavesFacts
  <2>2. QED
    BY <2>1, EmptyList
<1>4. Consumed(NewHasher, << >>, 0, 0)
  <2>1. IsHasher(NewHasher) /\ NewHasher.buffer = << >> /\ NewHasher.leaf_hashes = << >>
    BY DEF IsHasher, NewHasher
  <2>2. 0 * CHUNK_SIZE + 1 = 1
    BY <1>1
  <2> DEFINE z == 0 * CHUNK_SIZE
  <2>3. z = 0 /\ z + 1 = 1
    BY <1>1
  <2>4. SubSeq(<< >>, 1, z) = << >> /\ SubSeq(<< >>, z + 1, 0) = << >>
    BY <1>2, <2>3
  <2>5. z <= 0 /\ 0 <= z + CHUNK_SIZE /\ 0 <= Len(<< >>)
    BY <1>1, <2>3
  <2> HIDE DEF z
  <2>6. /\ NewHasher.leaf_hashes = Leaves(SubSeq(<< >>, 1, z))
        /\ NewHasher.buffer = SubSeq(<< >>, z + 1, 0)
    BY <1>3, <2>1, <2>4
  <2>7. QED
    BY <1>1, <2>1, <2>5, <2>6 DEF Consumed, z
<1>5. QED
  BY <1>1, <1>4 DEF Represents


LEMMA FinalizeTree ==
  ASSUME NEW data, NEW h, IsList(data), Represents(h, data)
  PROVE  Finalize(h) = Tree(data)
<1> DEFINE L == Len(data)
<1>1. PICK m \in Nat : Consumed(h, data, m, L) /\ (data # << >> => m * CHUNK_SIZE < L)
  BY DEF Represents
<1> DEFINE x == m * CHUNK_SIZE
<1>2. /\ L \in Nat /\ x \in Nat /\ x <= L /\ L <= x + CHUNK_SIZE
      /\ (h.buffer = << >> <=> L = x)
      /\ (h.leaf_hashes = << >> <=> m = 0)
  BY <1>1, BufferFacts
<1>3. CHUNK_SIZE \in Nat \ {0}
  BY TreeAssumption
<1>4. SubSeq(data, 1, L) = data
  <2>1. L <= Len(data)
    BY <1>2
  <2>2. /\ IsList(SubSeq(data, 1, L)) /\ Len(SubSeq(data, 1, L)) = L
        /\ \A i \in 1..L : SubSeq(data, 1, L)[i] = data[i]
    <3> HIDE DEF L
    <3> QED
      BY <1>2, <2>1, PrefixFacts
  <2>3. QED
    BY <2>2, ListEqual
<1>5. CASE m = 0
  <2>1. x = 0
    BY <1>3, <1>5
  <2>2. h.buffer = data
    BY <1>1, <1>4, <2>1 DEF Consumed
  <2>3. L <= CHUNK_SIZE
    BY <1>2, <1>3, <2>1
  <2>4. h.leaf_hashes = << >>
    BY <1>2, <1>5
  <2>5. QED
    BY <2>2, <2>3, <2>4, Zenon DEF Finalize, Tree
<1>6. CASE m # 0
  <2>1. x >= CHUNK_SIZE
    <3>1. 1 * CHUNK_SIZE = CHUNK_SIZE /\ 1 <= m
      BY <1>1, <1>3, <1>6
    <3>2. QED
      BY <1>3, <3>1, Times
  <2>2. data # << >>
    <3>1. L > 0
      <4> HIDE DEF x, L
      <4> QED
        BY <1>2, <1>3, <2>1
    <3>2. QED
      BY <3>1, EmptyList
  <2>3. x < L
    BY <1>1, <2>2
  <2> HIDE DEF x, L
  <2>4. ~(L <= CHUNK_SIZE) /\ h.buffer # << >> /\ h.leaf_hashes # << >>
    BY <1>2, <1>3, <1>6, <2>1, <2>3
  <2>5. Push(h).leaf_hashes = Leaves(data)
    BY <1>1, <1>4, <2>4, PushFacts
  <2>6. Finalize(h) = ReduceNodes(Leaves(data), TRUE)
    BY <2>4, <2>5, Zenon DEF Finalize
  <2>7. Tree(data) = ReduceNodes(Leaves(data), TRUE)
    BY <2>4 DEF Tree, L
  <2>8. QED
    BY <2>6, <2>7
<1>7. QED
  BY <1>5, <1>6

(***************************************************************************)
(* "Produces bit-exact identical hashes to hash_slice_parallel"            *)
(* (tree.rs:176): whatever pieces the data is given in, update by update,  *)
(* the root is that of the data hashed as a slice.                         *)
(***************************************************************************)
THEOREM IncrementalIsCanonical ==
  ASSUME NEW S, NEW piece \in [Nat -> Seq(S)], NEW hasher, NEW data,
         hasher[0] = NewHasher, data[0] = << >>,
         \A n \in Nat : /\ hasher[n + 1] = Update(hasher[n], piece[n])
                        /\ data[n + 1] = data[n] \o piece[n]
  PROVE  \A n \in Nat : Finalize(hasher[n]) = HashSlice(data[n])
<1> DEFINE Good(n) == data[n] \in Seq(S) /\ Represents(hasher[n], data[n])
           K == {n \in Nat : Good(n)}
<1>1. 0 \in K
  <2>1. << >> \in Seq(S)
    BY EmptySeq
  <2>2. Good(0)
    BY <2>1, NewRepresents
  <2>3. QED
    BY <2>2
<1>2. ASSUME NEW n \in Nat, n \in K
      PROVE  n + 1 \in K
  <2>1. data[n] \in Seq(S) /\ piece[n] \in Seq(S) /\ Represents(hasher[n], data[n])
    BY <1>2
  <2>2. IsList(data[n]) /\ IsList(piece[n])
    BY <2>1, SeqIsList
  <2>3. Represents(Update(hasher[n], piece[n]), data[n] \o piece[n])
    BY <2>1, <2>2, UpdateRepresents
  <2>4. data[n] \o piece[n] \in Seq(S)
    BY <2>1, ConcatProperties
  <2>5. hasher[n + 1] = Update(hasher[n], piece[n]) /\ data[n + 1] = data[n] \o piece[n]
    OBVIOUS
  <2>6. Good(n + 1) /\ n + 1 \in Nat
    BY <2>3, <2>4, <2>5
  <2> HIDE DEF Good
  <2>7. QED
    BY <2>6
<1>3. \A n \in Nat : n \in K
  <2> HIDE DEF K
  <2> QED
    BY <1>1, <1>2, NatSetInduction
<1>4. ASSUME NEW n \in Nat
      PROVE  Finalize(hasher[n]) = HashSlice(data[n])
  <2>1. data[n] \in Seq(S) /\ Represents(hasher[n], data[n])
    BY <1>3
  <2>2. IsList(data[n])
    BY <2>1, SeqIsList
  <2>3. Finalize(hasher[n]) = Tree(data[n])
    BY <2>1, <2>2, FinalizeTree
  <2>4. HashSlice(data[n]) = Tree(data[n])
    BY <2>1, SubtreesChangeNothing
  <2>5. QED
    BY <2>3, <2>4
<1>5. QED
  BY <1>4

==============================================================================
