-------------------------- MODULE XdpSocketProofs --------------------------
(***************************************************************************)
(* What send and the kernel guarantee for any number of frames, any rings, *)
(* batches and numbers of retries: as long as no frame came from the bump  *)
(* allocator and no batch was pushed in part, a frame has one owner, none  *)
(* leaks, and the kernel finds in a frame what send copied into it.        *)
(***************************************************************************)
EXTENDS XdpSocket, SequenceTheorems, FiniteSetTheorems, TLAPS

----------------------------------------------------------------------------
(* Sequences without repetition. *)

Distinct(s) == \A i, j \in 1..Len(s) : i # j => s[i] # s[j]

LEMMA DistinctConcat ==
  ASSUME NEW S, NEW s \in Seq(S), NEW t \in Seq(S)
  PROVE  Distinct(s \o t) <=> Distinct(s) /\ Distinct(t) /\ Range(s) \cap Range(t) = {}
<1> DEFINE u == s \o t
           m == Len(s)
           n == Len(t)
<1>1. /\ m \in Nat /\ n \in Nat /\ Len(u) = m + n
      /\ \A i \in 1..m : u[i] = s[i]
      /\ \A i \in 1..n : u[m + i] = t[i]
  <2>1. /\ m \in Nat /\ n \in Nat /\ Len(u) = m + n
        /\ \A i \in 1..(m + n) : u[i] = IF i <= m THEN s[i] ELSE t[i - m]
    BY ConcatProperties, LenProperties
  <2> HIDE DEF u, m, n
  <2> QED
    BY <2>1
<1>2. Range(s) = {s[i] : i \in 1..m} /\ Range(t) = {t[i] : i \in 1..n}
  BY RangeEquality
<1> HIDE DEF u, m, n
<1>3. ASSUME Distinct(u)
      PROVE  /\ \A i, j \in 1..m : i # j => s[i] # s[j]
             /\ \A i, j \in 1..n : i # j => t[i] # t[j]
             /\ \A i \in 1..m, j \in 1..n : s[i] # t[j]
  <2>1. \A i, j \in 1..(m + n) : i # j => u[i] # u[j]
    BY <1>1, <1>3 DEF Distinct
  <2>2. ASSUME NEW i \in 1..m, NEW j \in 1..m, i # j
        PROVE  s[i] # s[j]
    BY <1>1, <2>1, <2>2
  <2>3. ASSUME NEW i \in 1..n, NEW j \in 1..n, i # j
        PROVE  t[i] # t[j]
    <3>1. m + i \in 1..(m + n) /\ m + j \in 1..(m + n) /\ m + i # m + j
      BY <1>1, <2>3
    <3> QED
      BY <1>1, <2>1, <3>1
  <2>4. ASSUME NEW i \in 1..m, NEW j \in 1..n
        PROVE  s[i] # t[j]
    <3>1. i \in 1..(m + n) /\ m + j \in 1..(m + n) /\ i # m + j
      BY <1>1
    <3> QED
      BY <1>1, <2>1, <3>1
  <2> QED
    BY <2>2, <2>3, <2>4
<1>4. ASSUME \A i, j \in 1..m : i # j => s[i] # s[j],
             \A i, j \in 1..n : i # j => t[i] # t[j],
             \A i \in 1..m, j \in 1..n : s[i] # t[j]
      PROVE  Distinct(u)
  <2> SUFFICES ASSUME NEW i \in 1..(m + n), NEW j \in 1..(m + n), i # j
               PROVE  u[i] # u[j]
    BY <1>1 DEF Distinct
  <2>1. \A k \in 1..(m + n) : k \in 1..m \/ (k - m \in 1..n /\ m + (k - m) = k)
    BY <1>1
  <2>2. \A k \in 1..(m + n) : k \notin 1..m => u[k] = t[k - m]
    BY <1>1, <2>1
  <2>3. CASE i \in 1..m /\ j \in 1..m
    BY <1>1, <1>4, <2>3
  <2>4. CASE i \in 1..m /\ j \notin 1..m
    BY <1>1, <1>4, <2>1, <2>2, <2>4
  <2>5. CASE i \notin 1..m /\ j \in 1..m
    BY <1>1, <1>4, <2>1, <2>2, <2>5
  <2>6. CASE i \notin 1..m /\ j \notin 1..m
    <3>1. i - m # j - m
      BY <1>1
    <3> QED
      BY <1>1, <1>4, <2>1, <2>2, <2>6, <3>1
  <2> QED
    BY <2>3, <2>4, <2>5, <2>6
<1>5. Range(s) \cap Range(t) = {} <=> \A i \in 1..m, j \in 1..n : s[i] # t[j]
  BY <1>2
<1>6. /\ Distinct(s) <=> \A i, j \in 1..m : i # j => s[i] # s[j]
      /\ Distinct(t) <=> \A i, j \in 1..n : i # j => t[i] # t[j]
  BY DEF Distinct, m, n
<1>7. Distinct(u) <=> Distinct(s) /\ Distinct(t) /\ Range(s) \cap Range(t) = {}
  BY <1>3, <1>4, <1>5, <1>6
<1> QED
  BY <1>7 DEF u

LEMMA SingletonSeq ==
  ASSUME NEW S, NEW e \in S
  PROVE  <<e>> \in Seq(S) /\ Len(<<e>>) = 1 /\ Distinct(<<e>>) /\ Range(<<e>>) = {e}
<1>1. <<e>> \in Seq(S) /\ Len(<<e>>) = 1 /\ <<e>>[1] = e
  OBVIOUS
<1>2. Range(<<e>>) = {<<e>>[i] : i \in 1..1}
  BY <1>1, RangeEquality
<1> QED
  BY <1>1, <1>2 DEF Distinct

LEMMA EmptyRange == Distinct(<<>>) /\ Range(<<>>) = {}
<1>1. <<>> \in Seq({}) /\ Len(<<>>) = 0
  OBVIOUS
<1>2. Range(<<>>) = {(<<>>)[i] : i \in 1..0}
  BY <1>1, RangeEquality
<1> QED
  BY <1>1, <1>2 DEF Distinct

\* A sequence is its head and its tail ...
LEMMA HeadAndTail ==
  ASSUME NEW S, NEW s \in Seq(S), s # <<>>
  PROVE  Head(s) \in S /\ Tail(s) \in Seq(S) /\ s = <<Head(s)>> \o Tail(s)
<1>1. /\ Head(s) \in S /\ Tail(s) \in Seq(S) /\ Len(Tail(s)) = Len(s) - 1
      /\ \A i \in 1..Len(Tail(s)) : Tail(s)[i] = s[i + 1]
  BY HeadTailProperties
<1>2. Len(s) \in Nat \ {0}
  BY EmptySeq
<1> DEFINE h == <<Head(s)>>
           t == Tail(s)
<1>3. h \in Seq(S) /\ Len(h) = 1 /\ h[1] = s[1]
  BY <1>1
<1>4. /\ h \o t \in Seq(S) /\ Len(h \o t) = Len(h) + Len(t)
      /\ \A i \in 1..(Len(h) + Len(t)) : (h \o t)[i] = IF i <= Len(h) THEN h[i] ELSE t[i - Len(h)]
  BY <1>1, <1>3, ConcatProperties
<1> HIDE DEF h, t
<1>5. Len(h \o t) = Len(s)
  BY <1>1, <1>2, <1>3, <1>4 DEF t
<1>6. \A i \in 1..Len(s) : i # 1 => i - 1 \in 1..Len(t) /\ (i - 1) + 1 = i
  BY <1>1, <1>2 DEF t
<1>7. ASSUME NEW i \in 1..Len(s)
      PROVE  s[i] = (h \o t)[i]
  <2>1. CASE i = 1
    BY <1>2, <1>3, <1>4, <1>5, <2>1
  <2>2. CASE i # 1
    <3>1. (h \o t)[i] = t[i - 1]
      BY <1>2, <1>3, <1>4, <1>5, <2>2
    <3>2. t[i - 1] = s[(i - 1) + 1]
      BY <1>1, <1>6, <2>2 DEF t
    <3> QED
      BY <1>6, <2>2, <3>1, <3>2
  <2> QED
    BY <2>1, <2>2
<1>8. s = h \o t
  BY <1>4, <1>5, <1>7, SeqEqual
<1> QED
  BY <1>1, <1>8 DEF h, t

\* ... or any prefix and the rest ...
LEMMA PrefixAndRest ==
  ASSUME NEW S, NEW s \in Seq(S), NEW n \in 0..Len(s)
  PROVE  /\ SubSeq(s, 1, n) \in Seq(S) /\ SubSeq(s, n + 1, Len(s)) \in Seq(S)
         /\ Len(SubSeq(s, 1, n)) = n /\ Len(SubSeq(s, n + 1, Len(s))) = Len(s) - n
         /\ s = SubSeq(s, 1, n) \o SubSeq(s, n + 1, Len(s))
<1>1. Len(s) \in Nat /\ \A i \in 1..Len(s) : s[i] \in S
  BY LenProperties, ElementOfSeq
<1>2. SubSeq(s, 1, n) \in Seq(S) /\ Len(SubSeq(s, 1, n)) = n
  BY <1>1, SubSeqProperties
<1>3. SubSeq(s, n + 1, Len(s)) \in Seq(S) /\ Len(SubSeq(s, n + 1, Len(s))) = Len(s) - n
  BY <1>1, SubSeqProperties
<1>4. SubSeq(s, 1, n) \o SubSeq(s, n + 1, Len(s)) = SubSeq(s, 1, Len(s))
  <2>1. 1 \in 1..(Len(s) + 1) /\ n \in (1 - 1)..Len(s) /\ Len(s) \in n..Len(s)
    BY <1>1
  <2> QED
    BY <2>1, ConcatAdjacentSubSeq
<1> QED
  BY <1>2, <1>3, <1>4, SubSeqFull

\* ... or what precedes, is at and follows a place.
LEMMA AroundPlace ==
  ASSUME NEW S, NEW s \in Seq(S), NEW i \in 1..Len(s)
  PROVE  /\ SubSeq(s, 1, i - 1) \in Seq(S) /\ SubSeq(s, i + 1, Len(s)) \in Seq(S)
         /\ s[i] \in S
         /\ s = SubSeq(s, 1, i - 1) \o (<<s[i]>> \o SubSeq(s, i + 1, Len(s)))
         /\ Len(s) = Len(SubSeq(s, 1, i - 1)) + 1 + Len(SubSeq(s, i + 1, Len(s)))
<1>1. Len(s) \in Nat /\ i - 1 \in 0..Len(s) /\ i \in 0..Len(s) /\ (i - 1) + 1 = i
  BY LenProperties
<1>2. SubSeq(s, 1, i - 1) \in Seq(S) /\ Len(SubSeq(s, 1, i - 1)) = i - 1
      /\ s = SubSeq(s, 1, i - 1) \o SubSeq(s, i, Len(s))
  BY <1>1, PrefixAndRest
<1>3. SubSeq(s, i + 1, Len(s)) \in Seq(S) /\ Len(SubSeq(s, i + 1, Len(s))) = Len(s) - i
  BY <1>1, PrefixAndRest
<1>4. SubSeq(s, i, Len(s)) = <<s[i]>> \o SubSeq(s, i + 1, Len(s))
  <2>1. i \in 1..Len(s) /\ Len(s) \in i..Len(s)
    BY <1>1
  <2> QED
    BY <2>1, SubSeqRecursiveFirst
<1>5. s[i] \in S
  BY ElementOfSeq
<1>6. Len(s) = (i - 1) + 1 + (Len(s) - i)
  BY <1>1
<1> QED
  BY <1>2, <1>3, <1>4, <1>5, <1>6

\* A sequence of frames without repetition is no longer than there are frames.
LEMMA DistinctFrames ==
  ASSUME NEW s \in Seq(Frames), Distinct(s)
  PROVE  Len(s) <= NumFrames
<1>1. NumFrames \in Nat /\ Len(s) \in Nat /\ s \in [1..Len(s) -> Frames]
  BY FreeListAssumption, LenProperties
<1>2. /\ IsFiniteSet(1..Len(s)) /\ Cardinality(1..Len(s)) = Len(s)
      /\ IsFiniteSet(Frames) /\ Cardinality(Frames) = NumFrames
  <2>1. /\ IsFiniteSet(1..Len(s))
        /\ Cardinality(1..Len(s)) = IF 1 > Len(s) THEN 0 ELSE Len(s) - 1 + 1
    BY <1>1, FS_Interval
  <2>2. /\ IsFiniteSet(0..(NumFrames - 1))
        /\ Cardinality(0..(NumFrames - 1)) = IF 0 > NumFrames - 1 THEN 0 ELSE NumFrames - 1 - 0 + 1
    <3>1. 0 \in Int /\ NumFrames - 1 \in Int
      BY <1>1
    <3> QED
      BY <3>1, FS_Interval
  <2> QED
    BY <1>1, <2>1, <2>2, FreeListAssumption DEF Frames
<1>3. ASSUME NumFrames < Len(s)
      PROVE  FALSE
  <2>1. \E x, y \in 1..Len(s) : x # y /\ s[x] = s[y]
    BY <1>1, <1>2, <1>3, FS_PigeonHole
  <2> QED
    BY <2>1 DEF Distinct
<1> QED
  BY <1>1, <1>3

----------------------------------------------------------------------------
(* The free list: indices that wrap over a buffer of FreeCap slots. *)

\* Division with remainder, both ways.
LEMMA DivMod ==
  ASSUME NEW b \in Nat \ {0}, NEW a \in Int
  PROVE  a \div b \in Int /\ a % b \in 0..(b - 1) /\ a = b * (a \div b) + (a % b)
  OBVIOUS

LEMMA ModUnique ==
  ASSUME NEW b \in Nat \ {0}, NEW q \in Int, NEW r \in 0..(b - 1)
  PROVE  (q * b + r) % b = r
  OBVIOUS

LEMMA Sizes ==
  /\ NumFrames \in Nat \ {0} /\ FreeCap \in Nat \ {0} /\ UsizeSpace \in Nat \ {0}
  /\ InitHeadroom \in Nat /\ NumFrames + InitHeadroom <= FreeCap
  /\ NumFrames <= FreeCap /\ FreeCap < UsizeSpace
  BY FreeListAssumption

\* The buffer fits a whole number of times in the index space.
LEMMA SlotRound ==
  ASSUME NEW a \in Int
  PROVE  (a - UsizeSpace) % FreeCap = a % FreeCap
<1> DEFINE C == FreeCap
           U == UsizeSpace
<1>1. C \in Nat \ {0} /\ U \in Nat /\ U % C = 0
  BY Sizes, FreeListAssumption
<1>2. PICK k \in Int : U = C * k
  <2>1. U \div C \in Int /\ U = C * (U \div C) + (U % C)
    BY <1>1, DivMod
  <2> HIDE DEF C, U
  <2>2. U = C * (U \div C)
    BY <1>1, <2>1
  <2> QED
    BY <2>1, <2>2
<1>3. a \div C \in Int /\ a % C \in 0..(C - 1) /\ a = C * (a \div C) + (a % C)
  BY <1>1, DivMod
<1> HIDE DEF C, U
<1>4. PICK q \in Int, r \in 0..(C - 1) : r = a % C /\ a = C * q + r
  BY <1>3
<1>5. PICK p \in Int : a - U = p * C + r
  <2>1. a - U = (q - k) * C + r /\ q - k \in Int
    BY <1>1, <1>2, <1>4
  <2> QED
    BY <2>1
<1>6. (a - U) % C = r
  <2>1. (p * C + r) % C = r
    BY <1>1, ModUnique
  <2> QED
    BY <1>5, <2>1
<1> QED
  BY <1>4, <1>6 DEF C, U

\* Within one round no slot comes twice.
LEMMA SlotsDiffer ==
  ASSUME NEW a \in Int, NEW n \in 1..(FreeCap - 1)
  PROVE  (a + n) % FreeCap # a % FreeCap
<1> DEFINE C == FreeCap
<1>1. C \in Nat \ {0}
  BY Sizes
<1>2. a \div C \in Int /\ a % C \in 0..(C - 1) /\ a = C * (a \div C) + (a % C)
  BY <1>1, DivMod
<1>3. n \in 1..(C - 1)
  OBVIOUS
<1> HIDE DEF C
<1>4. PICK q \in Int, r \in 0..(C - 1) : r = a % C /\ a = C * q + r
  BY <1>2
<1>5. CASE r + n < C
  <2>1. a + n = q * C + (r + n) /\ r + n \in 0..(C - 1)
    BY <1>1, <1>3, <1>4, <1>5
  <2>2. (a + n) % C = r + n
    BY <1>1, <2>1, ModUnique
  <2> QED
    BY <1>3, <1>4, <2>2 DEF C
<1>6. CASE r + n >= C
  <2>1. PICK p \in Int : a + n = p * C + (r + n - C)
    <3>1. a + n = (q + 1) * C + (r + n - C) /\ q + 1 \in Int
      BY <1>1, <1>3, <1>4, <1>6
    <3> QED
      BY <3>1
  <2>2. r + n - C \in 0..(C - 1)
    BY <1>1, <1>3, <1>4, <1>6
  <2>3. (a + n) % C = r + n - C
    BY <1>1, <2>1, <2>2, ModUnique
  <2> QED
    BY <1>1, <1>3, <1>4, <2>3 DEF C
<1> QED
  BY <1>1, <1>3, <1>4, <1>5, <1>6

UsizeRange == 0..(UsizeSpace - 1)

\* How the difference of two indices follows their moves.
LEMMA WrapValue ==
  ASSUME NEW a \in UsizeRange, NEW b \in UsizeRange
  PROVE  /\ (a - b) % UsizeSpace = IF a >= b THEN a - b ELSE a - b + UsizeSpace
         /\ (a - b) % UsizeSpace \in UsizeRange
         /\ (a + 1) % UsizeSpace = IF a + 1 < UsizeSpace THEN a + 1 ELSE 0
         /\ (a + 1) % UsizeSpace \in UsizeRange
<1> DEFINE U == UsizeSpace
<1>1. U \in Nat \ {0} /\ a \in 0..(U - 1) /\ b \in 0..(U - 1)
  BY Sizes DEF UsizeRange
<1> HIDE DEF U
<1>2. (a - b) % U = IF a >= b THEN a - b ELSE a - b + U
  <2>1. CASE a >= b
    <3>1. a - b = 0 * U + (a - b) /\ a - b \in 0..(U - 1)
      BY <1>1, <2>1
    <3> QED
      BY <1>1, <2>1, <3>1, ModUnique
  <2>2. CASE ~(a >= b)
    <3>1. a - b = (-1) * U + (a - b + U) /\ a - b + U \in 0..(U - 1)
      BY <1>1, <2>2
    <3> QED
      BY <1>1, <2>2, <3>1, ModUnique
  <2> QED
    BY <2>1, <2>2
<1>3. (a + 1) % U = IF a + 1 < U THEN a + 1 ELSE 0
  <2>1. CASE a + 1 < U
    <3>1. a + 1 = 0 * U + (a + 1) /\ a + 1 \in 0..(U - 1)
      BY <1>1, <2>1
    <3> QED
      BY <1>1, <2>1, <3>1, ModUnique
  <2>2. CASE ~(a + 1 < U)
    <3>1. a + 1 = 1 * U + 0 /\ 0 \in 0..(U - 1)
      BY <1>1, <2>2
    <3> QED
      BY <1>1, <2>2, <3>1, ModUnique
  <2> QED
    BY <2>1, <2>2
<1>4. (a - b) % U \in 0..(U - 1) /\ (a + 1) % U \in 0..(U - 1)
  BY <1>1, <1>2, <1>3
<1> QED
  BY <1>2, <1>3, <1>4 DEF U, UsizeRange

LEMMA SlotOf ==
  ASSUME NEW a \in Int
  PROVE  a % FreeCap \in 0..(FreeCap - 1)
  BY Sizes, DivMod

LEMMA UsedRange ==
  ASSUME NEW l \in FreeLists
  PROVE  /\ Used(l) \in UsizeRange /\ l.head \in UsizeRange /\ l.tail \in UsizeRange
         /\ Used(l) = IF l.tail >= l.head THEN l.tail - l.head
                      ELSE l.tail - l.head + UsizeSpace
         /\ IsEmpty(l) <=> Used(l) = 0
<1>1. l.head \in UsizeRange /\ l.tail \in UsizeRange
  BY DEF FreeLists, UsizeRange
<1>2. /\ Used(l) = IF l.tail >= l.head THEN l.tail - l.head
                   ELSE l.tail - l.head + UsizeSpace
      /\ Used(l) \in UsizeRange
  BY <1>1, WrapValue DEF Used
<1> QED
  BY <1>1, <1>2, Sizes DEF UsizeRange, IsEmpty

LEMMA ListedSeq ==
  ASSUME NEW l \in FreeLists
  PROVE  /\ Listed(l) \in Seq(Frames) /\ Len(Listed(l)) = Used(l)
         /\ \A i \in 1..Used(l) : Listed(l)[i] = l.buf[(l.head + i - 1) % FreeCap]
<1>1. Used(l) \in Nat /\ l.head \in Nat
  BY UsedRange, Sizes DEF UsizeRange
<1>2. \A i \in 1..Used(l) : l.buf[(l.head + i - 1) % FreeCap] \in Frames
  <2> TAKE i \in 1..Used(l)
  <2>1. l.head + i - 1 \in Int
    BY <1>1
  <2>2. (l.head + i - 1) % FreeCap \in 0..(FreeCap - 1)
    BY <2>1, SlotOf
  <2> QED
    BY <2>2 DEF FreeLists
<1> QED
  BY <1>1, <1>2 DEF Listed

\* try_pop takes the first frame of the list ...
LEMMA PopTakes ==
  ASSUME NEW l \in FreeLists, ~IsEmpty(l)
  PROVE  /\ PopFront(l) \in FreeLists /\ Front(l) \in Frames
         /\ Used(PopFront(l)) = Used(l) - 1
         /\ Listed(l) = <<Front(l)>> \o Listed(PopFront(l))
<1> DEFINE m == PopFront(l)
<1>1. /\ l.head \in UsizeRange /\ l.tail \in UsizeRange /\ Used(l) \in UsizeRange
      /\ Used(l) = IF l.tail >= l.head THEN l.tail - l.head ELSE l.tail - l.head + UsizeSpace
      /\ Used(l) # 0
  BY UsedRange
<1>2. /\ (l.head + 1) % UsizeSpace = IF l.head + 1 < UsizeSpace THEN l.head + 1 ELSE 0
      /\ (l.head + 1) % UsizeSpace \in UsizeRange
  BY <1>1, WrapValue
<1>3. m \in FreeLists /\ m.buf = l.buf /\ m.tail = l.tail /\ m.head = (l.head + 1) % UsizeSpace
  BY <1>2 DEF FreeLists, PopFront, UsizeRange
<1>4. /\ Used(m) \in UsizeRange
      /\ Used(m) = IF m.tail >= m.head THEN m.tail - m.head ELSE m.tail - m.head + UsizeSpace
  BY <1>3, UsedRange
<1>5. /\ Listed(l) \in Seq(Frames) /\ Len(Listed(l)) = Used(l)
      /\ \A i \in 1..Used(l) : Listed(l)[i] = l.buf[(l.head + i - 1) % FreeCap]
  BY ListedSeq
<1>6. /\ Listed(m) \in Seq(Frames) /\ Len(Listed(m)) = Used(m)
      /\ \A i \in 1..Used(m) : Listed(m)[i] = m.buf[(m.head + i - 1) % FreeCap]
  BY <1>3, ListedSeq
<1> HIDE DEF m
<1>7. Used(m) = Used(l) - 1
  BY <1>1, <1>2, <1>3, <1>4, Sizes DEF UsizeRange
<1>8. Front(l) \in Frames /\ Front(l) = Listed(l)[1]
  <2>1. 1 \in 1..Used(l) /\ l.head \in Int /\ l.head + 1 - 1 = l.head
    BY <1>1, Sizes DEF UsizeRange
  <2>2. l.head % FreeCap \in 0..(FreeCap - 1)
    BY <2>1, SlotOf
  <2> QED
    BY <1>5, <2>1, <2>2 DEF Front, FreeLists
<1>9. \A i \in 1..Used(m) : Listed(m)[i] = Listed(l)[i + 1]
  <2> TAKE i \in 1..Used(m)
  <2>1. /\ i + 1 \in 1..Used(l) /\ l.head + (i + 1) - 1 = l.head + i /\ l.head + i \in Int
        /\ l.head + i - UsizeSpace \in Int
    BY <1>1, <1>4, <1>7, Sizes DEF UsizeRange
  <2>2. m.head + i - 1 = l.head + i \/ m.head + i - 1 = (l.head + i) - UsizeSpace
    BY <1>1, <1>2, <1>3, <1>4, Sizes DEF UsizeRange
  <2>3. (m.head + i - 1) % FreeCap = (l.head + i) % FreeCap
    BY <2>1, <2>2, SlotRound
  <2>4. Listed(l)[i + 1] = l.buf[(l.head + i) % FreeCap]
    BY <1>5, <2>1
  <2> QED
    BY <1>3, <1>6, <2>3, <2>4
<1>10. Listed(l) # <<>> /\ Head(Listed(l)) = Front(l)
  <2>1. Len(Listed(l)) # 0
    BY <1>1, <1>5
  <2> QED
    BY <1>5, <1>8, <2>1
<1>11. Tail(Listed(l)) = Listed(m)
  <2>1. /\ Tail(Listed(l)) \in Seq(Frames) /\ Len(Tail(Listed(l))) = Used(l) - 1
        /\ \A i \in 1..Len(Tail(Listed(l))) : Tail(Listed(l))[i] = Listed(l)[i + 1]
    BY <1>5, <1>10, HeadTailProperties
  <2> QED
    BY <1>6, <1>7, <1>9, <2>1, SeqEqual
<1>12. Listed(l) = <<Front(l)>> \o Listed(m)
  BY <1>5, <1>10, <1>11, HeadAndTail
<1> QED
  BY <1>3, <1>7, <1>8, <1>12 DEF m

\* ... and try_push, when it does not refuse, adds one at the end; what it
\* writes is no slot in use unless the list has overrun its buffer.
LEMMA PushAdds ==
  ASSUME NEW l \in FreeLists, NEW v \in Frames, ~Full(l)
  PROVE  /\ TryPush(l, v) \in FreeLists
         /\ Used(TryPush(l, v)) = Used(l) + 1
         /\ TryPush(l, v).headroom = l.headroom
         /\ Used(l) < FreeCap => Listed(TryPush(l, v)) = Listed(l) \o <<v>>
<1> DEFINE m == TryPush(l, v)
<1>1. /\ l.head \in UsizeRange /\ l.tail \in UsizeRange /\ Used(l) \in UsizeRange
      /\ Used(l) = IF l.tail >= l.head THEN l.tail - l.head ELSE l.tail - l.head + UsizeSpace
  BY UsedRange
<1>2. /\ (l.tail + 1) % UsizeSpace = IF l.tail + 1 < UsizeSpace THEN l.tail + 1 ELSE 0
      /\ (l.tail + 1) % UsizeSpace \in UsizeRange
  BY <1>1, WrapValue
<1>3. l.tail % FreeCap \in 0..(FreeCap - 1)
  <2>1. l.tail \in Int
    BY <1>1, Sizes DEF UsizeRange
  <2> QED
    BY <2>1, SlotOf
<1>4. /\ m \in FreeLists /\ m.buf = [l.buf EXCEPT ![l.tail % FreeCap] = v]
      /\ m.head = l.head /\ m.tail = (l.tail + 1) % UsizeSpace /\ m.headroom = l.headroom
  BY <1>2, <1>3 DEF FreeLists, TryPush, PushInto, UsizeRange
<1>5. Used(l) + 1 < UsizeSpace
  <2>1. Usable(l) \in 0..(UsizeSpace - 1)
    <3>1. FreeCap - l.headroom \in Int
      BY Sizes DEF FreeLists
    <3> QED
      BY <3>1, Sizes, DivMod DEF Usable
  <2>2. Used(l) < Usable(l)
    BY <1>1, <2>1, Sizes DEF Full, UsizeRange
  <2> QED
    BY <1>1, <2>1, <2>2, Sizes DEF UsizeRange
<1>6. /\ Used(m) \in UsizeRange
      /\ Used(m) = IF m.tail >= m.head THEN m.tail - m.head ELSE m.tail - m.head + UsizeSpace
  BY <1>4, UsedRange
<1>7. /\ Listed(l) \in Seq(Frames) /\ Len(Listed(l)) = Used(l)
      /\ \A i \in 1..Used(l) : Listed(l)[i] = l.buf[(l.head + i - 1) % FreeCap]
  BY ListedSeq
<1>8. /\ Listed(m) \in Seq(Frames) /\ Len(Listed(m)) = Used(m)
      /\ \A i \in 1..Used(m) : Listed(m)[i] = m.buf[(m.head + i - 1) % FreeCap]
  BY <1>4, ListedSeq
<1> HIDE DEF m
<1>9. Used(m) = Used(l) + 1
  BY <1>1, <1>2, <1>4, <1>5, <1>6, Sizes DEF UsizeRange
<1>10. ASSUME Used(l) < FreeCap
       PROVE  Listed(m) = Listed(l) \o <<v>>
  <2>1. \A i \in 1..Used(l) : Listed(m)[i] = Listed(l)[i]
    <3> TAKE i \in 1..Used(l)
    <3>1. i \in 1..Used(m) /\ l.head + i - 1 \in Int
      BY <1>1, <1>9, Sizes DEF UsizeRange
    <3>2. (l.head + i - 1) % FreeCap # l.tail % FreeCap
      <4>1. PICK n \in 1..(FreeCap - 1) : n = Used(l) - (i - 1)
        BY <1>1, <1>10, Sizes DEF UsizeRange
      <4>2. l.tail = (l.head + i - 1) + n \/ l.tail = ((l.head + i - 1) + n) - UsizeSpace
        BY <1>1, <4>1, Sizes DEF UsizeRange
      <4>3. ((l.head + i - 1) + n) % FreeCap # (l.head + i - 1) % FreeCap
        BY <3>1, SlotsDiffer
      <4>4. (l.head + i - 1) + n \in Int
        BY <3>1
      <4> QED
        BY <4>2, <4>3, <4>4, SlotRound
    <3>3. (l.head + i - 1) % FreeCap \in 0..(FreeCap - 1)
      BY <3>1, SlotOf
    <3> QED
      BY <1>4, <1>7, <1>8, <3>1, <3>2, <3>3 DEF FreeLists
  <2>2. Listed(m)[Used(l) + 1] = v
    <3>1. Used(l) + 1 \in 1..Used(m) /\ l.head + (Used(l) + 1) - 1 = l.head + Used(l)
      BY <1>1, <1>9, Sizes DEF UsizeRange
    <3>2. l.tail = l.head + Used(l) \/ l.tail = (l.head + Used(l)) - UsizeSpace
      BY <1>1, Sizes DEF UsizeRange
    <3>3. l.head + Used(l) \in Int
      BY <1>1, Sizes DEF UsizeRange
    <3>4. (l.head + Used(l)) % FreeCap = l.tail % FreeCap
      BY <3>2, <3>3, SlotRound
    <3>5. Listed(m)[Used(l) + 1] = m.buf[(l.head + Used(l)) % FreeCap]
      BY <1>4, <1>8, <3>1
    <3> QED
      BY <1>3, <1>4, <3>4, <3>5 DEF FreeLists
  <2>3. /\ Listed(l) \o <<v>> \in Seq(Frames) /\ Len(Listed(l) \o <<v>>) = Used(l) + 1
        /\ \A i \in 1..Used(l) : (Listed(l) \o <<v>>)[i] = Listed(l)[i]
        /\ (Listed(l) \o <<v>>)[Used(l) + 1] = v
    <3>1. <<v>> \in Seq(Frames) /\ Len(<<v>>) = 1 /\ <<v>>[1] = v
      OBVIOUS
    <3>2. Used(l) \in Nat
      BY <1>1, Sizes DEF UsizeRange
    <3> QED
      BY <1>7, <3>1, <3>2, ConcatProperties
  <2>4. \A i \in 1..(Used(l) + 1) : i \in 1..Used(l) \/ i = Used(l) + 1
    BY <1>1, Sizes DEF UsizeRange
  <2> QED
    BY <1>8, <1>9, <2>1, <2>2, <2>3, <2>4, SeqEqual
<1> QED
  BY <1>4, <1>9, <1>10 DEF m

\* At first every frame is on the list, once.
LEMMA FullListed ==
  /\ FullList \in FreeLists /\ Used(FullList) = NumFrames
  /\ Distinct(Listed(FullList)) /\ Range(Listed(FullList)) = Frames
<1> DEFINE l == FullList
<1>1. NumFrames \in 0..(UsizeSpace - 1) /\ NumFrames % UsizeSpace = NumFrames
  <2>1. NumFrames = 0 * UsizeSpace + NumFrames /\ NumFrames \in 0..(UsizeSpace - 1)
    BY Sizes
  <2> QED
    BY <2>1, Sizes, ModUnique
<1>2. /\ l \in FreeLists /\ l.head = 0 /\ l.tail = NumFrames
      /\ \A i \in 0..(FreeCap - 1) : l.buf[i] = IF i < NumFrames THEN i ELSE 0
  BY <1>1, Sizes DEF FreeLists, FullList, Frames
<1> HIDE DEF l
<1>3. Used(l) = NumFrames
  BY <1>2, UsedRange, Sizes
<1>4. /\ Listed(l) \in Seq(Frames) /\ Len(Listed(l)) = NumFrames
      /\ \A i \in 1..NumFrames : Listed(l)[i] = l.buf[(l.head + i - 1) % FreeCap]
  BY <1>2, <1>3, ListedSeq
<1>5. \A i \in 1..NumFrames : Listed(l)[i] = i - 1
  <2> TAKE i \in 1..NumFrames
  <2>1. /\ i - 1 = 0 * FreeCap + (i - 1) /\ i - 1 \in 0..(FreeCap - 1) /\ i - 1 < NumFrames
        /\ l.head + i - 1 = i - 1
    BY <1>2, Sizes
  <2>2. (i - 1) % FreeCap = i - 1
    BY <2>1, Sizes, ModUnique
  <2> QED
    BY <1>2, <1>4, <2>1, <2>2
<1>6. Distinct(Listed(l))
  BY <1>4, <1>5, Sizes DEF Distinct
<1>7. Range(Listed(l)) = {Listed(l)[i] : i \in 1..NumFrames}
  BY <1>4, RangeEquality
<1>8. \A f \in Frames : f + 1 \in 1..NumFrames /\ (f + 1) - 1 = f
  BY Sizes DEF Frames
<1>9. Range(Listed(l)) = Frames
  <2>1. \A f \in Frames : \E i \in 1..NumFrames : Listed(l)[i] = f
    BY <1>5, <1>8
  <2>2. \A i \in 1..NumFrames : Listed(l)[i] \in Frames
    BY <1>5, Sizes DEF Frames
  <2> QED
    BY <1>7, <2>1, <2>2
<1> QED
  BY <1>2, <1>3, <1>6, <1>9 DEF l

----------------------------------------------------------------------------
(* The invariant. *)

\* What the sender's step says about what it has in its hands.
Stage ==
  /\ pc # "giveback" => comps = <<>>
  /\ pc \in {"idle", "reclaim", "giveback", "wait"} => addrs = <<>>
  /\ pc = "alloc" => Len(addrs) <= Len(batch)
  /\ pc \in {"reserve", "publish"} => Len(addrs) = Len(batch)
  /\ pc = "publish" => room <= Len(addrs) /\ Len(tx) + room <= TxCap
  /\ pc = "wait" => attempt < MaxRetries

\* The six places a frame can be, and the frames at each.
PlaceIds == 1..6
Places ==
  <<Range(Listed(fl)), Range(comps), Range(addrs),
    Range(FramesOf(tx)), Range(FramesOf(inflight)), Range(comp)>>

Apart(at) == \A a, b \in PlaceIds : a # b => at[a] \cap at[b] = {}
Cover(at) == \A f \in Frames : \E a \in PlaceIds : f \in at[a]

\* No frame is at one place twice, nor at two places.
OneOwner ==
  clean => /\ Distinct(Listed(fl)) /\ Distinct(comps) /\ Distinct(addrs)
           /\ Distinct(FramesOf(tx)) /\ Distinct(FramesOf(inflight)) /\ Distinct(comp)
           /\ Apart(Places)

RoomForAll == roomy => Usable(fl) >= NumFrames

AllOwned == clean /\ roomy => Cover(Places)

\* The frames allocated so far hold the packets of the batch.
InHand ==
  clean /\ pc \in {"alloc", "reserve", "publish"} =>
    \A i \in 1..Len(addrs) : Holds(mem[addrs[i]], batch[i])

SocketInv ==
  /\ TypeOK /\ Stage /\ OneOwner /\ RoomForAll /\ AllOwned /\ InHand /\ PayloadIntact

----------------------------------------------------------------------------
(* Places and what moves between them. *)

LEMMA FramesOfSeq ==
  ASSUME NEW q \in Seq(Queued)
  PROVE  FramesOf(q) \in Seq(Frames) /\ Len(FramesOf(q)) = Len(q)
<1>1. Len(q) \in Nat /\ \A i \in 1..Len(q) : q[i] \in Queued
  BY LenProperties, ElementOfSeq
<1>2. \A i \in 1..Len(q) : q[i].frame \in Frames
  BY <1>1 DEF Queued
<1> QED
  BY <1>1, <1>2 DEF FramesOf

LEMMA FramesOfConcat ==
  ASSUME NEW q \in Seq(Queued), NEW r \in Seq(Queued)
  PROVE  FramesOf(q \o r) = FramesOf(q) \o FramesOf(r)
<1> DEFINE u == q \o r
           v == FramesOf(q) \o FramesOf(r)
<1>1. /\ u \in Seq(Queued) /\ Len(u) = Len(q) + Len(r) /\ Len(q) \in Nat /\ Len(r) \in Nat
      /\ \A i \in 1..(Len(q) + Len(r)) : u[i] = IF i <= Len(q) THEN q[i] ELSE r[i - Len(q)]
  BY ConcatProperties, LenProperties
<1>2. /\ FramesOf(q) \in Seq(Frames) /\ FramesOf(r) \in Seq(Frames) /\ FramesOf(u) \in Seq(Frames)
      /\ Len(FramesOf(q)) = Len(q) /\ Len(FramesOf(r)) = Len(r) /\ Len(FramesOf(u)) = Len(u)
  BY <1>1, FramesOfSeq
<1>3. /\ v \in Seq(Frames) /\ Len(v) = Len(q) + Len(r)
      /\ \A i \in 1..(Len(q) + Len(r)) :
           v[i] = IF i <= Len(q) THEN FramesOf(q)[i] ELSE FramesOf(r)[i - Len(q)]
  BY <1>2, ConcatProperties
<1>4. /\ \A i \in 1..Len(q) : FramesOf(q)[i] = q[i].frame
      /\ \A i \in 1..Len(r) : FramesOf(r)[i] = r[i].frame
      /\ \A i \in 1..Len(u) : FramesOf(u)[i] = u[i].frame
  BY DEF FramesOf
<1> HIDE DEF u, v
<1>5. ASSUME NEW i \in 1..Len(u)
      PROVE  FramesOf(u)[i] = v[i]
  <2>1. CASE i <= Len(q)
    <3>1. i \in 1..Len(q)
      BY <1>1, <2>1
    <3> QED
      BY <1>1, <1>3, <1>4, <2>1, <3>1
  <2>2. CASE ~(i <= Len(q))
    <3>1. i - Len(q) \in 1..Len(r)
      BY <1>1, <2>2
    <3> QED
      BY <1>1, <1>3, <1>4, <2>2, <3>1
  <2> QED
    BY <2>1, <2>2
<1>6. FramesOf(u) = v
  BY <1>1, <1>2, <1>3, <1>5, SeqEqual
<1> QED
  BY <1>6 DEF u, v

LEMMA FramesOfOne ==
  ASSUME NEW x \in Queued
  PROVE  FramesOf(<<x>>) = <<x.frame>> /\ x.frame \in Frames
<1>1. x.frame \in Frames
  BY DEF Queued
<1>2. /\ <<x>> \in Seq(Queued) /\ Len(<<x>>) = 1 /\ <<x>>[1] = x
      /\ <<x.frame>> \in Seq(Frames) /\ Len(<<x.frame>>) = 1 /\ <<x.frame>>[1] = x.frame
  BY <1>1
<1>3. FramesOf(<<x>>) \in Seq(Frames) /\ Len(FramesOf(<<x>>)) = 1
  BY <1>2, FramesOfSeq
<1>4. FramesOf(<<x>>)[1] = x.frame
  BY <1>2 DEF FramesOf
<1>5. \A i \in 1..1 : FramesOf(<<x>>)[i] = <<x.frame>>[i]
  BY <1>2, <1>4
<1> QED
  BY <1>1, <1>2, <1>3, <1>5, SeqEqual

\* The frames of X leave place a, and those that are not refused go to b.
Moves(P, Q, a, b, X) ==
  /\ a \in PlaceIds /\ b \in PlaceIds /\ a # b
  /\ X \subseteq P[a] /\ Q[a] \subseteq P[a] /\ P[a] \subseteq Q[a] \cup X
  /\ P[b] \subseteq Q[b] /\ Q[b] \subseteq P[b] \cup X
  /\ \A c \in PlaceIds : c # a /\ c # b => Q[c] = P[c]

LEMMA MovedApart ==
  ASSUME NEW P, NEW Q, NEW a, NEW b, NEW X, Moves(P, Q, a, b, X), Apart(P), X \cap Q[a] = {}
  PROVE  Apart(Q)
<1> SUFFICES ASSUME NEW c \in PlaceIds, NEW d \in PlaceIds, c # d, NEW f,
                    f \in Q[c], f \in Q[d]
             PROVE  FALSE
  BY DEF Apart
<1>1. /\ a \in PlaceIds /\ b \in PlaceIds /\ a # b
      /\ X \subseteq P[a] /\ Q[a] \subseteq P[a] /\ Q[b] \subseteq P[b] \cup X
      /\ \A e \in PlaceIds : e # a /\ e # b => Q[e] = P[e]
  BY DEF Moves
<1>2. \A e \in PlaceIds : e # a => ~(f \in P[e] /\ f \in P[a])
  BY <1>1 DEF Apart
<1>3. \A e \in PlaceIds : e # b => ~(f \in P[e] /\ f \in P[b])
  BY <1>1 DEF Apart
<1>4. ~(f \in P[c] /\ f \in P[d])
  BY DEF Apart
<1> QED
  BY <1>1, <1>2, <1>3, <1>4

LEMMA MovedCover ==
  ASSUME NEW P, NEW Q, NEW a, NEW b, NEW X, Moves(P, Q, a, b, X), Cover(P), X \subseteq Q[b]
  PROVE  Cover(Q)
<1> SUFFICES ASSUME NEW f \in Frames
             PROVE  \E c \in PlaceIds : f \in Q[c]
  BY DEF Cover
<1>1. PICK c \in PlaceIds : f \in P[c]
  BY DEF Cover
<1> QED
  BY <1>1 DEF Moves

\* Held is the six places one after the other.
LEMMA HeldIsPlaces ==
  ASSUME TypeOK
  PROVE  /\ Listed(fl) \in Seq(Frames) /\ comps \in Seq(Frames) /\ addrs \in Seq(Frames)
         /\ FramesOf(tx) \in Seq(Frames) /\ FramesOf(inflight) \in Seq(Frames)
         /\ comp \in Seq(Frames) /\ Held \in Seq(Frames)
         /\ Range(Held) = UNION {Places[a] : a \in PlaceIds}
         /\ OneOwner /\ clean => Distinct(Held)
<1> DEFINE s1 == Listed(fl)
           s2 == comps
           s3 == addrs
           s4 == FramesOf(tx)
           s5 == FramesOf(inflight)
           s6 == comp
<1>1. s1 \in Seq(Frames) /\ s2 \in Seq(Frames) /\ s3 \in Seq(Frames)
      /\ s4 \in Seq(Frames) /\ s5 \in Seq(Frames) /\ s6 \in Seq(Frames)
  BY ListedSeq, FramesOfSeq DEF TypeOK
<1>2. /\ Places[1] = Range(s1) /\ Places[2] = Range(s2) /\ Places[3] = Range(s3)
      /\ Places[4] = Range(s4) /\ Places[5] = Range(s5) /\ Places[6] = Range(s6)
  BY DEF Places
<1>3. Held = ((((s1 \o s2) \o s3) \o s4) \o s5) \o s6
  BY DEF Held
<1>4. OneOwner /\ clean =>
        /\ Distinct(s1) /\ Distinct(s2) /\ Distinct(s3)
        /\ Distinct(s4) /\ Distinct(s5) /\ Distinct(s6)
        /\ Apart(Places)
  BY DEF OneOwner
<1> HIDE DEF s1, s2, s3, s4, s5, s6
<1> DEFINE t2 == s1 \o s2
           t3 == t2 \o s3
           t4 == t3 \o s4
           t5 == t4 \o s5
           t6 == t5 \o s6
<1>5. /\ t2 \in Seq(Frames) /\ Range(t2) = Range(s1) \cup Range(s2)
      /\ Distinct(t2) <=> Distinct(s1) /\ Distinct(s2) /\ Range(s1) \cap Range(s2) = {}
  BY <1>1, ConcatProperties, RangeConcatenation, DistinctConcat
<1> HIDE DEF t2
<1>6. /\ t3 \in Seq(Frames) /\ Range(t3) = Range(t2) \cup Range(s3)
      /\ Distinct(t3) <=> Distinct(t2) /\ Distinct(s3) /\ Range(t2) \cap Range(s3) = {}
  BY <1>1, <1>5, ConcatProperties, RangeConcatenation, DistinctConcat
<1> HIDE DEF t3
<1>7. /\ t4 \in Seq(Frames) /\ Range(t4) = Range(t3) \cup Range(s4)
      /\ Distinct(t4) <=> Distinct(t3) /\ Distinct(s4) /\ Range(t3) \cap Range(s4) = {}
  BY <1>1, <1>6, ConcatProperties, RangeConcatenation, DistinctConcat
<1> HIDE DEF t4
<1>8. /\ t5 \in Seq(Frames) /\ Range(t5) = Range(t4) \cup Range(s5)
      /\ Distinct(t5) <=> Distinct(t4) /\ Distinct(s5) /\ Range(t4) \cap Range(s5) = {}
  BY <1>1, <1>7, ConcatProperties, RangeConcatenation, DistinctConcat
<1> HIDE DEF t5
<1>9. /\ t6 \in Seq(Frames) /\ Range(t6) = Range(t5) \cup Range(s6)
      /\ Distinct(t6) <=> Distinct(t5) /\ Distinct(s6) /\ Range(t5) \cap Range(s6) = {}
  BY <1>1, <1>8, ConcatProperties, RangeConcatenation, DistinctConcat
<1>10. Held = t6
  BY <1>3 DEF t2, t3, t4, t5
<1> HIDE DEF t6
<1>11. Range(t6) = UNION {Places[a] : a \in PlaceIds}
  <2>1. Range(t6) = Places[1] \cup Places[2] \cup Places[3] \cup Places[4] \cup Places[5] \cup Places[6]
    BY <1>2, <1>5, <1>6, <1>7, <1>8, <1>9
  <2>2. PlaceIds = {1, 2, 3, 4, 5, 6}
    BY DEF PlaceIds
  <2> HIDE DEF Places
  <2> QED
    BY <2>1, <2>2
<1>12. ASSUME OneOwner, clean
       PROVE  Distinct(t6)
  <2>1. \A a, b \in PlaceIds : a # b => Places[a] \cap Places[b] = {}
    BY <1>4, <1>12 DEF Apart
  <2>2. /\ Range(s1) \cap Range(s2) = {}
        /\ Range(s1) \cap Range(s3) = {} /\ Range(s2) \cap Range(s3) = {}
        /\ Range(s1) \cap Range(s4) = {} /\ Range(s2) \cap Range(s4) = {}
        /\ Range(s3) \cap Range(s4) = {}
    BY <1>2, <2>1 DEF PlaceIds
  <2>3. /\ Range(s1) \cap Range(s5) = {} /\ Range(s2) \cap Range(s5) = {}
        /\ Range(s3) \cap Range(s5) = {} /\ Range(s4) \cap Range(s5) = {}
    BY <1>2, <2>1 DEF PlaceIds
  <2>4. /\ Range(s1) \cap Range(s6) = {} /\ Range(s2) \cap Range(s6) = {}
        /\ Range(s3) \cap Range(s6) = {} /\ Range(s4) \cap Range(s6) = {}
        /\ Range(s5) \cap Range(s6) = {}
    BY <1>2, <2>1 DEF PlaceIds
  <2>5. Distinct(t2) /\ Range(t2) \cap Range(s3) = {}
    BY <1>4, <1>5, <1>12, <2>2
  <2>6. Distinct(t3) /\ Range(t3) \cap Range(s4) = {}
    BY <1>4, <1>5, <1>6, <1>12, <2>2, <2>5
  <2>7. Distinct(t4) /\ Range(t4) \cap Range(s5) = {}
    BY <1>4, <1>5, <1>6, <1>7, <1>12, <2>3, <2>6
  <2>8. Distinct(t5) /\ Range(t5) \cap Range(s6) = {}
    BY <1>4, <1>5, <1>6, <1>7, <1>8, <1>12, <2>4, <2>7
  <2> QED
    BY <1>4, <1>9, <1>12, <2>8
<1> QED
  BY <1>1, <1>9, <1>10, <1>11, <1>12 DEF s1, s2, s3, s4, s5, s6

----------------------------------------------------------------------------
(* Types and stages. *)

\* What a publish step appends to the TX ring.
Published == [i \in 1..room |-> [frame |-> addrs[i], packet |-> batch[i]]]

LEMMA PublishedSeq ==
  ASSUME TypeOK, Stage, pc = "publish"
  PROVE  /\ Published \in Seq(Queued) /\ Len(Published) = room /\ room \in Nat
         /\ \A i \in 1..room : /\ i \in 1..Len(addrs) /\ i \in 1..Len(batch)
                               /\ Published[i].frame = addrs[i]
                               /\ Published[i].packet = batch[i]
<1>1. /\ room \in Nat /\ Len(addrs) \in Nat /\ room <= Len(addrs) /\ Len(addrs) = Len(batch)
  BY LenProperties, SocketAssumption DEF TypeOK, Stage
<1>2. \A i \in 1..room : /\ i \in 1..Len(addrs) /\ i \in 1..Len(batch)
                         /\ addrs[i] \in Frames /\ batch[i] \in Packets
  BY <1>1, ElementOfSeq DEF TypeOK
<1>3. \A i \in 1..room : [frame |-> addrs[i], packet |-> batch[i]] \in Queued
  BY <1>2 DEF Queued
<1> QED
  BY <1>1, <1>2, <1>3 DEF Published

LEMMA BatchesTyped ==
  ASSUME NEW packets \in Batches
  PROVE  packets \in Seq(Packets)
  BY SocketAssumption DEF Batches

LEMMA TryPushTyped ==
  ASSUME NEW l \in FreeLists, NEW v \in Frames
  PROVE  TryPush(l, v) \in FreeLists /\ TryPush(l, v).headroom = l.headroom
<1>1. CASE Full(l)
  BY <1>1 DEF TryPush
<1>2. CASE ~Full(l)
  BY <1>2, PushAdds
<1> QED
  BY <1>1, <1>2

LEMMA StageInit ==
  ASSUME Init
  PROVE  TypeOK /\ Stage
<1>1. FullList \in FreeLists /\ 0 \in Frames
  BY FullListed, Sizes DEF Frames
<1>2. /\ <<>> \in Seq(Packets) /\ <<>> \in Seq(Frames) /\ <<>> \in Seq(Queued)
      /\ Len(<<>>) = 0 /\ 0 \in 0..MaxRetries /\ 0 \in 0..TxCap /\ 0 <= TxCap /\ 0 + 0 <= CompCap
  BY SocketAssumption
<1>3. [f \in Frames |-> NoPacket] \in [Frames -> Packets \cup {NoPacket}]
  OBVIOUS
<1>4. TypeOK
  BY <1>1, <1>2, <1>3 DEF Init, TypeOK
<1>5. Stage
  BY DEF Init, Stage
<1> QED
  BY <1>4, <1>5

LEMMA StageStep ==
  ASSUME TypeOK, Stage, [Next]_vars
  PROVE  TypeOK' /\ Stage'
<1> USE DEF kernel, sender
<1>1. /\ fl \in FreeLists /\ comps \in Seq(Frames) /\ addrs \in Seq(Frames) /\ comp \in Seq(Frames)
      /\ tx \in Seq(Queued) /\ inflight \in Seq(Queued) /\ batch \in Seq(Packets)
      /\ Len(comps) \in Nat /\ Len(addrs) \in Nat /\ Len(comp) \in Nat
      /\ Len(tx) \in Nat /\ Len(inflight) \in Nat /\ Len(batch) \in Nat
      /\ TxCap \in Nat /\ CompCap \in Nat /\ MaxReclaim \in Nat /\ MaxRetries \in Nat
      /\ room \in Nat /\ attempt \in Nat
  BY LenProperties, SocketAssumption DEF TypeOK
<1>2. ASSUME NEW packets \in Batches, Send(packets)
      PROVE  TypeOK' /\ Stage'
  <2>1. packets \in Seq(Packets)
    BY <1>2, BatchesTyped
  <2> QED
    BY <1>2, <2>1 DEF Send, TypeOK, Stage
<1>3. CASE PopCompletions
  <2> DEFINE n == Smaller(MaxReclaim, Len(comp))
  <2>1. n \in 0..Len(comp)
    BY <1>1 DEF Smaller
  <2>2. /\ comps' = SubSeq(comp, 1, n) /\ comp' = SubSeq(comp, n + 1, Len(comp))
    BY <1>3 DEF PopCompletions
  <2> HIDE DEF n
  <2>3. comps' \in Seq(Frames) /\ comp' \in Seq(Frames) /\ Len(comp') = Len(comp) - n
    BY <1>1, <2>1, <2>2, PrefixAndRest
  <2>4. Len(inflight) + Len(comp') <= CompCap
    BY <1>1, <2>1, <2>3 DEF TypeOK
  <2> QED
    BY <1>3, <2>3, <2>4 DEF PopCompletions, TypeOK, Stage
<1>4. CASE GiveBack
  <2>1. Head(comps) \in Frames /\ Tail(comps) \in Seq(Frames)
    BY <1>1, <1>4, HeadAndTail DEF GiveBack
  <2>2. fl' \in FreeLists
    BY <1>1, <1>4, <2>1, TryPushTyped DEF GiveBack
  <2> QED
    BY <1>4, <2>1, <2>2 DEF GiveBack, TypeOK, Stage
<1>5. CASE GiveBackDone
  <2>1. addrs = <<>> /\ Len(addrs) = 0
    BY <1>5 DEF GiveBackDone, Stage
  <2> QED
    BY <1>1, <1>5, <2>1 DEF GiveBackDone, TypeOK, Stage
<1>6. ASSUME NEW f \in Frames, CopyInto(f), pc = "alloc", Len(addrs) < Len(batch)
      PROVE  /\ mem' \in [Frames -> [1..FrameSize -> Packets \cup {NoPacket}]]
             /\ addrs' \in Seq(Frames) /\ Len(addrs') <= Len(batch)
  <2>1. Len(addrs) + 1 \in 1..Len(batch)
    BY <1>1, <1>6
  <2>2. batch[Len(addrs) + 1] \in Packets
    BY <1>1, <2>1, ElementOfSeq
  <2>3. addrs' \in Seq(Frames) /\ Len(addrs') = Len(addrs) + 1
    BY <1>1, <1>6, AppendProperties DEF CopyInto
  <2>4. mem' \in [Frames -> [1..FrameSize -> Packets \cup {NoPacket}]]
    <3> DEFINE q == batch[Len(addrs) + 1]
               was == mem[f]
               now == [i \in 1..FrameSize |-> IF i \in Copied(q) THEN q ELSE was[i]]
    <3>1. mem' = [mem EXCEPT ![f] = now] /\ mem \in [Frames -> [1..FrameSize -> Packets \cup {NoPacket}]]
      BY <1>6 DEF CopyInto, TypeOK
    <3>2. was \in [1..FrameSize -> Packets \cup {NoPacket}] /\ q \in Packets
      BY <1>6, <2>2, <3>1
    <3> HIDE DEF q, was
    <3>3. now \in [1..FrameSize -> Packets \cup {NoPacket}]
      BY <3>2
    <3> QED
      BY <3>1, <3>3
  <2> QED
    BY <1>1, <2>1, <2>3, <2>4
<1>7. CASE AllocFromList
  <2>1. PopFront(fl) \in FreeLists /\ Front(fl) \in Frames
    BY <1>1, <1>7, PopTakes DEF AllocFromList
  <2> QED
    BY <1>6, <1>7, <2>1 DEF AllocFromList, TypeOK, Stage
<1>8. CASE AllocFallback
  <2>1. next_frame' \in Frames
    <3>1. next_frame + 1 \in Int
      BY Sizes DEF TypeOK, Frames
    <3> QED
      BY <1>8, <3>1, Sizes, DivMod DEF AllocFallback, Frames
  <2> QED
    BY <1>6, <1>8, <2>1 DEF AllocFallback, TypeOK, Stage
<1>9. CASE AllocDone
  BY <1>9 DEF AllocDone, TypeOK, Stage
<1>10. CASE TxReserve
  <2>1. room' \in 0..TxCap /\ room' <= Len(addrs) /\ Len(tx) + room' <= TxCap
    <3>1. Len(tx) <= TxCap
      BY DEF TypeOK
    <3> QED
      BY <1>1, <1>10, <3>1 DEF TxReserve, Smaller
  <2> QED
    BY <1>10, <2>1 DEF TxReserve, TypeOK, Stage
<1>11. ASSUME Publish, pc = "publish"
       PROVE  tx' \in Seq(Queued) /\ Len(tx') <= TxCap
  <2>1. Published \in Seq(Queued) /\ Len(Published) = room /\ tx' = tx \o Published
    BY <1>11, PublishedSeq DEF Publish, Published
  <2>2. tx' \in Seq(Queued) /\ Len(tx') = Len(tx) + room
    BY <1>1, <2>1, ConcatProperties
  <2> QED
    BY <1>11, <2>2 DEF Stage
<1>12. CASE TxPublishAll
  BY <1>1, <1>11, <1>12 DEF TxPublishAll, TypeOK, Stage
<1>13. CASE TxPublishSome
  <2>1. clean' \in BOOLEAN
    BY <1>13 DEF TxPublishSome, TypeOK
  <2> QED
    BY <1>1, <1>11, <1>13, <2>1 DEF TxPublishSome, TypeOK, Stage
<1>14. CASE ReturnFrame
  <2>1. Head(addrs) \in Frames /\ Tail(addrs) \in Seq(Frames)
    BY <1>1, <1>14, HeadAndTail DEF ReturnFrame
  <2>2. fl' \in FreeLists
    BY <1>1, <1>14, <2>1, TryPushTyped DEF ReturnFrame
  <2> QED
    BY <1>14, <2>1, <2>2 DEF ReturnFrame, TypeOK, Stage
<1>15. CASE ReturnDone
  <2>1. CASE attempt = MaxRetries
    BY <1>1, <1>15, <2>1 DEF ReturnDone, TypeOK, Stage
  <2>2. CASE attempt # MaxRetries
    <3>1. attempt < MaxRetries
      BY <1>1, <2>2 DEF TypeOK
    <3> QED
      BY <1>15, <2>2, <3>1 DEF ReturnDone, TypeOK, Stage
  <2> QED
    BY <2>1, <2>2
<1>16. CASE WaitEnds
  <2>1. attempt' \in 0..MaxRetries
    BY <1>1, <1>16 DEF WaitEnds, Stage
  <2> QED
    BY <1>16, <2>1 DEF WaitEnds, TypeOK, Stage
<1>17. ASSUME NEW hr \in Headrooms, Reconfigure(hr)
       PROVE  TypeOK' /\ Stage'
  <2>1. fl' \in FreeLists
    BY <1>1, <1>17, SocketAssumption DEF Reconfigure, SetHeadroom, FreeLists
  <2>2. roomy' \in BOOLEAN
    BY <1>17 DEF Reconfigure, TypeOK
  <2> QED
    BY <1>17, <2>1, <2>2 DEF Reconfigure, TypeOK, Stage
<1>18. CASE KernelTake
  <2>1. /\ Head(tx) \in Queued /\ Tail(tx) \in Seq(Queued) /\ Len(Tail(tx)) = Len(tx) - 1
    BY <1>1, <1>18, HeadTailProperties DEF KernelTake
  <2>2. inflight' \in Seq(Queued) /\ Len(inflight') = Len(inflight) + 1
    BY <1>1, <1>18, <2>1, AppendProperties DEF KernelTake
  <2>3. Len(tx') <= TxCap /\ Len(inflight') + Len(comp) <= CompCap
        /\ (pc = "publish" => Len(tx') + room <= TxCap)
    BY <1>1, <1>18, <2>1, <2>2 DEF KernelTake, TypeOK, Stage
  <2> QED
    BY <1>18, <2>1, <2>2, <2>3 DEF KernelTake, TypeOK, Stage
<1>19. ASSUME NEW i \in 1..Len(inflight), KernelComplete(i)
       PROVE  TypeOK' /\ Stage'
  <2> DEFINE A == SubSeq(inflight, 1, i - 1)
             B == SubSeq(inflight, i + 1, Len(inflight))
  <2>1. /\ A \in Seq(Queued) /\ B \in Seq(Queued) /\ inflight[i] \in Queued
        /\ Len(inflight) = Len(A) + 1 + Len(B)
    BY <1>1, AroundPlace
  <2>2. inflight' = A \o B /\ comp' = Append(comp, inflight[i].frame)
    BY <1>19 DEF KernelComplete
  <2> HIDE DEF A, B
  <2>3. /\ inflight' \in Seq(Queued) /\ Len(inflight') = Len(A) + Len(B)
        /\ Len(A) \in Nat /\ Len(B) \in Nat
    BY <2>1, <2>2, ConcatProperties, LenProperties
  <2>4. inflight[i].frame \in Frames
    BY <2>1 DEF Queued
  <2>5. comp' \in Seq(Frames) /\ Len(comp') = Len(comp) + 1
    BY <1>1, <2>2, <2>4, AppendProperties
  <2>6. Len(inflight') + Len(comp') <= CompCap
    BY <1>1, <2>1, <2>3, <2>5 DEF TypeOK
  <2> QED
    BY <1>19, <2>3, <2>5, <2>6 DEF KernelComplete, TypeOK, Stage
<1>20. CASE UNCHANGED vars
  BY <1>20 DEF vars, TypeOK, Stage
<1> QED
  BY <1>2, <1>3, <1>4, <1>5, <1>7, <1>8, <1>9, <1>10, <1>12, <1>13, <1>14, <1>15, <1>16,
     <1>17, <1>18, <1>19, <1>20 DEF Next, SendStep

----------------------------------------------------------------------------
(* Who owns the frames. *)

LEMMA TailTaken ==
  ASSUME NEW S, NEW s \in Seq(S), s # <<>>
  PROVE  /\ Head(s) \in S /\ Tail(s) \in Seq(S)
         /\ Range(s) = {Head(s)} \cup Range(Tail(s))
         /\ Distinct(s) => Distinct(Tail(s)) /\ Head(s) \notin Range(Tail(s))
<1>1. Head(s) \in S /\ Tail(s) \in Seq(S) /\ s = <<Head(s)>> \o Tail(s)
  BY HeadAndTail
<1> DEFINE h == <<Head(s)>>
           t == Tail(s)
<1>2. h \in Seq(S) /\ Range(h) = {Head(s)} /\ t \in Seq(S)
  BY <1>1, SingletonSeq
<1> HIDE DEF h, t
<1>3. /\ Range(h \o t) = Range(h) \cup Range(t)
      /\ Distinct(h \o t) <=> Distinct(h) /\ Distinct(t) /\ Range(h) \cap Range(t) = {}
  BY <1>1, <1>2, RangeConcatenation, DistinctConcat
<1>4. s = h \o t
  BY <1>1 DEF h, t
<1>5. /\ Range(s) = {Head(s)} \cup Range(t)
      /\ Distinct(s) => Distinct(t) /\ Head(s) \notin Range(t)
  BY <1>2, <1>3, <1>4
<1> QED
  BY <1>1, <1>5 DEF t

LEMMA AppendGiven ==
  ASSUME NEW S, NEW s \in Seq(S), NEW e \in S
  PROVE  /\ Range(s \o <<e>>) = Range(s) \cup {e}
         /\ Distinct(s) /\ e \notin Range(s) => Distinct(s \o <<e>>)
         /\ Append(s, e) = s \o <<e>>
<1> DEFINE t == <<e>>
<1>1. t \in Seq(S) /\ Range(t) = {e} /\ Distinct(t)
  BY SingletonSeq
<1>2. Append(s, e) = s \o t
  BY AppendIsConcat
<1> HIDE DEF t
<1>3. /\ Range(s \o t) = Range(s) \cup Range(t)
      /\ Distinct(s \o t) <=> Distinct(s) /\ Distinct(t) /\ Range(s) \cap Range(t) = {}
  BY <1>1, RangeConcatenation, DistinctConcat
<1>4. /\ Range(s \o t) = Range(s) \cup {e}
      /\ Distinct(s) /\ e \notin Range(s) => Distinct(s \o t)
  BY <1>1, <1>3
<1> QED
  BY <1>2, <1>4 DEF t

\* A frame that comes back to a list without it: there is a slot, since the
\* frames are no more than the slots, and only a headroom can refuse it.
LEMMA GivenBack ==
  ASSUME NEW l \in FreeLists, NEW v \in Frames, Distinct(Listed(l)), v \notin Range(Listed(l))
  PROVE  /\ Distinct(Listed(TryPush(l, v)))
         /\ Range(Listed(l)) \subseteq Range(Listed(TryPush(l, v)))
         /\ Range(Listed(TryPush(l, v))) \subseteq Range(Listed(l)) \cup {v}
         /\ Usable(l) >= NumFrames =>
              Range(Listed(TryPush(l, v))) = Range(Listed(l)) \cup {v}
<1>1. Listed(l) \in Seq(Frames) /\ Len(Listed(l)) = Used(l) /\ Used(l) \in Nat
  BY ListedSeq, UsedRange, Sizes DEF UsizeRange
<1> DEFINE more == Listed(l) \o <<v>>
<1>2. /\ Range(more) = Range(Listed(l)) \cup {v} /\ Distinct(more)
      /\ more \in Seq(Frames) /\ Len(more) = Used(l) + 1
  <2>1. <<v>> \in Seq(Frames) /\ Len(<<v>>) = 1
    OBVIOUS
  <2> QED
    BY <1>1, <2>1, AppendGiven, ConcatProperties
<1> HIDE DEF more
<1>3. Used(l) + 1 <= NumFrames /\ Used(l) < FreeCap
  <2>1. Len(more) <= NumFrames
    BY <1>2, DistinctFrames
  <2> QED
    BY <1>1, <1>2, <2>1, Sizes
<1>4. CASE Full(l)
  <2>1. TryPush(l, v) = l
    BY <1>4 DEF TryPush
  <2>2. ~(Usable(l) >= NumFrames)
    <3>1. Usable(l) \in 0..(UsizeSpace - 1)
      <4>1. FreeCap - l.headroom \in Int
        BY Sizes DEF FreeLists
      <4> QED
        BY <4>1, Sizes, DivMod DEF Usable
    <3> QED
      BY <1>1, <1>3, <1>4, <3>1, Sizes DEF Full
  <2> QED
    BY <2>1, <2>2
<1>5. CASE ~Full(l)
  <2>1. Listed(TryPush(l, v)) = more
    BY <1>3, <1>5, PushAdds DEF more
  <2> QED
    BY <1>2, <2>1
<1> QED
  BY <1>4, <1>5

OwnersKept ==
  /\ clean' => clean
  /\ clean' => /\ Distinct(Listed(fl))' /\ Distinct(comps)' /\ Distinct(addrs)'
               /\ Distinct(FramesOf(tx))' /\ Distinct(FramesOf(inflight))' /\ Distinct(comp)'
               /\ Apart(Places)'
  /\ clean' /\ roomy' => Cover(Places)'
  /\ roomy' => roomy /\ Usable(fl') >= NumFrames

LEMMA KeptSuffices ==
  ASSUME OwnersKept
  PROVE  OneOwner' /\ AllOwned' /\ RoomForAll'
  BY DEF OwnersKept, OneOwner, AllOwned, RoomForAll

LEMMA NothingMoves ==
  ASSUME OneOwner, AllOwned,
         Listed(fl)' = Listed(fl), UNCHANGED <<comps, addrs, tx, inflight, comp>>,
         clean' => clean, roomy' => roomy /\ Usable(fl') >= NumFrames
  PROVE  OwnersKept
<1>1. /\ Places' = Places /\ FramesOf(tx)' = FramesOf(tx)
      /\ FramesOf(inflight)' = FramesOf(inflight)
  BY DEF Places, FramesOf
<1>2. ASSUME clean'
      PROVE  /\ Distinct(Listed(fl))' /\ Distinct(comps)' /\ Distinct(addrs)'
             /\ Distinct(FramesOf(tx))' /\ Distinct(FramesOf(inflight))' /\ Distinct(comp)'
             /\ Apart(Places)'
  BY <1>1, <1>2 DEF OneOwner, Distinct, Apart
<1>3. clean' /\ roomy' => Cover(Places)'
  BY <1>1 DEF AllOwned, Cover
<1> QED
  BY <1>2, <1>3 DEF OwnersKept

LEMMA MoveKeeps ==
  ASSUME OneOwner, AllOwned, RoomForAll,
         NEW a, NEW b, NEW X, clean => Moves(Places, Places', a, b, X),
         clean' = clean, roomy' = roomy, fl'.headroom = fl.headroom,
         clean => X \cap Places'[a] = {},
         clean /\ roomy => X \subseteq Places'[b],
         clean => /\ Distinct(Listed(fl')) /\ Distinct(comps') /\ Distinct(addrs')
                  /\ Distinct(FramesOf(tx')) /\ Distinct(FramesOf(inflight')) /\ Distinct(comp')
  PROVE  OwnersKept
<1> DEFINE P == Places
           Q == Places'
<1>1. /\ clean => Moves(P, Q, a, b, X) /\ X \cap Q[a] = {}
      /\ clean /\ roomy => X \subseteq Q[b]
  OBVIOUS
<1>2. (clean => Apart(P)) /\ (clean /\ roomy => Cover(P))
  BY DEF OneOwner, AllOwned
<1> HIDE DEF P, Q
<1>3. (clean => Apart(Q)) /\ (clean /\ roomy => Cover(Q))
  BY <1>1, <1>2, MovedApart, MovedCover
<1>4. Apart(Q) = Apart(Places)' /\ Cover(Q) = Cover(Places)'
  BY DEF Q, Apart, Cover
<1>5. /\ Distinct(Listed(fl))' = Distinct(Listed(fl')) /\ Distinct(comps)' = Distinct(comps')
      /\ Distinct(addrs)' = Distinct(addrs') /\ Distinct(FramesOf(tx))' = Distinct(FramesOf(tx'))
      /\ Distinct(FramesOf(inflight))' = Distinct(FramesOf(inflight'))
      /\ Distinct(comp)' = Distinct(comp')
  OBVIOUS
<1>6. Usable(fl') = Usable(fl)
  BY DEF Usable
<1> QED
  BY <1>3, <1>4, <1>5, <1>6 DEF OwnersKept, RoomForAll

\* A completed frame goes back to the list.
LEMMA GiveBackOwners ==
  ASSUME TypeOK, OneOwner, AllOwned, RoomForAll, GiveBack
  PROVE  OwnersKept
<1> DEFINE h == Head(comps)
<1>1. /\ fl \in FreeLists /\ comps \in Seq(Frames) /\ comps # <<>>
      /\ fl' = TryPush(fl, h) /\ comps' = Tail(comps)
      /\ addrs' = addrs /\ tx' = tx /\ inflight' = inflight /\ comp' = comp
      /\ clean' = clean /\ roomy' = roomy
  BY DEF TypeOK, GiveBack, kernel
<1>2. h \in Frames /\ Range(comps) = {h} \cup Range(comps')
  BY <1>1, TailTaken
<1> HIDE DEF h
<1>3. fl'.headroom = fl.headroom
  BY <1>1, <1>2, TryPushTyped
<1>4. /\ Places[1] = Range(Listed(fl)) /\ Places'[1] = Range(Listed(fl'))
      /\ Places[2] = Range(comps) /\ Places'[2] = Range(comps')
      /\ \A c \in PlaceIds : c # 2 /\ c # 1 => Places'[c] = Places[c]
  BY <1>1 DEF Places, PlaceIds, FramesOf
<1>5. ASSUME clean
      PROVE  /\ Distinct(Listed(fl')) /\ Distinct(comps')
             /\ h \notin Range(comps')
             /\ Range(Listed(fl)) \subseteq Range(Listed(fl'))
             /\ Range(Listed(fl')) \subseteq Range(Listed(fl)) \cup {h}
             /\ roomy => Range(Listed(fl')) = Range(Listed(fl)) \cup {h}
             /\ Apart(Places)
  <2>1. Distinct(Listed(fl)) /\ Distinct(comps) /\ Apart(Places)
    BY <1>5 DEF OneOwner
  <2>2. Distinct(comps') /\ h \notin Range(comps')
    BY <1>1, <2>1, TailTaken DEF h
  <2>3. h \notin Range(Listed(fl))
    BY <1>2, <1>4, <2>1 DEF Apart, PlaceIds
  <2> QED
    BY <1>1, <1>2, <2>1, <2>2, <2>3, GivenBack DEF RoomForAll
<1>6. clean => Moves(Places, Places', 2, 1, {h})
  BY <1>2, <1>4, <1>5 DEF Moves, PlaceIds
<1>7. clean => /\ Distinct(Listed(fl')) /\ Distinct(comps') /\ Distinct(addrs')
               /\ Distinct(FramesOf(tx')) /\ Distinct(FramesOf(inflight')) /\ Distinct(comp')
  BY <1>1, <1>5 DEF OneOwner, FramesOf
<1>8. /\ clean => {h} \cap Places'[2] = {}
      /\ clean /\ roomy => {h} \subseteq Places'[1]
  BY <1>4, <1>5
<1>9. clean' = clean /\ roomy' = roomy /\ fl'.headroom = fl.headroom
  BY <1>1, <1>3
<1> QED
  BY <1>6, <1>7, <1>8, <1>9, MoveKeeps

\* ... and so does a frame of a batch that was refused.
LEMMA ReturnFrameOwners ==
  ASSUME TypeOK, OneOwner, AllOwned, RoomForAll, ReturnFrame
  PROVE  OwnersKept
<1> DEFINE h == Head(addrs)
<1>1. /\ fl \in FreeLists /\ addrs \in Seq(Frames) /\ addrs # <<>>
      /\ fl' = TryPush(fl, h) /\ addrs' = Tail(addrs)
      /\ comps' = comps /\ tx' = tx /\ inflight' = inflight /\ comp' = comp
      /\ clean' = clean /\ roomy' = roomy
  BY DEF TypeOK, ReturnFrame, kernel
<1>2. h \in Frames /\ Range(addrs) = {h} \cup Range(addrs')
  BY <1>1, TailTaken
<1> HIDE DEF h
<1>3. fl'.headroom = fl.headroom
  BY <1>1, <1>2, TryPushTyped
<1>4. /\ Places[1] = Range(Listed(fl)) /\ Places'[1] = Range(Listed(fl'))
      /\ Places[3] = Range(addrs) /\ Places'[3] = Range(addrs')
      /\ \A c \in PlaceIds : c # 3 /\ c # 1 => Places'[c] = Places[c]
  BY <1>1 DEF Places, PlaceIds, FramesOf
<1>5. ASSUME clean
      PROVE  /\ Distinct(Listed(fl')) /\ Distinct(addrs')
             /\ h \notin Range(addrs')
             /\ Range(Listed(fl)) \subseteq Range(Listed(fl'))
             /\ Range(Listed(fl')) \subseteq Range(Listed(fl)) \cup {h}
             /\ roomy => Range(Listed(fl')) = Range(Listed(fl)) \cup {h}
  <2>1. Distinct(Listed(fl)) /\ Distinct(addrs) /\ Apart(Places)
    BY <1>5 DEF OneOwner
  <2>2. Distinct(addrs') /\ h \notin Range(addrs')
    BY <1>1, <2>1, TailTaken DEF h
  <2>3. h \notin Range(Listed(fl))
    BY <1>2, <1>4, <2>1 DEF Apart, PlaceIds
  <2> QED
    BY <1>1, <1>2, <2>1, <2>2, <2>3, GivenBack DEF RoomForAll
<1>6. clean => Moves(Places, Places', 3, 1, {h})
  BY <1>2, <1>4, <1>5 DEF Moves, PlaceIds
<1>7. clean => /\ Distinct(Listed(fl')) /\ Distinct(comps') /\ Distinct(addrs')
               /\ Distinct(FramesOf(tx')) /\ Distinct(FramesOf(inflight')) /\ Distinct(comp')
  BY <1>1, <1>5 DEF OneOwner, FramesOf
<1>8. /\ clean => {h} \cap Places'[3] = {}
      /\ clean /\ roomy => {h} \subseteq Places'[1]
  BY <1>4, <1>5
<1>9. clean' = clean /\ roomy' = roomy /\ fl'.headroom = fl.headroom
  BY <1>1, <1>3
<1> QED
  BY <1>6, <1>7, <1>8, <1>9, MoveKeeps

\* Completions popped from the ring are in the sender's hands.
LEMMA PopCompletionsOwners ==
  ASSUME TypeOK, Stage, OneOwner, AllOwned, RoomForAll, PopCompletions
  PROVE  OwnersKept
<1> DEFINE n == Smaller(MaxReclaim, Len(comp))
<1>1. /\ comps' = SubSeq(comp, 1, n) /\ comp' = SubSeq(comp, n + 1, Len(comp))
      /\ fl' = fl /\ addrs' = addrs /\ tx' = tx /\ inflight' = inflight
      /\ clean' = clean /\ roomy' = roomy
      /\ comp \in Seq(Frames) /\ comps = <<>>
  BY DEF TypeOK, PopCompletions, Stage
<1>2. n \in 0..Len(comp)
  BY <1>1, LenProperties, SocketAssumption DEF Smaller
<1> HIDE DEF n
<1>3. comps' \in Seq(Frames) /\ comp' \in Seq(Frames) /\ comp = comps' \o comp'
  BY <1>1, <1>2, PrefixAndRest
<1> DEFINE c1 == comps'
           c2 == comp'
<1>4. c1 \in Seq(Frames) /\ c2 \in Seq(Frames) /\ comp = c1 \o c2
  BY <1>3
<1> HIDE DEF c1, c2
<1>5. /\ Range(comp) = Range(c1) \cup Range(c2)
      /\ Distinct(comp) <=> Distinct(c1) /\ Distinct(c2) /\ Range(c1) \cap Range(c2) = {}
  BY <1>4, RangeConcatenation, DistinctConcat
<1>6. /\ Places[6] = Range(comp) /\ Places'[6] = Range(c2)
      /\ Places[2] = {} /\ Places'[2] = Range(c1)
      /\ \A c \in PlaceIds : c # 6 /\ c # 2 => Places'[c] = Places[c]
  BY <1>1, EmptyRange DEF Places, PlaceIds, FramesOf, c1, c2
<1>7. Moves(Places, Places', 6, 2, Range(c1))
  BY <1>5, <1>6 DEF Moves, PlaceIds
<1>8. clean => /\ Distinct(comp) /\ Distinct(c1) /\ Distinct(c2)
               /\ Range(c1) \cap Places'[6] = {}
  BY <1>5, <1>6 DEF OneOwner
<1>9. clean => /\ Distinct(Listed(fl')) /\ Distinct(comps') /\ Distinct(addrs')
               /\ Distinct(FramesOf(tx')) /\ Distinct(FramesOf(inflight')) /\ Distinct(comp')
  BY <1>1, <1>8 DEF OneOwner, FramesOf, c1, c2
<1>10. clean' = clean /\ roomy' = roomy /\ fl'.headroom = fl.headroom
  BY <1>1
<1> QED
  BY <1>6, <1>7, <1>8, <1>9, <1>10, MoveKeeps

\* A frame allocated from the list joins the batch.
LEMMA AllocFromListOwners ==
  ASSUME TypeOK, OneOwner, AllOwned, RoomForAll, AllocFromList
  PROVE  OwnersKept
<1> DEFINE f == Front(fl)
<1>1. /\ fl \in FreeLists /\ ~IsEmpty(fl) /\ addrs \in Seq(Frames)
      /\ fl' = PopFront(fl) /\ addrs' = Append(addrs, f)
      /\ comps' = comps /\ tx' = tx /\ inflight' = inflight /\ comp' = comp
      /\ clean' = clean /\ roomy' = roomy
  BY DEF TypeOK, AllocFromList, CopyInto, kernel
<1>2. f \in Frames /\ Listed(fl) = <<f>> \o Listed(fl') /\ fl' \in FreeLists
  BY <1>1, PopTakes
<1>3. fl'.headroom = fl.headroom
  BY <1>1 DEF PopFront, FreeLists
<1> HIDE DEF f
<1> DEFINE t == Listed(fl')
           h == <<f>>
<1>4. /\ t \in Seq(Frames) /\ h \in Seq(Frames) /\ Range(h) = {f} /\ Listed(fl) = h \o t
  BY <1>2, ListedSeq, SingletonSeq
<1> HIDE DEF t, h
<1>5. /\ Range(Listed(fl)) = {f} \cup Range(t)
      /\ Distinct(Listed(fl)) => Distinct(t) /\ f \notin Range(t)
  <2>1. /\ Range(h \o t) = Range(h) \cup Range(t)
        /\ Distinct(h \o t) <=> Distinct(h) /\ Distinct(t) /\ Range(h) \cap Range(t) = {}
    BY <1>4, RangeConcatenation, DistinctConcat
  <2> QED
    BY <1>4, <2>1
<1>6. /\ Range(addrs') = Range(addrs) \cup {f}
      /\ Distinct(addrs) /\ f \notin Range(addrs) => Distinct(addrs')
  <2> DEFINE s == addrs
             u == s \o <<f>>
  <2>1. s \in Seq(Frames) /\ f \in Frames /\ addrs' = Append(s, f)
    BY <1>1, <1>2
  <2> HIDE DEF s
  <2>2. /\ Range(u) = Range(s) \cup {f} /\ Append(s, f) = u
        /\ Distinct(s) /\ f \notin Range(s) => Distinct(u)
    BY <2>1, AppendGiven
  <2> HIDE DEF u
  <2>3. addrs' = u
    BY <2>1, <2>2
  <2> QED
    BY <2>2, <2>3 DEF s
<1>7. /\ Places[1] = Range(Listed(fl)) /\ Places'[1] = Range(t)
      /\ Places[3] = Range(addrs) /\ Places'[3] = Range(addrs')
      /\ \A c \in PlaceIds : c # 1 /\ c # 3 => Places'[c] = Places[c]
  BY <1>1 DEF Places, PlaceIds, FramesOf, t
<1>8. ASSUME clean
      PROVE  Distinct(t) /\ Distinct(addrs') /\ f \notin Range(t)
  <2>1. Distinct(Listed(fl)) /\ Distinct(addrs) /\ Apart(Places)
    BY <1>8 DEF OneOwner
  <2>2. f \notin Range(addrs)
    BY <1>5, <1>7, <2>1 DEF Apart, PlaceIds
  <2> QED
    BY <1>5, <1>6, <2>1, <2>2
<1>9. Moves(Places, Places', 1, 3, {f})
  BY <1>5, <1>6, <1>7 DEF Moves, PlaceIds
<1>10. clean => /\ Distinct(Listed(fl')) /\ Distinct(comps') /\ Distinct(addrs')
                /\ Distinct(FramesOf(tx')) /\ Distinct(FramesOf(inflight')) /\ Distinct(comp')
  BY <1>1, <1>8 DEF OneOwner, FramesOf, t
<1>11. (clean => {f} \cap Places'[1] = {}) /\ {f} \subseteq Places'[3]
  BY <1>6, <1>7, <1>8
<1>12. clean' = clean /\ roomy' = roomy /\ fl'.headroom = fl.headroom
  BY <1>1, <1>3
<1> QED
  BY <1>9, <1>10, <1>11, <1>12, MoveKeeps

\* A push that takes the whole batch passes its frames to the ring ...
LEMMA PublishedFrames ==
  ASSUME TypeOK, Stage, pc = "publish", room = Len(addrs)
  PROVE  FramesOf(Published) = addrs
<1>1. /\ Published \in Seq(Queued) /\ Len(Published) = room /\ room \in Nat
      /\ \A i \in 1..room : Published[i].frame = addrs[i]
  BY PublishedSeq
<1>2. FramesOf(Published) \in Seq(Frames) /\ Len(FramesOf(Published)) = Len(addrs)
  BY <1>1, FramesOfSeq
<1>3. \A i \in 1..Len(addrs) : FramesOf(Published)[i] = addrs[i]
  BY <1>1 DEF FramesOf
<1> QED
  BY <1>2, <1>3, SeqEqual DEF TypeOK

LEMMA TxPublishAllOwners ==
  ASSUME TypeOK, Stage, OneOwner, AllOwned, RoomForAll, TxPublishAll
  PROVE  OwnersKept
<1>1. /\ tx' = tx \o Published /\ addrs' = <<>> /\ pc = "publish" /\ room = Len(addrs)
      /\ fl' = fl /\ comps' = comps /\ inflight' = inflight /\ comp' = comp
      /\ clean' = clean /\ roomy' = roomy
      /\ tx \in Seq(Queued) /\ addrs \in Seq(Frames)
  BY DEF TypeOK, TxPublishAll, Publish, Published
<1>2. Published \in Seq(Queued) /\ FramesOf(Published) = addrs
  BY <1>1, PublishedSeq, PublishedFrames
<1>3. FramesOf(tx') = FramesOf(tx) \o addrs /\ FramesOf(tx) \in Seq(Frames)
  BY <1>1, <1>2, FramesOfConcat, FramesOfSeq
<1> DEFINE t == FramesOf(tx)
           u == FramesOf(tx')
<1> HIDE DEF t, u
<1>4. /\ Range(u) = Range(t) \cup Range(addrs)
      /\ Distinct(u) <=> Distinct(t) /\ Distinct(addrs) /\ Range(t) \cap Range(addrs) = {}
  <2>1. t \in Seq(Frames) /\ u = t \o addrs
    BY <1>3 DEF t, u
  <2> QED
    BY <1>1, <2>1, RangeConcatenation, DistinctConcat
<1>5. /\ Places[3] = Range(addrs) /\ Places'[3] = {}
      /\ Places[4] = Range(t) /\ Places'[4] = Range(u)
      /\ \A c \in PlaceIds : c # 3 /\ c # 4 => Places'[c] = Places[c]
  <2>1. FramesOf(inflight)' = FramesOf(inflight) /\ FramesOf(tx)' = u
    BY <1>1 DEF FramesOf, u
  <2> QED
    BY <1>1, <2>1, EmptyRange DEF Places, PlaceIds, t
<1>6. Moves(Places, Places', 3, 4, Range(addrs))
  BY <1>4, <1>5 DEF Moves, PlaceIds
<1>7. ASSUME clean
      PROVE  Distinct(u)
  <2>1. Distinct(t) /\ Distinct(addrs) /\ Apart(Places)
    BY <1>7 DEF OneOwner, t
  <2>2. Range(t) \cap Range(addrs) = {}
    BY <1>5, <2>1 DEF Apart, PlaceIds
  <2> QED
    BY <1>4, <2>1, <2>2
<1>8. clean => /\ Distinct(Listed(fl')) /\ Distinct(comps') /\ Distinct(addrs')
               /\ Distinct(FramesOf(tx')) /\ Distinct(FramesOf(inflight')) /\ Distinct(comp')
  <2>1. FramesOf(inflight') = FramesOf(inflight)
    BY <1>1
  <2> QED
    BY <1>1, <1>7, <2>1, EmptyRange DEF OneOwner, u
<1>9. Range(addrs) \cap Places'[3] = {} /\ Range(addrs) \subseteq Places'[4]
  BY <1>4, <1>5
<1>10. clean' = clean /\ roomy' = roomy /\ fl'.headroom = fl.headroom
  BY <1>1
<1> QED
  BY <1>6, <1>8, <1>9, <1>10, MoveKeeps

\* ... and one that takes part of it ends what is claimed here.
LEMMA TxPublishSomeOwners ==
  ASSUME TypeOK, Stage, OneOwner, AllOwned, RoomForAll, TxPublishSome
  PROVE  OwnersKept
<1>1. /\ tx' = tx \o Published /\ addrs' = addrs /\ pc = "publish" /\ clean' = (clean /\ room = 0)
      /\ fl' = fl /\ comps' = comps /\ inflight' = inflight /\ comp' = comp
      /\ roomy' = roomy /\ tx \in Seq(Queued)
  BY DEF TypeOK, TxPublishSome, Publish, Published
<1>2. Published \in Seq(Queued) /\ Len(Published) = room
  BY <1>1, PublishedSeq
<1>3. ASSUME clean'
      PROVE  clean /\ tx' = tx
  <2>1. Published = <<>>
    BY <1>1, <1>2, <1>3, EmptySeq
  <2> QED
    BY <1>1, <1>3, <2>1, ConcatEmptySeq
<1>4. CASE clean'
  <2>1. clean' => clean
    BY <1>3
  <2>2. roomy' => roomy /\ Usable(fl') >= NumFrames
    BY <1>1 DEF RoomForAll
  <2>3. Listed(fl)' = Listed(fl)
    BY <1>1
  <2> QED
    BY <1>1, <1>3, <1>4, <2>1, <2>2, <2>3, NothingMoves
<1>5. CASE ~clean'
  BY <1>1, <1>5 DEF OwnersKept, RoomForAll
<1> QED
  BY <1>4, <1>5

\* The kernel takes a descriptor ...
LEMMA KernelTakeOwners ==
  ASSUME TypeOK, OneOwner, AllOwned, RoomForAll, KernelTake
  PROVE  OwnersKept
<1> DEFINE x == Head(tx)
<1>1. /\ tx \in Seq(Queued) /\ inflight \in Seq(Queued) /\ tx # <<>>
      /\ tx' = Tail(tx) /\ inflight' = Append(inflight, x)
      /\ fl' = fl /\ comps' = comps /\ addrs' = addrs /\ comp' = comp
      /\ clean' = clean /\ roomy' = roomy
  BY DEF TypeOK, KernelTake, sender
<1>2. x \in Queued /\ tx' \in Seq(Queued) /\ tx = <<x>> \o tx'
  BY <1>1, HeadAndTail
<1>3. inflight' = inflight \o <<x>>
  BY <1>1, <1>2, AppendIsConcat
<1> HIDE DEF x
<1>4. <<x>> \in Seq(Queued) /\ FramesOf(<<x>>) = <<x.frame>> /\ x.frame \in Frames
  BY <1>2, FramesOfOne
<1> DEFINE one == <<x>>
           q == tx'
           r == inflight'
           f == x.frame
<1>5. /\ FramesOf(tx) = <<f>> \o FramesOf(q)
      /\ FramesOf(r) = FramesOf(inflight) \o <<f>>
      /\ FramesOf(q) \in Seq(Frames) /\ FramesOf(inflight) \in Seq(Frames)
  <2>1. q \in Seq(Queued) /\ tx = one \o q /\ r = inflight \o one
        /\ one \in Seq(Queued) /\ FramesOf(one) = <<f>>
    BY <1>2, <1>3, <1>4
  <2> HIDE DEF one, q, r
  <2> QED
    BY <1>1, <2>1, FramesOfConcat, FramesOfSeq
<1> HIDE DEF q, r, f
<1>6. /\ Range(FramesOf(tx)) = {f} \cup Range(FramesOf(q))
      /\ Distinct(FramesOf(tx)) => Distinct(FramesOf(q)) /\ f \notin Range(FramesOf(q))
  <2> DEFINE h == <<f>>
             t == FramesOf(q)
  <2>1. h \in Seq(Frames) /\ Range(h) = {f} /\ t \in Seq(Frames) /\ FramesOf(tx) = h \o t
    BY <1>4, <1>5, SingletonSeq DEF f
  <2> HIDE DEF h, t
  <2>2. /\ Range(h \o t) = Range(h) \cup Range(t)
        /\ Distinct(h \o t) <=> Distinct(h) /\ Distinct(t) /\ Range(h) \cap Range(t) = {}
    BY <2>1, RangeConcatenation, DistinctConcat
  <2>3. /\ Range(FramesOf(tx)) = {f} \cup Range(t)
        /\ Distinct(FramesOf(tx)) => Distinct(t) /\ f \notin Range(t)
    BY <2>1, <2>2
  <2> QED
    BY <2>3 DEF t
<1>7. /\ Range(FramesOf(r)) = Range(FramesOf(inflight)) \cup {f}
      /\ Distinct(FramesOf(inflight)) /\ f \notin Range(FramesOf(inflight)) =>
           Distinct(FramesOf(r))
  <2>1. f \in Frames
    BY <1>4 DEF f
  <2> QED
    BY <1>5, <2>1, AppendGiven
<1>8. /\ Places[4] = Range(FramesOf(tx)) /\ Places'[4] = Range(FramesOf(q))
      /\ Places[5] = Range(FramesOf(inflight)) /\ Places'[5] = Range(FramesOf(r))
      /\ \A c \in PlaceIds : c # 4 /\ c # 5 => Places'[c] = Places[c]
  <2>1. FramesOf(tx)' = FramesOf(q) /\ FramesOf(inflight)' = FramesOf(r)
    BY DEF q, r, FramesOf
  <2> QED
    BY <1>1, <2>1 DEF Places, PlaceIds
<1>9. Moves(Places, Places', 4, 5, {f})
  BY <1>6, <1>7, <1>8 DEF Moves, PlaceIds
<1>10. ASSUME clean
       PROVE  Distinct(FramesOf(q)) /\ Distinct(FramesOf(r)) /\ f \notin Range(FramesOf(q))
  <2>1. Distinct(FramesOf(tx)) /\ Distinct(FramesOf(inflight)) /\ Apart(Places)
    BY <1>10 DEF OneOwner
  <2>2. f \notin Range(FramesOf(inflight))
    BY <1>6, <1>8, <2>1 DEF Apart, PlaceIds
  <2> QED
    BY <1>6, <1>7, <2>1, <2>2
<1>11. clean => /\ Distinct(Listed(fl')) /\ Distinct(comps') /\ Distinct(addrs')
                /\ Distinct(FramesOf(tx')) /\ Distinct(FramesOf(inflight')) /\ Distinct(comp')
  BY <1>1, <1>10 DEF OneOwner, q, r
<1>12. (clean => {f} \cap Places'[4] = {}) /\ {f} \subseteq Places'[5]
  BY <1>7, <1>8, <1>10
<1>13. clean' = clean /\ roomy' = roomy /\ fl'.headroom = fl.headroom
  BY <1>1
<1> QED
  BY <1>9, <1>11, <1>12, <1>13, MoveKeeps

\* ... and posts its frame when it has been transmitted, in whatever order.
LEMMA KernelCompleteOwners ==
  ASSUME TypeOK, OneOwner, AllOwned, RoomForAll,
         NEW i \in 1..Len(inflight), KernelComplete(i)
  PROVE  OwnersKept
<1> DEFINE A == SubSeq(inflight, 1, i - 1)
           B == SubSeq(inflight, i + 1, Len(inflight))
           x == inflight[i]
           f == x.frame
<1>1. /\ A \in Seq(Queued) /\ B \in Seq(Queued) /\ x \in Queued
      /\ inflight = A \o (<<x>> \o B)
  BY AroundPlace DEF TypeOK
<1>2. /\ inflight' = A \o B /\ comp' = Append(comp, f)
      /\ fl' = fl /\ comps' = comps /\ addrs' = addrs /\ tx' = tx
      /\ clean' = clean /\ roomy' = roomy /\ comp \in Seq(Frames)
  BY DEF TypeOK, KernelComplete, sender
<1> HIDE DEF A, B
<1>3. <<x>> \in Seq(Queued) /\ FramesOf(<<x>>) = <<f>> /\ f \in Frames
  BY <1>1, FramesOfOne
<1> DEFINE q == inflight
           r == inflight'
           FA == FramesOf(A)
           FB == FramesOf(B)
<1>4. /\ FramesOf(q) = FA \o (<<f>> \o FB) /\ FramesOf(r) = FA \o FB
      /\ FA \in Seq(Frames) /\ FB \in Seq(Frames)
  <2> DEFINE one == <<x>>
             ob == one \o B
  <2>1. one \in Seq(Queued) /\ ob \in Seq(Queued) /\ FramesOf(one) = <<f>> /\ q = A \o ob
    BY <1>1, <1>3, ConcatProperties
  <2>2. FramesOf(ob) = FramesOf(one) \o FB
    BY <1>1, <2>1, FramesOfConcat
  <2> HIDE DEF one, ob, q, f
  <2>3. FramesOf(q) = FA \o FramesOf(ob)
    BY <1>1, <2>1, FramesOfConcat
  <2>4. FramesOf(r) = FA \o FB
    BY <1>1, <1>2, FramesOfConcat
  <2> QED
    BY <1>1, <2>1, <2>2, <2>3, <2>4, FramesOfSeq
<1> HIDE DEF q, r, x, f, FA, FB
<1>5. /\ Range(FramesOf(q)) = {f} \cup Range(FramesOf(r))
      /\ Distinct(FramesOf(q)) => Distinct(FramesOf(r)) /\ f \notin Range(FramesOf(r))
  <2> DEFINE h == <<f>>
             hb == h \o FB
  <2>1. h \in Seq(Frames) /\ Range(h) = {f} /\ f \in Frames
    BY <1>3, SingletonSeq DEF f
  <2> HIDE DEF h
  <2>2. /\ hb \in Seq(Frames) /\ Range(hb) = {f} \cup Range(FB)
        /\ Distinct(hb) <=> Distinct(h) /\ Distinct(FB) /\ {f} \cap Range(FB) = {}
    BY <1>4, <2>1, ConcatProperties, RangeConcatenation, DistinctConcat
  <2>3. FramesOf(q) = FA \o hb /\ FA \in Seq(Frames) /\ hb \in Seq(Frames)
    BY <1>4, <2>2 DEF h
  <2> HIDE DEF hb
  <2>4. /\ Range(FramesOf(q)) = Range(FA) \cup Range(hb)
        /\ Distinct(FramesOf(q)) <=> Distinct(FA) /\ Distinct(hb) /\ Range(FA) \cap Range(hb) = {}
    BY <2>3, RangeConcatenation, DistinctConcat
  <2>5. /\ Range(FramesOf(r)) = Range(FA) \cup Range(FB)
        /\ Distinct(FramesOf(r)) <=> Distinct(FA) /\ Distinct(FB) /\ Range(FA) \cap Range(FB) = {}
    BY <1>4, RangeConcatenation, DistinctConcat
  <2> QED
    BY <2>2, <2>4, <2>5
<1>6. /\ Range(comp') = Range(comp) \cup {f}
      /\ Distinct(comp) /\ f \notin Range(comp) => Distinct(comp')
  <2> DEFINE s == comp
             u == s \o <<f>>
  <2>1. s \in Seq(Frames) /\ f \in Frames /\ comp' = Append(s, f)
    BY <1>2, <1>3 DEF f
  <2> HIDE DEF s
  <2>2. /\ Range(u) = Range(s) \cup {f} /\ Append(s, f) = u
        /\ Distinct(s) /\ f \notin Range(s) => Distinct(u)
    BY <2>1, AppendGiven
  <2> HIDE DEF u
  <2>3. comp' = u
    BY <2>1, <2>2
  <2> QED
    BY <2>2, <2>3 DEF s
<1>7. /\ Places[5] = Range(FramesOf(q)) /\ Places'[5] = Range(FramesOf(r))
      /\ Places[6] = Range(comp) /\ Places'[6] = Range(comp')
      /\ \A c \in PlaceIds : c # 5 /\ c # 6 => Places'[c] = Places[c]
  <2>1. FramesOf(inflight) = FramesOf(q) /\ FramesOf(inflight)' = FramesOf(r)
        /\ FramesOf(tx)' = FramesOf(tx)
    BY <1>2 DEF q, r, FramesOf
  <2> QED
    BY <1>2, <2>1 DEF Places, PlaceIds
<1>8. Moves(Places, Places', 5, 6, {f})
  BY <1>5, <1>6, <1>7 DEF Moves, PlaceIds
<1>9. ASSUME clean
      PROVE  Distinct(FramesOf(r)) /\ Distinct(comp') /\ f \notin Range(FramesOf(r))
  <2>1. Distinct(FramesOf(q)) /\ Distinct(comp) /\ Apart(Places)
    BY <1>9 DEF OneOwner, q
  <2>2. f \notin Range(comp)
    BY <1>5, <1>7, <2>1 DEF Apart, PlaceIds
  <2> QED
    BY <1>5, <1>6, <2>1, <2>2
<1>10. clean => /\ Distinct(Listed(fl')) /\ Distinct(comps') /\ Distinct(addrs')
                /\ Distinct(FramesOf(tx')) /\ Distinct(FramesOf(inflight')) /\ Distinct(comp')
  BY <1>2, <1>9 DEF OneOwner, r
<1>11. (clean => {f} \cap Places'[5] = {}) /\ {f} \subseteq Places'[6]
  BY <1>6, <1>7, <1>9
<1>12. clean' = clean /\ roomy' = roomy /\ fl'.headroom = fl.headroom
  BY <1>2
<1> QED
  BY <1>8, <1>10, <1>11, <1>12, MoveKeeps

LEMMA OwnersInit ==
  ASSUME Init
  PROVE  OneOwner /\ RoomForAll /\ AllOwned
<1>1. /\ fl = FullList /\ comps = <<>> /\ addrs = <<>> /\ tx = <<>>
      /\ inflight = <<>> /\ comp = <<>>
  BY DEF Init
<1>2. FramesOf(tx) = <<>> /\ FramesOf(inflight) = <<>>
  <2>1. <<>> \in Seq(Queued) /\ Len(<<>>) = 0
    OBVIOUS
  <2>2. FramesOf(<<>>) \in Seq(Frames) /\ Len(FramesOf(<<>>)) = 0
    BY <2>1, FramesOfSeq
  <2>3. FramesOf(<<>>) = <<>>
    BY <2>2, EmptySeq
  <2> QED
    BY <1>1, <2>3
<1>3. Distinct(Listed(fl)) /\ Range(Listed(fl)) = Frames
  BY <1>1, FullListed
<1>4. /\ Places[1] = Frames /\ Places[2] = {} /\ Places[3] = {}
      /\ Places[4] = {} /\ Places[5] = {} /\ Places[6] = {}
  BY <1>1, <1>2, <1>3, EmptyRange DEF Places
<1>5. Apart(Places)
  BY <1>4 DEF Apart, PlaceIds
<1>6. Cover(Places)
  BY <1>4 DEF Cover, PlaceIds
<1>7. Usable(fl) >= NumFrames
  <2>1. fl.headroom = InitHeadroom
    BY <1>1 DEF FullList
  <2>2. PICK d \in 0..(UsizeSpace - 1) : d = FreeCap - InitHeadroom
    BY Sizes
  <2>3. d = 0 * UsizeSpace + d
    BY <2>2, Sizes
  <2>4. d % UsizeSpace = d
    BY <2>2, <2>3, Sizes, ModUnique
  <2> QED
    BY <2>1, <2>2, <2>4, Sizes DEF Usable
<1> QED
  BY <1>1, <1>2, <1>3, <1>5, <1>6, <1>7, EmptyRange DEF OneOwner, AllOwned, RoomForAll

LEMMA OwnersStep ==
  ASSUME TypeOK, Stage, OneOwner, AllOwned, RoomForAll, [Next]_vars
  PROVE  OneOwner' /\ AllOwned' /\ RoomForAll'
<1> USE DEF kernel, sender
<1> SUFFICES OwnersKept
  BY KeptSuffices
<1>1. ASSUME UNCHANGED <<fl, comps, addrs, tx, inflight, comp, clean, roomy>>
      PROVE  OwnersKept
  <2>1. Listed(fl)' = Listed(fl)
    BY <1>1
  <2>2. roomy' => roomy /\ Usable(fl') >= NumFrames
    BY <1>1 DEF RoomForAll
  <2> QED
    BY <1>1, <2>1, <2>2, NothingMoves
<1>2. ASSUME NEW packets \in Batches, Send(packets)
      PROVE  OwnersKept
  BY <1>1, <1>2 DEF Send
<1>3. CASE GiveBackDone
  BY <1>1, <1>3 DEF GiveBackDone
<1>4. CASE AllocFallback
  BY <1>4 DEF AllocFallback, OwnersKept, RoomForAll
<1>5. CASE AllocDone
  BY <1>1, <1>5 DEF AllocDone
<1>6. CASE TxReserve
  BY <1>1, <1>6 DEF TxReserve
<1>7. CASE ReturnDone
  BY <1>1, <1>7 DEF ReturnDone
<1>8. CASE WaitEnds
  BY <1>1, <1>8 DEF WaitEnds
<1>9. ASSUME NEW hr \in Headrooms, Reconfigure(hr)
      PROVE  OwnersKept
  <2>1. /\ fl' = [fl EXCEPT !.headroom = hr] /\ fl \in FreeLists
        /\ roomy' = (roomy /\ Usable(fl') >= NumFrames)
        /\ UNCHANGED <<comps, addrs, tx, inflight, comp, clean>>
    BY <1>9 DEF Reconfigure, SetHeadroom, TypeOK
  <2>2. fl'.buf = fl.buf /\ fl'.head = fl.head /\ fl'.tail = fl.tail /\ fl'.headroom = hr
    BY <2>1 DEF FreeLists
  <2>3. Listed(fl') = Listed(fl)
    BY <2>2 DEF Listed, Used
  <2>4. roomy' => roomy /\ Usable(fl') >= NumFrames
    BY <2>1, <2>2
  <2> QED
    BY <2>1, <2>3, <2>4, NothingMoves
<1>10. CASE UNCHANGED vars
  BY <1>1, <1>10 DEF vars
<1> QED
  BY <1>2, <1>3, <1>4, <1>5, <1>6, <1>7, <1>8, <1>9, <1>10,
     PopCompletionsOwners, GiveBackOwners, AllocFromListOwners, TxPublishAllOwners,
     TxPublishSomeOwners, ReturnFrameOwners, KernelTakeOwners, KernelCompleteOwners
     DEF Next, SendStep

----------------------------------------------------------------------------
(* What the frames hold. *)

Intact(q, m) == \A x \in Range(q) : Holds(m[x.frame], x.packet)

\* What is copied of a packet fits its frame.
LEMMA CopiedFits ==
  ASSUME NEW p \in Packets
  PROVE  Copied(p) \subseteq 1..FrameSize
<1>1. LengthOf[p] \in Nat /\ FrameSize \in Nat
  BY SocketAssumption
<1> QED
  BY <1>1 DEF Copied, Smaller

LEMMA PayloadByRange ==
  ASSUME TypeOK
  PROVE  PayloadIntact <=> (clean => Intact(tx, mem) /\ Intact(inflight, mem))
<1>1. ASSUME NEW q \in Seq(Queued)
      PROVE  Intact(q, mem) <=> \A i \in 1..Len(q) : Holds(mem[q[i].frame], q[i].packet)
  <2>1. Range(q) = {q[i] : i \in 1..Len(q)}
    BY RangeEquality
  <2> QED
    BY <2>1 DEF Intact
<1> QED
  BY <1>1 DEF TypeOK, PayloadIntact

\* The frames queued in q are those of FramesOf(q).
LEMMA QueuedFrames ==
  ASSUME NEW q \in Seq(Queued), NEW x \in Range(q)
  PROVE  x.frame \in Range(FramesOf(q))
<1>1. Range(q) = {q[i] : i \in 1..Len(q)}
  BY RangeEquality
<1>2. PICK i \in 1..Len(q) : x = q[i]
  BY <1>1
<1>3. FramesOf(q) \in Seq(Frames) /\ Len(FramesOf(q)) = Len(q) /\ FramesOf(q)[i] = x.frame
  BY <1>2, FramesOfSeq DEF FramesOf
<1>4. Range(FramesOf(q)) = {FramesOf(q)[j] : j \in 1..Len(FramesOf(q))}
  BY <1>3, RangeEquality
<1> QED
  BY <1>3, <1>4

LEMMA PayloadInit ==
  ASSUME Init
  PROVE  InHand /\ PayloadIntact
<1>1. tx = <<>> /\ inflight = <<>> /\ pc = "idle"
  BY DEF Init
<1>2. Len(tx) = 0 /\ Len(inflight) = 0
  BY <1>1
<1> QED
  BY <1>1, <1>2 DEF InHand, PayloadIntact

\* A frame just taken from the list is not queued and not in the batch, so
\* that writing to it touches nothing that was written for this send.
LEMMA CopyHarmless ==
  ASSUME TypeOK, Stage, OneOwner, InHand, PayloadIntact, AllocFromList
  PROVE  InHand' /\ PayloadIntact'
<1> DEFINE f == Front(fl)
           n == Len(addrs) + 1
<1>1. /\ fl \in FreeLists /\ ~IsEmpty(fl) /\ addrs \in Seq(Frames) /\ Len(addrs) \in Nat
      /\ addrs' = Append(addrs, f) /\ mem' = [mem EXCEPT ![f] = [i \in 1..FrameSize |->
                                     IF i \in Copied(batch[n]) THEN batch[n] ELSE mem[f][i]]]
      /\ tx' = tx /\ inflight' = inflight /\ clean' = clean /\ pc' = pc /\ batch' = batch
      /\ pc = "alloc" /\ tx \in Seq(Queued) /\ inflight \in Seq(Queued)
      /\ mem \in [Frames -> [1..FrameSize -> Packets \cup {NoPacket}]]
  BY LenProperties DEF TypeOK, AllocFromList, CopyInto, kernel
<1>2. f \in Frames /\ f \in Range(Listed(fl))
  <2> DEFINE s == Listed(fl)
             h == <<f>>
             t == Listed(PopFront(fl))
  <2>1. f \in Frames /\ s = h \o t /\ PopFront(fl) \in FreeLists
    BY <1>1, PopTakes
  <2>2. h \in Seq(Frames) /\ Range(h) = {f} /\ t \in Seq(Frames)
    BY <2>1, SingletonSeq, ListedSeq
  <2> HIDE DEF s, h, t
  <2>3. Range(s) = {f} \cup Range(t)
    BY <2>1, <2>2, RangeConcatenation
  <2> QED
    BY <2>1, <2>3 DEF s
<1> HIDE DEF f
<1>3. ASSUME clean
      PROVE  /\ f \notin Range(FramesOf(tx)) /\ f \notin Range(FramesOf(inflight))
             /\ f \notin Range(addrs)
  <2>1. Apart(Places)
    BY <1>3 DEF OneOwner
  <2>2. /\ Places[1] = Range(Listed(fl)) /\ Places[3] = Range(addrs)
        /\ Places[4] = Range(FramesOf(tx)) /\ Places[5] = Range(FramesOf(inflight))
    BY DEF Places
  <2> QED
    BY <1>2, <2>1, <2>2 DEF Apart, PlaceIds
<1>4. \A g \in Frames : g # f => mem'[g] = mem[g]
  BY <1>1
<1>5. Holds(mem'[f], batch[n])
  <2>1. batch[n] \in Packets
    <3>1. n \in 1..Len(batch) /\ batch \in Seq(Packets)
      BY <1>1, LenProperties DEF TypeOK, AllocFromList
    <3> QED
      BY <3>1, ElementOfSeq
  <2>2. Copied(batch[n]) \subseteq 1..FrameSize
    BY <2>1, CopiedFits
  <2>3. mem'[f] = [i \in 1..FrameSize |-> IF i \in Copied(batch[n]) THEN batch[n] ELSE mem[f][i]]
    BY <1>1, <1>2
  <2> QED
    BY <2>2, <2>3 DEF Holds
<1>6. ASSUME clean, NEW q \in Seq(Queued), f \notin Range(FramesOf(q)), Intact(q, mem)
      PROVE  Intact(q, mem')
  <2> SUFFICES ASSUME NEW x \in Range(q)
               PROVE  Holds(mem'[x.frame], x.packet)
    BY DEF Intact
  <2>1. x.frame \in Range(FramesOf(q)) /\ Range(FramesOf(q)) \subseteq Frames
    BY QueuedFrames, FramesOfSeq, RangeOfSeq
  <2>2. Holds(mem[x.frame], x.packet)
    BY <1>6 DEF Intact
  <2> QED
    BY <1>4, <1>6, <2>1, <2>2
<1>7. PayloadIntact'
  <2>1. clean => Intact(tx, mem) /\ Intact(inflight, mem)
    BY PayloadByRange
  <2>2. clean => Intact(tx, mem') /\ Intact(inflight, mem')
    BY <1>1, <1>3, <1>6, <2>1
  <2>3. /\ Range(tx) = {tx[i] : i \in 1..Len(tx)}
        /\ Range(inflight) = {inflight[i] : i \in 1..Len(inflight)}
    BY <1>1, RangeEquality
  <2> QED
    BY <1>1, <2>2, <2>3 DEF Intact, PayloadIntact
<1>8. InHand'
  <2> SUFFICES ASSUME clean, NEW i \in 1..Len(addrs')
               PROVE  Holds(mem'[addrs'[i]], batch[i])
    BY <1>1 DEF InHand
  <2>1. /\ Len(addrs') = n /\ addrs'[n] = f
        /\ \A j \in 1..Len(addrs) : addrs'[j] = addrs[j]
    BY <1>1, <1>2, AppendProperties
  <2>2. CASE i = n
    BY <1>5, <2>1, <2>2
  <2>3. CASE i # n
    <3>1. i \in 1..Len(addrs)
      BY <1>1, <2>1, <2>3
    <3>2. addrs[i] \in Frames /\ addrs[i] \in Range(addrs)
      BY <1>1, <3>1, ElementOfSeq, RangeEquality
    <3>3. Holds(mem[addrs[i]], batch[i])
      BY <1>1, <3>1 DEF InHand
    <3> QED
      BY <1>3, <1>4, <2>1, <3>1, <3>2, <3>3
  <2> QED
    BY <2>2, <2>3
<1> QED
  BY <1>7, <1>8

\* A frame is queued with the packet that was copied into it.
LEMMA PublishIntact ==
  ASSUME TypeOK, Stage, InHand, PayloadIntact, pc = "publish", Publish,
         UNCHANGED <<mem, inflight>>, clean' => clean
  PROVE  PayloadIntact'
<1>1. /\ tx \in Seq(Queued) /\ tx' = tx \o Published /\ mem' = mem /\ inflight' = inflight
      /\ Published \in Seq(Queued) /\ Len(Published) = room /\ room \in Nat /\ Len(tx) \in Nat
      /\ \A i \in 1..room : /\ i \in 1..Len(addrs)
                            /\ Published[i].frame = addrs[i] /\ Published[i].packet = batch[i]
  BY PublishedSeq, LenProperties DEF TypeOK, Publish, Published
<1>2. SUFFICES ASSUME clean, NEW i \in 1..Len(tx')
               PROVE  Holds(mem[tx'[i].frame], tx'[i].packet)
  BY <1>1 DEF PayloadIntact
<1>3. /\ Len(tx') = Len(tx) + room
      /\ \A j \in 1..(Len(tx) + room) :
           tx'[j] = IF j <= Len(tx) THEN tx[j] ELSE Published[j - Len(tx)]
  BY <1>1, ConcatProperties
<1>4. CASE i <= Len(tx)
  <2>1. i \in 1..Len(tx) /\ tx'[i] = tx[i]
    BY <1>1, <1>3, <1>4
  <2> QED
    BY <1>2, <2>1 DEF PayloadIntact
<1>5. CASE ~(i <= Len(tx))
  <2>1. i - Len(tx) \in 1..room /\ tx'[i] = Published[i - Len(tx)]
    BY <1>1, <1>3, <1>5
  <2>2. PICK j \in 1..room : j = i - Len(tx)
    BY <2>1
  <2>3. Holds(mem[addrs[j]], batch[j])
    BY <1>1, <1>2, <2>2 DEF InHand
  <2> QED
    BY <1>1, <2>1, <2>2, <2>3
<1> QED
  BY <1>4, <1>5

LEMMA PayloadStep ==
  ASSUME TypeOK, Stage, OneOwner, InHand, PayloadIntact, [Next]_vars
  PROVE  InHand' /\ PayloadIntact'
<1> USE DEF kernel, sender
<1>1. ASSUME UNCHANGED <<mem, tx, inflight, clean>>
      PROVE  PayloadIntact'
  BY <1>1 DEF PayloadIntact
<1>2. ASSUME pc' \notin {"alloc", "reserve", "publish"}
      PROVE  InHand'
  BY <1>2 DEF InHand
<1>3. ASSUME UNCHANGED <<mem, addrs, batch, clean>>,
             pc' \in {"alloc", "reserve", "publish"} => pc \in {"alloc", "reserve", "publish"}
      PROVE  InHand'
  BY <1>3 DEF InHand
<1>4. ASSUME NEW packets \in Batches, Send(packets)
      PROVE  InHand' /\ PayloadIntact'
  BY <1>1, <1>2, <1>4 DEF Send
<1>5. CASE PopCompletions
  BY <1>1, <1>2, <1>5 DEF PopCompletions
<1>6. CASE GiveBack
  BY <1>1, <1>2, <1>6 DEF GiveBack
<1>7. CASE GiveBackDone
  <2>1. addrs' = <<>> /\ Len(addrs') = 0
    BY <1>7 DEF GiveBackDone, Stage
  <2> QED
    BY <1>1, <1>7, <2>1 DEF GiveBackDone, InHand
<1>8. CASE AllocFromList
  BY <1>8, CopyHarmless
<1>9. CASE AllocFallback
  BY <1>9 DEF AllocFallback, InHand, PayloadIntact
<1>10. CASE AllocDone
  BY <1>1, <1>3, <1>10 DEF AllocDone
<1>11. CASE TxReserve
  BY <1>1, <1>3, <1>11 DEF TxReserve
<1>12. CASE TxPublishAll
  BY <1>2, <1>12, PublishIntact DEF TxPublishAll
<1>13. CASE TxPublishSome
  BY <1>2, <1>13, PublishIntact DEF TxPublishSome
<1>14. CASE ReturnFrame
  BY <1>1, <1>2, <1>14 DEF ReturnFrame
<1>15. CASE ReturnDone
  BY <1>1, <1>2, <1>15 DEF ReturnDone
<1>16. CASE WaitEnds
  BY <1>1, <1>2, <1>16 DEF WaitEnds
<1>17. ASSUME NEW hr \in Headrooms, Reconfigure(hr)
       PROVE  InHand' /\ PayloadIntact'
  BY <1>1, <1>3, <1>17 DEF Reconfigure
<1>18. CASE KernelTake
  <2>1. /\ tx \in Seq(Queued) /\ inflight \in Seq(Queued) /\ tx # <<>>
        /\ tx' = Tail(tx) /\ inflight' = Append(inflight, Head(tx))
        /\ mem' = mem /\ clean' = clean
    BY <1>18 DEF TypeOK, KernelTake
  <2>2. /\ Len(tx') = Len(tx) - 1 /\ \A i \in 1..Len(tx') : tx'[i] = tx[i + 1]
        /\ Head(tx) \in Queued /\ Len(tx) \in Nat /\ Head(tx) = tx[1] /\ Len(tx) # 0
    BY <2>1, HeadTailProperties, LenProperties, EmptySeq
  <2>3. /\ Len(inflight') = Len(inflight) + 1 /\ inflight'[Len(inflight) + 1] = tx[1]
        /\ \A i \in 1..Len(inflight) : inflight'[i] = inflight[i]
        /\ Len(inflight) \in Nat
    BY <2>1, <2>2, AppendProperties, LenProperties
  <2>4. ASSUME clean, NEW i \in 1..Len(tx')
        PROVE  Holds(mem[tx'[i].frame], tx'[i].packet)
    <3>1. i + 1 \in 1..Len(tx)
      BY <2>2
    <3> QED
      BY <2>2, <2>4, <3>1 DEF PayloadIntact
  <2>5. ASSUME clean, NEW i \in 1..Len(inflight')
        PROVE  Holds(mem[inflight'[i].frame], inflight'[i].packet)
    <3>1. i \in 1..Len(inflight) \/ i = Len(inflight) + 1
      BY <2>3
    <3>2. 1 \in 1..Len(tx)
      BY <2>2
    <3> QED
      BY <2>3, <2>5, <3>1, <3>2 DEF PayloadIntact
  <2> QED
    BY <1>3, <1>18, <2>1, <2>4, <2>5 DEF KernelTake, PayloadIntact
<1>19. ASSUME NEW i \in 1..Len(inflight), KernelComplete(i)
       PROVE  InHand' /\ PayloadIntact'
  <2> DEFINE A == SubSeq(inflight, 1, i - 1)
             B == SubSeq(inflight, i + 1, Len(inflight))
             one == <<inflight[i]>>
  <2>1. /\ inflight \in Seq(Queued) /\ A \in Seq(Queued) /\ B \in Seq(Queued)
        /\ one \in Seq(Queued) /\ inflight = A \o (one \o B)
    <3>1. /\ inflight \in Seq(Queued) /\ A \in Seq(Queued) /\ B \in Seq(Queued)
          /\ inflight[i] \in Queued /\ inflight = A \o (one \o B)
      BY AroundPlace DEF TypeOK
    <3>2. one \in Seq(Queued)
      BY <3>1, SingletonSeq
    <3> QED
      BY <3>1, <3>2
  <2>2. inflight' = A \o B /\ mem' = mem /\ tx' = tx /\ clean' = clean
    BY <1>19 DEF KernelComplete
  <2> HIDE DEF A, B, one
  <2> DEFINE ob == one \o B
  <2>3. ob \in Seq(Queued) /\ Range(ob) = Range(one) \cup Range(B) /\ inflight = A \o ob
    BY <2>1, ConcatProperties, RangeConcatenation
  <2> HIDE DEF ob
  <2>4. Range(inflight) = Range(A) \cup Range(ob) /\ Range(inflight') = Range(A) \cup Range(B)
    BY <2>1, <2>2, <2>3, RangeConcatenation
  <2>5. clean => Intact(tx, mem) /\ Intact(inflight, mem)
    BY PayloadByRange
  <2>6. clean => Intact(inflight', mem)
    BY <2>3, <2>4, <2>5 DEF Intact
  <2>7. Range(inflight') = {inflight'[j] : j \in 1..Len(inflight')}
    <3>1. inflight' \in Seq(Queued)
      BY <2>1, <2>2, ConcatProperties
    <3> QED
      BY <3>1, RangeEquality
  <2>8. PayloadIntact'
    BY <2>2, <2>6, <2>7 DEF Intact, PayloadIntact
  <2> QED
    BY <1>3, <1>19, <2>8 DEF KernelComplete
<1>20. CASE UNCHANGED vars
  BY <1>1, <1>3, <1>20 DEF vars
<1> QED
  BY <1>4, <1>5, <1>6, <1>7, <1>8, <1>9, <1>10, <1>11, <1>12, <1>13, <1>14, <1>15, <1>16,
     <1>17, <1>18, <1>19, <1>20 DEF Next, SendStep

----------------------------------------------------------------------------
(* Theorems. *)

LEMMA SocketInvHolds == Spec => []SocketInv
<1>1. Init => SocketInv
  BY StageInit, OwnersInit, PayloadInit DEF SocketInv
<1>2. SocketInv /\ [Next]_vars => SocketInv'
  BY StageStep, OwnersStep, PayloadStep DEF SocketInv
<1> QED
  BY <1>1, <1>2, PTL DEF Spec

\* The sender's, the rings' and the free list's state stays well typed: in
\* particular a push never overfills the TX ring although it decides on an
\* index it read before.
THEOREM SocketTyped == Spec => []TypeOK
<1>1. SocketInv => TypeOK
  BY DEF SocketInv
<1> QED
  BY <1>1, SocketInvHolds, PTL

\* As long as no batch was pushed in part and the bump allocator was not
\* used, no frame is in two places or in one place twice.
THEOREM FramesOwnedOnce == Spec => []OwnedOnce
<1>1. SocketInv => OwnedOnce
  <2> SUFFICES ASSUME SocketInv, clean
               PROVE  \A i, j \in 1..Len(Held) : i # j => Held[i] # Held[j]
    BY DEF OwnedOnce
  <2> QED
    BY HeldIsPlaces DEF SocketInv, Distinct
<1> QED
  BY <1>1, SocketInvHolds, PTL

\* Under the same condition, while the headroom leaves a slot for every frame,
\* each frame is somewhere: reclaim, failed attempts and refused pushes to the
\* free list lose none.
THEOREM FramesKept == Spec => []NoLeak
<1>1. SocketInv => NoLeak
  <2> SUFFICES ASSUME SocketInv, clean, roomy, NEW f \in Frames
               PROVE  \E i \in 1..Len(Held) : Held[i] = f
    BY DEF NoLeak
  <2>1. PICK a \in PlaceIds : f \in Places[a]
    BY DEF SocketInv, AllOwned, Cover
  <2>2. Held \in Seq(Frames) /\ Range(Held) = UNION {Places[b] : b \in PlaceIds}
    BY HeldIsPlaces DEF SocketInv
  <2>3. f \in Range(Held) /\ Range(Held) = {Held[i] : i \in 1..Len(Held)}
    BY <2>1, <2>2, RangeEquality
  <2> QED
    BY <2>3
<1> QED
  BY <1>1, SocketInvHolds, PTL

\* Under the same condition the kernel finds in a frame the packet that send
\* queued with it, from the push to the completion.
THEOREM PayloadsKept == Spec => []PayloadIntact
<1>1. SocketInv => PayloadIntact
  BY DEF SocketInv
<1> QED
  BY <1>1, SocketInvHolds, PTL

----------------------------------------------------------------------------
(* The steps of a send. *)

LEMMA StepsFewer ==
  ASSUME TypeOK, Stage, [Next]_vars, pc # "idle", sender' # sender
  PROVE  pc' = "idle" \/ (0 < StepsLeft' /\ StepsLeft' < StepsLeft)
<1> USE DEF kernel, sender
<1>1. /\ comps \in Seq(Frames) /\ addrs \in Seq(Frames) /\ comp \in Seq(Frames)
      /\ Len(comps) \in Nat /\ Len(addrs) \in Nat /\ Len(comp) \in Nat /\ Len(batch) \in Nat
      /\ MaxReclaim \in Nat /\ MaxRetries \in Nat /\ MaxRetries - attempt \in Nat
  BY LenProperties, SocketAssumption DEF TypeOK
<1>2. PICK n \in Nat, all \in Nat : n = Len(batch) /\ all = AttemptSteps
                                    /\ all = MaxReclaim + 2 * n + 7
  BY <1>1 DEF AttemptSteps
<1>3. PICK rest \in Nat : rest = (MaxRetries - attempt) * AttemptSteps
  <2>1. PICK k \in Nat : k = MaxRetries - attempt
    BY <1>1
  <2>2. k * all \in Nat
    OBVIOUS
  <2> QED
    BY <1>2, <2>1, <2>2
\* Within an attempt.
<1>4. ASSUME batch' = batch, attempt' = attempt
      PROVE  AttemptSteps' = all /\ (MaxRetries - attempt') * AttemptSteps' = rest
  BY <1>2, <1>3, <1>4 DEF AttemptSteps
<1>5. CASE PopCompletions
  <2> DEFINE m == Smaller(MaxReclaim, Len(comp))
  <2>1. m \in 0..Len(comp) /\ m <= MaxReclaim
    BY <1>1 DEF Smaller
  <2>2. pc = "reclaim" /\ pc' = "giveback" /\ comps' = SubSeq(comp, 1, m)
    BY <1>5 DEF PopCompletions
  <2> HIDE DEF m
  <2>3. Len(comps') = m
    BY <1>1, <2>1, <2>2, PrefixAndRest
  <2>4. StepsLeft = rest + all
    BY <1>2, <1>3, <2>2 DEF StepsLeft
  <2>5. UNCHANGED <<batch, attempt>>
    BY <1>5 DEF PopCompletions
  <2>6. StepsLeft' = rest + (Len(comps') + 2 * n + 6)
    BY <1>2, <1>4, <2>2, <2>5 DEF StepsLeft
  <2> QED
    BY <1>1, <1>2, <2>1, <2>3, <2>4, <2>6
<1>6. CASE GiveBack
  <2>1. Len(comps') = Len(comps) - 1 /\ Len(comps) > 0
    BY <1>1, <1>6, HeadTailProperties, EmptySeq DEF GiveBack
  <2>2. pc = "giveback" /\ pc' = pc /\ UNCHANGED <<batch, attempt>>
    BY <1>6 DEF GiveBack
  <2>3. StepsLeft = rest + (Len(comps) + 2 * n + 6)
    BY <1>2, <1>3, <2>2 DEF StepsLeft
  <2>4. StepsLeft' = rest + (Len(comps') + 2 * n + 6)
    BY <1>2, <1>4, <2>2 DEF StepsLeft
  <2> QED
    BY <1>1, <2>1, <2>3, <2>4
<1>7. CASE GiveBackDone
  <2>1. Len(comps) = 0 /\ Len(addrs) = 0
    BY <1>7 DEF GiveBackDone, Stage
  <2>2. pc = "giveback" /\ pc' = "alloc" /\ UNCHANGED <<addrs, batch, attempt>>
    BY <1>7 DEF GiveBackDone
  <2>3. StepsLeft = rest + (Len(comps) + 2 * n + 6)
    BY <1>2, <1>3, <2>2 DEF StepsLeft
  <2>4. StepsLeft' = rest + (2 * n - Len(addrs) + 5)
    BY <1>2, <1>4, <2>2 DEF StepsLeft
  <2> QED
    BY <2>1, <2>3, <2>4
<1>8. CASE AllocFromList \/ AllocFallback
  <2>1. pc = "alloc" /\ pc' = pc /\ batch' = batch /\ attempt' = attempt
        /\ \E f : addrs' = Append(addrs, f)
    BY <1>8 DEF AllocFromList, AllocFallback, CopyInto
  <2>2. Len(addrs') = Len(addrs) + 1 /\ Len(addrs) + 1 <= n
    <3>1. Len(addrs) < n
      BY <1>2, <1>8 DEF AllocFromList, AllocFallback
    <3>2. Len(addrs') = Len(addrs) + 1
      BY <1>1, <2>1
    <3> QED
      BY <1>1, <3>1, <3>2
  <2>3. StepsLeft = rest + (2 * n - Len(addrs) + 5)
    BY <1>2, <1>3, <2>1 DEF StepsLeft
  <2>4. StepsLeft' = rest + (2 * n - Len(addrs') + 5)
    BY <1>2, <1>4, <2>1 DEF StepsLeft
  <2> QED
    BY <1>1, <2>2, <2>3, <2>4
<1>9. CASE AllocDone
  <2>1. Len(addrs) = n /\ pc = "alloc" /\ pc' = "reserve" /\ UNCHANGED <<addrs, batch, attempt>>
    BY <1>2, <1>9 DEF AllocDone
  <2>2. StepsLeft = rest + (2 * n - n + 5)
    BY <1>2, <1>3, <2>1 DEF StepsLeft
  <2>3. StepsLeft' = rest + n + 4
    BY <1>2, <1>4, <2>1 DEF StepsLeft
  <2> QED
    BY <2>2, <2>3
<1>10. CASE TxReserve
  <2>1. pc = "reserve" /\ pc' = "publish" /\ UNCHANGED <<addrs, batch, attempt>>
    BY <1>10 DEF TxReserve
  <2>2. StepsLeft = rest + Len(addrs) + 4
    BY <1>1, <1>3, <2>1 DEF StepsLeft
  <2>3. StepsLeft' = rest + Len(addrs) + 3
    BY <1>1, <1>4, <2>1 DEF StepsLeft
  <2> QED
    BY <1>1, <2>2, <2>3
<1>11. CASE TxPublishAll
  BY <1>11 DEF TxPublishAll
<1>12. CASE TxPublishSome
  <2>1. pc = "publish" /\ pc' = "return" /\ UNCHANGED <<addrs, batch, attempt>>
    BY <1>12 DEF TxPublishSome
  <2>2. StepsLeft = rest + Len(addrs) + 3
    BY <1>1, <1>3, <2>1 DEF StepsLeft
  <2>3. StepsLeft' = rest + Len(addrs) + 2
    BY <1>1, <1>4, <2>1 DEF StepsLeft
  <2> QED
    BY <1>1, <2>2, <2>3
<1>13. CASE ReturnFrame
  <2>1. Len(addrs') = Len(addrs) - 1 /\ Len(addrs) > 0
    BY <1>1, <1>13, HeadTailProperties, EmptySeq DEF ReturnFrame
  <2>2. pc = "return" /\ pc' = pc /\ UNCHANGED <<batch, attempt>>
    BY <1>13 DEF ReturnFrame
  <2>3. StepsLeft = rest + Len(addrs) + 2
    BY <1>1, <1>3, <2>2 DEF StepsLeft
  <2>4. StepsLeft' = rest + Len(addrs') + 2
    BY <1>1, <1>4, <2>1, <2>2 DEF StepsLeft
  <2> QED
    BY <1>1, <2>1, <2>3, <2>4
<1>14. CASE ReturnDone
  <2>1. CASE attempt = MaxRetries
    BY <1>14, <2>1 DEF ReturnDone
  <2>2. CASE attempt # MaxRetries
    <3>1. pc = "return" /\ pc' = "wait" /\ Len(addrs) = 0 /\ UNCHANGED <<addrs, batch, attempt>>
      BY <1>14, <2>2 DEF ReturnDone
    <3>2. StepsLeft = rest + 2
      BY <1>3, <3>1 DEF StepsLeft
    <3>3. StepsLeft' = rest + 1
      BY <1>4, <3>1 DEF StepsLeft
    <3> QED
      BY <3>2, <3>3
  <2> QED
    BY <2>1, <2>2
<1>15. CASE WaitEnds
  <2>1. pc = "wait" /\ pc' = "reclaim" /\ attempt' = attempt + 1 /\ batch' = batch
        /\ attempt < MaxRetries
    BY <1>15 DEF WaitEnds, Stage
  <2>2. PICK k \in Nat : k = MaxRetries - attempt - 1
    BY <1>1, <2>1 DEF TypeOK
  <2>3. rest = k * all + all /\ k * all \in Nat
    <3>1. MaxRetries - attempt = k + 1
      BY <1>1, <2>2 DEF TypeOK
    <3>2. (k + 1) * all = k * all + all /\ k * all \in Nat
      OBVIOUS
    <3> QED
      BY <1>2, <1>3, <3>1, <3>2
  <2>4. AttemptSteps' = all /\ MaxRetries - attempt' = k
    BY <1>1, <1>2, <2>1, <2>2 DEF AttemptSteps, TypeOK
  <2>5. StepsLeft = rest + 1
    BY <1>3, <2>1 DEF StepsLeft
  <2>6. StepsLeft' = k * all + all
    BY <2>1, <2>4 DEF StepsLeft
  <2>7. all > 0
    BY <1>1, <1>2
  <2> QED
    BY <2>3, <2>5, <2>6, <2>7
<1> QED
  BY <1>5, <1>6, <1>7, <1>8, <1>9, <1>10, <1>11, <1>12, <1>13, <1>14, <1>15
  DEF Next, SendStep, Send, Reconfigure, KernelTake, KernelComplete, vars

\* However many frames, retries and completions there are and whatever the
\* kernel does, a send takes no more than the steps that StepsLeft counts.
THEOREM SendsBounded == Spec => SendBounded
<1>1. TypeOK /\ Stage /\ [Next]_vars =>
        [pc # "idle" /\ sender' # sender =>
           pc' = "idle" \/ (0 < StepsLeft' /\ StepsLeft' < StepsLeft)]_vars
  BY StepsFewer
<1>2. SocketInv => TypeOK /\ Stage
  BY DEF SocketInv
<1> QED
  BY <1>1, <1>2, SocketInvHolds, PTL DEF Spec, SendBounded
====
