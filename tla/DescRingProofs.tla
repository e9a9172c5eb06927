--------------------------- MODULE DescRingProofs ---------------------------
(***************************************************************************)
(* What a descriptor ring guarantees for any capacity, index space, batch  *)
(* length and set of descriptors: the producer writes free slots only, and *)
(* the ring is the bounded queue of BoundedFifo.                           *)
(***************************************************************************)
EXTENDS DescRing, SequenceTheorems, TLAPS

----------------------------------------------------------------------------
(* Arithmetic of wrapping indices. *)

IndexRange == 0..(IndexSpace - 1)

\* The slot n places after that of index x.
SlotAt(x, n) == SlotIndex[WrapAdd(x, n)]

\* Division with remainder, both ways.
LEMMA DivMod ==
  ASSUME NEW b \in Nat \ {0}, NEW a \in Int
  PROVE  a \div b \in Int /\ a % b \in 0..(b - 1) /\ a = b * (a \div b) + (a % b)
  OBVIOUS

LEMMA ModUnique ==
  ASSUME NEW b \in Nat \ {0}, NEW q \in Int, NEW r \in 0..(b - 1)
  PROVE  (q * b + r) % b = r
  OBVIOUS

LEMMA ModAdd ==
  ASSUME NEW b \in Nat \ {0}, NEW a \in 0..(b - 1), NEW n \in 0..b
  PROVE  (a + n) % b = IF a + n < b THEN a + n ELSE a + n - b
  OBVIOUS

LEMMA ModSub ==
  ASSUME NEW b \in Nat \ {0}, NEW a \in 0..(b - 1), NEW n \in 0..(b - 1)
  PROVE  (a - n) % b = IF a >= n THEN a - n ELSE a - n + b
  OBVIOUS

LEMMA RingSizes == Capacity \in Nat \ {0} /\ IndexSpace \in Nat \ {0} /\ Capacity < IndexSpace
  BY RingAssumption

\* Adding and subtracting within one round.
LEMMA WrapAddValue ==
  ASSUME NEW a \in IndexRange, NEW n \in 0..IndexSpace
  PROVE  /\ WrapAdd(a, n) \in IndexRange
         /\ WrapAdd(a, n) = IF a + n < IndexSpace THEN a + n ELSE a + n - IndexSpace
<1>1. WrapAdd(a, n) = IF a + n < IndexSpace THEN a + n ELSE a + n - IndexSpace
  BY RingSizes, ModAdd DEF IndexRange, WrapAdd
<1> QED
  BY <1>1, RingSizes DEF IndexRange

LEMMA WrapSubValue ==
  ASSUME NEW a \in IndexRange, NEW b \in IndexRange
  PROVE  /\ WrapSub(a, b) \in IndexRange
         /\ WrapSub(a, b) = IF a >= b THEN a - b ELSE a - b + IndexSpace
<1>1. WrapSub(a, b) = IF a >= b THEN a - b ELSE a - b + IndexSpace
  BY RingSizes, ModSub DEF IndexRange, WrapSub
<1> QED
  BY <1>1, RingSizes DEF IndexRange

LEMMA WrapAddAdd ==
  ASSUME NEW a \in IndexRange, NEW m \in 0..IndexSpace, NEW n \in 0..IndexSpace,
         m + n <= IndexSpace
  PROVE  WrapAdd(WrapAdd(a, m), n) = WrapAdd(a, m + n)
<1> DEFINE c == WrapAdd(a, m)
<1>1. c \in IndexRange /\ c = IF a + m < IndexSpace THEN a + m ELSE a + m - IndexSpace
  BY WrapAddValue
<1>2. m + n \in 0..IndexSpace
  BY RingSizes
<1> HIDE DEF c
<1>3. /\ WrapAdd(c, n) = IF c + n < IndexSpace THEN c + n ELSE c + n - IndexSpace
      /\ WrapAdd(a, m + n) = IF a + (m + n) < IndexSpace THEN a + (m + n)
                             ELSE a + (m + n) - IndexSpace
  BY <1>1, <1>2, WrapAddValue
<1>4. WrapAdd(c, n) = WrapAdd(a, m + n)
  BY <1>1, <1>3, RingSizes DEF IndexRange
<1> QED
  BY <1>4 DEF c

\* What lies between two indices when one of them moves.
LEMMA WrapAddSub ==
  ASSUME NEW a \in IndexRange, NEW b \in IndexRange
  PROVE  WrapAdd(b, WrapSub(a, b)) = a
<1> DEFINE u == WrapSub(a, b)
<1>1. u \in IndexRange /\ u = IF a >= b THEN a - b ELSE a - b + IndexSpace
  BY WrapSubValue
<1> HIDE DEF u
<1>2. u \in 0..IndexSpace
  BY <1>1, RingSizes DEF IndexRange
<1>3. WrapAdd(b, u) = IF b + u < IndexSpace THEN b + u ELSE b + u - IndexSpace
  BY <1>2, WrapAddValue
<1>4. WrapAdd(b, u) = a
  BY <1>1, <1>3, RingSizes DEF IndexRange
<1> QED
  BY <1>4 DEF u

LEMMA WrapSubMoved ==
  ASSUME NEW a \in IndexRange, NEW b \in IndexRange, NEW n \in 0..IndexSpace
  PROVE  /\ WrapSub(a, b) + n < IndexSpace => WrapSub(WrapAdd(a, n), b) = WrapSub(a, b) + n
         /\ n <= WrapSub(a, b) => WrapSub(a, WrapAdd(b, n)) = WrapSub(a, b) - n
<1> DEFINE c == WrapAdd(a, n)
           d == WrapAdd(b, n)
<1>1. /\ c \in IndexRange /\ c = IF a + n < IndexSpace THEN a + n ELSE a + n - IndexSpace
      /\ d \in IndexRange /\ d = IF b + n < IndexSpace THEN b + n ELSE b + n - IndexSpace
  BY WrapAddValue
<1> HIDE DEF c, d
<1>2. /\ WrapSub(a, b) = IF a >= b THEN a - b ELSE a - b + IndexSpace
      /\ WrapSub(c, b) = IF c >= b THEN c - b ELSE c - b + IndexSpace
      /\ WrapSub(a, d) = IF a >= d THEN a - d ELSE a - d + IndexSpace
  BY <1>1, WrapSubValue
<1>3. /\ WrapSub(a, b) + n < IndexSpace => WrapSub(c, b) = WrapSub(a, b) + n
      /\ n <= WrapSub(a, b) => WrapSub(a, d) = WrapSub(a, b) - n
  BY <1>1, <1>2, RingSizes DEF IndexRange
<1> QED
  BY <1>3 DEF c, d

\* A slot n places on, within one round of the ring: the wrap of the index does
\* not show, because a whole number of rounds fits the index space.
LEMMA SlotAtValue ==
  ASSUME NEW x \in IndexRange, NEW n \in 0..Capacity
  PROVE  /\ SlotIndex[x] \in 0..(Capacity - 1)
         /\ SlotAt(x, n) = IF SlotIndex[x] + n < Capacity THEN SlotIndex[x] + n
                           ELSE SlotIndex[x] + n - Capacity
<1> DEFINE C == Capacity
           q == x \div C
           s == x % C
<1>1. C \in Nat \ {0} /\ IndexSpace \in Nat /\ C < IndexSpace /\ IndexSpace % C = 0
  BY RingAssumption
<1>2. x \in Int /\ n \in Int
  BY <1>1 DEF IndexRange
<1>3. q \in Int /\ s \in 0..(C - 1) /\ x = C * q + s
  BY <1>1, <1>2, DivMod
<1>4. SlotIndex[x] = s
  BY RingAssumption DEF IndexRange
<1>5. PICK k \in Int : IndexSpace = C * k
  <2>1. IndexSpace \div C \in Int /\ IndexSpace = C * (IndexSpace \div C) + (IndexSpace % C)
    BY <1>1, DivMod
  <2> HIDE DEF C
  <2>2. IndexSpace = C * (IndexSpace \div C)
    BY <1>1, <2>1
  <2> QED
    BY <2>1, <2>2
<1>6. PICK d \in Int : WrapAdd(x, n) = C * d + (s + n)
  <2>1. n \in 0..IndexSpace
    BY <1>1
  <2>2. WrapAdd(x, n) = x + n \/ WrapAdd(x, n) = x + n - IndexSpace
    BY <2>1, WrapAddValue
  <2> HIDE DEF q, s, C
  <2>3. x + n = C * q + (s + n)
    BY <1>1, <1>2, <1>3
  <2>4. x + n - IndexSpace = C * (q - k) + (s + n)
    BY <1>1, <1>2, <1>3, <1>5
  <2> QED
    BY <1>3, <1>5, <2>2, <2>3, <2>4
<1>7. SlotAt(x, n) = (C * d + (s + n)) % C
  <2>1. WrapAdd(x, n) \in IndexRange
    BY <1>1, WrapAddValue
  <2> QED
    BY <1>6, <2>1, RingAssumption DEF SlotAt, IndexRange
<1> HIDE DEF q, s, C
<1>8. CASE s + n < C
  <2>1. C * d + (s + n) = d * C + (s + n) /\ s + n \in 0..(C - 1)
    BY <1>1, <1>2, <1>3, <1>8
  <2>2. SlotAt(x, n) = s + n
    BY <1>1, <1>6, <1>7, <2>1, ModUnique
  <2> QED
    BY <1>3, <1>4, <1>8, <2>2 DEF C
<1>9. CASE s + n >= C
  <2>1. C * d + (s + n) = (d + 1) * C + (s + n - C) /\ s + n - C \in 0..(C - 1)
    BY <1>1, <1>2, <1>3, <1>9 DEF C
  <2>2. SlotAt(x, n) = s + n - C
    BY <1>1, <1>6, <1>7, <2>1, ModUnique
  <2> QED
    BY <1>1, <1>2, <1>3, <1>4, <1>9, <2>2 DEF C
<1> QED
  BY <1>1, <1>2, <1>3, <1>8, <1>9

\* Within one round no slot comes twice.
LEMMA SlotAtInjective ==
  ASSUME NEW x \in IndexRange, NEW m \in 0..(Capacity - 1), NEW n \in 0..(Capacity - 1), m # n
  PROVE  SlotAt(x, m) # SlotAt(x, n)
<1>1. Capacity \in Nat /\ m \in 0..Capacity /\ n \in 0..Capacity
  BY RingAssumption
<1> QED
  BY <1>1, SlotAtValue

\* Where the two chunks of a copy lie: the first runs up to the end of the
\* descriptor area, the second starts at its beginning.
LEMMA ChunkSlots ==
  ASSUME NEW x \in IndexRange, NEW n \in 1..Capacity
  PROVE  /\ Chunk1(x, n) \in 1..n /\ Chunk2(x, n) \in 0..(n - 1)
         /\ Chunk2(x, n) = n - Chunk1(x, n)
         /\ \A i \in 0..(Chunk1(x, n) - 1) : SlotAt(x, i) = SlotIndex[x] + i
         /\ \A i \in 0..(Chunk2(x, n) - 1) : SlotAt(x, Chunk1(x, n) + i) = i
         /\ SlotIndex[x] \in 0..(Capacity - 1)
         /\ SlotIndex[x] + Chunk1(x, n) <= Capacity
<1>1. Capacity \in Nat \ {0} /\ 0 \in 0..Capacity
  BY RingSizes
<1>2. SlotIndex[x] \in 0..(Capacity - 1)
  BY <1>1, SlotAtValue
<1>3. /\ Chunk1(x, n) = IF n < Capacity - SlotIndex[x] THEN n ELSE Capacity - SlotIndex[x]
      /\ Chunk2(x, n) = n - Chunk1(x, n)
  BY DEF Chunk1, Chunk2, Fewer
<1>4. /\ Chunk1(x, n) \in 1..n /\ Chunk2(x, n) \in 0..(n - 1)
      /\ SlotIndex[x] + Chunk1(x, n) <= Capacity
  BY <1>1, <1>2, <1>3
<1>5. \A i \in 0..(Chunk1(x, n) - 1) : SlotAt(x, i) = SlotIndex[x] + i
  BY <1>1, <1>2, <1>3, <1>4, SlotAtValue
<1>6. ASSUME NEW i \in 0..(Chunk2(x, n) - 1)
      PROVE  SlotAt(x, Chunk1(x, n) + i) = i
  <2>1. Chunk1(x, n) + i \in 0..Capacity /\ SlotIndex[x] + (Chunk1(x, n) + i) = Capacity + i
    BY <1>1, <1>2, <1>3, <1>4
  <2> QED
    BY <1>1, <1>2, <2>1, SlotAtValue
<1> QED
  BY <1>2, <1>3, <1>4, <1>5, <1>6

----------------------------------------------------------------------------
(* The inductive invariant. *)

Places == 0..(Avail - 1)

\* A push in progress still has the room it saw, behind the index it read: the
\* consumer can only have made more.
PushFits ==
  ppc # "idle" =>
    /\ pfrom = prod
    /\ Len(batch) \in 1..Capacity
    /\ Avail + Len(batch) <= Capacity

\* What the push has copied is in the slots it will publish.
PushCopied ==
  /\ ppc = "chunk2" =>
       \A i \in 0..(Chunk1(prod, Len(batch)) - 1) : slots[SlotAt(prod, i)] = batch[i + 1]
  /\ ppc = "publish" =>
       \A i \in 0..(Len(batch) - 1) : slots[SlotAt(prod, i)] = batch[i + 1]

\* A pop in progress still has the descriptors it saw: the producer can only
\* have added more.
PopFits ==
  cpc # "idle" => cfrom = cons /\ want \in 1..Avail

\* What the pop has copied is a prefix of the queue.
PopCopied ==
  /\ cpc = "chunk2" => Len(got) = Chunk1(cons, want)
  /\ cpc = "publish" => Len(got) = want
  /\ cpc \in {"idle", "chunk1"} => got = <<>>
  /\ cpc \in {"chunk2", "publish"} =>
       \A i \in 1..Len(got) : got[i] = slots[SlotAt(cons, i - 1)]

\* Every published slot has been written.
QueueWritten == \A j \in Places : slots[SlotAt(cons, j)] \in Descs

RingInv ==
  /\ RingTypeOK /\ Avail <= Capacity
  /\ PushFits /\ PushCopied
  /\ PopFits /\ PopCopied
  /\ QueueWritten

Slots == 0..(Capacity - 1)

LEMMA AvailRange ==
  ASSUME RingTypeOK
  PROVE  Avail \in 0..(IndexSpace - 1) /\ prod \in IndexRange /\ cons \in IndexRange
BY WrapSubValue DEF RingTypeOK, Avail, IndexRange

\* The free slots follow the queued ones.
LEMMA BehindQueue ==
  ASSUME RingTypeOK, Avail <= Capacity, NEW i \in 0..(Capacity - Avail)
  PROVE  SlotAt(prod, i) = SlotAt(cons, Avail + i)
<1>1. /\ Avail \in 0..IndexSpace /\ i \in 0..IndexSpace /\ Avail + i <= IndexSpace
      /\ prod \in IndexRange /\ cons \in IndexRange
  BY AvailRange, RingSizes
<1>2. WrapAdd(cons, Avail) = prod
  BY <1>1, WrapAddSub DEF Avail
<1>3. WrapAdd(WrapAdd(cons, Avail), i) = WrapAdd(cons, Avail + i)
  BY <1>1, WrapAddAdd
<1> QED
  BY <1>2, <1>3 DEF SlotAt

\* A push in progress and the queue share no slot.
LEMMA FreeSlots ==
  ASSUME RingInv, ppc # "idle", NEW i \in 0..(Len(batch) - 1), NEW j \in Places
  PROVE  SlotAt(prod, i) # SlotAt(cons, j)
<1>1. /\ Avail \in Nat /\ cons \in IndexRange /\ Avail <= Capacity /\ Capacity \in Nat
      /\ Len(batch) \in Nat /\ Avail + Len(batch) <= Capacity
  BY AvailRange, RingSizes DEF RingInv, PushFits
<1>2. /\ i \in 0..(Capacity - Avail) /\ Avail + i \in 0..(Capacity - 1)
      /\ j \in 0..(Capacity - 1) /\ j # Avail + i
  BY <1>1 DEF Places
<1>3. SlotAt(prod, i) = SlotAt(cons, Avail + i)
  BY <1>2, BehindQueue DEF RingInv
<1> QED
  BY <1>1, <1>2, <1>3, SlotAtInjective

\* The places of the queue and of a push name slots of the area.
LEMMA SlotsNamed ==
  ASSUME NEW x \in IndexRange, NEW n \in 0..(Capacity - 1)
  PROVE  SlotAt(x, n) \in Slots
BY SlotAtValue, RingSizes DEF Slots

----------------------------------------------------------------------------
(* What the two copies of a push write. *)

LEMMA Chunk1Writes ==
  ASSUME RingInv, PushChunk1
  PROVE  /\ slots' \in [Slots -> Descs \cup {Blank}]
         /\ \A i \in 0..(Chunk1(prod, Len(batch)) - 1) : slots'[SlotAt(prod, i)] = batch[i + 1]
         /\ \A j \in Places : slots'[SlotAt(cons, j)] = slots[SlotAt(cons, j)]
<1> DEFINE n == Len(batch)
           c == Chunk1(prod, n)
           s == SlotIndex[prod]
<1>1. /\ pfrom = prod /\ n \in 1..Capacity /\ prod \in IndexRange /\ cons \in IndexRange
      /\ Capacity \in Nat /\ Avail \in Nat /\ Avail <= Capacity /\ ppc # "idle"
      /\ batch \in Seq(Descs) /\ slots \in [Slots -> Descs \cup {Blank}]
  BY AvailRange, RingSizes DEF RingInv, RingTypeOK, PushFits, PushChunk1, Slots
<1>2. /\ c \in 1..n /\ s \in Slots /\ s + c <= Capacity
      /\ \A i \in 0..(c - 1) : SlotAt(prod, i) = s + i
  BY <1>1, ChunkSlots DEF Slots
<1>3. slots' = [k \in Slots |-> IF k \in s..(s + c - 1) THEN batch[k - s + 1] ELSE slots[k]]
  BY <1>1 DEF PushChunk1, Slots
<1> HIDE DEF c, s
<1>4. slots' \in [Slots -> Descs \cup {Blank}]
  <2>1. ASSUME NEW k \in Slots, k \in s..(s + c - 1)
        PROVE  batch[k - s + 1] \in Descs
    BY <1>1, <1>2, <2>1 DEF Slots
  <2> QED
    BY <1>1, <1>3, <2>1
<1>5. ASSUME NEW i \in 0..(c - 1)
      PROVE  slots'[SlotAt(prod, i)] = batch[i + 1]
  <2> DEFINE k == s + i
  <2>1. k \in Slots /\ k \in s..(s + c - 1) /\ k - s + 1 = i + 1
    BY <1>1, <1>2 DEF Slots
  <2>2. SlotAt(prod, i) = k
    BY <1>2
  <2> HIDE DEF k
  <2>3. slots'[k] = batch[k - s + 1]
    BY <1>3, <2>1
  <2> QED
    BY <2>1, <2>2, <2>3
<1>6. ASSUME NEW j \in Places
      PROVE  slots'[SlotAt(cons, j)] = slots[SlotAt(cons, j)]
  <2> DEFINE k == SlotAt(cons, j)
  <2>1. k \in Slots
    BY <1>1, SlotsNamed DEF Places
  <2>2. ASSUME k \in s..(s + c - 1)  PROVE FALSE
    <3>1. k - s \in 0..(c - 1) /\ k - s \in 0..(n - 1) /\ s + (k - s) = k
      BY <1>1, <1>2, <2>1, <2>2 DEF Slots
    <3> QED
      BY <1>1, <1>2, <3>1, FreeSlots
  <2> QED
    BY <1>3, <2>1, <2>2
<1> QED
  BY <1>4, <1>5, <1>6 DEF c

LEMMA Chunk2Writes ==
  ASSUME RingInv, PushChunk2
  PROVE  /\ slots' \in [Slots -> Descs \cup {Blank}]
         /\ \A i \in 0..(Len(batch) - 1) : slots'[SlotAt(prod, i)] = batch[i + 1]
         /\ \A j \in Places : slots'[SlotAt(cons, j)] = slots[SlotAt(cons, j)]
<1> DEFINE n == Len(batch)
           c == Chunk1(prod, n)
           d == Chunk2(prod, n)
           s == SlotIndex[prod]
<1>1. /\ pfrom = prod /\ n \in 1..Capacity /\ prod \in IndexRange /\ cons \in IndexRange
      /\ Capacity \in Nat /\ Avail \in Nat /\ Avail <= Capacity /\ ppc # "idle"
      /\ batch \in Seq(Descs) /\ slots \in [Slots -> Descs \cup {Blank}]
  BY AvailRange, RingSizes DEF RingInv, RingTypeOK, PushFits, PushChunk2, Slots
<1>2. /\ c \in 1..n /\ d \in 0..(n - 1) /\ d = n - c /\ s \in Slots /\ s + c <= Capacity
      /\ \A i \in 0..(c - 1) : SlotAt(prod, i) = s + i
      /\ \A i \in 0..(d - 1) : SlotAt(prod, c + i) = i
  BY <1>1, ChunkSlots DEF Slots
<1>3. slots' = [k \in Slots |-> IF k < d THEN batch[c + k + 1] ELSE slots[k]]
  BY <1>1 DEF PushChunk2, Slots
<1>4. \A i \in 0..(c - 1) : slots[SlotAt(prod, i)] = batch[i + 1]
  BY <1>1 DEF RingInv, PushCopied, PushChunk2
<1> HIDE DEF c, d, s
<1>5. slots' \in [Slots -> Descs \cup {Blank}]
  <2>1. ASSUME NEW k \in Slots, k < d
        PROVE  batch[c + k + 1] \in Descs
    BY <1>1, <1>2, <2>1 DEF Slots
  <2> QED
    BY <1>1, <1>3, <2>1
<1>6. ASSUME NEW i \in 0..(n - 1)
      PROVE  slots'[SlotAt(prod, i)] = batch[i + 1]
  <2>1. CASE i < c
    <3>1. SlotAt(prod, i) \in Slots /\ i \in 0..(c - 1) /\ i \in Slots
      <4>1. i \in 0..(c - 1) /\ i \in 0..(Capacity - 1)
        BY <1>1, <1>2, <2>1
      <4> QED
        BY <1>1, <4>1, SlotsNamed DEF Slots
    <3>2. ASSUME SlotAt(prod, i) < d  PROVE FALSE
      <4> DEFINE k == SlotAt(prod, i)
      <4>1. k \in 0..(d - 1) /\ c + k \in Slots /\ c + k # i
        BY <1>1, <1>2, <2>1, <3>1, <3>2 DEF Slots
      <4>2. SlotAt(prod, c + k) = k
        BY <1>2, <4>1
      <4> QED
        BY <1>1, <3>1, <4>1, <4>2, SlotAtInjective DEF Slots
    <3> QED
      BY <1>3, <1>4, <3>1, <3>2
  <2>2. CASE i >= c
    <3>1. i - c \in 0..(d - 1) /\ i - c \in Slots /\ c + (i - c) = i /\ i - c < d
      BY <1>1, <1>2, <2>2 DEF Slots
    <3>2. SlotAt(prod, i) = i - c
      BY <1>2, <3>1
    <3> QED
      BY <1>3, <3>1, <3>2
  <2> QED
    BY <1>1, <1>2, <2>1, <2>2
<1>7. ASSUME NEW j \in Places
      PROVE  slots'[SlotAt(cons, j)] = slots[SlotAt(cons, j)]
  <2> DEFINE k == SlotAt(cons, j)
  <2>1. k \in Slots
    BY <1>1, SlotsNamed DEF Places
  <2>2. ASSUME k < d  PROVE FALSE
    <3>1. k \in 0..(d - 1) /\ c + k \in 0..(n - 1)
      BY <1>1, <1>2, <2>1, <2>2 DEF Slots
    <3> QED
      BY <1>1, <1>2, <3>1, FreeSlots
  <2> QED
    BY <1>3, <2>1, <2>2
<1> QED
  BY <1>5, <1>6, <1>7

\* What the two copies of a pop read.
LEMMA ChunkReads ==
  ASSUME RingInv, cpc # "idle"
  PROVE  /\ Chunk1(cons, want) \in 1..want /\ Chunk2(cons, want) = want - Chunk1(cons, want)
         /\ \A i \in 1..Chunk1(cons, want) :
              /\ SlotIndex[cfrom] + i - 1 = SlotAt(cons, i - 1)
              /\ slots[SlotAt(cons, i - 1)] \in Descs
         /\ \A i \in 1..Chunk2(cons, want) :
              /\ i - 1 = SlotAt(cons, Chunk1(cons, want) + i - 1)
              /\ slots[SlotAt(cons, Chunk1(cons, want) + i - 1)] \in Descs
<1> DEFINE c == Chunk1(cons, want)
           d == Chunk2(cons, want)
<1>1. /\ cfrom = cons /\ want \in 1..Capacity /\ want <= Avail /\ Avail \in Nat
      /\ cons \in IndexRange /\ Capacity \in Nat
  BY AvailRange, RingSizes DEF RingInv, PopFits
<1>2. /\ c \in 1..want /\ d \in 0..(want - 1) /\ d = want - c
      /\ \A i \in 0..(c - 1) : SlotAt(cons, i) = SlotIndex[cons] + i
      /\ \A i \in 0..(d - 1) : SlotAt(cons, c + i) = i
      /\ SlotIndex[cons] \in 0..(Capacity - 1)
  BY <1>1, ChunkSlots
<1>3. \A j \in 0..(want - 1) : slots[SlotAt(cons, j)] \in Descs
  BY <1>1 DEF RingInv, QueueWritten, Places
<1> HIDE DEF c, d
<1>4. ASSUME NEW i \in 1..c
      PROVE  /\ SlotIndex[cfrom] + i - 1 = SlotAt(cons, i - 1)
             /\ slots[SlotAt(cons, i - 1)] \in Descs
  <2>1. i - 1 \in 0..(c - 1) /\ i - 1 \in 0..(want - 1)
    BY <1>1, <1>2
  <2>2. SlotAt(cons, i - 1) = SlotIndex[cons] + (i - 1)
    BY <1>2, <2>1
  <2> QED
    BY <1>1, <1>2, <1>3, <2>1, <2>2
<1>5. ASSUME NEW i \in 1..d
      PROVE  /\ i - 1 = SlotAt(cons, c + i - 1)
             /\ slots[SlotAt(cons, c + i - 1)] \in Descs
  <2>1. i - 1 \in 0..(d - 1) /\ c + (i - 1) \in 0..(want - 1) /\ c + (i - 1) = c + i - 1
    BY <1>1, <1>2
  <2>2. SlotAt(cons, c + (i - 1)) = i - 1
    BY <1>2, <2>1
  <2> QED
    BY <1>3, <2>1, <2>2
<1> QED
  BY <1>2, <1>4, <1>5 DEF c, d

\* Moving an index renames the places: what was n places on is now at the head.
LEMMA Renamed ==
  ASSUME NEW x \in IndexRange, NEW n \in 0..Capacity, NEW i \in 0..Capacity, n + i <= Capacity
  PROVE  SlotAt(WrapAdd(x, n), i) = SlotAt(x, n + i)
<1>1. n \in 0..IndexSpace /\ i \in 0..IndexSpace /\ n + i <= IndexSpace
  BY RingSizes
<1> QED
  BY <1>1, WrapAddAdd DEF SlotAt

----------------------------------------------------------------------------
(* One lemma per step: it keeps the invariant. *)

LEMMA BeginsKeep ==
  ASSUME RingInv,
         \/ \E addrs \in Batches : PushBegin(addrs)
         \/ \E max \in 1..MaxBatch : PopBegin(max)
  PROVE  RingInv' /\ Queued' = Queued
<1>1. /\ Avail \in Nat /\ Capacity \in Nat \ {0} /\ Avail <= Capacity /\ MaxBatch \in Nat
      /\ prod \in IndexRange /\ cons \in IndexRange
  BY AvailRange, RingSizes, RingAssumption DEF RingInv
<1>2. CASE \E addrs \in Batches : PushBegin(addrs)
  <2>1. PICK addrs \in Batches : PushBegin(addrs)
    BY <1>2
  <2>2. UNCHANGED <<slots, prod, cons, cpc, want, got, cfrom, taken>> /\ ppc' = "chunk1"
    BY <2>1 DEF PushBegin
  <2>3. Avail' = Avail /\ Queued' = Queued
    BY <2>2 DEF Avail, Queued
  <2>4. batch' \in Seq(Descs) /\ Len(batch') \in 1..Capacity /\ Avail + Len(batch') <= Capacity
    <3>1. PICK n \in 1..MaxBatch : addrs \in [1..n -> Descs]
      BY <2>1 DEF Batches
    <3>2. addrs \in Seq(Descs) /\ Len(addrs) = n
      BY <3>1
    <3>3. Free = Capacity - Avail /\ Free \in 1..Capacity
      BY <1>1, <2>1 DEF PushBegin, Free, Avail
    <3> DEFINE m == Fewer(Free, Len(addrs))
    <3>4. m \in 1..n /\ m <= Free
      BY <3>2, <3>3, <3>1 DEF Fewer
    <3>5. batch' = SubSeq(addrs, 1, m)
      BY <2>1 DEF PushBegin
    <3> HIDE DEF m
    <3>6. batch' \in Seq(Descs) /\ Len(batch') = m
      BY <3>2, <3>4, <3>5
    <3> QED
      BY <1>1, <3>3, <3>4, <3>6
  <2>5. pfrom' = prod
    BY <2>1 DEF PushBegin
  <2>6. RingTypeOK' /\ PushFits' /\ PushCopied'
    BY <2>2, <2>3, <2>4, <2>5 DEF RingInv, RingTypeOK, PushFits, PushCopied
  <2>7. PopFits' /\ PopCopied' /\ QueueWritten'
    BY <2>2, <2>3 DEF RingInv, PopFits, PopCopied, QueueWritten, Places
  <2> QED
    BY <2>3, <2>6, <2>7 DEF RingInv
<1>3. CASE \E max \in 1..MaxBatch : PopBegin(max)
  <2>1. PICK max \in 1..MaxBatch : PopBegin(max)
    BY <1>3
  <2>2. UNCHANGED <<slots, prod, cons, ppc, batch, pfrom, got, taken>> /\ cpc' = "chunk1"
    BY <2>1 DEF PopBegin
  <2>3. Avail' = Avail /\ Queued' = Queued
    BY <2>2 DEF Avail, Queued
  <2>4. want' \in 1..Avail /\ want' \in 0..Capacity /\ cfrom' = cons
    BY <1>1, <2>1 DEF PopBegin, Fewer
  <2>5. RingTypeOK' /\ PopFits'
    BY <2>2, <2>3, <2>4 DEF RingInv, RingTypeOK, PopFits
  <2>6. PushFits' /\ PushCopied' /\ QueueWritten'
    BY <2>2, <2>3 DEF RingInv, PushFits, PushCopied, QueueWritten, Places
  <2>7. PopCopied'
    BY <2>1, <2>2 DEF RingInv, PopCopied, PopBegin
  <2> QED
    BY <2>3, <2>5, <2>6, <2>7 DEF RingInv
<1> QED
  BY <1>2, <1>3

LEMMA PushCopyKeeps ==
  ASSUME RingInv, PushChunk1 \/ PushChunk2
  PROVE  RingInv' /\ Queued' = Queued
<1>1. /\ Avail \in Nat /\ prod \in IndexRange /\ cons \in IndexRange
      /\ pfrom = prod /\ Len(batch) \in 1..Capacity /\ Capacity \in Nat
  BY AvailRange, RingSizes DEF RingInv, PushFits, PushChunk1, PushChunk2
<1>2. /\ UNCHANGED <<prod, cons, batch, pfrom, cpc, want, got, cfrom, taken>>
      /\ ppc' \in {"chunk2", "publish"} /\ Avail' = Avail
  BY DEF PushChunk1, PushChunk2, Avail
<1>3. /\ slots' \in [Slots -> Descs \cup {Blank}]
      /\ \A j \in Places : slots'[SlotAt(cons, j)] = slots[SlotAt(cons, j)]
  BY Chunk1Writes, Chunk2Writes
<1>4. RingTypeOK' /\ PushFits' /\ PopFits'
  BY <1>2, <1>3 DEF RingInv, RingTypeOK, PushFits, PopFits, PushChunk1, PushChunk2, Slots
<1>5. PushCopied'
  <2>1. CASE PushChunk1
    <3>1. /\ Chunk1(prod, Len(batch)) \in 1..Len(batch)
          /\ Chunk2(prod, Len(batch)) = Len(batch) - Chunk1(prod, Len(batch))
      BY <1>1, ChunkSlots
    <3>2. ppc' = "publish" => Chunk1(prod, Len(batch)) = Len(batch)
      BY <1>1, <2>1, <3>1 DEF PushChunk1
    <3>3. \A i \in 0..(Chunk1(prod, Len(batch)) - 1) : slots'[SlotAt(prod, i)] = batch[i + 1]
      BY <2>1, Chunk1Writes
    <3> QED
      BY <1>2, <3>2, <3>3 DEF PushCopied
  <2>2. CASE PushChunk2
    <3>1. ppc' = "publish"
      BY <2>2 DEF PushChunk2
    <3>2. \A i \in 0..(Len(batch) - 1) : slots'[SlotAt(prod, i)] = batch[i + 1]
      BY <2>2, Chunk2Writes
    <3> QED
      BY <1>2, <3>1, <3>2 DEF PushCopied
  <2> QED
    BY <2>1, <2>2
<1>6. PopCopied'
  <2>1. /\ cpc = "chunk2" => Len(got) = Chunk1(cons, want)
        /\ cpc = "publish" => Len(got) = want
        /\ cpc \in {"idle", "chunk1"} => got = <<>>
    BY DEF RingInv, PopCopied
  <2>2. ASSUME cpc \in {"chunk2", "publish"}, NEW i \in 1..Len(got)
        PROVE  got[i] = slots'[SlotAt(cons, i - 1)]
    <3>1. Chunk1(cons, want) \in 1..want /\ want \in 1..Avail
      BY <2>2, ChunkReads DEF RingInv, PopFits
    <3>2. i - 1 \in Places
      BY <1>1, <2>1, <2>2, <3>1 DEF Places
    <3>3. got[i] = slots[SlotAt(cons, i - 1)]
      BY <2>2 DEF RingInv, PopCopied
    <3> QED
      BY <1>3, <3>2, <3>3
  <2> QED
    BY <1>2, <2>1, <2>2 DEF PopCopied
<1>7. QueueWritten'
  BY <1>2, <1>3 DEF RingInv, QueueWritten, Places
<1>8. Queued' = Queued
  <2>1. /\ Queued = [i \in 1..Avail |-> slots[SlotAt(cons, i - 1)]]
        /\ Queued' = [i \in 1..Avail |-> slots'[SlotAt(cons, i - 1)]]
    BY <1>2 DEF Queued, Avail, SlotAt
  <2>2. \A i \in 1..Avail : slots'[SlotAt(cons, i - 1)] = slots[SlotAt(cons, i - 1)]
    <3>1. \A i \in 1..Avail : i - 1 \in Places
      BY <1>1 DEF Places
    <3> QED
      BY <1>3, <3>1
  <2> QED
    BY <2>1, <2>2
<1> QED
  BY <1>2, <1>4, <1>5, <1>6, <1>7, <1>8 DEF RingInv

LEMMA PopCopyKeeps ==
  ASSUME RingInv, PopChunk1 \/ PopChunk2
  PROVE  RingInv' /\ Queued' = Queued
<1> DEFINE c == Chunk1(cons, want)
           d == Chunk2(cons, want)
<1>1. /\ UNCHANGED <<slots, prod, cons, ppc, batch, pfrom, want, cfrom, taken>>
      /\ cpc # "idle" /\ cpc' \in {"chunk2", "publish"} /\ Avail' = Avail /\ Queued' = Queued
  BY DEF PopChunk1, PopChunk2, Avail, Queued
<1>2. cfrom = cons /\ want \in 1..Avail /\ want \in 0..Capacity /\ want \in Nat
  BY <1>1, AvailRange DEF RingInv, PopFits, RingTypeOK
<1>3. /\ c \in 1..want /\ d = want - c
      /\ \A i \in 1..c : /\ SlotIndex[cfrom] + i - 1 = SlotAt(cons, i - 1)
                         /\ slots[SlotAt(cons, i - 1)] \in Descs
      /\ \A i \in 1..d : /\ i - 1 = SlotAt(cons, c + i - 1)
                         /\ slots[SlotAt(cons, c + i - 1)] \in Descs
  BY <1>1, ChunkReads
<1> HIDE DEF c, d
<1>4. CASE PopChunk1
  <2>1. got' = [i \in 1..c |-> slots[SlotAt(cons, i - 1)]]
    BY <1>2, <1>3, <1>4 DEF PopChunk1, c
  <2>2. got' \in Seq(Descs) /\ Len(got') = c
    BY <1>2, <1>3, <2>1
  <2>3. \A i \in 1..Len(got') : got'[i] = slots[SlotAt(cons, i - 1)]
    BY <2>1, <2>2
  <2>4. cpc' = "publish" => c = want
    BY <1>2, <1>3, <1>4 DEF PopChunk1, d
  <2> QED
    <3>1. RingTypeOK' /\ PopFits' /\ PushFits' /\ PushCopied' /\ QueueWritten'
      BY <1>1, <2>2 DEF RingInv, RingTypeOK, PopFits, PushFits, PushCopied, QueueWritten, Places
    <3>2. PopCopied'
      BY <1>1, <2>2, <2>3, <2>4 DEF PopCopied, c
    <3> QED
      BY <1>1, <3>1, <3>2 DEF RingInv
<1>5. CASE PopChunk2
  <2>1. /\ got' = got \o [i \in 1..d |-> slots[SlotAt(cons, c + i - 1)]]
        /\ cpc = "chunk2" /\ cpc' = "publish"
    BY <1>2, <1>3, <1>5 DEF PopChunk2, d
  <2>2. /\ got \in Seq(Descs) /\ Len(got) = c
        /\ \A i \in 1..c : got[i] = slots[SlotAt(cons, i - 1)]
    BY <2>1 DEF RingInv, RingTypeOK, PopCopied, c
  <2> DEFINE rest == [i \in 1..d |-> slots[SlotAt(cons, c + i - 1)]]
  <2>3. rest \in Seq(Descs) /\ Len(rest) = d
    BY <1>2, <1>3
  <2>4. got' \in Seq(Descs) /\ Len(got') = want
    <3>1. got' = got \o rest
      BY <2>1
    <3> HIDE DEF rest
    <3>2. got \o rest \in Seq(Descs) /\ Len(got \o rest) = Len(got) + Len(rest)
      BY <2>2, <2>3, ConcatProperties
    <3> QED
      BY <1>2, <1>3, <2>2, <2>3, <3>1, <3>2
  <2>5. ASSUME NEW i \in 1..want  PROVE got'[i] = slots[SlotAt(cons, i - 1)]
    <3>1. CASE i <= c
      BY <1>2, <1>3, <2>1, <2>2, <2>3, <3>1
    <3>2. CASE i > c
      <4>1. i - c \in 1..d /\ c + (i - c) - 1 = i - 1
        BY <1>2, <1>3, <3>2
      <4>2. got'[i] = rest[i - c]
        <5>1. got' = got \o rest
          BY <2>1
        <5> HIDE DEF rest
        <5> QED
          BY <1>2, <1>3, <2>2, <2>3, <3>2, <5>1
      <4>3. rest[i - c] = slots[SlotAt(cons, c + (i - c) - 1)]
        BY <4>1
      <4> QED
        BY <4>1, <4>2, <4>3
    <3> QED
      BY <1>2, <1>3, <3>1, <3>2
  <2> QED
    <3>1. RingTypeOK' /\ PopFits' /\ PushFits' /\ PushCopied' /\ QueueWritten'
      BY <1>1, <2>4 DEF RingInv, RingTypeOK, PopFits, PushFits, PushCopied, QueueWritten, Places
    <3>2. PopCopied'
      BY <1>1, <2>1, <2>4, <2>5 DEF PopCopied
    <3> QED
      BY <1>1, <3>1, <3>2 DEF RingInv
<1> QED
  BY <1>4, <1>5

\* Publishing a push appends its batch to the queue.
LEMMA PushPublishes ==
  ASSUME RingInv, PushPublish
  PROVE  /\ RingInv'
         /\ Queued' = Queued \o batch
         /\ Avail' = Avail + Len(batch)
<1> DEFINE n == Len(batch)
<1>1. /\ UNCHANGED <<slots, cons, cpc, want, got, cfrom, taken>>
      /\ ppc = "publish" /\ ppc' = "idle" /\ batch' = <<>> /\ pfrom' = 0
      /\ pfrom = prod /\ n \in 1..Capacity /\ Avail + n <= Capacity /\ prod' = WrapAdd(prod, n)
  BY DEF PushPublish, RingInv, PushFits
<1>2. /\ Avail \in Nat /\ prod \in IndexRange /\ cons \in IndexRange /\ Capacity \in Nat
      /\ n \in 0..IndexSpace /\ Avail + n < IndexSpace /\ n \in Nat /\ 0 \in IndexRange
  BY <1>1, AvailRange, RingSizes DEF RingInv, IndexRange
<1>3. prod' \in IndexRange /\ Avail' = Avail + n
  BY <1>1, <1>2, WrapAddValue, WrapSubMoved DEF Avail
<1>4. \A i \in 0..(n - 1) : slots[SlotAt(cons, Avail + i)] = batch[i + 1]
  <2>1. \A i \in 0..(n - 1) : slots[SlotAt(prod, i)] = batch[i + 1]
    BY <1>1 DEF RingInv, PushCopied
  <2>2. ASSUME NEW i \in 0..(n - 1)  PROVE SlotAt(prod, i) = SlotAt(cons, Avail + i)
    <3>1. i \in 0..(Capacity - Avail)
      BY <1>1, <1>2
    <3> QED
      BY <3>1, BehindQueue DEF RingInv
  <2> QED
    BY <2>1, <2>2
<1>5. batch \in Seq(Descs)
  BY DEF RingInv, RingTypeOK
<1>6. RingTypeOK' /\ PushFits' /\ PushCopied'
  BY <1>1, <1>2, <1>3 DEF RingInv, RingTypeOK, PushFits, PushCopied, IndexRange
<1>7. PopFits' /\ PopCopied'
  BY <1>1, <1>2, <1>3 DEF RingInv, PopFits, PopCopied
<1>8. QueueWritten'
  <2>1. ASSUME NEW j \in 0..(Avail + n - 1)  PROVE slots[SlotAt(cons, j)] \in Descs
    <3>1. CASE j < Avail
      BY <1>2, <3>1 DEF RingInv, QueueWritten, Places
    <3>2. CASE j >= Avail
      <4>1. j - Avail \in 0..(n - 1) /\ Avail + (j - Avail) = j /\ (j - Avail) + 1 \in 1..n
        BY <1>2, <3>2
      <4>2. slots[SlotAt(cons, Avail + (j - Avail))] = batch[(j - Avail) + 1]
        BY <1>4, <4>1
      <4> QED
        BY <1>5, <4>1, <4>2
    <3> QED
      BY <1>2, <3>1, <3>2
  <2>2. Places' = 0..(Avail + n - 1)
    BY <1>2, <1>3 DEF Places
  <2> QED
    BY <1>1, <2>1, <2>2 DEF QueueWritten
<1>9. Queued' = Queued \o batch
  <2>1. /\ Queued = [i \in 1..Avail |-> slots[SlotAt(cons, i - 1)]]
        /\ Queued' = [i \in 1..(Avail + n) |-> slots[SlotAt(cons, i - 1)]]
    BY <1>1, <1>3 DEF Queued, Avail, SlotAt
  <2>2. Queued \in Seq(Descs) /\ Len(Queued) = Avail
    <3>1. ASSUME NEW i \in 1..Avail  PROVE slots[SlotAt(cons, i - 1)] \in Descs
      <4>1. i - 1 \in Places
        BY <1>2 DEF Places
      <4> QED
        BY <4>1 DEF RingInv, QueueWritten
    <3> QED
      BY <1>2, <2>1, <3>1
  <2>3. /\ Queued \o batch \in Seq(Descs) /\ Len(Queued \o batch) = Avail + n
        /\ \A i \in 1..(Avail + n) :
             (Queued \o batch)[i] = IF i <= Avail THEN Queued[i] ELSE batch[i - Avail]
    BY <1>5, <2>2, ConcatProperties
  <2>4. ASSUME NEW i \in 1..(Avail + n)
        PROVE  slots[SlotAt(cons, i - 1)] = IF i <= Avail THEN Queued[i] ELSE batch[i - Avail]
    <3>1. CASE i <= Avail
      BY <2>1, <3>1
    <3>2. CASE i > Avail
      <4>1. i - 1 - Avail \in 0..(n - 1) /\ Avail + (i - 1 - Avail) = i - 1 /\ (i - 1 - Avail) + 1 = i - Avail
        BY <1>2, <3>2
      <4>2. slots[SlotAt(cons, Avail + (i - 1 - Avail))] = batch[(i - 1 - Avail) + 1]
        BY <1>4, <4>1
      <4> QED
        BY <1>2, <3>2, <4>1, <4>2
    <3> QED
      BY <1>2, <3>1, <3>2
  <2>5. Queued' = [i \in 1..(Avail + n) |-> (Queued \o batch)[i]]
    BY <2>1, <2>3, <2>4
  <2>6. Queued' \in Seq(Descs) /\ Len(Queued') = Avail + n
    <3>1. \A i \in 1..(Avail + n) : (Queued \o batch)[i] \in Descs
      BY <2>3, ElementOfSeq
    <3> DEFINE k == Avail + n
    <3>2. k \in Nat
      BY <1>2
    <3>3. Queued' \in [1..k -> Descs]
      BY <2>5, <3>1
    <3> HIDE DEF k
    <3>4. Queued' \in Seq(Descs) /\ Len(Queued') = k
      BY <3>2, <3>3
    <3> QED
      BY <3>4 DEF k
  <2> QED
    BY <2>3, <2>5, <2>6, SeqEqual
<1> QED
  BY <1>1, <1>2, <1>3, <1>6, <1>7, <1>8, <1>9 DEF RingInv

\* Publishing a pop removes what it returns from the head of the queue.
LEMMA PopPublishes ==
  ASSUME RingInv, PopPublish
  PROVE  /\ RingInv'
         /\ want \in 1..Avail
         /\ taken' = SubSeq(Queued, 1, want)
         /\ Queued' = SubSeq(Queued, want + 1, Avail)
<1>1. /\ UNCHANGED <<slots, prod, ppc, batch, pfrom>>
      /\ cpc = "publish" /\ cpc' = "idle" /\ got' = <<>> /\ want' = 0 /\ cfrom' = 0
      /\ taken' = got /\ cons' = WrapAdd(cons, want) /\ want \in 1..Avail
  BY DEF PopPublish, RingInv, PopFits
<1>2. /\ Avail \in Nat /\ prod \in IndexRange /\ cons \in IndexRange /\ Capacity \in Nat
      /\ want \in 0..IndexSpace /\ want \in Nat /\ want \in 0..Capacity /\ Avail <= Capacity
      /\ 0 \in IndexRange
  BY <1>1, AvailRange, RingSizes DEF RingInv, IndexRange
<1>3. cons' \in IndexRange /\ Avail' = Avail - want
  BY <1>1, <1>2, WrapAddValue, WrapSubMoved DEF Avail
<1>4. ASSUME NEW j \in 0..(Avail - want - 1)
      PROVE  SlotAt(cons', j) = SlotAt(cons, want + j) /\ want + j \in Places
  <2>1. j \in 0..Capacity /\ want + j <= Capacity /\ want + j \in Places
    BY <1>1, <1>2 DEF Places
  <2> QED
    BY <1>1, <1>2, <2>1, Renamed
<1>5. /\ got \in Seq(Descs) /\ Len(got) = want
      /\ \A i \in 1..want : got[i] = slots[SlotAt(cons, i - 1)]
  BY <1>1 DEF RingInv, RingTypeOK, PopCopied
<1>6. RingTypeOK' /\ PopFits' /\ PopCopied'
  BY <1>1, <1>2, <1>3, <1>5 DEF RingInv, RingTypeOK, PopFits, PopCopied, IndexRange
<1>7. PushFits' /\ PushCopied'
  <2>1. PushFits'
    <3>1. ppc # "idle" =>
            /\ pfrom = prod /\ Len(batch) \in 1..Capacity
            /\ Avail + Len(batch) <= Capacity
      BY DEF RingInv, PushFits
    <3>2. ppc # "idle" => Avail' + Len(batch) <= Capacity
      BY <1>1, <1>2, <1>3, <3>1
    <3> QED
      BY <1>1, <3>1, <3>2 DEF PushFits
  <2>2. PushCopied'
    BY <1>1 DEF RingInv, PushCopied
  <2> QED
    BY <2>1, <2>2
<1>8. QueueWritten'
  BY <1>1, <1>3, <1>4 DEF RingInv, QueueWritten, Places
<1>9. /\ Queued = [i \in 1..Avail |-> slots[SlotAt(cons, i - 1)]]
      /\ Queued' = [i \in 1..(Avail - want) |-> slots[SlotAt(cons', i - 1)]]
  BY <1>1, <1>3 DEF Queued, Avail, SlotAt
<1>10. Queued \in Seq(Descs) /\ Len(Queued) = Avail
  <2>1. ASSUME NEW i \in 1..Avail  PROVE slots[SlotAt(cons, i - 1)] \in Descs
    <3>1. i - 1 \in Places
      BY <1>2 DEF Places
    <3> QED
      BY <3>1 DEF RingInv, QueueWritten
  <2> QED
    BY <1>2, <1>9, <2>1
<1>11. taken' = SubSeq(Queued, 1, want)
  <2>1. \A i \in 1..want : Queued[i] \in Descs
    BY <1>1, <1>2, <1>10, ElementOfSeq
  <2>2. /\ SubSeq(Queued, 1, want) \in Seq(Descs) /\ Len(SubSeq(Queued, 1, want)) = want
        /\ \A i \in 1..want : SubSeq(Queued, 1, want)[i] = Queued[i]
    BY <1>1, <1>2, <2>1, SubSeqProperties
  <2>3. ASSUME NEW i \in 1..want  PROVE got[i] = Queued[i]
    <3>1. i \in 1..Avail
      BY <1>1, <1>2
    <3>2. Queued[i] = slots[SlotAt(cons, i - 1)]
      BY <1>9, <3>1
    <3> QED
      BY <1>5, <3>2
  <2> QED
    BY <1>1, <1>5, <2>2, <2>3, SeqEqual
<1>12. Queued' = SubSeq(Queued, want + 1, Avail)
  <2>1. SubSeq(Queued, want + 1, Avail) = [i \in 1..(Avail - want) |-> Queued[want + i]]
    BY <1>1, <1>2, <1>10
  <2>2. ASSUME NEW i \in 1..(Avail - want)
        PROVE  slots[SlotAt(cons', i - 1)] = Queued[want + i]
    <3>1. i - 1 \in 0..(Avail - want - 1) /\ want + i \in 1..Avail
      BY <1>1, <1>2
    <3>2. want + (i - 1) = (want + i) - 1
      BY <1>1, <1>2
    <3>3. SlotAt(cons', i - 1) = SlotAt(cons, want + (i - 1))
      BY <1>4, <3>1
    <3>4. Queued[want + i] = slots[SlotAt(cons, (want + i) - 1)]
      BY <1>9, <3>1
    <3> QED
      BY <3>2, <3>3, <3>4
  <2> QED
    BY <1>9, <2>1, <2>2
<1> QED
  BY <1>1, <1>2, <1>3, <1>6, <1>7, <1>8, <1>11, <1>12 DEF RingInv

LEMMA RingStep == RingInv /\ [RingNext]_ringVars => RingInv'
<1> SUFFICES ASSUME RingInv, [RingNext]_ringVars  PROVE RingInv'
  OBVIOUS
<1>1. CASE \/ \E addrs \in Batches : PushBegin(addrs)
           \/ \E max \in 1..MaxBatch : PopBegin(max)
  BY <1>1, BeginsKeep
<1>2. CASE PushChunk1 \/ PushChunk2
  BY <1>2, PushCopyKeeps
<1>3. CASE PopChunk1 \/ PopChunk2
  BY <1>3, PopCopyKeeps
<1>4. CASE PushPublish
  BY <1>4, PushPublishes
<1>5. CASE PopPublish
  BY <1>5, PopPublishes
<1>6. CASE UNCHANGED ringVars
  <2>1. Avail' = Avail
    BY <1>6 DEF ringVars, Avail
  <2> QED
    BY <1>6, <2>1 DEF ringVars, RingInv, RingTypeOK, PushFits, PushCopied, PopFits, PopCopied,
                      QueueWritten, Places
<1> QED
  BY <1>1, <1>2, <1>3, <1>4, <1>5, <1>6 DEF RingNext

LEMMA RingStart == RingInit => RingInv
<1> SUFFICES ASSUME RingInit  PROVE RingInv
  OBVIOUS
<1>1. Capacity \in Nat \ {0} /\ IndexSpace \in Nat \ {0} /\ 0 \in IndexRange
  BY RingSizes DEF IndexRange
<1>2. Avail = 0
  <2>1. prod \in IndexRange /\ cons = prod
    BY DEF RingInit, IndexRange
  <2>2. WrapSub(prod, prod) = prod - prod
    BY <2>1, WrapSubValue DEF IndexRange
  <2> QED
    BY <1>1, <2>1, <2>2 DEF Avail, IndexRange
<1>3. RingTypeOK
  BY <1>1 DEF RingInit, RingTypeOK, IndexRange
<1> QED
  BY <1>1, <1>2, <1>3 DEF RingInit, RingInv, PushFits, PushCopied, PopFits, PopCopied,
                          QueueWritten, Places

LEMMA RingInvariant == RingSpec => []RingInv
BY RingStart, RingStep, PTL DEF RingSpec

----------------------------------------------------------------------------
(* The theorems. *)

\* Slots, indices and copies keep their types, wherever the two sides stand.
THEOREM RingTyped == RingSpec => []RingTypeOK
<1>1. RingInv => RingTypeOK
  BY DEF RingInv
<1> QED
  BY <1>1, RingInvariant, PTL

\* tx_push and fill_push never write a slot that rx_pop or comp_pop may still
\* be reading, although the index they decide from may be stale.
THEOREM PushesOnlyFree == RingSpec => []WritesOnlyFree
<1>1. RingInv => WritesOnlyFree
  <2> SUFFICES ASSUME RingInv, ppc # "idle",
                      NEW i \in 0..(Len(batch) - 1), NEW j \in 0..(WrapSub(prod, cons) - 1)
               PROVE  SlotIndex[WrapAdd(pfrom, i)] # SlotIndex[WrapAdd(cons, j)]
    BY DEF WritesOnlyFree
  <2>1. SlotAt(prod, i) # SlotAt(cons, j)
    BY FreeSlots DEF Places, Avail
  <2> QED
    BY <2>1 DEF SlotAt, RingInv, PushFits
<1> QED
  BY <1>1, RingInvariant, PTL

\* The ring is a bounded queue: publishing a push appends its batch, publishing
\* a pop removes and returns a prefix, and no other step shows.
THEOREM RingIsFifo == RingSpec => ImplementsFifo
<1>1. RingInit => Fifo!Init
  <2> SUFFICES ASSUME RingInit  PROVE Fifo!Init
    OBVIOUS
  <2>1. Avail \in 0..0
    <3>1. prod \in IndexRange /\ cons = prod
      BY DEF RingInit, IndexRange
    <3>2. WrapSub(prod, prod) = prod - prod
      BY <3>1, WrapSubValue DEF IndexRange
    <3> QED
      BY <3>1, <3>2, RingSizes DEF Avail, IndexRange
  <2>2. Queued = <<>>
    BY <2>1 DEF Queued, Avail
  <2> QED
    BY <2>2 DEF RingInit, Fifo!Init
<1>2. RingInv /\ [RingNext]_ringVars => [Fifo!Push \/ Fifo!Pop]_<<Queued, taken>>
  <2> SUFFICES ASSUME RingInv, [RingNext]_ringVars
               PROVE  [Fifo!Push \/ Fifo!Pop]_<<Queued, taken>>
    OBVIOUS
  <2>1. /\ Avail \in Nat /\ Avail <= Capacity /\ Capacity \in Nat /\ batch \in Seq(Descs)
        /\ Queued \in Seq(Descs) /\ Len(Queued) = Avail
    <3>1. Avail \in Nat /\ Avail <= Capacity /\ Capacity \in Nat /\ batch \in Seq(Descs)
      BY AvailRange, RingSizes DEF RingInv, RingTypeOK
    <3>2. Queued = [i \in 1..Avail |-> slots[SlotAt(cons, i - 1)]]
      BY DEF Queued, Avail, SlotAt
    <3>3. ASSUME NEW i \in 1..Avail  PROVE slots[SlotAt(cons, i - 1)] \in Descs
      <4>1. i - 1 \in Places
        BY <3>1 DEF Places
      <4> QED
        BY <4>1 DEF RingInv, QueueWritten
    <3> QED
      BY <3>1, <3>2, <3>3
  <2>2. CASE PushPublish
    <3>1. /\ Queued' = Queued \o batch /\ Len(batch) \in 1..Capacity
          /\ Avail + Len(batch) <= Capacity /\ UNCHANGED taken
      BY <2>2, PushPublishes DEF RingInv, PushFits, PushPublish
    <3>2. /\ Queued' \in Seq(Descs) /\ Len(Queued') = Avail + Len(batch)
          /\ \A i \in 1..Avail : Queued'[i] = Queued[i] /\ Queued'[i] \in Descs
      <4>1. /\ Queued \o batch \in Seq(Descs)
            /\ Len(Queued \o batch) = Avail + Len(batch)
            /\ \A i \in 1..(Avail + Len(batch)) :
                 (Queued \o batch)[i] = IF i <= Avail THEN Queued[i] ELSE batch[i - Avail]
        BY <2>1, ConcatProperties
      <4>2. \A i \in 1..Avail : Queued[i] \in Descs /\ i \in 1..(Avail + Len(batch))
        BY <2>1, <3>1, ElementOfSeq
      <4> QED
        BY <3>1, <4>1, <4>2
    <3>3. SubSeq(Queued', 1, Avail) = Queued
      <4>1. /\ SubSeq(Queued', 1, Avail) \in Seq(Descs)
            /\ Len(SubSeq(Queued', 1, Avail)) = Avail
            /\ \A i \in 1..Avail : SubSeq(Queued', 1, Avail)[i] = Queued'[i]
        BY <2>1, <3>2, SubSeqProperties
      <4> QED
        BY <2>1, <3>2, <4>1, SeqEqual
    <3> QED
      BY <2>1, <3>1, <3>2, <3>3 DEF Fifo!Push
  <2>3. CASE PopPublish
    BY <2>1, <2>3, PopPublishes DEF Fifo!Pop
  <2>4. CASE \/ \E addrs \in Batches : PushBegin(addrs)
             \/ \E max \in 1..MaxBatch : PopBegin(max)
    BY <2>4, BeginsKeep DEF PushBegin, PopBegin
  <2>5. CASE PushChunk1 \/ PushChunk2
    BY <2>5, PushCopyKeeps DEF PushChunk1, PushChunk2
  <2>6. CASE PopChunk1 \/ PopChunk2
    BY <2>6, PopCopyKeeps DEF PopChunk1, PopChunk2
  <2>7. CASE UNCHANGED ringVars
    BY <2>7 DEF ringVars, Queued
  <2> QED
    BY <2>2, <2>3, <2>4, <2>5, <2>6, <2>7 DEF RingNext
<1> QED
  BY <1>1, <1>2, RingInvariant, PTL DEF RingSpec, ImplementsFifo, Fifo!Spec
====
