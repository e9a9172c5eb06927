--------------------------- MODULE KexStateProofs ---------------------------
(***************************************************************************)
(* What HybridKEXState guarantees for any window length, range of sequence *)
(* numbers, time-out and retry limit: the shifted array is the replay      *)
(* window of ReplayWindow, no number is returned twice, and a dead         *)
(* handshake passes no check.                                              *)
(***************************************************************************)
EXTENDS KexState, FiniteSetTheorems, TLAPS

----------------------------------------------------------------------------
(* The inductive invariant. *)

\* The recorded part of the array is strictly sorted.
WindowSorted ==
  \A i, j \in 0..(seq_window_len - 1) : i < j => seq_window[i] < seq_window[j]

\* Numbers returned since the counter was set are behind it; the last number
\* of all, once returned, stays the largest one recorded.
GivenBehind ==
  /\ \A g \in given : g <= seq_counter
  /\ MaxSeq \in given => seq_counter = MaxSeq /\ MaxSeq \in Recorded

\* Only an unfinished handshake is dead.  Cleaned up, its deadline is the
\* epoch; failed, its deadline has passed, unless the clock was set back.
DeadMissed ==
  /\ dead # "no" => ~handshake_done
  /\ dead = "cleaned" => timeout = Epoch
  /\ dead = "failed" /\ ~adjusted => now > timeout

HandshakeInv ==
  /\ ClockTypeOK /\ KexStateTypeOK
  /\ WindowSorted /\ GivenBehind /\ DeadMissed

KexStateStep ==
  \/ /\ KexStateNext
     /\ UNCHANGED clockVars
  \/ /\ Tick \/ SetBack
     /\ UNCHANGED kexStateVars

----------------------------------------------------------------------------
(* Finite sets of numbers. *)

\* A non-empty set of naturals has a least element.
LEMMA LeastNatural ==
  ASSUME NEW T \in SUBSET Nat, T # {}
  PROVE  \E n \in T : \A m \in T : n <= m
<1> DEFINE R == OpToRel(<, Nat)
<1>1. IsWellFoundedOn(R, Nat)
  BY NatLessThanWellFounded
<1>2. \E x \in T : \A y \in T : ~(<<y, x>> \in R)
  <2> HIDE DEF R
  <2> QED BY <1>1, WFMin
<1>3. \A x, y \in Nat : <<y, x>> \in R <=> y < x
  BY DEF OpToRel
<1>4. PICK n \in T : \A m \in T : ~(<<m, n>> \in R)
  BY <1>2
<1> HIDE DEF R
<1>5. \A m \in T : n <= m
  <2> TAKE m \in T
  <2>1. n \in Nat /\ m \in Nat
    OBVIOUS
  <2>2. ~(m < n)
    BY <1>3, <1>4, <2>1
  <2> QED BY <2>1, <2>2
<1> QED
  BY <1>5

\* Cardinality is the same operator in both modules.
LEMMA SameCardinality ==
  ASSUME NEW S
  PROVE  Window!Cardinality(S) = Cardinality(S)
  BY DEF Window!Cardinality, Cardinality

\* Least is well defined on them.
LEMMA LeastIs ==
  ASSUME NEW T, NEW v \in T, \A w \in T : v <= w, T \subseteq Nat
  PROVE  Window!Least(T) = v
<1>1. \A u \in T : (\A w \in T : u <= w) => u = v
  OBVIOUS
<1> QED
  BY <1>1 DEF Window!Least

----------------------------------------------------------------------------
(* The array.  Here w is an array whose first len elements are sorted. *)

Arrays == [Indices -> Seqs]

LEMMA Sizes == WindowCap \in Nat \ {0} /\ MaxSeq \in Nat \ {0} /\ Seqs \subseteq Nat
  BY KexStateAssumption DEF Seqs

\* Evicting the first element moves the others one place down.
LEMMA ShiftDown ==
  ASSUME NEW w \in Arrays, NEW len \in 1..WindowCap
  PROVE  /\ CopyWithin(w, 1, len, 0) \in Arrays
         /\ \A i \in 0..(len - 2) : CopyWithin(w, 1, len, 0)[i] = w[i + 1]
<1>1. DOMAIN w = Indices /\ Indices = 0..(WindowCap - 1)
  BY DEF Arrays, Indices
<1>2. \A i \in Indices : i \in 0..(0 + len - 1 - 1) => 1 + i - 0 \in Indices
  BY <1>1, Sizes
<1>3. \A i \in 0..(len - 2) : i \in Indices /\ i \in 0..(0 + len - 1 - 1) /\ 1 + i - 0 = i + 1
  BY <1>1, Sizes
<1> QED
  BY <1>1, <1>2, <1>3 DEF CopyWithin, Arrays

\* Making room at idx moves the elements from there one place up.
Inserted(a, len, idx, seq) ==
  [(IF idx < len THEN CopyWithin(a, idx, len, idx + 1) ELSE a) EXCEPT ![idx] = seq]

LEMMA ShiftUp ==
  ASSUME NEW a \in Arrays, NEW len \in 0..(WindowCap - 1), NEW idx \in 0..len, NEW seq \in Seqs
  PROVE  LET b == Inserted(a, len, idx, seq)
         IN  /\ b \in Arrays /\ b[idx] = seq
             /\ \A i \in 0..(idx - 1) : b[i] = a[i]
             /\ \A i \in (idx + 1)..len : b[i] = a[i - 1]
<1> DEFINE c == IF idx < len THEN CopyWithin(a, idx, len, idx + 1) ELSE a
<1>1. DOMAIN a = Indices /\ Indices = 0..(WindowCap - 1)
  BY DEF Arrays, Indices
<1>2. \A i \in Indices : i \in (idx + 1)..(idx + 1 + len - idx - 1)
        => idx + i - (idx + 1) \in Indices /\ idx + i - (idx + 1) = i - 1
  BY <1>1, Sizes
<1>3. idx + 1 + len - idx - 1 = len
  BY Sizes
<1>4. c \in Arrays
  BY <1>1, <1>2 DEF CopyWithin, Arrays
<1>5. \A i \in 0..(idx - 1) : i \in Indices /\ i # idx /\ i \notin (idx + 1)..len
  BY <1>1, Sizes
<1>6. \A i \in (idx + 1)..len : i \in Indices /\ i # idx /\ idx < len
  BY <1>1, Sizes
<1>7. \A i \in 0..(idx - 1) : c[i] = a[i]
  BY <1>1, <1>3, <1>5 DEF CopyWithin
<1>8. \A i \in (idx + 1)..len : c[i] = a[i - 1]
  BY <1>1, <1>2, <1>3, <1>6 DEF CopyWithin
<1>9. idx \in Indices
  BY <1>1, Sizes
<1>10. Inserted(a, len, idx, seq) = [c EXCEPT ![idx] = seq]
  BY DEF Inserted
<1> HIDE DEF c
<1> QED
  BY <1>4, <1>5, <1>6, <1>7, <1>8, <1>9, <1>10 DEF Arrays

\* Binary search finds how many of the recorded numbers are below seq, and
\* those are the first ones.
LEMMA SearchSplits ==
  ASSUME KexStateTypeOK, WindowSorted, NEW seq \in Seqs
  PROVE  /\ SearchIndex(seq) \in 0..seq_window_len
         /\ \A i \in 0..(seq_window_len - 1) : seq_window[i] < seq <=> i < SearchIndex(seq)
<1> DEFINE len == seq_window_len
           T == {i \in 0..len : i = len \/ ~(seq_window[i] < seq)}
<1>1. len \in Nat /\ len <= WindowCap /\ \A i \in 0..(len - 1) : seq_window[i] \in Nat
  <2>1. len \in 0..WindowCap /\ seq_window \in [Indices -> Seqs]
    BY DEF KexStateTypeOK
  <2>2. \A i \in 0..(len - 1) : i \in Indices
    BY <2>1, Sizes DEF Indices
  <2>3. \A i \in 0..(len - 1) : seq_window[i] \in Nat
    BY <2>1, <2>2, Sizes
  <2>4. len \in Nat /\ len <= WindowCap
    BY <2>1, Sizes
  <2> QED BY <2>3, <2>4
<1>2. PICK k \in T : \A m \in T : k <= m
  <2>1. T \in SUBSET Nat /\ len \in T
    BY <1>1
  <2> QED BY <2>1, LeastNatural
<1>3. k \in 0..len
  OBVIOUS
<1>4. \A i \in 0..(len - 1) : i < k => seq_window[i] < seq
  BY <1>1, <1>2, <1>3
<1>5. \A i \in 0..(len - 1) : ~(i < k) => ~(seq_window[i] < seq)
  <2> SUFFICES ASSUME NEW i \in 0..(len - 1), ~(i < k) PROVE ~(seq_window[i] < seq)
    OBVIOUS
  <2>1. k \in 0..(len - 1) /\ ~(seq_window[k] < seq)
    BY <1>1, <1>3
  <2>2. i = k \/ seq_window[k] < seq_window[i]
    BY <1>1, <2>1 DEF WindowSorted
  <2> QED BY <1>1, <2>1, <2>2, Sizes
<1>6. {i \in 0..(len - 1) : seq_window[i] < seq} = 0..(k - 1)
  BY <1>1, <1>3, <1>4, <1>5
<1>7. SearchIndex(seq) = k
  <2>1. Cardinality(0..(k - 1)) = k
    BY <1>3, FS_Interval
  <2> QED BY <1>6, <2>1 DEF SearchIndex
<1> QED
  BY <1>1, <1>3, <1>4, <1>5, <1>7

----------------------------------------------------------------------------
(* Where a new number goes. *)

\* A full array loses its first element first.
Evicted == IF seq_window_len >= WindowCap THEN 1 ELSE 0
Kept == seq_window_len - Evicted

\* After a step the array is the kept elements with seq among them at k.
PlacedAt(seq, k) ==
  /\ seq_window_len' = Kept + 1
  /\ seq_window' \in Arrays
  /\ \A i \in 0..(k - 1) :
       seq_window'[i] = seq_window[i + Evicted] /\ seq_window[i + Evicted] < seq
  /\ seq_window'[k] = seq
  /\ \A i \in (k + 1)..Kept :
       seq_window'[i] = seq_window[i - 1 + Evicted] /\ seq_window[i - 1 + Evicted] > seq

LEMMA KeptLength ==
  ASSUME KexStateTypeOK
  PROVE  /\ seq_window_len \in 0..WindowCap /\ seq_window \in Arrays
         /\ Evicted \in {0, 1} /\ Kept \in 0..(WindowCap - 1) /\ seq_window_len = Kept + Evicted
         /\ Evicted = 1 <=> seq_window_len = WindowCap
         /\ \A i \in 0..(seq_window_len - 1) : seq_window[i] \in Seqs
<1>1. seq_window_len \in 0..WindowCap /\ seq_window \in [Indices -> Seqs]
  BY DEF KexStateTypeOK
<1>2. \A i \in 0..(seq_window_len - 1) : i \in Indices
  BY <1>1, Sizes DEF Indices
<1>3. \A i \in 0..(seq_window_len - 1) : seq_window[i] \in Seqs
  BY <1>1, <1>2
<1>4. CASE seq_window_len >= WindowCap
  BY <1>1, <1>3, <1>4, Sizes DEF Evicted, Kept, Arrays
<1>5. CASE ~(seq_window_len >= WindowCap)
  BY <1>1, <1>3, <1>5, Sizes DEF Evicted, Kept, Arrays
<1> QED
  BY <1>4, <1>5

\* The array without its first element when full, as both paths build it.
Remaining ==
  IF seq_window_len >= WindowCap THEN CopyWithin(seq_window, 1, seq_window_len, 0) ELSE seq_window

LEMMA RemainingIs ==
  ASSUME KexStateTypeOK
  PROVE  /\ Remaining \in Arrays
         /\ \A i \in 0..(Kept - 1) : Remaining[i] = seq_window[i + Evicted]
<1>1. CASE seq_window_len >= WindowCap
  <2>1. seq_window_len \in 1..WindowCap /\ Evicted = 1 /\ Kept - 1 = seq_window_len - 2
    BY <1>1, KeptLength, Sizes DEF Evicted, Kept
  <2> QED BY <1>1, <2>1, KeptLength, ShiftDown DEF Remaining
<1>2. CASE ~(seq_window_len >= WindowCap)
  <2>1. Evicted = 0 /\ Remaining = seq_window /\ Kept \in Int
    BY <1>2, KeptLength DEF Evicted, Remaining
  <2> QED BY <2>1, KeptLength
<1> QED
  BY <1>1, <1>2

\* The fast path puts seq last.
LEMMA PushLargestPlaces ==
  ASSUME KexStateTypeOK, WindowSorted, NEW seq \in Seqs, PushLargest(seq),
         seq_window_len > 0 => seq > seq_window[seq_window_len - 1]
  PROVE  PlacedAt(seq, Kept)
<1>1. /\ seq_window_len \in 0..WindowCap /\ seq_window \in Arrays
      /\ Evicted \in {0, 1} /\ Kept \in 0..(WindowCap - 1) /\ seq_window_len = Kept + Evicted
      /\ \A i \in 0..(seq_window_len - 1) : seq_window[i] \in Nat
  BY KeptLength, Sizes
<1>2. seq_window_len' = Kept + 1
  BY <1>1, Sizes DEF PushLargest, Evicted, Kept
<1>3. seq_window' = [Remaining EXCEPT ![Kept] = seq]
  BY <1>1, Sizes DEF PushLargest, Remaining, Evicted, Kept
<1>4. Kept \in Indices /\ \A i \in 0..(Kept - 1) : i \in Indices /\ i # Kept
  BY <1>1, Sizes DEF Indices
<1>5. /\ seq_window' \in Arrays /\ seq_window'[Kept] = seq
      /\ \A i \in 0..(Kept - 1) : seq_window'[i] = seq_window[i + Evicted]
  BY <1>3, <1>4, RemainingIs DEF Arrays
<1>6. \A i \in 0..(Kept - 1) : seq_window[i + Evicted] < seq
  <2> SUFFICES ASSUME NEW i \in 0..(Kept - 1) PROVE seq_window[i + Evicted] < seq
    OBVIOUS
  <2> DEFINE j == i + Evicted
             last == seq_window_len - 1
  <2>1. j \in 0..last /\ last \in 0..(seq_window_len - 1) /\ seq_window_len > 0 /\ (j < last \/ j = last)
    BY <1>1
  <2>2. seq_window[j] < seq_window[last] \/ j = last
    BY <2>1 DEF WindowSorted
  <2>3. seq_window[j] \in Nat /\ seq_window[last] \in Nat /\ seq \in Nat /\ seq > seq_window[last]
    BY <1>1, <2>1, Sizes
  <2> HIDE DEF j, last
  <2>4. seq_window[j] < seq
    BY <2>2, <2>3
  <2> QED BY <2>4 DEF j
<1>7. \A i \in (Kept + 1)..Kept : FALSE
  BY <1>1
<1> QED
  BY <1>2, <1>5, <1>6, <1>7 DEF PlacedAt

\* The slow path puts seq where it belongs.
LEMMA InsertPlaces ==
  ASSUME KexStateTypeOK, WindowSorted, NEW seq \in Seqs, seq \notin Recorded, Insert(seq)
  PROVE  \E k \in 0..Kept : PlacedAt(seq, k)
<1> DEFINE full == seq_window_len >= WindowCap
           found == SearchIndex(seq)
           idx == IF full /\ found > 0 THEN found - 1 ELSE found
           b == Inserted(Remaining, Kept, idx, seq)
<1>1. /\ seq_window_len \in 0..WindowCap /\ seq_window \in Arrays
      /\ Evicted \in {0, 1} /\ Kept \in 0..(WindowCap - 1) /\ seq_window_len = Kept + Evicted
      /\ \A i \in 0..(seq_window_len - 1) : seq_window[i] \in Nat
  BY KeptLength, Sizes
<1>2. Evicted = IF full THEN 1 ELSE 0
  BY DEF Evicted
<1>3. seq_window_len' = Kept + 1 /\ seq_window' = b
  BY <1>1 DEF Insert, Inserted, Remaining, Evicted, Kept
<1>4. found \in 0..seq_window_len
  BY SearchSplits
<1>5. idx \in 0..Kept /\ (found - Evicted = idx \/ (found = 0 /\ idx = 0))
  <2> HIDE DEF found
  <2> QED BY <1>1, <1>2, <1>4
<1>6. \A i \in 0..(seq_window_len - 1) : seq_window[i] < seq <=> i < found
  BY SearchSplits
<1>7. \A i \in 0..(seq_window_len - 1) : seq_window[i] # seq
  BY DEF Recorded
<1> HIDE DEF found, idx
<1>8. /\ b \in Arrays /\ b[idx] = seq
      /\ \A i \in 0..(idx - 1) : b[i] = Remaining[i]
      /\ \A i \in (idx + 1)..Kept : b[i] = Remaining[i - 1]
  <2>1. Remaining \in Arrays
    BY RemainingIs
  <2> QED BY <1>1, <1>5, <2>1, ShiftUp
<1> HIDE DEF b
<1>9. \A i \in 0..(idx - 1) : b[i] = seq_window[i + Evicted] /\ seq_window[i + Evicted] < seq
  <2> SUFFICES ASSUME NEW i \in 0..(idx - 1)
               PROVE  b[i] = seq_window[i + Evicted] /\ seq_window[i + Evicted] < seq
    OBVIOUS
  <2>1. i \in 0..(Kept - 1) /\ i + Evicted \in 0..(seq_window_len - 1) /\ i + Evicted < found
    BY <1>1, <1>4, <1>5
  <2> QED BY <1>6, <1>8, <2>1, RemainingIs
<1>10. \A i \in (idx + 1)..Kept :
         b[i] = seq_window[i - 1 + Evicted] /\ seq_window[i - 1 + Evicted] > seq
  <2> SUFFICES ASSUME NEW i \in (idx + 1)..Kept
               PROVE  b[i] = seq_window[i - 1 + Evicted] /\ seq_window[i - 1 + Evicted] > seq
    OBVIOUS
  <2> DEFINE j == i - 1 + Evicted
  <2>1. i - 1 \in 0..(Kept - 1) /\ j \in 0..(seq_window_len - 1) /\ ~(j < found)
    BY <1>1, <1>4, <1>5
  <2>2. b[i] = seq_window[j]
    BY <1>8, <2>1, RemainingIs
  <2>3. ~(seq_window[j] < seq) /\ seq_window[j] # seq /\ seq_window[j] \in Nat /\ seq \in Nat
    BY <1>1, <1>6, <1>7, <2>1, Sizes
  <2> HIDE DEF j
  <2>4. seq_window[j] > seq
    BY <2>3
  <2> QED BY <2>2, <2>4 DEF j
<1>11. PlacedAt(seq, idx)
  BY <1>3, <1>8, <1>9, <1>10 DEF PlacedAt
<1> QED
  BY <1>5, <1>11

----------------------------------------------------------------------------
(* What placing seq does to the recorded set. *)

\* Sorted stays sorted, and one number enters.
LEMMA PlacedSorted ==
  ASSUME KexStateTypeOK, WindowSorted, NEW seq \in Seqs, NEW k \in 0..Kept, PlacedAt(seq, k)
  PROVE  WindowSorted'
<1>1. /\ Evicted \in {0, 1} /\ Kept \in 0..(WindowCap - 1) /\ seq_window_len = Kept + Evicted
      /\ \A i \in 0..(seq_window_len - 1) : seq_window[i] \in Nat
  BY KeptLength, Sizes
<1>2. seq_window_len' - 1 = Kept
  BY <1>1 DEF PlacedAt
<1>3. ASSUME NEW i \in 0..Kept, NEW j \in 0..Kept, i < j
      PROVE  seq_window'[i] < seq_window'[j]
  <2>1. \A m \in 0..(k - 1) : /\ m + Evicted \in 0..(seq_window_len - 1)
                              /\ seq_window'[m] = seq_window[m + Evicted]
                              /\ seq_window[m + Evicted] < seq /\ seq_window[m + Evicted] \in Nat
    BY <1>1 DEF PlacedAt
  <2>2. \A m \in (k + 1)..Kept : /\ m - 1 + Evicted \in 0..(seq_window_len - 1)
                                 /\ seq_window'[m] = seq_window[m - 1 + Evicted]
                                 /\ seq_window[m - 1 + Evicted] > seq
                                 /\ seq_window[m - 1 + Evicted] \in Nat
    BY <1>1 DEF PlacedAt
  <2>3. seq_window'[k] = seq /\ seq \in Nat
    BY Sizes DEF PlacedAt
  <2>4. CASE i < k /\ j < k
    <3>1. i \in 0..(k - 1) /\ j \in 0..(k - 1) /\ i + Evicted < j + Evicted
      BY <1>1, <1>3, <2>4
    <3> QED BY <2>1, <3>1 DEF WindowSorted
  <2>5. CASE i < k /\ j = k
    <3>1. i \in 0..(k - 1)
      BY <2>5
    <3> QED BY <2>1, <2>3, <2>5, <3>1
  <2>6. CASE i < k /\ j > k
    <3>1. i \in 0..(k - 1) /\ j \in (k + 1)..Kept /\ i + Evicted < j - 1 + Evicted
      BY <1>1, <2>6
    <3> QED BY <2>1, <2>2, <3>1 DEF WindowSorted
  <2>7. CASE i = k
    <3>1. j \in (k + 1)..Kept
      BY <1>1, <1>3, <2>7
    <3> QED BY <2>2, <2>3, <2>7, <3>1
  <2>8. CASE i > k
    <3>1. i \in (k + 1)..Kept /\ j \in (k + 1)..Kept /\ i - 1 + Evicted < j - 1 + Evicted
      BY <1>1, <1>3, <2>8
    <3> QED BY <2>2, <3>1 DEF WindowSorted
  <2> QED BY <1>1, <2>4, <2>5, <2>6, <2>7, <2>8
<1> QED
  BY <1>2, <1>3 DEF WindowSorted

\* The kept elements and seq.
LEMMA PlacedRecords ==
  ASSUME KexStateTypeOK, NEW seq \in Seqs, NEW k \in 0..Kept, PlacedAt(seq, k)
  PROVE  Recorded' = {seq} \cup {seq_window[i] : i \in Evicted..(seq_window_len - 1)}
<1>1. Evicted \in {0, 1} /\ Kept \in 0..(WindowCap - 1) /\ seq_window_len = Kept + Evicted
  BY KeptLength
<1>2. Recorded' = {seq_window'[i] : i \in 0..Kept}
  BY <1>1 DEF PlacedAt, Recorded
<1>3. ASSUME NEW i \in 0..Kept
      PROVE  seq_window'[i] \in {seq} \cup {seq_window[m] : m \in Evicted..(seq_window_len - 1)}
  <2>1. CASE i = k
    BY <2>1 DEF PlacedAt
  <2>2. CASE i < k
    <3>1. i \in 0..(k - 1) /\ i + Evicted \in Evicted..(seq_window_len - 1)
      BY <1>1, <2>2
    <3> QED BY <3>1 DEF PlacedAt
  <2>3. CASE i > k
    <3>1. i \in (k + 1)..Kept /\ i - 1 + Evicted \in Evicted..(seq_window_len - 1)
      BY <1>1, <2>3
    <3> QED BY <3>1 DEF PlacedAt
  <2> QED BY <1>1, <2>1, <2>2, <2>3
<1>4. ASSUME NEW m \in Evicted..(seq_window_len - 1)
      PROVE  \E i \in 0..Kept : seq_window'[i] = seq_window[m]
  <2>1. CASE m - Evicted < k
    <3>1. m - Evicted \in 0..(k - 1) /\ m - Evicted + Evicted = m /\ m - Evicted \in 0..Kept
      BY <1>1, <2>1
    <3>2. seq_window'[m - Evicted] = seq_window[m - Evicted + Evicted]
      BY <3>1 DEF PlacedAt
    <3> QED BY <3>1, <3>2
  <2>2. CASE ~(m - Evicted < k)
    <3> DEFINE i == m - Evicted + 1
    <3>1. i \in (k + 1)..Kept /\ i - 1 + Evicted = m /\ i \in 0..Kept
      BY <1>1, <2>2
    <3>2. seq_window'[i] = seq_window[i - 1 + Evicted]
      BY <3>1 DEF PlacedAt
    <3> QED BY <3>1, <3>2
  <2> QED BY <2>1, <2>2
<1>5. \E i \in 0..Kept : seq_window'[i] = seq
  BY DEF PlacedAt
<1> QED
  BY <1>2, <1>3, <1>4, <1>5

\* The sorted array has as many numbers as elements.
LEMMA RecordedCount ==
  ASSUME KexStateTypeOK, WindowSorted
  PROVE  Cardinality(Recorded) = seq_window_len
<1> DEFINE len == seq_window_len
           f == [i \in 0..(len - 1) |-> seq_window[i]]
<1>1. len \in Nat /\ \A i \in 0..(len - 1) : seq_window[i] \in Nat
  <2>1. seq_window_len \in 0..WindowCap /\ \A i \in 0..(seq_window_len - 1) : seq_window[i] \in Nat
    BY KeptLength, Sizes
  <2>2. seq_window_len \in Nat
    BY <2>1, Sizes
  <2> QED BY <2>1, <2>2
<1>2. IsFiniteSet(0..(len - 1)) /\ Cardinality(0..(len - 1)) = len
  BY <1>1, FS_Interval
<1>3. f \in Surjection(0..(len - 1), Recorded)
  BY DEF Surjection, Recorded
<1>4. \A i, j \in 0..(len - 1) : f[i] = f[j] => i = j
  <2> SUFFICES ASSUME NEW i \in 0..(len - 1), NEW j \in 0..(len - 1), i # j
               PROVE  seq_window[i] # seq_window[j]
    OBVIOUS
  <2>1. i < j \/ j < i
    BY <1>1
  <2>2. seq_window[i] < seq_window[j] \/ seq_window[j] < seq_window[i]
    BY <2>1 DEF WindowSorted
  <2> QED BY <1>1, <2>2
<1>5. f \in Injection(0..(len - 1), Recorded)
  BY <1>3, <1>4 DEF Surjection, Injection, IsInjective
<1> HIDE DEF f
<1> QED
  BY <1>2, <1>3, <1>5, FS_Surjection

\* What goes when the array is full is the least.
LEMMA EvictsLeast ==
  ASSUME KexStateTypeOK, WindowSorted
  PROVE  {seq_window[i] : i \in Evicted..(seq_window_len - 1)}
           = IF Cardinality(Recorded) < WindowCap
             THEN Recorded ELSE Recorded \ {Window!Least(Recorded)}
<1>1. /\ Evicted \in {0, 1} /\ seq_window_len \in 0..WindowCap
      /\ Evicted = 1 <=> seq_window_len = WindowCap
      /\ \A i \in 0..(seq_window_len - 1) : seq_window[i] \in Nat
  BY KeptLength, Sizes
<1>2. CASE Evicted = 0
  <2>1. Cardinality(Recorded) < WindowCap
    BY <1>1, <1>2, RecordedCount, Sizes
  <2> QED BY <1>2, <2>1 DEF Recorded
<1>3. CASE Evicted = 1
  <2>1. ~(Cardinality(Recorded) < WindowCap) /\ 0 \in 0..(seq_window_len - 1)
    BY <1>1, <1>3, RecordedCount, Sizes
  <2>2. \A i \in 0..(seq_window_len - 1) : i = 0 \/ seq_window[0] < seq_window[i]
    BY <1>1, <2>1 DEF WindowSorted
  <2>3. \A i \in 0..(seq_window_len - 1) : seq_window[0] <= seq_window[i]
    BY <1>1, <2>1, <2>2
  <2>4. Window!Least(Recorded) = seq_window[0]
    <3>1. seq_window[0] \in Recorded /\ Recorded \subseteq Nat
      BY <1>1, <2>1 DEF Recorded
    <3>2. \A w \in Recorded : seq_window[0] <= w
      BY <2>3 DEF Recorded
    <3> QED BY <3>1, <3>2, LeastIs
  <2>5. \A i \in 1..(seq_window_len - 1) : i \in 0..(seq_window_len - 1) /\ seq_window[i] # seq_window[0]
    BY <1>1, <2>1, <2>2
  <2>6. \A i \in 0..(seq_window_len - 1) : i = 0 \/ i \in 1..(seq_window_len - 1)
    BY <1>1
  <2>7. {seq_window[i] : i \in 1..(seq_window_len - 1)} = Recorded \ {seq_window[0]}
    BY <2>5, <2>6 DEF Recorded
  <2> QED BY <1>3, <2>1, <2>4, <2>7
<1> QED
  BY <1>1, <1>2, <1>3

----------------------------------------------------------------------------
(* One call of increment_seq_counter. *)

\* The number offered, and the largest one recorded.
Offered == SaturatingSucc(seq_counter)

LEMMA OfferedIs ==
  ASSUME KexStateTypeOK
  PROVE  /\ seq_counter \in Seqs /\ Offered \in Seqs /\ Offered >= seq_counter
         /\ seq_counter # MaxSeq => Offered > seq_counter
         /\ seq_counter = MaxSeq => Offered = MaxSeq
         /\ \A s \in Seqs : s <= MaxSeq
  BY Sizes DEF KexStateTypeOK, Offered, SaturatingSucc, Seqs

\* Nothing above the largest recorded number is recorded.
LEMMA AboveIsNew ==
  ASSUME KexStateTypeOK, WindowSorted, NEW seq \in Seqs,
         seq_window_len > 0 => seq > seq_window[seq_window_len - 1]
  PROVE  seq \notin Recorded
<1> SUFFICES ASSUME NEW i \in 0..(seq_window_len - 1), seq_window[i] = seq PROVE FALSE
  BY DEF Recorded
<1> DEFINE last == seq_window_len - 1
<1>1. seq_window_len \in Nat /\ \A j \in 0..(seq_window_len - 1) : seq_window[j] \in Nat
  <2>1. seq_window_len \in 0..WindowCap
    BY KeptLength
  <2>2. seq_window_len \in Nat
    BY <2>1, Sizes
  <2> QED BY <2>2, KeptLength, Sizes
<1>2. seq_window_len > 0 /\ last \in 0..(seq_window_len - 1) /\ (i < last \/ i = last)
  BY <1>1
<1>3. i = last \/ seq_window[i] < seq_window[last]
  BY <1>2 DEF WindowSorted
<1>4. seq > seq_window[last] /\ seq_window[last] \in Nat /\ seq \in Nat
  BY <1>1, <1>2, Sizes
<1> HIDE DEF last
<1> QED
  BY <1>3, <1>4

\* A call either places the number offered, which was not recorded, or
\* refuses it, because it was.
LEMMA IncrementOutcome ==
  ASSUME KexStateTypeOK, WindowSorted, IncrementSeqCounter
  PROVE  /\ seq_counter' = Offered /\ answer'.seq = Offered
         /\ UNCHANGED <<deadlineVars, retry_count>>
         /\ \/ /\ Offered \notin Recorded
               /\ answer' = [seq |-> Offered, ok |-> TRUE] /\ given' = given \cup {Offered}
               /\ \E k \in 0..Kept : PlacedAt(Offered, k)
            \/ /\ Offered \in Recorded
               /\ answer' = [seq |-> Offered, ok |-> FALSE]
               /\ UNCHANGED <<seq_window, seq_window_len, given>>
<1> DEFINE above == seq_window_len > 0 => Offered > seq_window[seq_window_len - 1]
           accept == answer' = [seq |-> Offered, ok |-> TRUE] /\ given' = given \cup {Offered}
<1>1. Offered \in Seqs
  BY OfferedIs
<1>2. /\ seq_counter' = Offered /\ UNCHANGED <<deadlineVars, retry_count>>
      /\ \/ above /\ PushLargest(Offered) /\ accept
         \/ Offered \notin Recorded /\ Insert(Offered) /\ accept
         \/ /\ Offered \in Recorded
            /\ answer' = [seq |-> Offered, ok |-> FALSE]
            /\ UNCHANGED <<seq_window, seq_window_len, given>>
  BY DEF IncrementSeqCounter, Offered
<1>3. CASE above /\ PushLargest(Offered) /\ accept
  <2>1. Offered \notin Recorded
    BY <1>1, <1>3, AboveIsNew
  <2>2. PlacedAt(Offered, Kept) /\ Kept \in 0..Kept
    <3>1. Kept \in 0..(WindowCap - 1)
      BY KeptLength
    <3>2. Kept \in 0..Kept
      BY <3>1, Sizes
    <3> QED BY <1>1, <1>3, <3>2, PushLargestPlaces
  <2> QED BY <1>2, <1>3, <2>1, <2>2
<1>4. CASE Offered \notin Recorded /\ Insert(Offered) /\ accept
  <2>1. \E k \in 0..Kept : PlacedAt(Offered, k)
    BY <1>1, <1>4, InsertPlaces
  <2> QED BY <1>2, <1>4, <2>1
<1>5. CASE /\ Offered \in Recorded
           /\ answer' = [seq |-> Offered, ok |-> FALSE]
           /\ UNCHANGED <<seq_window, seq_window_len, given>>
  BY <1>2, <1>5
<1> QED
  BY <1>2, <1>3, <1>4, <1>5

\* The same step, as the abstract window makes it.
LEMMA IncrementIsWindowStep ==
  ASSUME KexStateTypeOK, WindowSorted, IncrementSeqCounter
  PROVE  Window!Next
<1>1. Offered \in Seqs
  BY OfferedIs
<1>2. CASE Offered \notin Recorded
  <2>1. PICK k \in 0..Kept : PlacedAt(Offered, k)
    BY <1>2, IncrementOutcome
  <2>2. Recorded' = {Offered} \cup {seq_window[i] : i \in Evicted..(seq_window_len - 1)}
    BY <1>1, <2>1, PlacedRecords
  <2>3. answer' = [seq |-> Offered, ok |-> TRUE]
    BY <1>2, IncrementOutcome
  <2>4. Window!Accept(Offered)
    BY <1>2, <2>2, <2>3, EvictsLeast, SameCardinality DEF Window!Accept
  <2> QED BY <1>1, <2>4 DEF Window!Next
<1>3. CASE Offered \in Recorded
  <2>1. answer' = [seq |-> Offered, ok |-> FALSE] /\ Recorded' = Recorded
    BY <1>3, IncrementOutcome DEF Recorded
  <2>2. Window!Refuse(Offered)
    BY <1>3, <2>1 DEF Window!Refuse
  <2> QED BY <1>1, <2>2 DEF Window!Next
<1> QED
  BY <1>2, <1>3

\* Once u64::MAX has been returned every further call is refused; before
\* that every number offered is ahead of those returned.
LEMMA OfferedIsNew ==
  ASSUME KexStateTypeOK, WindowSorted, GivenBehind, Offered \notin Recorded
  PROVE  Offered \notin given
<1>1. \A g \in given : g \in Nat /\ g <= seq_counter
  BY Sizes DEF KexStateTypeOK, GivenBehind
<1>2. seq_counter \in Nat /\ Offered \in Nat
  BY OfferedIs, Sizes
<1>3. CASE seq_counter = MaxSeq
  BY <1>3, OfferedIs DEF GivenBehind
<1>4. CASE seq_counter # MaxSeq
  BY <1>1, <1>2, <1>4, OfferedIs
<1> QED
  BY <1>3, <1>4

----------------------------------------------------------------------------
(* The invariant is inductive. *)

LEMMA Times == MaxTime \in Nat \ {0} /\ HandshakeTimeout \in Nat \ {0} /\ RetryLimit \in Nat
  BY ClockAssumption, KexStateAssumption

\* The initial handshake.
LEMMA InitialInv ==
  ASSUME ClockInit, KexStateInit
  PROVE  HandshakeInv
<1>1. ClockTypeOK
  <2>1. 1 \in 1..MaxTime
    BY Times
  <2> QED BY <2>1 DEF ClockInit, ClockTypeOK
<1>2. KexStateTypeOK
  <2>1. 0 \in Seqs /\ 0 \in 0..WindowCap /\ 0 \in 0..RetryLimit
    BY Sizes, Times DEF Seqs
  <2>2. {kex_started, timeout} \subseteq 0..(MaxTime + HandshakeTimeout)
    BY Times DEF ClockInit, KexStateInit
  <2>3. seq_window \in [Indices -> Seqs]
    BY <2>1 DEF KexStateInit
  <2> QED BY <2>1, <2>2, <2>3 DEF KexStateInit, KexStateTypeOK
<1>3. WindowSorted
  BY DEF KexStateInit, WindowSorted
<1>4. GivenBehind /\ DeadMissed
  BY DEF KexStateInit, GivenBehind, DeadMissed
<1> QED
  BY <1>1, <1>2, <1>3, <1>4 DEF HandshakeInv

\* The types of the sequence numbers, apart from those of the deadline.
SeqTypes ==
  /\ seq_counter \in Seqs /\ seq_window \in Arrays /\ seq_window_len \in 0..WindowCap
  /\ answer \in [seq : Seqs, ok : BOOLEAN] /\ given \subseteq Seqs

DeadlineTypes ==
  /\ kex_started \in 0..(MaxTime + HandshakeTimeout) /\ timeout \in 0..(MaxTime + HandshakeTimeout)
  /\ handshake_done \in BOOLEAN /\ in_time \in BOOLEAN /\ dead \in {"no", "failed", "cleaned"}

LEMMA TypeParts == KexStateTypeOK <=> SeqTypes /\ DeadlineTypes /\ retry_count \in 0..RetryLimit
  BY DEF KexStateTypeOK, SeqTypes, DeadlineTypes, Arrays

SeqInv == SeqTypes /\ WindowSorted /\ GivenBehind

DeadlineInv == DeadlineTypes /\ DeadMissed

\* A step that leaves the sequence numbers alone.
LEMMA SeqKept ==
  ASSUME SeqInv, UNCHANGED seqVars
  PROVE  SeqInv'
<1>1. /\ seq_counter' = seq_counter /\ seq_window' = seq_window
      /\ seq_window_len' = seq_window_len /\ answer' = answer /\ given' = given
  BY DEF seqVars
<1>2. SeqTypes'
  BY <1>1 DEF SeqInv, SeqTypes
<1>3. WindowSorted' /\ GivenBehind'
  BY <1>1 DEF SeqInv, WindowSorted, GivenBehind, Recorded
<1> QED
  BY <1>2, <1>3 DEF SeqInv

\* A step that leaves the deadline alone, and the clock.
LEMMA DeadlineKept ==
  ASSUME DeadlineInv, UNCHANGED deadlineVars, UNCHANGED clockVars
  PROVE  DeadlineInv'
  BY DEF DeadlineInv, DeadlineTypes, DeadMissed, deadlineVars, clockVars

LEMMA IncrementKeepsSeqInv ==
  ASSUME KexStateTypeOK, SeqInv, IncrementSeqCounter
  PROVE  SeqInv'
<1>1. WindowSorted /\ GivenBehind /\ SeqTypes
  BY DEF SeqInv
<1>2. /\ Offered \in Seqs /\ Offered >= seq_counter /\ seq_counter \in Seqs
      /\ seq_counter = MaxSeq => Offered = MaxSeq
      /\ seq_counter' = Offered
  BY <1>1, OfferedIs, IncrementOutcome
<1>3. \A g \in given : g <= Offered
  <2>1. \A g \in given : g \in Nat /\ g <= seq_counter
    BY <1>1, Sizes DEF SeqTypes, GivenBehind
  <2>2. seq_counter \in Nat /\ Offered \in Nat
    BY <1>2, Sizes
  <2> QED BY <1>2, <2>1, <2>2
<1>4. CASE Offered \notin Recorded
  <2>1. PICK k \in 0..Kept : PlacedAt(Offered, k)
    BY <1>1, <1>4, IncrementOutcome
  <2>2. answer' = [seq |-> Offered, ok |-> TRUE] /\ given' = given \cup {Offered}
    BY <1>1, <1>4, IncrementOutcome
  <2>3. SeqTypes'
    <3>1. seq_window_len' \in 0..WindowCap /\ seq_window' \in Arrays
      <4>1. Kept \in 0..(WindowCap - 1)
        BY KeptLength
      <4> QED BY <2>1, <4>1, Sizes DEF PlacedAt
    <3> QED BY <1>1, <1>2, <2>2, <3>1 DEF SeqTypes
  <2>4. WindowSorted'
    BY <1>1, <1>2, <2>1, PlacedSorted
  <2>5. Offered \in Recorded'
    BY <1>2, <2>1, PlacedRecords
  <2>6. \A g \in given' : g <= seq_counter'
    BY <1>2, <1>3, <2>2, Sizes
  <2>7. MaxSeq \in given' => seq_counter' = MaxSeq /\ MaxSeq \in Recorded'
    BY <1>1, <1>2, <2>2, <2>5 DEF GivenBehind
  <2> QED BY <2>3, <2>4, <2>6, <2>7 DEF SeqInv, GivenBehind
<1>5. CASE Offered \in Recorded
  <2>1. /\ answer' = [seq |-> Offered, ok |-> FALSE]
        /\ seq_window' = seq_window /\ seq_window_len' = seq_window_len /\ given' = given
    BY <1>1, <1>5, IncrementOutcome
  <2>2. SeqTypes'
    BY <1>1, <1>2, <2>1 DEF SeqTypes
  <2>3. WindowSorted' /\ Recorded' = Recorded
    BY <1>1, <2>1 DEF WindowSorted, Recorded
  <2>4. GivenBehind'
    BY <1>1, <1>2, <1>3, <2>1, <2>3 DEF GivenBehind
  <2> QED BY <2>2, <2>3, <2>4 DEF SeqInv
<1> QED
  BY <1>4, <1>5

\* The sequence numbers, through every step.
LEMMA SeqInvStep ==
  ASSUME HandshakeInv, KexStateStep
  PROVE  SeqInv'
<1>1. KexStateTypeOK /\ SeqInv
  BY TypeParts DEF HandshakeInv, SeqInv
<1>2. CASE IncrementSeqCounter
  BY <1>1, <1>2, IncrementKeepsSeqInv
<1>3. ASSUME NEW seq \in Seqs, SetSeqCounter(seq)
      PROVE  SeqInv'
  <2>1. /\ seq_counter' = seq /\ given' = {} /\ answer' = answer
        /\ seq_window' = seq_window /\ seq_window_len' = seq_window_len
    BY <1>3 DEF SetSeqCounter
  <2>2. SeqTypes'
    BY <1>1, <2>1 DEF SeqInv, SeqTypes
  <2>3. WindowSorted' /\ GivenBehind'
    BY <1>1, <2>1 DEF SeqInv, WindowSorted, GivenBehind
  <2> QED BY <2>2, <2>3 DEF SeqInv
<1>4. CASE CheckTimeout \/ HandshakeDone \/ Cleanup \/ CheckRetries \/ ResetRetry
  <2>1. UNCHANGED seqVars
    BY <1>4 DEF CheckTimeout, HandshakeDone, Cleanup, CheckRetries, ResetRetry
  <2> QED BY <1>1, <2>1, SeqKept
<1>5. CASE UNCHANGED kexStateVars
  <2>1. UNCHANGED seqVars
    BY <1>5 DEF kexStateVars
  <2> QED BY <1>1, <2>1, SeqKept
<1> QED
  BY <1>2, <1>3, <1>4, <1>5 DEF KexStateStep, KexStateNext

\* The deadline, through every step.
LEMMA DeadlineInvStep ==
  ASSUME HandshakeInv, KexStateStep
  PROVE  ClockTypeOK' /\ DeadlineInv'
<1>1. DeadlineTypes /\ DeadMissed /\ DeadlineInv /\ now \in 1..MaxTime /\ adjusted \in BOOLEAN
  BY TypeParts DEF HandshakeInv, DeadlineInv, ClockTypeOK
<1>2. CASE KexStateNext /\ UNCHANGED clockVars
  <2>1. now' = now /\ adjusted' = adjusted /\ ClockTypeOK'
    BY <1>1, <1>2 DEF clockVars, ClockTypeOK
  <2>2. now + HandshakeTimeout \in 0..(MaxTime + HandshakeTimeout) /\ Epoch \in 0..(MaxTime + HandshakeTimeout)
    BY <1>1, Times DEF Epoch
  <2>3. CASE CheckTimeout
    <3>1. kex_started' = kex_started /\ handshake_done' = handshake_done
      BY <2>3 DEF CheckTimeout
    <3>2. CASE handshake_done
      BY <1>1, <2>1, <2>3, <3>1, <3>2 DEF CheckTimeout, DeadlineInv, DeadlineTypes, DeadMissed
    <3>3. CASE ~handshake_done /\ now <= timeout
      <4>1. timeout' = now + HandshakeTimeout /\ in_time' = TRUE /\ dead' = dead
        <5>1. ~(now > timeout)
          BY <1>1, <3>3, Times DEF DeadlineTypes
        <5> QED BY <2>3, <3>3, <5>1 DEF CheckTimeout
      <4>2. DeadlineTypes'
        BY <1>1, <2>2, <3>1, <4>1 DEF DeadlineTypes
      <4>3. dead # "cleaned" /\ (dead = "failed" => adjusted)
        BY <1>1, <3>3, Times DEF DeadMissed, DeadlineTypes, Epoch
      <4> QED BY <1>1, <2>1, <3>1, <3>3, <4>1, <4>2, <4>3 DEF DeadlineInv, DeadMissed
    <3>4. CASE ~handshake_done /\ now > timeout
      <4>1. /\ timeout' = timeout /\ in_time' = FALSE
            /\ dead' = IF dead = "no" THEN "failed" ELSE dead
        <5>1. ~(now <= timeout)
          BY <1>1, <3>4, Times DEF DeadlineTypes
        <5> QED BY <2>3, <3>4, <5>1 DEF CheckTimeout
      <4> QED BY <1>1, <2>1, <3>1, <3>4, <4>1 DEF DeadlineInv, DeadlineTypes, DeadMissed
    <3> QED BY <2>3, <3>2, <3>3, <3>4 DEF CheckTimeout
  <2>4. CASE HandshakeDone
    BY <1>1, <2>1, <2>4 DEF HandshakeDone, DeadlineInv, DeadlineTypes, DeadMissed
  <2>5. CASE Cleanup
    BY <1>1, <2>1, <2>2, <2>5 DEF Cleanup, DeadlineInv, DeadlineTypes, DeadMissed
  <2>6. CASE CheckRetries \/ ResetRetry \/ IncrementSeqCounter \/ \E seq \in Seqs : SetSeqCounter(seq)
    <3>1. UNCHANGED deadlineVars
      BY <2>6 DEF CheckRetries, ResetRetry, IncrementSeqCounter, SetSeqCounter
    <3> QED BY <1>1, <1>2, <2>1, <3>1, DeadlineKept
  <2> QED BY <1>2, <2>1, <2>3, <2>4, <2>5, <2>6 DEF KexStateNext
<1>3. CASE (Tick \/ SetBack) /\ UNCHANGED kexStateVars
  <2>1. /\ kex_started' = kex_started /\ timeout' = timeout /\ handshake_done' = handshake_done
        /\ in_time' = in_time /\ dead' = dead
    BY <1>3 DEF kexStateVars, deadlineVars
  <2>2. DeadlineTypes'
    BY <1>1, <2>1 DEF DeadlineTypes
  <2>3. CASE Tick
    <3>1. now' = now + 1 /\ adjusted' = adjusted /\ now' \in 1..MaxTime
      BY <1>1, <2>3, Times DEF Tick
    <3>2. now > timeout => now' > timeout'
      BY <1>1, <2>1, <3>1, Times DEF DeadlineTypes
    <3> QED BY <1>1, <2>1, <2>2, <3>1, <3>2 DEF DeadlineInv, DeadMissed, ClockTypeOK
  <2>4. CASE SetBack
    <3>1. adjusted' = TRUE /\ now' \in 1..MaxTime
      BY <1>1, <2>4, Times DEF SetBack
    <3> QED BY <1>1, <2>1, <2>2, <3>1 DEF DeadlineInv, DeadMissed, ClockTypeOK
  <2> QED BY <1>3, <2>3, <2>4
<1> QED
  BY <1>2, <1>3 DEF KexStateStep

LEMMA RetryStep ==
  ASSUME retry_count \in 0..RetryLimit, KexStateStep
  PROVE  retry_count' \in 0..RetryLimit
<1>1. CASE CheckRetries
  BY <1>1, Times DEF CheckRetries
<1>2. CASE ResetRetry
  BY <1>2, Times DEF ResetRetry
<1>3. CASE CheckTimeout \/ HandshakeDone \/ Cleanup \/ IncrementSeqCounter
           \/ (\E seq \in Seqs : SetSeqCounter(seq)) \/ UNCHANGED kexStateVars
  <2>1. retry_count' = retry_count
    BY <1>3 DEF CheckTimeout, HandshakeDone, Cleanup, IncrementSeqCounter, SetSeqCounter, kexStateVars
  <2> QED BY <2>1
<1> QED
  BY <1>1, <1>2, <1>3 DEF KexStateStep, KexStateNext

LEMMA InvStep ==
  ASSUME HandshakeInv, [KexStateStep]_<<clockVars, kexStateVars>>
  PROVE  HandshakeInv'
<1>1. CASE KexStateStep
  <2>1. SeqInv' /\ ClockTypeOK' /\ DeadlineInv'
    BY <1>1, SeqInvStep, DeadlineInvStep
  <2>2. (retry_count \in 0..RetryLimit)'
    BY <1>1, RetryStep DEF HandshakeInv, KexStateTypeOK
  <2>3. KexStateTypeOK'
    BY <2>1, <2>2, TypeParts DEF SeqInv, DeadlineInv, KexStateTypeOK, SeqTypes, DeadlineTypes, Arrays
  <2> QED BY <2>1, <2>3 DEF HandshakeInv, SeqInv, DeadlineInv
<1>2. CASE UNCHANGED <<clockVars, kexStateVars>>
  <2>1. UNCHANGED seqVars /\ UNCHANGED deadlineVars /\ UNCHANGED clockVars /\ retry_count' = retry_count
    BY <1>2 DEF kexStateVars
  <2>2. SeqInv /\ DeadlineInv
    BY TypeParts DEF HandshakeInv, SeqInv, DeadlineInv
  <2>3. SeqInv' /\ DeadlineInv'
    BY <2>1, <2>2, SeqKept, DeadlineKept
  <2>4. ClockTypeOK' /\ retry_count' \in 0..RetryLimit
    BY <2>1 DEF HandshakeInv, ClockTypeOK, clockVars, KexStateTypeOK
  <2>5. KexStateTypeOK'
    BY <2>3, <2>4 DEF SeqInv, DeadlineInv, KexStateTypeOK, SeqTypes, DeadlineTypes, Arrays
  <2> QED BY <2>3, <2>4, <2>5 DEF HandshakeInv, SeqInv, DeadlineInv
<1> QED
  BY <1>1, <1>2

LEMMA HandshakeInvHolds == KexStateSpec => []HandshakeInv
<1>1. ClockInit /\ KexStateInit => HandshakeInv
  BY InitialInv
<1>2. HandshakeInv /\ [KexStateStep]_<<clockVars, kexStateVars>> => HandshakeInv'
  BY InvStep
<1> QED
  BY <1>1, <1>2, PTL DEF KexStateSpec, KexStateStep

----------------------------------------------------------------------------
(* The theorems. *)

\* Every variable of HybridKEXState and of the clock has its type.
THEOREM HandshakeTyped == KexStateSpec => [](ClockTypeOK /\ KexStateTypeOK)
<1>1. HandshakeInv => ClockTypeOK /\ KexStateTypeOK
  BY DEF HandshakeInv
<1> QED
  BY <1>1, HandshakeInvHolds, PTL

\* The shifted, binary-searched array of increment_seq_counter answers as the
\* set of ReplayWindow does, whatever the window length.
THEOREM ArrayIsWindow == KexStateSpec => ImplementsWindow
<1>1. ClockInit /\ KexStateInit => Window!Init
  <2>1. KexStateInit => Recorded = {}
    BY DEF KexStateInit, Recorded
  <2> QED BY <2>1 DEF KexStateInit, Window!Init
<1>2. HandshakeInv /\ [KexStateStep]_<<clockVars, kexStateVars>>
        => [Window!Next]_<<Recorded, answer>>
  <2> SUFFICES ASSUME HandshakeInv, [KexStateStep]_<<clockVars, kexStateVars>>
               PROVE  [Window!Next]_<<Recorded, answer>>
    OBVIOUS
  <2>1. CASE IncrementSeqCounter
    BY <2>1, IncrementIsWindowStep DEF HandshakeInv
  <2>2. CASE UNCHANGED <<seq_window, seq_window_len, answer>>
    BY <2>2 DEF Recorded
  <2>3. CASE CheckTimeout \/ HandshakeDone \/ Cleanup \/ CheckRetries \/ ResetRetry
             \/ \E seq \in Seqs : SetSeqCounter(seq)
    <3>1. UNCHANGED <<seq_window, seq_window_len, answer>>
      BY <2>3 DEF CheckTimeout, HandshakeDone, Cleanup, CheckRetries, ResetRetry, SetSeqCounter, seqVars
    <3> QED BY <2>2, <3>1
  <2>4. CASE UNCHANGED kexStateVars
    <3>1. UNCHANGED <<seq_window, seq_window_len, answer>>
      BY <2>4 DEF kexStateVars, seqVars
    <3> QED BY <2>2, <3>1
  <2> QED BY <2>1, <2>3, <2>4 DEF KexStateStep, KexStateNext
<1> QED
  BY <1>1, <1>2, HandshakeInvHolds, PTL DEF KexStateSpec, KexStateStep, ImplementsWindow, Window!Spec

\* increment_seq_counter returns no number twice between two settings of the
\* counter, however many the window has evicted.
THEOREM NumbersFresh == KexStateSpec => NeverReissued
<1>1. HandshakeInv /\ IncrementSeqCounter /\ answer'.ok => answer'.seq \notin given
  <2> SUFFICES ASSUME HandshakeInv, IncrementSeqCounter, answer'.ok
               PROVE  answer'.seq \notin given
    OBVIOUS
  <2>1. KexStateTypeOK /\ WindowSorted /\ GivenBehind
    BY DEF HandshakeInv
  <2>2. Offered \notin Recorded
    BY <2>1, IncrementOutcome
  <2>3. answer'.seq = Offered
    BY <2>1, IncrementOutcome
  <2> QED BY <2>1, <2>2, <2>3, OfferedIsNew
<1> QED
  BY <1>1, HandshakeInvHolds, PTL DEF NeverReissued

\* check_timeout fails for a handshake that was cleaned up, or that missed
\* its deadline by a clock that was never set back.
THEOREM DeadFails == KexStateSpec => DeadStaysDead
<1>1. HandshakeInv /\ CheckTimeout /\ (dead = "cleaned" \/ (dead = "failed" /\ ~adjusted))
        => ~in_time'
  <2> SUFFICES ASSUME HandshakeInv, CheckTimeout,
                      dead = "cleaned" \/ (dead = "failed" /\ ~adjusted)
               PROVE  ~in_time'
    OBVIOUS
  <2>1. ~handshake_done
    BY DEF HandshakeInv, DeadMissed
  <2>2. now \in Nat /\ now > 0 /\ timeout \in Nat
    BY TypeParts, Times DEF HandshakeInv, ClockTypeOK, DeadlineTypes
  <2>3. now > timeout
    BY <2>2 DEF HandshakeInv, DeadMissed, Epoch
  <2> QED BY <2>1, <2>2, <2>3 DEF CheckTimeout
<1> QED
  BY <1>1, HandshakeInvHolds, PTL DEF DeadStaysDead
====
