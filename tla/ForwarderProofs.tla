-------------------------- MODULE ForwarderProofs --------------------------
(***************************************************************************)
(* What the packet loops guarantee for any batch, any frames and any       *)
(* spray: the offset table tiles the arena although drafts are written and *)
(* given up, every output is counted, the batch leaves in order whatever   *)
(* the order of the parallel map, an encrypted output is whole, and the    *)
(* arena is large enough, except in the serial full-spray loop when a      *)
(* frame has more channels than the reserve allows for.                    *)
(***************************************************************************)
EXTENDS Forwarder, SequenceTheorems, WellFoundedInduction, TLAPS

\* usize::next_power_of_two, as far as the capacity depends on it.
RoundsUp == \A n \in Nat : NextPowerOfTwo(n) \in Nat /\ NextPowerOfTwo(n) >= n

FrameRecords == [size : Nat, claim : Nat]
OutputRecords == [size : Nat, encrypted : BOOLEAN, miss : BOOLEAN, from : Nat]
OffsetRecords == [start : Nat, size : Nat, encrypted : BOOLEAN, from : Nat]
OwnedPaths == {"owned", "full_owned"}
SprayPaths == {"full", "full_owned"}

----------------------------------------------------------------------------
(* The inductive invariant. *)

\* Frames handled so far.
Handled == Len(frames) - Len(todo)

\* The loop may write an output of the first frame of todo.
Ready == todo # <<>> /\ (Sprays => copies > 0)

\* Where the pieces of the offset table end: an output being written is not
\* one of them yet.
Written == IF pc = "seal" THEN start ELSE len

\* Where a batch is: its frames not handled yet are the last of the polled
\* ones, and each phase has what it works on.
Progress ==
  /\ Handled >= 0
  /\ \A i \in 1..Len(todo) : todo[i] = frames[Handled + i]
  /\ pc # "idle" => Len(frames) > 0
  /\ pc \in {"idle", "map", "append"} => todo = <<>>
  /\ pc \notin {"map", "append"} => outputs = <<>>
  /\ pc # "map" => pending = {}
  /\ pc \in {"expand", "map"} => offsets = <<>> /\ len = 0
  /\ pc \in {"map", "append"} => path \in OwnedPaths
  /\ pc = "expand" => path = "full_owned"
  /\ pc \in {"loop", "seal"} => path \notin OwnedPaths
  /\ copies > 0 => todo # <<>> /\ Sprays

\* An output is being written: its header and payload are in the arena.
Drafted ==
  pc = "seal" => /\ Ready /\ Draft(Head(todo), TRUE) > 0
                 /\ len = start + Draft(Head(todo), TRUE)

\* The frames the outputs come from, in the order of the outputs: those of
\* the items to map, or of the pieces laid out.
Made == IF path \in OwnedPaths THEN Len(duplicated) ELSE Len(offsets)
Froms ==
  [i \in 1..Made |-> IF path \in OwnedPaths THEN duplicated[i] ELSE offsets[i].from]

\* They are in the order of the batch and reach the current frame.
MadeInOrder ==
  /\ \A i \in 1..(Made - 1) : Froms[i + 1] - Froms[i] \in {0, 1}
  /\ Made > 0 => Froms[1] = 1
  /\ Made = 0 => Handled = 0
  /\ Made > 0 => Froms[Made] = Handled \/ (copies > 0 /\ Froms[Made] = Handled + 1)
  /\ path \notin SprayPaths => Made = Handled /\ \A i \in 1..Made : Froms[i] = i

\* On the owned paths the pieces laid out, then the outputs still to append,
\* are those of the items, each mapped one at its own place.
Mapped ==
  path \in OwnedPaths =>
    /\ \A i \in 1..Len(duplicated) : duplicated[i] \in 1..Len(frames)
    /\ pc # "expand" => Len(offsets) + Len(outputs) = Len(duplicated)
    /\ \A i \in 1..Len(offsets) : offsets[i].from = duplicated[i]
    /\ \A i \in 1..Len(outputs) :
         i \notin pending => outputs[i].from = duplicated[Len(offsets) + i]

\* An output, appended or not, is what its frame allows.
Whole(o, batch, sealing) ==
  /\ o.from \in 1..Len(batch)
  /\ LET f == batch[o.from] IN
       o.encrypted => sealing /\ CarriesPayload(f) /\ f.claim <= SealLimit
                      /\ o.size >= HeaderSize + f.claim + TagSize

MadeWhole ==
  /\ \A i \in 1..Len(offsets) : Whole(offsets[i], frames, session)
  /\ \A i \in 1..Len(outputs) :
       i \notin pending =>
         Whole(outputs[i], frames, session) /\ ~(outputs[i].encrypted /\ outputs[i].miss)

\* Bytes that frames may still take: each with a tag, and in the full-spray
\* loop once for each copy still to make.
Need(s) == Bytes(s) + Len(s) * TagSize
Owed ==
  IF path # "full" THEN Need(todo)
  ELSE IF copies = 0 THEN Need(todo) * Multiplier
  ELSE Need(Tail(todo)) * Multiplier + copies * (Head(todo).size + TagSize)

\* The reserve allows for as many copies as a frame may have.
ReserveAllows == path = "full" => MaxChannels <= Multiplier

RoomLeft ==
  ReserveAllows =>
    /\ len <= cap
    /\ pc \in {"loop", "seal"} => Written + Owed <= cap
    /\ pc = "append" => len + Bytes(outputs) <= cap

ForwarderInv ==
  /\ TypeOK /\ Progress /\ Drafted /\ OffsetsTile /\ Accounted
  /\ MadeInOrder /\ Mapped /\ MadeWhole /\ RoomLeft

----------------------------------------------------------------------------
(* Sums over sequences. *)

LEMMA Sizes ==
  /\ HeaderSize \in Nat \ {0} /\ TagSize \in Nat /\ SealLimit \in Nat
  /\ FrameSet \subseteq FrameRecords
  /\ MaxPoll \in Nat \ {0} /\ ParallelThreshold \in Nat \ {0}
  /\ MaxChannels \in Nat \ {0} /\ Multiplier \in Nat \ {0}
  /\ InitCap \in Nat \ {0} /\ SlotSize \in Nat
  BY ForwarderAssumption DEF FrameRecords

\* A set with zero and with every successor has all naturals.
LEMMA Induct ==
  ASSUME NEW S, 0 \in S, \A n \in Nat : n \in S => n + 1 \in S
  PROVE  Nat \subseteq S
<1> SUFFICES ASSUME Nat \ S # {} PROVE FALSE
  OBVIOUS
<1> DEFINE R == OpToRel(<, Nat)
<1>1. IsWellFoundedOn(R, Nat)
  BY NatLessThanWellFounded
<1>2. \E x \in Nat \ S : \A y \in Nat \ S : ~(<<y, x>> \in R)
  <2> HIDE DEF R
  <2> QED BY <1>1, WFMin
<1>3. PICK x \in Nat \ S : \A y \in Nat \ S : ~(<<y, x>> \in R)
  BY <1>2
<1>4. x # 0 /\ x - 1 \in Nat /\ x - 1 < x /\ (x - 1) + 1 = x
  OBVIOUS
<1>5. <<x - 1, x>> \in R
  BY <1>4 DEF OpToRel
<1> HIDE DEF R
<1>6. x - 1 \in S
  BY <1>3, <1>4, <1>5
<1> QED
  BY <1>4, <1>6

\* The recursive function Bytes is made of.
SumTo(s, n, f) == f = [i \in 0..n |-> IF i = 0 THEN 0 ELSE f[i - 1] + s[i].size]
IsSum(s, f) == SumTo(s, Len(s), f)
Sum(s) == CHOOSE f : IsSum(s, f)

LEMMA BytesIsSum ==
  ASSUME NEW s
  PROVE  Bytes(s) = Sum(s)[Len(s)]
  BY DEF Bytes, Sum, IsSum, SumTo

LEMMA SumExists ==
  ASSUME NEW s
  PROVE  \A n \in Nat : \E f : SumTo(s, n, f)
<1> DEFINE S == {n \in Nat : \E f : SumTo(s, n, f)}
<1>1. 0 \in S
  <2> DEFINE f == [i \in 0..0 |-> 0]
  <2>1. f = [i \in 0..0 |-> IF i = 0 THEN 0 ELSE f[i - 1] + s[i].size]
    OBVIOUS
  <2>2. SumTo(s, 0, f)
    BY <2>1 DEF SumTo
  <2> QED BY <2>2
<1>2. ASSUME NEW n \in Nat, n \in S PROVE n + 1 \in S
  <2>1. PICK f : SumTo(s, n, f)
    BY <1>2
  <2> DEFINE g == [i \in 0..(n + 1) |-> IF i = n + 1 THEN f[n] + s[n + 1].size ELSE f[i]]
  <2>2. \A i \in 0..n : f[i] = IF i = 0 THEN 0 ELSE f[i - 1] + s[i].size
    BY <2>1 DEF SumTo
  <2>3. \A i \in 0..(n + 1) : g[i] = IF i = 0 THEN 0 ELSE g[i - 1] + s[i].size
    <3> SUFFICES ASSUME NEW i \in 0..(n + 1)
                 PROVE  g[i] = IF i = 0 THEN 0 ELSE g[i - 1] + s[i].size
      OBVIOUS
    <3>1. CASE i = n + 1
      <4>1. i # 0 /\ i - 1 = n /\ i - 1 \in 0..(n + 1) /\ i - 1 # n + 1
        BY <3>1
      <4>2. g[i - 1] = f[n] /\ g[i] = f[n] + s[i].size
        BY <3>1, <4>1
      <4> QED BY <4>1, <4>2
    <3>2. CASE i # n + 1
      <4>1. i \in 0..n
        BY <3>2
      <4>2. CASE i = 0
        BY <2>2, <3>2, <4>1, <4>2
      <4>3. CASE i # 0
        <5>1. i - 1 \in 0..(n + 1) /\ i - 1 # n + 1
          BY <4>1, <4>3
        <5> QED BY <2>2, <3>2, <4>1, <4>3, <5>1
      <4> QED BY <4>2, <4>3
    <3> QED BY <3>1, <3>2
  <2>4. DOMAIN g = 0..(n + 1) /\ g = [i \in 0..(n + 1) |-> g[i]]
    OBVIOUS
  <2> HIDE DEF g
  <2>5. g = [i \in 0..(n + 1) |-> IF i = 0 THEN 0 ELSE g[i - 1] + s[i].size]
    BY <2>3, <2>4
  <2>6. SumTo(s, n + 1, g)
    BY <2>5 DEF SumTo
  <2> QED BY <2>6
<1> HIDE DEF S
<1>3. Nat \subseteq S
  BY <1>1, <1>2, Induct
<1> QED
  BY <1>3 DEF S

LEMMA SumValues ==
  ASSUME NEW s, Len(s) \in Nat
  PROVE  \A i \in 0..Len(s) : Sum(s)[i] = IF i = 0 THEN 0 ELSE Sum(s)[i - 1] + s[i].size
<1>1. \E f : IsSum(s, f)
  BY SumExists DEF IsSum
<1>2. IsSum(s, Sum(s))
  BY <1>1 DEF Sum
<1> QED
  BY <1>2 DEF IsSum, SumTo

\* Bytes of sequences of anything that has a size.
LEMMA BytesEmpty ==
  ASSUME NEW s, Len(s) = 0
  PROVE  Bytes(s) = 0
  BY BytesIsSum, SumValues

LEMMA PartialSumNat ==
  ASSUME NEW s, Len(s) \in Nat, \A i \in 1..Len(s) : s[i].size \in Nat
  PROVE  \A i \in 0..Len(s) : Sum(s)[i] \in Nat
<1> DEFINE S == {i \in Nat : i <= Len(s) => Sum(s)[i] \in Nat}
<1>1. 0 \in S
  BY SumValues
<1>2. ASSUME NEW i \in Nat, i \in S PROVE i + 1 \in S
  <2> SUFFICES ASSUME i + 1 <= Len(s) PROVE Sum(s)[i + 1] \in Nat
    OBVIOUS
  <2>1. i + 1 \in 0..Len(s) /\ i + 1 # 0 /\ (i + 1) - 1 = i /\ i + 1 \in 1..Len(s) /\ i <= Len(s)
    OBVIOUS
  <2>2. Sum(s)[i + 1] = Sum(s)[(i + 1) - 1] + s[i + 1].size
    BY <2>1, SumValues
  <2>3. Sum(s)[i] \in Nat
    BY <1>2, <2>1
  <2>4. s[i + 1].size \in Nat
    BY <2>1
  <2> QED BY <2>1, <2>2, <2>3, <2>4
<1>3. Nat \subseteq S
  <2> HIDE DEF S
  <2> QED BY <1>1, <1>2, Induct
<1>4. \A i \in 0..Len(s) : i \in S /\ i <= Len(s)
  <2> HIDE DEF S
  <2> QED BY <1>3
<1> QED
  BY <1>4

LEMMA BytesNat ==
  ASSUME NEW s, Len(s) \in Nat, \A i \in 1..Len(s) : s[i].size \in Nat
  PROVE  Bytes(s) \in Nat
  BY BytesIsSum, PartialSumNat

\* The first element apart.
LEMMA BytesHeadTail ==
  ASSUME NEW T, NEW s \in Seq(T), s # <<>>, \A i \in 1..Len(s) : s[i].size \in Nat
  PROVE  Bytes(s) = Head(s).size + Bytes(Tail(s))
<1> DEFINE t == Tail(s)
           S == {i \in Nat : i <= Len(t) => Sum(s)[i + 1] = s[1].size + Sum(t)[i]}
<1>1. /\ t \in Seq(T) /\ Len(t) = Len(s) - 1 /\ Len(t) \in Nat /\ Len(s) \in Nat
      /\ \A i \in 1..Len(t) : t[i] = s[i + 1]
  BY HeadTailProperties, LenProperties, EmptySeq
<1>2. Head(s) = s[1] /\ 1 \in 1..Len(s) /\ s[1].size \in Nat
  BY <1>1
<1> HIDE DEF t
<1>3. 0 \in S
  <2>1. 1 \in 0..Len(s) /\ 0 \in 0..Len(s) /\ 0 \in 0..Len(t) /\ 1 - 1 = 0
    BY <1>1
  <2>2. Sum(s)[1] = Sum(s)[0] + s[1].size /\ Sum(s)[0] = 0 /\ Sum(t)[0] = 0
    BY <1>1, <2>1, SumValues
  <2> QED BY <1>2, <2>2
<1>4. ASSUME NEW i \in Nat, i \in S PROVE i + 1 \in S
  <2> SUFFICES ASSUME i + 1 <= Len(t) PROVE Sum(s)[(i + 1) + 1] = s[1].size + Sum(t)[i + 1]
    OBVIOUS
  <2>1. /\ (i + 1) + 1 \in 0..Len(s) /\ (i + 1) + 1 # 0 /\ ((i + 1) + 1) - 1 = i + 1
        /\ i + 1 \in 0..Len(t) /\ i + 1 # 0 /\ (i + 1) - 1 = i /\ i + 1 \in 1..Len(t) /\ i <= Len(t)
        /\ (i + 1) + 1 \in 1..Len(s)
    BY <1>1
  <2>2. Sum(s)[(i + 1) + 1] = Sum(s)[i + 1] + s[(i + 1) + 1].size
    <3>1. Sum(s)[(i + 1) + 1] = Sum(s)[((i + 1) + 1) - 1] + s[(i + 1) + 1].size
      BY <1>1, <2>1, SumValues
    <3> QED BY <2>1, <3>1
  <2>3. Sum(t)[i + 1] = Sum(t)[i] + t[i + 1].size
    <3>1. Sum(t)[i + 1] = Sum(t)[(i + 1) - 1] + t[i + 1].size
      BY <1>1, <2>1, SumValues
    <3> QED BY <2>1, <3>1
  <2>4. Sum(s)[i + 1] = s[1].size + Sum(t)[i] /\ t[i + 1] = s[(i + 1) + 1]
    BY <1>1, <1>4, <2>1
  <2>5. Sum(t)[i] \in Nat
    <3>1. \A j \in 1..Len(t) : t[j].size \in Nat
      BY <1>1
    <3>2. \A j \in 0..Len(t) : Sum(t)[j] \in Nat
      BY <1>1, <3>1, PartialSumNat
    <3>3. i \in 0..Len(t)
      BY <1>1, <2>1
    <3> QED BY <3>2, <3>3
  <2>6. s[(i + 1) + 1].size \in Nat
    BY <2>1
  <2> QED BY <1>2, <2>2, <2>3, <2>4, <2>5, <2>6
<1>5. Nat \subseteq S
  <2> HIDE DEF S
  <2> QED BY <1>3, <1>4, Induct
<1>6. Sum(s)[Len(t) + 1] = s[1].size + Sum(t)[Len(t)]
  <2>1. Len(t) \in S
    <3> HIDE DEF S
    <3> QED BY <1>1, <1>5
  <2> QED BY <2>1, <1>1
<1>7. Len(t) + 1 = Len(s)
  BY <1>1
<1> QED
  BY <1>2, <1>6, <1>7, BytesIsSum DEF t

----------------------------------------------------------------------------
(* One frame. *)

\* What an owned loop guarantees of what becomes of a frame.
Fits(o, f) ==
  /\ o.size \in Nat /\ o.encrypted \in BOOLEAN /\ o.miss \in BOOLEAN
  /\ ~(o.encrypted /\ o.miss)
  /\ o.encrypted => Seals(f) /\ o.size >= HeaderSize + f.claim + TagSize

LEMMA FitsOutcome ==
  ASSUME NEW f \in FrameRecords, NEW n \in Nat, NEW e \in BOOLEAN, NEW m \in BOOLEAN,
         ~(e /\ m), e => Seals(f) /\ n >= HeaderSize + f.claim + TagSize
  PROVE  Fits(Outcome(n, e, m), f)
  BY DEF Fits, Outcome

LEMMA Guards ==
  ASSUME NEW f \in FrameRecords, session \in BOOLEAN
  PROVE  /\ f.size \in Nat /\ f.claim \in Nat
         /\ HasHeader(f) \in BOOLEAN /\ CarriesPayload(f) \in BOOLEAN
         /\ Seals(f) \in BOOLEAN /\ SealMissed(f) \in BOOLEAN
         /\ CarriesPayload(f) => HeaderSize + f.claim <= f.size
         /\ HasHeader(f) => HeaderSize <= f.size
         /\ Seals(f) => session /\ CarriesPayload(f)
         /\ HeaderSize + f.claim + TagSize \in Nat /\ f.size + TagSize \in Nat
         /\ HeaderSize + f.claim \in Nat
<1>1. f.size \in Nat /\ f.claim \in Nat
  BY DEF FrameRecords
<1> QED
  BY <1>1, Sizes DEF HasHeader, CarriesPayload, Seals, SealMissed

LEMMA OwnedFits ==
  ASSUME NEW f \in FrameRecords, NEW found \in BOOLEAN, session \in BOOLEAN
  PROVE  Fits(Owned(f, found), f)
<1> DEFINE grown == Larger(f.size, HeaderSize + f.claim + TagSize)
<1>1. f.size \in Nat /\ grown \in Nat /\ grown >= HeaderSize + f.claim + TagSize
  BY Guards DEF Larger
<1> HIDE DEF grown
<1>2. CASE ~HasHeader(f)
  BY <1>1, <1>2, FitsOutcome DEF Owned
<1>3. CASE HasHeader(f) /\ ~found
  BY <1>1, <1>3, FitsOutcome DEF Owned
<1>4. CASE HasHeader(f) /\ found /\ Seals(f)
  <2>1. Owned(f, found) = Outcome(grown, TRUE, FALSE)
    BY <1>4 DEF Owned, grown
  <2> QED BY <1>1, <1>4, <2>1, FitsOutcome
<1>5. CASE HasHeader(f) /\ found /\ ~Seals(f) /\ session /\ CarriesPayload(f)
  <2>1. Owned(f, found) = Outcome(grown, FALSE, TRUE)
    BY <1>5 DEF Owned, grown
  <2> QED BY <1>1, <2>1, FitsOutcome
<1>6. CASE HasHeader(f) /\ found /\ ~Seals(f) /\ ~(session /\ CarriesPayload(f))
  <2>1. Owned(f, found) = Outcome(f.size, FALSE, SealMissed(f))
    BY <1>6 DEF Owned
  <2> QED BY <1>1, <2>1, Guards, FitsOutcome
<1> QED
  BY <1>2, <1>3, <1>4, <1>5, <1>6

\* A draft is never longer than its frame, and it is header and payload if
\* the frame can be sealed.
LEMMA DraftIs ==
  ASSUME NEW f \in FrameRecords, NEW found \in BOOLEAN, session \in BOOLEAN
  PROVE  /\ Draft(f, found) \in Nat /\ Draft(f, found) <= f.size
         /\ Draft(f, found) > 0 => Draft(f, TRUE) = Draft(f, found)
         /\ Draft(f, found) > 0 /\ Seals(f) => Draft(f, found) = HeaderSize + f.claim
<1>1. CASE ~HasHeader(f) \/ ~found
  BY <1>1, Guards DEF Draft
<1>2. CASE HasHeader(f) /\ found
  <2> DEFINE d == Draft(f, found)
  <2>1. Draft(f, TRUE) = d
    <3>1. found = TRUE
      BY <1>2
    <3> QED BY <3>1
  <2>2. /\ f.size \in Nat /\ f.claim \in Nat /\ HeaderSize \in Nat /\ HeaderSize <= f.size
        /\ CarriesPayload(f) => HeaderSize + f.claim <= f.size
        /\ Seals(f) => session /\ CarriesPayload(f)
    BY <1>2, Guards, Sizes
  <2>3. d \in {0, HeaderSize, HeaderSize + f.claim}
    BY <1>2, <2>2 DEF Draft
  <2>4. d = HeaderSize + f.claim => d = HeaderSize \/ CarriesPayload(f)
    BY <1>2, <2>2 DEF Draft
  <2>5. Seals(f) => d = HeaderSize + f.claim
    BY <1>2, <2>2 DEF Draft
  <2> HIDE DEF d
  <2>6. d \in Nat /\ d <= f.size
    <3>1. HeaderSize + f.claim \in Nat
      BY <2>2
    <3>2. CASE d \in {0, HeaderSize}
      BY <2>2, <3>2
    <3>3. CASE d = HeaderSize + f.claim /\ d # HeaderSize
      <4>1. HeaderSize + f.claim <= f.size
        BY <2>2, <2>4, <3>3
      <4> QED BY <3>1, <3>3, <4>1
    <3> QED BY <2>3, <3>2, <3>3
  <2> QED BY <2>1, <2>5, <2>6 DEF d
<1> QED
  BY <1>1, <1>2

----------------------------------------------------------------------------
(* What the steps of a loop have in common. *)

LEMMA TypeFacts ==
  ASSUME TypeOK
  PROVE  /\ todo \in Seq(FrameRecords) /\ frames \in Seq(FrameRecords)
         /\ outputs \in Seq(OutputRecords) /\ offsets \in Seq(OffsetRecords)
         /\ duplicated \in Seq(Nat \ {0}) /\ DOMAIN duplicated = 1..Len(duplicated)
         /\ Len(todo) \in Nat /\ Len(frames) \in Nat /\ Len(outputs) \in Nat /\ Len(offsets) \in Nat
         /\ Len(duplicated) \in Nat
         /\ \A i \in 1..Len(todo) : todo[i] \in FrameRecords
         /\ \A i \in 1..Len(frames) : frames[i] \in FrameRecords
         /\ \A i \in 1..Len(outputs) : outputs[i] \in OutputRecords
         /\ \A i \in 1..Len(offsets) : offsets[i] \in OffsetRecords
         /\ \A i \in 1..Len(duplicated) : duplicated[i] \in Nat
         /\ Handled \in Int /\ Made \in Nat /\ copies \in Nat
<1>1. /\ todo \in Seq(FrameRecords) /\ frames \in Seq(FrameRecords)
      /\ outputs \in Seq(OutputRecords) /\ offsets \in Seq(OffsetRecords)
      /\ duplicated \in Seq(Nat \ {0})
  BY DEF TypeOK, FrameRecords, OutputRecords, OffsetRecords
<1>2. /\ Len(todo) \in Nat /\ Len(frames) \in Nat /\ Len(outputs) \in Nat /\ Len(offsets) \in Nat
      /\ Len(duplicated) \in Nat /\ DOMAIN duplicated = 1..Len(duplicated)
  BY <1>1, LenProperties
<1>3. /\ \A i \in 1..Len(todo) : todo[i] \in FrameRecords
      /\ \A i \in 1..Len(frames) : frames[i] \in FrameRecords
      /\ \A i \in 1..Len(outputs) : outputs[i] \in OutputRecords
      /\ \A i \in 1..Len(offsets) : offsets[i] \in OffsetRecords
      /\ \A i \in 1..Len(duplicated) : duplicated[i] \in Nat \ {0}
  BY <1>1, ElementOfSeq
<1>4. copies \in Nat
  BY Sizes DEF TypeOK
<1> QED
  BY <1>1, <1>2, <1>3, <1>4 DEF Handled, Made

LEMMA FromType ==
  ASSUME TypeOK, NEW i \in 1..Made
  PROVE  Froms[i] \in Nat
<1>1. CASE path \in OwnedPaths
  BY <1>1, TypeFacts DEF Froms, Made
<1>2. CASE path \notin OwnedPaths
  <2>1. offsets[i] \in OffsetRecords
    BY <1>2, TypeFacts DEF Made
  <2> QED BY <1>2, <2>1 DEF Froms, OffsetRecords
<1> QED
  BY <1>1, <1>2

\* The frame a loop is at.
LEMMA HeadIs ==
  ASSUME TypeOK, Progress, todo # <<>>
  PROVE  /\ Head(todo) \in FrameRecords /\ Current \in 1..Len(frames) /\ Current \in Nat
         /\ Current = Handled + 1 /\ frames[Current] = Head(todo) /\ Len(todo) > 0
         /\ Tail(todo) \in Seq(FrameRecords) /\ Len(Tail(todo)) = Len(todo) - 1
         /\ \A i \in 1..Len(Tail(todo)) : Tail(todo)[i] = todo[i + 1]
<1>1. todo \in Seq(FrameRecords) /\ Len(todo) \in Nat \ {0} /\ Len(frames) \in Nat
  BY TypeFacts, EmptySeq
<1>2. Head(todo) = todo[1]
  BY <1>1
<1>3. Head(todo) \in FrameRecords
  BY <1>1, HeadTailProperties
<1>4. Current = Handled + 1 /\ Handled >= 0 /\ Current \in 1..Len(frames) /\ Current \in Nat
  BY <1>1 DEF Current, Handled, Progress
<1>5. frames[Current] = Head(todo)
  <2>1. 1 \in 1..Len(todo)
    BY <1>1
  <2> QED BY <1>2, <1>4, <2>1 DEF Progress
<1> QED
  BY <1>1, <1>3, <1>4, <1>5, HeadTailProperties

\* What remains after a frame.
LEMMA TailIs ==
  ASSUME TypeOK, Progress, todo # <<>>, todo' = Tail(todo), frames' = frames
  PROVE  /\ todo' \in Seq(FrameRecords) /\ Handled' = Handled + 1 /\ Handled' >= 0
         /\ \A i \in 1..Len(todo') : todo'[i] = frames'[Handled' + i]
<1>1. /\ Len(Tail(todo)) = Len(todo) - 1 /\ Tail(todo) \in Seq(FrameRecords)
      /\ \A i \in 1..Len(Tail(todo)) : Tail(todo)[i] = todo[i + 1]
      /\ Len(todo) \in Nat /\ Len(frames) \in Nat /\ Handled \in Int
  BY HeadIs, TypeFacts
<1>2. Handled' = Handled + 1 /\ Handled' >= 0
  <2>1. Handled' = Len(frames) - (Len(todo) - 1)
    BY <1>1 DEF Handled
  <2> QED BY <1>1, <2>1 DEF Handled, Progress
<1>3. ASSUME NEW i \in 1..Len(Tail(todo)) PROVE Tail(todo)[i] = frames[Handled + 1 + i]
  <2>1. i + 1 \in 1..Len(todo) /\ Handled + (i + 1) = Handled + 1 + i
    BY <1>1
  <2>2. todo[i + 1] = frames[Handled + (i + 1)]
    BY <2>1 DEF Progress
  <2> QED BY <1>1, <2>1, <2>2
<1> QED
  BY <1>1, <1>2, <1>3

\* What remains after a frame or one copy of it.
LEMMA NextCopyIs ==
  ASSUME TypeOK, Progress, Ready, NextCopy
  PROVE  /\ frames' = frames /\ path' = path /\ pc' = "loop"
         /\ \/ copies > 1 /\ copies' = copies - 1 /\ todo' = todo /\ Handled' = Handled
            \/ copies \in {0, 1} /\ copies' = 0 /\ todo' = Tail(todo) /\ Handled' = Handled + 1
         /\ copies = 0 => ~Sprays
         /\ copies' \in 0..MaxChannels /\ todo' \in Seq(FrameRecords)
         /\ Handled' >= 0
         /\ \A i \in 1..Len(todo') : todo'[i] = frames'[Handled' + i]
         /\ copies' > 0 => todo' # <<>> /\ Sprays'
<1>1. /\ todo # <<>> /\ (Sprays => copies > 0) /\ copies \in 0..MaxChannels /\ copies \in Nat
      /\ frames' = frames /\ path' = path /\ pc' = "loop"
  BY TypeFacts DEF Ready, NextCopy, TypeOK
<1>2. CASE copies > 1
  <2>1. copies' = copies - 1 /\ todo' = todo
    BY <1>2 DEF NextCopy
  <2>2. Handled' = Handled /\ copies' \in 0..MaxChannels /\ Sprays' = Sprays
    BY <1>1, <1>2, <2>1, Sizes DEF Handled, Sprays
  <2>3. todo' \in Seq(FrameRecords) /\ Handled' >= 0 /\ Sprays
    BY <1>2, <2>1, <2>2, TypeFacts DEF Progress
  <2>4. \A i \in 1..Len(todo') : todo'[i] = frames'[Handled' + i]
    BY <1>1, <2>1, <2>2 DEF Progress
  <2> QED BY <1>1, <1>2, <2>1, <2>2, <2>3, <2>4
<1>3. CASE ~(copies > 1)
  <2>1. copies \in {0, 1} /\ copies' = 0 /\ todo' = Tail(todo)
    BY <1>1, <1>3 DEF NextCopy
  <2>2. /\ todo' \in Seq(FrameRecords) /\ Handled' = Handled + 1 /\ Handled' >= 0
        /\ \A i \in 1..Len(todo') : todo'[i] = frames'[Handled' + i]
    BY <1>1, <2>1, TailIs
  <2>3. ~(copies' > 0) /\ copies' \in 0..MaxChannels /\ (copies = 0 => ~Sprays)
    BY <1>1, <2>1, Sizes
  <2> QED BY <1>1, <2>1, <2>2, <2>3
<1> QED
  BY <1>2, <1>3

\* One more output, of the current frame.
LEMMA MadeInOrderStep ==
  ASSUME TypeOK, Progress, MadeInOrder, Ready, NextCopy,
         Made' = Made + 1, \A i \in 1..Made : Froms'[i] = Froms[i], Froms'[Made + 1] = Current
  PROVE  MadeInOrder'
<1>1. /\ todo # <<>> /\ Made \in Nat /\ Handled \in Int /\ Current = Handled + 1
      /\ \A i \in 1..Made : Froms[i] \in Int
  BY TypeFacts, FromType, HeadIs DEF Ready
<1>2. \/ copies' > 0 /\ Handled' = Handled
      \/ copies' = 0 /\ Handled' = Handled + 1
  BY NextCopyIs, TypeFacts
<1>3. \A i \in 1..(Made - 1) : Froms'[i + 1] = Froms[i + 1] /\ Froms'[i] = Froms[i]
  BY <1>1
<1>4. Made > 0 => Froms'[Made + 1] - Froms'[Made] \in {0, 1}
  <2>1. Made > 0 => Made \in 1..Made /\ Froms[Made] \in Int
    BY <1>1
  <2> QED BY <1>1, <2>1 DEF MadeInOrder
<1>5. \A i \in 1..(Made' - 1) : Froms'[i + 1] - Froms'[i] \in {0, 1}
  <2> SUFFICES ASSUME NEW i \in 1..Made PROVE Froms'[i + 1] - Froms'[i] \in {0, 1}
    BY <1>1
  <2>1. CASE i = Made
    BY <1>1, <1>4, <2>1
  <2>2. CASE i # Made
    <3>1. i \in 1..(Made - 1)
      BY <1>1, <2>2
    <3> QED BY <1>3, <3>1 DEF MadeInOrder
  <2> QED BY <2>1, <2>2
<1>6. Froms'[1] = 1
  <2>1. CASE Made = 0
    BY <1>1, <2>1 DEF MadeInOrder
  <2>2. CASE Made > 0
    <3>1. 1 \in 1..Made
      BY <1>1, <2>2
    <3> QED BY <2>2, <3>1 DEF MadeInOrder
  <2> QED BY <1>1, <2>1, <2>2
<1>7. Froms'[Made'] = Handled' \/ (copies' > 0 /\ Froms'[Made'] = Handled' + 1)
  BY <1>1, <1>2
<1>8. ASSUME path' \notin SprayPaths
      PROVE  Made' = Handled' /\ \A i \in 1..Made' : Froms'[i] = i
  <2>1. path \notin SprayPaths /\ copies = 0
    BY <1>8, NextCopyIs, TypeFacts DEF Progress, Sprays, SprayPaths
  <2>2. Made = Handled /\ \A i \in 1..Made : Froms[i] = i
    BY <2>1 DEF MadeInOrder
  <2>3. Handled' = Handled + 1
    BY <2>1, NextCopyIs
  <2>4. \A i \in 1..(Made + 1) : i \in 1..Made \/ i = Made + 1
    BY <1>1
  <2> QED BY <1>1, <2>2, <2>3, <2>4
<1>9. Made' # 0
  BY <1>1
<1> QED
  BY <1>5, <1>6, <1>7, <1>8, <1>9 DEF MadeInOrder

----------------------------------------------------------------------------
(* Laying an output out. *)

StatRecords == [received : Nat, forwarded : Nat, encrypted : Nat, route_misses : Nat]

LEMMA PushIs ==
  ASSUME TypeOK, NEW begin \in Nat, NEW end \in Nat, begin <= end, NEW encrypted \in BOOLEAN,
         NEW miss \in BOOLEAN, NEW from \in Nat, Push(begin, end, encrypted, miss, from)
  PROVE  /\ offsets' \in Seq(OffsetRecords) /\ Len(offsets') = Len(offsets) + 1
         /\ \A i \in 1..Len(offsets) : offsets'[i] = offsets[i]
         /\ offsets'[Len(offsets) + 1]
              = [start |-> begin, size |-> end - begin, encrypted |-> encrypted, from |-> from]
         /\ len' = end
<1> DEFINE e == [start |-> begin, size |-> end - begin, encrypted |-> encrypted, from |-> from]
<1>1. offsets \in Seq(OffsetRecords) /\ end - begin \in Nat
  BY TypeFacts
<1>2. e \in OffsetRecords
  BY <1>1 DEF OffsetRecords
<1>3. offsets' = Append(offsets, e) /\ len' = end
  BY DEF Push
<1> HIDE DEF e
<1>4. /\ offsets' \in Seq(OffsetRecords) /\ Len(offsets') = Len(offsets) + 1
      /\ \A i \in 1..Len(offsets) : offsets'[i] = offsets[i]
      /\ offsets'[Len(offsets) + 1] = e
  BY <1>1, <1>2, <1>3, AppendProperties
<1> QED
  BY <1>3, <1>4 DEF e

\* The new piece starts where the last one ended.
LEMMA PushTiles ==
  ASSUME TypeOK, OffsetsTile, NEW end \in Nat, Written \in Nat, Written <= end,
         NEW encrypted \in BOOLEAN, NEW miss \in BOOLEAN, NEW from \in Nat,
         Push(Written, end, encrypted, miss, from), pc' # "seal"
  PROVE  OffsetsTile'
<1> DEFINE n == Len(offsets)
<1>1. /\ n \in Nat /\ Len(offsets') = n + 1 /\ len' = end
      /\ \A i \in 1..n : offsets'[i] = offsets[i]
      /\ offsets'[n + 1].start = Written /\ offsets'[n + 1].size = end - Written
  <2>1. n \in Nat
    BY TypeFacts
  <2>2. /\ Len(offsets') = n + 1 /\ len' = end
        /\ \A i \in 1..n : offsets'[i] = offsets[i]
        /\ offsets'[n + 1]
             = [start |-> Written, size |-> end - Written, encrypted |-> encrypted, from |-> from]
    BY PushIs
  <2> HIDE DEF n
  <2> QED BY <2>1, <2>2
<1>2. /\ n > 0 => offsets[1].start = 0
      /\ \A i \in 1..(n - 1) : offsets[i + 1].start = offsets[i].start + offsets[i].size
      /\ Written = IF n = 0 THEN 0 ELSE offsets[n].start + offsets[n].size
  BY DEF OffsetsTile, Written
<1> HIDE DEF n
<1>3. offsets'[1].start = 0
  <2>1. CASE n = 0
    BY <1>1, <1>2, <2>1
  <2>2. CASE n > 0
    <3>1. 1 \in 1..n
      BY <1>1, <2>2
    <3> QED BY <1>1, <1>2, <2>2, <3>1
  <2> QED BY <1>1, <2>1, <2>2
<1>4. ASSUME NEW i \in 1..n
      PROVE  offsets'[i + 1].start = offsets'[i].start + offsets'[i].size
  <2>1. CASE i = n
    <3>1. offsets'[i] = offsets[n] /\ offsets'[i + 1].start = Written /\ n # 0
      BY <1>1, <2>1
    <3> QED BY <1>2, <3>1
  <2>2. CASE i # n
    <3>1. i \in 1..(n - 1) /\ i + 1 \in 1..n
      BY <1>1, <2>2
    <3>2. offsets'[i + 1] = offsets[i + 1] /\ offsets'[i] = offsets[i]
      BY <1>1, <3>1
    <3> QED BY <1>2, <3>1, <3>2
  <2> QED BY <2>1, <2>2
<1>5. len' = offsets'[n + 1].start + offsets'[n + 1].size
  BY <1>1
<1>6. (n + 1) - 1 = n /\ n + 1 # 0
  BY <1>1
<1> QED
  BY <1>1, <1>3, <1>4, <1>5, <1>6 DEF OffsetsTile

\* It is counted once, and a miss among the forwarded.
LEMMA PushCounts ==
  ASSUME TypeOK, Accounted, NEW begin \in Nat, NEW end \in Nat, begin <= end,
         NEW encrypted \in BOOLEAN, NEW miss \in BOOLEAN, ~(encrypted /\ miss),
         NEW from \in Nat, Push(begin, end, encrypted, miss, from)
  PROVE  Accounted' /\ stats' \in StatRecords
<1>1. /\ stats \in StatRecords /\ Len(offsets) \in Nat /\ Len(offsets') = Len(offsets) + 1
      /\ stats.forwarded \in Nat /\ stats.encrypted \in Nat /\ stats.route_misses \in Nat
  <2>1. Len(offsets) \in Nat /\ Len(offsets') = Len(offsets) + 1
    BY TypeFacts, PushIs
  <2>2. stats \in StatRecords
    BY DEF TypeOK, StatRecords
  <2> QED BY <2>1, <2>2 DEF StatRecords
<1>2. stats' = [stats EXCEPT !.forwarded = @ + (IF encrypted THEN 0 ELSE 1),
                             !.encrypted = @ + (IF encrypted THEN 1 ELSE 0),
                             !.route_misses = @ + (IF miss THEN 1 ELSE 0)]
  BY DEF Push
<1>3. /\ stats'.forwarded = stats.forwarded + (IF encrypted THEN 0 ELSE 1)
      /\ stats'.encrypted = stats.encrypted + (IF encrypted THEN 1 ELSE 0)
      /\ stats'.route_misses = stats.route_misses + (IF miss THEN 1 ELSE 0)
      /\ stats'.received = stats.received
  BY <1>1, <1>2 DEF StatRecords
<1>4. stats' \in StatRecords
  <2>1. stats.received \in Nat
    BY <1>1 DEF StatRecords
  <2>2. /\ stats'.forwarded \in Nat /\ stats'.encrypted \in Nat
        /\ stats'.route_misses \in Nat /\ stats'.received \in Nat
    BY <1>1, <1>3, <2>1
  <2>3. stats' = [received |-> stats'.received, forwarded |-> stats'.forwarded,
                  encrypted |-> stats'.encrypted, route_misses |-> stats'.route_misses]
    BY <1>1, <1>2 DEF StatRecords
  <2> QED BY <2>2, <2>3 DEF StatRecords
<1>5. stats'.forwarded + stats'.encrypted = Len(offsets')
  BY <1>1, <1>3 DEF Accounted
<1>6. stats'.route_misses <= stats'.forwarded
  BY <1>1, <1>3 DEF Accounted
<1> QED
  BY <1>4, <1>5, <1>6 DEF Accounted

\* It is whole if its frame allows it.
LEMMA PushWhole ==
  ASSUME TypeOK, \A i \in 1..Len(offsets) : Whole(offsets[i], frames, session),
         NEW begin \in Nat, NEW end \in Nat, begin <= end,
         NEW encrypted \in BOOLEAN, NEW miss \in BOOLEAN,
         NEW from \in Nat, Push(begin, end, encrypted, miss, from),
         Whole([from |-> from, encrypted |-> encrypted, size |-> end - begin], frames, session)
  PROVE  \A i \in 1..Len(offsets') : Whole(offsets'[i], frames, session)
<1> SUFFICES ASSUME NEW i \in 1..Len(offsets') PROVE Whole(offsets'[i], frames, session)
  OBVIOUS
<1> DEFINE e == [start |-> begin, size |-> end - begin, encrypted |-> encrypted, from |-> from]
           w == [from |-> from, encrypted |-> encrypted, size |-> end - begin]
<1>1. /\ Len(offsets) \in Nat /\ Len(offsets') = Len(offsets) + 1
      /\ \A j \in 1..Len(offsets) : offsets'[j] = offsets[j]
      /\ offsets'[Len(offsets) + 1] = e
  BY TypeFacts, PushIs
<1>2. CASE i \in 1..Len(offsets)
  BY <1>1, <1>2
<1>3. CASE i = Len(offsets) + 1
  <2>1. /\ e.from = w.from /\ e.size = w.size /\ e.encrypted = w.encrypted
        /\ Whole(w, frames, session) /\ offsets'[i] = e
    BY <1>1, <1>3
  <2> HIDE DEF e, w
  <2> QED BY <2>1 DEF Whole
<1> QED
  BY <1>1, <1>2, <1>3

\* On the paths that write directly, one piece more is one output more.
LEMMA PushFroms ==
  ASSUME TypeOK, NEW begin \in Nat, NEW end \in Nat, begin <= end,
         NEW encrypted \in BOOLEAN, NEW miss \in BOOLEAN,
         NEW from \in Nat, Push(begin, end, encrypted, miss, from),
         path \notin OwnedPaths, path' = path
  PROVE  /\ Made' = Made + 1 /\ Froms'[Made + 1] = from
         /\ \A i \in 1..Made : Froms'[i] = Froms[i]
<1>1. /\ Len(offsets) \in Nat /\ Len(offsets') = Len(offsets) + 1
      /\ \A i \in 1..Len(offsets) : offsets'[i] = offsets[i]
      /\ offsets'[Len(offsets) + 1].from = from
  <2>1. Len(offsets) \in Nat
    BY TypeFacts
  <2>2. /\ Len(offsets') = Len(offsets) + 1
        /\ \A i \in 1..Len(offsets) : offsets'[i] = offsets[i]
        /\ offsets'[Len(offsets) + 1]
             = [start |-> begin, size |-> end - begin, encrypted |-> encrypted, from |-> from]
    BY PushIs
  <2>3. offsets'[Len(offsets) + 1].from = from
    BY <2>2
  <2> QED BY <2>1, <2>2, <2>3
<1>2. Made = Len(offsets) /\ Made' = Len(offsets) + 1
  BY <1>1 DEF Made
<1>3. \A i \in 1..(Len(offsets) + 1) : Froms'[i] = offsets'[i].from
  BY <1>1, <1>2 DEF Froms
<1>4. \A i \in 1..Len(offsets) : Froms[i] = offsets[i].from
  BY <1>1, <1>2 DEF Froms
<1>5. Len(offsets) + 1 \in 1..(Len(offsets) + 1) /\ \A i \in 1..Len(offsets) : i \in 1..(Len(offsets) + 1)
  BY <1>1
<1> QED
  BY <1>1, <1>2, <1>3, <1>4, <1>5

----------------------------------------------------------------------------
(* The room frames need. *)

LEMMA NeedIs ==
  ASSUME NEW s \in Seq(FrameRecords)
  PROVE  /\ Bytes(s) \in Nat /\ Need(s) \in Nat
         /\ s # <<>> => Tail(s) \in Seq(FrameRecords)
                        /\ Need(s) = Need(Tail(s)) + (Head(s).size + TagSize)
<1>1. Len(s) \in Nat /\ \A i \in 1..Len(s) : s[i].size \in Nat
  <2>1. Len(s) \in Nat /\ \A i \in 1..Len(s) : s[i] \in FrameRecords
    BY LenProperties, ElementOfSeq
  <2> QED BY <2>1 DEF FrameRecords
<1>2. Bytes(s) \in Nat
  BY <1>1, BytesNat
<1>3. Need(s) \in Nat
  BY <1>1, <1>2, Sizes DEF Need
<1>4. ASSUME s # <<>>
      PROVE  /\ Tail(s) \in Seq(FrameRecords)
             /\ Need(s) = Need(Tail(s)) + (Head(s).size + TagSize)
  <2>1. /\ Head(s) \in FrameRecords /\ Tail(s) \in Seq(FrameRecords)
        /\ Len(Tail(s)) = Len(s) - 1 /\ Len(s) - 1 \in Nat
    BY <1>1, <1>4, HeadTailProperties, EmptySeq
  <2>2. \A i \in 1..Len(Tail(s)) : Tail(s)[i].size \in Nat
    <3>1. \A i \in 1..Len(Tail(s)) : Tail(s)[i] \in FrameRecords
      BY <2>1, ElementOfSeq
    <3> QED BY <3>1 DEF FrameRecords
  <2>3. Bytes(Tail(s)) \in Nat /\ Head(s).size \in Nat
    BY <2>1, <2>2, BytesNat DEF FrameRecords
  <2>4. Bytes(s) = Head(s).size + Bytes(Tail(s))
    BY <1>1, <1>4, BytesHeadTail
  <2>5. \A a, n \in Nat : n * a \in Nat /\ (n + 1) * a = n * a + a
    OBVIOUS
  <2> DEFINE k == Len(Tail(s))
  <2>6. k \in Nat /\ Len(s) = k + 1 /\ TagSize \in Nat
    BY <1>1, <2>1, Sizes
  <2> HIDE DEF k
  <2>7. (k + 1) * TagSize = k * TagSize + TagSize /\ k * TagSize \in Nat
    BY <2>5, <2>6
  <2>8. Need(s) = Bytes(s) + (k + 1) * TagSize /\ Need(Tail(s)) = Bytes(Tail(s)) + k * TagSize
    BY <2>6 DEF Need, k
  <2>9. Need(s) = Need(Tail(s)) + (Head(s).size + TagSize)
    BY <2>3, <2>4, <2>6, <2>7, <2>8
  <2> QED BY <2>1, <2>9
<1> QED
  BY <1>2, <1>3, <1>4

\* The sizes of outputs add up as those of frames do.
LEMMA OutputBytes ==
  ASSUME NEW s \in Seq(OutputRecords)
  PROVE  /\ Bytes(s) \in Nat
         /\ s # <<>> => Head(s) \in OutputRecords /\ Tail(s) \in Seq(OutputRecords)
                        /\ Bytes(s) = Head(s).size + Bytes(Tail(s))
<1>1. Len(s) \in Nat /\ \A i \in 1..Len(s) : s[i].size \in Nat
  <2>1. Len(s) \in Nat /\ \A i \in 1..Len(s) : s[i] \in OutputRecords
    BY LenProperties, ElementOfSeq
  <2> QED BY <2>1 DEF OutputRecords
<1> QED
  BY <1>1, BytesNat, BytesHeadTail, HeadTailProperties

\* AlignedBuffer::reserve makes room and never shrinks.
LEMMA ReserveIs ==
  ASSUME RoundsUp, cap \in Nat, NEW l \in Nat, NEW additional \in Nat
  PROVE  /\ Reserve(l, additional) \in Nat
         /\ Reserve(l, additional) >= l + additional /\ Reserve(l, additional) >= cap
<1> DEFINE n == l + additional
           r == NextPowerOfTwo(n)
<1>1. n \in Nat
  OBVIOUS
<1>2. r \in Nat /\ r >= n
  BY <1>1 DEF RoundsUp
<1>3. CASE n <= cap
  BY <1>1, <1>3 DEF Reserve
<1>4. CASE ~(n <= cap)
  <2>1. Reserve(l, additional) = Larger(r, 2 * cap)
    BY <1>4 DEF Reserve
  <2> HIDE DEF n, r
  <2>2. Larger(r, 2 * cap) \in Nat /\ Larger(r, 2 * cap) >= n /\ Larger(r, 2 * cap) >= cap
    BY <1>1, <1>2, <1>4 DEF Larger
  <2> QED BY <2>1, <2>2 DEF n
<1> QED
  BY <1>3, <1>4

\* Products by the multiplier, for the arithmetic of Owed.
LEMMA TimesMultiplier ==
  ASSUME NEW a \in Nat, NEW w \in Nat, NEW m \in Nat \ {0}, NEW k \in Nat
  PROVE  /\ a * m \in Nat /\ k * w \in Nat
         /\ (a + w) * m = a * m + w * m
         /\ a * m >= a
         /\ k <= m => k * w <= w * m
         /\ k > 0 => (k - 1) * w \in Nat /\ k * w = (k - 1) * w + w
<1>1. a * m \in Nat /\ k * w \in Nat /\ (a + w) * m = a * m + w * m
  OBVIOUS
<1>2. a * m >= a
  <2>1. a * m = a + a * (m - 1) /\ a * (m - 1) \in Nat
    OBVIOUS
  <2> QED BY <2>1
<1>3. ASSUME k <= m PROVE k * w <= w * m
  <2>1. PICK d \in Nat : m = k + d
    <3>1. m - k \in Nat /\ m = k + (m - k)
      BY <1>3
    <3> QED BY <3>1
  <2>2. w * m = k * w + d * w /\ d * w \in Nat
    BY <2>1
  <2> QED BY <1>1, <2>2
<1>4. ASSUME k > 0 PROVE (k - 1) * w \in Nat /\ k * w = (k - 1) * w + w
  BY <1>4
<1> QED
  BY <1>1, <1>2, <1>3, <1>4

\* A step that takes n bytes and leaves b owed stays within c.
LEMMA StillFits ==
  ASSUME NEW l \in Nat, NEW c \in Nat, NEW a \in Nat, NEW b \in Nat, NEW n \in Nat,
         b + n <= a, l + a <= c
  PROVE  l + n <= c /\ (l + n) + b <= c
  OBVIOUS

LEMMA OwedNat ==
  ASSUME TypeOK, Progress
  PROVE  Owed \in Nat
<1>1. Need(todo) \in Nat /\ todo \in Seq(FrameRecords) /\ copies \in Nat
  BY TypeFacts, NeedIs
<1>2. CASE path # "full" \/ copies = 0
  <2>1. Need(todo) * Multiplier \in Nat
    BY <1>1, Sizes
  <2> QED BY <1>1, <1>2, <2>1 DEF Owed
<1>3. CASE path = "full" /\ copies # 0
  <2>1. todo # <<>>
    BY <1>1, <1>3 DEF Progress
  <2>2. Need(Tail(todo)) \in Nat /\ Head(todo).size \in Nat
    BY <2>1, HeadIs, NeedIs DEF FrameRecords
  <2>3. /\ Need(Tail(todo)) * Multiplier \in Nat
        /\ copies * (Head(todo).size + TagSize) \in Nat
    <3> DEFINE w == Head(todo).size + TagSize
    <3>1. w \in Nat
      BY <2>2, Sizes
    <3> HIDE DEF w
    <3>2. Need(Tail(todo)) * Multiplier \in Nat /\ copies * w \in Nat
      BY <1>1, <2>2, <3>1, Sizes
    <3> QED BY <3>2 DEF w
  <2>4. Owed = Need(Tail(todo)) * Multiplier + copies * (Head(todo).size + TagSize)
    BY <1>3 DEF Owed
  <2> HIDE DEF Owed
  <2> QED BY <2>3, <2>4
<1> QED
  BY <1>2, <1>3

\* The room still owed covers the frame at hand.
LEMMA OwedCovers ==
  ASSUME TypeOK, Progress, todo # <<>>
  PROVE  Head(todo).size + TagSize <= Owed
<1> DEFINE w == Head(todo).size + TagSize
           a == Need(Tail(todo))
<1>1. todo \in Seq(FrameRecords) /\ copies \in Nat /\ Multiplier \in Nat \ {0}
  BY TypeFacts, Sizes
<1>2. w \in Nat /\ a \in Nat /\ Need(todo) = a + w
  <2>1. Head(todo).size \in Nat /\ Tail(todo) \in Seq(FrameRecords)
    BY <1>1, HeadIs DEF FrameRecords
  <2>2. Need(Tail(todo)) \in Nat /\ Need(todo) = Need(Tail(todo)) + (Head(todo).size + TagSize)
    BY <1>1, <2>1, NeedIs
  <2> QED BY <2>1, <2>2, Sizes
<1>3. CASE path # "full"
  <2>1. Owed = a + w
    BY <1>2, <1>3 DEF Owed
  <2> HIDE DEF a, w
  <2>2. w <= Owed
    BY <1>2, <2>1
  <2> QED BY <2>2 DEF w
<1>4. CASE path = "full" /\ copies = 0
  <2>1. Owed = (a + w) * Multiplier
    BY <1>2, <1>4 DEF Owed
  <2> HIDE DEF a, w
  <2>2. a + w \in Nat /\ (a + w) * Multiplier >= a + w
    BY <1>1, <1>2, TimesMultiplier
  <2>3. w <= Owed
    BY <1>2, <2>1, <2>2
  <2> QED BY <2>3 DEF w
<1>5. CASE path = "full" /\ copies # 0
  <2>1. Owed = a * Multiplier + copies * w
    BY <1>5 DEF Owed
  <2> HIDE DEF a, w
  <2>2. /\ a * Multiplier \in Nat /\ (copies - 1) * w \in Nat
        /\ copies * w = (copies - 1) * w + w
    BY <1>1, <1>2, <1>5, TimesMultiplier
  <2>3. w <= Owed
    BY <1>2, <2>1, <2>2
  <2> QED BY <2>3 DEF w
<1> QED
  BY <1>3, <1>4, <1>5

\* Every frame or copy the loops write uses up at least the room of its outcome.
LEMMA OwedStep ==
  ASSUME TypeOK, Progress, Ready, NextCopy
  PROVE  Owed' \in Nat /\ Owed' + (Head(todo).size + TagSize) <= Owed
<1> DEFINE w == Head(todo).size + TagSize
           a == Need(Tail(todo))
<1>1. todo # <<>> /\ todo \in Seq(FrameRecords) /\ copies \in Nat /\ path' = path
  BY NextCopyIs, TypeFacts DEF Ready
<1>2. w \in Nat /\ a \in Nat /\ Need(todo) = a + w
  <2>1. Head(todo).size \in Nat /\ Tail(todo) \in Seq(FrameRecords)
    BY <1>1, HeadIs DEF FrameRecords
  <2>2. Need(Tail(todo)) \in Nat /\ Need(todo) = Need(Tail(todo)) + (Head(todo).size + TagSize)
    BY <1>1, <2>1, NeedIs
  <2> QED BY <2>1, <2>2, Sizes
<1>3. /\ copies > 1 => copies' = copies - 1 /\ todo' = todo
      /\ ~(copies > 1) => copies \in {0, 1} /\ copies' = 0 /\ todo' = Tail(todo)
  BY <1>1, NextCopyIs
<1>4. Multiplier \in Nat \ {0}
  BY Sizes
<1>5. /\ a * Multiplier \in Nat /\ copies * w \in Nat /\ w * Multiplier >= w /\ w * Multiplier \in Nat
      /\ (a + w) * Multiplier = a * Multiplier + w * Multiplier
      /\ copies > 0 => (copies - 1) * w \in Nat /\ copies * w = (copies - 1) * w + w
  <2> HIDE DEF a, w
  <2> QED BY <1>1, <1>2, <1>4, TimesMultiplier
<1>6. CASE path # "full" /\ copies > 1
  <2>1. FALSE
    BY <1>1, <1>6 DEF Progress, Sprays
  <2> QED BY <2>1
<1>7. CASE path # "full" /\ ~(copies > 1)
  <2>1. Owed = Need(todo) /\ Owed' = Need(Tail(todo))
    BY <1>1, <1>3, <1>7 DEF Owed
  <2> QED BY <1>2, <2>1
<1>8. CASE path = "full" /\ copies > 1
  <2>1. Owed = a * Multiplier + copies * w
    BY <1>1, <1>8 DEF Owed
  <2>2. Owed' = a * Multiplier + (copies - 1) * w
    BY <1>1, <1>3, <1>8 DEF Owed
  <2> HIDE DEF a, w
  <2>3. Owed' \in Nat /\ Owed' + w <= Owed
    BY <1>1, <1>2, <1>5, <1>8, <2>1, <2>2
  <2> QED BY <2>3 DEF w
<1>9. CASE path = "full" /\ copies = 1
  <2>1. Owed = a * Multiplier + copies * w
    BY <1>1, <1>9 DEF Owed
  <2>2. Owed' = a * Multiplier
    <3>1. todo' = Tail(todo) /\ copies' = 0 /\ path' = "full"
      BY <1>1, <1>3, <1>9
    <3>2. Owed' = Need(todo') * Multiplier
      BY <3>1 DEF Owed
    <3> QED BY <3>1, <3>2
  <2> HIDE DEF a, w
  <2>3. Owed' \in Nat /\ Owed' + w <= Owed
    BY <1>2, <1>5, <1>9, <2>1, <2>2
  <2> QED BY <2>3 DEF w
<1>10. CASE path = "full" /\ copies = 0
  <2>1. Owed = (a + w) * Multiplier
    BY <1>2, <1>10 DEF Owed
  <2>2. Owed' = a * Multiplier
    <3>1. todo' = Tail(todo) /\ copies' = 0 /\ path' = "full"
      BY <1>1, <1>3, <1>10
    <3>2. Owed' = Need(todo') * Multiplier
      BY <3>1 DEF Owed
    <3> QED BY <3>1, <3>2
  <2> HIDE DEF a, w
  <2>3. Owed' \in Nat /\ Owed' + w <= Owed
    BY <1>2, <1>5, <1>10, <2>1, <2>2
  <2> QED BY <2>3 DEF w
<1> QED
  BY <1>1, <1>6, <1>7, <1>8, <1>9, <1>10

\* Room for one copy of a frame is kept for as many as the reserve allows.
LEMMA OwedLookup ==
  ASSUME TypeOK, Progress, ReserveAllows, NEW n \in 0..MaxChannels, LookupChannels(n)
  PROVE  Owed' \in Nat /\ Owed' <= Owed
<1> DEFINE w == Head(todo).size + TagSize
           a == Need(Tail(todo))
           c == Larger(n, 1)
<1>1. todo # <<>> /\ todo \in Seq(FrameRecords) /\ copies = 0 /\ copies' = c /\ todo' = todo /\ path' = path
  BY TypeFacts DEF LookupChannels
<1>2. w \in Nat /\ a \in Nat /\ Need(todo) = a + w
  <2>1. Head(todo).size \in Nat /\ Tail(todo) \in Seq(FrameRecords)
    BY <1>1, HeadIs DEF FrameRecords
  <2>2. Need(Tail(todo)) \in Nat /\ Need(todo) = Need(Tail(todo)) + (Head(todo).size + TagSize)
    BY <1>1, <2>1, NeedIs
  <2> QED BY <2>1, <2>2, Sizes
<1>3. Multiplier \in Nat \ {0} /\ c \in Nat /\ c # 0 /\ c <= MaxChannels /\ MaxChannels \in Nat
  BY Sizes DEF Larger
<1>4. CASE path # "full"
  <2>1. Owed' = Need(todo) /\ Owed = Need(todo)
    BY <1>1, <1>4 DEF Owed
  <2> QED BY <1>2, <2>1
<1>5. CASE path = "full"
  <2>1. c <= Multiplier
    BY <1>3, <1>5 DEF ReserveAllows
  <2>2. Owed = (a + w) * Multiplier
    BY <1>1, <1>2, <1>5 DEF Owed
  <2>3. Owed' = a * Multiplier + c * w
    BY <1>1, <1>3, <1>5 DEF Owed
  <2> HIDE DEF a, w, c
  <2>4. /\ a * Multiplier \in Nat /\ c * w \in Nat /\ c * w <= w * Multiplier
        /\ (a + w) * Multiplier = a * Multiplier + w * Multiplier
    BY <1>2, <1>3, <2>1, TimesMultiplier
  <2>5. w * Multiplier \in Nat
    BY <1>2, <1>3
  <2> QED BY <2>2, <2>3, <2>4, <2>5
<1> QED
  BY <1>4, <1>5

----------------------------------------------------------------------------
(* Each action preserves the invariant. *)

\* Where the outputs come from changes only with the items, or with the pieces.
LEMMA FromsKept ==
  ASSUME path' = path,
         path \in OwnedPaths => duplicated' = duplicated,
         path \notin OwnedPaths => offsets' = offsets
  PROVE  Made' = Made /\ Froms' = Froms
<1>1. CASE path \in OwnedPaths
  BY <1>1 DEF Made, Froms
<1>2. CASE path \notin OwnedPaths
  BY <1>2 DEF Made, Froms
<1> QED
  BY <1>1, <1>2

\* The conjuncts that a step leaves alone when it touches no output.
LEMMA OutputsKept ==
  ASSUME OffsetsTile, Accounted, Mapped, MadeWhole, Written' = Written,
         pc = "expand" => pc' = "expand",
         UNCHANGED <<session, frames, path, duplicated, pending, outputs, offsets, stats>>
  PROVE  OffsetsTile' /\ Accounted' /\ Mapped' /\ MadeWhole' /\ Made' = Made /\ Froms' = Froms
<1>1. OffsetsTile' /\ Accounted'
  BY DEF OffsetsTile, Accounted, Written
<1>2. Mapped' /\ MadeWhole'
  BY DEF Mapped, MadeWhole
<1>3. Made' = Made /\ Froms' = Froms
  BY FromsKept
<1> QED
  BY <1>1, <1>2, <1>3

\* A batch begins.
LEMMA BeginStep ==
  ASSUME RoundsUp, ForwarderInv, pc = "idle", NEW p \in Paths,
         NEW batch \in Seq(FrameRecords), batch # <<>>, Begin(p, batch)
  PROVE  ForwarderInv'
<1> DEFINE n == Len(batch)
<1>1. TypeOK /\ Progress
  BY DEF ForwarderInv
<1>2. todo = <<>> /\ copies = 0
  BY <1>1, TypeFacts DEF Progress
<1>3. /\ path' = p /\ frames' = batch /\ len' = 0 /\ offsets' = <<>>
      /\ todo' = (IF p = "owned" THEN <<>> ELSE batch)
      /\ pc' = (IF p = "owned" THEN "map" ELSE IF p = "full_owned" THEN "expand" ELSE "loop")
      /\ duplicated' = (IF p = "owned" THEN [i \in 1..n |-> i] ELSE <<>>)
      /\ pending' = (IF p = "owned" THEN 1..n ELSE {})
      /\ outputs' = (IF p = "owned" THEN [i \in 1..n |-> NoOutput] ELSE <<>>)
      /\ cap' = (IF p = "owned" THEN cap ELSE Reserve(0, Needed(p, batch)))
      /\ stats' = [NoStats EXCEPT !.received = n]
      /\ mcr' = mcr /\ session' = session /\ pool' = pool /\ copies' = 0 /\ start' = start
  BY <1>2 DEF Begin, config
<1>4. n \in Nat /\ n > 0 /\ Need(batch) \in Nat /\ cap \in Nat
  BY <1>1, EmptySeq, LenProperties, NeedIs DEF TypeOK
<1>5. /\ Needed(p, batch) \in Nat
      /\ p # "full" => Needed(p, batch) >= Need(batch)
      /\ p = "full" => Needed(p, batch) = Need(batch) * Multiplier
  <2>1. Needed(p, batch) = Need(batch) * (IF p \in {"full", "full_owned"} THEN Multiplier ELSE 1)
    BY DEF Needed, Need
  <2>2. Need(batch) * Multiplier \in Nat /\ Need(batch) * Multiplier >= Need(batch)
    BY <1>4, Sizes, TimesMultiplier
  <2>3. Need(batch) * 1 = Need(batch)
    BY <1>4
  <2> QED BY <1>4, <2>1, <2>2, <2>3
<1>6. cap' \in Nat /\ (p # "owned" => cap' >= Needed(p, batch))
  <2>1. /\ Reserve(0, Needed(p, batch)) \in Nat
        /\ Reserve(0, Needed(p, batch)) >= 0 + Needed(p, batch)
    BY <1>4, <1>5, ReserveIs
  <2> QED BY <1>3, <1>4, <1>5, <2>1
<1>7. stats' \in StatRecords /\ stats'.forwarded = 0 /\ stats'.encrypted = 0 /\ stats'.route_misses = 0
  BY <1>3, <1>4 DEF NoStats, StatRecords
<1> HIDE DEF n
\* The items and results of the parallel map.
<1>8. /\ duplicated' \in Seq(Nat \ {0}) /\ outputs' \in Seq(OutputRecords)
      /\ pending' \subseteq DOMAIN duplicated'
      /\ p = "owned" => /\ Len(duplicated') = n /\ Len(outputs') = n
                        /\ \A i \in 1..n : duplicated'[i] = i
      /\ p # "owned" => Len(duplicated') = 0 /\ Len(outputs') = 0
  <2>1. CASE p = "owned"
    <3>1. duplicated' \in [1..n -> Nat \ {0}] /\ pending' = 1..n /\ \A i \in 1..n : duplicated'[i] = i
      BY <1>3, <1>4, <2>1
    <3>2. NoOutput \in OutputRecords
      BY DEF NoOutput, OutputRecords
    <3>3. outputs' \in [1..n -> OutputRecords]
      BY <1>3, <2>1, <3>2
    <3>4. duplicated' \in Seq(Nat \ {0}) /\ outputs' \in Seq(OutputRecords)
      BY <1>4, <3>1, <3>3, SeqDef
    <3>5. DOMAIN duplicated' = 1..n /\ DOMAIN outputs' = 1..n
      BY <3>1, <3>3
    <3>6. Len(duplicated') = n /\ Len(outputs') = n
      BY <1>4, <3>4, <3>5, LenProperties
    <3> QED BY <2>1, <3>1, <3>4, <3>5, <3>6
  <2>2. CASE p # "owned"
    <3>1. duplicated' = <<>> /\ outputs' = <<>> /\ pending' = {}
      BY <1>3, <2>2
    <3> QED BY <2>2, <3>1
  <2> QED BY <2>1, <2>2
<1>9. todo' \in Seq(FrameRecords) /\ Len(frames') = n
  <2>1. <<>> \in Seq(FrameRecords)
    OBVIOUS
  <2> QED BY <1>3, <2>1 DEF n
<1>10. TypeOK'
  <2>1. <<>> \in Seq(OffsetRecords) /\ 0 \in 0..MaxChannels
    BY Sizes
  <2>2. pc' \in {"idle", "loop", "seal", "expand", "map", "append"} /\ path' \in Paths
    BY <1>3
  <2>3. mcr' \in {"off", "primary", "full"} /\ session' \in BOOLEAN /\ pool' \in BOOLEAN /\ start' \in Nat
    BY <1>1, <1>3 DEF TypeOK
  <2> QED BY <1>3, <1>6, <1>7, <1>8, <1>9, <2>1, <2>2, <2>3
          DEF TypeOK, FrameRecords, OutputRecords, OffsetRecords, StatRecords
<1>11. Handled' = IF p = "owned" THEN n ELSE 0
  <2>1. CASE p = "owned"
    <3>1. Len(todo') = 0
      BY <1>3, <2>1
    <3> QED BY <1>4, <1>9, <2>1, <3>1 DEF Handled
  <2>2. CASE p # "owned"
    <3>1. Len(todo') = n
      BY <1>3, <2>2 DEF n
    <3> QED BY <1>4, <1>9, <2>2, <3>1 DEF Handled
  <2> QED BY <2>1, <2>2
<1>12. Progress'
  <2>1. ASSUME NEW i \in 1..Len(todo') PROVE todo'[i] = frames'[Handled' + i]
    <3>1. CASE p = "owned"
      <4>1. Len(todo') = 0
        BY <1>3, <3>1
      <4> QED BY <4>1
    <3>2. CASE p # "owned"
      <4>1. Handled' + i = i
        BY <1>11, <3>2
      <4> QED BY <1>3, <3>2, <4>1
    <3> QED BY <3>1, <3>2
  <2>2. ~(copies' > 0) /\ Handled' >= 0 /\ Len(frames') > 0 /\ offsets' = <<>> /\ len' = 0
    BY <1>3, <1>4, <1>9, <1>11
  <2>3. /\ pc' \in {"idle", "map", "append"} => todo' = <<>>
        /\ pc' \notin {"map", "append"} => outputs' = <<>>
        /\ pc' # "map" => pending' = {}
    BY <1>3
  <2>4. /\ pc' \in {"map", "append"} => path' \in OwnedPaths
        /\ pc' = "expand" => path' = "full_owned"
        /\ pc' \in {"loop", "seal"} => path' \notin OwnedPaths
    BY <1>3 DEF OwnedPaths
  <2> QED BY <2>1, <2>2, <2>3, <2>4 DEF Progress
<1>13. Len(offsets') = 0 /\ pc' # "seal"
  BY <1>3
<1>14. OffsetsTile' /\ Accounted' /\ Drafted'
  BY <1>3, <1>7, <1>13 DEF OffsetsTile, Accounted, Drafted
<1>15. CASE p = "owned"
  <2>1. Made' = n /\ \A i \in 1..n : Froms'[i] = i
    BY <1>3, <1>8, <1>15 DEF Made, Froms, OwnedPaths
  <2>2. MadeInOrder'
    <3>1. \A i \in 1..(n - 1) : Froms'[i + 1] - Froms'[i] \in {0, 1}
      BY <1>4, <2>1
    <3>2. n > 0 => Froms'[1] = 1 /\ Froms'[n] = n
      BY <1>4, <2>1
    <3>3. Handled' = n
      BY <1>11, <1>15
    <3> QED BY <1>4, <2>1, <3>1, <3>2, <3>3 DEF MadeInOrder
  <2>3. Mapped'
    <3>1. \A i \in 1..n : i \in pending'
      BY <1>3, <1>15
    <3> QED BY <1>4, <1>8, <1>9, <1>13, <1>15, <3>1 DEF Mapped
  <2>4. MadeWhole'
    <3>1. \A i \in 1..Len(outputs') : i \in pending'
      BY <1>3, <1>8, <1>15
    <3> QED BY <1>13, <3>1 DEF MadeWhole
  <2>5. RoomLeft'
    BY <1>3, <1>6, <1>15 DEF RoomLeft
  <2> QED BY <1>10, <1>12, <1>14, <2>2, <2>3, <2>4, <2>5 DEF ForwarderInv
<1>16. CASE p # "owned"
  <2>1. Made' = 0 /\ Handled' = 0
    BY <1>3, <1>8, <1>11, <1>13, <1>16 DEF Made
  <2>2. MadeInOrder'
    BY <2>1 DEF MadeInOrder
  <2>3. Mapped' /\ MadeWhole'
    BY <1>8, <1>13, <1>16 DEF Mapped, MadeWhole
  <2>4. RoomLeft'
    <3>1. ASSUME pc' \in {"loop", "seal"} PROVE Written' + Owed' <= cap'
      <4>1. p \notin OwnedPaths /\ Written' = 0 /\ todo' = batch /\ copies' = 0 /\ path' = p
        BY <1>3, <1>16, <3>1 DEF Written, OwnedPaths
      <4>2. CASE p = "full"
        <5>1. Owed' = Need(batch) * Multiplier
          BY <4>1, <4>2 DEF Owed
        <5> QED BY <1>5, <1>6, <4>1, <4>2, <5>1
      <4>3. CASE p # "full"
        <5>1. Owed' = Need(batch)
          BY <4>1, <4>3 DEF Owed
        <5> QED BY <1>4, <1>5, <1>6, <1>16, <4>1, <4>3, <5>1
      <4> QED BY <4>2, <4>3
    <3>2. pc' # "append" /\ len' <= cap'
      BY <1>3, <1>6
    <3> QED BY <3>1, <3>2 DEF RoomLeft
  <2> QED BY <1>10, <1>12, <1>14, <2>2, <2>3, <2>4 DEF ForwarderInv
<1> QED
  BY <1>15, <1>16

LEMMA LookupStep ==
  ASSUME ForwarderInv, NEW n \in 0..MaxChannels, LookupChannels(n)
  PROVE  ForwarderInv'
<1>1. /\ TypeOK /\ Progress /\ Drafted /\ OffsetsTile /\ Accounted
      /\ MadeInOrder /\ Mapped /\ MadeWhole /\ RoomLeft
  BY DEF ForwarderInv
<1>2. /\ pc = "loop" /\ todo # <<>> /\ Sprays /\ copies = 0 /\ copies' = Larger(n, 1)
      /\ mcr' = mcr /\ session' = session /\ pool' = pool /\ pc' = pc /\ path' = path
      /\ todo' = todo /\ start' = start /\ duplicated' = duplicated /\ pending' = pending
      /\ outputs' = outputs /\ cap' = cap /\ len' = len /\ offsets' = offsets
      /\ stats' = stats /\ frames' = frames
  BY DEF LookupChannels, config, work, arena
<1>3. copies' \in 0..MaxChannels /\ copies' > 0
  BY <1>2, Sizes DEF Larger
<1>4. TypeOK'
  BY <1>1, <1>2, <1>3 DEF TypeOK
<1>5. Handled' = Handled /\ Sprays' /\ Handled \in Int /\ Written' = Written
  BY <1>1, <1>2, TypeFacts DEF Handled, Sprays, Written
<1>6. Progress' /\ Drafted'
  BY <1>1, <1>2, <1>5 DEF Progress, Drafted
<1>7. OffsetsTile' /\ Accounted' /\ Mapped' /\ MadeWhole' /\ Made' = Made /\ Froms' = Froms
  BY <1>1, <1>2, <1>5, OutputsKept
<1>8. MadeInOrder'
  <2>1. Made > 0 => Froms[Made] = Handled
    BY <1>1, <1>2 DEF MadeInOrder
  <2> QED BY <1>1, <1>2, <1>5, <1>7, <2>1 DEF MadeInOrder
<1>9. RoomLeft'
  <2> SUFFICES ASSUME ReserveAllows
               PROVE  len' <= cap' /\ Written' + Owed' <= cap'
    BY <1>2 DEF RoomLeft, ReserveAllows
  <2>1. Owed' \in Nat /\ Owed' <= Owed /\ Owed \in Nat
    BY <1>1, OwedLookup, OwedNat
  <2>2. len \in Nat /\ cap \in Nat /\ len <= cap /\ Written = len /\ Written + Owed <= cap
    BY <1>1, <1>2 DEF RoomLeft, TypeOK, Written
  <2>3. len + Owed' <= cap
    <3>1. PICK x \in Nat : x = Owed'
      BY <2>1
    <3>2. x <= Owed
      BY <2>1, <3>1
    <3>3. len + x <= cap
      BY <2>1, <2>2, <3>2
    <3> QED BY <3>1, <3>3
  <2> QED BY <1>2, <1>5, <2>2, <2>3
<1> QED
  BY <1>1, <1>4, <1>6, <1>7, <1>8, <1>9 DEF ForwarderInv

\* A loop puts an output into the offset table: it begins where the pieces
\* end and takes at most its frame and a tag.
LEMMA PushStep ==
  ASSUME ForwarderInv, pc \in {"loop", "seal"}, Ready, NextCopy, NEW end \in Nat,
         Written <= end, end - Written <= Head(todo).size + TagSize,
         NEW encrypted \in BOOLEAN, NEW miss \in BOOLEAN, ~(encrypted /\ miss),
         encrypted => /\ Seals(Head(todo))
                      /\ end - Written >= HeaderSize + Head(todo).claim + TagSize,
         Push(Written, end, encrypted, miss, Current)
  PROVE  ForwarderInv'
<1>1. /\ TypeOK /\ Progress /\ Drafted /\ OffsetsTile /\ Accounted
      /\ MadeInOrder /\ Mapped /\ MadeWhole /\ RoomLeft
  BY DEF ForwarderInv
<1>2. /\ mcr' = mcr /\ session' = session /\ pool' = pool /\ pc' = "loop" /\ path' = path
      /\ start' = start /\ duplicated' = duplicated /\ pending' = pending
      /\ outputs' = outputs /\ cap' = cap /\ frames' = frames
  BY DEF NextCopy, config, work
<1>3. /\ todo # <<>> /\ outputs = <<>> /\ pending = {} /\ path \notin OwnedPaths /\ Written \in Nat
      /\ len \in Nat /\ cap \in Nat
  BY <1>1 DEF Progress, TypeOK, Ready, Written
<1>4. /\ Head(todo) \in FrameRecords /\ Head(todo).size \in Nat
      /\ Current \in 1..Len(frames) /\ Current \in Nat /\ frames[Current] = Head(todo)
  BY <1>1, <1>3, HeadIs DEF FrameRecords
<1>5. /\ offsets' \in Seq(OffsetRecords) /\ Len(offsets') = Len(offsets) + 1 /\ len' = end
      /\ \A i \in 1..Len(offsets) : offsets'[i] = offsets[i]
  <2>1. /\ offsets' \in Seq(OffsetRecords) /\ Len(offsets') = Len(offsets) + 1
        /\ \A i \in 1..Len(offsets) : offsets'[i] = offsets[i]
        /\ offsets'[Len(offsets) + 1]
             = [start |-> Written, size |-> end - Written, encrypted |-> encrypted, from |-> Current]
        /\ len' = end
    BY <1>1, <1>3, <1>4, PushIs
  <2> QED BY <2>1
<1>6. OffsetsTile'
  BY <1>1, <1>2, <1>3, <1>4, PushTiles
<1>7. Accounted' /\ stats' \in StatRecords
  BY <1>1, <1>3, <1>4, PushCounts
<1>8. /\ copies' \in 0..MaxChannels /\ todo' \in Seq(FrameRecords) /\ Handled' >= 0
      /\ \A i \in 1..Len(todo') : todo'[i] = frames'[Handled' + i]
      /\ copies' > 0 => todo' # <<>> /\ Sprays'
  BY <1>1, NextCopyIs
<1>9. TypeOK'
  BY <1>1, <1>2, <1>5, <1>7, <1>8 DEF TypeOK, StatRecords, FrameRecords, OffsetRecords
<1>10. Progress' /\ Drafted'
  BY <1>1, <1>2, <1>3, <1>8 DEF Progress, Drafted
<1>11. MadeInOrder'
  <2>1. /\ Made' = Made + 1 /\ Froms'[Made + 1] = Current
        /\ \A i \in 1..Made : Froms'[i] = Froms[i]
    BY <1>1, <1>2, <1>3, <1>4, PushFroms
  <2> QED BY <1>1, <2>1, MadeInOrderStep
<1>12. Mapped'
  BY <1>2, <1>3 DEF Mapped
<1>13. MadeWhole'
  <2> DEFINE w == [from |-> Current, encrypted |-> encrypted, size |-> end - Written]
  <2>1. Whole(w, frames, session)
    <3>1. w.from = Current /\ w.encrypted = encrypted /\ w.size = end - Written
      OBVIOUS
    <3> HIDE DEF w
    <3> QED BY <1>4, <3>1 DEF Whole, Seals
  <2>2. \A i \in 1..Len(offsets) : Whole(offsets[i], frames, session)
    BY <1>1 DEF MadeWhole
  <2>3. \A i \in 1..Len(offsets') : Whole(offsets'[i], frames, session)
    BY <1>1, <1>3, <1>4, <2>1, <2>2, PushWhole
  <2>4. Len(outputs') = 0
    BY <1>2, <1>3
  <2> QED BY <1>2, <2>3, <2>4 DEF MadeWhole
<1>14. RoomLeft'
  <2> SUFFICES ASSUME ReserveAllows PROVE len' <= cap' /\ Written' + Owed' <= cap'
    BY <1>2 DEF RoomLeft, ReserveAllows
  <2> DEFINE w == Head(todo).size + TagSize
             n == end - Written
  <2>1. Owed' \in Nat /\ Owed' + w <= Owed /\ Owed \in Nat /\ w \in Nat /\ n \in Nat /\ n <= w
    BY <1>1, <1>3, <1>4, OwedStep, OwedNat, Sizes
  <2>2. Written + Owed <= cap
    BY <1>1 DEF RoomLeft
  <2>3. Written + n = end
    BY <1>3
  <2>4. Written' = end
    BY <1>2, <1>5 DEF Written
  <2> HIDE DEF w, n
  <2>5. PICK x \in Nat : x = Owed'
    BY <2>1
  <2>6. x + n <= Owed
    <3>1. x + w <= Owed
      BY <2>1, <2>5
    <3> QED BY <2>1, <3>1
  <2>7. Written + n <= cap /\ (Written + n) + x <= cap
    BY <1>3, <2>1, <2>2, <2>6, StillFits
  <2> QED BY <1>2, <1>5, <2>3, <2>4, <2>5, <2>7
<1> QED
  BY <1>6, <1>7, <1>9, <1>10, <1>11, <1>12, <1>13, <1>14 DEF ForwarderInv

\* A frame is copied whole.
LEMMA CopyStep ==
  ASSUME ForwarderInv, NEW found \in BOOLEAN, CopyOutput(found)
  PROVE  ForwarderInv'
<1> DEFINE f == Head(todo)
<1>1. TypeOK /\ Progress
  BY DEF ForwarderInv
<1>2. pc = "loop" /\ Ready /\ Push(len, len + f.size, FALSE, CopyMissed(f, found), Current) /\ NextCopy
  BY DEF CopyOutput, AtFrame, Ready
<1>3. /\ Head(todo) \in FrameRecords /\ session \in BOOLEAN
      /\ len \in Nat /\ Written = len /\ TagSize \in Nat
  BY <1>1, <1>2, HeadIs, Sizes DEF TypeOK, Ready, Written
<1>4. f.size \in Nat /\ CopyMissed(f, found) \in BOOLEAN
  <2>1. HasHeader(f) \in BOOLEAN /\ SealMissed(f) \in BOOLEAN /\ f.size \in Nat
    BY <1>3, Guards
  <2> QED BY <2>1 DEF CopyMissed
<1> DEFINE end == len + f.size
           miss == CopyMissed(f, found)
<1>5. end \in Nat /\ Written <= end /\ end - Written <= f.size + TagSize
  BY <1>3, <1>4
<1>6. Push(Written, end, FALSE, miss, Current) /\ miss \in BOOLEAN
  BY <1>2, <1>3, <1>4
<1> HIDE DEF end, miss
<1> QED
  BY <1>2, <1>5, <1>6, PushStep

\* An output is begun.
LEMMA StartStep ==
  ASSUME ForwarderInv, NEW found \in BOOLEAN, StartOutput(found)
  PROVE  ForwarderInv'
<1> DEFINE f == Head(todo)
           d == Draft(f, found)
<1>1. /\ TypeOK /\ Progress /\ Drafted /\ OffsetsTile /\ Accounted
      /\ MadeInOrder /\ Mapped /\ MadeWhole /\ RoomLeft
  BY DEF ForwarderInv
<1>2. /\ pc = "loop" /\ Ready /\ d > 0 /\ start' = len /\ len' = len + d /\ pc' = "seal"
      /\ mcr' = mcr /\ session' = session /\ pool' = pool /\ path' = path /\ todo' = todo
      /\ copies' = copies /\ duplicated' = duplicated /\ pending' = pending
      /\ outputs' = outputs /\ cap' = cap /\ offsets' = offsets /\ stats' = stats /\ frames' = frames
  BY DEF StartOutput, AtFrame, Ready, config, work
<1>3. /\ f \in FrameRecords /\ session \in BOOLEAN /\ todo # <<>> /\ f.size \in Nat
      /\ len \in Nat /\ Written = len /\ Written' = len /\ TagSize \in Nat /\ cap \in Nat
  <2>1. todo # <<>> /\ session \in BOOLEAN /\ len \in Nat /\ cap \in Nat
    BY <1>1, <1>2 DEF Ready, TypeOK
  <2>2. f \in FrameRecords
    BY <1>1, <2>1, HeadIs
  <2>3. Written = len /\ Written' = len
    BY <1>2 DEF Written
  <2> QED BY <2>1, <2>2, <2>3, Sizes DEF FrameRecords
<1>4. d \in Nat /\ d <= f.size /\ Draft(f, TRUE) = d
  BY <1>2, <1>3, DraftIs
<1>5. TypeOK'
  <2>1. len' \in Nat /\ start' \in Nat
    BY <1>2, <1>3, <1>4
  <2> QED BY <1>1, <1>2, <2>1 DEF TypeOK
<1>6. Handled' = Handled /\ Sprays' = Sprays /\ Owed' = Owed /\ Ready' = Ready
  BY <1>2 DEF Handled, Sprays, Owed, Ready
<1>7. Progress'
  BY <1>1, <1>2, <1>6 DEF Progress
<1>8. Drafted'
  <2>1. Draft(Head(todo), TRUE)' = Draft(Head(todo), TRUE)
    BY <1>2 DEF Draft, CarriesPayload, HasHeader
  <2>2. Draft(Head(todo), TRUE) = d
    BY <1>4
  <2> HIDE DEF d
  <2> QED BY <1>2, <1>6, <2>1, <2>2 DEF Drafted
<1>9. OffsetsTile' /\ Accounted' /\ Mapped' /\ MadeWhole' /\ Made' = Made /\ Froms' = Froms
  BY <1>1, <1>2, <1>3, OutputsKept
<1>10. MadeInOrder'
  BY <1>1, <1>2, <1>6, <1>9 DEF MadeInOrder
<1>11. RoomLeft'
  <2> SUFFICES ASSUME ReserveAllows PROVE len' <= cap' /\ Written' + Owed' <= cap'
    BY <1>2 DEF RoomLeft, ReserveAllows
  <2>1. len + Owed <= cap
    BY <1>1, <1>2, <1>3 DEF RoomLeft
  <2>2. f.size + TagSize <= Owed /\ Owed \in Nat
    BY <1>1, <1>3, OwedCovers, OwedNat
  <2> HIDE DEF f, d
  <2>3. len + d <= cap
    BY <1>3, <1>4, <2>1, <2>2
  <2> QED BY <1>2, <1>3, <1>6, <2>1, <2>3
<1> QED
  BY <1>5, <1>7, <1>8, <1>9, <1>10, <1>11 DEF ForwarderInv

\* The output that was begun is sealed, sent in clear, or written again.
LEMMA SealStep ==
  ASSUME ForwarderInv, SealOutput \/ KeepOutput \/ RewriteOutput
  PROVE  ForwarderInv'
<1> DEFINE f == Head(todo)
           d == Draft(f, TRUE)
<1>1. TypeOK /\ Progress /\ Drafted
  BY DEF ForwarderInv
<1>2. pc = "seal" /\ NextCopy
  BY DEF SealOutput, KeepOutput, RewriteOutput
<1>3. Ready /\ d > 0 /\ len = start + d
  BY <1>1, <1>2 DEF Drafted
<1>4. /\ f \in FrameRecords /\ session \in BOOLEAN
      /\ start \in Nat /\ Written = start /\ TagSize \in Nat /\ HeaderSize \in Nat
  BY <1>1, <1>2, <1>3, HeadIs, Sizes DEF TypeOK, Ready, Written
<1>5. /\ f.size \in Nat /\ f.claim \in Nat /\ d \in Nat /\ d <= f.size
      /\ Seals(f) => d = HeaderSize + f.claim
  BY <1>3, <1>4, DraftIs DEF FrameRecords
<1> HIDE DEF f, d
<1>6. CASE SealOutput
  <2> DEFINE end == len + SealAdds(f)
             b == HeaderSize + f.claim
  <2>1. Seals(f) /\ Push(Written, end, TRUE, FALSE, Current)
    BY <1>4, <1>6 DEF SealOutput, f
  <2>2. SealAdds(f) \in {TagSize, TagSize + (f.size - b)}
    BY <1>4, <1>5 DEF SealAdds
  <2>3. b \in Nat /\ b <= f.size /\ d = b
    BY <1>4, <1>5, <2>1
  <2> HIDE DEF b
  <2>4. /\ end \in Nat /\ Written <= end /\ end - Written <= f.size + TagSize
        /\ end - Written >= b + TagSize
    BY <1>3, <1>4, <1>5, <2>2, <2>3
  <2> HIDE DEF end
  <2> QED BY <1>2, <1>3, <2>1, <2>4, PushStep DEF f, b
<1>7. CASE KeepOutput
  <2>1. Push(Written, len, FALSE, FALSE, Current)
    BY <1>4, <1>7 DEF KeepOutput
  <2>2. len \in Nat /\ Written <= len /\ len - Written <= f.size + TagSize
    BY <1>3, <1>4, <1>5
  <2> QED BY <1>2, <1>3, <2>1, <2>2, PushStep DEF f
<1>8. CASE RewriteOutput
  <2> DEFINE end == start + f.size
  <2>1. Push(Written, end, FALSE, TRUE, Current)
    BY <1>4, <1>8 DEF RewriteOutput, Truncated, f
  <2>2. end \in Nat /\ Written <= end /\ end - Written <= f.size + TagSize
    BY <1>4, <1>5
  <2> HIDE DEF end
  <2> QED BY <1>2, <1>3, <2>1, <2>2, PushStep DEF f
<1> QED
  BY <1>6, <1>7, <1>8

\* The owned full-spray loop lists the copies of a frame as items to map.
LEMMA DuplicateStep ==
  ASSUME ForwarderInv, NEW n \in 0..MaxChannels, Duplicate(n)
  PROVE  ForwarderInv'
<1> DEFINE k == Larger(n, 1)
           c == [i \in 1..k |-> Current]
           m == Len(duplicated)
<1>1. /\ TypeOK /\ Progress /\ Drafted /\ OffsetsTile /\ Accounted
      /\ MadeInOrder /\ Mapped /\ MadeWhole /\ RoomLeft
  BY DEF ForwarderInv
<1>2. /\ pc = "expand" /\ todo # <<>> /\ duplicated' = duplicated \o c /\ todo' = Tail(todo)
      /\ mcr' = mcr /\ session' = session /\ pool' = pool /\ pc' = pc /\ path' = path
      /\ start' = start /\ copies' = copies /\ pending' = pending
      /\ outputs' = outputs /\ cap' = cap /\ len' = len /\ offsets' = offsets
      /\ stats' = stats /\ frames' = frames
  BY DEF Duplicate, config, arena
<1>3. /\ path = "full_owned" /\ path \in OwnedPaths /\ path \in SprayPaths
      /\ outputs = <<>> /\ pending = {} /\ offsets = <<>> /\ ~(copies > 0)
  BY <1>1, <1>2 DEF Progress, OwnedPaths, SprayPaths, Sprays
<1>4. /\ k \in Nat /\ k > 0 /\ m \in Nat
      /\ Current \in 1..Len(frames) /\ Current \in Nat \ {0} /\ Current = Handled + 1
      /\ Handled \in Int /\ Len(frames) \in Nat
  <2>1. k \in Nat /\ k > 0
    BY Sizes DEF Larger
  <2>2. Current \in 1..Len(frames) /\ Current = Handled + 1
    BY <1>1, <1>2, HeadIs
  <2>3. m \in Nat /\ Len(frames) \in Nat /\ Handled \in Int
    BY <1>1, TypeFacts
  <2> HIDE DEF k, m
  <2> QED BY <2>1, <2>2, <2>3
<1> HIDE DEF k, m
<1>5. c \in Seq(Nat \ {0}) /\ Len(c) = k /\ \A i \in 1..k : c[i] = Current
  <2>1. c \in [1..k -> Nat \ {0}] /\ DOMAIN c = 1..k
    BY <1>4
  <2>2. c \in Seq(Nat \ {0})
    BY <1>4, <2>1, SeqDef
  <2>3. Len(c) = k
    BY <1>4, <2>1, <2>2, LenProperties
  <2> QED BY <2>2, <2>3
<1> HIDE DEF c
<1>6. /\ duplicated' \in Seq(Nat \ {0}) /\ Len(duplicated') = m + k
      /\ \A i \in 1..m : duplicated'[i] = duplicated[i]
      /\ \A i \in (m + 1)..(m + k) : duplicated'[i] = Current
  <2>1. duplicated \in Seq(Nat \ {0})
    BY <1>1, TypeFacts
  <2>2. /\ duplicated' \in Seq(Nat \ {0}) /\ Len(duplicated') = m + k
        /\ \A i \in 1..(m + k) :
             duplicated'[i] = IF i <= m THEN duplicated[i] ELSE c[i - m]
    BY <1>2, <1>5, <2>1, ConcatProperties DEF m
  <2>3. \A i \in 1..m : i \in 1..(m + k) /\ i <= m
    BY <1>4
  <2>4. \A i \in (m + 1)..(m + k) : i \in 1..(m + k) /\ ~(i <= m) /\ i - m \in 1..k
    BY <1>4
  <2> QED BY <1>5, <2>2, <2>3, <2>4
<1>7. /\ todo' \in Seq(FrameRecords) /\ Handled' = Handled + 1 /\ Handled' >= 0
      /\ \A i \in 1..Len(todo') : todo'[i] = frames'[Handled' + i]
  BY <1>1, <1>2, TailIs
<1>8. TypeOK'
  BY <1>1, <1>2, <1>3, <1>6, <1>7 DEF TypeOK, FrameRecords
<1>9. Progress' /\ Drafted'
  BY <1>1, <1>2, <1>3, <1>7 DEF Progress, Drafted
<1>10. OffsetsTile' /\ Accounted'
  BY <1>1, <1>2 DEF OffsetsTile, Accounted
<1>11. MadeInOrder'
  <2>1. Made = m /\ Made' = m + k
    BY <1>2, <1>3, <1>6 DEF Made, m
  <2>2. /\ \A i \in 1..m : Froms'[i] = Froms[i]
        /\ \A i \in (m + 1)..(m + k) : Froms'[i] = Current
        /\ \A i \in 1..m : Froms[i] \in Int
    <3>1. \A i \in 1..(m + k) : Froms'[i] = duplicated'[i]
      BY <1>2, <1>3, <2>1 DEF Froms
    <3>2. \A i \in 1..m : Froms[i] = duplicated[i] /\ Froms[i] \in Nat
      BY <1>1, <1>3, <2>1, FromType DEF Froms
    <3>3. /\ \A i \in 1..m : i \in 1..(m + k)
          /\ \A i \in (m + 1)..(m + k) : i \in 1..(m + k)
      BY <1>4
    <3> QED BY <1>6, <3>1, <3>2, <3>3
  <2>3. ASSUME NEW i \in 1..(m + k - 1) PROVE Froms'[i + 1] - Froms'[i] \in {0, 1}
    <3>1. CASE i < m
      <4>1. i \in 1..(m - 1) /\ i \in 1..m /\ i + 1 \in 1..m
        BY <1>4, <3>1
      <4>2. Froms[i + 1] - Froms[i] \in {0, 1}
        BY <1>1, <2>1, <4>1 DEF MadeInOrder
      <4> QED BY <2>2, <4>1, <4>2
    <3>2. CASE i = m
      <4>1. m > 0 /\ m \in 1..m /\ m + 1 \in (m + 1)..(m + k)
        BY <1>4, <3>2
      <4>2. Froms[m] = Handled
        BY <1>1, <1>3, <2>1, <4>1 DEF MadeInOrder
      <4> QED BY <1>4, <2>2, <3>2, <4>1, <4>2
    <3>3. CASE i > m
      <4>1. i \in (m + 1)..(m + k) /\ i + 1 \in (m + 1)..(m + k)
        BY <1>4, <3>3
      <4> QED BY <1>4, <2>2, <4>1
    <3> QED BY <1>4, <3>1, <3>2, <3>3
  <2>4. Froms'[1] = 1
    <3>1. CASE m = 0
      <4>1. Handled = 0 /\ 1 \in (m + 1)..(m + k)
        BY <1>1, <1>4, <2>1, <3>1 DEF MadeInOrder
      <4> QED BY <1>4, <2>2, <4>1
    <3>2. CASE m # 0
      <4>1. m > 0 /\ 1 \in 1..m
        BY <1>4, <3>2
      <4> QED BY <1>1, <2>1, <2>2, <4>1 DEF MadeInOrder
    <3> QED BY <3>1, <3>2
  <2>5. Froms'[m + k] = Handled'
    <3>1. m + k \in (m + 1)..(m + k)
      BY <1>4
    <3> QED BY <1>4, <1>7, <2>2, <3>1
  <2>6. m + k # 0 /\ path' \in SprayPaths
    BY <1>2, <1>3, <1>4
  <2>7. \A i \in 1..(Made' - 1) : Froms'[i + 1] - Froms'[i] \in {0, 1}
    BY <1>4, <2>1, <2>3
  <2>8. Made' # 0 /\ Froms'[Made'] = Handled'
    BY <1>4, <2>1, <2>5
  <2> QED BY <2>4, <2>6, <2>7, <2>8 DEF MadeInOrder
<1>12. Mapped'
  <2>1. ASSUME NEW i \in 1..(m + k) PROVE duplicated'[i] \in 1..Len(frames)
    <3>1. CASE i \in 1..m
      <4>1. duplicated[i] \in 1..Len(frames)
        BY <1>1, <1>3, <3>1 DEF Mapped, m
      <4> QED BY <1>6, <3>1, <4>1
    <3>2. CASE i \in (m + 1)..(m + k)
      BY <1>4, <1>6, <3>2
    <3> QED BY <1>4, <3>1, <3>2
  <2>2. Len(offsets') = 0 /\ Len(outputs') = 0 /\ pc' = "expand" /\ frames' = frames
    BY <1>2, <1>3
  <2> QED BY <1>6, <2>1, <2>2 DEF Mapped
<1>13. MadeWhole' /\ RoomLeft'
  <2>1. MadeWhole'
    BY <1>1, <1>2 DEF MadeWhole
  <2>2. pc' \notin {"loop", "seal", "append"}
    BY <1>2
  <2>3. RoomLeft'
    BY <1>1, <1>2, <2>2 DEF RoomLeft, ReserveAllows
  <2> QED BY <2>1, <2>3
<1> QED
  BY <1>8, <1>9, <1>10, <1>11, <1>12, <1>13 DEF ForwarderInv

\* Every item is handed to the pool.
LEMMA ForkStep ==
  ASSUME ForwarderInv, Fork
  PROVE  ForwarderInv'
<1>1. /\ TypeOK /\ Progress /\ Drafted /\ OffsetsTile /\ Accounted
      /\ MadeInOrder /\ Mapped /\ MadeWhole /\ RoomLeft
  BY DEF ForwarderInv
<1>2. /\ pc = "expand" /\ todo = <<>> /\ pc' = "map" /\ pending' = DOMAIN duplicated
      /\ outputs' = [i \in DOMAIN duplicated |-> NoOutput]
      /\ mcr' = mcr /\ session' = session /\ pool' = pool /\ path' = path /\ todo' = todo
      /\ start' = start /\ copies' = copies /\ duplicated' = duplicated
      /\ cap' = cap /\ len' = len /\ offsets' = offsets /\ stats' = stats /\ frames' = frames
  BY DEF Fork, config, arena
<1>3. path \in OwnedPaths /\ offsets = <<>> /\ len = 0 /\ ~(copies > 0)
  BY <1>1, <1>2 DEF Progress, OwnedPaths
<1>4. DOMAIN duplicated = 1..Len(duplicated) /\ Len(duplicated) \in Nat
  BY <1>1, TypeFacts
<1>5. outputs' \in Seq(OutputRecords) /\ Len(outputs') = Len(duplicated)
  <2>1. NoOutput \in OutputRecords
    BY DEF NoOutput, OutputRecords
  <2>2. outputs' \in [1..Len(duplicated) -> OutputRecords]
    BY <1>2, <1>4, <2>1
  <2>3. outputs' \in Seq(OutputRecords)
    BY <1>4, <2>2, SeqDef
  <2> QED BY <1>4, <2>2, <2>3, LenProperties
<1>6. TypeOK'
  BY <1>1, <1>2, <1>5 DEF TypeOK, OutputRecords
<1>7. Handled' = Handled /\ Sprays' = Sprays
  BY <1>2 DEF Handled, Sprays
<1>8. Progress' /\ Drafted'
  BY <1>1, <1>2, <1>3, <1>7 DEF Progress, Drafted
<1>9. OffsetsTile' /\ Accounted'
  BY <1>1, <1>2 DEF OffsetsTile, Accounted
<1>10. MadeInOrder'
  <2>1. Made' = Made /\ Froms' = Froms
    BY <1>2, FromsKept
  <2> QED BY <1>1, <1>2, <1>7, <2>1 DEF MadeInOrder
<1>11. Mapped' /\ MadeWhole'
  <2>1. \A i \in 1..Len(outputs') : i \in pending'
    BY <1>2, <1>4, <1>5
  <2>2. Len(offsets') = 0
    BY <1>2, <1>3
  <2>3. Mapped'
    BY <1>1, <1>2, <1>3, <1>4, <1>5, <2>1, <2>2 DEF Mapped
  <2>4. MadeWhole'
    BY <2>1, <2>2 DEF MadeWhole
  <2> QED BY <2>3, <2>4
<1>12. RoomLeft'
  BY <1>1, <1>2 DEF RoomLeft, ReserveAllows
<1> QED
  BY <1>6, <1>8, <1>9, <1>10, <1>11, <1>12 DEF ForwarderInv

\* A thread of the pool handles an item; its result is at the item's place.
LEMMA MapStep ==
  ASSUME ForwarderInv, NEW i \in pending, NEW found \in BOOLEAN, MapItem(i, found)
  PROVE  ForwarderInv'
<1> DEFINE f == frames[duplicated[i]]
           o == Owned(f, found)
           e == [size |-> o.size, encrypted |-> o.encrypted, miss |-> o.miss,
                 from |-> duplicated[i]]
<1>1. /\ TypeOK /\ Progress /\ Drafted /\ OffsetsTile /\ Accounted
      /\ MadeInOrder /\ Mapped /\ MadeWhole /\ RoomLeft
  BY DEF ForwarderInv
<1>2. /\ pc = "map" /\ pending' = pending \ {i} /\ outputs' = [outputs EXCEPT ![i] = e]
      /\ mcr' = mcr /\ session' = session /\ pool' = pool /\ pc' = pc /\ path' = path
      /\ todo' = todo /\ start' = start /\ copies' = copies /\ duplicated' = duplicated
      /\ cap' = cap /\ len' = len /\ offsets' = offsets /\ stats' = stats /\ frames' = frames
  BY DEF MapItem, Place, config, arena
<1>3. /\ path \in OwnedPaths /\ offsets = <<>> /\ Len(offsets) = 0 /\ session \in BOOLEAN
      /\ outputs \in Seq(OutputRecords) /\ Len(outputs) \in Nat /\ Len(frames) \in Nat
  BY <1>1, <1>2, TypeFacts DEF Progress, TypeOK
<1>4. Len(outputs) = Len(duplicated) /\ i \in 1..Len(outputs) /\ pending \subseteq DOMAIN duplicated
  <2>1. DOMAIN duplicated = 1..Len(duplicated) /\ Len(duplicated) \in Nat
    BY <1>1, TypeFacts
  <2>2. pending \subseteq DOMAIN duplicated
    BY <1>1 DEF TypeOK
  <2>3. Len(offsets) + Len(outputs) = Len(duplicated)
    BY <1>1, <1>2, <1>3 DEF Mapped
  <2> QED BY <1>3, <2>1, <2>2, <2>3
<1>5. duplicated[i] \in 1..Len(frames) /\ duplicated[i] \in Nat /\ f \in FrameRecords
  <2>1. duplicated[i] \in 1..Len(frames)
    BY <1>1, <1>3, <1>4 DEF Mapped
  <2>2. duplicated[i] \in Nat
    BY <1>3, <2>1
  <2> QED BY <1>1, <2>1, <2>2, TypeFacts
<1>6. Fits(o, f)
  BY <1>3, <1>5, OwnedFits
<1>7. /\ e.from = duplicated[i] /\ e.size = o.size /\ e.encrypted = o.encrypted /\ e.miss = o.miss
      /\ f = frames[duplicated[i]]
  OBVIOUS
<1>8. e \in OutputRecords
  <2>1. o.size \in Nat /\ o.encrypted \in BOOLEAN /\ o.miss \in BOOLEAN
    BY <1>6 DEF Fits
  <2> HIDE DEF o, f
  <2> QED BY <1>5, <2>1 DEF OutputRecords
<1> HIDE DEF e, o, f
<1>9. Whole(e, frames, session) /\ ~(e.encrypted /\ e.miss)
  BY <1>5, <1>6, <1>7 DEF Whole, Fits, Seals
<1>10. /\ outputs' \in Seq(OutputRecords) /\ Len(outputs') = Len(outputs)
       /\ outputs'[i] = e
       /\ \A j \in 1..Len(outputs) : j # i => outputs'[j] = outputs[j]
  <2>1. DOMAIN outputs = 1..Len(outputs)
    BY <1>3, LenProperties
  <2>2. /\ outputs' \in Seq(OutputRecords) /\ Len(outputs') = Len(outputs)
        /\ \A j \in 1..Len(outputs) : outputs'[j] = IF j = i THEN e ELSE outputs[j]
    BY <1>2, <1>3, <1>4, <1>8, ExceptSeq
  <2> QED BY <1>4, <2>2
<1>11. TypeOK'
  BY <1>1, <1>2, <1>10 DEF TypeOK, OutputRecords
<1>12. Handled' = Handled /\ Sprays' = Sprays
  BY <1>2 DEF Handled, Sprays
<1>13. Progress' /\ Drafted'
  BY <1>1, <1>2, <1>12 DEF Progress, Drafted
<1>14. OffsetsTile' /\ Accounted'
  BY <1>1, <1>2 DEF OffsetsTile, Accounted
<1>15. MadeInOrder'
  <2>1. Made' = Made /\ Froms' = Froms
    BY <1>2, FromsKept
  <2> QED BY <1>1, <1>2, <1>12, <2>1 DEF MadeInOrder
<1>16. Mapped'
  <2>1. ASSUME NEW j \in 1..Len(outputs'), j \notin pending'
        PROVE  outputs'[j].from = duplicated'[Len(offsets') + j]
    <3>1. Len(offsets') + j = j /\ duplicated' = duplicated /\ j \in 1..Len(outputs)
      BY <1>2, <1>3, <1>10
    <3>2. CASE j = i
      BY <1>7, <1>10, <3>1, <3>2
    <3>3. CASE j # i
      <4>1. j \notin pending
        BY <1>2, <2>1, <3>3
      <4>2. outputs[j].from = duplicated[Len(offsets) + j]
        BY <1>1, <1>3, <3>1, <4>1 DEF Mapped
      <4> QED BY <1>2, <1>10, <3>1, <3>3, <4>2
    <3> QED BY <3>2, <3>3
  <2>2. /\ Len(offsets') + Len(outputs') = Len(duplicated')
        /\ \A j \in 1..Len(duplicated') : duplicated'[j] \in 1..Len(frames')
        /\ \A j \in 1..Len(offsets') : offsets'[j].from = duplicated'[j]
    BY <1>1, <1>2, <1>3, <1>4, <1>10 DEF Mapped
  <2> QED BY <2>1, <2>2 DEF Mapped
<1>17. MadeWhole'
  <2>1. ASSUME NEW j \in 1..Len(outputs'), j \notin pending'
        PROVE  Whole(outputs'[j], frames, session) /\ ~(outputs'[j].encrypted /\ outputs'[j].miss)
    <3>1. CASE j = i
      BY <1>9, <1>10, <3>1
    <3>2. CASE j # i
      <4>1. j \notin pending /\ outputs'[j] = outputs[j] /\ j \in 1..Len(outputs)
        BY <1>2, <1>10, <2>1, <3>2
      <4> QED BY <1>1, <4>1 DEF MadeWhole
    <3> QED BY <3>1, <3>2
  <2>2. Len(offsets') = 0
    BY <1>2, <1>3
  <2> QED BY <1>2, <2>1, <2>2 DEF MadeWhole
<1>18. RoomLeft'
  BY <1>1, <1>2 DEF RoomLeft, ReserveAllows
<1> QED
  BY <1>11, <1>13, <1>14, <1>15, <1>16, <1>17, <1>18 DEF ForwarderInv

\* The main thread makes room for what was mapped.
LEMMA CollectStep ==
  ASSUME RoundsUp, ForwarderInv, Collect
  PROVE  ForwarderInv'
<1>1. /\ TypeOK /\ Progress /\ Drafted /\ OffsetsTile /\ Accounted
      /\ MadeInOrder /\ Mapped /\ MadeWhole /\ RoomLeft
  BY DEF ForwarderInv
<1>2. /\ pc = "map" /\ pending = {} /\ pc' = "append" /\ cap' = Reserve(len, Bytes(outputs))
      /\ mcr' = mcr /\ session' = session /\ pool' = pool /\ path' = path /\ todo' = todo
      /\ start' = start /\ copies' = copies /\ duplicated' = duplicated /\ pending' = pending
      /\ outputs' = outputs /\ len' = len /\ offsets' = offsets /\ stats' = stats /\ frames' = frames
  BY DEF Collect, config, work
<1>3. Bytes(outputs) \in Nat /\ len \in Nat /\ cap \in Nat
  BY <1>1, TypeFacts, OutputBytes DEF TypeOK
<1>4. cap' \in Nat /\ cap' >= len + Bytes(outputs)
  BY <1>2, <1>3, ReserveIs
<1>5. TypeOK'
  BY <1>1, <1>2, <1>4 DEF TypeOK
<1>6. Handled' = Handled /\ Sprays' = Sprays /\ Written' = Written
  BY <1>2 DEF Handled, Sprays, Written
<1>7. Progress' /\ Drafted'
  BY <1>1, <1>2, <1>6 DEF Progress, Drafted
<1>8. OffsetsTile' /\ Accounted' /\ Mapped' /\ MadeWhole' /\ Made' = Made /\ Froms' = Froms
  BY <1>1, <1>2, <1>6, OutputsKept
<1>9. MadeInOrder'
  BY <1>1, <1>2, <1>6, <1>8 DEF MadeInOrder
<1>10. RoomLeft'
  <2>1. len' <= cap' /\ len' + Bytes(outputs') <= cap'
    BY <1>2, <1>3, <1>4
  <2>2. pc' \notin {"loop", "seal"}
    BY <1>2
  <2> QED BY <2>1, <2>2 DEF RoomLeft
<1> QED
  BY <1>5, <1>7, <1>8, <1>9, <1>10 DEF ForwarderInv

\* An output moves from the mapped ones to the arena.
LEMMA AppendStep ==
  ASSUME ForwarderInv, AppendOutput
  PROVE  ForwarderInv'
<1> DEFINE o == Head(outputs)
           end == len + o.size
           n == Len(offsets)
<1>1. /\ TypeOK /\ Progress /\ Drafted /\ OffsetsTile /\ Accounted
      /\ MadeInOrder /\ Mapped /\ MadeWhole /\ RoomLeft
  BY DEF ForwarderInv
<1>2. /\ pc = "append" /\ outputs # <<>> /\ Push(len, end, o.encrypted, o.miss, o.from)
      /\ outputs' = Tail(outputs) /\ mcr' = mcr /\ session' = session /\ pool' = pool /\ pc' = pc
      /\ path' = path /\ todo' = todo /\ start' = start /\ copies' = copies
      /\ duplicated' = duplicated /\ pending' = pending /\ cap' = cap /\ frames' = frames
  BY DEF AppendOutput, config
<1>3. /\ outputs \in Seq(OutputRecords) /\ Len(outputs) \in Nat \ {0} /\ n \in Nat
      /\ len \in Nat /\ cap \in Nat /\ pending = {} /\ path \in OwnedPaths /\ Written = len
  BY <1>1, <1>2, TypeFacts, EmptySeq DEF TypeOK, Progress, Written
<1>4. /\ o \in OutputRecords /\ Tail(outputs) \in Seq(OutputRecords) /\ o = outputs[1]
      /\ Len(Tail(outputs)) = Len(outputs) - 1
      /\ \A i \in 1..Len(Tail(outputs)) : Tail(outputs)[i] = outputs[i + 1]
  BY <1>2, <1>3, HeadTailProperties
<1>5. /\ o.size \in Nat /\ o.encrypted \in BOOLEAN /\ o.miss \in BOOLEAN /\ o.from \in Nat
      /\ end \in Nat /\ len <= end /\ end - len = o.size
  BY <1>3, <1>4 DEF OutputRecords
<1>6. Whole(o, frames, session) /\ ~(o.encrypted /\ o.miss) /\ o.from = duplicated[n + 1]
  <2>1. 1 \in 1..Len(outputs) /\ 1 \notin pending
    BY <1>3
  <2> QED BY <1>1, <1>3, <1>4, <2>1 DEF MadeWhole, Mapped
<1> HIDE DEF end
<1>7. /\ offsets' \in Seq(OffsetRecords) /\ Len(offsets') = n + 1
      /\ \A i \in 1..n : offsets'[i] = offsets[i]
      /\ offsets'[n + 1].from = o.from /\ len' = end
  <2> HIDE DEF o
  <2>1. /\ offsets' \in Seq(OffsetRecords) /\ Len(offsets') = n + 1
        /\ \A i \in 1..n : offsets'[i] = offsets[i]
        /\ offsets'[n + 1]
             = [start |-> len, size |-> end - len, encrypted |-> o.encrypted, from |-> o.from]
        /\ len' = end
    BY <1>1, <1>2, <1>3, <1>5, PushIs
  <2> HIDE DEF n
  <2> QED BY <2>1
<1>8. OffsetsTile'
  BY <1>1, <1>2, <1>3, <1>5, PushTiles
<1>9. Accounted' /\ stats' \in StatRecords
  BY <1>1, <1>2, <1>3, <1>5, <1>6, PushCounts
<1>10. \A i \in 1..Len(offsets') : Whole(offsets'[i], frames, session)
  <2> DEFINE w == [from |-> o.from, encrypted |-> o.encrypted, size |-> end - len]
  <2>1. w.from = o.from /\ w.encrypted = o.encrypted /\ w.size = o.size
    BY <1>5
  <2>2. Whole(w, frames, session)
    <3> HIDE DEF w, o
    <3> QED BY <1>6, <2>1 DEF Whole
  <2>3. \A i \in 1..Len(offsets) : Whole(offsets[i], frames, session)
    BY <1>1 DEF MadeWhole
  <2> QED BY <1>1, <1>2, <1>3, <1>5, <2>2, <2>3, PushWhole
<1> HIDE DEF o, n
<1>11. TypeOK'
  BY <1>1, <1>2, <1>4, <1>5, <1>7, <1>9 DEF TypeOK, StatRecords, OutputRecords, OffsetRecords
<1>12. Handled' = Handled /\ Sprays' = Sprays
  BY <1>2 DEF Handled, Sprays
<1>13. Progress' /\ Drafted'
  BY <1>1, <1>2, <1>12 DEF Progress, Drafted
<1>14. MadeInOrder'
  <2>1. Made' = Made /\ Froms' = Froms
    BY <1>2, <1>3, FromsKept
  <2> QED BY <1>1, <1>2, <1>12, <2>1 DEF MadeInOrder
<1>15. \A i \in 1..Len(outputs') : outputs'[i] = outputs[i + 1] /\ i + 1 \in 1..Len(outputs)
  BY <1>2, <1>3, <1>4
<1>16. Mapped'
  <2>1. Len(offsets') + Len(outputs') = Len(duplicated')
    <3>1. n + Len(outputs) = Len(duplicated)
      BY <1>1, <1>2, <1>3 DEF Mapped, n
    <3> QED BY <1>2, <1>3, <1>4, <1>7, <3>1
  <2>2. ASSUME NEW i \in 1..(n + 1) PROVE offsets'[i].from = duplicated[i]
    <3>1. CASE i = n + 1
      BY <1>6, <1>7, <3>1
    <3>2. CASE i # n + 1
      <4>1. i \in 1..n
        BY <1>3, <3>2
      <4>2. offsets[i].from = duplicated[i]
        BY <1>1, <1>3, <4>1 DEF Mapped, n
      <4> QED BY <1>7, <4>1, <4>2
    <3> QED BY <3>1, <3>2
  <2>3. ASSUME NEW i \in 1..Len(outputs') PROVE outputs'[i].from = duplicated[(n + 1) + i]
    <3>1. i + 1 \in 1..Len(outputs) /\ outputs'[i] = outputs[i + 1] /\ i + 1 \notin pending
      BY <1>3, <1>15
    <3>2. outputs[i + 1].from = duplicated[n + (i + 1)]
      BY <1>1, <1>3, <3>1 DEF Mapped, n
    <3>3. n + (i + 1) = (n + 1) + i
      BY <1>3
    <3> QED BY <3>1, <3>2, <3>3
  <2>4. \A i \in 1..Len(duplicated) : duplicated[i] \in 1..Len(frames)
    BY <1>1, <1>3 DEF Mapped
  <2> QED BY <1>2, <1>7, <2>1, <2>2, <2>3, <2>4 DEF Mapped
<1>17. MadeWhole'
  <2>1. ASSUME NEW i \in 1..Len(outputs')
        PROVE  Whole(outputs'[i], frames, session) /\ ~(outputs'[i].encrypted /\ outputs'[i].miss)
    <3>1. outputs'[i] = outputs[i + 1] /\ i + 1 \in 1..Len(outputs) /\ i + 1 \notin pending
      BY <1>3, <1>15
    <3> QED BY <1>1, <3>1 DEF MadeWhole
  <2> QED BY <1>2, <1>10, <2>1 DEF MadeWhole
<1>18. RoomLeft'
  <2> SUFFICES ASSUME ReserveAllows PROVE len' <= cap' /\ len' + Bytes(outputs') <= cap'
    BY <1>2 DEF RoomLeft, ReserveAllows
  <2>1. /\ Bytes(Tail(outputs)) \in Nat /\ Bytes(outputs) \in Nat
        /\ Bytes(outputs) = o.size + Bytes(Tail(outputs))
    BY <1>2, <1>3, OutputBytes DEF o
  <2>2. len + Bytes(outputs) <= cap
    BY <1>1, <1>2 DEF RoomLeft
  <2>3. len + o.size <= cap /\ len + o.size + Bytes(Tail(outputs)) <= cap
    BY <1>3, <1>5, <2>1, <2>2
  <2>4. len' = len + o.size
    BY <1>7 DEF end
  <2> QED BY <1>2, <2>3, <2>4
<1> QED
  BY <1>8, <1>9, <1>11, <1>13, <1>14, <1>16, <1>17, <1>18 DEF ForwarderInv

\* The batch is sent.
LEMMA FinishStep ==
  ASSUME ForwarderInv, Finish
  PROVE  ForwarderInv'
<1>1. /\ TypeOK /\ Progress /\ Drafted /\ OffsetsTile /\ Accounted
      /\ MadeInOrder /\ Mapped /\ MadeWhole /\ RoomLeft
  BY DEF ForwarderInv
<1>2. /\ pc \in {"loop", "append"} /\ todo = <<>> /\ outputs = <<>> /\ pc' = "idle"
      /\ mcr' = mcr /\ session' = session /\ pool' = pool /\ path' = path /\ todo' = todo
      /\ start' = start /\ copies' = copies /\ duplicated' = duplicated /\ pending' = pending
      /\ outputs' = outputs /\ cap' = cap /\ len' = len /\ offsets' = offsets
      /\ stats' = stats /\ frames' = frames
  BY <1>1 DEF Finish, BatchDone, Progress, config, work, arena
<1>3. TypeOK'
  BY <1>1, <1>2 DEF TypeOK
<1>4. Handled' = Handled /\ Sprays' = Sprays /\ Written' = Written
  BY <1>2 DEF Handled, Sprays, Written
<1>5. Progress' /\ Drafted'
  BY <1>1, <1>2, <1>4 DEF Progress, Drafted
<1>6. OffsetsTile' /\ Accounted' /\ Mapped' /\ MadeWhole' /\ Made' = Made /\ Froms' = Froms
  BY <1>1, <1>2, <1>4, OutputsKept
<1>7. MadeInOrder'
  BY <1>1, <1>2, <1>4, <1>6 DEF MadeInOrder
<1>8. RoomLeft'
  BY <1>1, <1>2 DEF RoomLeft, ReserveAllows
<1> QED
  BY <1>3, <1>5, <1>6, <1>7, <1>8 DEF ForwarderInv

LEMMA StutterStep ==
  ASSUME ForwarderInv, UNCHANGED vars
  PROVE  ForwarderInv'
<1>1. /\ TypeOK /\ Progress /\ Drafted /\ OffsetsTile /\ Accounted
      /\ MadeInOrder /\ Mapped /\ MadeWhole /\ RoomLeft
  BY DEF ForwarderInv
<1>2. /\ pc' = pc /\ mcr' = mcr /\ session' = session /\ pool' = pool /\ path' = path
      /\ todo' = todo /\ start' = start /\ copies' = copies /\ duplicated' = duplicated
      /\ pending' = pending /\ outputs' = outputs /\ cap' = cap /\ len' = len
      /\ offsets' = offsets /\ stats' = stats /\ frames' = frames
  BY DEF vars, config, work, arena
<1>3. TypeOK'
  BY <1>1, <1>2 DEF TypeOK
<1>4. /\ Handled' = Handled /\ Sprays' = Sprays /\ Owed' = Owed /\ Written' = Written
      /\ Ready' = Ready
  BY <1>2 DEF Handled, Sprays, Owed, Written, Ready
<1>5. Progress' /\ Drafted'
  <2>1. Draft(Head(todo), TRUE)' = Draft(Head(todo), TRUE)
    BY <1>2 DEF Draft, CarriesPayload, HasHeader
  <2> QED BY <1>1, <1>2, <1>4, <2>1 DEF Progress, Drafted
<1>6. OffsetsTile' /\ Accounted' /\ Mapped' /\ MadeWhole' /\ Made' = Made /\ Froms' = Froms
  BY <1>1, <1>2, <1>4, OutputsKept
<1>7. MadeInOrder'
  BY <1>1, <1>2, <1>4, <1>6 DEF MadeInOrder
<1>8. RoomLeft'
  BY <1>1, <1>2, <1>4 DEF RoomLeft, ReserveAllows
<1> QED
  BY <1>3, <1>5, <1>6, <1>7, <1>8 DEF ForwarderInv

----------------------------------------------------------------------------
(* The invariant holds. *)

LEMMA InitialInv ==
  ASSUME Init
  PROVE  ForwarderInv
<1>1. /\ pc = "idle" /\ path = "serial" /\ todo = <<>> /\ copies = 0 /\ start = 0
      /\ duplicated = <<>> /\ pending = {} /\ outputs = <<>>
      /\ frames = <<>> /\ cap = InitCap /\ len = 0 /\ offsets = <<>> /\ stats = NoStats
      /\ mcr \in {"off", "primary", "full"} /\ session \in BOOLEAN /\ pool \in BOOLEAN
  BY DEF Init
<1>2. /\ Len(todo) = 0 /\ Len(frames) = 0 /\ Len(outputs) = 0 /\ Len(offsets) = 0
      /\ Len(duplicated) = 0
  BY <1>1
<1>3. TypeOK
  <2>1. /\ <<>> \in Seq(FrameRecords) /\ <<>> \in Seq(OutputRecords)
        /\ <<>> \in Seq(OffsetRecords) /\ <<>> \in Seq(Nat \ {0})
    OBVIOUS
  <2>2. NoStats \in [received : Nat, forwarded : Nat, encrypted : Nat, route_misses : Nat]
    BY DEF NoStats
  <2> QED BY <1>1, <2>1, <2>2, Sizes
          DEF TypeOK, Paths, FrameRecords, OutputRecords, OffsetRecords
<1>4. Handled = 0 /\ Made = 0 /\ path \notin OwnedPaths
  BY <1>1, <1>2 DEF Handled, Made, OwnedPaths
<1>5. Progress /\ Drafted
  BY <1>1, <1>2, <1>4 DEF Progress, Drafted
<1>6. OffsetsTile /\ Accounted
  <2>1. stats.forwarded = 0 /\ stats.encrypted = 0 /\ stats.route_misses = 0
    BY <1>1 DEF NoStats
  <2> QED BY <1>1, <1>2, <2>1 DEF OffsetsTile, Accounted
<1>7. MadeInOrder /\ Mapped /\ MadeWhole
  BY <1>2, <1>4 DEF MadeInOrder, Mapped, MadeWhole
<1>8. RoomLeft
  BY <1>1, Sizes DEF RoomLeft
<1> QED
  BY <1>3, <1>5, <1>6, <1>7, <1>8 DEF ForwarderInv

\* What a poll delivers, whole or cut to slots, is a non-empty batch.
LEMMA PolledBatch ==
  ASSUME NEW batch \in Polls
  PROVE  batch \in Seq(FrameRecords) /\ batch # <<>> /\ PathFor(Len(batch)) \in Paths
<1>1. PICK n \in 1..MaxPoll : batch \in [1..n -> FrameSet]
  BY DEF Polls
<1>2. n \in Nat /\ n # 0 /\ batch \in [1..n -> FrameRecords]
  BY <1>1, Sizes
<1>3. batch \in Seq(FrameRecords)
  BY <1>2, SeqDef
<1>4. batch # <<>>
  <2>1. 1 \in DOMAIN batch
    BY <1>1, <1>2
  <2> QED BY <2>1
<1>5. PathFor(Len(batch)) \in Paths
  BY DEF PathFor, Paths
<1> QED
  BY <1>3, <1>4, <1>5

LEMMA SlicedBatch ==
  ASSUME NEW batch \in Seq(FrameRecords), batch # <<>>
  PROVE  LET cut == [i \in 1..Len(batch) |->
                       [batch[i] EXCEPT !.size = Smaller(@, SlotSize),
                                        !.claim = IF SlotSize < HeaderSize THEN 0 ELSE @]]
         IN  cut \in Seq(FrameRecords) /\ cut # <<>>
<1> DEFINE cut == [i \in 1..Len(batch) |->
                     [batch[i] EXCEPT !.size = Smaller(@, SlotSize),
                                      !.claim = IF SlotSize < HeaderSize THEN 0 ELSE @]]
           n == Len(batch)
<1>1. n \in Nat /\ n # 0
  BY EmptySeq
<1>2. ASSUME NEW i \in 1..n PROVE cut[i] \in FrameRecords
  <2>1. batch[i] \in FrameRecords
    BY ElementOfSeq
  <2>2. Smaller(batch[i].size, SlotSize) \in Nat
    BY <2>1, Sizes DEF Smaller, FrameRecords
  <2>3. (IF SlotSize < HeaderSize THEN 0 ELSE batch[i].claim) \in Nat
    BY <2>1 DEF FrameRecords
  <2>4. cut[i] = [batch[i] EXCEPT !.size = Smaller(batch[i].size, SlotSize),
                                  !.claim = IF SlotSize < HeaderSize THEN 0 ELSE batch[i].claim]
    OBVIOUS
  <2> HIDE DEF cut
  <2> QED BY <2>1, <2>2, <2>3, <2>4 DEF FrameRecords
<1>3. DOMAIN cut = 1..n /\ cut = [i \in 1..n |-> cut[i]]
  OBVIOUS
<1> HIDE DEF cut, n
<1>4. cut \in [1..n -> FrameRecords]
  BY <1>2, <1>3
<1>5. cut \in Seq(FrameRecords)
  BY <1>1, <1>4, SeqDef
<1>6. cut # <<>>
  <2>1. 1 \in DOMAIN cut
    BY <1>1, <1>3
  <2> QED BY <2>1
<1> QED
  BY <1>5, <1>6 DEF cut

LEMMA InvStep ==
  ASSUME RoundsUp, ForwarderInv, [Next]_vars
  PROVE  ForwarderInv'
<1>1. ASSUME NEW batch \in Polls, ProcessBatch(batch)
      PROVE  ForwarderInv'
  <2>1. batch \in Seq(FrameRecords) /\ batch # <<>> /\ PathFor(Len(batch)) \in Paths
    BY PolledBatch
  <2> QED BY <1>1, <2>1, BeginStep DEF ProcessBatch
<1>2. ASSUME NEW batch \in Polls, ProcessBatchSlices(batch)
      PROVE  ForwarderInv'
  <2> DEFINE cut == [i \in 1..Len(batch) |->
                       [batch[i] EXCEPT !.size = Smaller(@, SlotSize),
                                        !.claim = IF SlotSize < HeaderSize THEN 0 ELSE @]]
  <2>1. cut \in Seq(FrameRecords) /\ cut # <<>>
    BY PolledBatch, SlicedBatch
  <2>2. pc = "idle" /\ Begin("serial", cut)
    BY <1>2 DEF ProcessBatchSlices
  <2>3. "serial" \in Paths
    BY DEF Paths
  <2> HIDE DEF cut
  <2> QED BY <2>1, <2>2, <2>3, BeginStep
<1>3. ASSUME NEW n \in 0..MaxChannels, LookupChannels(n) \/ Duplicate(n)
      PROVE  ForwarderInv'
  BY <1>3, LookupStep, DuplicateStep
<1>4. ASSUME NEW found \in BOOLEAN, CopyOutput(found) \/ StartOutput(found)
      PROVE  ForwarderInv'
  BY <1>4, CopyStep, StartStep
<1>5. CASE SealOutput \/ KeepOutput \/ RewriteOutput
  BY <1>5, SealStep
<1>6. CASE Fork
  BY <1>6, ForkStep
<1>7. ASSUME NEW i \in pending, NEW found \in BOOLEAN, MapItem(i, found)
      PROVE  ForwarderInv'
  BY <1>7, MapStep
<1>8. CASE Collect \/ AppendOutput \/ Finish
  BY <1>8, CollectStep, AppendStep, FinishStep
<1>9. CASE UNCHANGED vars
  BY <1>9, StutterStep
<1> QED
  BY <1>1, <1>2, <1>3, <1>4, <1>5, <1>6, <1>7, <1>8, <1>9 DEF Next

LEMMA InvHolds ==
  ASSUME RoundsUp
  PROVE  Spec => []ForwarderInv
<1>1. Init => ForwarderInv
  BY InitialInv
<1>2. ForwarderInv /\ [Next]_vars => ForwarderInv'
  BY InvStep
<1> QED
  BY <1>1, <1>2, PTL DEF Spec

----------------------------------------------------------------------------
(* The theorems. *)

\* Every variable of the packet loop has its type.
THEOREM LoopTyped ==
  ASSUME RoundsUp
  PROVE  Spec => []TypeOK
<1>1. ForwarderInv => TypeOK
  BY DEF ForwarderInv
<1> QED
  BY <1>1, InvHolds, PTL

\* The offset table cuts the arena into consecutive pieces in every loop: a
\* draft that is truncated and written again leaves no gap and no overlap.
THEOREM TableTiles ==
  ASSUME RoundsUp
  PROVE  Spec => []OffsetsTile
<1>1. ForwarderInv => OffsetsTile
  BY DEF ForwarderInv
<1> QED
  BY <1>1, InvHolds, PTL

\* ForwarderStats counts every output once, a route miss as forwarded.
THEOREM OutputsCounted ==
  ASSUME RoundsUp
  PROVE  Spec => []Accounted
<1>1. ForwarderInv => Accounted
  BY DEF ForwarderInv
<1> QED
  BY <1>1, InvHolds, PTL

\* The outputs of a batch are in the order of its frames and none is missing,
\* on the direct paths and on those whose frames are mapped in any order.
THEOREM BatchInOrder ==
  ASSUME RoundsUp
  PROVE  Spec => []FramesInOrder
<1>1. ForwarderInv => FramesInOrder
  <2> SUFFICES ASSUME ForwarderInv PROVE FramesInOrder
    OBVIOUS
  <2> DEFINE n == Len(offsets)
  <2>1. TypeOK /\ Progress /\ MadeInOrder /\ Mapped
    BY DEF ForwarderInv
  <2>2. /\ n \in Nat /\ n <= Made /\ Made \in Nat /\ (BatchDone => n = Made)
        /\ \A i \in 1..n : Froms[i] = offsets[i].from
    <3>1. n \in Nat /\ Len(outputs) \in Nat /\ Made \in Nat
      BY <2>1, TypeFacts
    <3>2. CASE path \in OwnedPaths
      <4>1. CASE pc = "expand"
        <5>1. n = 0 /\ ~BatchDone
          BY <2>1, <4>1 DEF Progress, BatchDone
        <5> QED BY <3>1, <5>1
      <4>2. CASE pc # "expand"
        <5>1. Made = n + Len(outputs) /\ \A i \in 1..n : offsets[i].from = duplicated[i]
          BY <2>1, <3>2, <4>2 DEF Mapped, Made
        <5>2. BatchDone => Len(outputs) = 0
          BY <2>1 DEF BatchDone, Progress
        <5> HIDE DEF n
        <5>3. n <= Made /\ (BatchDone => n = Made)
          BY <3>1, <5>1, <5>2
        <5>4. \A i \in 1..n : i \in 1..Made
          BY <3>1, <5>3
        <5> QED BY <3>1, <3>2, <5>1, <5>3, <5>4 DEF Froms
      <4> QED BY <4>1, <4>2
    <3>3. CASE path \notin OwnedPaths
      BY <3>1, <3>3 DEF Made, Froms
    <3> QED BY <3>2, <3>3
  <2> HIDE DEF n
  <2>3. \A i \in 1..n : i \in 1..Made /\ Froms[i] = offsets[i].from
    BY <2>2
  <2>4. \A i \in 1..(n - 1) : offsets[i + 1].from - offsets[i].from \in {0, 1}
    <3> SUFFICES ASSUME NEW i \in 1..(n - 1)
                 PROVE  offsets[i + 1].from - offsets[i].from \in {0, 1}
      OBVIOUS
    <3>1. i \in 1..n /\ i + 1 \in 1..n /\ i \in 1..(Made - 1)
      BY <2>2
    <3>2. Froms[i + 1] - Froms[i] \in {0, 1}
      BY <2>1, <3>1 DEF MadeInOrder
    <3> QED BY <2>3, <3>1, <3>2
  <2>5. n > 0 => offsets[1].from = 1
    <3> SUFFICES ASSUME n > 0 PROVE offsets[1].from = 1
      OBVIOUS
    <3>1. 1 \in 1..n /\ Made > 0
      BY <2>2
    <3> QED BY <2>1, <2>3, <3>1 DEF MadeInOrder
  <2>6. path \notin {"full", "full_owned"} => \A i \in 1..n : offsets[i].from = i
    BY <2>1, <2>3 DEF MadeInOrder, SprayPaths
  <2>7. BatchDone => n > 0 /\ offsets[n].from = Len(frames)
    <3> SUFFICES ASSUME BatchDone PROVE n > 0 /\ offsets[n].from = Len(frames)
      OBVIOUS
    <3>1. todo = <<>> /\ pc # "idle" /\ ~(copies > 0)
      BY <2>1 DEF BatchDone, Progress
    <3>2. Len(todo) = 0 /\ Len(frames) \in Nat /\ Len(frames) > 0
      BY <2>1, <3>1, TypeFacts DEF Progress
    <3>3. Handled = Len(frames) /\ Made = n
      BY <2>2, <3>2 DEF Handled
    <3>4. n > 0 /\ n \in 1..n
      <4>1. n # 0
        BY <2>1, <3>2, <3>3 DEF MadeInOrder
      <4> QED BY <2>2, <4>1
    <3>5. Froms[n] = Len(frames)
      BY <2>1, <3>1, <3>3, <3>4 DEF MadeInOrder
    <3> QED BY <2>3, <3>4, <3>5
  <2> QED BY <2>4, <2>5, <2>6, <2>7 DEF FramesInOrder, n
<1> QED
  BY <1>1, InvHolds, PTL

\* All loops mark an output encrypted only if header, payload and tag of
\* a frame that carried its payload are all in it.
THEOREM SealedWhole ==
  ASSUME RoundsUp
  PROVE  Spec => []EncryptedWhole
<1>1. ForwarderInv => EncryptedWhole
  BY DEF ForwarderInv, MadeWhole, Whole, EncryptedWhole
<1> QED
  BY <1>1, InvHolds, PTL

\* The unchecked writes stay inside the arena in every loop, but in the
\* full-spray loop only if no frame has more channels than its reserve allows.
THEOREM ArenaSuffices ==
  ASSUME RoundsUp
  PROVE  Spec => [](ReserveAllows => WithinCapacity)
<1>1. ForwarderInv => (ReserveAllows => WithinCapacity)
  BY DEF ForwarderInv, RoomLeft, WithinCapacity
<1> QED
  BY <1>1, InvHolds, PTL

====
