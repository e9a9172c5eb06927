---------------------------- MODULE LibraryProofs ----------------------------
(***************************************************************************)
(* Proofs about the parts of the libraries that call nothing else.         *)
(*                                                                         *)
(* Router: after any updates the map holds under each key the hop of the   *)
(* last update with that key, so a lookup follows the last update of its   *)
(* class of flows.  Wire: a field's bytes are those of its last value.     *)
(* Throttle: a bound on what one interval may still let through.           *)
(* SpraySelect: whatever it reduces by, a lookup is what division makes    *)
(* it, and the predictive shares are even.  WorkerPlan: the plan is fair   *)
(* to the list, because each listed place has one worker in each round.    *)
(***************************************************************************)
EXTENDS Router, Wire, Throttle, SpraySelect, WorkerPlan,
        FiniteSetTheorems, WellFoundedInduction, TLAPS

Update == [flow : Flows, hop : Hops]

\* The flows with a key.
Keyed(k) == {g \in Flows : FlowHash(g) = k}

\* The updates of the flows in F.
UpdatesOf(F) == {i \in DOMAIN updates : updates[i].flow \in F}

\* Each key has the hop of its last update, and key 0 the seed before any.
LastWins ==
  /\ policies = [k \in DOMAIN policies |-> policies[k]]
  /\ \A k : k \in DOMAIN policies <=> k = 0 \/ UpdatesOf(Keyed(k)) # {}
  /\ \A k \in DOMAIN policies : policies[k] = LastOf(Keyed(k), SeedHop)

\* Of the updates of any flows one is the last.
SomeLast ==
  \A F : UpdatesOf(F) # {} => \E i \in UpdatesOf(F) : \A j \in UpdatesOf(F) : j <= i

RouterInv == RouterTypeOK /\ LastWins /\ SomeLast

----------------------------------------------------------------------------
\* LastOf is the hop of the update no other one of those flows follows.
LEMMA LastOfIs ==
  ASSUME updates \in Seq(Update), NEW F, NEW o, NEW i \in UpdatesOf(F),
         \A j \in UpdatesOf(F) : j <= i
  PROVE  LastOf(F, o) = updates[i].hop
<1> DEFINE at == UpdatesOf(F)
           c == CHOOSE k \in at : \A j \in at : j <= k
<1>1. c \in at /\ \A j \in at : j <= c
  OBVIOUS
<1>2. at \subseteq Nat
  BY DEF UpdatesOf
<1>3. c = i
  <2> HIDE DEF c, at
  <2>1. i \in at /\ \A j \in at : j <= i
    BY DEF at
  <2>2. c \in Nat /\ i \in Nat /\ c <= i /\ i <= c
    BY <1>1, <1>2, <2>1
  <2> QED BY <2>2
<1>4. LastOf(F, o) = IF at = {} THEN o ELSE updates[c].hop
  BY DEF LastOf, UpdatesOf
<1> HIDE DEF c
<1> QED BY <1>3, <1>4

LEMMA LastOfNone ==
  ASSUME NEW F, NEW o, UpdatesOf(F) = {}
  PROVE  LastOf(F, o) = o
BY DEF LastOf, UpdatesOf

\* An update more.
LEMMA LastOfAppend ==
  ASSUME updates \in Seq(Update), SomeLast, NEW u \in Update, updates' = Append(updates, u), NEW F
  PROVE  /\ u.flow \in F => /\ UpdatesOf(F)' # {} /\ \A o : LastOf(F, o)' = u.hop
                            /\ \E i \in UpdatesOf(F)' : \A j \in UpdatesOf(F)' : j <= i
         /\ u.flow \notin F =>
              UpdatesOf(F)' = UpdatesOf(F) /\ \A o : LastOf(F, o)' = LastOf(F, o)
<1>1. /\ Len(updates') = Len(updates) + 1 /\ updates'[Len(updates) + 1] = u
      /\ DOMAIN updates' = DOMAIN updates \cup {Len(updates) + 1}
      /\ \A i \in DOMAIN updates : updates'[i] = updates[i]
      /\ Len(updates) + 1 \notin DOMAIN updates
      /\ DOMAIN updates = 1..Len(updates) /\ Len(updates) \in Nat
  OBVIOUS
<1>2. updates' \in Seq(Update)
  OBVIOUS
<1>3. ASSUME u.flow \in F
      PROVE  /\ UpdatesOf(F)' # {} /\ \A o : LastOf(F, o)' = u.hop
             /\ \E i \in UpdatesOf(F)' : \A j \in UpdatesOf(F)' : j <= i
  <2>1. Len(updates) + 1 \in UpdatesOf(F)'
    BY <1>1, <1>3 DEF UpdatesOf
  <2>2. \A j \in UpdatesOf(F)' : j <= Len(updates) + 1
    BY <1>1 DEF UpdatesOf
  <2>3. ASSUME NEW o PROVE LastOf(F, o)' = updates'[Len(updates) + 1].hop
    <3> DEFINE at == UpdatesOf(F)'
               c == CHOOSE k \in at : \A j \in at : j <= k
    <3>1. c \in at /\ \A j \in at : j <= c
      BY <2>1, <2>2
    <3>2. at \subseteq Nat
      BY <1>1 DEF UpdatesOf
    <3>3. LastOf(F, o)' = IF at = {} THEN o ELSE updates'[c].hop
      BY DEF LastOf, UpdatesOf
    <3>4. at # {} /\ c <= Len(updates) + 1 /\ Len(updates) + 1 <= c
      BY <2>1, <2>2, <3>1
    <3> HIDE DEF at, c
    <3>5. c = Len(updates) + 1
      BY <1>1, <3>1, <3>2, <3>4
    <3> QED BY <3>3, <3>4, <3>5
  <2> QED BY <1>1, <2>1, <2>2, <2>3
<1>4. ASSUME u.flow \notin F
      PROVE  UpdatesOf(F)' = UpdatesOf(F) /\ \A o : LastOf(F, o)' = LastOf(F, o)
  <2>1. UpdatesOf(F)' = UpdatesOf(F)
    BY <1>1, <1>4 DEF UpdatesOf
  <2>2. ASSUME NEW o PROVE LastOf(F, o)' = LastOf(F, o)
    <3> DEFINE at == UpdatesOf(F)
               c == CHOOSE k \in at : \A j \in at : j <= k
    <3>1. LastOf(F, o) = IF at = {} THEN o ELSE updates[c].hop
      BY DEF LastOf, UpdatesOf
    <3>2. LastOf(F, o)' = IF at' = {} THEN o ELSE updates'[CHOOSE k \in at' : \A j \in at' : j <= k].hop
      BY DEF LastOf, UpdatesOf
    <3>3. at' = at
      BY <2>1
    <3>4. at # {} => c \in DOMAIN updates
      <4>1. at # {} => c \in at
        BY DEF SomeLast
      <4> QED BY <4>1 DEF UpdatesOf
    <3> HIDE DEF at
    <3> QED BY <1>1, <3>1, <3>2, <3>3, <3>4
  <2> QED BY <2>1, <2>2
<1> QED BY <1>3, <1>4

----------------------------------------------------------------------------
LEMMA RouterInvInit == RouterInit => RouterInv
<1> SUFFICES ASSUME RouterInit PROVE RouterInv
  OBVIOUS
<1>1. DOMAIN policies = {0} /\ policies[0] = SeedHop /\ updates = <<>> /\ DOMAIN updates = {}
  BY DEF RouterInit
<1>2. \A F : UpdatesOf(F) = {}
  BY <1>1 DEF UpdatesOf
<1>3. RouterTypeOK
  BY <1>1, RouterAssumption DEF RouterTypeOK
<1>4. LastWins
  BY <1>1, <1>2, LastOfNone DEF LastWins, RouterInit
<1> QED BY <1>2, <1>3, <1>4 DEF RouterInv, SomeLast

\* insert replaces the hop under the flow's key and no other.
LEMMA UpdateStep ==
  ASSUME RouterInv, NEW f \in Flows, NEW hop \in Hops, UpdatePolicy(f, hop)
  PROVE  RouterInv'
<1> DEFINE k0 == FlowHash(f)
           u == [flow |-> f, hop |-> hop]
<1>1. /\ updates \in Seq(Update) /\ updates' = Append(updates, u) /\ u \in Update
      /\ u.flow = f /\ u.hop = hop /\ Len(updates) < MaxUpdates
  BY DEF RouterInv, RouterTypeOK, UpdatePolicy, Update
<1>2. policies' = [j \in DOMAIN policies \cup {k0} |-> IF j = k0 THEN hop ELSE policies[j]]
  BY DEF UpdatePolicy, Inserted
<1>3. RouterTypeOK'
  <2>1. updates' \in Seq(Update) /\ Len(updates') = Len(updates) + 1
    BY <1>1
  <2>2. Len(updates') <= MaxUpdates
    BY <1>1, <2>1, RouterAssumption
  <2>3. 0 \in DOMAIN policies' /\ \A k \in DOMAIN policies' : policies'[k] \in Hops \cup {SeedHop}
    BY <1>2 DEF RouterInv, RouterTypeOK
  <2> QED BY <2>1, <2>2, <2>3 DEF RouterTypeOK, Update
<1>4. \A k : u.flow \in Keyed(k) <=> k = k0
  BY <1>1 DEF Keyed
<1> HIDE DEF u
<1>5. \A k : IF k = k0 THEN UpdatesOf(Keyed(k))' # {} /\ LastOf(Keyed(k), SeedHop)' = hop
             ELSE /\ UpdatesOf(Keyed(k))' = UpdatesOf(Keyed(k))
                  /\ LastOf(Keyed(k), SeedHop)' = LastOf(Keyed(k), SeedHop)
  <2> TAKE k
  <2> DEFINE F == Keyed(k)
  <2>1. /\ u.flow \in F => UpdatesOf(F)' # {} /\ LastOf(F, SeedHop)' = u.hop
        /\ u.flow \notin F => UpdatesOf(F)' = UpdatesOf(F) /\ LastOf(F, SeedHop)' = LastOf(F, SeedHop)
    BY <1>1, LastOfAppend DEF RouterInv
  <2> QED BY <1>1, <1>4, <2>1
<1> HIDE DEF k0
<1>6. DOMAIN policies' = DOMAIN policies \cup {k0}
  BY <1>2
<1>7. LastWins'
  <2>1. policies' = [k \in DOMAIN policies' |-> policies'[k]]
    BY <1>2
  <2>2. \A k : k \in DOMAIN policies' <=> k = 0 \/ UpdatesOf(Keyed(k))' # {}
    BY <1>5, <1>6 DEF RouterInv, LastWins
  <2>3. ASSUME NEW k \in DOMAIN policies'
        PROVE  policies'[k] = LastOf(Keyed(k), SeedHop)'
    <3>1. CASE k = k0
      BY <1>2, <1>5, <1>6, <3>1
    <3>2. CASE k # k0
      <4>1. k \in DOMAIN policies /\ policies'[k] = policies[k]
        BY <1>2, <1>6, <3>2
      <4> QED BY <1>5, <3>2, <4>1 DEF RouterInv, LastWins
    <3> QED BY <3>1, <3>2
  <2> QED BY <2>1, <2>2, <2>3 DEF LastWins
<1>8. SomeLast'
  <2> SUFFICES ASSUME NEW F, UpdatesOf(F)' # {}
               PROVE  \E i \in UpdatesOf(F)' : \A j \in UpdatesOf(F)' : j <= i
    BY DEF SomeLast
  <2>1. CASE f \in F
    BY <1>1, <2>1, LastOfAppend DEF RouterInv
  <2>2. CASE f \notin F
    <3>1. UpdatesOf(F)' = UpdatesOf(F)
      BY <1>1, <2>2, LastOfAppend DEF RouterInv
    <3> QED BY <3>1 DEF RouterInv, SomeLast
  <2> QED BY <2>1, <2>2
<1> QED BY <1>3, <1>7, <1>8 DEF RouterInv

LEMMA RouterInvStep == RouterInv /\ [RouterNext]_routerVars => RouterInv'
<1> SUFFICES ASSUME RouterInv, [RouterNext]_routerVars PROVE RouterInv'
  OBVIOUS
<1>1. ASSUME NEW f \in Flows, NEW hop \in Hops, UpdatePolicy(f, hop) PROVE RouterInv'
  BY <1>1, UpdateStep
<1>2. CASE UNCHANGED routerVars
  <2>1. policies' = policies /\ updates' = updates
    BY <1>2 DEF routerVars
  <2>2. \A F : UpdatesOf(F)' = UpdatesOf(F) /\ \A o : LastOf(F, o)' = LastOf(F, o)
    BY <2>1 DEF UpdatesOf, LastOf
  <2>3. RouterTypeOK'
    BY <2>1 DEF RouterInv, RouterTypeOK
  <2>4. LastWins'
    BY <2>1, <2>2 DEF RouterInv, LastWins
  <2>5. SomeLast'
    BY <2>2 DEF RouterInv, SomeLast
  <2> QED BY <2>3, <2>4, <2>5 DEF RouterInv
<1> QED BY <1>1, <1>2 DEF RouterNext

LEMMA RouterInvHolds == RouterSpec => []RouterInv
BY RouterInvInit, RouterInvStep, PTL DEF RouterSpec

\* However the words of an XOR are paired, they cancel alike.
LEMMA HashOfReverse ==
  ASSUME NEW f \in Flows
  PROVE  LET back == [src |-> f.dst, dst |-> f.src, label |-> f.label]
         IN  back \in Flows /\ FlowHash(back) = FlowHash(f)
<1>1. f.src \in Ids /\ f.dst \in Ids /\ f.label \in Labels
  BY DEF Flows
<1>2. XorWords(XorOfWords(f.src), XorOfWords(f.dst)) = XorWords(XorOfWords(f.dst), XorOfWords(f.src))
  BY <1>1, RouterAssumption
<1> QED BY <1>1, <1>2 DEF FlowHash, Flows

\* A lookup follows the last update of any flow whose words cancel alike, then
\* of those whose words cancel out, then the seed; a flow and its reverse are
\* answered alike.
THEOREM LookupsByClass == RouterSpec => []PoliciesByClass
<1>1. RouterInv => PoliciesByClass
  <2> SUFFICES ASSUME RouterInv, NEW f \in Flows
      PROVE
        LET words(a) == XorWords(XorWords(a[1], a[2]), XorWords(a[3], a[4]))
            cancel(g) == XorWords(words(g.src), XorWords(words(g.dst), g.label))
            class == {g \in Flows : cancel(g) = cancel(f)}
            default == {g \in Flows : cancel(g) = 0}
        IN  /\ LookupPolicy(f) = LastOf(class, LastOf(default, SeedHop))
            /\ LookupPolicy(f) = LookupPolicy([src |-> f.dst, dst |-> f.src, label |-> f.label])
    BY DEF PoliciesByClass
  <2> DEFINE words(a) == XorWords(XorWords(a[1], a[2]), XorWords(a[3], a[4]))
             cancel(g) == XorWords(words(g.src), XorWords(words(g.dst), g.label))
             class == {g \in Flows : cancel(g) = cancel(f)}
             default == {g \in Flows : cancel(g) = 0}
             back == [src |-> f.dst, dst |-> f.src, label |-> f.label]
  <2>1. \A g \in Flows : cancel(g) = FlowHash(g)
    <3> TAKE g \in Flows
    <3>1. g.src \in Ids /\ g.dst \in Ids /\ g.label \in Labels
      BY DEF Flows
    <3>2. cancel(g) = XorWords(XorOfWords(g.src), XorWords(XorOfWords(g.dst), g.label))
      BY DEF XorOfWords
    <3> QED BY <3>1, <3>2, RouterAssumption DEF FlowHash
  <2> HIDE DEF cancel
  <2>2. class = Keyed(FlowHash(f)) /\ default = Keyed(0)
    BY <2>1 DEF Keyed
  <2>3. back \in Flows /\ FlowHash(back) = FlowHash(f)
    BY HashOfReverse
  <2>4. LookupPolicy(f) = LookupPolicy(back)
    BY <2>3 DEF LookupPolicy
  <2>5. LookupPolicy(f) = LastOf(Keyed(FlowHash(f)), LastOf(Keyed(0), SeedHop))
    <3> DEFINE k == FlowHash(f)
    <3>1. /\ \A j : j \in DOMAIN policies <=> j = 0 \/ UpdatesOf(Keyed(j)) # {}
          /\ \A j \in DOMAIN policies : policies[j] = LastOf(Keyed(j), SeedHop)
          /\ updates \in Seq(Update) /\ 0 \in DOMAIN policies
      BY DEF RouterInv, LastWins, RouterTypeOK, Update
    <3>2. LookupPolicy(f) = IF k \in DOMAIN policies THEN policies[k] ELSE policies[0]
      BY DEF LookupPolicy
    <3> HIDE DEF k
    <3>3. LookupPolicy(f) = LastOf(Keyed(k), LastOf(Keyed(0), SeedHop))
      <4>1. CASE UpdatesOf(Keyed(k)) = {}
        <5>1. LastOf(Keyed(k), LastOf(Keyed(0), SeedHop)) = LastOf(Keyed(0), SeedHop)
          BY <4>1, LastOfNone
        <5>2. policies[0] = LastOf(Keyed(0), SeedHop)
          BY <3>1
        <5>3. k \in DOMAIN policies => k = 0
          BY <3>1, <4>1
        <5> QED BY <3>2, <5>1, <5>2, <5>3
      <4>2. CASE UpdatesOf(Keyed(k)) # {}
        <5>1. PICK i \in UpdatesOf(Keyed(k)) : \A j \in UpdatesOf(Keyed(k)) : j <= i
          BY <4>2 DEF RouterInv, SomeLast
        <5>2. \A o : LastOf(Keyed(k), o) = updates[i].hop
          BY <3>1, <5>1, LastOfIs
        <5>3. policies[k] = LastOf(Keyed(k), SeedHop) /\ k \in DOMAIN policies
          BY <3>1, <4>2
        <5> QED BY <3>2, <5>2, <5>3
      <4> QED BY <4>1, <4>2
    <3> QED BY <3>3 DEF k
  <2>6. LookupPolicy(f) = LastOf(class, LastOf(default, SeedHop)) /\ LookupPolicy(f) = LookupPolicy(back)
    BY <2>2, <2>4, <2>5
  <2> QED BY <2>6 DEF cancel
<1> QED
  BY <1>1, RouterInvHolds, PTL

----------------------------------------------------------------------------
(***************************************************************************)
(* Wire: each field's bytes are those of its last value, because stores    *)
(* touch disjoint ranges below HEADER_SIZE and to_be undoes the host's     *)
(* order.                                                                  *)
(***************************************************************************)

\* The bytes of a field.
Place(f) == Offset(f)..(Offset(f) + Width(f) - 1)

\* A buffer of n bytes that carries a header and zeros.
Carries(b, n, h) ==
  /\ \A f \in Fields, i \in 1..32 : i <= Width(f) => b[Offset(f) + i - 1] = h[f][i]
  /\ \A i \in 0..(n - 1) : i >= HEADER_SIZE => b[i] = 0

Written == \E n \in BufLens : DOMAIN buf = 0..(n - 1) /\ (n >= HEADER_SIZE => Carries(buf, n, header))

WireInv == WireTypeOK /\ Written

LEMMA FieldSizes ==
  ASSUME NEW f \in Fields
  PROVE  /\ Offset(f) \in Nat /\ Width(f) \in Nat /\ Width(f) \in 1..32
         /\ Offset(f) + Width(f) <= HEADER_SIZE
BY DEF Fields, Offset, Width, HEADER_SIZE

LEMMA PlacesApart ==
  ASSUME NEW f \in Fields, NEW g \in Fields, f # g
  PROVE  Offset(f) + Width(f) <= Offset(g) \/ Offset(g) + Width(g) <= Offset(f)
BY DEF Fields, Offset, Width

\* Turned to network order and laid down in the host's, a value lies as it is.
LEMMA TwiceReversed ==
  ASSUME NEW w \in Nat, NEW v \in [1..w -> Bytes]
  PROVE  Reverse(v) \in [1..w -> Bytes] /\ Reverse(Reverse(v)) = v
<1>1. v \in Seq(Bytes) /\ Len(v) = w
  OBVIOUS
<1>2. Reverse(v) = [i \in 1..w |-> v[w - i + 1]]
  BY <1>1 DEF Reverse
<1>3. \A i \in 1..w : w - i + 1 \in 1..w /\ w - (w - i + 1) + 1 = i
  OBVIOUS
<1>4. Reverse(v) \in [1..w -> Bytes]
  BY <1>2, <1>3
<1>5. Len(Reverse(v)) = w
  BY <1>4
<1>6. Reverse(Reverse(v)) = [i \in 1..w |-> Reverse(v)[w - i + 1]]
  BY <1>5 DEF Reverse
<1>7. \A i \in 1..w : Reverse(v)[w - i + 1] = v[i]
  BY <1>2, <1>3
<1> QED BY <1>4, <1>6, <1>7

LEMMA StoreIs ==
  ASSUME NEW f \in Fields, NEW v \in [1..Width(f) -> Bytes], NEW b, NEW c, c = Store(b, f, v)
  PROVE  /\ DOMAIN c = DOMAIN b /\ c = [i \in DOMAIN b |-> c[i]]
         /\ \A i \in DOMAIN b :
              /\ i \in Place(f) => c[i] = v[i - Offset(f) + 1]
              /\ i \notin Place(f) => c[i] = b[i]
<1>1. Width(f) \in Nat
  BY FieldSizes
<1>2. Reverse(Reverse(v)) = v
  BY <1>1, TwiceReversed
<1>3. InMemory(f, SwapToBe(f, v)) = v
  BY <1>2 DEF InMemory, SwapToBe
<1>4. c = [i \in DOMAIN b |-> IF i \in Place(f) THEN v[i - Offset(f) + 1] ELSE b[i]]
  BY <1>3 DEF Store, Place
<1> QED BY <1>4

LEMMA LoadIs ==
  ASSUME NEW f \in Fields, NEW v \in [1..Width(f) -> Bytes], NEW b,
         \A i \in 1..Width(f) : b[Offset(f) + i - 1] = v[i]
  PROVE  Load(b, f) = v
<1>1. [i \in 1..Width(f) |-> b[Offset(f) + i - 1]] = v
  OBVIOUS
<1>2. Width(f) \in Nat
  BY FieldSizes
<1>3. Reverse(Reverse(v)) = v
  BY <1>2, TwiceReversed
<1>4. SwapToBe(f, InMemory(f, v)) = v
  BY <1>3 DEF InMemory, SwapToBe
<1> QED BY <1>1, <1>4 DEF Load

\* A store changes its field and nothing else.
LEMMA StoreKeeps ==
  ASSUME NEW n \in Nat, n >= HEADER_SIZE, NEW b \in [0..(n - 1) -> Bytes],
         NEW f \in Fields, NEW v \in [1..Width(f) -> Bytes]
  PROVE  /\ Store(b, f, v) \in [0..(n - 1) -> Bytes]
         /\ \A i \in 1..32 : i <= Width(f) => Store(b, f, v)[Offset(f) + i - 1] = v[i]
         /\ \A g \in Fields \ {f}, i \in 1..32 :
              i <= Width(g) => Store(b, f, v)[Offset(g) + i - 1] = b[Offset(g) + i - 1]
         /\ \A i \in 0..(n - 1) : i >= HEADER_SIZE => Store(b, f, v)[i] = b[i]
<1>1. PICK at \in Int, w \in Int : at = Offset(f) /\ w = Width(f)
  BY FieldSizes
<1>2. at \in Nat /\ w \in 1..32 /\ at + w <= 96 /\ n >= 96
  BY <1>1, FieldSizes DEF HEADER_SIZE
<1>3. Place(f) = at..(at + w - 1)
  BY <1>1 DEF Place
<1>4. PICK c : c = Store(b, f, v)
  OBVIOUS
<1>5. /\ DOMAIN c = 0..(n - 1) /\ c = [i \in 0..(n - 1) |-> c[i]]
      /\ \A i \in 0..(n - 1) :
           /\ i \in Place(f) => c[i] = v[i - at + 1]
           /\ i \notin Place(f) => c[i] = b[i]
  <2>1. DOMAIN b = 0..(n - 1)
    OBVIOUS
  <2> QED BY <1>1, <1>4, <2>1, StoreIs
<1>6. \A i \in Place(f) : i - at + 1 \in 1..w /\ i \in 0..(n - 1)
  BY <1>2, <1>3
<1>7. c \in [0..(n - 1) -> Bytes]
  BY <1>1, <1>5, <1>6
<1>8. ASSUME NEW i \in 1..32, i <= w PROVE c[at + i - 1] = v[i]
  <2>1. at + i - 1 \in Place(f) /\ (at + i - 1) - at + 1 = i
    BY <1>2, <1>3, <1>8
  <2> QED BY <1>5, <1>6, <2>1
<1>9. ASSUME NEW g \in Fields \ {f}, NEW i \in 1..32, i <= Width(g)
      PROVE  c[Offset(g) + i - 1] = b[Offset(g) + i - 1]
  <2>1. PICK x \in Int, y \in Int : x = Offset(g) /\ y = Width(g)
    BY FieldSizes
  <2>2. x \in Nat /\ y \in 1..32 /\ x + y <= 96
    BY <2>1, FieldSizes DEF HEADER_SIZE
  <2>3. at + w <= x \/ x + y <= at
    BY <1>1, <2>1, PlacesApart
  <2>4. x + i - 1 \notin Place(f) /\ x + i - 1 \in 0..(n - 1)
    <3>1. i <= y
      BY <1>9, <2>1
    <3>2. x + i - 1 \in x..(x + y - 1) /\ x + i - 1 \in 0..(n - 1)
      BY <1>2, <2>2, <3>1
    <3> QED BY <1>2, <1>3, <2>2, <2>3, <3>2
  <2>5. c[x + i - 1] = b[x + i - 1]
    BY <1>5, <2>4
  <2> QED BY <2>1, <2>5
<1>10. ASSUME NEW i \in 0..(n - 1), i >= HEADER_SIZE PROVE c[i] = b[i]
  <2>1. i \notin Place(f)
    BY <1>2, <1>3, <1>10 DEF HEADER_SIZE
  <2> QED BY <1>5, <2>1
<1> QED BY <1>1, <1>4, <1>7, <1>8, <1>9, <1>10

----------------------------------------------------------------------------
\* The fields in F have been stored, and nothing after the header has.
Stored(b, n, h, F) ==
  /\ b \in [0..(n - 1) -> Bytes]
  /\ \A f \in F, i \in 1..32 : i <= Width(f) => b[Offset(f) + i - 1] = h[f][i]
  /\ \A i \in 0..(n - 1) : i >= HEADER_SIZE => b[i] = 0

LEMMA StoreMore ==
  ASSUME NEW n \in Nat, n >= HEADER_SIZE, NEW b, NEW h, NEW F \in SUBSET Fields, NEW f \in Fields,
         h[f] \in [1..Width(f) -> Bytes], Stored(b, n, h, F)
  PROVE  Stored(Store(b, f, h[f]), n, h, F \cup {f})
<1>1. PICK v \in [1..Width(f) -> Bytes] : v = h[f]
  OBVIOUS
<1>2. b \in [0..(n - 1) -> Bytes]
  BY DEF Stored
<1>3. PICK c : c = Store(b, f, v)
  OBVIOUS
<1>4. /\ c \in [0..(n - 1) -> Bytes]
      /\ \A i \in 1..32 : i <= Width(f) => c[Offset(f) + i - 1] = v[i]
      /\ \A g \in Fields \ {f}, i \in 1..32 : i <= Width(g) => c[Offset(g) + i - 1] = b[Offset(g) + i - 1]
      /\ \A i \in 0..(n - 1) : i >= HEADER_SIZE => c[i] = b[i]
  <2>1. /\ Store(b, f, v) \in [0..(n - 1) -> Bytes]
        /\ \A i \in 1..32 : i <= Width(f) => Store(b, f, v)[Offset(f) + i - 1] = v[i]
        /\ \A g \in Fields \ {f}, i \in 1..32 :
             i <= Width(g) => Store(b, f, v)[Offset(g) + i - 1] = b[Offset(g) + i - 1]
        /\ \A i \in 0..(n - 1) : i >= HEADER_SIZE => Store(b, f, v)[i] = b[i]
    BY <1>2, StoreKeeps
  <2> QED BY <1>3, <2>1
<1>5. Stored(c, n, h, F \cup {f})
  <2>1. ASSUME NEW g \in F \cup {f}, NEW i \in 1..32, i <= Width(g)
        PROVE  c[Offset(g) + i - 1] = h[g][i]
    <3>1. CASE g = f
      BY <1>1, <1>4, <2>1, <3>1
    <3>2. CASE g # f
      <4>1. g \in F /\ g \in Fields \ {f}
        BY <3>2
      <4>2. c[Offset(g) + i - 1] = b[Offset(g) + i - 1]
        BY <1>4, <2>1, <4>1
      <4>3. b[Offset(g) + i - 1] = h[g][i]
        BY <2>1, <4>1 DEF Stored
      <4> QED BY <4>2, <4>3
    <3> QED BY <3>1, <3>2
  <2> QED BY <1>4, <2>1 DEF Stored
<1> QED BY <1>1, <1>3, <1>5

LEMMA MarshalIs ==
  ASSUME NEW n \in Nat, n >= HEADER_SIZE, NEW b, NEW h, Stored(b, n, h, {}),
         \A f \in Fields : h[f] \in [1..Width(f) -> Bytes]
  PROVE  Stored(Marshal(b, h), n, h, Fields)
<1> DEFINE put(c, f) == Store(c, f, h[f])
           c1 == put(b, "src_id")
           c2 == put(c1, "dst_id")
           c3 == put(c2, "flow_label")
           c4 == put(c3, "seq_num")
           c5 == put(c4, "session_id")
           c6 == put(c5, "flags")
           c7 == put(c6, "length")
<1>1. Marshal(b, h) = c7
  BY DEF Marshal
<1>2. \A c, F, f : F \subseteq Fields /\ f \in Fields /\ Stored(c, n, h, F) => Stored(put(c, f), n, h, F \cup {f})
  BY StoreMore
<1> HIDE DEF put
<1>3. Stored(c1, n, h, {"src_id"})
  BY <1>2 DEF Fields
<1> HIDE DEF c1
<1>4. Stored(c2, n, h, {"src_id"} \cup {"dst_id"})
  BY <1>2, <1>3 DEF Fields
<1> HIDE DEF c2
<1>5. Stored(c3, n, h, {"src_id"} \cup {"dst_id"} \cup {"flow_label"})
  BY <1>2, <1>4 DEF Fields
<1> HIDE DEF c3
<1>6. Stored(c4, n, h, {"src_id"} \cup {"dst_id"} \cup {"flow_label"} \cup {"seq_num"})
  BY <1>2, <1>5 DEF Fields
<1> HIDE DEF c4
<1>7. Stored(c5, n, h, {"src_id"} \cup {"dst_id"} \cup {"flow_label"} \cup {"seq_num"} \cup {"session_id"})
  BY <1>2, <1>6 DEF Fields
<1> HIDE DEF c5
<1>8. Stored(c6, n, h, {"src_id"} \cup {"dst_id"} \cup {"flow_label"} \cup {"seq_num"} \cup {"session_id"}
                       \cup {"flags"})
  BY <1>2, <1>7 DEF Fields
<1> HIDE DEF c6
<1>9. Stored(c7, n, h, {"src_id"} \cup {"dst_id"} \cup {"flow_label"} \cup {"seq_num"} \cup {"session_id"}
                       \cup {"flags"} \cup {"length"})
  BY <1>2, <1>8 DEF Fields
<1>10. {"src_id"} \cup {"dst_id"} \cup {"flow_label"} \cup {"seq_num"} \cup {"session_id"}
         \cup {"flags"} \cup {"length"} = Fields
  BY DEF Fields
<1> QED BY <1>1, <1>9, <1>10

----------------------------------------------------------------------------
LEMMA WireInvInit == WireInit => WireInv
<1> SUFFICES ASSUME WireInit PROVE WireInv
  OBVIOUS
<1>1. PICK n \in BufLens : buf = [i \in 0..(n - 1) |-> 0]
  BY DEF WireInit
<1>2. n \in Nat /\ header = [f \in Fields |-> ZeroValue(f)] /\ 0 \in Bytes
  BY WireAssumption DEF WireInit, Bytes
<1>3. \A f \in Fields : header[f] = [i \in 1..Width(f) |-> 0]
  BY <1>2 DEF ZeroValue
<1>4. WireTypeOK
  <2>1. \A f \in Fields : header[f] \in [1..Width(f) -> Bytes]
    BY <1>2, <1>3
  <2> QED BY <1>1, <1>2, <2>1 DEF WireTypeOK
<1>5. ASSUME n >= HEADER_SIZE PROVE Carries(buf, n, header)
  <2>1. ASSUME NEW f \in Fields, NEW i \in 1..32, i <= Width(f)
        PROVE  buf[Offset(f) + i - 1] = header[f][i]
    <3>1. PICK at \in Int, w \in Int : at = Offset(f) /\ w = Width(f)
      BY FieldSizes
    <3>2. at \in Nat /\ w \in 1..32 /\ at + w <= 96 /\ n >= 96
      BY <1>5, <3>1, FieldSizes DEF HEADER_SIZE
    <3>3. at + i - 1 \in 0..(n - 1)
      BY <1>2, <2>1, <3>1, <3>2
    <3>4. i \in 1..Width(f)
      BY <2>1, FieldSizes
    <3> QED BY <1>1, <1>3, <3>1, <3>3, <3>4
  <2> QED BY <1>1, <2>1 DEF Carries
<1>6. Written
  BY <1>1, <1>5 DEF Written
<1> QED BY <1>4, <1>6 DEF WireInv

\* The length is what the headers' checks see.
LEMMA LengthOf ==
  ASSUME NEW n \in Nat, DOMAIN buf = 0..(n - 1)
  PROVE  Cardinality(DOMAIN buf) = n
<1>1. n - 1 \in Int /\ 0 \in Int
  OBVIOUS
<1>2. Cardinality(0..(n - 1)) = IF 0 > n - 1 THEN 0 ELSE (n - 1) - 0 + 1
  BY <1>1, FS_Interval
<1> QED BY <1>2

LEMMA MarshalStep ==
  ASSUME WireInv, NEW h, MarshalInto(h), h = [f \in Fields |-> h[f]],
         \A f \in Fields : h[f] \in [1..Width(f) -> Bytes]
  PROVE  WireInv'
<1>1. PICK n \in BufLens : DOMAIN buf = 0..(n - 1) /\ (n >= HEADER_SIZE => Carries(buf, n, header))
  BY DEF WireInv, Written
<1>2. n \in Nat
  BY WireAssumption
<1>3. n >= HEADER_SIZE /\ buf' = Marshal(buf, h) /\ header' = h
  BY <1>1, <1>2, LengthOf DEF MarshalInto, LongEnough
<1>4. buf \in [0..(n - 1) -> Bytes]
  BY <1>1 DEF WireInv, WireTypeOK
<1>5. Stored(buf, n, h, {})
  BY <1>1, <1>3, <1>4 DEF Stored, Carries
<1>6. Stored(buf', n, h, Fields)
  BY <1>2, <1>3, <1>5, MarshalIs
<1>7. WireTypeOK'
  BY <1>3, <1>6 DEF WireTypeOK, Stored
<1>8. Written'
  <2>1. DOMAIN buf' = 0..(n - 1) /\ Carries(buf', n, header')
    BY <1>3, <1>6 DEF Stored, Carries
  <2> QED BY <2>1 DEF Written
<1> QED BY <1>7, <1>8 DEF WireInv

LEMMA SetFieldStep ==
  ASSUME WireInv, NEW f \in Fields, NEW v \in [1..Width(f) -> Bytes], SetField(f, v)
  PROVE  WireInv'
<1>1. PICK n \in BufLens : DOMAIN buf = 0..(n - 1) /\ (n >= HEADER_SIZE => Carries(buf, n, header))
  BY DEF WireInv, Written
<1>2. n \in Nat
  BY WireAssumption
<1>3. n >= HEADER_SIZE /\ buf' = Store(buf, f, v) /\ header' = [header EXCEPT ![f] = v]
  BY <1>1, <1>2, LengthOf DEF SetField, LongEnough
<1>4. /\ buf \in [0..(n - 1) -> Bytes] /\ header = [g \in Fields |-> header[g]]
      /\ \A g \in Fields : header[g] \in [1..Width(g) -> Bytes]
  BY <1>1 DEF WireInv, WireTypeOK
<1>5. /\ header' = [g \in Fields |-> header'[g]] /\ header'[f] = v
      /\ \A g \in Fields \ {f} : header'[g] = header[g]
      /\ \A g \in Fields : header'[g] \in [1..Width(g) -> Bytes]
  BY <1>3, <1>4
<1>6. Stored(buf, n, header', Fields \ {f})
  BY <1>1, <1>3, <1>4, <1>5 DEF Stored, Carries
<1>7. Stored(buf', n, header', Fields)
  <2>1. Stored(Store(buf, f, header'[f]), n, header', (Fields \ {f}) \cup {f})
    BY <1>2, <1>3, <1>5, <1>6, StoreMore
  <2>2. (Fields \ {f}) \cup {f} = Fields
    OBVIOUS
  <2> QED BY <1>3, <1>5, <2>1, <2>2
<1>8. WireTypeOK'
  BY <1>5, <1>7 DEF WireTypeOK, Stored
<1>9. Written'
  <2>1. DOMAIN buf' = 0..(n - 1) /\ Carries(buf', n, header')
    BY <1>7 DEF Stored, Carries
  <2> QED BY <2>1 DEF Written
<1> QED BY <1>8, <1>9 DEF WireInv

LEMMA WireInvStep == WireInv /\ [WireNext]_wireVars => WireInv'
<1> SUFFICES ASSUME WireInv, [WireNext]_wireVars PROVE WireInv'
  OBVIOUS
<1>1. CASE UNCHANGED wireVars
  BY <1>1 DEF wireVars, WireInv, WireTypeOK, Written
<1>2. ASSUME NEW f \in Fields, NEW v \in Values(f), SetField(f, v) PROVE WireInv'
  <2>1. v \in [1..Width(f) -> Bytes]
    BY WireAssumption
  <2> QED BY <1>2, <2>1, SetFieldStep
<1>3. ASSUME NEW f \in Fields, NEW v \in Values(f),
             MarshalInto([g \in Fields |-> IF g = f THEN v ELSE ZeroValue(g)])
      PROVE  WireInv'
  <2> DEFINE h == [g \in Fields |-> IF g = f THEN v ELSE ZeroValue(g)]
  <2>1. v \in [1..Width(f) -> Bytes]
    BY WireAssumption
  <2>2. \A g \in Fields : ZeroValue(g) \in [1..Width(g) -> Bytes]
    BY DEF ZeroValue, Bytes
  <2>3. h = [g \in Fields |-> h[g]] /\ \A g \in Fields : h[g] \in [1..Width(g) -> Bytes]
    BY <2>1, <2>2
  <2>4. MarshalInto(h)
    BY <1>3
  <2> HIDE DEF h
  <2> QED BY <2>3, <2>4, MarshalStep
<1> QED BY <1>1, <1>2, <1>3 DEF WireNext, TooShort

LEMMA WireInvHolds == WireSpec => []WireInv
BY WireInvInit, WireInvStep, PTL DEF WireSpec

\* What is written field by field or at once is what parse and the getters
\* read, in network order at its place, on a host of either order; bytes after
\* the header stay untouched.
THEOREM FieldsKeepTheirPlaces == WireSpec => []WireRoundTrip
<1>1. WireInv => WireRoundTrip
  <2> SUFFICES ASSUME WireInv, LongEnough
      PROVE
        /\ Parse(buf) = header
        /\ \A f \in Fields, i \in 1..32 : i <= Width(f) => buf[Offset(f) + i - 1] = header[f][i]
        /\ \A i \in DOMAIN buf : i >= HEADER_SIZE => buf[i] = 0
    BY DEF WireRoundTrip
  <2>1. PICK n \in BufLens : DOMAIN buf = 0..(n - 1) /\ (n >= HEADER_SIZE => Carries(buf, n, header))
    BY DEF WireInv, Written
  <2>2. n \in Nat
    BY WireAssumption
  <2>3. n >= HEADER_SIZE
    BY <2>1, <2>2, LengthOf DEF LongEnough
  <2>4. ASSUME NEW f \in Fields PROVE Load(buf, f) = header[f]
    <3>1. header[f] \in [1..Width(f) -> Bytes]
      BY DEF WireInv, WireTypeOK
    <3>2. PICK v \in [1..Width(f) -> Bytes] : v = header[f]
      BY <3>1
    <3>3. \A i \in 1..Width(f) : i \in 1..32 /\ i <= Width(f)
      <4>1. PICK w \in Int : w = Width(f)
        BY FieldSizes
      <4>2. w \in 1..32
        BY <4>1, FieldSizes
      <4>3. \A i \in 1..w : i \in 1..32 /\ i <= w
        BY <4>2
      <4> QED BY <4>1, <4>3
    <3>4. \A i \in 1..Width(f) : buf[Offset(f) + i - 1] = v[i]
      BY <2>1, <2>3, <3>2, <3>3 DEF Carries
    <3>5. Load(buf, f) = v
      BY <3>4, LoadIs
    <3> QED BY <3>2, <3>5
  <2>5. Parse(buf) = header
    <3>1. header = [f \in Fields |-> header[f]]
      BY DEF WireInv, WireTypeOK
    <3> QED BY <2>4, <3>1 DEF Parse
  <2> QED BY <2>1, <2>3, <2>5 DEF Carries
<1> QED
  BY <1>1, WireInvHolds, PTL

----------------------------------------------------------------------------
(***************************************************************************)
(* Throttle: what an interval that starts at t may still let through.  A   *)
(* call whose clock reading is before t is late: when it stores, the gate  *)
(* is open again for those that load next.  Of m threads that are not late *)
(* each may pass once while the gate is open, and every late one adds to   *)
(* them when it returns.                                                   *)
(***************************************************************************)

Burst(t) == {p \in allowed : p[1] >= t /\ p[1] < t + RateLimitNs}

Late(t) == {x \in Threads : step[x] # "idle" /\ locals[x].now < t}

Timely(t) == Threads \ Late(t)

\* The calls that will pass whatever others do.
Armed(t) ==
  {x \in Threads : /\ step[x] = "decide" /\ locals[x].last_seen < t
                   /\ locals[x].now >= t /\ locals[x].now < t + RateLimitNs}

Gate(t) == last_packet_time < t

Budget(t) ==
  LET m == Cardinality(Timely(t))
      c == Cardinality(Burst(t))
  IN  IF Gate(t) THEN 2 * c <= m * (m - 1)
                 ELSE 2 * (c + Cardinality(Armed(t))) <= m * (m + 1)

\* Nothing is ahead of the clock.
NothingAhead ==
  /\ last_packet_time <= now
  /\ \A x \in Threads : step[x] # "idle" => locals[x].now <= now
  /\ \A p \in allowed : p[1] <= now

ThrottleInv ==
  /\ ClockTypeOK /\ ThrottleTypeOK
  /\ ~adjusted => NothingAhead /\ \A t \in 1..MaxTime : Budget(t)

LEMMA Finite ==
  ASSUME ThrottleTypeOK, NEW t \in 1..MaxTime
  PROVE  /\ IsFiniteSet(Timely(t)) /\ IsFiniteSet(Burst(t)) /\ IsFiniteSet(Armed(t))
         /\ Cardinality(Timely(t)) \in Nat /\ Cardinality(Burst(t)) \in Nat
         /\ Cardinality(Armed(t)) \in Nat
         /\ Cardinality(Armed(t)) <= Cardinality(Timely(t))
         /\ Cardinality(Timely(t)) <= Cardinality(Threads) /\ Cardinality(Threads) \in Nat
<1>1. IsFiniteSet(Threads) /\ IsFiniteSet(allowed)
  BY ThrottleAssumption DEF ThrottleTypeOK
<1>2. \A x \in Threads : locals[x].now \in Int
  BY ClockAssumption DEF ThrottleTypeOK, Locals
<1>3. t \in Int
  BY ClockAssumption
<1>4. Timely(t) \in SUBSET Threads /\ Burst(t) \in SUBSET allowed
  BY DEF Timely, Burst
<1>5. Armed(t) \in SUBSET Timely(t)
  BY <1>2, <1>3 DEF Armed, Timely, Late
<1>6. /\ IsFiniteSet(Timely(t)) /\ IsFiniteSet(Burst(t))
      /\ Cardinality(Timely(t)) <= Cardinality(Threads)
  BY <1>1, <1>4, FS_Subset
<1>7. IsFiniteSet(Armed(t)) /\ Cardinality(Armed(t)) <= Cardinality(Timely(t))
  BY <1>5, <1>6, FS_Subset
<1> QED BY <1>1, <1>6, <1>7, FS_CardinalityType

\* One more thread that is not late keeps the bound of an open gate, and the
\* last one to pass closes it.
LEMMA Squares ==
  ASSUME NEW m \in Nat, NEW c \in Nat, NEW a \in Nat, a <= m
  PROVE  /\ 2 * c <= m * (m - 1) => 2 * (c + a) <= m * (m + 1)
         /\ 2 * c <= m * (m - 1) => 2 * c <= (m + 1) * ((m + 1) - 1)
         /\ 2 * (c + a) <= m * (m + 1) => 2 * c <= (m + 1) * ((m + 1) - 1)
         /\ 2 * c <= m * (m - 1) => 2 * c <= m * (m + 1)
<1>1. m * (m + 1) = m * m + m /\ m * (m - 1) = m * m - m /\ (m + 1) * ((m + 1) - 1) = m * m + m
  OBVIOUS
<1>2. PICK s \in Int : s = m * m
  OBVIOUS
<1> QED BY <1>1, <1>2

LEMMA SquaresGrow ==
  ASSUME NEW m \in Nat, NEW n \in Nat, m <= n
  PROVE  m * (m + 1) <= n * (n + 1)
<1>1. PICK d \in Nat : n = m + d
  <2>1. n - m \in Nat /\ n = m + (n - m)
    OBVIOUS
  <2> QED BY <2>1
<1>2. (m + d) * ((m + d) + 1) = m * (m + 1) + (2 * (m * d) + d * d + d)
  OBVIOUS
<1>3. m * d \in Nat /\ d * d \in Nat
  OBVIOUS
<1>4. PICK x \in Int, y \in Int, z \in Int : x = m * d /\ y = d * d /\ z = m * (m + 1)
  OBVIOUS
<1>5. z <= z + (2 * x + y + d)
  BY <1>3, <1>4
<1> QED BY <1>1, <1>2, <1>4, <1>5

LEMMA Consecutive ==
  ASSUME NEW k \in Nat
  PROVE  2 * 0 <= k * (k - 1) /\ 2 * 0 <= k * (k + 1)
<1>1. k * (k - 1) >= 0
  <2>1. CASE k = 0
    BY <2>1
  <2>2. CASE k # 0
    <3>1. k - 1 \in Nat
      BY <2>2
    <3> QED BY <3>1
  <2> QED BY <2>1, <2>2
<1>2. k * (k + 1) >= 0
  OBVIOUS
<1> QED BY <1>1, <1>2

LEMMA CallTypes ==
  ASSUME ThrottleInv
  PROVE  /\ MaxTime \in Nat /\ RateLimitNs \in Nat \ {0}
         /\ now \in Int /\ last_packet_time \in 0..MaxTime
         /\ \A x \in Threads : /\ locals[x] \in Locals
                               /\ locals[x].now \in 0..MaxTime /\ locals[x].last_seen \in 0..MaxTime
         /\ \A p \in allowed : p[1] \in 0..MaxTime
         /\ 1..MaxTime \subseteq Int
BY ClockAssumption, ThrottleAssumption DEF ThrottleInv, ThrottleTypeOK, ClockTypeOK, Locals

\* Only the clock's own steps change it, and only one way to change it counts.
LEMMA ReadClockStep ==
  ASSUME ThrottleInv, NEW x \in Threads, ReadClock(x), UNCHANGED clockVars
  PROVE  ThrottleInv'
<1>1. /\ step[x] = "idle" /\ step' = [step EXCEPT ![x] = "load"]
      /\ locals' = [locals EXCEPT ![x] = [now |-> now, last_seen |-> 0]]
      /\ last_packet_time' = last_packet_time /\ allowed' = allowed
      /\ GLOBAL_SEQ_COUNTER' = GLOBAL_SEQ_COUNTER /\ now' = now /\ adjusted' = adjusted
  BY DEF ReadClock, clockVars
<1>2. step \in [Threads -> {"idle", "load", "decide"}] /\ locals \in [Threads -> Locals] /\ now \in 1..MaxTime
  BY DEF ThrottleInv, ThrottleTypeOK, ClockTypeOK
<1>3. [now |-> now, last_seen |-> 0] \in Locals
  BY <1>2, ClockAssumption DEF Locals
<1>4. ClockTypeOK' /\ ThrottleTypeOK'
  BY <1>1, <1>2, <1>3 DEF ThrottleInv, ThrottleTypeOK, ClockTypeOK
<1>5. ASSUME ~adjusted' PROVE NothingAhead' /\ \A t \in 1..MaxTime : Budget(t)'
  <2>1. NothingAhead /\ \A t \in 1..MaxTime : Budget(t)
    BY <1>1, <1>5 DEF ThrottleInv
  <2>2. NothingAhead'
    BY <1>1, <1>2, <2>1 DEF NothingAhead
  <2>3. ASSUME NEW t \in 1..MaxTime PROVE Budget(t)'
    <3>1. /\ Burst(t)' = Burst(t) /\ Gate(t)' = Gate(t)
      BY <1>1 DEF Burst, Gate
    <3>2. Armed(t)' = Armed(t)
      BY <1>1, <1>2 DEF Armed
    <3>3. CASE now >= t
      <4>1. Timely(t)' = Timely(t)
        BY <1>1, <1>2, <3>3, CallTypes DEF Timely, Late
      <4> QED BY <2>1, <3>1, <3>2, <4>1 DEF Budget
    <3>4. CASE now < t
      <4>1. Burst(t) = {}
        BY <2>1, <3>4, CallTypes DEF Burst, NothingAhead
      <4>2. Gate(t)
        BY <2>1, <3>4, CallTypes DEF Gate, NothingAhead
      <4>3. IsFiniteSet(Timely(t)')
        <5>1. Timely(t)' \in SUBSET Threads
          BY DEF Timely
        <5> QED BY <5>1, FS_Subset, ThrottleAssumption
      <4>4. Cardinality(Timely(t)') \in Nat
        BY <4>3, FS_CardinalityType
      <4>5. Cardinality(Burst(t)') = 0
        BY <3>1, <4>1, FS_EmptySet
      <4>6. 2 * 0 <= Cardinality(Timely(t)') * (Cardinality(Timely(t)') - 1)
        BY <4>4, Consecutive
      <4> QED BY <3>1, <4>2, <4>5, <4>6 DEF Budget
    <3> QED BY <3>3, <3>4, CallTypes
  <2> QED BY <2>2, <2>3
<1> QED BY <1>4, <1>5 DEF ThrottleInv

\* Who loads while the gate is open is armed; an open gate reckons with it.
LEMMA LoadLastStep ==
  ASSUME ThrottleInv, NEW x \in Threads, LoadLast(x), UNCHANGED clockVars
  PROVE  ThrottleInv'
<1>1. /\ step[x] = "load" /\ step' = [step EXCEPT ![x] = "decide"]
      /\ locals' = [locals EXCEPT ![x].last_seen = last_packet_time]
      /\ last_packet_time' = last_packet_time /\ allowed' = allowed
      /\ GLOBAL_SEQ_COUNTER' = GLOBAL_SEQ_COUNTER /\ now' = now /\ adjusted' = adjusted
  BY DEF LoadLast, clockVars
<1>2. step \in [Threads -> {"idle", "load", "decide"}] /\ locals \in [Threads -> Locals]
  BY DEF ThrottleInv, ThrottleTypeOK
<1>3. /\ locals'[x].now = locals[x].now /\ locals'[x].last_seen = last_packet_time
      /\ \A y \in Threads \ {x} : locals'[y] = locals[y] /\ step'[y] = step[y]
      /\ step'[x] = "decide"
  BY <1>1, <1>2 DEF Locals
<1>4. locals' \in [Threads -> Locals]
  BY <1>1, <1>2, CallTypes DEF Locals
<1>5. ClockTypeOK' /\ ThrottleTypeOK'
  BY <1>1, <1>2, <1>4 DEF ThrottleInv, ThrottleTypeOK, ClockTypeOK
<1>6. ASSUME ~adjusted' PROVE NothingAhead' /\ \A t \in 1..MaxTime : Budget(t)'
  <2>1. NothingAhead /\ \A t \in 1..MaxTime : Budget(t)
    BY <1>1, <1>6 DEF ThrottleInv
  <2>2. NothingAhead'
    BY <1>1, <1>2, <1>3, <2>1 DEF NothingAhead
  <2>3. ASSUME NEW t \in 1..MaxTime PROVE Budget(t)'
    <3>1. /\ Burst(t)' = Burst(t) /\ Gate(t)' = Gate(t)
      BY <1>1 DEF Burst, Gate
    <3>2. Timely(t)' = Timely(t)
      BY <1>1, <1>3 DEF Timely, Late
    <3>3. ~Gate(t) => Armed(t)' = Armed(t)
      BY <1>1, <1>3 DEF Armed, Gate
    <3> QED BY <2>1, <3>1, <3>2, <3>3 DEF Budget
  <2> QED BY <2>2, <2>3
<1> QED BY <1>5, <1>6 DEF ThrottleInv

\* A thread that is late no more, and one less that is armed.
LEMMA MoreTimely ==
  ASSUME ThrottleInv, NEW t \in 1..MaxTime, Budget(t), NEW x,
         Burst(t)' = Burst(t), Gate(t)' = Gate(t),
         Timely(t)' = Timely(t) \cup {x}, Armed(t)' = Armed(t) \ {x}
  PROVE  Budget(t)'
<1>1. ThrottleTypeOK
  BY DEF ThrottleInv
<1>2. PICK m \in Nat, c \in Nat, a \in Nat :
        m = Cardinality(Timely(t)) /\ c = Cardinality(Burst(t)) /\ a = Cardinality(Armed(t)) /\ a <= m
  BY <1>1, Finite
<1>3. PICK m2 \in Nat : m2 = Cardinality(Timely(t)') /\ m2 \in {m, m + 1}
  <2>1. IsFiniteSet(Timely(t))
    BY <1>1, Finite
  <2>2. PICK S : S = Timely(t)
    OBVIOUS
  <2>3. Cardinality(S \cup {x}) = IF x \in S THEN Cardinality(S) ELSE Cardinality(S) + 1
    BY <2>1, <2>2, FS_AddElement
  <2>4. Cardinality(S) = m /\ Timely(t)' = S \cup {x}
    BY <1>2, <2>2
  <2> QED BY <2>3, <2>4
<1>4. PICK a2 \in Nat : a2 = Cardinality(Armed(t)') /\ a2 <= a
  <2>1. IsFiniteSet(Armed(t))
    BY <1>1, Finite
  <2>2. Armed(t)' \in SUBSET Armed(t)
    OBVIOUS
  <2>3. IsFiniteSet(Armed(t)') /\ Cardinality(Armed(t)') <= a
    BY <1>2, <2>1, <2>2, FS_Subset
  <2> QED BY <2>3, FS_CardinalityType
<1>5. IF Gate(t) THEN 2 * c <= m * (m - 1) ELSE 2 * (c + a) <= m * (m + 1)
  BY <1>2 DEF Budget
<1>6. IF Gate(t) THEN 2 * c <= m2 * (m2 - 1) ELSE 2 * (c + a2) <= m2 * (m2 + 1)
  <2>1. CASE Gate(t)
    BY <1>2, <1>3, <1>5, <2>1, Squares
  <2>2. CASE ~Gate(t)
    <3>1. m * (m + 1) <= m2 * (m2 + 1)
      BY <1>3, SquaresGrow
    <3>2. 2 * (c + a2) <= 2 * (c + a)
      BY <1>2, <1>4
    <3>3. PICK k \in Int, l \in Int : k = m * (m + 1) /\ l = m2 * (m2 + 1)
      BY <1>2, <1>3
    <3>4. 2 * (c + a) <= k /\ k <= l
      BY <1>5, <2>2, <3>1, <3>3
    <3>5. 2 * (c + a2) <= l
      <4>1. \A u, w, y, z \in Int : u <= w /\ w <= y /\ y <= z => u <= z
        OBVIOUS
      <4>2. 2 * (c + a2) \in Int /\ 2 * (c + a) \in Int
        BY <1>2, <1>4
      <4> QED BY <3>2, <3>3, <3>4, <4>1, <4>2
    <3> QED BY <2>2, <3>3, <3>5
  <2> QED BY <2>1, <2>2
<1>7. Cardinality(Burst(t)') = c
  BY <1>2
<1>8. IF Gate(t)' THEN 2 * Cardinality(Burst(t)') <= Cardinality(Timely(t)') * (Cardinality(Timely(t)') - 1)
                  ELSE 2 * (Cardinality(Burst(t)') + Cardinality(Armed(t)'))
                         <= Cardinality(Timely(t)') * (Cardinality(Timely(t)') + 1)
  <2>1. CASE Gate(t)
    BY <1>3, <1>6, <1>7, <2>1
  <2>2. CASE ~Gate(t)
    BY <1>3, <1>4, <1>6, <1>7, <2>2
  <2> QED BY <2>1, <2>2
<1> QED BY <1>8 DEF Budget

\* A call that returns leaves its thread idle.
LEMMA ReturnedIs ==
  ASSUME ThrottleInv, NEW x \in Threads, Returned(x)
  PROVE  /\ step' \in [Threads -> {"idle", "load", "decide"}] /\ locals' \in [Threads -> Locals]
         /\ step'[x] = "idle"
         /\ \A y \in Threads \ {x} : locals'[y] = locals[y] /\ step'[y] = step[y]
         /\ \A t \in 1..MaxTime : Timely(t)' = Timely(t) \cup {x} /\ Armed(t)' = Armed(t) \ {x}
<1>1. step \in [Threads -> {"idle", "load", "decide"}] /\ locals \in [Threads -> Locals]
  BY DEF ThrottleInv, ThrottleTypeOK
<1>2. [now |-> 0, last_seen |-> 0] \in Locals
  BY ClockAssumption DEF Locals
<1>3. /\ step' \in [Threads -> {"idle", "load", "decide"}] /\ locals' \in [Threads -> Locals]
      /\ step'[x] = "idle"
      /\ \A y \in Threads \ {x} : locals'[y] = locals[y] /\ step'[y] = step[y]
  BY <1>1, <1>2 DEF Returned
<1>4. ASSUME NEW t \in 1..MaxTime
      PROVE  Timely(t)' = Timely(t) \cup {x} /\ Armed(t)' = Armed(t) \ {x}
  BY <1>3 DEF Timely, Late, Armed
<1> QED BY <1>3, <1>4

LEMMA RefuseStep ==
  ASSUME ThrottleInv, NEW x \in Threads, Refuse(x), UNCHANGED clockVars
  PROVE  ThrottleInv'
<1>1. /\ Returned(x) /\ last_packet_time' = last_packet_time /\ allowed' = allowed
      /\ GLOBAL_SEQ_COUNTER' = GLOBAL_SEQ_COUNTER /\ now' = now /\ adjusted' = adjusted
  BY DEF Refuse, clockVars
<1>2. ClockTypeOK' /\ ThrottleTypeOK'
  BY <1>1, ReturnedIs DEF ThrottleInv, ThrottleTypeOK, ClockTypeOK
<1>3. ASSUME ~adjusted' PROVE NothingAhead' /\ \A t \in 1..MaxTime : Budget(t)'
  <2>1. NothingAhead /\ \A t \in 1..MaxTime : Budget(t)
    BY <1>1, <1>3 DEF ThrottleInv
  <2>2. NothingAhead'
    BY <1>1, <2>1, ReturnedIs DEF NothingAhead
  <2>3. ASSUME NEW t \in 1..MaxTime PROVE Budget(t)'
    <3>1. /\ Burst(t)' = Burst(t) /\ Gate(t)' = Gate(t)
          /\ Timely(t)' = Timely(t) \cup {x} /\ Armed(t)' = Armed(t) \ {x}
      BY <1>1, ReturnedIs DEF Burst, Gate
    <3> QED BY <2>1, <3>1, MoreTimely
  <2> QED BY <2>2, <2>3
<1> QED BY <1>2, <1>3 DEF ThrottleInv

\* One packet more in a burst at most.
LEMMA BurstGrows ==
  ASSUME ThrottleTypeOK, NEW t \in 1..MaxTime, NEW q, allowed' = allowed \cup {q}
  PROVE  /\ Cardinality(Burst(t)') \in Nat
         /\ Cardinality(Burst(t)') <= Cardinality(Burst(t)) + 1
         /\ ~(q[1] >= t /\ q[1] < t + RateLimitNs) => Burst(t)' = Burst(t)
<1>1. IsFiniteSet(Burst(t)) /\ Cardinality(Burst(t)) \in Nat
  BY Finite
<1>2. PICK S : S = Burst(t)
  OBVIOUS
<1>3. IsFiniteSet(S \cup {q}) /\ Cardinality(S \cup {q}) = IF q \in S THEN Cardinality(S) ELSE Cardinality(S) + 1
  BY <1>1, <1>2, FS_AddElement
<1>4. Burst(t)' \in SUBSET (S \cup {q})
  BY <1>2 DEF Burst
<1>5. IsFiniteSet(Burst(t)') /\ Cardinality(Burst(t)') <= Cardinality(S \cup {q})
  BY <1>3, <1>4, FS_Subset
<1>6. Cardinality(Burst(t)') \in Nat
  BY <1>5, FS_CardinalityType
<1>7. ~(q[1] >= t /\ q[1] < t + RateLimitNs) => Burst(t)' = Burst(t)
  BY DEF Burst
<1> QED BY <1>1, <1>2, <1>3, <1>5, <1>6, <1>7

\* A packet of the interval comes from an armed call and closes the gate; one
\* before it comes from a late call, and one after it closes the gate too.
LEMMA AllowBudget ==
  ASSUME ThrottleInv, NEW t \in 1..MaxTime, Budget(t), NEW x \in Threads, NEW q,
         step[x] = "decide", Due(locals[x]), last_packet_time' = locals[x].now,
         q[1] = locals[x].now, allowed' = allowed \cup {q},
         Timely(t)' = Timely(t) \cup {x}, Armed(t)' = Armed(t) \ {x}
  PROVE  Budget(t)'
<1>1. ThrottleTypeOK
  BY DEF ThrottleInv
<1>2. PICK m \in Nat, c \in Nat, a \in Nat :
        m = Cardinality(Timely(t)) /\ c = Cardinality(Burst(t)) /\ a = Cardinality(Armed(t)) /\ a <= m
  BY <1>1, Finite
<1>3. IF Gate(t) THEN 2 * c <= m * (m - 1) ELSE 2 * (c + a) <= m * (m + 1)
  BY <1>2 DEF Budget
<1>4. /\ Gate(t) => 2 * (c + a) <= m * (m + 1)
      /\ 2 * c <= (m + 1) * ((m + 1) - 1)
  BY <1>2, <1>3, Squares
<1>5. PICK u \in Int, r \in Int, l \in Int, e \in Int :
        u = locals[x].now /\ r = RateLimitNs /\ l = locals[x].last_seen /\ e = t
  BY CallTypes
<1>6. u \in Nat /\ r \in Nat \ {0} /\ l \in Nat /\ e \in Nat \ {0} /\ (l = 0 \/ u - l >= r)
  BY <1>5, CallTypes DEF Due
<1>7. /\ Cardinality(Burst(t)') \in Nat /\ Cardinality(Burst(t)') <= c + 1
      /\ ~(u >= e /\ u < e + r) => Burst(t)' = Burst(t)
  BY <1>1, <1>2, <1>5, BurstGrows
<1>8. Gate(t)' <=> u < e
  BY <1>5 DEF Gate
<1>9. PICK S, T : S = Timely(t) /\ T = Armed(t)
  OBVIOUS
<1>10. IsFiniteSet(S) /\ IsFiniteSet(T) /\ Cardinality(S) = m /\ Cardinality(T) = a
  BY <1>1, <1>2, <1>9, Finite
<1>11. /\ Cardinality(S \cup {x}) = IF x \in S THEN Cardinality(S) ELSE Cardinality(S) + 1
       /\ Cardinality(T \ {x}) = IF x \in T THEN Cardinality(T) - 1 ELSE Cardinality(T)
  BY <1>10, FS_AddElement, FS_RemoveElement
<1>12. /\ Cardinality(Timely(t)') = IF x \in Timely(t) THEN m ELSE m + 1
       /\ Cardinality(Armed(t)') = IF x \in Armed(t) THEN a - 1 ELSE a
  BY <1>9, <1>10, <1>11
<1>13. (x \in Timely(t) <=> ~(u < e))
  BY <1>5 DEF Timely, Late
<1>14. CASE u < e
  <2>1. Burst(t)' = Burst(t) /\ Cardinality(Timely(t)') = m + 1 /\ Gate(t)'
    BY <1>6, <1>7, <1>8, <1>12, <1>13, <1>14
  <2>2. 2 * Cardinality(Burst(t)') <= Cardinality(Timely(t)') * (Cardinality(Timely(t)') - 1)
    BY <1>2, <1>4, <2>1
  <2> QED BY <2>1, <2>2 DEF Budget
<1>15. CASE u >= e /\ u < e + r
  <2>1. x \in Armed(t)
    <3>1. l < e
      BY <1>6, <1>15
    <3> QED BY <1>5, <1>15, <3>1 DEF Armed
  <2>2. Cardinality(Timely(t)') = m /\ Cardinality(Armed(t)') = a - 1 /\ ~Gate(t)'
    BY <1>5, <1>8, <1>12, <1>13, <1>15, <2>1
  <2>3. PICK d \in Nat : d = Cardinality(Burst(t)') /\ d <= c + 1
    BY <1>7
  <2>4. 2 * (d + (a - 1)) <= 2 * (c + a)
    BY <1>2, <2>3
  <2>5. 2 * (c + a) <= m * (m + 1)
    BY <1>3, <1>4
  <2>6. PICK k \in Int : k = m * (m + 1)
    BY <1>2
  <2>7. 2 * (d + (a - 1)) <= k
    <3>1. 2 * (c + a) <= k
      BY <2>5, <2>6
    <3> QED BY <1>2, <2>3, <2>4, <2>6, <3>1
  <2>8. 2 * (Cardinality(Burst(t)') + Cardinality(Armed(t)')) <= Cardinality(Timely(t)') * (Cardinality(Timely(t)') + 1)
    BY <2>2, <2>3, <2>6, <2>7
  <2> QED BY <2>2, <2>8 DEF Budget
<1>16. CASE u >= e + r
  <2>1. ~(u < e) /\ ~(u < e + r)
    BY <1>6, <1>16
  <2>2. x \notin Armed(t)
    BY <1>5, <2>1 DEF Armed
  <2>3. Burst(t)' = Burst(t) /\ Cardinality(Timely(t)') = m /\ Cardinality(Armed(t)') = a /\ ~Gate(t)'
    BY <1>7, <1>8, <1>12, <1>13, <2>1, <2>2
  <2>4. 2 * (Cardinality(Burst(t)') + Cardinality(Armed(t)')) <= Cardinality(Timely(t)') * (Cardinality(Timely(t)') + 1)
    BY <1>2, <1>3, <1>4, <2>3
  <2> QED BY <2>3, <2>4 DEF Budget
<1> QED BY <1>6, <1>14, <1>15, <1>16

LEMMA AllowStep ==
  ASSUME ThrottleInv, NEW x \in Threads, Allow(x), UNCHANGED clockVars
  PROVE  ThrottleInv'
<1>1. /\ step[x] = "decide" /\ Due(locals[x]) /\ last_packet_time' = locals[x].now
      /\ PassRecorded(locals[x].now) /\ Returned(x)
      /\ GLOBAL_SEQ_COUNTER' = GLOBAL_SEQ_COUNTER /\ now' = now /\ adjusted' = adjusted
  BY DEF Allow, clockVars
<1>2. PICK q : q = <<locals[x].now, Cardinality(AllowedAt(locals[x].now)) + 1>>
  OBVIOUS
<1>3. q[1] = locals[x].now /\ allowed' = IF adjusted THEN allowed ELSE allowed \cup {q}
  BY <1>1, <1>2 DEF PassRecorded
<1>4. q \in (0..MaxTime) \X Nat
  <2>1. IsFiniteSet(allowed) /\ AllowedAt(locals[x].now) \in SUBSET allowed
    BY DEF ThrottleInv, ThrottleTypeOK, AllowedAt
  <2>2. Cardinality(AllowedAt(locals[x].now)) \in Nat
    BY <2>1, FS_Subset, FS_CardinalityType
  <2> QED BY <1>2, <2>2, CallTypes
<1>5. ClockTypeOK' /\ ThrottleTypeOK'
  <2>1. IsFiniteSet(allowed') /\ \A p \in allowed' : p \in (0..MaxTime) \X Nat
    <3>1. IsFiniteSet(allowed) /\ \A p \in allowed : p \in (0..MaxTime) \X Nat
      BY DEF ThrottleInv, ThrottleTypeOK
    <3>2. IsFiniteSet(allowed \cup {q})
      BY <3>1, FS_AddElement
    <3> QED BY <1>3, <1>4, <3>1, <3>2
  <2>2. last_packet_time' \in 0..MaxTime
    BY <1>1, CallTypes
  <2> QED BY <1>1, <2>1, <2>2, ReturnedIs DEF ThrottleInv, ThrottleTypeOK, ClockTypeOK
<1>6. ASSUME ~adjusted' PROVE NothingAhead' /\ \A t \in 1..MaxTime : Budget(t)'
  <2>1. NothingAhead /\ (\A t \in 1..MaxTime : Budget(t)) /\ ~adjusted
    BY <1>1, <1>6 DEF ThrottleInv
  <2>2. allowed' = allowed \cup {q}
    BY <1>3, <2>1
  <2>3. NothingAhead'
    BY <1>1, <1>3, <2>1, <2>2, ReturnedIs DEF NothingAhead
  <2>4. ASSUME NEW t \in 1..MaxTime PROVE Budget(t)'
    <3>1. Timely(t)' = Timely(t) \cup {x} /\ Armed(t)' = Armed(t) \ {x}
      BY <1>1, ReturnedIs
    <3> QED BY <1>1, <1>3, <2>1, <2>2, <3>1, AllowBudget
  <2> QED BY <2>3, <2>4
<1> QED BY <1>5, <1>6 DEF ThrottleInv

----------------------------------------------------------------------------
LEMMA ThrottleInvInit == ClockInit /\ ThrottleInit => ThrottleInv
<1> SUFFICES ASSUME ClockInit, ThrottleInit PROVE ThrottleInv
  OBVIOUS
<1>1. /\ now = 1 /\ last_packet_time = 0 /\ GLOBAL_SEQ_COUNTER = 0 /\ allowed = {} /\ adjusted = FALSE
      /\ step = [t \in Threads |-> "idle"] /\ locals = [t \in Threads |-> [now |-> 0, last_seen |-> 0]]
  BY DEF ClockInit, ThrottleInit
<1>2. IsFiniteSet(allowed) /\ Cardinality({}) = 0 /\ [now |-> 0, last_seen |-> 0] \in Locals
  BY <1>1, FS_EmptySet, ClockAssumption DEF Locals
<1>3. ClockTypeOK /\ ThrottleTypeOK
  <2>1. now \in 1..MaxTime /\ last_packet_time \in 0..MaxTime
    BY <1>1, ClockAssumption
  <2>2. GLOBAL_SEQ_COUNTER \in 0..(SeqSpace - 1)
    BY <1>1, ThrottleAssumption
  <2>3. step \in [Threads -> {"idle", "load", "decide"}] /\ locals \in [Threads -> Locals]
    BY <1>1, <1>2
  <2> QED BY <1>1, <1>2, <2>1, <2>2, <2>3 DEF ClockTypeOK, ThrottleTypeOK
<1>4. NothingAhead
  BY <1>1 DEF NothingAhead
<1>5. ASSUME NEW t \in 1..MaxTime PROVE Budget(t)
  <2>1. Cardinality(Timely(t)) \in Nat
    BY <1>3, Finite
  <2>2. Burst(t) = {} /\ Gate(t)
    BY <1>1, ClockAssumption DEF Burst, Gate
  <2>3. 2 * Cardinality(Burst(t)) <= Cardinality(Timely(t)) * (Cardinality(Timely(t)) - 1)
    BY <1>2, <2>1, <2>2, Consecutive
  <2> QED BY <2>2, <2>3 DEF Budget
<1> QED BY <1>3, <1>4, <1>5 DEF ThrottleInv

\* A step that leaves the calls and the packets alone.
LEMMA BudgetStands ==
  ASSUME NEW t, Budget(t), step' = step, locals' = locals, allowed' = allowed,
         last_packet_time' = last_packet_time
  PROVE  Budget(t)'
BY DEF Budget, Timely, Late, Burst, Armed, Gate

LEMMA ThrottleInvStep ==
  ThrottleInv /\ [\/ (ThrottleNext \/ IncrementGlobalSeq) /\ UNCHANGED clockVars
                  \/ (Tick \/ SetBack) /\ UNCHANGED throttleVars]_<<clockVars, throttleVars>> => ThrottleInv'
<1> SUFFICES ASSUME ThrottleInv,
                    [\/ (ThrottleNext \/ IncrementGlobalSeq) /\ UNCHANGED clockVars
                     \/ (Tick \/ SetBack) /\ UNCHANGED throttleVars]_<<clockVars, throttleVars>>
             PROVE  ThrottleInv'
  OBVIOUS
<1>1. ASSUME NEW x \in Threads, AllowPacket(x), UNCHANGED clockVars PROVE ThrottleInv'
  BY <1>1, ReadClockStep, LoadLastStep, AllowStep, RefuseStep DEF AllowPacket
<1>2. CASE IncrementGlobalSeq /\ UNCHANGED clockVars
  <2>1. /\ GLOBAL_SEQ_COUNTER' = (GLOBAL_SEQ_COUNTER + 1) % SeqSpace
        /\ last_packet_time' = last_packet_time /\ step' = step /\ locals' = locals
        /\ allowed' = allowed /\ now' = now /\ adjusted' = adjusted
    BY <1>2 DEF IncrementGlobalSeq, clockVars
  <2>2. GLOBAL_SEQ_COUNTER' \in 0..(SeqSpace - 1)
    <3>1. GLOBAL_SEQ_COUNTER \in Int
      BY ThrottleAssumption DEF ThrottleInv, ThrottleTypeOK
    <3> QED BY <2>1, <3>1, ThrottleAssumption
  <2>3. ClockTypeOK' /\ ThrottleTypeOK'
    BY <2>1, <2>2 DEF ThrottleInv, ThrottleTypeOK, ClockTypeOK
  <2>4. NothingAhead => NothingAhead'
    BY <2>1 DEF NothingAhead
  <2> QED BY <2>1, <2>3, <2>4, BudgetStands DEF ThrottleInv
<1>3. CASE Tick /\ UNCHANGED throttleVars
  <2>1. /\ now < MaxTime /\ now' = now + 1 /\ adjusted' = adjusted
        /\ last_packet_time' = last_packet_time /\ step' = step /\ locals' = locals
        /\ allowed' = allowed /\ GLOBAL_SEQ_COUNTER' = GLOBAL_SEQ_COUNTER
    BY <1>3 DEF Tick, throttleVars
  <2>2. ClockTypeOK' /\ ThrottleTypeOK'
    BY <2>1, ClockAssumption DEF ThrottleInv, ThrottleTypeOK, ClockTypeOK
  <2>3. NothingAhead => NothingAhead'
    BY <2>1, CallTypes DEF NothingAhead
  <2> QED BY <2>1, <2>2, <2>3, BudgetStands DEF ThrottleInv
<1>4. CASE SetBack /\ UNCHANGED throttleVars
  <2>1. /\ now > 1 /\ now' = now - 1 /\ adjusted' = TRUE
        /\ last_packet_time' = last_packet_time /\ step' = step /\ locals' = locals
        /\ allowed' = allowed /\ GLOBAL_SEQ_COUNTER' = GLOBAL_SEQ_COUNTER
    BY <1>4 DEF SetBack, throttleVars
  <2>2. ClockTypeOK' /\ ThrottleTypeOK'
    BY <2>1, ClockAssumption DEF ThrottleInv, ThrottleTypeOK, ClockTypeOK
  <2> QED BY <2>1, <2>2 DEF ThrottleInv
<1>5. CASE UNCHANGED <<clockVars, throttleVars>>
  <2>1. /\ now' = now /\ adjusted' = adjusted
        /\ last_packet_time' = last_packet_time /\ step' = step /\ locals' = locals
        /\ allowed' = allowed /\ GLOBAL_SEQ_COUNTER' = GLOBAL_SEQ_COUNTER
    BY <1>5 DEF clockVars, throttleVars
  <2>2. ClockTypeOK' /\ ThrottleTypeOK'
    BY <2>1 DEF ThrottleInv, ThrottleTypeOK, ClockTypeOK
  <2>3. NothingAhead => NothingAhead'
    BY <2>1 DEF NothingAhead
  <2> QED BY <2>1, <2>2, <2>3, BudgetStands DEF ThrottleInv
<1> QED BY <1>1, <1>2, <1>3, <1>4, <1>5 DEF ThrottleNext

LEMMA ThrottleInvHolds == ThrottleSpec => []ThrottleInv
BY ThrottleInvInit, ThrottleInvStep, PTL DEF ThrottleSpec

\* However the calls of n threads interleave and stall, at most n(n+1)/2 of
\* them pass with clock readings in one interval of rate_limit_ns, while the
\* clock is not set back.
THEOREM BurstsBounded == ThrottleSpec => []BurstBounded
<1>1. ThrottleInv => BurstBounded
  <2> SUFFICES ASSUME ThrottleInv, ~adjusted, NEW t \in 1..MaxTime
               PROVE  Cardinality(Burst(t)) <= (Cardinality(Threads) * (Cardinality(Threads) + 1)) \div 2
    BY DEF BurstBounded, Burst
  <2>1. PICK m \in Nat, c \in Nat, a \in Nat, n \in Nat :
          /\ m = Cardinality(Timely(t)) /\ c = Cardinality(Burst(t)) /\ a = Cardinality(Armed(t))
          /\ a <= m /\ m <= n /\ n = Cardinality(Threads)
    BY Finite DEF ThrottleInv
  <2>2. IF Gate(t) THEN 2 * c <= m * (m - 1) ELSE 2 * (c + a) <= m * (m + 1)
    BY <2>1 DEF ThrottleInv, Budget
  <2>3. PICK k \in Int, h \in Int : k = m * (m + 1) /\ h = n * (n + 1) /\ k <= h
    BY <2>1, SquaresGrow
  <2>4. 2 * c <= k
    <3>1. CASE Gate(t)
      BY <2>1, <2>2, <2>3, <3>1, Squares
    <3>2. CASE ~Gate(t)
      BY <2>1, <2>2, <2>3, <3>2
    <3> QED BY <3>1, <3>2
  <2>5. c <= h \div 2
    BY <2>1, <2>3, <2>4
  <2> QED BY <2>1, <2>3, <2>5
<1> QED
  BY <1>1, ThrottleInvHolds, PTL

----------------------------------------------------------------------------
(* Division, and counting by one-to-one maps. *)

LEMMA DivMod ==
  ASSUME NEW b \in Nat \ {0}, NEW a \in Int
  PROVE  a \div b \in Int /\ a % b \in 0..(b - 1) /\ a = b * (a \div b) + (a % b)
  OBVIOUS

\* Products keep the order of their factors.
LEMMA TimesKeepsOrder ==
  ASSUME NEW n \in Nat, NEW a \in Int, NEW b \in Int, a <= b
  PROVE  a * n <= b * n
<1>1. PICK d \in Nat : b = a + d
  <2>1. b - a \in Nat /\ b = a + (b - a)
    OBVIOUS
  <2> QED BY <2>1
<1>2. (a + d) * n = a * n + d * n /\ d * n \in Nat /\ a * n \in Int
  OBVIOUS
<1> QED BY <1>1, <1>2

LEMMA DivModNat ==
  ASSUME NEW b \in Nat \ {0}, NEW a \in Nat
  PROVE  \E q \in Nat, r \in 0..(b - 1) : q = a \div b /\ r = a % b /\ a = q * b + r
<1>1. PICK q \in Int, r \in 0..(b - 1) : q = a \div b /\ r = a % b /\ a = b * q + r
  BY DivMod
<1>2. b * q = q * b
  OBVIOUS
<1>3. q >= 0
  <2> SUFFICES ASSUME q <= -1 PROVE FALSE
    OBVIOUS
  <2>1. q * b <= (-1) * b /\ (-1) * b = -b
    BY TimesKeepsOrder
  <2> QED BY <1>1, <1>2, <2>1
<1> QED BY <1>1, <1>2, <1>3

LEMMA ModUnique ==
  ASSUME NEW b \in Nat \ {0}, NEW q \in Int, NEW r \in 0..(b - 1)
  PROVE  (q * b + r) % b = r
  OBVIOUS

LEMMA DivUnique ==
  ASSUME NEW b \in Nat \ {0}, NEW q \in Int, NEW r \in 0..(b - 1)
  PROVE  (q * b + r) \div b = q
  OBVIOUS

\* A one-to-one enumeration counts.
LEMMA Counted ==
  ASSUME NEW k \in Nat, NEW S, NEW f \in [1..k -> S],
         \A i, j \in 1..k : f[i] = f[j] => i = j,
         \A x \in S : \E i \in 1..k : f[i] = x
  PROVE  IsFiniteSet(S) /\ Cardinality(S) = k
<1>1. f \in Bijection(1..k, S)
  BY DEF Bijection, Injection, Surjection, IsInjective
<1>2. IsFiniteSet(1..k) /\ Cardinality(1..k) = k
  BY FS_Interval
<1> QED
  BY <1>1, <1>2, FS_Bijection DEF ExistsBijection

\* A one-to-one map bounds a cardinality.
LEMMA NotMore ==
  ASSUME NEW S, NEW T, NEW f \in [S -> T], IsFiniteSet(T),
         \A x, y \in S : f[x] = f[y] => x = y
  PROVE  IsFiniteSet(S) /\ Cardinality(S) <= Cardinality(T)
<1>1. f \in Injection(S, T)
  BY DEF Injection, IsInjective
<1> QED BY <1>1, FS_Injection

\* And one onto as well gives it.
LEMMA AsMany ==
  ASSUME NEW S, NEW T, NEW f \in [S -> T], IsFiniteSet(S),
         \A x, y \in S : f[x] = f[y] => x = y,
         \A y \in T : \E x \in S : f[x] = y
  PROVE  Cardinality(S) = Cardinality(T)
<1>1. f \in Bijection(S, T)
  BY DEF Bijection, Injection, Surjection, IsInjective
<1> QED BY <1>1, FS_Bijection DEF ExistsBijection

LEMMA PairIs ==
  ASSUME NEW A, NEW B, NEW p \in A \X B
  PROVE  p[1] \in A /\ p[2] \in B /\ p = <<p[1], p[2]>>
  OBVIOUS

----------------------------------------------------------------------------
(* The shares of the predictive next hops. *)

\* The remainders below n are spread evenly over any range of numbers.
LEMMA RemaindersEven ==
  ASSUME NEW n \in Nat \ {0}, NEW H \in Nat, NEW i \in 0..(n - 1)
  PROVE  Cardinality({h \in 0..(H - 1) : h % n = i}) - (H \div n) \in {0, 1}
<1> DEFINE S == {h \in 0..(H - 1) : h % n = i}
<1>1. PICK q \in Nat, r \in 0..(n - 1) : H \div n = q /\ H = q * n + r
  <2>1. H \div n \in Int /\ H % n \in 0..(n - 1) /\ H = n * (H \div n) + (H % n)
    BY DivMod
  <2>2. H \div n \in Nat
    OBVIOUS
  <2>3. n * (H \div n) = (H \div n) * n
    BY <2>2
  <2> QED BY <2>1, <2>2, <2>3
<1>2. PICK k \in {q, q + 1} : k = q + 1 <=> i < r
  OBVIOUS
<1> DEFINE f == [j \in 1..k |-> (j - 1) * n + i]
<1>3. ASSUME NEW j \in 1..k PROVE (j - 1) * n + i \in S
  <2>1. (j - 1) * n + i \in Nat /\ j - 1 \in Nat
    OBVIOUS
  <2>2. CASE j - 1 = q
    <3>1. i < r
      BY <1>2, <2>2
    <3> QED BY <1>1, <2>1, <2>2, <3>1, ModUnique
  <2>3. CASE j - 1 # q
    <3>1. j <= q
      BY <1>2, <2>3
    <3>2. j * n <= q * n /\ j * n = (j - 1) * n + n
      BY <3>1, TimesKeepsOrder
    <3>3. (j - 1) * n + i < H
      BY <1>1, <3>2
    <3> QED BY <2>1, <3>3, ModUnique
  <2> QED BY <2>2, <2>3
<1>4. f \in [1..k -> S]
  BY <1>3
<1>5. ASSUME NEW j \in 1..k, NEW l \in 1..k, f[j] = f[l] PROVE j = l
  <2>1. ((j - 1) * n + i) \div n = j - 1 /\ ((l - 1) * n + i) \div n = l - 1
    BY DivUnique
  <2> QED BY <1>5, <2>1
<1>6. ASSUME NEW h \in S PROVE \E j \in 1..k : f[j] = h
  <2>1. PICK a \in Nat : h = a * n + i /\ h < H
    <3>1. h \div n \in Int /\ h = n * (h \div n) + i
      BY DivMod
    <3>2. h \div n \in Nat /\ n * (h \div n) = (h \div n) * n
      BY <3>1
    <3> QED BY <3>1, <3>2
  <2>2. a < k
    <3>1. CASE a < q
      BY <1>2, <3>1
    <3>2. CASE a = q
      BY <1>1, <1>2, <2>1, <3>2
    <3>3. CASE a > q
      <4>1. (q + 1) * n <= a * n /\ (q + 1) * n = q * n + n
        BY <3>3, TimesKeepsOrder
      <4> QED BY <1>1, <2>1, <4>1
    <3> QED BY <3>1, <3>2, <3>3
  <2>3. a + 1 \in 1..k /\ (a + 1) - 1 = a
    BY <2>2
  <2> QED BY <2>1, <2>3
<1>7. k \in Nat /\ \A j, l \in 1..k : f[j] = f[l] => j = l
  BY <1>5
<1>8. \A h \in S : \E j \in 1..k : f[j] = h
  BY <1>6
<1>9. Cardinality(S) = k
  <2> HIDE DEF f, S
  <2> QED BY <1>4, <1>7, <1>8, Counted
<1> QED BY <1>1, <1>9

\* The least multiple of n that is not below a number.
LEMMA RoundUp ==
  ASSUME NEW n \in Nat \ {0}, NEW x \in Nat
  PROVE  \E a \in Nat, s \in 0..(n - 1) : x = a * n - s
<1>1. PICK y \in Nat : y = x + n - 1
  OBVIOUS
<1>2. y \div n \in Int /\ y % n \in 0..(n - 1) /\ y = n * (y \div n) + (y % n)
  BY DivMod
<1>3. PICK a \in Int, u \in 0..(n - 1) : y = n * a + u
  BY <1>2
<1>4. a >= 0
  <2> SUFFICES ASSUME a <= -1 PROVE FALSE
    OBVIOUS
  <2>1. a * n <= (-1) * n /\ (-1) * n = -n /\ n * a = a * n
    BY TimesKeepsOrder
  <2> QED BY <1>1, <1>3, <2>1
<1>5. n - 1 - u \in 0..(n - 1) /\ x = a * n - (n - 1 - u)
  BY <1>1, <1>3
<1> QED BY <1>4, <1>5

LEMMA QuotientNear ==
  ASSUME NEW n \in Nat \ {0}, NEW H \in Nat, NEW d \in Int, NEW s \in 0..(n - 1),
         NEW t \in 0..(n - 1), H = d * n + t - s
  PROVE  d - (H \div n) \in {0, 1}
<1>1. CASE t >= s
  <2>1. PICK e \in 0..(n - 1) : e = t - s
    BY <1>1
  <2>2. H = d * n + e
    BY <2>1
  <2>3. (d * n + e) \div n = d
    BY DivUnique
  <2> QED BY <2>2, <2>3
<1>2. CASE t < s
  <2>1. PICK e \in 0..(n - 1) : e = n + t - s
    BY <1>2
  <2>2. (d - 1) * n = d * n - n
    OBVIOUS
  <2>3. H = (d - 1) * n + e
    BY <2>1, <2>2
  <2>4. ((d - 1) * n + e) \div n = d - 1
    BY DivUnique
  <2> QED BY <2>3, <2>4
<1> QED BY <1>1, <1>2

LEMMA BelowMultiple ==
  ASSUME NEW n \in Nat \ {0}, NEW x \in Nat, NEW a \in Nat, NEW s \in 0..(n - 1), x = a * n - s,
         NEW h \in Nat
  PROVE  x <= h * n <=> a <= h
<1>1. ASSUME a <= h PROVE x <= h * n
  <2>1. a * n <= h * n
    BY <1>1, TimesKeepsOrder
  <2> QED BY <2>1
<1>2. ASSUME h < a PROVE h * n < x
  <2>1. (h + 1) * n <= a * n /\ (h + 1) * n = h * n + n
    BY <1>2, TimesKeepsOrder
  <2> QED BY <2>1
<1>3. h * n \in Nat
  OBVIOUS
<1> QED BY <1>1, <1>2, <1>3

\* Multiplied by n and divided by H, the numbers below H are spread evenly
\* over those below n.
LEMMA MultiplesEven ==
  ASSUME NEW n \in Nat \ {0}, NEW H \in Nat \ {0}, NEW i \in 0..(n - 1)
  PROVE  Cardinality({h \in 0..(H - 1) : (h * n) \div H = i}) - (H \div n) \in {0, 1}
<1> DEFINE S == {h \in 0..(H - 1) : (h * n) \div H = i}
\* The first number that lands at i, and the first beyond.
<1>1. PICK a \in Nat, s \in 0..(n - 1) : i * H = a * n - s
  <2>1. PICK x \in Nat : x = i * H
    OBVIOUS
  <2> QED BY <2>1, RoundUp
<1>2. PICK b \in Nat, t \in 0..(n - 1) : (i + 1) * H = b * n - t
  <2>1. PICK x \in Nat : x = (i + 1) * H
    OBVIOUS
  <2> QED BY <2>1, RoundUp
<1>3. (i + 1) * H = i * H + H /\ (i + 1) * H <= n * H /\ i * H \in Nat /\ n * H = H * n
  <2>1. (i + 1) * H <= n * H
    BY TimesKeepsOrder
  <2> QED BY <2>1
<1>4. b <= H
  <2> SUFFICES ASSUME b > H PROVE FALSE
    OBVIOUS
  <2>1. (H + 1) * n <= b * n /\ (H + 1) * n = H * n + n
    BY TimesKeepsOrder
  <2> QED BY <1>2, <1>3, <2>1
<1>5. ASSUME NEW h \in Nat PROVE (h * n) \div H = i <=> a <= h /\ h < b
  <2>1. h * n \in Nat
    OBVIOUS
  <2>2. (h * n) \div H = i <=> i * H <= h * n /\ h * n < i * H + H
    <3>1. PICK m \in Nat : m = h * n
      BY <2>1
    <3>2. m \div H \in Int /\ m % H \in 0..(H - 1) /\ m = H * (m \div H) + (m % H)
      BY DivMod
    <3>3. ASSUME m \div H = i PROVE i * H <= m /\ m < i * H + H
      <4>1. H * i = i * H
        OBVIOUS
      <4> QED BY <3>2, <3>3, <4>1
    <3>4. ASSUME i * H <= m, m < i * H + H PROVE m \div H = i
      <4>1. PICK e \in 0..(H - 1) : m = i * H + e
        <5>1. m - i * H \in 0..(H - 1) /\ m = i * H + (m - i * H)
          BY <1>3, <3>4
        <5> QED BY <5>1
      <4> QED BY <4>1, DivUnique
    <3> QED BY <3>1, <3>3, <3>4
  <2>3. i * H <= h * n <=> a <= h
    BY <1>1, <1>3, BelowMultiple
  <2>4. (i + 1) * H <= h * n <=> b <= h
    BY <1>2, <1>3, BelowMultiple
  <2> QED BY <1>3, <2>1, <2>2, <2>3, <2>4
<1>6. S = a..(b - 1)
  <2>1. \A h \in S : h \in a..(b - 1)
    BY <1>5
  <2>2. \A h \in a..(b - 1) : h \in Nat /\ h \in 0..(H - 1)
    BY <1>4
  <2>3. \A h \in a..(b - 1) : (h * n) \div H = i
    BY <1>5, <2>2
  <2> QED BY <2>1, <2>2, <2>3
<1>7. a <= b
  <2> SUFFICES ASSUME b + 1 <= a PROVE FALSE
    OBVIOUS
  <2>1. (b + 1) * n <= a * n /\ (b + 1) * n = b * n + n
    BY TimesKeepsOrder
  <2> QED BY <1>1, <1>2, <1>3, <2>1
<1>8. Cardinality(S) = b - a
  <2>1. a \in Int /\ b - 1 \in Int
    OBVIOUS
  <2>2. Cardinality(a..(b - 1)) = IF a > b - 1 THEN 0 ELSE (b - 1) - a + 1
    BY <2>1, FS_Interval
  <2> HIDE DEF S
  <2> QED BY <1>6, <1>7, <2>2
<1>9. b - a - (H \div n) \in {0, 1}
  <2>1. PICK d \in Int : d = b - a
    OBVIOUS
  <2>2. d * n = b * n - a * n
    BY <2>1
  <2>3. H = d * n + s - t
    BY <1>1, <1>2, <1>3, <2>2
  <2>4. d - (H \div n) \in {0, 1}
    BY <2>3, QuotientNear
  <2> QED BY <2>1, <2>4
<1> QED BY <1>8, <1>9

----------------------------------------------------------------------------
(* The lookups. *)

Call(total, flow, len) == [op |-> "spray", total |-> total, flow |-> flow, len |-> len]

SprayInv ==
  \/ call = NoCall
  \/ \E total \in 1..MaxTotal, flow \in 0..MaxFlow, len \in 0..MaxBuf :
       call = Call(total, flow, len) /\ result = SprayBuf(total, flow, len)
  \/ \E n \in 1..MaxHops, hash \in 0..(HashSpace - 1) :
       call = [op |-> "predict", n |-> n, hash |-> hash] /\ result = <<PredictiveIndex(n, hash)>>

LEMMA SprayInvHolds == Spec => []SprayInv
<1>1. Init => SprayInv
  BY DEF Init, SprayInv
<1>2. SprayInv /\ [Next]_vars => SprayInv'
  <2> SUFFICES ASSUME SprayInv, [Next]_vars PROVE SprayInv'
    OBVIOUS
  <2>1. CASE UNCHANGED vars
    BY <2>1 DEF SprayInv, vars
  <2>2. CASE Return
    BY <2>2 DEF SprayInv, Return
  <2>3. ASSUME NEW total \in 1..MaxTotal, NEW flow \in 0..MaxFlow, NEW len \in 0..MaxBuf,
               LookupSpray(total, flow, len)
        PROVE  SprayInv'
    BY <2>3 DEF SprayInv, LookupSpray, Call
  <2>4. ASSUME NEW n \in 1..MaxHops, NEW hash \in 0..(HashSpace - 1), Predict(n, hash)
        PROVE  SprayInv'
    BY <2>4 DEF SprayInv, Predict
  <2> QED BY <2>1, <2>2, <2>3, <2>4 DEF Next
<1> QED BY <1>1, <1>2, PTL DEF Spec

\* Mask or remainder, the reduction of a label is its remainder.
LEMMA ReduceIsRemainder ==
  ASSUME NEW total \in 1..MaxTotal, NEW x \in 0..MaxFlow
  PROVE  Reduce(x, total) = x % total /\ x % total \in 0..(total - 1)
<1>1. total \in Nat \ {0} /\ x \in Int
  BY SprayAssumption
<1>2. x % total \in 0..(total - 1)
  BY <1>1, DivMod
<1>3. MasksLikeDivision(x, total)
  BY SprayAssumption
<1> QED BY <1>2, <1>3 DEF Reduce, MasksLikeDivision

\* What a full-spray lookup leaves in the buffer.
LEMMA SprayBufIs ==
  ASSUME NEW total \in 1..MaxTotal, NEW flow \in 0..MaxFlow, NEW len \in 0..MaxBuf,
         NEW b, b = SprayBuf(total, flow, len)
  PROVE  \E count \in 0..total, idx \in 0..(total - 1) :
           /\ count = Smaller(total, len) /\ idx = Reduce(flow, total)
           /\ Len(b) = count
           /\ count > 0 => b[1] = idx
           /\ \A i \in 2..count : b[i] = IF i - 1 = idx THEN 0 ELSE i - 1
<1>1. total \in Nat \ {0} /\ len \in Nat
  BY SprayAssumption
<1>2. PICK count \in 0..total : count = Smaller(total, len)
  BY <1>1 DEF Smaller
<1>3. PICK idx \in 0..(total - 1) : idx = Reduce(flow, total)
  BY ReduceIsRemainder
<1> SUFFICES /\ Len(b) = count
             /\ count > 0 => b[1] = idx
             /\ \A i \in 2..count : b[i] = IF i - 1 = idx THEN 0 ELSE i - 1
  BY <1>2, <1>3
<1>4. CASE count = 0
  BY <1>1, <1>2, <1>4 DEF SprayBuf
<1>5. CASE count # 0 /\ total = 1
  <2>1. b = <<0>> /\ count = 1 /\ idx = 0
    BY <1>1, <1>2, <1>3, <1>5 DEF SprayBuf
  <2> QED BY <2>1
<1>6. CASE count # 0 /\ total # 1
  <2>1. b = [i \in 1..count |-> IF i = 1 THEN idx ELSE IF i - 1 = idx THEN 0 ELSE i - 1]
    BY <1>2, <1>3, <1>6 DEF SprayBuf
  <2>2. Len(b) = count
    BY <1>1, <2>1
  <2> QED BY <1>1, <1>6, <2>1, <2>2
<1> QED BY <1>4, <1>5, <1>6

\* The channels in the buffer.
Named(b) == {b[i] : i \in 1..Len(b)}

LEMMA EachChannelOnce ==
  ASSUME NEW total \in 1..MaxTotal, NEW flow \in 0..MaxFlow, NEW len \in 0..MaxBuf,
         NEW b, b = SprayBuf(total, flow, len)
  PROVE  /\ Cardinality(Named(b)) = Len(b)
         /\ Named(b) \subseteq 0..(total - 1)
         /\ len >= total => Named(b) = 0..(total - 1)
<1>0. \A x : x \in Named(b) <=> \E i \in 1..Len(b) : b[i] = x
  BY DEF Named
<1>1. PICK count \in 0..total, idx \in 0..(total - 1) :
        /\ count = Smaller(total, len) /\ Len(b) = count
        /\ count > 0 => b[1] = idx
        /\ \A i \in 2..count : b[i] = IF i - 1 = idx THEN 0 ELSE i - 1
  BY SprayBufIs
<1>2. total \in Nat \ {0} /\ len \in Nat /\ count \in Nat /\ idx \in Nat
  BY SprayAssumption
<1>3. \A i \in 1..count : b[i] \in 0..(total - 1)
  BY <1>1, <1>2
<1>4. \A i, j \in 1..count : b[i] = b[j] => i = j
  <2> SUFFICES ASSUME NEW i \in 1..count, NEW j \in 1..count, b[i] = b[j] PROVE i = j
    OBVIOUS
  <2>1. CASE i = 1 /\ j = 1
    BY <2>1
  <2>2. CASE i = 1 /\ j # 1
    BY <1>1, <1>2, <2>2
  <2>3. CASE i # 1 /\ j = 1
    BY <1>1, <1>2, <2>3
  <2>4. CASE i # 1 /\ j # 1
    BY <1>1, <1>2, <2>4
  <2> QED BY <2>1, <2>2, <2>3, <2>4
<1>5. Cardinality(Named(b)) = count
  <2> DEFINE f == [i \in 1..count |-> b[i]]
  <2>1. f \in [1..count -> Named(b)] /\ \A x \in Named(b) : \E i \in 1..count : f[i] = x
    BY <1>0, <1>1
  <2>2. \A i, j \in 1..count : f[i] = f[j] => i = j
    BY <1>4
  <2> HIDE DEF f
  <2> QED BY <1>2, <2>1, <2>2, Counted
<1>6. Named(b) \subseteq 0..(total - 1)
  BY <1>0, <1>1, <1>3
<1>7. ASSUME len >= total PROVE 0..(total - 1) \subseteq Named(b)
  <2>1. count = total
    BY <1>1, <1>2, <1>7 DEF Smaller
  <2> SUFFICES ASSUME NEW c \in 0..(total - 1) PROVE \E i \in 1..count : b[i] = c
    BY <1>0, <1>1
  <2>2. CASE c = idx
    BY <1>1, <1>2, <2>1, <2>2
  <2>3. CASE c # idx /\ c = 0
    <3>1. idx + 1 \in 2..count /\ (idx + 1) - 1 = idx /\ idx + 1 \in 1..count
      BY <1>2, <2>1, <2>3
    <3> QED BY <1>1, <2>3, <3>1
  <2>4. CASE c # idx /\ c # 0
    <3>1. c + 1 \in 2..count /\ (c + 1) - 1 = c /\ c + 1 \in 1..count
      BY <1>2, <2>1, <2>4
    <3> QED BY <1>1, <2>4, <3>1
  <2> QED BY <2>2, <2>3, <2>4
<1> QED BY <1>1, <1>5, <1>6, <1>7

\* A full-spray lookup names each channel once, and all of them when the
\* buffer has room, for any number of channels and any flow label.
THEOREM ChannelsOnce == Spec => []SprayCoversOnce
<1>1. SprayInv => SprayCoversOnce
  <2> SUFFICES ASSUME SprayInv, call.op = "spray" PROVE SprayCoversOnce
    BY DEF SprayCoversOnce
  <2>1. PICK total \in 1..MaxTotal, flow \in 0..MaxFlow, len \in 0..MaxBuf :
          call = Call(total, flow, len) /\ result = SprayBuf(total, flow, len)
    BY DEF SprayInv, NoCall
  <2>2. call.total = total /\ call.len = len
    BY <2>1 DEF Call
  <2>3. /\ Cardinality(Named(result)) = Len(result)
        /\ Named(result) \subseteq 0..(total - 1)
        /\ len >= total => Named(result) = 0..(total - 1)
    BY <2>1, EachChannelOnce
  <2> QED BY <2>2, <2>3 DEF SprayCoversOnce, Named
<1> QED BY <1>1, SprayInvHolds, PTL

LEMMA LookupsOfFlow ==
  ASSUME NEW total \in 1..MaxTotal, NEW flow \in 0..MaxFlow, NEW len \in 0..MaxBuf,
         NEW b, b = SprayBuf(total, flow, len)
  PROVE  /\ SprayPrimary(total, flow) = flow % total
         /\ Len(b) > 0 => b[1] = SprayPrimary(total, flow)
         /\ Len(b) = total =>
              \A c \in 0..MaxFlow : SpraySingle(total, flow, c) = b[(c % total) + 1]
<1>1. PICK count \in 0..total, idx \in 0..(total - 1) :
        /\ count = Smaller(total, len) /\ idx = Reduce(flow, total)
        /\ Len(b) = count
        /\ count > 0 => b[1] = idx
        /\ \A i \in 2..count : b[i] = IF i - 1 = idx THEN 0 ELSE i - 1
  BY SprayBufIs
<1>2. total \in Nat \ {0} /\ count \in Nat /\ idx \in Nat /\ idx = flow % total
  BY <1>1, SprayAssumption, ReduceIsRemainder
<1>3. SprayPrimary(total, flow) = idx
  BY <1>1, <1>2 DEF SprayPrimary
<1>4. ASSUME Len(b) = total, NEW c \in 0..MaxFlow
      PROVE  SpraySingle(total, flow, c) = b[(c % total) + 1]
  <2>1. PICK target \in 0..(total - 1) : target = c % total /\ target = Reduce(c, total)
    BY ReduceIsRemainder
  <2>2. (IF total > 1 THEN Reduce(flow, total) ELSE 0) = idx
    BY <1>1, <1>2
  <2>3. SpraySingle(total, flow, c) =
          IF target = 0 THEN idx ELSE IF target = idx THEN 0 ELSE target
    BY <2>1, <2>2 DEF SpraySingle
  <2>4. CASE target = 0
    BY <1>1, <1>2, <1>4, <2>1, <2>3, <2>4
  <2>5. CASE target # 0
    <3>1. target + 1 \in 2..count /\ (target + 1) - 1 = target
      BY <1>1, <1>2, <1>4, <2>5
    <3>2. b[target + 1] = IF target = idx THEN 0 ELSE target
      BY <1>1, <3>1
    <3> QED BY <2>1, <2>3, <2>5, <3>2
  <2> QED BY <2>4, <2>5
<1>5. Len(b) > 0 => b[1] = idx
  BY <1>1
<1> QED BY <1>2, <1>3, <1>4, <1>5

\* The three lookups of a flow select the same channel, and the same as
\* division would, for any number of channels.
THEOREM LookupsSelectAlike == Spec => []LookupsAgree
<1>1. SprayInv => LookupsAgree
  <2> SUFFICES ASSUME SprayInv, call.op = "spray" PROVE LookupsAgree
    BY DEF LookupsAgree
  <2>1. PICK total \in 1..MaxTotal, flow \in 0..MaxFlow, len \in 0..MaxBuf :
          call = Call(total, flow, len) /\ result = SprayBuf(total, flow, len)
    BY DEF SprayInv, NoCall
  <2>2. call.total = total /\ call.len = len /\ call.flow = flow
    BY <2>1 DEF Call
  <2> QED BY <2>1, <2>2, LookupsOfFlow DEF LookupsAgree
<1> QED BY <1>1, SprayInvHolds, PTL

LEMMA PredictiveCases ==
  ASSUME NEW n \in 1..MaxHops
  PROVE  \/ \A h \in 0..(HashSpace - 1) : PredictiveIndex(n, h) = h % n
         \/ \A h \in 0..(HashSpace - 1) : PredictiveIndex(n, h) = (h * n) \div HashSpace
<1>1. CASE n = 1
  BY <1>1, SprayAssumption DEF PredictiveIndex
<1>2. CASE n # 1 /\ IsPowerOfTwo(n)
  BY <1>2, SprayAssumption DEF PredictiveIndex, MasksLikeDivision
<1>3. CASE n # 1 /\ ~IsPowerOfTwo(n)
  BY <1>3 DEF PredictiveIndex
<1> QED BY <1>1, <1>2, <1>3

\* For every number of next hops the hashes are spread evenly over them, by
\* mask or by multiplication.
THEOREM PredictionsEven == Spec => []PredictiveEven
<1>1. SprayInv => PredictiveEven
  <2> SUFFICES ASSUME SprayInv, call.op = "predict" PROVE PredictiveEven
    BY DEF PredictiveEven
  <2>1. PICK n \in 1..MaxHops, hash \in 0..(HashSpace - 1) :
          call.n = n /\ result[1] = PredictiveIndex(n, hash)
    BY DEF SprayInv, NoCall, Call
  <2>2. n \in Nat \ {0} /\ HashSpace \in Nat \ {0} /\ hash \in Nat /\ hash < HashSpace
    BY SprayAssumption
  <2>3. CASE \A h \in 0..(HashSpace - 1) : PredictiveIndex(n, h) = h % n
    <3>1. result[1] \in 0..(n - 1)
      <4>1. hash % n \in 0..(n - 1)
        BY <2>2, DivMod
      <4>2. result[1] = hash % n
        BY <2>1, <2>3
      <4> QED BY <4>1, <4>2
    <3>2. ASSUME NEW i \in 0..(n - 1)
          PROVE  Cardinality({h \in 0..(HashSpace - 1) : PredictiveIndex(n, h) = i})
                   - (HashSpace \div n) \in {0, 1}
      <4>1. {h \in 0..(HashSpace - 1) : PredictiveIndex(n, h) = i} =
            {h \in 0..(HashSpace - 1) : h % n = i}
        BY <2>3
      <4> QED BY <2>2, <4>1, RemaindersEven
    <3> QED BY <2>1, <3>1, <3>2 DEF PredictiveEven
  <2>4. CASE \A h \in 0..(HashSpace - 1) : PredictiveIndex(n, h) = (h * n) \div HashSpace
    <3>1. result[1] \in 0..(n - 1)
      <4>1. PICK m \in Nat : m = hash * n
        BY <2>2
      <4>2. PICK d \in Nat : d = m \div HashSpace
        BY <2>2
      <4>3. d * HashSpace <= m
        <5>1. m \div HashSpace \in Int /\ m % HashSpace \in 0..(HashSpace - 1)
              /\ m = HashSpace * (m \div HashSpace) + (m % HashSpace)
          BY <2>2, DivMod
        <5>2. HashSpace * d = d * HashSpace
          BY <2>2
        <5> QED BY <2>2, <4>2, <5>1, <5>2
      <4>4. m < n * HashSpace
        <5>1. (hash + 1) * n <= HashSpace * n /\ (hash + 1) * n = m + n
          BY <2>2, <4>1, TimesKeepsOrder
        <5>2. HashSpace * n = n * HashSpace /\ n * HashSpace \in Nat
          BY <2>2
        <5> QED BY <2>2, <5>1, <5>2
      <4>5. d < n
        <5> SUFFICES ASSUME n <= d PROVE FALSE
          BY <2>2
        <5>1. n * HashSpace <= d * HashSpace
          BY <2>2, TimesKeepsOrder
        <5>2. n * HashSpace \in Nat /\ d * HashSpace \in Nat
          BY <2>2
        <5> QED BY <4>3, <4>4, <5>1, <5>2
      <4> QED BY <2>1, <2>2, <2>4, <4>1, <4>2, <4>5
    <3>2. ASSUME NEW i \in 0..(n - 1)
          PROVE  Cardinality({h \in 0..(HashSpace - 1) : PredictiveIndex(n, h) = i})
                   - (HashSpace \div n) \in {0, 1}
      <4>1. {h \in 0..(HashSpace - 1) : PredictiveIndex(n, h) = i} =
            {h \in 0..(HashSpace - 1) : (h * n) \div HashSpace = i}
        BY <2>4
      <4> QED BY <2>2, <4>1, MultiplesEven
    <3> QED BY <2>1, <3>1, <3>2 DEF PredictiveEven
  <2> QED BY <2>3, <2>4, PredictiveCases
<1> QED BY <1>1, SprayInvHolds, PTL

----------------------------------------------------------------------------
(* The plan of the workers. *)

\* The place in a list of L cores that worker w takes, and in which round.
Turn(w, L) == ((w - 1) % L) + 1
Round(w, L) == (w - 1) \div L
Served(W, L, K) == {w \in 1..W : Turn(w, L) \in K}

LEMMA TurnOf ==
  ASSUME NEW L \in Nat \ {0}, NEW k \in 1..L, NEW j \in Nat
  PROVE  /\ Turn(k + j * L, L) = k /\ Round(k + j * L, L) = j
         /\ k + j * L \in Nat \ {0}
<1>1. PICK x \in Nat : x = j * L
  OBVIOUS
<1>2. k - 1 \in 0..(L - 1) /\ (k + x) - 1 = x + (k - 1)
  OBVIOUS
<1>3. (x + (k - 1)) % L = k - 1 /\ (x + (k - 1)) \div L = j
  BY <1>1, <1>2, ModUnique, DivUnique
<1>4. k + x \in Nat \ {0} /\ (k - 1) + 1 = k
  OBVIOUS
<1> QED BY <1>1, <1>2, <1>3, <1>4 DEF Turn, Round

LEMMA OfTurn ==
  ASSUME NEW L \in Nat \ {0}, NEW w \in Nat \ {0}
  PROVE  Turn(w, L) \in 1..L /\ Round(w, L) \in Nat /\ w = Turn(w, L) + Round(w, L) * L
<1>1. PICK x \in Nat : x = w - 1
  OBVIOUS
<1>2. PICK d \in Nat, r \in 0..(L - 1) : d = x \div L /\ r = x % L /\ x = d * L + r
  BY DivModNat
<1>3. Turn(w, L) = r + 1 /\ Round(w, L) = d
  BY <1>1, <1>2 DEF Turn, Round
<1>4. d * L \in Nat
  OBVIOUS
<1> QED BY <1>1, <1>2, <1>3, <1>4

\* Each place serves every full round, and at most one round more.
LEMMA ServedInRounds ==
  ASSUME NEW L \in Nat \ {0}, NEW W \in Nat, NEW K \in SUBSET (1..L)
  PROVE  /\ Cardinality(Served(W, L, K)) >= Cardinality(K) * (W \div L)
         /\ Cardinality(Served(W, L, K)) <= Cardinality(K) * ((W + L - 1) \div L)
<1>1. PICK q \in Nat, r \in 0..(L - 1) : q = W \div L /\ W = q * L + r
  BY DivModNat
<1>2. PICK Q \in Nat, s \in 0..(L - 1) : Q = (W + L - 1) \div L /\ W + L - 1 = Q * L + s
  <2>1. PICK x \in Nat : x = W + L - 1
    OBVIOUS
  <2> QED BY <2>1, DivModNat
<1>3. IsFiniteSet(K) /\ IsFiniteSet(Served(W, L, K)) /\ Cardinality(K) \in Nat
      /\ Cardinality(Served(W, L, K)) \in Nat
  <2>1. IsFiniteSet(1..L) /\ IsFiniteSet(1..W)
    BY FS_Interval
  <2>2. Served(W, L, K) \in SUBSET (1..W)
    BY DEF Served
  <2> QED BY <2>1, <2>2, FS_Subset, FS_CardinalityType
<1>4. \A n \in Nat : /\ IsFiniteSet(K \X (0..(n - 1)))
                     /\ Cardinality(K \X (0..(n - 1))) = Cardinality(K) * n
  <2> SUFFICES ASSUME NEW n \in Nat
               PROVE  /\ IsFiniteSet(K \X (0..(n - 1)))
                      /\ Cardinality(K \X (0..(n - 1))) = Cardinality(K) * n
    OBVIOUS
  <2>1. n - 1 \in Int /\ 0 \in Int
    OBVIOUS
  <2>2. IsFiniteSet(0..(n - 1)) /\ Cardinality(0..(n - 1)) = IF 0 > n - 1 THEN 0 ELSE (n - 1) - 0 + 1
    BY <2>1, FS_Interval
  <2>3. Cardinality(0..(n - 1)) = n
    BY <2>2
  <2> QED BY <1>3, <2>2, <2>3, FS_Product
<1>5. Cardinality(K \X (0..(q - 1))) <= Cardinality(Served(W, L, K))
  <2> DEFINE S == K \X (0..(q - 1))
  <2> DEFINE f == [p \in S |-> p[1] + p[2] * L]
  <2>1. ASSUME NEW p \in S
        PROVE  /\ f[p] \in Served(W, L, K)
               /\ Turn(f[p], L) = p[1] /\ Round(f[p], L) = p[2]
    <3>1. PICK k \in 1..L, j \in Nat : k = p[1] /\ k \in K /\ j = p[2] /\ j + 1 <= q
      <4> HIDE DEF f
      <4>1. PICK k \in K, j \in 0..(q - 1) : k = p[1] /\ j = p[2]
        BY PairIs
      <4>2. k \in 1..L /\ j \in Nat /\ j + 1 <= q
        OBVIOUS
      <4> QED BY <4>1, <4>2
    <3>2. f[p] = k + j * L
      BY <3>1
    <3>3. (j + 1) * L <= q * L /\ (j + 1) * L = j * L + L
      BY <3>1, TimesKeepsOrder
    <3>4. k + j * L <= W
      BY <1>1, <3>3
    <3>5. /\ Turn(k + j * L, L) = k /\ Round(k + j * L, L) = j
          /\ k + j * L \in Nat \ {0}
      BY TurnOf
    <3>6. k + j * L \in 1..W
      BY <3>4, <3>5
    <3>7. k + j * L \in Served(W, L, K)
      BY <3>1, <3>5, <3>6 DEF Served
    <3> QED BY <3>1, <3>2, <3>5, <3>7
  <2>2. \A x, y \in S : f[x] = f[y] => x = y
    <3> SUFFICES ASSUME NEW x \in S, NEW y \in S, f[x] = f[y] PROVE x = y
      OBVIOUS
    <3>1. x[1] = y[1] /\ x[2] = y[2]
      BY <2>1
    <3> QED BY <3>1
  <2>3. f \in [S -> Served(W, L, K)]
    BY <2>1
  <2> HIDE DEF f
  <2> QED BY <1>3, <2>2, <2>3, NotMore
<1>6. Cardinality(Served(W, L, K)) <= Cardinality(K \X (0..(Q - 1)))
  <2> DEFINE f == [w \in Served(W, L, K) |-> <<Turn(w, L), Round(w, L)>>]
  <2>1. ASSUME NEW w \in Served(W, L, K)
        PROVE  f[w] \in K \X (0..(Q - 1)) /\ w = f[w][1] + f[w][2] * L
    <3>1. w \in Nat \ {0} /\ w <= W /\ Turn(w, L) \in K
      BY DEF Served
    <3>2. PICK k \in 1..L, j \in Nat : k = Turn(w, L) /\ j = Round(w, L) /\ w = k + j * L
      BY <3>1, OfTurn
    <3>3. j < Q
      <4> SUFFICES ASSUME Q <= j PROVE FALSE
        OBVIOUS
      <4>1. Q * L <= j * L /\ Q * L \in Nat /\ j * L \in Nat
        BY TimesKeepsOrder
      <4> QED BY <1>2, <3>1, <3>2, <4>1
    <3> QED BY <3>1, <3>2, <3>3
  <2>2. f \in [Served(W, L, K) -> K \X (0..(Q - 1))]
    BY <2>1
  <2>3. \A x, y \in Served(W, L, K) : f[x] = f[y] => x = y
    BY <2>1
  <2> HIDE DEF f
  <2> QED BY <1>4, <2>2, <2>3, NotMore
<1> QED BY <1>1, <1>2, <1>4, <1>5, <1>6
----------------------------------------------------------------------------
(* The list of cores that the chunks amount to. *)

\* A set with zero and with every successor has all naturals.
LEMMA Climb ==
  ASSUME NEW S, 0 \in S, \A n \in Nat : n \in S => n + 1 \in S
  PROVE  Nat \subseteq S
<1> SUFFICES ASSUME Nat \ S # {} PROVE FALSE
  OBVIOUS
<1> DEFINE R == OpToRel(<, Nat)
<1>1. IsWellFoundedOn(R, Nat)
  BY NatLessThanWellFounded
<1>2. \E x \in Nat \ S : \A y \in Nat \ S : ~(<<y, x>> \in R)
  <2> HIDE DEF R
  <2> QED BY <1>1, WFMin
<1>3. PICK x \in Nat \ S : \A y \in Nat \ S : ~(<<y, x>> \in R)
  BY <1>2
<1>4. x # 0 /\ x - 1 \in Nat /\ x - 1 < x /\ (x - 1) + 1 = x
  OBVIOUS
<1>5. <<x - 1, x>> \in R
  BY <1>4 DEF OpToRel
<1> HIDE DEF R
<1>6. x - 1 \in S
  BY <1>3, <1>4, <1>5
<1> QED BY <1>4, <1>6

\* The recursive function FlattenSeq is made of.
FlatTo(seqs, n, f) == f = [i \in 1..n |-> IF i = 1 THEN seqs[i] ELSE f[i - 1] \o seqs[i]]
IsFlat(seqs, f) == FlatTo(seqs, Len(seqs), f)
Flat(seqs) == CHOOSE f : IsFlat(seqs, f)

LEMMA FlattenIs ==
  ASSUME NEW seqs, Len(seqs) # 0
  PROVE  FlattenSeq(seqs) = Flat(seqs)[Len(seqs)]
  BY DEF FlattenSeq, Flat, IsFlat, FlatTo

LEMMA FlatExists ==
  ASSUME NEW seqs
  PROVE  \A n \in Nat : \E f : FlatTo(seqs, n, f)
<1> DEFINE S == {n \in Nat : \E f : FlatTo(seqs, n, f)}
<1>1. 0 \in S
  <2> DEFINE f == [i \in 1..0 |-> i]
  <2>1. f = [i \in 1..0 |-> IF i = 1 THEN seqs[i] ELSE f[i - 1] \o seqs[i]]
    OBVIOUS
  <2>2. FlatTo(seqs, 0, f)
    BY <2>1 DEF FlatTo
  <2> QED BY <2>2
<1>2. ASSUME NEW n \in Nat, n \in S PROVE n + 1 \in S
  <2>1. PICK f : FlatTo(seqs, n, f)
    BY <1>2
  <2> DEFINE new == IF n = 0 THEN seqs[1] ELSE f[n] \o seqs[n + 1]
  <2> DEFINE g == [i \in 1..(n + 1) |-> IF i = n + 1 THEN new ELSE f[i]]
  <2>2. \A i \in 1..n : f[i] = IF i = 1 THEN seqs[i] ELSE f[i - 1] \o seqs[i]
    BY <2>1 DEF FlatTo
  <2>3. \A i \in 1..(n + 1) : g[i] = IF i = 1 THEN seqs[i] ELSE g[i - 1] \o seqs[i]
    <3> SUFFICES ASSUME NEW i \in 1..(n + 1)
                 PROVE  g[i] = IF i = 1 THEN seqs[i] ELSE g[i - 1] \o seqs[i]
      OBVIOUS
    <3>1. CASE i = n + 1 /\ n = 0
      BY <3>1
    <3>2. CASE i = n + 1 /\ n # 0
      <4>1. i # 1 /\ i - 1 = n /\ i - 1 \in 1..(n + 1) /\ i - 1 # n + 1
        BY <3>2
      <4>2. g[i - 1] = f[n] /\ g[i] = f[n] \o seqs[i]
        BY <3>2, <4>1
      <4> QED BY <4>1, <4>2
    <3>3. CASE i # n + 1 /\ i = 1
      BY <2>2, <3>3
    <3>4. CASE i # n + 1 /\ i # 1
      <4>1. i \in 1..n /\ i - 1 \in 1..(n + 1) /\ i - 1 # n + 1
        BY <3>4
      <4>2. g[i - 1] = f[i - 1] /\ g[i] = f[i]
        BY <3>4, <4>1
      <4> QED BY <2>2, <3>4, <4>1, <4>2
    <3> QED BY <3>1, <3>2, <3>3, <3>4
  <2>4. DOMAIN g = 1..(n + 1) /\ g = [i \in 1..(n + 1) |-> g[i]]
    OBVIOUS
  <2> HIDE DEF g
  <2>5. g = [i \in 1..(n + 1) |-> IF i = 1 THEN seqs[i] ELSE g[i - 1] \o seqs[i]]
    BY <2>3, <2>4
  <2>6. FlatTo(seqs, n + 1, g)
    BY <2>5 DEF FlatTo
  <2> QED BY <2>6
<1> HIDE DEF S
<1>3. Nat \subseteq S
  BY <1>1, <1>2, Climb
<1> QED BY <1>3 DEF S

LEMMA FlatValues ==
  ASSUME NEW seqs, Len(seqs) \in Nat
  PROVE  \A i \in 1..Len(seqs) :
           Flat(seqs)[i] = IF i = 1 THEN seqs[i] ELSE Flat(seqs)[i - 1] \o seqs[i]
<1>1. \E f : IsFlat(seqs, f)
  BY FlatExists DEF IsFlat
<1>2. IsFlat(seqs, Flat(seqs))
  BY <1>1 DEF Flat
<1> QED BY <1>2 DEF IsFlat, FlatTo

\* The cores of each chunk, and the namings of the first m chunks.
Spans(list) ==
  [i \in DOMAIN list |-> [j \in 1..(list[i][2] - list[i][1] + 1) |-> list[i][1] + j - 1]]
Entries(list, m) ==
  {e \in (1..m) \X (0..MaxCore) : e[2] \in list[e[1]][1]..list[e[1]][2]}

\* A list in which every chunk is a range of cores.
GoodList(list, n) ==
  /\ n \in Nat \ {0} /\ list \in [1..n -> Chunks]
  /\ \A i \in 1..n : list[i][1] <= list[i][2]

LEMMA MappingIsSeq ==
  ASSUME NEW S, NEW d \in Nat, NEW s \in [1..d -> S]
  PROVE  s \in Seq(S) /\ Len(s) = d
  OBVIOUS

LEMMA Ranges ==
  ASSUME NEW n, NEW list, GoodList(list, n), NEW i \in 1..n
  PROVE  \E lo \in 0..MaxCore, hi \in 0..MaxCore, d \in Nat \ {0} :
           /\ list[i][1] = lo /\ list[i][2] = hi /\ lo <= hi /\ d = hi - lo + 1
           /\ Spans(list)[i] \in Seq(0..MaxCore) /\ Len(Spans(list)[i]) = d
           /\ \A j \in 1..d : Spans(list)[i][j] = lo + j - 1
<1>1. list[i] \in (0..MaxCore) \X (0..MaxCore)
  BY WorkerPlanAssumption DEF GoodList
<1>2. PICK lo \in 0..MaxCore, hi \in 0..MaxCore : lo = list[i][1] /\ hi = list[i][2] /\ lo <= hi
  BY <1>1, PairIs DEF GoodList
<1>3. PICK d \in Nat \ {0} : d = hi - lo + 1
  BY <1>2, WorkerPlanAssumption
<1>4. Spans(list)[i] = [j \in 1..d |-> lo + j - 1]
  BY <1>2, <1>3 DEF Spans, GoodList
<1>5. \A j \in 1..d : lo + j - 1 \in 0..MaxCore
  BY <1>3, WorkerPlanAssumption
<1>6. Spans(list)[i] \in Seq(0..MaxCore) /\ Len(Spans(list)[i]) = d
  <2>1. Spans(list)[i] \in [1..d -> 0..MaxCore]
    BY <1>4, <1>5
  <2> QED BY <2>1, MappingIsSeq
<1>7. \A j \in 1..d : Spans(list)[i][j] = lo + j - 1
  BY <1>4
<1> QED BY <1>2, <1>3, <1>6, <1>7
\* A flat list that names what the first m chunks name, one place for each.
Enumerates(list, m, b) ==
  /\ b \in Seq(0..MaxCore)
  /\ \E pos \in [1..Len(b) -> Entries(list, m)] :
       /\ \A x \in 1..Len(b) : b[x] = pos[x][2]
       /\ \A x, y \in 1..Len(b) : pos[x] = pos[y] => x = y
       /\ \A e \in Entries(list, m) : \E x \in 1..Len(b) : pos[x] = e

Grown(list, m, lo, hi) ==
  /\ \A e \in Entries(list, m) : e \in Entries(list, m + 1) /\ e[1] # m + 1
  /\ \A c \in lo..hi : <<m + 1, c>> \in Entries(list, m + 1)
  /\ \A e \in Entries(list, m + 1) :
       e \in Entries(list, m) \/ (e[1] = m + 1 /\ e[2] \in lo..hi /\ e = <<e[1], e[2]>>)

LEMMA EntriesGrow ==
  ASSUME NEW n, NEW list, GoodList(list, n), NEW m \in Nat, m + 1 \in 1..n,
         NEW lo \in 0..MaxCore, NEW hi \in 0..MaxCore,
         list[m + 1][1] = lo, list[m + 1][2] = hi
  PROVE  Grown(list, m, lo, hi)
<1>1. ASSUME NEW e \in Entries(list, m)
      PROVE  e \in Entries(list, m + 1) /\ e[1] # m + 1
  <2>1. e \in (1..m) \X (0..MaxCore) /\ e[2] \in list[e[1]][1]..list[e[1]][2]
    BY DEF Entries
  <2>2. e[1] \in 1..m /\ e[2] \in 0..MaxCore /\ e = <<e[1], e[2]>>
    BY <2>1, PairIs
  <2>3. e[1] \in 1..(m + 1) /\ e[1] # m + 1
    BY <2>2
  <2>4. e \in (1..(m + 1)) \X (0..MaxCore)
    BY <2>2, <2>3
  <2> QED BY <2>1, <2>3, <2>4 DEF Entries
<1>2. ASSUME NEW c \in lo..hi PROVE <<m + 1, c>> \in Entries(list, m + 1)
  <2>1. c \in 0..MaxCore /\ m + 1 \in 1..(m + 1)
    BY WorkerPlanAssumption
  <2> QED BY <2>1 DEF Entries
<1>3. ASSUME NEW e \in Entries(list, m + 1)
      PROVE  e \in Entries(list, m) \/ (e[1] = m + 1 /\ e[2] \in lo..hi /\ e = <<e[1], e[2]>>)
  <2>1. e \in (1..(m + 1)) \X (0..MaxCore) /\ e[2] \in list[e[1]][1]..list[e[1]][2]
    BY DEF Entries
  <2>2. e[1] \in 1..(m + 1) /\ e[2] \in 0..MaxCore /\ e = <<e[1], e[2]>>
    BY <2>1, PairIs
  <2>3. CASE e[1] = m + 1
    BY <2>1, <2>2, <2>3
  <2>4. CASE e[1] # m + 1
    <3>1. e[1] \in 1..m
      BY <2>2, <2>4
    <3>2. e \in (1..m) \X (0..MaxCore)
      BY <2>2, <3>1
    <3> QED BY <2>1, <3>2 DEF Entries
  <2> QED BY <2>3, <2>4
<1> QED BY <1>1, <1>2, <1>3 DEF Grown

LEMMA ConcatIs ==
  ASSUME NEW S, NEW s \in Seq(S), NEW t \in Seq(S)
  PROVE  /\ s \o t \in Seq(S) /\ Len(s \o t) = Len(s) + Len(t)
         /\ \A x \in 1..(Len(s) + Len(t)) :
              (s \o t)[x] = IF x <= Len(s) THEN s[x] ELSE t[x - Len(s)]
  OBVIOUS

\* One more chunk.
LEMMA OneMoreSpan ==
  ASSUME NEW n, NEW list, GoodList(list, n), NEW m \in Nat, m + 1 \in 1..n,
         NEW b, Enumerates(list, m, b)
  PROVE  Enumerates(list, m + 1, b \o Spans(list)[m + 1])
<1>1. PICK lo \in 0..MaxCore, hi \in 0..MaxCore, d \in Nat \ {0} :
        /\ list[m + 1][1] = lo /\ list[m + 1][2] = hi /\ lo <= hi /\ d = hi - lo + 1
        /\ Spans(list)[m + 1] \in Seq(0..MaxCore) /\ Len(Spans(list)[m + 1]) = d
        /\ \A j \in 1..d : Spans(list)[m + 1][j] = lo + j - 1
  BY Ranges
<1>0. PICK L \in Nat : b \in Seq(0..MaxCore) /\ Len(b) = L
  BY DEF Enumerates
<1>2. PICK pos \in [1..L -> Entries(list, m)] :
        /\ \A x \in 1..L : b[x] = pos[x][2]
        /\ \A x, y \in 1..L : pos[x] = pos[y] => x = y
        /\ \A e \in Entries(list, m) : \E x \in 1..L : pos[x] = e
  BY <1>0 DEF Enumerates
<1>3. PICK long : long = b \o Spans(list)[m + 1]
  OBVIOUS
<1>4. /\ long \in Seq(0..MaxCore) /\ Len(long) = L + d
      /\ \A x \in 1..(L + d) : long[x] = IF x <= L THEN b[x] ELSE Spans(list)[m + 1][x - L]
  <2>1. PICK t \in Seq(0..MaxCore) : t = Spans(list)[m + 1] /\ Len(t) = d
    BY <1>1
  <2>2. /\ b \o t \in Seq(0..MaxCore) /\ Len(b \o t) = Len(b) + Len(t)
        /\ \A x \in 1..(Len(b) + Len(t)) :
             (b \o t)[x] = IF x <= Len(b) THEN b[x] ELSE t[x - Len(b)]
    BY <1>0, ConcatIs
  <2> QED BY <1>0, <1>3, <2>1, <2>2
<1>5. /\ \A e \in Entries(list, m) : e \in Entries(list, m + 1) /\ e[1] # m + 1
      /\ \A c \in lo..hi : <<m + 1, c>> \in Entries(list, m + 1)
      /\ \A e \in Entries(list, m + 1) :
           e \in Entries(list, m) \/ (e[1] = m + 1 /\ e[2] \in lo..hi /\ e = <<e[1], e[2]>>)
  <2>1. Grown(list, m, lo, hi)
    BY <1>1, EntriesGrow
  <2> QED BY <2>1 DEF Grown
<1> DEFINE at(x) == IF x <= L THEN pos[x] ELSE <<m + 1, lo + (x - L) - 1>>
<1> DEFINE f == [x \in 1..(L + d) |-> at(x)]
<1>6. ASSUME NEW x \in 1..(L + d)
      PROVE  at(x) \in Entries(list, m + 1) /\ long[x] = at(x)[2]
  <2>1. CASE x <= L
    <3>1. x \in 1..L /\ at(x) = pos[x]
      BY <2>1
    <3> QED BY <1>2, <1>4, <1>5, <2>1, <3>1
  <2>2. CASE x > L
    <3>1. PICK j \in 1..d : j = x - L
      BY <2>2
    <3>2. lo + j - 1 \in lo..hi
      BY <1>1
    <3>3. at(x) = <<m + 1, lo + j - 1>>
      BY <2>2, <3>1
    <3>4. long[x] = lo + j - 1
      BY <1>1, <1>4, <2>2, <3>1
    <3> QED BY <1>5, <3>2, <3>3, <3>4
  <2> QED BY <2>1, <2>2
<1>7. f \in [1..(L + d) -> Entries(list, m + 1)]
  BY <1>6
<1>8. ASSUME NEW x \in 1..(L + d), NEW y \in 1..(L + d), at(x) = at(y) PROVE x = y
  <2>1. \A z \in 1..L : pos[z][1] # m + 1
    BY <1>2, <1>5
  <2>2. CASE x <= L /\ y <= L
    BY <1>2, <1>8, <2>2
  <2>3. CASE x <= L /\ ~(y <= L)
    BY <1>8, <2>1, <2>3
  <2>4. CASE ~(x <= L) /\ y <= L
    BY <1>8, <2>1, <2>4
  <2>5. CASE ~(x <= L) /\ ~(y <= L)
    <3>1. lo + (x - L) - 1 = lo + (y - L) - 1
      BY <1>8, <2>5
    <3> QED BY <3>1
  <2> QED BY <2>2, <2>3, <2>4, <2>5
<1>9. ASSUME NEW e \in Entries(list, m + 1) PROVE \E x \in 1..(L + d) : at(x) = e
  <2>1. CASE e \in Entries(list, m)
    <3>1. PICK x \in 1..L : pos[x] = e
      BY <1>2, <2>1
    <3>2. x \in 1..(L + d) /\ at(x) = e
      BY <3>1
    <3> QED BY <3>2
  <2>2. CASE e[1] = m + 1 /\ e[2] \in lo..hi /\ e = <<e[1], e[2]>>
    <3>1. PICK c \in lo..hi : e = <<m + 1, c>>
      BY <2>2
    <3>2. PICK x \in 1..(L + d) : x = L + (c - lo) + 1
      BY <1>1
    <3>3. ~(x <= L) /\ lo + (x - L) - 1 = c
      BY <3>2
    <3> QED BY <3>1, <3>3
  <2> QED BY <1>5, <2>1, <2>2
<1>10. /\ \A x \in 1..(L + d) : long[x] = f[x][2]
       /\ \A x, y \in 1..(L + d) : f[x] = f[y] => x = y
       /\ \A e \in Entries(list, m + 1) : \E x \in 1..(L + d) : f[x] = e
  BY <1>6, <1>8, <1>9
<1>11. Enumerates(list, m + 1, long)
  <2> HIDE DEF f
  <2>1. f \in [1..Len(long) -> Entries(list, m + 1)]
    BY <1>4, <1>7
  <2>2. /\ \A x \in 1..Len(long) : long[x] = f[x][2]
        /\ \A x, y \in 1..Len(long) : f[x] = f[y] => x = y
        /\ \A e \in Entries(list, m + 1) : \E x \in 1..Len(long) : f[x] = e
    BY <1>4, <1>10
  <2> QED BY <1>4, <2>1, <2>2 DEF Enumerates
<1> QED BY <1>3, <1>11
\* parse_core_list lists the cores of the chunks.
LEMMA ParsedEnumerates ==
  ASSUME NEW n, NEW list, GoodList(list, n)
  PROVE  Enumerates(list, n, ParsedCores(list))
<1>1. n \in Nat \ {0} /\ DOMAIN list = 1..n
  BY DEF GoodList
<1>2. Len(Spans(list)) = n
  BY <1>1 DEF Spans
<1>4. PICK F : /\ F = Flat(Spans(list))
               /\ \A i \in 1..n :
                    F[i] = IF i = 1 THEN Spans(list)[i] ELSE F[i - 1] \o Spans(list)[i]
  BY <1>1, <1>2, FlatValues
<1>5. ParsedCores(list) = F[n]
  BY <1>1, <1>2, <1>4, FlattenIs DEF ParsedCores, Spans
<1>6. Enumerates(list, 0, <<>>)
  <2>1. Entries(list, 0) = {}
    BY PairIs DEF Entries
  <2>2. <<>> \in Seq(0..MaxCore) /\ Len(<<>>) = 0 /\ 1..0 = {}
    OBVIOUS
  <2> DEFINE none == [x \in 1..0 |-> x]
  <2>3. none \in [1..0 -> Entries(list, 0)]
    BY <2>2
  <2> HIDE DEF none
  <2> QED BY <2>1, <2>2, <2>3 DEF Enumerates
<1> DEFINE S == {m \in Nat : m \in 1..n => Enumerates(list, m, F[m])}
<1>7. 0 \in S
  OBVIOUS
<1>8. ASSUME NEW m \in Nat, m \in S PROVE m + 1 \in S
  <2> SUFFICES ASSUME m + 1 \in 1..n PROVE Enumerates(list, m + 1, F[m + 1])
    OBVIOUS
  <2>1. CASE m = 0
    <3>1. Enumerates(list, m, <<>>)
      BY <1>6, <2>1
    <3>2. Enumerates(list, m + 1, <<>> \o Spans(list)[m + 1])
      BY <3>1, OneMoreSpan
    <3>3. Spans(list)[m + 1] \in Seq(0..MaxCore)
      BY Ranges
    <3>4. <<>> \o Spans(list)[m + 1] = Spans(list)[m + 1]
      BY <3>3
    <3>5. F[m + 1] = Spans(list)[m + 1]
      BY <1>1, <1>4, <2>1
    <3> QED BY <3>2, <3>4, <3>5
  <2>2. CASE m # 0
    <3>1. m \in 1..n /\ m + 1 # 1 /\ (m + 1) - 1 = m
      BY <1>1, <2>2
    <3>2. Enumerates(list, m, F[m])
      BY <1>8, <3>1
    <3>3. Enumerates(list, m + 1, F[m] \o Spans(list)[m + 1])
      BY <3>2, OneMoreSpan
    <3>4. F[m + 1] = F[m] \o Spans(list)[m + 1]
      BY <1>4, <3>1
    <3> QED BY <3>3, <3>4
  <2> QED BY <2>1, <2>2
<1>9. Nat \subseteq S
  <2> HIDE DEF S
  <2> QED BY <1>7, <1>8, Climb
<1> QED BY <1>1, <1>5, <1>9

\* As many cores as the chunks name, each as often as it is named.
LEMMA ParsedCounts ==
  ASSUME NEW n, NEW list, GoodList(list, n), NEW b, b = ParsedCores(list)
  PROVE  /\ b \in Seq(0..MaxCore) /\ Len(b) = Cardinality(Namings(list))
         /\ \A c : Cardinality({k \in 1..Len(b) : b[k] = c}) = Cardinality(Naming(list, c))
<1>1. n \in Nat \ {0} /\ DOMAIN list = 1..n
  BY DEF GoodList
<1>2. Namings(list) = Entries(list, n)
  BY <1>1 DEF Namings, Entries
<1>3. Enumerates(list, n, b)
  BY ParsedEnumerates
<1>4. PICK L \in Nat : b \in Seq(0..MaxCore) /\ Len(b) = L
  BY <1>3 DEF Enumerates
<1>5. PICK pos \in [1..L -> Entries(list, n)] :
        /\ \A x \in 1..L : b[x] = pos[x][2]
        /\ \A x, y \in 1..L : pos[x] = pos[y] => x = y
        /\ \A e \in Entries(list, n) : \E x \in 1..L : pos[x] = e
  BY <1>3, <1>4 DEF Enumerates
<1>6. Cardinality(Entries(list, n)) = L
  BY <1>5, Counted
<1>7. ASSUME NEW c
      PROVE  Cardinality({k \in 1..L : b[k] = c}) = Cardinality(Naming(list, c))
  <2> DEFINE K == {k \in 1..L : b[k] = c}
  <2> DEFINE f == [k \in K |-> pos[k][1]]
  <2>1. ASSUME NEW e \in Entries(list, n)
        PROVE  /\ e = <<e[1], e[2]>> /\ e[1] \in 1..n
               /\ e[2] \in list[e[1]][1]..list[e[1]][2]
    <3>1. e \in (1..n) \X (0..MaxCore) /\ e[2] \in list[e[1]][1]..list[e[1]][2]
      BY DEF Entries
    <3> QED BY <3>1, PairIs
  <2>2. ASSUME NEW k \in K
        PROVE  /\ pos[k] = <<pos[k][1], c>> /\ pos[k][1] \in Naming(list, c)
    <3>1. pos[k] \in Entries(list, n) /\ pos[k][2] = c
      BY <1>5
    <3> QED BY <1>1, <2>1, <3>1 DEF Naming
  <2>3. f \in [K -> Naming(list, c)]
    BY <2>2
  <2>4. \A x, y \in K : f[x] = f[y] => x = y
    <3> SUFFICES ASSUME NEW x \in K, NEW y \in K, f[x] = f[y] PROVE x = y
      OBVIOUS
    <3>1. pos[x] = pos[y]
      BY <2>2
    <3> QED BY <1>5, <3>1
  <2>5. \A i \in Naming(list, c) : \E x \in K : f[x] = i
    <3> SUFFICES ASSUME NEW i \in Naming(list, c) PROVE \E x \in K : pos[x][1] = i
      OBVIOUS
    <3>1. i \in 1..n /\ c \in list[i][1]..list[i][2]
      BY <1>1 DEF Naming
    <3>2. PICK lo \in 0..MaxCore, hi \in 0..MaxCore : list[i][1] = lo /\ list[i][2] = hi
      BY <3>1, Ranges
    <3>3. c \in 0..MaxCore
      BY <3>1, <3>2, WorkerPlanAssumption
    <3>4. <<i, c>> \in (1..n) \X (0..MaxCore)
      BY <3>1, <3>3
    <3>5. <<i, c>> \in Entries(list, n)
      BY <3>1, <3>4 DEF Entries
    <3>6. PICK x \in 1..L : pos[x] = <<i, c>>
      BY <1>5, <3>5
    <3>7. b[x] = c
      BY <1>5, <3>6
    <3> QED BY <3>6, <3>7
  <2>6. IsFiniteSet(K)
    <3>1. IsFiniteSet(1..L) /\ K \in SUBSET (1..L)
      BY FS_Interval
    <3> QED BY <3>1, FS_Subset
  <2>7. Cardinality(K) = Cardinality(Naming(list, c))
    <3> HIDE DEF f, K
    <3> QED BY <2>3, <2>4, <2>5, <2>6, AsMany
  <2> QED BY <2>7
<1> QED BY <1>2, <1>4, <1>6, <1>7
\* What PlanWorkers leaves.
Planned(n, list, W) ==
  /\ n \in 0..MaxChunks /\ list \in [1..n -> Chunks \cup {NotANumber}] /\ W \in 1..MaxWorkers
  /\ worker_cores = list /\ plan = BuildWorkerPlan(W, ResolveWorkerCores(list))

PlanInv == plan # <<>> => \E n, list, W : Planned(n, list, W)

LEMMA PlanInvHolds == PlanSpec => []PlanInv
<1>1. PlanInit => PlanInv
  BY DEF PlanInit, PlanInv
<1>2. PlanInv /\ [PlanNext]_planVars => PlanInv'
  <2> SUFFICES ASSUME PlanInv, [PlanNext]_planVars PROVE PlanInv'
    OBVIOUS
  <2>1. CASE UNCHANGED planVars
    BY <2>1 DEF PlanInv, Planned, planVars
  <2>2. CASE Joined
    BY <2>2 DEF PlanInv, Joined
  <2>3. ASSUME NEW list \in UNION {[1..n -> Chunks \cup {NotANumber}] : n \in 0..MaxChunks},
               NEW W \in 1..MaxWorkers, PlanWorkers(list, W)
        PROVE  PlanInv'
    <3>1. PICK n \in 0..MaxChunks : list \in [1..n -> Chunks \cup {NotANumber}]
      OBVIOUS
    <3>2. Planned(n, list, W)'
      BY <2>3, <3>1 DEF PlanWorkers, Planned
    <3> QED BY <3>2 DEF PlanInv
  <2> QED BY <2>1, <2>2, <2>3 DEF PlanNext
<1> QED BY <1>1, <1>2, PTL DEF PlanSpec

\* Core c has its share of a plan, to a round over all places.
InRounds(p, c, share, all) ==
  LET workers == Cardinality({w \in DOMAIN p : p[w] = c})
  IN  /\ workers >= share * (Len(p) \div all)
      /\ workers <= share * ((Len(p) + all - 1) \div all)

\* A core list of L places is served in rounds.
LEMMA PlanInRounds ==
  ASSUME NEW W \in 1..MaxWorkers, NEW cores \in Seq(0..MaxCore), Len(cores) > 0,
         NEW p, p = BuildWorkerPlan(W, cores), NEW c
  PROVE  InRounds(p, c, Cardinality({k \in 1..Len(cores) : cores[k] = c}), Len(cores))
<1>1. PICK L \in Nat \ {0} : L = Len(cores)
  OBVIOUS
<1>2. W \in Nat \ {0}
  BY WorkerPlanAssumption
<1>3. p = [w \in 1..W |-> cores[((w - 1) % L) + 1]]
  BY <1>1 DEF BuildWorkerPlan
<1>4. PICK K \in SUBSET (1..L) : K = {k \in 1..L : cores[k] = c}
  OBVIOUS
<1>5. {w \in DOMAIN p : p[w] = c} = Served(W, L, K)
  <2>1. \A w \in 1..W : p[w] = cores[Turn(w, L)] /\ Turn(w, L) \in 1..L
    <3> SUFFICES ASSUME NEW w \in 1..W
                 PROVE  p[w] = cores[Turn(w, L)] /\ Turn(w, L) \in 1..L
      OBVIOUS
    <3>1. p[w] = cores[Turn(w, L)]
      BY <1>3 DEF Turn
    <3>2. w \in Nat \ {0}
      BY <1>2
    <3> QED BY <3>1, <3>2, OfTurn
  <2> QED BY <1>3, <1>4, <2>1 DEF Served
<1>6. Len(p) = W
  BY <1>2, <1>3
<1>7. /\ Cardinality(Served(W, L, K)) >= Cardinality(K) * (W \div L)
      /\ Cardinality(Served(W, L, K)) <= Cardinality(K) * ((W + L - 1) \div L)
  BY <1>2, ServedInRounds
<1> QED BY <1>1, <1>4, <1>5, <1>6, <1>7 DEF InRounds

\* For any core list and any number of workers, no core gets a second worker
\* before every listed place has one, and each core its share to a round.
THEOREM PlanIsBalanced == PlanSpec => []PlanBalanced
<1>1. PlanInv => PlanBalanced
  <2> SUFFICES ASSUME PlanInv, plan # <<>> PROVE PlanBalanced
    BY DEF PlanBalanced
  <2>1. PICK n, list, W : Planned(n, list, W)
    BY DEF PlanInv
  <2>2. /\ n \in Nat /\ list \in [1..n -> Chunks \cup {NotANumber}] /\ W \in 1..MaxWorkers
        /\ worker_cores = list /\ plan = BuildWorkerPlan(W, ResolveWorkerCores(list))
    BY <2>1, WorkerPlanAssumption DEF Planned
  <2>3. CASE Usable(list)
    <3>1. n # 0
      BY <2>2, <2>3 DEF Usable
    <3>2. GoodList(list, n)
      BY <2>2, <2>3, <3>1 DEF Usable, GoodList
    <3>3. ~ParseFails(list)
      <4>1. \A i \in 1..n : /\ list[i][1] <= list[i][2] /\ list[i] # NotANumber
                            /\ list[i] \in (0..MaxCore) \X (0..MaxCore)
        BY <2>2, <2>3, <3>2, WorkerPlanAssumption DEF Usable, GoodList
      <4>2. \A i \in 1..n : ~(list[i][1] > list[i][2])
        <5> SUFFICES ASSUME NEW i \in 1..n PROVE ~(list[i][1] > list[i][2])
          OBVIOUS
        <5>1. list[i][1] \in 0..MaxCore /\ list[i][2] \in 0..MaxCore
          BY <4>1, PairIs
        <5> QED BY <4>1, <5>1
      <4> QED BY <2>2, <2>3, <4>1, <4>2 DEF ParseFails, Bad, Usable
    <3>4. PICK cores : cores = ParsedCores(list) /\ plan = BuildWorkerPlan(W, cores)
      BY <2>2, <3>3 DEF ResolveWorkerCores
    <3>5. /\ cores \in Seq(0..MaxCore) /\ Len(cores) = Cardinality(Namings(list))
          /\ \A c : Cardinality({k \in 1..Len(cores) : cores[k] = c}) = Cardinality(Naming(list, c))
      BY <3>2, <3>4, ParsedCounts
    <3> SUFFICES ASSUME Cardinality(Namings(list)) > 0, NEW c
                 PROVE  InRounds(plan, c, Cardinality(Naming(list, c)), Cardinality(Namings(list)))
      BY <2>2, <2>3 DEF PlanBalanced, InRounds
    <3>6. InRounds(plan, c, Cardinality({k \in 1..Len(cores) : cores[k] = c}), Len(cores))
      BY <2>2, <3>4, <3>5, PlanInRounds
    <3> QED BY <3>5, <3>6
  <2>4. CASE ~Usable(list)
    <3>1. ParseFails(list)
      <4>1. CASE list = <<>>
        BY <4>1 DEF ParseFails
      <4>2. CASE list # <<>>
        <5>1. PICK i \in 1..n : list[i] = NotANumber \/ ~(list[i][1] <= list[i][2])
          BY <2>2, <2>4, <4>2 DEF Usable
        <5>2. CASE list[i] = NotANumber
          BY <2>2, <5>2 DEF ParseFails, Bad
        <5>3. CASE list[i] # NotANumber
          <6>1. list[i] \in (0..MaxCore) \X (0..MaxCore)
            BY <2>2, <5>3, WorkerPlanAssumption
          <6>2. list[i][1] \in 0..MaxCore /\ list[i][2] \in 0..MaxCore
            BY <6>1, PairIs
          <6>3. list[i][1] > list[i][2]
            BY <5>1, <5>3, <6>2
          <6> QED BY <2>2, <6>3 DEF ParseFails, Bad
        <5> QED BY <5>2, <5>3
      <4> QED BY <4>1, <4>2
    <3>2. plan = BuildWorkerPlan(W, Available) /\ Available \in Seq(0..MaxCore)
      BY <2>2, <3>1, WorkerPlanAssumption DEF ResolveWorkerCores
    <3>3. DOMAIN Available = 1..Len(Available)
      BY <3>2
    <3> SUFFICES ASSUME Len(Available) > 0, NEW c
                 PROVE  InRounds(plan, c, Cardinality({i \in 1..Len(Available) : Available[i] = c}),
                                 Len(Available))
      BY <2>2, <2>4, <3>3 DEF PlanBalanced, InRounds
    <3> QED BY <2>2, <3>2, PlanInRounds
  <2> QED BY <2>3, <2>4
<1> QED BY <1>1, PlanInvHolds, PTL
====
