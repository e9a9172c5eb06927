------------------------- MODULE RouteTableProofs -------------------------
(***************************************************************************)
(* What RouteTable guarantees for any number of tables, threads,           *)
(* destinations, routes and cache slots.                                   *)
(***************************************************************************)
EXTENDS RouteTable, TLAPS

----------------------------------------------------------------------------
\* The inductive invariants.

\* No tag is ahead of GLOBAL_TABLE_EPOCH, neither in a slot nor in the hands
\* of a lookup that has yet to fill one: a bump therefore leaves none current.
TagsBounded ==
  /\ \A th \in Threads : \A o \in CachedOps : \A s \in Slots : cache[th][o][s].epoch <= epoch
  /\ \A th \in Threads : pc[th] \in ReaderPCs => call[th].epoch <= epoch

\* The window of a call contains the route its destination has now.
WindowCurrent ==
  \A th \in Threads : pc[th] # "idle" => shard[call[th].table][call[th].dest] \in window[th]

CacheInv == TypeOK /\ TagsBounded /\ WindowCurrent /\ FreshCacheAgrees

\* A lookup reaches the fallback only after it saw the destination unrouted.
FallbackMissed ==
  \A th \in Threads : pc[th] = "fallback" =>
    call[th].op = "or_predict" /\ NoRoute \in window[th]

LookupInv == CacheInv /\ FallbackMissed /\ LookupRegular

\* The caches do not record which table a hop came from,
\* so what a lookup returns is right only in a process with a single table.
OneTable == \A t1, t2 \in Tables : t1 = t2

\* The hops rebuilt under the lock match the ordered map at all times.
PredictiveMatches ==
  \A t \in Tables, d \in Dests :
    predictive[t][d] = (IF inner[t][d] = NoRoute THEN NoHop ELSE inner[t][d].next_hop_id)

\* A destination that was never raced has at most one writer, and how far that
\* writer is says how far the copies agree.
SoleWriter ==
  \A t \in Tables, d \in Dests : <<t, d>> \notin raced =>
    /\ \A v, w \in Writers(t, d) : v = w
    /\ \A w \in Writers(t, d) :
         /\ shard[t][d] = call[w].route
         /\ pc[w] \in {"stats", "epoch"} => inner[t][d] = call[w].route
         /\ pc[w] = "epoch" => (inner[t][d] # NoRoute => d \in stats[t])

AgreeInv == TypeOK /\ PredictiveMatches /\ SoleWriter /\ AgreeUnlessRaced

----------------------------------------------------------------------------
\* A remainder is below its divisor.
LEMMA ModRange ==
  ASSUME NEW a \in Nat, NEW b \in Nat
  PROVE  a % (1 + b) \in 0..b
  OBVIOUS

\* An element of a sequence within its length belongs to the base set: the
\* indexing of alternate_channels.
LEMMA SeqElement ==
  ASSUME NEW S, NEW q \in Seq(S), NEW i \in 1..Len(q)
  PROVE  q[i] \in S
  OBVIOUS

\* Selecting a channel by flow label stays inside the entry: the index of
\* lookup_spray_primary never reads past alternate_channels.
LEMMA SprayPrimaryType ==
  ASSUME NEW r \in Routes, NEW f \in Flows
  PROVE  SprayPrimary(r, f) \in Hops
<1> DEFINE q == r.alternate_channels
           i == f % (1 + Len(q))
<1>1. r.next_hop_id \in Hops /\ q \in Seq(Hops) /\ f \in Nat
  BY DataAssumption
<1>2. Len(q) \in Nat
  BY <1>1
<1> HIDE DEF q
<1>3. i \in 0..Len(q)
  BY <1>1, <1>2, ModRange
<1>4. i # 0 => q[i] \in Hops
  <2> SUFFICES ASSUME i # 0 PROVE q[i] \in Hops
    OBVIOUS
  <2> HIDE DEF i
  <2>1. i \in 1..Len(q)
    BY <1>2, <1>3
  <2> QED
    BY <1>1, <2>1, SeqElement
<1> QED
  BY <1>1, <1>4 DEF SprayPrimary, ChannelIndex, q

\* What a lookup derives from an entry is a hop.
LEMMA HopOfType ==
  ASSUME NEW op, NEW r \in Routes, NEW f \in Flows
  PROVE  HopOf(op, r, f) \in Hops
<1>1. r # NoRoute /\ r.next_hop_id \in Hops
  BY DataAssumption
<1> QED
  BY <1>1, SprayPrimaryType DEF HopOf

\* Where a lookup finds its cache entry, and the key it compares.
LEMMA SlotType ==
  ASSUME NEW op \in LookupOps, NEW d \in Dests, NEW f \in Flows
  PROVE  /\ CacheOf(op) \in CachedOps
         /\ SlotFor(op, d, f) \in Slots
         /\ KeyFlow(op, f) \in Flows
  BY SlotAssumption, DataAssumption DEF CacheOf, CachedOps, LookupOps, SlotFor, KeyFlow

\* Table::new and the empty thread caches are well typed.
LEMMA TypeInit == Init => TypeOK
<1> USE DataAssumption
<1> SUFFICES ASSUME Init PROVE TypeOK
  OBVIOUS
<1>1. PICK t \in Tables :
        cache = [th \in Threads |-> [o \in CachedOps |-> [s \in Slots |-> EmptyEntry(t)]]]
  BY DEF Init
<1>2. EmptyEntry(t) \in CacheEntry
  BY DEF EmptyEntry, CacheEntry
<1>3. cache \in [Threads -> [CachedOps -> [Slots -> CacheEntry]]]
  BY <1>1, <1>2
<1> QED
  BY <1>3 DEF Init, TypeOK, InitEpoch, MaybeRoute, MaybeHop, WriterPCs, ReaderPCs

\* Every step of an update, a lookup or a statistics call keeps the types.
LEMMA TypeStep == TypeOK /\ [Next]_vars => TypeOK'
<1> USE DataAssumption
<1> SUFFICES ASSUME TypeOK, [Next]_vars PROVE TypeOK'
  OBVIOUS
<1>1. ASSUME NEW th \in Threads, NEW t \in Tables, NEW d \in Dests, NEW r \in MaybeRoute,
             WriteShard(th, t, d, r)
      PROVE  TypeOK'
  <2>1. call'[th] \in WriteCall
    BY <1>1 DEF WriteShard, TypeOK, WriteCall
  <2>2. window' \in [Threads -> SUBSET MaybeRoute]
    BY <1>1 DEF WriteShard, TypeOK
  <2>3. raced' \in SUBSET (Tables \X Dests)
    BY <1>1 DEF WriteShard, TypeOK
  <2> QED
    BY <1>1, <2>1, <2>2, <2>3 DEF WriteShard, TypeOK, WriterPCs, ReaderPCs
<1>2. ASSUME NEW th \in Threads, WriteInner(th) PROVE TypeOK'
  <2>1. call[th] \in WriteCall
    BY <1>2 DEF WriteInner, TypeOK, WriterPCs
  <2>2. call[th].table \in Tables /\ call[th].dest \in Dests /\ call[th].route \in MaybeRoute
    BY <2>1 DEF WriteCall
  <2>3. inner' \in [Tables -> [Dests -> MaybeRoute]]
    BY <1>2, <2>2 DEF WriteInner, TypeOK
  <2>4. \A e \in [Dests -> MaybeRoute] : \A old : RebuildPredictive(old, e) \in [Dests -> MaybeHop]
    BY DEF RebuildPredictive, MaybeRoute, MaybeHop
  <2>5. predictive' \in [Tables -> [Dests -> MaybeHop]]
    <3>1. inner'[call[th].table] \in [Dests -> MaybeRoute]
      BY <2>2, <2>3
    <3>2. RebuildPredictive(predictive[call[th].table], inner'[call[th].table]) \in [Dests -> MaybeHop]
      BY <2>4, <3>1
    <3> QED
      BY <1>2, <2>2, <3>2 DEF WriteInner, TypeOK
  <2> QED
    BY <1>2, <2>1, <2>3, <2>5 DEF WriteInner, TypeOK, WriterPCs, ReaderPCs
<1>3. ASSUME NEW th \in Threads, WriteStats(th) PROVE TypeOK'
  <2>1. call[th] \in WriteCall
    BY <1>3 DEF WriteStats, TypeOK, WriterPCs
  <2>2. stats' \in [Tables -> SUBSET Dests]
    BY <1>3, <2>1 DEF WriteStats, TypeOK, WriteCall
  <2> QED
    BY <1>3, <2>1, <2>2 DEF WriteStats, TypeOK, WriterPCs, ReaderPCs
<1>4. ASSUME NEW th \in Threads, BumpEpoch(th) PROVE TypeOK'
  BY <1>4 DEF BumpEpoch, TypeOK, WriterPCs, ReaderPCs
<1>5. ASSUME NEW th \in Threads, NEW t \in Tables, NEW d \in Dests, ApplyMcrStats(th, t, d)
      PROVE  TypeOK'
  BY <1>5 DEF ApplyMcrStats, TypeOK
<1>6. ASSUME NEW th \in Threads, NEW op \in LookupOps, NEW t \in Tables, NEW d \in Dests,
             NEW f \in Flows, BeginLookup(th, op, t, d, f)
      PROVE  TypeOK'
  <2>1. call'[th] \in ReadCall
    BY <1>6 DEF BeginLookup, TypeOK, ReadCall
  <2>2. Visible(t, d) \in SUBSET MaybeRoute
    BY DEF Visible, TypeOK, Writers
  <2>3. cache[th][CacheOf(op)][SlotFor(op, d, f)] \in CacheEntry
    BY SlotType DEF TypeOK
  <2>4. ret' \in [Threads -> MaybeHop]
    BY <1>6, <2>3 DEF BeginLookup, TypeOK, CacheEntry, MaybeHop
  <2> QED
    BY <1>6, <2>1, <2>2, <2>4 DEF BeginLookup, TypeOK, WriterPCs, ReaderPCs
<1>7. ASSUME NEW th \in Threads, ReadShardHit(th) PROVE TypeOK'
  <2> DEFINE c == call[th]
             r == shard[c.table][c.dest]
             e == [epoch |-> c.epoch, dest |-> c.dest, flow |-> KeyFlow(c.op, c.flow),
                   hop |-> HopOf(c.op, r, c.flow), table |-> c.table]
  <2>1. c \in ReadCall
    BY <1>7 DEF ReadShardHit, TypeOK, ReaderPCs
  <2>2. /\ c.op \in LookupOps /\ c.table \in Tables /\ c.dest \in Dests /\ c.flow \in Flows
        /\ c.epoch \in 1..MaxEpoch
    BY <2>1 DEF ReadCall
  <2>3. r \in Routes
    BY <1>7, <2>2 DEF ReadShardHit, TypeOK, MaybeRoute
  <2>4. HopOf(c.op, r, c.flow) \in Hops
    BY <2>2, <2>3, HopOfType
  <2>5. e \in CacheEntry
    <3>1. KeyFlow(c.op, c.flow) \in Flows
      BY <2>2, SlotType
    <3>2. c.epoch \in 0..MaxEpoch
      BY <2>2
    <3> QED
      BY <2>2, <2>4, <3>1, <3>2 DEF CacheEntry
  <2>6. cache' = [cache EXCEPT ![th][CacheOf(c.op)][SlotFor(c.op, c.dest, c.flow)] = e]
    BY <1>7 DEF ReadShardHit
  <2>7. cache' \in [Threads -> [CachedOps -> [Slots -> CacheEntry]]]
    BY <2>2, <2>5, <2>6, SlotType DEF TypeOK
  <2>8. ret' \in [Threads -> MaybeHop]
    BY <1>7, <2>4 DEF ReadShardHit, TypeOK, MaybeHop
  <2> QED
    BY <1>7, <2>1, <2>7, <2>8 DEF ReadShardHit, TypeOK, WriterPCs, ReaderPCs
<1>8. ASSUME NEW th \in Threads, ReadShardMiss(th) PROVE TypeOK'
  BY <1>8 DEF ReadShardMiss, TypeOK, MaybeHop, WriterPCs, ReaderPCs
<1>9. ASSUME NEW th \in Threads, PredictiveFallback(th) PROVE TypeOK'
  <2>1. call[th] \in ReadCall
    BY <1>9 DEF PredictiveFallback, TypeOK, ReaderPCs
  <2>2. ret' \in [Threads -> MaybeHop]
    BY <1>9 DEF PredictiveFallback, TypeOK
  <2> QED
    BY <1>9, <2>1, <2>2 DEF PredictiveFallback, TypeOK, WriterPCs, ReaderPCs
<1>10. ASSUME NEW th \in Threads, ReturnLookup(th) PROVE TypeOK'
  BY <1>10 DEF ReturnLookup, TypeOK, MaybeHop, WriterPCs, ReaderPCs
<1>11. CASE UNCHANGED vars
  BY <1>11 DEF vars, TypeOK
<1> QED
  BY <1>1, <1>2, <1>3, <1>4, <1>5, <1>6, <1>7, <1>8, <1>9, <1>10, <1>11 DEF Next

\* All state of the table, the caches and the threads keeps its type; in
\* particular the epoch is never 0, the tag of a slot that was never filled.
THEOREM TypeCorrect == Spec => []TypeOK
  BY TypeInit, TypeStep, PTL DEF Spec

----------------------------------------------------------------------------
\* The cache remembers the hop under the key it compares on the next lookup.
LEMMA HopOfKey ==
  ASSUME NEW op \in LookupOps, NEW r, NEW f
  PROVE  HopOf(CacheOf(op), r, KeyFlow(op, f)) = HopOf(op, r, f)
  BY DEF HopOf, CacheOf, KeyFlow, LookupOps, CachedOps

\* A step that touches neither the caches nor the epoch, and hides no visible
\* route, keeps the fresh entries right.
LEMMA FreshPreserved ==
  ASSUME FreshCacheAgrees, UNCHANGED <<cache, epoch>>,
         \A t \in Tables, d \in Dests : Visible(t, d) \subseteq Visible(t, d)',
         TypeOK
  PROVE  FreshCacheAgrees'
<1> SUFFICES ASSUME NEW th \in Threads, NEW o \in CachedOps, NEW s \in Slots,
                    cache[th][o][s].epoch = epoch
             PROVE  \E r \in Visible(cache[th][o][s].table, cache[th][o][s].dest)' \ {NoRoute} :
                      cache[th][o][s].hop = HopOf(o, r, cache[th][o][s].flow)
  BY DEF FreshCacheAgrees
<1> DEFINE e == cache[th][o][s]
<1>1. e.table \in Tables /\ e.dest \in Dests
  BY DEF TypeOK, CacheEntry
<1>2. PICK r \in Visible(e.table, e.dest) \ {NoRoute} : e.hop = HopOf(o, r, e.flow)
  BY DEF FreshCacheAgrees
<1> QED
  BY <1>1, <1>2

\* The steps of a call other than its first and last leave the windows and
\* the set of writers alone.
LEMMA VisibleStable ==
  ASSUME TypeOK, NEW th \in Threads, UNCHANGED <<shard, window>>,
         \/ UNCHANGED <<pc, call>>
         \/ /\ \/ pc[th] \in WriterPCs /\ pc'[th] \in WriterPCs /\ call'[th] = call[th]
               \/ pc[th] \notin WriterPCs /\ pc'[th] \notin WriterPCs
            /\ \A w \in Threads \ {th} : pc'[w] = pc[w] /\ call'[w] = call[w]
  PROVE  \A t \in Tables, d \in Dests : Visible(t, d)' = Visible(t, d)
<1> SUFFICES ASSUME NEW t \in Tables, NEW d \in Dests
             PROVE  Visible(t, d)' = Visible(t, d)
  OBVIOUS
<1>1. Writers(t, d)' = Writers(t, d)
  BY DEF Writers
<1> QED
  BY <1>1 DEF Visible

\* The caches start out tagged with an epoch the table never has.
LEMMA CacheInvInit == Init => CacheInv
<1> SUFFICES ASSUME Init PROVE CacheInv
  OBVIOUS
<1>1. TypeOK
  BY TypeInit
<1>2. \A th \in Threads, o \in CachedOps, s \in Slots : cache[th][o][s].epoch = 0
  BY DEF Init, EmptyEntry
<1>3. epoch = 1 /\ \A th \in Threads : pc[th] = "idle"
  BY DEF Init, InitEpoch
<1>4. TagsBounded
  BY <1>2, <1>3 DEF TagsBounded, ReaderPCs
<1>5. WindowCurrent
  BY <1>3 DEF WindowCurrent
<1>6. FreshCacheAgrees
  BY <1>2, <1>3 DEF FreshCacheAgrees
<1> QED
  BY <1>1, <1>4, <1>5, <1>6 DEF CacheInv

\* No step of any thread disturbs the coherence of the caches.
LEMMA CacheInvStep == CacheInv /\ [Next]_vars => CacheInv'
<1> SUFFICES ASSUME CacheInv, [Next]_vars PROVE CacheInv'
  OBVIOUS
<1> USE DataAssumption
<1>0. TypeOK /\ TagsBounded /\ WindowCurrent /\ FreshCacheAgrees
  BY DEF CacheInv
<1>T. TypeOK'
  BY TypeStep DEF CacheInv
<1>E. epoch \in Nat
  BY <1>0 DEF TypeOK
<1>1. ASSUME NEW th \in Threads, NEW t \in Tables, NEW d \in Dests, NEW r \in MaybeRoute,
             WriteShard(th, t, d, r)
      PROVE  CacheInv'
  <2>1. TagsBounded'
    BY <1>0, <1>1 DEF TagsBounded, WriteShard, TypeOK, ReaderPCs
  <2>2. WindowCurrent'
    <3> SUFFICES ASSUME NEW w \in Threads, pc'[w] # "idle"
                 PROVE  shard'[call'[w].table][call'[w].dest] \in window'[w]
      BY DEF WindowCurrent
    <3>1. CASE w = th
      BY <1>0, <1>1, <3>1 DEF WriteShard, TypeOK
    <3>2. CASE w # th
      <4>1. pc[w] # "idle" /\ call'[w] = call[w]
        BY <1>0, <1>1, <3>2 DEF WriteShard, TypeOK
      <4>2. call[w].table \in Tables /\ call[w].dest \in Dests
        BY <1>0, <4>1 DEF TypeOK, WriteCall, ReadCall
      <4>3. CASE w \in Callers(t, d)
        BY <1>0, <1>1, <3>2, <4>1, <4>3 DEF WriteShard, TypeOK, Callers
      <4>4. CASE w \notin Callers(t, d)
        <5>1. shard'[call[w].table][call[w].dest] = shard[call[w].table][call[w].dest]
          BY <1>0, <1>1, <4>1, <4>2, <4>4 DEF WriteShard, TypeOK, Callers
        <5> QED
          BY <1>0, <1>1, <3>2, <4>1, <4>4, <5>1 DEF WriteShard, WindowCurrent
      <4> QED
        BY <4>3, <4>4
    <3> QED
      BY <3>1, <3>2
  <2>3. \A u \in Tables, x \in Dests : Visible(u, x) \subseteq Visible(u, x)'
    <3> SUFFICES ASSUME NEW u \in Tables, NEW x \in Dests, NEW v \in Visible(u, x)
                 PROVE  v \in Visible(u, x)'
      OBVIOUS
    <3>1. Writers(u, x) \subseteq Writers(u, x)'
      BY <1>0, <1>1 DEF Writers, WriteShard, TypeOK, WriterPCs
    <3>2. \A w \in Writers(u, x) : window[w] \subseteq window'[w]
      BY <1>0, <1>1 DEF Writers, WriteShard, TypeOK, WriterPCs
    <3>3. CASE \E w \in Writers(u, x) : v \in window[w]
      BY <3>1, <3>2, <3>3 DEF Visible
    <3>4. CASE v = shard[u][x] /\ u = t /\ x = d
      <4>1. th \in Writers(u, x)' /\ v \in window'[th]
        BY <1>0, <1>1, <3>4 DEF Writers, WriteShard, TypeOK, WriterPCs
      <4> QED
        BY <4>1 DEF Visible
    <3>5. CASE v = shard[u][x] /\ ~(u = t /\ x = d)
      <4>1. shard'[u][x] = shard[u][x]
        BY <1>0, <1>1, <3>5 DEF WriteShard, TypeOK
      <4> QED
        BY <3>5, <4>1 DEF Visible
    <3> QED
      BY <3>3, <3>4, <3>5 DEF Visible
  <2>4. FreshCacheAgrees'
    BY <1>0, <1>1, <2>3, FreshPreserved DEF WriteShard
  <2> QED
    BY <1>T, <2>1, <2>2, <2>4 DEF CacheInv
<1>2. ASSUME NEW th \in Threads, WriteInner(th) \/ WriteStats(th)
      PROVE  CacheInv'
  <2>1. TagsBounded'
    BY <1>0, <1>2 DEF TagsBounded, WriteInner, WriteStats, TypeOK, ReaderPCs
  <2>2. WindowCurrent'
    BY <1>0, <1>2 DEF WindowCurrent, WriteInner, WriteStats, TypeOK
  <2>3. \A t \in Tables, d \in Dests : Visible(t, d)' = Visible(t, d)
    <3>1. pc[th] \in WriterPCs /\ pc'[th] \in WriterPCs /\ UNCHANGED <<call, shard, window>>
      BY <1>0, <1>2 DEF WriteInner, WriteStats, TypeOK, WriterPCs
    <3>2. \A w \in Threads \ {th} : pc'[w] = pc[w]
      BY <1>0, <1>2 DEF WriteInner, WriteStats, TypeOK
    <3> QED
      BY <1>0, <3>1, <3>2, VisibleStable
  <2>4. FreshCacheAgrees'
    BY <1>0, <1>2, <2>3, FreshPreserved DEF WriteInner, WriteStats
  <2> QED
    BY <1>T, <2>1, <2>2, <2>4 DEF CacheInv
<1>3. ASSUME NEW th \in Threads, BumpEpoch(th)
      PROVE  CacheInv'
  <2>1. \A w \in Threads, o \in CachedOps, s \in Slots :
          cache'[w][o][s].epoch <= epoch /\ cache'[w][o][s].epoch \in Nat
    BY <1>0, <1>3 DEF TagsBounded, BumpEpoch, TypeOK, CacheEntry
  <2>2. epoch' = epoch + 1
    BY <1>3 DEF BumpEpoch
  <2>3. TagsBounded'
    <3>1. \A w \in Threads : pc'[w] \in ReaderPCs => call'[w].epoch <= epoch /\ call'[w].epoch \in Nat
      BY <1>0, <1>3 DEF TagsBounded, BumpEpoch, TypeOK, ReaderPCs, ReadCall
    <3> QED
      BY <1>E, <2>1, <2>2, <3>1 DEF TagsBounded
  <2>4. WindowCurrent'
    BY <1>0, <1>3 DEF WindowCurrent, BumpEpoch, TypeOK
  <2>5. FreshCacheAgrees'
    BY <1>E, <2>1, <2>2 DEF FreshCacheAgrees
  <2> QED
    BY <1>T, <2>3, <2>4, <2>5 DEF CacheInv
<1>4. ASSUME NEW th \in Threads, NEW t \in Tables, NEW d \in Dests, ApplyMcrStats(th, t, d)
      PROVE  CacheInv'
  <2>1. TagsBounded' /\ WindowCurrent'
    BY <1>0, <1>4 DEF TagsBounded, WindowCurrent, ApplyMcrStats
  <2>2. FreshCacheAgrees'
    BY <1>0, <1>4, VisibleStable, FreshPreserved DEF ApplyMcrStats
  <2> QED
    BY <1>T, <2>1, <2>2 DEF CacheInv
<1>5. ASSUME NEW th \in Threads, NEW op \in LookupOps, NEW t \in Tables, NEW d \in Dests,
             NEW f \in Flows, BeginLookup(th, op, t, d, f)
      PROVE  CacheInv'
  <2>1. TagsBounded'
    BY <1>0, <1>5, <1>E DEF TagsBounded, BeginLookup, TypeOK, ReaderPCs
  <2>2. WindowCurrent'
    <3>1. call'[th].table = t /\ call'[th].dest = d /\ shard[t][d] \in window'[th]
      BY <1>0, <1>5 DEF BeginLookup, TypeOK, Visible
    <3> QED
      BY <1>0, <1>5, <3>1 DEF WindowCurrent, BeginLookup, TypeOK
  <2>3. \A u \in Tables, x \in Dests : Visible(u, x) \subseteq Visible(u, x)'
    <3> SUFFICES ASSUME NEW u \in Tables, NEW x \in Dests
                 PROVE  Visible(u, x)' = Visible(u, x)
      OBVIOUS
    <3>1. Writers(u, x)' = Writers(u, x) /\ th \notin Writers(u, x)
      BY <1>0, <1>5 DEF Writers, BeginLookup, TypeOK, WriterPCs
    <3>2. \A w \in Writers(u, x) : window'[w] = window[w]
      BY <1>0, <1>5, <3>1 DEF Writers, BeginLookup, TypeOK
    <3> QED
      BY <1>5, <3>1, <3>2 DEF Visible, BeginLookup
  <2>4. FreshCacheAgrees'
    BY <1>0, <1>5, <2>3, FreshPreserved DEF BeginLookup
  <2> QED
    BY <1>T, <2>1, <2>2, <2>4 DEF CacheInv
<1>6. ASSUME NEW th \in Threads, ReadShardHit(th)
      PROVE  CacheInv'
  <2> DEFINE c == call[th]
             r == shard[c.table][c.dest]
             k == SlotFor(c.op, c.dest, c.flow)
             e == [epoch |-> c.epoch, dest |-> c.dest, flow |-> KeyFlow(c.op, c.flow),
                   hop |-> HopOf(c.op, r, c.flow), table |-> c.table]
  <2>1. c \in ReadCall /\ c.epoch <= epoch
    BY <1>0, <1>6 DEF ReadShardHit, TypeOK, ReaderPCs, TagsBounded
  <2>2. c.op \in LookupOps /\ c.table \in Tables /\ c.dest \in Dests /\ c.flow \in Flows
    BY <2>1 DEF ReadCall
  <2>3. CacheOf(c.op) \in CachedOps /\ k \in Slots
    BY <2>2, SlotType
  <2>4. cache' = [cache EXCEPT ![th][CacheOf(c.op)][k] = e] /\ r # NoRoute
    BY <1>6 DEF ReadShardHit
  <2>5. \A w \in Threads, o \in CachedOps, s \in Slots :
          \/ cache'[w][o][s] = cache[w][o][s]
          \/ o = CacheOf(c.op) /\ cache'[w][o][s] = e
    <3> HIDE DEF c, k, e
    <3> QED
      BY <1>0, <2>3, <2>4 DEF TypeOK
  <2>6. TagsBounded'
    <3>1. \A w \in Threads, o \in CachedOps, s \in Slots : cache'[w][o][s].epoch <= epoch
      BY <1>0, <2>1, <2>5 DEF TagsBounded
    <3>2. \A w \in Threads : pc'[w] \in ReaderPCs => pc[w] \in ReaderPCs
      BY <1>0, <1>6 DEF ReadShardHit, TypeOK, ReaderPCs
    <3>3. epoch' = epoch /\ call' = call
      BY <1>6 DEF ReadShardHit
    <3> QED
      BY <1>0, <3>1, <3>2, <3>3 DEF TagsBounded
  <2>7. WindowCurrent'
    BY <1>0, <1>6 DEF WindowCurrent, ReadShardHit, TypeOK
  <2>8. \A t \in Tables, d \in Dests : Visible(t, d)' = Visible(t, d)
    <3>1. pc[th] \notin WriterPCs /\ pc'[th] \notin WriterPCs /\ UNCHANGED <<call, shard, window>>
      BY <1>0, <1>6 DEF ReadShardHit, TypeOK, WriterPCs
    <3>2. \A w \in Threads \ {th} : pc'[w] = pc[w]
      BY <1>0, <1>6 DEF ReadShardHit, TypeOK
    <3> QED
      BY <1>0, <3>1, <3>2, VisibleStable
  <2>9. FreshCacheAgrees'
    <3> SUFFICES ASSUME NEW w \in Threads, NEW o \in CachedOps, NEW s \in Slots,
                        NEW x \in CacheEntry, x = cache'[w][o][s], x.epoch = epoch'
                 PROVE  \E v \in Visible(x.table, x.dest)' \ {NoRoute} : x.hop = HopOf(o, v, x.flow)
      <4>1. \A w \in Threads, o \in CachedOps, s \in Slots : cache'[w][o][s] \in CacheEntry
        BY <1>T DEF TypeOK
      <4> QED
        BY <4>1 DEF FreshCacheAgrees
    <3>1. epoch' = epoch /\ x.table \in Tables /\ x.dest \in Dests
      BY <1>6 DEF ReadShardHit, CacheEntry
    <3>2. CASE x = cache[w][o][s]
      <4>1. \E v \in Visible(x.table, x.dest) \ {NoRoute} : x.hop = HopOf(o, v, x.flow)
        BY <1>0, <3>1, <3>2 DEF FreshCacheAgrees
      <4> QED
        BY <2>8, <3>1, <4>1
    <3>3. CASE o = CacheOf(c.op) /\ x = e
      <4>1. x.table = c.table /\ x.dest = c.dest /\ x.flow = KeyFlow(c.op, c.flow)
            /\ x.hop = HopOf(c.op, r, c.flow)
        BY <3>3
      <4>2. r \in Visible(x.table, x.dest)
        BY <4>1 DEF Visible
      <4>3. r \in Visible(x.table, x.dest)' \ {NoRoute}
        BY <2>4, <2>8, <3>1, <4>2
      <4>4. x.hop = HopOf(o, r, x.flow)
        BY <2>2, <3>3, <4>1, HopOfKey
      <4> HIDE DEF e, r
      <4> QED
        BY <4>3, <4>4
    <3> QED
      BY <2>5, <3>2, <3>3
  <2> QED
    BY <1>T, <2>6, <2>7, <2>9 DEF CacheInv
<1>7. ASSUME NEW th \in Threads, ReadShardMiss(th) \/ PredictiveFallback(th)
      PROVE  CacheInv'
  <2>1. TagsBounded'
    BY <1>0, <1>7 DEF TagsBounded, ReadShardMiss, PredictiveFallback, TypeOK, ReaderPCs
  <2>2. WindowCurrent'
    BY <1>0, <1>7 DEF WindowCurrent, ReadShardMiss, PredictiveFallback, TypeOK
  <2>3. \A t \in Tables, d \in Dests : Visible(t, d)' = Visible(t, d)
    <3>1. pc[th] \notin WriterPCs /\ pc'[th] \notin WriterPCs /\ UNCHANGED <<call, shard, window>>
      BY <1>0, <1>7 DEF ReadShardMiss, PredictiveFallback, TypeOK, WriterPCs
    <3>2. \A w \in Threads \ {th} : pc'[w] = pc[w]
      BY <1>0, <1>7 DEF ReadShardMiss, PredictiveFallback, TypeOK
    <3> QED
      BY <1>0, <3>1, <3>2, VisibleStable
  <2>4. FreshCacheAgrees'
    BY <1>0, <1>7, <2>3, FreshPreserved DEF ReadShardMiss, PredictiveFallback
  <2> QED
    BY <1>T, <2>1, <2>2, <2>4 DEF CacheInv
<1>8. ASSUME NEW th \in Threads, ReturnLookup(th)
      PROVE  CacheInv'
  <2>1. TagsBounded'
    BY <1>0, <1>8 DEF TagsBounded, ReturnLookup, TypeOK, ReaderPCs
  <2>2. WindowCurrent'
    BY <1>0, <1>8 DEF WindowCurrent, ReturnLookup, TypeOK
  <2>3. \A u \in Tables, x \in Dests : Visible(u, x)' = Visible(u, x)
    <3> SUFFICES ASSUME NEW u \in Tables, NEW x \in Dests
                 PROVE  Visible(u, x)' = Visible(u, x)
      OBVIOUS
    <3>1. Writers(u, x)' = Writers(u, x) /\ th \notin Writers(u, x)
      BY <1>0, <1>8 DEF Writers, ReturnLookup, TypeOK, WriterPCs
    <3>2. \A w \in Writers(u, x) : window'[w] = window[w]
      BY <1>0, <1>8, <3>1 DEF Writers, ReturnLookup, TypeOK
    <3> QED
      BY <1>8, <3>1, <3>2 DEF Visible, ReturnLookup
  <2>4. FreshCacheAgrees'
    BY <1>0, <1>8, <2>3, FreshPreserved DEF ReturnLookup
  <2> QED
    BY <1>T, <2>1, <2>2, <2>4 DEF CacheInv
<1>9. CASE UNCHANGED vars
  <2>1. TagsBounded' /\ WindowCurrent'
    BY <1>0, <1>9 DEF vars, TagsBounded, WindowCurrent
  <2>2. \A t \in Tables, d \in Dests : Visible(t, d)' = Visible(t, d)
    BY <1>9 DEF vars, Visible, Writers
  <2>3. FreshCacheAgrees'
    BY <1>0, <1>9, <2>2, FreshPreserved DEF vars
  <2> QED
    BY <1>T, <2>1, <2>3 DEF CacheInv
<1> QED
  BY <1>1, <1>2, <1>3, <1>4, <1>5, <1>6, <1>7, <1>8, <1>9 DEF Next

\* The epoch protocol is sound: whatever threads interleave, a cached hop that
\* lookup_next_hop or lookup_spray_primary may still serve is the hop of a
\* route its destination has, or had before a write still under way.
THEOREM CacheCoherent == Spec => []FreshCacheAgrees
<1>1. CacheInv => FreshCacheAgrees
  BY DEF CacheInv
<1> QED
  BY CacheInvInit, CacheInvStep, <1>1, PTL DEF Spec

----------------------------------------------------------------------------
\* A thread in the middle of a lookup sees its window only grow.
LEMMA LookupInvStep ==
  ASSUME OneTable, LookupInv, [Next]_vars
  PROVE  LookupInv'
<1> USE DataAssumption
<1>0. CacheInv /\ FallbackMissed /\ LookupRegular /\ TypeOK
  BY DEF LookupInv, CacheInv
<1>C. CacheInv'
  BY CacheInvStep, <1>0
<1>S. ASSUME NEW th \in Threads, pc'[th] \notin {"fallback", "returned"},
             \A w \in Threads \ {th} :
               /\ pc'[w] = pc[w] /\ call'[w] = call[w] /\ ret'[w] = ret[w]
               /\ window[w] \subseteq window'[w]
      PROVE  FallbackMissed' /\ LookupRegular'
  <2>1. FallbackMissed'
    BY <1>0, <1>S DEF FallbackMissed
  <2>2. LookupRegular'
    BY <1>0, <1>S DEF LookupRegular
  <2> QED
    BY <2>1, <2>2
<1>1. ASSUME NEW th \in Threads, NEW t \in Tables, NEW d \in Dests, NEW r \in MaybeRoute,
             WriteShard(th, t, d, r)
      PROVE  FallbackMissed' /\ LookupRegular'
  <2>1. pc'[th] \notin {"fallback", "returned"}
    BY <1>0, <1>1 DEF WriteShard, TypeOK
  <2>2. \A w \in Threads \ {th} :
          /\ pc'[w] = pc[w] /\ call'[w] = call[w] /\ ret'[w] = ret[w]
          /\ window[w] \subseteq window'[w]
    BY <1>0, <1>1 DEF WriteShard, TypeOK
  <2> QED
    BY <1>S, <2>1, <2>2
<1>2. ASSUME NEW th \in Threads, WriteInner(th) \/ WriteStats(th) \/ BumpEpoch(th) \/ ReturnLookup(th)
      PROVE  FallbackMissed' /\ LookupRegular'
  <2>1. pc'[th] \notin {"fallback", "returned"}
    BY <1>0, <1>2 DEF WriteInner, WriteStats, BumpEpoch, ReturnLookup, TypeOK
  <2>2. \A w \in Threads \ {th} :
          /\ pc'[w] = pc[w] /\ call'[w] = call[w] /\ ret'[w] = ret[w]
          /\ window[w] \subseteq window'[w]
    BY <1>0, <1>2 DEF WriteInner, WriteStats, BumpEpoch, ReturnLookup, TypeOK
  <2> QED
    BY <1>S, <2>1, <2>2
<1>3. ASSUME NEW th \in Threads, NEW t \in Tables, NEW d \in Dests, ApplyMcrStats(th, t, d)
      PROVE  FallbackMissed' /\ LookupRegular'
  BY <1>0, <1>3 DEF ApplyMcrStats, FallbackMissed, LookupRegular
<1>4. ASSUME NEW th \in Threads, NEW op \in LookupOps, NEW t \in Tables, NEW d \in Dests,
             NEW f \in Flows, BeginLookup(th, op, t, d, f)
      PROVE  FallbackMissed' /\ LookupRegular'
  <2> DEFINE e == cache[th][CacheOf(op)][SlotFor(op, d, f)]
  <2>1. /\ call'[th].op = op /\ call'[th].flow = f
        /\ window'[th] = Visible(t, d)
        /\ \A w \in Threads \ {th} :
             pc'[w] = pc[w] /\ call'[w] = call[w] /\ ret'[w] = ret[w] /\ window'[w] = window[w]
    BY <1>0, <1>4 DEF BeginLookup, TypeOK
  <2>2. CASE pc'[th] = "returned"
    <3>1. CacheHit(e, op, d, f) /\ ret'[th] = e.hop
      BY <1>0, <1>4, <2>2 DEF BeginLookup, TypeOK
    <3>2. CacheOf(op) \in CachedOps /\ SlotFor(op, d, f) \in Slots
      BY SlotType
    <3>3. e \in CacheEntry
      BY <1>0, <3>2 DEF TypeOK
    <3>4. e.table = t
      BY <3>3 DEF OneTable, CacheEntry
    <3>5. \E r \in Visible(e.table, e.dest) \ {NoRoute} : e.hop = HopOf(CacheOf(op), r, e.flow)
      BY <1>0, <3>1, <3>2 DEF CacheInv, FreshCacheAgrees, CacheHit
    <3>6. PICK r \in Visible(t, d) : ret'[th] = HopOf(op, r, f)
      <4>1. PICK r \in Visible(t, d) : e.hop = HopOf(CacheOf(op), r, KeyFlow(op, f))
        BY <3>1, <3>4, <3>5 DEF CacheHit
      <4> QED
        BY <3>1, <4>1, HopOfKey
    <3>7. \A w \in Threads : pc'[w] = "fallback" => w # th
      BY <2>2
    <3>8. FallbackMissed'
      BY <1>0, <2>1, <3>7 DEF FallbackMissed
    <3>9. LookupRegular'
      BY <1>0, <2>1, <3>6 DEF LookupRegular
    <3> QED
      BY <3>8, <3>9
  <2>3. CASE pc'[th] # "returned"
    <3>1. pc'[th] \notin {"fallback", "returned"}
      BY <1>0, <1>4, <2>3 DEF BeginLookup, TypeOK
    <3> QED
      BY <1>S, <2>1, <3>1
  <2> QED
    BY <2>2, <2>3
<1>5. ASSUME NEW th \in Threads, ReadShardHit(th) \/ ReadShardMiss(th)
      PROVE  FallbackMissed' /\ LookupRegular'
  <2> DEFINE c == call[th]
             r == shard[c.table][c.dest]
  <2>1. r \in window[th]
    BY <1>0, <1>5 DEF CacheInv, WindowCurrent, ReadShardHit, ReadShardMiss
  <2>2. ret'[th] = HopOf(c.op, r, c.flow)
    BY <1>0, <1>5 DEF ReadShardHit, ReadShardMiss, TypeOK, HopOf
  <2>3. UNCHANGED <<call, window>> /\ \A w \in Threads \ {th} : pc'[w] = pc[w] /\ ret'[w] = ret[w]
    BY <1>0, <1>5 DEF ReadShardHit, ReadShardMiss, TypeOK
  <2>4. pc'[th] = "fallback" => c.op = "or_predict" /\ r = NoRoute
    BY <1>0, <1>5 DEF ReadShardHit, ReadShardMiss, TypeOK
  <2> HIDE DEF r
  <2>5. FallbackMissed'
    BY <1>0, <2>1, <2>3, <2>4 DEF FallbackMissed
  <2>6. LookupRegular'
    BY <1>0, <2>1, <2>2, <2>3 DEF LookupRegular
  <2> QED
    BY <2>5, <2>6
<1>6. ASSUME NEW th \in Threads, PredictiveFallback(th)
      PROVE  FallbackMissed' /\ LookupRegular'
  <2>1. call[th].op = "or_predict" /\ NoRoute \in window[th]
    BY <1>0, <1>6 DEF FallbackMissed, PredictiveFallback
  <2>2. /\ UNCHANGED <<call, window>> /\ pc'[th] = "returned"
        /\ \A w \in Threads \ {th} : pc'[w] = pc[w] /\ ret'[w] = ret[w]
    BY <1>0, <1>6 DEF PredictiveFallback, TypeOK
  <2>3. FallbackMissed'
    BY <1>0, <2>2 DEF FallbackMissed
  <2>4. LookupRegular'
    BY <1>0, <2>1, <2>2 DEF LookupRegular
  <2> QED
    BY <2>3, <2>4
<1>7. CASE UNCHANGED vars
  <2>1. FallbackMissed' /\ LookupRegular'
    BY <1>0, <1>7 DEF vars, FallbackMissed, LookupRegular
  <2> QED
    BY <1>C, <2>1 DEF LookupInv
<1> QED
  BY <1>C, <1>1, <1>2, <1>3, <1>4, <1>5, <1>6, <1>7 DEF Next, LookupInv

\* In a process with one table, every lookup returns what the table held for
\* the destination during the call, up to writes that were still under way.
THEOREM LookupsRegular ==
  ASSUME OneTable
  PROVE  Spec => []LookupRegular
<1>1. Init => LookupInv
  BY CacheInvInit DEF LookupInv, FallbackMissed, LookupRegular, Init
<1>2. LookupInv /\ [Next]_vars => LookupInv'
  BY LookupInvStep
<1>3. LookupInv => LookupRegular
  BY DEF LookupInv
<1> QED
  BY <1>1, <1>2, <1>3, PTL DEF Spec

----------------------------------------------------------------------------
\* No step makes shard, entries and predictive hops disagree on a
\* destination that no two writers raced for.
LEMMA AgreeInvStep == AgreeInv /\ [Next]_vars => AgreeInv'
<1> SUFFICES ASSUME AgreeInv, [Next]_vars PROVE AgreeInv'
  OBVIOUS
<1> USE DataAssumption
<1>0. TypeOK /\ PredictiveMatches /\ SoleWriter /\ AgreeUnlessRaced
  BY DEF AgreeInv
<1>T. TypeOK'
  BY TypeStep DEF AgreeInv
\* Steps of lookups and of counters change nothing the invariant speaks of.
<1>R. ASSUME UNCHANGED <<shard, inner, predictive, raced>>,
             \A t \in Tables : stats[t] \subseteq stats'[t],
             \A t \in Tables, d \in Dests : Writers(t, d)' = Writers(t, d),
             \A t \in Tables, d \in Dests : \A w \in Writers(t, d) : pc'[w] = pc[w] /\ call'[w] = call[w]
      PROVE  AgreeInv'
  <2>1. PredictiveMatches'
    BY <1>0, <1>R DEF PredictiveMatches
  <2>2. SoleWriter'
    BY <1>0, <1>R DEF SoleWriter
  <2>3. AgreeUnlessRaced'
    BY <1>0, <1>R DEF AgreeUnlessRaced, Agree
  <2> QED
    BY <1>T, <2>1, <2>2, <2>3 DEF AgreeInv
<1>1. ASSUME NEW th \in Threads, NEW t \in Tables, NEW d \in Dests, NEW r \in MaybeRoute,
             WriteShard(th, t, d, r)
      PROVE  AgreeInv'
  <2>1. PredictiveMatches'
    BY <1>0, <1>1 DEF PredictiveMatches, WriteShard
  <2>2. Writers(t, d)' = Writers(t, d) \cup {th} /\ th \notin Writers(t, d)
    BY <1>0, <1>1 DEF Writers, WriteShard, TypeOK, WriterPCs
  <2>3. \A u \in Tables, x \in Dests : <<u, x>> # <<t, d>> =>
          Writers(u, x)' = Writers(u, x) /\ th \notin Writers(u, x) /\ shard'[u][x] = shard[u][x]
    BY <1>0, <1>1 DEF Writers, WriteShard, TypeOK, WriterPCs
  <2>4. \A w \in Threads \ {th} : pc'[w] = pc[w] /\ call'[w] = call[w]
    BY <1>0, <1>1 DEF WriteShard, TypeOK
  <2>5. pc'[th] = "inner" /\ call'[th].route = r /\ shard'[t][d] = r
    BY <1>0, <1>1 DEF WriteShard, TypeOK
  <2>6. raced \subseteq raced' /\ (<<t, d>> \notin raced' => Writers(t, d) = {})
    BY <1>1 DEF WriteShard
  <2>7. UNCHANGED <<inner, predictive, stats>>
    BY <1>1 DEF WriteShard
  <2>8. SoleWriter'
    <3> SUFFICES ASSUME NEW u \in Tables, NEW x \in Dests, <<u, x>> \notin raced'
                 PROVE  /\ \A v, w \in Writers(u, x)' : v = w
                        /\ \A w \in Writers(u, x)' :
                             /\ shard'[u][x] = call'[w].route
                             /\ pc'[w] \in {"stats", "epoch"} => inner'[u][x] = call'[w].route
                             /\ pc'[w] = "epoch" => (inner'[u][x] # NoRoute => x \in stats'[u])
      BY DEF SoleWriter
    <3>1. CASE <<u, x>> = <<t, d>>
      BY <2>2, <2>5, <2>6, <3>1
    <3>2. CASE <<u, x>> # <<t, d>>
      <4>1. <<u, x>> \notin raced
        BY <2>6
      <4>2. Writers(u, x) \subseteq Threads \ {th}
        BY <2>3, <3>2 DEF Writers
      <4> QED
        BY <1>0, <2>3, <2>4, <2>7, <3>2, <4>1, <4>2 DEF SoleWriter
    <3> QED
      BY <3>1, <3>2
  <2>9. AgreeUnlessRaced'
    <3> SUFFICES ASSUME NEW u \in Tables, NEW x \in Dests, <<u, x>> \notin raced', Writers(u, x)' = {}
                 PROVE  Agree(u, x)'
      BY DEF AgreeUnlessRaced
    <3>1. <<u, x>> # <<t, d>>
      BY <2>2
    <3>2. Agree(u, x)
      BY <1>0, <2>3, <2>6, <3>1 DEF AgreeUnlessRaced
    <3> QED
      BY <2>3, <2>7, <3>1, <3>2 DEF Agree
  <2> QED
    BY <1>T, <2>1, <2>8, <2>9 DEF AgreeInv
<1>2. ASSUME NEW th \in Threads, WriteInner(th)
      PROVE  AgreeInv'
  <2> DEFINE t == call[th].table
             d == call[th].dest
  <2>1. th \in Writers(t, d) /\ t \in Tables /\ d \in Dests /\ call[th].route \in MaybeRoute
    BY <1>0, <1>2 DEF WriteInner, Writers, TypeOK, WriterPCs, WriteCall
  <2>2. inner'[t][d] = call[th].route
    BY <1>0, <1>2, <2>1 DEF WriteInner, TypeOK
  <2>3. \A u \in Tables, x \in Dests : <<u, x>> # <<t, d>> => inner'[u][x] = inner[u][x]
    BY <1>0, <1>2, <2>1 DEF WriteInner, TypeOK
  <2>4. UNCHANGED <<shard, stats, raced, call>> /\ pc'[th] = "stats"
        /\ \A w \in Threads \ {th} : pc'[w] = pc[w]
    BY <1>0, <1>2 DEF WriteInner, TypeOK
  <2>5. PredictiveMatches'
    <3> SUFFICES ASSUME NEW u \in Tables, NEW x \in Dests
                 PROVE  predictive'[u][x] = (IF inner'[u][x] = NoRoute THEN NoHop ELSE inner'[u][x].next_hop_id)
      BY DEF PredictiveMatches
    <3>1. CASE u = t
      BY <1>0, <1>2, <2>1, <3>1 DEF WriteInner, TypeOK, RebuildPredictive
    <3>2. CASE u # t
      <4>1. predictive'[u] = predictive[u] /\ inner'[u] = inner[u]
        BY <1>0, <1>2, <2>1, <3>2 DEF WriteInner, TypeOK
      <4> QED
        BY <1>0, <4>1 DEF PredictiveMatches
    <3> QED
      BY <3>1, <3>2
  <2>6. \A u \in Tables, x \in Dests : Writers(u, x)' = Writers(u, x)
    BY <1>0, <1>2, <2>4 DEF Writers, WriterPCs, WriteInner
  <2>7. \A u \in Tables, x \in Dests : <<u, x>> # <<t, d>> => th \notin Writers(u, x)
    BY DEF Writers
  <2>8. SoleWriter'
    <3> SUFFICES ASSUME NEW u \in Tables, NEW x \in Dests, <<u, x>> \notin raced
                 PROVE  /\ \A v, w \in Writers(u, x) : v = w
                        /\ \A w \in Writers(u, x) :
                             /\ shard[u][x] = call[w].route
                             /\ pc'[w] \in {"stats", "epoch"} => inner'[u][x] = call[w].route
                             /\ pc'[w] = "epoch" => (inner'[u][x] # NoRoute => x \in stats[u])
      BY <2>4, <2>6 DEF SoleWriter
    <3>1. CASE u = t /\ x = d
      BY <1>0, <2>1, <2>2, <2>4, <3>1 DEF SoleWriter
    <3>2. CASE <<u, x>> # <<t, d>>
      <4>1. Writers(u, x) \subseteq Threads \ {th}
        BY <2>7, <3>2 DEF Writers
      <4> QED
        BY <1>0, <2>3, <2>4, <3>2, <4>1 DEF SoleWriter
    <3> QED
      BY <3>1, <3>2
  <2>9. AgreeUnlessRaced'
    <3> SUFFICES ASSUME NEW u \in Tables, NEW x \in Dests, <<u, x>> \notin raced, Writers(u, x) = {}
                 PROVE  Agree(u, x)'
      BY <2>4, <2>6 DEF AgreeUnlessRaced
    <3>1. <<u, x>> # <<t, d>>
      BY <2>1
    <3>2. Agree(u, x)
      BY <1>0 DEF AgreeUnlessRaced
    <3> QED
      BY <2>3, <2>4, <2>5, <3>1, <3>2 DEF Agree, PredictiveMatches
  <2> QED
    BY <1>T, <2>5, <2>8, <2>9 DEF AgreeInv
<1>3. ASSUME NEW th \in Threads, WriteStats(th)
      PROVE  AgreeInv'
  <2> DEFINE t == call[th].table
             d == call[th].dest
  <2>1. th \in Writers(t, d) /\ t \in Tables /\ d \in Dests
    BY <1>0, <1>3 DEF WriteStats, Writers, TypeOK, WriterPCs, WriteCall
  <2>2. call[th].route # NoRoute => d \in stats'[t]
    BY <1>0, <1>3, <2>1 DEF WriteStats, TypeOK
  <2>3. \A u \in Tables, x \in Dests : <<u, x>> # <<t, d>> => (x \in stats'[u] <=> x \in stats[u])
    BY <1>0, <1>3, <2>1 DEF WriteStats, TypeOK
  <2>4. UNCHANGED <<shard, inner, predictive, raced, call>> /\ pc[th] = "stats" /\ pc'[th] = "epoch"
        /\ \A w \in Threads \ {th} : pc'[w] = pc[w]
    BY <1>0, <1>3 DEF WriteStats, TypeOK
  <2>5. PredictiveMatches'
    BY <1>0, <2>4 DEF PredictiveMatches
  <2>6. \A u \in Tables, x \in Dests : Writers(u, x)' = Writers(u, x)
    BY <1>0, <2>4 DEF Writers, WriterPCs
  <2>7. \A u \in Tables, x \in Dests : <<u, x>> # <<t, d>> => th \notin Writers(u, x)
    BY DEF Writers
  <2>8. SoleWriter'
    <3> SUFFICES ASSUME NEW u \in Tables, NEW x \in Dests, <<u, x>> \notin raced
                 PROVE  /\ \A v, w \in Writers(u, x) : v = w
                        /\ \A w \in Writers(u, x) :
                             /\ shard[u][x] = call[w].route
                             /\ pc'[w] \in {"stats", "epoch"} => inner[u][x] = call[w].route
                             /\ pc'[w] = "epoch" => (inner[u][x] # NoRoute => x \in stats'[u])
      BY <2>4, <2>6 DEF SoleWriter
    <3>1. CASE u = t /\ x = d
      BY <1>0, <2>1, <2>2, <2>4, <3>1 DEF SoleWriter
    <3>2. CASE <<u, x>> # <<t, d>>
      <4>1. Writers(u, x) \subseteq Threads \ {th}
        BY <2>7, <3>2 DEF Writers
      <4> QED
        BY <1>0, <2>3, <2>4, <3>2, <4>1 DEF SoleWriter
    <3> QED
      BY <3>1, <3>2
  <2>9. AgreeUnlessRaced'
    <3> SUFFICES ASSUME NEW u \in Tables, NEW x \in Dests, <<u, x>> \notin raced, Writers(u, x) = {}
                 PROVE  Agree(u, x)'
      BY <2>4, <2>6 DEF AgreeUnlessRaced
    <3>1. <<u, x>> # <<t, d>>
      BY <2>1
    <3>2. Agree(u, x)
      BY <1>0 DEF AgreeUnlessRaced
    <3> QED
      BY <2>3, <2>4, <3>1, <3>2 DEF Agree
  <2> QED
    BY <1>T, <2>5, <2>8, <2>9 DEF AgreeInv
<1>4. ASSUME NEW th \in Threads, BumpEpoch(th)
      PROVE  AgreeInv'
  <2> DEFINE t == call[th].table
             d == call[th].dest
  <2>1. th \in Writers(t, d) /\ t \in Tables /\ d \in Dests
    BY <1>0, <1>4 DEF BumpEpoch, Writers, TypeOK, WriterPCs, WriteCall
  <2>2. UNCHANGED <<shard, inner, predictive, stats, raced>> /\ pc[th] = "epoch" /\ pc'[th] = "idle"
        /\ \A w \in Threads \ {th} : pc'[w] = pc[w] /\ call'[w] = call[w]
    BY <1>0, <1>4 DEF BumpEpoch, TypeOK
  <2>3. PredictiveMatches'
    BY <1>0, <2>2 DEF PredictiveMatches
  <2>4. \A u \in Tables, x \in Dests : Writers(u, x)' = Writers(u, x) \ {th}
    BY <1>0, <2>2 DEF Writers, WriterPCs
  <2>5. \A u \in Tables, x \in Dests : <<u, x>> # <<t, d>> => th \notin Writers(u, x)
    BY DEF Writers
  <2>6. SoleWriter'
    <3> SUFFICES ASSUME NEW u \in Tables, NEW x \in Dests, <<u, x>> \notin raced
                 PROVE  /\ \A v, w \in Writers(u, x) \ {th} : v = w
                        /\ \A w \in Writers(u, x) \ {th} :
                             /\ shard[u][x] = call[w].route
                             /\ pc[w] \in {"stats", "epoch"} => inner[u][x] = call[w].route
                             /\ pc[w] = "epoch" => (inner[u][x] # NoRoute => x \in stats[u])
      <4>1. \A u \in Tables, x \in Dests : \A w \in Writers(u, x) \ {th} :
              pc'[w] = pc[w] /\ call'[w] = call[w]
        BY <2>2 DEF Writers
      <4> QED
        BY <2>2, <2>4, <4>1 DEF SoleWriter
    <3> QED
      BY <1>0 DEF SoleWriter
  <2>7. AgreeUnlessRaced'
    <3> SUFFICES ASSUME NEW u \in Tables, NEW x \in Dests, <<u, x>> \notin raced,
                        Writers(u, x) \ {th} = {}
                 PROVE  Agree(u, x)
      BY <2>2, <2>4 DEF AgreeUnlessRaced, Agree
    <3>1. CASE u = t /\ x = d
      <4>1. shard[u][x] = inner[u][x] /\ (inner[u][x] # NoRoute => x \in stats[u])
        BY <1>0, <2>1, <2>2, <3>1 DEF SoleWriter
      <4> QED
        BY <1>0, <4>1 DEF Agree, PredictiveMatches
    <3>2. CASE <<u, x>> # <<t, d>>
      <4>1. Writers(u, x) = {}
        BY <2>5, <3>2
      <4> QED
        BY <1>0, <4>1 DEF AgreeUnlessRaced
    <3> QED
      BY <3>1, <3>2
  <2> QED
    BY <1>T, <2>3, <2>6, <2>7 DEF AgreeInv
<1>5. ASSUME NEW th \in Threads, NEW t \in Tables, NEW d \in Dests, ApplyMcrStats(th, t, d)
      PROVE  AgreeInv'
  <2>1. \A u \in Tables : stats[u] \subseteq stats'[u]
    BY <1>0, <1>5 DEF ApplyMcrStats, TypeOK
  <2> QED
    BY <1>R, <1>5, <2>1 DEF ApplyMcrStats, Writers
<1>6. ASSUME NEW th \in Threads, NEW op \in LookupOps, NEW t \in Tables, NEW d \in Dests,
             NEW f \in Flows, BeginLookup(th, op, t, d, f)
      PROVE  AgreeInv'
  <2>1. UNCHANGED <<shard, inner, predictive, raced, stats>> /\ pc[th] = "idle"
        /\ pc'[th] \notin WriterPCs
        /\ \A w \in Threads \ {th} : pc'[w] = pc[w] /\ call'[w] = call[w]
    BY <1>0, <1>6 DEF BeginLookup, TypeOK, WriterPCs
  <2>2. \A u \in Tables, x \in Dests : Writers(u, x)' = Writers(u, x) /\ th \notin Writers(u, x)
    BY <2>1 DEF Writers, WriterPCs
  <2>3. \A u \in Tables, x \in Dests : \A w \in Writers(u, x) : pc'[w] = pc[w] /\ call'[w] = call[w]
    BY <2>1, <2>2 DEF Writers
  <2> QED
    BY <1>R, <2>1, <2>2, <2>3
<1>7. ASSUME NEW th \in Threads,
             ReadShardHit(th) \/ ReadShardMiss(th) \/ PredictiveFallback(th) \/ ReturnLookup(th)
      PROVE  AgreeInv'
  <2>1. UNCHANGED <<shard, inner, predictive, raced, stats>> /\ pc[th] \notin WriterPCs
        /\ pc'[th] \notin WriterPCs
        /\ \A w \in Threads \ {th} : pc'[w] = pc[w] /\ call'[w] = call[w]
    BY <1>0, <1>7 DEF ReadShardHit, ReadShardMiss, PredictiveFallback, ReturnLookup, TypeOK, WriterPCs
  <2>2. \A u \in Tables, x \in Dests : Writers(u, x)' = Writers(u, x) /\ th \notin Writers(u, x)
    BY <2>1 DEF Writers
  <2>3. \A u \in Tables, x \in Dests : \A w \in Writers(u, x) : pc'[w] = pc[w] /\ call'[w] = call[w]
    BY <2>1, <2>2 DEF Writers
  <2> QED
    BY <1>R, <2>1, <2>2, <2>3
<1>8. CASE UNCHANGED vars
  BY <1>R, <1>8 DEF vars, Writers
<1> QED
  BY <1>1, <1>2, <1>3, <1>4, <1>5, <1>6, <1>7, <1>8 DEF Next

\* Between writes the shards, the ordered map, the predictive hops and the
\* statistics agree about every destination whose writers never overlapped.
THEOREM CopiesAgree == Spec => []AgreeUnlessRaced
<1>1. Init => AgreeInv
  <2> SUFFICES ASSUME Init PROVE AgreeInv
    OBVIOUS
  <2>1. \A t \in Tables, d \in Dests : Writers(t, d) = {}
    BY DEF Init, Writers, WriterPCs
  <2> QED
    BY <2>1, TypeInit DEF AgreeInv, PredictiveMatches, SoleWriter, AgreeUnlessRaced, Agree, Init
<1>2. AgreeInv => AgreeUnlessRaced
  BY DEF AgreeInv
<1> QED
  BY <1>1, <1>2, AgreeInvStep, PTL DEF Spec
====
