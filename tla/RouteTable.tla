---------------------------- MODULE RouteTable ----------------------------
(***************************************************************************)
(* The routing table of the `routing' crate as its threads see it          *)
(* (src/routing/src/lib.rs).  A Table keeps every route twice: in the      *)
(* sharded hash index fast_shards that all lookups read, and in the        *)
(* ordered map inner.entries from which predictive_next_hops is rebuilt.   *)
(* update_route and remove_route write the two under different locks, then *)
(* the channel statistics, and only then bump GLOBAL_TABLE_EPOCH, which    *)
(* invalidates the caches every thread keeps for itself.  Each locked      *)
(* region and each atomic access is one action here.                       *)
(*                                                                         *)
(* Abstractions: a shard is a lock over part of one map, and no operation  *)
(* holds two, so the shards of a table are one function shard[t].  The     *)
(* hashes that choose a cache slot are the constants SimpleSlot and        *)
(* SpraySlot.  Loads of the epoch are sequentially consistent (x86).       *)
(***************************************************************************)
EXTENDS Naturals, Sequences

CONSTANTS
  Tables,      \* Table instances of the process
  Threads,     \* threads calling into them
  Dests,       \* 32-byte destination ids
  Hops,        \* 32-byte next-hop ids
  Flows,       \* flow labels
  Routes,      \* the RouteEntry values callers pass to update_route
  Slots,       \* indices 0..HOT_CACHE_SIZE-1 of a thread's cache
  SimpleSlot,  \* simple_cache_index, by destination
  SpraySlot,   \* spray_cache_index, by destination and flow label
  ZeroDest,    \* the all-zero id an unfilled cache slot holds
  ZeroHop,     \* the all-zero hop an unfilled cache slot holds
  NoRoute,     \* a destination the map does not hold
  NoHop,       \* the None a lookup returns
  NoCall,      \* the call of a thread that is in none
  MaxEpoch     \* bound on GLOBAL_TABLE_EPOCH (a u64 in the code)

ASSUME DataAssumption ==
  /\ ZeroDest \in Dests /\ ZeroHop \in Hops
  /\ Flows \subseteq Nat /\ 0 \in Flows
  /\ Routes \subseteq [next_hop_id : Hops, alternate_channels : Seq(Hops)]
  /\ NoRoute \notin Routes /\ NoHop \notin Hops
  /\ MaxEpoch \in Nat \ {0}

ASSUME SlotAssumption ==
  /\ SimpleSlot \in [Dests -> Slots]
  /\ SpraySlot \in [Dests \X Flows -> Slots]

VARIABLES
  shard,       \* fast_shards
  inner,       \* inner.entries
  predictive,  \* inner.predictive_next_hops, by the destination they stand for
  stats,       \* destinations with an entry in mcr_channel_stats
  epoch,       \* GLOBAL_TABLE_EPOCH
  cache,       \* THREAD_CACHE and SPRAY_CACHE of every thread
  pc, call,    \* where each thread is in its current call
  ret,         \* the result of the lookup a thread has just finished
  window,      \* history: routes the called destination had during the call
  raced        \* history: destinations two writers have written at once

vars == <<shard, inner, predictive, stats, epoch, cache, pc, call, ret, window, raced>>

----------------------------------------------------------------------------
\* RouteEntry or nothing, and what a lookup makes of it.

MaybeRoute == Routes \cup {NoRoute}
MaybeHop == Hops \cup {NoHop}

\* lookup_spray_primary and lookup_spray_buf pick the channel by flow label.
\* The code masks instead of dividing when the count is a power of two;
\* SpraySelect checks that the two agree.
ChannelIndex(flow, count) == flow % count

SprayPrimary(route, flow) ==
  LET i == ChannelIndex(flow, 1 + Len(route.alternate_channels))
  IN  IF i = 0 THEN route.next_hop_id ELSE route.alternate_channels[i]

CachedOps == {"next_hop", "spray_primary"}
LookupOps == CachedOps \cup {"or_predict"}

\* lookup_or_predict begins with lookup_next_hop, and uses its cache.
CacheOf(op) == IF op = "spray_primary" THEN "spray_primary" ELSE "next_hop"

\* The hop a lookup derives from an entry: only spray_primary looks at the flow.
HopOf(op, route, flow) ==
  IF route = NoRoute THEN NoHop
  ELSE IF CacheOf(op) = "spray_primary" THEN SprayPrimary(route, flow)
  ELSE route.next_hop_id

SlotFor(op, d, f) == IF CacheOf(op) = "spray_primary" THEN SpraySlot[<<d, f>>] ELSE SimpleSlot[d]

\* THREAD_CACHE has no flow_labels: every flow shares the entry.
KeyFlow(op, f) == IF CacheOf(op) = "spray_primary" THEN f ELSE 0

\* `table' is a history field: the code's caches do not record whose route
\* they hold.
CacheEntry == [epoch : 0..MaxEpoch, dest : Dests, flow : Flows, hop : Hops, table : Tables]

WriteCall == [table : Tables, dest : Dests, route : MaybeRoute]
ReadCall == [op : LookupOps, table : Tables, dest : Dests, flow : Flows, epoch : 1..MaxEpoch]

WriterPCs == {"inner", "stats", "epoch"}
ReaderPCs == {"shard", "fallback", "returned"}

Writers(t, d) ==
  {w \in Threads : pc[w] \in WriterPCs /\ call[w].table = t /\ call[w].dest = d}

\* Threads in any call about d.
Callers(t, d) == {w \in Threads : pc[w] # "idle" /\ call[w].table = t /\ call[w].dest = d}

----------------------------------------------------------------------------
TypeOK ==
  /\ shard \in [Tables -> [Dests -> MaybeRoute]]
  /\ inner \in [Tables -> [Dests -> MaybeRoute]]
  /\ predictive \in [Tables -> [Dests -> MaybeHop]]
  /\ stats \in [Tables -> SUBSET Dests]
  /\ epoch \in 1..MaxEpoch
  /\ cache \in [Threads -> [CachedOps -> [Slots -> CacheEntry]]]
  /\ pc \in [Threads -> {"idle"} \cup WriterPCs \cup ReaderPCs]
  /\ call \in [Threads -> WriteCall \cup ReadCall \cup {NoCall}]
  /\ \A th \in Threads :
       /\ pc[th] \in WriterPCs => call[th] \in WriteCall
       /\ pc[th] \in ReaderPCs => call[th] \in ReadCall
  /\ ret \in [Threads -> MaybeHop]
  /\ window \in [Threads -> SUBSET MaybeRoute]
  /\ raced \in SUBSET (Tables \X Dests)

\* Slots start with epoch 0, which is never current: the epoch starts at 1.
EmptyEntry(t) == [epoch |-> 0, dest |-> ZeroDest, flow |-> 0, hop |-> ZeroHop, table |-> t]

InitEpochZero == 0

InitEpoch == 1

Init ==
  /\ shard = [t \in Tables |-> [d \in Dests |-> NoRoute]]
  /\ inner = [t \in Tables |-> [d \in Dests |-> NoRoute]]
  /\ predictive = [t \in Tables |-> [d \in Dests |-> NoHop]]
  /\ stats = [t \in Tables |-> {}]
  /\ epoch = InitEpoch
  /\ \E t \in Tables :
       cache = [th \in Threads |-> [o \in CachedOps |-> [s \in Slots |-> EmptyEntry(t)]]]
  /\ pc = [th \in Threads |-> "idle"]
  /\ call = [th \in Threads |-> NoCall]
  /\ ret = [th \in Threads |-> NoHop]
  /\ window = [th \in Threads |-> {}]
  /\ raced = {}

----------------------------------------------------------------------------
\* update_route (r a route) and remove_route (r = NoRoute).

\* First locked region: the fast-path shard.
WriteShard(th, t, d, r) ==
  /\ pc[th] = "idle"
  /\ epoch < MaxEpoch
  /\ shard' = [shard EXCEPT ![t][d] = r]
  /\ pc' = [pc EXCEPT ![th] = "inner"]
  /\ call' = [call EXCEPT ![th] = [table |-> t, dest |-> d, route |-> r]]
  /\ window' = [w \in Threads |->
                  IF w = th THEN {shard[t][d], r}
                  ELSE IF w \in Callers(t, d) THEN window[w] \cup {r}
                  ELSE window[w]]
  /\ raced' = IF Writers(t, d) = {} THEN raced ELSE raced \cup {<<t, d>>}
  /\ UNCHANGED <<inner, predictive, stats, epoch, cache, ret>>

\* rebuild_predictive_entries: one hop per entry of the ordered map.
RebuildNeverShrinks(old, entries) ==
  [d \in Dests |-> IF entries[d] = NoRoute THEN old[d] ELSE entries[d].next_hop_id]

RebuildPredictive(old, entries) ==
  [d \in Dests |-> IF entries[d] = NoRoute THEN NoHop ELSE entries[d].next_hop_id]

\* Second locked region: the ordered map and the hops rebuilt from it.
WriteInner(th) ==
  /\ pc[th] = "inner"
  /\ LET c == call[th] IN
       /\ inner' = [inner EXCEPT ![c.table][c.dest] = c.route]
       /\ predictive' = [predictive EXCEPT ![c.table] = RebuildPredictive(@, inner'[c.table])]
  /\ pc' = [pc EXCEPT ![th] = "stats"]
  /\ UNCHANGED <<shard, stats, epoch, cache, call, ret, window, raced>>

\* Third locked region: or_default for an update, remove for a removal.
WriteStats(th) ==
  /\ pc[th] = "stats"
  /\ LET c == call[th] IN
       stats' = [stats EXCEPT ![c.table] = IF c.route = NoRoute THEN @ \ {c.dest}
                                                                ELSE @ \cup {c.dest}]
  /\ pc' = [pc EXCEPT ![th] = "epoch"]
  /\ UNCHANGED <<shard, inner, predictive, epoch, cache, call, ret, window, raced>>

BumpOnUpdateOnly(th) ==
  /\ pc[th] = "epoch"
  /\ epoch < MaxEpoch
  /\ epoch' = IF call[th].route = NoRoute THEN epoch ELSE epoch + 1
  /\ pc' = [pc EXCEPT ![th] = "idle"]
  /\ call' = [call EXCEPT ![th] = NoCall]
  /\ window' = [window EXCEPT ![th] = {}]
  /\ UNCHANGED <<shard, inner, predictive, stats, cache, ret, raced>>

\* The fetch_add that invalidates every cached entry; the call returns.
BumpEpoch(th) ==
  /\ pc[th] = "epoch"
  /\ epoch < MaxEpoch
  /\ epoch' = epoch + 1
  /\ pc' = [pc EXCEPT ![th] = "idle"]
  /\ call' = [call EXCEPT ![th] = NoCall]
  /\ window' = [window EXCEPT ![th] = {}]
  /\ UNCHANGED <<shard, inner, predictive, stats, cache, ret, raced>>

\* inc_channel_forwarded, inc_channel_dropped and apply_mcr_batch_stats: the
\* datapath's counters recreate a missing entry, whether or not d has a route.
ApplyMcrStats(th, t, d) ==
  /\ pc[th] = "idle"
  /\ stats' = [stats EXCEPT ![t] = @ \cup {d}]
  /\ UNCHANGED <<shard, inner, predictive, epoch, cache, pc, call, ret, window, raced>>

----------------------------------------------------------------------------
\* lookup_next_hop, lookup_spray_primary and lookup_or_predict.

HitIgnoringDest(e, op, d, f) == e.epoch = epoch /\ e.flow = KeyFlow(op, f)

\* The caches compare the epoch, the destination and (spray only) the flow.
CacheHit(e, op, d, f) == e.epoch = epoch /\ e.dest = d /\ e.flow = KeyFlow(op, f)

\* The routes d may legitimately be seen to have when a lookup begins: the
\* current one, and those replaced by writes that have not returned yet.
Visible(t, d) == {shard[t][d]} \cup UNION {window[w] : w \in Writers(t, d)}

\* Load the epoch and probe this thread's own cache.  Both happen before
\* anything another thread could see.
BeginLookup(th, op, t, d, f) ==
  /\ pc[th] = "idle"
  /\ call' = [call EXCEPT ![th] = [op |-> op, table |-> t, dest |-> d, flow |-> f, epoch |-> epoch]]
  /\ window' = [window EXCEPT ![th] = Visible(t, d)]
  /\ LET e == cache[th][CacheOf(op)][SlotFor(op, d, f)] IN
       \/ /\ CacheHit(e, op, d, f)
          /\ pc' = [pc EXCEPT ![th] = "returned"]
          /\ ret' = [ret EXCEPT ![th] = e.hop]
       \/ /\ ~CacheHit(e, op, d, f)
          /\ pc' = [pc EXCEPT ![th] = "shard"]
          /\ UNCHANGED ret
  /\ UNCHANGED <<shard, inner, predictive, stats, epoch, cache, raced>>

\* Under the shard's read lock: a hit refills the slot, tagged with the epoch
\* loaded before the lock was taken.
ReadShardHit(th) ==
  /\ pc[th] = "shard"
  /\ LET c == call[th]
         r == shard[c.table][c.dest]
     IN  /\ r # NoRoute
         /\ cache' = [cache EXCEPT ![th][CacheOf(c.op)][SlotFor(c.op, c.dest, c.flow)] =
                        [epoch |-> c.epoch, dest |-> c.dest, flow |-> KeyFlow(c.op, c.flow),
                         hop |-> HopOf(c.op, r, c.flow), table |-> c.table]]
         /\ ret' = [ret EXCEPT ![th] = HopOf(c.op, r, c.flow)]
  /\ pc' = [pc EXCEPT ![th] = "returned"]
  /\ UNCHANGED <<shard, inner, predictive, stats, epoch, call, window, raced>>

\* A miss is not cached; lookup_or_predict goes on to the fallback.
ReadShardMiss(th) ==
  /\ pc[th] = "shard"
  /\ shard[call[th].table][call[th].dest] = NoRoute
  /\ pc' = [pc EXCEPT ![th] = IF call[th].op = "or_predict" THEN "fallback" ELSE "returned"]
  /\ ret' = [ret EXCEPT ![th] = NoHop]
  /\ UNCHANGED <<shard, inner, predictive, stats, epoch, cache, call, window, raced>>

PredictedHops(t) == {predictive[t][d] : d \in Dests} \ {NoHop}

\* lookup_predictive_fallback: the flow hash picks one of the hops, None if
\* there are none.  Which one is left open here; SpraySelect has the index.
PredictiveFallback(th) ==
  /\ pc[th] = "fallback"
  /\ \E h \in MaybeHop :
       /\ h = NoHop <=> PredictedHops(call[th].table) = {}
       /\ h # NoHop => h \in PredictedHops(call[th].table)
       /\ ret' = [ret EXCEPT ![th] = h]
  /\ pc' = [pc EXCEPT ![th] = "returned"]
  /\ UNCHANGED <<shard, inner, predictive, stats, epoch, cache, call, window, raced>>

\* The caller takes the result.
ReturnLookup(th) ==
  /\ pc[th] = "returned"
  /\ pc' = [pc EXCEPT ![th] = "idle"]
  /\ call' = [call EXCEPT ![th] = NoCall]
  /\ ret' = [ret EXCEPT ![th] = NoHop]
  /\ window' = [window EXCEPT ![th] = {}]
  /\ UNCHANGED <<shard, inner, predictive, stats, epoch, cache, raced>>

----------------------------------------------------------------------------
Next ==
  \E th \in Threads :
    \/ \E t \in Tables, d \in Dests, r \in MaybeRoute : WriteShard(th, t, d, r)
    \/ WriteInner(th)
    \/ WriteStats(th)
    \/ BumpEpoch(th)
    \/ \E t \in Tables, d \in Dests : ApplyMcrStats(th, t, d)
    \/ \E op \in LookupOps, t \in Tables, d \in Dests, f \in Flows : BeginLookup(th, op, t, d, f)
    \/ ReadShardHit(th)
    \/ ReadShardMiss(th)
    \/ PredictiveFallback(th)
    \/ ReturnLookup(th)

Spec == Init /\ [][Next]_vars

----------------------------------------------------------------------------
\* A cached hop whose tag is the current epoch is the hop of a route its
\* destination has now, or had before a write that has not yet bumped the
\* epoch.  This is what makes the lock-free epoch check of lookup_next_hop and
\* lookup_spray_primary sound: bumping last leaves no stale entry current.
FreshCacheAgrees ==
  \A th \in Threads : \A o \in CachedOps : \A s \in Slots :
    LET e == cache[th][o][s] IN
      e.epoch = epoch => \E r \in Visible(e.table, e.dest) \ {NoRoute} : e.hop = HopOf(o, r, e.flow)

\* A lookup returns the hop of a route the destination had at some moment of
\* the call, or had before a write that was still under way when the call
\* began; None, or a predicted hop, only if it had no route at such a moment.
\* In particular a thread that has returned from update_route never again gets
\* the hop it replaced.
LookupRegular ==
  \A th \in Threads : pc[th] = "returned" =>
    LET c == call[th] IN
      \/ \E r \in window[th] : ret[th] = HopOf(c.op, r, c.flow)
      \/ c.op = "or_predict" /\ NoRoute \in window[th]

\* Comment at lookup_spray_primary: fast_shards is an index of all entries of
\* the table.  Between writes, the index, the ordered map, the predictive hops
\* and the statistics agree on every destination ...
Agree(t, d) ==
  /\ shard[t][d] = inner[t][d]
  /\ predictive[t][d] = (IF inner[t][d] = NoRoute THEN NoHop ELSE inner[t][d].next_hop_id)
  /\ inner[t][d] # NoRoute => d \in stats[t]

\* ... that was never written by two threads at once.
AgreeUnlessRaced ==
  \A t \in Tables, d \in Dests :
    Writers(t, d) = {} /\ <<t, d>> \notin raced => Agree(t, d)

\* That comment, without the restriction to serialised writers: whatever
\* interleaved, once no write of a destination is under way a route in the
\* ordered map has an entry in the index, so that a miss there is a miss.
FastShardsAllInclusive ==
  \A t \in Tables, d \in Dests :
    Writers(t, d) = {} /\ inner[t][d] # NoRoute => shard[t][d] # NoRoute
====
