--------------------------- MODULE MCRouteTable ---------------------------
(***************************************************************************)
(* Instance of RouteTable for TLC: two destinations, one of them the       *)
(* all-zero id, that collide in both caches, so that entries evict each    *)
(* other; one route with an alternate channel, so that the flow label      *)
(* matters; writes until the epoch has been bumped twice.                  *)
(***************************************************************************)
EXTENDS RouteTable, TLC

CONSTANTS d0, d1, h0, h1, s0

MCDests == {d0, d1}
MCHops == {h0, h1}
MCFlows == {0, 1}
MCSlots == {s0}
MCSimpleSlot == [d \in MCDests |-> s0]
MCSpraySlot == [k \in MCDests \X MCFlows |-> s0]
MCRoutes == {[next_hop_id |-> h0, alternate_channels |-> <<h1>>],
             [next_hop_id |-> h1, alternate_channels |-> <<>>]}

\* An entry tagged with a past epoch can never be hit again, whatever it
\* holds, since the epoch only grows: states that differ in such entries alone
\* are one state.
MCView ==
  <<shard, inner, predictive, stats, epoch, pc, call, ret, window, raced,
    [th \in Threads |-> [o \in CachedOps |-> [s \in Slots |->
       IF cache[th][o][s].epoch = epoch THEN cache[th][o][s] ELSE EmptyEntry(CHOOSE t \in Tables : TRUE)]]]>>

MCSymmetry == Permutations(Threads)
====
