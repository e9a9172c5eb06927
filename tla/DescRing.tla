----------------------------- MODULE DescRing -----------------------------
(***************************************************************************)
(* One descriptor ring of the shared mapping (src/afxdp/src/rings.rs):     *)
(* tx_push and fill_push are the producer's side with the kernel           *)
(* consuming, rx_pop and comp_pop the consumer's side with the kernel      *)
(* producing.  The kernel follows the same protocol, so both sides are     *)
(* modelled by the crate's code.  A side reads both indices once, copies   *)
(* its descriptors in at most two chunks, and only then publishes its own  *)
(* index; the other side may run between any two of these steps.           *)
(*                                                                         *)
(* The indices are free-running u32 counters: they wrap at IndexSpace      *)
(* (2^32).  Plain loads and stores are assumed to take effect in program   *)
(* order, as they do in an x86 build; the code has no barriers.            *)
(***************************************************************************)
EXTENDS Integers, Sequences

CONSTANTS
  Descs,       \* descriptors (UMEM addresses)
  Capacity,    \* mask + 1
  IndexSpace,  \* 2^32
  SlotIndex,   \* index & mask
  MaxBatch,    \* longest batch offered to a push, largest `max' of a pop
  Blank        \* contents of a slot never written

\* The kernel's rings have a power of two of slots, so the mask is a remainder
\* and the indices wrap at a whole number of rounds.
ASSUME RingAssumption ==
  /\ Capacity \in Nat \ {0} /\ IndexSpace \in Nat /\ MaxBatch \in Nat \ {0}
  /\ Capacity < IndexSpace
  /\ IndexSpace % Capacity = 0
  /\ SlotIndex = [i \in 0..(IndexSpace - 1) |-> i % Capacity]
  /\ Blank \notin Descs

VARIABLES
  slots,             \* the descriptor area
  prod, cons,        \* the two published indices
  ppc, batch, pfrom, \* the producer: its step, what it pushes, the prod it read
  cpc, want, got, cfrom, \* the consumer: its step, how many, what it copied, the cons it read
  taken              \* what the last pop returned

ringVars == <<slots, prod, cons, ppc, batch, pfrom, cpc, want, got, cfrom, taken>>

Fewer(a, b) == IF a < b THEN a ELSE b

AddUnwrapped(a, b) == a + b

\* wrapping_add and wrapping_sub on u32.
WrapAdd(a, b) == (a + b) % IndexSpace
WrapSub(a, b) == (a - b) % IndexSpace

\* Lengths of the two chunks of a copy of n descriptors from index i on.
Chunk1(i, n) == Fewer(n, Capacity - SlotIndex[i])
Chunk2(i, n) == n - Chunk1(i, n)

RingTypeOK ==
  /\ slots \in [0..(Capacity - 1) -> Descs \cup {Blank}]
  /\ prod \in 0..(IndexSpace - 1) /\ cons \in 0..(IndexSpace - 1)
  /\ ppc \in {"idle", "chunk1", "chunk2", "publish"}
  /\ cpc \in {"idle", "chunk1", "chunk2", "publish"}
  /\ batch \in Seq(Descs) /\ pfrom \in 0..(IndexSpace - 1)
  /\ want \in 0..Capacity /\ got \in Seq(Descs) /\ cfrom \in 0..(IndexSpace - 1)
  /\ taken \in Seq(Descs)

RingInit ==
  /\ slots = [i \in 0..(Capacity - 1) |-> Blank]
  /\ prod \in 0..(IndexSpace - 1) /\ cons = prod
  /\ ppc = "idle" /\ batch = <<>> /\ pfrom = 0
  /\ cpc = "idle" /\ want = 0 /\ got = <<>> /\ cfrom = 0
  /\ taken = <<>>

----------------------------------------------------------------------------
\* tx_push, fill_push.

FreeOffByOne == Capacity + 1 - WrapSub(prod, cons)

\* capacity.saturating_sub(used)
Free == IF WrapSub(prod, cons) > Capacity THEN 0 ELSE Capacity - WrapSub(prod, cons)

\* Read the indices.  A full ring returns 0 and changes nothing.
PushBegin(addrs) ==
  /\ ppc = "idle"
  /\ Free > 0
  /\ ppc' = "chunk1"
  /\ batch' = SubSeq(addrs, 1, Fewer(Free, Len(addrs)))
  /\ pfrom' = prod
  /\ UNCHANGED <<slots, prod, cons, cpc, want, got, cfrom, taken>>

PushChunk1 ==
  /\ ppc = "chunk1"
  /\ LET start == SlotIndex[pfrom] IN
       slots' = [i \in 0..(Capacity - 1) |->
                   IF i \in start..(start + Chunk1(pfrom, Len(batch)) - 1)
                   THEN batch[i - start + 1] ELSE slots[i]]
  /\ ppc' = IF Chunk2(pfrom, Len(batch)) > 0 THEN "chunk2" ELSE "publish"
  /\ UNCHANGED <<prod, cons, batch, pfrom, cpc, want, got, cfrom, taken>>

\* The copy wraps to the start of the descriptor area.
PushChunk2 ==
  /\ ppc = "chunk2"
  /\ slots' = [i \in 0..(Capacity - 1) |->
                 IF i < Chunk2(pfrom, Len(batch))
                 THEN batch[Chunk1(pfrom, Len(batch)) + i + 1] ELSE slots[i]]
  /\ ppc' = "publish"
  /\ UNCHANGED <<prod, cons, batch, pfrom, cpc, want, got, cfrom, taken>>

PushPublish ==
  /\ ppc = "publish"
  /\ prod' = WrapAdd(pfrom, Len(batch))
  /\ ppc' = "idle" /\ batch' = <<>> /\ pfrom' = 0
  /\ UNCHANGED <<slots, cons, cpc, want, got, cfrom, taken>>

----------------------------------------------------------------------------
\* rx_pop, comp_pop.

Avail == WrapSub(prod, cons)

PopBegin(max) ==
  /\ cpc = "idle"
  /\ Avail > 0
  /\ cpc' = "chunk1"
  /\ want' = Fewer(Avail, max)
  /\ cfrom' = cons
  /\ UNCHANGED <<slots, prod, cons, ppc, batch, pfrom, got, taken>>

PopChunk1 ==
  /\ cpc = "chunk1"
  /\ got' = [i \in 1..Chunk1(cfrom, want) |-> slots[SlotIndex[cfrom] + i - 1]]
  /\ cpc' = IF Chunk2(cfrom, want) > 0 THEN "chunk2" ELSE "publish"
  /\ UNCHANGED <<slots, prod, cons, ppc, batch, pfrom, want, cfrom, taken>>

PopChunk2 ==
  /\ cpc = "chunk2"
  /\ got' = got \o [i \in 1..Chunk2(cfrom, want) |-> slots[i - 1]]
  /\ cpc' = "publish"
  /\ UNCHANGED <<slots, prod, cons, ppc, batch, pfrom, want, cfrom, taken>>

PopPublishEarly ==
  /\ cpc = "chunk1"
  /\ cons' = WrapAdd(cfrom, want)
  /\ cpc' = "idle" /\ got' = <<>> /\ want' = 0 /\ cfrom' = 0
  /\ taken' = [i \in 1..want |-> slots[SlotIndex[cfrom]]]
  /\ UNCHANGED <<slots, prod, ppc, batch, pfrom>>

\* Publishing cons hands the slots back to the producer; the pop returns.
PopPublish ==
  /\ cpc = "publish"
  /\ cons' = WrapAdd(cfrom, want)
  /\ taken' = got
  /\ cpc' = "idle" /\ got' = <<>> /\ want' = 0 /\ cfrom' = 0
  /\ UNCHANGED <<slots, prod, ppc, batch, pfrom>>

----------------------------------------------------------------------------
Batches == UNION {[1..n -> Descs] : n \in 1..MaxBatch}

RingNext ==
  \/ \E addrs \in Batches : PushBegin(addrs)
  \/ PushChunk1 \/ PushChunk2 \/ PushPublish
  \/ \E max \in 1..MaxBatch : PopBegin(max)
  \/ PopChunk1 \/ PopChunk2 \/ PopPublish

RingSpec == RingInit /\ [][RingNext]_ringVars

----------------------------------------------------------------------------
\* The published descriptors, oldest first.
Queued == [i \in 1..WrapSub(prod, cons) |-> slots[SlotIndex[WrapAdd(cons, i - 1)]]]

Fifo == INSTANCE BoundedFifo WITH queue <- Queued, taken <- taken

\* The chunked copies over wrapping indices implement a bounded queue: no
\* descriptor is lost, duplicated, reordered or read before it is written,
\* wherever the other side's steps fall.
ImplementsFifo == Fifo!Spec

\* A producer that decided how much to push from an index the consumer has
\* since moved never writes a slot the consumer may still be reading.
WritesOnlyFree ==
  ppc # "idle" =>
    \A i \in 0..(Len(batch) - 1), j \in 0..(WrapSub(prod, cons) - 1) :
      SlotIndex[WrapAdd(pfrom, i)] # SlotIndex[WrapAdd(cons, j)]
====
