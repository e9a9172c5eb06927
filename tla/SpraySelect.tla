---------------------------- MODULE SpraySelect ----------------------------
(***************************************************************************)
(* How the lookups of src/routing/src/lib.rs choose among the channels of  *)
(* a route and among the predictive next hops.  A route with n - 1         *)
(* alternates has channels 0 (next_hop_id) and 1..n-1; a result names      *)
(* channels.  The code replaces division by a mask when the count is a     *)
(* power of two, and by a multiplication and a shift for the predictive    *)
(* hops; the properties compare these with division and with each other.   *)
(***************************************************************************)
EXTENDS Integers, Sequences, FiniteSets

CONSTANTS
  MaxTotal,  \* most channels of a route
  MaxBuf,    \* longest buffer given to lookup_spray_buf (16)
  MaxFlow,   \* flow labels and channel indices are 0..MaxFlow
  HashSpace, \* number of flow hashes (2^64), which a shift by 64 divides by
  MaxHops,   \* most predictive next hops
  BitAnd(_, _) \* & of two usize

IsPowerOfTwo(n) == n > 0 /\ BitAnd(n, n - 1) = 0

\* Below a power of two, & keeps what division leaves.
MasksLikeDivision(x, n) == IsPowerOfTwo(n) => BitAnd(x, n - 1) = x % n

ASSUME SprayAssumption ==
  /\ MaxTotal \in Nat \ {0} /\ MaxBuf \in Nat /\ MaxFlow \in Nat
  /\ HashSpace \in Nat \ {0} /\ MaxHops \in Nat \ {0}
  /\ \A total \in 1..MaxTotal, x \in 0..MaxFlow : MasksLikeDivision(x, total)
  /\ \A n \in 1..MaxHops, hash \in 0..(HashSpace - 1) : MasksLikeDivision(hash, n)

VARIABLES call, result
vars == <<call, result>>

Smaller(a, b) == IF a < b THEN a ELSE b

MaskAlways(x, n) == BitAnd(x, n - 1)

\* Mask or remainder.
Reduce(x, n) == IF IsPowerOfTwo(n) THEN BitAnd(x, n - 1) ELSE x % n

\* lookup_spray_primary: the channel the flow label selects.
SprayPrimary(total, flow) == IF total = 1 THEN 0 ELSE Reduce(flow, total)

SprayBufUnswapped(total, flow, len) ==
  [i \in 1..Smaller(total, len) |-> IF i = 1 THEN Reduce(flow, total) ELSE i - 1]

\* lookup_spray_buf: the selected channel first, the others in order, with
\* next_hop_id in the place of the selected one.
SprayBuf(total, flow, len) ==
  LET count == Smaller(total, len)
      idx == Reduce(flow, total)
  IN  IF count = 0 THEN <<>>
      ELSE IF total = 1 THEN <<0>>
      ELSE [i \in 1..count |-> IF i = 1 THEN idx ELSE IF i - 1 = idx THEN 0 ELSE i - 1]

\* lookup_spray_single.
SpraySingle(total, flow, channel) ==
  LET flow_idx == IF total > 1 THEN Reduce(flow, total) ELSE 0
      target == Reduce(channel, total)
  IN  IF target = 0 THEN flow_idx
      ELSE IF target = flow_idx THEN 0 ELSE target

PredictiveShiftShort(n, hash) ==
  IF n = 1 THEN 0
  ELSE IF IsPowerOfTwo(n) THEN BitAnd(hash, n - 1)
  ELSE (hash * n) \div (HashSpace \div 2)

\* lookup_predictive_fallback: the index among n next hops.
PredictiveIndex(n, hash) ==
  IF n = 1 THEN 0
  ELSE IF IsPowerOfTwo(n) THEN BitAnd(hash, n - 1)
  ELSE (hash * n) \div HashSpace

----------------------------------------------------------------------------
NoCall == [op |-> "none"]

Init == call = NoCall /\ result = <<>>

LookupSpray(total, flow, len) ==
  /\ call' = [op |-> "spray", total |-> total, flow |-> flow, len |-> len]
  /\ result' = SprayBuf(total, flow, len)

Predict(n, hash) ==
  /\ call' = [op |-> "predict", n |-> n, hash |-> hash]
  /\ result' = <<PredictiveIndex(n, hash)>>

Return == call # NoCall /\ call' = NoCall /\ result' = <<>>

Next ==
  \/ /\ call = NoCall
     /\ \/ \E total \in 1..MaxTotal, flow \in 0..MaxFlow, len \in 0..MaxBuf :
             LookupSpray(total, flow, len)
        \/ \E n \in 1..MaxHops, hash \in 0..(HashSpace - 1) : Predict(n, hash)
  \/ Return

Spec == Init /\ [][Next]_vars

----------------------------------------------------------------------------
\* A full-spray lookup names no channel twice, and all of them when the
\* buffer is long enough: no frame is sent twice over one channel.
SprayCoversOnce ==
  call.op = "spray" =>
    LET named == {result[i] : i \in 1..Len(result)} IN
    /\ Cardinality(named) = Len(result)
    /\ named \subseteq 0..(call.total - 1)
    /\ call.len >= call.total => named = 0..(call.total - 1)

\* The three lookups of a flow agree: the first channel of the buffer is the
\* one of lookup_spray_primary and the one division gives, and
\* lookup_spray_single returns entry i of the buffer, round-robin beyond it.
LookupsAgree ==
  call.op = "spray" =>
    /\ SprayPrimary(call.total, call.flow) = call.flow % call.total
    /\ Len(result) > 0 => result[1] = SprayPrimary(call.total, call.flow)
    /\ Len(result) = call.total =>
         \A c \in 0..MaxFlow :
           SpraySingle(call.total, call.flow, c) = result[(c % call.total) + 1]

\* The multiply-and-shift reduction stays inside the array of next hops and
\* spreads the hashes evenly over it: the shares of two hops differ by at
\* most one hash.
PredictiveEven ==
  call.op = "predict" =>
    /\ result[1] \in 0..(call.n - 1)
    /\ LET share(i) == Cardinality({h \in 0..(HashSpace - 1) : PredictiveIndex(call.n, h) = i})
       IN  \A i \in 0..(call.n - 1) : share(i) - (HashSpace \div call.n) \in {0, 1}
====
