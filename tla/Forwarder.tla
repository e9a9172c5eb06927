----------------------------- MODULE Forwarder -----------------------------
(***************************************************************************)
(* The packet loop of src/datapath/src/lib.rs: a batch of frames is        *)
(* polled, each frame is looked up, encrypted where a session allows it,   *)
(* and its bytes are laid out in one arena with an offset table, which is  *)
(* handed to the socket.  The same job is written four times over: the     *)
(* serial loop (handle_packet), the owned loop for large batches           *)
(* (process_packet_owned, append_outputs), the primary-spray loop and the  *)
(* full-spray loop of process_batch_mcr, which has an owned variant too.   *)
(* The loops that write into the arena directly start an output with its   *)
(* header and payload, then seal it, or truncate the arena to where it     *)
(* began and copy the whole frame.  The owned loops map the frames in      *)
(* parallel, in any order, and append the results in the batch's order.    *)
(*                                                                         *)
(* A frame is its size and the payload length its header claims; bytes are *)
(* counted, not kept.  The arena is written without capacity checks, so    *)
(* its length and its capacity are both state.  A route lookup may answer  *)
(* either way: RouteTable models it.  Profiling counters, the telemetry    *)
(* totals and the result of send, which the code ignores, are left out.    *)
(***************************************************************************)
EXTENDS Integers, Sequences, FiniteSets

CONSTANTS
  HeaderSize, TagSize, \* 96, 16
  FrameSet,            \* frames a poll may deliver: [size, claim]
  SealLimit,           \* longest payload encrypt_into_slice accepts
  MaxPoll,             \* longest batch
  ParallelThreshold,   \* batch length from which the owned paths run (1024)
  MaxChannels,         \* longest answer of lookup_spray_buf
  Multiplier,          \* copies per frame the full-spray reserve allows for (3)
  InitCap,             \* capacity the arena starts with
  SlotSize,            \* slot size of the SliceRing
  NextPowerOfTwo(_)

ASSUME ForwarderAssumption ==
  /\ HeaderSize \in Nat \ {0} /\ TagSize \in Nat /\ SealLimit \in Nat
  /\ FrameSet \subseteq [size : Nat, claim : Nat]
  /\ \A f \in FrameSet : f.size < HeaderSize => f.claim = 0
  /\ MaxPoll \in Nat \ {0} /\ ParallelThreshold \in Nat \ {0}
  /\ MaxChannels \in Nat \ {0} /\ Multiplier \in Nat \ {0}
  /\ InitCap \in Nat \ {0} /\ SlotSize \in Nat

VARIABLES
  mcr,      \* MCR configuration: "off", "primary", "full"
  session,  \* there is a session
  pool,     \* rayon has more than one thread
  pc,       \* "idle"; "loop", "seal" (the loops that write into the arena);
            \* "expand", "map", "append" (the owned loops)
  path,     \* the loop that runs
  todo,     \* frames not handled yet
  copies,   \* copies of the first frame of todo still to make; 0: not looked up
  start,    \* where the output being written begins in the arena
  duplicated, \* owned paths: the items of the parallel map, as places in the batch
  pending,  \* items not mapped yet
  outputs,  \* owned paths: outputs not appended yet
  cap, len, \* the arena
  offsets,  \* the offset table, with the frame each entry came from
  stats,    \* ForwarderStats of the batch
  frames    \* the batch as it was polled

arena == <<cap, len, offsets, stats>>
config == <<mcr, session, pool>>
work == <<duplicated, pending, outputs>>
vars == <<config, pc, path, todo, copies, start, work, arena, frames>>

Paths == {"serial", "owned", "primary", "full", "full_owned"}

Larger(a, b) == IF a > b THEN a ELSE b
Smaller(a, b) == IF a < b THEN a ELSE b

----------------------------------------------------------------------------
\* What becomes of a frame in an owned loop: bytes it takes, whether it is
\* encrypted, whether it counts as a route miss.
Outcome(n, encrypted, miss) == [size |-> n, encrypted |-> encrypted, miss |-> miss]

HasHeader(f) == f.size >= HeaderSize

\* The payload the header claims is there and is not empty.
CarriesPayload(f) == f.size >= HeaderSize + f.claim /\ f.claim > 0

Seals(f) == session /\ CarriesPayload(f) /\ f.claim <= SealLimit

\* The header claims a payload but encryption was not possible.
SealMissed(f) == session /\ f.claim > 0 /\ ~Seals(f)

\* The bytes a loop writes before it knows whether the frame can be sealed:
\* header and payload, or the header alone.  0: the frame is copied whole.
Draft(f, found) ==
  IF ~HasHeader(f) \/ ~found THEN 0
  ELSE IF path = "primary" THEN HeaderSize + (IF CarriesPayload(f) THEN f.claim ELSE 0)
  ELSE IF session /\ CarriesPayload(f) THEN HeaderSize + f.claim
  ELSE 0

\* What the loops add to a draft they sealed: the tag, then the bytes after
\* the payload, which handle_packet does not send.
SealAdds(f) ==
  TagSize + (IF path = "serial" THEN 0 ELSE f.size - (HeaderSize + f.claim))

\* The primary-spray loop sends a draft in clear when there is no session or
\* no payload, and with it cuts off what follows the payload.
SentInClear(f) == path = "primary" /\ (f.claim = 0 \/ (CarriesPayload(f) /\ ~session))

\* Whether a frame copied whole counts as a route miss.
CopyMissed(f, found) ==
  IF path = "serial" THEN HasHeader(f) /\ (~found \/ SealMissed(f))
  ELSE ~HasHeader(f) \/ ~found \/ SealMissed(f)

OwnedTagUncounted(f, found) ==
  IF HasHeader(f) /\ found /\ Seals(f)
  THEN Outcome(f.size, TRUE, FALSE)
  ELSE Outcome(f.size, FALSE, HasHeader(f) /\ (~found \/ SealMissed(f)))

\* process_packet_owned and its consuming variant encrypt in the frame's own
\* vector, grown to hold the tag before it is known whether encryption works.
Owned(f, found) ==
  LET grown == Larger(f.size, HeaderSize + f.claim + TagSize) IN
  IF ~HasHeader(f) THEN Outcome(f.size, FALSE, FALSE)
  ELSE IF ~found THEN Outcome(f.size, FALSE, TRUE)
  ELSE IF Seals(f) THEN Outcome(grown, TRUE, FALSE)
  ELSE IF session /\ CarriesPayload(f) THEN Outcome(grown, FALSE, TRUE)
  ELSE Outcome(f.size, FALSE, SealMissed(f))

----------------------------------------------------------------------------
\* AlignedBuffer::reserve
Reserve(l, additional) ==
  IF l + additional <= cap THEN cap
  ELSE Larger(NextPowerOfTwo(l + additional), 2 * cap)

\* Sum of the sizes of a sequence of frames or outputs.
Bytes(s) ==
  LET sum[i \in 0..Len(s)] == IF i = 0 THEN 0 ELSE sum[i - 1] + s[i].size IN sum[Len(s)]

ReserveWithoutTags(p, batch) == Bytes(batch) * (IF p = "full" THEN Multiplier ELSE 1)

\* What the loop reserves before its first frame.
Needed(p, batch) ==
  (Bytes(batch) + Len(batch) * TagSize)
    * (IF p \in {"full", "full_owned"} THEN Multiplier ELSE 1)

\* Which loop runs.  process_batch_slices has the serial loop only.
PathFor(n) ==
  IF mcr = "primary" THEN "primary"
  ELSE IF n < ParallelThreshold \/ ~pool THEN (IF mcr = "full" THEN "full" ELSE "serial")
  ELSE (IF mcr = "full" THEN "full_owned" ELSE "owned")

NoStats == [received |-> 0, forwarded |-> 0, encrypted |-> 0, route_misses |-> 0]

NoOutput == [size |-> 0, encrypted |-> FALSE, miss |-> FALSE, from |-> 0]

TypeOK ==
  /\ mcr \in {"off", "primary", "full"} /\ session \in BOOLEAN /\ pool \in BOOLEAN
  /\ pc \in {"idle", "loop", "seal", "expand", "map", "append"} /\ path \in Paths
  /\ todo \in Seq([size : Nat, claim : Nat]) /\ frames \in Seq([size : Nat, claim : Nat])
  /\ copies \in 0..MaxChannels /\ start \in Nat
  /\ duplicated \in Seq(Nat \ {0}) /\ pending \subseteq DOMAIN duplicated
  /\ outputs \in Seq([size : Nat, encrypted : BOOLEAN, miss : BOOLEAN, from : Nat])
  /\ cap \in Nat /\ len \in Nat
  /\ offsets \in Seq([start : Nat, size : Nat, encrypted : BOOLEAN, from : Nat])
  /\ stats \in [received : Nat, forwarded : Nat, encrypted : Nat, route_misses : Nat]

Init ==
  /\ mcr \in {"off", "primary", "full"} /\ session \in BOOLEAN /\ pool \in BOOLEAN
  /\ pc = "idle" /\ path = "serial"
  /\ todo = <<>> /\ copies = 0 /\ start = 0 /\ frames = <<>>
  /\ duplicated = <<>> /\ pending = {} /\ outputs = <<>>
  /\ cap = InitCap /\ len = 0 /\ offsets = <<>> /\ stats = NoStats

----------------------------------------------------------------------------
\* Clear the arena, reserve, and enter the loop for the polled batch.
\* The owned path of process_batch maps the batch as it is, and reserves only
\* when it appends.
Begin(p, batch) ==
  /\ path' = p /\ frames' = batch
  /\ todo' = IF p = "owned" THEN <<>> ELSE batch
  /\ pc' = CASE p = "owned" -> "map" [] p = "full_owned" -> "expand" [] OTHER -> "loop"
  /\ duplicated' = IF p = "owned" THEN [i \in 1..Len(batch) |-> i] ELSE <<>>
  /\ pending' = IF p = "owned" THEN 1..Len(batch) ELSE {}
  /\ outputs' = IF p = "owned" THEN [i \in 1..Len(batch) |-> NoOutput] ELSE <<>>
  /\ cap' = IF p = "owned" THEN cap ELSE Reserve(0, Needed(p, batch))
  /\ len' = 0 /\ offsets' = <<>>
  /\ stats' = [NoStats EXCEPT !.received = Len(batch)]
  /\ UNCHANGED <<config, copies, start>>

\* process_batch, process_batch_mcr and process_batch_spray_full.  An empty
\* poll returns at once.
ProcessBatch(batch) ==
  /\ pc = "idle"
  /\ Begin(PathFor(Len(batch)), batch)

\* poll_slices cuts every frame to the ring's slot size.
ProcessBatchSlices(batch) ==
  /\ pc = "idle"
  /\ Begin("serial", [i \in 1..Len(batch) |->
                        [batch[i] EXCEPT !.size = Smaller(@, SlotSize),
                                         !.claim = IF SlotSize < HeaderSize THEN 0 ELSE @]])

\* The place of the frame in the batch.
Current == Len(frames) - Len(todo) + 1

PushMissOnly(begin, end, encrypted, miss, from) ==
  /\ offsets' = Append(offsets, [start |-> begin, size |-> end - begin,
                                 encrypted |-> encrypted, from |-> from])
  /\ len' = end
  /\ stats' = [stats EXCEPT !.forwarded = @ + (IF encrypted \/ miss THEN 0 ELSE 1),
                            !.encrypted = @ + (IF encrypted THEN 1 ELSE 0),
                            !.route_misses = @ + (IF miss THEN 1 ELSE 0)]

\* The arena is written up to end: the output that begins at begin goes into
\* the offset table and is counted.
Push(begin, end, encrypted, miss, from) ==
  /\ offsets' = Append(offsets, [start |-> begin, size |-> end - begin,
                                 encrypted |-> encrypted, from |-> from])
  /\ len' = end
  /\ stats' = [stats EXCEPT !.forwarded = @ + (IF encrypted THEN 0 ELSE 1),
                            !.encrypted = @ + (IF encrypted THEN 1 ELSE 0),
                            !.route_misses = @ + (IF miss THEN 1 ELSE 0)]

----------------------------------------------------------------------------
(* The loops that write into the arena directly.                           *)

Sprays == path = "full" /\ HasHeader(Head(todo))

\* lookup_spray_buf.  A frame with no channels is handled once, as it is.
LookupChannels(n) ==
  /\ pc = "loop" /\ todo # <<>> /\ Sprays
  /\ copies = 0
  /\ copies' = Larger(n, 1)
  /\ UNCHANGED <<config, pc, path, todo, start, work, arena, frames>>

AtFrame == pc = "loop" /\ todo # <<>> /\ (Sprays => copies > 0)

\* The output is written: on to the next copy, or to the next frame once the
\* last copy is made.
NextCopy ==
  /\ IF copies > 1 THEN copies' = copies - 1 /\ UNCHANGED todo
     ELSE copies' = 0 /\ todo' = Tail(todo)
  /\ pc' = "loop"
  /\ UNCHANGED <<config, path, start, work, cap, frames>>

\* A frame that is not drafted is copied whole.
CopyOutput(found) ==
  LET f == Head(todo) IN
  /\ AtFrame /\ Draft(f, found) = 0
  /\ Push(len, len + f.size, FALSE, CopyMissed(f, found), Current)
  /\ NextCopy

\* Header and payload are written, with no check of the capacity ...
StartOutput(found) ==
  LET f == Head(todo) IN
  /\ AtFrame /\ Draft(f, found) > 0
  /\ start' = len /\ len' = len + Draft(f, found)
  /\ pc' = "seal"
  /\ UNCHANGED <<config, path, todo, copies, work, cap, offsets, stats, frames>>

\* ... and the payload is encrypted in place: the tag and the rest follow,
SealOutput ==
  LET f == Head(todo) IN
  /\ pc = "seal" /\ Seals(f)
  /\ Push(start, len + SealAdds(f), TRUE, FALSE, Current)
  /\ NextCopy

\* ... or it is sent in clear,
KeepOutput ==
  /\ pc = "seal" /\ SentInClear(Head(todo))
  /\ Push(start, len, FALSE, FALSE, Current)
  /\ NextCopy

KeptDraft == len

\* AlignedBuffer::truncate
Truncated == start

\* ... or the draft is cut off again and the whole frame copied, a miss.  The
\* full-spray loop's entry begins where the draft did, that of the other two
\* where the arena ends after the cut.
RewriteOutput ==
  LET f == Head(todo)
      begin == IF path = "full" THEN start ELSE Truncated
  IN
  /\ pc = "seal" /\ ~Seals(f) /\ ~SentInClear(f)
  /\ Push(begin, Truncated + f.size, FALSE, TRUE, Current)
  /\ NextCopy

----------------------------------------------------------------------------
(* The owned loops.                                                        *)

\* The owned full-spray loop looks up every frame's channels before it maps.
Duplicate(n) ==
  /\ pc = "expand" /\ todo # <<>>
  /\ ~HasHeader(Head(todo)) => n = 0
  /\ duplicated' = duplicated \o [i \in 1..Larger(n, 1) |-> Current]
  /\ todo' = Tail(todo)
  /\ UNCHANGED <<config, pc, path, copies, start, pending, outputs, arena, frames>>

\* into_par_iter: every item is to be mapped, in whatever order.
Fork ==
  /\ pc = "expand" /\ todo = <<>>
  /\ pc' = "map" /\ pending' = DOMAIN duplicated
  /\ outputs' = [i \in DOMAIN duplicated |-> NoOutput]
  /\ UNCHANGED <<config, path, todo, copies, start, duplicated, arena, frames>>

PlaceByArrival(i) == Len(outputs) - Cardinality(pending) + 1

\* collect puts an item's result at the item's own place.
Place(i) == i

\* A thread of the pool has handled item i.
MapItem(i, found) ==
  LET o == Owned(frames[duplicated[i]], found) IN
  /\ pc = "map" /\ i \in pending
  /\ pending' = pending \ {i}
  /\ outputs' = [outputs EXCEPT ![Place(i)] =
                   [size |-> o.size, encrypted |-> o.encrypted, miss |-> o.miss,
                    from |-> duplicated[i]]]
  /\ UNCHANGED <<config, pc, path, todo, copies, start, duplicated, arena, frames>>

\* The main thread makes room for all outputs ...
Collect ==
  /\ pc = "map" /\ pending = {}
  /\ pc' = "append" /\ cap' = Reserve(len, Bytes(outputs))
  /\ UNCHANGED <<config, path, todo, copies, start, work, len, offsets, stats, frames>>

\* ... and appends them one by one.
AppendOutput ==
  LET o == Head(outputs) IN
  /\ pc = "append" /\ outputs # <<>>
  /\ Push(len, len + o.size, o.encrypted, o.miss, o.from)
  /\ outputs' = Tail(outputs)
  /\ UNCHANGED <<config, pc, path, todo, copies, start, duplicated, pending, cap, frames>>

----------------------------------------------------------------------------
BatchDone ==
  \/ pc = "loop" /\ todo = <<>>
  \/ pc = "append" /\ outputs = <<>>

\* send, whose result is ignored; the arena keeps its capacity.
Finish ==
  /\ BatchDone
  /\ pc' = "idle"
  /\ UNCHANGED <<config, path, todo, copies, start, work, arena, frames>>

Polls == UNION {[1..n -> FrameSet] : n \in 1..MaxPoll}

Next ==
  \/ \E batch \in Polls : ProcessBatch(batch) \/ ProcessBatchSlices(batch)
  \/ \E n \in 0..MaxChannels : LookupChannels(n) \/ Duplicate(n)
  \/ \E found \in BOOLEAN : CopyOutput(found) \/ StartOutput(found)
  \/ SealOutput \/ KeepOutput \/ RewriteOutput
  \/ Fork
  \/ \E i \in pending, found \in BOOLEAN : MapItem(i, found)
  \/ Collect \/ AppendOutput \/ Finish

Spec == Init /\ [][Next]_vars

----------------------------------------------------------------------------
\* The unchecked writes stay inside the arena: what a loop reserved before
\* its first frame is enough for every outcome of every frame.
WithinCapacity == len <= cap

\* The offset table cuts the arena into consecutive pieces without gaps,
\* whatever was written and truncated on the way; what a loop has written of
\* an output it may still give up lies behind the last piece.
OffsetsTile ==
  LET n == Len(offsets)
      written == IF pc = "seal" THEN start ELSE len
  IN
  /\ n > 0 => offsets[1].start = 0
  /\ \A i \in 1..(n - 1) : offsets[i + 1].start = offsets[i].start + offsets[i].size
  /\ written = IF n = 0 THEN 0 ELSE offsets[n].start + offsets[n].size

\* Every output is counted as forwarded or as encrypted, once, and a route
\* miss is a forwarded output: a frame that could not be handled is sent
\* unchanged, not lost.
Accounted ==
  /\ stats.forwarded + stats.encrypted = Len(offsets)
  /\ stats.route_misses <= stats.forwarded

\* The batch leaves in the order it came, no frame skipped: every frame has
\* an output, and exactly one unless the full-spray loops copy it.
FramesInOrder ==
  /\ \A i \in 1..(Len(offsets) - 1) : offsets[i + 1].from - offsets[i].from \in {0, 1}
  /\ Len(offsets) > 0 => offsets[1].from = 1
  /\ path \notin {"full", "full_owned"} =>
       \A i \in 1..Len(offsets) : offsets[i].from = i
  /\ BatchDone => Len(offsets) > 0 /\ offsets[Len(offsets)].from = Len(frames)

\* An output is marked encrypted only if its frame carried the payload its
\* header claims and there is a session, and then it has room for header,
\* payload and tag: four loops, one rule.
EncryptedWhole ==
  \A i \in 1..Len(offsets) :
    LET f == frames[offsets[i].from] IN
    offsets[i].encrypted => /\ session /\ CarriesPayload(f) /\ f.claim <= SealLimit
                            /\ offsets[i].size >= HeaderSize + f.claim + TagSize
====
