----------------------------- MODULE XdpSocket -----------------------------
(***************************************************************************)
(* RealSocket::send (src/afxdp/src/socket.rs) against the kernel.  A send  *)
(* reclaims completed frames, copies what fits of each packet into a frame *)
(* taken from the free list, or from a bump counter when the list is       *)
(* empty, and pushes the frames on the TX ring.  When not all of them fit  *)
(* it hands every frame back to the free list and tries again, at most     *)
(* MaxRetries times.  The kernel takes descriptors from the TX ring,       *)
(* reads the frames while it transmits and posts them on the completion    *)
(* ring.  The rings are queues here: DescRing shows that they are.         *)
(*                                                                         *)
(* The counters of the metrics endpoint are left out.  The receive side    *)
(* is left out too: nothing ever calls fill_push, so the kernel has no     *)
(* frame to receive into and rx_pop returns nothing.                       *)
(***************************************************************************)
EXTENDS FreeList, FiniteSets

CONSTANTS
  Packets,      \* payloads
  LengthOf,     \* the length of each
  FrameSize,    \* length of a UMEM frame
  NoPacket,     \* content never written
  MaxBatch,     \* longest batch of one send
  TxCap,        \* capacity of the TX ring
  CompCap,      \* capacity of the completion ring
  MaxReclaim,   \* completions popped per attempt (64)
  MaxRetries,   \* retries after the first attempt (8)
  Headrooms     \* values given to set_headroom

ASSUME SocketAssumption ==
  /\ NoPacket \notin Packets /\ LengthOf \in [Packets -> Nat] /\ FrameSize \in Nat
  /\ MaxBatch \in Nat \ {0} /\ TxCap \in Nat \ {0} /\ CompCap \in Nat \ {0}
  /\ MaxReclaim \in Nat \ {0} /\ MaxRetries \in Nat
  /\ Headrooms \subseteq 0..(UsizeSpace - 1)

VARIABLES
  fl,         \* the free list
  next_frame, \* the bump allocator, modulo NumFrames
  mem,        \* the UMEM: of which packet each byte of each frame is
  pc,         \* the sender's step
  attempt,
  batch,      \* the packets of this send
  comps,      \* completions popped and not yet given back
  addrs,      \* frames allocated for the batch
  room,       \* descriptors tx_push decided to write
  tx,         \* TX ring: frame and the packet queued with it
  inflight,   \* taken by the kernel, being transmitted
  comp,       \* completion ring
  clean,      \* no bump allocation and no partial push so far
  roomy       \* the headroom always left a slot for every frame

kernel == <<tx, inflight, comp>>
sender == <<pc, attempt, batch, comps, addrs, room>>
vars == <<fl, next_frame, mem, sender, kernel, clean, roomy>>

Queued == [frame : Frames, packet : Packets]

TypeOK ==
  /\ fl \in FreeLists /\ next_frame \in Frames
  /\ mem \in [Frames -> [1..FrameSize -> Packets \cup {NoPacket}]]
  /\ pc \in {"idle", "reclaim", "giveback", "alloc", "reserve", "publish",
             "return", "wait"}
  /\ attempt \in 0..MaxRetries
  /\ batch \in Seq(Packets) /\ comps \in Seq(Frames) /\ addrs \in Seq(Frames)
  /\ room \in 0..TxCap
  /\ tx \in Seq(Queued) /\ Len(tx) <= TxCap
  /\ inflight \in Seq(Queued) /\ comp \in Seq(Frames)
  /\ Len(inflight) + Len(comp) <= CompCap
  /\ clean \in BOOLEAN /\ roomy \in BOOLEAN

Init ==
  /\ fl = FullList /\ next_frame = 0
  /\ mem = [f \in Frames |-> [i \in 1..FrameSize |-> NoPacket]]
  /\ pc = "idle" /\ attempt = 0 /\ batch = <<>>
  /\ comps = <<>> /\ addrs = <<>> /\ room = 0
  /\ tx = <<>> /\ inflight = <<>> /\ comp = <<>>
  /\ clean = TRUE /\ roomy = TRUE

Smaller(a, b) == IF a < b THEN a ELSE b

----------------------------------------------------------------------------
\* The sender, holding the socket.

Send(packets) ==
  /\ pc = "idle"
  /\ batch' = packets /\ pc' = "reclaim"
  /\ UNCHANGED <<fl, next_frame, mem, attempt, comps, addrs, room, kernel, clean, roomy>>

PeekCompletions ==
  /\ pc = "reclaim"
  /\ comps' = SubSeq(comp, 1, Smaller(MaxReclaim, Len(comp)))
  /\ pc' = "giveback"
  /\ UNCHANGED <<fl, next_frame, mem, attempt, batch, addrs, room, kernel, clean, roomy>>

\* comp_pop(64)
PopCompletions ==
  /\ pc = "reclaim"
  /\ LET n == Smaller(MaxReclaim, Len(comp)) IN
       /\ comps' = SubSeq(comp, 1, n)
       /\ comp' = SubSeq(comp, n + 1, Len(comp))
  /\ pc' = "giveback"
  /\ UNCHANGED <<fl, next_frame, mem, attempt, batch, addrs, room, tx, inflight, clean, roomy>>

\* One iteration of the loop that refills the free list.
GiveBack ==
  /\ pc = "giveback" /\ comps # <<>>
  /\ fl' = TryPush(fl, Head(comps))
  /\ comps' = Tail(comps)
  /\ UNCHANGED <<next_frame, mem, pc, attempt, batch, addrs, room, kernel, clean, roomy>>

DrainAll ==
  /\ pc = "giveback" /\ comps = <<>>
  /\ pc' = IF comp = <<>> THEN "alloc" ELSE "reclaim"
  /\ UNCHANGED <<fl, next_frame, mem, attempt, batch, comps, addrs, room, kernel, clean, roomy>>

GiveBackDone ==
  /\ pc = "giveback" /\ comps = <<>>
  /\ pc' = "alloc"
  /\ UNCHANGED <<fl, next_frame, mem, attempt, batch, comps, addrs, room, kernel, clean, roomy>>

CopyUnclipped(f) ==
  /\ LET p == batch[Len(addrs) + 1] IN
       mem' = [g \in Frames |-> [i \in 1..FrameSize |->
                IF i <= LengthOf[p] - FrameSize * (g - f) /\ g \in {f, f + 1} THEN p ELSE mem[g][i]]]
  /\ addrs' = Append(addrs, f)

\* The bytes of p that a frame takes.  The rest is dropped without an error.
Copied(p) == 1..Smaller(LengthOf[p], FrameSize)

\* Copy the next packet of the batch into frame f, over what was there.
CopyInto(f) ==
  /\ LET p == batch[Len(addrs) + 1] IN
       mem' = [mem EXCEPT ![f] = [i \in 1..FrameSize |-> IF i \in Copied(p) THEN p ELSE mem[f][i]]]
  /\ addrs' = Append(addrs, f)

AllocFromList ==
  /\ pc = "alloc" /\ Len(addrs) < Len(batch)
  /\ ~IsEmpty(fl)
  /\ fl' = PopFront(fl) /\ CopyInto(Front(fl))
  /\ UNCHANGED <<next_frame, pc, attempt, batch, comps, room, kernel, clean, roomy>>

\* The bump allocator hands out frames whoever owns them.
AllocFallback ==
  /\ pc = "alloc" /\ Len(addrs) < Len(batch)
  /\ IsEmpty(fl)
  /\ next_frame' = (next_frame + 1) % NumFrames
  /\ CopyInto(next_frame)
  /\ clean' = FALSE
  /\ UNCHANGED <<fl, pc, attempt, batch, comps, room, kernel, roomy>>

AllocDone ==
  /\ pc = "alloc" /\ Len(addrs) = Len(batch)
  /\ pc' = "reserve"
  /\ UNCHANGED <<fl, next_frame, mem, attempt, batch, comps, addrs, room, kernel, clean, roomy>>

ReserveWithoutRoom ==
  /\ pc = "reserve"
  /\ room' = Len(addrs) /\ pc' = "publish"
  /\ UNCHANGED <<fl, next_frame, mem, attempt, batch, comps, addrs, kernel, clean, roomy>>

\* tx_push reads the indices ...
TxReserve ==
  /\ pc = "reserve"
  /\ room' = Smaller(TxCap - Len(tx), Len(addrs))
  /\ pc' = "publish"
  /\ UNCHANGED <<fl, next_frame, mem, attempt, batch, comps, addrs, kernel, clean, roomy>>

Publish == tx' = tx \o [i \in 1..room |-> [frame |-> addrs[i], packet |-> batch[i]]]

\* ... and publishes what it decided then.  All fitted: send returns Ok.
TxPublishAll ==
  /\ pc = "publish" /\ room = Len(addrs)
  /\ Publish
  /\ pc' = "idle" /\ attempt' = 0 /\ batch' = <<>> /\ addrs' = <<>> /\ room' = 0
  /\ UNCHANGED <<fl, next_frame, mem, comps, inflight, comp, clean, roomy>>

\* Backpressure.  Every frame of the batch will go back to the free list,
\* the published ones too.
TxPublishSome ==
  /\ pc = "publish" /\ room < Len(addrs)
  /\ Publish
  /\ clean' = (clean /\ room = 0)
  /\ pc' = "return" /\ room' = 0
  /\ UNCHANGED <<fl, next_frame, mem, attempt, batch, comps, addrs, inflight, comp, roomy>>

ReturnFrame ==
  /\ pc = "return" /\ addrs # <<>>
  /\ fl' = TryPush(fl, Head(addrs))
  /\ addrs' = Tail(addrs)
  /\ UNCHANGED <<next_frame, mem, pc, attempt, batch, comps, room, kernel, clean, roomy>>

\* All returned: give up with Err after the last attempt, else wait.
ReturnDone ==
  /\ pc = "return" /\ addrs = <<>>
  /\ IF attempt = MaxRetries
     THEN pc' = "idle" /\ attempt' = 0 /\ batch' = <<>>
     ELSE pc' = "wait" /\ UNCHANGED <<attempt, batch>>
  /\ UNCHANGED <<fl, next_frame, mem, comps, addrs, room, kernel, clean, roomy>>

WaitUncounted ==
  /\ pc = "wait"
  /\ pc' = "reclaim"
  /\ UNCHANGED <<fl, next_frame, mem, attempt, batch, comps, addrs, room, kernel, clean, roomy>>

\* epoll_wait or poll with a timeout, or a sleep: it always ends.
WaitEnds ==
  /\ pc = "wait"
  /\ pc' = "reclaim" /\ attempt' = attempt + 1
  /\ UNCHANGED <<fl, next_frame, mem, batch, comps, addrs, room, kernel, clean, roomy>>

\* set_freelist_headroom_all and _for lock the socket: not during a send.
Reconfigure(hr) ==
  /\ pc = "idle"
  /\ fl' = SetHeadroom(fl, hr)
  /\ roomy' = (roomy /\ Usable(fl') >= NumFrames)
  /\ UNCHANGED <<next_frame, mem, sender, kernel, clean>>

----------------------------------------------------------------------------
\* The kernel.

\* It reserves a completion slot before it takes a descriptor.
KernelTake ==
  /\ tx # <<>> /\ Len(inflight) + Len(comp) < CompCap
  /\ tx' = Tail(tx) /\ inflight' = Append(inflight, Head(tx))
  /\ UNCHANGED <<fl, next_frame, mem, sender, comp, clean, roomy>>

\* Transmissions may complete in any order.
KernelComplete(i) ==
  /\ comp' = Append(comp, inflight[i].frame)
  /\ inflight' = SubSeq(inflight, 1, i - 1) \o SubSeq(inflight, i + 1, Len(inflight))
  /\ UNCHANGED <<fl, next_frame, mem, sender, tx, clean, roomy>>

----------------------------------------------------------------------------
Batches == UNION {[1..n -> Packets] : n \in 1..MaxBatch}

SendStep ==
  \/ PopCompletions \/ GiveBack \/ GiveBackDone
  \/ AllocFromList \/ AllocFallback \/ AllocDone
  \/ TxReserve \/ TxPublishAll \/ TxPublishSome
  \/ ReturnFrame \/ ReturnDone \/ WaitEnds

Next ==
  \/ \E packets \in Batches : Send(packets)
  \/ SendStep
  \/ \E hr \in Headrooms : Reconfigure(hr)
  \/ KernelTake
  \/ \E i \in 1..Len(inflight) : KernelComplete(i)

Spec == Init /\ [][Next]_vars

\* A send is straight-line code with bounded waits: the thread that runs it
\* is eventually scheduled.  Nothing is assumed of the kernel.
FairSpec == Spec /\ WF_vars(SendStep)

----------------------------------------------------------------------------
FramesOf(q) == [i \in 1..Len(q) |-> q[i].frame]

\* Every place a frame can be.
Held == Listed(fl) \o comps \o addrs \o FramesOf(tx) \o FramesOf(inflight) \o comp

\* The frames in the kernel's hands.
Busy == {tx[i].frame : i \in 1..Len(tx)} \cup {inflight[i].frame : i \in 1..Len(inflight)}

\* While no batch was pushed in part and no frame came from the bump
\* allocator, a frame is in at most one place: allocation, stale reads of
\* the TX ring, failed attempts and completions in any order never give a
\* frame two owners.
OwnedOnce == clean => \A i, j \in 1..Len(Held) : i # j => Held[i] # Held[j]

\* Under the same condition, and as long as the headroom leaves a slot for
\* every frame, no frame leaks: try_push never refuses one that comes back.
NoLeak == clean /\ roomy => \A f \in Frames : \E i \in 1..Len(Held) : Held[i] = f

\* A frame holds what was copied of p.  tx_push passes an address and no
\* length: what follows in the frame is whatever was there before.
Holds(contents, p) == \A i \in Copied(p) : contents[i] = p

\* Under the same condition the kernel finds in a frame what send copied into
\* it for the packet queued there: neither another packet of a batch nor
\* another send writes to the frame before it completes.
PayloadIntact ==
  clean => /\ \A i \in 1..Len(tx) : Holds(mem[tx[i].frame], tx[i].packet)
           /\ \A i \in 1..Len(inflight) : Holds(mem[inflight[i].frame], inflight[i].packet)

\* Comment at set_headroom: a headroom "can only reduce the effective usable
\* slots; it does not grow the underlying buffer".  So the list never holds
\* more frames than its buffer has slots.
FreeListBounded == Used(fl) <= FreeCap

\* A frame on the free list is free: the frames of a batch pushed in part
\* are not.
FreeFramesIdle == \A i \in 1..Used(fl) : Listed(fl)[i] \notin Busy

\* Every send returns, whatever the kernel does: the retries are bounded
\* and no step of a send waits for a completion.
SendReturns == pc # "idle" ~> pc = "idle"

\* The most steps one attempt takes, and what a send has left of its own.
AttemptSteps == MaxReclaim + 2 * Len(batch) + 7
StepsLeft ==
  (MaxRetries - attempt) * AttemptSteps +
    CASE pc = "reclaim"  -> AttemptSteps
      [] pc = "giveback" -> Len(comps) + 2 * Len(batch) + 6
      [] pc = "alloc"    -> 2 * Len(batch) - Len(addrs) + 5
      [] pc = "reserve"  -> Len(addrs) + 4
      [] pc = "publish"  -> Len(addrs) + 3
      [] pc = "return"   -> Len(addrs) + 2
      [] pc = "wait"     -> 1

\* Whatever the kernel does meanwhile, a step of a send leaves it fewer
\* steps and never negatively many, so that a send of n packets takes at
\* most (MaxRetries + 1) * (MaxReclaim + 2 * n + 7) of its own.
SendBounded ==
  [][pc # "idle" /\ sender' # sender =>
       pc' = "idle" \/ (0 < StepsLeft' /\ StepsLeft' < StepsLeft)]_vars
====
