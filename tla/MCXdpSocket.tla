---------------------------- MODULE MCXdpSocket ----------------------------
(***************************************************************************)
(* Instance of XdpSocket for TLC.  The capacity of the free list is the    *)
(* code's: the next power of two of frames + headroom.                     *)
(***************************************************************************)
EXTENDS XdpSocket, TLC

MCFreeCap ==
  CHOOSE c \in {2^k : k \in 0..(NumFrames + InitHeadroom)} :
    /\ c >= NumFrames + InitHeadroom
    /\ \A k \in 0..(NumFrames + InitHeadroom) : 2^k >= NumFrames + InitHeadroom => c <= 2^k

CONSTANTS short, long
MCPackets == {short, long}
\* One packet shorter than a frame, one longer.
MCLengthOf == [x \in Packets |-> IF x = short THEN 1 ELSE 3]

\* What matters of frame f while it is to carry packet x.
Shown(f, x) == [i \in Copied(x) |-> mem[f][i]]
ShownQueue(s) == [i \in 1..Len(s) |-> Shown(s[i].frame, s[i].packet)]

\* The list behaves alike wherever its contents start in the buffer.  No step
\* reads a frame, so that only the bytes a property looks at count.  After a
\* double owner the properties no longer look at frames, and control never
\* does: of such states only the numbers of frames count.
MCView ==
  IF clean
  THEN <<Listed(fl), fl.headroom, next_frame, sender, kernel, roomy, ShownQueue(tx),
         ShownQueue(inflight), [i \in 1..Len(addrs) |-> IF pc \in {"alloc", "reserve", "publish"}
                                                      THEN Shown(addrs[i], batch[i]) ELSE {}]>>
  ELSE <<Used(fl), fl.headroom, pc, attempt, Len(batch), Len(comps), Len(addrs), room,
         Len(tx), Len(inflight), Len(comp)>>
====
