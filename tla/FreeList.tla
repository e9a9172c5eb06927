------------------------------ MODULE FreeList ------------------------------
(***************************************************************************)
(* The bounded circular free list of UMEM frames (FreeList in              *)
(* src/afxdp/src/socket.rs).  It has one user at a time: the socket's      *)
(* methods take &mut self and the management calls its mutex, so push and  *)
(* pop are operators on the list's value.                                  *)
(***************************************************************************)
EXTENDS Integers, Sequences

CONSTANTS
  NumFrames,    \* frames of the UMEM
  FreeCap,      \* buf.len(), a power of two
  InitHeadroom, \* MOHAWK_FREELIST_HEADROOM, or max(8, frames / 8)
  UsizeSpace    \* 2^64

\* with_capacity rounds frames + headroom up to a power of two.
ASSUME FreeListAssumption ==
  /\ NumFrames \in Nat \ {0} /\ InitHeadroom \in Nat /\ FreeCap \in Nat
  /\ FreeCap >= NumFrames + InitHeadroom
  /\ UsizeSpace \in Nat /\ FreeCap < UsizeSpace /\ UsizeSpace % FreeCap = 0

Frames == 0..(NumFrames - 1)

FreeLists ==
  [buf : [0..(FreeCap - 1) -> Frames], head : 0..(UsizeSpace - 1),
   tail : 0..(UsizeSpace - 1), headroom : 0..(UsizeSpace - 1)]

Used(fl) == (fl.tail - fl.head) % UsizeSpace

\* cap.wrapping_sub(hr): the slots a push may fill.  A headroom above the
\* capacity wraps and leaves more of them than there are.
Usable(fl) == (FreeCap - fl.headroom) % UsizeSpace

FullOffByOne(fl) == Used(fl) + 1 >= Usable(fl)

\* try_push refuses instead of blocking.
Full(fl) == Used(fl) >= Usable(fl)

PushInto(fl, v) ==
  [fl EXCEPT !.buf[fl.tail % FreeCap] = v, !.tail = (fl.tail + 1) % UsizeSpace]

\* A refused frame is in no list any more.
TryPush(fl, v) == IF Full(fl) THEN fl ELSE PushInto(fl, v)

IsEmpty(fl) == fl.head = fl.tail
Front(fl) == fl.buf[fl.head % FreeCap]

PopFront(fl) == [fl EXCEPT !.head = (fl.head + 1) % UsizeSpace]

SetHeadroom(fl, hr) == [fl EXCEPT !.headroom = hr]

\* with_capacity followed by the pre-fill of RealSocket::new: every frame
\* finds room, since FreeCap - InitHeadroom is at least NumFrames.
FullList ==
  [buf |-> [i \in 0..(FreeCap - 1) |-> IF i < NumFrames THEN i ELSE 0],
   head |-> 0, tail |-> NumFrames % UsizeSpace, headroom |-> InitHeadroom]

\* The frames on the list, next to be allocated first.
Listed(fl) == [i \in 1..Used(fl) |-> fl.buf[(fl.head + i - 1) % FreeCap]]
====
