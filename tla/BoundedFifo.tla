---------------------------- MODULE BoundedFifo ----------------------------
(***************************************************************************)
(* What a descriptor ring promises: a bounded queue between one producer   *)
(* and one consumer.  A push appends a batch that fits; a pop removes a    *)
(* non-empty prefix and hands out exactly that prefix.                     *)
(***************************************************************************)
EXTENDS Naturals, Sequences

CONSTANTS Descs, Capacity

VARIABLES queue, taken

Init == queue = <<>> /\ taken = <<>>

Push ==
  /\ queue' \in Seq(Descs)
  /\ Len(queue) < Len(queue') /\ Len(queue') <= Capacity
  /\ SubSeq(queue', 1, Len(queue)) = queue
  /\ UNCHANGED taken

Pop ==
  \E n \in 1..Len(queue) :
    /\ taken' = SubSeq(queue, 1, n)
    /\ queue' = SubSeq(queue, n + 1, Len(queue))

Spec == Init /\ [][Push \/ Pop]_<<queue, taken>>
====
