--------------------------- MODULE ReplayWindow ---------------------------
(***************************************************************************)
(* What the replay window of a handshake promises: it remembers the        *)
(* WindowCap largest of the numbers it has accepted, except that a new one *)
(* always enters; it refuses exactly the numbers it remembers.             *)
(***************************************************************************)
EXTENDS Integers, FiniteSets

CONSTANTS WindowCap, Seqs

VARIABLES
  recorded, \* the numbers remembered
  answer    \* the last number offered, and whether it was accepted

Least(S) == CHOOSE v \in S : \A w \in S : v <= w

Init == recorded = {} /\ answer = [seq |-> 0, ok |-> FALSE]

Accept(v) ==
  /\ v \notin recorded
  /\ recorded' = {v} \cup (IF Cardinality(recorded) < WindowCap
                           THEN recorded ELSE recorded \ {Least(recorded)})
  /\ answer' = [seq |-> v, ok |-> TRUE]

Refuse(v) ==
  /\ v \in recorded
  /\ answer' = [seq |-> v, ok |-> FALSE]
  /\ UNCHANGED recorded

Next == \E v \in Seqs : Accept(v) \/ Refuse(v)

Spec == Init /\ [][Next]_<<recorded, answer>>
====
