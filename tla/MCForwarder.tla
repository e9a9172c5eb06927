---------------------------- MODULE MCForwarder ----------------------------
(***************************************************************************)
(* Instance of Forwarder for TLC.  The frames are the cases the loops tell *)
(* apart: too short for a header; no payload; payload cut off; payload     *)
(* exact; bytes after the payload; a payload encryption rejects.           *)
(***************************************************************************)
EXTENDS Forwarder

MCFrameSet ==
  {[size |-> 1, claim |-> 0], [size |-> 3, claim |-> 0],
   [size |-> 3, claim |-> 2], [size |-> 3, claim |-> 1], [size |-> 5, claim |-> 1],
   [size |-> 4, claim |-> 2]}

MCNextPowerOfTwo(n) ==
  CHOOSE c \in {2^k : k \in 0..10} : c >= n /\ \A k \in 0..10 : 2^k >= n => c <= 2^k

\* Between batches only the configuration and the arena's capacity matter:
\* the next batch clears the rest.  A loop reads start only while it writes an
\* output.
MCView ==
  IF pc = "idle" THEN <<config, cap>>
  ELSE <<config, pc, path, todo, copies, IF pc = "seal" THEN start ELSE 0, work, arena, frames>>
====
