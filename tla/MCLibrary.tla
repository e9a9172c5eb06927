----------------------------- MODULE MCLibrary -----------------------------
(***************************************************************************)
(* The parts of the libraries that keep their own state and call nothing   *)
(* else, for TLC: a behaviour exercises one of them.  Bytes of a field are *)
(* numbered so that no two of a header are the same.                       *)
(***************************************************************************)
EXTENDS SpraySelect, Wire, Router, WorkerPlan, KexState, Throttle, DescRing, Bitwise, TLC

VARIABLE subject

sprayVars == <<call, result>>
libraryVars ==
  <<subject, clockVars, sprayVars, wireVars, routerVars, planVars, kexStateVars, throttleVars,
    ringVars>>

LibraryInit ==
  /\ subject \in {"spray", "wire", "router", "plan", "handshake", "throttle", "counter", "ring"}
  /\ Init /\ WireInit /\ RouterInit /\ PlanInit /\ ClockInit /\ KexStateInit /\ ThrottleInit
  /\ RingInit
  /\ subject = "wire" \/ DOMAIN buf = {}
  /\ subject = "ring" \/ prod = 0

LibraryNext ==
  /\ UNCHANGED subject
  /\ \/ /\ subject = "spray" /\ Next
        /\ UNCHANGED <<wireVars, routerVars, planVars, clockVars, kexStateVars, throttleVars,
                       ringVars>>
     \/ /\ subject = "wire" /\ WireNext
        /\ UNCHANGED <<sprayVars, routerVars, planVars, clockVars, kexStateVars, throttleVars,
                       ringVars>>
     \/ /\ subject = "router" /\ RouterNext
        /\ UNCHANGED <<sprayVars, wireVars, planVars, clockVars, kexStateVars, throttleVars,
                       ringVars>>
     \/ /\ subject = "plan" /\ PlanNext
        /\ UNCHANGED <<sprayVars, wireVars, routerVars, clockVars, kexStateVars, throttleVars,
                       ringVars>>
     \/ /\ subject = "handshake" /\ KexStateNext
        /\ UNCHANGED <<sprayVars, wireVars, routerVars, planVars, clockVars, throttleVars,
                       ringVars>>
     \/ /\ subject = "throttle" /\ ThrottleNext
        /\ UNCHANGED <<sprayVars, wireVars, routerVars, planVars, clockVars, kexStateVars,
                       ringVars>>
     \/ /\ subject = "counter" /\ IncrementGlobalSeq
        /\ UNCHANGED <<sprayVars, wireVars, routerVars, planVars, clockVars, kexStateVars,
                       ringVars>>
     \/ /\ subject = "ring" /\ RingNext
        /\ UNCHANGED <<sprayVars, wireVars, routerVars, planVars, clockVars, kexStateVars,
                       throttleVars>>
     \/ /\ subject \in {"handshake", "throttle"} /\ (Tick \/ SetBack)
        /\ UNCHANGED <<sprayVars, wireVars, routerVars, planVars, kexStateVars, throttleVars,
                       ringVars>>

LibrarySpec == LibraryInit /\ [][LibraryNext]_libraryVars

----------------------------------------------------------------------------
MCValues(f) ==
  {ZeroValue(f), [i \in 1..Width(f) |-> Offset(f) + i]}

MCIds == {<<0, 0, 0, 0>>, <<1, 2, 0, 3>>, <<2, 0, 0, 1>>, <<0, 1, 2, 0>>}

MCXor(x, y) == x ^^ y
MCAnd(x, y) == x & y

MCChunks == {<<0, 0>>, <<1, 2>>, <<3, 3>>, <<2, 3>>, <<3, 1>>}
MCAvailable == <<0, 1, 2>>

\* The mask of a ring is a bitwise and.
MCSlotIndex == [i \in 0..(IndexSpace - 1) |-> i & (Capacity - 1)]

MCSymmetry == Permutations(Threads)

\* The variables of the subject.  Once the clock has been set back nothing
\* looks at the history of the throttle any more.
MCView ==
  <<subject, CASE subject = "spray" -> sprayVars
               [] subject = "wire" -> wireVars
               [] subject = "router" -> routerVars
               [] subject = "plan" -> planVars
               [] subject = "ring" -> ringVars
               [] subject = "handshake" -> <<clockVars, kexStateVars>>
               [] OTHER -> <<clockVars, last_packet_time, GLOBAL_SEQ_COUNTER, step, locals,
                             IF adjusted THEN <<>> ELSE allowed>>>>
====
