------------------------------- MODULE Clock -------------------------------
(***************************************************************************)
(* SystemTime::now() as src/crypto/src/security_hardening.rs uses it: a    *)
(* wall clock counted from UNIX_EPOCH that runs forward and that an        *)
(* adjustment may set back.                                                *)
(***************************************************************************)
EXTENDS Integers

CONSTANT MaxTime  \* bound: the last instant of a behaviour

ASSUME ClockAssumption == MaxTime \in Nat \ {0}

VARIABLES
  now,     \* SystemTime::now(), counted from the epoch
  adjusted \* history: the clock has been set back

clockVars == <<now, adjusted>>

Epoch == 0

ClockTypeOK == now \in 1..MaxTime /\ adjusted \in BOOLEAN

ClockInit == now = 1 /\ adjusted = FALSE

Tick == now < MaxTime /\ now' = now + 1 /\ UNCHANGED adjusted

SetBack == now > 1 /\ now' = now - 1 /\ adjusted' = TRUE
====
