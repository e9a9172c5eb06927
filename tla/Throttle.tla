------------------------------ MODULE Throttle ------------------------------
(***************************************************************************)
(* DoSThrottle::allow_packet of src/crypto/src/security_hardening.rs,      *)
(* called by several threads.  A call reads the clock, loads the time of   *)
(* the last packet and stores its own as three separate steps; a thread    *)
(* may stall between any two of them for as long as it likes.              *)
(***************************************************************************)
EXTENDS Clock, FiniteSets

CONSTANTS
  Threads,
  RateLimitNs, \* rate_limit_ns
  SeqSpace     \* 2^64, the range of the global sequence counter

ASSUME ThrottleAssumption ==
  /\ IsFiniteSet(Threads) /\ Threads # {}
  /\ RateLimitNs \in Nat \ {0} /\ SeqSpace \in Nat \ {0}

VARIABLES
  last_packet_time, \* 0 until a packet has been allowed
  GLOBAL_SEQ_COUNTER,
  step,       \* where a thread is in allow_packet
  locals,       \* its local values now and last_seen
  allowed     \* history: packets allowed until the clock is set back, as the
              \* clock reading of the call and a number

throttleVars == <<last_packet_time, GLOBAL_SEQ_COUNTER, step, locals, allowed>>

Locals == [now : 0..MaxTime, last_seen : 0..MaxTime]

ThrottleTypeOK ==
  /\ last_packet_time \in 0..MaxTime /\ GLOBAL_SEQ_COUNTER \in 0..(SeqSpace - 1)
  /\ step \in [Threads -> {"idle", "load", "decide"}] /\ locals \in [Threads -> Locals]
  /\ IsFiniteSet(allowed) /\ \A p \in allowed : p \in (0..MaxTime) \X Nat

\* DoSThrottle::new
ThrottleInit ==
  /\ last_packet_time = 0 /\ GLOBAL_SEQ_COUNTER = 0
  /\ step = [t \in Threads |-> "idle"]
  /\ locals = [t \in Threads |-> [now |-> 0, last_seen |-> 0]]
  /\ allowed = {}

----------------------------------------------------------------------------
ReadClock(t) ==
  /\ step[t] = "idle"
  /\ step' = [step EXCEPT ![t] = "load"]
  /\ locals' = [locals EXCEPT ![t] = [now |-> now, last_seen |-> 0]]
  /\ UNCHANGED <<last_packet_time, GLOBAL_SEQ_COUNTER, allowed>>

LoadLast(t) ==
  /\ step[t] = "load"
  /\ step' = [step EXCEPT ![t] = "decide"]
  /\ locals' = [locals EXCEPT ![t].last_seen = last_packet_time]
  /\ UNCHANGED <<last_packet_time, GLOBAL_SEQ_COUNTER, allowed>>

\* A packet is due when none came before, or the last one is old enough; a
\* last one from the future gives a negative difference and is not.
Due(c) == c.last_seen = 0 \/ c.now - c.last_seen >= RateLimitNs

\* The locals are dead once the call returns.
Returned(t) ==
  /\ step' = [step EXCEPT ![t] = "idle"]
  /\ locals' = [locals EXCEPT ![t] = [now |-> 0, last_seen |-> 0]]

AllowedAt(u) == {p \in allowed : p[1] = u}

\* One more packet at u.
PassRecorded(u) ==
  allowed' = IF adjusted THEN allowed ELSE allowed \cup {<<u, Cardinality(AllowedAt(u)) + 1>>}

AllowStoringFirst(t) ==
  /\ step[t] = "decide" /\ Due(locals[t])
  /\ last_packet_time' = IF locals[t].last_seen = 0 THEN locals[t].now ELSE last_packet_time
  /\ PassRecorded(locals[t].now)
  /\ Returned(t)
  /\ UNCHANGED GLOBAL_SEQ_COUNTER

Allow(t) ==
  /\ step[t] = "decide" /\ Due(locals[t])
  /\ last_packet_time' = locals[t].now
  /\ PassRecorded(locals[t].now)
  /\ Returned(t)
  /\ UNCHANGED GLOBAL_SEQ_COUNTER

Refuse(t) ==
  /\ step[t] = "decide" /\ ~Due(locals[t])
  /\ Returned(t)
  /\ UNCHANGED <<last_packet_time, GLOBAL_SEQ_COUNTER, allowed>>

\* increment_global_seq: one atomic fetch_add.
IncrementGlobalSeq ==
  /\ GLOBAL_SEQ_COUNTER' = (GLOBAL_SEQ_COUNTER + 1) % SeqSpace
  /\ UNCHANGED <<last_packet_time, step, locals, allowed>>

AllowPacket(t) == ReadClock(t) \/ LoadLast(t) \/ Allow(t) \/ Refuse(t)

ThrottleNext == \E t \in Threads : AllowPacket(t)

\* One throttle and the clock.
ThrottleSpec ==
  /\ ClockInit /\ ThrottleInit
  /\ [][\/ (ThrottleNext \/ IncrementGlobalSeq) /\ UNCHANGED clockVars
        \/ (Tick \/ SetBack) /\ UNCHANGED throttleVars]_<<clockVars, throttleVars>>

----------------------------------------------------------------------------
\* The calls race: one that stalled between its load and its store is allowed
\* on a stale value and then stores a stale time, which lets others through.
\* However they interleave, n threads get at most n(n+1)/2 packets with clock
\* readings in one interval of rate_limit_ns, and a single thread gets one,
\* as long as the clock is not set back.
BurstBounded ==
  ~adjusted =>
    \A t \in 1..MaxTime :
      LET burst == {p \in allowed : p[1] >= t /\ p[1] < t + RateLimitNs}
          n == Cardinality(Threads)
      IN  Cardinality(burst) <= (n * (n + 1)) \div 2
====
