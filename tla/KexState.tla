------------------------------ MODULE KexState ------------------------------
(***************************************************************************)
(* HybridKEXState of src/crypto/src/security_hardening.rs: the deadline,   *)
(* the retry budget and the sequence numbers of one handshake.  Its owner  *)
(* calls the methods one at a time, and sets the public fields             *)
(* handshake_done and seq_counter, in any order.  The window of sequence   *)
(* numbers is the code's array, kept sorted by shifting.                   *)
(***************************************************************************)
EXTENDS Clock, FiniteSets

CONSTANTS
  WindowCap,        \* MAX_REPLAY_WINDOW
  MaxSeq,           \* u64::MAX
  HandshakeTimeout, \* HANDSHAKE_TIMEOUT
  RetryLimit        \* 3

ASSUME KexStateAssumption ==
  /\ WindowCap \in Nat \ {0} /\ MaxSeq \in Nat \ {0}
  /\ HandshakeTimeout \in Nat \ {0} /\ RetryLimit \in Nat

VARIABLES
  kex_started, timeout, retry_count, handshake_done, seq_counter,
  seq_window,     \* the array
  seq_window_len,
  answer,         \* what the last increment_seq_counter returned
  in_time,        \* what the last check_timeout returned
  given,          \* history: numbers returned since seq_counter was last set
  dead            \* history: a check failed, or cleanup ran, before the end

deadlineVars == <<kex_started, timeout, handshake_done, in_time, dead>>
seqVars == <<seq_counter, seq_window, seq_window_len, answer, given>>
kexStateVars == <<deadlineVars, retry_count, seqVars>>

Indices == 0..(WindowCap - 1)
Seqs == 0..MaxSeq

KexStateTypeOK ==
  /\ {kex_started, timeout} \subseteq 0..(MaxTime + HandshakeTimeout)
  /\ retry_count \in 0..RetryLimit /\ handshake_done \in BOOLEAN
  /\ seq_counter \in Seqs /\ seq_window \in [Indices -> Seqs]
  /\ seq_window_len \in 0..WindowCap
  /\ answer \in [seq : Seqs, ok : BOOLEAN] /\ in_time \in BOOLEAN
  /\ given \subseteq Seqs /\ dead \in {"no", "failed", "cleaned"}

\* new
KexStateInit ==
  /\ kex_started = now /\ timeout = now + HandshakeTimeout
  /\ retry_count = 0 /\ handshake_done = FALSE /\ in_time = TRUE /\ dead = "no"
  /\ seq_counter = 0 /\ seq_window = [i \in Indices |-> 0] /\ seq_window_len = 0
  /\ answer = [seq |-> 0, ok |-> FALSE] /\ given = {}

----------------------------------------------------------------------------
CheckTimeoutMovedFirst ==
  /\ timeout' = IF handshake_done THEN timeout ELSE now + HandshakeTimeout
  /\ in_time' = (handshake_done \/ now <= timeout)
  /\ dead' = IF handshake_done \/ now <= timeout \/ dead # "no" THEN dead ELSE "failed"
  /\ UNCHANGED <<kex_started, handshake_done, retry_count, seqVars>>

\* check_timeout: every check that passes moves the deadline.
CheckTimeout ==
  /\ \/ /\ handshake_done
        /\ in_time' = TRUE /\ UNCHANGED <<timeout, dead>>
     \/ /\ ~handshake_done /\ now <= timeout
        /\ timeout' = now + HandshakeTimeout
        /\ in_time' = TRUE /\ UNCHANGED dead
     \/ /\ ~handshake_done /\ now > timeout
        /\ in_time' = FALSE
        /\ dead' = IF dead = "no" THEN "failed" ELSE dead
        /\ UNCHANGED timeout
  /\ UNCHANGED <<kex_started, handshake_done, retry_count, seqVars>>

\* The owner sets handshake_done.
HandshakeDone ==
  /\ handshake_done' = TRUE
  /\ dead' = "no"
  /\ UNCHANGED <<kex_started, timeout, in_time, retry_count, seqVars>>

Cleanup ==
  /\ kex_started' = Epoch /\ timeout' = Epoch
  /\ dead' = IF handshake_done THEN dead ELSE "cleaned"
  /\ UNCHANGED <<handshake_done, in_time, retry_count, seqVars>>

CheckRetries ==
  /\ retry_count' = IF retry_count >= RetryLimit THEN retry_count ELSE retry_count + 1
  /\ UNCHANGED <<deadlineVars, seqVars>>

ResetRetry == retry_count' = 0 /\ UNCHANGED <<deadlineVars, seqVars>>

----------------------------------------------------------------------------
\* slice::copy_within(from..to, dest)
CopyWithin(a, from, to, dest) ==
  [i \in DOMAIN a |-> IF i \in dest..(dest + to - from - 1) THEN a[from + i - dest] ELSE a[i]]

\* The sorted part of the array, and where slice::binary_search puts seq in it.
Recorded == {seq_window[i] : i \in 0..(seq_window_len - 1)}
SearchIndex(seq) == Cardinality({i \in 0..(seq_window_len - 1) : seq_window[i] < seq})

\* The fast path: seq is above everything recorded.
PushLargest(seq) ==
  IF seq_window_len >= WindowCap
  THEN /\ seq_window' = [CopyWithin(seq_window, 1, seq_window_len, 0)
                           EXCEPT ![seq_window_len - 1] = seq]
       /\ UNCHANGED seq_window_len
  ELSE /\ seq_window' = [seq_window EXCEPT ![seq_window_len] = seq]
       /\ seq_window_len' = seq_window_len + 1

InsertAtFoundIndex(seq) ==
  LET full == seq_window_len >= WindowCap
      a == IF full THEN CopyWithin(seq_window, 1, seq_window_len, 0) ELSE seq_window
      len == IF full THEN seq_window_len - 1 ELSE seq_window_len
      found == SearchIndex(seq)
      idx == IF found < len THEN found ELSE len
  IN  /\ seq_window' = [(IF idx < len THEN CopyWithin(a, idx, len, idx + 1) ELSE a) EXCEPT ![idx] = seq]
      /\ seq_window_len' = len + 1

\* The slow path: evict the smallest when full, shift, insert.
Insert(seq) ==
  LET full == seq_window_len >= WindowCap
      a == IF full THEN CopyWithin(seq_window, 1, seq_window_len, 0) ELSE seq_window
      len == IF full THEN seq_window_len - 1 ELSE seq_window_len
      found == SearchIndex(seq)
      idx == IF full /\ found > 0 THEN found - 1 ELSE found
  IN  /\ seq_window' = [(IF idx < len THEN CopyWithin(a, idx, len, idx + 1) ELSE a) EXCEPT ![idx] = seq]
      /\ seq_window_len' = len + 1

WrappingSucc(seq) == IF seq = MaxSeq THEN 0 ELSE seq + 1

\* saturating_add(1)
SaturatingSucc(seq) == IF seq = MaxSeq THEN MaxSeq ELSE seq + 1

\* increment_seq_counter
IncrementSeqCounter ==
  LET seq == SaturatingSucc(seq_counter)
      above == seq_window_len > 0 => seq > seq_window[seq_window_len - 1]
      accept == answer' = [seq |-> seq, ok |-> TRUE] /\ given' = given \cup {seq}
  IN  /\ seq_counter' = seq
      /\ \/ above /\ PushLargest(seq) /\ accept
         \/ ~above /\ seq \notin Recorded /\ Insert(seq) /\ accept
         \/ /\ ~above /\ seq \in Recorded
            /\ answer' = [seq |-> seq, ok |-> FALSE]
            /\ UNCHANGED <<seq_window, seq_window_len, given>>
      /\ UNCHANGED <<deadlineVars, retry_count>>

\* The owner sets seq_counter.
SetSeqCounter(seq) ==
  /\ seq_counter' = seq /\ given' = {}
  /\ UNCHANGED <<seq_window, seq_window_len, answer, deadlineVars, retry_count>>

KexStateNext ==
  \/ CheckTimeout \/ HandshakeDone \/ Cleanup \/ CheckRetries \/ ResetRetry
  \/ IncrementSeqCounter \/ \E seq \in Seqs : SetSeqCounter(seq)

\* One handshake and the clock it reads.
KexStateSpec ==
  /\ ClockInit /\ KexStateInit
  /\ [][\/ /\ KexStateNext
            /\ UNCHANGED clockVars
         \/ /\ Tick \/ SetBack
            /\ UNCHANGED kexStateVars]_<<clockVars, kexStateVars>>

----------------------------------------------------------------------------
Window == INSTANCE ReplayWindow WITH recorded <- Recorded

\* The shifted array answers as the set does: no number still recorded is
\* accepted again, none is lost or doubled by a shift, and the one evicted
\* when the array is full is the smallest.
ImplementsWindow == Window!Spec

\* Between two settings of the counter no number is returned twice, however
\* many have been evicted since: at u64::MAX the counter stays and every
\* further call is refused.
NeverReissued ==
  [][IncrementSeqCounter /\ answer'.ok => answer'.seq \notin given]_seqVars

\* A handshake that has missed its deadline, or was cleaned up, passes no
\* later check unless its owner declares it done; after a missed deadline a
\* clock set back may still revive it.
DeadStaysDead ==
  [][CheckTimeout /\ (dead = "cleaned" \/ (dead = "failed" /\ ~adjusted)) => ~in_time']_kexStateVars
====
