-------------------------------- MODULE Kex --------------------------------
(***************************************************************************)
(* The hybrid key exchange of src/crypto/src/kex.rs.  A HybridKEX object   *)
(* holds one ephemeral x25519 key and one ML-KEM key pair; respond and     *)
(* finish consume the former.  Messages travel over a network that may     *)
(* lose, duplicate, reorder, misdeliver and truncate them, and an object   *)
(* may be used in either role.                                             *)
(*                                                                         *)
(* Cryptography is symbolic: a Diffie-Hellman secret is the set of its two *)
(* keys, an ML-KEM ciphertext names the key it was made for and its maker, *)
(* decapsulation under another key gives a value nobody else has, and the  *)
(* HKDF combiner is the tuple of what goes into it.                        *)
(***************************************************************************)
EXTENDS Integers, FiniteSets

CONSTANTS
  Peers,  \* HybridKEX objects
  None

VARIABLES
  x25519_priv, \* objects that still hold their ephemeral key
  secret,      \* the session secret an object has derived
  heard,       \* history: the message it was derived from
  broken,      \* history: objects whose encapsulation failed
  net          \* every message ever sent

vars == <<x25519_priv, secret, heard, broken, net>>

\* public_key and the message of respond, by the objects whose bytes they hold.
Ciphertexts == [for : Peers, by : Peers]
InitiatorPub == [kind : {"pub"}, from : Peers]
ResponderMsg == [kind : {"msg"}, from : Peers, ct : Ciphertexts]
Messages == InitiatorPub \cup ResponderMsg

\* What derive_session_secret gives.
Secrets == [dh : SUBSET Peers, kem : [kem : Ciphertexts, under : Peers],
            transcript : Peers \X Peers \X Ciphertexts]

\* An Option that is None is neither a message nor a secret.
ASSUME KexAssumption == None \notin Messages /\ None \notin Secrets

DiffieHellman(p, q) == {p, q}

\* The ML-KEM secret of a ciphertext under a key.  Under any other key than
\* the one it was made for it is not an error but an unrelated value.
Encapsulated(ct) == [kem |-> ct, under |-> ct.for]
Decapsulate(p, ct) == [kem |-> ct, under |-> p]

\* build_transcript: the initiator's x25519 and ML-KEM keys are one object's.
Transcript(initiator, responder, ct) == <<initiator, responder, ct>>

ClassicalSecret(dh, kem, transcript) == dh

\* derive_session_secret
SessionSecret(dh, kem, transcript) == [dh |-> dh, kem |-> kem, transcript |-> transcript]

TypeOK ==
  /\ x25519_priv \subseteq Peers /\ broken \subseteq Peers /\ net \subseteq Messages
  /\ secret \in [Peers -> Secrets \cup {None}] /\ heard \in [Peers -> Messages \cup {None}]
  /\ \A p \in Peers : secret[p] = None <=> heard[p] = None

Init ==
  /\ x25519_priv = Peers
  /\ secret = [p \in Peers |-> None] /\ heard = [p \in Peers |-> None]
  /\ broken = {} /\ net = {}

----------------------------------------------------------------------------
\* public_key is available at any time, after the key is spent as well.
PublicKey(p) ==
  /\ net' = net \cup {[kind |-> "pub", from |-> p]}
  /\ UNCHANGED <<x25519_priv, secret, heard, broken>>

Derive(p, m, s) ==
  /\ secret' = [secret EXCEPT ![p] = s]
  /\ heard' = [heard EXCEPT ![p] = m]

\* respond: a spent key is an error that changes nothing.
Respond(p, m) ==
  /\ p \in x25519_priv
  /\ x25519_priv' = x25519_priv \ {p}
  /\ LET ct == [for |-> m.from, by |-> p] IN
       /\ Derive(p, m, SessionSecret(DiffieHellman(p, m.from), Encapsulated(ct),
                                     Transcript(m.from, p, ct)))
       /\ net' = net \cup {[kind |-> "msg", from |-> p, ct |-> ct]}
  /\ UNCHANGED broken

\* The key is taken before encapsulation, and is gone when that fails.
RespondFails(p, m) ==
  /\ p \in x25519_priv
  /\ x25519_priv' = x25519_priv \ {p}
  /\ broken' = broken \cup {p}
  /\ UNCHANGED <<secret, heard, net>>

\* finish does not check that the message answers its own public key.
Finish(p, m) ==
  /\ p \in x25519_priv
  /\ x25519_priv' = x25519_priv \ {p}
  /\ Derive(p, m, SessionSecret(DiffieHellman(p, m.from), Decapsulate(p, m.ct),
                                Transcript(p, m.from, m.ct)))
  /\ UNCHANGED <<broken, net>>

ShortTakesKey(p) ==
  /\ x25519_priv' = x25519_priv \ {p}
  /\ UNCHANGED <<secret, heard, broken, net>>

\* A truncated message is refused before the key is touched.
Short(p) == UNCHANGED vars

Next ==
  \E p \in Peers :
    \/ PublicKey(p)
    \/ \E m \in net : m.kind = "pub" /\ (Respond(p, m) \/ RespondFails(p, m))
    \/ \E m \in net : m.kind = "msg" /\ Finish(p, m)
    \/ net # {} /\ Short(p)

Spec == Init /\ [][Next]_vars

----------------------------------------------------------------------------
\* q answered p's public key and p finished with that answer.
Partners(p, q) ==
  /\ heard[q] = [kind |-> "pub", from |-> p]
  /\ heard[p] = [kind |-> "msg", from |-> q, ct |-> [for |-> p, by |-> q]]

\* Two objects hold the same secret exactly when one answered the other's
\* public key and the other finished with that answer: reordered, repeated
\* and misdelivered messages neither join strangers nor split partners.
SecretsMatch ==
  \A p, q \in Peers :
    p # q /\ secret[p] # None /\ secret[q] # None =>
      (secret[p] = secret[q] <=> Partners(p, q) \/ Partners(q, p))

\* A key is spent on a secret or on a failed encapsulation, never on a
\* message that was refused.
KeySpentOnSecret ==
  \A p \in Peers : p \in x25519_priv <=> secret[p] = None /\ p \notin broken
====
