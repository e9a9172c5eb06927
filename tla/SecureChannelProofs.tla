------------------------- MODULE SecureChannelProofs -------------------------
(***************************************************************************)
(* What the key exchange and the sessions guarantee for any number of      *)
(* objects and processes, any infos, any hash of the HKDF cache and any    *)
(* payload sizes: which objects share a secret, what a session holds, and  *)
(* who opens whose packets.                                                *)
(***************************************************************************)
EXTENDS SecureChannel, TLAPS

----------------------------------------------------------------------------
\* The inductive invariants.

\* A responder's message answers the public key that its sender heard, so an
\* object, whose key is spent by then, has sent at most one.
AnswersHeard ==
  \A m \in net : m.kind = "msg" =>
    /\ m.ct.by = m.from
    /\ heard[m.from] = [kind |-> "pub", from |-> m.ct.for]

\* What p derives from the message m: by respond from a public key, by finish
\* from an answer.
SecretFrom(p, m) ==
  IF m.kind = "pub"
  THEN LET ct == [for |-> m.from, by |-> p] IN
       SessionSecret(DiffieHellman(p, m.from), Encapsulated(ct), Transcript(m.from, p, ct))
  ELSE SessionSecret(DiffieHellman(p, m.from), Decapsulate(p, m.ct),
                     Transcript(p, m.from, m.ct))

\* A secret is what its owner derived from a message that its sender may send.
SecretsDerived ==
  \A p \in Peers : secret[p] # None =>
    /\ secret[p] = SecretFrom(p, heard[p])
    /\ heard[p].kind = "msg" => heard[p].ct.by = heard[p].from

KexInv == TypeOK /\ KeySpentOnSecret /\ AnswersHeard /\ SecretsDerived

\* The cache holds, under each key, the material of an input that was inserted
\* and has that key.
CacheHolds ==
  \A pr \in Processes : \A k \in DOMAIN HKDF_CACHE[pr] :
    \E in \in inserted[pr] :
      /\ CacheKey(in.secret, in.info) = k
      /\ HKDF_CACHE[pr][k] = Material(in.secret, in.info)

\* The functions of the sessions have the users and the processes as domains.
SessionDomains ==
  /\ DOMAIN HKDF_CACHE = Processes /\ DOMAIN inserted = Processes
  /\ DOMAIN call = Users /\ DOMAIN session = Users /\ DOMAIN inputs = Users

SessionInv == SessionDomains /\ CacheHolds /\ SessionsOwn

\* A user between lookup and insert has no session yet.
OneCall == \A u \in Users : call[u] # NoCall => session[u] = Absent

\* Everything a user makes, it makes from the one secret it has derived.
FromOwnSecret ==
  \A u \in Users :
    /\ call[u] # NoCall => secret[u] # None /\ call[u].in.secret = secret[u]
    /\ session[u] # Absent => secret[u] # None /\ inputs[u].secret = secret[u]

\* A packet was sealed by the session its sender has.
PacketsSealed ==
  \A packet \in packets :
    /\ packet.by \in Users /\ packet.size \in Nat
    /\ session[packet.by] # Absent
    /\ packet.key = session[packet.by]
    /\ packet.nonce = Nonce(session[packet.by], packet.seq)

ChannelInv == KexInv /\ SessionInv /\ OneCall /\ FromOwnSecret /\ PacketsSealed

----------------------------------------------------------------------------
(* The key exchange. *)

\* A message is one or the other, by its kind.
LEMMA MessageKinds ==
  ASSUME NEW m \in Messages
  PROVE  /\ m # None
         /\ m.kind \in {"pub", "msg"} /\ m.from \in Peers
         /\ m.kind = "pub" => m = [kind |-> "pub", from |-> m.from]
         /\ m.kind = "msg" => /\ m = [kind |-> "msg", from |-> m.from, ct |-> m.ct]
                              /\ m.ct \in Ciphertexts
<1>1. m # None
  BY KexAssumption
<1>2. CASE m \in InitiatorPub
  BY <1>1, <1>2 DEF InitiatorPub
<1>3. CASE m \in ResponderMsg
  BY <1>1, <1>3 DEF ResponderMsg
<1> QED
  BY <1>2, <1>3 DEF Messages

\* derive_session_secret gives a secret, never nothing.
LEMMA SecretFromType ==
  ASSUME NEW p \in Peers, NEW m \in Messages
  PROVE  SecretFrom(p, m) \in Secrets /\ SecretFrom(p, m) # None
<1>1. CASE m.kind = "pub"
  <2> DEFINE ct == [for |-> m.from, by |-> p]
  <2>1. m.from \in Peers /\ ct \in Ciphertexts
    BY MessageKinds DEF Ciphertexts
  <2>2. {p, m.from} \in SUBSET Peers
    BY <2>1
  <2>3. [kem |-> ct, under |-> m.from] \in [kem : Ciphertexts, under : Peers]
    BY <2>1
  <2>4. <<m.from, p, ct>> \in Peers \X Peers \X Ciphertexts
    BY <2>1
  <2>5. SecretFrom(p, m) = [dh |-> {p, m.from}, kem |-> [kem |-> ct, under |-> m.from],
                            transcript |-> <<m.from, p, ct>>]
    BY <1>1 DEF SecretFrom, SessionSecret, DiffieHellman, Encapsulated, Transcript
  <2> QED
    BY <2>2, <2>3, <2>4, <2>5, KexAssumption DEF Secrets
<1>2. CASE m.kind = "msg"
  <2>1. m.from \in Peers /\ m.ct \in Ciphertexts
    BY <1>2, MessageKinds
  <2>2. {p, m.from} \in SUBSET Peers
    BY <2>1
  <2>3. [kem |-> m.ct, under |-> p] \in [kem : Ciphertexts, under : Peers]
    BY <2>1
  <2>4. <<p, m.from, m.ct>> \in Peers \X Peers \X Ciphertexts
    BY <2>1
  <2>5. SecretFrom(p, m) = [dh |-> {p, m.from}, kem |-> [kem |-> m.ct, under |-> p],
                            transcript |-> <<p, m.from, m.ct>>]
    BY <1>2 DEF SecretFrom, SessionSecret, DiffieHellman, Decapsulate, Transcript
  <2> QED
    BY <2>2, <2>3, <2>4, <2>5, KexAssumption DEF Secrets
<1> QED
  BY <1>1, <1>2, MessageKinds

LEMMA KexInvInit == Init => KexInv
  BY DEF Init, KexInv, TypeOK, KeySpentOnSecret, AnswersHeard, SecretsDerived

\* An object that has spent no key has neither derived nor answered anything,
\* so a derivation touches no message and no other object's secret.
LEMMA DeriveKeepsInv ==
  ASSUME KexInv, NEW p \in Peers, NEW m \in net,
         p \in x25519_priv, x25519_priv' = x25519_priv \ {p}, UNCHANGED broken,
         Derive(p, m, SecretFrom(p, m)),
         \/ UNCHANGED net
         \/ /\ m.kind = "pub"
            /\ net' = net \cup {[kind |-> "msg", from |-> p, ct |-> [for |-> m.from, by |-> p]]}
  PROVE  KexInv'
<1>1. TypeOK /\ KeySpentOnSecret /\ AnswersHeard /\ SecretsDerived
  BY DEF KexInv
<1>2. m \in Messages /\ m # None /\ m.from \in Peers
  BY <1>1, MessageKinds DEF TypeOK
<1>3. SecretFrom(p, m) \in Secrets /\ SecretFrom(p, m) # None
  BY <1>2, SecretFromType
<1>4. secret[p] = None /\ heard[p] = None
  BY <1>1 DEF KeySpentOnSecret, TypeOK
<1>5. /\ \A q \in Peers : secret'[q] = IF q = p THEN SecretFrom(p, m) ELSE secret[q]
      /\ \A q \in Peers : heard'[q] = IF q = p THEN m ELSE heard[q]
  BY <1>1 DEF Derive, TypeOK
<1>6. net' \subseteq Messages
  <2> SUFFICES [kind |-> "msg", from |-> p, ct |-> [for |-> m.from, by |-> p]] \in Messages
    BY <1>1 DEF TypeOK
  <2>1. [for |-> m.from, by |-> p] \in Ciphertexts
    BY <1>2 DEF Ciphertexts
  <2> QED
    BY <2>1 DEF Messages, ResponderMsg
<1>7. TypeOK'
  <2>1. secret' \in [Peers -> Secrets \cup {None}]
    BY <1>1, <1>3 DEF Derive, TypeOK
  <2>2. heard' \in [Peers -> Messages \cup {None}]
    BY <1>1, <1>2 DEF Derive, TypeOK
  <2>3. \A q \in Peers : secret'[q] = None <=> heard'[q] = None
    BY <1>1, <1>2, <1>3, <1>5 DEF TypeOK
  <2> QED
    BY <1>1, <1>6, <2>1, <2>2, <2>3 DEF TypeOK
<1>8. KeySpentOnSecret'
  BY <1>1, <1>3, <1>5 DEF KeySpentOnSecret
<1>9. AnswersHeard'
  <2> SUFFICES ASSUME NEW n \in net', n.kind = "msg"
               PROVE  n.ct.by = n.from /\ heard'[n.from] = [kind |-> "pub", from |-> n.ct.for]
    BY DEF AnswersHeard
  <2>1. CASE n \in net
    <3>1. n.from \in Peers
      BY <1>1, <2>1, MessageKinds DEF TypeOK
    <3>2. n.ct.by = n.from /\ heard[n.from] = [kind |-> "pub", from |-> n.ct.for]
      BY <1>1, <2>1 DEF AnswersHeard
    <3>3. n.ct \in Ciphertexts
      BY <1>1, <2>1, MessageKinds DEF TypeOK
    <3>4. heard[n.from] \in Messages
      BY <3>2, <3>3 DEF Messages, InitiatorPub, Ciphertexts
    <3>5. n.from # p
      BY <1>4, <3>4, MessageKinds
    <3> QED
      BY <1>5, <3>1, <3>2, <3>5
  <2>2. CASE n \notin net
    <3>1. m.kind = "pub" /\ n = [kind |-> "msg", from |-> p, ct |-> [for |-> m.from, by |-> p]]
      BY <2>2
    <3>2. heard'[p] = [kind |-> "pub", from |-> m.from]
      BY <1>2, <1>5, <3>1, MessageKinds
    <3> QED
      BY <3>1, <3>2
  <2> QED
    BY <2>1, <2>2
<1>10. SecretsDerived'
  <2> SUFFICES ASSUME NEW q \in Peers, secret'[q] # None
               PROVE  /\ secret'[q] = SecretFrom(q, heard'[q])
                      /\ heard'[q].kind = "msg" => heard'[q].ct.by = heard'[q].from
    BY DEF SecretsDerived, SecretFrom, SessionSecret, DiffieHellman, Encapsulated,
           Decapsulate, Transcript
  <2>1. CASE q = p
    BY <1>1, <1>5, <2>1 DEF AnswersHeard
  <2>2. CASE q # p
    BY <1>1, <1>5, <2>2 DEF SecretsDerived
  <2> QED
    BY <2>1, <2>2
<1> QED
  BY <1>7, <1>8, <1>9, <1>10 DEF KexInv

\* No delivery, in whatever order, to whomever and however often, disturbs
\* the invariant.
LEMMA KexInvStep == KexInv /\ [Next]_vars => KexInv'
<1> SUFFICES ASSUME KexInv, [Next]_vars PROVE KexInv'
  OBVIOUS
<1>0. TypeOK /\ KeySpentOnSecret /\ AnswersHeard /\ SecretsDerived
  BY DEF KexInv
<1>1. ASSUME NEW p \in Peers, PublicKey(p) PROVE KexInv'
  <2>1. [kind |-> "pub", from |-> p] \in Messages
    BY DEF Messages, InitiatorPub
  <2>2. TypeOK'
    BY <1>0, <1>1, <2>1 DEF PublicKey, TypeOK
  <2>3. AnswersHeard'
    BY <1>0, <1>1 DEF PublicKey, AnswersHeard
  <2>4. KeySpentOnSecret' /\ SecretsDerived'
    BY <1>0, <1>1 DEF PublicKey, KeySpentOnSecret, SecretsDerived, SecretFrom, SessionSecret,
                      DiffieHellman, Encapsulated, Decapsulate, Transcript
  <2> QED
    BY <2>2, <2>3, <2>4 DEF KexInv
<1>2. ASSUME NEW p \in Peers, NEW m \in net, m.kind = "pub", Respond(p, m) PROVE KexInv'
  <2>1. Derive(p, m, SecretFrom(p, m))
    BY <1>2 DEF Respond, SecretFrom
  <2> QED
    BY <1>2, <2>1, DeriveKeepsInv DEF Respond
<1>3. ASSUME NEW p \in Peers, NEW m \in net, m.kind = "pub", RespondFails(p, m) PROVE KexInv'
  <2>1. TypeOK' /\ KeySpentOnSecret'
    BY <1>0, <1>3 DEF RespondFails, TypeOK, KeySpentOnSecret
  <2>2. AnswersHeard'
    BY <1>0, <1>3 DEF RespondFails, AnswersHeard
  <2>3. SecretsDerived'
    BY <1>0, <1>3 DEF RespondFails, SecretsDerived, SecretFrom, SessionSecret,
                      DiffieHellman, Encapsulated, Decapsulate, Transcript
  <2> QED
    BY <2>1, <2>2, <2>3 DEF KexInv
<1>4. ASSUME NEW p \in Peers, NEW m \in net, m.kind = "msg", Finish(p, m) PROVE KexInv'
  <2>1. Derive(p, m, SecretFrom(p, m))
    BY <1>4 DEF Finish, SecretFrom
  <2> QED
    BY <1>4, <2>1, DeriveKeepsInv DEF Finish
<1>5. CASE UNCHANGED vars
  BY <1>0, <1>5 DEF vars, KexInv, TypeOK, KeySpentOnSecret, AnswersHeard, SecretsDerived,
                    SecretFrom, SessionSecret, DiffieHellman, Encapsulated, Decapsulate, Transcript
<1> QED
  BY <1>1, <1>2, <1>3, <1>4, <1>5 DEF Next, Short

\* Two objects derive one secret only in different roles of one exchange, as
\* the transcript binds both keys and the ciphertext.
LEMMA KexInvSecretsMatch == KexInv => SecretsMatch
<1> SUFFICES ASSUME KexInv, NEW p \in Peers, NEW q \in Peers, p # q,
                    secret[p] # None, secret[q] # None
             PROVE  secret[p] = secret[q] <=> Partners(p, q) \/ Partners(q, p)
  BY DEF SecretsMatch
<1> DEFINE hp == heard[p]
           hq == heard[q]
<1>1. TypeOK /\ SecretsDerived
  BY DEF KexInv
<1>2. hp \in Messages /\ hq \in Messages
  BY <1>1 DEF TypeOK
<1>3. secret[p] = SecretFrom(p, hp) /\ secret[q] = SecretFrom(q, hq)
  BY <1>1 DEF SecretsDerived
<1>4. /\ hp.kind = "msg" => hp.ct.by = hp.from
      /\ hq.kind = "msg" => hq.ct.by = hq.from
  BY <1>1 DEF SecretsDerived
<1>5. ASSUME NEW a \in Peers, NEW b \in Peers, NEW ha \in Messages, NEW hb \in Messages, a # b,
             ha.kind = "msg", hb.kind = "pub", ha.ct.by = ha.from
      PROVE  SecretFrom(a, ha) = SecretFrom(b, hb)
               <=> /\ hb = [kind |-> "pub", from |-> a]
                   /\ ha = [kind |-> "msg", from |-> b, ct |-> [for |-> a, by |-> b]]
  <2> DEFINE ct == [for |-> hb.from, by |-> b]
  <2>1. /\ SecretFrom(a, ha) = [dh |-> {a, ha.from}, kem |-> [kem |-> ha.ct, under |-> a],
                                transcript |-> <<a, ha.from, ha.ct>>]
        /\ SecretFrom(b, hb) = [dh |-> {b, hb.from}, kem |-> [kem |-> ct, under |-> hb.from],
                                transcript |-> <<hb.from, b, ct>>]
    BY <1>5 DEF SecretFrom, SessionSecret, DiffieHellman, Encapsulated, Decapsulate, Transcript
  <2>2. /\ hb = [kind |-> "pub", from |-> hb.from]
        /\ ha = [kind |-> "msg", from |-> ha.from, ct |-> ha.ct]
    BY <1>5, MessageKinds
  <2>3. SecretFrom(a, ha) = SecretFrom(b, hb) => a = hb.from /\ ha.from = b /\ ha.ct = ct
    BY <2>1
  <2>4. a = hb.from /\ ha.from = b /\ ha.ct = ct => SecretFrom(a, ha) = SecretFrom(b, hb)
    BY <2>1
  <2>5. a = hb.from /\ ha.from = b /\ ha.ct = ct
          <=> /\ hb = [kind |-> "pub", from |-> a]
              /\ ha = [kind |-> "msg", from |-> b, ct |-> [for |-> a, by |-> b]]
    BY <2>2
  <2> QED
    BY <2>3, <2>4, <2>5
<1>6. ASSUME NEW a \in Peers, NEW b \in Peers, NEW ha \in Messages, NEW hb \in Messages, a # b,
             ha.kind = hb.kind
      PROVE  SecretFrom(a, ha) # SecretFrom(b, hb)
  <2>1. CASE ha.kind = "pub"
    <3>1. /\ SecretFrom(a, ha).transcript[2] = a
          /\ SecretFrom(b, hb).transcript[2] = b
      BY <1>6, <2>1 DEF SecretFrom, SessionSecret, Transcript
    <3> QED
      BY <1>6, <3>1
  <2>2. CASE ha.kind = "msg"
    <3>1. /\ SecretFrom(a, ha).transcript[1] = a
          /\ SecretFrom(b, hb).transcript[1] = b
      BY <1>6, <2>2 DEF SecretFrom, SessionSecret, Transcript
    <3> QED
      BY <1>6, <3>1
  <2> QED
    BY <2>1, <2>2, MessageKinds
<1>7. CASE hp.kind = "msg" /\ hq.kind = "pub"
  <2>1. secret[p] = secret[q] <=> Partners(p, q)
    BY <1>2, <1>3, <1>4, <1>5, <1>7 DEF Partners
  <2>2. ~Partners(q, p)
    BY <1>7 DEF Partners
  <2> QED
    BY <2>1, <2>2
<1>8. CASE hp.kind = "pub" /\ hq.kind = "msg"
  <2>1. secret[q] = secret[p] <=> Partners(q, p)
    BY <1>2, <1>3, <1>4, <1>5, <1>8 DEF Partners
  <2>2. ~Partners(p, q)
    BY <1>8 DEF Partners
  <2> QED
    BY <2>1, <2>2
<1>9. CASE hp.kind = hq.kind
  <2>1. secret[p] # secret[q]
    BY <1>2, <1>3, <1>6, <1>9
  <2>2. ~Partners(p, q) /\ ~Partners(q, p)
    BY <1>9 DEF Partners
  <2> QED
    BY <2>1, <2>2
<1> QED
  BY <1>2, <1>7, <1>8, <1>9, MessageKinds

----------------------------------------------------------------------------
(* The sessions and the cache. *)

LEMMA SessionInvInit == SessionInit => SessionInv
<1> SUFFICES ASSUME SessionInit PROVE SessionInv
  OBVIOUS
<1>1. SessionDomains
  BY DEF SessionInit, SessionDomains
<1>2. \A pr \in Processes : DOMAIN HKDF_CACHE[pr] = {}
  BY DEF SessionInit
<1>3. CacheHolds
  BY <1>2 DEF CacheHolds
<1>4. SessionsOwn
  BY DEF SessionInit, SessionsOwn
<1> QED
  BY <1>1, <1>3, <1>4 DEF SessionInv

\* Whatever a constructor makes of a material that some input inserted under
\* the same key has, the session owns up to it.
LEMMA FinishedOwn ==
  ASSUME SessionDomains, SessionsOwn, NEW u \in Users, NEW op, NEW in, NEW material,
         NEW other \in inserted'[ProcessOf[u]],
         CacheKey(other.secret, other.info) = CacheKey(in.secret, in.info),
         material = Material(other.secret, other.info),
         \A pr \in Processes : inserted[pr] \subseteq inserted'[pr],
         Finished(u, op, in, material)
  PROVE  SessionsOwn'
<1> SUFFICES ASSUME NEW v \in Users, session'[v] # Absent
             PROVE  \E i \in inserted'[ProcessOf[v]] :
                      /\ AHash(i.secret, i.info) = AHash(inputs'[v].secret, inputs'[v].info)
                      /\ session'[v] = [secret |-> i.secret, info |-> Truncated(i.info)]
  BY DEF SessionsOwn
<1>1. CASE op = "new" /\ v = u
  <2>1. session'[v] = material /\ inputs'[v] = in
    BY <1>1 DEF Finished, SessionDomains
  <2>2. /\ AHash(other.secret, other.info) = AHash(inputs'[v].secret, inputs'[v].info)
        /\ session'[v] = [secret |-> other.secret, info |-> Truncated(other.info)]
    BY <2>1 DEF CacheKey, Material
  <2> QED
    BY <1>1, <2>2
<1>2. CASE ~(op = "new" /\ v = u)
  <2>1. session'[v] = session[v] /\ inputs'[v] = inputs[v]
    BY <1>2 DEF Finished, SessionDomains
  <2>2. ProcessOf[v] \in Processes
    BY DEF Processes
  <2> QED
    BY <2>1, <2>2 DEF SessionsOwn
<1> QED
  BY <1>1, <1>2

\* A constructor's lookup takes what the cache has, which some input inserted.
LEMMA LookupKeepsInv ==
  ASSUME SessionInv, NEW u \in Users, NEW op, NEW s, NEW info, Lookup(u, op, s, info)
  PROVE  SessionInv'
<1> DEFINE in == [secret |-> s, info |-> info]
           pr == ProcessOf[u]
           key == CacheKey(s, info)
<1>1. SessionDomains /\ CacheHolds /\ SessionsOwn
  BY DEF SessionInv
<1>2. pr \in Processes
  BY DEF Processes
<1>3. UNCHANGED <<HKDF_CACHE, inserted>>
  BY DEF Lookup
<1>4. CacheHolds'
  BY <1>1, <1>3 DEF CacheHolds
<1>5. CASE key \in DOMAIN HKDF_CACHE[pr] /\ Finished(u, op, in, HKDF_CACHE[pr][key]) /\ UNCHANGED call
  <2>1. SessionDomains'
    BY <1>1, <1>3, <1>5 DEF SessionDomains, Finished
  <2>2. PICK other \in inserted[pr] :
          /\ CacheKey(other.secret, other.info) = key
          /\ HKDF_CACHE[pr][key] = Material(other.secret, other.info)
    BY <1>1, <1>2, <1>5 DEF CacheHolds
  <2>3. other \in inserted'[pr] /\ \A p \in Processes : inserted[p] \subseteq inserted'[p]
    BY <1>3
  <2>4. CacheKey(other.secret, other.info) = CacheKey(in.secret, in.info)
    BY <2>2
  <2> HIDE DEF in
  <2>5. SessionsOwn'
    BY <1>1, <1>5, <2>2, <2>3, <2>4, FinishedOwn
  <2> QED
    BY <1>4, <2>1, <2>5 DEF SessionInv
<1>6. CASE call' = [call EXCEPT ![u] = [op |-> op, in |-> in]] /\ UNCHANGED <<session, inputs>>
  <2>1. SessionDomains'
    BY <1>1, <1>3, <1>6 DEF SessionDomains
  <2>2. SessionsOwn'
    BY <1>1, <1>3, <1>6 DEF SessionsOwn
  <2> QED
    BY <1>4, <2>1, <2>2 DEF SessionInv
<1> QED
  BY <1>5, <1>6 DEF Lookup

\* What is inserted after a miss is the material of its own input, whatever
\* others have put under the key meanwhile.
LEMMA InsertKeepsInv ==
  ASSUME SessionInv, NEW u \in Users, DeriveAndInsert(u)
  PROVE  SessionInv'
<1> DEFINE in == call[u].in
           key == CacheKey(in.secret, in.info)
           material == Material(in.secret, in.info)
           pr == ProcessOf[u]
<1>1. SessionDomains /\ CacheHolds /\ SessionsOwn
  BY DEF SessionInv
<1>2. pr \in Processes
  BY DEF Processes
<1>3. /\ HKDF_CACHE' = [HKDF_CACHE EXCEPT ![pr] =
           [k \in DOMAIN HKDF_CACHE[pr] \cup {key} |->
              IF k = key THEN material ELSE HKDF_CACHE[pr][k]]]
      /\ inserted' = [inserted EXCEPT ![pr] = inserted[pr] \cup {in}]
      /\ Finished(u, call[u].op, in, material)
      /\ call' = [call EXCEPT ![u] = NoCall]
  BY DEF DeriveAndInsert
<1> HIDE DEF in, key, material, pr
<1>4. /\ \A p \in Processes : inserted[p] \subseteq inserted'[p]
      /\ in \in inserted'[pr]
  BY <1>1, <1>2, <1>3 DEF SessionDomains
<1>5. SessionDomains'
  BY <1>1, <1>3 DEF SessionDomains, Finished
<1>6. CacheHolds'
  <2> SUFFICES ASSUME NEW p \in Processes, NEW k \in DOMAIN HKDF_CACHE'[p]
               PROVE  \E i \in inserted'[p] :
                        /\ CacheKey(i.secret, i.info) = k
                        /\ HKDF_CACHE'[p][k] = Material(i.secret, i.info)
    BY DEF CacheHolds
  <2>1. CASE p = pr /\ k = key
    <3>1. HKDF_CACHE'[p][k] = material
      BY <1>1, <1>2, <1>3, <2>1 DEF SessionDomains
    <3> QED
      BY <1>4, <2>1, <3>1 DEF key, material
  <2>2. CASE ~(p = pr /\ k = key)
    <3>1. k \in DOMAIN HKDF_CACHE[p] /\ HKDF_CACHE'[p][k] = HKDF_CACHE[p][k]
      BY <1>1, <1>2, <1>3, <2>2 DEF SessionDomains
    <3> QED
      BY <1>1, <1>4, <3>1 DEF CacheHolds
  <2> QED
    BY <2>1, <2>2
<1>7. SessionsOwn'
  BY <1>1, <1>3, <1>4, FinishedOwn DEF key, material, pr
<1> QED
  BY <1>5, <1>6, <1>7 DEF SessionInv

LEMMA SessionInvStep ==
  ASSUME SessionInv, NEW u \in Users, NEW s, SessionStep(u, s)
  PROVE  SessionInv'
<1>1. CASE \E op \in {"prederive", "new"}, info \in Infos : Lookup(u, op, s, info)
  BY <1>1, LookupKeepsInv
<1>2. CASE DeriveAndInsert(u)
  BY <1>2, InsertKeepsInv
<1>3. ASSUME NEW how, NEW size, NEW capacity, NEW seq, Encrypt(u, how, size, capacity, seq)
      PROVE  SessionInv'
  BY <1>3 DEF Encrypt, SessionInv, SessionDomains, CacheHolds, SessionsOwn
<1> QED
  BY <1>1, <1>2, <1>3 DEF SessionStep

----------------------------------------------------------------------------
(* From the exchange to the packets. *)

LEMMA ChannelInvInit == ChannelInit => ChannelInv
<1> SUFFICES ASSUME ChannelInit PROVE ChannelInv
  OBVIOUS
<1>1. KexInv /\ SessionInv
  BY KexInvInit, SessionInvInit DEF ChannelInit
<1>2. OneCall /\ FromOwnSecret /\ PacketsSealed
  BY DEF ChannelInit, SessionInit, OneCall, FromOwnSecret, PacketsSealed
<1> QED
  BY <1>1, <1>2 DEF ChannelInv

\* A secret, once derived, is never derived again: the key is spent.
LEMMA SecretsStable ==
  ASSUME KexInv, [Next]_vars, NEW p \in Peers, secret[p] # None
  PROVE  secret'[p] = secret[p]
<1>1. p \notin x25519_priv /\ secret \in [Peers -> Secrets \cup {None}]
  BY DEF KexInv, TypeOK, KeySpentOnSecret
<1> QED
  BY <1>1 DEF Next, PublicKey, Respond, RespondFails, Finish, Short, Derive, vars

\* A step of the exchange leaves the sessions what they were made from.
LEMMA ExchangeKeepsChannel ==
  ASSUME ChannelInv, [Next]_vars, UNCHANGED sessionVars
  PROVE  ChannelInv'
<1>1. KexInv'
  BY KexInvStep DEF ChannelInv
<1>2. SessionInv' /\ OneCall' /\ PacketsSealed'
  BY DEF ChannelInv, sessionVars, SessionInv, SessionDomains, CacheHolds, SessionsOwn,
         OneCall, PacketsSealed
<1>3. FromOwnSecret'
  <2> SUFFICES ASSUME NEW u \in Users
               PROVE  /\ call[u] # NoCall => secret'[u] # None /\ call[u].in.secret = secret'[u]
                      /\ session[u] # Absent => secret'[u] # None /\ inputs[u].secret = secret'[u]
    BY DEF FromOwnSecret, sessionVars
  <2>1. secret[u] # None => secret'[u] = secret[u]
    BY SecretsStable, ChannelAssumption DEF ChannelInv
  <2> QED
    BY <2>1 DEF ChannelInv, FromOwnSecret
<1> QED
  BY <1>1, <1>2, <1>3 DEF ChannelInv

\* A session made from the secret of its own object, once, keeps its packets.
LEMMA FinishedKeepsChannel ==
  ASSUME ChannelInv, NEW u \in Users, session[u] = Absent, NEW op, NEW in, NEW material,
         Finished(u, op, in, material), secret[u] # None, in.secret = secret[u],
         UNCHANGED packets, UNCHANGED vars,
         \/ UNCHANGED call /\ call[u] = NoCall
         \/ call' = [call EXCEPT ![u] = NoCall]
  PROVE  OneCall' /\ FromOwnSecret' /\ PacketsSealed'
<1>1. SessionDomains /\ OneCall /\ FromOwnSecret /\ PacketsSealed
  BY DEF ChannelInv, SessionInv
<1>2. \A v \in Users : v # u => /\ session'[v] = session[v] /\ inputs'[v] = inputs[v]
                                /\ call'[v] = call[v]
  BY <1>1 DEF SessionDomains, Finished
<1>3. call'[u] = NoCall
  BY <1>1 DEF SessionDomains
<1>4. session'[u] # Absent => inputs'[u] = in
  BY <1>1 DEF SessionDomains, Finished
<1>5. secret' = secret
  BY DEF vars
<1>6. OneCall'
  BY <1>1, <1>2, <1>3 DEF OneCall
<1>7. FromOwnSecret'
  <2> SUFFICES ASSUME NEW v \in Users
               PROVE  /\ call'[v] # NoCall => secret[v] # None /\ call'[v].in.secret = secret[v]
                      /\ session'[v] # Absent => secret[v] # None /\ inputs'[v].secret = secret[v]
    BY <1>5 DEF FromOwnSecret
  <2>1. CASE v = u
    BY <1>3, <1>4, <2>1
  <2>2. CASE v # u
    BY <1>1, <1>2, <2>2 DEF FromOwnSecret
  <2> QED
    BY <2>1, <2>2
<1>8. PacketsSealed'
  BY <1>1, <1>2 DEF PacketsSealed, Nonce
<1> QED
  BY <1>6, <1>7, <1>8

LEMMA SessionKeepsChannel ==
  ASSUME ChannelInv, NEW u \in Users, secret[u] # None, SessionStep(u, secret[u]),
         UNCHANGED vars
  PROVE  ChannelInv'
<1>0. SessionDomains /\ OneCall /\ FromOwnSecret /\ PacketsSealed
  BY DEF ChannelInv, SessionInv
<1>1. KexInv'
  BY KexInvStep DEF ChannelInv
<1>2. SessionInv'
  BY SessionInvStep DEF ChannelInv
<1>3. ASSUME NEW op \in {"prederive", "new"}, NEW info \in Infos, Lookup(u, op, secret[u], info)
      PROVE  OneCall' /\ FromOwnSecret' /\ PacketsSealed'
  <2> DEFINE in == [secret |-> secret[u], info |-> info]
             key == CacheKey(secret[u], info)
             cache == HKDF_CACHE[ProcessOf[u]]
  <2>1. call[u] = NoCall /\ session[u] = Absent /\ UNCHANGED packets
    BY <1>3 DEF Lookup
  <2>2. CASE Finished(u, op, in, cache[key]) /\ UNCHANGED call
    <3>1. in.secret = secret[u]
      OBVIOUS
    <3> HIDE DEF in, key, cache
    <3> QED
      BY <2>1, <2>2, <3>1, FinishedKeepsChannel
  <2>3. CASE call' = [call EXCEPT ![u] = [op |-> op, in |-> in]] /\ UNCHANGED <<session, inputs>>
    <3>1. OneCall'
      BY <1>0, <2>1, <2>3 DEF OneCall, SessionDomains
    <3>2. FromOwnSecret'
      BY <1>0, <2>1, <2>3 DEF FromOwnSecret, SessionDomains, vars
    <3>3. PacketsSealed'
      BY <1>0, <2>1, <2>3 DEF PacketsSealed, Nonce
    <3> QED
      BY <3>1, <3>2, <3>3
  <2> QED
    BY <1>3, <2>2, <2>3 DEF Lookup
<1>4. ASSUME DeriveAndInsert(u)
      PROVE  OneCall' /\ FromOwnSecret' /\ PacketsSealed'
  <2> DEFINE in == call[u].in
             material == Material(in.secret, in.info)
  <2>1. /\ call[u] # NoCall /\ UNCHANGED packets
        /\ Finished(u, call[u].op, in, material)
        /\ call' = [call EXCEPT ![u] = NoCall]
    BY <1>4 DEF DeriveAndInsert
  <2>2. session[u] = Absent /\ in.secret = secret[u]
    BY <1>0, <2>1 DEF OneCall, FromOwnSecret
  <2> HIDE DEF in, material
  <2> QED
    BY <2>1, <2>2, FinishedKeepsChannel
<1>5. ASSUME NEW how, NEW size \in Sizes, NEW capacity, NEW seq, Encrypt(u, how, size, capacity, seq)
      PROVE  OneCall' /\ FromOwnSecret' /\ PacketsSealed'
  <2> DEFINE new == [by |-> u, seq |-> seq, key |-> session[u], nonce |-> Nonce(session[u], seq),
                     size |-> size]
  <2>1. /\ session[u] # Absent /\ packets' = packets \cup {new}
        /\ UNCHANGED <<call, session, inputs>>
    BY <1>5 DEF Encrypt
  <2>2. size \in Nat
    BY SessionAssumption
  <2>3. PacketsSealed'
    <3> SUFFICES ASSUME NEW packet \in packets'
                 PROVE  /\ packet.by \in Users /\ packet.size \in Nat
                        /\ session[packet.by] # Absent
                        /\ packet.key = session[packet.by]
                        /\ packet.nonce = Nonce(session[packet.by], packet.seq)
      BY <2>1 DEF PacketsSealed, Nonce
    <3>1. CASE packet \in packets
      BY <1>0, <3>1 DEF PacketsSealed
    <3>2. CASE packet = new
      BY <2>1, <2>2, <3>2
    <3> QED
      BY <2>1, <3>1, <3>2
  <2>4. OneCall' /\ FromOwnSecret'
    BY <1>0, <2>1 DEF OneCall, FromOwnSecret, vars
  <2> QED
    BY <2>3, <2>4
<1>6. OneCall' /\ FromOwnSecret' /\ PacketsSealed'
  BY <1>3, <1>4, <1>5 DEF SessionStep
<1> QED
  BY <1>1, <1>2, <1>6 DEF ChannelInv

LEMMA ChannelInvStep == ChannelInv /\ [ChannelNext]_channelVars => ChannelInv'
<1> SUFFICES ASSUME ChannelInv, [ChannelNext]_channelVars PROVE ChannelInv'
  OBVIOUS
<1>1. CASE Next /\ UNCHANGED sessionVars
  BY <1>1, ExchangeKeepsChannel
<1>2. ASSUME NEW p \in Peers, secret[p] # None, SessionStep(p, secret[p]), UNCHANGED vars
      PROVE  ChannelInv'
  BY <1>2, SessionKeepsChannel, ChannelAssumption
<1>3. CASE UNCHANGED channelVars
  BY <1>3, ExchangeKeepsChannel DEF channelVars
<1> QED
  BY <1>1, <1>2, <1>3 DEF ChannelNext

\* A session whose hash no other input of the process shares holds the
\* material of its own secret and info.
LEMMA UnsharedOwn ==
  ASSUME SessionsOwn, NEW u \in Users, session[u] # Absent, Unshared(u)
  PROVE  session[u] = [secret |-> inputs[u].secret, info |-> Truncated(inputs[u].info)]
  BY DEF SessionsOwn, Unshared

LEMMA ChannelInvOpens == ChannelInv => OpensExactlyPartners
<1> SUFFICES ASSUME ChannelInv, NEW packet \in packets, NEW p \in Peers,
                    session[p] # Absent, Unshared(p), Unshared(packet.by),
                    NEW seq \in SeqNums, NEW len \in 0..(packet.size + TagSize)
             PROVE  LET q == packet.by
                        related == \/ p = q
                                   \/ /\ Partners(p, q) \/ Partners(q, p)
                                      /\ Truncated(inputs[p].info) = Truncated(inputs[q].info)
                    IN  Opens(p, packet, len, seq)
                          <=> related /\ seq = packet.seq /\ len = packet.size + TagSize
  BY DEF OpensExactlyPartners
<1> DEFINE q == packet.by
<1>1. /\ q \in Users /\ packet.size \in Nat /\ session[q] # Absent
      /\ packet.key = session[q] /\ packet.nonce = <<session[q], packet.seq>>
  BY DEF ChannelInv, PacketsSealed, Nonce
<1>2. p \in Users /\ q \in Peers
  BY <1>1, ChannelAssumption
<1> HIDE DEF q
<1>3. /\ session[p] = [secret |-> secret[p], info |-> Truncated(inputs[p].info)]
      /\ session[q] = [secret |-> secret[q], info |-> Truncated(inputs[q].info)]
      /\ secret[p] # None /\ secret[q] # None
  BY <1>1, <1>2, UnsharedOwn DEF ChannelInv, SessionInv, FromOwnSecret, q
<1>4. session[p] = session[q]
        <=> secret[p] = secret[q] /\ Truncated(inputs[p].info) = Truncated(inputs[q].info)
  BY <1>3
<1>5. p # q => (secret[p] = secret[q] <=> Partners(p, q) \/ Partners(q, p))
  BY <1>2, <1>3, KexInvSecretsMatch DEF ChannelInv, SecretsMatch
<1>6. Opens(p, packet, len, seq)
        <=> session[p] = session[q] /\ seq = packet.seq /\ len = packet.size + TagSize
  <2>1. packet.size + TagSize >= TagSize
    BY <1>1, SessionAssumption
  <2> QED
    BY <1>1, <2>1 DEF Opens, Nonce
<1> QED
  BY <1>4, <1>5, <1>6 DEF q

----------------------------------------------------------------------------
LEMMA ChannelInvariant == ChannelSpec => []ChannelInv
  BY ChannelInvInit, ChannelInvStep, PTL DEF ChannelSpec

\* Over a network that loses, repeats, reorders and misdelivers, two HybridKEX
\* objects hold one session secret exactly when respond of one answered the
\* public key of the other and finish of the other took that answer.
THEOREM SecretsAgree == ChannelSpec => []SecretsMatch
<1>1. ChannelInv => SecretsMatch
  BY KexInvSecretsMatch DEF ChannelInv
<1> QED
  BY <1>1, ChannelInvariant, PTL

\* respond and finish spend the ephemeral key on a secret or on a failed
\* encapsulation, and a refused message leaves it.
THEOREM KeysSpent == ChannelSpec => []KeySpentOnSecret
<1>1. ChannelInv => KeySpentOnSecret
  BY DEF ChannelInv, KexInv
<1> QED
  BY <1>1, ChannelInvariant, PTL

\* However lookups and inserts of a process interleave in HKDF_CACHE, a
\* session holds the material of its own inputs or of one that hashes alike.
THEOREM MaterialOwn == ChannelSpec => []SessionsOwn
<1>1. ChannelInv => SessionsOwn
  BY DEF ChannelInv, SessionInv
<1> QED
  BY <1>1, ChannelInvariant, PTL

\* Without a collision in the cache a packet opens for its sender and for the
\* sender's partner, under its sequence number and whole, and for nobody else.
THEOREM PartnersOpen == ChannelSpec => []OpensExactlyPartners
  BY ChannelInvariant, ChannelInvOpens, PTL
====
