------------------------------ MODULE Session ------------------------------
(***************************************************************************)
(* HybridSession and the HKDF cache of src/crypto/src/session.rs.  The     *)
(* sessions of one process share the cache: prederive_session and new look *)
(* a key up under the read lock and insert under the write lock, with the  *)
(* derivation in between.  Cryptography is symbolic: what HKDF derives is  *)
(* the tuple of its inputs, and a ciphertext opens under the key and nonce *)
(* it was sealed with.                                                     *)
(***************************************************************************)
EXTENDS Integers, FiniteSets

CONSTANTS
  Users,         \* owners of one session each
  ProcessOf,     \* the process a user runs in
  Infos,         \* session_info values
  EmptyInfo,     \* the empty one
  Truncated(_),  \* the first 237 bytes of an info, all that is derived from
  AHash(_, _),   \* the hasher's value after writing a secret and an info
  TagSize,       \* 16
  PayloadLimit,  \* 2^24
  Sizes,         \* sizes of payloads; a payload is its size
  SeqNums,       \* sequence numbers
  MaxPackets,    \* bound: ciphertexts made
  MaxInserted,   \* bound: prederive_session is called while a process has
                 \* inserted fewer inputs than this
  Absent

ASSUME SessionAssumption ==
  /\ EmptyInfo \in Infos /\ Sizes \subseteq Nat /\ PayloadLimit \in Nat
  /\ TagSize \in Nat \ {0} /\ MaxPackets \in Nat /\ MaxInserted \in Nat

VARIABLES
  HKDF_CACHE, \* for each process, a function from cache keys to material
  inserted,   \* history: the inputs each process has inserted
  call,       \* the constructor a user is in, between lookup and insert
  session,    \* the user's HybridSession
  inputs,     \* history: the inputs it was made from
  packets     \* ciphertexts made so far

sessionVars == <<HKDF_CACHE, inserted, call, session, inputs, packets>>

Processes == {ProcessOf[u] : u \in Users}

CacheKeyOfInfo(secret, info) == AHash(Absent, info)

\* derive_cache_key
CacheKey(secret, info) == AHash(secret, info)

\* derive_session_material: the key, from which the nonce base follows.
Material(secret, info) == [secret |-> secret, info |-> Truncated(info)]

NoCall == [op |-> "none", in |-> Absent]

SessionInit ==
  /\ HKDF_CACHE = [pr \in Processes |-> [k \in {} |-> Absent]]
  /\ inserted = [pr \in Processes |-> {}]
  /\ call = [u \in Users |-> NoCall]
  /\ session = [u \in Users |-> Absent] /\ inputs = [u \in Users |-> Absent]
  /\ packets = {}

----------------------------------------------------------------------------
\* A constructor ends: new keeps the material, prederive_session nothing.
Finished(u, op, in, material) ==
  IF op = "new"
  THEN /\ session' = [session EXCEPT ![u] = material]
       /\ inputs' = [inputs EXCEPT ![u] = in]
  ELSE UNCHANGED <<session, inputs>>

\* The lookup of prederive_session and of new.  Only the former refuses
\* empty arguments.  A user prederives before making its session.
Lookup(u, op, secret, info) ==
  LET key == CacheKey(secret, info)
      cache == HKDF_CACHE[ProcessOf[u]]
      in == [secret |-> secret, info |-> info]
  IN  /\ call[u] = NoCall /\ session[u] = Absent
      /\ op = "prederive" =>
           info # EmptyInfo /\ Cardinality(inserted[ProcessOf[u]]) < MaxInserted
      /\ \/ /\ key \in DOMAIN cache
            /\ Finished(u, op, in, cache[key])
            /\ UNCHANGED call
         \/ /\ key \notin DOMAIN cache
            /\ call' = [call EXCEPT ![u] = [op |-> op, in |-> in]]
            /\ UNCHANGED <<session, inputs>>
      /\ UNCHANGED <<HKDF_CACHE, inserted, packets>>

\* After a miss: derive, then insert, over whatever is there by now.
DeriveAndInsert(u) ==
  LET in == call[u].in
      key == CacheKey(in.secret, in.info)
      material == Material(in.secret, in.info)
      pr == ProcessOf[u]
  IN  /\ call[u] # NoCall
      /\ HKDF_CACHE' = [HKDF_CACHE EXCEPT ![pr] =
           [k \in DOMAIN @ \cup {key} |-> IF k = key THEN material ELSE @[k]]]
      /\ inserted' = [inserted EXCEPT ![pr] = @ \cup {in}]
      /\ Finished(u, call[u].op, in, material)
      /\ call' = [call EXCEPT ![u] = NoCall]
      /\ UNCHANGED packets

NonceIgnoringSeq(material, seq) == material

\* build_nonce: the prefix of the material, and its mask xor seq.
Nonce(material, seq) == <<material, seq>>

\* encrypt, encrypt_in_place and encrypt_into_slice refuse a payload above
\* the limit; encrypt_to has no limit but needs room for the tag.
Encrypt(u, how, size, capacity, seq) ==
  /\ session[u] # Absent
  /\ Cardinality(packets) < MaxPackets
  /\ IF how = "encrypt_to" THEN capacity >= size + TagSize ELSE size <= PayloadLimit
  /\ packets' = packets \cup
       {[by |-> u, seq |-> seq, key |-> session[u], nonce |-> Nonce(session[u], seq),
         size |-> size]}
  /\ UNCHANGED <<HKDF_CACHE, inserted, call, session, inputs>>

\* decrypt and decrypt_in_place of the first len bytes of a ciphertext give a
\* payload; CiphertextTooShort and AuthenticationFailed change nothing.
Opens(u, packet, len, seq) ==
  /\ len >= TagSize
  /\ session[u] = packet.key /\ Nonce(session[u], seq) = packet.nonce
  /\ len = packet.size + TagSize

SessionStep(u, secret) ==
  \/ \E op \in {"prederive", "new"}, info \in Infos : Lookup(u, op, secret, info)
  \/ DeriveAndInsert(u)
  \/ \E how \in {"encrypt", "encrypt_to"}, size \in Sizes, seq \in SeqNums :
       \E capacity \in {s + TagSize : s \in Sizes} : Encrypt(u, how, size, capacity, seq)

----------------------------------------------------------------------------
SessionTypeOK ==
  /\ DOMAIN HKDF_CACHE = Processes /\ DOMAIN inserted = Processes
  /\ \A u \in Users : /\ session[u] = Absent <=> inputs[u] = Absent
                      /\ call[u].op \in {"none", "prederive", "new"}
                      /\ session[u] # Absent => call[u] = NoCall
  /\ \A p \in packets : p.by \in Users /\ p.seq \in SeqNums /\ p.size \in Sizes

\* No other input inserted in u's process has the same hash and other material.
Unshared(u) ==
  \A in \in inserted[ProcessOf[u]] :
    AHash(in.secret, in.info) = AHash(inputs[u].secret, inputs[u].info) =>
      in.secret = inputs[u].secret /\ Truncated(in.info) = Truncated(inputs[u].info)

\* A session holds the material of its own secret and info.  When the 64-bit
\* hashes of two inputs of one process collide, it may hold that of the other,
\* and of no third one.
SessionsOwn ==
  \A u \in Users : session[u] # Absent =>
    \E in \in inserted[ProcessOf[u]] :
      /\ AHash(in.secret, in.info) = AHash(inputs[u].secret, inputs[u].info)
      /\ session[u] = [secret |-> in.secret, info |-> Truncated(in.info)]
====
