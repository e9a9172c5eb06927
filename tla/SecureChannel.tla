--------------------------- MODULE SecureChannel ---------------------------
(***************************************************************************)
(* The key exchange and the sessions together, as                          *)
(* src/crypto/src/lib.rs uses them: each HybridKEX object makes a session  *)
(* from the secret it derived, over the HKDF cache of its process, and     *)
(* seals packets the others try to open.                                   *)
(***************************************************************************)
EXTENDS Kex, Session

ASSUME ChannelAssumption == Users = Peers

channelVars == <<vars, sessionVars>>

ChannelTypeOK == TypeOK /\ SessionTypeOK

ChannelInit == Init /\ SessionInit

ChannelNext ==
  \/ Next /\ UNCHANGED sessionVars
  \/ \E p \in Peers : secret[p] # None /\ SessionStep(p, secret[p]) /\ UNCHANGED vars

ChannelSpec == ChannelInit /\ [][ChannelNext]_channelVars

----------------------------------------------------------------------------
\* From key exchange to packet: unless hashes collide in the cache, p opens a
\* packet of q exactly when the two completed a key exchange with each other,
\* made their sessions from the same info (as far as it is derived from), and
\* p gives the packet's sequence number and all of its bytes.  Nothing of this
\* depends on what other objects of the
\* process put into the cache in between.
OpensExactlyPartners ==
  \A packet \in packets, p \in Peers :
    LET q == packet.by
        related == \/ p = q
                   \/ /\ Partners(p, q) \/ Partners(q, p)
                      /\ Truncated(inputs[p].info) = Truncated(inputs[q].info)
    IN  session[p] # Absent /\ Unshared(p) /\ Unshared(q) =>
          \A seq \in SeqNums, len \in 0..(packet.size + TagSize) :
            Opens(p, packet, len, seq)
              <=> related /\ seq = packet.seq /\ len = packet.size + TagSize
====
