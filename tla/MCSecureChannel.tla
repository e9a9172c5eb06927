-------------------------- MODULE MCSecureChannel --------------------------
(***************************************************************************)
(* Instance of SecureChannel for TLC: two of three objects share a process *)
(* and so a cache; the infos are the empty one, one too long and one that  *)
(* is its first 237 bytes; the hashes of the empty and the long one        *)
(* collide.                                                                *)
(***************************************************************************)
EXTENDS SecureChannel, TLC

CONSTANTS a, b, c, s0, s1

MCPeers == {a, b, c}
MCProcessOf == [p \in MCPeers |-> IF p = a THEN 1 ELSE 2]
MCInfos == {"", "short", "long"}
MCTruncated(info) == IF info = "long" THEN "short" ELSE info
MCAHash(s, info) == <<s, IF info = "long" THEN "" ELSE info>>
MCSymmetry == Permutations({b, c}) \cup Permutations({s0, s1})

\* Messages matter to objects that still hold their key.
MCView == <<x25519_priv, secret, heard, broken, IF x25519_priv = {} THEN {} ELSE net, sessionVars>>
====
