--------------------------- MODULE MCIfController ---------------------------
(* Model-checking instance of IfController: small sets of model values.    *)
EXTENDS IfController, TLC

CONSTANTS MaxPingCount, l1, l2, p1, p2, p3, k1, k2, a1, a2, a3, s1, s2, s3

MCLinks1 == {l1}
MCPeers3 == {p1, p2, p3}
MCPeers2 == {p1, p2}
MCPeers1 == {p1}
MCKeys1 == {k1}
MCKeys2 == {k1, k2}
MCAddrs3 == {a1, a2, a3}
MCAddrs2 == {a1, a2}
MCAddrs1 == {a1}
MCLabels3 == {s1, s2, s3}
MCLabels2 == {s1, s2}
MCLabels1 == {s1}

Symmetry == Permutations(PeerIds) \cup Permutations(LLAddrs)
            \cup Permutations(Labels)
(* pingCount grows without bound (modulo 2^32, kept modulo 56 in the     *)
(* model); safety runs explore it up to MaxPingCount only. Liveness runs  *)
(* take no such constraint: it would cut every behaviour in which a tick   *)
(* keeps counting pings.                                                   *)
(* With SessionStates = {ESTABLISHED} the (pingCount + 1) % 7 branch of   *)
(* receivedAfterCryptoAuth is unreachable, so pingCount is read only      *)
(* modulo 8 and counting it modulo 8 loses nothing.                        *)
MCPingCountMod8 == 8

PingCountBound == \A p \in allocated : ep[p].pingCount <= MaxPingCount
=============================================================================
