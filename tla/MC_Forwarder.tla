---------------------------- MODULE MC_Forwarder ----------------------------
(* Instantiates Forwarder for TLC: two downstream faces with different PIT *)
(* tokens, one producer face, one original name and one RI name.           *)
EXTENDS Forwarder

CONSTANTS c1, c2, p, n1, n2, r1

MC_FibNextHops == <<p>>
MC_FaceToken == (c1 :> 5) @@ (c2 :> 6)
MC_TokenValues == {0, 1, 2}
MC_RITokens == {0, 1, 2, 9}
MC_Nonces == {1, 2}
MC_Selectors == {TRUE}
MC_SelectorsBoth == {TRUE, FALSE}
MC_HopLimits == {NoHop}
MC_HopLimitsAll == {NoHop, 0, 1}
MC_NackReasons == {"NoRoute"}
=============================================================================
