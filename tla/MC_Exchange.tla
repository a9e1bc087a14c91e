---------------------------- MODULE MC_Exchange ----------------------------
(* Consumer faces c and c2 (MC_Exchange.cfg uses c only), the producer    *)
(* face p, the name of I1 and the two RI names of the experiment.          *)
EXTENDS Exchange

CONSTANTS c, c2, p, n1, r1, r2

MC_FibNextHops == <<p>>
MC_FaceToken == [f \in ConsumerFaces |-> 2345]
MC_ConsumerNonce == [f \in ConsumerFaces |-> IF f = c THEN 1 ELSE 2]
MC_TokenValues == {0, 1, 2}
MC_RITokens == {0}
MC_Nonces == {1, 2}
MC_Selectors == {TRUE}
MC_HopLimits == {NoHop}
MC_NackReasons == {"NoRoute"}
=============================================================================
