----------------------------- MODULE RIExchange -----------------------------
(***************************************************************************)
(* The exchange the reflexive-forwarding experiment promises, seen from   *)
(* the two applications (scenario S1): the consumer expresses I1, the     *)
(* producer reflects it with an RI, the consumer answers with RD, the     *)
(* producer reflects a second time, the consumer answers again, and only  *)
(* then does the producer reply D1, which reaches the consumer.  Each    *)
(* phase is entered once and in this order.  The applications never      *)
(* retransmit, so once a packet is lost the exchange may end Failed (the  *)
(* consumer's I1 times out or is Nacked); while nothing is lost it        *)
(* completes.                                                              *)
(***************************************************************************)
VARIABLES
    phase,  \* how far the exchange has got
    lost    \* whether a packet of the exchange has been lost

vars == <<phase, lost>>

Init == phase = "Idle" /\ ~lost

Step(from, to) == phase = from /\ phase' = to /\ UNCHANGED lost

SendI1    == Step("Idle", "I1")     \* consumer expresses I1
Reflect   == Step("I1", "RI1")      \* producer takes I1, sends the first RI
AnswerRI1 == Step("RI1", "RD1")     \* consumer answers it with RD
Reflect2  == Step("RD1", "RI2")     \* producer takes RD, sends the second RI
AnswerRI2 == Step("RI2", "RD2")     \* consumer answers it with RD
Reply     == Step("RD2", "D1")      \* producer takes the second RD, puts D1
Deliver   == Step("D1", "Done")     \* D1 reaches the consumer

Progress == SendI1 \/ Reflect \/ AnswerRI1 \/ Reflect2 \/ AnswerRI2 \/ Reply \/ Deliver

\* A link loses a packet; the phase is unchanged.
Lose == ~lost /\ lost' /\ UNCHANGED phase

\* After a loss the unfinished exchange may be given up.
Fail == lost /\ phase \notin {"Done", "Failed"} /\ phase' = "Failed" /\ UNCHANGED lost

Next == Progress \/ Lose \/ Fail

\* The exchange keeps moving: forward, or to Failed once something is lost.
Spec == Init /\ [][Next]_vars /\ WF_vars(Progress \/ Fail)
=============================================================================
