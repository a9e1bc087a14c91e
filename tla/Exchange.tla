------------------------------ MODULE Exchange ------------------------------
(***************************************************************************)
(* The reflexive consumer and producer applications                       *)
(* (src/Experiments/consumer-producer_RI/consumer.cpp, producer.cpp)       *)
(* composed with the Forwarder through their faces.  Each face is a pair  *)
(* of FIFO links: up[f] from the application to the forwarder, down[f]     *)
(* back.  Every handler of the forwarder and of the applications runs to  *)
(* completion on its event loop, taking the head of one link and          *)
(* appending what it sends.  Lifetimes (I1 5 s, Data freshness 10 s) are  *)
(* far longer than local delivery, so the timers of the forwarder and of  *)
(* the applications' faces fire only when no packet is in flight.         *)
(***************************************************************************)
EXTENDS Forwarder

CONSTANTS
    I1Name,         \* /example/testApp/1234 (reflexive on 1234)
    RI1Name,        \* /testApp/reflect/9999
    RI2Name,        \* /testApp/reflect2/9999
    ConsumerToken,  \* 2345, the PIT token the consumer puts on I1
    ConsumerNonce,  \* ConsumerNonce[c]: the Nonce of consumer c's I1
    Lossy           \* whether links may lose packets

\* The consumer whose exchange is mapped onto RIExchange.
Consumer == CHOOSE c \in ConsumerFaces : TRUE

\* The lp::PitToken codec of assist.hpp.  On a link the tok field of an
\* Interest is the tag's byte vector, << >> when the Interest has none.
Codec == INSTANCE PitToken

\* The value read from a tag, 0 when there is none (forwarder.cpp lines
\* 155-157 and 227-229: pitTokenTag == nullptr ? 0 : readPitToken(...)).
TagValue(t) == IF t = << >> THEN 0 ELSE Codec!readPitToken(t)

\* Forwarder::onOutgoingInterest restores a tag on every reflexive Interest
\* it sends: setPitToken of nameToPrevToken for an RI from the producer,
\* of nameToToken otherwise; other Interests, Data and Nacks carry none.
OnWire(pk) == [pk EXCEPT !.tok = IF pk.kind = "Interest" /\ IsReflexive(pk.name)
                                 THEN Codec!setPitToken(@) ELSE << >>]

VARIABLES
    up,     \* up[f]: packets face f's application sent, not yet read by the forwarder
    down,   \* down[f]: packets the forwarder sent on f, not yet read by the application
    cons,   \* the consumer application
    prod,   \* the producer application
    lost    \* ghost: a link has lost a packet

appVars == <<up, down, cons, prod, lost>>
sysVars == <<vars, appVars>>

Idle == \A f \in Faces : up[f] = << >> /\ down[f] = << >>

Send(f, pk) == up' = [up EXCEPT ![f] = Append(@, pk)]
Consume(f) == down' = [down EXCEPT ![f] = Tail(@)]

-----------------------------------------------------------------------------
(* Consumers.  Every consumer face runs the same program (consumer.cpp),  *)
(* with its own application state cons[c].                                *)

\* Consumer::run: express I1 with PIT token 2345, MustBeFresh; the face
\* keeps it pending until Data, Nack or its lifetime ends.  The face draws
\* a random 32-bit Nonce; distinct consumers draw distinct ones.
ConsumerRun(c) ==
    /\ ~cons[c].sent
    /\ Send(c, InterestPkt(c, Key(I1Name, TRUE), ConsumerNonce[c],
                          Codec!setPitToken(ConsumerToken), Key(I1Name, TRUE)))
    /\ cons' = [cons EXCEPT ![c].sent = TRUE, ![c].pending = TRUE]
    /\ UNCHANGED <<vars, down, prod, lost>>

\* Consumer::onInterest, reached through the /testApp filter: answer the
\* reflexive Interest with RD of the same name.  Without a PIT token the
\* code only prints, then dereferences the null tag at line 94: the
\* process dies there and takes no further step.
ConsumerOnInterest(c, pk) ==
    /\ pk.name \in RINames
    /\ IF pk.tok = << >>
       THEN cons' = [cons EXCEPT ![c].pending = FALSE, ![c].result = "crashed"]
            /\ UNCHANGED up
       ELSE /\ Send(c, DataPkt(c, pk.name))
            /\ cons' = [cons EXCEPT ![c].answered = @ \cup {pk.name}]

\* datacallback / nackcallback of the pending I1.
ConsumerOnReply(c, pk) ==
    /\ cons[c].pending
    /\ pk.name = I1Name
    /\ cons' = [cons EXCEPT ![c].pending = FALSE,
                            ![c].result = IF pk.kind = "Data" THEN "data" ELSE "nack"]
    /\ UNCHANGED up

\* The face matches no filter or pending Interest: the packet is dropped.
ConsumerDrop(c, pk) ==
    /\ ~(pk.kind = "Interest" /\ pk.name \in RINames)
    /\ ~(pk.kind # "Interest" /\ cons[c].pending /\ pk.name = I1Name)
    /\ UNCHANGED <<up, cons>>

ConsumerReceive(c) ==
    /\ cons[c].result # "crashed"
    /\ down[c] # << >>
    /\ Consume(c)
    /\ LET pk == Head(down[c])
       IN \/ pk.kind = "Interest" /\ ConsumerOnInterest(c, pk)
          \/ pk.kind # "Interest" /\ ConsumerOnReply(c, pk)
          \/ ConsumerDrop(c, pk)
    /\ UNCHANGED <<vars, prod, lost>>

\* timeoutcallback: the I1 lifetime ends.
ConsumerTimeout(c) ==
    /\ Idle
    /\ cons[c].pending
    /\ cons' = [cons EXCEPT ![c].pending = FALSE, ![c].result = "timeout"]
    /\ UNCHANGED <<vars, up, down, prod, lost>>

-----------------------------------------------------------------------------
(* Producer.                                                               *)

\* reflect / reflect2: read the PIT token of I1 and tag an RI of the given
\* name with it; without a token the producer sends nothing.
Reflect(n, tag) ==
    IF tag = << >> THEN UNCHANGED up
    ELSE Send(ProducerFace, InterestPkt(ProducerFace, Key(n, FALSE), 1,
                                        Codec!setPitToken(Codec!readPitToken(tag)), Key(n, FALSE)))

\* Producer::onInterest through the /example/testApp filter: the first I1
\* is remembered and reflected, later ones are only printed.
ProducerOnInterest(pk) ==
    /\ pk.name = I1Name
    /\ IF prod.flag
       THEN UNCHANGED <<up, prod>>
       ELSE /\ Reflect(RI1Name, pk.tok)
            /\ prod' = [prod EXCEPT !.flag = TRUE, !.tok = pk.tok,
                                    !.pending = IF pk.tok = << >> THEN @ ELSE @ \cup {RI1Name}]

\* Producer::replyData: D1, named as the remembered I1, freshness 10 s.
replyData == Send(ProducerFace, DataPkt(ProducerFace, I1Name))

\* Mutant: D1 replied on the first RD (m_incoming_RD compared with 1).
ProducerOnDataReplyFirst(pk) ==
    /\ pk.name \in prod.pending
    /\ LET rd == prod.rd + 1
       IN /\ IF rd = 1 THEN replyData ELSE UNCHANGED up
          /\ prod' = [prod EXCEPT !.rd = rd, !.d1 = (rd = 1) \/ @,
                                  !.pending = @ \ {pk.name}]

\* Producer::datacallback: count RDs; the first triggers reflect2 with the
\* remembered I1, the second replyData.
ProducerOnData(pk) ==
    /\ pk.name \in prod.pending
    /\ LET rd == prod.rd + 1
       IN /\ IF rd = 1 THEN Reflect(RI2Name, prod.tok)
             ELSE IF rd = 2 THEN replyData
             ELSE UNCHANGED up
          /\ prod' = [prod EXCEPT !.rd = rd, !.d1 = (rd = 2) \/ @,
                                  !.pending = (@ \ {pk.name})
                                              \cup (IF rd = 1 /\ prod.tok # << >> THEN {RI2Name} ELSE {})]

\* nackcallback of an RI: printed, the RI is no longer pending.
ProducerOnNack(pk) ==
    /\ pk.name \in prod.pending
    /\ prod' = [prod EXCEPT !.pending = @ \ {pk.name}]
    /\ UNCHANGED up

ProducerDrop(pk) ==
    /\ ~(pk.kind = "Interest" /\ pk.name = I1Name)
    /\ ~(pk.kind # "Interest" /\ pk.name \in prod.pending)
    /\ UNCHANGED <<up, prod>>

ProducerReceive ==
    /\ down[ProducerFace] # << >>
    /\ Consume(ProducerFace)
    /\ LET pk == Head(down[ProducerFace])
       IN \/ pk.kind = "Interest" /\ ProducerOnInterest(pk)
          \/ pk.kind = "Data" /\ ProducerOnData(pk)
          \/ pk.kind = "Nack" /\ ProducerOnNack(pk)
          \/ ProducerDrop(pk)
    /\ UNCHANGED <<vars, cons, lost>>

\* timeoutcallback of an RI.
ProducerTimeout ==
    /\ Idle
    /\ \E n \in prod.pending : prod' = [prod EXCEPT !.pending = @ \ {n}]
    /\ UNCHANGED <<vars, up, down, cons, lost>>

-----------------------------------------------------------------------------
(* Forwarder side of the faces.                                            *)

\* The forwarder reads the head of up[f] and runs the whole pipeline; what
\* it sends is appended to the links of the egress faces.
ForwarderReceive(f) ==
    /\ up[f] # << >>
    /\ LET pk == Head(up[f])
       IN \/ pk.kind = "Interest" /\ onIncomingInterest(f, pk.name, pk.mbf, pk.nonce, TagValue(pk.tok), NoHop)
          \/ pk.kind = "Data" /\ onIncomingData(f, pk.name)
          \/ pk.kind = "Nack" /\ onIncomingNack(f, pk.name, pk.mbf, pk.nonce, pk.reason)
    /\ up' = [up EXCEPT ![f] = Tail(@)]
    /\ down' = [g \in Faces |-> down[g] \o SelectSeq([i \in DOMAIN out' |-> OnWire(out'[i])],
                                                   LAMBDA x : x.face = g)]
    /\ UNCHANGED <<cons, prod, lost>>

\* Time passes for the forwarder's timers, DNL and CS when nothing is in flight.
ForwarderTime ==
    /\ Idle
    /\ \/ \E k \in DOMAIN pit : onInterestFinalize(k)
       \/ DnlExpire
       \/ CsAge
    /\ UNCHANGED appVars

\* A link loses its oldest packet.
Lose ==
    /\ Lossy
    /\ \E f \in Faces :
          \/ up[f] # << >> /\ up' = [up EXCEPT ![f] = Tail(@)] /\ UNCHANGED down
          \/ down[f] # << >> /\ down' = [down EXCEPT ![f] = Tail(@)] /\ UNCHANGED up
    /\ lost' = TRUE
    /\ UNCHANGED <<vars, cons, prod>>

SysInit ==
    /\ Init
    /\ up = [f \in Faces |-> << >>]
    /\ down = [f \in Faces |-> << >>]
    /\ cons = [c \in ConsumerFaces |->
                 [sent |-> FALSE, pending |-> FALSE, answered |-> {}, result |-> "none"]]
    /\ prod = [flag |-> FALSE, tok |-> << >>, rd |-> 0, pending |-> {}, d1 |-> FALSE]
    /\ lost = FALSE

SysNext ==
    \/ \E c \in ConsumerFaces : ConsumerRun(c) \/ ConsumerReceive(c) \/ ConsumerTimeout(c)
    \/ ProducerReceive
    \/ ProducerTimeout
    \/ \E f \in Faces : ForwarderReceive(f)
    \/ ForwarderTime
    \/ Lose

\* Every event loop runs its ready handlers and due timers; links do not
\* lose packets fairly, so Lose has no fairness.
SysSpec ==
    /\ SysInit /\ [][SysNext]_sysVars
    /\ \A c \in ConsumerFaces : WF_sysVars(ConsumerRun(c)) /\ WF_sysVars(ConsumerReceive(c))
    /\ \A c \in ConsumerFaces : WF_sysVars(ConsumerTimeout(c))
    /\ WF_sysVars(ProducerReceive)
    /\ \A f \in Faces : WF_sysVars(ForwarderReceive(f))
    /\ WF_sysVars(ProducerTimeout)
    /\ WF_sysVars(ForwarderTime)

-----------------------------------------------------------------------------
(* Properties                                                              *)

\* How far the exchange has got, read from the two applications.
PhaseOf ==
    CASE cons[Consumer].result = "data"          -> "Done"
      [] cons[Consumer].result \in {"timeout", "nack", "crashed"} -> "Failed"
      [] prod.d1                       -> "D1"
      [] RI2Name \in cons[Consumer].answered -> "RD2"
      [] prod.rd >= 1                  -> "RI2"
      [] RI1Name \in cons[Consumer].answered -> "RD1"
      [] prod.flag                     -> "RI1"
      [] cons[Consumer].sent           -> "I1"
      [] OTHER                         -> "Idle"

Protocol == INSTANCE RIExchange WITH phase <- PhaseOf, lost <- lost

(* The applications and the forwarder together implement the exchange:   *)
(* the phases of S1 happen once each and in order (the consumer answers   *)
(* the first RI before the producer reflects again, D1 only after two     *)
(* RDs); the consumer's I1 ends in a timeout or Nack only after a loss,   *)
(* and until a packet is lost the exchange moves on to D1.               *)
ImplementsRIExchange == Protocol!Spec

(* The PIT tokens survive the byte codec at every hop: the I1 the         *)
(* producer reads carries a token that pit_assist resolves to I1's name,  *)
(* and every RI reaching the consumer carries the consumer's own token    *)
(* 2345 (S1): readPitToken reads back what setPitToken wrote at the hop   *)
(* before, through the forwarder's token index in between.                *)
TagsReadBack ==
    /\ \A i \in DOMAIN down[ProducerFace] :
          LET pk == down[ProducerFace][i]
          IN pk.kind = "Interest" => pk.name \in tokenToName(assist, TagValue(pk.tok))
    /\ \A c \in ConsumerFaces : \A i \in DOMAIN down[c] :
          LET pk == down[c][i]
          IN pk.kind = "Interest" => TagValue(pk.tok) = ConsumerToken
=============================================================================
