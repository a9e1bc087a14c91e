------------------------------ MODULE Forwarder ------------------------------
(***************************************************************************)
(* The NFD forwarder with the reflexive-forwarding extension               *)
(* (src/Mods/NFD/daemon/fw/forwarder.cpp): the PIT, the pit_assist token   *)
(* index (table/assist.hpp), the Dead Nonce List, the Content Store, and   *)
(* the incoming Interest / reflexive Interest (RI) / Data / Nack pipelines *)
(* together with the best-route strategy they dispatch to                  *)
(* (fw/best-route-strategy.cpp).                                           *)
(*                                                                         *)
(* The forwarder runs on one event loop: every pipeline runs to completion *)
(* once a packet arrives, so each received packet is ONE atomic step that  *)
(* takes the packet through the whole pipeline, strategy and outgoing      *)
(* pipelines included.  The PIT expiry timers, the Dead Nonce List expiry, *)
(* Content Store staleness and eviction are the other steps.               *)
(***************************************************************************)
EXTENDS Integers, Sequences, SequencesExt, FiniteSets, TLC

CONSTANTS
    ConsumerFaces,    \* downstream faces: consumer apps or downstream forwarders
    ProducerFace,     \* the upstream face; the producer sits behind it
    FibNextHops,      \* initial FIB nexthops of the original names, by ascending cost
    NewNextHops,      \* faces a route registration may add as a further nexthop
    MulticastNames,   \* names whose effective strategy is multicast (default: best-route)
    NonLocalFaces,    \* faces whose scope is FACE_SCOPE_NON_LOCAL
    OrigNames,        \* names of original Interests (I1); reflexive names
    RINames,          \* names of producer RIs (carry the RN9999 component)
    FaceToken,        \* PIT token each downstream puts on its I1 (0 = none)
    TokenValues,      \* values generateNonce() may return, 0 included
    RITokens,         \* PIT tokens an RI from the producer may carry
    Nonces,
    Selectors,        \* MustBeFresh values a consumer's Interest may carry
    HopLimits,        \* HopLimit values a received Interest may carry
    NoHop,            \* HopLimit absent
    NackReasons,      \* reasons of Nacks received from neighbours
    DefaultHopLimit,  \* m_config.defaultHopLimit, 0 = not configured
    FreshBelowDnl,    \* Data FreshnessPeriod < DeadNonceList lifetime
    MaxInputs         \* bound on the packets the forwarder receives

ASSUME /\ ProducerFace \notin ConsumerFaces
       /\ FaceToken \in [ConsumerFaces -> Nat]
       /\ 0 \in TokenValues
       /\ OrigNames \cap RINames = {}
       /\ NewNextHops \subseteq ConsumerFaces \cup {ProducerFace}
       /\ MulticastNames \subseteq OrigNames \cup RINames
       /\ MaxInputs \in Nat

VARIABLES
    pit,     \* the live PIT entries, by key (Name + MustBeFresh selector)
    assist,  \* m_pit_assist: the four maps of pit_assist
    dnl,     \* m_deadNonceList: set of <<name, nonce>>
    cs,      \* m_cs: cached Data by name, TRUE while fresh
    out,     \* packets the last step sent, in order
    event,   \* the packet or timer the last step handled
    inputs,  \* packets received so far
    fib      \* m_fib: the nexthops of the original names' prefix, by cost

vars == <<pit, assist, dnl, cs, out, event, inputs, fib>>

Faces == ConsumerFaces \cup {ProducerFace}
Names == OrigNames \cup RINames
Keys == [name : Names, mbf : BOOLEAN]
Key(n, mbf) == [name |-> n, mbf |-> mbf]
NoNack == "none"
Severity == [r \in {"Congestion", "Duplicate", "NoRoute"} |->
                CASE r = "Congestion" -> 50 [] r = "Duplicate" -> 100
                  [] r = "NoRoute" -> 150]

\* StrategyChoice::findEffectiveStrategy: names chosen for multicast, and
\* getDefaultStrategyName (best-route) for every other name.
effectiveStrategy(n) == IF n \in MulticastNames THEN "multicast" ELSE "best-route"

\* Name::isReflexiveName / Interest::isReflexiveInterestFromProducer: every
\* modelled name carries a reflexive component; the RI names carry RN9999.
IsReflexive(n) == n \in Names
IsRIFromProducer(n) == n \in RINames

Pkt(kind, f, n, mbf, nonce, tk, reason, orig) ==
    [kind |-> kind, face |-> f, name |-> n, mbf |-> mbf, nonce |-> nonce,
     tok |-> tk, reason |-> reason, orig |-> orig]
InterestPkt(f, k, nonce, tk, orig) == Pkt("Interest", f, k.name, k.mbf, nonce, tk, NoNack, orig)
NackPkt(f, k, nonce, r) == Pkt("Nack", f, k.name, k.mbf, nonce, 0, r, k)
DataPkt(f, n) == Pkt("Data", f, n, FALSE, 0, 0, NoNack, Key(n, FALSE))
TimerEvent(k) == Pkt("Timer", ProducerFace, k.name, k.mbf, 0, 0, NoNack, k)
SomeName == CHOOSE n \in Names : TRUE
TimeEvent == Pkt("Time", ProducerFace, SomeName, FALSE, 0, 0, NoNack, Key(SomeName, FALSE))

-----------------------------------------------------------------------------
(* pit::Entry: the Interest that created it (Nonce, HopLimit), in-records  *)
(* in insertion order (the strategy takes the first), out-records by face, *)
(* isSatisfied, and whether expiryTimer is scheduled.                      *)
NewEntry(nonce, hop) ==
    [interest |-> [nonce |-> nonce, hop |-> hop], in |-> << >>,
     out |-> [g \in {} |-> g], satisfied |-> FALSE, timer |-> FALSE]

InFaces(e) == {e.in[i].face : i \in DOMAIN e.in}
InRecord(e, f) == CHOOSE r \in ToSet(e.in) : r.face = f

insertOrUpdateInRecord(e, f, nonce, tk) ==
    LET r == [face |-> f, nonce |-> nonce, tok |-> tk]
    IN IF f \in InFaces(e)
       THEN [e EXCEPT !.in = [i \in DOMAIN @ |-> IF @[i].face = f THEN r ELSE @[i]]]
       ELSE [e EXCEPT !.in = Append(@, r)]

deleteInRecord(e, f) == [e EXCEPT !.in = SelectSeq(@, LAMBDA r : r.face # f)]

insertOrUpdateOutRecord(e, f, nonce) ==
    [e EXCEPT !.out = (f :> [nonce |-> nonce, nack |-> NoNack]) @@ @]

deleteOutRecord(e, f) == [e EXCEPT !.out = [g \in DOMAIN @ \ {f} |-> @[g]]]

\* Forwarder::setExpiryTimer: (re)schedule the entry's finalisation.
setExpiryTimer(e) == [e EXCEPT !.timer = TRUE]

\* fw::hasPendingOutRecords: an out-record that has not been Nacked.
hasPendingOutRecords(e) == \E g \in DOMAIN e.out : e.out[g].nack = NoNack

\* fw::findDuplicateNonce, then the point-to-point rule of onIncomingInterest:
\* a duplicate Nonce is a loop unless an in-record of the same face has it.
findDuplicateNonce(e, nonce, f) ==
    {"InSame" : r \in {r \in ToSet(e.in) : r.nonce = nonce /\ r.face = f}}
    \cup {"InOther" : r \in {r \in ToSet(e.in) : r.nonce = nonce /\ r.face # f}}
    \cup {"Out" : g \in {g \in DOMAIN e.out : e.out[g].nonce = nonce}}
IsLoopInPit(e, nonce, f) ==
    LET dnw == findDuplicateNonce(e, nonce, f)
    IN dnw # {} /\ "InSame" \notin dnw

\* Pit::findBasedOnName: the entries whose name is n (either selector).
findBasedOnName(p, n) == {k \in DOMAIN p : k.name = n}

\* Forwarder::insertDeadNonceList: needDnl for an entry of key k.
needDnl(k, e) == ~e.satisfied \/ (k.mbf /\ FreshBelowDnl)

\* Data reaches the content store fresh: FreshnessPeriod is 10 s in the apps.
CsHit(n, mbf) == n \in DOMAIN cs /\ (~mbf \/ cs[n])

-----------------------------------------------------------------------------
(* pit_assist (assist.hpp): Name -> token generated for the next hop, its   *)
(* reverse, Name -> token the previous hop gave, and its reverse.  Rows are *)
(* write-once and nothing in the forwarder ever removes one.                *)
NoAssist == [n2t |-> [n \in {} |-> 0], t2n |-> [t \in {} |-> "x"],
             n2p |-> [n \in {} |-> 0], p2n |-> [t \in {} |-> "x"]]

\* Mutant: the retry loop without the collision check.
generateTokenAnyNonzero(a) == {t \in TokenValues : t # 0}

\* pit_assist::generateToken: the tokens its retry loop can return.
generateToken(a) == {t \in TokenValues : t # 0 /\ t \notin DOMAIN a.t2n}

\* Mutant: the previous-hop map and its reverse written the wrong way round.
createNameSwapped(a, n, prev, t) ==
    [n2t |-> (n :> t) @@ a.n2t, t2n |-> (t :> n) @@ a.t2n,
     n2p |-> (prev :> n) @@ a.n2p, p2n |-> (n :> prev) @@ a.p2n]

\* pit_assist::createName: generate a token and write the four rows.
createName(a, n, prev, t) ==
    [n2t |-> (n :> t) @@ a.n2t, t2n |-> (t :> n) @@ a.t2n,
     n2p |-> (n :> prev) @@ a.n2p, p2n |-> (prev :> n) @@ a.p2n]

\* pit_assist lookups.  tokenToName reports a missing row (the empty set
\* here); nameToToken and nameToPrevToken return 0 for one.
tokenToName(a, t) == IF t \in DOMAIN a.t2n THEN {a.t2n[t]} ELSE {}
nameToToken(a, n) == IF n \in DOMAIN a.n2t THEN a.n2t[n] ELSE 0
nameToPrevToken(a, n) == IF n \in DOMAIN a.n2p THEN a.n2p[n] ELSE 0

\* onIncomingInterest lines 154-172: the index after a reflexive I1 arrives.
AssistAfterInterest(a, n, prev) ==
    IF ~IsReflexive(n) \/ n \in DOMAIN a.n2t THEN {a}
    ELSE {createName(a, n, prev, t) : t \in generateToken(a)}

-----------------------------------------------------------------------------
(* Pipelines.  Each returns the set of possible [pit, out] outcomes.       *)
Result(p, o) == [pit |-> p, out |-> o]

\* onIncomingInterest line 102-111 and the default HopLimit of the CS-miss
\* and RI pipelines.
DecrementHop(h) == IF h = NoHop THEN NoHop ELSE h - 1
AttachHop(h) == IF h = NoHop /\ DefaultHopLimit > 0 THEN DefaultHopLimit ELSE h

\* Mutant: the egress tag taken from the previous-hop map.
onOutgoingInterestPrevToken(p, k, egress, nonce, hop, a) ==
    IF hop = 0 /\ egress \in NonLocalFaces
    THEN Result(p, << >>)
    ELSE Result([p EXCEPT ![k] = insertOrUpdateOutRecord(@, egress, nonce)],
                <<InterestPkt(egress, k, nonce,
                              IF IsReflexive(k.name) THEN nameToPrevToken(a, k.name) ELSE 0, k)>>)

\* onOutgoingInterest for an Interest that is not an RI: the PIT token is
\* the one generated for the next hop.
onOutgoingInterest(p, k, egress, nonce, hop, a) ==
    IF hop = 0 /\ egress \in NonLocalFaces
    THEN Result(p, << >>)
    ELSE Result([p EXCEPT ![k] = insertOrUpdateOutRecord(@, egress, nonce)],
                <<InterestPkt(egress, k, nonce,
                              IF IsReflexive(k.name) THEN nameToToken(a, k.name) ELSE 0, k)>>)

\* Strategy::sendNack -> onOutgoingNack: needs an in-record on the face,
\* sends the Nack and erases that in-record.
onOutgoingNack(p, k, egress, r) ==
    IF egress \in InFaces(p[k])
    THEN Result([p EXCEPT ![k] = deleteInRecord(@, egress)],
                <<NackPkt(egress, k, InRecord(p[k], egress).nonce, r)>>)
    ELSE Result(p, << >>)

\* BestRouteStrategy::afterReceiveInterest, non-RI branch, after the entry's
\* in-record was written (p).  Retransmission suppression is timing: with a
\* pending out-record the strategy may SUPPRESS or FORWARD.
Eligible(f) == {i \in DOMAIN fib : fib[i] # f}
afterReceiveInterest(p, k, f, nonce, hop, a) ==
    LET elig == Eligible(f)
        unused == {i \in elig : fib[i] \notin DOMAIN p[k].out}
        rejected == onOutgoingNack(p, k, f, "NoRoute")
    IN IF ~hasPendingOutRecords(p[k])
       THEN IF elig = {} THEN {rejected}
            ELSE {onOutgoingInterest(p, k, fib[Min(elig)], nonce, hop, a)}
       ELSE {Result(p, << >>)}
            \cup (IF unused # {}
                  THEN {onOutgoingInterest(p, k, fib[Min(unused)], nonce, hop, a)}
                  ELSE {onOutgoingInterest(p, k, fib[i], nonce, hop, a) : i \in elig}
                       \cup (IF elig = {} THEN {Result(p, << >>)} ELSE {}))

\* onOutgoingInterest for an RI from the producer: the tag restored from
\* the original name's previous-hop token, the out-record put on the RI's
\* own entry k.
onOutgoingRI(p, ko, k, egress, nonce, h, a) ==
    IF h = 0 /\ egress \in NonLocalFaces
    THEN Result(p, << >>)
    ELSE Result([p EXCEPT ![k] = insertOrUpdateOutRecord(@, egress, nonce)],
                <<InterestPkt(egress, k, nonce, nameToPrevToken(a, ko.name), ko)>>)

\* Strategy::sendInterest of Interest k with the entry ko the strategy was
\* given: ko is k itself except for an RI, handed over with the original
\* entry.
sendInterest(p, ko, k, g, nonce, h, a) ==
    IF ko = k THEN onOutgoingInterest(p, k, g, nonce, h, a)
    ELSE onOutgoingRI(p, ko, k, g, nonce, h, a)

\* The outgoing pipeline applied to each face of gs in turn.
SendEach(p, gs, ko, k, nonce, h, a) ==
    FoldLeft(LAMBDA r, g : LET s == sendInterest(r.pit, ko, k, g, nonce, h, a)
                           IN Result(s.pit, r.out \o s.out),
             Result(p, << >>), gs)

\* MulticastStrategy::afterReceiveInterest on entry ko: every eligible FIB
\* nexthop in cost order gets the Interest unless retransmission
\* suppression holds it back there (timing); a nexthop without an
\* out-record of ko is NEW and never suppressed.
multicastAfterReceiveInterest(p, ko, k, f, nonce, h, a) ==
    LET elig == {fib[i] : i \in Eligible(f)}
        new == {g \in elig : g \notin DOMAIN p[ko].out}
    IN {SendEach(p, SelectSeq(fib, LAMBDA g : g \in S), ko, k, nonce, h, a)
          : S \in {T \in SUBSET elig : new \subseteq T}}

\* onContentStoreMiss: in-record, expiry timer, token tag, then the
\* effective strategy of the entry.
onContentStoreMiss(p, k, f, nonce, tk, hop, a) ==
    LET p1 == [p EXCEPT ![k] = setExpiryTimer(insertOrUpdateInRecord(@, f, nonce, tk))]
    IN IF effectiveStrategy(k.name) = "multicast"
       THEN multicastAfterReceiveInterest(p1, k, k, f, nonce, AttachHop(hop), a)
       ELSE afterReceiveInterest(p1, k, f, nonce, AttachHop(hop), a)

\* onContentStoreHit -> Strategy::afterContentStoreHit: the cached Data goes
\* back on the ingress face; the entry is satisfied and expires now.
onContentStoreHit(p, k, f) ==
    Result([p EXCEPT ![k] = setExpiryTimer([deleteInRecord(@, f) EXCEPT !.satisfied = TRUE])],
           <<DataPkt(f, k.name)>>)

\* Mutant: the RI branch of the strategy forwarding by the FIB it looks up.
afterReceiveRIByFib(p, ko, k, f, nonce, h, a) ==
    onOutgoingRI(p, ko, k, fib[1], nonce, h, a)

\* BestRouteStrategy::afterReceiveInterest, RI branch, on the original
\* entry ko: the RI goes to its first in-record face; without one the
\* strategy sends a NO_ROUTE Nack through ko and rejects it.
afterReceiveRI(p, ko, k, f, nonce, h, a) ==
    IF p[ko].in = << >>
    THEN LET r == onOutgoingNack(p, ko, f, "NoRoute")
         IN Result([r.pit EXCEPT ![ko] = setExpiryTimer(@)], r.out)
    ELSE onOutgoingRI(p, ko, k, p[ko].in[1].face, nonce, h, a)

\* Mutant: the RI's in-record added without setting its expiry timer.
onSendingRINoTimer(p, k, f, nonce, tk, hop) ==
    IF tk = 0 THEN {Result(p, <<NackPkt(f, k, nonce, "None")>>)}
    ELSE IF tokenToName(assist, tk) = {} THEN {Result(p, <<NackPkt(f, k, nonce, "NoRoute")>>)}
    ELSE LET on == CHOOSE x \in tokenToName(assist, tk) : TRUE
             p1 == [p EXCEPT ![k] = insertOrUpdateInRecord(@, f, nonce, nameToPrevToken(assist, on))]
         IN IF findBasedOnName(p, on) = {} THEN {Result(p, << >>)}
            ELSE UNION {IF effectiveStrategy(k.name) = "multicast"
                        THEN multicastAfterReceiveInterest(p1, ko, k, f, nonce, AttachHop(hop), assist)
                        ELSE {afterReceiveRI(p1, ko, k, f, nonce, AttachHop(hop), assist)}
                        : ko \in findBasedOnName(p, on)}

\* onSendingRI, given the PIT after the RI's own insert (p): Nack an RI
\* without a token or with an unknown one; return silently without the
\* original entry; else tag it, add its in-record and expiry timer, and
\* hand it to the strategy with the original entry.
onSendingRI(p, k, f, nonce, tk, hop) ==
    IF tk = 0 THEN {Result(p, <<NackPkt(f, k, nonce, "None")>>)}
    ELSE IF tokenToName(assist, tk) = {} THEN {Result(p, <<NackPkt(f, k, nonce, "NoRoute")>>)}
    ELSE LET on == CHOOSE x \in tokenToName(assist, tk) : TRUE
             p1 == [p EXCEPT ![k] = setExpiryTimer(insertOrUpdateInRecord(@, f, nonce,
                                                      nameToPrevToken(assist, on)))]
         IN IF findBasedOnName(p, on) = {} THEN {Result(p, << >>)}
            ELSE UNION {IF effectiveStrategy(k.name) = "multicast"
                        THEN multicastAfterReceiveInterest(p1, ko, k, f, nonce, AttachHop(hop), assist)
                        ELSE {afterReceiveRI(p1, ko, k, f, nonce, AttachHop(hop), assist)}
                        : ko \in findBasedOnName(p, on)}

\* Forwarder::onIncomingInterest, the whole pipeline for one Interest.
onIncomingInterest(f, n, mbf, nonce, tk, hop) ==
    LET k == Key(n, mbf)
        p == IF k \in DOMAIN pit THEN pit ELSE (k :> NewEntry(nonce, DecrementHop(hop))) @@ pit
    IN /\ inputs < MaxInputs
       /\ inputs' = inputs + 1
       /\ event' = Pkt("Interest", f, n, mbf, nonce, tk, NoNack, k)
       /\ UNCHANGED <<dnl, cs, fib>>
       /\ \/ /\ hop = 0                                   \* HopLimit zero: drop
             /\ out' = << >>
             /\ UNCHANGED <<pit, assist>>
          \/ /\ hop # 0
             /\ <<n, nonce>> \in dnl                      \* onInterestLoop
             /\ out' = <<NackPkt(f, k, nonce, "Duplicate")>>
             /\ UNCHANGED <<pit, assist>>
          \/ /\ hop # 0
             /\ <<n, nonce>> \notin dnl
             /\ IsRIFromProducer(n)
             /\ \E r \in onSendingRI(p, k, f, nonce, tk, DecrementHop(hop)) :
                   pit' = r.pit /\ out' = r.out
             /\ UNCHANGED assist
          \/ /\ hop # 0
             /\ <<n, nonce>> \notin dnl
             /\ ~IsRIFromProducer(n)
             /\ \E a \in AssistAfterInterest(assist, n, tk) :
                   /\ assist' = a
                   /\ IF IsLoopInPit(p[k], nonce, f)
                      THEN pit' = p /\ out' = <<NackPkt(f, k, nonce, "Duplicate")>>
                      ELSE \E r \in IF p[k].in = << >> /\ CsHit(n, mbf)
                                    THEN {onContentStoreHit(p, k, f)}
                                    ELSE onContentStoreMiss(p, k, f, nonce, tk, DecrementHop(hop), a) :
                              pit' = r.pit /\ out' = r.out

-----------------------------------------------------------------------------
\* onIncomingData, single match: Strategy::afterReceiveData sends the Data
\* to every in-record face but the ingress (sendDataToAll), each sendData
\* erasing its in-record; then satisfied, Dead Nonce List, out-record.
DataDownstreams(e, f) == InFaces(e) \ {f}
\* onIncomingData, several matches: the union of their in-record faces.
PendingDownstreams(p, ks, f) == SetToSeq(UNION {InFaces(p[k]) : k \in ks} \ {f})

SatisfyByData(k, e, f) ==
    setExpiryTimer(deleteOutRecord([e EXCEPT !.satisfied = TRUE], f))
DnlOnData(k, e, f) ==
    IF needDnl(k, [e EXCEPT !.satisfied = TRUE]) /\ f \in DOMAIN e.out
    THEN {<<k.name, e.out[f].nonce>>} ELSE {}

onIncomingData(f, n) ==
    LET ks == {k \in DOMAIN pit : k.name = n}
    IN /\ inputs < MaxInputs
       /\ inputs' = inputs + 1
       /\ event' = DataPkt(f, n)
       /\ UNCHANGED <<assist, fib>>
       /\ \/ /\ ks = {}                                   \* onDataUnsolicited: drop
             /\ out' = << >>
             /\ UNCHANGED <<pit, dnl, cs>>
          \/ /\ Cardinality(ks) = 1
             /\ cs' = (n :> TRUE) @@ cs
             /\ \E k \in ks :
                  LET downs == SetToSeq(DataDownstreams(pit[k], f))
                      e1 == [pit[k] EXCEPT !.in = SelectSeq(@, LAMBDA r : r.face \notin ToSet(downs))]
                  IN /\ pit' = [pit EXCEPT ![k] = SatisfyByData(k, e1, f)]
                     /\ dnl' = dnl \cup DnlOnData(k, e1, f)
                     /\ out' = [i \in DOMAIN downs |-> DataPkt(downs[i], n)]
          \/ /\ Cardinality(ks) > 1
             /\ cs' = (n :> TRUE) @@ cs
             /\ pit' = [k \in DOMAIN pit |->
                          IF k \in ks THEN SatisfyByData(k, [pit[k] EXCEPT !.in = << >>], f)
                          ELSE pit[k]]
             /\ dnl' = dnl \cup UNION {DnlOnData(k, pit[k], f) : k \in ks}
             /\ LET downs == PendingDownstreams(pit, ks, f)
                IN out' = [i \in DOMAIN downs |-> DataPkt(downs[i], n)]

-----------------------------------------------------------------------------
\* ProcessNackTraits::processNack (afterReceiveNack of best-route): when no
\* out-record is left un-Nacked, Nack every downstream with the least severe
\* reason; when one is left and it is also a downstream, Nack that face.
LeastSevere(e) ==
    LET rs == {e.out[g].nack : g \in DOMAIN e.out}
    IN CHOOSE r \in rs : \A s \in rs : Severity[r] <= Severity[s]

processNack(p, k) ==
    LET e == p[k]
        notNacked == {g \in DOMAIN e.out : e.out[g].nack = NoNack}
    IN IF notNacked = {}
       THEN LET downs == SetToSeq(InFaces(e))
            IN Result([p EXCEPT ![k] = [@ EXCEPT !.in = << >>]],
                      [i \in DOMAIN downs |->
                         NackPkt(downs[i], k, InRecord(e, downs[i]).nonce, LeastSevere(e))])
       ELSE IF Cardinality(notNacked) = 1 /\ notNacked \subseteq InFaces(e)
       THEN LET g == CHOOSE g \in notNacked : TRUE
            IN onOutgoingNack(p, k, g, LeastSevere([e EXCEPT !.out = [x \in DOMAIN e.out \ {g} |-> e.out[x]]]))
       ELSE Result(p, << >>)

\* onIncomingNack: a PIT entry with an out-record on the face, same Nonce.
NackMatchesOutRecord(k, f, nonce) ==
    /\ k \in DOMAIN pit
    /\ f \in DOMAIN pit[k].out
    /\ pit[k].out[f].nonce = nonce

\* Forwarder::onIncomingNack.
onIncomingNack(f, n, mbf, nonce, reason) ==
    LET k == Key(n, mbf)
    IN /\ inputs < MaxInputs
       /\ inputs' = inputs + 1
       /\ event' = Pkt("Nack", f, n, mbf, nonce, 0, reason, k)
       /\ UNCHANGED <<assist, dnl, cs, fib>>
       /\ \/ /\ ~NackMatchesOutRecord(k, f, nonce)       \* no PIT entry, no out-record
             /\ out' = << >>                              \* or Nonce mismatch: drop
             /\ UNCHANGED pit
          \/ /\ NackMatchesOutRecord(k, f, nonce)
             /\ LET e1 == [pit[k] EXCEPT !.out[f].nack = reason]
                    p1 == [pit EXCEPT ![k] =
                            IF hasPendingOutRecords(e1) THEN e1 ELSE setExpiryTimer(e1)]
                    r == IF effectiveStrategy(n) = "multicast" THEN Result(p1, << >>) ELSE processNack(p1, k)
                IN pit' = r.pit /\ out' = r.out

-----------------------------------------------------------------------------
\* The expiry timer fires: Forwarder::onInterestFinalize.  The PIT entry is
\* erased; its pit_assist row is not.
onInterestFinalize(k) ==
    /\ k \in DOMAIN pit
    /\ pit[k].timer
    /\ dnl' = dnl \cup (IF needDnl(k, pit[k])
                        THEN {<<k.name, pit[k].out[g].nonce>> : g \in DOMAIN pit[k].out}
                        ELSE {})
    /\ pit' = [x \in DOMAIN pit \ {k} |-> pit[x]]
    /\ out' = << >>
    /\ event' = TimerEvent(k)
    /\ UNCHANGED <<assist, cs, inputs, fib>>

\* Time passes for the Dead Nonce List and the Content Store.
DnlExpire ==
    /\ \E x \in dnl : dnl' = dnl \ {x}
    /\ out' = << >>
    /\ event' = TimeEvent
    /\ UNCHANGED <<pit, assist, cs, inputs, fib>>

CsAge ==
    /\ \E n \in DOMAIN cs :
          \/ /\ cs[n]
             /\ cs' = [cs EXCEPT ![n] = FALSE]           \* Data becomes stale
          \/ cs' = [x \in DOMAIN cs \ {n} |-> cs[x]]      \* cache policy evicts
    /\ out' = << >>
    /\ event' = TimeEvent
    /\ UNCHANGED <<pit, assist, dnl, inputs, fib>>

-----------------------------------------------------------------------------
\* Mutant: only the first in-record is tried (the loop breaks too early).
multicastAfterNewNextHopFirstOnly(p, k, g) ==
    IF p[k].in # << >> /\ p[k].in[1].face # g
    THEN onOutgoingInterest(p, k, g, p[k].interest.nonce, AttachHop(p[k].interest.hop), assist)
    ELSE Result(p, << >>)

\* MulticastStrategy::afterNewNextHop: the entry's Interest goes to the new
\* nexthop when some in-record face is eligible for it (not that face).
multicastAfterNewNextHop(p, k, g) ==
    IF \E i \in DOMAIN p[k].in : p[k].in[i].face # g
    THEN onOutgoingInterest(p, k, g, p[k].interest.nonce, AttachHop(p[k].interest.hop), assist)
    ELSE Result(p, << >>)

\* A route registration adds face g as the costliest nexthop of the
\* original names' prefix; Forwarder::onNewNextHop then hands every PIT
\* entry under it to its strategy.  Best-route keeps the default
\* Strategy::afterNewNextHop, which does nothing.
onNewNextHop(g) ==
    /\ g \notin ToSet(fib)
    /\ fib' = Append(fib, g)
    /\ LET ks == SetToSeq({k \in DOMAIN pit : k.name \in OrigNames /\ effectiveStrategy(k.name) = "multicast"})
           r == FoldLeft(LAMBDA acc, k : LET s == multicastAfterNewNextHop(acc.pit, k, g)
                                         IN Result(s.pit, acc.out \o s.out),
                         Result(pit, << >>), ks)
       IN pit' = r.pit /\ out' = r.out
    /\ event' = Pkt("Route", g, SomeName, FALSE, 0, 0, NoNack, Key(SomeName, FALSE))
    /\ UNCHANGED <<assist, dnl, cs, inputs>>

-----------------------------------------------------------------------------
(* What the neighbours send: consumers send I1 (with their PIT token), Data *)
(* answering RIs, and Nacks; the producer sends RIs carrying any token,     *)
(* Data answering I1, and Nacks.                                            *)
ReceiveInterest ==
    \/ \E f \in ConsumerFaces, n \in OrigNames, mbf \in Selectors,
          nonce \in Nonces, hop \in HopLimits :
          onIncomingInterest(f, n, mbf, nonce, FaceToken[f], hop)
    \/ \E n \in RINames, nonce \in Nonces, tk \in RITokens, hop \in HopLimits :
          onIncomingInterest(ProducerFace, n, FALSE, nonce, tk, hop)

ReceiveData ==
    \/ \E n \in OrigNames : onIncomingData(ProducerFace, n)
    \/ \E f \in ConsumerFaces, n \in RINames : onIncomingData(f, n)

ReceiveNack ==
    \/ \E n \in OrigNames, mbf \in Selectors, nonce \in Nonces, r \in NackReasons :
          onIncomingNack(ProducerFace, n, mbf, nonce, r)
    \/ \E f \in ConsumerFaces, n \in RINames, nonce \in Nonces, r \in NackReasons :
          onIncomingNack(f, n, FALSE, nonce, r)

Tokens == TokenValues \cup RITokens \cup {FaceToken[f] : f \in ConsumerFaces}
InRec == [face : Faces, nonce : Nonces, tok : Tokens]
OutRec == [nonce : Nonces, nack : NackReasons \cup {NoNack}]
PartialFns(D, R) == UNION {[S -> R] : S \in SUBSET D}
Packets == [kind : {"Interest", "Data", "Nack", "Timer", "Time", "Route"}, face : Faces,
            name : Names, mbf : BOOLEAN, nonce : Nonces \cup {0}, tok : Tokens,
            reason : {"None", "NoRoute", "Duplicate", NoNack} \cup NackReasons, orig : Keys]

TypeOK ==
    /\ DOMAIN pit \subseteq Keys
    /\ \A k \in DOMAIN pit :
          /\ pit[k].interest \in [nonce : Nonces, hop : HopLimits \cup {DefaultHopLimit}]
          /\ pit[k].in \in Seq(InRec)
          /\ pit[k].out \in PartialFns(Faces, OutRec)
          /\ pit[k].satisfied \in BOOLEAN
          /\ pit[k].timer \in BOOLEAN
    /\ assist.n2t \in PartialFns(OrigNames, TokenValues)
    /\ assist.t2n \in PartialFns(TokenValues, OrigNames)
    /\ assist.n2p \in PartialFns(OrigNames, Tokens)
    /\ assist.p2n \in PartialFns(Tokens, OrigNames)
    /\ dnl \subseteq Names \X Nonces
    /\ cs \in PartialFns(Names, BOOLEAN)
    /\ out \in Seq(Packets)
    /\ event \in Packets
    /\ inputs \in 0..MaxInputs
    /\ fib \in Seq(Faces)

Init ==
    /\ pit = [k \in {} |-> NewEntry(0, NoHop)]
    /\ assist = NoAssist
    /\ dnl = {}
    /\ cs = [n \in {} |-> TRUE]
    /\ out = << >>
    /\ event = TimeEvent
    /\ inputs = 0
    /\ fib = FibNextHops

Next ==
    \/ ReceiveInterest
    \/ ReceiveData
    \/ ReceiveNack
    \/ \E k \in DOMAIN pit : onInterestFinalize(k)
    \/ DnlExpire
    \/ CsAge
    \/ \E g \in NewNextHops : onNewNextHop(g)

\* The scheduler eventually runs every expiry timer it holds.
Spec == Init /\ [][Next]_vars /\ \A k \in Keys : WF_vars(onInterestFinalize(k))

-----------------------------------------------------------------------------
(***************************************************************************)
(* Properties                                                              *)
(***************************************************************************)

\* Token index (assist.hpp createName/generateToken): the generated tokens
\* and the names are in one-to-one correspondence through nameToToken and
\* tokenToName, no name is given the reserved token 0, and every name with
\* a generated token has a previous-hop token.  A second reflexive name
\* drawing a token already in use would make an RI for one exchange route
\* through the other.
TokenIndexConsistent ==
    /\ \A n \in DOMAIN assist.n2t :
          /\ assist.n2t[n] # 0
          /\ assist.n2t[n] \in DOMAIN assist.t2n
          /\ assist.t2n[assist.n2t[n]] = n
    /\ \A t \in DOMAIN assist.t2n : assist.n2t[assist.t2n[t]] = t
    /\ DOMAIN assist.n2p = DOMAIN assist.n2t

\* onOutgoingInterest: every reflexive Interest the forwarder sends toward
\* the producer carries a PIT token that tokenToName resolves to that
\* Interest's own name, so the producer's RI echoing it can be routed back.
UpstreamTokenResolves ==
    \A i \in DOMAIN out :
        (out[i].kind = "Interest" /\ out[i].name \in OrigNames) =>
            /\ out[i].tok \in DOMAIN assist.t2n
            /\ assist.t2n[out[i].tok] = out[i].name

\* onSendingRI and the RI entry's strategy: an RI from the producer is only
\* ever sent on a face that holds an in-record of a live PIT entry of the
\* original exchange its token names, never along the FIB (the
\* specification's data flow and 4.6 step 7), whichever strategy the RI's
\* name has: best-route's RI branch, or multicast, which has none.
RIReturnsToRequester ==
    \A i \in DOMAIN out :
        (out[i].kind = "Interest" /\ IsRIFromProducer(out[i].name)) =>
            /\ out[i].orig \in DOMAIN pit
            /\ out[i].face \in InFaces(pit[out[i].orig])
            /\ assist.t2n[event.tok] = out[i].orig.name


\* Multicast (afterReceiveInterest, afterNewNextHop via onNewNextHop): a
\* pending, unsatisfied entry of a multicast name has been sent to every
\* FIB nexthop that one of its in-record faces is eligible for, whether the
\* nexthop was there when the Interests arrived or was added while the
\* entry waited; only the HopLimit may hold it back on a non-local face.
MulticastReachesEveryNextHop ==
    \A k \in DOMAIN pit :
        (k.name \in MulticastNames \cap OrigNames /\ ~pit[k].satisfied) =>
            \A g \in ToSet(fib) :
                (\E i \in DOMAIN pit[k].in : pit[k].in[i].face # g) =>
                    \/ g \in DOMAIN pit[k].out
                    \/ g \in NonLocalFaces /\ AttachHop(pit[k].interest.hop) = 0

RIAnswered ==
    [][(inputs' > inputs /\ event'.kind = "Interest" /\ IsRIFromProducer(event'.name)) =>
         \E i \in DOMAIN out' :
             \/ out'[i].kind = "Interest"
             \/ out'[i].kind = "Nack" /\ out'[i].face = event'.face
      ]_vars

\* PIT lifecycle (spec 3 and 5): every PIT entry has an expiry timer, so every
\* entry the pipelines insert is eventually erased.  It is about the insert at
\* forwarder.cpp:144 and the early returns of onSendingRI (lines 231-259)
\* that leave before setExpiryTimer (line 290).
PitEntriesEventuallyErased ==
    \A k \in Keys : [](k \in DOMAIN pit => <>(k \notin DOMAIN pit))

=============================================================================
