# TLA+ models of the reflexive-forwarding NDN forwarder

This directory holds TLC-checkable TLA+ models of the modified NFD forwarder and ndn-cxx
name library under `src/`. They cover the Reflexive Interest (RI) extension:
- a consumer sends I1;
- the producer answers with an RI that is routed back by PIT token;
- the consumer answers the RI with RD;
- the producer finally replies D1.

## 1. The system

| Part | Source | State | Operations |
|---|---|---|---|
| Forwarding pipelines | `src/Mods/NFD/daemon/fw/forwarder.cpp` | PIT, Dead Nonce List (DNL), Content Store (CS), config | onIncomingInterest, onInterestLoop, onSendingRI, onContentStoreMiss/Hit, onOutgoingInterest, onInterestFinalize, onIncomingData, onDataUnsolicited, onOutgoingData, onIncomingNack, onOutgoingNack, setExpiryTimer, insertDeadNonceList, processConfig |
| PIT | `src/Mods/NFD/daemon/table/pit.hpp` | entries keyed by Name and MustBeFresh; ordered in-records, out-records (Nonce, Nack), satisfied flag, expiry timer | find, insert, findBasedOnName, findAllDataMatches, erase |
| pit_assist token index | `src/Mods/NFD/daemon/table/assist.hpp` | four maps: name→token, token→name, name→previous-hop token, previous-hop token→name | createName, existName, generateToken, the four lookups |
| Best-route strategy | `src/Mods/NFD/daemon/fw/best-route-strategy.cpp` | retransmission suppression (timing) | afterReceiveInterest (RI branch, NEW, retransmission), afterReceiveNack |
| Multicast strategy | `src/Mods/NFD/daemon/fw/multicast-strategy.cpp` | same as best-route | afterReceiveInterest, afterNewNextHop (called by Forwarder::onNewNextHop when a route registration adds a nexthop) |
| Name components | `src/Mods/ndn-cxx/name-component.cpp` | type and bytes | fromEscapedString, RNfromEscapedString, toUri, isNumber, toNumber, isReflexive, isRN9999 |
| Name and Interest filter | `src/Mods/ndn-cxx/name.cpp`, `interest-filter.cpp` | sequence of components | Name(uri, isRN), toUri, isPrefixOf, doesMatch |
| RI applications | `src/Experiments/consumer-producer_RI/*.cpp` | the app's pending Interest, the RD count | consumer: express I1, answer RI with RD. Producer: on I1 send RI, on RD send RI2 or D1 |
| PIT-token codec | `src/Experiments/consumer-producer_RI/assist.hpp` | none | setPitToken / readPitToken, 4 bytes little-endian |
| Not about forwarding | nfdc command parser, RIB readvertise destination, DNS, TCP/Unix transports, security library, unit tests | none | none |

How the parts interact:
- Each received packet runs through the forwarder's pipelines to completion on NFD's single-threaded event loop. One packet is therefore one atomic step.
- A reflexive I1 creates a pit_assist row. The row holds a fresh token for the next hop and the token the previous hop gave.
- onOutgoingInterest tags the I1 with the fresh token.
- The producer's RI echoes that token. onSendingRI resolves it to the original name and PIT entry. The strategy sends the RI out on the first in-record face of that entry, tagged with the previous hop's token.
- The expiry timer, the only clock, erases entries. The pit_assist rows are never erased: onInterestFinalize erases the PIT entry (forwarder.cpp:468), and pit_assist has no erase operation, so a later I1 of the same name reuses the stale previous-hop token (finding 1).
- A route registration that adds a nexthop to the FIB calls Forwarder::onNewNextHop. That hands every PIT entry under the prefix to its strategy's afterNewNextHop. Best-route ignores it; multicast sends the pending Interest to the new nexthop.
- The consumer and producer applications of `consumer-producer_RI` run on their own event loops. They talk to the forwarder through their faces.

What is hard here, and a test would hardly reach:
- Interleavings of two consumers, the producer's Nacks, Data, expiry timers and DNL expiry between I1 and RI.
- A stale token row surviving its exchange.
- Early returns that skip the expiry timer.
- Hop-limit drops in the middle of a pipeline, after some state was already written.
- One Data matching several entries.
- Byte-level edge cases in how a component is classified as reflexive or as the producer sentinel 9999.

## 2. Modules

| Module | Models | State (VARIABLES) | Actions |
|---|---|---|---|
| `Forwarder` | forwarder.cpp, pit.hpp, assist.hpp, best-route-strategy.cpp, multicast-strategy.cpp | `pit`, `assist`, `dnl`, `cs`, `fib` (nexthops of the original names' prefix), `out` (packets the last step sent), `event` (the packet or timer handled), `inputs` (bound) | `onIncomingInterest`, `onIncomingData`, `onIncomingNack` (each a whole pipeline, strategy and outgoing pipelines included), `onInterestFinalize`, `DnlExpire`, `CsAge`, `onNewNextHop` |
| `MC_Forwarder` | model values for faces and names; token, Nonce and HopLimit sets | none | none |
| `Exchange` (+ `MC_Exchange`) | consumer.cpp (one copy per consumer face) and producer.cpp composed with `Forwarder` | Forwarder's, plus `up`/`down` (FIFO link per face and direction), `cons[c]` per consumer face, `prod`, `lost` (history: a link lost a packet) | `ConsumerRun(c)`, `ConsumerReceive(c)`, `ConsumerTimeout(c)`, `ProducerReceive`, `ProducerTimeout`, `ForwarderReceive(f)`, `ForwarderTime`, `Lose` |
| `RIExchange` | the exchange the experiment promises (scenario S1), abstract | `phase`, `lost` | one step per phase, `Lose`, `Fail` |
| `PitToken` | setPitToken / readPitToken (Experiments assist.hpp); instantiated by `Exchange` as `Codec` | none (operators) | none |
| `NameComponent` | name-component.cpp; the two URI constructors of name.cpp with their scheme, authority and `/` splitting (`SplitUri`); Name::toUri and Component::toUri (`NameToUri`, `ComponentToUri`) | none (operators) | none |
| `NameParse` | one component text parsed in either mode | `text`, `isRN` | `ParseOtherMode` |
| `NameMatch` (+ `MC_NameMatch`) | interest-filter.cpp doesMatch; name.cpp isPrefixOf, compare, equals; Component::compare and wireEncode | `filter`, `name` | `SetInterestFilter`, `ReceiveInterest` |

### How Forwarder corresponds to the code

- Pipelines are operators that return the set of possible `[pit, out]` outcomes. Choices the code leaves to timing are nondeterministic: retransmission suppression, and which PIT entry `findBasedOnName` returns.
- `onIncomingInterest` follows the code's order:
  1. HopLimit zero: drop.
  2. DNL hit: onInterestLoop, Nack Duplicate.
  3. PIT insert.
  4. The producer RI goes to onSendingRI.
  5. Otherwise, the pit_assist row is created if absent.
  6. Duplicate Nonce loop.
  7. CS hit or miss.
- onSendingRI returns early on token 0 (Nack None) and on an unknown token (Nack NoRoute). Neither early return sets a timer. It drops silently when the original entry is gone. Otherwise it writes the in-record and the timer, then hands the RI and the original entry to the RI entry's strategy.
  - Best-route's RI branch Nacks through the original entry, or forwards on its first in-record face with the tag `nameToPrevToken`.
  - Multicast has no RI branch. It forwards along the FIB of the original entry (finding 7).
- The effective strategy is best-route (`getDefaultStrategyName`) except for the names in the constant `MulticastNames`.
  - Multicast's afterReceiveInterest sends to every eligible nexthop in cost order. A nexthop with an out-record may be suppressed.
  - Its afterReceiveNack is the base-class default, which does nothing.
- `onNewNextHop(g)` appends face g to `fib` as the costliest nexthop and visits every PIT entry of the original names. A multicast entry sends its stored Interest (`pit[k].interest`: the first Interest's Nonce and HopLimit) to g, if some in-record face other than g is eligible. Best-route entries keep the default, which does nothing.
- Data follows the single-match and multiple-match branches, including DNL insertion and out-record deletion.
- A Nack updates the out-record, sets the timer when no out-record is pending, then runs the strategy's afterReceiveNack.

### Helpers not under `src/`

- These are marked `spec_modelled` in PROJECT.json: pit-entry record updates, `hasPendingOutRecords`, `findDuplicateNonce`, `processNack`'s least-severe reason, `Strategy::sendInterest`, DNL and CS ageing, the TLV type numbers of the name codec.
- They follow NFD's documented behaviour and the specification.
- `Strategy::sendData` erasing the in-record is why D1 leaves the original entry without in-records.

### How Exchange corresponds to the code

- Each face has two FIFO links: `up[f]` from the application and `down[f]` to it. One step of `ForwarderReceive(f)` takes the head of `up[f]` through the whole pipeline and appends what it sends to the egress faces' `down` links. One step of an application takes the head of its `down` link through its handler.
  - The consumers: every face in `ConsumerFaces` runs consumer.cpp with its own state `cons[c]`. `run` expresses I1 with token 2345 and the face's Nonce; `onInterest` answers an RI with RD, and dies on an untagged one. Faces draw random 32-bit Nonces, so distinct consumers are given distinct ones (`ConsumerNonce`). `PhaseOf` and the refinement follow the one consumer `Consumer`.
  - The producer: `onInterest` reflects the first I1 only; `datacallback` sends RI2 on the first RD and D1 on the second.
- Lifetimes (I1 5 s, freshness 10 s) are far longer than local delivery, so timers fire only when no packet is in flight (`Idle`).
- PIT tokens travel as byte vectors. The consumer tags I1 with `setPitToken(2345)`. `TagValue` is the forwarder's `pitTokenTag == nullptr ? 0 : readPitToken(...)`. `OnWire` is onOutgoingInterest restoring `setPitToken` of the next-hop or previous-hop token on a reflexive Interest (forwarder.cpp:427); other Interests, Data and Nacks carry no tag. A consumer that receives an RI without a tag dereferences the null tag (consumer.cpp:94) and stops; in the modelled system every RI is tagged, so that path is never taken. The producer's `Reflect` reads the tag and re-tags the RI with it.
- `Lose` drops the oldest packet of a link when `Lossy` holds, and sets the history variable `lost`.
- `PhaseOf` reads the abstract phase off the two applications. `Protocol == INSTANCE RIExchange WITH phase <- PhaseOf, lost <- lost` gives the refinement, and `ImplementsRIExchange == Protocol!Spec` is checked as a PROPERTY.

### Data abstraction

- Names are model values. The set `RINames` holds producer-RI names; every name is reflexive.
- Tokens are small integers, with 0 reserved.
- Nonces are {1, 2}.
- Time exists only as timers that may fire, DNL entries that may expire, and CS entries that may go stale or be evicted.
- NameComponent keeps the bytes, because the classification depends on them.
  - The sentinel 960051513 is the text "9999" read as a 4-byte big-endian number. An 8-byte value can exceed TLC's integers, so `toNumberEquals` compares a value with the sentinel byte by byte. The high four bytes must be zero and the low four must read 960051513. This is the same test as `toNumber() == 960051513`.
  - The URI parser's rules are kept: unescaping of `%XY`, periods-only texts, `=` is unreachable in RN mode, and the last component becomes RN. Component types are TLV numbers: in generic mode a canonical decimal prefix `<n>=` in 1..65535 gives a component of type n (name-component.cpp:172-183); any other prefix goes through the type table, whose named prefixes are letters, which the byte alphabet leaves out, so it is an error. `ParseName` is given the component texts; `SplitUri` does the scheme, authority and slash splitting for the URI round trip.
  - URI printing is the default canonical format: `<type>=` before a non-generic component, `...` before a periods-only value, and every byte outside the unreserved set as `%XY`. ComponentType::writeUri, escape and unescape live in ndn-cxx headers outside the repository and follow upstream ndn-cxx.
- The TLV type number of ReflexiveNameComponent is defined in `tlv.hpp`, which is not in the repository. NameMatch quantifies over the candidates `RNTypes` = {7, 9, 252, 253, 300}, NameParse over {7, 9, 253}; the model writes the placeholder `ReflexiveNameComponent` for whichever is chosen. They sit below, just above and far above GenericNameComponent (8), and on both sides of the three-byte VAR-NUMBER encoding.
- TLC integers are signed 32-bit. The encoded token values stay below 2^31, so no value overflows. The shifts and masks of the codec are written as division and remainder, which is exact for unsigned values; TLC's ENABLED evaluation for the exchange's fairness is far too slow on Bitwise's recursive operators.

## 3. Runs

| Run | cfg | Expect | What it shows |
|---|---|---|---|
| forwarder | `MC_Forwarder.cfg` | pass | 2 consumers, 1 producer, 2 original names (n2 under multicast) and 1 RI name. Tokens {0,1,2}, both selectors, HopLimits {none, 0, 1}, non-local faces {p, c1}, and a route registration that may add c2 as a nexthop. `TokenIndexConsistent`: the token index stays a bijection. `UpstreamTokenResolves`: every Interest sent upstream carries a token that resolves to its own name. `RIReturnsToRequester`: an RI only leaves on an in-record face of a live original entry. `MulticastReachesEveryNextHop`: a pending multicast entry has been sent to every nexthop one of its in-record faces is eligible for, including a nexthop added while it waited. |
| exchange | `MC_Exchange.cfg` | pass | `TagsReadBack`: across the byte codec and the forwarder's token index, the I1 the producer reads carries a token pit_assist resolves to I1's name, and every RI reaching the consumer carries 2345. `ImplementsRIExchange`: the applications and the forwarder over lossy links refine `RIExchange`. The phases happen once each and in order. The consumer's I1 fails (timeout or Nack) only after a loss. Without a loss the consumer receives D1. `PitEntriesEventuallyErased`: every PIT entry of the exchange, the two RI entries included, is eventually erased. The producer sends an RI only in the handler of an I1 or RD that the forwarder has just passed on, so the I1 entry is still live and onSendingRI reaches setExpiryTimer. The leak of finding 3 needs an RI that arrives after its I1's lifetime, or with a foreign token. |
| name_parse | `MC_NameParse.cfg` | pass | `GenericUriRoundTrip`: for all 335923 texts of at most 7 bytes over {NUL, '%', '.', '0', '9', '='}, and every candidate RN type number {7, 9, 253}, a component parsed by Name(uri) is read back by Name(uri) from the URI Name::toUri writes. The texts include typed prefixes such as `9=`, `09=` (not canonical, an error) and `0=` (out of range), `%` escapes, and periods-only values, which toUri writes with a leading `...`. |
| name_match | `MC_NameMatch.cfg` | pass | For all 156×156 pairs of names of up to 3 components over /t, /tr, /r, RN 9999, RN 1234. `FilterMatchIsReflexiveAware`: doesMatch equals prefix match with the reflexive components removed. `NameOrderCanonical`: Name::compare, for every mix of cached wire encodings (fast memcmp path or slow type/size/bytes path) and every candidate RN type, has the sign of the canonical order, and is 0 exactly when `equals` holds. |
| round_trip_label | `MC_RoundTripLabel.cfg` | violation | See finding 1. |
| ri_answered | `MC_RIAnswered.cfg` | violation | See finding 2. |
| pit_entries_erased | `MC_PitEntriesEventuallyErased.cfg` | violation | See finding 3. |
| ri_multicast | `MC_RIMulticast.cfg` | violation | See finding 7. |
| rn9999_throws | `MC_RN9999Throws.cfg` | violation | See finding 4. |
| reflexive_type | `MC_ReflexiveType.cfg` | violation | See finding 5. |
| uri_round_trip | `MC_UriRoundTrip.cfg` | violation | See finding 6. |

Each property of a passing run has a mutant in PROJECT.json: a plausible bug in the mapped definition that TLC catches.
- Token generation without the collision check.
- The egress tag taken from the previous-hop map.
- The RI forwarded along the FIB.
- afterNewNextHop trying only the first in-record.
- createName writing the previous-hop maps the wrong way round.
- parseUriEscapedValue keeping a periods-only value of three or more periods whole instead of dropping the three periods toUri adds.
- doesMatch stripping only when both names are reflexive.
- Component::compare's slow path without the size comparison.
- The producer replying D1 on the first RD.
- onSendingRI adding the RI's in-record without setting its expiry timer.
- setPitToken writing the bytes most significant first. The consumer's 2345 still survives, since the byte swap cancels over two hops, but the producer reads the forwarder's token 1 as 2^24.

### Findings

1. **Round-trip label** (forwarder.cpp:158). The pit_assist row is created only when the name has none, and it is never erased. Trace:
   - c1 sends I1 with token 5;
   - the producer Nacks it, and c1's in-record is erased;
   - c2 sends I1 for the same name with token 6;
   - the producer's RI is forwarded to c2 carrying token 5.

   The specification (8.2) says the RI carries the token of the consumer it is sent to. The shortest trace TLC reports is a different one: c2's I1 aggregates into c1's live entry, and there the specification's own step 4.4.8 (createName only for a new PIT entry) keeps a single row too, so that case is partly a defect of the specification. The trace above, where the row outlives c1's in-record, is the code's alone.
2. **Unanswered RI** (best-route-strategy.cpp:76, forwarder.cpp:254). Trace: D1 satisfies the original entry, and sendData erases its in-records, so no in-record is left when the RI arrives.
   - The strategy's NO_ROUTE Nack goes through the original entry, which has no in-record for the producer, so it is dropped.
   - After expiry, the RI is dropped silently.

   The trace reaches exactly the case of 4.7 (the original entry has no in-record), for which the specification says NACK(NO_ROUTE) is sent; the code sends that Nack through the original entry instead of to the RI's sender. The specification (4.6, 4.7, S3) says such an RI is Nacked.
3. **Leaked RI entries** (forwarder.cpp:231-259). An RI without a token, or with an unknown one, gets a PIT entry (line 144) but never an expiry timer. So does an RI whose token is known but whose original entry is gone (lines 255-259, commented "This should not happen?"). That happens whenever the I1 entry expired before the RI arrived: I1 forwarded, I1 timer fires, producer's RI arrives. The RI is then neither forwarded nor Nacked. This violates "every PIT entry has exactly one expiry timer" (section 5). It is checked as a liveness property under weak fairness of the expiry timer.
4. **isRN9999 throws** (name-component.cpp:252-256). Under the default EITHER decoding convention (line 38), a 3- or 5-byte RN value that starts with 0 passes the marker test. toNumber() then throws Component::Error.
5. **Reflexive depends on length** (name-component.cpp:262-266). An RN component is reflexive only if it is 1, 2, 4 or 8 bytes long, or in the marker form. The specification says the type alone decides.
6. **A reflexive name's URI does not parse back** (name-component.cpp:148). Component::toUri writes a non-generic component as `<type>=value` (name-component.cpp:214-231), and Name::toUri joins components with `/` (name.cpp:382-401). Name(uri) reads `<rt>=value` back as a component of type rt. Name(uri, true), however, parses the last component with RNfromEscapedString, which reaches `NDN_CXX_UNREACHABLE` (undefined behaviour) on any `=`. So no reflexive name survives the reflexive-aware round trip, for any TLV number of ReflexiveNameComponent; the shortest trace is a one-byte text. The specification (8.7) says the round trip gives the same wire form. Through Name(uri) it holds over every text checked (run name_parse).
7. **An RI under multicast follows the FIB** (multicast-strategy.cpp:63, forwarder.cpp:308). onSendingRI hands the RI to the strategy of the RI's own entry, together with the original entry. MulticastStrategy::afterReceiveInterest has no reflexive branch, so it sends to every eligible nexthop of the original name's FIB entry. `MC_RIMulticast.cfg` puts the RI name r1 under multicast. Trace (4 states):
   - c1 sends a reflexive I1;
   - a route registration adds c2 as a nexthop of the prefix;
   - the producer's RI is sent to c2, which holds no in-record, tagged with c1's token.

   The specification says reflexive Interests are routed by the PIT-assist index rather than by the FIB, and the strategy picks the consumer-facing in-record of the original exchange (section 2, 4.6 step 7). With the producer as the only nexthop, the same RI is dropped with neither a send nor a Nack.

### Bounds and why they are enough

- **Two consumer faces.** This is the least that shows the first-in-record choice and a row shared by two consumers. Finding 1 needs exactly that. For multicast it is also the least that gives an entry two in-record faces, one of which is the new nexthop.
- **One producer face, and one nexthop that a route may add.** The producer face is the FIB's first nexthop. Adding c2 makes a nexthop that one in-record face is ineligible for and another is not.
- **Token space {0,1,2}.** This covers the reserved 0, a collision with a used token (two names), and exhaustion. **RITokens {0,1,2,9}** add an unknown token.
- **Two Nonces.** This is enough for loops, DNL hits and Nonce mismatch.
- **`MaxInputs`.** The merged forwarder run takes 3 packets with two names; the violation runs take at most 4 with one name. The exchange takes 8 with one consumer, with forwarder tokens {1, 2}, which byte reversal changes. That fits I1, RI1, RD1, RI2, RD2, D1 and the Nacks a loss can cause. Timers, ageing and route registrations are not counted.
- **Time.** The merged forwarder run explores 925,465 states in about a minute. Every other run takes seconds.

### Fairness

- Forwarder: weak fairness of `onInterestFinalize(k)` for every key. The event loop runs every scheduled timer once its time has come. Arrivals, DNL and CS ageing and route registrations are the environment, and the code guarantees nothing about them.
- Exchange: weak fairness of every handler of the two applications and the forwarder, and of the timers. Each event loop runs its ready handlers and due timers. `Lose` has no fairness: links are not obliged to lose packets.
- RIExchange: weak fairness of progress or failure. An exchange is never stuck in a phase.

## 4. Plan: what comes next, in order

1. **Abstract token routing.** Write an abstract spec in which an RI goes to the consumer whose I1 is pending. Show Forwarder refines it under a mapping from `pit`/`assist` to pending exchanges. Finding 1 predicts where the refinement breaks, so check it on the single-consumer configuration.
2. **More forwarder detail.** NextHopFaceId, /localhost scope, two FIB nexthops (Nack aggregation in processNack), processConfig, application registration failure.
3. **A foreign neighbour.** A third application that sends a plain /testApp Interest, and a neighbour that sends PIT tokens of other lengths, to reach the null-tag dereference at consumer.cpp:94 and the over-read at assist.hpp:24.

## 5. Not modelled, and why

- **Wire codec (TLV) beyond component comparison, and the alternate URI format.** Only the parsing that decides reflexivity, the encoding that decides order and the canonical URI printing are modelled. The alternate format (`NDN_NAME_ALT_URI=1`) goes through the component type table, whose entries are outside the repository.
- **A received PIT token of the wrong length.** The forwarder and the producer read 4 bytes of any token (assist.hpp:24), so a neighbour sending a shorter one causes a read past its end. Every tag in the modelled system is written by setPitToken, which always writes 4 bytes; a foreign neighbour is not modelled, so no run reaches this hazard.
- **A plain /testApp Interest at the consumer.** The consumer's filter /testApp also matches a non-reflexive Interest from another application, which the forwarder sends untagged (it restores tags on reflexive Interests only, forwarder.cpp:427); the consumer then dereferences the null tag (consumer.cpp:94). `ConsumerOnInterest` has that path, but Exchange has no third application, so no run takes it.
- **A second consumer of the same program.** Producer::onInterest reflects only the first I1 (producer.cpp:101): the producer is written for a single exchange, and Exchange checks that one exchange.
- **Security library, nfdc, DNS, transports, readvertise.** They are I/O, crypto or management, and none of them touches the reflexive pipeline.
- **Face link types.** All faces are point-to-point, so the ad-hoc and multi-access drops never apply.
- **In-record expiry times and the exact timer value.** The timer is either set or not. The event loop may run it at any later point.
- **Forwarding hints, counters, logging.**
- **Name::isPrefixOf against invariant 4 of the specification.** isPrefixOf compares reflexive components like any other. The reflexive-aware prefix match of invariant 4 is what InterestFilter::doesMatch does, and `FilterMatchIsReflexiveAware` checks it. The forwarder calls isPrefixOf only for the /localhost scope, which holds no reflexive component. PIT data match lives in pit.cpp, which is not in the repository. The RD carries exactly the RI's name, so an exact match serves it. No run checks the divergence.
- **Regex Interest filters.** The applications use none.
- **The strategy-choice table and the name tree.** The effective strategy is a constant per name, and onNewNextHop visits the original names' entries, which all lie under the one FIB prefix.
- **Naming conventions and name algorithms the system never calls.** These are: the segment, byte-offset, version, timestamp and sequence-number encoders and decoders (name-component.cpp 268-458); `getSuccessor`; and `Name::getSubName`, `set`, `erase` and `deepCopy`. Only `appendVersion` is called, to build the strategy names. Those names are constants in the model. Only `isNumber`, `toNumber` and the marker test reach the reflexive pipeline, through `isRN9999`, and they are modelled.
- **Finding 1 end to end.** Consumer::run tags every I1 with the constant 2345 (consumer.cpp:29), so all consumers of the experiment carry the same token, and the mislabelled RI of finding 1 is indistinguishable at the consumer. A deployment whose consumers choose their own tokens would see it. `MC_RoundTripLabel.cfg` shows it at the forwarder, where the downstreams are general faces with their own tokens.
- **Prefix registration of the consumer's `/testApp` filter.** Consumer::run expresses I1 right after setInterestFilter (consumer.cpp:41-46), without waiting for the registration to succeed. The Face that installs the filter and the RIB manager that registers it are outside the repository. Exchange assumes the filter is in place when the first RI arrives; the race is listed as a hazard.
