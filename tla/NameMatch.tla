----------------------------- MODULE NameMatch -----------------------------
(***************************************************************************)
(* Prefix matching and ordering of names (src/Mods/ndn-cxx/name.cpp       *)
(* Name::isPrefixOf, equals, compare; name-component.cpp compare and      *)
(* wireEncode; interest-filter.cpp InterestFilter::doesMatch).  A         *)
(* name is a sequence of components of NameComponent.  The state is an    *)
(* application's Interest filter prefix and the name of an Interest the   *)
(* face dispatches to it; names received from the network may carry a     *)
(* reflexive component at any position.                                   *)
(***************************************************************************)
EXTENDS NameComponent

CONSTANTS
    NameComponents,     \* the components names are built from
    MaxNameLen,         \* longest name considered
    RNTypes             \* candidate TLV type numbers of ReflexiveNameComponent

VARIABLES filter, name

vars == <<filter, name>>

Names == UNION {[1..k -> NameComponents] : k \in 0..MaxNameLen}

\* Name::isReflexiveName: the name holds a reflexive-typed component.
isReflexiveName(n) == \E i \in 1..Len(n) : n[i].type = ReflexiveNameComponent

\* Name::getnonReflexiveName: the name without its reflexive components.
getnonReflexiveName(n) == SelectSeq(n, LAMBDA c : c.type # ReflexiveNameComponent)

\* Name::isPrefixOf: component-wise, type and value, no stripping.
isPrefixOf(a, b) ==
    Len(a) <= Len(b) /\ \A i \in 1..Len(a) : a[i] = b[i]

\* (mutant) strip only when both names are reflexive
doesMatchBothReflexive(p, n) ==
    IF isReflexiveName(p) /\ isReflexiveName(n)
    THEN isPrefixOf(getnonReflexiveName(p), getnonReflexiveName(n))
    ELSE isPrefixOf(p, n)

\* InterestFilter::doesMatch for a filter without a regex (the
\* applications register plain prefixes): strip both sides when either is
\* reflexive.
doesMatch(p, n) ==
    IF isReflexiveName(p) \/ isReflexiveName(n)
    THEN isPrefixOf(getnonReflexiveName(p), getnonReflexiveName(n))
    ELSE isPrefixOf(p, n)

-----------------------------------------------------------------------------
(* Ordering.  The TLV type number of ReflexiveNameComponent lives in      *)
(* tlv.hpp, outside the repository, so it is the parameter rt.           *)
\* VAR-NUMBER encoding (tlv.hpp) for numbers below 2^16.
VarNumber(n) == IF n < 253 THEN <<n>> ELSE <<253, n \div 256, n % 256>>

\* Component::wireEncode: type, length, value.
wireEncode(c, rt) == VarNumber(TypeNumber(c, rt)) \o VarNumber(Len(c.value)) \o c.value

\* memcmp over the first k bytes: the difference of the first unequal pair.
RECURSIVE memcmp(_, _, _)
memcmp(s, t, k) ==
    IF k = 0 THEN 0
    ELSE IF s[1] # t[1] THEN s[1] - t[1]
    ELSE memcmp(Tail(s), Tail(t), k - 1)

\* (mutant) the value-size comparison dropped from the slow path
compareNoSize(a, b, wired, rt) ==
    IF wired
    THEN LET wa == wireEncode(a, rt)
             wb == wireEncode(b, rt)
         IN memcmp(wa, wb, Min({Len(wa), Len(wb)}))
    ELSE IF TypeNumber(a, rt) # TypeNumber(b, rt) THEN TypeNumber(a, rt) - TypeNumber(b, rt)
    ELSE memcmp(a.value, b.value, Min({Len(a.value), Len(b.value)}))

\* Component::compare: when both components hold their wire encoding, a
\* memcmp of the encodings over the shorter length; otherwise type, then
\* value size, then value bytes.
compare(a, b, wired, rt) ==
    IF wired
    THEN LET wa == wireEncode(a, rt)
             wb == wireEncode(b, rt)
         IN memcmp(wa, wb, Min({Len(wa), Len(wb)}))
    ELSE IF TypeNumber(a, rt) # TypeNumber(b, rt) THEN TypeNumber(a, rt) - TypeNumber(b, rt)
    ELSE IF Len(a.value) # Len(b.value) THEN Len(a.value) - Len(b.value)
    ELSE IF a.value = << >> THEN 0
    ELSE memcmp(a.value, b.value, Len(a.value))

\* Name::compare over whole names; wired[i] says whether the i-th pair of
\* components both hold a wire encoding.  The size_t difference of the
\* counts converts back to the signed difference for names this short.
NameCompare(a, b, wired, rt) ==
    LET count == Min({Len(a), Len(b)})
        differ == {i \in 1..count : compare(a[i], b[i], wired[i], rt) # 0}
    IN IF differ = {} THEN Len(a) - Len(b)
       ELSE compare(a[Min(differ)], b[Min(differ)], wired[Min(differ)], rt)

\* Name::equals: same size and equal components.
equals(a, b) == Len(a) = Len(b) /\ \A i \in 1..Len(a) : a[i] = b[i]

-----------------------------------------------------------------------------
Init == filter \in Names /\ name \in Names

\* Face::setInterestFilter replaces the registered prefix.
SetInterestFilter(p) == filter' = p /\ UNCHANGED name

\* An Interest with name n reaches the face.
ReceiveInterest(n) == name' = n /\ UNCHANGED filter

Next ==
    \/ \E p \in Names : SetInterestFilter(p)
    \/ \E n \in Names : ReceiveInterest(n)

Spec == Init /\ [][Next]_vars


\* The reference: prefix match on the names with reflexive components removed.
ReflexivePrefix(a, b) == IsPrefix(getnonReflexiveName(a), getnonReflexiveName(b))

Sign(x) == IF x < 0 THEN -1 ELSE IF x > 0 THEN 1 ELSE 0

\* The reference order: sequences of numbers lexicographically, a proper
\* prefix first; a component is <<type number, length>> \o value; a name
\* is its components in order.
RECURSIVE SeqCmp(_, _)
SeqCmp(s, t) ==
    IF s = << >> \/ t = << >> THEN Sign(Len(s) - Len(t))
    ELSE IF s[1] # t[1] THEN Sign(s[1] - t[1])
    ELSE SeqCmp(Tail(s), Tail(t))

CanonicalKey(c, rt) == <<TypeNumber(c, rt), Len(c.value)>> \o c.value

RECURSIVE CanonicalCmp(_, _, _)
CanonicalCmp(a, b, rt) ==
    IF a = << >> \/ b = << >> THEN Sign(Len(a) - Len(b))
    ELSE IF a[1] # b[1] THEN SeqCmp(CanonicalKey(a[1], rt), CanonicalKey(b[1], rt))
    ELSE CanonicalCmp(Tail(a), Tail(b), rt)

(* Name::compare orders names canonically (the specification: order uses *)
(* the full type and value), whichever components carry a wire encoding  *)
(* and whatever type number TLV-RN has; it returns 0 exactly for equal   *)
(* names.  The wire fast path of Component::compare relies on the TLV    *)
(* encoding sorting like the canonical order, across the one- and        *)
(* three-byte VAR-NUMBER forms.                                          *)
NameOrderCanonical ==
    \A rt \in RNTypes, wired \in [1..Min({Len(filter), Len(name)}) -> BOOLEAN] :
        LET c == NameCompare(filter, name, wired, rt)
        IN /\ Sign(c) = CanonicalCmp(filter, name, rt)
           /\ (c = 0) <=> equals(filter, name)

(* An application's Interest filter accepts an Interest exactly when the  *)
(* filter is a prefix of the name once reflexive components are removed   *)
(* from both (InterestFilter::doesMatch), so the consumer's /testApp      *)
(* filter receives the producer's /testApp/reflect/<RN> Interest.         *)
FilterMatchIsReflexiveAware ==
    doesMatch(filter, name) <=> ReflexivePrefix(filter, name)
=============================================================================
