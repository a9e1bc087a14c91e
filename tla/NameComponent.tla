--------------------------- MODULE NameComponent ---------------------------
(***************************************************************************)
(* Name components of the reflexive-forwarding ndn-cxx                     *)
(* (src/Mods/ndn-cxx/name-component.cpp, name.cpp).  A component is a TLV  *)
(* type and a byte string.  The URI parser turns the text of a component   *)
(* into its value; the reflexive parser Name(uri, true) gives the LAST     *)
(* component the type ReflexiveNameComponent.  Whether a component counts  *)
(* as reflexive, and whether it is the producer-RI sentinel "RN9999",      *)
(* depends on the NonNegativeInteger shape of those bytes, so the bytes    *)
(* are kept: the sentinel 960051513 is 0x39393939, the ASCII text "9999"   *)
(* read big-endian.  Pure operators only; NameParse and NameMatch check    *)
(* them.                                                                   *)
(***************************************************************************)
EXTENDS Integers, Sequences, SequencesExt

CONSTANTS
    Bytes,          \* the byte values a component text may contain
    MaxTextLen,     \* longest component text considered
    Conventions     \* naming conventions the decoder accepts

\* TLV types are numbers.  The number of ReflexiveNameComponent is defined
\* in tlv.hpp, outside the repository: a component of that type carries the
\* placeholder 0 (no TLV type is 0) and the operators that need the number
\* take it as the parameter rt.
GenericNameComponent   == 8
ReflexiveNameComponent == 0

\* tlv::NameComponentMin and tlv::NameComponentMax.
NameComponentMin == 1
NameComponentMax == 65535

\* The type number of a component; rt is the number of ReflexiveNameComponent
\* (tlv.hpp, outside the repository).
TypeNumber(c, rt) == IF c.type = ReflexiveNameComponent THEN rt ELSE c.type

\* The component type of type number n.
TypeOfNumber(n, rt) == IF n = rt THEN ReflexiveNameComponent ELSE n

PERIOD == 46            \* '.'
EQUALS == 61            \* '='
SLASH == 47             \* '/'
COLON == 58             \* ':'
SEGMENT_MARKER == 0

\* Outcomes of a conversion that throws instead of returning a component.
Illegal     == [error |-> "IllegalUri"]   \* Component::Error from the parser
Unreachable == [error |-> "Unreachable"]  \* NDN_CXX_UNREACHABLE: undefined behaviour

IsComponent(r) == "type" \in DOMAIN r

Texts == UNION {[1..k -> Bytes] : k \in 0..MaxTextLen}

Component(t, v) == [type |-> t, value |-> v]

\* ndn::unescape (util/string-helper.cpp): "%XY" with two hex digits is the
\* byte 0xXY; a '%' followed by two other bytes is kept with them; a '%'
\* among the last two bytes is copied through.
RECURSIVE unescape(_)
unescape(s) ==
    LET fromHexChar(b) == CASE b \in 48..57  -> b - 48
                            [] b \in 65..70  -> b - 55
                            [] b \in 97..102 -> b - 87
                            [] OTHER         -> -1
    IN IF s = << >> THEN << >>
       ELSE IF s[1] = 37 /\ Len(s) >= 3
       THEN (IF fromHexChar(s[2]) < 0 \/ fromHexChar(s[3]) < 0 THEN SubSeq(s, 1, 3)
             ELSE <<fromHexChar(s[2]) * 16 + fromHexChar(s[3])>>)
            \o unescape(SubSeq(s, 4, Len(s)))
       ELSE <<s[1]>> \o unescape(Tail(s))

\* (mutant) a periods-only value kept whole instead of losing three periods
parseUriEscapedValueKeepPeriods(t, s) ==
    LET v == unescape(s)
    IN IF \A i \in 1..Len(v) : v[i] = PERIOD
       THEN IF Len(v) < 3 THEN Illegal ELSE Component(t, v)
       ELSE Component(t, v)

\* parseUriEscapedValue: the text is unescaped; a value of periods only
\* loses three of them, and fewer than three is illegal.  The empty value
\* is "periods only" too.
parseUriEscapedValue(t, s) ==
    LET v == unescape(s)
    IN IF \A i \in 1..Len(v) : v[i] = PERIOD
       THEN IF Len(v) < 3 THEN Illegal ELSE Component(t, SubSeq(v, 1, Len(v) - 3))
       ELSE Component(t, v)

HasEquals(s) == \E i \in 1..Len(s) : s[i] = EQUALS

\* std::strtoul(prefix, nullptr, 10) == n and std::to_string(n) == prefix:
\* the prefix is the canonical decimal form of n (no sign, no leading zero).
IsCanonicalDecimal(d) ==
    /\ d # << >>
    /\ \A i \in 1..Len(d) : d[i] \in 48..57
    /\ d[1] = 48 => Len(d) = 1
DecimalValue(d) == FoldLeft(LAMBDA acc, b : acc * 10 + (b - 48), 0, d)

\* Component::fromEscapedString: without '=' a generic component; else the
\* text before the first '=' is the type, either its canonical decimal
\* number in [NameComponentMin, NameComponentMax] or an alternate URI prefix
\* of the component type table.  The table's prefixes (name-component-
\* types.hpp: "sha256digest", "params-sha256", "seg", "off", "v", "t",
\* "seq") are letters, and a text without letters is not among them, so
\* the lookup fails and the parser throws.
fromEscapedString(s, rt) ==
    IF ~HasEquals(s) THEN parseUriEscapedValue(GenericNameComponent, s)
    ELSE LET e      == SelectInSeq(s, LAMBDA b : b = EQUALS)
             prefix == SubSeq(s, 1, e - 1)
         IN IF /\ IsCanonicalDecimal(prefix)
               /\ DecimalValue(prefix) \in NameComponentMin..NameComponentMax
            THEN parseUriEscapedValue(TypeOfNumber(DecimalValue(prefix), rt), SubSeq(s, e + 1, Len(s)))
            ELSE Illegal

\* RNfromEscapedString: the text of a reflexive component may not hold '='.
RNfromEscapedString(s) ==
    IF HasEquals(s) THEN Unreachable
    ELSE parseUriEscapedValue(ReflexiveNameComponent, s)

\* Name(uri, isRN): every component is parsed generically except the last
\* one, which the reflexive constructor parses with RNfromEscapedString;
\* Name(uri, false) delegates to Name(uri), which parses all of them
\* generically.  The scheme, authority and '/' splitting are abstracted:
\* texts holds the component texts between the slashes.
\* A throwing component makes the whole constructor throw; a result is
\* [name |-> components] or the error.
ParseName(texts, isRN, rt) ==
    LET comps == [i \in 1..Len(texts) |->
                    IF isRN /\ i = Len(texts) THEN RNfromEscapedString(texts[i])
                    ELSE fromEscapedString(texts[i], rt)]
        bad   == {comps[i] : i \in 1..Len(texts)} \cap {Illegal, Unreachable}
    IN IF bad = {} THEN [name |-> comps] ELSE CHOOSE e \in bad : TRUE

\* The scheme, authority and '/' splitting of Name(uri, isRN) (and of
\* Name(uri)): a scheme "xx:" before the first '/' is dropped, then a
\* leading '/', or "//authority/"; an authority alone is the empty name.
\* The rest splits at each '/'; a trailing '/' adds no component.
RECURSIVE Segments(_)
Segments(u) ==
    LET j == SelectInSeq(u, LAMBDA x : x = SLASH)
    IN IF u = << >> THEN << >>
       ELSE IF j = 0 THEN <<u>>
       ELSE <<SubSeq(u, 1, j - 1)>> \o Segments(SubSeq(u, j + 1, Len(u)))

SplitUri(uri) ==
    LET c == SelectInSeq(uri, LAMBDA x : x = COLON)
        f == SelectInSeq(uri, LAMBDA x : x = SLASH)
        u == IF c # 0 /\ (f = 0 \/ c < f) THEN SubSeq(uri, c + 1, Len(uri)) ELSE uri
        a == SelectInSeq(SubSeq(u, 3, Len(u)), LAMBDA x : x = SLASH)
    IN Segments(CASE Len(u) >= 2 /\ u[1] = SLASH /\ u[2] = SLASH ->
                         IF a = 0 THEN << >> ELSE SubSeq(u, a + 3, Len(u))
                  [] Len(u) >= 1 /\ u[1] = SLASH -> Tail(u)
                  [] OTHER -> u)

-----------------------------------------------------------------------------
(* URI printing.  ComponentType::writeUri, escape and the decimal output  *)
(* of the TLV type live in ndn-cxx headers outside the repository.        *)

\* ndn::escape: unreserved bytes (ALPHA, DIGIT, '-', '.', '_', '~') as
\* themselves, every other byte as "%XY" in upper-case hex.
escape(v) ==
    LET hex(d) == IF d < 10 THEN 48 + d ELSE 55 + d
        unreserved(b) == b \in (48..57) \cup (65..90) \cup (97..122) \cup {45, 46, 95, 126}
    IN FoldLeft(LAMBDA acc, b :
                   acc \o (IF unreserved(b) THEN <<b>> ELSE <<37, hex(b \div 16), hex(b % 16)>>),
                << >>, v)

\* The decimal digits of a TLV type number.
RECURSIVE Decimal(_)
Decimal(n) == IF n < 10 THEN <<48 + n>> ELSE Decimal(n \div 10) \o <<48 + (n % 10)>>

\* ComponentType::writeUri, the canonical form: "<type>=" unless the type
\* is GenericNameComponent, then the escaped value, "..." first when the
\* value is periods only.  rt is the number of ReflexiveNameComponent.
writeUri(c, rt) ==
    (IF c.type = GenericNameComponent THEN << >> ELSE Decimal(TypeNumber(c, rt)) \o <<EQUALS>>)
    \o (IF \A i \in 1..Len(c.value) : c.value[i] = PERIOD THEN <<PERIOD, PERIOD, PERIOD>> ELSE << >>)
    \o escape(c.value)

\* Component::toUri in the default format ENV_OR_CANONICAL: wantAltUri is
\* FALSE unless NDN_NAME_ALT_URI starts with '1', so the canonical form.
ComponentToUri(c, rt) == writeUri(c, rt)

\* Name::toUri: "/" before every component, "/" alone for the empty name.
NameToUri(n, rt) ==
    IF n = << >> THEN <<SLASH>>
    ELSE FoldLeft(LAMBDA acc, c : acc \o <<SLASH>> \o ComponentToUri(c, rt), << >>, n)

isNumber(c) == Len(c.value) \in {1, 2, 4, 8}

isNumberWithMarker(c, marker) ==
    Len(c.value) \in {2, 3, 5, 9} /\ c.value[1] = marker

\* readNonNegativeInteger: the value bytes read big-endian.  toNumber()
\* throws Component::Error unless isNumber(c).
toNumber(c) == FoldLeft(LAMBDA acc, b : acc * 256 + b, 0, c.value)

\* Whether g_conventionDecoding admits each convention.
canDecodeMarkerConvention == "MARKER" \in Conventions
canDecodeTypedConvention == "TYPED" \in Conventions

isReflexive(c) ==
    c.type = ReflexiveNameComponent
    /\ \/ canDecodeMarkerConvention /\ isNumberWithMarker(c, SEGMENT_MARKER)
       \/ canDecodeTypedConvention /\ isNumber(c)

RN9999 == 960051513

\* isRN9999 returns TRUE: a reflexive component whose number is the sentinel.
\* toNumber(c) = v for v < 2^31, decided on the bytes so that an 8-byte
\* value outside TLC's integers is still compared exactly: every byte
\* above the low four is zero and the low four read v.
toNumberEquals(c, v) ==
    LET n == Len(c.value)
        low == SubSeq(c.value, IF n > 4 THEN n - 3 ELSE 1, n)
    IN  /\ \A i \in 1..(n - 4) : c.value[i] = 0
        /\ FoldLeft(LAMBDA acc, b : acc * 256 + b, 0, low) = v
isRN9999(c) == isReflexive(c) /\ isNumber(c) /\ toNumberEquals(c, RN9999)

\* isRN9999 throws: the marker shape admitted the component as reflexive,
\* but the toNumber() it then calls rejects the length.
isRN9999Throws(c) == isReflexive(c) /\ ~isNumber(c)
=============================================================================
