----------------------------- MODULE NameParse -----------------------------
(***************************************************************************)
(* The text of one name component arriving at the URI parser, in generic  *)
(* mode (Name(uri)) or as the last component of the reflexive constructor *)
(* Name(uri, true), and what the forwarder's reflexive tests make of the  *)
(* component it becomes.  The initial states are every text in every     *)
(* mode, for every candidate TLV number of ReflexiveNameComponent; a step *)
(* parses the same text in the other mode.                                *)
(***************************************************************************)
EXTENDS NameComponent

CONSTANT RNTypes    \* candidate TLV type numbers of ReflexiveNameComponent

\* The checked texts hold no letter, so no "<prefix>=" is an alternate URI
\* prefix of the component type table (see fromEscapedString).
ASSUME \A b \in Bytes : b \notin (65..90) \cup (97..122)

VARIABLES
    text,   \* the component text
    isRN,   \* parsed by Name(uri, true) rather than Name(uri)
    rt      \* the TLV number of ReflexiveNameComponent

vars == <<text, isRN, rt>>

\* The component Name(uri, isRN) makes of a one-component URI, or the error.
Parsed == LET r == ParseName(<<text>>, isRN, rt) IN IF "name" \in DOMAIN r THEN r.name[1] ELSE r

Init == text \in Texts /\ isRN \in BOOLEAN /\ rt \in RNTypes

\* The same component text parsed by the other constructor.
ParseOtherMode == isRN' = ~isRN /\ UNCHANGED <<text, rt>>

Next == ParseOtherMode

Spec == Init /\ [][Next]_vars

\* Name::toUri of the parsed component, parsed back by the constructor that
\* made it.
ReadBack == ParseName(SplitUri(NameToUri(<<Parsed>>, rt)), isRN, rt)

(* Deciding whether a component is the sentinel never throws: isRN9999    *)
(* runs on every received Interest name, and an exception there escapes  *)
(* the forwarding pipeline.                                               *)
IsRN9999NeverThrows ==
    IsComponent(Parsed) => ~isRN9999Throws(Parsed)

(* The specification: a component is reflexive exactly when its type is  *)
(* ReflexiveNameComponent (Component::isReflexive).                       *)
ReflexiveIffReflexiveType ==
    IsComponent(Parsed) =>
        (isReflexive(Parsed) <=> Parsed.type = ReflexiveNameComponent)

(* The specification (8.7): printing a name with Name::toUri and parsing  *)
(* the text back with the constructor that made it (reflexive-aware for   *)
(* Name(uri, true)) gives the same name, whatever the TLV number of        *)
(* ReflexiveNameComponent.                                                *)
UriRoundTrip ==
    IsComponent(Parsed) => ReadBack = [name |-> <<Parsed>>]

(* The same round trip for the generic constructor Name(uri): whatever    *)
(* component a text parses to (generic, reflexive through "<rt>=", or of  *)
(* another type through "<number>="), Component::toUri prints text that   *)
(* Component::fromEscapedString reads back to the same type and value:    *)
(* the canonical decimal type prefix, the "..." of periods-only values    *)
(* and the %XY escapes must all invert.                                   *)
GenericUriRoundTrip ==
    IsComponent(Parsed) /\ ~isRN => ReadBack = [name |-> <<Parsed>>]
=============================================================================
