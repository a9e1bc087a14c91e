------------------------------ MODULE PitToken ------------------------------
(***************************************************************************)
(* The PIT-token codec shared by the forwarder and the applications       *)
(* (src/Experiments/consumer-producer_RI/assist.hpp; the forwarder uses   *)
(* the same declarations from src/Mods/NFD/daemon/table/assist.hpp).  A   *)
(* token value is a 32-bit unsigned integer; on the link it is the byte   *)
(* vector of an lp::PitToken, which a neighbour may send with any length. *)
(* Pure operators; Exchange instantiates them on its links.              *)
(***************************************************************************)
EXTENDS Integers, Sequences, SequencesExt

UB == "undefined"   \* a read past the end of the byte vector

\* (mutant) the bytes written most significant first (the commented-out
\* std::reverse)
setPitTokenReversed(v) == [i \in 1..4 |-> (v \div 2^(8 * (4 - i))) % 256]

\* setPitToken: four bytes, least significant first; (v >> 8i) & 0xFF of
\* an unsigned v is (v \div 2^8i) % 256.
setPitToken(v) == [i \in 1..4 |-> (v \div 2^(8 * (i - 1))) % 256]

\* readPitToken: OR of pitToken[i] << 8i for i in 0..3, whatever the
\* token's length; operator[] past the end is undefined behaviour.  The
\* shifted bytes occupy disjoint bits, so the OR of them is their sum.
readPitToken(t) ==
    IF Len(t) < 4 THEN UB
    ELSE FoldLeft(LAMBDA acc, i : acc + t[i + 1] * 2^(8 * i), 0, <<0, 1, 2, 3>>)

=============================================================================
