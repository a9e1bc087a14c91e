---------------------------- MODULE MC_NameMatch ----------------------------
EXTENDS NameMatch

\* /testApp and /reflect as generic components, "tr" sharing a first byte
\* with "t", the producer's "9999" and the consumer's "1234" as reflexive.
MC_NameComponents ==
    { Component(GenericNameComponent, <<116>>),
      Component(GenericNameComponent, <<116, 114>>),
      Component(GenericNameComponent, <<114>>),
      Component(ReflexiveNameComponent, <<57, 57, 57, 57>>),
      Component(ReflexiveNameComponent, <<49, 50, 51, 52>>) }

\* TLV-RN below, just above and far above GenericNameComponent (8), and on
\* both sides of the three-byte VAR-NUMBER form.
MC_RNTypes == {7, 9, 252, 253, 300}
=============================================================================
