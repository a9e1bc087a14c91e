CONSTANTS
    Bytes = {0, 37, 46, 48, 57, 61}
    MaxTextLen = 7
    Conventions = {"MARKER", "TYPED"}
    RNTypes = {7, 9, 253}
SPECIFICATION Spec
INVARIANT GenericUriRoundTrip
