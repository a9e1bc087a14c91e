CONSTANTS
    Bytes = {0, 37, 46, 49, 57, 61}
    MaxTextLen = 4
    Conventions = {"MARKER", "TYPED"}
    RNTypes = {7, 9, 252, 253, 300}
SPECIFICATION Spec
INVARIANT UriRoundTrip
