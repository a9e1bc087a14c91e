CONSTANTS
    Bytes = {49, 50, 51, 52, 57, 114, 116}
    MaxTextLen = 4
    Conventions = {"MARKER", "TYPED"}
    NameComponents <- MC_NameComponents
    MaxNameLen = 3
    RNTypes <- MC_RNTypes
SPECIFICATION Spec
INVARIANT FilterMatchIsReflexiveAware
INVARIANT NameOrderCanonical
