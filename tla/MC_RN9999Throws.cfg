CONSTANTS
    Bytes = {0, 46, 49, 57, 61}
    MaxTextLen = 5
    Conventions = {"MARKER", "TYPED"}
    RNTypes = {7, 9, 252, 253, 300}
SPECIFICATION Spec
INVARIANT IsRN9999NeverThrows
