CONSTANTS
    c1 = c1
    c2 = c2
    p = p
    n1 = n1
    n2 = n2
    r1 = r1
    NoHop = NoHop
    ConsumerFaces = {c1, c2}
    ProducerFace = p
    OrigNames = {n1}
    RINames = {r1}
    NewNextHops = {}
    MulticastNames = {}
    NonLocalFaces = {}
    DefaultHopLimit = 0
    FreshBelowDnl = FALSE
    MaxInputs = 4
    FibNextHops <- MC_FibNextHops
    FaceToken <- MC_FaceToken
    TokenValues <- MC_TokenValues
    RITokens <- MC_RITokens
    Nonces <- MC_Nonces
    Selectors <- MC_Selectors
    HopLimits <- MC_HopLimits
    NackReasons <- MC_NackReasons

SPECIFICATION Spec
PROPERTY PitEntriesEventuallyErased
CHECK_DEADLOCK FALSE
