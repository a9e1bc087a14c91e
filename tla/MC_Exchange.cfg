CONSTANTS
    c = c
    c2 = c2
    p = p
    n1 = n1
    r1 = r1
    r2 = r2
    NoHop = NoHop
    ConsumerFaces = {c}
    ProducerFace = p
    OrigNames = {n1}
    RINames = {r1, r2}
    I1Name = n1
    RI1Name = r1
    RI2Name = r2
    ConsumerToken = 2345
    NewNextHops = {}
    MulticastNames = {}
    NonLocalFaces = {}
    DefaultHopLimit = 0
    FreshBelowDnl = FALSE
    MaxInputs = 8
    Lossy = TRUE
    FibNextHops <- MC_FibNextHops
    FaceToken <- MC_FaceToken
    ConsumerNonce <- MC_ConsumerNonce
    TokenValues <- MC_TokenValues
    RITokens <- MC_RITokens
    Nonces <- MC_Nonces
    Selectors <- MC_Selectors
    HopLimits <- MC_HopLimits
    NackReasons <- MC_NackReasons

SPECIFICATION SysSpec
INVARIANT TagsReadBack
PROPERTY ImplementsRIExchange
PROPERTY PitEntriesEventuallyErased
CHECK_DEADLOCK FALSE
