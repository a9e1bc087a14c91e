CONSTANTS
    c1 = c1
    c2 = c2
    p = p
    n1 = n1
    n2 = n2
    r1 = r1
    NoHop = NoHop
    ConsumerFaces = {c1, c2}
    ProducerFace = p
    OrigNames = {n1, n2}
    RINames = {r1}
    NewNextHops = {c2}
    MulticastNames = {n2}
    NonLocalFaces = {p, c1}
    DefaultHopLimit = 1
    FreshBelowDnl = FALSE
    MaxInputs = 3
    FibNextHops <- MC_FibNextHops
    FaceToken <- MC_FaceToken
    TokenValues <- MC_TokenValues
    RITokens <- MC_RITokens
    Nonces <- MC_Nonces
    Selectors <- MC_SelectorsBoth
    HopLimits <- MC_HopLimitsAll
    NackReasons <- MC_NackReasons

SPECIFICATION Spec
INVARIANT TypeOK
INVARIANT TokenIndexConsistent
INVARIANT UpstreamTokenResolves
INVARIANT RIReturnsToRequester
INVARIANT MulticastReachesEveryNextHop
CHECK_DEADLOCK FALSE
