\* One client, served by two workers, while the operator allows and denies its peer
\* and the client itself.
SPECIFICATION TurnFairSpec
CONSTANTS
    Tuples = {t1}
    IPs = {i1}
    Ports = {p1}
    Channels = {c1}
    Relays = {r1}
    Workers = {w1, w2}
    MaxLifetime = 1
    ServerAddr = server
    Collector = collector
    NoTuple = noTuple
    NoRelay = noRelay
    NoPeer = noPeer
    NoChannel = noChannel
    NoMsg = noMsg
    Configs <- FilterConfigs
    AuthRequired = TRUE
    NonceDuration = 1
    MaxNonces = 2
    MaxDelay = 1
    NoCfg = noCfg
    DeniedIP = i1
    DeniedTuple = t1
CONSTRAINT
    OverlapBound
INVARIANT
    TurnTypeOK
PROPERTIES
    UsesAllocator
    AuthenticatedOnly
    OwnRequestsOnly
    NonceForward
    DeniedPeerGone
    DeniedClientGone
    DeniedPeerFades
    DeniedClientFades
