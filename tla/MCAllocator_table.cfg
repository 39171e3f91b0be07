\* One client fills its permission and binding table.
SPECIFICATION FairSpec
CONSTANTS
    Tuples = {t1}
    IPs = {i1, i2}
    Ports = {p1, p2}
    Channels = {c1, c2}
    Relays = {r1}
    Workers = {w1}
    MaxLifetime = 1
    ServerAddr = server
    Collector = collector
    NoTuple = noTuple
    NoRelay = noRelay
    NoPeer = noPeer
    NoChannel = noChannel
    NoMsg = noMsg
INVARIANTS
    PermissionUnique
    BindingInjective
PROPERTIES
    UnexpiredKept
    ExpiredCollected
    ImplementsRelay
