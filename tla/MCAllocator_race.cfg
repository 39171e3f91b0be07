\* Two clients' requests race in two workers; the table itself is minimal.
SPECIFICATION Spec
CONSTANTS
    Tuples = {t1, t2}
    IPs = {i1}
    Ports = {p1}
    Channels = {c1}
    Relays = {r1, r2}
    Workers = {w1, w2}
    MaxLifetime = 1
    ServerAddr = server
    Collector = collector
    NoTuple = noTuple
    NoRelay = noRelay
    NoPeer = noPeer
    NoChannel = noChannel
    NoMsg = noMsg
SYMMETRY RaceSymmetry
INVARIANTS
    TypeOK
    TupleUnique
    RelayExclusive
    CallHoldsOwnSocket
    RelayedFromOwnSocket
PROPERTIES
    ClientsIsolated
    ImplementsRelay
