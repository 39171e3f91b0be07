\* Is a channel number bound to one peer only?
SPECIFICATION Spec
CONSTANTS
    Tuples = {t1}
    IPs = {i1, i2}
    Ports = {p1}
    Channels = {c1}
    Relays = {r1}
    Workers = {w1}
    MaxLifetime = 1
    ServerAddr = server
    Collector = collector
    NoTuple = noTuple
    NoRelay = noRelay
    NoPeer = noPeer
    NoChannel = noChannel
    NoMsg = noMsg
INVARIANT
    ChannelUnique
