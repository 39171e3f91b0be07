\* Two readers, two workers and the cleaner, with Close at any time.
SPECIFICATION FairSpec
CONSTANTS
    Readers = {1, 2}
    Reusing = {2}
    Chans = {c1, c2}
    Ctxs = {x1, x2}
    MaxWorkersCount = 2
    MaxTries = 2
    ChanCap = 1
    NoChan = noChan
    NoCtx = noCtx
    Stopping = stopping
INVARIANTS
    TypeOK
    ChannelExclusive
    WorkersCounted
    CtxExclusive
    StopNeverWaits
    NoneForgotten
    NoReadAfterClose
PROPERTIES
    UpNeverPanics
    AcceptedKept
    AcceptedServed
    CloseEndsAll
