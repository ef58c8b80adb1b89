SPECIFICATION FairSpec
CONSTANTS
    r1 = r1
    r2 = r2
    r3 = r3
    r4 = r4
    r5 = r5
    u = u
    v = v
    d = d
    e = e
    Request = {r1, r2, r3, r4, r5}
    Url = {u, v}
    Dest = {d, e}
    OldDest = {e}
    UrlOf <- Urls
    DestOf <- Dests
    WeightOf <- Weights
    Expecting = {r1, r2, r4, r5}
    Overwriting = {r4}
    Abortable = {r1}
    AttemptsOf <- Attempts
    MaxConcurrency = 2
    MaxQueueSize = 2
    Floor = 1
    Cap = 2
    MayFail <- Troubles
    NoPath = NoPath
    NoCall = NoCall
    NoFile = NoFile
INVARIANTS
    NoStrandedQueue
    OneFlight
    VerifiedLands
PROPERTIES
    StartsWithinLimit
    QueueIsFair
    EveryCallSettles
CHECK_DEADLOCK FALSE
