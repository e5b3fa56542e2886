SPECIFICATION FairSpec
CONSTANTS
    Readers = {r1, r2}
    Bids = {b1}
    Asks = {a1}
    Qtys = {0, 1}
    QueueSize = 2
    Restarts = {TRUE, FALSE}
    None = None
    MaxUpdates = 3
    MaxFaults = 1
INVARIANTS
    TypeOK
    YieldedIsReal
    PatchedIsReal
PROPERTIES
    ShowsLiveValue
    CatchesUp
CHECK_DEADLOCK FALSE
