SPECIFICATION Spec
CONSTANTS
    t1 = t1
    t2 = t2
    t3 = t3
    Tasks = {t1, t2, t3}
    None = None
    MaxConcurrent = 2
    Retries = 2
    Patience = 1
    ShortWait = 1
    LongWait = 2
    Slots = 1
    BucketMax = 1
    BucketWindow = 1
    Spacing = 1
    ExtraSpacing = 1
    PairSpacing = 2
    SlowdownTime = 1
    PairOf <- MCPairOf
INVARIANTS
    OneStaleRequest
    RateKept
    NoNeedlessRefresh
PROPERTIES
    EveryCallEnds
