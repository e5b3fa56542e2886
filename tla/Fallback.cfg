SPECIFICATION FairSpec
CONSTANTS
    Call = {c1, c2}
    Stream = {s1}
    max_retries = 2
    MaxFlips = 3
INVARIANTS
    TypeOK
    AnnouncedOnce
    NoSilentLocal
PROPERTIES
    EveryFetchEnds
    StreamsRecover
CHECK_DEADLOCK FALSE
