SPECIFICATION FairSpec
CONSTANTS
    Sub = {s1, s2, s3}
    Topic = {t1, t2}
    NoTopic = NoTopic
    Interrupts = {}
    MaxBreaks = 1
INVARIANTS
    ReadersAreFed
PROPERTIES
    ReaderEventuallyFed
    CloseEndsTheTask
