SPECIFICATION FairSpec
CONSTANTS
    Client = {c1, c2}
    Key = {k1, k2}
    Absent = Absent
    LossyCancel = FALSE
    MaxItems = 3
INVARIANTS
    TypeOK
    OneUpstreamPerKey
    NoCrossGenerationSend
    NoSilentClient
PROPERTIES
    IsBroadcast
    ClosedOnce
    DroppedClientLeaves
    LeavingEnds
    ShutdownReturns
