SPECIFICATION FairSpec
CONSTANTS
    Client = {c1, c2}
    Key = {k1}
    Absent = Absent
    LossyCancel = TRUE
    MaxItems = 2
PROPERTIES
    LeavingEnds
