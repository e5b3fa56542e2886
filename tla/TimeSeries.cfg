SPECIFICATION Spec
CONSTANTS
    None = None
    First = 2
    Now = 6
    MaxLimit = 5
    PageSize = 3
    ArchivePage = 2
    VenueKeeps = 4
    MaxPages = 3
    MaxFaults = 1
    MaxChanges = 2
INVARIANTS
    TypeOK
    EndsAtAnchor
    Contiguous
    Exhaustive
    NoTwoVersions
