SPECIFICATION Spec
CONSTANTS
    None = None
    First = 2
    Now = 6
    MaxLimit = 5
    PageSize = 3
    ArchivePage = 2
    VenueKeeps = 4
    MaxPages = 3
    MaxFaults = 0
    MaxChanges = 0
INVARIANTS
    WalkEndsAtAnchor
