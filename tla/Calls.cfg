SPECIFICATION Spec
CONSTANTS
    None = None
    MaxRetries = 1
    MaxFaults = 2
INVARIANTS
    TableIsTrue
    OfferedIsServed
    SameTypeInBothModes
PROPERTIES
    CallReturns
