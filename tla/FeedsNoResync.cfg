SPECIFICATION FairSpec
CONSTANTS
    Readers = {r1}
    Bids = {b1}
    Asks = {a1}
    Qtys = {0, 1}
    QueueSize = 2
    Restarts = {TRUE}
    None = None
    MaxUpdates = 3
    MaxFaults = 0
PROPERTIES
    Resyncs
CHECK_DEADLOCK FALSE
