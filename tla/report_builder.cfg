SPECIFICATION FairSpec
CONSTANTS
    Devices = {d1}
    NoDevice = NoDevice
    MaxTrackers = 3
    QueueSize = 5
    ReportRecords = 2
    Period = 1
    Stamps = 2
INVARIANTS
    TypeOK
    QueuedIsNewest
    RoundRobin
PROPERTIES
    NoTrackerStarves
    EveryTrackerAnnounced
