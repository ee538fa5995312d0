SPECIFICATION FairSpec
CONSTANTS
    Addresses = {a1, a2}
    NoTracker = NoTracker
    Own = Own
    Groups = {Own, Other}
    MaxTrackers = 2
    QueueSize = 1
    PageSize = 1
    RadioMayFail = TRUE
    MaxEra = 2
    MaxFaults = 1
INVARIANTS TypeOK RadioMatchesConfig GroupIsStored PrimaryIdsDistinct ClearedStaysCleared
    AckedIsStored PagingListsAll
PROPERTY AckedEventuallyStored
