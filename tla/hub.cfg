SPECIFICATION Spec
CONSTANTS
    Sources = {s1, s2}
    Trackers = {t1, t2}
    NoTracker = NoTracker
    LocalIds = {0}
    Modulus = 6
    ResetAfter = 2
    MaxDelay = 1
    FirstSequence = 4
    MaxPackets = 4
    MaxReassigned = 1
INVARIANTS
    TypeOK
    FirstCopyOnly
    NewestPassed
    AnnouncedAttributed
SYMMETRY Symmetry
