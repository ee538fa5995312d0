SPECIFICATION FairSpec
CONSTANTS
    c1 = c1
    c2 = c2
    Callers = {c1, c2}
    NoCaller = NoCaller
    IdMod = 2
    MaxAttempts = 2
    CacheSize = 2
    MaxCalls = 3
    MaxEspRestarts = 1
    MaxNrfRestarts = 1
INVARIANTS TypeOK ExecutedInOrder FreshOwnResponse WokenWithAnswer
PROPERTIES ImplementsService EveryCallReturns
