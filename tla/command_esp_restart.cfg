SPECIFICATION Spec
CONSTANTS
    c1 = c1
    c2 = c2
    Callers = {c1, c2}
    NoCaller = NoCaller
    IdMod = 5
    MaxAttempts = 2
    CacheSize = 2
    MaxCalls = 2
    MaxEspRestarts = 1
    MaxNrfRestarts = 0
SYMMETRY Symmetry
INVARIANT OwnResponse
