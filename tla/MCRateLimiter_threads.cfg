SPECIFICATION Spec
CONSTANTS
    Callers = {k1, k2}
    Clients = {c1, c2, c3, c4}
    NoClient = NoClient
    PerMinute = 2
    PerDay = 3
    Enabled = TRUE
    MaxBuckets = 1
    TicksPerMinute = 2
    MinutesPerDay = 2
    LastTick = 7
SYMMETRY Symmetry
INVARIANTS
    DailyCap
