SPECIFICATION FrontendSpec
CONSTANTS
    Jobs = {j1, j2}
    Workers = {w1, w2}
    Readers = {r1}
    NoJob = NoJob
    MaxShutdowns = 1
    MaxCrashes = 1
    MaxFaults = 1
INVARIANTS
    PageTypeOK
    ShownIsStored
    OnlyErrorsCostTheResult
PROPERTIES
    PageSettles
    FinishesUnlessStruck
CHECK_DEADLOCK FALSE
