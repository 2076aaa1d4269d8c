SPECIFICATION FairSpec
CONSTANTS
    Jobs = {j1, j2}
    Workers = {w1}
    Readers = {}
    NoJob = NoJob
    MaxShutdowns = 1
    MaxCrashes = 0
    MaxFaults = 0
PROPERTIES
    EveryJobFinishes
CHECK_DEADLOCK FALSE
