SPECIFICATION Spec
CONSTANTS
    Jobs = {j1, j2, j3}
    Workers = {w1, w2}
    Readers = {r1}
    NoJob = NoJob
    MaxShutdowns = 1
    MaxCrashes = 1
    MaxFaults = 1
SYMMETRY Symmetry
INVARIANTS
    TypeOK
    ResultIffTerminal
    OnePlace
    WorkIsBacked
    UnfinishedIsHeld
    AnswersMatchKnowledge
    StatusAnswerWhole
PROPERTIES
    ImplementsLifecycle
