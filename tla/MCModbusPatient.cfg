CONSTANTS
    Slots = {r1, r2, r3, r4, r5}
    MaxParallel = 3
    BatchMax = 3
    QueueMax = 5
    AskMax = 2
    Patient = TRUE
    RaceAt <- BeforeSending
SPECIFICATION FairSpec
INVARIANTS AtMostMaxParallel NoRequestIsStranded
PROPERTIES SessionsDoNotMix FullyDisconnected WaitingEnds
CHECK_DEADLOCK FALSE
