CONSTANTS
    w1 = w1
    w2 = w2
    r1 = r1
    op1 = op1
    Workers = {w1, w2}
    Retriers = {r1}
    Operators = {}
    NoProcess = NoProcess
    PreflightAt = 1
    Intended = 2
    LatestStart = 3
    MaxTime = 4
    ProviderReady = TRUE
    MaxFaults <- LockedFaults
    MaxEvents = 2
SPECIFICATION FairSpec
INVARIANTS TypeOK OneOrchestrator StatusIsTrue
PROPERTIES RowSpec CompletedIsFinal Recovers
