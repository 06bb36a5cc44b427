CONSTANTS
    w1 = w1
    w2 = w2
    r1 = r1
    op1 = op1
    Workers = {w1, w2}
    Retriers = {}
    Operators = {}
    NoProcess = NoProcess
    PreflightAt = 1
    Intended = 2
    LatestStart = 3
    MaxTime = 4
    ProviderReady = TRUE
    MaxFaults <- RestartFaults
    MaxEvents = 1
SPECIFICATION Spec
PROPERTIES NoFetchAfterMissed
