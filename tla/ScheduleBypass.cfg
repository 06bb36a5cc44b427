CONSTANTS
    w1 = w1
    w2 = w2
    r1 = r1
    op1 = op1
    Workers = {w1}
    Retriers = {r1}
    Operators = {op1}
    NoProcess = NoProcess
    PreflightAt = 1
    Intended = 2
    LatestStart = 3
    MaxTime = 4
    ProviderReady = TRUE
    MaxFaults <- BypassFaults
    MaxEvents = 5
SPECIFICATION Spec
INVARIANTS StatusHasCapture
PROPERTIES OfficialSlot
