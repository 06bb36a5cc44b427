CONSTANTS
    c1 = c1
    c2 = c2
    Callers = {c1}
    CandidateCount = 3
    PoolSize = 2
    MaxFaults <- TurnFaults
SPECIFICATION RetriedSpec
INVARIANTS TypeOK
PROPERTIES ResultIsFinal RowSpec RetriesSucceed
