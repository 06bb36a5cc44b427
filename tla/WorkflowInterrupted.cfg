CONSTANTS
    c1 = c1
    c2 = c2
    Callers = {c1}
    CandidateCount = 1
    PoolSize = 2
    MaxFaults <- RestartFaults
SPECIFICATION RetriedSpec
PROPERTIES InterruptedIsResumable
