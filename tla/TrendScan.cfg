CONSTANTS
    w1 = w1
    op1 = op1
    Workers = {w1}
    Operators = {op1}
    Days = 1
    Stocks = 2
    MaxFailed = 2
    MaxStreak = 2
    ProgressEvery = 2
    PublicLimit = 1
    MaxEvents <- Events
    MaxFaults = 1
SPECIFICATION FairSpec
INVARIANTS TypeOK ScheduledOnce SweepTakesDeadRuns EvidenceStands
PROPERTIES ResultsStand RunsSettle
