CONSTANTS
    Symbols = {"A", "B", "C"}
    MinRecords = 1
    MaxDuplicates = 0
    MaxMissing = 34
    MaxBadPrices = 67
    MaxBadPcts = 50
    MaxMalformed = 67
    MaxPct = 100000
    PctMin = 300
    PctMax = 500
    MaxAttempts = 2
    Session = {1, 2, 3, 4, 6, 7, 8, 9}
    Recent = 7
    Early = 6
    MinDays = 3
    MaxDays = 4
    MaxPullbacks = 1
    MaxPullbackPct = {50}
    Baseline = 2
    StrongPercent = 55
    RefreshDays = 7
    AsOf = 1
    Retrieved = 2
    Finished = 3
    Enabled = {"answer"}
    Answers <- MCAnswers
    Markets <- MCMarkets
    AttemptsOn <- MCAttemptsOn
    Days <- MCDays
    BarsOf <- MCBarsOf
    BarAt <- MCBarAt
    Stocks <- MCStocks
    HistoryOf <- MCHistoryOf
SPECIFICATION Spec
INVARIANT NoEvidenceIsKept
