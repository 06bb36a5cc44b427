CONSTANTS
    c1 = c1
    c2 = c2
    x1 = x1
    x2 = x2
    Callers = {c1, c2}
    RunIds = {x1, x2}
    NoRun = NoRun
    MaxFaults <- AnyFaults
SPECIFICATION FairSpec
INVARIANTS TypeOK StoreConsistent
PROPERTIES OfficialSpec RunsEnd
