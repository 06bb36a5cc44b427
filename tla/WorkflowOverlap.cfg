CONSTANTS
    c1 = c1
    c2 = c2
    Callers = {c1, c2}
    CandidateCount = 2
    PoolSize = 1
    MaxFaults <- OverlapFaults
SPECIFICATION Spec
SYMMETRY CallerSymmetry
INVARIANTS RowsAgree CallsAreServed
PROPERTIES OutcomeIsTrueWhenWritten StepsRunOut
