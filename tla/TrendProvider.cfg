CONSTANTS
    t1 = t1
    t2 = t2
    Threads = {t1, t2}
    Stocks = 3
    Attempts = 2
    MaxRequests = 2
    Cooldown = 1
    MaxTime = 2
SYMMETRY ThreadSymmetry
SPECIFICATION Spec
INVARIANTS TypeOK PoolServes CollectionIsBounded
PROPERTIES PrimaryGuarded CollectionRunsOut
