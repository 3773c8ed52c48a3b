CONSTANTS
    Workers = {w1}
    References = {r1, r2}
    MaxId = 3
    Batch = 2
    MaxAttempts = 2
    MaxAborts = 1
    None = None
SPECIFICATION FairSpec
INVARIANTS
    OrderInv
    InOrderUnlessRefused
PROPERTY EveryMessageSettles
