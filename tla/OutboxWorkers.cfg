CONSTANTS
    Workers = {w1, w2}
    References = {r1, r2}
    MaxId = 3
    Batch = 2
    MaxAttempts = 2
    MaxAborts = 1
    None = None
SPECIFICATION Spec
SYMMETRY MCSymmetry
INVARIANTS
    Inv
    DuplicatesOnlyByAborts
    LeftAloneForAReason
PROPERTY RefinesDelivery
