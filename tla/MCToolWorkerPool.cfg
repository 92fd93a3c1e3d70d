SPECIFICATION Spec
CONSTANTS
    Call = {c1, c2}
    Worker = {w1, w2}
    None = None
    Size = 2
    MaxQueue = 0
    DeathLimit = 2
    MaxCode = 2
    MaxFaults = 1
SYMMETRY PoolSymmetry
INVARIANTS
    FreshCode StartedOnce NoStrandedCall ProcessesCounted
CHECK_DEADLOCK FALSE
