SPECIFICATION Spec
CONSTANTS
    Task = {t1, t2}
    MaxConcurrent = 1
    MaxTerminal = 1
    Aging = TRUE
    MaxCrashes = 1
    MaxWriteErrors = 1
SYMMETRY TaskSymmetry
INVARIANTS
    NoStrandedTask SpawnedAtMostOnce CancelWins
    NoLostChange DrainedIsDurable CancelledGroupGone
PROPERTIES
    OutcomeStable DurableOutcome
CHECK_DEADLOCK FALSE
