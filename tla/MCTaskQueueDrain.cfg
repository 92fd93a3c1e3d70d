SPECIFICATION Spec
CONSTANTS
    Task = {t1, t2}
    MaxConcurrent = 1
    MaxTerminal = 1
    Aging = TRUE
    MaxCrashes = 0
    MaxWriteErrors = 0
INVARIANT DrainedGroupsGone
CHECK_DEADLOCK FALSE
