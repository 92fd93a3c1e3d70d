SPECIFICATION FairSpec
CONSTANTS
    Task = {t1, t2}
    MaxConcurrent = 1
    MaxTerminal = 2
    Aging = FALSE
    MaxCrashes = 0
    MaxWriteErrors = 0
PROPERTIES
    ShutdownSettles EveryTaskEnds ChangesReachFile
CHECK_DEADLOCK FALSE
