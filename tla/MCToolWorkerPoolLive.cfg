SPECIFICATION FairSpec
CONSTANTS
    Call = {c1, c2}
    Worker = {w1}
    None = None
    Size = 1
    MaxQueue = 1
    DeathLimit = 2
    MaxCode = 2
    MaxFaults = 2
PROPERTIES
    EveryCallSettles
CHECK_DEADLOCK FALSE
