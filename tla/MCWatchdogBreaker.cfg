SPECIFICATION FairSpec
CONSTANTS
    MaxRestarts = 2
    Window = 2
    InitialBackoff = 1
    MaxBackoff = 2
    Threshold = 2
    MaxChecks = 1
PROPERTY BreakerExits
CHECK_DEADLOCK FALSE
