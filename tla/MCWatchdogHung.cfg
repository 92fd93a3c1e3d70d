SPECIFICATION FairSpec
CONSTANTS
    MaxRestarts = 2
    Window = 2
    InitialBackoff = 1
    MaxBackoff = 2
    Threshold = 2
    MaxChecks = 1
PROPERTY HealthRestartHappens
CHECK_DEADLOCK FALSE
