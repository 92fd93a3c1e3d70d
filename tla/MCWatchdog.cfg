SPECIFICATION FairSpec
CONSTANTS
    MaxRestarts = 3
    Window = 4
    InitialBackoff = 1
    MaxBackoff = 2
    Threshold = 2
    MaxChecks = 2
INVARIANTS
    PendingSignalled OneRouter
PROPERTIES
    LongRunForgives StartNotDisturbed RouterReturns ShutdownEnds
CHECK_DEADLOCK FALSE
