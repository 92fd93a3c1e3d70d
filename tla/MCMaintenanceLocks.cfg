SPECIFICATION LockSpec
CONSTANTS
    Op = {worker, command, monitor}
    Monitor = {monitor}
    Supervised = {worker}
    Kind = {"lease", "maintenance"}
    None = None
    MaxBox = 2
INVARIANTS
    SerializedUnlessRaced AbnormalEndRetained
PROPERTIES
    RecoveryKept
CHECK_DEADLOCK FALSE
