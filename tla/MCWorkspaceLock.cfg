SPECIFICATION Spec
CONSTANTS
    Command = {c1, c2, c3, c4}
    None = None
    MaxGuards = 2
SYMMETRY CommandSymmetry
INVARIANTS
    OneReclaimer
    JudgedIsMoved
    StagingSpared
PROPERTIES
    MutualExclusion
    ResidueKept
CHECK_DEADLOCK FALSE
