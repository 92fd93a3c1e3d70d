SPECIFICATION Spec
CONSTANTS
    Request = {r1, r2}
    Tool = {r1}
    Route = {a, b}
    Entry = {e1, e2}
    Session = {s1, s2}
    None = None
    MaxEntries = 1
    MaxInflight = 1
    Generation <- MCGeneration
    MaxFaults = 1
SYMMETRY PoolSymmetry
INVARIANTS
    NoSessionLeaked NotCutOff NeverReplayed NobodyStranded MapsBounded ClosedClean
CHECK_DEADLOCK FALSE
