SPECIFICATION Spec
CONSTANTS
    Key = {k1, k2}
    Object = {o1, o2, o3}
    Attachment = {a1}
    Launch = {1, 2}
    Kind = {"container", "sandbox"}
    None = None
SYMMETRY StoreSymmetry
INVARIANTS
    ReadersKeepObject WritersKeepObject AdmittedKept IndexedWhole
CHECK_DEADLOCK FALSE
