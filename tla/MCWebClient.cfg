SPECIFICATION Spec
CONSTANTS
    s1 = s1
    s2 = s2
    Owned = {s1, s2}
    Examples = {s2}
    Jobs = {j1, j2}
    MaxPending = 2
    None = None
INVARIANTS
    SignedOutViewIsEmpty
    MapShowsItsSession
PROPERTIES
    LateDocumentsAreDropped
CHECK_DEADLOCK FALSE
