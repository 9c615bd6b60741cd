SPECIFICATION Spec
CONSTANTS
    Requests = {c, r1, r2}
    Creator = c
    Drafts = {d1}
    InvalidDrafts = {}
    MaxRepairs = 1
    Exclusive = TRUE
    Failures = TRUE
    Expires = TRUE
    None = None
SYMMETRY Symmetry
INVARIANTS
    ResultOfLatestDraft
    RecordsWhatRan
    CasesWereAccepted
PROPERTIES
    DecisionImmutable
    ImplementsProtocol
