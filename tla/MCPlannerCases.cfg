SPECIFICATION Spec
CONSTANTS
    Sessions = {s1, s2, s3}
    Tasks = {t1, t2}
    w1 = w1
    w2 = w2
    v1 = v1
    v2 = v2
    Workflows = {w1}
    Versions = {v1}
    Unfit = {}
    MaxInterpretations = 1
    MaxProposals = 1
    Retention = 1
    Horizon = 1
    Failures = TRUE
    SlowRequests = TRUE
    None = None
SYMMETRY Symmetry
INVARIANTS
    ReplaysWereAccepted
    RejectedCaseStaysOut
    CaseKeptUntilRejected
CHECK_DEADLOCK FALSE
