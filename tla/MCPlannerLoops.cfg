SPECIFICATION Spec
CONSTANTS
    Sessions = {s1, s2}
    Tasks = {t1}
    w1 = w1
    w2 = w2
    v1 = v1
    v2 = v2
    Workflows = {w1, w2}
    Versions = {v1, v2}
    Unfit <- UnfitLater
    MaxInterpretations = 2
    MaxProposals = 2
    Retention = 1
    Horizon = 0
    Failures = FALSE
    SlowRequests = TRUE
    None = None
INVARIANTS
    OnlyValidatedRuns
PROPERTIES
    PlanningEnds
CHECK_DEADLOCK FALSE
