SPECIFICATION Spec
CONSTANTS
    Requests = {c, r1}
    Creator = c
    Drafts = {d1, d2}
    InvalidDrafts = {d2}
    MaxRepairs = 2
    Exclusive = TRUE
    Failures = TRUE
    Expires = TRUE
    None = None
INVARIANTS
    RepairsBounded
PROPERTIES
    RepairAnswersFailure
    ExecutionReported
    RejectedReplayForgotten
