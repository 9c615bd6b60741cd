SPECIFICATION Spec
CONSTANTS
    Requests = {c, r1, r2}
    Creator = c
    Drafts = {d1}
    InvalidDrafts = {}
    MaxRepairs = 0
    Exclusive = FALSE
    Failures = FALSE
    Expires = FALSE
    None = None
PROPERTIES
    DecisionImmutable
