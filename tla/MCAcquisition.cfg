SPECIFICATION Spec
CONSTANTS
    Features = {f1, f2, f3}
    Identities = {i1, i2}
    Crses = {rd, wgs}
    DeclaredCrs = rd
    PageSize = 2
    MaxPages = 3
    MaxChanges = 2
    Outcomes <- EveryPair
    None = None
INVARIANTS
    AcquiresWhatWasThere
    AcquiredInOneCrs
    RecordsAreAccounted
    RepeatsAreReported
PROPERTIES
    AcquisitionEnds
CHECK_DEADLOCK FALSE
