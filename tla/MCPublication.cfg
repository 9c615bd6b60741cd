SPECIFICATION Spec
CONSTANTS
    Processes = {p1, p2, p3}
    Support = buurten
    Divisions = {wijken}
    Objects = {sport}
    Rasters = {dtm}
    Collections = {sentinel2}
    Changing = {buurten, wijken, sport}
    MaxRevision = 1
    Annotations = {a1}
    Sessions = {s, t}
    Accepted = {s, t}
    Documents = 2
    Days = {today}
    Renderings = {r1, r2}
    None = None
    NoData = NoData
SYMMETRY Symmetry
INVARIANTS
    CatalogIsComplete
    SnapshotsShareOneSupport
    ListedExamplesAreComplete
    ViewsAgree
    DeadlinesAreOwed
PROPERTIES
    ImplementsRegister
CHECK_DEADLOCK FALSE
