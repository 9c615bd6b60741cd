SPECIFICATION Spec
CONSTANTS
    l1 = l1
    l2 = l2
    id = id
    nm = nm
    borough = borough
    Borough = Borough
    district = district
    city = city
    Layers = {l1, l2}
    Fields = {id, nm}
    Places = {city}
    Labels = {borough, Borough, district}
    Governed <- GovernedFirst
    Relevant <- Both
    Identity <- OnlyId
    Kind <- AllVector
    Geometries <- AllPolygons
    Canonical = {l1, l2}
    Fold <- CaseFold
    Metadata <- SomeMetadata
    Artifacts <- SomeArtifacts
    Tasks <- SomeTasks
    MaxVersions = 3
    Unknown = Unknown
    None = None
INVARIANTS
    BindingsRestOnEvidence
    SupportedBindingsValidate
    ReportedFieldsAreRejected
CHECK_DEADLOCK FALSE
