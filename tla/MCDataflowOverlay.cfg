SPECIFICATION Spec
CONSTANTS
    None = None
    Null = Null
    Template = Template
    Refs <- MCRefs
    Layers <- MCLayers
    Steps <- MCSteps
    Endings <- MCEndings
    Expected <- MCExpected
    Unmatched = FALSE
    MaxSteps = 2
    Algorithms <- Overlaid
    NewNames <- OneName
    FieldLists <- OneColumn
    OutputNames <- OutputSets
INVARIANT StepsFindTheirColumns
CHECK_DEADLOCK FALSE
