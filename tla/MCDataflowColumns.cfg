SPECIFICATION Spec
CONSTANTS
    None = None
    Null = Null
    Template = Template
    Refs <- MCRefs
    Layers <- MCLayers
    Steps <- MCSteps
    Endings <- MCEndings
    Expected <- MCExpected
    Unmatched = FALSE
    MaxSteps = 2
    Algorithms <- Mirrored
    NewNames <- OneName
    FieldLists <- OneColumn
    OutputNames <- OutputSets
INVARIANTS
    ColumnsMirrorFrames
    StepsFindTheirInputs
    StepsFindTheirColumns
    AnswersCarryTheContract
CHECK_DEADLOCK FALSE
