------------------------- MODULE MCWorkflowDataflow -------------------------
(***************************************************************************)
(* A small instance of WorkflowDataflow: two vector layers that share a    *)
(* column, a raster and an image collection, and the steps over them that  *)
(* name a column of one, of both or of neither.                            *)
(***************************************************************************)
EXTENDS WorkflowDataflow

CONSTANTS Algorithms, NewNames, FieldLists, OutputNames

InputRefs == {"zones", "objects", "raster", "collection"}
StepRefs == {"x", "y", "z"}
MCRefs == InputRefs \cup StepRefs

Id == <<"id">>
Area == <<"area">>
Num == <<"num">>
B8 == <<"B8">>
Value == <<"value">>

MCLayers ==
    [r \in MCRefs |->
        CASE r = "zones" -> [kind |-> "vector", columns |-> {Id, Area}]
          [] r = "objects" -> [kind |-> "vector", columns |-> {Id, Num}]
          [] r = "raster" -> [kind |-> "raster", columns |-> {Value}]
          [] r = "collection" -> [kind |-> "image_collection", columns |-> {B8}]
          [] OTHER -> Nothing]

Either(condition, choices) == IF condition THEN choices ELSE {}

\* Layers are bound where their kind is read; outputs may be bound anywhere.
LayersOf(kind) == {r \in InputRefs : MCLayers[r].kind = kind}

\* Configuration an operation does not have is not bound; the rest may be.
StepsOf(a) ==
    LET contract == Contract(a)
        choices(p, values) == {None} \cup Either(p \in contract.takes, values)
    IN
    [algorithm : {a},
     main : LayersOf(contract.main) \cup {"x"},
     other : {None} \cup Either(contract.other # None,
                               LayersOf(contract.other) \cup {"x", "z"}),
     field : choices("field", FieldLists),
     key : choices("key", {Id}),
     new : choices("new", NewNames),
     prefix : choices("prefix", {"p_"}),
     outputs : OutputNames,
     dialect : {"python"} \cup
               Either(a \in {"geopandas:filterbyexpression", "geopandas:calculatefield"},
                      Dialects)]

MCSteps == UNION {StepsOf(a) : a \in Algorithms}

MCEndings ==
    {[answers |-> {f, t}, diagnostics |-> d] :
        f \in {"x", "y"}, t \in StepRefs, d \in {{}, {"z"}}}

MCExpected == {Id}

Out(r) == [name |-> "output", ref |-> r]
Second(r) == [name |-> "second", ref |-> r]
Count(r) == [name |-> "count", ref |-> r]

\* One output, which may take the name of a layer, or one with what did not
\* match, with a count, or with itself once more beside it.
OutputSets ==
    {{Out("x")}, {Out("y")}, {Out("objects")}, {Out("x"), Second("z")},
     {Out("x"), Count("z")}, {Out("x"), Out("z")}}

\* Every operation whose columns the validator transforms as the runner does.
Mirrored == AllAlgorithms \ {"geopandas:overlay"}

\* Names that are new or taken; and what may stand in for a name.
OneName == {Value, Id}
Substitutes == {Value, Null, Template}

OneColumn == {{Id}, {<<"p_", "num">>}}
Overlaid == {"geopandas:overlay", "geopandas:orderby"}
Naming == {"geopandas:renamefield", "geopandas:countpointsinpolygon", "geopandas:sjoin"}
=============================================================================
