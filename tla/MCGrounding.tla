---------------------------- MODULE MCGrounding ----------------------------
(* Instances of Grounding for TLC. *)
EXTENDS Grounding, TLC

CONSTANTS l1, l2, id, nm, borough, Borough, district, city

\* Governance knows the labels of the first Layer only.
GovernedFirst == [l \in Layers |-> IF l = l1 THEN {borough} ELSE {}]

Both == [l \in Layers |-> {id, nm}]

OnlyId == [l \in Layers |-> {id}]

AllVector == [l \in Layers |-> "vector"]

AllPolygons == [l \in Layers |-> {"Polygon"}]

CaseFold(label) == IF label = Borough THEN borough ELSE label

-----------------------------------------------------------------------------
Text == [type |-> "text", samples |-> "texts", schema |-> TRUE, unit |-> FALSE]

Raw(described, attribute) ==
    [described |-> described, covers |-> {city}, start |-> 2024, end |-> None,
     attributes |-> attribute]

Whole == Raw(TRUE, [f \in Fields |-> Text])

\* The first Layer may lack what annotations rest on, have ended before the
\* second began, or have no extent.
SomeMetadata ==
    {[l \in Layers |-> IF l = l1 THEN raw ELSE Whole] :
        raw \in
        {Whole, [Whole EXCEPT !.start = 2022, !.end = 2023], [Whole EXCEPT !.covers = {}],
         Raw(FALSE, [f \in Fields |-> Text]),
         Raw(TRUE, [f \in {nm} |-> Text]),
         Raw(TRUE, [f \in Fields |-> IF f = id THEN [Text EXCEPT !.samples = "none"] ELSE Text]),
         Raw(TRUE, [f \in Fields |-> IF f = id THEN [Text EXCEPT !.schema = FALSE] ELSE Text])}}

-----------------------------------------------------------------------------
Proposal(value, refs) == [value |-> value, refs |-> refs]

Column(f) == {Ref("schema", f), Ref("samples", f), Ref("type", f)}

\* The proposals for an attribute rest on all its evidence, but for one part.
Described(f, scale, part, refs) ==
    [name |-> f] @@ [p \in {"name_en", "description", "label", "scale"} |->
        Proposal(IF p = "scale" THEN scale ELSE district,
                 IF p = part THEN refs ELSE Column(f))]

WellDescribed(f) == Described(f, "nominal", "none", {})

About(l, label, refs, attributes) ==
    [name |-> l, label |-> Proposal(label, refs), attributes |-> attributes]

Name == {Ref("name", None)}

\* Ways to speak about the first Layer: fully, of another's label, with and
\* without evidence, of attributes badly described, repeated or irrelevant.
OfTheFirst ==
    LET well == <<WellDescribed(id)>> IN
    {<<>>} \cup
    {<<About(l1, label, refs, well)>> :
        label \in {borough, Borough, district},
        refs \in {Name, {Ref("description", None)}, {Ref("technical", None)}}} \cup
    {<<About(l1, borough, Name, attributes)>> : attributes \in
        {<<>>, well \o well, <<WellDescribed(nm), WellDescribed(nm)>>} \cup
        {<<Described(id, "numeric", part, {Ref("schema", id)})>> :
            part \in {"name_en", "description", "label", "scale"}} \cup
        {<<Described(id, "nominal", "name_en", {Ref("technical", None)})>>}}

\* The second is described well, with the label of the first or its own, or
\* twice; or the answer is about no Layer of the Catalog.
SomeArtifacts ==
    LET second(label) == <<About(l2, label, Name, <<WellDescribed(nm), WellDescribed(id)>>)>>
    IN {first \o second(label) : first \in OfTheFirst, label \in {borough, district}} \cup
       {second(district) \o second(district),
        <<About(Unknown, borough, Name, <<>>)>>}

-----------------------------------------------------------------------------
Role(name, label, identity) ==
    [name |-> name, label |-> label, identity |-> identity, kind |-> "vector",
     geometries |-> {"Polygon"}]

Task(roles, per) ==
    [roles |-> roles, per |-> per, ambiguous |-> FALSE, mode |-> "current", mentions |-> {}]

SomeTasks ==
    LET area == Role("area", Borough, {id})
        other == Role("other", district, {id})
        usual == Task(<<area>>, {"area"}) IN
    {usual,
     [usual EXCEPT !.ambiguous = TRUE],
     [usual EXCEPT !.mode = "as_of", !.mentions = {2024}],
     [usual EXCEPT !.mode = "as_of", !.mentions = {2023}],
     Task(<<area, other>>, {"area"}),
     Task(<<area, area>>, {"area"}),
     Task(<<area>>, {"other"}),
     Task(<<[area EXCEPT !.identity = {}]>>, {}),
     Task(<<[area EXCEPT !.identity = {}]>>, {"area"}),
     Task(<<[area EXCEPT !.identity = {id, nm}]>>, {"area"}),
     Task(<<[area EXCEPT !.kind = "raster"]>>, {}),
     Task(<<[area EXCEPT !.geometries = {"Point"}]>>, {})}
=============================================================================
