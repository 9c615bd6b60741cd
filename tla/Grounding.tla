----------------------------- MODULE Grounding -----------------------------
(* From the metadata of a Catalog Layer to the data a plan is bound to: an  *)
(* ingestion publishes Layers, the annotation job lets a model describe     *)
(* them and keeps what rests on evidence, an interpretation binds every     *)
(* role of a task to the only Layer that grounds it, and the validator      *)
(* examines the bindings again.  Catalog versions come and go meanwhile.    *)
EXTENDS Naturals, Sequences, FiniteSets

CONSTANTS
    Layers,      \* the Catalog's
    Fields,      \* names of attributes
    Places,      \* parts of the plane
    Labels,      \* semantic labels
    Governed,    \* the labels that governance has for a Layer, {} if it has none
    Relevant,    \* the attributes of a Layer that are annotated
    Identity,    \* its source identity fields
    Kind,        \* its data kind
    Geometries,  \* its geometry types
    Canonical,   \* the Layers in the canonical coordinate system
    Fold(_),     \* a label without regard to case
    Metadata,    \* what ingestions find the Layers to be
    Artifacts,   \* what the annotation model may answer
    Tasks,       \* what the interpretation model may answer
    MaxVersions, \* how many Catalog versions are published
    Unknown,     \* no Layer of the Catalog
    None

VARIABLES
    versions,   \* the Catalog versions, each a function of the Layers
    pinned,     \* the version a session plans with
    stage,      \* how far its planning is
    task,       \* its interpretation
    bindings,   \* the Layers its roles are bound to
    codes       \* what the validator says of them

vars == <<versions, pinned, stage, task, bindings, codes>>

Current == versions[Len(versions)]

-----------------------------------------------------------------------------
(* Evidence                                                                 *)

\* What a sample is: some numbers, or texts, or the column holds nothing.
Samples == {"none", "numbers", "texts"}

Types == {"number", "text", "boolean", "date", "unknown"}

Attributes == [type : Types, samples : Samples, schema : BOOLEAN, unit : BOOLEAN]

\* What its data covers, nothing if it has no extent; since when and, unless it
\* is still valid, until when; and the columns that arrived.
RawLayers == [described : BOOLEAN, covers : SUBSET Places,
              start : Nat, end : Nat \cup {None},
              attributes : UNION {[columns -> Attributes] : columns \in SUBSET Fields}]

ASSUME GroundingAssumption ==
    /\ Metadata \subseteq [Layers -> RawLayers]
    /\ Governed \in [Layers -> SUBSET Labels]
    /\ {Relevant, Identity} \subseteq [Layers -> SUBSET Fields]
    /\ IsFiniteSet(Layers) /\ MaxVersions \in Nat /\ Unknown \notin Layers
    /\ \A t \in Tasks : Len(t.roles) \in Nat /\ DOMAIN t.roles = 1 .. Len(t.roles)
    /\ None \notin Tasks \cup Labels \cup Nat

Ref(part, f) == [part |-> part, field |-> f]

\* The references the model may cite: only what is there is offered.
Offered(raw) ==
    {Ref("name", None), Ref("identity", None), Ref("technical", None)} \cup
    {r \in {Ref("description", None)} : raw.described} \cup
    {Ref("schema", f) : f \in {g \in DOMAIN raw.attributes : raw.attributes[g].schema}} \cup
    {Ref("samples", f) : f \in {g \in DOMAIN raw.attributes :
                                   raw.attributes[g].samples # "none"}} \cup
    {Ref("type", f) : f \in DOMAIN raw.attributes}

-----------------------------------------------------------------------------
(* Annotations                                                              *)

\* Mutant: what is cited need not have been offered.
CitingAnything(proposal, offered, groups, consistent) ==
    IF proposal = None
    THEN [value |-> None, refs |-> {}, resolved |-> FALSE]
    ELSE [value |-> proposal.value, refs |-> proposal.refs, resolved |->
             /\ proposal.refs # {}
             /\ \A group \in groups : proposal.refs \cap group # {}
             /\ consistent]

\* A proposal is resolved if it cites only what was offered, something of
\* every group that it must rest on, and is consistent.
Annotation(proposal, offered, groups, consistent) ==
    IF proposal = None
    THEN [value |-> None, refs |-> {}, resolved |-> FALSE]
    ELSE [value |-> proposal.value, refs |-> proposal.refs, resolved |->
             /\ proposal.refs # {} /\ proposal.refs \subseteq offered
             /\ \A group \in groups : proposal.refs \cap group # {}
             /\ consistent]

LabelIsConsistent(l, label) == Governed[l] = {} \/ label \in Governed[l]

ScaleIsConsistent(a, scale) ==
    /\ a.samples # "none"
    /\ IF a.unit THEN scale = "numeric" /\ a.samples = "numbers"
       ELSE \/ a.type = "date" /\ scale = "ordinal"
            \/ a.type \in {"boolean", "text"} /\ scale = "nominal"
            \/ a.type = "number" /\ a.samples = "numbers" /\ scale # "ordinal"

\* The scale of an identity field is not the model's to propose.
GovernedScale ==
    [value |-> "nominal", refs |-> {Ref("identity", None)}, resolved |-> TRUE]

EnrichAttribute(l, raw, f, candidate) ==
    LET proposed(part) == IF candidate = None THEN None ELSE candidate[part]
        schema == {Ref("schema", f)}
        samples == {Ref("samples", f)}
        annotate(part, groups, consistent) ==
            Annotation(proposed(part), Offered(raw), groups, consistent)
    IN [name_en |-> annotate("name_en", {schema}, TRUE),
        description |-> annotate("description", {schema, samples}, TRUE),
        label |-> annotate("label", {schema, samples}, TRUE),
        scale |-> IF f \in Identity[l] THEN GovernedScale
                  ELSE annotate("scale", {{Ref("type", f)}, samples},
                           candidate = None
                           \/ ScaleIsConsistent(raw.attributes[f], candidate.scale.value))]

\* The proposals for the attributes that matter; others are noise.
CandidateOf(items, name) ==
    IF \E i \in DOMAIN items : items[i].name = name
    THEN items[CHOOSE i \in DOMAIN items : items[i].name = name] ELSE None

Repeats(items, names) ==
    \E i, j \in DOMAIN items :
        i # j /\ items[i].name = items[j].name /\ items[i].name \in names

Annotated(l, raw) == Relevant[l] \cap DOMAIN raw.attributes

EnrichLayer(l, raw, candidate) ==
    LET items == IF candidate = None THEN <<>> ELSE candidate.attributes IN
    [label |-> Annotation(IF candidate = None THEN None ELSE candidate.label,
                   Offered(raw), {{Ref("name", None), Ref("description", None)}},
                   candidate = None \/ LabelIsConsistent(l, candidate.label.value)),
     attributes |-> [f \in Annotated(l, raw) |->
                        EnrichAttribute(l, raw, f, CandidateOf(items, f))]]

\* An answer about Layers that do not exist, or twice about one of them, or
\* of its attributes, is of no use.
Acceptable(artifact) ==
    /\ \A i \in DOMAIN artifact : artifact[i].name \in Layers
    /\ ~Repeats(artifact, Layers)
    /\ \A i \in DOMAIN artifact :
           ~Repeats(artifact[i].attributes,
                    Annotated(artifact[i].name, Current[artifact[i].name].raw))

Enrich(artifact) ==
    /\ Len(versions) \in 1 .. MaxVersions - 1
    /\ Acceptable(artifact)
    /\ versions' = Append(versions, [l \in Layers |->
           [raw |-> Current[l].raw,
            enriched |-> EnrichLayer(l, Current[l].raw, CandidateOf(artifact, l))]])
    /\ UNCHANGED <<pinned, stage, task, bindings, codes>>

\* An ingestion starts over, without annotations.
Ingest(raw) ==
    /\ Len(versions) < MaxVersions
    /\ versions' = Append(versions, [l \in Layers |-> [raw |-> raw[l], enriched |-> None]])
    /\ UNCHANGED <<pinned, stage, task, bindings, codes>>

FullyResolved(a) ==
    a.name_en.resolved /\ a.description.resolved /\ a.label.resolved /\ a.scale.resolved

\* What the script reports after an annotation: Layers without annotations,
\* and identity fields whose label or scale is not resolved.
Unresolved(catalog) ==
    LET reported(l) ==
            {f \in Identity[l] :
                \/ catalog[l].enriched = None
                \/ f \notin DOMAIN catalog[l].enriched.attributes
                \/ ~catalog[l].enriched.attributes[f].label.resolved
                \/ ~catalog[l].enriched.attributes[f].scale.resolved}
    IN UNION {{<<l, f>> : f \in reported(l)} : l \in Layers}

-----------------------------------------------------------------------------
(* Interpretation                                                           *)

TemporalMatches(raw, t) ==
    t.mode = "current" \/ t.mentions \cap ({raw.start, raw.end} \ {None}) # {}

Topical(layer, role, t) ==
    /\ layer.enriched # None
    /\ layer.enriched.label.value # None
    /\ Fold(layer.enriched.label.value) = Fold(role.label)
    /\ TemporalMatches(layer.raw, t)

AnnotationsSuffice(layer, fields) ==
    /\ layer.enriched # None
    /\ layer.enriched.label.resolved
    /\ fields \subseteq DOMAIN layer.enriched.attributes
    /\ \A f \in fields : FullyResolved(layer.enriched.attributes[f])

\* Mutant: annotations of attributes are left to the validator.
AnalyticalButAttributes(l, layer, role) ==
    /\ layer.enriched # None
    /\ layer.enriched.label.resolved
    /\ Kind[l] = role.kind
    /\ Kind[l] = "vector" => Geometries[l] \cap role.geometries # {}
    /\ role.identity \subseteq Identity[l]
    /\ l \in Canonical

Analytical(l, layer, role) ==
    /\ AnnotationsSuffice(layer, role.identity)
    /\ Kind[l] = role.kind
    /\ Kind[l] = "vector" => Geometries[l] \cap role.geometries # {}
    /\ role.identity \subseteq Identity[l]
    /\ l \in Canonical

RoleNames(t) == {t.roles[i].name : i \in DOMAIN t.roles}

RoleNamed(t, name) == t.roles[CHOOSE i \in DOMAIN t.roles : t.roles[i].name = name]

\* A goal that cannot be typed.
GoalProblems(t) ==
    \/ Cardinality(RoleNames(t)) < Len(t.roles)
    \/ \E name \in t.per :
           \/ name \notin RoleNames(t)
           \/ RoleNamed(t, name).kind # "vector"
           \/ RoleNamed(t, name).identity = {}

Accepted(catalog, role, t) ==
    {l \in Layers : Topical(catalog[l], role, t) /\ Analytical(l, catalog[l], role)}

Binding(n, role, l) ==
    [role |-> role.name, layer |-> l, version |-> n, content |-> versions[n][l].raw]

Pin ==
    /\ Len(versions) > 0 /\ stage = "idle"
    /\ pinned' = Len(versions)
    /\ stage' = "pinned"
    /\ UNCHANGED <<versions, task, bindings, codes>>

\* Mutant: a role is bound to any of the Layers that ground it in the Catalog
\* that is current by now.
InterpretCurrent(t) ==
    /\ stage = "pinned"
    /\ task' = t
    /\ IF t.ambiguous \/ GoalProblems(t)
          \/ \E i \in DOMAIN t.roles :
                 Cardinality(Accepted(Current, t.roles[i], t)) # 1
       THEN stage' = "unsupported" /\ bindings' = {}
       ELSE /\ stage' = "supported"
            /\ bindings' = UNION {{Binding(Len(versions), t.roles[i], l) :
                   l \in Accepted(Current, t.roles[i], t)} : i \in DOMAIN t.roles}
    /\ UNCHANGED <<versions, pinned, codes>>

\* Every role is bound to the one Layer that grounds it, or none is bound.
Interpret(t) ==
    /\ stage = "pinned"
    /\ task' = t
    /\ IF t.ambiguous \/ GoalProblems(t)
          \/ \E i \in DOMAIN t.roles :
                 Cardinality(Accepted(versions[pinned], t.roles[i], t)) # 1
       THEN stage' = "unsupported" /\ bindings' = {}
       ELSE /\ stage' = "supported"
            /\ bindings' = UNION {{Binding(pinned, t.roles[i], l) :
                   l \in Accepted(versions[pinned], t.roles[i], t)} : i \in DOMAIN t.roles}
    /\ UNCHANGED <<versions, pinned, codes>>

-----------------------------------------------------------------------------
(* Validation                                                               *)

Resolves(b) == b.version = pinned /\ versions[pinned][b.layer].raw = b.content

\* What was interpreted is bound to its Layer as that was annotated ...
BindingProblems(b) ==
    LET identity == RoleNamed(task, b.role).identity IN
    {c \in {"unresolved_annotation", "incompatible_type", "crs_conflict"} :
        CASE c = "unresolved_annotation" ->
                 ~AnnotationsSuffice(versions[pinned][b.layer], identity)
          [] c = "incompatible_type" -> ~(identity \subseteq Identity[b.layer])
          [] c = "crs_conflict" -> b.layer \notin Canonical}

\* ... and nothing that is valid since the end of the other, or elsewhere.
Ended(first, second) == first.end # None /\ first.end < second.start

Overlap(first, second) ==
    /\ first.covers \cap second.covers # {}
    /\ ~Ended(first, second) /\ ~Ended(second, first)

CoverageConflict(b, c) ==
    b.role # c.role /\ ~Overlap(versions[pinned][b.layer].raw, versions[pinned][c.layer].raw)

Resolved == {b \in bindings : Resolves(b)}

Codes ==
    {"invented_data", "unresolved_annotation", "incompatible_type", "crs_conflict",
     "coverage_conflict", "structural_error"}

Diagnostics ==
    {c \in Codes :
        \/ c = "invented_data" /\ Resolved # bindings
        \/ \E b \in Resolved : c \in BindingProblems(b)
        \/ c = "coverage_conflict" /\ \E b, d \in Resolved : CoverageConflict(b, d)
        \/ c = "structural_error" /\ {b.role : b \in bindings} # RoleNames(task)}

Validate ==
    /\ stage = "supported"
    /\ codes' = Diagnostics
    /\ stage' = "validated"
    /\ UNCHANGED <<versions, pinned, task, bindings>>

\* A failure of grounding is put to the model again, an ambiguity to the user.
Repair ==
    /\ stage = "unsupported" /\ ~task.ambiguous
    /\ stage' = "pinned" /\ task' = None
    /\ UNCHANGED <<versions, pinned, bindings, codes>>

\* The next planning, of this session or another.
PlanAgain ==
    /\ stage \in {"unsupported", "validated"}
    /\ stage' = "idle" /\ pinned' = 0 /\ task' = None /\ bindings' = {} /\ codes' = {}
    /\ UNCHANGED versions

-----------------------------------------------------------------------------
Init ==
    /\ versions = <<>>
    /\ pinned = 0
    /\ stage = "idle"
    /\ task = None
    /\ bindings = {}
    /\ codes = {}

Next ==
    \/ \E raw \in Metadata : Ingest(raw)
    \/ \E artifact \in Artifacts : Enrich(artifact)
    \/ Pin
    \/ \E t \in Tasks : Interpret(t)
    \/ Repair
    \/ Validate
    \/ PlanAgain

Spec == Init /\ [][Next]_vars

-----------------------------------------------------------------------------
(* Properties                                                               *)

Bound == stage \in {"supported", "validated"}

\* Versions, tasks and bindings are of their kind.
TypeOK ==
    /\ Len(versions) <= MaxVersions
    /\ \A n \in 1 .. Len(versions) : \A l \in Layers :
           versions[n][l].raw \in {raw[l] : raw \in Metadata}
    /\ pinned \in 0 .. Len(versions)
    /\ stage \in {"idle", "pinned", "supported", "unsupported", "validated"}
    /\ stage # "idle" => pinned > 0
    /\ task \in Tasks \cup {None}
    /\ \A b \in bindings : b.layer \in Layers /\ b.role \in RoleNames(task)

\* Whatever the models answer, a role is bound to a Layer only if the Layer's
\* label is one that governance allows it and the columns that identify its
\* objects did arrive, are described by the schema and hold values: what was
\* bound rests on evidence, through annotation and interpretation.
BindingsRestOnEvidence ==
    Bound => \A b \in bindings :
        LET raw == versions[pinned][b.layer].raw
            label == versions[pinned][b.layer].enriched.label
        IN /\ LabelIsConsistent(b.layer, label.value)
           /\ label.refs \subseteq Offered(raw)
           /\ \A f \in RoleNamed(task, b.role).identity :
                  /\ f \in DOMAIN raw.attributes
                  /\ raw.attributes[f].schema /\ raw.attributes[f].samples # "none"

\* The interpretation and the validator hold the same opinion of bindings,
\* although the Catalog has been published anew since: of its role, its Layer,
\* its annotations and its coordinates.  Only whether two bound Layers have
\* anything in common does the interpretation not ask; a plan for them is
\* rejected for its data, about which the planner can do nothing.
SupportedBindingsValidate ==
    stage = "validated" =>
        \/ codes = {}
        \/ /\ codes = {"coverage_conflict"}
           /\ \E b, c \in bindings : b.role # c.role /\ ~Overlap(b.content, c.content)

\* report_unresolved: "grounding will reject them".  An identity field that the
\* script reports for a version is never part of what is bound in it.
ReportedFieldsAreRejected ==
    Bound => \A b \in bindings : \A f \in RoleNamed(task, b.role).identity :
        <<b.layer, f>> \notin Unresolved(versions[pinned])
=============================================================================
