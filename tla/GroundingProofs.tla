-------------------------- MODULE GroundingProofs --------------------------
(***************************************************************************)
(* Theorems about Grounding, for every Catalog, every answer of the models *)
(* and every number of versions.                                           *)
(***************************************************************************)
EXTENDS Grounding, FiniteSetTheorems, SequenceTheorems, TLAPS

-----------------------------------------------------------------------------
(* Versions. *)

\* Versions are of no kind in particular: what annotations say may be anything.
IsSequence(s) == \E S : s \in Seq(S)

LEMMA Appended ==
    ASSUME NEW s, IsSequence(s), NEW e
    PROVE  /\ IsSequence(Append(s, e))
           /\ Len(s) \in Nat
           /\ Len(Append(s, e)) = Len(s) + 1
           /\ \A n \in 1 .. Len(s) : Append(s, e)[n] = s[n]
           /\ Append(s, e)[Len(s) + 1] = e
<1>1. PICK S : s \in Seq(S)
  BY DEF IsSequence
<1>2. s \in Seq(S \cup {e})
  BY <1>1, SeqMonotonic, Zenon
<1>3. e \in S \cup {e}
  OBVIOUS
<1> QED
  BY <1>2, <1>3, AppendProperties, LenProperties DEF IsSequence

LEMMA Lengths ==
    ASSUME NEW s, IsSequence(s)
    PROVE  Len(s) \in Nat
BY LenProperties DEF IsSequence

-----------------------------------------------------------------------------
(* Annotations rest on evidence. *)

LEMMA ResolvedRestsOnEvidence ==
    ASSUME NEW proposal, NEW offered, NEW groups, NEW consistent \in BOOLEAN,
           Annotation(proposal, offered, groups, consistent).resolved
    PROVE  LET a == Annotation(proposal, offered, groups, consistent) IN
           /\ consistent /\ proposal # None /\ a.value = proposal.value
           /\ a.refs \subseteq offered
           /\ \A group \in groups : a.refs \cap group # {}
<1>1. CASE proposal = None
  BY <1>1 DEF Annotation
<1>2. CASE proposal # None
  BY <1>2 DEF Annotation
<1> QED
  BY <1>1, <1>2

\* What a layer's annotations amount to, whatever the model answered.
LayerEvidence(l, raw, enriched) ==
    /\ enriched.label.resolved =>
           /\ LabelIsConsistent(l, enriched.label.value)
           /\ enriched.label.refs \subseteq Offered(raw)
    /\ \A f \in DOMAIN enriched.attributes :
           /\ f \in DOMAIN raw.attributes
           /\ FullyResolved(enriched.attributes[f]) =>
                  raw.attributes[f].schema /\ raw.attributes[f].samples # "none"

LEMMA OfferedColumns ==
    ASSUME NEW raw, NEW f, NEW refs, refs \subseteq Offered(raw)
    PROVE  /\ refs \cap {Ref("schema", f)} # {} => raw.attributes[f].schema
           /\ refs \cap {Ref("samples", f)} # {} => raw.attributes[f].samples # "none"
BY DEF Offered, Ref

LEMMA EnrichedEvidence ==
    ASSUME NEW l, NEW raw, NEW candidate
    PROVE  LayerEvidence(l, raw, EnrichLayer(l, raw, candidate))
<1> DEFINE items == IF candidate = None THEN <<>> ELSE candidate.attributes
           E == EnrichLayer(l, raw, candidate)
           A == [f \in Annotated(l, raw) |->
                    EnrichAttribute(l, raw, f, CandidateOf(items, f))]
<1>1. E.attributes = A
  BY DEF EnrichLayer
<1>2. ASSUME E.label.resolved
      PROVE  LabelIsConsistent(l, E.label.value) /\ E.label.refs \subseteq Offered(raw)
  <2> DEFINE proposal == IF candidate = None THEN None ELSE candidate.label
             groups == {{Ref("name", None), Ref("description", None)}}
             consistent == candidate = None \/ LabelIsConsistent(l, candidate.label.value)
  <2>1. E.label = Annotation(proposal, Offered(raw), groups, consistent)
    BY DEF EnrichLayer
  <2>2. consistent \in BOOLEAN
    BY DEF LabelIsConsistent
  <2> HIDE DEF groups, consistent, E, proposal
  <2> DEFINE a == Annotation(proposal, Offered(raw), groups, consistent)
  <2>5. a.resolved
    BY <1>2, <2>1
  <2>6. consistent /\ proposal # None /\ a.value = proposal.value /\ a.refs \subseteq Offered(raw)
    BY <2>2, <2>5, ResolvedRestsOnEvidence, Zenon
  <2>3. /\ consistent /\ proposal # None /\ E.label.value = proposal.value
        /\ E.label.refs \subseteq Offered(raw)
    BY <2>1, <2>6
  <2>4. candidate # None /\ LabelIsConsistent(l, E.label.value)
    BY <2>3 DEF consistent, proposal
  <2> QED
    BY <2>3, <2>4
<1>3. ASSUME NEW f \in DOMAIN A, FullyResolved(A[f])
      PROVE  raw.attributes[f].schema /\ raw.attributes[f].samples # "none"
  <2> DEFINE c == CandidateOf(items, f)
             proposal == IF c = None THEN None ELSE c["description"]
             groups == {{Ref("schema", f)}, {Ref("samples", f)}}
  <2>1. A[f].description = Annotation(proposal, Offered(raw), groups, TRUE)
    <3>1. A[f] = EnrichAttribute(l, raw, f, c)
      OBVIOUS
    <3>2. EnrichAttribute(l, raw, f, c).description =
              Annotation(proposal, Offered(raw), groups, TRUE)
      BY DEF EnrichAttribute
    <3> QED
      BY <3>1, <3>2, Zenon
  <2>2. A[f].description.resolved
    BY <1>3 DEF FullyResolved
  <2> HIDE DEF A, proposal, groups
  <2> DEFINE a == Annotation(proposal, Offered(raw), groups, TRUE)
  <2>3. a.resolved
    BY <2>1, <2>2
  <2>4. a.refs \subseteq Offered(raw) /\ \A group \in groups : a.refs \cap group # {}
    <3> DEFINE consistent == TRUE
    <3>1. consistent \in BOOLEAN
      OBVIOUS
    <3>2. Annotation(proposal, Offered(raw), groups, consistent).resolved
      BY <2>3
    <3>3. a = Annotation(proposal, Offered(raw), groups, consistent)
      OBVIOUS
    <3> HIDE DEF consistent, a
    <3> QED
      BY <3>1, <3>2, <3>3, ResolvedRestsOnEvidence
  <2> HIDE DEF a
  <2>5. a.refs \cap {Ref("schema", f)} # {} /\ a.refs \cap {Ref("samples", f)} # {}
    BY <2>4 DEF groups
  <2> QED
    BY <2>4, <2>5, OfferedColumns, Zenon
<1>4. \A f \in DOMAIN A : f \in DOMAIN raw.attributes
  BY DEF Annotated
<1> HIDE DEF A, E
<1>5. LayerEvidence(l, raw, E)
  BY <1>1, <1>2, <1>3, <1>4, Zenon DEF LayerEvidence
<1> QED
  BY <1>5 DEF E

-----------------------------------------------------------------------------
(* The names of a task's roles. *)

LEMMA NamesAreFinite ==
    ASSUME NEW t \in Tasks
    PROVE  IsFiniteSet(RoleNames(t))
<1> DEFINE n == Len(t.roles)
           f == [j \in 1 .. n |-> t.roles[j].name]
<1>1. n \in Nat /\ DOMAIN t.roles = 1 .. n
  BY GroundingAssumption
<1>2. f \in Surjection(1 .. n, RoleNames(t))
  BY <1>1 DEF Surjection, RoleNames
<1>3. IsFiniteSet(1 .. n)
  <2>1. 1 \in Int /\ n \in Int
    BY <1>1
  <2> HIDE DEF f, n
  <2> QED
    BY <2>1, FS_Interval, Zenon
<1> HIDE DEF f
<1> QED
  BY <1>2, <1>3, FS_Surjection

LEMMA NamesAreDistinct ==
    ASSUME NEW t \in Tasks, Cardinality(RoleNames(t)) >= Len(t.roles),
           NEW i \in DOMAIN t.roles
    PROVE  RoleNamed(t, t.roles[i].name) = t.roles[i]
<1> DEFINE n == Len(t.roles)
           f == [j \in 1 .. n |-> t.roles[j].name]
<1>1. n \in Nat /\ DOMAIN t.roles = 1 .. n
  BY GroundingAssumption
<1>2. f \in Surjection(1 .. n, RoleNames(t))
  BY <1>1 DEF Surjection, RoleNames
<1>3. IsFiniteSet(1 .. n) /\ Cardinality(1 .. n) = n
  BY <1>1, FS_Interval
<1>4. /\ Cardinality(RoleNames(t)) <= n
      /\ Cardinality(RoleNames(t)) = n <=> f \in Injection(1 .. n, RoleNames(t))
      /\ IsFiniteSet(RoleNames(t))
  <2> HIDE DEF f
  <2> QED
    BY <1>2, <1>3, FS_Surjection
<1>5. f \in Injection(1 .. n, RoleNames(t))
  BY <1>1, <1>4, FS_CardinalityType
<1>6. \A j, k \in 1 .. n : f[j] = f[k] => j = k
  BY <1>5 DEF Injection, IsInjective
<1>7. \A j \in DOMAIN t.roles : t.roles[j].name = t.roles[i].name => j = i
  BY <1>1, <1>6
<1>8. (CHOOSE j \in DOMAIN t.roles : t.roles[j].name = t.roles[i].name) = i
  BY <1>7
<1> QED
  BY <1>8 DEF RoleNamed

\* Of the Layers, just one grounds a role.
LEMMA TheOneLayer ==
    ASSUME NEW catalog, NEW role, NEW t, Cardinality(Accepted(catalog, role, t)) = 1
    PROVE  \E l \in Layers : Accepted(catalog, role, t) = {l}
<1>1. Accepted(catalog, role, t) \subseteq Layers
  BY DEF Accepted
<1>2. IsFiniteSet(Accepted(catalog, role, t))
  BY <1>1, GroundingAssumption, FS_Subset
<1> QED
  BY <1>1, <1>2, FS_Singleton

-----------------------------------------------------------------------------
(* The inductive invariant. *)

VersionsInv ==
    /\ IsSequence(versions) /\ Len(versions) <= MaxVersions
    /\ \A n \in 1 .. Len(versions) : \A l \in Layers :
           /\ versions[n][l].raw \in {raw[l] : raw \in Metadata}
           /\ versions[n][l].enriched # None =>
                  LayerEvidence(l, versions[n][l].raw, versions[n][l].enriched)

BoundTo(catalog, n, role, l) ==
    [role |-> role.name, layer |-> l, version |-> n, content |-> catalog[l].raw]

LayersBoundTo(catalog, n, role, t) ==
    {BoundTo(catalog, n, role, l) : l \in Accepted(catalog, role, t)}

\* What the interpretation binds, of the catalog that it is pinned to.
Grounds(catalog, n, t, found) ==
    /\ t \in Tasks
    /\ Cardinality(RoleNames(t)) >= Len(t.roles)
    /\ \A i \in DOMAIN t.roles : Cardinality(Accepted(catalog, t.roles[i], t)) = 1
    /\ found = UNION {LayersBoundTo(catalog, n, t.roles[i], t) : i \in DOMAIN t.roles}

Grounded == Grounds(versions[pinned], pinned, task, bindings)

\* The validator accepts what is bound, or objects to what two Layers cover.
Judged(bound, found) ==
    \/ found = {}
    \/ /\ found = {"coverage_conflict"}
       /\ \E b, c \in bound : b.role # c.role /\ ~Overlap(b.content, c.content)

GroundingInv ==
    /\ VersionsInv
    /\ pinned \in 0 .. Len(versions)
    /\ stage \in {"idle", "pinned", "supported", "unsupported", "validated"}
    /\ stage # "idle" => pinned > 0
    /\ task \in Tasks \cup {None}
    /\ IF Bound THEN Grounded ELSE bindings = {}
    /\ stage = "validated" => Judged(bindings, codes)

\* What is known of each binding.
LEMMA BindingsAreGrounded ==
    ASSUME Grounded, NEW b \in bindings
    PROVE  \E i \in DOMAIN task.roles :
               /\ b = BoundTo(versions[pinned], pinned, task.roles[i], b.layer)
               /\ b.layer \in Layers /\ b.role = task.roles[i].name
               /\ RoleNamed(task, b.role) = task.roles[i]
               /\ Topical(versions[pinned][b.layer], task.roles[i], task)
               /\ Analytical(b.layer, versions[pinned][b.layer], task.roles[i])
<1> DEFINE catalog == versions[pinned]
<1>1. PICK i \in DOMAIN task.roles : b \in LayersBoundTo(catalog, pinned, task.roles[i], task)
  BY DEF Grounded, Grounds
<1>2. PICK l \in Accepted(catalog, task.roles[i], task) :
          b = BoundTo(catalog, pinned, task.roles[i], l)
  BY <1>1 DEF LayersBoundTo
<1>3. b.layer = l /\ b.role = task.roles[i].name
  BY <1>2 DEF BoundTo
<1>4. RoleNamed(task, b.role) = task.roles[i]
  BY <1>3, NamesAreDistinct DEF Grounded, Grounds
<1>5. /\ l \in Layers
      /\ Topical(catalog[l], task.roles[i], task)
      /\ Analytical(l, catalog[l], task.roles[i])
  BY <1>2 DEF Accepted
<1> QED
  BY <1>2, <1>3, <1>4, <1>5

\* The validator finds again what the interpretation found, and looks further.
LEMMA OneObjection ==
    ASSUME Grounded
    PROVE  Judged(bindings, Diagnostics)
<1>1. ASSUME NEW b \in bindings
      PROVE  /\ Resolves(b)
             /\ AnnotationsSuffice(versions[pinned][b.layer], RoleNamed(task, b.role).identity)
             /\ RoleNamed(task, b.role).identity \subseteq Identity[b.layer]
             /\ b.layer \in Canonical /\ b.content = versions[pinned][b.layer].raw
  <2>1. PICK i \in DOMAIN task.roles :
            /\ b = BoundTo(versions[pinned], pinned, task.roles[i], b.layer)
            /\ RoleNamed(task, b.role) = task.roles[i]
            /\ Analytical(b.layer, versions[pinned][b.layer], task.roles[i])
    BY BindingsAreGrounded
  <2>2. b.version = pinned /\ b.content = versions[pinned][b.layer].raw
    BY <2>1 DEF BoundTo
  <2> QED
    BY <2>1, <2>2 DEF Analytical, Resolves
<1>2. {b.role : b \in bindings} = RoleNames(task)
  <2>1. ASSUME NEW b \in bindings PROVE b.role \in RoleNames(task)
    BY BindingsAreGrounded DEF RoleNames
  <2>2. ASSUME NEW i \in DOMAIN task.roles
        PROVE  \E b \in bindings : b.role = task.roles[i].name
    <3>1. PICK l \in Layers : Accepted(versions[pinned], task.roles[i], task) = {l}
      BY TheOneLayer DEF Grounded, Grounds
    <3>2. BoundTo(versions[pinned], pinned, task.roles[i], l)
              \in LayersBoundTo(versions[pinned], pinned, task.roles[i], task)
      BY <3>1 DEF LayersBoundTo
    <3>3. BoundTo(versions[pinned], pinned, task.roles[i], l) \in bindings
      BY <3>2 DEF Grounded, Grounds
    <3>4. BoundTo(versions[pinned], pinned, task.roles[i], l).role = task.roles[i].name
      BY DEF BoundTo
    <3> QED
      BY <3>3, <3>4
  <2> QED
    BY <2>1, <2>2 DEF RoleNames
<1>3. {b \in bindings : Resolves(b)} = bindings
  BY <1>1
<1>4. \A b \in bindings : BindingProblems(b) = {}
  BY <1>1 DEF BindingProblems
<1>5. Diagnostics = {c \in {"coverage_conflict"} : \E b, d \in bindings : CoverageConflict(b, d)}
  <2>1. Resolved = bindings
    BY <1>3 DEF Resolved
  <2> QED
    BY <1>2, <1>4, <2>1 DEF Diagnostics, Codes
<1>6. ASSUME NEW b \in bindings, NEW d \in bindings, CoverageConflict(b, d)
      PROVE  b.role # d.role /\ ~Overlap(b.content, d.content)
  BY <1>1, <1>6 DEF CoverageConflict
<1> QED
  BY <1>5, <1>6 DEF Judged

LEMMA InitInv == Init => GroundingInv
<1> SUFFICES ASSUME Init PROVE GroundingInv
  OBVIOUS
<1>1. IsSequence(versions) /\ Len(versions) = 0
  BY EmptySeq DEF Init, IsSequence
<1>2. VersionsInv
  BY <1>1, GroundingAssumption DEF VersionsInv
<1> QED
  BY <1>1, <1>2 DEF Init, GroundingInv, Bound

\* A version more changes nothing for a session that is pinned to an older one.
LEMMA Published ==
    ASSUME GroundingInv, NEW entry, Len(versions) < MaxVersions,
           versions' = Append(versions, entry),
           UNCHANGED <<pinned, stage, task, bindings, codes>>,
           \A l \in Layers :
               /\ entry[l].raw \in {raw[l] : raw \in Metadata}
               /\ entry[l].enriched # None =>
                      LayerEvidence(l, entry[l].raw, entry[l].enriched)
    PROVE  GroundingInv'
<1>1. /\ IsSequence(versions') /\ Len(versions) \in Nat
      /\ Len(versions') = Len(versions) + 1
      /\ \A n \in 1 .. Len(versions) : versions'[n] = versions[n]
      /\ versions'[Len(versions) + 1] = entry
  BY Appended DEF GroundingInv, VersionsInv
<1>2. Len(versions') <= MaxVersions
  BY <1>1, GroundingAssumption
<1>3. ASSUME NEW n \in 1 .. Len(versions'), NEW l \in Layers
      PROVE  /\ versions'[n][l].raw \in {raw[l] : raw \in Metadata}
             /\ versions'[n][l].enriched # None =>
                    LayerEvidence(l, versions'[n][l].raw, versions'[n][l].enriched)
  <2>1. CASE n \in 1 .. Len(versions)
    BY <1>1, <2>1 DEF GroundingInv, VersionsInv
  <2>2. CASE n = Len(versions) + 1
    BY <1>1, <2>2
  <2> QED
    BY <1>1, <2>1, <2>2
<1>4. VersionsInv'
  BY <1>1, <1>2, <1>3 DEF VersionsInv
<1>5. pinned' \in 0 .. Len(versions')
  BY <1>1 DEF GroundingInv
<1>6. CASE Bound
  <2>1. versions'[pinned] = versions[pinned]
    BY <1>1, <1>6 DEF GroundingInv, Bound
  <2>2. Grounded'
    BY <1>6, <2>1 DEF GroundingInv, Grounded
  <2> QED
    BY <1>4, <1>5, <1>6, <2>2 DEF GroundingInv, Bound
<1>7. CASE ~Bound
  BY <1>4, <1>5, <1>7 DEF GroundingInv, Bound
<1> QED
  BY <1>6, <1>7

LEMMA StepInv == GroundingInv /\ [Next]_vars => GroundingInv'
<1> SUFFICES ASSUME GroundingInv, [Next]_vars PROVE GroundingInv'
  OBVIOUS
<1>1. ASSUME NEW raw \in Metadata, Ingest(raw) PROVE GroundingInv'
  <2> DEFINE entry == [l \in Layers |-> [raw |-> raw[l], enriched |-> None]]
  <2>1. /\ Len(versions) < MaxVersions /\ versions' = Append(versions, entry)
        /\ UNCHANGED <<pinned, stage, task, bindings, codes>>
    BY <1>1 DEF Ingest
  <2>2. \A l \in Layers : entry[l].raw = raw[l] /\ entry[l].enriched = None
    OBVIOUS
  <2> HIDE DEF entry
  <2> QED
    BY <2>1, <2>2, Published
<1>2. ASSUME NEW artifact \in Artifacts, Enrich(artifact) PROVE GroundingInv'
  <2> DEFINE entry == [l \in Layers |->
                 [raw |-> Current[l].raw,
                  enriched |-> EnrichLayer(l, Current[l].raw, CandidateOf(artifact, l))]]
  <2>1. /\ Len(versions) \in 1 .. MaxVersions - 1 /\ versions' = Append(versions, entry)
        /\ UNCHANGED <<pinned, stage, task, bindings, codes>>
    BY <1>2 DEF Enrich
  <2>2. Len(versions) < MaxVersions /\ Len(versions) \in 1 .. Len(versions)
    BY <2>1, GroundingAssumption
  <2>3. \A l \in Layers : Current[l].raw \in {raw[l] : raw \in Metadata}
    BY <2>2 DEF Current, GroundingInv, VersionsInv
  <2>4. \A l \in Layers :
            /\ entry[l].raw = Current[l].raw
            /\ entry[l].enriched =
                   EnrichLayer(l, Current[l].raw, CandidateOf(artifact, l))
    OBVIOUS
  <2> HIDE DEF entry
  <2>5. \A l \in Layers : LayerEvidence(l, entry[l].raw, entry[l].enriched)
    BY <2>4, EnrichedEvidence
  <2>6. \A l \in Layers : entry[l].raw \in {raw[l] : raw \in Metadata}
    BY <2>3, <2>4
  <2> QED
    BY <2>1, <2>2, <2>5, <2>6, Published
<1>3. CASE Pin
  <2>1. Len(versions) \in Nat
    BY Lengths DEF GroundingInv, VersionsInv
  <2> QED
    BY <1>3, <2>1 DEF Pin, GroundingInv, VersionsInv, Bound
<1>4. ASSUME NEW t \in Tasks, Interpret(t) PROVE GroundingInv'
  <2>1. /\ stage = "pinned" /\ task' = t /\ UNCHANGED <<versions, pinned, codes>>
        /\ VersionsInv' /\ pinned' \in 0 .. Len(versions') /\ pinned' > 0
    BY <1>4 DEF Interpret, GroundingInv, VersionsInv
  <2>2. CASE stage' = "unsupported" /\ bindings' = {}
    BY <2>1, <2>2 DEF GroundingInv, Bound
  <2>3. CASE /\ stage' = "supported" /\ ~GoalProblems(t)
             /\ \A i \in DOMAIN t.roles :
                    Cardinality(Accepted(versions[pinned], t.roles[i], t)) = 1
             /\ bindings' = UNION {{Binding(pinned, t.roles[i], l) :
                    l \in Accepted(versions[pinned], t.roles[i], t)} : i \in DOMAIN t.roles}
    <3>1. Cardinality(RoleNames(t)) >= Len(t.roles)
      <4>1. ~(Cardinality(RoleNames(t)) < Len(t.roles))
        BY <2>3 DEF GoalProblems
      <4>2. Len(t.roles) \in Nat /\ DOMAIN t.roles = 1 .. Len(t.roles)
        BY GroundingAssumption
      <4>3. Cardinality(RoleNames(t)) \in Nat
        BY <4>2, NamesAreFinite, FS_CardinalityType
      <4> QED
        BY <4>1, <4>2, <4>3
    <3>2. Grounded'
      <4> DEFINE catalog == versions[pinned]
      <4> DEFINE found(i) ==
                     {Binding(pinned, t.roles[i], l) : l \in Accepted(catalog, t.roles[i], t)}
                 all == {LayersBoundTo(catalog, pinned, t.roles[i], t) : i \in DOMAIN t.roles}
      <4>1. \A i \in DOMAIN t.roles :
                found(i) = LayersBoundTo(catalog, pinned, t.roles[i], t)
        BY DEF Binding, BoundTo, LayersBoundTo
      <4>4. bindings' = UNION {found(i) : i \in DOMAIN t.roles}
        BY <2>3
      <4> HIDE DEF found, catalog
      <4>5. {found(i) : i \in DOMAIN t.roles} = all
        BY <4>1
      <4> USE DEF catalog
      <4>2. bindings' = UNION all
        BY <4>4, <4>5, Zenon
      <4>3. Grounds(catalog, pinned, t, bindings')
        BY <2>3, <3>1, <4>2 DEF Grounds
      <4> QED
        BY <2>1, <4>3 DEF Grounded
    <3> QED
      BY <2>1, <2>3, <3>2 DEF GroundingInv, Bound
  <2> QED
    BY <1>4, <2>2, <2>3, Zenon DEF Interpret
<1>5. CASE Validate
  <2>1. Bound /\ Grounded
    BY <1>5 DEF Validate, GroundingInv, Bound
  <2>2. Judged(bindings', codes')
    BY <1>5, <2>1, OneObjection DEF Validate
  <2>3. Grounded' /\ VersionsInv'
    BY <1>5, <2>1 DEF Validate, Grounded, GroundingInv, VersionsInv
  <2> QED
    BY <1>5, <2>2, <2>3 DEF Validate, GroundingInv, Bound
<1>6. CASE Repair
  BY <1>6 DEF Repair, GroundingInv, VersionsInv, Bound
<1>7. CASE PlanAgain
  <2>1. Len(versions) \in Nat
    BY Lengths DEF GroundingInv, VersionsInv
  <2> QED
    BY <1>7, <2>1 DEF PlanAgain, GroundingInv, VersionsInv, Bound
<1>8. CASE UNCHANGED vars
  BY <1>8 DEF vars, GroundingInv, VersionsInv, Bound, Grounded
<1> QED
  BY <1>1, <1>2, <1>3, <1>4, <1>5, <1>6, <1>7, <1>8 DEF Next

\* The invariant holds in every state, whatever the models answer.
THEOREM Invariance == Spec => []GroundingInv
BY InitInv, StepInv, PTL DEF Spec

-----------------------------------------------------------------------------
(* What follows. *)

\* Versions, tasks and bindings are of their kind.
THEOREM TypeCorrect == Spec => []TypeOK
<1>1. ASSUME GroundingInv PROVE TypeOK
  <2>1. \A b \in bindings : b.layer \in Layers /\ b.role \in RoleNames(task)
    <3>1. CASE Bound
      BY <1>1, <3>1, BindingsAreGrounded DEF GroundingInv, RoleNames
    <3>2. CASE ~Bound
      BY <1>1, <3>2 DEF GroundingInv
    <3> QED
      BY <3>1, <3>2
  <2> QED
    BY <1>1, <2>1 DEF GroundingInv, VersionsInv, TypeOK
<1> QED
  BY <1>1, Invariance, PTL

\* Whatever is published in between, the validator objects to nothing that the
\* interpretation bound but to Layers that cover nothing in common: what it
\* looks at is the pinned version, in which the one Layer of each role has been
\* found to have all that it asks for, taken by itself.
THEOREM SupportedBindingsAreValid == Spec => []SupportedBindingsValidate
<1>1. GroundingInv => SupportedBindingsValidate
  BY DEF GroundingInv, SupportedBindingsValidate, Judged
<1> QED
  BY <1>1, Invariance, PTL

\* No identity field that the annotation script reports is part of a binding.
THEOREM ReportedFieldsAreNotBound == Spec => []ReportedFieldsAreRejected
<1>1. ASSUME GroundingInv, Bound, NEW b \in bindings,
             NEW f \in RoleNamed(task, b.role).identity
      PROVE  <<b.layer, f>> \notin Unresolved(versions[pinned])
  <2> DEFINE layer == versions[pinned][b.layer]
  <2>1. PICK i \in DOMAIN task.roles :
            /\ RoleNamed(task, b.role) = task.roles[i]
            /\ Analytical(b.layer, layer, task.roles[i])
    BY <1>1, BindingsAreGrounded DEF GroundingInv
  <2>2. AnnotationsSuffice(layer, task.roles[i].identity)
    BY <2>1 DEF Analytical
  <2>3. /\ layer.enriched # None /\ f \in DOMAIN layer.enriched.attributes
        /\ layer.enriched.attributes[f].label.resolved
        /\ layer.enriched.attributes[f].scale.resolved
    BY <1>1, <2>1, <2>2 DEF AnnotationsSuffice, FullyResolved
  <2> QED
    BY <2>3 DEF Unresolved
<1>2. GroundingInv => ReportedFieldsAreRejected
  BY <1>1 DEF ReportedFieldsAreRejected
<1> QED
  BY <1>2, Invariance, PTL

\* Whatever the models answer, what is bound rests on evidence.
THEOREM BindingsHaveEvidence == Spec => []BindingsRestOnEvidence
<1>1. ASSUME GroundingInv, Bound, NEW b \in bindings
      PROVE  LET raw == versions[pinned][b.layer].raw
                 label == versions[pinned][b.layer].enriched.label
             IN /\ LabelIsConsistent(b.layer, label.value)
                /\ label.refs \subseteq Offered(raw)
                /\ \A f \in RoleNamed(task, b.role).identity :
                       /\ f \in DOMAIN raw.attributes
                       /\ raw.attributes[f].schema /\ raw.attributes[f].samples # "none"
  <2> DEFINE layer == versions[pinned][b.layer]
  <2>1. PICK i \in DOMAIN task.roles :
            /\ b.layer \in Layers
            /\ RoleNamed(task, b.role) = task.roles[i]
            /\ Analytical(b.layer, layer, task.roles[i])
    BY <1>1, BindingsAreGrounded DEF GroundingInv
  <2>2. /\ layer.enriched # None /\ layer.enriched.label.resolved
        /\ \A f \in task.roles[i].identity :
               /\ f \in DOMAIN layer.enriched.attributes
               /\ FullyResolved(layer.enriched.attributes[f])
    BY <2>1 DEF Analytical, AnnotationsSuffice
  <2>3. pinned \in 1 .. Len(versions)
    BY <1>1, Lengths DEF GroundingInv, VersionsInv, Bound
  <2>4. LayerEvidence(b.layer, layer.raw, layer.enriched)
    BY <1>1, <2>1, <2>2, <2>3 DEF GroundingInv, VersionsInv
  <2> QED
    BY <2>1, <2>2, <2>4 DEF LayerEvidence
<1>2. GroundingInv => BindingsRestOnEvidence
  BY <1>1 DEF BindingsRestOnEvidence
<1> QED
  BY <1>2, Invariance, PTL
=============================================================================
