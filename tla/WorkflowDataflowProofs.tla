----------------------- MODULE WorkflowDataflowProofs -----------------------
(***************************************************************************)
(* Theorems about WorkflowDataflow, for every set of layers, every set of  *)
(* steps and plans of every length.                                        *)
(***************************************************************************)
EXTENDS WorkflowDataflow, TLAPS

Effects ==
    {"keep", "overlay", "merge", "measure", "add", "rename", "merge on key", "join",
     "nearest", "aggregate", "replace", "band"}

-----------------------------------------------------------------------------
(* The contract table. *)

\* What the proofs need to know of a contract.
WellFormed(contract) ==
    /\ contract.effect \in Effects
    /\ contract.out \in Kinds
    /\ contract.needs \subseteq {"field", "key", "new"}
    /\ contract.effect \in {"join", "nearest"} => contract.reads = "other"
    /\ contract.effect = "rename" =>
        contract.reads = "main" /\ "field" \in contract.needs /\ ~contract.several

LEMMA FeatureContracts ==
    ASSUME NEW a \in {"geopandas:filterbyexpression", "geopandas:selectbylocation",
                      "geopandas:selectwithindistance", "geopandas:clip",
                      "geopandas:buffer", "geopandas:overlay", "geopandas:dissolve",
                      "geopandas:mergelayers", "geopandas:centroids",
                      "geopandas:orderby"}
    PROVE  /\ WellFormed(FeatureContract(a))
           /\ a # "geopandas:overlay" => FeatureContract(a).effect # "overlay"
BY DEF FeatureContract, WellFormed, Effects, Kinds, Operation

LEMMA AttributeContracts ==
    ASSUME NEW a \in {"geopandas:calculatefield", "geopandas:addgeometryattributes",
                      "geopandas:renamefield", "geopandas:joinattributes",
                      "geopandas:sjoin", "geopandas:countpointsinpolygon",
                      "geopandas:sjoinnearest", "geopandas:aggregate"}
    PROVE  WellFormed(AttributeContract(a)) /\ AttributeContract(a).effect # "overlay"
<1>1. CASE a \in {"geopandas:calculatefield", "geopandas:addgeometryattributes",
                  "geopandas:renamefield", "geopandas:joinattributes"}
  BY <1>1 DEF AttributeContract, WellFormed, Effects, Kinds, Operation
<1>2. CASE a \in {"geopandas:sjoin", "geopandas:countpointsinpolygon"}
  BY <1>2 DEF AttributeContract, WellFormed, Effects, Kinds, Operation
<1>3. CASE a \in {"geopandas:sjoinnearest", "geopandas:aggregate"}
  BY <1>3 DEF AttributeContract, WellFormed, Effects, Kinds, Operation
<1> QED
  BY <1>1, <1>2, <1>3

LEMMA RasterContracts ==
    ASSUME NEW a \in RasterAlgorithms
    PROVE  WellFormed(RasterContract(a)) /\ RasterContract(a).effect # "overlay"
BY DEF RasterContract, RasterAlgorithms, WellFormed, Effects, Kinds, Operation

LEMMA ImageContracts ==
    ASSUME NEW a \in ImageAlgorithms
    PROVE  WellFormed(ImageContract(a)) /\ ImageContract(a).effect # "overlay"
BY DEF ImageContract, ImageAlgorithms, WellFormed, Effects, Kinds, Operation

LEMMA Contracts ==
    ASSUME NEW a \in AllAlgorithms
    PROVE  /\ WellFormed(Contract(a))
           /\ a # "geopandas:overlay" => Contract(a).effect # "overlay"
<1>1. CASE a \in RasterAlgorithms
  <2>1. Contract(a) = RasterContract(a)
    BY <1>1 DEF Contract, RasterAlgorithms, ImageAlgorithms
  <2> QED
    BY <1>1, <2>1, RasterContracts
<1>2. CASE a \in ImageAlgorithms
  <2>1. Contract(a) = ImageContract(a)
    BY <1>2 DEF Contract, RasterAlgorithms, ImageAlgorithms
  <2>2. a # "geopandas:overlay"
    BY <1>2 DEF ImageAlgorithms
  <2> QED
    BY <1>2, <2>1, ImageContracts
<1>3. CASE a \in {"geopandas:calculatefield", "geopandas:addgeometryattributes",
                  "geopandas:renamefield", "geopandas:joinattributes",
                  "geopandas:sjoin", "geopandas:countpointsinpolygon",
                  "geopandas:sjoinnearest", "geopandas:aggregate"}
  <2>1. Contract(a) = AttributeContract(a)
    BY <1>3 DEF Contract, RasterAlgorithms, ImageAlgorithms
  <2> QED
    BY <1>3, <2>1, AttributeContracts
<1>4. CASE a \in {"geopandas:filterbyexpression", "geopandas:selectbylocation",
                  "geopandas:selectwithindistance", "geopandas:clip",
                  "geopandas:buffer", "geopandas:overlay", "geopandas:dissolve",
                  "geopandas:mergelayers", "geopandas:centroids",
                  "geopandas:orderby"}
  <2>1. Contract(a) = FeatureContract(a)
    BY <1>4 DEF Contract, RasterAlgorithms, ImageAlgorithms
  <2> QED
    BY <1>4, <2>1, FeatureContracts
<1> QED
  BY <1>1, <1>2, <1>3, <1>4 DEF AllAlgorithms, VectorAlgorithms

-----------------------------------------------------------------------------
(* The columns that are expected are the columns that are written. *)

LEMMA JoinedIsMerged ==
    ASSUME NEW left, NEW right, NEW keep, NEW suffixes
    PROVE  Joined(left, right, keep, suffixes) = Merged(left, right, keep, suffixes)
BY DEF Joined, Merged, Suffixed

LEMMA PickedIsRestricted ==
    ASSUME NEW step, NEW other,
           Bound(step.field) => step.field \subseteq other
    PROVE  Picked(step, other) = Prefixed(step.prefix, RestrictedTo(other, step.field))
<1>1. (IF Bound(step.field) THEN step.field ELSE other) = RestrictedTo(other, step.field)
  BY DEF RestrictedTo
<1> QED
  BY <1>1 DEF Picked

LEMMA AttributesAreKeyed ==
    ASSUME NEW step, NEW other
    PROVE  Attributes(step, other)
             = Prefixed(step.prefix, other \ {step.key}) \cup (other \cap {step.key})
BY DEF Attributes, Prefixed

\* The planner writes names, not what stands in for one.
NamesOnly(step) ==
    \A p \in {"field", "key", "new"} : step[p] \notin {Null, Template}

LEMMA SameName ==
    ASSUME NEW step, NamesOnly(step), None # Null
    PROVE  ExpectedName(step) = WrittenName(step)
<1>1. step.new \notin {Null, Template}
  BY DEF NamesOnly
<1> QED
  BY <1>1 DEF ExpectedName, WrittenName, Bound

\* An operation whose fields exist writes exactly the columns expected of it.
LEMMA ExpectedIsWritten ==
    ASSUME NEW step, NEW main, NEW other, NEW columns,
           step.algorithm \in AllAlgorithms, step.algorithm # "geopandas:overlay",
           NamesOnly(step), None # Null,
           Contract(step.algorithm).reads = "other" =>
               (Bound(step.field) => step.field \subseteq other),
           Contract(step.algorithm).effect = "rename" =>
               \E c \in main : Named(step.field) = {c},
           columns \in WrittenColumns(step, main, other, FALSE)
    PROVE  columns = ExpectedColumns(step, main, other)
<1> DEFINE effect == Contract(step.algorithm).effect
<1>1. effect \in Effects \ {"overlay"}
  BY Contracts DEF WellFormed
<1>2. ExpectedName(step) = WrittenName(step)
  BY SameName
<1>3. CASE effect \in {"keep", "merge", "measure", "add", "aggregate", "replace", "band"}
  BY <1>2, <1>3 DEF ExpectedColumns, WrittenColumns
<1>4. CASE effect = "rename"
  <2>1. {IF c \in Named(step.field) THEN WrittenName(step) ELSE c : c \in main}
          = (main \ Named(step.field)) \cup {WrittenName(step)}
    BY <1>4
  <2> QED
    BY <1>2, <1>4, <2>1 DEF ExpectedColumns, WrittenColumns
<1>5. CASE effect = "merge on key"
  <2>1. SharedKey(step) = Named(step.field) \cap {step.key}
    BY DEF SharedKey
  <2> QED
    BY <1>5, <2>1, AttributesAreKeyed, JoinedIsMerged DEF ExpectedColumns, WrittenColumns
<1>6. CASE effect \in {"join", "nearest"}
  <2>1. Contract(step.algorithm).reads = "other"
    BY <1>6, Contracts DEF WellFormed
  <2>2. Picked(step, other) = Prefixed(step.prefix, RestrictedTo(other, step.field))
    BY <2>1, PickedIsRestricted
  <2> QED
    BY <1>2, <1>6, <2>2, JoinedIsMerged DEF ExpectedColumns, WrittenColumns
<1> QED
  BY <1>1, <1>3, <1>4, <1>5, <1>6 DEF Effects

-----------------------------------------------------------------------------
(* Type correctness. *)

\* A step that passes has its inputs among the refs and a known contract.
LEMMA Accepted ==
    ASSUME TypeOK, NEW step \in Steps, ~Diagnosed(step)
    PROVE  /\ step.main \in Refs
           /\ step.other \in Refs \cup {None}
           /\ step.algorithm \in AllAlgorithms
           /\ step.outputs \subseteq Outputs
           /\ WellFormed(Contract(step.algorithm))
           /\ \A p \in Contract(step.algorithm).needs : step[p] # None
<1>1. step.main \in available /\ \A p \in Contract(step.algorithm).needs : step[p] # None
  BY DEF Diagnosed, BadParameters
<1>2. available \subseteq Refs
  BY DEF available, TypeOK
<1> QED
  BY <1>1, <1>2, StepsAssumption, Contracts

\* A replayed step either fails for a reason, or writes its outputs.
LEMMA Executed ==
    ASSUME NEW step \in Steps, Execute(step)
    PROVE  \/ /\ failure = None /\ failure' = None /\ Reasons(step) = {}
              /\ \E columns \in WrittenColumns(step, frames[step.main].columns,
                                               Columns(frames, step.other), Unmatched) :
                    \A r \in Refs :
                        frames'[r] = IF Writes(step, r) THEN Written(step, r, columns)
                                                        ELSE frames[r]
           \/ /\ failure = None /\ failure' \in Reasons(step) /\ frames' = frames
              /\ unread' = Unparsable(step)
           \/ failure # None /\ failure' = failure /\ unread' = unread /\ frames' = frames
BY DEF Execute, Replay

LEMMA ReasonsAreFailures ==
    ASSUME NEW step
    PROVE  Reasons(step) \subseteq Failures /\ None \notin Reasons(step)
<1>1. DOMAIN Defects(step) \subseteq Failures
  BY DEF Defects, Failures
<1>2. Reasons(step) \subseteq Failures
  BY <1>1 DEF Reasons, Failures
<1> QED
  BY <1>2, NoneAssumption

LEMMA TypeOKStep ==
    ASSUME TypeOK, [Next]_vars
    PROVE  TypeOK'
<1>1. CASE AcceptStep
  <2>1. PICK step \in Steps : ~Diagnosed(step) /\ Validate(step) /\ Execute(step)
    BY <1>1 DEF AcceptStep
  <2>2. /\ step.outputs \subseteq Outputs
        /\ Contract(step.algorithm).out \in Kinds
    BY <2>1, Accepted DEF WellFormed
  <2>3. produced' \subseteq Refs /\ sinks' \subseteq produced'
    <3>1. \A o \in step.outputs : o.ref \in Refs
      BY <2>2 DEF Outputs
    <3> QED
      BY <2>1, <3>1 DEF Validate, Writes, TypeOK
  <2>4. \A r \in Refs : schemas'[r].kind \in Kinds \cup {None}
    BY <2>1, <2>2 DEF Validate, Flow, TypeOK
  <2>5. \A r \in Refs : frames'[r].kind \in Kinds \cup {None}
    <3>1. CASE frames' = frames
      BY <3>1 DEF TypeOK
    <3>2. CASE \E columns : \A r \in Refs :
                  frames'[r] = IF Writes(step, r) THEN Written(step, r, columns)
                                                  ELSE frames[r]
      <4>1. TAKE r \in Refs
      <4>2. PICK columns : frames'[r] = IF Writes(step, r) THEN Written(step, r, columns)
                                                          ELSE frames[r]
        BY <3>2
      <4> QED
        BY <2>2, <4>2 DEF Written, TypeOK
    <3> QED
      BY <2>1, <3>1, <3>2, Executed
  <2>6. failure' \in Failures \cup {None}
    BY <2>1, Executed, ReasonsAreFailures DEF TypeOK
  <2>7. skipped' \in BOOLEAN /\ unread' \in BOOLEAN
    BY <2>1 DEF Validate, Execute, Replay, Unparsable, ReadsExpression, Bound, TypeOK
  <2>8. answers' = answers /\ verdict' = verdict
    BY <1>1 DEF AcceptStep
  <2> QED
    BY <2>3, <2>4, <2>5, <2>6, <2>7, <2>8 DEF TypeOK
<1>2. CASE RejectStep
  BY <1>2 DEF RejectStep, TypeOK
<1>3. CASE \E ending \in Endings : Finish(ending)
  <2>1. PICK ending \in Endings : Finish(ending)
    BY <1>3
  <2>2. answers' \subseteq Refs
    BY <2>1, EndingsAssumption DEF Finish
  <2>3. failure' \in Failures \cup {None}
    BY <2>1 DEF Finish, Failures, TypeOK
  <2>4. /\ produced' = produced /\ sinks' = sinks /\ schemas' = schemas
        /\ frames' = frames /\ skipped' = skipped /\ unread' = unread
        /\ verdict' = "validated"
    BY <2>1 DEF Finish
  <2> QED
    BY <2>2, <2>3, <2>4 DEF TypeOK
<1>4. CASE \E ending \in Endings : RejectEnding(ending)
  BY <1>4 DEF RejectEnding, TypeOK
<1>5. CASE UNCHANGED vars
  BY <1>5 DEF vars, TypeOK
<1> QED
  BY <1>1, <1>2, <1>3, <1>4, <1>5 DEF Next

LEMMA TypeOKInit == Init => TypeOK
BY LayersAssumption, NoneAssumption DEF Init, TypeOK

\* The type invariant, for every set of layers and steps.
THEOREM TypeCorrect == Spec => []TypeOK
BY TypeOKInit, TypeOKStep, PTL DEF Spec

-----------------------------------------------------------------------------
(* Inputs: as long as no step was skipped, the validator and the worker    *)
(* agree on which refs are bound and on the kind of data they are.         *)

KindsAgree ==
    failure = None /\ ~skipped => \A r \in Refs : schemas[r].kind = frames[r].kind

LEMMA InputsStep ==
    ASSUME TypeOK, KindsAgree, StepsFindTheirInputs, [Next]_vars
    PROVE  KindsAgree' /\ StepsFindTheirInputs'
<1>1. CASE AcceptStep
  <2>1. PICK step \in Steps : ~Diagnosed(step) /\ Validate(step) /\ Execute(step)
    BY <1>1 DEF AcceptStep
  <2>2. step.main \in Refs /\ step.other \in Refs \cup {None}
    BY <2>1, Accepted
  <2>3. skipped' = (skipped \/ ~Complete(step))
    BY <2>1 DEF Validate
  <2>4. CASE skipped'
    BY <2>4 DEF KindsAgree, StepsFindTheirInputs
  <2>5. CASE ~skipped' /\ failure # None
    BY <2>1, <2>3, <2>5, Executed DEF KindsAgree, StepsFindTheirInputs
  <2>6. CASE ~skipped' /\ failure = None
    <3>1. Complete(step) /\ ~skipped
      BY <2>3, <2>6
    <3>2. \A r \in Refs : schemas[r].kind = frames[r].kind
      BY <2>6, <3>1 DEF KindsAgree
    <3>3. ~Unresolved(step)
      BY <2>2, <3>1, <3>2 DEF Complete, Unresolved
    <3>4. ~WrongKind(step, schemas)
      BY <2>1, <3>1 DEF Diagnosed, Incompatible
    <3>5. ~WrongKind(step, frames)
      BY <2>2, <3>2, <3>4 DEF WrongKind
    <3>6. "unresolved_reference" \notin Reasons(step) /\ "wrong_kind" \notin Reasons(step)
      BY <3>3, <3>5 DEF Reasons, Defects
    <3>7. StepsFindTheirInputs'
      BY <2>1, <2>6, <3>6, Executed, NoneAssumption DEF StepsFindTheirInputs, Failures
    <3>8. KindsAgree'
      <4>1. SUFFICES ASSUME failure' = None, NEW r \in Refs
                     PROVE  schemas'[r].kind = frames'[r].kind
        BY DEF KindsAgree
      <4>2. PICK columns : frames'[r] = IF Writes(step, r) THEN Written(step, r, columns)
                                                          ELSE frames[r]
        BY <2>1, <2>6, <4>1, Executed, ReasonsAreFailures
      <4>3. schemas'[r] = IF Writes(step, r) THEN Flow(step, r) ELSE schemas[r]
        BY <2>1, <3>1 DEF Validate
      <4> QED
        BY <3>2, <4>2, <4>3 DEF Written, Flow
    <3> QED
      BY <3>7, <3>8
  <2> QED
    BY <2>4, <2>5, <2>6
<1>2. CASE RejectStep
  BY <1>2 DEF RejectStep, KindsAgree, StepsFindTheirInputs
<1>3. CASE \E ending \in Endings : Finish(ending)
  BY <1>3, NoneAssumption DEF Finish, KindsAgree, StepsFindTheirInputs, Failures
<1>4. CASE \E ending \in Endings : RejectEnding(ending)
  BY <1>4 DEF RejectEnding, KindsAgree, StepsFindTheirInputs
<1>5. CASE UNCHANGED vars
  BY <1>5 DEF vars, KindsAgree, StepsFindTheirInputs
<1> QED
  BY <1>1, <1>2, <1>3, <1>4, <1>5 DEF Next

\* A step whose columns were checked finds its inputs, of the right kind: for
\* every plan, whatever the joins leave unmatched (_validate_step_parameters,
\* _validate_column_flow).
THEOREM InputsAreFound == Spec => []StepsFindTheirInputs
<1>1. Init => KindsAgree /\ StepsFindTheirInputs
  BY NoneAssumption DEF Init, KindsAgree, StepsFindTheirInputs, Failures
<1>2. TypeOK /\ KindsAgree /\ StepsFindTheirInputs /\ [Next]_vars
        => (KindsAgree /\ StepsFindTheirInputs)'
  BY InputsStep
<1> QED
  BY <1>1, <1>2, TypeCorrect, PTL DEF Spec

-----------------------------------------------------------------------------
(* Columns: where plans keep to what the column flow covers, the validator *)
(* and the worker agree on all data until the replay fails.                *)

\* No overlay, no input row without a match, nothing in place of a name.
Covered ==
    /\ Unmatched = FALSE
    /\ \A step \in Steps : step.algorithm # "geopandas:overlay" /\ NamesOnly(step)

\* And one name where one is taken.
OneNameEach ==
    \A step \in Steps :
        Bound(step.field) /\ ~Contract(step.algorithm).several => Named(step.field) # {}

DataAgrees == failure = None => ~skipped /\ \A r \in Refs : schemas[r] = frames[r]

\* A step the worker replays is one the column flow covered.
LEMMA ReplayedIsComplete ==
    ASSUME Covered, TypeOK, DataAgrees, failure = None,
           NEW step \in Steps, ~Diagnosed(step), ~Unresolved(step)
    PROVE  Complete(step)
<1>1. /\ step.main \in Refs /\ step.other \in Refs \cup {None}
      /\ Contract(step.algorithm).needs \subseteq {"field", "key", "new"}
  BY Accepted DEF WellFormed
<1>2. schemas[step.main].kind # None
  BY <1>1 DEF Unresolved, DataAgrees
<1>3. step.other # None => schemas[step.other].kind # None
  BY <1>1 DEF Unresolved, DataAgrees
<1>4. \A p \in Contract(step.algorithm).needs : step[p] # Null
  BY <1>1 DEF Covered, NamesOnly
<1> QED
  BY <1>1, <1>2, <1>3, <1>4 DEF Complete

\* What a replayed step reads is there.
LEMMA ReplayedFindsFields ==
    ASSUME Covered, TypeOK, NEW step \in Steps, ~Diagnosed(step), ~MissingColumn(step)
    PROVE  /\ Contract(step.algorithm).reads = "other" =>
                (Bound(step.field) => step.field \subseteq Columns(frames, step.other))
           /\ Contract(step.algorithm).effect = "rename" =>
                \E c \in frames[step.main].columns : Named(step.field) = {c}
<1>1. /\ WellFormed(Contract(step.algorithm))
      /\ step.main \in Refs
      /\ \A p \in Contract(step.algorithm).needs : step[p] # None
  BY Accepted
<1>2. CASE Contract(step.algorithm).reads = "other"
  <2>1. Source(step, frames) = Columns(frames, step.other)
    BY <1>2 DEF Source
  <2>2. Contract(step.algorithm).effect # "rename"
    BY <1>1, <1>2 DEF WellFormed
  <2> QED
    BY <1>2, <2>1, <2>2 DEF MissingColumn
<1>3. CASE Contract(step.algorithm).effect = "rename"
  <2>1. /\ Contract(step.algorithm).reads = "main" /\ ~Contract(step.algorithm).several
        /\ "field" \in Contract(step.algorithm).needs
    BY <1>1, <1>3 DEF WellFormed
  <2>2. Bound(step.field)
    <3>1. step.field # None
      BY <1>1, <2>1
    <3>2. step.field # Null
      BY DEF Covered, NamesOnly
    <3> QED
      BY <3>1, <3>2 DEF Bound
  <2>3. Source(step, frames) = frames[step.main].columns
    BY <1>1, <2>1, NoneAssumption DEF Source, Columns
  <2>4. step.field \subseteq frames[step.main].columns /\ Named(step.field) # {}
    BY <2>1, <2>2, <2>3 DEF MissingColumn
  <2>5. PICK c : c \in step.field /\ step.field = {c}
    BY <2>2, <2>4 DEF Named
  <2>6. Named(step.field) = {c}
    BY <2>2, <2>5 DEF Named
  <2> QED
    BY <2>1, <2>4, <2>5, <2>6
<1> QED
  BY <1>2, <1>3

LEMMA DataAgreesStep ==
    ASSUME Covered, TypeOK, DataAgrees, [Next]_vars
    PROVE  DataAgrees'
<1>1. CASE AcceptStep
  <2>1. PICK step \in Steps : ~Diagnosed(step) /\ Validate(step) /\ Execute(step)
    BY <1>1 DEF AcceptStep
  <2>2. SUFFICES ASSUME failure' = None
                 PROVE  ~skipped' /\ \A r \in Refs : schemas'[r] = frames'[r]
    BY DEF DataAgrees
  <2>3. /\ failure = None /\ Reasons(step) = {}
        /\ \E columns \in WrittenColumns(step, frames[step.main].columns,
                                         Columns(frames, step.other), Unmatched) :
              \A r \in Refs :
                  frames'[r] = IF Writes(step, r) THEN Written(step, r, columns)
                                                  ELSE frames[r]
    BY <2>1, <2>2, Executed, ReasonsAreFailures
  <2>4. /\ step.main \in Refs /\ step.other \in Refs \cup {None}
        /\ step.algorithm \in AllAlgorithms
    BY <2>1, Accepted
  <2>5. ~Unresolved(step)
    BY <2>3 DEF Reasons
  <2>6. ~MissingColumn(step)
    BY <2>3, <2>5 DEF Reasons, Defects
  <2>7. Complete(step)
    BY <2>1, <2>3, <2>5, ReplayedIsComplete
  <2>8. \A r \in Refs : schemas[r] = frames[r]
    BY <2>3 DEF DataAgrees
  <2>9. Columns(schemas, step.other) = Columns(frames, step.other)
    BY <2>4, <2>8 DEF Columns
  <2>10. PICK columns \in WrittenColumns(step, frames[step.main].columns,
                                         Columns(frames, step.other), FALSE) :
            \A r \in Refs :
                frames'[r] = IF Writes(step, r) THEN Written(step, r, columns)
                                                ELSE frames[r]
    BY <2>3 DEF Covered
  <2>11. columns = ExpectedColumns(step, frames[step.main].columns,
                                   Columns(frames, step.other))
    <3>1. /\ step.algorithm # "geopandas:overlay" /\ NamesOnly(step) /\ None # Null
          /\ Contract(step.algorithm).reads = "other" =>
                (Bound(step.field) => step.field \subseteq Columns(frames, step.other))
          /\ Contract(step.algorithm).effect = "rename" =>
                \E c \in frames[step.main].columns : Named(step.field) = {c}
      BY <2>1, <2>6, ReplayedFindsFields, NoneAssumption DEF Covered
    <3> QED
      BY <2>4, <2>10, <3>1, ExpectedIsWritten
  <2>12. \A r \in Refs : schemas'[r] = frames'[r]
    <3>1. TAKE r \in Refs
    <3>2. schemas'[r] = IF Writes(step, r) THEN Flow(step, r) ELSE schemas[r]
      BY <2>1, <2>7 DEF Validate
    <3>3. Flow(step, r) = Written(step, r, columns)
      BY <2>4, <2>8, <2>9, <2>11 DEF Flow, Written
    <3> QED
      BY <2>8, <2>10, <3>2, <3>3
  <2>13. ~skipped'
    BY <2>1, <2>3, <2>7 DEF Validate, DataAgrees
  <2> QED
    BY <2>12, <2>13
<1>2. CASE RejectStep
  BY <1>2 DEF RejectStep, DataAgrees
<1>3. CASE \E ending \in Endings : Finish(ending)
  BY <1>3, NoneAssumption DEF Finish, DataAgrees, Failures
<1>4. CASE \E ending \in Endings : RejectEnding(ending)
  BY <1>4 DEF RejectEnding, DataAgrees
<1>5. CASE UNCHANGED vars
  BY <1>5 DEF vars, DataAgrees
<1> QED
  BY <1>1, <1>2, <1>3, <1>4, <1>5 DEF Next

LEMMA DataAgreement ==
    ASSUME Covered
    PROVE  Spec => []DataAgrees
<1>1. Init => DataAgrees
  BY DEF Init, DataAgrees
<1>2. TypeOK /\ DataAgrees /\ [Next]_vars => DataAgrees'
  BY DataAgreesStep
<1> QED
  BY <1>1, <1>2, TypeCorrect, PTL DEF Spec

\* The validator's columns are those of the files, through every plan that
\* keeps to what the column flow covers (_validate_column_flow).
THEOREM ColumnsMirror ==
    ASSUME Covered
    PROVE  Spec => []ColumnsMirrorFrames
<1>1. DataAgrees => ColumnsMirrorFrames
  BY DEF DataAgrees, ColumnsMirrorFrames
<1> QED
  BY <1>1, DataAgreement, PTL

\* A column that was looked up in the validator's schema is in the file.
LEMMA CheckedColumnsExist ==
    ASSUME Covered, OneNameEach, TypeOK, DataAgrees, failure = None,
           NEW step \in Steps, ~Diagnosed(step), Complete(step), ~Unparsable(step)
    PROVE  ~MissingColumn(step)
<1>1. /\ step.main \in Refs /\ step.other \in Refs \cup {None}
      /\ \A p \in Contract(step.algorithm).needs : step[p] # None
  BY Accepted
<1>2. \A r \in Refs : schemas[r] = frames[r]
  BY DEF DataAgrees
<1>3. /\ Columns(schemas, step.main) = Columns(frames, step.main)
      /\ Columns(schemas, step.other) = Columns(frames, step.other)
  BY <1>1, <1>2 DEF Columns
<1>4. ~UnknownColumn(step)
  BY DEF Diagnosed
<1>5. Source(step, schemas) = Source(step, frames)
  BY <1>3 DEF Source
<1>6. step.field # Null /\ step.key # Null
  BY DEF Covered, NamesOnly
<1>7. Bound(step.field) /\ ~Contract(step.algorithm).several => Named(step.field) # {}
  BY DEF OneNameEach
<1> QED
  BY <1>3, <1>4, <1>5, <1>6, <1>7 DEF MissingColumn, UnknownColumn

LEMMA ColumnsStep ==
    ASSUME Covered, OneNameEach, TypeOK, DataAgrees, StepsFindTheirColumns, [Next]_vars
    PROVE  StepsFindTheirColumns'
<1>1. CASE AcceptStep
  <2>1. PICK step \in Steps : ~Diagnosed(step) /\ Validate(step) /\ Execute(step)
    BY <1>1 DEF AcceptStep
  <2>2. skipped' = (skipped \/ ~Complete(step))
    BY <2>1 DEF Validate
  <2>3. CASE skipped' \/ failure # None
    BY <2>1, <2>2, <2>3, Executed DEF StepsFindTheirColumns
  <2>4. CASE ~skipped' /\ failure = None
    <3>1. ~MissingColumn(step) \/ Unparsable(step)
      BY <2>1, <2>2, <2>4, CheckedColumnsExist
    <3>2. "missing_column" \in Reasons(step) => Unparsable(step)
      BY <3>1 DEF Reasons, Defects
    <3> QED
      BY <2>1, <2>4, <3>2, Executed, NoneAssumption DEF StepsFindTheirColumns, Failures
  <2> QED
    BY <2>3, <2>4
<1>2. CASE RejectStep
  BY <1>2 DEF RejectStep, StepsFindTheirColumns
<1>3. CASE \E ending \in Endings : Finish(ending)
  BY <1>3 DEF Finish, StepsFindTheirColumns
<1>4. CASE \E ending \in Endings : RejectEnding(ending)
  BY <1>4 DEF RejectEnding, StepsFindTheirColumns
<1>5. CASE UNCHANGED vars
  BY <1>5 DEF vars, StepsFindTheirColumns
<1> QED
  BY <1>1, <1>2, <1>3, <1>4, <1>5 DEF Next

\* A step finds the columns it names, however many steps they come through:
\* for every plan within what the column flow covers, if the validator could
\* parse the step's own expression (FIELD_SOURCES, EXPRESSION_SOURCES).
THEOREM ColumnsAreFound ==
    ASSUME Covered, OneNameEach
    PROVE  Spec => []StepsFindTheirColumns
<1>1. Init => StepsFindTheirColumns
  BY NoneAssumption DEF Init, StepsFindTheirColumns, Failures
<1>2. TypeOK /\ DataAgrees /\ StepsFindTheirColumns /\ [Next]_vars
        => StepsFindTheirColumns'
  BY ColumnsStep
<1> QED
  BY <1>1, <1>2, TypeCorrect, DataAgreement, PTL DEF Spec

-----------------------------------------------------------------------------
(* Answers: what a plan declares is among the files its steps wrote. *)

SinksAreFiles == failure = None => \A r \in sinks : frames[r].kind # None

LEMMA SinksStep ==
    ASSUME TypeOK, SinksAreFiles, [Next]_vars
    PROVE  SinksAreFiles'
<1>1. CASE AcceptStep
  <2>1. PICK step \in Steps : ~Diagnosed(step) /\ Validate(step) /\ Execute(step)
    BY <1>1 DEF AcceptStep
  <2>2. SUFFICES ASSUME failure' = None, NEW r \in sinks'
                 PROVE  frames'[r].kind # None
    BY DEF SinksAreFiles
  <2>3. PICK columns :
            \A q \in Refs :
                frames'[q] = IF Writes(step, q) THEN Written(step, q, columns)
                                                ELSE frames[q]
    BY <2>1, <2>2, Executed, ReasonsAreFailures
  <2>4. failure = None
    BY <2>1, <2>2, Executed, ReasonsAreFailures
  <2>5. r \in Refs /\ (r \in sinks \/ Writes(step, r))
    BY <2>1, <2>2 DEF Validate, TypeOK
  <2>6. CASE Writes(step, r)
    <3>1. Contract(step.algorithm).out # None
      BY <2>1, Accepted, NoneAssumption DEF WellFormed
    <3>2. frames'[r] = Written(step, r, columns)
      BY <2>3, <2>5, <2>6
    <3>3. Written(step, r, columns).kind = Contract(step.algorithm).out
      BY DEF Written
    <3> QED
      BY <3>1, <3>2, <3>3
  <2>7. CASE ~Writes(step, r)
    BY <2>3, <2>4, <2>5, <2>7 DEF SinksAreFiles
  <2> QED
    BY <2>6, <2>7
<1>2. CASE RejectStep
  BY <1>2 DEF RejectStep, SinksAreFiles
<1>3. CASE \E ending \in Endings : Finish(ending)
  BY <1>3, NoneAssumption DEF Finish, SinksAreFiles, Failures
<1>4. CASE \E ending \in Endings : RejectEnding(ending)
  BY <1>4 DEF RejectEnding, SinksAreFiles
<1>5. CASE UNCHANGED vars
  BY <1>5 DEF vars, SinksAreFiles
<1> QED
  BY <1>1, <1>2, <1>3, <1>4, <1>5 DEF Next

\* Steps alone do not end in an unavailable output, only the plan's end might.
LEMMA AnswersStep ==
    ASSUME TypeOK, DataAgrees, SinksAreFiles, AnswersCarryTheContract,
           verdict # "validated" => failure # "unavailable_output",
           [Next]_vars
    PROVE  /\ AnswersCarryTheContract'
           /\ (verdict # "validated" => failure # "unavailable_output")'
<1>1. CASE AcceptStep
  <2>1. PICK step \in Steps : Execute(step)
    BY <1>1 DEF AcceptStep
  <2>2. "unavailable_output" \notin Reasons(step)
    BY DEF Reasons, Defects
  <2>3. verdict = "planning" /\ verdict' = "planning"
    BY <1>1 DEF AcceptStep
  <2>4. failure' # "unavailable_output"
    BY <2>1, <2>2, <2>3, Executed, NoneAssumption DEF Failures
  <2> QED
    BY <2>3, <2>4 DEF AnswersCarryTheContract
<1>2. CASE RejectStep
  BY <1>2 DEF RejectStep, AnswersCarryTheContract
<1>3. CASE \E ending \in Endings : Finish(ending)
  <2>1. PICK ending \in Endings : Finish(ending)
    BY <1>3
  <2>2. /\ verdict = "planning" /\ ~BadEnding(ending)
        /\ verdict' = "validated" /\ answers' = ending.answers /\ frames' = frames
        /\ failure' =
             IF failure = None
                  /\ \E r \in ending.answers \cup ending.diagnostics : frames[r].kind = None
             THEN "unavailable_output" ELSE failure
    BY <2>1 DEF Finish
  <2>3. \A r \in ending.answers \cup ending.diagnostics : r \in sinks
    BY <2>2 DEF BadEnding, NotRetained
  <2>4. failure' = failure
    BY <2>2, <2>3 DEF SinksAreFiles
  <2>5. failure # "unavailable_output"
    BY <2>2
  <2>6. ASSUME failure = None, NEW r \in ending.answers
        PROVE  Expected \subseteq frames[r].columns
    <3>1. r \in Refs /\ r \in sinks
      BY <2>3, EndingsAssumption
    <3>2. frames[r].kind # None /\ schemas[r] = frames[r]
      BY <2>6, <3>1 DEF SinksAreFiles, DataAgrees
    <3>3. ~LacksContract(r)
      BY <2>2, <2>6 DEF BadEnding
    <3> QED
      BY <3>2, <3>3 DEF LacksContract
  <2> QED
    BY <2>2, <2>4, <2>5, <2>6 DEF AnswersCarryTheContract
<1>4. CASE \E ending \in Endings : RejectEnding(ending)
  BY <1>4 DEF RejectEnding, AnswersCarryTheContract
<1>5. CASE UNCHANGED vars
  BY <1>5 DEF vars, AnswersCarryTheContract
<1> QED
  BY <1>1, <1>2, <1>3, <1>4, <1>5 DEF Next

\* The answer of every validated plan that is replayed is a file with the
\* columns of the result contract, within what the column flow covers.
THEOREM AnswersCarryContract ==
    ASSUME Covered
    PROVE  Spec => []AnswersCarryTheContract
<1> DEFINE NotYet == verdict # "validated" => failure # "unavailable_output"
<1>1. Init => SinksAreFiles /\ AnswersCarryTheContract /\ NotYet
  BY NoneAssumption DEF Init, SinksAreFiles, AnswersCarryTheContract, Failures
<1>2. TypeOK /\ SinksAreFiles /\ [Next]_vars => SinksAreFiles'
  BY SinksStep
<1>3. TypeOK /\ DataAgrees /\ SinksAreFiles /\ AnswersCarryTheContract /\ NotYet /\ [Next]_vars
        => (AnswersCarryTheContract /\ NotYet)'
  BY AnswersStep
<1> QED
  BY <1>1, <1>2, <1>3, TypeCorrect, DataAgreement, PTL DEF Spec
=============================================================================
