-------------------------- MODULE WorkflowDataflow --------------------------
(***************************************************************************)
(* What validation promises execution: a Concrete Workflow is checked step *)
(* by step against the operation contracts and the columns that will exist *)
(* (geoqa_agent/workflow_validation.py), and replayed step by step over    *)
(* files (geoqa_agent/execution.py).  Neither looks at what the other one  *)
(* keeps; the model takes every step of a plan through both, so that the   *)
(* two can be compared after each.                                         *)
(*                                                                         *)
(* A plan that is diagnosed is not executed.  The checks on coverage, CRS, *)
(* geometry kinds, measurement scales and the task's own constraints only  *)
(* ever reject more and are left out.                                      *)
(***************************************************************************)
EXTENDS OperationContracts, Naturals

CONSTANTS
    Refs,        \* the names of layers and outputs
    Layers,      \* what is bound to each of them before the first step
    Steps,       \* the steps the planner may write
    Endings,     \* the final, result table and diagnostic refs it may declare
    Expected,    \* the columns the goal's result contract names
    Unmatched,   \* input rows may be without a match in a join
    MaxSteps     \* bound: the steps of a plan

\* Data is of a kind and has columns; what a ref is that is bound to nothing.
Nothing == [kind |-> None, columns |-> {}]

Outputs == [name : {"output", "second", "count"}, ref : Refs]

StepFields ==
    {"algorithm", "main", "other", "field", "key", "new", "prefix", "outputs", "dialect"}

\* An expression is Python, or only the pandas dialect (a backticked name, an
\* @), or neither.
Dialects == {"python", "pandas", "neither"}

\* Why a job may fail.
Failures ==
    {"unresolved_reference", "wrong_kind", "missing_column", "missing_band",
     "duplicate_column", "bad_expression", "missing_output", "unavailable_output"}

ASSUME LayersAssumption ==
    \A r \in Refs : Layers[r].kind \in Kinds \cup {None}

ASSUME StepsAssumption ==
    \A step \in Steps :
        /\ DOMAIN step = StepFields
        /\ step.algorithm \in AllAlgorithms
        /\ step.main \in Refs \cup {None}
        /\ step.other \in Refs \cup {None}
        /\ step.outputs \subseteq Outputs
        /\ step.dialect \in Dialects

ASSUME EndingsAssumption ==
    \A ending \in Endings :
        ending.answers \subseteq Refs /\ ending.diagnostics \subseteq Refs

ASSUME NoneAssumption == None \notin Refs \cup Kinds \cup Failures \cup {Null}

VARIABLES
    count,     \* the steps taken so far
    produced,  \* refs that are outputs of a step
    sinks,     \* the ones among them that are files
    schemas,   \* the validator: the data a ref will be, Nothing when unknown
    skipped,   \* the validator: a step's columns were not checked
    frames,    \* the worker: the data a ref is, Nothing when it is no file
    failure,   \* the worker: why the job failed
    unread,    \* the validator could not parse the failed step's expression
    answers,   \* the declared final output and result table
    verdict    \* "planning", "rejected" or "validated"

vars == <<count, produced, sinks, schemas, skipped, frames, failure, unread,
          answers, verdict>>

-----------------------------------------------------------------------------
(* The validator. *)

\* _validate_concrete's available refs: the bound layers, and every output of
\* a step, the counts too.
available == {r \in Refs : Layers[r].kind # None} \cup produced

\* _validate_step_parameters.
BadParameters(step) ==
    LET contract == Contract(step.algorithm) IN
    \/ step.main \notin available
    \/ step.other = None /\ contract.other # None /\ ~contract.optional
    \/ step.other # None /\ (contract.other = None \/ step.other \notin available)
    \/ \E p \in contract.needs : step[p] = None
    \/ \E p \in {"field", "key", "new", "prefix"} \ contract.takes : step[p] # None

\* _validate_step_outputs.
BadOutputs(step) ==
    LET contract == Contract(step.algorithm) IN
    \/ \E o \in step.outputs :
        \/ o.name = "second" /\ ~contract.second
        \/ o.name = "count" /\ ~contract.counts
        \/ o.ref \in produced
    \/ \E o1, o2 \in step.outputs : o1 # o2 /\ o1.ref = o2.ref

\* The column flow covers a step if it knows the data of every input and has a
\* value for all required configuration.
Complete(step) ==
    LET contract == Contract(step.algorithm) IN
    /\ step.main \in Refs /\ schemas[step.main].kind # None
    /\ step.other # None => schemas[step.other].kind # None
    /\ \A p \in contract.needs : step[p] # Null

Columns(data, ref) == IF ref = None THEN {} ELSE data[ref].columns

WrongKind(step, data) ==
    \/ data[step.main].kind # Contract(step.algorithm).main
    \/ step.other # None /\ data[step.other].kind # Contract(step.algorithm).other

\* Mutant: the data kind of a binding is not looked at.
Compatible(step) == FALSE

Incompatible(step) == WrongKind(step, schemas)

\* The columns of the input that the field parameter is looked up in.
Source(step, data) ==
    IF Contract(step.algorithm).reads = "main"
    THEN Columns(data, step.main) ELSE Columns(data, step.other)

\* The operations whose "field" is an expression over columns.
ReadsExpression(step) ==
    step.algorithm \in {"geopandas:filterbyexpression", "geopandas:calculatefield"}

\* expression_columns parses Python, and gives no columns for anything else.
Unparsable(step) ==
    ReadsExpression(step) /\ Bound(step.field) /\ step.dialect # "python"

\* FIELD_SOURCES and EXPRESSION_SOURCES have no entry for band arithmetic.  An
\* expression without columns, for whatever reason, has no unknown ones.
UnknownColumn(step) ==
    LET contract == Contract(step.algorithm) IN
    \/ /\ contract.reads \in {"main", "other"}
       /\ Bound(step.field) /\ ~Unparsable(step)
       /\ ~(step.field \subseteq Source(step, schemas))
    \/ /\ contract.keys # None
       /\ Bound(step.key)
       /\ step.key \notin Columns(schemas, IF contract.keys = "main" THEN step.main
                                                                     ELSE step.other)

Diagnosed(step) ==
    \/ BadParameters(step)
    \/ BadOutputs(step)
    \/ Complete(step) /\ (Incompatible(step) \/ UnknownColumn(step))

\* The ref is a file that the step writes.
Writes(step, ref) == \E o \in step.outputs : o.ref = ref /\ o.name # "count"

\* What matched goes through the operation, what did not stays as it is.
Matched(step, ref) == \E o \in step.outputs : o.ref = ref /\ o.name = "output"

\* column_flow.apply, for one output.
Flow(step, ref) ==
    [kind |-> Contract(step.algorithm).out,
     columns |->
        IF Matched(step, ref)
        THEN ExpectedColumns(step, schemas[step.main].columns, Columns(schemas, step.other))
        ELSE schemas[step.main].columns]

\* What a step does to the validator's state: _validate_concrete and
\* _validate_column_flow.
Validate(step) ==
    /\ produced' = produced \cup {o.ref : o \in step.outputs}
    /\ sinks' = sinks \cup {r \in Refs : Writes(step, r)}
    /\ skipped' = (skipped \/ ~Complete(step))
    /\ schemas' = [r \in Refs |->
                     IF Complete(step) /\ Writes(step, r) THEN Flow(step, r) ELSE schemas[r]]

-----------------------------------------------------------------------------
(* The execution worker, and the runners it calls. *)

\* Bands a band arithmetic expression may name.
Bands(step) ==
    frames[step.main].columns
    \cup {<<"other_">> \o b : b \in Columns(frames, step.other)}

\* A parameter that takes one column takes a list for the name of one.  Null
\* is the string "None", which names no column; two operations evaluate it.
MissingColumn(step) ==
    LET contract == Contract(step.algorithm) IN
    \/ /\ contract.reads \in {"main", "other"}
       /\ Bound(step.field)
       /\ \/ ~(step.field \subseteq Source(step, frames))
          \/ ~contract.several /\ Named(step.field) = {}
    \/ /\ step.field = Null /\ "field" \in contract.needs
       /\ step.algorithm \notin {"geopandas:calculatefield", "rasterio:bandmath"}
    \/ step.key = Null /\ "key" \in contract.needs
    \/ /\ contract.keys # None
       /\ Bound(step.key)
       /\ step.key \notin Columns(frames, IF contract.keys = "main" THEN step.main
                                                                    ELSE step.other)

\* query and eval raise.
BadExpression(step) ==
    ReadsExpression(step) /\ Bound(step.field) /\ step.dialect = "neither"

MissingBand(step) ==
    /\ Contract(step.algorithm).reads = "both"
    /\ Bound(step.field)
    /\ ~(step.field \subseteq Bands(step))

\* GeoPandas operations write the outputs a step declares, the others the one
\* they have.  An output that is declared twice is written to the last path.
MissingOutput(step) ==
    \/ /\ step.algorithm \notin VectorAlgorithms
       /\ \A o \in step.outputs : o.name # "output"
    \/ \E o1, o2 \in step.outputs : o1 # o2 /\ o1.name = o2.name /\ o1.name # "count"

DuplicateColumn(step) ==
    /\ \E o \in step.outputs : o.name = "output"
    /\ Duplicates(step, frames[step.main].columns, Columns(frames, step.other))

Unresolved(step) ==
    frames[step.main].kind = None \/ (step.other # None /\ frames[step.other].kind = None)

Defects(step) ==
    [wrong_kind |-> WrongKind(step, frames),
     missing_column |-> MissingColumn(step),
     missing_band |-> MissingBand(step),
     bad_expression |-> BadExpression(step),
     duplicate_column |-> DuplicateColumn(step),
     missing_output |-> MissingOutput(step)]

\* Why a step may fail.  Which of several defects a runner meets first is
\* left open.
Reasons(step) ==
    IF Unresolved(step) THEN {"unresolved_reference"}
    ELSE {d \in DOMAIN Defects(step) : Defects(step)[d]}

\* The file a step writes for one output.
Written(step, ref, columns) ==
    [kind |-> Contract(step.algorithm).out,
     columns |-> IF Matched(step, ref) THEN columns ELSE frames[step.main].columns]

\* _run_draft, for one step.
Replay(step) ==
    /\ Reasons(step) = {}
    /\ \E columns \in WrittenColumns(step, frames[step.main].columns,
                                     Columns(frames, step.other), Unmatched) :
            frames' = [r \in Refs |->
                         IF Writes(step, r) THEN Written(step, r, columns) ELSE frames[r]]
    /\ UNCHANGED <<failure, unread>>

Execute(step) ==
    \/ failure = None /\ Replay(step)
    \/ /\ failure = None /\ failure' \in Reasons(step)
       /\ unread' = Unparsable(step)
       /\ UNCHANGED frames
    \/ failure # None /\ UNCHANGED <<failure, unread, frames>>

-----------------------------------------------------------------------------
Init ==
    /\ count = 0
    /\ produced = {} /\ sinks = {} /\ answers = {}
    /\ schemas = [r \in Refs |-> Layers[r]]
    /\ frames = [r \in Refs |-> Layers[r]]
    /\ skipped = FALSE
    /\ failure = None /\ unread = FALSE
    /\ verdict = "planning"

\* The plan has one more step, and it passes.
AcceptStep ==
    /\ verdict = "planning" /\ count < MaxSteps
    /\ \E step \in Steps : ~Diagnosed(step) /\ Validate(step) /\ Execute(step)
    /\ count' = count + 1
    /\ UNCHANGED <<answers, verdict>>

\* The plan has one more step, and it is diagnosed.
RejectStep ==
    /\ verdict = "planning" /\ count < MaxSteps
    /\ ~(\A step \in Steps : ~Diagnosed(step))
    /\ verdict' = "rejected"
    /\ UNCHANGED <<count, produced, sinks, schemas, skipped, frames,
                   failure, unread, answers>>

NotRetained(ref) == ref \notin produced \cap sinks

\* Mutant: the result contract is not compared with the columns.
LacksNothing(ref) == FALSE

LacksContract(ref) == schemas[ref].kind # None /\ ~(Expected \subseteq schemas[ref].columns)

BadEnding(ending) ==
    \/ \E r \in ending.answers \cup ending.diagnostics : NotRetained(r)
    \/ \E r \in ending.answers : LacksContract(r)

\* The plan ends with the last step; the worker publishes what it declares.
Finish(ending) ==
    /\ verdict = "planning"
    /\ ~BadEnding(ending)
    /\ verdict' = "validated"
    /\ answers' = ending.answers
    /\ failure' =
        IF failure = None /\ \E r \in ending.answers \cup ending.diagnostics : frames[r].kind = None
        THEN "unavailable_output" ELSE failure
    /\ UNCHANGED <<count, produced, sinks, schemas, skipped, frames, unread>>

RejectEnding(ending) ==
    /\ verdict = "planning"
    /\ BadEnding(ending)
    /\ verdict' = "rejected"
    /\ UNCHANGED <<count, produced, sinks, schemas, skipped, frames,
                   failure, unread, answers>>

Next ==
    \/ AcceptStep \/ RejectStep
    \/ \E ending \in Endings : Finish(ending) \/ RejectEnding(ending)

Spec == Init /\ [][Next]_vars

-----------------------------------------------------------------------------
\* The validator's and the worker's data are refs' data; counts are no files.
TypeOK ==
    /\ produced \subseteq Refs /\ sinks \subseteq produced /\ answers \subseteq Refs
    /\ \A r \in Refs : {schemas[r].kind, frames[r].kind} \subseteq Kinds \cup {None}
    /\ failure \in Failures \cup {None}
    /\ skipped \in BOOLEAN /\ unread \in BOOLEAN
    /\ verdict \in {"planning", "rejected", "validated"}

\* The columns of the validator are the ones of the file, for every ref and
\* after every step, as long as the replay goes on (_validate_column_flow,
\* "exactly as the runner transforms frames").
ColumnsMirrorFrames ==
    failure = None =>
        \A r \in Refs : schemas[r].kind # None => frames[r] = schemas[r]

\* A step whose columns were all checked finds its inputs, and finds them to be
\* of the kind the operation reads (_validate_step_parameters,
\* _validate_column_flow).
StepsFindTheirInputs ==
    ~skipped => failure \notin {"unresolved_reference", "wrong_kind"}

\* A step finds the columns it names, however many joins and renamings they
\* went through (FIELD_SOURCES, EXPRESSION_SOURCES); the exception is a step the
\* validator could not look at itself, because its expression does not parse,
\* or a plan in which it skipped one.
StepsFindTheirColumns == failure = "missing_column" => skipped \/ unread

\* The answer of a plan that was validated and replayed is a file, and has the
\* columns of the result contract.
AnswersCarryTheContract ==
    verdict = "validated" =>
        /\ failure # "unavailable_output"
        /\ failure = None => \A r \in answers : Expected \subseteq frames[r].columns
=============================================================================
