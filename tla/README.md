# GeoQA-Agent4Amsterdam: TLA+ models and proofs

GeoQA answers geospatial questions about Amsterdam.  A language model turns a
question into a spatial goal and a workflow draft, a validator checks the draft,
a worker runs it, and a person accepts or rejects the answer; accepted workflows
are retained as cases and replayed.  This directory holds TLA+ modules of that
system, the TLC configurations that check them on small instances, and TLAPS
proofs of what matters most.

Run everything from this directory:

    tlc -workers 2 -config MCSessionSingleWriter.cfg MCQuestionSession
    tlc -workers 2 -config MCPlannerCases.cfg MCDraftPlanner
    tlc -workers 2 -config MCDataflowColumns.cfg MCWorkflowDataflow
    tlc -workers 2 -config MCPublication.cfg MCPublication
    tlapm QuestionSessionProofs.tla

`PROJECT.json` lists the components, the runs, the lines each definition models
(`map`), a mutant for every property, the hazards, the findings and the theorems.

## 1. The system

Paths are relative to the repository (`src/`).

| Component | State it keeps | Operations |
|---|---|---|
| Question Sessions (`app/api/question_sessions.py`, `session_repository.py`, `session_models.py`) | one JSON document per session | create, edit, regenerate, decide, delete, get, list |
| Workflow records (`app/api/workflow_records.py`) | `record.json`, `answer.json` per decision | persist_decision |
| Execution jobs and worker (`src/geoqa_agent/execution.py`) | one job document per execution, its artifacts | create, transition, execute |
| Draft planner (`app/api/draft_planning.py`) | drafts and validations (content-addressed) | plan (interpret, retrieve, compose), remember |
| Case base (`src/geoqa_agent/case_base.py`) | retained workflows by signature | exact_match, near_examples, retain, remove |
| Draft store (`src/geoqa_agent/workflow_models.py`) | immutable drafts with a retention | save, get, retain_until |
| Validator, column flow (`src/geoqa_agent/workflow_validation.py`, `column_flow.py`) | none | validate |
| Interpretation, planning (`question_interpretation.py`, `workflow_planning.py`) | none | interpret, propose |
| Candidate answers (`candidate_answer.py`) | none | construct |
| Model clients (`model_clients.py` and one file per vendor) | none | generate, with one corrective turn |
| Tool runners (`geopandas_runner.py`, `rasterio_runner.py`, `gee_runner.py`) | none | run one tool |
| Catalog publication (`src/data_pipeline/catalog.py`, `showcase_catalog.py`) | immutable catalog versions and a current pointer | publish, ingest, enrich, current |
| Data preparation (`src/data_pipeline/layers.py`, `wfs.py`, `geoparquet.py`) | the dataset objects | read metadata, fetch pages, build a file with its quality report |
| Metadata annotation (`src/metadata_annotation/service.py`, `scripts/annotate_metadata.py`) | none (a new Catalog version) | enrich, report what is unresolved |
| Object storage (`src/data_pipeline/storage.py`, `azure_storage.py`) | objects with etag and expiry | get, put_immutable, compare_and_swap, delete, set_expiry |
| Showcase (`app/api/showcase.py`) | published examples and their index | publish, list |
| Raster and map views (`raster_views.py`, `answer_maps.py`, `catalog_layers.py`) | cached views | render, read |
| Web client (`app/web/src`) | the selected session, pending requests, map layers | login, ask, revise, decide, delete, select |
| Deployment (`scripts/redeploy.sh`, `infra/`) | cloud resources | redeploy |

**How they interact.**  `app/api/main.py` hands every service call to a thread
of its own (`asyncio.to_thread`).  The thread runs a whole operation: creating a
session plans a draft, validates it, stores the session, creates and runs an
execution job and, if the answer does not satisfy its contract, plans again, all
in one request.  Threads share nothing but the object store.  The worker reports
a finished job through a callback (`QuestionSessionExecutionSink.record`), which
reads the session again and writes the outcome into it.  The session document is
written by a conditional write whose etag is read just before it.

**What is hard.**  Requests of the same session interleave at every storage call;
a request works on a copy of the session it read minutes ago; a storage call may
raise, or the container stop, between any two writes; retention may end while a
request runs; a repair plans again inside the same request; three writes of one
decision (record, session, case base) are not atomic.  Scripts and jobs publish
Catalogs at the same time, minutes after reading what they build on; a source
changes between two of its pages; in the browser every reply may be late.

**What makes each part correct.**

* Session: the result, the answer and the authorization it shows belong to its
  last draft; a decision is made once and stays, also when the store deletes the
  session under a running request, which then writes it anew.
* Records and cases: a record describes the draft that ran; only accepted
  workflows are replayed; a rejected replay is forgotten.
* Jobs: the session's result agrees with the stored job; every authorized
  execution is reported.
* Repair: bounded, and only in answer to a failure.
* Validation: what a validated plan reads, and the columns it names, are there
  when the worker gets to them, and its answer is what the goal asked for.
* Catalog: readers get a complete snapshot of one city, and an annotation never
  lands on data it was not made from.
* Data preparation: what is stored is what the source had, in one coordinate
  system, and every record that is not stored is reported.
* Grounding: a role is bound only to data whose description rests on evidence,
  and interpretation and validator agree about each binding.
* Showcase, views, records: what is listed is complete, everybody sees the stored
  view, what should expire gets its deadline.
* Web client: a late reply puts no document of another session on the page, and
  nothing private on one that is signed out.

## 2. The modules

| Module | What it is |
|---|---|
| `ReviewProtocol` | abstract specification: the life of one session as stage and revision of the draft under review |
| `QuestionSession` | one session, its job and record documents, and the requests that interleave on it |
| `MCQuestionSession` | its TLC instances (four `MCSession*.cfg`) |
| `QuestionSessionProofs` | theorems that hold of every interleaving |
| `SingleWriterProofs` | theorems under the single-writer assumption, and the refinement of `ReviewProtocol` |
| `DraftPlanner` | the planning of several sessions over shared drafts, case base, Catalog pointer and clock |
| `MCDraftPlanner` | its TLC instances (two `MCPlanner*.cfg`) |
| `DraftPlannerProofs` | theorems about it |
| `OperationContracts` | the 27 operations: contracts, and the columns of their outputs as the validator and as the runners see them |
| `WorkflowDataflow` | a plan's steps, validated and replayed |
| `MCWorkflowDataflow` | its TLC instances (two `MCDataflow*.cfg`) |
| `WorkflowDataflowProofs` | theorems about it |
| `ObjectStore` | one object of the store: immutable writes and conditional replacement |
| `CatalogRegister` | abstract specification: the Catalog as a register that is ingested or annotated |
| `Publication` | everybody who writes the shared store outside a session, one storage call at a time |
| `MCPublication`, `PublicationProofs` | its TLC instance and theorems about it |
| `Acquisition` | one vector Layer: metadata, pages, records |
| `MCAcquisition`, `AcquisitionProofs` | its TLC instance and theorems about it |
| `Grounding` | from a Layer's metadata over its annotation to a binding and its validation |
| `MCGrounding`, `GroundingProofs` | its TLC instance and theorems about it |
| `WebClient` | the page in the browser and its requests |
| `MCWebClient`, `WebClientProofs` | its TLC instance and theorems about it |

`WorkflowDataflow` is about what one draft says, the verdict that is the constant
`Unfit` of `DraftPlanner`, and the run that may or may not fail in the other two.
These two look at the system from two sides.  `QuestionSession`
takes one session apart, down to each call to the object store, and lets the
planner come up with anything.  `DraftPlanner` takes many sessions, each of
which works one request at a time, and follows what they share.  Each is
consistent with what the other leaves arbitrary: `PlannedVersions` of the first
allows every draft version the second may save, and the second's `Execute`,
`Decide` and `Remember...` are the outcomes of the first's single-writer runs.

The Catalog that those two plan with comes from three modules that follow it on
its way: `Acquisition` is how one Layer is fetched and stored, the step
`Prepare...` of `Publication`; `Publication` puts the Layers together, and lets an
annotation be any value; `Grounding` says what an annotation is and how a session
binds data to it.  The version that `Grounding` pins is `pinned` of `DraftPlanner`,
whose `Publish` is the swap of the pointer in `Publication`; what
`SupportedBindingsValidate` says of all versions is what `Unfit` can blame bindings
for: only that two Layers have no extent in common.  `WebClient` is on the other side of the API: what the server
answers is arbitrary there, as far as the routes' contracts allow.

### QuestionSession

State and code:

| Variable | Code |
|---|---|
| `session` | the document `session.json` that `QuestionSessionRepository` reads and saves; `drafts` is `draft_versions`; the field `version`, which counts saves and which nothing decides by, is left out |
| `jobs` | the execution-job documents of `ExecutionRepository` |
| `answers`, `records` | `answer.json` and `record.json`, whose ids are drawn for each decision (hence keyed by the deciding request) |
| `cases` | the case base, as `DraftPlanner.remember` changes it |
| `expired` | the clock has passed `expires_at` |
| `pc`, `op`, `budget`, `doc`, `then` | where a request's thread stands, what it does, its `repair_budget`, the `QuestionSession` object it holds, where it returns to after `save` |
| `etag` | the relation of the etag that `save` has read to the stored document: all `compare_and_swap` looks at |

One action is one object-store call with the computation up to the next one.

| Action | Code |
|---|---|
| `Begin`, `Refuse`, `Revise` | a request arrives, reads the session, and passes or fails `_ensure_active` and the operation's own checks |
| `Plan` | `DraftPlanner.plan` answers; the revised document resets everything of the previous execution (`WithDraft`) |
| `Authorize` | `_execute_current_draft`: the job is stored before the session names it |
| `ReadEtag`, `Swap`, `SwapConflict` | the two calls of `save`, and the `ConcurrentPublicationError` between them |
| `Run`, `RunHalfStored`, `Recover` | the worker's terminal job; the except clause that fails a job whose SUCCEEDED document was stored before the next call raised |
| `Fold` | `QuestionSessionExecutionSink.record` re-reads the session and folds the outcome in |
| `Repair`, `Respond`, `SessionLost` | the session is read again; another repair, the response, or `SessionNotFoundError` |
| `Decide`, `PersistAnswer`, `PersistRecord`, `Remember` | `decide_result`: answer artifact, record, session, case base, in this order |
| `ReadForDelete`, `Drop` | deletion |
| `Abort`, `Expire`, `Purge` | a call raises or the container stops; retention ends; the store drops the document (`set_file_expiry`), whoever is at work on it |

`Purge` waits for nobody.  A request that is running goes on with the copy it
holds; `_ensure_active` was asked when it began and is not asked again, and a save
that finds no document has no etag to insist on and writes the session anew
(`session_repository.py:61-68`).  A save that had read an etag before is refused.
`Living` is therefore the session as its owner may still meet it: the stored
document or, while there is none, the copy a running request is going to save
(`HoldsCopy`).  The refinement and `RepairAnswersFailure` speak of it.

`ReviewProtocol` says what the owner of a session may observe of it: a draft is
drafted, run, answered or failed, accepted or rejected; a decision is final, a
revision counts up by one and starts from an undecided stage.  The mapping is
`Stage` and `Revision` in `QuestionSession`, checked as `ImplementsProtocol`.

### DraftPlanner

State and code:

| Variable | Code |
|---|---|
| `stored`, `expiry` | drafts in the object store by content (`sealed_draft` hashes it), and the expiry `set_expiry` gave them |
| `cases` | the case base; `retain` hashes the question and the time of acceptance into the case id, so a case is named by the session whose acceptance made it |
| `current`, `pinned` | `catalogs/current.json`, and the version a planning read from it |
| `pc`, `trigger`, `task`, `tries`, `proposals`, `draft` | where a request is in `plan`, and the local variables of `interpret` and `compose` |
| `created`, `latest`, `answered`, `decision` | the part of the session document this level looks at |
| `now` | the clock, in ticks of which `Retention` make up `SESSION_RETENTION` |

| Action | Code |
|---|---|
| `Submit`, `Revise` | `create` and `_revise` up to the Catalog read in `plan` |
| `Interpret`, `Reinterpret`, `GiveUp` | the loop of `interpret`: grounded, repaired, unsupported |
| `Match`, `NoMatch` | `retrieve` with `exact_match` and `instantiate_draft` |
| `Propose`, `Retain`, `RetainMissing` | one turn of `compose`: `propose` stores the draft, `_validate` judges it and sets its retention, or finds it gone |
| `Save` | the draft version enters the session document |
| `Execute` | the worker reads the draft and runs it or fails |
| `Decide`, `RememberAccepted`, `RememberRejected`, `RememberMissing` | `decide_result` and `remember` |
| `Abort`, `Tick`, `Purge`, `Publish` | failure of a call or stop of the container, time, the store's deletions, a Catalog publication |

A draft is identified by its task, workflow, Catalog version and the case it
replays, which is what its hash depends on.  `Unfit` is the validator's verdict:
which workflows fail on which Catalog version; validation is a function of the
draft and is neither stored separately nor read back.  Near examples only
inform the model, whose proposal is arbitrary anyway.  `Match` reads the cases
and stores the draft in one step; the cases read are data of this thread only,
and the draft it stores is not looked at by others until then.

### WorkflowDataflow

The validator walks over a plan once with schemas (`_validate_concrete`,
`_validate_column_flow`); the worker, later and somewhere else, walks over it
with files (`_run_draft`).  Each walk is a fold over the steps that never looks
at the other one.  The model takes both walks at once, a step at a time, which
is the same as one after the other, and makes what they know comparable after
every step: the properties relate the two.

State and code:

| Variable | Code |
|---|---|
| `produced`, `sinks` | `produced`, `sink_refs` of `_validate_concrete`; `available` is derived |
| `schemas`, `skipped` | `schemas` of `_validate_column_flow`, and whether some step came to its `continue` |
| `frames` | the worker's `refs`, and the columns or bands of the file each names |
| `failure`, `unread` | why `_ExecutionBlockedError` ended the job; whether the step that failed has an expression the validator could not parse |
| `answers` | `final_output_ref`, `result_table_ref` |
| `verdict`, `count` | how far the plan is, and whether it passed |

| Action | Code |
|---|---|
| `AcceptStep` | one turn of the loops of `_validate_concrete` and `_validate_column_flow` without a diagnostic (`Diagnosed`, `Validate`), and of `_run_draft` (`Execute`) |
| `RejectStep` | a diagnosed step; the draft is not executed |
| `Finish`, `RejectEnding` | the retained outputs and the result contract are checked; the worker publishes what is declared |

`OperationContracts` has the registry as one table: the inputs and outputs with
their kinds, and of the configuration only what names columns, under the common
names `field`, `key`, `new` and `prefix` (`Operation` explains them).
`ExpectedColumns` is `column_flow.apply`; `WrittenColumns` and `Duplicates` are
what the runners do, written from their own code and not from `column_flow.py`.
An expression is the columns it reads and a dialect: `expression_columns` parses
Python, the runner's `query` and `eval` read the pandas dialect too (`Unparsable`,
`BadExpression`), and what the validator cannot parse it passes without a
diagnostic.
What a merge, a spatial join and an overlay of GeoPandas do to columns of the
same name is external (`Merged`, `Clash`), and so is that a file cannot have two
columns of one name.  A column is a sequence of name parts, so prefixes and
suffixes are really put on.  A defect is a reason for a step to fail, and a step
without one succeeds: whatever else may go wrong in a runner (an empty geometry,
a remote service) is a failed job, of which the properties say nothing.

### Publication

State and code:

| Variable | Code |
|---|---|
| `datasets`, `versions`, `pointer` | the objects `datasets/...`, `catalogs/versions/...` and `catalogs/current.json`; a version's key is the hash of its content, so a set of versions is the store |
| `examples`, `index` | `showcase/<session>/...` and `showcase/index.json`; a document is the Catalog it was rendered from |
| `views`, `records`, `deadlines` | cached views of satellite data (of a session's results, and of a collection on a day), decision records, and which objects `set_expiry` was called for |
| `proc` | what each process does and has read: the Layers it prepared, the base version, the token for its conditional write |

| Action | Code |
|---|---|
| `PrepareSupport`, `PrepareDivision`, `PrepareObjects`, `PrepareRaster`, `PrepareCollection` | the loops of `ShowcaseCatalogIngestion.ingest`, in its order: the neighborhoods are read once and gate all but the coarser tessellations |
| `Assemble`, `ReadCurrent`, `OpenVersion`, `Generate` | the snapshot of an ingestion; what `enrich_current` starts from and ends with |
| `ReadPointer`, `StoreVersion`, `SwapPointer` | the three storage calls of `publish_snapshot`, with the check of `base_version` |
| `ReadSession`, `ReadDocument`, `ReplaceDocument`, `ReadIndex`, `ReadIndexToken`, `AppendToIndex` | `publish_showcase` with `_replace`, call by call |
| `OpenExample`, `ShowRaster`, `ShowCollection` | a visitor's requests: the stored documents, and the live view of a Layer of the current Catalog, a raster as it is stored, a collection as it is cached for the window that ends today, or rendered |
| `ReadView`, `RenderView`, `PutRecord`, `SetExpiry` | the view cache of `raster_views.py` and `persist_decision`: read, write, deadline |
| `Fail` | any call raises, or the process is killed, between any two steps |

A Layer's bytes are what they depend on: the revision of its source and that of
the neighborhoods.  `ObjectStore` has `put_immutable` and `compare_and_swap` as the
Azure adapter performs them; tokens are numbers because every write makes a new
one.  `CatalogRegister` is what readers of `CatalogReader.current` are promised,
and `ImplementsRegister` the refinement.

### Acquisition

| Variable | Code |
|---|---|
| `kind` | whether `geoparquet.py` builds the neighborhoods (`support`) or Objects gated against them |
| `service`, `counts`, `source`, `crs`, `changes` | the WFS, external: how it pages, whether it reports `numberMatched`, what it holds now |
| `start`, `pages`, `matched`, `originalCrs`, `collected` | the local variables of `fetch_all_features` |
| `first` | what the source held at the first page, for the properties |
| `records`, `dataset` | what the features turn out to be; rows and diagnostics of the file |

`ReadMetadata`, `FetchPage` and `Check` are the client; `Insert`, `Remove` and
`Reproject` change the source between two of its pages, and a service may ignore
`startIndex`, advertise a next page after the last, or end early.  `Build` decides
each record's fate, for the tessellation of neighborhoods and for Objects by
different rules.  What the features are is chosen only there: nothing before looks
at it.

### Grounding

| Variable | Code |
|---|---|
| `versions` | the Catalog versions as `Current` reads them: per Layer its raw metadata and, after an annotation, its `enriched` part |
| `pinned`, `stage`, `task`, `bindings` | a session's planning: the Catalog of `plan`, the goal the model answered, the result of `interpret` |
| `codes` | what `_validate_bindings` and `_validate_crs_and_coverage` say of the bindings (`Diagnostics`) |

`Ingest`, `Enrich` publish versions; `Pin`, `Interpret`, `Repair`, `PlanAgain` are
the planner's calls, `Validate` the validator's.  `Annotation` is
`_annotation_value`: the one place that decides what counts as resolved.  Evidence
is a reference to a part of what the model was shown, and `Offered` says which
parts there are.  Artifacts and tasks are whatever a model may answer.  A Layer has
the places it covers and the years it is valid for, and two Layers overlap as
`_bbox_intersects` and `_temporal_extents_overlap` have it, on sets of places instead
of boxes (`Overlap`, `Ended`).

### WebClient

| Variable | Code |
|---|---|
| `authenticated` | the hosting platform's session cookie, external |
| `identity`, `history`, `session`, `url`, `busy` | state of `LiveSandbox` in `App.tsx` |
| `shown`, `mapError` | whose answer map and observations the page has; whether it says that the map could not be had |
| `pending` | requests under way; `current` is the comparison with `authenticationFailureVersion` |

The visitor's actions send requests, the actions `...Arrives`, `Fails`,
`Unauthorized` and `Ignored` are the ways in which one comes back, in any order;
an effect's cleanup takes the requests for documents out of `pending`
(`Cancelled`).  `Apply` is `applySession` with the two effects it sets off.  Each has
its own key (`Key`): the map is fetched for an answer, the observations for an
execution, so that an execution without an answer has observations and no map, and
either effect runs again without the other (`Changed`).

## 3. The runs

| Run | Instance | Distinct states | Shows |
|---|---|---|---|
| `single_writer` | creator and 2 requests, 1 draft, 1 repair, failures, expiry under running requests | 483,435 | `ResultOfLatestDraft`, `RecordsWhatRan`, `CasesWereAccepted`, `DecisionImmutable`, `ImplementsProtocol` |
| `repair` | creator and 1 request, 2 drafts of which 1 invalid, 2 repairs, failures, expiry | 131,006 | `RepairsBounded`, `RepairAnswersFailure`, `ExecutionReported`, `RejectedReplayForgotten` |
| `overlap` | creator and 2 requests at the same time, 1 draft, expiry | 3,141,364 | `DecisionRecorded`, `AuthorizesLatestDraft`, `ResultAgreesWithJob` hold whatever overtakes what |
| `overlap_decision` | as `overlap`, without expiry | violation | a stored decision is withdrawn (finding 1) |
| `planner_cases` | 3 sessions, 2 tasks, 1 workflow, 1 tick at any moment, failures | 1,719,189 | `ReplaysWereAccepted`, `RejectedCaseStaysOut`, `CaseKeptUntilRejected` |
| `planner_loops` | 2 sessions, 2 workflows, 2 Catalog versions, 2 attempts of each kind | 429,898 | `OnlyValidatedRuns`, `PlanningEnds` |
| `dataflow_columns` | 4 layers, 26 operations, all plans of 2 steps | 169,783 | `ColumnsMirrorFrames`, `StepsFindTheirInputs`, `StepsFindTheirColumns`, `AnswersCarryTheContract` |
| `dataflow_overlay` | overlay and orderby | violation | the columns of an overlay (finding 2) |
| `publication` | 3 processes of any kind, 5 Layers of which 3 change, 2 revisions, 2 sessions, 2 documents | 945,901 | `CatalogIsComplete`, `SnapshotsShareOneSupport`, `ImplementsRegister`, `ListedExamplesAreComplete`, `ViewsAgree`, `DeadlinesAreOwed` |
| `acquisition` | 3 features, pages of 2, up to 3 pages and 2 changes, 4 kinds of service | 61,556 | `AcquiresWhatWasThere`, `AcquiredInOneCrs`, `RecordsAreAccounted`, `RepeatsAreReported`, `AcquisitionEnds` |
| `grounding` | 2 Layers, 2 fields, 12 tasks, 38 answers of the annotation model, 3 versions | 387,717 | `BindingsRestOnEvidence`, `SupportedBindingsValidate`, `ReportedFieldsAreRejected` |
| `web_client` | 2 sessions of which 1 is also public, 2 executions, with and without answers, 2 requests of the visitor under way, and what they set off | 760,605 | `SignedOutViewIsEmpty`, `MapShowsItsSession`, `LateDocumentsAreDropped` |

The type invariants are not run: they are proved (section 4), which says more.

**Bounds and why they suffice.**

* *Three requests* are the one that creates the session and two that race on it;
  every conflict in the code is between one request's read and another's write.
  A request may revise with repairs, so a session sees up to
  3 x (1 + `MaxRepairs`) drafts.
* *One draft* in the concurrent runs: two versions of a draft differ by their
  number (`Authorization` names it), so nothing is lost when contents coincide.
  An invalid draft and a second valid one are in `repair`.
* *`MaxRepairs`* is 0, 1 and 2 (the code has 2): 1 lets every repair step
  interleave with failures and expiry, 2 checks the bound as the code has it.
* *Three planner sessions*: one makes a case, two replay it and disagree.
  *Two tasks* tell a match from a mismatch.
* *Attempt limits* are 1 and 2 (the code's are larger): 2 has a first, a
  repeated and a refused attempt; the theorems hold for every limit.
* *The clock*: `Horizon` is the last tick, `Retention` a session's life in
  ticks, so 1/1 has a session created on either side of another's end.
  `planner_cases` lets it tick under running requests; in `planner_loops` time
  stands still (`Horizon = 0`).  The theorems cover all of these.
* *Two steps* let every operation read the output of every other, which is
  where a wrong schema shows.  Two vector layers share one column and differ in
  another, so joins meet columns that are shared, that are not, and that a
  prefix makes equal; names that are written are new or taken; an output may
  take the name of a layer.  A step binds the layers of the kind it reads, and
  the outputs `x` and `z` whatever their kind.  The theorems have no bound on steps or layers.
* *Dialects*: an expression is Python, what only pandas reads, or neither, so the
  validator and the worker each meet one that they cannot read and the other can.
* *What `dataflow_columns` leaves out*, because the code does not keep the
  promise there: overlays (finding 2), null or a template in the place of a name
  (`ColumnsMirrorFrames` and `AnswersCarryTheContract` fail: the validator takes
  null for the default and a template for itself, the runner writes "None" and
  the filled-in template), two columns in a parameter that takes one ("a,b"
  passes the validator column by column, and the runner looks for one column of
  that name), and spatial joins that keep unmatched rows (`Unmatched`: a shared
  column is there once with its suffix and once, for those rows, without).
  Bands that a band arithmetic names are not looked up by the validator at all;
  `missing_band` is therefore a failure no property excludes, like
  `duplicate_column`, and `missing_output` for an operation that is given none.
* *Three processes* of `publication` are two writers that race and a third that
  has changed what both read before; every conflict is between two of them and one
  object.  One Layer of each kind shows the order in which they are prepared, two
  revisions whether two Layers saw the same one; the source of the raster does not
  change here (`Changing`), since it is cut the way an Object is gated.  Two
  documents are an example of which one is replaced.  One day: days only tell cached
  views apart, and another would be another recipe.  A process performs one operation; a script that runs again is
  another process.  The theorems about the Catalog have no such bounds.
* *Three features and pages of two* make a full page, a short one and an empty
  one; `MaxPages` is 3 where the code has 1000, so that the cap is met.  *Two
  changes* are the fewest that keep the count.  A record may be odd in any one way
  and at most two records odd together, because what becomes of a record depends
  on another only through their identities.
* *Two Layers* of `grounding`, one with governed labels, can both ground a role or
  repeat each other; *three versions* are an ingestion, its annotation and what is
  published while a session is pinned to one of them.  The answers cover each way
  in which an annotation may lack its evidence, one at a time.  The first Layer also
  comes without the place, or without the years, of the second, so that they do not
  overlap.
* *Two sessions* of the page, one of them also reachable as a worked example, are
  the one that is left and the one that is opened.  `MaxPending` bounds what the
  visitor has started and not yet got; what the page asks for by itself is not
  bounded.  *Two executions* are the one that was superseded and the one that is shown.
* *Symmetry* is used in runs without temporal properties only, with one
  exception: `single_writer` checks action properties, which are judged on each
  step and do not change under a permutation of requests.  `publication` permutes
  processes, sessions (all accepted there) and renderings, and its refinement is
  judged step by step as well.

**Deadlock** is checked in the session runs (`Idle` is the step of a system that
has served every request).  It is not in the planner runs: sessions end, the
clock stops at `Horizon`, and nothing is left to do.  Nor is it in the dataflow
runs, where a plan ends, and in the other four, where every process has performed
its operation, a Layer is stored, no version is left to publish, or a page
waits for a visitor.

**Fairness** is weak fairness on the steps of a request's own thread
(`Serve(r)`, `Work(s)`): `asyncio.to_thread` runs the operation to its end
without waiting on another request, and the model calls it makes have timeouts.
Nothing obliges a user to send a request, a call to fail, the clock to tick, the
store to purge or an administrator to publish.  Because a container may stop,
`ExecutionReported` and `RejectedReplayForgotten` end in "or a request was
interrupted"; `PlanningEnds` needs no such exception, and its mutant shows that
it rests on counting the attempts.  `AcquisitionEnds` assumes weak fairness of the
client's own step (`Step`): it is a loop in one process over HTTP calls with
timeouts, and the source's changes do not hold it up.  The other new modules have safety
properties only and assume nothing.

**Findings.**  Two runs expect a violation, of what a comment or a docstring says:

1. `DecisionImmutable` without a single writer.  `session_repository.py`
   `save` reads the etag itself, just before the conditional write, so the
   write is not conditional on the version the service had read: an edit that
   was planning while the decision was stored replaces it.
   `session_models.py` speaks of "One immutable post-execution decision".
   The repository's own comment names a single writer as its assumption, and
   under it the property is proved.
2. `StepsFindTheirColumns` with an overlay.  GeoPandas suffixes the columns both
   layers have, except in a difference; `column_flow.apply` does not, although
   it promises to transform columns "exactly as" the runner.

**What the models also show.**  The properties above hold with exceptions, and some
steps of the models are not what a reader of the repository expects.  No run is made
of these; each is stated here with what the repository says about it, if anything.

Against a comment or docstring:

* *A retried decision writes a second record.*  "The workflow id is derived from the
  decision identity, so a retried persistence lands on the same keys instead of
  duplicating records" (`workflow_records.py:99-100`); the identity includes the time
  of the decision, which every request takes anew, and the record is written before
  the session.  `RecordsWhatRan` says that each record is true, not that there is one.
* *Drafts are not retained through a deadline.*  `retain_until` is to "Keep the draft
  and its validation through a session deadline" (`workflow_models.py:168`); it
  overwrites the expiry of a content-addressed draft, so a revision in an older
  session that arrives at the same draft moves it back, and the younger session
  may find the draft gone.  `DraftPlanner` has the step (`RetainUntil`, `Purge`) and no
  property claims retention.
* *Steps that validate without being looked at.*  `WorkflowValidator` says that "Every
  check is blocking" (`workflow_validation.py:46-48`) and `_validate_column_flow` that
  a step is skipped if its "inputs or algorithm are already diagnosed" (563-565).
  A required parameter bound to null, or an input bound to a count, is skipped
  without a diagnostic, and an expression that does not parse as Python has no columns
  to check (`column_flow.py:136-138`, `(columns or set())` at 659).  Such a plan
  validates, and its job may fail for a column or an input:
  `StepsFindTheirInputs` excepts `skipped`, `StepsFindTheirColumns` also `unread`.
* *A worked example is not frozen.*  "Nothing there expires and nothing is computed
  when a visitor opens an example" (`showcase.py:7-9`) is true of its stored documents
  (`ListedExamplesAreComplete`).  The Layers bound in it keep the address of the live
  Catalog view (`showcase.py:57`): what a visitor sees of them changes with the next
  ingestion and, for an image collection, whose window ends today
  (`raster_views.py:120-134`), every day; it is rendered on opening and the
  cached view expires.
* *Overlays of a session that was left.*  "Observation overlays of a previous session
  are switched off when the listing changes; their keys carry the session, so nothing
  is reused" (`MapPane.tsx:281-282`); a view that arrives after the change is switched
  on by `toggleRaster` and stays.  Overlays are not modelled.
* *A listing that could not be had.*  "a missing listing only leaves the panel empty"
  (`App.tsx:128-129`), but the effect empties the panel only when there is no
  execution: after a failed request the former session's observations stay, which is
  why `MapShowsItsSession` speaks of the map only.  (A map that could not be had leaves
  the former one too, with an error.)

Where the repository says nothing:

* Interpretation and validator differ on one point: whether the Layers of two roles
  overlap (`_validate_crs_and_coverage`) is only asked by the validator, which rejects
  every plan for such bindings.  `SupportedBindingsValidate` names this exception and
  says that there is no other.
* A session that the store, or its owner, deletes while a request works on it is
  written anew by the next save and reappears past its deadline; `ImplementsProtocol`
  says that it then goes on where it was.
* `remember` returns at once for an accepted replay, also when a rejection in
  another session has removed that case since, and a replay whose execution fails and
  is repaired leaves its case where it is.
* An insertion and a deletion between two pages keep `numberMatched`
  (`wfs.py:42`); a feature is then lost or fetched twice, of which only the second
  is reported.  `AcquiresWhatWasThere` says so with "if it changed once".
* `publish_showcase` reads the index, and its token in a second call: a publisher
  that listed its example in between is taken off again, while its documents
  stay.  `ListedExamplesAreComplete` claims the other direction only.
* `report_unresolved` (`annotate_metadata.py:22`) looks at label and scale of
  identity fields, grounding at their name and description too: a clean report
  does not mean that a field can be bound.  `ReportedFieldsAreRejected` is the
  direction that holds.
* In the web client a late reply for a session the visitor has left opens that
  session (`App.tsx:179`), and the reply to a mutation opens its session under whatever
  address is there by then (`App.tsx:294`), where a showcase address lets it survive
  a 401.  `SignedOutViewIsEmpty` excepts public addresses.

**What one writer excludes.**  `single_writer`, `repair` and the theorems of
`SingleWriterProofs` take the repository's word that a session has "a single writer"
(`session_repository.py:40`): no two requests on one session at a time.  So they say
nothing of a lost update, of a revision that a fold does not see, or of a decision or
a deletion in the middle of a running request: these need two requests, and only
`overlap` and `overlap_decision` have them.  The store's expiry, which is no
request, is in all but `overlap_decision`; failures and crashes are in `single_writer`
and `repair`, and in every theorem.

## 4. What is proved

All theorems hold for every value of the constants, under the named assumptions
of the modules: `CreatorAssumption`, `DraftsAssumption`, `MaxRepairsAssumption`,
`SwitchAssumption` (types of the parameters), `NoneAssumption` (`None` is none
of the values it stands in for), and for the planner `UnfitAssumption`,
`AttemptsAssumption` (at least one attempt of each kind), `ClockAssumption`,
for plans `LayersAssumption`, `StepsAssumption`, `EndingsAssumption`, and for the
rest `PublicationAssumption`, `VersionsAssumption` (the kinds of Layers are apart,
`None` and `NoData` are no data), `AcquisitionAssumption`, `OutcomesAssumption`,
`GroundingAssumption` (metadata and governance are of their types, there are finitely many Layers),
`WebClientAssumption`.
TLC evaluates them in every run.

**`QuestionSessionProofs`** (any number of requests, any interleaving, failures
at any point) proves `TypeOK`, `DecisionRecorded`, `AuthorizesLatestDraft`,
`ResultAgreesWithJob`.  None is inductive alone, because a document becomes
visible long after it was built: the invariant says of *every document on its
way to the store* what the properties say of the stored one (`ThreadOK(r)`),
and of each program counter what the thread has done so far.  Three facts carry
a document over the writes of others: a job's status no longer changes once
its outcome is folded in, a written record or answer stays, and a thread's own
job, record and answer are its own.

`RequestsEnd` is about how far a thread still has to go: `CallsLeft` counts 13 calls
a round and one round for each repair left.  Every call lowers it, no step of
another request changes it, and it is positive as long as the request is in
flight, so a request ends after at most `13 * (MaxRepairs + 1)` calls if it keeps
making them.

**`SingleWriterProofs`** states `Exclusive => (Spec => ...)`.  One request in
flight (`OneInFlight`) makes the copy it holds, as long as the store keeps the session,
the one that it replaces (`HoldsSession`), so a decision is final; what it has run
is the latest draft's own run (`OwnRun`), so records vouch for drafts that ran
(`RecordsVouched`) and cases come from recorded acceptances (`CasesOnRecord`).
`SessionImplementsProtocol` is the refinement: every step of `QuestionSession` maps to a
step of `ReviewProtocol` or to a stutter.  The store's deletion is the hard one: under a
request that holds a copy it changes nothing yet, since `Living` becomes that copy
(`LivingChanges`, `CopyRefines`), which may be a step ahead of what is deleted.  The
session is discarded when that request gives up, or at once if no request holds a copy
or its save has read an etag that is now refused.

`RepairsInv` relates the budget of a request to the history of the session, which
the code never does: it counts down `repair_budget` in one place and appends to
`draft_versions` in another.  What a request has spent is at least the number of
repairs the session ends in (`WithinBudget`), through every label at which it has
decided on a repair, holds its draft, or executes it; every other operation starts
from a full budget and breaks the row with a draft that is no repair.
`RepairsBounded` is then a bound on every stretch of the history.  That a repair
answers a failure needs that the session it was decided from is the one it
replaces or, if that is gone, the one it writes anew.  `AttendedInv` is what the absence
of other writers is good for: a session
that shows a run has a request that is still to fold it in, and a decision that
the case base does not follow yet belongs to a request that is about to see to it
(`EverythingIsAttended`), interrupted requests excepted, as in the two
liveness properties.

**`DraftPlannerProofs`**: the invariant has, for each session, the state of its
planning (`PlanningOK`: what it has matched, proposed and stored), its document
(`DocumentOK`: where a replay comes from, what was validated) and its case
(`CaseOK`).  The argument on cases rests on a
replayed session being *closed*: a session that accepted a workflow never
changes again, so the fact "session q accepted draft d" survives whatever other
sessions do, and a rejected case cannot return because only q itself could
retain it, once.
`PlanningsAreFinite` bounds the steps of one planning by
`2 * MaxProposals + MaxInterpretations + 4`: each answer of the model uses up an
attempt, an exact match is tried once, and no publication, expiry or other
session starts the loops anew.

**`WorkflowDataflowProofs`**: any layers, any steps, plans of any length.
`StepsFindTheirInputs` speaks of plans without a skipped step and rests on
`KindsAgree`: until then the validator and the worker know of the same refs, and
the same kind of data under each.  That survives even where columns go apart, so
it is proved of all of them.  The other three are proved of the plans in which
the code keeps its promise (`Covered`: no overlay, no unmatched rows, names are
names; `OneNameEach` for the columns a step reads).  There the stronger
`DataAgrees` is inductive: as long as the replay goes on, nothing was skipped and
the schema of a ref is the data of its file.  The heart of the step is the lemma
`ExpectedIsWritten`, effect by effect: an operation whose fields exist can write
the expected columns and no others.  `StepsFindTheirColumns` then says that a column
is only missed by a step whose expression the validator did not read.  `SinksAreFiles` adds that what a plan may
declare was written by some step.

**`PublicationProofs`**: any number of processes, Layers and documents, each
process stopping anywhere.  `CatalogIsComplete` is not inductive: a version becomes
visible long after its Layers were stored.  `PublicationInv` therefore has two
parts per process.  `Placed` says what it must know at the place where it is;
`Noted` says that what it noted of the store is still true: the Layers it has
prepared are stored and were gated by the neighborhoods it prepared itself, the
version it is about to publish is complete and derived from its base, and, if the
token it holds is still the pointer's, so is its base still the pointer's version.
That last part is what makes compare-and-swap safe, since the base is compared
with the pointer two calls before the swap; it survives other processes' steps because the
store only grows and every swap raises the token (`StillNoted`).  The refinement
`ImplementsRegister` follows: only a successful swap changes what readers get, and
`Derived` says which step of the register it is.

The other three rest on what the store never takes back.  `ViewsInv`: a view is
written once, so that whoever met another's view adopted it for good.
`DeadlinesInv`: whoever stored a view or a record goes to `expire` and leaves it
only by setting the deadline or by stopping there.  `ShowcaseInv`: documents of
examples may be replaced but are never deleted, and a publisher has
written those before its position (`Advanced`); the index it is going to write is
complete because the one it read was (`Good`), even if another has appended since
and the entry of the other is lost, which `_replace` allows and the theorem does not
deny.

**`AcquisitionProofs`**: any source, any number of changes, any service.
`AcquisitionInv` adds that as long as the client goes on, all features collected
came in the coordinate system of the first page (`OneCrs`), and that what is
stored is what `Build` makes of the collected features (`WhatIsStored`).  The rest
is about records: `ObjectsAreAccounted` and `SupportIsAccounted` prove for every
shape that it is kept if and only if it is not reported as excluded, and that
what is excluded has a reason, although the code computes the two in different
places.

`AcquiresWhatWasThere` needs `PagingInv`, which says what the client's few local
variables prove about a source it cannot see: `start` is the number of collected
features, `matched` the number at the first page, and one change of the source
cannot leave both the number and the features as they were without being none.  As long as the
source is as it was, or a page has been accepted that reports the same number, what
was collected is a prefix of what was there (`FetchedInOrder`).  A service that
repeats its first page is the hard case: it is only believed when that was all there
was, for otherwise it advertises a next page until the client gives up.
`AcquisitionsAreFinite` bounds the client's steps by `MaxPages + 3`.

**`GroundingProofs`**: any Layers, metadata, answers and tasks, any number of
versions.  `GroundingInv` says of every annotated Layer in every version that what
counts as resolved rests on evidence which its own raw metadata offers
(`LayerEvidence`, proved for all artifacts), and of the bindings that they are those
that the pinned version grounds (`Grounded`); a version once published never
changes, so neither is touched by `Ingest` and `Enrich`.  What is left of the
validator's codes is then the coverage of two roles' Layers.

**`WebClientProofs`**: any number of sessions and requests.  `ClientInv` relates the
page to its requests: documents are asked for of the open session only, each
document that is asked for is asked for by the key the page has now, the map is shown,
asked for or reported missing, and once the visitor is signed out no
request that was sent before counts, and none sent since is answered.

**Only model-checked.**  Every invariant and every action property of the passing
runs is a theorem.  The four liveness properties (`ExecutionReported`,
`RejectedReplayForgotten`, `PlanningEnds`, `AcquisitionEnds`) stay with TLC: the step
from weak fairness to progress needs ENABLED, which the prover cannot reason about.
What they rest on besides fairness is proved: somebody is always there to do what is left
(`EverythingIsAttended`), each of them has a bounded number of steps to go, and
nobody else adds to these (`RequestsEnd`, `PlanningsAreFinite`,
`AcquisitionsAreFinite`).  That such a step is enabled at every label, TLC
finds out on the instances.

## 5. What is not modelled, and why

* The grammar of goals, and the validator's rules on geometry kinds, measurement
  scales and the task's constraints: they only reject more plans.  Those on bindings,
  coordinates and coverage are in `Grounding`, which does not look at plans.
* What the tool runners do to geometries and values, model vendors and their prompts: external computation.  Models
  answer anything; a run ends in success or failure.
* Rendering of maps and rasters, reprojection and cutting of rasters, artifacts'
  bytes, authentication, and the retention of jobs and records (nothing reads them
  back after their session).
* Candidate answers (`candidate_answer.py`) and the schemas of artifacts
  (`artifact_schemas.py`, `governance.py`): stateless checks of values, which have no
  order to get wrong; their outcomes are choices in `QuestionSession` and
  `Grounding`.
* The clients of model vendors: one request and one corrective turn, in one
  thread; what they return is any answer or a failure.
* Translated names and titles of an annotation, which no decision looks at; in the
  browser, the overlays of `MapPane.tsx`, previews of Catalog Layers, the drawing of maps
  and all texts.
* Deployment: shell and Terraform around a cloud provider.

## 6. Plan

1. *Done:* `ReviewProtocol`, `QuestionSession`, `DraftPlanner`, `WorkflowDataflow`,
   `Publication` over `ObjectStore` with `CatalogRegister`, `Acquisition`,
   `Grounding`, `WebClient`, each with proofs.
2. *Done:* theorems for every safety property of the passing runs, and for what the
   liveness properties rest on.
3. *Next:* the corrective turn of the model clients, the overlays of the map, and the
   validator's rules on geometry kinds, scales and constraints.
