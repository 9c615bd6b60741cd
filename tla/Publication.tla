---------------------------- MODULE Publication ----------------------------
(* The writers of the shared object store outside a Question Session: the   *)
(* administrator's ingestion and enrichment of the Catalog, the publication *)
(* of worked examples, the cached views of satellite data and the records   *)
(* that carry a deadline; and the visitors who open a worked example, or a  *)
(* Layer of the Catalog.  Each process performs one operation, one storage  *)
(* call at a time, and may fail or be killed between any two.               *)
EXTENDS Naturals, Sequences, ObjectStore

CONSTANTS
    Processes,     \* scripts, jobs and requests, each for one operation
    Support,       \* the neighborhoods, the first Layer of every ingestion
    Divisions,     \* the coarser tessellations, which nothing is gated against
    Objects,       \* the vector Layers that are gated against them
    Rasters,       \* the Layers cut to their extent
    Collections,   \* the Earth Engine Layers, registered with their extent
    Changing,      \* the Layers whose sources change ...
    MaxRevision,   \* ... and how often
    Annotations,   \* what the model may annotate a snapshot with
    Sessions,      \* executed Question Sessions
    Accepted,      \* those whose answer was accepted
    Documents,     \* how many documents an example has
    Days,          \* the days on which a Layer may be opened
    Renderings,    \* what Earth Engine may answer for one descriptor
    None           \* no annotation, no session, no version

ASSUME PublicationAssumption ==
    /\ Support \notin Divisions \cup Objects \cup Rasters \cup Collections
    /\ Divisions \cap (Objects \cup Rasters \cup Collections) = {}
    /\ Objects \cap Rasters = {} /\ Collections \cap (Objects \cup Rasters) = {}
    /\ MaxRevision \in Nat /\ None \notin Nat
    /\ Documents \in Nat \ {0}
    /\ Accepted \subseteq Sessions
    /\ None \notin Processes \cup Annotations \cup Sessions \cup Renderings
    /\ NoData \notin Renderings \cup Processes

VARIABLES
    datasets,   \* stored dataset objects: Layer and revision
    versions,   \* stored Catalog versions, keyed by their content
    pointer,    \* the object catalogs/current.json
    examples,   \* the objects of every worked example
    index,      \* the object showcase/index.json
    views,      \* the object of the cached view of every recipe
    records,    \* the record object of every session
    deadlines,  \* the objects that were given a deadline
    proc        \* what every process does and has read

vars == <<datasets, versions, pointer, examples, index, views,
          records, deadlines, proc>>

Gated == {Support} \cup Objects \cup Rasters \cup Collections

Layers == Gated \cup Divisions

Revisions == 0 .. MaxRevision

RevisionsOf(l) == IF l \in Changing THEN Revisions ELSE {0}

\* The bytes of a Layer depend on its source and, but for the coarser
\* tessellations, on the neighborhoods.
Contents == [revision : Revisions, support : Revisions \cup {None}]

\* A snapshot is of one run, whose time its Layers carry.
Versions == [run : Processes \cup {None}, layers : [Layers -> Contents],
             annotation : Annotations \cup {None}]

ASSUME VersionsAssumption == {None, NoData} \cap Versions = {} /\ None \notin Contents

\* A collection is shown over the months that end on the day it is opened: the
\* recipe of its view changes with the Catalog and with the day.
LiveViews == [layer : Collections, content : Contents, day : Days]

\* What views are cached of: the results of a session, and live collections.
Recipes == Sessions \cup LiveViews

ASSUME RecipesAssumption == None \notin LiveViews

Kinds == {"ingest", "enrich", "publish", "render", "record", "visit", "layer"}

Places == {"idle", "prepare", "pointer", "store", "swap", "current", "open",
           "generate", "session", "view", "render", "expire", "document",
           "replace", "list", "index", "append", "put", "example", "look",
           "done", "failed"}

\* about: the session, or the recipe, that the process is about.
Idle == [op |-> "none", at |-> "idle", about |-> None,
         layers |-> [l \in Layers |-> None], base |-> None, version |-> None,
         etag |-> 0, view |-> None, n |-> 1, ids |-> <<>>]

\* The directory is empty, or holds the Catalog of an earlier run.
First == [run |-> None, annotation |-> None,
          layers |-> [l \in Layers |->
              [revision |-> 0, support |-> IF l \in Gated THEN 0 ELSE None]]]

Init ==
    /\ \E first \in {{}, {First}} :
        /\ versions = first
        /\ datasets = {<<l, v.layers[l]>> : l \in Layers, v \in first}
        /\ pointer = IF first = {} THEN Absent
                     ELSE [data |-> First, etag |-> 1]
    /\ examples = [s \in Sessions |-> [n \in 1 .. Documents |-> Absent]]
    /\ index = Absent
    /\ views = [c \in Recipes |-> Absent]
    /\ records = [s \in Sessions |-> Absent]
    /\ deadlines = {}
    /\ proc = [p \in Processes |-> Idle]

catalogVars == <<datasets, versions, pointer>>
showcaseVars == <<examples, index>>
cacheVars == <<views, records, deadlines>>

\* Whoever ends forgets what it was about to write.
Moved(q, place) ==
    IF place \in {"done", "failed"}
    THEN [q EXCEPT !.at = place, !.layers = Idle.layers, !.version = None,
                   !.etag = 0, !.n = 1, !.ids = <<>>]
    ELSE [q EXCEPT !.at = place]

GoTo(p, place) == proc' = [proc EXCEPT ![p] = Moved(@, place)]

Begin(p, op, place, s) ==
    /\ proc[p].at = "idle"
    /\ proc' = [proc EXCEPT ![p].op = op, ![p].at = place, ![p].about = s]
    /\ UNCHANGED <<catalogVars, showcaseVars, cacheVars>>

-----------------------------------------------------------------------------
(* The Catalog                                                              *)

\* Every Layer is stored before the Catalog mentions it.
Prepare(p, l, content) ==
    /\ datasets' = datasets \cup {<<l, content>>}
    /\ proc' = [proc EXCEPT ![p].layers[l] = content]
    /\ UNCHANGED <<versions, pointer, showcaseVars, cacheVars>>

\* The Layers of one kind are fetched before those of the next.
Prepared(p, layers) == \A l \in layers : proc[p].layers[l] # None

MayPrepare(p, l, earlier) ==
    /\ proc[p].at = "prepare"
    /\ proc[p].layers[l] = None
    /\ Prepared(p, earlier)

\* Mutant: the Layers are gated against the neighborhoods of the Catalog.
GateOfCatalog(p) ==
    IF Stored(pointer) THEN pointer.data.layers[Support].revision
    ELSE proc[p].layers[Support].support

\* The neighborhoods are read once; their bytes are kept for the others.
Gate(p) == proc[p].layers[Support].support

\* A source serves the revision r that it has by now.
PrepareSupport(p, r) ==
    /\ MayPrepare(p, Support, {})
    /\ Prepare(p, Support, [revision |-> r, support |-> r])

PrepareDivision(p, l, r) ==
    /\ MayPrepare(p, l, {Support})
    /\ Prepare(p, l, [revision |-> r, support |-> None])

PrepareObjects(p, l, r) ==
    /\ MayPrepare(p, l, {Support} \cup Divisions)
    /\ Prepare(p, l, [revision |-> r, support |-> Gate(p)])

PrepareRaster(p, l, r) ==
    /\ MayPrepare(p, l, {Support} \cup Divisions \cup Objects)
    /\ Prepare(p, l, [revision |-> r, support |-> Gate(p)])

\* Nothing is downloaded of a collection.
PrepareCollection(p, l) ==
    /\ MayPrepare(p, l, Layers \ Collections)
    /\ Prepare(p, l, [revision |-> 0, support |-> Gate(p)])

Assemble(p) ==
    /\ proc[p].at = "prepare"
    /\ Prepared(p, Layers)
    /\ proc' = [proc EXCEPT ![p].at = "pointer",
                    ![p].version = [run |-> p, layers |-> proc[p].layers,
                                    annotation |-> None]]
    /\ UNCHANGED <<catalogVars, showcaseVars, cacheVars>>

\* CatalogReader.current reads the pointer, then the version it names.
ReadCurrent(p) ==
    /\ proc[p].at = "current"
    /\ proc' = IF Stored(pointer)
               THEN [proc EXCEPT ![p].at = "open", ![p].base = pointer.data]
               ELSE [proc EXCEPT ![p] = Moved(@, "failed")]
    /\ UNCHANGED <<catalogVars, showcaseVars, cacheVars>>

AfterOpen == [enrich |-> "generate", publish |-> "view", layer |-> "look"]

OpenVersion(p) ==
    /\ proc[p].at = "open"
    /\ GoTo(p, IF proc[p].base \in versions THEN AfterOpen[proc[p].op]
               ELSE "failed")
    /\ UNCHANGED <<catalogVars, showcaseVars, cacheVars>>

\* The model answers after any time; an answer about unknown Layers fails.
Generate(p, a) ==
    /\ proc[p].at = "generate"
    /\ proc' = [proc EXCEPT ![p].at = "pointer",
                    ![p].version = [proc[p].base EXCEPT !.annotation = a]]
    /\ UNCHANGED <<catalogVars, showcaseVars, cacheVars>>

\* An ingestion has no base version and replaces whatever is current.
BaseIsCurrent(p) ==
    proc[p].base # None => pointer.data = proc[p].base

ReadPointer(p) ==
    /\ proc[p].at = "pointer"
    /\ proc' = IF BaseIsCurrent(p)
               THEN [proc EXCEPT ![p].at = "store", ![p].etag = pointer.etag]
               ELSE [proc EXCEPT ![p] = Moved(@, "failed")]
    /\ UNCHANGED <<catalogVars, showcaseVars, cacheVars>>

\* Mutant: the pointer moves before the version is stored.
StoreVersionLater(p) ==
    /\ proc[p].at = "store"
    /\ GoTo(p, "swap")
    /\ UNCHANGED <<catalogVars, showcaseVars, cacheVars>>

StoreVersion(p) ==
    /\ proc[p].at = "store"
    /\ versions' = versions \cup {proc[p].version}
    /\ GoTo(p, "swap")
    /\ UNCHANGED <<datasets, pointer, showcaseVars, cacheVars>>

SwapPointer(p) ==
    /\ proc[p].at = "swap"
    /\ IF SwapAccepted(pointer, proc[p].etag)
       THEN pointer' = Swap(pointer, proc[p].version) /\ GoTo(p, "done")
       ELSE GoTo(p, "failed") /\ UNCHANGED pointer
    /\ UNCHANGED <<datasets, versions, showcaseVars, cacheVars>>

-----------------------------------------------------------------------------
(* Worked examples                                                          *)

ReadSession(p) ==
    /\ proc[p].at = "session"
    /\ GoTo(p, IF proc[p].about \in Accepted THEN "current" ELSE "failed")
    /\ UNCHANGED <<catalogVars, showcaseVars, cacheVars>>

\* Every document shows the Catalog that the listing was built from.
ReadDocument(p) ==
    /\ proc[p].at = "document"
    /\ proc' = [proc EXCEPT ![p].at = "replace",
                    ![p].etag = examples[proc[p].about][proc[p].n].etag]
    /\ UNCHANGED <<catalogVars, showcaseVars, cacheVars>>

\* Mutant: the example is listed before its last document is there.
ReplaceDocumentButLast(p) ==
    LET s == proc[p].about
        n == proc[p].n IN
    /\ proc[p].at = "replace"
    /\ SwapAccepted(examples[s][n], proc[p].etag)
    /\ examples' = [examples EXCEPT ![s][n] = Swap(@, proc[p].base)]
    /\ proc' = IF n + 1 < Documents
               THEN [proc EXCEPT ![p].at = "document", ![p].n = n + 1]
               ELSE [proc EXCEPT ![p].at = "list"]
    /\ UNCHANGED <<catalogVars, index, cacheVars>>

ReplaceDocument(p) ==
    LET s == proc[p].about
        n == proc[p].n IN
    /\ proc[p].at = "replace"
    /\ IF SwapAccepted(examples[s][n], proc[p].etag)
       THEN /\ examples' = [examples EXCEPT ![s][n] = Swap(@, proc[p].base)]
            /\ proc' = IF n < Documents
                       THEN [proc EXCEPT ![p].at = "document", ![p].n = n + 1]
                       ELSE [proc EXCEPT ![p].at = "list"]
       ELSE UNCHANGED examples /\ GoTo(p, "failed")
    /\ UNCHANGED <<catalogVars, index, cacheVars>>

Listed == IF Stored(index) THEN index.data ELSE <<>>

Lists(ids, s) == \E i \in DOMAIN ids : ids[i] = s

\* The publisher ends if the example is listed; the visitor opens it then.
ReadIndex(p) ==
    /\ proc[p].at = "list"
    /\ CASE Lists(Listed, proc[p].about) ->
              GoTo(p, IF proc[p].op = "publish" THEN "done" ELSE "example")
         [] proc[p].op = "publish" /\ ~Lists(Listed, proc[p].about) ->
              proc' = [proc EXCEPT ![p].at = "index", ![p].ids = Listed]
         [] OTHER -> GoTo(p, "failed")
    /\ UNCHANGED <<catalogVars, showcaseVars, cacheVars>>

\* _replace reads the index again, for its token only.
ReadIndexToken(p) ==
    /\ proc[p].at = "index"
    /\ proc' = [proc EXCEPT ![p].at = "append", ![p].etag = index.etag]
    /\ UNCHANGED <<catalogVars, showcaseVars, cacheVars>>

AppendToIndex(p) ==
    /\ proc[p].at = "append"
    /\ IF SwapAccepted(index, proc[p].etag)
       THEN /\ index' = Swap(index, Append(proc[p].ids, proc[p].about))
            /\ GoTo(p, "done")
       ELSE UNCHANGED index /\ GoTo(p, "failed")
    /\ UNCHANGED <<catalogVars, examples, cacheVars>>

\* A visitor is served the stored documents, and nothing is computed for that.
OpenExample(p) ==
    /\ proc[p].at = "example"
    /\ GoTo(p, IF \A n \in 1 .. Documents : Stored(examples[proc[p].about][n])
               THEN "done" ELSE "failed")
    /\ UNCHANGED <<catalogVars, showcaseVars, cacheVars>>

\* The view of a Layer, the bound Layers of an example among them, is that of
\* the current Catalog: a raster as it is stored ...
ShowRaster(p, l) ==
    /\ proc[p].at = "look"
    /\ GoTo(p, IF <<l, proc[p].base.layers[l]>> \in datasets
               THEN "done" ELSE "failed")
    /\ UNCHANGED <<catalogVars, showcaseVars, cacheVars>>

\* ... and a collection as it is cached for the day, or rendered.
ShowCollection(p, l, day) ==
    LET content == proc[p].base.layers[l] IN
    /\ proc[p].at = "look"
    /\ proc' = IF <<l, content>> \in datasets
               THEN [proc EXCEPT ![p].at = "view", ![p].about =
                         [layer |-> l, content |-> content, day |-> day]]
               ELSE [proc EXCEPT ![p] = Moved(@, "failed")]
    /\ UNCHANGED <<catalogVars, showcaseVars, cacheVars>>

-----------------------------------------------------------------------------
(* Cached views and records with a deadline                                 *)

AfterView == [render |-> "done", layer |-> "done", publish |-> "document"]

ReadView(p) ==
    LET view == views[proc[p].about] IN
    /\ proc[p].at = "view"
    /\ proc' = IF Stored(view)
               THEN [proc EXCEPT ![p] =
                         Moved([@ EXCEPT !.view = view.data], AfterView[@.op])]
               ELSE [proc EXCEPT ![p].at = "render"]
    /\ UNCHANGED <<catalogVars, showcaseVars, cacheVars>>

\* Earth Engine need not answer the same twice.
RenderView(p, r) ==
    LET s == proc[p].about IN
    /\ proc[p].at = "render"
    /\ IF PutAccepted(views[s], r)
       THEN /\ views' = [views EXCEPT ![s] = Put(@, r)]
            /\ proc' = [proc EXCEPT ![p].at = "expire", ![p].view = r]
       ELSE UNCHANGED views /\ GoTo(p, "failed")
    /\ UNCHANGED <<catalogVars, showcaseVars, records, deadlines>>

\* A record carries the time of its request: no two are the same.
PutRecord(p) ==
    LET s == proc[p].about IN
    /\ proc[p].at = "put"
    /\ IF PutAccepted(records[s], p)
       THEN /\ records' = [records EXCEPT ![s] = Put(@, p)]
            /\ GoTo(p, "expire")
       ELSE UNCHANGED records /\ GoTo(p, "failed")
    /\ UNCHANGED <<catalogVars, showcaseVars, views, deadlines>>

\* Mutant: the deadline of a record is set on the view of its session.
KeptView(p) == "view"

Kept(p) == IF proc[p].op = "record" THEN "record" ELSE "view"

SetExpiry(p) ==
    /\ proc[p].at = "expire"
    /\ deadlines' = deadlines \cup {<<Kept(p), proc[p].about>>}
    /\ GoTo(p, IF proc[p].op = "publish" THEN "document" ELSE "done")
    /\ UNCHANGED <<catalogVars, showcaseVars, views, records>>

-----------------------------------------------------------------------------
Start(p) ==
    \/ Begin(p, "ingest", "prepare", None)
    \/ Begin(p, "enrich", "current", None)
    \/ Begin(p, "layer", "current", None)
    \/ \E s \in Sessions :
        \/ Begin(p, "publish", "session", s)
        \/ Begin(p, "render", "view", s)
        \/ Begin(p, "record", "put", s)
        \/ Begin(p, "visit", "list", s)

\* A storage call, a source or a model fails, or the process is killed.
Fail(p) ==
    /\ proc[p].at \notin {"idle", "done", "failed"}
    /\ GoTo(p, "failed")
    /\ UNCHANGED <<catalogVars, showcaseVars, cacheVars>>

CatalogStep(p) ==
    \/ \E r \in RevisionsOf(Support) : PrepareSupport(p, r)
    \/ \E l \in Divisions : \E r \in RevisionsOf(l) : PrepareDivision(p, l, r)
    \/ \E l \in Objects : \E r \in RevisionsOf(l) : PrepareObjects(p, l, r)
    \/ \E l \in Rasters : \E r \in RevisionsOf(l) : PrepareRaster(p, l, r)
    \/ \E l \in Collections : PrepareCollection(p, l)
    \/ Assemble(p)
    \/ ReadCurrent(p)
    \/ OpenVersion(p)
    \/ \E a \in Annotations : Generate(p, a)
    \/ ReadPointer(p)
    \/ StoreVersion(p)
    \/ SwapPointer(p)

ShowcaseStep(p) ==
    \/ ReadSession(p)
    \/ ReadDocument(p)
    \/ ReplaceDocument(p)
    \/ ReadIndex(p)
    \/ ReadIndexToken(p)
    \/ AppendToIndex(p)
    \/ OpenExample(p)
    \/ \E l \in Rasters : ShowRaster(p, l)
    \/ \E l \in Collections, day \in Days : ShowCollection(p, l, day)

ExpiringStep(p) ==
    \/ ReadView(p)
    \/ \E r \in Renderings : RenderView(p, r)
    \/ PutRecord(p)
    \/ SetExpiry(p)

Next ==
    \E p \in Processes :
        \/ Start(p)
        \/ CatalogStep(p)
        \/ ShowcaseStep(p)
        \/ ExpiringStep(p)
        \/ Fail(p)

Spec == Init /\ [][Next]_vars

-----------------------------------------------------------------------------
(* Properties                                                               *)

ProcessStates ==
    [op : Kinds \cup {"none"}, at : Places, about : Recipes \cup {None},
     layers : [Layers -> Contents \cup {None}],
     base : Versions \cup {None}, version : Versions \cup {None},
     etag : Nat, view : Renderings \cup {None}, n : 1 .. Documents, ids : Seq(Sessions)]

\* Every object holds data of its kind and every process keeps its notes.
TypeOK ==
    /\ datasets \subseteq Layers \X Contents
    /\ versions \subseteq Versions
    /\ pointer \in ObjectsOf(Versions)
    /\ examples \in [Sessions -> [1 .. Documents -> ObjectsOf(Versions)]]
    /\ index \in ObjectsOf(Seq(Sessions))
    /\ views \in [Recipes -> ObjectsOf(Renderings)]
    /\ records \in [Sessions -> ObjectsOf(Processes)]
    /\ deadlines \subseteq ({"view"} \X Recipes) \cup ({"record"} \X Sessions)
    /\ proc \in [Processes -> ProcessStates]

Complete(v) == \A l \in Layers : <<l, v.layers[l]>> \in datasets

\* Whatever fails or is killed, a stored version mentions only stored data,
\* and the pointer names a stored version: CatalogReader.current and the
\* asserts of build_catalog_raster_view never meet a hole.
CatalogIsComplete ==
    /\ \A v \in versions : Complete(v)
    /\ Stored(pointer) => pointer.data \in versions

\* A snapshot, annotated or not, shows one city: its objects were gated, and
\* its rasters and collections cut, by the neighborhoods it contains, whatever
\* the sources and other ingestions did meanwhile.
SnapshotsShareOneSupport ==
    \A v \in versions : \A l \in Gated :
        v.layers[l].support = v.layers[Support].revision

\* An example that the index lists has all its documents, whichever of them
\* concurrent publishers replaced, and is listed once, so that list_showcase
\* finds them; and so does a visitor who read the index before a concurrent
\* publisher, which had read an older one, took the example off it again.
ListedExamplesAreComplete ==
    /\ \A i \in DOMAIN Listed : \A n \in 1 .. Documents :
           Stored(examples[Listed[i]][n])
    /\ \A i, j \in DOMAIN Listed : Listed[i] = Listed[j] => i = j
    /\ \A p \in Processes : proc[p].at = "example" =>
           \A n \in 1 .. Documents : Stored(examples[proc[p].about][n])

\* Requests that render one recipe at the same time, the results of a session
\* or a collection on one day, are all answered with the view that is stored,
\* and so is whoever publishes it, although Earth Engine may answer each of
\* them differently.
ViewsAgree ==
    \A p \in Processes :
        proc[p].view # None => views[proc[p].about].data = proc[p].view

\* An object that should expire lacks its deadline only because of a process
\* that is about to set it, or was stopped between storing it and that.
DeadlinesAreOwed ==
    /\ \A c \in Recipes :
           Stored(views[c]) /\ <<"view", c>> \notin deadlines =>
               \E p \in Processes :
                   /\ proc[p].about = c /\ proc[p].op # "record"
                   /\ proc[p].view # None /\ proc[p].at \in {"expire", "failed"}
    /\ \A s \in Sessions :
           Stored(records[s]) /\ <<"record", s>> \notin deadlines =>
               \E p \in Processes :
                   /\ proc[p].about = s /\ proc[p].op = "record"
                   /\ records[s].data = p /\ proc[p].at \in {"expire", "failed"}

\* What CatalogReader.current returns.
Readable == IF Stored(pointer) /\ pointer.data \in versions
            THEN pointer.data ELSE None

Register == INSTANCE CatalogRegister WITH catalog <- Readable

\* Readers see a register that changes as a whole: an ingestion puts a fresh
\* snapshot there, and an enrichment only ever annotates the snapshot that it
\* replaces, however long the model took to answer.
ImplementsRegister == Register!Spec
=============================================================================
