---------------------------- MODULE Acquisition ----------------------------
(* The acquisition of one vector Layer: its metadata is read and checked,   *)
(* the features are fetched page by page from a service whose data may      *)
(* change meanwhile, and every record that arrived is stored in the         *)
(* GeoParquet file or left out with a diagnostic.                           *)
EXTENDS Naturals, Sequences, FiniteSets

CONSTANTS
    Features,      \* what the source may hold
    Identities,    \* source identities
    Crses,         \* the coordinate systems it may be served in
    DeclaredCrs,   \* the one the Dataset's metadata declares
    PageSize,      \* how many features the service returns at most
    MaxPages,      \* after how many pages the client gives up (1000)
    MaxChanges,    \* how often the source changes
    Outcomes,      \* the ways in which the features may turn out
    None

ASSUME AcquisitionAssumption ==
    /\ {PageSize, MaxPages} \subseteq Nat \ {0} /\ MaxChanges \in Nat
    /\ DeclaredCrs \in Crses
    /\ None \notin Identities \cup Crses \cup Nat

VARIABLES
    kind,        \* a tessellation that others are gated against, or objects
    service,     \* how the service pages: well, or not
    counts,      \* whether it reports numberMatched
    source,      \* the features it holds now, in the order of its pages
    crs,         \* the coordinate system it serves them in now
    changes,     \* its changes since the first page
    first,       \* its features at the first page
    at,          \* where the client is
    start,       \* startIndex of the next request
    pages,       \* pages fetched
    matched,     \* the first numberMatched
    originalCrs, \* the coordinate system of the first page
    collected,   \* the features fetched, with their coordinate system
    records,     \* what the features turn out to be
    dataset      \* what is stored: positions of the rows and the diagnostics

serviceVars == <<source, crs, changes>>
clientVars == <<at, start, pages, matched, originalCrs, collected>>
vars == <<kind, service, counts, serviceVars, first, clientVars, records, dataset>>

-----------------------------------------------------------------------------
(* The source                                                               *)

\* A service may page properly, ignore startIndex, advertise a next page
\* after the last, or advertise none at all.
Services == {"proper", "repeating", "endless", "short"}

Smaller(a, b) == IF a < b THEN a ELSE b

From == IF service = "repeating" THEN 0 ELSE start

Page == SubSeq(source, From + 1, Smaller(From + PageSize, Len(source)))

HasNext ==
    \/ service = "endless"
    \/ service # "short" /\ From + Len(Page) < Len(source)

Matched == IF counts THEN Len(source) ELSE None

Holds(f) == \E i \in 1 .. Len(source) : source[i] = f

Changes ==
    /\ at = "fetch" /\ pages > 0 /\ changes < MaxChanges
    /\ changes' = changes + 1
    /\ UNCHANGED <<kind, service, counts, first, clientVars, records, dataset>>

Insert(f, i) ==
    /\ ~Holds(f)
    /\ source' = SubSeq(source, 1, i) \o <<f>> \o SubSeq(source, i + 1, Len(source))
    /\ UNCHANGED crs
    /\ Changes

Remove(i) ==
    /\ source' = SubSeq(source, 1, i - 1) \o SubSeq(source, i + 1, Len(source))
    /\ UNCHANGED crs
    /\ Changes

Reproject(c) ==
    /\ c # crs
    /\ crs' = c
    /\ UNCHANGED source
    /\ Changes

-----------------------------------------------------------------------------
(* Metadata                                                                 *)

\* What an auth entry of the official schemas may say; "none" is no text.
Access == {"public", "restricted", "none"}

EffectiveAccess(datasetAccess, featureAccess) ==
    IF featureAccess = "none" THEN datasetAccess ELSE featureAccess

PubliclyAccessible(datasetAccess, featureAccess) ==
    /\ datasetAccess = "public"
    /\ EffectiveAccess(datasetAccess, featureAccess) = "public"

\* The schemas must be the pinned ones, and stable, before data is asked for.
ReadMetadata(datasetAccess, featureAccess, pinned) ==
    /\ at = "metadata"
    /\ at' = IF pinned /\ PubliclyAccessible(datasetAccess, featureAccess)
             THEN "fetch" ELSE "failed"
    /\ UNCHANGED <<kind, service, counts, serviceVars, first, start, pages,
                   matched, originalCrs, collected, records, dataset>>

-----------------------------------------------------------------------------
(* Pages                                                                    *)

\* Mutant: the coordinate system of a later page is not looked at.
ConsistentCount == matched = None \/ Matched \in {None, matched}

\* A page must agree with the ones before it.
Consistent ==
    /\ originalCrs \in {None, crs}
    /\ matched = None \/ Matched \in {None, matched}

\* The client goes on while a next page is advertised, an empty one and the
\* last it may ask for excepted.
AfterPage ==
    CASE ~HasNext -> "check"
      [] HasNext /\ Page # <<>> /\ pages + 1 < MaxPages -> "fetch"
      [] OTHER -> "failed"

\* Mutant: an empty page is asked for again.
FetchPageAgain ==
    /\ at = "fetch"
    /\ IF Page = <<>> /\ HasNext
       THEN UNCHANGED <<first, start, pages, matched, originalCrs, collected, at>>
       ELSE /\ first' = IF pages = 0 THEN source ELSE first
            /\ pages' = pages + 1
            /\ originalCrs' = crs
            /\ matched' = IF matched = None THEN Matched ELSE matched
            /\ collected' = collected \o
                   [i \in 1 .. Len(Page) |-> [feature |-> Page[i], crs |-> crs]]
            /\ start' = start + Len(Page)
            /\ at' = IF Consistent THEN AfterPage ELSE "failed"
    /\ UNCHANGED <<kind, service, counts, serviceVars, records, dataset>>

\* Mutant: pages are asked for by their number.
FetchPageByNumber ==
    /\ at = "fetch"
    /\ first' = IF pages = 0 THEN source ELSE first
    /\ pages' = pages + 1
    /\ originalCrs' = IF originalCrs = None THEN crs ELSE originalCrs
    /\ matched' = IF matched = None THEN Matched ELSE matched
    /\ collected' = collected \o
           [i \in 1 .. Len(Page) |-> [feature |-> Page[i], crs |-> crs]]
    /\ start' = start + 1
    /\ at' = IF Consistent THEN AfterPage ELSE "failed"
    /\ UNCHANGED <<kind, service, counts, serviceVars, records, dataset>>

FetchPage ==
    /\ at = "fetch"
    /\ first' = IF pages = 0 THEN source ELSE first
    /\ pages' = pages + 1
    /\ originalCrs' = IF originalCrs = None THEN crs ELSE originalCrs
    /\ matched' = IF matched = None THEN Matched ELSE matched
    /\ collected' = collected \o
           [i \in 1 .. Len(Page) |-> [feature |-> Page[i], crs |-> crs]]
    /\ start' = start + Len(Page)
    /\ at' = IF Consistent THEN AfterPage ELSE "failed"
    /\ UNCHANGED <<kind, service, counts, serviceVars, records, dataset>>

\* All that was matched has arrived, in the declared coordinate system.
Check ==
    /\ at = "check"
    /\ at' = IF matched \in {None, Len(collected)} /\ originalCrs = DeclaredCrs
             THEN "build" ELSE "failed"
    /\ UNCHANGED <<kind, service, counts, serviceVars, first, start, pages,
                   matched, originalCrs, collected, records, dataset>>

-----------------------------------------------------------------------------
(* Records                                                                  *)

\* The geometry may be missing, no geometry of an accepted type, empty, or
\* proper; its topology may be invalid and its coordinates not finite, or
\* outside the area of their coordinate system; and a proper one lies within
\* a neighborhood, crosses the boundary of all, or lies outside.
Shapes ==
    [form : {"null", "malformed", "empty", "proper"}, valid : BOOLEAN,
     finite : BOOLEAN, inArea : BOOLEAN,
     relation : {"within", "boundary", "outside"}]

\* Tessellations carry a validity, which may be missing.
Records == [shape : Shapes, identity : Identities \cup {None},
            validity : {"active", "inactive", "missing"}]

ASSUME OutcomesAssumption == Outcomes \subseteq [Features -> Records]

Usable(g) == g.form = "proper" /\ g.valid /\ g.finite /\ g.inArea

\* Mutant: what crosses the boundary of the city is left out.
KeptWithin(g) == Usable(g) /\ g.relation = "within"

Kept(g) == Usable(g) /\ g.relation # "outside"

KeptSupport(g) == Usable(g)

ObjectDiagnostics(g) ==
    LET proper == g.form = "proper"
        nowhere == proper /\ (~g.finite \/ (g.valid /\ ~g.inArea)) IN
    [null_geometry |-> g.form = "null",
     invalid_geometry |-> g.form \in {"malformed", "empty"},
     topologically_invalid |-> g.form \in {"empty", "proper"} /\ ~g.valid,
     impossible_coordinate |-> nowhere,
     boundary |-> Usable(g) /\ g.relation = "boundary",
     out_of_support |-> Usable(g) /\ g.relation = "outside",
     excluded |-> ~proper \/ ~g.valid \/ nowhere \/ g.relation = "outside"]

\* Active tessellations without a geometry fail the snapshot.
SupportDiagnostics(g) ==
    LET shaped == g.form \in {"empty", "proper"} IN
    [null_geometry |-> FALSE,
     invalid_geometry |-> g.form # "proper",
     topologically_invalid |-> shaped /\ ~g.valid,
     impossible_coordinate |-> shaped /\ ~(g.finite /\ g.inArea),
     boundary |-> FALSE,
     out_of_support |-> FALSE,
     excluded |-> ~Usable(g)]

Reasons == {"null_geometry", "invalid_geometry", "topologically_invalid",
            "impossible_coordinate", "boundary", "out_of_support"}

Categories == Reasons \cup {"excluded", "duplicate"}

Positions == 1 .. Len(collected)

\* Mutant: only the second of two records is reported.
LaterDuplicates(is) ==
    {i \in Positions : \E j \in Positions :
        j < i /\ is[i].identity = is[j].identity /\ is[i].identity # None}

Duplicates(is) ==
    {i \in Positions : \E j \in Positions :
        j # i /\ is[i].identity = is[j].identity /\ is[i].identity # None}

\* Only the tessellations that are valid at the time are looked at.
Candidates(is) ==
    {i \in Positions : kind = "object" \/ is[i].validity = "active"}

Rows(is) == {i \in Candidates(is) : IF kind = "object" THEN Kept(is[i].shape)
                                    ELSE KeptSupport(is[i].shape)}

Diagnosed(is, c) ==
    {i \in Candidates(is) :
        IF kind = "object" THEN ObjectDiagnostics(is[i].shape)[c]
                           ELSE SupportDiagnostics(is[i].shape)[c]}

\* Tessellations whose validity, identity or geometry cannot be established
\* fail the whole snapshot, as do objects without a tessellation.
Refused(is, gate) ==
    IF kind = "object"
    THEN Positions = {} \/ ~gate
    ELSE \/ \E i \in Positions : is[i].validity = "missing"
         \/ \E i \in Candidates(is) :
                is[i].identity = None \/ is[i].shape.form = "null"
         \/ Rows(is) = {}

\* What the features are is looked at only now.
Build(of, gate) ==
    LET is == [i \in Positions |-> of[collected[i].feature]] IN
    /\ at = "build"
    /\ records' = of
    /\ IF Refused(is, gate)
       THEN at' = "failed" /\ UNCHANGED dataset
       ELSE /\ at' = "stored"
            /\ dataset' = [rows |-> Rows(is), diagnosed |->
                   [c \in Categories |->
                       IF c # "duplicate" THEN Diagnosed(is, c)
                       ELSE IF kind = "object" THEN Duplicates(is) ELSE {}]]
    /\ UNCHANGED <<kind, service, counts, serviceVars, first, start, pages,
                   matched, originalCrs, collected>>

-----------------------------------------------------------------------------
Init ==
    /\ kind \in {"support", "object"}
    /\ service \in Services
    /\ counts \in BOOLEAN
    /\ source \in UNION {[1 .. n -> Features] : n \in 0 .. Cardinality(Features)}
    /\ \A i, j \in DOMAIN source : source[i] = source[j] => i = j
    /\ crs \in Crses
    /\ changes = 0
    /\ first = <<>>
    /\ at = "metadata"
    /\ start = 0
    /\ pages = 0
    /\ matched = None
    /\ originalCrs = None
    /\ collected = <<>>
    /\ records = <<>>
    /\ dataset = None

\* A request or the storage call fails, or the job is killed.
Fail ==
    /\ at \notin {"stored", "failed"}
    /\ at' = "failed"
    /\ UNCHANGED <<kind, service, counts, serviceVars, first, start, pages,
                   matched, originalCrs, collected, records, dataset>>

SourceChanges ==
    \/ \E f \in Features, i \in 0 .. Len(source) : Insert(f, i)
    \/ \E i \in 1 .. Len(source) : Remove(i)
    \/ \E c \in Crses : Reproject(c)

Step ==
    \/ \E d, f \in Access, pinned \in BOOLEAN : ReadMetadata(d, f, pinned)
    \/ FetchPage
    \/ Check
    \/ \E of \in Outcomes, gate \in BOOLEAN : Build(of, gate)

Next == SourceChanges \/ Step \/ Fail

\* The client goes on, whatever the source does.
Spec == Init /\ [][Next]_vars /\ WF_vars(Step)

-----------------------------------------------------------------------------
(* Properties                                                               *)

FetchedFeatures == [feature : Features, crs : Crses]

\* The client's notes are of their kind, and it never asks for more pages
\* than it may.
TypeOK ==
    /\ kind \in {"support", "object"} /\ service \in Services
    /\ counts \in BOOLEAN
    /\ source \in Seq(Features) /\ first \in Seq(Features)
    /\ crs \in Crses /\ changes \in 0 .. MaxChanges
    /\ at \in {"metadata", "fetch", "check", "build", "stored", "failed"}
    /\ start \in Nat /\ pages \in 0 .. MaxPages
    /\ matched \in Nat \cup {None} /\ originalCrs \in Crses \cup {None}
    /\ collected \in Seq(FetchedFeatures)
    /\ records = <<>> \/ records \in Outcomes
    /\ dataset = None \/ dataset \in
           [rows : SUBSET Positions, diagnosed : [Categories -> SUBSET Positions]]

Fetched == [i \in Positions |-> collected[i].feature]

\* What is stored is exactly what was there when the client began, in order,
\* from a service that pages properly while the source did not change, and,
\* if it changed once, from any that reports its count: one that repeats its
\* pages or ends too early does not get past the client.  A longer history of
\* changes can keep the count; a feature is then lost or fetched twice.
AcquiresWhatWasThere ==
    /\ at = "stored"
    /\ (changes = 0 /\ service = "proper") \/ (changes <= 1 /\ matched # None)
    => Fetched = first

\* All features of a stored Layer came in the coordinate system that its
\* metadata declares and that they are reprojected from, although every page
\* may come in another.
AcquiredInOneCrs ==
    at = "stored" => \A i \in Positions : collected[i].crs = DeclaredCrs

\* geoparquet.py: "Every excluded source record remains auditable": each
\* record that arrived, and of a tessellation each that is valid, is a row or
\* is reported as excluded, never both, and what is excluded has a reason of
\* its own.
RecordsAreAccounted ==
    at = "stored" =>
        /\ dataset.rows \cap dataset.diagnosed["excluded"] = {}
        /\ \A i \in Positions \ (dataset.rows \cup dataset.diagnosed["excluded"]) :
               kind = "support" /\ records[Fetched[i]].validity = "inactive"
        /\ \A i \in dataset.diagnosed["excluded"] :
               \E c \in Reasons \ {"boundary"} : i \in dataset.diagnosed[c]

\* A feature that paging returned twice, because the source changed or the
\* service repeats itself, is reported at each of its positions, unless it
\* has no source identity.
RepeatsAreReported ==
    at = "stored" /\ kind = "object" =>
        \A i, j \in Positions :
            i # j /\ Fetched[i] = Fetched[j] =>
                \/ {i, j} \subseteq dataset.diagnosed["duplicate"]
                \/ records[Fetched[i]].identity = None

\* Whatever the service advertises and however the source changes, the
\* acquisition of a Layer comes to its end.
AcquisitionEnds == <>(at \in {"stored", "failed"})
=============================================================================
