------------------------- MODULE PublicationProofs -------------------------
(***************************************************************************)
(* Theorems about Publication, for any number of processes, Layers,        *)
(* sessions and documents.                                                 *)
(***************************************************************************)
EXTENDS Publication, SequenceTheorems, TLAPS

-----------------------------------------------------------------------------
(* The inductive invariant. *)

\* Where a process that performs an operation may be.
PlacesOf(op) ==
    CASE op = "none" -> {"idle"}
      [] op = "ingest" -> {"prepare", "pointer", "store", "swap", "done", "failed"}
      [] op = "enrich" -> {"current", "open", "generate", "pointer", "store", "swap",
                           "done", "failed"}
      [] op = "publish" -> {"session", "current", "open", "view", "render", "expire",
                            "document", "replace", "list", "index", "append", "done",
                            "failed"}
      [] op = "render" -> {"view", "render", "expire", "done", "failed"}
      [] op = "record" -> {"put", "expire", "done", "failed"}
      [] op = "visit" -> {"list", "example", "done", "failed"}
      [] op = "layer" -> {"current", "open", "look", "view", "render", "expire", "done",
                          "failed"}

Writing == {"pointer", "store", "swap"}

OneSupport(v) == \A l \in Gated : v.layers[l].support = v.layers[Support].revision

AllStored(v, stored) == \A l \in Layers : <<l, v.layers[l]>> \in stored

\* What a process is about to publish: a fresh snapshot, or an annotated copy.
Derived(version, base) ==
    IF base = None THEN version.annotation = None
    ELSE \E a \in Annotations : version = [base EXCEPT !.annotation = a]

\* Where a process is, given what it does.
Placed(q) ==
    /\ q.at \in PlacesOf(q.op)
    /\ q.op \in {"publish", "render", "record", "visit"} => q.about \in Sessions
    /\ q.op = "layer" /\ q.at \in {"view", "render", "expire"} => q.about \in LiveViews
    /\ q.at = "idle" => q.view = None
    /\ q.op = "layer" /\ q.at \in {"current", "open", "look"} => q.view = None
    /\ q.at \in {"idle", "prepare"} => q.base = None
    /\ q.at \in Writing <=> q.version # None
    /\ q.at \in {"open", "generate", "document", "replace", "look"} => q.base # None
    /\ q.op = "publish" /\ q.at \in {"view", "render", "expire"} => q.base # None
    /\ q.op = "enrich" /\ q.at \in Writing => q.base # None

\* What a process remembers of the store is still true of it.
Noted(q, stored, known, current) ==
    /\ \A l \in Layers :
           q.layers[l] # None =>
               /\ <<l, q.layers[l]>> \in stored
               /\ q.layers[Support] # None
               /\ l \in Gated => q.layers[l].support = q.layers[Support].revision
    /\ q.version # None =>
           /\ AllStored(q.version, stored) /\ OneSupport(q.version)
           /\ Derived(q.version, q.base)
    /\ q.at = "swap" => q.version \in known
    /\ q.base # None => q.base \in known /\ Stored(current)
    /\ q.at \in {"store", "swap"} =>
           /\ q.etag <= current.etag
           /\ q.etag = current.etag /\ q.base # None => current.data = q.base

PublicationInv ==
    /\ TypeOK
    /\ \A v \in versions : AllStored(v, datasets) /\ OneSupport(v)
    /\ Stored(pointer) => pointer.data \in versions
    /\ \A p \in Processes : Placed(proc[p]) /\ Noted(proc[p], datasets, versions, pointer)

-----------------------------------------------------------------------------
(* Processes. *)

LEMMA Ends ==
    ASSUME NEW q \in ProcessStates, Placed(q), q.op # "none",
           NEW stored, NEW known, NEW current, Noted(q, stored, known, current),
           NEW place \in {"done", "failed"}
    PROVE  /\ Moved(q, place) \in ProcessStates
           /\ Placed(Moved(q, place)) /\ Noted(Moved(q, place), stored, known, current)
<1> DEFINE m == Moved(q, place)
<1> DEFINE nothing == [l \in Layers |-> None]
<1>1. m = [q EXCEPT !.at = place, !.layers = nothing, !.version = None,
                    !.etag = 0, !.n = 1, !.ids = <<>>]
  BY DEF Moved, Idle
<1>2. m \in ProcessStates
  <2>1. /\ <<>> \in Seq(Sessions) /\ 1 \in 1 .. Documents /\ place \in Places
        /\ nothing \in [Layers -> Contents \cup {None}]
    BY EmptySeq, PublicationAssumption DEF Places
  <2> DEFINE ids == <<>>
             one == 1
  <2>2. /\ ids \in Seq(Sessions) /\ one \in 1 .. Documents
        /\ m = [q EXCEPT !.at = place, !.layers = nothing, !.version = None,
                         !.etag = 0, !.n = one, !.ids = ids]
    BY <1>1, <2>1
  <2> HIDE DEF ids, one, nothing, m
  <2> QED
    BY <2>1, <2>2 DEF ProcessStates
<1>3. /\ m.op = q.op /\ m.at = place /\ m.about = q.about /\ m.version = None
      /\ m.base = q.base /\ \A l \in Layers : m.layers[l] = None
  BY <1>1 DEF ProcessStates
<1> HIDE DEF m
<1>4. Placed(m)
  BY <1>3 DEF Placed, PlacesOf, Writing, ProcessStates, Kinds
<1>5. Noted(m, stored, known, current)
  BY <1>3 DEF Noted
<1> QED
  BY <1>2, <1>4, <1>5 DEF m

LEMMA Goes ==
    ASSUME NEW q, NEW place, place \notin {"done", "failed"}
    PROVE  Moved(q, place) = [q EXCEPT !.at = place]
BY DEF Moved

LEMMA Writes ==
    ASSUME NEW r \in ProcessStates, NEW v \in Versions
    PROVE  LET q == [r EXCEPT !.at = "pointer", !.version = v] IN
           /\ q \in ProcessStates /\ q.op = r.op /\ q.at = "pointer"
           /\ q.about = r.about /\ q.base = r.base /\ q.version = v
           /\ q.layers = r.layers /\ q.view = r.view
BY DEF ProcessStates, Places

LEMMA Reads ==
    ASSUME NEW r \in ProcessStates, NEW v \in Versions
    PROVE  LET q == [r EXCEPT !.at = "open", !.base = v] IN
           /\ q \in ProcessStates /\ q.op = r.op /\ q.at = "open"
           /\ q.about = r.about /\ q.base = v /\ q.version = r.version
           /\ q.layers = r.layers /\ q.view = r.view
BY DEF ProcessStates, Places

\* A process that is not about to write the Catalog.
LEMMA Remembers ==
    ASSUME NEW r, NEW q, NEW stored, NEW known, NEW current, Noted(r, stored, known, current),
           q.layers = r.layers, q.version = None, q.at \notin Writing,
           q.base # None => q.base \in known /\ Stored(current)
    PROVE  Noted(q, stored, known, current)
BY DEF Noted, Writing

\* The store only grows, and the pointer's token with every replacement.
LEMMA StillNoted ==
    ASSUME NEW q \in ProcessStates, NEW stored, NEW known, NEW current,
           Noted(q, stored, known, current),
           NEW stored2, NEW known2, NEW current2,
           stored \subseteq stored2, known \subseteq known2,
           current.etag \in Nat, current2.etag \in Nat,
           current2 = current \/ (Stored(current2) /\ current.etag < current2.etag)
    PROVE  Noted(q, stored2, known2, current2)
<1>1. q.etag \in Nat
  BY DEF ProcessStates
<1> QED
  BY <1>1 DEF Noted, AllStored

\* A step of one process that leaves the Catalog alone.
LEMMA Quiet ==
    ASSUME PublicationInv, NEW p \in Processes, NEW q \in ProcessStates,
           proc' = [proc EXCEPT ![p] = q], UNCHANGED catalogVars,
           Placed(q), Noted(q, datasets, versions, pointer),
           examples' \in [Sessions -> [1 .. Documents -> ObjectsOf(Versions)]],
           index' \in ObjectsOf(Seq(Sessions)),
           views' \in [Recipes -> ObjectsOf(Renderings)],
           records' \in [Sessions -> ObjectsOf(Processes)],
           deadlines' \subseteq ({"view"} \X Recipes) \cup ({"record"} \X Sessions)
    PROVE  PublicationInv'
<1>1. UNCHANGED <<datasets, versions, pointer>>
  BY DEF catalogVars
<1>2. TypeOK'
  BY <1>1 DEF PublicationInv, TypeOK
<1>3. ASSUME NEW o \in Processes
      PROVE  Placed(proc'[o]) /\ Noted(proc'[o], datasets, versions, pointer)
  BY DEF PublicationInv, TypeOK
<1> QED
  BY <1>1, <1>2, <1>3 DEF PublicationInv

-----------------------------------------------------------------------------
(* The steps of the Catalog's writers and readers. *)

\* What the invariant says of a process and of the objects.
LEMMA Facts ==
    ASSUME PublicationInv, NEW p \in Processes
    PROVE  /\ proc \in [Processes -> ProcessStates]
           /\ proc[p] \in ProcessStates /\ Placed(proc[p])
           /\ Noted(proc[p], datasets, versions, pointer)
           /\ datasets \subseteq Layers \X Contents /\ versions \subseteq Versions
           /\ pointer \in ObjectsOf(Versions)
           /\ pointer.etag \in Nat
           /\ Stored(pointer) => pointer.data \in versions /\ pointer.data \in Versions
           /\ \A s \in Sessions : \A n \in 1 .. Documents :
                  /\ examples[s][n].etag \in Nat
                  /\ Stored(examples[s][n]) => examples[s][n].data \in Versions
           /\ index.etag \in Nat
<1>1. /\ proc \in [Processes -> ProcessStates] /\ proc[p] \in ProcessStates
      /\ Placed(proc[p]) /\ Noted(proc[p], datasets, versions, pointer)
      /\ datasets \subseteq Layers \X Contents /\ versions \subseteq Versions
      /\ pointer \in ObjectsOf(Versions) /\ index \in ObjectsOf(Seq(Sessions))
      /\ Stored(pointer) => pointer.data \in versions
  BY DEF PublicationInv, TypeOK
<1>2. \A D : \A o \in ObjectsOf(D) : o.etag \in Nat /\ (Stored(o) => o.data \in D)
  BY DEF ObjectsOf, Absent, Stored
<1>3. \A s \in Sessions : \A n \in 1 .. Documents : examples[s][n] \in ObjectsOf(Versions)
  BY DEF PublicationInv, TypeOK
<1> QED
  BY <1>1, <1>2, <1>3

LEMMA Others ==
    ASSUME PublicationInv
    PROVE  /\ examples \in [Sessions -> [1 .. Documents -> ObjectsOf(Versions)]]
           /\ index \in ObjectsOf(Seq(Sessions))
           /\ views \in [Recipes -> ObjectsOf(Renderings)]
           /\ records \in [Sessions -> ObjectsOf(Processes)]
           /\ deadlines \subseteq ({"view"} \X Recipes) \cup ({"record"} \X Sessions)
BY DEF PublicationInv, TypeOK

\* A step of one process that adds to the Catalog.
LEMMA Grows ==
    ASSUME PublicationInv, NEW p \in Processes, NEW q \in ProcessStates,
           proc' = [proc EXCEPT ![p] = q], UNCHANGED <<showcaseVars, cacheVars>>,
           Placed(q), Noted(q, datasets', versions', pointer'),
           datasets' \subseteq Layers \X Contents, datasets \subseteq datasets',
           versions' \subseteq Versions, versions \subseteq versions',
           \A v \in versions' \ versions : AllStored(v, datasets') /\ OneSupport(v),
           \/ pointer' = pointer
           \/ /\ pointer' \in [data : Versions, etag : Nat \ {0}]
              /\ pointer'.data \in versions' /\ pointer.etag < pointer'.etag
    PROVE  PublicationInv'
<1>0. proc \in [Processes -> ProcessStates] /\ pointer \in ObjectsOf(Versions)
  BY Facts
<1>1. /\ pointer.etag \in Nat /\ pointer'.etag \in Nat /\ pointer' \in ObjectsOf(Versions)
      /\ Stored(pointer') => pointer'.data \in versions'
      /\ pointer' = pointer \/ (Stored(pointer') /\ pointer.etag < pointer'.etag)
  BY <1>0, Facts DEF ObjectsOf, Absent, Stored
<1>2. ASSUME NEW o \in Processes
      PROVE  Placed(proc'[o]) /\ Noted(proc'[o], datasets', versions', pointer')
  <2>1. CASE o = p
    BY <1>0, <2>1
  <2>2. CASE o # p
    <3>1. /\ proc'[o] = proc[o] /\ proc[o] \in ProcessStates
          /\ Placed(proc[o]) /\ Noted(proc[o], datasets, versions, pointer)
      BY <1>0, <2>2, Facts
    <3>2. Noted(proc[o], datasets', versions', pointer')
      BY <1>1, <3>1, StillNoted
    <3> QED
      BY <3>1, <3>2
  <2> QED
    BY <2>1, <2>2
<1>3. proc' \in [Processes -> ProcessStates]
  BY <1>0
<1>4. TypeOK'
  BY <1>1, <1>3 DEF PublicationInv, TypeOK, showcaseVars, cacheVars
<1>5. \A v \in versions' : AllStored(v, datasets') /\ OneSupport(v)
  BY DEF PublicationInv, AllStored
<1> QED
  BY <1>1, <1>2, <1>4, <1>5 DEF PublicationInv

LEMMA PrepareInv ==
    ASSUME PublicationInv, NEW p \in Processes, NEW l \in Layers, NEW content \in Contents,
           proc[p].at = "prepare", Prepare(p, l, content),
           IF l = Support THEN content.support = content.revision /\ proc[p].layers[l] = None
           ELSE /\ proc[p].layers[Support] # None
                /\ l \in Gated => content.support = Gate(p)
    PROVE  PublicationInv'
<1> DEFINE q == [proc[p] EXCEPT !.layers[l] = content]
<1>0. /\ proc \in [Processes -> ProcessStates] /\ proc[p] \in ProcessStates
      /\ Placed(proc[p]) /\ Noted(proc[p], datasets, versions, pointer)
      /\ datasets \subseteq Layers \X Contents
      /\ Support \in Layers /\ Support \in Gated
  BY Facts DEF Layers, Gated
<1>1. /\ proc' = [proc EXCEPT ![p] = q] /\ datasets' = datasets \cup {<<l, content>>}
      /\ UNCHANGED <<versions, pointer, showcaseVars, cacheVars>>
  BY <1>0 DEF Prepare, ProcessStates
<1>2. /\ q \in ProcessStates /\ q.op = proc[p].op /\ q.at = proc[p].at
      /\ q.about = proc[p].about /\ q.base = proc[p].base /\ q.version = proc[p].version
      /\ q.etag = proc[p].etag /\ q.view = proc[p].view
      /\ q.layers = [proc[p].layers EXCEPT ![l] = content]
  BY <1>0 DEF ProcessStates
<1> HIDE DEF q
<1>3. Placed(q)
  BY <1>0, <1>2 DEF Placed
<1>4. proc[p].layers \in [Layers -> Contents \cup {None}]
  BY <1>0 DEF ProcessStates
<1>5. proc[p].layers[Support] # None =>
          proc[p].layers[Support].support = proc[p].layers[Support].revision
  BY <1>0 DEF Noted
<1>6. ASSUME NEW k \in Layers, q.layers[k] # None
      PROVE  /\ <<k, q.layers[k]>> \in datasets' /\ q.layers[Support] # None
             /\ k \in Gated => q.layers[k].support = q.layers[Support].revision
  <2>1. CASE l = Support /\ k = l
    BY <1>0, <1>1, <1>2, <1>4, <2>1, VersionsAssumption
  <2>2. CASE l = Support /\ k # l
    BY <1>0, <1>2, <1>4, <1>6, <2>2 DEF Noted
  <2>3. CASE l # Support /\ k = l
    BY <1>0, <1>1, <1>2, <1>4, <1>5, <2>3 DEF Gate
  <2>4. CASE l # Support /\ k # l
    BY <1>0, <1>1, <1>2, <1>4, <1>6, <2>4 DEF Noted
  <2> QED
    BY <2>1, <2>2, <2>3, <2>4
<1>7. Noted(q, datasets', versions', pointer')
  BY <1>0, <1>1, <1>2, <1>6 DEF Noted, Placed, Writing
<1>8. /\ datasets' \subseteq Layers \X Contents /\ datasets \subseteq datasets'
      /\ versions' = versions /\ pointer' = pointer /\ versions \subseteq Versions
  BY <1>0, <1>1, Facts
<1> QED
  BY <1>1, <1>2, <1>3, <1>7, <1>8, Grows

LEMMA AssembleInv ==
    ASSUME PublicationInv, NEW p \in Processes, Assemble(p)
    PROVE  PublicationInv'
<1> DEFINE v == [run |-> p, layers |-> proc[p].layers, annotation |-> None]
           q == [proc[p] EXCEPT !.at = "pointer", !.version = v]
<1>0. /\ proc \in [Processes -> ProcessStates] /\ proc[p] \in ProcessStates
      /\ Placed(proc[p]) /\ Noted(proc[p], datasets, versions, pointer)
      /\ proc[p].at = "prepare" /\ \A l \in Layers : proc[p].layers[l] # None
      /\ proc[p].layers \in [Layers -> Contents \cup {None}]
      /\ Support \in Layers /\ Gated \subseteq Layers
  BY Facts DEF Assemble, Prepared, ProcessStates, Layers, Gated
<1>1. proc' = [proc EXCEPT ![p] = q] /\ UNCHANGED <<catalogVars, showcaseVars, cacheVars>>
  BY <1>0 DEF Assemble, ProcessStates
<1>2. v \in Versions /\ v.annotation = None /\ v.layers = proc[p].layers
  BY <1>0 DEF Versions
<1>3. AllStored(v, datasets) /\ OneSupport(v)
  BY <1>0, <1>2 DEF Noted, AllStored, OneSupport
<1> HIDE DEF v
<1>a. proc[p] \in ProcessStates /\ v \in Versions
  BY <1>0, <1>2
<1>4. /\ q \in ProcessStates /\ q.op = proc[p].op /\ q.at = "pointer"
      /\ q.about = proc[p].about /\ q.base = proc[p].base /\ q.version = v
      /\ q.layers = proc[p].layers
  BY <1>a, Writes
<1> HIDE DEF q
<1>5. proc[p].op = "ingest" /\ proc[p].base = None /\ v # None
  BY <1>0, <1>2, VersionsAssumption DEF Placed, PlacesOf, ProcessStates, Kinds
<1>6. Placed(q)
  BY <1>4, <1>5 DEF Placed, PlacesOf, Writing
<1>7. Noted(q, datasets, versions, pointer)
  BY <1>0, <1>2, <1>3, <1>4, <1>5 DEF Noted, Derived
<1> QED
  BY <1>1, <1>4, <1>6, <1>7, Quiet, Others DEF showcaseVars, cacheVars

\* A process that goes elsewhere or ends, and remembers nothing new.
LEMMA GoToInv ==
    ASSUME PublicationInv, NEW p \in Processes, NEW place \in Places, GoTo(p, place),
           UNCHANGED catalogVars,
           proc[p].op # "none",
           place \notin {"done", "failed"} => Placed([proc[p] EXCEPT !.at = place]),
           place \notin Writing, proc[p].at \notin Writing,
           examples' \in [Sessions -> [1 .. Documents -> ObjectsOf(Versions)]],
           index' \in ObjectsOf(Seq(Sessions)),
           views' \in [Recipes -> ObjectsOf(Renderings)],
           records' \in [Sessions -> ObjectsOf(Processes)],
           deadlines' \subseteq ({"view"} \X Recipes) \cup ({"record"} \X Sessions)
    PROVE  PublicationInv'
<1> DEFINE q == Moved(proc[p], place)
<1>0. /\ proc \in [Processes -> ProcessStates] /\ proc[p] \in ProcessStates
      /\ Placed(proc[p]) /\ Noted(proc[p], datasets, versions, pointer)
  BY Facts
<1>1. proc' = [proc EXCEPT ![p] = q]
  BY <1>0 DEF GoTo
<1>2. q \in ProcessStates /\ Placed(q) /\ Noted(q, datasets, versions, pointer)
  <2>1. CASE place \in {"done", "failed"}
    BY <1>0, <2>1, Ends
  <2>2. CASE place \notin {"done", "failed"}
    <3>1. q = [proc[p] EXCEPT !.at = place]
      BY <2>2, Goes
    <3>2. q \in ProcessStates /\ Placed(q)
      BY <1>0, <2>2, <3>1 DEF ProcessStates
    <3>3. /\ q.layers = proc[p].layers /\ q.version = proc[p].version /\ q.at = place
          /\ q.base = proc[p].base
      BY <1>0, <3>1 DEF ProcessStates
    <3> HIDE DEF q
    <3>4. Noted(q, datasets, versions, pointer)
      BY <1>0, <3>3 DEF Noted, Writing
    <3> QED
      BY <3>2, <3>4
  <2> QED
    BY <2>1, <2>2
<1> HIDE DEF q
<1> QED
  BY <1>1, <1>2, Quiet


LEMMA ReadCurrentInv ==
    ASSUME PublicationInv, NEW p \in Processes, ReadCurrent(p)
    PROVE  PublicationInv'
<1>0. /\ proc \in [Processes -> ProcessStates] /\ proc[p] \in ProcessStates
      /\ Placed(proc[p]) /\ Noted(proc[p], datasets, versions, pointer)
      /\ proc[p].at = "current" /\ UNCHANGED <<catalogVars, showcaseVars, cacheVars>>
      /\ Stored(pointer) => pointer.data \in versions /\ pointer.data \in Versions
  BY Facts DEF ReadCurrent
<1>1. /\ proc[p].op \in {"enrich", "publish", "layer"} /\ proc[p].version = None
      /\ proc[p].op = "publish" => proc[p].about \in Sessions
      /\ proc[p].op = "layer" => proc[p].view = None
  BY <1>0 DEF Placed, PlacesOf, ProcessStates, Kinds, Writing
<1>2. CASE Stored(pointer)
  <2> DEFINE q == [proc[p] EXCEPT !.at = "open", !.base = pointer.data]
  <2>1. proc' = [proc EXCEPT ![p] = q]
    BY <1>0, <1>2 DEF ReadCurrent
  <2>b. proc[p] \in ProcessStates /\ pointer.data \in Versions
    BY <1>0, <1>2
  <2>c. /\ q \in ProcessStates /\ q.op = proc[p].op /\ q.at = "open"
        /\ q.about = proc[p].about /\ q.base = pointer.data
        /\ q.version = proc[p].version /\ q.layers = proc[p].layers
        /\ q.view = proc[p].view
    BY <2>b, Reads
  <2>2. /\ q \in ProcessStates /\ q.op = proc[p].op /\ q.at = "open" /\ q.version = None
        /\ q.about = proc[p].about /\ q.base = pointer.data /\ q.layers = proc[p].layers
        /\ q.view = proc[p].view
    BY <1>1, <2>c
  <2> HIDE DEF q
  <2>a. pointer.data # None
    BY <1>0, <1>2, VersionsAssumption
  <2>3. Placed(q)
    BY <1>1, <2>2, <2>a DEF Placed, PlacesOf, Writing
  <2>4. Noted(q, datasets, versions, pointer)
    BY <1>0, <1>2, <2>2, Remembers DEF Writing
  <2> QED
    BY <1>0, <2>1, <2>2, <2>3, <2>4, Quiet, Others DEF showcaseVars, cacheVars
<1>3. CASE ~Stored(pointer)
  <2>1. GoTo(p, "failed")
    BY <1>0, <1>3 DEF ReadCurrent, GoTo
  <2> QED
    BY <1>0, <1>1, <2>1, GoToInv, Others DEF showcaseVars, cacheVars, Places, Writing
<1> QED
  BY <1>2, <1>3

LEMMA OpenVersionInv ==
    ASSUME PublicationInv, NEW p \in Processes, OpenVersion(p)
    PROVE  PublicationInv'
<1>0. /\ proc[p] \in ProcessStates /\ Placed(proc[p])
      /\ proc[p].at = "open" /\ UNCHANGED <<catalogVars, showcaseVars, cacheVars>>
  BY Facts DEF OpenVersion
<1>1. /\ proc[p].op \in {"enrich", "publish", "layer"} /\ proc[p].version = None
      /\ proc[p].base # None /\ (proc[p].op = "publish" => proc[p].about \in Sessions)
      /\ proc[p].op = "layer" => proc[p].view = None
  BY <1>0 DEF Placed, PlacesOf, ProcessStates, Kinds, Writing
<1>2. \E place \in {"failed", AfterOpen[proc[p].op]} : GoTo(p, place)
  BY DEF OpenVersion
<1>3. PICK place \in {"failed", AfterOpen[proc[p].op]} : GoTo(p, place)
  BY <1>2
<1>4. /\ proc[p].op = "enrich" => place \in {"failed", "generate"}
      /\ proc[p].op = "publish" => place \in {"failed", "view"}
      /\ proc[p].op = "layer" => place \in {"failed", "look"}
  BY <1>3 DEF AfterOpen
<1> DEFINE q == [proc[p] EXCEPT !.at = place]
<1>5. /\ q.op = proc[p].op /\ q.at = place /\ q.version = None /\ q.base = proc[p].base
      /\ q.about = proc[p].about /\ q.view = proc[p].view
  BY <1>0, <1>1 DEF ProcessStates
<1> HIDE DEF q
<1>6. place # "failed" => Placed(q)
  BY <1>1, <1>4, <1>5 DEF Placed, PlacesOf, Writing
<1> QED
  BY <1>0, <1>1, <1>3, <1>4, <1>6, GoToInv, Others
     DEF showcaseVars, cacheVars, Places, Writing, q

LEMMA GenerateInv ==
    ASSUME PublicationInv, NEW p \in Processes, NEW a \in Annotations, Generate(p, a)
    PROVE  PublicationInv'
<1> DEFINE v == [proc[p].base EXCEPT !.annotation = a]
           q == [proc[p] EXCEPT !.at = "pointer", !.version = v]
<1>0. /\ proc \in [Processes -> ProcessStates] /\ proc[p] \in ProcessStates
      /\ Placed(proc[p]) /\ Noted(proc[p], datasets, versions, pointer)
      /\ proc[p].at = "generate" /\ UNCHANGED <<catalogVars, showcaseVars, cacheVars>>
  BY Facts DEF Generate
<1>1. /\ proc[p].op = "enrich" /\ proc[p].base # None /\ proc[p].base \in versions
      /\ proc[p].base \in Versions
  BY <1>0 DEF Placed, PlacesOf, ProcessStates, Kinds, Noted
<1>2. proc' = [proc EXCEPT ![p] = q]
  BY <1>0 DEF Generate
<1>3. v \in Versions /\ v.layers = proc[p].base.layers
  BY <1>1 DEF Versions
<1>4. AllStored(v, datasets) /\ OneSupport(v)
  BY <1>1, <1>3 DEF PublicationInv, AllStored, OneSupport
<1>5. Derived(v, proc[p].base) /\ v # None
  BY <1>1, <1>3, VersionsAssumption DEF Derived
<1> HIDE DEF v
<1>6. /\ q \in ProcessStates /\ q.op = proc[p].op /\ q.at = "pointer"
      /\ q.about = proc[p].about /\ q.base = proc[p].base /\ q.version = v
      /\ q.layers = proc[p].layers
  BY <1>0, <1>3, Writes
<1> HIDE DEF q
<1>7. Placed(q)
  BY <1>1, <1>5, <1>6 DEF Placed, PlacesOf, Writing
<1>8. Noted(q, datasets, versions, pointer)
  BY <1>0, <1>4, <1>5, <1>6 DEF Noted
<1> QED
  BY <1>0, <1>2, <1>6, <1>7, <1>8, Quiet, Others DEF showcaseVars, cacheVars

\* A process that ends, wherever it was.
LEMMA EndInv ==
    ASSUME PublicationInv, NEW p \in Processes, NEW place \in {"done", "failed"},
           GoTo(p, place), proc[p].op # "none", UNCHANGED catalogVars,
           examples' \in [Sessions -> [1 .. Documents -> ObjectsOf(Versions)]],
           index' \in ObjectsOf(Seq(Sessions)),
           views' \in [Recipes -> ObjectsOf(Renderings)],
           records' \in [Sessions -> ObjectsOf(Processes)],
           deadlines' \subseteq ({"view"} \X Recipes) \cup ({"record"} \X Sessions)
    PROVE  PublicationInv'
<1> DEFINE q == Moved(proc[p], place)
<1>0. /\ proc \in [Processes -> ProcessStates] /\ proc[p] \in ProcessStates
      /\ Placed(proc[p]) /\ Noted(proc[p], datasets, versions, pointer)
  BY Facts
<1>1. proc' = [proc EXCEPT ![p] = q]
  BY <1>0 DEF GoTo
<1>2. q \in ProcessStates /\ Placed(q) /\ Noted(q, datasets, versions, pointer)
  BY <1>0, Ends
<1> HIDE DEF q
<1> QED
  BY <1>1, <1>2, Quiet

LEMMA ReadPointerInv ==
    ASSUME PublicationInv, NEW p \in Processes, ReadPointer(p)
    PROVE  PublicationInv'
<1> DEFINE q == [proc[p] EXCEPT !.at = "store", !.etag = pointer.etag]
<1>0. /\ proc \in [Processes -> ProcessStates] /\ proc[p] \in ProcessStates
      /\ Placed(proc[p]) /\ Noted(proc[p], datasets, versions, pointer)
      /\ proc[p].at = "pointer" /\ UNCHANGED <<catalogVars, showcaseVars, cacheVars>>
      /\ pointer.etag \in Nat
  BY Facts DEF ReadPointer
<1>1. proc[p].op \in {"ingest", "enrich"} /\ proc[p].version # None
  BY <1>0 DEF Placed, PlacesOf, ProcessStates, Kinds, Writing
<1>2. CASE BaseIsCurrent(p)
  <2>1. proc' = [proc EXCEPT ![p] = q]
    BY <1>0, <1>2 DEF ReadPointer
  <2>2. /\ q \in ProcessStates /\ q.op = proc[p].op /\ q.at = "store"
        /\ q.about = proc[p].about /\ q.base = proc[p].base
        /\ q.version = proc[p].version /\ q.layers = proc[p].layers
        /\ q.etag = pointer.etag
    BY <1>0 DEF ProcessStates, Places
  <2> HIDE DEF q
  <2>3. Placed(q)
    BY <1>0, <1>1, <2>2 DEF Placed, PlacesOf, Writing
  <2>4. Noted(q, datasets, versions, pointer)
    BY <1>0, <1>2, <2>2 DEF Noted, BaseIsCurrent
  <2> QED
    BY <1>0, <2>1, <2>2, <2>3, <2>4, Quiet, Others DEF showcaseVars, cacheVars
<1>3. CASE ~BaseIsCurrent(p)
  <2>1. GoTo(p, "failed")
    BY <1>0, <1>3 DEF ReadPointer, GoTo
  <2> QED
    BY <1>0, <1>1, <2>1, EndInv, Others DEF showcaseVars, cacheVars
<1> QED
  BY <1>2, <1>3

LEMMA StoreVersionInv ==
    ASSUME PublicationInv, NEW p \in Processes, StoreVersion(p)
    PROVE  PublicationInv'
<1> DEFINE q == [proc[p] EXCEPT !.at = "swap"]
<1>0. /\ proc \in [Processes -> ProcessStates] /\ proc[p] \in ProcessStates
      /\ Placed(proc[p]) /\ Noted(proc[p], datasets, versions, pointer)
      /\ proc[p].at = "store" /\ UNCHANGED <<datasets, pointer, showcaseVars, cacheVars>>
      /\ versions' = versions \cup {proc[p].version}
      /\ datasets \subseteq Layers \X Contents /\ versions \subseteq Versions
  BY Facts DEF StoreVersion
<1>1. /\ proc[p].op \in {"ingest", "enrich"} /\ proc[p].version # None
      /\ proc[p].version \in Versions
  BY <1>0 DEF Placed, PlacesOf, ProcessStates, Kinds, Writing
<1>2. proc' = [proc EXCEPT ![p] = q]
  BY <1>0 DEF StoreVersion, GoTo, Moved
<1>3. /\ q \in ProcessStates /\ q.op = proc[p].op /\ q.at = "swap"
      /\ q.about = proc[p].about /\ q.base = proc[p].base
      /\ q.version = proc[p].version /\ q.layers = proc[p].layers
      /\ q.etag = proc[p].etag
  BY <1>0 DEF ProcessStates, Places
<1> HIDE DEF q
<1>4. Placed(q)
  BY <1>0, <1>1, <1>3 DEF Placed, PlacesOf, Writing
<1>5. Noted(q, datasets', versions', pointer')
  BY <1>0, <1>3 DEF Noted
<1>6. AllStored(proc[p].version, datasets') /\ OneSupport(proc[p].version)
  BY <1>0, <1>1 DEF Noted
<1> QED
  BY <1>0, <1>1, <1>2, <1>3, <1>4, <1>5, <1>6, Grows

LEMMA SwapPointerInv ==
    ASSUME PublicationInv, NEW p \in Processes, SwapPointer(p)
    PROVE  PublicationInv'
<1>0. /\ proc \in [Processes -> ProcessStates] /\ proc[p] \in ProcessStates
      /\ Placed(proc[p]) /\ Noted(proc[p], datasets, versions, pointer)
      /\ proc[p].at = "swap" /\ UNCHANGED <<datasets, versions, showcaseVars, cacheVars>>
      /\ datasets \subseteq Layers \X Contents /\ versions \subseteq Versions
      /\ pointer.etag \in Nat /\ pointer \in ObjectsOf(Versions)
  BY Facts DEF SwapPointer
<1>1. /\ proc[p].op \in {"ingest", "enrich"} /\ proc[p].version # None
      /\ proc[p].version \in Versions /\ proc[p].version \in versions
  BY <1>0 DEF Placed, PlacesOf, ProcessStates, Kinds, Writing, Noted
<1>2. CASE SwapAccepted(pointer, proc[p].etag)
  <2> DEFINE q == Moved(proc[p], "done")
  <2>1. /\ pointer' = [data |-> proc[p].version, etag |-> pointer.etag + 1]
        /\ proc' = [proc EXCEPT ![p] = q]
    BY <1>0, <1>2 DEF SwapPointer, Swap, GoTo
  <2>2. /\ pointer' \in [data : Versions, etag : Nat \ {0}]
        /\ pointer'.data \in versions /\ pointer.etag < pointer'.etag
        /\ pointer'.etag \in Nat /\ Stored(pointer')
    BY <1>0, <1>1, <2>1 DEF Stored, Absent
  <2>3. Noted(proc[p], datasets, versions, pointer')
    BY <1>0, <2>2, StillNoted
  <2>4. q \in ProcessStates /\ Placed(q) /\ Noted(q, datasets, versions, pointer')
    BY <1>0, <1>1, <2>3, Ends
  <2> HIDE DEF q
  <2> QED
    BY <1>0, <2>1, <2>2, <2>4, Grows
<1>3. CASE ~SwapAccepted(pointer, proc[p].etag)
  <2>1. GoTo(p, "failed") /\ UNCHANGED catalogVars
    BY <1>0, <1>3 DEF SwapPointer, catalogVars
  <2> QED
    BY <1>0, <1>1, <2>1, EndInv, Others DEF showcaseVars, cacheVars
<1> QED
  BY <1>2, <1>3

-----------------------------------------------------------------------------
(* The steps of worked examples, views and records. *)

LEMMA Written ==
    ASSUME NEW D, NEW o \in ObjectsOf(D), NEW d \in D
    PROVE  Swap(o, d) \in ObjectsOf(D) /\ Put(o, d) \in ObjectsOf(D)
BY DEF Swap, Put, ObjectsOf, Absent

\* A process that goes on and knows no more of the Catalog than before.
LEMMA MovesInv ==
    ASSUME PublicationInv, NEW p \in Processes, NEW q \in ProcessStates,
           proc' = [proc EXCEPT ![p] = q], UNCHANGED catalogVars,
           q.base = proc[p].base, q.layers = proc[p].layers,
           q.version = proc[p].version,
           proc[p].at \notin Writing, q.at \notin Writing, Placed(q),
           examples' \in [Sessions -> [1 .. Documents -> ObjectsOf(Versions)]],
           index' \in ObjectsOf(Seq(Sessions)),
           views' \in [Recipes -> ObjectsOf(Renderings)],
           records' \in [Sessions -> ObjectsOf(Processes)],
           deadlines' \subseteq ({"view"} \X Recipes) \cup ({"record"} \X Sessions)
    PROVE  PublicationInv'
<1>1. Noted(proc[p], datasets, versions, pointer) /\ Placed(proc[p])
  BY Facts
<1>2. q.version = None
  BY <1>1 DEF Placed
<1>3. q.base # None => q.base \in versions /\ Stored(pointer)
  BY <1>1 DEF Noted
<1>4. Noted(q, datasets, versions, pointer)
  BY <1>1, <1>2, <1>3, Remembers
<1> QED
  BY <1>4, Quiet

\* Where a process is tells what it does.
LEMMA Roles ==
    ASSUME NEW q \in ProcessStates, Placed(q)
    PROVE  /\ q.at = "idle" => q.op = "none"
           /\ q.at # "idle" => q.op # "none"
           /\ q.at \in {"session", "document", "replace", "index", "append"} =>
                  q.op = "publish" /\ q.about \in Sessions
           /\ q.at = "list" => q.op \in {"publish", "visit"} /\ q.about \in Sessions
           /\ q.at = "example" => q.op = "visit" /\ q.about \in Sessions
           /\ q.at = "look" => q.op = "layer"
           /\ q.at \in {"view", "render"} =>
                  q.op \in {"publish", "render", "layer"} /\ q.about \in Recipes
           /\ q.at = "put" => q.op = "record" /\ q.about \in Sessions
           /\ q.at = "expire" =>
                  /\ q.op \in {"publish", "render", "layer", "record"} /\ q.about \in Recipes
                  /\ q.op = "record" => q.about \in Sessions
<1>1. /\ q.op \in Kinds \cup {"none"} /\ q.at \in PlacesOf(q.op)
      /\ q.op \in {"publish", "render", "record", "visit"} => q.about \in Sessions
      /\ q.op = "layer" /\ q.at \in {"view", "render", "expire"} => q.about \in LiveViews
  BY DEF ProcessStates, Placed
<1> QED
  BY <1>1 DEF PlacesOf, Kinds, Recipes

LEMMA BeginInv ==
    ASSUME PublicationInv, NEW p \in Processes,
           NEW op, NEW place, NEW s \in Sessions \cup {None}, Begin(p, op, place, s),
           \/ op = "ingest" /\ place = "prepare"
           \/ op \in {"enrich", "layer"} /\ place = "current"
           \/ s # None /\ op = "publish" /\ place = "session"
           \/ s # None /\ op = "render" /\ place = "view"
           \/ s # None /\ op = "record" /\ place = "put"
           \/ s # None /\ op = "visit" /\ place = "list"
    PROVE  PublicationInv'
<1> DEFINE q == [proc[p] EXCEPT !.op = op, !.at = place, !.about = s]
<1>2. /\ proc \in [Processes -> ProcessStates] /\ proc[p] \in ProcessStates
      /\ Placed(proc[p]) /\ proc[p].at = "idle"
      /\ UNCHANGED <<catalogVars, showcaseVars, cacheVars>>
  BY Facts DEF Begin
<1>3. proc' = [proc EXCEPT ![p] = q]
  BY <1>2 DEF Begin, ProcessStates
<1>4. op \in Kinds /\ place \in Places
  BY DEF Kinds, Places
<1>5. /\ q \in ProcessStates /\ q.op = op /\ q.at = place /\ q.about = s
      /\ q.base = proc[p].base /\ q.layers = proc[p].layers
      /\ q.version = proc[p].version /\ q.view = proc[p].view
  BY <1>2, <1>4 DEF ProcessStates, Recipes
<1> HIDE DEF q
<1>6. proc[p].base = None /\ proc[p].version = None /\ q.view = None
  BY <1>2, <1>5 DEF Placed, Writing
<1>7. Placed(q)
  BY <1>5, <1>6 DEF Placed, PlacesOf, Writing
<1>8. q.at \notin Writing /\ proc[p].at \notin Writing
  BY <1>2, <1>5 DEF Writing
<1> QED
  BY <1>2, <1>3, <1>5, <1>7, <1>8, MovesInv, Others DEF showcaseVars, cacheVars

LEMMA StartInv ==
    ASSUME PublicationInv, NEW p \in Processes, Start(p)
    PROVE  PublicationInv'
<1>1. CASE Begin(p, "ingest", "prepare", None)
  BY <1>1, BeginInv
<1>2. CASE Begin(p, "enrich", "current", None) \/ Begin(p, "layer", "current", None)
  BY <1>2, BeginInv
<1>3. ASSUME NEW s \in Sessions,
             \/ Begin(p, "publish", "session", s) \/ Begin(p, "render", "view", s)
             \/ Begin(p, "record", "put", s) \/ Begin(p, "visit", "list", s)
      PROVE  PublicationInv'
  <2>1. s # None /\ s \in Sessions \cup {None}
    BY PublicationAssumption
  <2>2. CASE Begin(p, "publish", "session", s)
    BY <2>1, <2>2, BeginInv
  <2>3. CASE Begin(p, "render", "view", s)
    BY <2>1, <2>3, BeginInv
  <2>4. CASE Begin(p, "record", "put", s)
    BY <2>1, <2>4, BeginInv
  <2>5. CASE Begin(p, "visit", "list", s)
    BY <2>1, <2>5, BeginInv
  <2> QED
    BY <1>3, <2>2, <2>3, <2>4, <2>5
<1> QED
  BY <1>1, <1>2, <1>3 DEF Start

LEMMA FailInv ==
    ASSUME PublicationInv, NEW p \in Processes, Fail(p)
    PROVE  PublicationInv'
<1>1. /\ proc[p].at # "idle" /\ proc[p] \in ProcessStates /\ Placed(proc[p])
      /\ GoTo(p, "failed") /\ UNCHANGED <<catalogVars, showcaseVars, cacheVars>>
  BY Facts DEF Fail
<1>2. proc[p].op # "none"
  BY <1>1, Roles
<1> QED
  BY <1>1, <1>2, EndInv, Others DEF showcaseVars, cacheVars

LEMMA ReadSessionInv ==
    ASSUME PublicationInv, NEW p \in Processes, ReadSession(p)
    PROVE  PublicationInv'
<1>1. /\ proc[p].at = "session" /\ proc[p] \in ProcessStates /\ Placed(proc[p])
      /\ UNCHANGED <<catalogVars, showcaseVars, cacheVars>>
  BY Facts DEF ReadSession
<1>2. proc[p].op = "publish" /\ proc[p].about \in Sessions /\ proc[p].version = None
  BY <1>1, Roles, PublicationAssumption DEF Placed, Writing
<1>3. PICK place \in {"current", "failed"} : GoTo(p, place)
  BY DEF ReadSession
<1> DEFINE q == [proc[p] EXCEPT !.at = place]
<1>4. /\ q.op = proc[p].op /\ q.at = place /\ q.version = proc[p].version
      /\ q.base = proc[p].base /\ q.about = proc[p].about
  BY <1>1 DEF ProcessStates
<1> HIDE DEF q
<1>5. place # "failed" => Placed(q)
  BY <1>2, <1>3, <1>4 DEF Placed, PlacesOf, Writing
<1> QED
  BY <1>1, <1>2, <1>3, <1>5, GoToInv, Others
     DEF showcaseVars, cacheVars, Places, Writing, q

LEMMA ReadDocumentInv ==
    ASSUME PublicationInv, NEW p \in Processes, ReadDocument(p)
    PROVE  PublicationInv'
<1> DEFINE etag == examples[proc[p].about][proc[p].n].etag
           q == [proc[p] EXCEPT !.at = "replace", !.etag = etag]
<1>1. /\ proc[p].at = "document" /\ proc[p] \in ProcessStates /\ Placed(proc[p])
      /\ UNCHANGED <<catalogVars, showcaseVars, cacheVars>>
      /\ proc \in [Processes -> ProcessStates]
  BY Facts DEF ReadDocument
<1>2. /\ proc[p].op = "publish" /\ proc[p].about \in Sessions
      /\ proc[p].version = None /\ proc[p].base # None
  BY <1>1, Roles, PublicationAssumption DEF Placed, Writing
<1>3. etag \in Nat
  BY <1>1, <1>2, Facts DEF ProcessStates
<1>4. proc' = [proc EXCEPT ![p] = q]
  BY <1>1 DEF ReadDocument
<1> HIDE DEF etag
<1>5. /\ q \in ProcessStates /\ q.op = proc[p].op /\ q.at = "replace"
      /\ q.about = proc[p].about /\ q.base = proc[p].base
      /\ q.layers = proc[p].layers /\ q.version = proc[p].version
  BY <1>1, <1>3 DEF ProcessStates, Places
<1> HIDE DEF q
<1>6. Placed(q)
  BY <1>2, <1>5 DEF Placed, PlacesOf, Writing
<1>7. q.at \notin Writing /\ proc[p].at \notin Writing
  BY <1>1, <1>5 DEF Writing
<1> QED
  BY <1>1, <1>4, <1>5, <1>6, <1>7, MovesInv, Others DEF showcaseVars, cacheVars

LEMMA ReplaceDocumentInv ==
    ASSUME PublicationInv, NEW p \in Processes, ReplaceDocument(p)
    PROVE  PublicationInv'
<1> DEFINE s == proc[p].about
           n == proc[p].n
<1>1. /\ proc[p].at = "replace" /\ proc[p] \in ProcessStates /\ Placed(proc[p])
      /\ UNCHANGED <<catalogVars, index, cacheVars>>
      /\ proc \in [Processes -> ProcessStates]
  BY Facts DEF ReplaceDocument
<1>2. /\ proc[p].op = "publish" /\ s \in Sessions
      /\ proc[p].version = None /\ proc[p].base # None /\ n \in 1 .. Documents
      /\ proc[p].base \in Versions
  BY <1>1, Roles, PublicationAssumption DEF Placed, Writing, ProcessStates
<1>3. CASE ~SwapAccepted(examples[s][n], proc[p].etag)
  <2>1. GoTo(p, "failed") /\ UNCHANGED examples
    BY <1>3 DEF ReplaceDocument
  <2> QED
    BY <1>1, <1>2, <2>1, EndInv, Others DEF cacheVars
<1>4. CASE SwapAccepted(examples[s][n], proc[p].etag)
  <2>1. examples' = [examples EXCEPT ![s][n] = Swap(@, proc[p].base)]
    BY <1>4 DEF ReplaceDocument
  <2>2. examples' \in [Sessions -> [1 .. Documents -> ObjectsOf(Versions)]]
    <3>1. Swap(examples[s][n], proc[p].base) \in ObjectsOf(Versions)
      BY <1>2, Written, Others
    <3> QED
      BY <1>2, <2>1, <3>1, Others
  <2>3. ASSUME NEW q, NEW m \in 1 .. Documents, NEW place \in {"document", "list"},
               q = [proc[p] EXCEPT !.at = place, !.n = m]
        PROVE  /\ q \in ProcessStates /\ q.base = proc[p].base
               /\ q.layers = proc[p].layers /\ q.version = proc[p].version
               /\ q.at \notin Writing /\ proc[p].at \notin Writing /\ Placed(q)
    <3>1. /\ q \in ProcessStates /\ q.op = proc[p].op /\ q.at = place
          /\ q.about = proc[p].about /\ q.base = proc[p].base
          /\ q.layers = proc[p].layers /\ q.version = proc[p].version
      BY <1>1, <2>3 DEF ProcessStates, Places
    <3>2. q.at \notin Writing /\ proc[p].at \notin Writing
      BY <1>1, <3>1 DEF Writing
    <3>3. Placed(q)
      BY <1>2, <3>1 DEF Placed, PlacesOf, Writing
    <3> QED
      BY <3>1, <3>2, <3>3
  <2>4. PICK m \in 1 .. Documents, place \in {"document", "list"} :
            proc' = [proc EXCEPT ![p] = [proc[p] EXCEPT !.at = place, !.n = m]]
    <3>1. CASE n < Documents
      <4>1. n + 1 \in 1 .. Documents
        BY <1>2, <3>1, PublicationAssumption
      <4>2. proc' = [proc EXCEPT ![p].at = "document", ![p].n = n + 1]
        BY <1>4, <3>1 DEF ReplaceDocument
      <4>3. proc' = [proc EXCEPT ![p] = [proc[p] EXCEPT !.at = "document", !.n = n + 1]]
        BY <1>1, <4>2
      <4> QED
        BY <4>1, <4>3
    <3>2. CASE ~(n < Documents)
      <4>1. proc' = [proc EXCEPT ![p].at = "list"]
        BY <1>4, <3>2 DEF ReplaceDocument
      <4>2. [proc[p] EXCEPT !.at = "list"] = [proc[p] EXCEPT !.at = "list", !.n = n]
        BY <1>1 DEF ProcessStates
      <4>3. proc' = [proc EXCEPT ![p] = [proc[p] EXCEPT !.at = "list", !.n = n]]
        BY <1>1, <4>1, <4>2
      <4> QED
        BY <1>2, <4>3
    <3> QED
      BY <3>1, <3>2
  <2> DEFINE q == [proc[p] EXCEPT !.at = place, !.n = m]
  <2>5. /\ q \in ProcessStates /\ q.base = proc[p].base
        /\ q.layers = proc[p].layers /\ q.version = proc[p].version
        /\ q.at \notin Writing /\ proc[p].at \notin Writing /\ Placed(q)
    BY <2>3
  <2>6. proc' = [proc EXCEPT ![p] = q]
    BY <2>4
  <2> HIDE DEF q
  <2> QED
    BY <1>1, <2>2, <2>5, <2>6, MovesInv, Others DEF cacheVars
<1> QED
  BY <1>3, <1>4

LEMMA ReadIndexInv ==
    ASSUME PublicationInv, NEW p \in Processes, ReadIndex(p)
    PROVE  PublicationInv'
<1>1. /\ proc[p].at = "list" /\ proc[p] \in ProcessStates /\ Placed(proc[p])
      /\ UNCHANGED <<catalogVars, showcaseVars, cacheVars>>
      /\ proc \in [Processes -> ProcessStates]
  BY Facts DEF ReadIndex
<1>2. /\ proc[p].op \in {"publish", "visit"} /\ proc[p].about \in Sessions
      /\ proc[p].about \in Sessions /\ proc[p].version = None
  BY <1>1, Roles, PublicationAssumption DEF Placed, Writing
<1>3. \/ proc[p].op = "publish" /\ GoTo(p, "done")
      \/ proc[p].op = "visit" /\ GoTo(p, "example")
      \/ GoTo(p, "failed")
      \/ proc[p].op = "publish" /\ proc' = [proc EXCEPT ![p].at = "index", ![p].ids = Listed]
  BY <1>2 DEF ReadIndex
<1>4. CASE GoTo(p, "done") \/ GoTo(p, "failed")
  BY <1>1, <1>2, <1>4, EndInv, Others DEF showcaseVars, cacheVars
<1>5. CASE proc[p].op = "visit" /\ GoTo(p, "example")
  <2> DEFINE q == [proc[p] EXCEPT !.at = "example"]
  <2>1. /\ q.op = proc[p].op /\ q.at = "example" /\ q.version = proc[p].version
        /\ q.base = proc[p].base /\ q.about = proc[p].about
    BY <1>1 DEF ProcessStates
  <2> HIDE DEF q
  <2>2. Placed(q)
    BY <1>2, <1>5, <2>1 DEF Placed, PlacesOf, Writing
  <2>3. "example" \in Places /\ "example" \notin Writing /\ proc[p].at \notin Writing
    BY <1>1 DEF Places, Writing
  <2> QED
    BY <1>1, <1>2, <1>5, <2>2, <2>3, GoToInv, Others DEF showcaseVars, cacheVars, q
<1>6. CASE proc[p].op = "publish" /\ proc' = [proc EXCEPT ![p].at = "index", ![p].ids = Listed]
  <2> DEFINE q == [proc[p] EXCEPT !.at = "index", !.ids = Listed]
  <2>1. proc' = [proc EXCEPT ![p] = q]
    BY <1>1, <1>6
  <2>2. Listed \in Seq(Sessions)
    BY Others, EmptySeq DEF Listed, ObjectsOf, Stored
  <2> HIDE DEF Listed
  <2>3. /\ q \in ProcessStates /\ q.op = proc[p].op /\ q.at = "index"
        /\ q.about = proc[p].about /\ q.base = proc[p].base
        /\ q.layers = proc[p].layers /\ q.version = proc[p].version
    BY <1>1, <2>2 DEF ProcessStates, Places
  <2> HIDE DEF q
  <2>4. Placed(q) /\ q.at \notin Writing /\ proc[p].at \notin Writing
    BY <1>1, <1>2, <1>6, <2>3 DEF Placed, PlacesOf, Writing
  <2> QED
    BY <1>1, <2>1, <2>3, <2>4, MovesInv, Others DEF showcaseVars, cacheVars
<1> QED
  BY <1>3, <1>4, <1>5, <1>6

LEMMA ReadIndexTokenInv ==
    ASSUME PublicationInv, NEW p \in Processes, ReadIndexToken(p)
    PROVE  PublicationInv'
<1> DEFINE etag == index.etag
           q == [proc[p] EXCEPT !.at = "append", !.etag = etag]
<1>1. /\ proc[p].at = "index" /\ proc[p] \in ProcessStates /\ Placed(proc[p])
      /\ UNCHANGED <<catalogVars, showcaseVars, cacheVars>>
      /\ proc \in [Processes -> ProcessStates] /\ etag \in Nat
  BY Facts DEF ReadIndexToken
<1>2. /\ proc[p].op = "publish" /\ proc[p].about \in Sessions /\ proc[p].version = None
  BY <1>1, Roles, PublicationAssumption DEF Placed, Writing
<1>3. proc' = [proc EXCEPT ![p] = q]
  BY <1>1 DEF ReadIndexToken
<1> HIDE DEF etag
<1>4. /\ q \in ProcessStates /\ q.op = proc[p].op /\ q.at = "append"
      /\ q.about = proc[p].about /\ q.base = proc[p].base
      /\ q.layers = proc[p].layers /\ q.version = proc[p].version
  BY <1>1 DEF ProcessStates, Places
<1> HIDE DEF q
<1>5. Placed(q) /\ q.at \notin Writing /\ proc[p].at \notin Writing
  BY <1>1, <1>2, <1>4 DEF Placed, PlacesOf, Writing
<1> QED
  BY <1>1, <1>3, <1>4, <1>5, MovesInv, Others DEF showcaseVars, cacheVars

LEMMA AppendToIndexInv ==
    ASSUME PublicationInv, NEW p \in Processes, AppendToIndex(p)
    PROVE  PublicationInv'
<1>1. /\ proc[p].at = "append" /\ proc[p] \in ProcessStates /\ Placed(proc[p])
      /\ UNCHANGED <<catalogVars, examples, cacheVars>>
  BY Facts DEF AppendToIndex
<1>2. proc[p].op # "none" /\ proc[p].about \in Sessions /\ proc[p].ids \in Seq(Sessions)
  BY <1>1, Roles DEF ProcessStates
<1>3. Append(proc[p].ids, proc[p].about) \in Seq(Sessions)
  BY <1>2, AppendProperties
<1>4. Swap(index, Append(proc[p].ids, proc[p].about)) \in ObjectsOf(Seq(Sessions))
  BY <1>3, Written, Others
<1>5. index' \in ObjectsOf(Seq(Sessions))
  BY <1>4, Others DEF AppendToIndex
<1>6. GoTo(p, "done") \/ GoTo(p, "failed")
  BY DEF AppendToIndex
<1> QED
  BY <1>1, <1>2, <1>5, <1>6, EndInv, Others DEF cacheVars

LEMMA OpenExampleInv ==
    ASSUME PublicationInv, NEW p \in Processes, OpenExample(p)
    PROVE  PublicationInv'
<1>1. /\ proc[p].at = "example" /\ proc[p] \in ProcessStates /\ Placed(proc[p])
      /\ UNCHANGED <<catalogVars, showcaseVars, cacheVars>>
  BY Facts DEF OpenExample
<1>2. proc[p].op # "none"
  BY <1>1, Roles
<1>3. GoTo(p, "done") \/ GoTo(p, "failed")
  BY DEF OpenExample
<1> QED
  BY <1>1, <1>2, <1>3, EndInv, Others DEF showcaseVars, cacheVars

LEMMA ShowRasterInv ==
    ASSUME PublicationInv, NEW p \in Processes, NEW l, ShowRaster(p, l)
    PROVE  PublicationInv'
<1>1. /\ proc[p].at = "look" /\ proc[p] \in ProcessStates /\ Placed(proc[p])
      /\ UNCHANGED <<catalogVars, showcaseVars, cacheVars>>
  BY Facts DEF ShowRaster
<1>2. proc[p].op # "none"
  BY <1>1, Roles
<1>3. GoTo(p, "done") \/ GoTo(p, "failed")
  BY DEF ShowRaster
<1> QED
  BY <1>1, <1>2, <1>3, EndInv, Others DEF showcaseVars, cacheVars

LEMMA ShowCollectionInv ==
    ASSUME PublicationInv, NEW p \in Processes, NEW l \in Collections, NEW day \in Days,
           ShowCollection(p, l, day)
    PROVE  PublicationInv'
<1> DEFINE content == proc[p].base.layers[l]
           recipe == [layer |-> l, content |-> content, day |-> day]
           q == [proc[p] EXCEPT !.at = "view", !.about = recipe]
<1>1. /\ proc[p].at = "look" /\ proc[p] \in ProcessStates /\ Placed(proc[p])
      /\ UNCHANGED <<catalogVars, showcaseVars, cacheVars>>
      /\ proc \in [Processes -> ProcessStates] /\ datasets \subseteq Layers \X Contents
  BY Facts DEF ShowCollection
<1>2. proc[p].op = "layer" /\ proc[p].version = None /\ proc[p].base # None
  BY <1>1, Roles DEF Placed, Writing
<1>3. CASE <<l, content>> \notin datasets
  <2>1. GoTo(p, "failed")
    BY <1>3 DEF ShowCollection, GoTo
  <2> QED
    BY <1>1, <1>2, <2>1, EndInv, Others DEF showcaseVars, cacheVars
<1>4. CASE <<l, content>> \in datasets
  <2>1. content \in Contents
    BY <1>1, <1>4
  <2>2. proc' = [proc EXCEPT ![p] = q]
    BY <1>1, <1>4 DEF ShowCollection
  <2> HIDE DEF content
  <2>3. recipe \in LiveViews
    BY <2>1 DEF LiveViews
  <2> HIDE DEF recipe
  <2>4. /\ q \in ProcessStates /\ q.op = proc[p].op /\ q.at = "view"
        /\ q.about = recipe /\ q.base = proc[p].base
        /\ q.layers = proc[p].layers /\ q.version = proc[p].version
    BY <1>1, <2>3 DEF ProcessStates, Places, Recipes
  <2> HIDE DEF q
  <2>5. Placed(q) /\ q.at \notin Writing /\ proc[p].at \notin Writing
    BY <1>1, <1>2, <2>3, <2>4 DEF Placed, PlacesOf, Writing
  <2> QED
    BY <1>1, <2>2, <2>4, <2>5, MovesInv, Others DEF showcaseVars, cacheVars
<1> QED
  BY <1>3, <1>4

LEMMA ReadViewInv ==
    ASSUME PublicationInv, NEW p \in Processes, ReadView(p)
    PROVE  PublicationInv'
<1> DEFINE s == proc[p].about
           data == views[s].data
           r == [proc[p] EXCEPT !.view = data]
<1>1. /\ proc[p].at = "view" /\ proc[p] \in ProcessStates /\ Placed(proc[p])
      /\ Noted(proc[p], datasets, versions, pointer)
      /\ UNCHANGED <<catalogVars, showcaseVars, cacheVars>>
      /\ proc \in [Processes -> ProcessStates]
  BY Facts DEF ReadView
<1>2. /\ proc[p].op \in {"publish", "render", "layer"} /\ s \in Recipes
      /\ proc[p].version = None
  BY <1>1, Roles DEF Placed, Writing
<1>3. /\ proc[p].op = "publish" => proc[p].base # None
      /\ proc[p].op = "layer" => s \in LiveViews
      /\ proc[p].op # "layer" => s \in Sessions
  BY <1>1, <1>2 DEF Placed
<1>4. CASE ~Stored(views[s])
  <2> DEFINE q == [proc[p] EXCEPT !.at = "render"]
  <2>1. proc' = [proc EXCEPT ![p] = q]
    BY <1>1, <1>4 DEF ReadView
  <2>2. /\ q \in ProcessStates /\ q.op = proc[p].op /\ q.at = "render"
        /\ q.about = proc[p].about /\ q.base = proc[p].base
        /\ q.layers = proc[p].layers /\ q.version = proc[p].version
    BY <1>1 DEF ProcessStates, Places
  <2> HIDE DEF q
  <2>3. Placed(q) /\ q.at \notin Writing /\ proc[p].at \notin Writing
    BY <1>1, <1>2, <1>3, <2>2 DEF Placed, PlacesOf, Writing
  <2> QED
    BY <1>1, <2>1, <2>2, <2>3, MovesInv, Others DEF showcaseVars, cacheVars
<1>5. CASE Stored(views[s])
  <2> DEFINE place == AfterView[proc[p].op]
             q == Moved(r, place)
  <2>1. proc' = [proc EXCEPT ![p] = q]
    BY <1>1, <1>5 DEF ReadView
  <2>2. data \in Renderings
    BY <1>2, <1>5, Others DEF ObjectsOf, Stored, Absent
  <2> HIDE DEF data
  <2>3. /\ r \in ProcessStates /\ r.op = proc[p].op /\ r.at = "view"
        /\ r.about = proc[p].about /\ r.base = proc[p].base
        /\ r.layers = proc[p].layers /\ r.version = proc[p].version
    BY <1>1, <2>2 DEF ProcessStates
  <2> HIDE DEF r
  <2>4. Placed(r) /\ Noted(r, datasets, versions, pointer)
    <3>1. Placed(r) /\ r.at \notin Writing
      BY <1>1, <1>2, <1>3, <2>3 DEF Placed, PlacesOf, Writing
    <3>2. r.base # None => r.base \in versions /\ Stored(pointer)
      BY <1>1, <2>3 DEF Noted
    <3> QED
      BY <1>1, <1>2, <2>3, <3>1, <3>2, Remembers
  <2>5. CASE proc[p].op \in {"render", "layer"}
    <3>1. place = "done"
      BY <2>5 DEF AfterView
    <3>2. q \in ProcessStates /\ Placed(q) /\ Noted(q, datasets, versions, pointer)
      BY <2>3, <2>4, <2>5, <3>1, Ends
    <3> HIDE DEF q
    <3> QED
      BY <1>1, <2>1, <3>2, Quiet, Others DEF showcaseVars, cacheVars
  <2>6. CASE proc[p].op = "publish"
    <3>1. q = [r EXCEPT !.at = "document"]
      BY <2>6 DEF AfterView, Moved
    <3>2. /\ q \in ProcessStates /\ q.op = proc[p].op /\ q.at = "document"
          /\ q.about = proc[p].about /\ q.base = proc[p].base
          /\ q.layers = proc[p].layers /\ q.version = proc[p].version
      BY <2>3, <3>1 DEF ProcessStates, Places
    <3> HIDE DEF q
    <3>3. Placed(q) /\ q.at \notin Writing /\ proc[p].at \notin Writing
      BY <1>1, <1>2, <1>3, <2>6, <3>2 DEF Placed, PlacesOf, Writing
    <3> QED
      BY <1>1, <2>1, <3>2, <3>3, MovesInv, Others DEF showcaseVars, cacheVars
  <2> QED
    BY <1>2, <2>5, <2>6
<1> QED
  BY <1>4, <1>5

\* A process that has stored a view or a record goes on to its deadline.
LEMMA ExpiresNext ==
    ASSUME PublicationInv, NEW p \in Processes, proc[p].at \in {"render", "put"},
           NEW q, NEW w \in Renderings \cup {None},
           q = [proc[p] EXCEPT !.at = "expire", !.view = w]
    PROVE  /\ q \in ProcessStates /\ q.base = proc[p].base
           /\ q.layers = proc[p].layers /\ q.version = proc[p].version
           /\ q.at \notin Writing /\ proc[p].at \notin Writing /\ Placed(q)
<1>1. proc[p] \in ProcessStates /\ Placed(proc[p])
  BY Facts
<1>2. /\ proc[p].op \in {"publish", "render", "layer", "record"}
      /\ proc[p].op = "layer" => proc[p].about \in LiveViews
      /\ proc[p].op # "layer" => proc[p].about \in Sessions
      /\ proc[p].version = None /\ (proc[p].op = "publish" => proc[p].base # None)
  BY <1>1, Roles DEF Placed, Writing
<1>3. /\ q \in ProcessStates /\ q.op = proc[p].op /\ q.at = "expire"
      /\ q.about = proc[p].about /\ q.base = proc[p].base
      /\ q.layers = proc[p].layers /\ q.version = proc[p].version
  BY <1>1 DEF ProcessStates, Places
<1>4. Placed(q) /\ q.at \notin Writing /\ proc[p].at \notin Writing
  BY <1>2, <1>3 DEF Placed, PlacesOf, Writing
<1> QED
  BY <1>3, <1>4

LEMMA RenderViewInv ==
    ASSUME PublicationInv, NEW p \in Processes, NEW r \in Renderings, RenderView(p, r)
    PROVE  PublicationInv'
<1> DEFINE s == proc[p].about
           q == [proc[p] EXCEPT !.at = "expire", !.view = r]
<1>1. /\ proc[p].at = "render" /\ proc[p] \in ProcessStates /\ Placed(proc[p])
      /\ UNCHANGED <<catalogVars, showcaseVars, records, deadlines>>
      /\ proc \in [Processes -> ProcessStates]
  BY Facts DEF RenderView
<1>2. proc[p].op # "none" /\ s \in Recipes
  BY <1>1, Roles
<1>3. CASE ~PutAccepted(views[s], r)
  <2>1. GoTo(p, "failed") /\ UNCHANGED views
    BY <1>3 DEF RenderView
  <2> QED
    BY <1>1, <1>2, <2>1, EndInv, Others DEF showcaseVars
<1>4. CASE PutAccepted(views[s], r)
  <2>1. Put(views[s], r) \in ObjectsOf(Renderings)
    BY <1>2, Written, Others
  <2>2. views' \in [Recipes -> ObjectsOf(Renderings)]
    BY <1>2, <1>4, <2>1, Others DEF RenderView
  <2>3. proc' = [proc EXCEPT ![p] = q]
    BY <1>1, <1>4 DEF RenderView
  <2>4. /\ q \in ProcessStates /\ q.base = proc[p].base
        /\ q.layers = proc[p].layers /\ q.version = proc[p].version
        /\ q.at \notin Writing /\ proc[p].at \notin Writing /\ Placed(q)
    BY <1>1, ExpiresNext
  <2> HIDE DEF q
  <2> QED
    BY <1>1, <2>2, <2>3, <2>4, MovesInv, Others DEF showcaseVars
<1> QED
  BY <1>3, <1>4

LEMMA PutRecordInv ==
    ASSUME PublicationInv, NEW p \in Processes, PutRecord(p)
    PROVE  PublicationInv'
<1> DEFINE s == proc[p].about
           q == [proc[p] EXCEPT !.at = "expire", !.view = proc[p].view]
<1>1. /\ proc[p].at = "put" /\ proc[p] \in ProcessStates /\ Placed(proc[p])
      /\ UNCHANGED <<catalogVars, showcaseVars, views, deadlines>>
      /\ proc \in [Processes -> ProcessStates]
  BY Facts DEF PutRecord
<1>2. proc[p].op # "none" /\ s \in Sessions /\ proc[p].view \in Renderings \cup {None}
  BY <1>1, Roles DEF ProcessStates
<1>3. CASE ~PutAccepted(records[s], p)
  <2>1. GoTo(p, "failed") /\ UNCHANGED records
    BY <1>3 DEF PutRecord
  <2> QED
    BY <1>1, <1>2, <2>1, EndInv, Others DEF showcaseVars
<1>4. CASE PutAccepted(records[s], p)
  <2>1. Put(records[s], p) \in ObjectsOf(Processes)
    BY <1>2, Written, Others
  <2>2. records' \in [Sessions -> ObjectsOf(Processes)]
    BY <1>2, <1>4, <2>1, Others DEF PutRecord
  <2>3. [proc[p] EXCEPT !.at = "expire"] = q
    BY <1>1 DEF ProcessStates
  <2>4. proc' = [proc EXCEPT ![p] = q]
    BY <1>1, <1>4, <2>3 DEF PutRecord, GoTo, Moved
  <2>5. /\ q \in ProcessStates /\ q.base = proc[p].base
        /\ q.layers = proc[p].layers /\ q.version = proc[p].version
        /\ q.at \notin Writing /\ proc[p].at \notin Writing /\ Placed(q)
    BY <1>1, <1>2, ExpiresNext
  <2> HIDE DEF q
  <2> QED
    BY <1>1, <2>2, <2>4, <2>5, MovesInv, Others DEF showcaseVars
<1> QED
  BY <1>3, <1>4

LEMMA SetExpiryInv ==
    ASSUME PublicationInv, NEW p \in Processes, SetExpiry(p)
    PROVE  PublicationInv'
<1>1. /\ proc[p].at = "expire" /\ proc[p] \in ProcessStates /\ Placed(proc[p])
      /\ UNCHANGED <<catalogVars, showcaseVars, views, records>>
      /\ deadlines' = deadlines \cup {<<Kept(p), proc[p].about>>}
  BY Facts DEF SetExpiry
<1>2. /\ proc[p].op # "none" /\ proc[p].about \in Recipes
      /\ proc[p].op = "record" => proc[p].about \in Sessions
      /\ proc[p].op = "publish" => proc[p].about \in Sessions
      /\ proc[p].version = None
  BY <1>1, Roles DEF Placed, Writing
<1>3. deadlines' \subseteq ({"view"} \X Recipes) \cup ({"record"} \X Sessions)
  BY <1>1, <1>2, Others DEF Kept
<1>4. CASE proc[p].op # "publish"
  <2>1. GoTo(p, "done")
    BY <1>4 DEF SetExpiry
  <2> QED
    BY <1>1, <1>2, <1>3, <2>1, EndInv, Others DEF showcaseVars
<1>5. CASE proc[p].op = "publish"
  <2> DEFINE q == [proc[p] EXCEPT !.at = "document"]
  <2>1. GoTo(p, "document") /\ proc[p].base # None
    BY <1>1, <1>5 DEF SetExpiry, Placed
  <2>2. /\ q.op = proc[p].op /\ q.at = "document" /\ q.version = proc[p].version
        /\ q.base = proc[p].base /\ q.about = proc[p].about
    BY <1>1 DEF ProcessStates
  <2> HIDE DEF q
  <2>3. Placed(q)
    BY <1>2, <1>5, <2>1, <2>2 DEF Placed, PlacesOf, Writing
  <2>4. "document" \in Places /\ "document" \notin Writing /\ proc[p].at \notin Writing
    BY <1>1 DEF Places, Writing
  <2> QED
    BY <1>1, <1>2, <1>3, <2>1, <2>3, <2>4, GoToInv, Others DEF showcaseVars, q
<1> QED
  BY <1>4, <1>5

-----------------------------------------------------------------------------
(* The invariant. *)

LEMMA FirstVersion == First \in Versions /\ OneSupport(First) /\ First.annotation = None
<1>1. 0 \in Revisions /\ Support \in Gated /\ Gated \subseteq Layers
  BY PublicationAssumption DEF Revisions, Layers, Gated
<1>2. [l \in Layers |-> [revision |-> 0, support |-> IF l \in Gated THEN 0 ELSE None]]
          \in [Layers -> Contents]
  BY <1>1 DEF Contents
<1>3. First \in Versions
  BY <1>2 DEF First, Versions
<1> QED
  BY <1>1, <1>3 DEF First, OneSupport

LEMMA IdleProcess ==
    /\ Idle \in ProcessStates /\ Placed(Idle)
    /\ \A stored, known, current : Noted(Idle, stored, known, current)
<1>1. /\ 1 \in 1 .. Documents /\ 0 \in Nat /\ <<>> \in Seq(Sessions)
      /\ [l \in Layers |-> None] \in [Layers -> Contents \cup {None}]
  BY EmptySeq, PublicationAssumption
<1>2. Idle \in ProcessStates
  <2> DEFINE ids == <<>>
             nothing == [l \in Layers |-> None]
  <2>1. ids \in Seq(Sessions) /\ nothing \in [Layers -> Contents \cup {None}]
    BY <1>1
  <2>2. Idle = [op |-> "none", at |-> "idle", about |-> None,
                layers |-> nothing, base |-> None, version |-> None,
                etag |-> 0, view |-> None, n |-> 1, ids |-> ids]
    BY DEF Idle
  <2> HIDE DEF ids, nothing
  <2> QED
    BY <1>1, <2>1, <2>2 DEF ProcessStates, Places
<1>3. /\ Idle.op = "none" /\ Idle.at = "idle" /\ Idle.view = None /\ Idle.base = None
      /\ Idle.version = None /\ \A l \in Layers : Idle.layers[l] = None
  BY DEF Idle
<1>4. Placed(Idle)
  BY <1>3 DEF Placed, PlacesOf, Writing
<1>5. \A stored, known, current : Noted(Idle, stored, known, current)
  BY <1>3 DEF Noted
<1> QED
  BY <1>2, <1>4, <1>5

LEMMA InitInv == Init => PublicationInv
<1> SUFFICES ASSUME Init PROVE PublicationInv
  OBVIOUS
<1>1. PICK first \in {{}, {First}} :
          /\ versions = first
          /\ datasets = {<<l, v.layers[l]>> : l \in Layers, v \in first}
          /\ pointer = IF first = {} THEN Absent ELSE [data |-> First, etag |-> 1]
  BY DEF Init
<1>2. /\ datasets \subseteq Layers \X Contents /\ versions \subseteq Versions
      /\ pointer \in ObjectsOf(Versions)
      /\ \A v \in versions : AllStored(v, datasets) /\ OneSupport(v)
      /\ Stored(pointer) => pointer.data \in versions
  <2>1. CASE first = {}
    BY <1>1, <2>1 DEF ObjectsOf, Stored
  <2>2. CASE first = {First}
    <3>1. pointer = [data |-> First, etag |-> 1] /\ versions = {First}
      BY <1>1, <2>2
    <3>2. \A l \in Layers : First.layers[l] \in Contents
      BY FirstVersion DEF Versions
    <3>3. datasets = {<<l, First.layers[l]>> : l \in Layers}
      BY <1>1, <2>2
    <3>4. datasets \subseteq Layers \X Contents /\ AllStored(First, datasets)
      BY <3>2, <3>3 DEF AllStored
    <3> QED
      BY <3>1, <3>4, FirstVersion DEF ObjectsOf
  <2> QED
    BY <2>1, <2>2
<1>3. /\ examples \in [Sessions -> [1 .. Documents -> ObjectsOf(Versions)]]
      /\ index \in ObjectsOf(Seq(Sessions))
      /\ views \in [Recipes -> ObjectsOf(Renderings)]
      /\ records \in [Sessions -> ObjectsOf(Processes)]
      /\ deadlines \subseteq ({"view"} \X Recipes) \cup ({"record"} \X Sessions)
  BY DEF Init, ObjectsOf
<1>4. /\ proc \in [Processes -> ProcessStates]
      /\ \A p \in Processes : Placed(proc[p]) /\ Noted(proc[p], datasets, versions, pointer)
  BY IdleProcess DEF Init
<1> QED
  BY <1>2, <1>3, <1>4 DEF PublicationInv, TypeOK

LEMMA CatalogStepInv ==
    ASSUME PublicationInv, NEW p \in Processes, CatalogStep(p)
    PROVE  PublicationInv'
<1>0. /\ proc[p].layers \in [Layers -> Contents \cup {None}]
      /\ \A l \in Layers : RevisionsOf(l) \subseteq Revisions
      /\ Support \in Layers /\ Divisions \subseteq Layers
      /\ Objects \cup Rasters \cup Collections \subseteq Layers
      /\ Support \notin Divisions \cup Objects \cup Rasters \cup Collections
      /\ \A l \in Divisions : l \notin Gated
      /\ 0 \in Revisions
  <2>1. proc[p].layers \in [Layers -> Contents \cup {None}]
    BY Facts DEF ProcessStates
  <2>2. /\ Support \in Layers /\ Divisions \subseteq Layers
        /\ Objects \cup Rasters \cup Collections \subseteq Layers
        /\ Support \notin Divisions \cup Objects \cup Rasters \cup Collections
        /\ \A l \in Divisions : l \notin Gated
    BY PublicationAssumption DEF Layers, Gated
  <2>3. 0 \in Revisions
    BY PublicationAssumption DEF Revisions
  <2>4. \A l \in Layers : RevisionsOf(l) \subseteq Revisions
    BY <2>3 DEF RevisionsOf
  <2> QED
    BY <2>1, <2>2, <2>3, <2>4
<1>1. ASSUME NEW r \in RevisionsOf(Support), PrepareSupport(p, r)
      PROVE  PublicationInv'
  <2> DEFINE content == [revision |-> r, support |-> r]
  <2>1. content \in Contents /\ content.support = content.revision
    BY <1>0 DEF Contents
  <2>2. /\ Prepare(p, Support, content) /\ proc[p].at = "prepare"
        /\ proc[p].layers[Support] = None
    BY <1>1 DEF PrepareSupport, MayPrepare
  <2> HIDE DEF content
  <2> QED
    BY <1>0, <2>1, <2>2, PrepareInv
<1>2. ASSUME NEW l \in Layers, NEW r \in Revisions, l # Support,
             NEW gate \in {Gate(p), None}, l \in Gated => gate = Gate(p),
             proc[p].at = "prepare", proc[p].layers[Support] # None,
             Prepare(p, l, [revision |-> r, support |-> gate])
      PROVE  PublicationInv'
  <2> DEFINE content == [revision |-> r, support |-> gate]
  <2>1. Gate(p) \in Revisions \cup {None}
    BY <1>0, <1>2 DEF Gate, Contents
  <2>2. content \in Contents /\ content.support = gate
    BY <2>1 DEF Contents
  <2>3. Prepare(p, l, content)
    BY <1>2
  <2> HIDE DEF content
  <2> QED
    BY <1>2, <2>2, <2>3, PrepareInv
<1>3. ASSUME NEW l \in Divisions, NEW r \in RevisionsOf(l), PrepareDivision(p, l, r)
      PROVE  PublicationInv'
  BY <1>0, <1>2, <1>3 DEF PrepareDivision, MayPrepare, Prepared
<1>4. ASSUME NEW l \in Objects, NEW r \in RevisionsOf(l), PrepareObjects(p, l, r)
      PROVE  PublicationInv'
  BY <1>0, <1>2, <1>4 DEF PrepareObjects, MayPrepare, Prepared
<1>5. ASSUME NEW l \in Rasters, NEW r \in RevisionsOf(l), PrepareRaster(p, l, r)
      PROVE  PublicationInv'
  BY <1>0, <1>2, <1>5 DEF PrepareRaster, MayPrepare, Prepared
<1>6. ASSUME NEW l \in Collections, PrepareCollection(p, l)
      PROVE  PublicationInv'
  <2>1. Support \in Layers \ Collections
    BY <1>0
  <2> QED
    BY <1>0, <1>2, <1>6, <2>1 DEF PrepareCollection, MayPrepare, Prepared
<1> QED
  BY <1>1, <1>3, <1>4, <1>5, <1>6, AssembleInv, ReadCurrentInv, OpenVersionInv, GenerateInv,
     ReadPointerInv, StoreVersionInv, SwapPointerInv DEF CatalogStep

LEMMA StepInv == PublicationInv /\ [Next]_vars => PublicationInv'
<1> SUFFICES ASSUME PublicationInv, [Next]_vars PROVE PublicationInv'
  OBVIOUS
<1>1. ASSUME NEW p \in Processes, ShowcaseStep(p) PROVE PublicationInv'
  BY <1>1, ReadSessionInv, ReadDocumentInv, ReplaceDocumentInv, ReadIndexInv,
     ReadIndexTokenInv, AppendToIndexInv, OpenExampleInv, ShowRasterInv, ShowCollectionInv DEF ShowcaseStep
<1>2. ASSUME NEW p \in Processes, ExpiringStep(p) PROVE PublicationInv'
  BY <1>2, ReadViewInv, RenderViewInv, PutRecordInv, SetExpiryInv DEF ExpiringStep
<1>3. CASE UNCHANGED vars
  BY <1>3 DEF vars, PublicationInv, TypeOK
<1> QED
  BY <1>1, <1>2, <1>3, StartInv, CatalogStepInv, FailInv DEF Next

\* The processes' notes and places hold in every state.
THEOREM Invariance == Spec => []PublicationInv
BY InitInv, StepInv, PTL DEF Spec

\* Every object of the store holds data of its kind and every process, whatever
\* it does, keeps notes of the right kind.
THEOREM TypeCorrect == Spec => []TypeOK
<1>1. PublicationInv => TypeOK
  BY DEF PublicationInv
<1> QED
  BY Invariance, <1>1, PTL

\* However many ingestions and enrichments run and wherever each of them stops,
\* the pointer names a stored version and every stored version only mentions
\* Layers that are stored (publish_snapshot after the Layers are prepared).
THEOREM CatalogComplete == Spec => []CatalogIsComplete
<1>1. PublicationInv => CatalogIsComplete
  BY DEF PublicationInv, CatalogIsComplete, Complete, AllStored
<1> QED
  BY Invariance, <1>1, PTL

\* The objects, rasters and collections of a stored snapshot were gated by the
\* neighborhoods it contains, whatever the sources and concurrent ingestions did
\* (ShowcaseCatalogIngestion.ingest keeps the bytes it has read).
THEOREM OneCityPerSnapshot == Spec => []SnapshotsShareOneSupport
<1>1. PublicationInv => SnapshotsShareOneSupport
  BY DEF PublicationInv, SnapshotsShareOneSupport, OneSupport
<1> QED
  BY Invariance, <1>1, PTL

-----------------------------------------------------------------------------
(* Readers of the Catalog see a register. *)

LEMMA OnlySwapsMove ==
    ASSUME [Next]_vars
    PROVE  \/ \E p \in Processes : SwapPointer(p)
           \/ pointer' = pointer /\ versions \subseteq versions'
<1>1. ASSUME NEW p \in Processes, Start(p)
      PROVE  pointer' = pointer /\ versions' = versions
  BY <1>1 DEF Start, Begin, catalogVars
<1>2. ASSUME NEW p \in Processes, CatalogStep(p), ~SwapPointer(p)
      PROVE  pointer' = pointer /\ versions \subseteq versions'
  BY <1>2 DEF CatalogStep, PrepareSupport, PrepareObjects, PrepareRaster,
     PrepareDivision, PrepareCollection, Prepare, Assemble, ReadCurrent, OpenVersion, Generate,
     ReadPointer, StoreVersion, catalogVars
<1>3. ASSUME NEW p \in Processes, ShowcaseStep(p)
      PROVE  pointer' = pointer /\ versions' = versions
  BY <1>3 DEF ShowcaseStep, ReadSession, ReadDocument, ReplaceDocument, ReadIndex,
     ReadIndexToken, AppendToIndex, OpenExample, ShowRaster, ShowCollection, catalogVars
<1>4. ASSUME NEW p \in Processes, ExpiringStep(p) \/ Fail(p)
      PROVE  pointer' = pointer /\ versions' = versions
  BY <1>4 DEF ExpiringStep, ReadView, RenderView, PutRecord, SetExpiry, Fail, catalogVars
<1>5. CASE UNCHANGED vars
  BY <1>5 DEF vars
<1> QED
  BY <1>1, <1>2, <1>3, <1>4, <1>5 DEF Next

LEMMA SwapsReplaceReadable ==
    ASSUME PublicationInv, NEW p \in Processes, SwapPointer(p)
    PROVE  Register!Next \/ UNCHANGED Readable
<1>0. /\ proc[p] \in ProcessStates /\ Placed(proc[p])
      /\ Noted(proc[p], datasets, versions, pointer)
      /\ proc[p].at = "swap" /\ versions' = versions /\ versions \subseteq Versions
      /\ pointer.etag \in Nat
      /\ Stored(pointer) => pointer.data \in versions
  BY Facts DEF SwapPointer
<1> DEFINE v == proc[p].version
           base == proc[p].base
<1>1. /\ v \in versions /\ v \in Versions /\ Derived(v, base)
      /\ base # None => base \in versions /\ base \in Versions /\ Stored(pointer)
      /\ proc[p].etag = pointer.etag /\ base # None => pointer.data = base
  BY <1>0, VersionsAssumption DEF Noted
<1>2. CASE ~SwapAccepted(pointer, proc[p].etag)
  BY <1>0, <1>2 DEF SwapPointer, Readable
<1>3. CASE SwapAccepted(pointer, proc[p].etag)
  <2>1. pointer' = [data |-> v, etag |-> pointer.etag + 1]
    BY <1>3 DEF SwapPointer, Swap
  <2>2. Readable' = v
    BY <1>0, <1>1, <2>1 DEF Readable, Stored, Absent
  <2>3. CASE base = None
    <3>1. v.annotation = None
      BY <1>1, <2>3 DEF Derived
    <3>2. Readable' \in {w \in Versions : w.annotation = None}
      BY <1>1, <2>2, <3>1
    <3> QED
      BY <3>2 DEF Register!Next, Register!Ingest
  <2>4. CASE base # None
    <3>1. Readable = base
      BY <1>0, <1>1, <1>3, <2>4 DEF Readable, SwapAccepted
    <3>2. PICK a \in Annotations : v = [base EXCEPT !.annotation = a]
      BY <1>1, <2>4 DEF Derived
    <3> QED
      BY <2>2, <2>4, <3>1, <3>2 DEF Register!Next, Register!Enrich
  <2> QED
    BY <2>3, <2>4
<1> QED
  BY <1>2, <1>3

LEMMA StepsOfRegister ==
    ASSUME PublicationInv, [Next]_vars
    PROVE  Register!Next \/ UNCHANGED Readable
<1>1. CASE \E p \in Processes : SwapPointer(p)
  BY <1>1, SwapsReplaceReadable
<1>2. CASE pointer' = pointer /\ versions \subseteq versions'
  BY <1>2 DEF PublicationInv, Readable
<1> QED
  BY <1>1, <1>2, OnlySwapsMove

\* CatalogReader.current behaves like a register that an ingestion sets to a
\* fresh snapshot and an enrichment to an annotated copy of what it replaces,
\* for any number of scripts that may stop anywhere (compare_and_swap after the
\* check of base_version).
THEOREM RegisterImplemented == Spec => ImplementsRegister
<1>1. Init => Register!Init
  <2>1. Init => Readable \in Versions \cup {None}
    BY InitInv DEF PublicationInv, TypeOK, Readable
  <2> QED
    BY <2>1 DEF Register!Init
<1>2. PublicationInv /\ [Next]_vars => [Register!Next]_Readable
  BY StepsOfRegister
<1> QED
  BY Invariance, <1>1, <1>2, PTL DEF Spec, ImplementsRegister, Register!Spec

-----------------------------------------------------------------------------
(* What a step changes, and what it leaves alone. *)

\* A process that has begun takes a step.
Works(p) == CatalogStep(p) \/ ShowcaseStep(p) \/ ExpiringStep(p) \/ Fail(p)

\* Where a publisher writes an example and lists it.
Appending == {"document", "replace", "list", "index", "append"}

\* The notes of a process that only a step about them touches.
Same(r, q) ==
    /\ r.op = q.op /\ r.about = q.about /\ r.base = q.base
    /\ r.view = q.view

\* A process goes on with what it has, or ends and forgets it.
Onward(r, q) ==
    \/ r.version = q.version /\ r.n = q.n /\ r.ids = q.ids
       /\ r.at \notin {"idle", "done", "failed"}
    \/ r.version = None /\ r.n = 1 /\ r.ids = <<>> /\ r.at \in {"done", "failed"}

LEMMA Moves ==
    ASSUME NEW q \in ProcessStates, NEW place, place # "idle"
    PROVE  /\ Moved(q, place).at = place
           /\ Same(Moved(q, place), q) /\ Onward(Moved(q, place), q)
<1>1. CASE place \in {"done", "failed"}
  <2> DEFINE m == Moved(q, place)
             nothing == Idle.layers
             ids == <<>>
  <2>1. m = [q EXCEPT !.at = place, !.layers = nothing, !.version = None,
                      !.etag = 0, !.n = 1, !.ids = ids]
    BY <1>1 DEF Moved
  <2> HIDE DEF m, nothing, ids
  <2>2. /\ m.at = place /\ m.op = q.op /\ m.about = q.about /\ m.base = q.base
        /\ m.view = q.view /\ m.version = None
        /\ m.n = 1 /\ m.ids = ids
    BY <2>1 DEF ProcessStates
  <2>3. /\ m.at = place /\ Same(m, q) /\ Onward(m, q)
    BY <1>1, <2>2 DEF Same, Onward, ids
  <2> QED
    BY <2>3 DEF m
<1>2. CASE place \notin {"done", "failed"}
  <2>1. Moved(q, place) = [q EXCEPT !.at = place]
    BY <1>2, Goes
  <2> QED
    BY <1>2, <2>1 DEF ProcessStates, Same, Onward
<1> QED
  BY <1>1, <1>2

\* A step that moves a process and does no more to it.
LEMMA GoesTo ==
    ASSUME PublicationInv, NEW p \in Processes, NEW place, place # "idle", GoTo(p, place)
    PROVE  /\ \A o \in Processes \ {p} : proc'[o] = proc[o]
           /\ proc'[p].at = place /\ Same(proc'[p], proc[p]) /\ Onward(proc'[p], proc[p])
<1>1. proc \in [Processes -> ProcessStates] /\ proc[p] \in ProcessStates
  BY Facts
<1>2. proc'[p] = Moved(proc[p], place) /\ \A o \in Processes \ {p} : proc'[o] = proc[o]
  BY <1>1 DEF GoTo
<1> QED
  BY <1>1, <1>2, Moves

\* The steps of the Catalog's writers and readers: no view, record, example or
\* index changes, nor what a process knows of them.
LEMMA CatalogChanges ==
    ASSUME PublicationInv, NEW p \in Processes, CatalogStep(p)
    PROVE  /\ \A o \in Processes \ {p} : proc'[o] = proc[o]
           /\ proc[p].at \notin {"idle", "expire", "done", "failed"} \cup Appending
           /\ proc'[p].at \notin {"idle", "example"} \cup Appending
           /\ proc'[p].op = proc[p].op /\ proc'[p].about = proc[p].about
           /\ proc'[p].view = proc[p].view
           /\ \/ proc'[p].n = proc[p].n /\ proc'[p].ids = proc[p].ids
              \/ proc'[p].n = 1 /\ proc'[p].ids = <<>> /\ proc'[p].at \in {"done", "failed"}
           /\ UNCHANGED <<examples, index, views, records, deadlines>>
<1>1. proc \in [Processes -> ProcessStates] /\ proc[p] \in ProcessStates
  BY Facts
<1> DEFINE Shape ==
           /\ \A o \in Processes \ {p} : proc'[o] = proc[o]
           /\ proc[p].at \notin {"idle", "expire", "done", "failed"} \cup Appending
           /\ proc'[p].at \notin {"idle", "example"} \cup Appending
           /\ proc'[p].op = proc[p].op /\ proc'[p].about = proc[p].about
           /\ proc'[p].view = proc[p].view
           /\ \/ proc'[p].n = proc[p].n /\ proc'[p].ids = proc[p].ids
              \/ proc'[p].n = 1 /\ proc'[p].ids = <<>> /\ proc'[p].at \in {"done", "failed"}
<1>2. UNCHANGED <<examples, index, views, records, deadlines>>
  BY DEF CatalogStep, PrepareSupport, PrepareDivision, PrepareObjects, PrepareRaster,
     PrepareCollection, Prepare, Assemble, ReadCurrent, OpenVersion, Generate, ReadPointer,
     StoreVersion, SwapPointer, showcaseVars, cacheVars
<1>3. ASSUME NEW place, GoTo(p, place), place \notin {"idle", "example"} \cup Appending,
             proc[p].at \notin {"idle", "expire", "done", "failed"} \cup Appending
      PROVE  Shape
  BY <1>3, GoesTo DEF Same, Onward
<1>4. ASSUME NEW l, NEW content, proc[p].at = "prepare", Prepare(p, l, content)
      PROVE  Shape
  BY <1>1, <1>4 DEF Prepare, ProcessStates, Appending
<1>5. ASSUME \/ \E r : PrepareSupport(p, r)
             \/ \E l, r : PrepareDivision(p, l, r)
             \/ \E l, r : PrepareObjects(p, l, r)
             \/ \E l, r : PrepareRaster(p, l, r)
             \/ \E l : PrepareCollection(p, l)
      PROVE  Shape
  <2>1. proc[p].at = "prepare" /\ \E l, content : Prepare(p, l, content)
    BY <1>5 DEF PrepareSupport, PrepareDivision, PrepareObjects, PrepareRaster,
       PrepareCollection, MayPrepare
  <2> QED
    BY <2>1, <1>4
<1>6. ASSUME Assemble(p) PROVE Shape
  BY <1>1, <1>6 DEF Assemble, ProcessStates, Appending
<1>7. ASSUME NEW a, Generate(p, a) PROVE Shape
  <2>1. proc[p].at = "generate" /\ proc[p].op = "enrich"
    BY <1>1, <1>7, Facts DEF Generate, Placed, PlacesOf, ProcessStates, Kinds
  <2> QED
    BY <1>1, <1>7, <2>1 DEF Generate, ProcessStates, Appending
<1>8. ASSUME ReadCurrent(p) PROVE Shape
  <2>1. CASE Stored(pointer)
    BY <1>1, <1>8, <2>1 DEF ReadCurrent, ProcessStates, Appending
  <2>2. CASE ~Stored(pointer)
    <3>1. GoTo(p, "failed") /\ proc[p].at = "current"
      BY <1>8, <2>2 DEF ReadCurrent, GoTo
    <3> QED
      BY <3>1, <1>3 DEF Appending
  <2> QED
    BY <2>1, <2>2
<1>9. ASSUME OpenVersion(p) PROVE Shape
  <2>1. proc[p].at = "open" /\ proc[p].op \in {"enrich", "publish", "layer"}
    BY <1>9, Facts DEF OpenVersion, Placed, PlacesOf, ProcessStates, Kinds
  <2>2. \E place \in {"failed", "generate", "view", "look"} : GoTo(p, place)
    BY <1>9, <2>1 DEF OpenVersion, AfterOpen
  <2> QED
    BY <2>1, <2>2, <1>3 DEF Appending
<1>10. ASSUME ReadPointer(p) PROVE Shape
  <2>1. CASE BaseIsCurrent(p)
    BY <1>1, <1>10, <2>1 DEF ReadPointer, ProcessStates, Appending
  <2>2. CASE ~BaseIsCurrent(p)
    <3>1. GoTo(p, "failed") /\ proc[p].at = "pointer"
      BY <1>10, <2>2 DEF ReadPointer, GoTo
    <3> QED
      BY <3>1, <1>3 DEF Appending
  <2> QED
    BY <2>1, <2>2
<1>11. ASSUME StoreVersion(p) \/ SwapPointer(p) PROVE Shape
  <2>1. proc[p].at \in {"store", "swap"} /\ \E place \in {"swap", "done", "failed"} : GoTo(p, place)
    BY <1>11 DEF StoreVersion, SwapPointer
  <2> QED
    BY <2>1, <1>3 DEF Appending
<1>12. Shape
  <2> HIDE DEF Shape
  <2> QED
    BY <1>5, <1>6, <1>7, <1>8, <1>9, <1>10, <1>11 DEF CatalogStep
<1> QED
  BY <1>2, <1>12

\* The steps of publishers and visitors: no view, record or deadline changes.
LEMMA ShowcaseChanges ==
    ASSUME PublicationInv, NEW p \in Processes, ShowcaseStep(p)
    PROVE  /\ \A o \in Processes \ {p} : proc'[o] = proc[o]
           /\ proc[p].at \notin {"idle", "expire", "done", "failed"}
           /\ proc'[p].at \notin {"idle", "expire"}
           /\ proc'[p].op = proc[p].op
           /\ proc'[p].about = proc[p].about \/ (proc[p].at = "look" /\ proc[p].op = "layer")
           /\ proc'[p].view = proc[p].view
           /\ UNCHANGED <<versions, pointer, views, records, deadlines>>
<1>1. proc \in [Processes -> ProcessStates] /\ proc[p] \in ProcessStates
  BY Facts
<1> DEFINE Shape ==
           /\ \A o \in Processes \ {p} : proc'[o] = proc[o]
           /\ proc[p].at \notin {"idle", "expire", "done", "failed"}
           /\ proc'[p].at \notin {"idle", "expire"}
           /\ proc'[p].op = proc[p].op
           /\ proc'[p].about = proc[p].about \/ (proc[p].at = "look" /\ proc[p].op = "layer")
           /\ proc'[p].view = proc[p].view
<1>2. UNCHANGED <<versions, pointer, views, records, deadlines>>
  BY DEF ShowcaseStep, ReadSession, ReadDocument, ReplaceDocument, ReadIndex, ReadIndexToken,
     AppendToIndex, OpenExample, ShowRaster, ShowCollection, catalogVars, cacheVars
<1>3. ASSUME NEW place, GoTo(p, place), place \notin {"idle", "expire"},
             proc[p].at \notin {"idle", "expire", "done", "failed"}
      PROVE  Shape
  BY <1>3, GoesTo DEF Same
<1>4. ASSUME ReadSession(p) \/ OpenExample(p) \/ \E l : ShowRaster(p, l) PROVE Shape
  <2>1. /\ proc[p].at \in {"session", "example", "look"}
        /\ \E place \in {"current", "done", "failed"} : GoTo(p, place)
    BY <1>4 DEF ReadSession, OpenExample, ShowRaster
  <2> QED
    BY <2>1, <1>3
<1>5. ASSUME ReadDocument(p) PROVE Shape
  BY <1>1, <1>5 DEF ReadDocument, ProcessStates
<1>6. ASSUME ReplaceDocument(p) PROVE Shape
  <2>1. CASE ~SwapAccepted(examples[proc[p].about][proc[p].n], proc[p].etag)
    <3>1. GoTo(p, "failed") /\ proc[p].at = "replace"
      BY <1>6, <2>1 DEF ReplaceDocument
    <3> QED
      BY <3>1, <1>3
  <2>2. CASE SwapAccepted(examples[proc[p].about][proc[p].n], proc[p].etag)
    BY <1>1, <1>6, <2>2 DEF ReplaceDocument, ProcessStates
  <2> QED
    BY <2>1, <2>2
<1>7. ASSUME ReadIndex(p) PROVE Shape
  <2>1. \/ \E place \in {"done", "example", "failed"} : GoTo(p, place)
        \/ proc' = [proc EXCEPT ![p].at = "index", ![p].ids = Listed]
    BY <1>7 DEF ReadIndex
  <2>2. proc[p].at = "list"
    BY <1>7 DEF ReadIndex
  <2>3. CASE proc' = [proc EXCEPT ![p].at = "index", ![p].ids = Listed]
    BY <1>1, <2>2, <2>3 DEF ProcessStates
  <2> QED
    BY <2>1, <2>2, <2>3, <1>3
<1>8. ASSUME ReadIndexToken(p) PROVE Shape
  BY <1>1, <1>8 DEF ReadIndexToken, ProcessStates
<1>9. ASSUME AppendToIndex(p) PROVE Shape
  <2>1. proc[p].at = "append" /\ \E place \in {"done", "failed"} : GoTo(p, place)
    BY <1>9 DEF AppendToIndex
  <2> QED
    BY <2>1, <1>3
<1>10. ASSUME NEW l, NEW day, ShowCollection(p, l, day) PROVE Shape
  <2>1. CASE <<l, proc[p].base.layers[l]>> \in datasets
    <3>1. proc[p].op = "layer"
      BY <1>10, Facts, Roles DEF ShowCollection
    <3> QED
      BY <1>1, <1>10, <2>1, <3>1 DEF ShowCollection, ProcessStates
  <2>2. CASE <<l, proc[p].base.layers[l]>> \notin datasets
    <3>1. GoTo(p, "failed") /\ proc[p].at = "look"
      BY <1>10, <2>2 DEF ShowCollection, GoTo
    <3> QED
      BY <3>1, <1>3
  <2> QED
    BY <2>1, <2>2
<1>11. Shape
  <2> HIDE DEF Shape
  <2> QED
    BY <1>4, <1>5, <1>6, <1>7, <1>8, <1>9, <1>10 DEF ShowcaseStep
<1> QED
  BY <1>2, <1>11

\* A process meets the stored view, or stores its own where none was.
Meets(p) ==
    LET s == proc[p].about IN
    /\ Stored(views'[s]) /\ proc'[p].view = views'[s].data
    /\ views' = [views EXCEPT ![s] = views'[s]]
    /\ Stored(views[s]) => views'[s] = views[s]
    /\ \/ Stored(views[s])
       \/ proc'[p].at = "expire"

\* The steps that read or write a view, a record or a deadline.
LEMMA ExpiringChanges ==
    ASSUME PublicationInv, NEW p \in Processes, ExpiringStep(p)
    PROVE  /\ \A o \in Processes \ {p} : proc'[o] = proc[o]
           /\ proc[p].at \notin {"idle", "done", "failed"}
           /\ proc[p].about \in Recipes
           /\ Same(proc'[p], [proc[p] EXCEPT !.view = proc'[p].view])
           /\ Onward(proc'[p], proc[p])
           /\ proc[p].at \notin Appending
           /\ proc'[p].at \notin {"example"} \cup (Appending \ {"document"})
           /\ UNCHANGED <<versions, pointer, examples, index>>
           /\ \/ proc'[p].view = proc[p].view /\ UNCHANGED views
              \/ proc[p].at \in {"view", "render"} /\ Meets(p)
<1>1. proc \in [Processes -> ProcessStates] /\ proc[p] \in ProcessStates /\ Placed(proc[p])
  BY Facts
<1>2. UNCHANGED <<versions, pointer, examples, index>>
  BY DEF ExpiringStep, ReadView, RenderView, PutRecord, SetExpiry, catalogVars, showcaseVars
<1> DEFINE Apart(q) ==
           /\ \A o \in Processes \ {p} : proc'[o] = proc[o]
           /\ proc[p].at \in {"view", "render", "put", "expire"}
           /\ proc[p].about \in Recipes
           /\ Same(proc'[p], q) /\ Onward(proc'[p], q)
           /\ proc'[p].at \in {"render", "expire", "document", "done", "failed"}
<1>3. ASSUME NEW place \in {"expire", "document", "done", "failed"}, GoTo(p, place),
             proc[p].at \in {"view", "render", "put", "expire"}
      PROVE  Apart(proc[p])
  BY <1>1, <1>3, Roles, GoesTo DEF Recipes
<1>4. ASSUME PutRecord(p) \/ SetExpiry(p)
      PROVE  Apart(proc[p]) /\ UNCHANGED views
  <2>1. /\ proc[p].at \in {"put", "expire"} /\ UNCHANGED views
        /\ \E place \in {"expire", "document", "done", "failed"} : GoTo(p, place)
    BY <1>4 DEF PutRecord, SetExpiry
  <2> QED
    BY <2>1, <1>3
<1>5. ASSUME ReadView(p), ~Stored(views[proc[p].about])
      PROVE  Apart(proc[p]) /\ UNCHANGED views
  BY <1>1, <1>5, Roles DEF ReadView, cacheVars, ProcessStates, Same, Onward
<1>6. ASSUME NEW r \in Renderings, RenderView(p, r), ~PutAccepted(views[proc[p].about], r)
      PROVE  Apart(proc[p]) /\ UNCHANGED views
  <2>1. GoTo(p, "failed") /\ UNCHANGED views /\ proc[p].at = "render"
    BY <1>6 DEF RenderView
  <2> QED
    BY <2>1, <1>3
<1> DEFINE seen == [proc[p] EXCEPT !.view = proc'[p].view]
<1>7. ASSUME ReadView(p), Stored(views[proc[p].about])
      PROVE  Apart(seen) /\ proc[p].at = "view" /\ Meets(p)
  <2> DEFINE q == [proc[p] EXCEPT !.view = views[proc[p].about].data]
             place == AfterView[proc[p].op]
  <2>1. proc[p].op \in {"publish", "render", "layer"} /\ proc[p].about \in Recipes /\ proc[p].at = "view"
    BY <1>1, <1>7, Roles DEF ReadView
  <2>2. views[proc[p].about].data \in Renderings
    BY <1>7, <2>1, Others DEF ObjectsOf, Stored, Absent
  <2>3. /\ q \in ProcessStates /\ q.op = proc[p].op
        /\ q.view = views[proc[p].about].data
    BY <1>1, <2>2 DEF ProcessStates
  <2>4. place \in {"document", "done"}
    BY <2>1 DEF AfterView
  <2>5. proc' = [proc EXCEPT ![p] = Moved(q, place)] /\ UNCHANGED views
    BY <1>1, <1>7 DEF ReadView, cacheVars
  <2>6. /\ proc'[p] = Moved(q, place) /\ \A o \in Processes \ {p} : proc'[o] = proc[o]
    BY <1>1, <2>5
  <2>7. /\ proc'[p].at = place /\ Same(proc'[p], q) /\ Onward(proc'[p], q)
    BY <2>3, <2>4, <2>6, Moves
  <2>8. proc'[p].view = q.view /\ seen = q
    BY <2>3, <2>7 DEF Same
  <2> HIDE DEF q, place
  <2>9. Apart(seen)
    BY <2>1, <2>4, <2>6, <2>7, <2>8
  <2>10. views' = [views EXCEPT ![proc[p].about] = views'[proc[p].about]]
    BY <2>1, <2>5, Others
  <2> QED
    BY <1>7, <2>1, <2>3, <2>5, <2>8, <2>9, <2>10 DEF Meets
<1>8. ASSUME NEW r \in Renderings, RenderView(p, r), PutAccepted(views[proc[p].about], r)
      PROVE  Apart(seen) /\ proc[p].at = "render" /\ Meets(p)
  <2> DEFINE s == proc[p].about
  <2>1. s \in Recipes /\ proc[p].at = "render"
    BY <1>1, <1>8, Roles DEF RenderView
  <2>2. proc' = [proc EXCEPT ![p].at = "expire", ![p].view = r]
    BY <1>8 DEF RenderView
  <2>3. views' = [views EXCEPT ![s] = Put(views[s], r)]
    BY <1>8, <2>1, Others DEF RenderView
  <2>4. views'[s] = Put(views[s], r) /\ views' = [views EXCEPT ![s] = views'[s]]
    BY <2>1, <2>3, Others
  <2>5. Stored(views'[s]) /\ views'[s].data = r /\ (Stored(views[s]) => views'[s] = views[s])
    BY <1>8, <2>4 DEF Put, PutAccepted, Stored, Absent
  <2>6. Apart(seen) /\ proc'[p].view = r /\ proc'[p].at = "expire"
    BY <1>1, <2>1, <2>2 DEF ProcessStates, Same, Onward
  <2> QED
    BY <2>1, <2>4, <2>5, <2>6 DEF Meets
<1>9. Apart(proc[p]) => Apart(seen) /\ proc'[p].view = proc[p].view
  BY <1>1 DEF Same, Onward, ProcessStates
<1>10. /\ Apart(seen)
       /\ \/ proc'[p].view = proc[p].view /\ UNCHANGED views
          \/ proc[p].at \in {"view", "render"} /\ Meets(p)
  <2> HIDE DEF Apart, seen
  <2> QED
    BY <1>4, <1>5, <1>6, <1>7, <1>8, <1>9 DEF ExpiringStep
<1>11. Onward(proc'[p], seen) => Onward(proc'[p], proc[p])
  BY <1>1 DEF Onward, ProcessStates
<1> QED
  BY <1>2, <1>10, <1>11 DEF Appending

\* A process that fails leaves the store as it is.
LEMMA FailChanges ==
    ASSUME PublicationInv, NEW p \in Processes, Fail(p)
    PROVE  /\ \A o \in Processes \ {p} : proc'[o] = proc[o]
           /\ proc[p].at \notin {"idle", "done", "failed"} /\ proc'[p].at = "failed"
           /\ Same(proc'[p], proc[p]) /\ Onward(proc'[p], proc[p])
           /\ UNCHANGED <<versions, pointer, examples, index, views, records, deadlines>>
BY GoesTo DEF Fail, catalogVars, showcaseVars, cacheVars

\* A process that has not begun knows nothing.
Fresh == \A p \in Processes : proc[p].at = "idle" => proc[p] = Idle

LEMMA Begins ==
    ASSUME PublicationInv, Fresh, NEW p \in Processes, Start(p)
    PROVE  /\ \A o \in Processes \ {p} : proc'[o] = proc[o]
           /\ proc[p].at = "idle" /\ proc[p] = Idle
           /\ proc'[p].at \in {"prepare", "current", "session", "view", "put", "list"}
           /\ proc'[p] = [Idle EXCEPT !.op = proc'[p].op, !.at = proc'[p].at,
                                      !.about = proc'[p].about]
           /\ UNCHANGED <<versions, pointer, examples, index, views, records, deadlines>>
<1>1. proc \in [Processes -> ProcessStates] /\ proc[p] \in ProcessStates
  BY Facts
<1>2. PICK op, place, s : Begin(p, op, place, s) /\
          place \in {"prepare", "current", "session", "view", "put", "list"}
  BY DEF Start
<1>3. /\ proc[p].at = "idle" /\ proc[p] = Idle
      /\ proc'[p] = [proc[p] EXCEPT !.op = op, !.at = place, !.about = s]
      /\ \A o \in Processes \ {p} : proc'[o] = proc[o]
  BY <1>1, <1>2 DEF Begin, Fresh
<1>4. proc'[p].op = op /\ proc'[p].at = place /\ proc'[p].about = s
  BY <1>1, <1>3 DEF ProcessStates
<1> QED
  BY <1>2, <1>3, <1>4 DEF Begin, catalogVars, showcaseVars, cacheVars

LEMMA FreshStep == PublicationInv /\ Fresh /\ [Next]_vars => Fresh'
<1> SUFFICES ASSUME PublicationInv, Fresh, [Next]_vars PROVE Fresh'
  OBVIOUS
<1>1. ASSUME NEW p \in Processes, Start(p) \/ Works(p)
      PROVE  proc'[p].at # "idle" /\ \A o \in Processes \ {p} : proc'[o] = proc[o]
  BY <1>1, Begins, CatalogChanges, ShowcaseChanges, ExpiringChanges, FailChanges
     DEF Works, Onward
<1>2. CASE UNCHANGED vars
  BY <1>2 DEF vars, Fresh
<1> QED
  BY <1>1, <1>2 DEF Next, Works, Fresh

LEMMA FreshFirst == Init => Fresh
BY DEF Init, Fresh

-----------------------------------------------------------------------------
(* The cached views and their deadlines. *)

\* A process has seen the view that is stored.
Agreed(q, stored) ==
    q.view # None => /\ q.about \in Recipes /\ Stored(stored[q.about])
                     /\ stored[q.about].data = q.view

ViewsInv == PublicationInv /\ Fresh /\ \A p \in Processes : Agreed(proc[p], views)

\* A stored view is never replaced.
LEMMA ViewsStay ==
    ASSUME PublicationInv, Fresh, NEW p \in Processes, Start(p) \/ Works(p)
    PROVE  /\ \A c \in Recipes : Stored(views[c]) => views'[c] = views[c]
           /\ \A o \in Processes \ {p} : proc'[o] = proc[o]
           /\ \/ proc'[p].view = proc[p].view /\ UNCHANGED views
                 /\ (proc'[p].about = proc[p].about \/ proc[p].view = None)
              \/ proc[p].at \in {"view", "render"} /\ Meets(p) /\ proc'[p].about = proc[p].about
                 /\ proc[p].about \in Recipes
<1>0. views \in [Recipes -> ObjectsOf(Renderings)]
  BY Others
<1>1. CASE Start(p)
  <2> DEFINE r == proc'[p]
             q == [Idle EXCEPT !.op = r.op, !.at = r.at, !.about = r.about]
  <2>1. q.view = Idle.view
    BY DEF Idle
  <2>2. proc[p] = Idle /\ proc'[p] = q
    BY <1>1, Begins
  <2>3. proc'[p].view = proc[p].view /\ proc[p].view = None
    BY <2>1, <2>2 DEF Idle
  <2> QED
    BY <1>1, <2>3, Begins
<1>2. CASE CatalogStep(p)
  BY <1>2, CatalogChanges
<1>3. CASE ShowcaseStep(p)
  <2>1. proc[p].at = "look" /\ proc[p].op = "layer" => proc[p].view = None
    BY Facts DEF Placed
  <2> QED
    BY <1>3, <2>1, ShowcaseChanges
<1>4. CASE Fail(p)
  BY <1>4, FailChanges DEF Same
<1>5. CASE ExpiringStep(p)
  <2>1. proc[p] \in ProcessStates
    BY Facts
  <2>2. proc'[p].about = proc[p].about
    BY <1>5, <2>1, ExpiringChanges DEF Same, ProcessStates
  <2>3. \A c \in Recipes : Stored(views[c]) => views'[c] = views[c]
    BY <1>0, <1>5, ExpiringChanges DEF Meets
  <2> QED
    BY <1>5, <2>2, <2>3, ExpiringChanges
<1> QED
  BY <1>1, <1>2, <1>3, <1>4, <1>5 DEF Works

LEMMA ViewsStep == ViewsInv /\ [Next]_vars => ViewsInv'
<1> SUFFICES ASSUME ViewsInv, [Next]_vars PROVE ViewsInv'
  OBVIOUS
<1>0. PublicationInv /\ Fresh /\ PublicationInv' /\ Fresh'
  BY StepInv, FreshStep DEF ViewsInv
<1>1. CASE UNCHANGED vars
  BY <1>0, <1>1 DEF vars, ViewsInv, Agreed
<1>2. ASSUME NEW p \in Processes, Start(p) \/ Works(p), NEW o \in Processes
      PROVE  Agreed(proc'[o], views')
  <2>1. CASE o # p
    BY <1>0, <1>2, <2>1, ViewsStay DEF ViewsInv, Agreed
  <2>2. CASE o = p /\ proc[p].view = None /\ proc'[p].view = proc[p].view
    BY <2>2 DEF Agreed
  <2>3. CASE o = p /\ Meets(p) /\ proc'[p].about = proc[p].about
             /\ proc[p].about \in Recipes
    BY <2>3 DEF Meets, Agreed
  <2>4. CASE o = p /\ proc'[p].view = proc[p].view /\ UNCHANGED views
             /\ proc'[p].about = proc[p].about
    BY <2>4 DEF ViewsInv, Agreed
  <2> QED
    BY <1>0, <1>2, <2>1, <2>2, <2>3, <2>4, ViewsStay
<1> QED
  BY <1>0, <1>1, <1>2 DEF Next, Works, ViewsInv

LEMMA ViewsFirst == Init => ViewsInv
<1>1. Init => \A p \in Processes : Agreed(proc[p], views)
  BY DEF Init, Idle, Agreed
<1> QED
  BY <1>1, InitInv, FreshFirst DEF ViewsInv

\* Whoever renders one recipe, or publishes the session it belongs to, has the
\* view that is stored, however often Earth Engine was asked: put_immutable
\* refuses the second of two different renderings (cached_descriptor_view).
THEOREM ViewsShared == Spec => []ViewsAgree
<1>1. ViewsInv => ViewsAgree
  BY DEF ViewsInv, ViewsAgree, Agreed
<1> QED
  BY <1>1, ViewsFirst, ViewsStep, PTL DEF Spec

\* A view without a deadline has one who is to set it, or was stopped there.
ViewOwed(s, states) ==
    \E p \in Processes :
        /\ states[p].about = s /\ states[p].op # "record"
        /\ states[p].view # None /\ states[p].at \in {"expire", "failed"}

RecordOwed(s, states, stored) ==
    \E p \in Processes :
        /\ states[p].about = s /\ states[p].op = "record"
        /\ stored[s].data = p /\ states[p].at \in {"expire", "failed"}

DeadlinesInv == ViewsInv /\ DeadlinesAreOwed

\* Who is to set a deadline sets it, or is stopped there for good.
LEMMA OwnersStay ==
    ASSUME PublicationInv, Fresh, NEW p \in Processes, Start(p) \/ Works(p),
           NEW o \in Processes, proc[o].at \in {"expire", "failed"}
    PROVE  \/ proc'[o] = proc[o]
           \/ o = p /\ SetExpiry(p)
           \/ /\ o = p /\ Same(proc'[o], proc[o]) /\ proc'[o].at = "failed"
              /\ UNCHANGED <<views, records, deadlines>>
<1>1. CASE o # p
  BY <1>1, Begins, CatalogChanges, ShowcaseChanges, ExpiringChanges, FailChanges DEF Works
<1>2. CASE o = p
  <2>1. CASE ExpiringStep(p)
    <3>1. proc[p].at = "expire"
      BY <1>2, <2>1, ExpiringChanges
    <3> QED
      BY <1>2, <2>1, <3>1 DEF ExpiringStep, ReadView, RenderView, PutRecord
  <2>2. CASE Fail(p)
    BY <1>2, <2>2, FailChanges
  <2> QED
    BY <1>2, <2>1, <2>2, Begins, CatalogChanges, ShowcaseChanges DEF Works
<1> QED
  BY <1>1, <1>2

\* Records and deadlines are written by those who put a record or a deadline.
LEMMA DeadlinesGrow ==
    ASSUME PublicationInv, Fresh, NEW p \in Processes, Start(p) \/ Works(p)
    PROVE  /\ deadlines \subseteq deadlines'
           /\ UNCHANGED records \/ PutRecord(p)
<1>1. CASE ExpiringStep(p)
  BY <1>1 DEF ExpiringStep, ReadView, RenderView, PutRecord, SetExpiry, cacheVars
<1> QED
  BY <1>1, Begins, CatalogChanges, ShowcaseChanges, FailChanges DEF Works

\* Whoever puts a record holds it and goes on to its deadline.
LEMMA RecordPut ==
    ASSUME PublicationInv, NEW p \in Processes, PutRecord(p), NEW s \in Sessions
    PROVE  \/ records'[s] = records[s]
           \/ /\ proc'[p].about = s /\ proc'[p].op = "record"
              /\ records'[s].data = p /\ proc'[p].at = "expire"
<1>1. /\ proc[p] \in ProcessStates /\ Placed(proc[p]) /\ proc[p].at = "put"
      /\ records \in [Sessions -> ObjectsOf(Processes)]
  BY Facts, Others DEF PutRecord
<1>2. proc[p].op = "record" /\ proc[p].about \in Sessions
  BY <1>1, Roles
<1>3. CASE ~PutAccepted(records[proc[p].about], p)
  BY <1>3 DEF PutRecord
<1>4. CASE PutAccepted(records[proc[p].about], p)
  <2>1. /\ records' = [records EXCEPT ![proc[p].about] = Put(records[proc[p].about], p)]
        /\ GoTo(p, "expire")
    BY <1>1, <1>2, <1>4 DEF PutRecord
  <2>2. Put(records[proc[p].about], p).data = p
    BY <1>4 DEF Put, PutAccepted
  <2>3. proc'[p].at = "expire" /\ proc'[p].op = "record" /\ proc'[p].about = proc[p].about
    BY <1>2, <2>1, GoesTo DEF Same
  <2> QED
    BY <1>1, <1>2, <2>1, <2>2, <2>3
<1> QED
  BY <1>3, <1>4

LEMMA DeadlinesStep ==
    ASSUME DeadlinesInv, [Next]_vars
    PROVE  DeadlinesAreOwed'
<1>0. /\ PublicationInv /\ Fresh /\ DeadlinesAreOwed /\ PublicationInv' /\ ViewsInv
      /\ proc \in [Processes -> ProcessStates] /\ proc' \in [Processes -> ProcessStates]
      /\ views' \in [Recipes -> ObjectsOf(Renderings)]
  BY StepInv DEF DeadlinesInv, ViewsInv, PublicationInv, TypeOK
<1>1. CASE UNCHANGED vars
  <2>1. UNCHANGED <<proc, views, records, deadlines>>
    BY <1>1 DEF vars
  <2>2. ASSUME NEW s \in Recipes, Stored(views'[s]), <<"view", s>> \notin deadlines'
        PROVE  ViewOwed(s, proc')
    BY <1>0, <2>1, <2>2 DEF DeadlinesAreOwed, ViewOwed
  <2>3. ASSUME NEW s \in Sessions, Stored(records'[s]), <<"record", s>> \notin deadlines'
        PROVE  RecordOwed(s, proc', records')
    BY <1>0, <2>1, <2>3 DEF DeadlinesAreOwed, RecordOwed
  <2> QED
    BY <2>2, <2>3 DEF DeadlinesAreOwed, ViewOwed, RecordOwed
<1>2. ASSUME NEW p \in Processes, Start(p) \/ Works(p), NEW s \in Recipes,
             Stored(views'[s]), <<"view", s>> \notin deadlines'
      PROVE  ViewOwed(s, proc')
  <2>0. deadlines \subseteq deadlines'
    BY <1>0, <1>2, DeadlinesGrow
  <2>1. CASE Stored(views[s])
    <3>1. PICK o \in Processes :
              /\ proc[o].about = s /\ proc[o].op # "record"
              /\ proc[o].view # None /\ proc[o].at \in {"expire", "failed"}
      BY <1>0, <1>2, <2>0, <2>1 DEF DeadlinesAreOwed
    <3>2. ~(o = p /\ SetExpiry(p))
      BY <1>2, <3>1 DEF SetExpiry, Kept
    <3>3. /\ proc'[o].about = s /\ proc'[o].op # "record"
          /\ proc'[o].view # None /\ proc'[o].at \in {"expire", "failed"}
      BY <1>0, <1>2, <3>1, <3>2, OwnersStay DEF Same
    <3> QED
      BY <3>3 DEF ViewOwed
  <2>2. CASE ~Stored(views[s])
    <3>1. /\ Meets(p) /\ proc[p].about \in Recipes /\ proc[p].at \in {"view", "render"}
          /\ proc'[p].about = proc[p].about
      BY <1>0, <1>2, <2>2, ViewsStay
    <3>2. proc[p].about = s
      BY <1>0, <1>2, <2>2, <3>1, Others DEF Meets
    <3>3. proc'[p].at = "expire" /\ proc'[p].view = views'[s].data
      BY <2>2, <3>1, <3>2 DEF Meets
    <3>4. proc'[p].view # None
      BY <1>0, <1>2, <3>3, PublicationAssumption DEF ObjectsOf, Stored, Absent
    <3>5. proc'[p].op # "record"
      <4>1. proc[p].op # "record"
        BY <1>0, <3>1, Facts, Roles
      <4>2. ExpiringStep(p) => proc'[p].op = proc[p].op
        BY <1>0, ExpiringChanges DEF Same, ProcessStates
      <4> QED
        BY <1>0, <1>2, <3>1, <4>1, <4>2, Begins, CatalogChanges, ShowcaseChanges, FailChanges
           DEF Works, Same
    <3> QED
      BY <3>1, <3>2, <3>3, <3>4, <3>5 DEF ViewOwed
  <2> QED
    BY <2>1, <2>2
<1>3. ASSUME NEW p \in Processes, Start(p) \/ Works(p), NEW s \in Sessions,
             Stored(records'[s]), <<"record", s>> \notin deadlines'
      PROVE  RecordOwed(s, proc', records')
  <2>0. deadlines \subseteq deadlines' /\ (records' = records \/ PutRecord(p))
    BY <1>0, <1>3, DeadlinesGrow
  <2>1. CASE records'[s] = records[s]
    <3>1. PICK o \in Processes :
              /\ proc[o].about = s /\ proc[o].op = "record"
              /\ records[s].data = o /\ proc[o].at \in {"expire", "failed"}
      BY <1>0, <1>3, <2>0, <2>1 DEF DeadlinesAreOwed
    <3>2. ~(o = p /\ SetExpiry(p))
      BY <1>3, <3>1 DEF SetExpiry, Kept
    <3>3. /\ proc'[o].about = s /\ proc'[o].op = "record"
          /\ proc'[o].at \in {"expire", "failed"}
      BY <1>0, <1>3, <3>1, <3>2, OwnersStay DEF Same
    <3> QED
      BY <2>1, <3>1, <3>3 DEF RecordOwed
  <2>2. CASE records'[s] # records[s]
    BY <1>0, <2>0, <2>2, RecordPut DEF RecordOwed
  <2> QED
    BY <2>1, <2>2
<1>4. CASE \E p \in Processes : Start(p) \/ Works(p)
  BY <1>2, <1>3, <1>4 DEF DeadlinesAreOwed, ViewOwed, RecordOwed
<1> QED
  BY <1>1, <1>4 DEF Next, Works

\* A cached view or a record never outlives its deadline by being stored without
\* one, unless the process that stored it was stopped before it set the deadline
\* (cached_descriptor_view, _put_expiring): no interleaving of the others loses it.
THEOREM DeadlinesSet == Spec => []DeadlinesAreOwed
<1>1. Init => DeadlinesAreOwed
  BY DEF Init, DeadlinesAreOwed, Stored
<1>2. DeadlinesInv /\ [Next]_vars => DeadlinesInv'
  BY DeadlinesStep, ViewsStep DEF DeadlinesInv
<1>3. DeadlinesInv => DeadlinesAreOwed
  BY DEF DeadlinesInv
<1>4. Init => DeadlinesInv
  BY <1>1, ViewsFirst DEF DeadlinesInv
<1> QED
  BY <1>2, <1>3, <1>4, PTL DEF Spec

-----------------------------------------------------------------------------
(* Worked examples and the index that lists them. *)

\* All documents of the example are there.
There(s, objects) == \A n \in 1 .. Documents : Stored(objects[s][n])

\* An index that lists complete examples, each of them once.
Good(ids, objects) ==
    /\ \A i \in DOMAIN ids : There(ids[i], objects)
    /\ \A i, j \in DOMAIN ids : ids[i] = ids[j] => i = j

\* A publisher has written the documents before the one it is at, all of them
\* before it reads the index, and appends to an index that is good without it;
\* a visitor opens an example that has them all.
Advanced(q, objects) ==
    /\ q.at \notin Appending \/ q.op # "publish" => q.n = 1
    /\ q.at \in {"document", "replace"} =>
           \A m \in 1 .. q.n - 1 : Stored(objects[q.about][m])
    /\ q.op = "publish" /\ q.at \in {"list", "index", "append"} =>
           There(q.about, objects)
    /\ q.at \in {"index", "append"} => Good(q.ids, objects) /\ ~Lists(q.ids, q.about)
    /\ q.at = "example" => There(q.about, objects)

ShowcaseInv ==
    /\ PublicationInv /\ Fresh
    /\ Good(Listed, examples)
    /\ \A p \in Processes : Advanced(proc[p], examples)

LEMMA AppendGood ==
    ASSUME NEW ids \in Seq(Sessions), NEW s \in Sessions, NEW objects,
           Good(ids, objects), There(s, objects), ~Lists(ids, s)
    PROVE  Good(Append(ids, s), objects)
<1> DEFINE more == Append(ids, s)
<1>1. /\ DOMAIN ids = 1 .. Len(ids) /\ Len(ids) \in Nat
      /\ DOMAIN more = 1 .. Len(ids) + 1
      /\ \A i \in 1 .. Len(ids) : more[i] = ids[i]
      /\ more[Len(ids) + 1] = s
  BY AppendProperties
<1> HIDE DEF more
<1>2. \A i \in DOMAIN more : i \in DOMAIN ids \/ i = Len(ids) + 1
  BY <1>1
<1>3. \A i \in DOMAIN ids : ids[i] # s
  BY DEF Lists
<1> QED
  BY <1>1, <1>2, <1>3 DEF Good, more

\* No document is ever deleted.
LEMMA DocumentsStay ==
    ASSUME PublicationInv, Fresh, NEW p \in Processes, Start(p) \/ Works(p)
    PROVE  /\ \A s \in Sessions : \A n \in 1 .. Documents :
                  Stored(examples[s][n]) => Stored(examples'[s][n])
           /\ UNCHANGED examples \/ ReplaceDocument(p)
           /\ UNCHANGED index \/ AppendToIndex(p)
<1>1. UNCHANGED examples \/ ReplaceDocument(p)
  <2>1. CASE ShowcaseStep(p)
    BY <2>1 DEF ShowcaseStep, ReadSession, ReadDocument, ReadIndex, ReadIndexToken,
       AppendToIndex, OpenExample, ShowRaster, ShowCollection, showcaseVars
  <2> QED
    BY <2>1, Begins, CatalogChanges, ExpiringChanges, FailChanges DEF Works
<1>2. UNCHANGED index \/ AppendToIndex(p)
  <2>1. CASE ShowcaseStep(p)
    BY <2>1 DEF ShowcaseStep, ReadSession, ReadDocument, ReplaceDocument, ReadIndex,
       ReadIndexToken, OpenExample, ShowRaster, ShowCollection, showcaseVars
  <2> QED
    BY <2>1, Begins, CatalogChanges, ExpiringChanges, FailChanges DEF Works
<1>3. ASSUME ReplaceDocument(p), NEW s \in Sessions, NEW n \in 1 .. Documents,
             Stored(examples[s][n])
      PROVE  Stored(examples'[s][n])
  <2>1. /\ examples \in [Sessions -> [1 .. Documents -> ObjectsOf(Versions)]]
        /\ examples[s][n].etag \in Nat
    BY Facts, Others
  <2>2. Stored(Swap(examples[s][n], proc[p].base))
    BY <2>1 DEF Swap, Stored, Absent
  <2> DEFINE o == proc[p].about
             m == proc[p].n
  <2>3. \/ UNCHANGED examples
        \/ examples' = [examples EXCEPT ![o][m] = Swap(examples[o][m], proc[p].base)]
    <3>1. o \in Sessions /\ m \in 1 .. Documents
      BY <1>3, Facts, Roles DEF ReplaceDocument, ProcessStates
    <3> QED
      BY <1>3, <2>1, <3>1 DEF ReplaceDocument
  <2> QED
    BY <1>3, <2>1, <2>2, <2>3
<1> QED
  BY <1>1, <1>2, <1>3

LEMMA StillGood ==
    ASSUME NEW ids \in Seq(Sessions), NEW objects, NEW more, Good(ids, objects),
           \A s \in Sessions : There(s, objects) => There(s, more)
    PROVE  Good(ids, more)
<1>1. \A i \in DOMAIN ids : ids[i] \in Sessions
  BY ElementOfSeq, LenProperties
<1> QED
  BY <1>1 DEF Good

LEMMA StillAdvanced ==
    ASSUME NEW q \in ProcessStates, Placed(q), NEW objects, NEW more, Advanced(q, objects),
           \A s \in Sessions : \A n \in 1 .. Documents :
               Stored(objects[s][n]) => Stored(more[s][n])
    PROVE  Advanced(q, more)
<1>1. \A s \in Sessions : There(s, objects) => There(s, more)
  BY DEF There
<1>2. /\ q.at \in Appending \cup {"example"} => q.about \in Sessions
      /\ q.n \in 1 .. Documents /\ q.ids \in Seq(Sessions)
  BY Roles DEF ProcessStates, Appending
<1>3. ASSUME q.at \in {"document", "replace"}, NEW m \in 1 .. q.n - 1
      PROVE  Stored(more[q.about][m])
  <2>1. m \in 1 .. Documents /\ q.about \in Sessions
    BY <1>2, <1>3, PublicationAssumption DEF Appending
  <2> QED
    BY <1>3, <2>1 DEF Advanced
<1>4. q.op = "publish" /\ q.at \in {"list", "index", "append"} => There(q.about, more)
  BY <1>1, <1>2 DEF Advanced, Appending
<1>5. q.at \in {"index", "append"} => Good(q.ids, more) /\ ~Lists(q.ids, q.about)
  BY <1>1, <1>2, StillGood DEF Advanced
<1>6. q.at = "example" => There(q.about, more)
  BY <1>1, <1>2 DEF Advanced
<1> QED
  BY <1>3, <1>4, <1>5, <1>6 DEF Advanced

\* A process that is not writing an example, or has ended.
LEMMA AdvancedAside ==
    ASSUME NEW q, NEW objects, q.at \notin {"example"} \cup Appending, q.n = 1
    PROVE  Advanced(q, objects)
BY DEF Advanced, Appending

LEMMA CatalogAdvanced ==
    ASSUME ShowcaseInv, NEW p \in Processes, CatalogStep(p)
    PROVE  Advanced(proc'[p], examples')
<1>1. proc[p].n = 1
  BY CatalogChanges DEF ShowcaseInv, Advanced
<1>2. proc'[p].at \notin {"example"} \cup Appending /\ proc'[p].n = 1
  BY <1>1, CatalogChanges DEF ShowcaseInv
<1> QED
  BY <1>2, AdvancedAside

LEMMA ExpiringAdvanced ==
    ASSUME ShowcaseInv, NEW p \in Processes, ExpiringStep(p)
    PROVE  Advanced(proc'[p], examples')
<1>1. proc[p].n = 1
  BY ExpiringChanges DEF ShowcaseInv, Advanced
<1>2. proc'[p].at \notin {"example"} \cup (Appending \ {"document"}) /\ proc'[p].n = 1
  BY <1>1, ExpiringChanges DEF ShowcaseInv, Onward
<1> QED
  BY <1>2 DEF Advanced, Appending

\* A process that ends, or goes where no example is written.
LEMMA LeavesAdvanced ==
    ASSUME ShowcaseInv, NEW p \in Processes, NEW place, GoTo(p, place),
           place \notin {"idle", "example"} \cup Appending,
           place \in {"done", "failed"} \/ proc[p].n = 1
    PROVE  Advanced(proc'[p], examples')
<1>1. proc'[p].at = place /\ proc'[p].n = 1
  BY GoesTo DEF ShowcaseInv, Onward
<1> QED
  BY <1>1, AdvancedAside

LEMMA ReplaceAdvanced ==
    ASSUME ShowcaseInv, NEW p \in Processes, ReplaceDocument(p)
    PROVE  Advanced(proc'[p], examples')
<1> DEFINE s == proc[p].about
           n == proc[p].n
<1>1. /\ PublicationInv /\ Fresh /\ proc[p].at = "replace" /\ proc[p] \in ProcessStates
      /\ proc \in [Processes -> ProcessStates] /\ Placed(proc[p])
      /\ Advanced(proc[p], examples)
  BY Facts DEF ShowcaseInv, ReplaceDocument
<1>2. /\ s \in Sessions /\ n \in 1 .. Documents /\ proc[p].op = "publish"
      /\ examples \in [Sessions -> [1 .. Documents -> ObjectsOf(Versions)]]
      /\ examples[s][n].etag \in Nat
  BY <1>1, Roles, Facts, Others DEF ProcessStates
<1>3. CASE ~SwapAccepted(examples[s][n], proc[p].etag)
  <2>1. GoTo(p, "failed")
    BY <1>3 DEF ReplaceDocument
  <2> QED
    BY <2>1, LeavesAdvanced DEF Appending
<1>4. CASE SwapAccepted(examples[s][n], proc[p].etag)
  <2>1. examples' = [examples EXCEPT ![s][n] = Swap(examples[s][n], proc[p].base)]
    BY <1>2, <1>4 DEF ReplaceDocument
  <2>2. Stored(examples'[s][n])
    <3>1. Stored(Swap(examples[s][n], proc[p].base))
      BY <1>2 DEF Swap, Stored, Absent
    <3>2. examples'[s][n] = Swap(examples[s][n], proc[p].base)
      BY <1>2, <2>1
    <3> QED
      BY <3>1, <3>2
  <2>3. \A m \in 1 .. n : Stored(examples'[s][m])
    <3>1. \A m \in 1 .. n - 1 : m \in 1 .. Documents /\ Stored(examples[s][m])
      BY <1>1, <1>2, PublicationAssumption DEF Advanced
    <3>2. \A m \in 1 .. n - 1 : Stored(examples'[s][m])
      BY <1>1, <1>2, <3>1, DocumentsStay DEF Works, ShowcaseStep
    <3>3. \A m \in 1 .. n : m \in 1 .. n - 1 \/ m = n
      BY <1>2
    <3> QED
      BY <2>2, <3>2, <3>3
  <2>4. CASE n < Documents
    <3>1. /\ proc'[p].at = "document" /\ proc'[p].n = n + 1 /\ proc'[p].about = s
          /\ proc'[p].op = "publish"
      BY <1>1, <1>2, <1>4, <2>4 DEF ReplaceDocument, ProcessStates
    <3>2. proc'[p].n - 1 = n
      BY <1>2, <3>1
    <3> QED
      BY <2>3, <3>1, <3>2 DEF Advanced, Appending
  <2>5. CASE ~(n < Documents)
    <3>1. /\ proc'[p].at = "list" /\ proc'[p].about = s /\ proc'[p].op = "publish"
      BY <1>1, <1>2, <1>4, <2>5 DEF ReplaceDocument, ProcessStates
    <3>2. n = Documents
      BY <1>2, <2>5, PublicationAssumption
    <3>3. There(s, examples')
      BY <2>3, <3>2 DEF There
    <3> QED
      BY <3>1, <3>3 DEF Advanced, Appending
  <2> QED
    BY <2>4, <2>5
<1> QED
  BY <1>3, <1>4

LEMMA ReadIndexAdvanced ==
    ASSUME ShowcaseInv, NEW p \in Processes, ReadIndex(p)
    PROVE  Advanced(proc'[p], examples')
<1>1. /\ proc[p].at = "list" /\ proc[p] \in ProcessStates
      /\ proc \in [Processes -> ProcessStates] /\ Placed(proc[p])
      /\ Advanced(proc[p], examples) /\ examples' = examples /\ Good(Listed, examples)
  BY Facts DEF ShowcaseInv, ReadIndex, showcaseVars
<1>2. proc[p].op \in {"publish", "visit"}
  BY <1>1, Roles
<1>3. \/ \E place \in {"done", "failed"} : GoTo(p, place)
      \/ proc[p].op = "visit" /\ GoTo(p, "example")
      \/ /\ proc[p].op = "publish" /\ ~Lists(Listed, proc[p].about)
         /\ proc' = [proc EXCEPT ![p].at = "index", ![p].ids = Listed]
  BY <1>2 DEF ReadIndex
<1>4. CASE \E place \in {"done", "failed"} : GoTo(p, place)
  BY <1>4, LeavesAdvanced DEF Appending
<1>5. CASE proc[p].op = "visit" /\ GoTo(p, "example")
  <2>1. proc[p].n = 1 /\ Lists(Listed, proc[p].about)
    BY <1>1, <1>5, GoesTo DEF Advanced, ReadIndex, ShowcaseInv
  <2>2. There(proc[p].about, examples)
    BY <1>1, <2>1 DEF Good, Lists
  <2>3. /\ proc'[p].at = "example" /\ proc'[p].n = 1
        /\ proc'[p].about = proc[p].about
    BY <1>5, <2>1, GoesTo DEF ShowcaseInv, Onward, Same
  <2> QED
    BY <1>1, <2>2, <2>3 DEF Advanced, Appending
<1>6. CASE /\ proc[p].op = "publish" /\ ~Lists(Listed, proc[p].about)
           /\ proc' = [proc EXCEPT ![p].at = "index", ![p].ids = Listed]
  <2> DEFINE ids == Listed
  <2> HIDE DEF ids
  <2>1. ~Lists(ids, proc[p].about) /\ Good(ids, examples)
    BY <1>1, <1>6 DEF ids
  <2>2. proc' = [proc EXCEPT ![p].at = "index", ![p].ids = ids]
    BY <1>6 DEF ids
  <2>3. /\ proc'[p].at = "index" /\ proc'[p].ids = ids /\ proc'[p].op = "publish"
        /\ proc'[p].about = proc[p].about
    BY <1>1, <1>6, <2>2 DEF ProcessStates
  <2>4. There(proc[p].about, examples)
    BY <1>1, <1>6 DEF Advanced
  <2> QED
    BY <1>1, <2>1, <2>3, <2>4 DEF Advanced, Appending
<1> QED
  BY <1>3, <1>4, <1>5, <1>6

LEMMA ShowcaseAdvanced ==
    ASSUME ShowcaseInv, NEW p \in Processes, ShowcaseStep(p)
    PROVE  Advanced(proc'[p], examples')
<1>0. /\ PublicationInv /\ proc[p] \in ProcessStates
      /\ proc \in [Processes -> ProcessStates] /\ Placed(proc[p])
      /\ Advanced(proc[p], examples)
  BY Facts DEF ShowcaseInv
<1>1. CASE ReadSession(p) \/ OpenExample(p) \/ \E l : ShowRaster(p, l)
  <2>1. /\ proc[p].at \in {"session", "example", "look"}
        /\ \E place \in {"current", "done", "failed"} : GoTo(p, place)
    BY <1>1 DEF ReadSession, OpenExample, ShowRaster
  <2>2. proc[p].n = 1
    BY <1>0, <2>1 DEF Advanced, Appending
  <2> QED
    BY <2>1, <2>2, LeavesAdvanced DEF Appending
<1>2. CASE ReadDocument(p)
  <2>1. /\ proc[p].at = "document" /\ proc'[p].at = "replace" /\ proc'[p].n = proc[p].n
        /\ proc'[p].about = proc[p].about /\ proc'[p].op = proc[p].op
        /\ examples' = examples
    BY <1>0, <1>2 DEF ReadDocument, showcaseVars, ProcessStates
  <2> QED
    BY <1>0, <2>1 DEF Advanced, Appending
<1>3. CASE ReadIndexToken(p)
  <2>1. /\ proc[p].at = "index" /\ proc'[p].at = "append" /\ proc'[p].n = proc[p].n
        /\ proc'[p].about = proc[p].about /\ proc'[p].op = proc[p].op
        /\ proc'[p].ids = proc[p].ids /\ examples' = examples
    BY <1>0, <1>3 DEF ReadIndexToken, showcaseVars, ProcessStates
  <2> QED
    BY <1>0, <2>1 DEF Advanced, Appending
<1>4. CASE AppendToIndex(p)
  <2>1. \E place \in {"done", "failed"} : GoTo(p, place)
    BY <1>4 DEF AppendToIndex
  <2> QED
    BY <2>1, LeavesAdvanced DEF Appending
<1>5. ASSUME NEW l, NEW day, ShowCollection(p, l, day)
      PROVE  Advanced(proc'[p], examples')
  <2>1. proc[p].at = "look" /\ proc[p].n = 1
    BY <1>0, <1>5 DEF ShowCollection, Advanced, Appending
  <2>2. CASE <<l, proc[p].base.layers[l]>> \in datasets
    <3>1. proc'[p].at = "view" /\ proc'[p].n = 1
      BY <1>0, <1>5, <2>1, <2>2 DEF ShowCollection, ProcessStates
    <3> QED
      BY <3>1, AdvancedAside DEF Appending
  <2>3. CASE <<l, proc[p].base.layers[l]>> \notin datasets
    <3>1. GoTo(p, "failed")
      BY <1>5, <2>3 DEF ShowCollection, GoTo
    <3> QED
      BY <3>1, LeavesAdvanced DEF Appending
  <2> QED
    BY <2>2, <2>3
<1> QED
  BY <1>1, <1>2, <1>3, <1>4, <1>5, ReplaceAdvanced, ReadIndexAdvanced DEF ShowcaseStep

LEMMA BeginAdvanced ==
    ASSUME ShowcaseInv, NEW p \in Processes, Start(p)
    PROVE  Advanced(proc'[p], examples')
<1> DEFINE r == proc'[p]
           q == [Idle EXCEPT !.op = r.op, !.at = r.at, !.about = r.about]
<1>1. q.n = 1
  BY DEF Idle
<1>2. proc'[p] = q /\ proc'[p].at \in {"prepare", "current", "session", "view", "put", "list"}
  BY Begins DEF ShowcaseInv
<1>3. proc'[p].n = 1
  BY <1>1, <1>2
<1>4. proc'[p].at = "list" => proc'[p].op # "publish"
  <2>1. PICK op, place, s : Begin(p, op, place, s) /\ (place = "list" => op = "visit")
    BY DEF Start
  <2>2. proc \in [Processes -> ProcessStates] /\ proc[p] \in ProcessStates
    BY Facts DEF ShowcaseInv
  <2>3. proc'[p].at = place /\ proc'[p].op = op
    BY <2>1, <2>2 DEF Begin, ProcessStates
  <2> QED
    BY <2>1, <2>3
<1> QED
  BY <1>2, <1>3, <1>4 DEF Advanced, Appending

LEMMA WorkAdvanced ==
    ASSUME ShowcaseInv, NEW p \in Processes, Start(p) \/ Works(p)
    PROVE  Advanced(proc'[p], examples')
<1>1. CASE Fail(p)
  <2>1. GoTo(p, "failed")
    BY <1>1 DEF Fail
  <2> QED
    BY <2>1, LeavesAdvanced DEF Appending
<1> QED
  BY <1>1, BeginAdvanced, CatalogAdvanced, ShowcaseAdvanced, ExpiringAdvanced DEF Works

\* The index is replaced by one that lists one more complete example.
LEMMA IndexGood ==
    ASSUME ShowcaseInv, NEW p \in Processes, AppendToIndex(p)
    PROVE  Good(Listed, examples)'
<1>1. /\ proc[p].at = "append" /\ proc[p] \in ProcessStates /\ Placed(proc[p])
      /\ Advanced(proc[p], examples) /\ examples' = examples /\ Good(Listed, examples)
      /\ index.etag \in Nat
  BY Facts DEF ShowcaseInv, AppendToIndex
<1>2. proc[p].op = "publish" /\ proc[p].about \in Sessions /\ proc[p].ids \in Seq(Sessions)
  BY <1>1, Roles DEF ProcessStates
<1>3. CASE ~SwapAccepted(index, proc[p].etag)
  <2>1. index' = index
    BY <1>3 DEF AppendToIndex
  <2> QED
    BY <1>1, <2>1 DEF Listed
<1>4. CASE SwapAccepted(index, proc[p].etag)
  <2> DEFINE more == Append(proc[p].ids, proc[p].about)
  <2>1. Good(more, examples)
    BY <1>1, <1>2, AppendGood DEF Advanced
  <2>2. index' = Swap(index, more)
    BY <1>4 DEF AppendToIndex
  <2> HIDE DEF more
  <2>3. Listed' = more
    BY <1>1, <2>2 DEF Swap, Listed, Stored, Absent
  <2> QED
    BY <1>1, <2>1, <2>3
<1> QED
  BY <1>3, <1>4

LEMMA ShowcaseKept == ShowcaseInv /\ [Next]_vars => ShowcaseInv'
<1> SUFFICES ASSUME ShowcaseInv, [Next]_vars PROVE ShowcaseInv'
  OBVIOUS
<1>0. PublicationInv /\ Fresh /\ PublicationInv' /\ Fresh'
  BY StepInv, FreshStep DEF ShowcaseInv
<1>1. CASE UNCHANGED vars
  <2>1. UNCHANGED <<proc, examples, index>>
    BY <1>1 DEF vars
  <2> QED
    BY <1>0, <2>1 DEF ShowcaseInv, Listed
<1>2. ASSUME NEW p \in Processes, Start(p) \/ Works(p), NEW o \in Processes
      PROVE  Advanced(proc'[o], examples')
  <2>1. CASE o = p
    BY <1>2, <2>1, WorkAdvanced
  <2>2. CASE o # p
    <3>1. proc'[o] = proc[o]
      BY <1>0, <1>2, <2>2, ViewsStay
    <3>2. proc[o] \in ProcessStates /\ Placed(proc[o]) /\ Advanced(proc[o], examples)
      BY <1>0, Facts DEF ShowcaseInv
    <3>3. Advanced(proc[o], examples')
      BY <1>0, <1>2, <3>2, DocumentsStay, StillAdvanced
    <3> QED
      BY <3>1, <3>3
  <2> QED
    BY <2>1, <2>2
<1>3. ASSUME NEW p \in Processes, Start(p) \/ Works(p)
      PROVE  Good(Listed, examples)'
  <2>1. CASE AppendToIndex(p)
    BY <2>1, IndexGood
  <2>2. CASE index' = index
    <3>1. Listed' = Listed /\ Good(Listed, examples)
      BY <2>2 DEF Listed, ShowcaseInv
    <3>2. Listed \in Seq(Sessions)
      BY <1>0, Others, EmptySeq DEF Listed, ObjectsOf, Stored
    <3>3. \A s \in Sessions : There(s, examples) => There(s, examples')
      BY <1>0, <1>3, DocumentsStay DEF There
    <3>4. Good(Listed, examples')
      BY <3>1, <3>2, <3>3, StillGood
    <3> QED
      BY <3>1, <3>4
  <2> QED
    BY <1>0, <1>3, <2>1, <2>2, DocumentsStay
<1>4. CASE \E p \in Processes : Start(p) \/ Works(p)
  BY <1>0, <1>2, <1>3, <1>4 DEF ShowcaseInv
<1> QED
  BY <1>1, <1>4 DEF Next, Works

LEMMA ShowcaseFirst == Init => ShowcaseInv
<1> SUFFICES ASSUME Init PROVE ShowcaseInv
  OBVIOUS
<1>1. Listed = <<>>
  BY DEF Init, Listed, Stored
<1>2. Good(<<>>, examples)
  <2>1. DOMAIN <<>> = {}
    OBVIOUS
  <2> QED
    BY <2>1 DEF Good
<1>3. \A p \in Processes : Advanced(proc[p], examples)
  <2>1. Idle.at = "idle" /\ Idle.n = 1
    BY DEF Idle
  <2>2. Advanced(Idle, examples)
    BY <2>1, AdvancedAside DEF Appending
  <2> QED
    BY <2>2 DEF Init
<1> QED
  BY <1>1, <1>2, <1>3, InitInv, FreshFirst DEF ShowcaseInv

\* Whoever lists the worked examples finds every document of each, and each of
\* them once, however many publishers of one session or of several interleave
\* and wherever they stop: publish_showcase writes the index last, and writes what
\* it read there and the one example that was not listed then, so that a token
\* read too late (_replace reads the index again) may drop another's listing but
\* never lists a torn example or one twice; and a visitor who read the index
\* before that is still served every document.
THEOREM ExamplesComplete == Spec => []ListedExamplesAreComplete
<1>1. ShowcaseInv => ListedExamplesAreComplete
  BY DEF ShowcaseInv, Good, There, Advanced, ListedExamplesAreComplete
<1> QED
  BY <1>1, ShowcaseFirst, ShowcaseKept, PTL DEF Spec
=============================================================================
