------------------------- MODULE AcquisitionProofs -------------------------
(***************************************************************************)
(* Theorems about Acquisition, for every source, pages of every size and   *)
(* sources that change any number of times.                                *)
(***************************************************************************)
EXTENDS Acquisition, SequenceTheorems, TLAPS

-----------------------------------------------------------------------------
(* What becomes of one record. *)

LEMMA ObjectsAreAccounted ==
    ASSUME NEW g \in Shapes
    PROVE  /\ Kept(g) <=> ~ObjectDiagnostics(g)["excluded"]
           /\ ObjectDiagnostics(g)["excluded"] =>
                  \E c \in Reasons \ {"boundary"} : ObjectDiagnostics(g)[c]
<1> DEFINE D == ObjectDiagnostics(g)
<1>0. g.form \in {"null", "malformed", "empty", "proper"} /\ g.valid \in BOOLEAN
      /\ g.finite \in BOOLEAN /\ g.inArea \in BOOLEAN
      /\ g.relation \in {"within", "boundary", "outside"}
  BY DEF Shapes
<1>1. /\ D["null_geometry"] <=> g.form = "null"
      /\ D["invalid_geometry"] <=> g.form \in {"malformed", "empty"}
      /\ D["topologically_invalid"] <=> g.form \in {"empty", "proper"} /\ ~g.valid
      /\ D["impossible_coordinate"] <=>
             g.form = "proper" /\ (~g.finite \/ (g.valid /\ ~g.inArea))
      /\ D["out_of_support"] <=> Usable(g) /\ g.relation = "outside"
      /\ D["excluded"] <=> \/ g.form # "proper" \/ ~g.valid
                           \/ g.form = "proper" /\ (~g.finite \/ (g.valid /\ ~g.inArea))
                           \/ g.relation = "outside"
  BY DEF ObjectDiagnostics
<1> HIDE DEF D
<1>2. Kept(g) <=> ~D["excluded"]
  BY <1>0, <1>1 DEF Kept, Usable
<1>3. ASSUME D["excluded"]
      PROVE  \/ D["null_geometry"] \/ D["invalid_geometry"] \/ D["topologically_invalid"]
             \/ D["impossible_coordinate"] \/ D["out_of_support"]
  BY <1>0, <1>1, <1>3 DEF Usable
<1>4. D["excluded"] => \E c \in Reasons \ {"boundary"} : D[c]
  BY <1>3 DEF Reasons
<1> QED
  BY <1>2, <1>4 DEF D

LEMMA SupportIsAccounted ==
    ASSUME NEW g \in Shapes
    PROVE  /\ KeptSupport(g) <=> ~SupportDiagnostics(g)["excluded"]
           /\ SupportDiagnostics(g)["excluded"] =>
                  \E c \in Reasons \ {"boundary"} : SupportDiagnostics(g)[c]
<1> DEFINE D == SupportDiagnostics(g)
<1>0. g.form \in {"null", "malformed", "empty", "proper"} /\ g.valid \in BOOLEAN
      /\ g.finite \in BOOLEAN /\ g.inArea \in BOOLEAN
  BY DEF Shapes
<1>1. /\ D["invalid_geometry"] <=> g.form # "proper"
      /\ D["topologically_invalid"] <=> g.form \in {"empty", "proper"} /\ ~g.valid
      /\ D["impossible_coordinate"] <=>
             g.form \in {"empty", "proper"} /\ ~(g.finite /\ g.inArea)
      /\ D["excluded"] <=> ~Usable(g)
  BY DEF SupportDiagnostics
<1> HIDE DEF D
<1>2. KeptSupport(g) <=> ~D["excluded"]
  BY <1>1 DEF KeptSupport
<1>3. ASSUME D["excluded"]
      PROVE  \/ D["invalid_geometry"] \/ D["topologically_invalid"]
             \/ D["impossible_coordinate"]
  BY <1>0, <1>1, <1>3 DEF Usable
<1>4. D["excluded"] => \E c \in Reasons \ {"boundary"} : D[c]
  BY <1>3 DEF Reasons
<1> QED
  BY <1>2, <1>4 DEF D

-----------------------------------------------------------------------------
(* Pages. *)

LEMMA Parts ==
    ASSUME NEW S, NEW s \in Seq(S), NEW a \in 1 .. Len(s) + 1, NEW b \in 0 .. Len(s)
    PROVE  SubSeq(s, a, b) \in Seq(S)
<1>1. \A i \in a .. b : s[i] \in S
  BY ElementOfSeq, LenProperties
<1> QED
  BY <1>1, LenProperties, SubSeqProperties

LEMMA PageType ==
    ASSUME source \in Seq(Features), start \in Nat
    PROVE  Page \in Seq(Features)
<1> DEFINE last == Smaller(From + PageSize, Len(source))
<1>1. /\ From \in Nat /\ PageSize \in Nat /\ Len(source) \in Nat
  BY AcquisitionAssumption, LenProperties DEF From
<1>2. last \in Int /\ last <= Len(source)
  BY <1>1 DEF Smaller
<1>3. \A i \in From + 1 .. last : source[i] \in Features
  BY <1>1, <1>2, ElementOfSeq
<1> HIDE DEF last
<1>4. SubSeq(source, From + 1, last) \in Seq(Features)
  BY <1>1, <1>2, <1>3, SubSeqProperties
<1> QED
  BY <1>4 DEF Page, last

\* The features of a page, with the coordinate system that it came in.
Marked == [i \in 1 .. Len(Page) |-> [feature |-> Page[i], crs |-> crs]]

LEMMA MarkedType ==
    ASSUME Page \in Seq(Features), crs \in Crses
    PROVE  /\ Marked \in Seq(FetchedFeatures) /\ Len(Marked) = Len(Page)
           /\ Len(Page) \in Nat
           /\ \A i \in 1 .. Len(Marked) : Marked[i].crs = crs
<1>1. Len(Page) \in Nat
  BY LenProperties
<1>2. \A i \in 1 .. Len(Page) : Page[i] \in Features
  BY ElementOfSeq
<1>3. Marked \in [1 .. Len(Page) -> FetchedFeatures]
  BY <1>2 DEF Marked, FetchedFeatures
<1>4. Marked \in Seq(FetchedFeatures)
  BY <1>1, <1>3, SeqDef
<1>5. Len(Marked) = Len(Page)
  BY <1>1, <1>3, <1>4, LenProperties
<1> QED
  BY <1>1, <1>4, <1>5 DEF Marked

-----------------------------------------------------------------------------
(* The inductive invariant. *)

\* What the records of the collected features turn out to be.
Found(of) == [i \in Positions |-> of[collected[i].feature]]

WhatIsStored(of) ==
    [rows |-> Rows(Found(of)), diagnosed |->
        [c \in Categories |->
            IF c # "duplicate" THEN Diagnosed(Found(of), c)
            ELSE IF kind = "object" THEN Duplicates(Found(of)) ELSE {}]]

\* A tessellation is stored only if the validity of all its records is known.
NothingMissing(of) ==
    kind # "object" => \A i \in Positions : Found(of)[i].validity # "missing"

\* As long as the client goes on, all features came as those of the first page.
OneCrs ==
    /\ originalCrs = None => collected = <<>>
    /\ \A i \in Positions : collected[i].crs = originalCrs

AcquisitionInv ==
    /\ TypeOK
    /\ at = "metadata" => pages = 0
    /\ at = "fetch" => pages < MaxPages
    /\ at # "failed" => OneCrs
    /\ at \in {"build", "stored"} => originalCrs = DeclaredCrs
    /\ IF at = "stored"
       THEN records \in Outcomes /\ dataset = WhatIsStored(records) /\ NothingMissing(records)
       ELSE dataset = None

LEMMA InitInv == Init => AcquisitionInv
<1> SUFFICES ASSUME Init PROVE AcquisitionInv
  OBVIOUS
<1>1. source \in Seq(Features)
  <2>1. PICK n \in 0 .. Cardinality(Features) : source \in [1 .. n -> Features]
    BY DEF Init
  <2> QED
    BY <2>1, SeqDef
<1>2. <<>> \in Seq(Features) /\ <<>> \in Seq(FetchedFeatures) /\ Len(collected) = 0
  BY EmptySeq DEF Init
<1>3. TypeOK
  BY <1>1, <1>2, AcquisitionAssumption DEF Init, TypeOK
<1> QED
  BY <1>2, <1>3, AcquisitionAssumption DEF Init, AcquisitionInv, OneCrs, Positions

\* The source changes only while features are fetched, and nothing else does.
LEMMA ChangesInv ==
    ASSUME AcquisitionInv, Changes, source' \in Seq(Features), crs' \in Crses
    PROVE  AcquisitionInv'
<1>1. /\ at = "fetch" /\ changes' \in 0 .. MaxChanges
      /\ UNCHANGED <<kind, service, counts, first, at, start, pages, matched, originalCrs,
                     collected, records, dataset>>
  BY AcquisitionAssumption DEF Changes, AcquisitionInv, TypeOK, clientVars
<1>2. TypeOK'
  BY <1>1 DEF AcquisitionInv, TypeOK, Positions
<1> QED
  BY <1>1, <1>2 DEF AcquisitionInv, OneCrs, Positions

LEMMA SourceInv == AcquisitionInv /\ SourceChanges => AcquisitionInv'
<1> SUFFICES ASSUME AcquisitionInv, SourceChanges PROVE AcquisitionInv'
  OBVIOUS
<1>0. source \in Seq(Features) /\ Len(source) \in Nat /\ crs \in Crses
  BY LenProperties DEF AcquisitionInv, TypeOK
<1>1. ASSUME NEW f \in Features, NEW i \in 0 .. Len(source), Insert(f, i)
      PROVE  AcquisitionInv'
  <2>1. SubSeq(source, 1, i) \in Seq(Features)
    BY <1>0, Parts
  <2>2. SubSeq(source, i + 1, Len(source)) \in Seq(Features)
    BY <1>0, Parts
  <2>3. <<f>> \in Seq(Features)
    OBVIOUS
  <2>4. source' \in Seq(Features) /\ crs' = crs
    BY <1>1, <2>1, <2>2, <2>3, ConcatProperties DEF Insert
  <2> QED
    BY <1>0, <1>1, <2>4, ChangesInv DEF Insert
<1>2. ASSUME NEW i \in 1 .. Len(source), Remove(i)
      PROVE  AcquisitionInv'
  <2>1. SubSeq(source, 1, i - 1) \in Seq(Features)
    BY <1>0, Parts
  <2>2. SubSeq(source, i + 1, Len(source)) \in Seq(Features)
    BY <1>0, Parts
  <2>3. source' \in Seq(Features) /\ crs' = crs
    BY <1>2, <2>1, <2>2, ConcatProperties DEF Remove
  <2> QED
    BY <1>0, <1>2, <2>3, ChangesInv DEF Remove
<1>3. ASSUME NEW c \in Crses, Reproject(c)
      PROVE  AcquisitionInv'
  BY <1>0, <1>3, ChangesInv DEF Reproject
<1> QED
  BY <1>1, <1>2, <1>3 DEF SourceChanges

LEMMA FetchInv == AcquisitionInv /\ FetchPage => AcquisitionInv'
<1> SUFFICES ASSUME AcquisitionInv, FetchPage PROVE AcquisitionInv'
  OBVIOUS
<1>0. /\ at = "fetch" /\ OneCrs /\ pages < MaxPages /\ dataset = None
      /\ source \in Seq(Features) /\ first \in Seq(Features) /\ crs \in Crses
      /\ start \in Nat /\ pages \in Nat /\ MaxPages \in Nat
      /\ originalCrs \in Crses \cup {None} /\ matched \in Nat \cup {None}
      /\ collected \in Seq(FetchedFeatures) /\ Len(source) \in Nat
  BY LenProperties, AcquisitionAssumption DEF FetchPage, AcquisitionInv, TypeOK
<1>1. Page \in Seq(Features)
  BY <1>0, PageType
<1>2. /\ Marked \in Seq(FetchedFeatures) /\ Len(Marked) = Len(Page) /\ Len(Page) \in Nat
      /\ \A i \in 1 .. Len(Marked) : Marked[i].crs = crs
  BY <1>0, <1>1, MarkedType
<1>3. /\ first' = IF pages = 0 THEN source ELSE first
      /\ pages' = pages + 1
      /\ originalCrs' = IF originalCrs = None THEN crs ELSE originalCrs
      /\ matched' = IF matched = None THEN Matched ELSE matched
      /\ collected' = collected \o Marked
      /\ start' = start + Len(Page)
      /\ at' = IF Consistent THEN AfterPage ELSE "failed"
      /\ UNCHANGED <<kind, service, counts, source, crs, changes, records, dataset>>
  BY DEF FetchPage, Marked, serviceVars
<1>4. /\ AfterPage \in {"check", "fetch", "failed"}
      /\ AfterPage = "fetch" => pages + 1 < MaxPages
  BY DEF AfterPage
<1>5. /\ collected' \in Seq(FetchedFeatures)
      /\ Len(collected') = Len(collected) + Len(Marked) /\ Len(collected) \in Nat
      /\ \A i \in 1 .. Len(collected') :
             collected'[i] = IF i <= Len(collected) THEN collected[i]
                             ELSE Marked[i - Len(collected)]
  <2> HIDE DEF Marked
  <2>1. \A s, t \in Seq(FetchedFeatures) :
            /\ s \o t \in Seq(FetchedFeatures)
            /\ Len(s \o t) = Len(s) + Len(t) /\ Len(s) \in Nat
            /\ \A i \in 1 .. Len(s \o t) :
                   (s \o t)[i] = IF i <= Len(s) THEN s[i] ELSE t[i - Len(s)]
    BY ConcatProperties, LenProperties
  <2> QED
    BY <1>0, <1>2, <1>3, <2>1
<1>6. Matched \in Nat \cup {None}
  BY <1>0 DEF Matched
<1>7. TypeOK'
  BY <1>0, <1>2, <1>3, <1>4, <1>5, <1>6 DEF AcquisitionInv, TypeOK, Positions
<1>8. ASSUME at' # "failed" PROVE OneCrs'
  <2>1. originalCrs \in {None, crs}
    BY <1>3, <1>8 DEF Consistent
  <2>2. originalCrs' = crs /\ crs # None
    BY <1>0, <1>3, <2>1, AcquisitionAssumption
  <2>3. \A i \in 1 .. Len(collected) : collected[i].crs = crs
    BY <1>0, <2>1, EmptySeq DEF OneCrs, Positions
  <2>4. \A i \in 1 .. Len(collected') : collected'[i].crs = crs
    BY <1>2, <1>5, <2>3
  <2> QED
    BY <2>2, <2>4 DEF OneCrs, Positions
<1>9. /\ at' \notin {"metadata", "build", "stored"}
      /\ at' = "fetch" => pages' < MaxPages
  BY <1>3, <1>4
<1> QED
  BY <1>0, <1>3, <1>7, <1>8, <1>9 DEF AcquisitionInv

\* A step that only moves the client.
LEMMA MovesInv ==
    ASSUME AcquisitionInv, at # "stored", at' \in {"fetch", "build", "failed"},
           at' = "fetch" => at = "metadata", at' # "failed" => at # "failed",
           at' = "build" => originalCrs = DeclaredCrs,
           UNCHANGED <<kind, service, counts, serviceVars, first, start, pages,
                       matched, originalCrs, collected, records, dataset>>
    PROVE  AcquisitionInv'
<1>1. TypeOK'
  BY DEF AcquisitionInv, TypeOK, serviceVars, Positions
<1>2. at' = "fetch" => pages' < MaxPages
  BY AcquisitionAssumption DEF AcquisitionInv, TypeOK
<1> QED
  BY <1>1, <1>2 DEF AcquisitionInv, OneCrs, Positions

LEMMA StoredType ==
    ASSUME NEW of
    PROVE  WhatIsStored(of) \in
               [rows : SUBSET Positions, diagnosed : [Categories -> SUBSET Positions]]
<1>1. Rows(Found(of)) \subseteq Positions /\ Duplicates(Found(of)) \subseteq Positions
  BY DEF Rows, Candidates, Duplicates
<1>2. \A c : Diagnosed(Found(of), c) \subseteq Positions
  BY DEF Diagnosed, Candidates
<1> QED
  BY <1>1, <1>2 DEF WhatIsStored

LEMMA BuildInv ==
    ASSUME AcquisitionInv, NEW of \in Outcomes, NEW gate \in BOOLEAN, Build(of, gate)
    PROVE  AcquisitionInv'
<1>1. /\ at = "build" /\ records' = of
      /\ UNCHANGED <<kind, service, counts, source, crs, changes, first, start, pages,
                     matched, originalCrs, collected>>
      /\ \/ at' = "failed" /\ UNCHANGED dataset
         \/ at' = "stored" /\ dataset' = WhatIsStored(of) /\ NothingMissing(of)
  BY DEF Build, serviceVars, WhatIsStored, Found, NothingMissing, Refused
<1>2. WhatIsStored(of)' = WhatIsStored(of) /\ NothingMissing(of)' = NothingMissing(of)
  BY <1>1 DEF WhatIsStored, Found, Positions, Rows, Candidates, Diagnosed, Duplicates,
     NothingMissing
<1>3. TypeOK'
  BY <1>1, StoredType DEF AcquisitionInv, TypeOK, Positions
<1>4. OneCrs'
  BY <1>1 DEF AcquisitionInv, OneCrs, Positions
<1>5. dataset = None /\ originalCrs' = DeclaredCrs
  BY <1>1 DEF AcquisitionInv
<1> QED
  BY <1>1, <1>2, <1>3, <1>4, <1>5 DEF AcquisitionInv

LEMMA StepInv == AcquisitionInv /\ [Next]_vars => AcquisitionInv'
<1> SUFFICES ASSUME AcquisitionInv, [Next]_vars PROVE AcquisitionInv'
  OBVIOUS
<1>1. CASE SourceChanges
  BY <1>1, SourceInv
<1>2. ASSUME NEW d \in Access, NEW f \in Access, NEW pinned \in BOOLEAN,
             ReadMetadata(d, f, pinned)
      PROVE  AcquisitionInv'
  BY <1>2, MovesInv DEF ReadMetadata
<1>3. CASE FetchPage
  BY <1>3, FetchInv
<1>4. CASE Check
  BY <1>4, MovesInv DEF Check
<1>5. ASSUME NEW of \in Outcomes, NEW gate \in BOOLEAN, Build(of, gate)
      PROVE  AcquisitionInv'
  BY <1>5, BuildInv
<1>6. CASE Fail
  BY <1>6, MovesInv DEF Fail
<1>7. CASE UNCHANGED vars
  <2>1. UNCHANGED <<kind, service, counts, source, crs, changes, first, at, start, pages,
                    matched, originalCrs, collected, records, dataset>>
    BY <1>7 DEF vars, serviceVars, clientVars
  <2>2. /\ WhatIsStored(records)' = WhatIsStored(records)
        /\ NothingMissing(records)' = NothingMissing(records)
    BY <2>1 DEF WhatIsStored, Found, Positions, Rows, Candidates, Diagnosed, Duplicates,
       NothingMissing
  <2>3. TypeOK'
    BY <2>1 DEF AcquisitionInv, TypeOK, Positions
  <2> QED
    BY <2>1, <2>2, <2>3 DEF AcquisitionInv, OneCrs, Positions
<1> QED
  BY <1>1, <1>2, <1>3, <1>4, <1>5, <1>6, <1>7 DEF Next, Step

\* The invariant holds in every state, whatever the service and the source do.
THEOREM Invariance == Spec => []AcquisitionInv
BY InitInv, StepInv, PTL DEF Spec

-----------------------------------------------------------------------------
(* What follows. *)

\* The client's notes are of their kind; it asks for no more pages than it may.
THEOREM TypeCorrect == Spec => []TypeOK
<1>1. AcquisitionInv => TypeOK
  BY DEF AcquisitionInv
<1> QED
  BY <1>1, Invariance, PTL

\* What is stored came in the declared coordinate system, however often the
\* service changed its own between two pages.
THEOREM StoredInOneCrs == Spec => []AcquiredInOneCrs
<1>1. AcquisitionInv => AcquiredInOneCrs
  BY DEF AcquisitionInv, OneCrs, AcquiredInOneCrs
<1> QED
  BY <1>1, Invariance, PTL

\* What a stored record turned out to be.
LEMMA FoundRecords ==
    ASSUME AcquisitionInv, at = "stored", NEW i \in Positions
    PROVE  /\ Fetched[i] = collected[i].feature
           /\ Found(records)[i] = records[Fetched[i]]
           /\ Found(records)[i] \in Records
           /\ Found(records)[i].shape \in Shapes
<1>1. collected[i] \in FetchedFeatures
  BY ElementOfSeq DEF AcquisitionInv, TypeOK, Positions
<1>2. records \in [Features -> Records]
  BY OutcomesAssumption DEF AcquisitionInv
<1>3. collected[i].feature \in Features
  BY <1>1 DEF FetchedFeatures
<1>4. records[collected[i].feature] \in Records
  BY <1>2, <1>3
<1> QED
  BY <1>4 DEF Found, Fetched, Records

\* Every record that arrived is a row or is reported, with a reason.
THEOREM EveryRecordIsAccounted == Spec => []RecordsAreAccounted
<1>1. ASSUME AcquisitionInv, at = "stored" PROVE RecordsAreAccounted
  <2> DEFINE is == Found(records)
  <2>1. /\ dataset.rows = Rows(is)
        /\ \A c \in Categories \ {"duplicate"} : dataset.diagnosed[c] = Diagnosed(is, c)
    BY <1>1 DEF AcquisitionInv, WhatIsStored
  <2>2. "excluded" \in Categories \ {"duplicate"} /\ Reasons \subseteq Categories \ {"duplicate"}
    BY DEF Categories, Reasons
  <2>3. ASSUME NEW i \in Positions, i \in Candidates(is)
        PROVE  /\ i \in Rows(is) <=> i \notin Diagnosed(is, "excluded")
               /\ i \in Diagnosed(is, "excluded") =>
                      \E c \in Reasons \ {"boundary"} : i \in Diagnosed(is, c)
    <3>1. is[i].shape \in Shapes
      BY <1>1, FoundRecords
    <3>2. CASE kind = "object"
      BY <2>3, <3>1, <3>2, ObjectsAreAccounted DEF Rows, Diagnosed
    <3>3. CASE kind # "object"
      BY <2>3, <3>1, <3>3, SupportIsAccounted DEF Rows, Diagnosed
    <3> QED
      BY <3>2, <3>3
  <2>4. Rows(is) \cup Diagnosed(is, "excluded") \subseteq Candidates(is)
    BY DEF Rows, Diagnosed
  <2>5. Candidates(is) \subseteq Positions
    BY DEF Candidates
  <2>6. ASSUME NEW i \in Positions, i \notin Candidates(is)
        PROVE  kind = "support" /\ records[Fetched[i]].validity = "inactive"
    <3>1. is[i] \in Records /\ is[i] = records[Fetched[i]]
      BY <1>1, FoundRecords
    <3>2. kind # "object" /\ is[i].validity # "active"
      BY <2>6 DEF Candidates
    <3>3. kind = "support"
      BY <1>1, <3>2 DEF AcquisitionInv, TypeOK
    <3>4. is[i].validity # "missing"
      BY <1>1, <3>2 DEF AcquisitionInv, NothingMissing
    <3> QED
      BY <3>1, <3>2, <3>3, <3>4 DEF Records
  <2> QED
    BY <2>1, <2>2, <2>3, <2>4, <2>5, <2>6 DEF RecordsAreAccounted
<1>2. AcquisitionInv => RecordsAreAccounted
  BY <1>1 DEF RecordsAreAccounted
<1> QED
  BY <1>2, Invariance, PTL

\* What was fetched twice is reported at both positions.
THEOREM EveryRepeatIsReported == Spec => []RepeatsAreReported
<1>1. ASSUME AcquisitionInv, at = "stored", kind = "object",
             NEW i \in Positions, NEW j \in Positions, i # j, Fetched[i] = Fetched[j],
             records[Fetched[i]].identity # None
      PROVE  {i, j} \subseteq dataset.diagnosed["duplicate"]
  <2>1. /\ Found(records)[i] = records[Fetched[i]]
        /\ Found(records)[j] = records[Fetched[i]]
    BY <1>1, FoundRecords
  <2>2. {i, j} \subseteq Duplicates(Found(records))
    BY <1>1, <2>1 DEF Duplicates
  <2>3. dataset.diagnosed["duplicate"] = Duplicates(Found(records))
    BY <1>1 DEF AcquisitionInv, WhatIsStored, Categories
  <2> QED
    BY <2>2, <2>3
<1>2. AcquisitionInv => RepeatsAreReported
  BY <1>1 DEF RepeatsAreReported
<1> QED
  BY <1>2, Invariance, PTL
-----------------------------------------------------------------------------
(* What is stored is what was there. *)

\* The histories that the client sees through, whatever else happens.
Undisturbed == (changes = 0 /\ service = "proper") \/ (changes <= 1 /\ counts)

\* All pages were fetched without an objection.
Past == at \in {"check", "build", "stored"}

\* The collected features are the first ones there were at the first page.
FetchedInOrder == start <= Len(first) /\ \A i \in Positions : collected[i].feature = first[i]

PagingInv ==
    /\ pages = 0 => changes = 0 /\ start = 0 /\ matched = None /\ first = <<>>
    /\ Past => pages > 0
    /\ start = Len(collected)
    /\ matched # None => matched = Len(first)
    /\ pages > 0 => (counts <=> matched # None)
    /\ pages > 0 /\ changes = 0 => source = first
    /\ changes = 1 => source = first \/ Len(source) # Len(first)
    /\ at \in {"build", "stored"} => matched \in {None, Len(collected)}
    /\ at # "failed" /\ Undisturbed /\ service # "repeating" => FetchedInOrder
    /\ Past /\ changes = 0 /\ service = "proper" => start = Len(first)
    /\ pages > 0 /\ Undisturbed /\ service = "repeating" =>
           /\ at = "fetch" => PageSize < Len(first)
           /\ Past => FetchedInOrder

LEMMA InitPaging == Init => PagingInv
<1> SUFFICES ASSUME Init PROVE PagingInv
  OBVIOUS
<1>1. Len(collected) = 0 /\ Len(first) = 0 /\ pages = 0 /\ start = 0 /\ collected = <<>>
      /\ matched = None /\ first = <<>> /\ at = "metadata" /\ changes = 0
  BY EmptySeq DEF Init
<1> QED
  BY <1>1 DEF PagingInv, Past, FetchedInOrder, Positions

\* An insertion or a removal changes the number of features.
LEMMA ChangesCount ==
    ASSUME TypeOK, SourceChanges
    PROVE  /\ Changes /\ (source' = source \/ Len(source') # Len(source))
<1>0. source \in Seq(Features) /\ Len(source) \in Nat
  BY LenProperties DEF TypeOK
<1>1. \A s, t \in Seq(Features) :
          s \o t \in Seq(Features) /\ Len(s \o t) = Len(s) + Len(t)
  BY ConcatProperties
<1>2. ASSUME NEW f \in Features, NEW i \in 0 .. Len(source), Insert(f, i)
      PROVE  Len(source') = Len(source) + 1
  <2> DEFINE a == SubSeq(source, 1, i)
             b == SubSeq(source, i + 1, Len(source))
  <2>1. a \in Seq(Features) /\ b \in Seq(Features) /\ <<f>> \in Seq(Features) /\ Len(<<f>>) = 1
    BY <1>0, Parts
  <2>2. Len(a) = i /\ Len(b) = Len(source) - i
    BY <1>0, SubSeqProperties
  <2>3. source' = (a \o <<f>>) \o b
    BY <1>2 DEF Insert
  <2> HIDE DEF a, b
  <2>4. a \o <<f>> \in Seq(Features) /\ Len(a \o <<f>>) = i + 1
    BY <1>1, <2>1, <2>2
  <2>5. Len((a \o <<f>>) \o b) = (i + 1) + (Len(source) - i)
    BY <1>1, <2>1, <2>2, <2>4
  <2> QED
    BY <1>0, <2>3, <2>5
<1>3. ASSUME NEW i \in 1 .. Len(source), Remove(i)
      PROVE  Len(source') = Len(source) - 1
  <2> DEFINE a == SubSeq(source, 1, i - 1)
             b == SubSeq(source, i + 1, Len(source))
  <2>1. a \in Seq(Features) /\ b \in Seq(Features)
    BY <1>0, Parts
  <2>2. Len(a) = i - 1 /\ Len(b) = Len(source) - i
    BY <1>0, SubSeqProperties
  <2>3. source' = a \o b
    BY <1>3 DEF Remove
  <2> HIDE DEF a, b
  <2>4. Len(a \o b) = (i - 1) + (Len(source) - i)
    BY <1>1, <2>1, <2>2
  <2> QED
    BY <1>0, <2>3, <2>4
<1>4. ASSUME NEW f \in Features, NEW i \in 0 .. Len(source), Insert(f, i)
      PROVE  Changes /\ Len(source') # Len(source)
  <2>1. Changes
    BY <1>4 DEF Insert
  <2>2. Len(source') = Len(source) + 1
    BY <1>2, <1>4
  <2> QED
    BY <1>0, <2>1, <2>2
<1>5. ASSUME NEW i \in 1 .. Len(source), Remove(i)
      PROVE  Changes /\ Len(source') # Len(source)
  <2>1. Changes
    BY <1>5 DEF Remove
  <2>2. Len(source') = Len(source) - 1
    BY <1>3, <1>5
  <2> QED
    BY <1>0, <2>1, <2>2
<1>6. ASSUME NEW c \in Crses, Reproject(c)
      PROVE  Changes /\ source' = source
  BY <1>6 DEF Reproject
<1> QED
  BY <1>4, <1>5, <1>6 DEF SourceChanges

LEMMA SourcePaging ==
    ASSUME AcquisitionInv, PagingInv, SourceChanges
    PROVE  PagingInv'
<1>1. /\ at = "fetch" /\ pages > 0 /\ changes' = changes + 1 /\ changes \in Nat
      /\ UNCHANGED <<service, counts, first, at, start, pages, matched, collected>>
      /\ source' = source \/ Len(source') # Len(source)
  BY ChangesCount DEF AcquisitionInv, TypeOK, Changes, clientVars
<1>2. changes' = 1 => source' = first' \/ Len(source') # Len(first')
  BY <1>1 DEF PagingInv
<1>3. Undisturbed' => Undisturbed /\ changes' = 1
  BY <1>1 DEF Undisturbed, PagingInv
<1>4. FetchedInOrder' <=> FetchedInOrder
  BY <1>1 DEF FetchedInOrder, Positions
<1> QED
  BY <1>1, <1>2, <1>3, <1>4 DEF PagingInv, Past

\* A page holds what the source has at its place.
LEMMA PageIsThere ==
    ASSUME source \in Seq(Features), From \in 0 .. Len(source)
    PROVE  /\ Len(Page) = Smaller(From + PageSize, Len(source)) - From
           /\ \A i \in 1 .. Len(Page) : Page[i] = source[From + i]
           /\ service \notin {"endless", "short"} =>
                  (HasNext <=> From + PageSize < Len(source))
           /\ Len(Page) \in Nat /\ From + Len(Page) <= Len(source)
<1> DEFINE last == Smaller(From + PageSize, Len(source))
<1>1. Len(source) \in Nat /\ PageSize \in Nat \ {0}
  BY LenProperties, AcquisitionAssumption
<1>2. last \in From .. Len(source)
  BY <1>1 DEF Smaller
<1>3. \A i \in From + 1 .. last : source[i] \in Features
  BY <1>1, <1>2, ElementOfSeq
<1>4. /\ Len(SubSeq(source, From + 1, last)) = IF From + 1 <= last THEN last - (From + 1) + 1 ELSE 0
      /\ \A i \in 1 .. last - (From + 1) + 1 :
             SubSeq(source, From + 1, last)[i] = source[From + 1 + i - 1]
  BY <1>1, <1>2, <1>3, SubSeqProperties
<1>5. Len(Page) = last - From /\ \A i \in 1 .. Len(Page) : Page[i] = source[From + i]
  BY <1>1, <1>2, <1>4 DEF Page
<1>6. service \notin {"endless", "short"} => (HasNext <=> last < Len(source))
  BY <1>1, <1>2, <1>5 DEF HasNext
<1>7. last < Len(source) <=> From + PageSize < Len(source)
  BY <1>1 DEF Smaller
<1> QED
  BY <1>1, <1>2, <1>5, <1>6, <1>7

LEMMA FetchPaging ==
    ASSUME AcquisitionInv, PagingInv, FetchPage
    PROVE  PagingInv'
<1>0. /\ at = "fetch" /\ dataset = None
      /\ source \in Seq(Features) /\ first \in Seq(Features) /\ crs \in Crses
      /\ start \in Nat /\ pages \in Nat /\ changes \in Nat /\ counts \in BOOLEAN
      /\ matched \in Nat \cup {None} /\ None \notin Nat
      /\ collected \in Seq(FetchedFeatures)
      /\ Len(source) \in Nat /\ Len(first) \in Nat /\ Len(collected) \in Nat
      /\ service \in Services /\ PageSize \in Nat \ {0}
  BY LenProperties, AcquisitionAssumption DEF FetchPage, AcquisitionInv, TypeOK
<1>1. Page \in Seq(Features)
  BY <1>0, PageType
<1>2. /\ Marked \in Seq(FetchedFeatures) /\ Len(Marked) = Len(Page) /\ Len(Page) \in Nat
      /\ \A i \in 1 .. Len(Page) : Marked[i].feature = Page[i]
  BY <1>0, <1>1, MarkedType DEF Marked
<1>3. /\ first' = IF pages = 0 THEN source ELSE first
      /\ pages' = pages + 1
      /\ matched' = IF matched = None THEN Matched ELSE matched
      /\ collected' = collected \o Marked
      /\ start' = start + Len(Page)
      /\ at' = IF Consistent THEN AfterPage ELSE "failed"
      /\ UNCHANGED <<service, counts, source, changes>>
  BY DEF FetchPage, Marked, serviceVars
<1>4. /\ Len(collected') = Len(collected) + Len(Page)
      /\ \A i \in 1 .. Len(collected') :
             collected'[i] = IF i <= Len(collected) THEN collected[i]
                             ELSE Marked[i - Len(collected)]
  <2> HIDE DEF Marked
  <2>1. \A s, t \in Seq(FetchedFeatures) :
            /\ Len(s \o t) = Len(s) + Len(t)
            /\ \A i \in 1 .. Len(s \o t) :
                   (s \o t)[i] = IF i <= Len(s) THEN s[i] ELSE t[i - Len(s)]
    BY ConcatProperties, LenProperties
  <2> QED
    BY <1>0, <1>2, <1>3, <2>1
<1>5. start = Len(collected) /\ start' = Len(collected')
  BY <1>3, <1>4 DEF PagingInv
<1>6. /\ matched' # None => matched' = Len(first')
      /\ counts' <=> matched' # None
  BY <1>0, <1>3 DEF PagingInv, Matched
<1>7. changes' = 0 => source' = first'
  BY <1>0, <1>3 DEF PagingInv
<1>8. changes' = 1 => source' = first' \/ Len(source') # Len(first')
  BY <1>0, <1>3 DEF PagingInv
\* What was counted at the first page is still there at an accepted one.
<1>9. at' # "failed" /\ Undisturbed => first' = source
  <2> SUFFICES ASSUME at' # "failed", Undisturbed PROVE first' = source
    OBVIOUS
  <2>1. CASE pages = 0
    BY <1>3, <2>1
  <2>2. CASE pages > 0 /\ changes = 0
    BY <1>3, <2>2, <1>7
  <2>3. CASE pages > 0 /\ changes = 1 /\ counts
    <3>1. matched # None /\ matched = Len(first) /\ Matched = Len(source)
      BY <2>3 DEF PagingInv, Matched
    <3>2. Len(source) = Len(first)
      BY <1>0, <1>3, <3>1 DEF Consistent
    <3> QED
      BY <1>0, <1>3, <2>3, <3>2 DEF PagingInv
  <2> QED
    BY <1>0, <2>1, <2>2, <2>3 DEF Undisturbed
<1>10. /\ AfterPage = "check" <=> ~HasNext
       /\ AfterPage \in {"check", "fetch", "failed"}
  BY DEF AfterPage
\* A page at its place continues what was fetched.
<1>11. ASSUME at' # "failed", Undisturbed, From = start, pages = 0 \/ FetchedInOrder
       PROVE  FetchedInOrder' /\ (service = "proper" /\ at' = "check" => start' = Len(first'))
  <2>1. first' = source
    BY <1>9, <1>11
  <2>2. start <= Len(source) /\ \A i \in 1 .. Len(collected) : collected[i].feature = source[i]
    <3>1. CASE pages = 0
      BY <1>0, <1>5, <3>1 DEF PagingInv
    <3>2. CASE pages # 0
      BY <1>3, <1>11, <2>1, <3>2 DEF FetchedInOrder, Positions
    <3> QED
      BY <3>1, <3>2
  <2>3. /\ Len(Page) = Smaller(start + PageSize, Len(source)) - start
        /\ \A i \in 1 .. Len(Page) : Page[i] = source[start + i]
        /\ service \notin {"endless", "short"} => (HasNext <=> start + PageSize < Len(source))
        /\ start + Len(Page) <= Len(source)
    BY <1>0, <1>11, <2>2, PageIsThere
  <2>4. ASSUME NEW i \in 1 .. Len(collected') PROVE collected'[i].feature = source[i]
    <3>1. CASE i <= Len(collected)
      BY <1>0, <1>4, <2>2, <3>1
    <3>2. CASE i > Len(collected)
      <4>1. i - Len(collected) \in 1 .. Len(Page)
        BY <1>0, <1>2, <1>4, <3>2
      <4>2. collected'[i] = Marked[i - Len(collected)]
        BY <1>0, <1>4, <3>2
      <4>3. source[start + (i - Len(collected))] = source[i]
        BY <1>0, <1>5, <4>1
      <4> QED
        BY <1>2, <2>3, <4>1, <4>2, <4>3
    <3> QED
      BY <1>0, <1>4, <1>2, <3>1, <3>2
  <2>5. service = "proper" /\ at' = "check" => start' = Len(source)
    BY <1>0, <1>3, <1>10, <2>2, <2>3 DEF Smaller
  <2> QED
    BY <1>3, <2>1, <2>3, <2>4, <2>5 DEF FetchedInOrder, Positions
<1>12. at' # "failed" /\ Undisturbed /\ service # "repeating" => FetchedInOrder'
  BY <1>0, <1>11 DEF From, PagingInv
<1>13. at' = "check" /\ changes = 0 /\ service = "proper" => start' = Len(first')
  BY <1>0, <1>11 DEF From, PagingInv, Undisturbed
\* A service that repeats its first page is believed if that is the only one.
<1>14. ASSUME at' # "failed", Undisturbed, service = "repeating"
       PROVE  /\ at' = "fetch" => PageSize < Len(first')
              /\ at' = "check" => FetchedInOrder'
  <2>1. first' = source /\ From = 0
    BY <1>9, <1>14 DEF From
  <2>2. HasNext <=> PageSize < Len(source)
    BY <1>0, <1>14, <2>1, PageIsThere
  <2>3. at' = "fetch" => PageSize < Len(first')
    BY <1>3, <2>1, <2>2 DEF AfterPage
  <2>4. at' = "check" => pages = 0
    BY <1>0, <1>3, <1>10, <1>14, <2>1, <2>2 DEF PagingInv
  <2>5. pages = 0 => From = start
    BY <2>1 DEF PagingInv
  <2> QED
    BY <1>11, <1>14, <2>3, <2>4, <2>5
<1>15. at' \in {"check", "fetch", "failed"} /\ pages' > 0
  BY <1>0, <1>3, <1>10
<1>16. Undisturbed' <=> Undisturbed
  BY <1>3 DEF Undisturbed
<1> QED
  BY <1>3, <1>5, <1>6, <1>7, <1>8, <1>12, <1>13, <1>14, <1>15, <1>16 DEF PagingInv, Past

LEMMA StepPaging == AcquisitionInv /\ PagingInv /\ [Next]_vars => PagingInv'
<1> SUFFICES ASSUME AcquisitionInv, PagingInv, [Next]_vars PROVE PagingInv'
  OBVIOUS
<1> DEFINE Still == UNCHANGED <<service, counts, source, changes, first, start, pages, matched,
                                collected>>
<1>1. ASSUME Still,
             \/ at' \in {at, "failed"}
             \/ at = "metadata" /\ at' = "fetch"
             \/ at = "check" /\ at' = "build" /\ matched \in {None, Len(collected)}
             \/ at = "build" /\ at' = "stored"
      PROVE  PagingInv'
  <2>1. (Undisturbed' <=> Undisturbed) /\ (FetchedInOrder' <=> FetchedInOrder)
    BY <1>1 DEF Undisturbed, FetchedInOrder, Positions
  <2>2. at = "metadata" => pages = 0
    BY DEF AcquisitionInv
  <2> QED
    BY <1>1, <2>1, <2>2 DEF PagingInv, Past
<1>2. CASE SourceChanges
  BY <1>2, SourcePaging
<1>3. CASE FetchPage
  BY <1>3, FetchPaging
<1>4. ASSUME NEW d \in Access, NEW f \in Access, NEW pinned \in BOOLEAN,
             ReadMetadata(d, f, pinned)
      PROVE  PagingInv'
  BY <1>1, <1>4 DEF ReadMetadata, serviceVars
<1>5. CASE Check
  BY <1>1, <1>5 DEF Check, serviceVars
<1>6. ASSUME NEW of \in Outcomes, NEW gate \in BOOLEAN, Build(of, gate)
      PROVE  PagingInv'
  BY <1>1, <1>6 DEF Build, serviceVars
<1>7. CASE Fail \/ UNCHANGED vars
  BY <1>1, <1>7 DEF Fail, vars, serviceVars, clientVars
<1> QED
  BY <1>2, <1>3, <1>4, <1>5, <1>6, <1>7 DEF Next, Step

\* A Layer is stored only with exactly the features that were there when its
\* first page was asked for, from a service that pages properly and a source
\* that did not change, or changed once under a service that reports its
\* count (fetch_all_features compares every page's numberMatched and crs).
THEOREM AcquiredWhatWasThere == Spec => []AcquiresWhatWasThere
<1>1. ASSUME AcquisitionInv, PagingInv, at = "stored",
             (changes = 0 /\ service = "proper") \/ (changes <= 1 /\ matched # None)
      PROVE  Fetched = first
  <2>1. /\ first \in Seq(Features) /\ Len(first) \in Nat /\ Len(collected) \in Nat
        /\ DOMAIN first = 1 .. Len(first)
    BY <1>1, LenProperties DEF AcquisitionInv, TypeOK
  <2>2. Past /\ Undisturbed /\ pages > 0
    BY <1>1 DEF Past, Undisturbed, PagingInv
  <2>3. FetchedInOrder
    BY <1>1, <2>2 DEF PagingInv
  <2>4. Len(collected) = Len(first)
    BY <1>1, <2>2 DEF PagingInv
  <2>5. \A i \in 1 .. Len(first) : Fetched[i] = first[i]
    BY <2>3, <2>4 DEF FetchedInOrder, Fetched, Positions
  <2>6. first = [i \in 1 .. Len(first) |-> first[i]]
    BY <2>1
  <2> QED
    BY <2>3, <2>4, <2>6 DEF FetchedInOrder, Fetched, Positions
<1>2. AcquisitionInv /\ PagingInv => AcquiresWhatWasThere
  BY <1>1 DEF AcquiresWhatWasThere
<1>3. Spec => []PagingInv
  BY Invariance, InitPaging, StepPaging, PTL DEF Spec
<1> QED
  BY <1>2, <1>3, Invariance, PTL

-----------------------------------------------------------------------------
(* An acquisition comes to its end.  The theorem is the safety core of      *)
(* AcquisitionEnds: what is left shrinks with every step of the client.     *)

CallsLeft ==
    CASE at = "metadata" -> MaxPages + 3
      [] at = "fetch" -> MaxPages - pages + 2
      [] at = "check" -> 2
      [] at = "build" -> 1
      [] OTHER -> 0

LEMMA CallsBounded ==
    ASSUME AcquisitionInv
    PROVE  /\ CallsLeft \in 0 .. MaxPages + 3
           /\ CallsLeft = 0 <=> at \in {"stored", "failed"}
<1>1. /\ MaxPages \in Nat \ {0} /\ pages \in 0 .. MaxPages
      /\ at \in {"metadata", "fetch", "check", "build", "stored", "failed"}
  BY AcquisitionAssumption DEF AcquisitionInv, TypeOK
<1> QED
  BY <1>1 DEF CallsLeft

LEMMA CallsShrink ==
    ASSUME AcquisitionInv, Step \/ Fail
    PROVE  CallsLeft' < CallsLeft
<1>0. MaxPages \in Nat \ {0} /\ pages \in 0 .. MaxPages
  BY AcquisitionAssumption DEF AcquisitionInv, TypeOK
<1>1. at' = "failed" => CallsLeft' = 0
  BY DEF CallsLeft
<1>2. at \notin {"stored", "failed"} => CallsLeft > 0
  BY CallsBounded
<1>3. CASE Fail
  BY <1>1, <1>2, <1>3 DEF Fail
<1>4. ASSUME NEW d \in Access, NEW f \in Access, NEW pinned \in BOOLEAN,
             ReadMetadata(d, f, pinned)
      PROVE  CallsLeft' < CallsLeft
  <2>1. at = "metadata" /\ pages = 0 /\ pages' = pages /\ at' \in {"fetch", "failed"}
    BY <1>4 DEF ReadMetadata, AcquisitionInv
  <2> QED
    BY <1>0, <2>1 DEF CallsLeft
<1>5. CASE FetchPage
  <2>1. /\ at = "fetch" /\ pages < MaxPages /\ pages' = pages + 1
        /\ at' \in {"fetch", "check", "failed"}
        /\ at' = "fetch" => pages' < MaxPages
    BY <1>0, <1>5 DEF FetchPage, AfterPage, AcquisitionInv
  <2> QED
    BY <1>0, <2>1 DEF CallsLeft
<1>6. CASE Check
  <2>1. at = "check" /\ at' \in {"build", "failed"}
    BY <1>6 DEF Check
  <2> QED
    BY <2>1 DEF CallsLeft
<1>7. ASSUME NEW of \in Outcomes, NEW gate \in BOOLEAN, Build(of, gate)
      PROVE  CallsLeft' < CallsLeft
  <2>1. at = "build" /\ at' \in {"stored", "failed"}
    BY <1>7 DEF Build
  <2> QED
    BY <2>1 DEF CallsLeft
<1> QED
  BY <1>3, <1>4, <1>5, <1>6, <1>7 DEF Step

AcquisitionAdvances ==
    IF Step \/ Fail THEN CallsLeft' < CallsLeft ELSE CallsLeft' = CallsLeft

\* Whatever the service advertises, the client takes no more steps than the
\* limit on its pages allows, has one left until the Layer is stored or given
\* up, and the changes of the source never add to them.
THEOREM AcquisitionsAreFinite ==
    Spec => /\ [](/\ CallsLeft \in 0 .. MaxPages + 3
                  /\ CallsLeft = 0 <=> at \in {"stored", "failed"})
            /\ [][AcquisitionAdvances]_vars
<1>1. SourceChanges \/ UNCHANGED vars => CallsLeft' = CallsLeft
  BY DEF SourceChanges, Insert, Remove, Reproject, Changes, vars, clientVars, CallsLeft
<1>2. AcquisitionInv /\ [Next]_vars => [AcquisitionAdvances]_vars
  BY <1>1, CallsShrink DEF AcquisitionAdvances, Next
<1> QED
  BY <1>2, CallsBounded, Invariance, PTL DEF Spec
=============================================================================
