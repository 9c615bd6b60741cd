------------------------ MODULE QuestionSessionProofs ------------------------
(***************************************************************************)
(* Proofs about QuestionSession for any set of requests, any drafts and    *)
(* any repair budget.                                                      *)
(***************************************************************************)
EXTENDS QuestionSession, TLAPS

(***************************************************************************)
(* The inductive invariant of any interleaving of requests.                *)
(***************************************************************************)

Saving(r, next) == pc[r] \in {"save", "swap"} /\ then[r] = next

\* The request has handed its job's outcome to the session.
Folded(r) == pc[r] = "reread" \/ Saving(r, "reread")

\* The jobs that have ended and that no request will touch again.
SettledJobs ==
    {j \in JobIds :
        /\ jobs[j] # None
        /\ jobs[j].status \in {"succeeded", "failed"}
        /\ \/ pc[j[1]] \in Ended
           \/ j[2] > budget[j[1]]
           \/ j[2] = budget[j[1]] /\ Folded(j[1])}

\* The requests that will not write a workflow record any more.
Written == {r \in Requests : pc[r] \in Ended \cup {"remember"} \/ Saving(r, "remember")}

\* A document whose authorization is for its last draft and that only refers
\* to settled jobs.
Consistent(s, js, settled) ==
    /\ Len(s.drafts) > 0
    /\ s.authorization # None =>
          Executable(Latest(s)) /\ s.authorization = Authorization(s)
    /\ s.result # None =>
          s.result.job \in settled /\ js[s.result.job].status = s.result.status
    /\ s.answer # None =>
          /\ s.result # None
          /\ s.result.status = "succeeded"
          /\ s.result.job = s.answer

\* A document whose decision, if it has one, is on record for good.
OnRecord(s, recs, ans, written) ==
    s.decision # None =>
        /\ s.decision.by \in written
        /\ recs[s.decision.by] # None
        /\ recs[s.decision.by].kind = s.decision.kind
        /\ s.decision.kind = "accept" => s.decision.by \in ans

GoodDocument(s) == Consistent(s, jobs, SettledJobs)
GoodDecision(s) == OnRecord(s, records, answers, Written)

\* What a request's thread knows at each of its labels.
ThreadOK(r) ==
    /\ doc[r] # None => GoodDocument(doc[r])
    /\ doc[r] # None /\ pc[r] \notin {"answer", "record"} => GoodDecision(doc[r])
    /\ pc[r] \in {"save", "swap", "authorize", "answer", "record", "remember"}
          => doc[r] # None
    /\ pc[r] = "plan" => op[r] \in {"create", "revise", "auto_repair"}
    /\ pc[r] = "authorize" \/ Saving(r, "authorize") => Executable(Latest(doc[r]))
    /\ pc[r] \in {"run", "recover", "fold"} \/ Saving(r, "run")
          => jobs[JobOf(r)] # None
    /\ pc[r] = "fold" => jobs[JobOf(r)].status \in {"succeeded", "failed"}
    /\ pc[r] \in {"answer", "record", "remember"} \/ Saving(r, "remember") =>
          /\ op[r] \in {"accept", "reject"}
          /\ then[r] = "remember"
          /\ doc[r].decision = [kind |-> op[r], by |-> r]
          /\ Persistable(doc[r])
    /\ pc[r] = "record" /\ op[r] = "accept" => r \in answers

SessionOK == session # None => GoodDocument(session) /\ GoodDecision(session)

Inv ==
    /\ TypeOK
    /\ SessionOK
    /\ \A r \in Requests : ThreadOK(r)

-----------------------------------------------------------------------------
(***************************************************************************)
(* The documents the service builds are session documents.                 *)
(***************************************************************************)

\* The last draft of a session that has one is a draft version.
LEMMA LatestType ==
    ASSUME NEW s \in Sessions, Len(s.drafts) > 0
    PROVE  Latest(s) \in DraftVersions
  BY DEF Latest, Sessions

\* Planning yields a well-formed document with one draft more.
LEMMA WithDraftType ==
    ASSUME NEW s \in Sessions \cup {None}, NEW d \in DraftVersions
    PROVE  /\ WithDraft(s, d) \in Sessions
           /\ Latest(WithDraft(s, d)) = d
           /\ s = None => Len(WithDraft(s, d).drafts) = 1
           /\ s # None => Len(WithDraft(s, d).drafts) = Len(s.drafts) + 1
  <1>1. CASE s = None
    <2>1. WithDraft(s, d).drafts = <<d>>
      BY <1>1 DEF WithDraft
    <2>2. WithDraft(s, d) \in Sessions
      BY <1>1, NoneAssumption DEF WithDraft, Sessions
    <2> QED
      BY <1>1, <2>1, <2>2 DEF Latest
  <1>2. CASE s # None
    <2>1. s \in Sessions /\ s.drafts \in Seq(DraftVersions)
      BY <1>2 DEF Sessions
    <2>2. WithDraft(s, d).drafts = Append(s.drafts, d)
      BY <1>2 DEF WithDraft
    <2>3. WithDraft(s, d) \in Sessions
      BY <1>2, <2>1 DEF WithDraft, Sessions
    <2> QED
      BY <1>2, <2>1, <2>2, <2>3 DEF Latest
  <1> QED
    BY <1>1, <1>2

\* Replacing execution-phase fields of a document leaves a document.
LEMMA UpdatedType ==
    ASSUME NEW s \in Sessions
    PROVE  /\ \A a \in Authorizations :
                 [s EXCEPT !.authorization = a] \in Sessions
           /\ \A res \in Results, ans \in JobIds \cup {None}, failed \in BOOLEAN :
                 [s EXCEPT !.result = res, !.answer = ans,
                           !.answerFailure = failed, !.decision = None] \in Sessions
           /\ \A d \in Decisions :
                 [s EXCEPT !.decision = d] \in Sessions
  BY DEF Sessions

\* Authorizing a draft that validates yields a well-formed document.
LEMMA WithAuthorizationType ==
    ASSUME NEW s \in Sessions, Len(s.drafts) > 0, Executable(Latest(s))
    PROVE  /\ Authorization(s) \in Authorizations
           /\ WithAuthorization(s) \in Sessions
           /\ WithAuthorization(s).authorization = Authorization(s)
           /\ WithAuthorization(s).drafts = s.drafts
           /\ WithAuthorization(s).result = s.result
           /\ WithAuthorization(s).answer = s.answer
           /\ WithAuthorization(s).decision = s.decision
  <1>1. Authorization(s) \in Authorizations
    BY DEF Authorization, Authorizations, Executable, Sessions
  <1>2. WithAuthorization(s) \in Sessions
    BY <1>1, UpdatedType DEF WithAuthorization
  <1>3. WithAuthorization(s).authorization = Authorization(s)
    BY DEF WithAuthorization, Sessions
  <1>4. /\ WithAuthorization(s).drafts = s.drafts
        /\ WithAuthorization(s).result = s.result
        /\ WithAuthorization(s).answer = s.answer
        /\ WithAuthorization(s).decision = s.decision
    BY DEF WithAuthorization, Sessions
  <1> QED
    BY <1>1, <1>2, <1>3, <1>4

\* Folding a terminal job in yields a well-formed document.
LEMMA WithResultType ==
    ASSUME NEW s \in Sessions, NEW j \in JobIds,
           NEW status \in {"succeeded", "failed"}, NEW answered \in BOOLEAN
    PROVE  /\ WithResult(s, j, status, answered) \in Sessions
           /\ WithResult(s, j, status, answered).drafts = s.drafts
           /\ WithResult(s, j, status, answered).authorization = s.authorization
           /\ WithResult(s, j, status, answered).result = [job |-> j, status |-> status]
           /\ WithResult(s, j, status, answered).answer
                = IF status = "succeeded" /\ answered THEN j ELSE None
           /\ WithResult(s, j, status, answered).decision = None
  <1>1. /\ [job |-> j, status |-> status] \in Results
        /\ (IF status = "succeeded" /\ answered THEN j ELSE None) \in JobIds \cup {None}
        /\ (status = "succeeded" /\ ~answered) \in BOOLEAN
    BY DEF Results, Sessions
  <1>2. WithResult(s, j, status, answered) \in Sessions
    BY <1>1, UpdatedType DEF WithResult
  <1>3. /\ WithResult(s, j, status, answered).drafts = s.drafts
        /\ WithResult(s, j, status, answered).authorization = s.authorization
    BY DEF WithResult, Sessions
  <1>4. /\ WithResult(s, j, status, answered).result = [job |-> j, status |-> status]
        /\ WithResult(s, j, status, answered).answer
             = IF status = "succeeded" /\ answered THEN j ELSE None
        /\ WithResult(s, j, status, answered).decision = None
    BY DEF WithResult, Sessions
  <1> QED
    BY <1>2, <1>3, <1>4

\* Deciding an answer yields a well-formed document.
LEMMA WithDecisionType ==
    ASSUME NEW s \in Sessions, NEW r \in Requests, NEW kind \in {"accept", "reject"}
    PROVE  /\ WithDecision(s, r, kind) \in Sessions
           /\ WithDecision(s, r, kind).drafts = s.drafts
           /\ WithDecision(s, r, kind).authorization = s.authorization
           /\ WithDecision(s, r, kind).result = s.result
           /\ WithDecision(s, r, kind).answer = s.answer
           /\ WithDecision(s, r, kind).decision = [kind |-> kind, by |-> r]
  <1>1. [kind |-> kind, by |-> r] \in Decisions
    BY DEF Decisions, Sessions
  <1>2. WithDecision(s, r, kind) \in Sessions
    BY <1>1, UpdatedType DEF WithDecision
  <1>3. /\ WithDecision(s, r, kind).drafts = s.drafts
        /\ WithDecision(s, r, kind).authorization = s.authorization
    BY DEF WithDecision, Sessions
  <1>4. /\ WithDecision(s, r, kind).result = s.result
        /\ WithDecision(s, r, kind).answer = s.answer
        /\ WithDecision(s, r, kind).decision = [kind |-> kind, by |-> r]
    BY DEF WithDecision, Sessions
  <1> QED
    BY <1>2, <1>3, <1>4

\* The record of a decision that may be persisted is a workflow record.
LEMMA RecordOfType ==
    ASSUME NEW s \in Sessions, Len(s.drafts) > 0, Persistable(s),
           NEW kind \in {"accept", "reject"}
    PROVE  RecordOf(s, kind) \in Records
  <1>1. s.result.job \in JobIds
    BY DEF Persistable, Sessions, Results
  <1>2. Len(s.drafts) \in Nat /\ Latest(s) \in DraftVersions
    BY LatestType DEF Sessions
  <1>3. Latest(s).draft \in Drafts
    BY <1>2 DEF Persistable, DraftVersions
  <1> QED
    BY <1>1, <1>2, <1>3 DEF RecordOf, Records

-----------------------------------------------------------------------------
(***************************************************************************)
(* What a step leaves alone.                                               *)
(***************************************************************************)

\* Nothing that is local to request q changes, nor its job.
Untouched(q) ==
    /\ pc'[q] = pc[q]
    /\ op'[q] = op[q]
    /\ budget'[q] = budget[q]
    /\ doc'[q] = doc[q]
    /\ then'[q] = then[q]
    /\ jobs'[JobOf(q)] = jobs[JobOf(q)]

\* What is settled or on record stays as it is.
Kept ==
    /\ \A j \in SettledJobs : j \in SettledJobs' /\ jobs'[j] = jobs[j]
    /\ \A q \in Written : q \in Written' /\ records'[q] = records[q]
    /\ answers \subseteq answers'

\* A consistent document stays consistent while settled jobs stay settled.
LEMMA ConsistentKept ==
    ASSUME NEW s, NEW js, NEW js2, NEW settled, NEW settled2,
           \A j \in settled : j \in settled2 /\ js2[j] = js[j],
           Consistent(s, js, settled)
    PROVE  Consistent(s, js2, settled2)
  BY DEF Consistent

\* A decision on record stays on record.
LEMMA OnRecordKept ==
    ASSUME NEW s, NEW recs, NEW recs2, NEW ans, NEW ans2, NEW written, NEW written2,
           \A q \in written : q \in written2 /\ recs2[q] = recs[q],
           ans \subseteq ans2,
           OnRecord(s, recs, ans, written)
    PROVE  OnRecord(s, recs2, ans2, written2)
  BY DEF OnRecord

\* A document that a request goes on holding stays good.
LEMMA DocumentKept ==
    ASSUME Kept, NEW r, doc'[r] = doc[r]
    PROVE  /\ GoodDocument(doc[r]) => GoodDocument(doc[r])'
           /\ GoodDecision(doc[r]) => GoodDecision(doc[r])'
  <1>1. GoodDocument(doc[r]) => Consistent(doc[r], jobs', SettledJobs')
    BY ConsistentKept DEF Kept, GoodDocument
  <1>2. GoodDecision(doc[r]) => OnRecord(doc[r], records', answers', Written')
    BY OnRecordKept DEF Kept, GoodDecision
  <1> QED
    BY <1>1, <1>2 DEF GoodDocument, GoodDecision

\* A request that a step does not touch knows after it what it knew before.
LEMMA ThreadKept ==
    ASSUME Kept, NEW q \in Requests, Untouched(q), answers \subseteq answers',
           ThreadOK(q)
    PROVE  ThreadOK(q)'
  <1>1. doc'[q] # None => GoodDocument(doc[q])'
    BY ConsistentKept DEF Kept, Untouched, ThreadOK, GoodDocument
  <1>2. doc'[q] # None /\ pc'[q] \notin {"answer", "record"} => GoodDecision(doc[q])'
    BY OnRecordKept DEF Kept, Untouched, ThreadOK, GoodDecision
  <1> QED
    BY <1>1, <1>2 DEF Untouched, ThreadOK, Saving, JobOf

\* A document that is stored stays good.
LEMMA SessionKept ==
    ASSUME Kept, session' = session, SessionOK
    PROVE  SessionOK'
  BY ConsistentKept, OnRecordKept DEF Kept, SessionOK, GoodDocument, GoodDecision

\* A step that keeps what it should, and after which its own request is in
\* order, preserves the invariant.
LEMMA StepInv ==
    ASSUME Inv, NEW r \in Requests, TypeOK', Kept, SessionOK', ThreadOK(r)',
           \A q \in Requests \ {r} : Untouched(q)
    PROVE  Inv' /\ Kept
  <1> SUFFICES ASSUME NEW q \in Requests
               PROVE  ThreadOK(q)'
    BY DEF Inv
  <1>1. CASE q = r
    BY <1>1
  <1>2. CASE q # r
    BY <1>2, ThreadKept DEF Inv, Kept
  <1> QED
    BY <1>1, <1>2

\* The local variables of one request after a step that moves it on.
LEMMA GotoFrame ==
    ASSUME TypeOK, NEW r \in Requests, NEW label \in Labels,
           Goto(r, label)
    PROVE  /\ pc' \in [Requests -> Labels]
           /\ pc'[r] = label
           /\ \A q \in Requests \ {r} : pc'[q] = pc[q]
  BY DEF TypeOK, Goto

\* The same for a step with which the request ends.
LEMMA LeaveFrame ==
    ASSUME TypeOK, NEW r \in Requests, NEW label \in Ended, Leave(r, label)
    PROVE  /\ pc' \in [Requests -> Labels] /\ pc'[r] = label
           /\ op' \in [Requests -> Operations] /\ op'[r] = "create"
           /\ budget' \in [Requests -> 0..MaxRepairs] /\ budget'[r] = MaxRepairs
           /\ doc' \in [Requests -> Sessions \cup {None}] /\ doc'[r] = None
           /\ then' \in [Requests -> Continuations] /\ then'[r] = "done"
           /\ \A q \in Requests \ {r} :
                /\ pc'[q] = pc[q] /\ op'[q] = op[q] /\ budget'[q] = budget[q]
                /\ doc'[q] = doc[q] /\ then'[q] = then[q]
  <1>1. label \in Labels
    BY DEF Labels, Ended, Continuations
  <1>2. "create" \in Operations /\ "done" \in Continuations /\ MaxRepairs \in 0..MaxRepairs
    BY MaxRepairsAssumption DEF Operations, Continuations
  <1> QED
    BY <1>1, <1>2 DEF TypeOK, Leave, Goto

\* The same for a step with which the request starts to save a document.
LEMMA StartSaveFrame ==
    ASSUME TypeOK, NEW r \in Requests, NEW s \in Sessions, NEW next \in Continuations,
           StartSave(r, s, next)
    PROVE  /\ pc' \in [Requests -> Labels] /\ pc'[r] = "save"
           /\ doc' \in [Requests -> Sessions \cup {None}] /\ doc'[r] = s
           /\ then' \in [Requests -> Continuations] /\ then'[r] = next
           /\ \A q \in Requests \ {r} :
                pc'[q] = pc[q] /\ doc'[q] = doc[q] /\ then'[q] = then[q]
  BY DEF TypeOK, StartSave, Goto, Labels

\* What the steps make of the etags are etags again.
LEMMA EtagType ==
    ASSUME TypeOK
    PROVE  /\ Superseded \in [Requests -> Etags]
           /\ \A r \in Requests :
                /\ [Superseded EXCEPT ![r] = "stale"] \in [Requests -> Etags]
                /\ [etag EXCEPT ![r] = "stale"] \in [Requests -> Etags]
                /\ [etag EXCEPT ![r] = StoredEtag] \in [Requests -> Etags]
  BY DEF TypeOK, Superseded, StoredEtag, Etags

\* A request that has ended knows nothing.
LEMMA EndedThread ==
    ASSUME NEW r \in Requests, pc'[r] \in Ended, doc'[r] = None
    PROVE  ThreadOK(r)'
  BY DEF ThreadOK, Ended, Saving

\* A request that ends keeps the invariant as long as the session it leaves
\* behind is in order.
LEMMA LeaveInv ==
    ASSUME Inv, NEW r \in Requests, InFlight(r), NEW label \in Ended, Leave(r, label),
           UNCHANGED <<jobs, answers, records>>,
           session' \in Sessions \cup {None}, cases' \subseteq Cases,
           expired' \in BOOLEAN, etag' \in [Requests -> Etags],
           Kept => SessionOK'
    PROVE  Inv' /\ Kept
  <1>1. TypeOK'
    BY LeaveFrame DEF Inv, TypeOK
  <1>2. Kept
    <2>1. ASSUME NEW j \in SettledJobs PROVE j \in SettledJobs' /\ jobs'[j] = jobs[j]
      <3>1. j[1] \in Requests /\ j[2] \in 0..MaxRepairs /\ j \in JobIds
        BY DEF SettledJobs, JobIds
      <3>2. CASE j[1] = r
        BY <3>1, <3>2, LeaveFrame DEF SettledJobs, Inv
      <3>3. CASE j[1] # r
        BY <3>1, <3>3, LeaveFrame DEF SettledJobs, Inv, Folded, Saving
      <3> QED
        BY <3>2, <3>3
    <2>2. ASSUME NEW q \in Written PROVE q \in Written' /\ records'[q] = records[q]
      BY LeaveFrame DEF Written, Inv, Saving
    <2> QED
      BY <2>1, <2>2 DEF Kept
  <1>3. ThreadOK(r)'
    BY LeaveFrame, EndedThread DEF Inv
  <1>4. \A q \in Requests \ {r} : Untouched(q)
    BY LeaveFrame DEF Inv, Untouched, JobOf
  <1> QED
    BY <1>1, <1>2, <1>3, <1>4, StepInv

\* A step of a request that goes on keeps what it should, provided it leaves
\* its own settled job and its own record alone.
LEMMA KeptBy ==
    ASSUME TypeOK, NEW r \in Requests, pc[r] \notin Ended,
           \A q \in Requests \ {r} :
              /\ pc'[q] = pc[q] /\ then'[q] = then[q] /\ budget'[q] = budget[q]
              /\ records'[q] = records[q],
           \/ budget'[r] = budget[r] /\ (Folded(r) => Folded(r)')
           \/ budget'[r] \in Nat /\ budget'[r] < budget[r],
           \A j \in JobIds : j # JobOf(r) \/ Folded(r) => jobs'[j] = jobs[j],
           r \in Written => r \in Written' /\ records'[r] = records[r],
           answers \subseteq answers'
    PROVE  Kept
  <1>1. ASSUME NEW j \in SettledJobs PROVE j \in SettledJobs' /\ jobs'[j] = jobs[j]
    <2>1. j \in JobIds /\ j[1] \in Requests /\ j[2] \in 0..MaxRepairs /\ j = <<j[1], j[2]>>
      BY DEF SettledJobs, JobIds
    <2>2. budget[r] \in 0..MaxRepairs
      BY DEF TypeOK
    <2>3. jobs'[j] = jobs[j]
      BY <2>1, <2>2, MaxRepairsAssumption DEF SettledJobs, JobOf
    <2>4. CASE j[1] = r
      BY <2>1, <2>2, <2>3, <2>4, MaxRepairsAssumption DEF SettledJobs
    <2>5. CASE j[1] # r
      BY <2>1, <2>3, <2>5 DEF SettledJobs, Folded, Saving
    <2> QED
      BY <2>3, <2>4, <2>5
  <1>2. ASSUME NEW q \in Written PROVE q \in Written' /\ records'[q] = records[q]
    BY DEF Written, Saving
  <1> QED
    BY <1>1, <1>2 DEF Kept

-----------------------------------------------------------------------------
(***************************************************************************)
(* Every step preserves the invariant, one lemma for each.                 *)
(***************************************************************************)

\* A new request knows nothing yet.
LEMMA BeginInv ==
    ASSUME Inv, NEW r \in Requests, Begin(r)
    PROVE  Inv' /\ Kept
  <1>1. PICK label \in {"plan", "read"} : Goto(r, label)
    BY DEF Begin
  <1>2. /\ pc' \in [Requests -> Labels]
        /\ pc'[r] = label
        /\ \A q \in Requests \ {r} : pc'[q] = pc[q]
    BY <1>1, GotoFrame DEF Labels, Inv
  <1>3. /\ op' \in [Requests -> Operations]
        /\ \A q \in Requests \ {r} : op'[q] = op[q]
        /\ label = "plan" => op'[r] = "create"
    BY <1>1 DEF Begin, Inv, TypeOK, Operations, Goto, Labels
  <1>4. TypeOK'
    BY <1>2, <1>3 DEF Begin, Inv, TypeOK, stored
  <1>5. Kept
    BY <1>2, KeptBy DEF Begin, Inv, stored, Ended, Written, Folded, Saving
  <1>6. SessionOK'
    BY <1>5, SessionKept DEF Begin, Inv, stored
  <1>7. \A q \in Requests \ {r} : Untouched(q)
    BY <1>2, <1>3 DEF Begin, Untouched, JobOf, stored
  <1>8. ThreadOK(r)'
    <2>1. /\ doc'[r] = doc[r]
          /\ doc[r] # None => GoodDocument(doc[r]) /\ GoodDecision(doc[r])
      BY DEF Begin, Inv, ThreadOK
    <2>2. doc'[r] # None => GoodDocument(doc[r])' /\ GoodDecision(doc[r])'
      BY <1>5, <2>1, DocumentKept
    <2> QED
      BY <1>1, <1>2, <1>3, <2>2 DEF ThreadOK, Saving
  <1> QED
    BY <1>4, <1>5, <1>6, <1>7, <1>8, StepInv

\* A request that is refused, answered or finds no session ends.
LEMMA EndInv ==
    ASSUME Inv, NEW r \in Requests,
           Refuse(r) \/ Respond(r) \/ SessionLost(r) \/ SwapConflict(r)
    PROVE  Inv' /\ Kept
  <1>1. /\ InFlight(r) /\ Leave(r, "done") /\ UNCHANGED <<stored, expired>>
        /\ etag' \in [Requests -> Etags]
    BY EtagType DEF Inv, TypeOK, Refuse, Respond, SessionLost, SwapConflict, InFlight, Ended
  <1>2. Kept => SessionOK'
    BY <1>1, SessionKept DEF Inv, stored
  <1> QED
    BY <1>1, <1>2, LeaveInv DEF Inv, TypeOK, stored, Ended

\* A request that is interrupted ends as well.
LEMMA AbortInv ==
    ASSUME Inv, NEW r \in Requests, Abort(r)
    PROVE  Inv' /\ Kept
  <1>1. Kept => SessionOK'
    BY SessionKept DEF Inv, Abort, stored
  <1> QED
    BY <1>1, LeaveInv, EtagType DEF Inv, TypeOK, Abort, stored, Ended

\* Reading the session for a new draft: the thread knows what the store does.
LEMMA ReviseInv ==
    ASSUME Inv, NEW r \in Requests, Revise(r)
    PROVE  Inv' /\ Kept
  <1>1. /\ pc' \in [Requests -> Labels]
        /\ pc'[r] = "plan"
        /\ \A q \in Requests \ {r} : pc'[q] = pc[q]
    BY GotoFrame DEF Labels, Inv, Revise
  <1>2. /\ doc' \in [Requests -> Sessions \cup {None}]
        /\ doc'[r] = session
        /\ \A q \in Requests \ {r} : doc'[q] = doc[q]
    BY DEF Revise, Inv, TypeOK
  <1>3. TypeOK'
    BY <1>1, <1>2 DEF Revise, Inv, TypeOK, stored
  <1>4. Kept
    BY <1>1, KeptBy DEF Revise, Inv, stored, Ended, Written, Folded, Saving
  <1>5. SessionOK'
    BY <1>4, SessionKept DEF Revise, Inv, stored
  <1>6. \A q \in Requests \ {r} : Untouched(q)
    BY <1>1, <1>2 DEF Revise, Untouched, JobOf, stored
  <1>7. ThreadOK(r)'
    BY <1>1, <1>2, <1>5 DEF ThreadOK, Saving, SessionOK, GoodDocument, GoodDecision,
       Revise, stored
  <1> QED
    BY <1>3, <1>4, <1>5, <1>6, <1>7, StepInv

\* Planning: the new document has only just its draft.
LEMMA PlanInv ==
    ASSUME Inv, NEW r \in Requests, Plan(r)
    PROVE  Inv' /\ Kept
  <1>1. PICK d \in PlannedVersions(r) :
           StartSave(r, WithDraft(doc[r], d), IF Executable(d) THEN "authorize" ELSE "done")
    BY DEF Plan
  <1> DEFINE next == IF Executable(d) THEN "authorize" ELSE "done"
             s == WithDraft(doc[r], d)
  <1>2. d \in DraftVersions
    <2>1. op[r] \in {"create", "revise", "auto_repair"}
      BY DEF Inv, ThreadOK, Plan
    <2>2. \A c \in cases : c \in Cases /\ c.draft \in Drafts
      BY DEF Inv, TypeOK, Cases
    <2> QED
      BY <2>1, <2>2 DEF PlannedVersions, DraftVersions
  <1>3. s \in Sessions /\ Len(s.drafts) > 0 /\ Latest(s) = d
    <2>1. doc[r] \in Sessions \cup {None}
      BY DEF Inv, TypeOK
    <2>2. doc[r] # None => Len(doc[r].drafts) > 0
      BY DEF Inv, ThreadOK, GoodDocument, Consistent
    <2>3. doc[r] # None => Len(doc[r].drafts) \in Nat
      BY <2>1 DEF Sessions
    <2> QED
      BY <1>2, <2>1, <2>2, <2>3, WithDraftType
  <1>4. next \in Continuations
    BY DEF Continuations
  <1>5. /\ pc' \in [Requests -> Labels] /\ pc'[r] = "save"
        /\ doc' \in [Requests -> Sessions \cup {None}] /\ doc'[r] = s
        /\ then' \in [Requests -> Continuations] /\ then'[r] = next
        /\ \A q \in Requests \ {r} :
             pc'[q] = pc[q] /\ doc'[q] = doc[q] /\ then'[q] = then[q]
    <2> HIDE DEF s, next
    <2>1. StartSave(r, s, next)
      BY <1>1 DEF s, next
    <2> QED
      BY <1>3, <1>4, <2>1, StartSaveFrame DEF Inv
  <1>6. s.authorization = None /\ s.result = None /\ s.answer = None /\ s.decision = None
    BY DEF WithDraft
  <1> HIDE DEF s
  <1>7. TypeOK'
    BY <1>5 DEF Plan, Inv, TypeOK, stored
  <1>8. Kept
    BY <1>5, KeptBy DEF Plan, Inv, stored, Ended, Written, Folded, Saving
  <1>9. SessionOK'
    BY <1>8, SessionKept DEF Plan, Inv, stored
  <1>10. \A q \in Requests \ {r} : Untouched(q)
    BY <1>5 DEF Plan, Untouched, JobOf, stored
  <1>11. ThreadOK(r)'
    <2>1. GoodDocument(doc[r])' /\ GoodDecision(doc[r])'
      BY <1>3, <1>5, <1>6 DEF GoodDocument, GoodDecision, Consistent, OnRecord
    <2>2. doc'[r] # None
      BY <1>3, <1>5, NoneAssumption
    <2> QED
      BY <1>3, <1>5, <2>1, <2>2 DEF ThreadOK, Saving
  <1> QED
    BY <1>7, <1>8, <1>9, <1>10, <1>11, StepInv

\* The id of the job a request would create is a job id.
LEMMA JobOfType ==
    ASSUME TypeOK, NEW r \in Requests
    PROVE  JobOf(r) \in JobIds
  BY DEF TypeOK, JobOf, JobIds

\* Authorizing: the job is new, the authorization is for the last draft.
LEMMA AuthorizeInv ==
    ASSUME Inv, NEW r \in Requests, Authorize(r)
    PROVE  Inv' /\ Kept
  <1> DEFINE s == WithAuthorization(doc[r])
             job == [version |-> Len(doc[r].drafts), draft |-> Latest(doc[r]).draft,
                     status |-> "running"]
  <1>1. /\ doc[r] \in Sessions /\ Len(doc[r].drafts) > 0 /\ Executable(Latest(doc[r]))
        /\ Consistent(doc[r], jobs, SettledJobs)
        /\ OnRecord(doc[r], records, answers, Written)
    BY DEF Inv, TypeOK, ThreadOK, GoodDocument, GoodDecision, Consistent, Authorize
  <1>2. /\ s \in Sessions
        /\ s.authorization = Authorization(doc[r])
        /\ s.drafts = doc[r].drafts
        /\ s.result = doc[r].result
        /\ s.answer = doc[r].answer
        /\ s.decision = doc[r].decision
    BY <1>1, WithAuthorizationType
  <1>3. job \in Jobs
    BY <1>1 DEF Jobs, Executable, Sessions
  <1>4. /\ pc' \in [Requests -> Labels] /\ pc'[r] = "save"
        /\ doc' \in [Requests -> Sessions \cup {None}] /\ doc'[r] = s
        /\ then' \in [Requests -> Continuations] /\ then'[r] = "run"
        /\ \A q \in Requests \ {r} :
             pc'[q] = pc[q] /\ doc'[q] = doc[q] /\ then'[q] = then[q]
    <2>1. "run" \in Continuations
      BY DEF Continuations
    <2> QED
      BY <1>2, <2>1, StartSaveFrame DEF Inv, Authorize
  <1> HIDE DEF s, job
  <1>5. /\ jobs' \in [JobIds -> Jobs \cup {None}]
        /\ jobs'[JobOf(r)] = job
        /\ \A j \in JobIds \ {JobOf(r)} : jobs'[j] = jobs[j]
    BY <1>3, JobOfType DEF Authorize, Inv, TypeOK, job
  <1>6. TypeOK'
    BY <1>4, <1>5 DEF Authorize, Inv, TypeOK
  <1>7. Kept
    BY <1>4, <1>5, KeptBy DEF Authorize, Inv, Ended, Written, Folded, Saving
  <1>8. SessionOK'
    BY <1>7, SessionKept DEF Authorize, Inv
  <1>9. \A q \in Requests \ {r} : Untouched(q)
    BY <1>4, <1>5, JobOfType DEF Authorize, Untouched, JobOf, Inv
  <1>10. ThreadOK(r)'
    <2>1. Consistent(doc[r], jobs', SettledJobs')
      BY <1>1, <1>7, ConsistentKept DEF Kept
    <2>2. OnRecord(doc[r], records', answers', Written')
      BY <1>1, <1>7, OnRecordKept DEF Kept
    <2>3. GoodDocument(doc[r])'
      BY <1>1, <1>2, <1>4, <2>1 DEF GoodDocument, Consistent, Latest, Authorization
    <2>4. GoodDecision(doc[r])'
      BY <1>2, <1>4, <2>2 DEF GoodDecision, OnRecord
    <2>5. doc'[r] # None /\ (JobOf(r))' = JobOf(r) /\ job # None
      BY <1>2, <1>3, <1>4, NoneAssumption DEF JobOf, Authorize
    <2> QED
      BY <1>4, <1>5, <2>3, <2>4, <2>5 DEF ThreadOK, Saving
  <1> QED
    BY <1>6, <1>7, <1>8, <1>9, <1>10, StepInv

\* Reading the etag changes nothing the invariant speaks of.
LEMMA ReadEtagInv ==
    ASSUME Inv, NEW r \in Requests, ReadEtag(r)
    PROVE  Inv' /\ Kept
  <1>1. /\ pc' \in [Requests -> Labels]
        /\ pc'[r] = "swap"
        /\ \A q \in Requests \ {r} : pc'[q] = pc[q]
    BY GotoFrame DEF Labels, Inv, ReadEtag
  <1>2. TypeOK'
    BY <1>1, EtagType DEF ReadEtag, Inv, TypeOK, stored, local
  <1>3. Kept
    BY <1>1, KeptBy DEF ReadEtag, Inv, stored, local, Ended, Written, Folded, Saving
  <1>4. SessionOK'
    BY <1>3, SessionKept DEF ReadEtag, Inv, stored
  <1>5. \A q \in Requests \ {r} : Untouched(q)
    BY <1>1 DEF ReadEtag, Untouched, JobOf, stored, local
  <1>6. ThreadOK(r)'
    <2>1. doc[r] # None /\ doc'[r] = doc[r] /\ GoodDocument(doc[r]) /\ GoodDecision(doc[r])
      BY DEF Inv, ThreadOK, ReadEtag, local
    <2>2. GoodDocument(doc[r])' /\ GoodDecision(doc[r])'
      BY <1>3, <2>1, DocumentKept
    <2> QED
      BY <1>1, <2>1, <2>2 DEF ReadEtag, Inv, ThreadOK, Saving, JobOf, stored, local
  <1> QED
    BY <1>2, <1>3, <1>4, <1>5, <1>6, StepInv

\* Writing the session: what the thread holds is fit to be stored.
LEMMA SwapInv ==
    ASSUME Inv, NEW r \in Requests, Swap(r)
    PROVE  Inv' /\ Kept
  <1>1. /\ doc[r] \in Sessions
        /\ Consistent(doc[r], jobs, SettledJobs)
        /\ OnRecord(doc[r], records, answers, Written)
    BY DEF Inv, TypeOK, ThreadOK, GoodDocument, GoodDecision, Swap
  <1>2. Kept => SessionOK'
    <2> SUFFICES ASSUME Kept PROVE SessionOK'
      OBVIOUS
    <2>1. session' = doc[r]
      BY DEF Swap
    <2>2. Consistent(doc[r], jobs', SettledJobs')
      BY <1>1, ConsistentKept DEF Kept
    <2>3. OnRecord(doc[r], records', answers', Written')
      BY <1>1, OnRecordKept DEF Kept
    <2> QED
      BY <2>1, <2>2, <2>3 DEF SessionOK, GoodDocument, GoodDecision
  <1>3. CASE then[r] = "done"
    BY <1>1, <1>2, <1>3, LeaveInv, EtagType DEF Swap, Inv, TypeOK, InFlight, Ended
  <1>4. CASE then[r] # "done"
    <2>1. then[r] \in Continuations \ {"done"}
      BY <1>4 DEF Inv, TypeOK
    <2>2. /\ pc' \in [Requests -> Labels]
          /\ pc'[r] = then[r]
          /\ \A q \in Requests \ {r} : pc'[q] = pc[q]
      BY <1>4, <2>1, GotoFrame DEF Labels, Inv, Swap
    <2>3. TypeOK'
      BY <1>1, <1>4, <2>2, EtagType DEF Swap, Inv, TypeOK, local
    <2>4. Kept
      BY <1>4, <2>2, KeptBy DEF Swap, Inv, local, Ended, Written, Folded, Saving
    <2>5. \A q \in Requests \ {r} : Untouched(q)
      BY <1>4, <2>2 DEF Swap, Untouched, JobOf, local
    <2>6. ThreadOK(r)'
      <3>1. doc'[r] = doc[r]
        BY <1>4 DEF Swap, local
      <3>2. GoodDocument(doc[r])' /\ GoodDecision(doc[r])'
        BY <1>1, <2>4, <3>1, DocumentKept DEF GoodDocument, GoodDecision
      <3> QED
        BY <1>4, <2>1, <2>2, <3>2
           DEF Swap, Inv, ThreadOK, Saving, JobOf, local, Continuations
    <2> QED
      BY <1>2, <2>3, <2>4, <2>5, <2>6, StepInv
  <1> QED
    BY <1>3, <1>4

\* The worker's steps change nothing but the request's own job.
LEMMA WorkInv ==
    ASSUME Inv, NEW r \in Requests, Run(r) \/ RunHalfStored(r) \/ Recover(r)
    PROVE  Inv' /\ Kept
  <1>1. PICK status \in {"succeeded", "failed"}, label \in {"recover", "fold"} :
           /\ pc[r] \in {"run", "recover"}
           /\ jobs' = [jobs EXCEPT ![JobOf(r)].status = status]
           /\ Goto(r, label)
    BY DEF Run, RunHalfStored, Recover, Terminal
  <1>2. UNCHANGED <<session, answers, records, cases, expired, local, etag>>
    BY DEF Run, RunHalfStored, Recover
  <1>3. jobs[JobOf(r)] \in Jobs
    BY <1>1, JobOfType DEF Inv, TypeOK, ThreadOK
  <1>4. /\ jobs' \in [JobIds -> Jobs \cup {None}]
        /\ jobs'[JobOf(r)] \in Jobs
        /\ jobs'[JobOf(r)].status = status
        /\ \A j \in JobIds \ {JobOf(r)} : jobs'[j] = jobs[j]
    BY <1>1, <1>3, JobOfType DEF Inv, TypeOK, Jobs
  <1>5. /\ pc' \in [Requests -> Labels]
        /\ pc'[r] = label
        /\ \A q \in Requests \ {r} : pc'[q] = pc[q]
    BY <1>1, GotoFrame DEF Labels, Inv
  <1>6. TypeOK'
    BY <1>2, <1>4, <1>5 DEF Inv, TypeOK, local
  <1>7. Kept
    BY <1>1, <1>2, <1>4, <1>5, KeptBy DEF Inv, local, Ended, Written, Folded, Saving
  <1>8. SessionOK'
    BY <1>2, <1>7, SessionKept DEF Inv
  <1>9. \A q \in Requests \ {r} : Untouched(q)
    BY <1>2, <1>4, <1>5, JobOfType DEF Untouched, JobOf, Inv, local
  <1>10. ThreadOK(r)'
    <2>1. /\ doc'[r] = doc[r] /\ (JobOf(r))' = JobOf(r)
          /\ doc[r] # None => GoodDocument(doc[r]) /\ GoodDecision(doc[r])
      BY <1>1, <1>2 DEF Inv, ThreadOK, local, JobOf
    <2>2. doc'[r] # None => GoodDocument(doc[r])' /\ GoodDecision(doc[r])'
      BY <1>7, <2>1, DocumentKept
    <2>3. jobs'[JobOf(r)] # None
      BY <1>4, NoneAssumption
    <2> QED
      BY <1>1, <1>4, <1>5, <2>1, <2>2, <2>3 DEF ThreadOK, Saving
  <1> QED
    BY <1>6, <1>7, <1>8, <1>9, <1>10, StepInv

\* Folding: the job is settled from here on, and the document names it.
LEMMA FoldInv ==
    ASSUME Inv, NEW r \in Requests, Fold(r)
    PROVE  Inv' /\ Kept
  <1> DEFINE status == jobs[JobOf(r)].status
  <1>1. PICK answered \in BOOLEAN :
           StartSave(r, WithResult(session, JobOf(r), status, answered), "reread")
    BY DEF Fold
  <1> DEFINE s == WithResult(session, JobOf(r), status, answered)
  <1>2. /\ jobs[JobOf(r)] # None
        /\ status \in {"succeeded", "failed"}
        /\ JobOf(r) \in JobIds
    BY JobOfType DEF Inv, ThreadOK, Fold
  <1>3. /\ session \in Sessions
        /\ Consistent(session, jobs, SettledJobs)
    BY DEF Inv, TypeOK, SessionOK, GoodDocument, Fold
  <1>4. /\ s \in Sessions
        /\ s.drafts = session.drafts
        /\ s.authorization = session.authorization
        /\ s.result = [job |-> JobOf(r), status |-> status]
        /\ s.answer = IF status = "succeeded" /\ answered THEN JobOf(r) ELSE None
        /\ s.decision = None
    BY <1>2, <1>3, WithResultType
  <1> HIDE DEF s
  <1>5. /\ pc' \in [Requests -> Labels] /\ pc'[r] = "save"
        /\ doc' \in [Requests -> Sessions \cup {None}] /\ doc'[r] = s
        /\ then' \in [Requests -> Continuations] /\ then'[r] = "reread"
        /\ \A q \in Requests \ {r} :
             pc'[q] = pc[q] /\ doc'[q] = doc[q] /\ then'[q] = then[q]
    <2>1. "reread" \in Continuations
      BY DEF Continuations
    <2> QED
      BY <1>1, <1>4, <2>1, StartSaveFrame DEF Inv, s
  <1>6. TypeOK'
    BY <1>5 DEF Fold, Inv, TypeOK, stored
  <1>7. Kept
    BY <1>5, KeptBy DEF Fold, Inv, stored, Ended, Written, Folded, Saving
  <1>8. SessionOK'
    BY <1>7, SessionKept DEF Fold, Inv, stored
  <1>9. \A q \in Requests \ {r} : Untouched(q)
    BY <1>5 DEF Fold, Untouched, JobOf, stored
  <1>10. ThreadOK(r)'
    <2>1. JobOf(r) \in SettledJobs'
      BY <1>2, <1>5 DEF SettledJobs, Folded, Saving, JobOf, Fold, stored
    <2>2. Consistent(session, jobs', SettledJobs')
      BY <1>3, <1>7, ConsistentKept DEF Kept
    <2>3. jobs' = jobs
      BY DEF Fold, stored
    <2>4. s.result # None
      BY <1>2, <1>4, NoneAssumption DEF Results
    <2>5. Consistent(s, jobs', SettledJobs')
      BY <1>4, <2>1, <2>2, <2>3, <2>4 DEF Consistent, Latest, Authorization
    <2>6. GoodDocument(doc[r])' /\ GoodDecision(doc[r])'
      BY <1>4, <1>5, <2>5 DEF GoodDocument, GoodDecision, OnRecord
    <2>7. doc'[r] # None
      BY <1>4, <1>5, NoneAssumption
    <2> QED
      BY <1>5, <2>6, <2>7 DEF ThreadOK, Saving
  <1> QED
    BY <1>6, <1>7, <1>8, <1>9, <1>10, StepInv

\* Repairing: the job of the attempt is behind the request.
LEMMA RepairInv ==
    ASSUME Inv, NEW r \in Requests, Repair(r)
    PROVE  Inv' /\ Kept
  <1>1. /\ pc' \in [Requests -> Labels]
        /\ pc'[r] = "read"
        /\ \A q \in Requests \ {r} : pc'[q] = pc[q]
    BY GotoFrame DEF Labels, Inv, Repair
  <1>2. /\ op' \in [Requests -> Operations]
        /\ \A q \in Requests \ {r} : op'[q] = op[q]
    BY DEF Repair, Inv, TypeOK, Operations
  <1>3. /\ budget[r] \in 1..MaxRepairs
        /\ budget'[r] = budget[r] - 1
        /\ budget' \in [Requests -> 0..MaxRepairs]
        /\ \A q \in Requests \ {r} : budget'[q] = budget[q]
    BY MaxRepairsAssumption DEF Repair, MayRepair, Inv, TypeOK
  <1>4. TypeOK'
    BY <1>1, <1>2, <1>3 DEF Repair, Inv, TypeOK, stored
  <1>5. Kept
    <2>1. budget'[r] \in Nat /\ budget'[r] < budget[r]
      BY <1>3, MaxRepairsAssumption
    <2> QED
      BY <1>1, <1>3, <2>1, KeptBy DEF Repair, Inv, stored, Ended, Written, Saving
  <1>6. SessionOK'
    BY <1>5, SessionKept DEF Repair, Inv, stored
  <1>7. \A q \in Requests \ {r} : Untouched(q)
    BY <1>1, <1>2, <1>3 DEF Repair, Untouched, JobOf, stored
  <1>8. ThreadOK(r)'
    <2>1. /\ doc'[r] = doc[r]
          /\ doc[r] # None => GoodDocument(doc[r]) /\ GoodDecision(doc[r])
      BY DEF Repair, Inv, ThreadOK
    <2>2. doc'[r] # None => GoodDocument(doc[r])' /\ GoodDecision(doc[r])'
      BY <1>5, <2>1, DocumentKept
    <2> QED
      BY <1>1, <2>2 DEF ThreadOK, Saving
  <1> QED
    BY <1>4, <1>5, <1>6, <1>7, <1>8, StepInv

\* Deciding: the document is ready, its record is still to be written.
LEMMA DecideInv ==
    ASSUME Inv, NEW r \in Requests, Decide(r)
    PROVE  Inv' /\ Kept
  <1> DEFINE s == WithDecision(session, r, op[r])
  <1>1. /\ session \in Sessions
        /\ Consistent(session, jobs, SettledJobs)
        /\ op[r] \in {"accept", "reject"}
    BY DEF Inv, TypeOK, SessionOK, GoodDocument, Decide, MayDecide, Active
  <1>2. /\ s \in Sessions
        /\ s.drafts = session.drafts
        /\ s.authorization = session.authorization
        /\ s.result = session.result
        /\ s.answer = session.answer
        /\ s.decision = [kind |-> op[r], by |-> r]
    BY <1>1, WithDecisionType
  <1> HIDE DEF s
  <1>3. /\ pc' \in [Requests -> Labels]
        /\ pc'[r] \in {"answer", "record"}
        /\ pc'[r] = "record" => op[r] # "accept"
        /\ \A q \in Requests \ {r} : pc'[q] = pc[q]
    BY GotoFrame DEF Labels, Inv, Decide, FirstWrite
  <1>4. /\ doc' \in [Requests -> Sessions \cup {None}] /\ doc'[r] = s
        /\ then' \in [Requests -> Continuations] /\ then'[r] = "remember"
        /\ \A q \in Requests \ {r} : doc'[q] = doc[q] /\ then'[q] = then[q]
    BY <1>2 DEF Decide, Inv, TypeOK, Continuations, s
  <1>5. TypeOK'
    BY <1>3, <1>4 DEF Decide, Inv, TypeOK, stored
  <1>6. Kept
    BY <1>3, <1>4, KeptBy DEF Decide, Inv, stored, Ended, Written, Folded, Saving
  <1>7. SessionOK'
    BY <1>6, SessionKept DEF Decide, Inv, stored
  <1>8. \A q \in Requests \ {r} : Untouched(q)
    BY <1>3, <1>4 DEF Decide, Untouched, JobOf, stored
  <1>9. ThreadOK(r)'
    <2>1. Consistent(session, jobs', SettledJobs')
      BY <1>1, <1>6, ConsistentKept DEF Kept
    <2>2. GoodDocument(doc[r])'
      BY <1>2, <1>4, <2>1 DEF GoodDocument, Consistent, Latest, Authorization
    <2>3. doc'[r] # None
      BY <1>2, <1>4, NoneAssumption
    <2>4. Persistable(s)
      BY <1>2 DEF Decide, Persistable, Latest
    <2> QED
      BY <1>1, <1>2, <1>3, <1>4, <2>2, <2>3, <2>4 DEF Decide, ThreadOK, Saving
  <1> QED
    BY <1>5, <1>6, <1>7, <1>8, <1>9, StepInv

\* Writing the answer artifact adds to what is on record.
LEMMA PersistAnswerInv ==
    ASSUME Inv, NEW r \in Requests, PersistAnswer(r)
    PROVE  Inv' /\ Kept
  <1>1. /\ pc' \in [Requests -> Labels]
        /\ pc'[r] = "record"
        /\ \A q \in Requests \ {r} : pc'[q] = pc[q]
    BY GotoFrame DEF Labels, Inv, PersistAnswer
  <1>2. TypeOK'
    BY <1>1 DEF PersistAnswer, Inv, TypeOK, local
  <1>3. Kept
    BY <1>1, KeptBy DEF PersistAnswer, Inv, local, Ended, Written, Folded, Saving
  <1>4. SessionOK'
    BY <1>3, SessionKept DEF PersistAnswer, Inv
  <1>5. \A q \in Requests \ {r} : Untouched(q)
    BY <1>1 DEF PersistAnswer, Untouched, JobOf, local
  <1>6. ThreadOK(r)'
    <2>1. doc[r] # None /\ doc'[r] = doc[r] /\ GoodDocument(doc[r])
      BY DEF Inv, ThreadOK, PersistAnswer, local
    <2>2. GoodDocument(doc[r])'
      BY <1>3, <2>1, DocumentKept
    <2> QED
      BY <1>1, <2>1, <2>2 DEF PersistAnswer, Inv, ThreadOK, Saving, Persistable, local
  <1> QED
    BY <1>2, <1>3, <1>4, <1>5, <1>6, StepInv

\* Writing the record: from here on the decision may be shown.
LEMMA PersistRecordInv ==
    ASSUME Inv, NEW r \in Requests, PersistRecord(r)
    PROVE  Inv' /\ Kept
  <1>1. /\ pc' \in [Requests -> Labels]
        /\ pc'[r] = "save"
        /\ \A q \in Requests \ {r} : pc'[q] = pc[q]
    BY GotoFrame DEF Labels, Inv, PersistRecord
  <1>2. /\ doc[r] \in Sessions
        /\ GoodDocument(doc[r])
        /\ op[r] \in {"accept", "reject"}
        /\ then[r] = "remember"
        /\ doc[r].decision = [kind |-> op[r], by |-> r]
        /\ Persistable(doc[r])
        /\ op[r] = "accept" => r \in answers
    BY DEF Inv, TypeOK, ThreadOK, PersistRecord
  <1>3. RecordOf(doc[r], op[r]) \in Records
    BY <1>2, RecordOfType DEF GoodDocument, Consistent
  <1>4. /\ records' \in [Requests -> Records \cup {None}]
        /\ records'[r] = RecordOf(doc[r], op[r])
        /\ \A q \in Requests \ {r} : records'[q] = records[q]
    BY <1>3 DEF PersistRecord, Inv, TypeOK
  <1>5. TypeOK'
    BY <1>1, <1>4 DEF PersistRecord, Inv, TypeOK, local
  <1>6. Kept
    BY <1>1, <1>2, <1>4, KeptBy DEF PersistRecord, Inv, local, Ended, Written, Folded, Saving
  <1>7. SessionOK'
    BY <1>6, SessionKept DEF PersistRecord, Inv
  <1>8. \A q \in Requests \ {r} : Untouched(q)
    BY <1>1 DEF PersistRecord, Untouched, JobOf, local
  <1>9. ThreadOK(r)'
    <2>1. doc'[r] = doc[r] /\ op'[r] = op[r] /\ then'[r] = then[r] /\ answers' = answers
      BY DEF PersistRecord, local
    <2>2. GoodDocument(doc[r])'
      BY <1>2, <1>6, <2>1, DocumentKept
    <2>3. r \in Written'
      BY <1>1, <1>2, <2>1 DEF Written, Saving
    <2>4. records'[r] # None /\ records'[r].kind = op[r]
      BY <1>3, <1>4, NoneAssumption DEF RecordOf
    <2>5. GoodDecision(doc[r])'
      BY <1>2, <2>1, <2>3, <2>4 DEF GoodDecision, OnRecord
    <2>6. doc[r] # None
      BY <1>2, NoneAssumption
    <2> QED
      BY <1>1, <1>2, <2>1, <2>2, <2>5, <2>6 DEF ThreadOK, Saving, Persistable
  <1> QED
    BY <1>5, <1>6, <1>7, <1>8, <1>9, StepInv

\* Remembering changes the case base only, and the request ends.
LEMMA RememberInv ==
    ASSUME Inv, NEW r \in Requests, Remember(r)
    PROVE  Inv' /\ Kept
  <1>1. cases' \subseteq Cases
    <2>1. /\ doc[r] \in Sessions
          /\ Persistable(doc[r])
          /\ GoodDocument(doc[r])
      BY DEF Inv, TypeOK, ThreadOK, Remember
    <2>2. Executable(Latest(doc[r]))
      BY <2>1 DEF Persistable, GoodDocument, Consistent
    <2>3. [by |-> r, draft |-> Latest(doc[r]).draft] \in Cases
      BY <2>2 DEF Executable, Cases
    <2> QED
      BY <2>3 DEF Remember, Remembered, Inv, TypeOK
  <1>2. Kept => SessionOK'
    BY SessionKept DEF Inv, Remember
  <1>3. InFlight(r)
    BY DEF Remember, InFlight, Ended
  <1> QED
    BY <1>1, <1>2, <1>3, LeaveInv DEF Remember, Inv, TypeOK, Ended

\* A request about to delete the session holds nothing of it.
LEMMA ReadForDeleteInv ==
    ASSUME Inv, NEW r \in Requests, ReadForDelete(r)
    PROVE  Inv' /\ Kept
  <1>1. /\ pc' \in [Requests -> Labels]
        /\ pc'[r] = "drop"
        /\ \A q \in Requests \ {r} : pc'[q] = pc[q]
    BY GotoFrame DEF Labels, Inv, ReadForDelete
  <1>2. TypeOK'
    BY <1>1 DEF ReadForDelete, Inv, TypeOK, stored, local
  <1>3. Kept
    BY <1>1, KeptBy DEF ReadForDelete, Inv, stored, local, Ended, Written, Folded, Saving
  <1>4. SessionOK'
    BY <1>3, SessionKept DEF ReadForDelete, Inv, stored
  <1>5. \A q \in Requests \ {r} : Untouched(q)
    BY <1>1 DEF ReadForDelete, Untouched, JobOf, stored, local
  <1>6. ThreadOK(r)'
    <2>1. /\ doc'[r] = doc[r]
          /\ doc[r] # None => GoodDocument(doc[r]) /\ GoodDecision(doc[r])
      BY DEF ReadForDelete, Inv, ThreadOK, local
    <2>2. doc'[r] # None => GoodDocument(doc[r])' /\ GoodDecision(doc[r])'
      BY <1>3, <2>1, DocumentKept
    <2> QED
      BY <1>1, <2>2 DEF ThreadOK, Saving
  <1> QED
    BY <1>2, <1>3, <1>4, <1>5, <1>6, StepInv

\* Deleting leaves no session to be in order.
LEMMA DropInv ==
    ASSUME Inv, NEW r \in Requests, Drop(r)
    PROVE  Inv' /\ Kept
  <1>1. SessionOK'
    BY DEF Drop, SessionOK
  <1> QED
    BY <1>1, LeaveInv, EtagType DEF Drop, Inv, TypeOK, InFlight, Ended

\* The clock, the store and an idle service touch no request.
LEMMA EnvironmentInv ==
    ASSUME Inv, Expire \/ Purge \/ UNCHANGED vars
    PROVE  Inv' /\ Kept
  <1>1. /\ UNCHANGED <<jobs, answers, records, cases, pc, local>>
        /\ session' \in {session, None}
    BY DEF Expire, Purge, vars, stored, local
  <1>2. TypeOK'
    BY <1>1, EtagType DEF Expire, Purge, vars, Inv, TypeOK, local
  <1>3. Kept
    BY <1>1 DEF Kept, SettledJobs, Written, Folded, Saving, local
  <1>4. SessionOK'
    BY <1>1, <1>3, SessionKept DEF Inv, SessionOK
  <1>5. ASSUME NEW q \in Requests PROVE ThreadOK(q)'
    BY <1>1, <1>3, ThreadKept DEF Inv, Untouched, JobOf, local
  <1> QED
    BY <1>2, <1>3, <1>4, <1>5 DEF Inv

-----------------------------------------------------------------------------
(***************************************************************************)
(* The invariant holds of every behaviour, whoever interleaves with whom.  *)
(***************************************************************************)

\* The initial states, among them those with cases from earlier sessions.
LEMMA InitInv == Init => Inv
  <1> SUFFICES ASSUME Init PROVE Inv
    OBVIOUS
  <1>1. TypeOK
    <2>1. /\ "idle" \in Labels /\ "create" \in Operations /\ "done" \in Continuations
          /\ MaxRepairs \in 0..MaxRepairs /\ "stale" \in Etags
      BY MaxRepairsAssumption DEF Labels, Operations, Continuations, Etags
    <2> QED
      BY <2>1 DEF Init, TypeOK
  <1>2. \A r \in Requests : ThreadOK(r)
    BY DEF Init, ThreadOK, Saving
  <1> QED
    BY <1>1, <1>2 DEF Init, Inv, SessionOK

\* Every step of the system preserves the invariant.
LEMMA NextInv == Inv /\ [Next]_vars => Inv' /\ Kept
  <1> SUFFICES ASSUME Inv, [Next]_vars PROVE Inv' /\ Kept
    OBVIOUS
  <1>1. ASSUME NEW r \in Requests, Begin(r) \/ Serve(r) \/ Abort(r) PROVE Inv' /\ Kept
    BY <1>1, BeginInv, AbortInv, EndInv, ReviseInv, PlanInv, AuthorizeInv, ReadEtagInv,
       SwapInv, WorkInv, FoldInv, RepairInv, DecideInv, PersistAnswerInv,
       PersistRecordInv, RememberInv, ReadForDeleteInv, DropInv
       DEF Serve
  <1>2. CASE Expire \/ Purge \/ Idle \/ UNCHANGED vars
    BY <1>2, EnvironmentInv DEF Idle
  <1> QED
    BY <1>1, <1>2 DEF Next

\* The invariant of any interleaving.
THEOREM Invariance == Spec => []Inv
  BY InitInv, NextInv, PTL DEF Spec

\* Every variable keeps its type: no interleaving, interruption or expiry
\* makes the service create a job under an id that is none, store a document
\* without its fields or record a decision of a draft that does not exist.
THEOREM TypeCorrect == Spec => []TypeOK
  <1>1. Inv => TypeOK
    BY DEF Inv
  <1> QED
    BY <1>1, Invariance, PTL

\* A decision a session shows has its workflow record and, if accepted, its
\* answer artifact, for any number of concurrent requests.
THEOREM DecisionsAreRecorded == Spec => []DecisionRecorded
  <1>1. Inv => DecisionRecorded
    BY DEF Inv, SessionOK, GoodDecision, OnRecord, DecisionRecorded
  <1> QED
    BY <1>1, Invariance, PTL

\* An authorization a session shows is for its last draft, which validates,
\* for any number of concurrent requests.
THEOREM AuthorizationsAreCurrent == Spec => []AuthorizesLatestDraft
  <1>1. Inv => AuthorizesLatestDraft
    BY DEF Inv, SessionOK, GoodDocument, Consistent, AuthorizesLatestDraft
  <1> QED
    BY <1>1, Invariance, PTL

\* The result a session shows is the job that is stored, and its answer comes
\* from that result, for any number of concurrent requests.
THEOREM ResultsAreStored == Spec => []ResultAgreesWithJob
  <1>1. Inv => ResultAgreesWithJob
    BY DEF Inv, SessionOK, GoodDocument, Consistent, SettledJobs, ResultAgreesWithJob
  <1> QED
    BY <1>1, Invariance, PTL

-----------------------------------------------------------------------------
(***************************************************************************)
(* Every request comes to its end: what TLC finds of a few requests as     *)
(* liveness rests on a bound of the calls that a request has left.         *)
(***************************************************************************)

\* The calls that follow a label until the request ends or is repaired.
CallsFrom(label) ==
    CASE label = "read" -> 13
      [] label = "plan" -> 12
      [] label = "authorize" -> 9
      [] label = "run" -> 6
      [] label \in {"recover", "answer"} -> 5
      [] label \in {"fold", "record"} -> 4
      [] label \in {"reread", "remember", "drop"} -> 1
      [] OTHER -> 0

CallsHere(r) ==
    CASE pc[r] = "save" -> CallsFrom(then[r]) + 2
      [] pc[r] = "swap" -> CallsFrom(then[r]) + 1
      [] OTHER -> CallsFrom(pc[r])

\* A round of a request is at most 13 calls, and each repair is one round more.
CallsLeft(r) == IF InFlight(r) THEN 13 * budget[r] + CallsHere(r) ELSE 0

CallsBound == 13 * (MaxRepairs + 1)

\* A request in flight has a call to make, and no more than the bound.
LEMMA CallsBounded ==
    ASSUME TypeOK, NEW r \in Requests
    PROVE  /\ CallsLeft(r) \in 0 .. CallsBound
           /\ InFlight(r) => CallsLeft(r) > 0
  <1>1. budget[r] \in 0 .. MaxRepairs /\ pc[r] \in Labels /\ then[r] \in Continuations
    BY DEF TypeOK
  <1>2. InFlight(r) => CallsHere(r) \in 1 .. 13
    <2>1. CallsFrom(then[r]) \in 0 .. 9
      BY <1>1 DEF CallsFrom, Continuations
    <2>2. InFlight(r) /\ pc[r] \notin {"save", "swap"} => CallsFrom(pc[r]) \in 1 .. 13
      BY <1>1 DEF CallsFrom, InFlight, Ended, Labels, Continuations
    <2> QED
      BY <2>1, <2>2 DEF CallsHere
  <1>3. CallsBound \in Nat
    BY MaxRepairsAssumption DEF CallsBound
  <1> HIDE DEF InFlight
  <1> QED
    BY <1>1, <1>2, <1>3, MaxRepairsAssumption DEF CallsLeft, CallsBound

\* The steps of others take no call from a request and add none.
LEMMA CallsOfOthers ==
    ASSUME NEW q, pc'[q] = pc[q], then'[q] = then[q], budget'[q] = budget[q]
    PROVE  CallsLeft(q)' = CallsLeft(q)
  BY DEF CallsLeft, CallsHere, InFlight

\* A request that ends has no call left.
LEMMA CallsOnLeave ==
    ASSUME TypeOK, NEW r \in Requests, InFlight(r), NEW label \in Ended, Leave(r, label)
    PROVE  CallsLeft(r)' < CallsLeft(r)
  <1>1. pc'[r] = label
    BY LeaveFrame
  <1>2. CallsLeft(r)' = 0
    BY <1>1 DEF CallsLeft, InFlight
  <1> QED
    BY <1>2, CallsBounded

\* A request that goes on with its budget has fewer calls left if the place
\* it comes to is nearer to the end.
LEMMA CallsOnGoto ==
    ASSUME TypeOK, NEW r \in Requests, InFlight(r), budget'[r] = budget[r],
           CallsHere(r)' \in Nat, CallsHere(r) \in Nat, CallsHere(r)' < CallsHere(r)
    PROVE  CallsLeft(r)' < CallsLeft(r)
  <1>1. budget[r] \in Nat
    BY MaxRepairsAssumption DEF TypeOK
  <1>2. CallsLeft(r) = 13 * budget[r] + CallsHere(r)
    BY DEF CallsLeft
  <1>3. CallsLeft(r)' \in {0, 13 * budget[r] + CallsHere(r)'}
    BY DEF CallsLeft
  <1> QED
    BY <1>1, <1>2, <1>3

\* Every step of a request takes it nearer to its end.
LEMMA ServeTakesCall ==
    ASSUME Inv, NEW r \in Requests, Serve(r)
    PROVE  CallsLeft(r)' < CallsLeft(r)
  <1>1. TypeOK /\ pc[r] \in Labels /\ then[r] \in Continuations
    BY DEF Inv, TypeOK
  <1>2. CASE \/ Refuse(r) \/ Respond(r) \/ SessionLost(r) \/ SwapConflict(r)
             \/ Remember(r) \/ Drop(r)
    <2>1. InFlight(r) /\ Leave(r, "done")
      BY <1>2 DEF Refuse, Respond, SessionLost, SwapConflict, Remember, Drop, InFlight, Ended
    <2> QED
      BY <1>1, <2>1, CallsOnLeave DEF Ended
  <1>3. CASE Revise(r) \/ Decide(r) \/ ReadForDelete(r)
    <2>1. /\ InFlight(r) /\ pc[r] = "read" /\ budget' = budget
          /\ pc'[r] \in {"plan", "answer", "record", "drop"}
      BY <1>1, <1>3 DEF Revise, Decide, ReadForDelete, FirstWrite, Goto, InFlight, Ended,
         TypeOK, local
    <2>2. CallsHere(r) = 13 /\ CallsHere(r)' \in {12, 5, 4, 1}
      BY <2>1 DEF CallsHere, CallsFrom
    <2> QED
      BY <1>1, <2>1, <2>2, CallsOnGoto
  <1>4. CASE Plan(r) \/ Authorize(r) \/ Fold(r)
    <2>1. /\ InFlight(r) /\ budget' = budget /\ pc'[r] = "save"
          /\ \/ pc[r] = "plan" /\ then'[r] \in {"authorize", "done"}
             \/ pc[r] = "authorize" /\ then'[r] = "run"
             \/ pc[r] = "fold" /\ then'[r] = "reread"
      BY <1>1, <1>4 DEF Plan, Authorize, Fold, StartSave, Goto, InFlight, Ended, TypeOK
    <2>2. /\ CallsHere(r) \in Nat /\ CallsHere(r)' \in Nat
          /\ CallsHere(r)' < CallsHere(r)
      BY <2>1 DEF CallsHere, CallsFrom
    <2> QED
      BY <1>1, <2>1, <2>2, CallsOnGoto
  <1>5. CASE Run(r) \/ RunHalfStored(r) \/ Recover(r) \/ PersistAnswer(r)
    <2>1. /\ InFlight(r) /\ budget' = budget
          /\ \/ pc[r] = "run" /\ pc'[r] \in {"recover", "fold"}
             \/ pc[r] = "recover" /\ pc'[r] = "fold"
             \/ pc[r] = "answer" /\ pc'[r] = "record"
      BY <1>1, <1>5 DEF Run, RunHalfStored, Recover, PersistAnswer, Terminal, Goto,
         InFlight, Ended, TypeOK, local
    <2>2. /\ CallsHere(r) \in Nat /\ CallsHere(r)' \in Nat
          /\ CallsHere(r)' < CallsHere(r)
      BY <2>1 DEF CallsHere, CallsFrom
    <2> QED
      BY <1>1, <2>1, <2>2, CallsOnGoto
  <1>6. CASE PersistRecord(r)
    <2>1. /\ InFlight(r) /\ budget' = budget
          /\ pc[r] = "record" /\ pc'[r] = "save" /\ then'[r] = "remember"
      BY <1>1, <1>6 DEF PersistRecord, Goto, InFlight, Ended, TypeOK, local, Inv, ThreadOK
    <2>2. CallsHere(r) = 4 /\ CallsHere(r)' = 3
      BY <2>1 DEF CallsHere, CallsFrom
    <2> QED
      BY <1>1, <2>1, <2>2, CallsOnGoto
  <1>7. CASE ReadEtag(r)
    <2>1. /\ InFlight(r) /\ budget' = budget /\ then' = then
          /\ pc[r] = "save" /\ pc'[r] = "swap"
      BY <1>1, <1>7 DEF ReadEtag, Goto, InFlight, Ended, TypeOK, local
    <2>2. CallsFrom(then[r]) \in Nat
      BY DEF CallsFrom
    <2>3. /\ CallsHere(r) = CallsFrom(then[r]) + 2
          /\ CallsHere(r)' = CallsFrom(then[r]) + 1
      BY <2>1 DEF CallsHere, CallsFrom
    <2> QED
      BY <1>1, <2>1, <2>2, <2>3, CallsOnGoto
  <1>8. CASE Swap(r)
    <2>1. InFlight(r) /\ pc[r] = "swap"
      BY <1>8 DEF Swap, InFlight, Ended
    <2>2. CASE then[r] = "done"
      BY <1>1, <1>8, <2>1, <2>2, CallsOnLeave DEF Swap, Ended
    <2>3. CASE then[r] # "done"
      <3>1. budget' = budget /\ pc'[r] = then[r]
        BY <1>1, <1>8, <2>3 DEF Swap, Goto, TypeOK, local
      <3>2. CallsFrom(then[r]) \in Nat
        BY DEF CallsFrom
      <3>3. /\ CallsHere(r) = CallsFrom(then[r]) + 1
            /\ CallsHere(r)' = CallsFrom(then[r])
        BY <1>1, <2>1, <3>1 DEF CallsHere, CallsFrom, Continuations
      <3> QED
        BY <1>1, <2>1, <3>1, <3>2, <3>3, CallsOnGoto
    <2> QED
      BY <2>2, <2>3
  <1>9. CASE Repair(r)
    <2>1. /\ InFlight(r) /\ pc[r] = "reread" /\ pc'[r] = "read"
          /\ budget[r] \in Nat /\ budget[r] > 0 /\ budget'[r] = budget[r] - 1
      BY <1>1, <1>9, MaxRepairsAssumption
         DEF Repair, MayRepair, Goto, InFlight, Ended, TypeOK
    <2>2. CallsHere(r) = 1 /\ CallsHere(r)' = 13
      BY <2>1 DEF CallsHere, CallsFrom
    <2>3. /\ CallsLeft(r) = 13 * budget[r] + 1
          /\ CallsLeft(r)' = 13 * (budget[r] - 1) + 13
      BY <2>1, <2>2 DEF CallsLeft, InFlight, Ended
    <2> QED
      BY <2>1, <2>3
  <1> QED
    BY <1>2, <1>3, <1>4, <1>5, <1>6, <1>7, <1>8, <1>9 DEF Serve

\* The steps that are not its own neither give a request a call to make nor
\* take one from it.
LEMMA CallsAreOwn ==
    ASSUME Inv, [Next]_vars, NEW r \in Requests, ~Begin(r), ~Serve(r), ~Abort(r)
    PROVE  CallsLeft(r)' = CallsLeft(r)
  <1>1. ASSUME NEW q \in Requests, Begin(q) \/ Serve(q) \/ Abort(q), q # r
        PROVE  pc'[r] = pc[r] /\ then'[r] = then[r] /\ budget'[r] = budget[r]
    BY <1>1 DEF Inv, TypeOK, Begin, Serve, Abort, Goto, Leave, StartSave, stored, local,
       Refuse, Revise, Plan, Authorize, ReadEtag, Swap, SwapConflict, Run,
       RunHalfStored, Recover, Fold, Repair, Respond, SessionLost, Decide,
       PersistAnswer, PersistRecord, Remember, ReadForDelete, Drop
  <1>2. CASE Expire \/ Purge \/ Idle \/ UNCHANGED vars
    BY <1>2, CallsOfOthers DEF Expire, Purge, Idle, vars, local
  <1> QED
    BY <1>1, <1>2, CallsOfOthers DEF Next

RequestsAdvance ==
    \A r \in Requests :
        /\ Serve(r) \/ Abort(r) => CallsLeft(r)' < CallsLeft(r)
        /\ \/ Begin(r) \/ Serve(r) \/ Abort(r)
           \/ CallsLeft(r)' = CallsLeft(r)

\* However requests interleave and whatever fails, a request makes no more
\* calls than a bound that only depends on the repair budget, in flight it
\* always has one left, and nothing that others do lengthens it.
THEOREM RequestsEnd ==
    Spec => /\ [](\A r \in Requests : /\ CallsLeft(r) \in 0 .. CallsBound
                                      /\ InFlight(r) => CallsLeft(r) > 0)
            /\ [][RequestsAdvance]_vars
  <1>1. Inv => \A r \in Requests : /\ CallsLeft(r) \in 0 .. CallsBound
                                   /\ InFlight(r) => CallsLeft(r) > 0
    BY CallsBounded DEF Inv
  <1>2. Inv /\ [Next]_vars => [RequestsAdvance]_vars
    <2>1. ASSUME Inv, NEW r \in Requests, Abort(r)
          PROVE  CallsLeft(r)' < CallsLeft(r)
      BY <2>1, CallsOnLeave DEF Inv, Abort, Ended
    <2> QED
      BY <2>1, ServeTakesCall, CallsAreOwn DEF RequestsAdvance
  <1> QED
    BY <1>1, <1>2, Invariance, PTL DEF Spec
=============================================================================
