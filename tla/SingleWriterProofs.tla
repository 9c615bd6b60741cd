------------------------- MODULE SingleWriterProofs -------------------------
(***************************************************************************)
(* Proofs about QuestionSession under the assumption its repository makes, *)
(* that a session document has one writer at a time.  The store may still  *)
(* remove the document under the writer.  Everything holds for any set of  *)
(* requests, any drafts and any repair budget.                             *)
(***************************************************************************)
EXTENDS QuestionSessionProofs

(***************************************************************************)
(* The inductive invariant of a single writer.                             *)
(***************************************************************************)

\* The execution a document shows is that of the draft it authorizes.
OwnRun(s, js) ==
    s.result # None =>
        s.authorization = [version |-> js[s.result.job].version,
                           draft |-> js[s.result.job].draft]

\* A record vouches for a settled job that ran the draft of the record.
Vouched(rec, js, settled) ==
    /\ rec.job \in settled
    /\ js[rec.job] = [version |-> rec.version, draft |-> rec.draft,
                      status |-> "succeeded"]

\* Until the session is created there is nothing to hold.
BeforeCreation ==
    pc[Creator] = "idle" =>
        /\ session = None
        /\ \A r \in Requests : doc[r] = None /\ pc[r] \in {"idle", "read"} \cup Ended

\* The new document a planning request is about to store.
NextDraft(s) ==
    /\ session.decision = None
    /\ Len(s.drafts) = Len(session.drafts) + 1

DraftSave(r) == Saving(r, "authorize") \/ Saving(r, "done")

Deciding(r) == pc[r] \in {"answer", "record"} \/ Saving(r, "remember")

JobAuthorized(a, r) ==
    a = [version |-> jobs[JobOf(r)].version, draft |-> jobs[JobOf(r)].draft]

\* The document the request holds is one step ahead of the stored one, which
\* may have been removed since it was read.
Ahead(r, stage) ==
    session # None => StageOf(session) = stage /\ doc[r].drafts = session.drafts

\* What the request that holds the session knows about its own document and,
\* as long as the store keeps it, about the stored one.
HoldsSession(r) ==
    /\ pc[r] = "plan" =>
          /\ session # None => doc[r] = session
          /\ doc[r] # None => doc[r].decision = None
    /\ DraftSave(r) =>
          /\ StageOf(doc[r]) = "drafted"
          /\ session # None => NextDraft(doc[r])
    /\ pc[r] = "authorize" =>
          /\ StageOf(doc[r]) = "drafted"
          /\ session # None => doc[r] = session
    /\ Saving(r, "run") =>
          /\ StageOf(doc[r]) = "running"
          /\ JobAuthorized(doc[r].authorization, r)
          /\ Ahead(r, "drafted")
    /\ pc[r] \in {"run", "recover", "fold"} /\ session # None =>
          /\ StageOf(session) = "running"
          /\ JobAuthorized(session.authorization, r)
    /\ Saving(r, "reread") =>
          /\ StageOf(doc[r]) \in {"answered", "failed"}
          /\ Ahead(r, "running")
    /\ Deciding(r) =>
          /\ StageOf(doc[r]) \in {"accepted", "rejected"}
          /\ Ahead(r, "answered")
    /\ pc[r] = "remember" \/ Saving(r, "remember") =>
          records[r] = RecordOf(doc[r], op[r])

OneInFlight == \A r, q \in Requests : InFlight(r) /\ InFlight(q) => r = q

RecordsVouched ==
    \A r \in Requests : records[r] # None => Vouched(records[r], jobs, SettledJobs)

\* The cases accepted in this session come from records that are written.
CasesOnRecord == \A c \in cases : c.by # None => c.by \in Written

SingleWriterInv ==
    /\ OneInFlight
    /\ BeforeCreation
    /\ session # None => OwnRun(session, jobs)
    /\ \A r \in Requests : doc[r] # None => OwnRun(doc[r], jobs)
    /\ \A r \in Requests : InFlight(r) => HoldsSession(r)
    /\ RecordsVouched
    /\ CasesOnRecord
    /\ CasesWereAccepted

-----------------------------------------------------------------------------
(***************************************************************************)
(* What a step carries over.                                               *)
(***************************************************************************)

\* A document goes on showing its own run while its job stays settled.
LEMMA OwnRunKept ==
    ASSUME Kept, NEW s, Consistent(s, jobs, SettledJobs), OwnRun(s, jobs)
    PROVE  OwnRun(s, jobs')
  BY DEF Kept, Consistent, OwnRun

\* The records that a step does not write stay vouched for.
LEMMA VouchedKept ==
    ASSUME Kept, NEW rec, Vouched(rec, jobs, SettledJobs)
    PROVE  Vouched(rec, jobs', SettledJobs')
  BY DEF Kept, Vouched

\* A step of the one request in flight preserves the invariant of a single
\* writer if it keeps its own obligations.
LEMMA OneStep ==
    ASSUME Inv, SingleWriterInv, Kept, NEW r \in Requests,
           InFlight(r) \/ Quiet,
           \A q \in Requests \ {r} :
              pc'[q] = pc[q] /\ doc'[q] = doc[q] /\ records'[q] = records[q],
           BeforeCreation',
           session' # None => OwnRun(session', jobs'),
           doc'[r] # None => OwnRun(doc'[r], jobs'),
           InFlight(r)' => HoldsSession(r)',
           records'[r] # None => Vouched(records'[r], jobs', SettledJobs'),
           CasesOnRecord', CasesWereAccepted'
    PROVE  SingleWriterInv'
  <1>1. \A q \in Requests \ {r} : ~InFlight(q)'
    BY DEF SingleWriterInv, OneInFlight, Quiet, InFlight
  <1>2. OneInFlight'
    BY <1>1 DEF OneInFlight
  <1>3. ASSUME NEW q \in Requests, doc'[q] # None PROVE OwnRun(doc'[q], jobs')
    <2>1. CASE q = r
      BY <1>3, <2>1
    <2>2. CASE q # r
      <3>1. /\ doc'[q] = doc[q]
            /\ Consistent(doc[q], jobs, SettledJobs)
            /\ OwnRun(doc[q], jobs)
        BY <1>3, <2>2 DEF SingleWriterInv, Inv, ThreadOK, GoodDocument
      <3> QED
        BY <3>1, OwnRunKept
    <2> QED
      BY <2>1, <2>2
  <1>4. RecordsVouched'
    BY VouchedKept DEF SingleWriterInv, RecordsVouched
  <1> QED
    BY <1>1, <1>2, <1>3, <1>4 DEF SingleWriterInv

\* The case base stays accounted for while it does not change.
LEMMA CasesKept ==
    ASSUME Kept, RecordsVouched, CasesOnRecord, CasesWereAccepted, cases' = cases,
           cases \subseteq Cases
    PROVE  CasesOnRecord' /\ CasesWereAccepted'
  <1>1. ASSUME NEW c \in cases, c.by # None
        PROVE  /\ c.by \in Written
               /\ c.by \in Written' /\ records'[c.by] = records[c.by]
               /\ records[c.by] # None
               /\ jobs'[records[c.by].job] = jobs[records[c.by].job]
    BY <1>1 DEF Kept, CasesOnRecord, CasesWereAccepted, RecordsVouched, Vouched, Written
  <1> QED
    BY <1>1 DEF CasesOnRecord, CasesWereAccepted

\* A request that leaves everything but itself alone ends well.
LEMMA LeaveOne ==
    ASSUME Inv, SingleWriterInv, Kept, NEW r \in Requests, InFlight(r),
           NEW label \in Ended, Leave(r, label),
           BeforeCreation', UNCHANGED records,
           session' # None => OwnRun(session', jobs'),
           CasesOnRecord', CasesWereAccepted'
    PROVE  SingleWriterInv'
  <1>1. /\ pc'[r] = label /\ doc'[r] = None
        /\ \A q \in Requests \ {r} : pc'[q] = pc[q] /\ doc'[q] = doc[q]
    BY LeaveFrame DEF Inv
  <1>2. ~InFlight(r)'
    BY <1>1 DEF InFlight
  <1>3. records'[r] # None => Vouched(records'[r], jobs', SettledJobs')
    BY VouchedKept DEF SingleWriterInv, RecordsVouched
  <1> QED
    BY <1>1, <1>2, <1>3, OneStep

\* The session the store keeps goes on showing its own run.
LEMMA StoredOwnRun ==
    ASSUME Inv, SingleWriterInv, Kept, session' = session
    PROVE  session' # None => OwnRun(session', jobs')
  BY OwnRunKept DEF Inv, SessionOK, GoodDocument, SingleWriterInv

-----------------------------------------------------------------------------
(***************************************************************************)
(* Every step of a single writer preserves its invariant.                  *)
(***************************************************************************)

\* A request begins when none is in flight; a planning one finds no session.
LEMMA BeginOne ==
    ASSUME Exclusive, Inv, SingleWriterInv, Kept, NEW r \in Requests, Begin(r)
    PROVE  SingleWriterInv'
  <1>1. /\ \A q \in Requests \ {r} : pc'[q] = pc[q]
        /\ pc'[r] \in {"plan", "read"}
        /\ pc'[r] = "plan" => r = Creator
        /\ r = Creator => pc'[r] = "plan"
        /\ UNCHANGED <<session, jobs, records, cases, doc>>
    BY DEF Begin, Goto, Inv, TypeOK, stored
  <1>2. BeforeCreation'
    BY <1>1, CreatorAssumption DEF SingleWriterInv, BeforeCreation
  <1>3. session' # None => OwnRun(session', jobs')
    BY <1>1, StoredOwnRun
  <1>4. doc'[r] # None => OwnRun(doc'[r], jobs')
    BY <1>1 DEF SingleWriterInv
  <1>5. HoldsSession(r)'
    <2>1. pc'[r] = "plan" => doc'[r] = session' /\ session' = None
      BY <1>1 DEF SingleWriterInv, BeforeCreation, Begin
    <2> QED
      BY <1>1, <2>1 DEF HoldsSession, Saving, DraftSave, Deciding
  <1>6. records'[r] # None => Vouched(records'[r], jobs', SettledJobs')
    BY <1>1, VouchedKept DEF SingleWriterInv, RecordsVouched
  <1>7. CasesOnRecord' /\ CasesWereAccepted'
    BY <1>1, CasesKept DEF SingleWriterInv, Inv, TypeOK
  <1>8. Quiet
    BY DEF Begin
  <1> QED
    BY <1>1, <1>2, <1>3, <1>4, <1>5, <1>6, <1>7, <1>8, OneStep

\* A request that ends without writing leaves a good state behind.
LEMMA EndOne ==
    ASSUME Inv, SingleWriterInv, Kept, NEW r \in Requests,
           Refuse(r) \/ Respond(r) \/ SessionLost(r) \/ SwapConflict(r) \/ Abort(r)
    PROVE  SingleWriterInv'
  <1>1. PICK label \in Ended : Leave(r, label)
    BY DEF Refuse, Respond, SessionLost, SwapConflict, Abort, Ended
  <1>2. InFlight(r) /\ UNCHANGED stored
    BY DEF Refuse, Respond, SessionLost, SwapConflict, Abort, InFlight, Ended
  <1>3. BeforeCreation'
    BY <1>1, <1>2, LeaveFrame, CreatorAssumption
       DEF SingleWriterInv, BeforeCreation, Inv, stored, InFlight, Ended
  <1>4. session' # None => OwnRun(session', jobs')
    BY <1>2, StoredOwnRun DEF stored
  <1>5. CasesOnRecord' /\ CasesWereAccepted'
    BY <1>2, CasesKept DEF SingleWriterInv, Inv, TypeOK, stored
  <1> QED
    BY <1>1, <1>2, <1>3, <1>4, <1>5, LeaveOne DEF stored

\* Once the creating request has begun it never is idle again.
LEMMA Created ==
    ASSUME Inv, SingleWriterInv, NEW r \in Requests,
           pc[r] \notin {"idle", "read"} \cup Ended \/ session # None,
           \A q \in Requests \ {r} : pc'[q] = pc[q],
           pc'[r] # "idle"
    PROVE  BeforeCreation'
  BY CreatorAssumption DEF SingleWriterInv, BeforeCreation

\* A step between two labels that stores nothing.
LEMMA GoOne ==
    ASSUME Inv, SingleWriterInv, Kept, NEW r \in Requests, InFlight(r),
           NEW label \in Labels, Goto(r, label), label # "idle",
           pc[r] # "read" \/ session # None,
           \A q \in Requests \ {r} : doc'[q] = doc[q],
           doc'[r] # None => OwnRun(doc'[r], jobs'),
           UNCHANGED <<session, records, cases>>,
           HoldsSession(r)'
    PROVE  SingleWriterInv'
  <1>1. \A q \in Requests \ {r} : pc'[q] = pc[q]
    BY GotoFrame DEF Inv
  <1>2. pc'[r] = label
    BY GotoFrame DEF Inv
  <1>3. BeforeCreation'
    BY <1>1, <1>2, Created DEF InFlight
  <1>4. session' # None => OwnRun(session', jobs')
    BY StoredOwnRun
  <1>5. records'[r] # None => Vouched(records'[r], jobs', SettledJobs')
    BY VouchedKept DEF SingleWriterInv, RecordsVouched
  <1>6. CasesOnRecord' /\ CasesWereAccepted'
    BY CasesKept DEF SingleWriterInv, Inv, TypeOK
  <1> QED
    BY <1>1, <1>3, <1>4, <1>5, <1>6, OneStep

\* Reading the session for a new draft.
LEMMA ReviseOne ==
    ASSUME Inv, SingleWriterInv, Kept, NEW r \in Requests, Revise(r)
    PROVE  SingleWriterInv'
  <1>1. InFlight(r) /\ session # None /\ session.decision = None
    BY DEF Revise, InFlight, Ended, MayRevise, Active
  <1>2. /\ doc'[r] = session
        /\ \A q \in Requests \ {r} : doc'[q] = doc[q]
    BY DEF Revise, Inv, TypeOK
  <1>3. pc'[r] = "plan"
    BY DEF Revise, Goto, Inv, TypeOK
  <1>4. HoldsSession(r)'
    BY <1>1, <1>2, <1>3 DEF HoldsSession, Saving, DraftSave, Deciding, Revise, stored
  <1>5. OwnRun(doc'[r], jobs')
    BY <1>1, <1>2, StoredOwnRun DEF Revise, stored
  <1> QED
    BY <1>1, <1>2, <1>4, <1>5, GoOne DEF Revise, stored, Labels

\* Repairing: the request starts over.
LEMMA RepairOne ==
    ASSUME Inv, SingleWriterInv, Kept, NEW r \in Requests, Repair(r)
    PROVE  SingleWriterInv'
  <1>1. InFlight(r)
    BY DEF Repair, InFlight, Ended
  <1>2. pc'[r] = "read"
    BY DEF Repair, Goto, Inv, TypeOK
  <1>3. HoldsSession(r)'
    BY <1>2 DEF HoldsSession, Saving, DraftSave, Deciding
  <1>4. doc'[r] # None => OwnRun(doc'[r], jobs')
    BY DEF SingleWriterInv, Repair, stored
  <1> QED
    BY <1>1, <1>3, <1>4, GoOne DEF Repair, stored, Labels

\* About to delete: nothing is written yet.
LEMMA ReadForDeleteOne ==
    ASSUME Inv, SingleWriterInv, Kept, NEW r \in Requests, ReadForDelete(r)
    PROVE  SingleWriterInv'
  <1>1. InFlight(r) /\ session # None
    BY DEF ReadForDelete, InFlight, Ended, Active
  <1>2. pc'[r] = "drop"
    BY DEF ReadForDelete, Goto, Inv, TypeOK
  <1>3. HoldsSession(r)'
    BY <1>2 DEF HoldsSession, Saving, DraftSave, Deciding
  <1>4. doc'[r] # None => OwnRun(doc'[r], jobs')
    BY DEF SingleWriterInv, ReadForDelete, stored, local
  <1> QED
    BY <1>1, <1>3, <1>4, GoOne DEF ReadForDelete, stored, local, Labels

\* Reading the etag: the request still holds what it held.
LEMMA ReadEtagOne ==
    ASSUME Inv, SingleWriterInv, Kept, NEW r \in Requests, ReadEtag(r)
    PROVE  SingleWriterInv'
  <1>1. InFlight(r) /\ HoldsSession(r)
    BY DEF ReadEtag, InFlight, Ended, SingleWriterInv
  <1>2. pc'[r] = "swap" /\ pc[r] = "save"
    BY DEF ReadEtag, Goto, Inv, TypeOK
  <1>3. HoldsSession(r)'
    BY <1>1, <1>2 DEF ReadEtag, HoldsSession, Saving, DraftSave, Deciding, NextDraft,
       JobAuthorized, JobOf, Ahead, stored, local
  <1>4. doc'[r] # None => OwnRun(doc'[r], jobs')
    BY DEF SingleWriterInv, ReadEtag, stored, local
  <1> QED
    BY <1>1, <1>2, <1>3, <1>4, GoOne DEF ReadEtag, stored, local, Labels

\* Writing the answer: the request still holds what it held.
LEMMA PersistAnswerOne ==
    ASSUME Inv, SingleWriterInv, Kept, NEW r \in Requests, PersistAnswer(r)
    PROVE  SingleWriterInv'
  <1>1. InFlight(r) /\ HoldsSession(r)
    BY DEF PersistAnswer, InFlight, Ended, SingleWriterInv
  <1>2. pc'[r] = "record" /\ pc[r] = "answer"
    BY DEF PersistAnswer, Goto, Inv, TypeOK
  <1>3. HoldsSession(r)'
    BY <1>1, <1>2 DEF PersistAnswer, HoldsSession, Saving, DraftSave, Deciding, Ahead, local
  <1>4. doc'[r] # None => OwnRun(doc'[r], jobs')
    BY DEF SingleWriterInv, PersistAnswer, local
  <1> QED
    BY <1>1, <1>2, <1>3, <1>4, GoOne DEF PersistAnswer, local, Labels

\* Planning: the next draft of the session that was read.
LEMMA PlanOne ==
    ASSUME Inv, SingleWriterInv, Kept, NEW r \in Requests, Plan(r)
    PROVE  SingleWriterInv'
  <1>1. PICK d \in PlannedVersions(r) :
           StartSave(r, WithDraft(doc[r], d), IF Executable(d) THEN "authorize" ELSE "done")
    BY DEF Plan
  <1> DEFINE s == WithDraft(doc[r], d)
  <1>2. /\ InFlight(r)
        /\ session # None => doc[r] = session /\ session.decision = None
    BY DEF Plan, InFlight, Ended, SingleWriterInv, HoldsSession
  <1>3. /\ Goto(r, "save") /\ pc'[r] = "save"
        /\ doc'[r] = s
        /\ then'[r] \in {"authorize", "done"}
        /\ \A q \in Requests \ {r} : doc'[q] = doc[q]
    BY <1>1 DEF StartSave, Goto, Inv, TypeOK
  <1>4. StageOf(s) = "drafted" /\ s.result = None
    BY DEF WithDraft, StageOf
  <1>5. ASSUME session # None PROVE Len(s.drafts) = Len(session.drafts) + 1
    <2>1. session.drafts \in Seq(DraftVersions)
      BY <1>5 DEF Inv, TypeOK, Sessions
    <2> QED
      BY <1>2, <1>5, <2>1 DEF WithDraft
  <1> HIDE DEF s
  <1>6. HoldsSession(r)'
    BY <1>2, <1>3, <1>4, <1>5
       DEF Plan, HoldsSession, Saving, DraftSave, Deciding, NextDraft, stored
  <1>7. OwnRun(doc'[r], jobs')
    BY <1>3, <1>4 DEF OwnRun
  <1> QED
    BY <1>2, <1>3, <1>6, <1>7, GoOne DEF Plan, stored, Labels

\* Authorizing: the job is for the draft the stored session ends in.
LEMMA AuthorizeOne ==
    ASSUME Inv, SingleWriterInv, Kept, NEW r \in Requests, Authorize(r)
    PROVE  SingleWriterInv'
  <1> DEFINE s == WithAuthorization(doc[r])
  <1>1. /\ InFlight(r) /\ StageOf(doc[r]) = "drafted" /\ doc[r] # None
        /\ session # None => doc[r] = session
    BY DEF Authorize, InFlight, Ended, SingleWriterInv, HoldsSession, Inv, ThreadOK
  <1>2. /\ doc[r] \in Sessions /\ Len(doc[r].drafts) > 0 /\ Executable(Latest(doc[r]))
    BY <1>1 DEF Inv, TypeOK, ThreadOK, GoodDocument, Consistent, Authorize
  <1>3. /\ s.authorization = Authorization(doc[r]) /\ s.authorization # None
        /\ s.drafts = doc[r].drafts
        /\ s.result = doc[r].result
        /\ s.decision = doc[r].decision
    BY <1>2, WithAuthorizationType, NoneAssumption
  <1>4. /\ Goto(r, "save") /\ pc'[r] = "save"
        /\ doc'[r] = s
        /\ then'[r] = "run"
        /\ \A q \in Requests \ {r} : doc'[q] = doc[q]
    BY <1>1 DEF Authorize, StartSave, Goto, Inv, TypeOK
  <1>5. jobs'[JobOf(r)] = [version |-> Len(doc[r].drafts),
                           draft |-> Latest(doc[r]).draft, status |-> "running"]
    BY <1>1, JobOfType DEF Authorize, Inv, TypeOK
  <1>6. doc[r].result = None /\ doc[r].decision = None
    BY <1>1 DEF StageOf
  <1> HIDE DEF s
  <1>7. StageOf(s) = "running"
    BY <1>3, <1>6 DEF StageOf
  <1>8. HoldsSession(r)'
    <2>1. JobAuthorized(doc[r].authorization, r)'
      BY <1>3, <1>4, <1>5 DEF JobAuthorized, Authorization, JobOf, Authorize
    <2>2. Ahead(r, "drafted")'
      BY <1>1, <1>3, <1>4 DEF Ahead, Authorize
    <2> QED
      BY <1>4, <1>7, <2>1, <2>2 DEF HoldsSession, Saving, DraftSave, Deciding
  <1>9. OwnRun(doc'[r], jobs')
    BY <1>3, <1>4, <1>6 DEF OwnRun
  <1> QED
    BY <1>1, <1>4, <1>8, <1>9, GoOne DEF Authorize, Labels

\* The worker's steps keep the draft and the version of the job.
LEMMA WorkOne ==
    ASSUME Inv, SingleWriterInv, Kept, NEW r \in Requests,
           Run(r) \/ RunHalfStored(r) \/ Recover(r)
    PROVE  SingleWriterInv'
  <1>1. PICK status \in {"succeeded", "failed"}, label \in {"recover", "fold"} :
           /\ pc[r] \in {"run", "recover"}
           /\ jobs' = [jobs EXCEPT ![JobOf(r)].status = status]
           /\ Goto(r, label)
    BY DEF Run, RunHalfStored, Recover, Terminal
  <1>2. UNCHANGED <<session, answers, records, cases, expired, local, etag>>
    BY DEF Run, RunHalfStored, Recover
  <1>3. InFlight(r)
    BY <1>1 DEF InFlight, Ended
  <1>4. jobs[JobOf(r)] \in Jobs /\ JobOf(r) \in JobIds
    BY <1>1, JobOfType DEF Inv, TypeOK, ThreadOK
  <1>5. /\ jobs'[JobOf(r)].version = jobs[JobOf(r)].version
        /\ jobs'[JobOf(r)].draft = jobs[JobOf(r)].draft
    BY <1>1, <1>4 DEF Inv, TypeOK, Jobs
  <1>6. pc'[r] \in {"recover", "fold"}
    BY <1>1 DEF Goto, Inv, TypeOK
  <1>7. HoldsSession(r)'
    BY <1>1, <1>2, <1>3, <1>5, <1>6
       DEF SingleWriterInv, HoldsSession, Saving, DraftSave, Deciding, JobAuthorized,
           JobOf, local
  <1>8. ASSUME doc'[r] # None PROVE OwnRun(doc'[r], jobs')
    <2>1. doc'[r] = doc[r] /\ Consistent(doc[r], jobs, SettledJobs) /\ OwnRun(doc[r], jobs)
      BY <1>2, <1>8 DEF local, Inv, ThreadOK, GoodDocument, SingleWriterInv
    <2> QED
      BY <2>1, OwnRunKept
  <1> QED
    BY <1>1, <1>2, <1>3, <1>7, <1>8, GoOne DEF Labels, local

\* Folding: the run is the one the stored session authorizes.
LEMMA FoldOne ==
    ASSUME Inv, SingleWriterInv, Kept, NEW r \in Requests, Fold(r)
    PROVE  SingleWriterInv'
  <1> DEFINE status == jobs[JobOf(r)].status
  <1>1. PICK answered \in BOOLEAN :
           StartSave(r, WithResult(session, JobOf(r), status, answered), "reread")
    BY DEF Fold
  <1> DEFINE s == WithResult(session, JobOf(r), status, answered)
  <1>2. /\ InFlight(r) /\ session # None
        /\ StageOf(session) = "running"
        /\ JobAuthorized(session.authorization, r)
        /\ status \in {"succeeded", "failed"}
        /\ JobOf(r) \in JobIds
    BY JobOfType DEF Fold, InFlight, Ended, SingleWriterInv, HoldsSession, Inv, ThreadOK
  <1>3. session \in Sessions
    BY <1>2 DEF Inv, TypeOK
  <1>4. /\ s.drafts = session.drafts
        /\ s.authorization = session.authorization
        /\ s.result.job = JobOf(r)
        /\ StageOf(s) \in {"answered", "failed"}
    <2>1. /\ s.drafts = session.drafts
          /\ s.authorization = session.authorization
          /\ s.result = [job |-> JobOf(r), status |-> status]
          /\ s.decision = None
      BY <1>3 DEF WithResult, Sessions
    <2>2. s.result # None
      BY <1>2, <2>1, NoneAssumption DEF Results
    <2> HIDE DEF s
    <2> QED
      BY <2>1, <2>2 DEF StageOf
  <1>5. /\ Goto(r, "save") /\ pc'[r] = "save"
        /\ doc'[r] = s
        /\ then'[r] = "reread"
        /\ \A q \in Requests \ {r} : doc'[q] = doc[q]
    BY <1>1 DEF StartSave, Goto, Inv, TypeOK
  <1>6. UNCHANGED <<session, jobs, records, cases, op, budget>>
    BY DEF Fold, stored
  <1> HIDE DEF s
  <1>7. HoldsSession(r)'
    BY <1>2, <1>4, <1>5, <1>6
       DEF HoldsSession, Saving, DraftSave, Deciding, Ahead
  <1>8. OwnRun(doc'[r], jobs')
    BY <1>2, <1>4, <1>5, <1>6 DEF OwnRun, JobAuthorized
  <1> QED
    BY <1>2, <1>5, <1>6, <1>7, <1>8, GoOne DEF Fold, Labels

\* Deciding: the answer is the one the stored session shows.
LEMMA DecideOne ==
    ASSUME Inv, SingleWriterInv, Kept, NEW r \in Requests, Decide(r)
    PROVE  SingleWriterInv'
  <1> DEFINE s == WithDecision(session, r, op[r])
  <1>1. InFlight(r) /\ session # None /\ StageOf(session) = "answered"
    BY DEF Decide, InFlight, Ended, MayDecide, Active, StageOf
  <1>2. session \in Sessions /\ op[r] \in {"accept", "reject"}
    BY <1>1 DEF Inv, TypeOK, Decide
  <1>3. /\ s.drafts = session.drafts
        /\ s.authorization = session.authorization
        /\ s.result = session.result
        /\ StageOf(s) \in {"accepted", "rejected"}
    <2>1. /\ s.drafts = session.drafts
          /\ s.authorization = session.authorization
          /\ s.result = session.result
          /\ s.decision = [kind |-> op[r], by |-> r]
      BY <1>1, <1>2, WithDecisionType
    <2>2. s.decision # None /\ s.decision.kind = op[r]
      BY <1>2, <2>1, NoneAssumption DEF Decisions
    <2> HIDE DEF s
    <2> QED
      BY <1>2, <2>1, <2>2 DEF StageOf
  <1>4. /\ pc'[r] \in {"answer", "record"} /\ Goto(r, FirstWrite(op[r]))
        /\ doc'[r] = s
        /\ \A q \in Requests \ {r} : doc'[q] = doc[q]
    BY DEF Decide, Goto, FirstWrite, Inv, TypeOK
  <1>5. UNCHANGED <<session, jobs, records, cases, op>>
    BY DEF Decide, stored
  <1> HIDE DEF s
  <1>6. HoldsSession(r)'
    BY <1>1, <1>3, <1>4, <1>5
       DEF HoldsSession, Saving, DraftSave, Deciding, Ahead
  <1>7. OwnRun(doc'[r], jobs')
    BY <1>1, <1>3, <1>4, <1>5 DEF SingleWriterInv, OwnRun
  <1>8. FirstWrite(op[r]) \in Labels \ {"idle"}
    BY DEF FirstWrite, Labels
  <1> QED
    BY <1>1, <1>4, <1>5, <1>6, <1>7, <1>8, GoOne

\* Writing the record: it vouches for the run that the document shows.
LEMMA PersistRecordOne ==
    ASSUME Inv, SingleWriterInv, Kept, NEW r \in Requests, PersistRecord(r)
    PROVE  SingleWriterInv'
  <1>1. /\ InFlight(r) /\ HoldsSession(r) /\ pc[r] = "record"
        /\ doc[r] \in Sessions /\ GoodDocument(doc[r]) /\ OwnRun(doc[r], jobs)
        /\ Persistable(doc[r])
        /\ op[r] \in {"accept", "reject"}
        /\ then[r] = "remember"
    BY DEF PersistRecord, InFlight, Ended, SingleWriterInv, Inv, TypeOK, ThreadOK
  <1>2. /\ pc'[r] = "save"
        /\ records'[r] = RecordOf(doc[r], op[r])
        /\ \A q \in Requests \ {r} : pc'[q] = pc[q] /\ records'[q] = records[q]
        /\ UNCHANGED <<session, jobs, cases, doc, op, then>>
    BY DEF PersistRecord, Goto, Inv, TypeOK, local
  <1>3. StageOf(doc[r]) \in {"accepted", "rejected"} /\ Ahead(r, "answered")
    BY <1>1 DEF HoldsSession, Deciding
  <1>4. doc[r].result.job \in SettledJobs /\ jobs[doc[r].result.job].status = "succeeded"
    <2>1. doc[r].answer # None
      BY <1>1 DEF Persistable
    <2> QED
      BY <1>1, <2>1 DEF GoodDocument, Consistent
  <1>5. jobs[doc[r].result.job] = [version |-> Len(doc[r].drafts),
                                   draft |-> Latest(doc[r]).draft,
                                   status |-> "succeeded"]
    <2>1. doc[r].authorization = Authorization(doc[r])
      BY <1>1 DEF Persistable, GoodDocument, Consistent
    <2>2. doc[r].authorization = [version |-> jobs[doc[r].result.job].version,
                                  draft |-> jobs[doc[r].result.job].draft]
      BY <1>1 DEF Persistable, OwnRun
    <2>3. jobs[doc[r].result.job] \in Jobs
      BY <1>4 DEF SettledJobs, Inv, TypeOK
    <2> QED
      BY <1>4, <2>1, <2>2, <2>3 DEF Authorization, Jobs
  <1>6. Vouched(RecordOf(doc[r], op[r]), jobs, SettledJobs)
    BY <1>4, <1>5 DEF Vouched, RecordOf
  <1>7. records'[r] # None => Vouched(records'[r], jobs', SettledJobs')
    BY <1>2, <1>6, VouchedKept
  <1>8. HoldsSession(r)'
    BY <1>1, <1>2, <1>3, NoneAssumption
       DEF HoldsSession, Saving, DraftSave, Deciding, Ahead
  <1>9. BeforeCreation'
    BY <1>1, <1>2, Created, CreatorAssumption DEF Ended
  <1>10. session' # None => OwnRun(session', jobs')
    BY <1>2, StoredOwnRun
  <1>11. OwnRun(doc'[r], jobs')
    BY <1>1, <1>2 DEF OwnRun
  <1>12. CasesOnRecord' /\ CasesWereAccepted'
    BY <1>2, CasesKept DEF SingleWriterInv, Inv, TypeOK
  <1> QED
    BY <1>1, <1>2, <1>7, <1>8, <1>9, <1>10, <1>11, <1>12, OneStep

\* Remembering: an accepted case comes with the record just written.
LEMMA RememberOne ==
    ASSUME Inv, SingleWriterInv, Kept, NEW r \in Requests, Remember(r)
    PROVE  SingleWriterInv'
  <1>1. /\ InFlight(r) /\ pc[r] = "remember"
        /\ doc[r] \in Sessions /\ GoodDocument(doc[r]) /\ Persistable(doc[r])
        /\ op[r] \in {"accept", "reject"}
        /\ records[r] = RecordOf(doc[r], op[r])
        /\ r \in Written
    BY DEF Remember, InFlight, Ended, SingleWriterInv, HoldsSession, Inv, TypeOK,
       ThreadOK, Written
  <1>2. Leave(r, "done") /\ UNCHANGED <<session, jobs, records>>
    BY DEF Remember
  <1>3. BeforeCreation'
    BY <1>1, <1>2, LeaveFrame, Created DEF Inv, Ended
  <1>4. session' # None => OwnRun(session', jobs')
    BY <1>2, StoredOwnRun
  <1>5. records[r] # None /\ records[r].kind = op[r]
        /\ records[r].draft = Latest(doc[r]).draft
        /\ jobs[records[r].job].draft = records[r].draft
    <2>1. /\ records[r].kind = op[r]
          /\ records[r].draft = Latest(doc[r]).draft
      BY <1>1 DEF RecordOf
    <2>2. records[r] # None
      <3>1. RecordOf(doc[r], op[r]) \in Records
        BY <1>1, RecordOfType DEF GoodDocument, Consistent
      <3> QED
        BY <1>1, <3>1, NoneAssumption
    <2>3. jobs[records[r].job].draft = records[r].draft
      <3>1. Vouched(records[r], jobs, SettledJobs)
        BY <2>2 DEF SingleWriterInv, RecordsVouched
      <3> QED
        BY <3>1 DEF Vouched
    <2> QED
      BY <2>1, <2>2, <2>3
  <1>6. ASSUME NEW c \in cases', c.by # None
        PROVE  /\ c.by \in Written
               /\ records[c.by] # None
               /\ records[c.by].kind = "accept"
               /\ records[c.by].draft = c.draft
               /\ jobs[records[c.by].job].draft = c.draft
    <2>1. CASE c \in cases
      BY <1>6, <2>1 DEF SingleWriterInv, CasesOnRecord, CasesWereAccepted
    <2>2. CASE c \notin cases
      <3>1. op[r] = "accept" /\ c = [by |-> r, draft |-> Latest(doc[r]).draft]
        BY <2>2 DEF Remember, Remembered
      <3> QED
        BY <1>1, <1>5, <3>1
    <2> QED
      BY <2>1, <2>2
  <1>7. CasesOnRecord' /\ CasesWereAccepted'
    <2>1. ASSUME NEW c \in cases', c.by # None
          PROVE  c.by \in Written' /\ records'[c.by] = records[c.by]
      BY <1>6, <2>1 DEF Kept
    <2> QED
      BY <1>2, <1>6, <2>1 DEF CasesOnRecord, CasesWereAccepted
  <1> QED
    BY <1>1, <1>2, <1>3, <1>4, <1>7, LeaveOne DEF Ended

\* Deleting the session.
LEMMA DropOne ==
    ASSUME Inv, SingleWriterInv, Kept, NEW r \in Requests, Drop(r)
    PROVE  SingleWriterInv'
  <1>1. InFlight(r) /\ pc[r] = "drop"
    BY DEF Drop, InFlight, Ended
  <1>2. BeforeCreation'
    BY <1>1, LeaveFrame, Created DEF Drop, Inv, Ended
  <1>3. CasesOnRecord' /\ CasesWereAccepted'
    BY CasesKept DEF Drop, SingleWriterInv, Inv, TypeOK
  <1> QED
    BY <1>1, <1>2, <1>3, LeaveOne DEF Drop, Ended

\* The clock, and the store at the end of the retention: what a request knows
\* about its own document stays true.
LEMMA EnvironmentOne ==
    ASSUME Inv, SingleWriterInv, Kept, Expire \/ Purge \/ UNCHANGED vars
    PROVE  SingleWriterInv'
  <1>1. /\ UNCHANGED <<jobs, records, cases, pc, local>>
        /\ session' = session \/ session' = None
    BY DEF Expire, Purge, vars, stored, local
  <1>2. OneInFlight' /\ BeforeCreation'
    BY <1>1 DEF SingleWriterInv, OneInFlight, InFlight, BeforeCreation, local
  <1>3. session' # None => OwnRun(session', jobs')
    BY <1>1, StoredOwnRun
  <1>4. \A r \in Requests : doc'[r] # None => OwnRun(doc'[r], jobs')
    BY <1>1 DEF SingleWriterInv, local
  <1>5. ASSUME NEW r \in Requests, InFlight(r)' PROVE HoldsSession(r)'
    <2>1. InFlight(r)
      BY <1>1, <1>5 DEF InFlight
    <2>2. HoldsSession(r)
      BY <2>1 DEF SingleWriterInv
    <2> QED
      BY <1>1, <2>2 DEF HoldsSession, Saving, DraftSave, Deciding, NextDraft, Ahead,
         JobAuthorized, JobOf, local
  <1>6. RecordsVouched'
    BY <1>1, VouchedKept DEF SingleWriterInv, RecordsVouched
  <1>7. CasesOnRecord' /\ CasesWereAccepted'
    BY <1>1, CasesKept DEF SingleWriterInv, Inv, TypeOK
  <1> QED
    BY <1>2, <1>3, <1>4, <1>5, <1>6, <1>7 DEF SingleWriterInv

\* Writing the session: what the thread holds replaces what it was built on.
LEMMA SwapOne ==
    ASSUME Inv, SingleWriterInv, Kept, NEW r \in Requests, Swap(r)
    PROVE  SingleWriterInv'
  <1>1. /\ InFlight(r) /\ HoldsSession(r) /\ pc[r] = "swap"
        /\ doc[r] \in Sessions /\ doc[r] # None
        /\ Consistent(doc[r], jobs, SettledJobs) /\ OwnRun(doc[r], jobs)
    BY DEF Swap, InFlight, Ended, SingleWriterInv, Inv, TypeOK, ThreadOK, GoodDocument
  <1>2. session' = doc[r] /\ UNCHANGED <<jobs, records, cases>>
    BY DEF Swap
  <1>3. session' # None => OwnRun(session', jobs')
    BY <1>1, <1>2
  <1>4. CasesOnRecord' /\ CasesWereAccepted'
    BY <1>2, CasesKept DEF SingleWriterInv, Inv, TypeOK
  <1>5. CASE then[r] = "done"
    <2>1. Leave(r, "done")
      BY <1>5 DEF Swap
    <2>2. BeforeCreation'
      BY <1>1, <2>1, LeaveFrame, Created DEF Inv, Ended
    <2> QED
      BY <1>1, <1>2, <1>3, <1>4, <2>1, <2>2, LeaveOne DEF Ended
  <1>6. CASE then[r] # "done"
    <2>1. Goto(r, then[r]) /\ UNCHANGED local
      BY <1>6 DEF Swap
    <2>2. then[r] \in Continuations \ {"done"}
      BY <1>6 DEF Inv, TypeOK
    <2>3. pc'[r] = then[r] /\ \A q \in Requests \ {r} : pc'[q] = pc[q]
      BY <2>1, <2>2, GotoFrame DEF Inv, Labels
    <2>4. BeforeCreation'
      BY <1>1, <2>2, <2>3, Created DEF Continuations, Ended
    <2>5. then[r] = "authorize" => StageOf(doc[r]) = "drafted"
      BY <1>1 DEF HoldsSession, DraftSave, Saving
    <2>6. then[r] = "run" =>
             StageOf(doc[r]) = "running" /\ JobAuthorized(doc[r].authorization, r)
      BY <1>1 DEF HoldsSession, Saving
    <2>7. then[r] = "remember" => records[r] = RecordOf(doc[r], op[r])
      BY <1>1 DEF HoldsSession, Saving
    <2>8. HoldsSession(r)'
      BY <1>1, <1>2, <2>1, <2>2, <2>3, <2>5, <2>6, <2>7
         DEF HoldsSession, Saving, DraftSave, Deciding, JobAuthorized, JobOf, local,
             Continuations
    <2>9. OwnRun(doc'[r], jobs')
      BY <1>1, <1>2, <2>1 DEF local
    <2>10. records'[r] # None => Vouched(records'[r], jobs', SettledJobs')
      BY <1>2, VouchedKept DEF SingleWriterInv, RecordsVouched
    <2> QED
      BY <1>1, <1>2, <1>3, <1>4, <2>1, <2>3, <2>4, <2>8, <2>9, <2>10, OneStep DEF local
  <1> QED
    BY <1>5, <1>6

-----------------------------------------------------------------------------
(***************************************************************************)
(* What a single writer gains.                                             *)
(***************************************************************************)

\* Initially nothing is in flight.
LEMMA InitOne == Init => SingleWriterInv
  <1> SUFFICES ASSUME Init PROVE SingleWriterInv
    OBVIOUS
  <1>1. \A r \in Requests : ~InFlight(r) /\ doc[r] = None /\ records[r] = None
    BY DEF Init, InFlight
  <1>2. BeforeCreation
    BY <1>1 DEF Init, BeforeCreation
  <1>3. \A c \in cases : c.by = None
    BY DEF Init
  <1> QED
    BY <1>1, <1>2, <1>3 DEF Init, SingleWriterInv, OneInFlight, RecordsVouched,
       CasesOnRecord, CasesWereAccepted

\* Every step of a single writer preserves its invariant.
LEMMA NextOne ==
    ASSUME Exclusive
    PROVE  Inv /\ SingleWriterInv /\ [Next]_vars => SingleWriterInv'
  <1> SUFFICES ASSUME Inv, SingleWriterInv, [Next]_vars PROVE SingleWriterInv'
    OBVIOUS
  <1>1. Kept
    BY NextInv
  <1>2. ASSUME NEW r \in Requests, Begin(r) \/ Serve(r) \/ Abort(r)
        PROVE  SingleWriterInv'
    BY <1>1, <1>2, BeginOne, EndOne, ReviseOne, PlanOne, AuthorizeOne, ReadEtagOne,
       SwapOne, WorkOne, FoldOne, RepairOne, DecideOne, PersistAnswerOne,
       PersistRecordOne, RememberOne, ReadForDeleteOne, DropOne
       DEF Serve
  <1>3. CASE Expire \/ Purge \/ Idle \/ UNCHANGED vars
    BY <1>1, <1>3, EnvironmentOne DEF Idle
  <1> QED
    BY <1>2, <1>3 DEF Next

\* The invariant of a single writer.
THEOREM SingleWriterInvariance == Exclusive => (Spec => []SingleWriterInv)
  <1> SUFFICES ASSUME Exclusive PROVE Spec => []SingleWriterInv
    OBVIOUS
  <1>1. Spec => []Inv
    BY Invariance
  <1>2. Init => SingleWriterInv
    BY InitOne
  <1>3. Inv /\ SingleWriterInv /\ [Next]_vars => SingleWriterInv'
    BY NextOne
  <1> QED
    BY <1>1, <1>2, <1>3, PTL DEF Spec

\* With a single writer every workflow record is of a run that succeeded and
\* of the draft that ran.
THEOREM RecordsAreTrue == Exclusive => (Spec => []RecordsWhatRan)
  <1> SUFFICES ASSUME Exclusive PROVE Spec => []RecordsWhatRan
    OBVIOUS
  <1>1. SingleWriterInv => RecordsWhatRan
    BY DEF SingleWriterInv, RecordsVouched, Vouched, RecordsWhatRan
  <1> QED
    BY <1>1, SingleWriterInvariance, PTL

\* With a single writer the case base holds what reviewers accepted, no more.
THEOREM CasesAreAccepted == Exclusive => (Spec => []CasesWereAccepted)
  <1> SUFFICES ASSUME Exclusive PROVE Spec => []CasesWereAccepted
    OBVIOUS
  <1>1. SingleWriterInv => CasesWereAccepted
    BY DEF SingleWriterInv
  <1> QED
    BY <1>1, SingleWriterInvariance, PTL

\* With a single writer the result shown is that of the last draft, and an
\* answer that may be decided can be persisted.
THEOREM ResultsAreCurrent == Exclusive => (Spec => []ResultOfLatestDraft)
  <1> SUFFICES ASSUME Exclusive PROVE Spec => []ResultOfLatestDraft
    OBVIOUS
  <1>1. Inv /\ SingleWriterInv => ResultOfLatestDraft
    <2> SUFFICES ASSUME Inv, SingleWriterInv, session # None, session.result # None
                 PROVE  LET job == jobs[session.result.job] IN
                        /\ session.authorization = [version |-> job.version,
                                                    draft |-> job.draft]
                        /\ MayDecide(session) => Persistable(session)
      BY DEF ResultOfLatestDraft
    <2>1. session.authorization = [version |-> jobs[session.result.job].version,
                                   draft |-> jobs[session.result.job].draft]
      BY DEF SingleWriterInv, OwnRun
    <2>2. session.authorization # None
      <3>1. jobs[session.result.job] \in Jobs
        BY DEF Inv, TypeOK, SessionOK, GoodDocument, Consistent, SettledJobs
      <3>2. session.authorization \in Authorizations
        BY <2>1, <3>1 DEF Authorizations, Jobs
      <3> QED
        BY <3>2, NoneAssumption
    <2>3. Latest(session).draft # None
      BY <2>2, NoneAssumption
         DEF Inv, SessionOK, GoodDocument, Consistent, Executable
    <2> QED
      BY <2>1, <2>2, <2>3 DEF MayDecide, Persistable
  <1> QED
    BY <1>1, Invariance, SingleWriterInvariance, PTL

\* Only an undecided session is written over.
LEMMA SwapReplaces ==
    ASSUME Inv, SingleWriterInv, NEW r \in Requests, Swap(r), session # None
    PROVE  session.decision = None
  <1>1. HoldsSession(r) /\ pc[r] = "swap" /\ then[r] \in Continuations
    BY DEF Swap, SingleWriterInv, InFlight, Ended, Inv, TypeOK
  <1>2. CASE DraftSave(r)
    BY <1>1, <1>2 DEF HoldsSession, NextDraft
  <1>3. CASE Saving(r, "run") \/ Saving(r, "reread") \/ Saving(r, "remember")
    BY <1>1, <1>3 DEF HoldsSession, Deciding, Ahead, StageOf
  <1> QED
    BY <1>1, <1>2, <1>3 DEF DraftSave, Saving, Continuations

\* Only a write, a deletion or the end of its retention changes the session.
LEMMA SessionChanges ==
    ASSUME [Next]_vars, session' # session
    PROVE  (\E r \in Requests : Swap(r)) \/ session' = None
  BY DEF Next, Begin, Serve, Abort, Expire, Purge, Idle, vars, stored, local,
     Refuse, Revise, Plan, Authorize, ReadEtag, SwapConflict, Run, RunHalfStored,
     Recover, Fold, Repair, Respond, SessionLost, Decide, PersistAnswer,
     PersistRecord, Remember, ReadForDelete, Drop

\* With a single writer a stored decision is never replaced or withdrawn.
THEOREM DecisionsAreImmutable == Exclusive => (Spec => DecisionImmutable)
  <1> SUFFICES ASSUME Exclusive PROVE Spec => DecisionImmutable
    OBVIOUS
  <1>1. Inv /\ SingleWriterInv /\ [Next]_vars =>
           [session # None /\ session' # None /\ session.decision # None
              => session'.decision = session.decision]_session
    BY SwapReplaces, SessionChanges
  <1> QED
    BY <1>1, Invariance, SingleWriterInvariance, PTL DEF Spec, DecisionImmutable

\* The session as the request in flight sees to it.
HeldBy(r) ==
    IF session # None THEN session
    ELSE IF HoldsCopy(r) THEN doc[r] ELSE None

\* The living session is the stored one or the copy of the request in flight.
LivingHeld ==
    OneInFlight => \A r \in Requests : InFlight(r) \/ Quiet => Living = HeldBy(r)

LEMMA LivingOf == LivingHeld
  <1> SUFFICES ASSUME OneInFlight, NEW r \in Requests, InFlight(r) \/ Quiet
               PROVE  Living = HeldBy(r)
    BY DEF LivingHeld
  <1>1. \A q \in Requests : HoldsCopy(q) => InFlight(q)
    BY DEF HoldsCopy, InFlight, Ended
  <1>2. \A q \in Requests : HoldsCopy(q) => q = r
    BY <1>1 DEF OneInFlight, Quiet
  <1> QED
    BY <1>2 DEF Living, HeldBy

\* The copy a request holds takes the place of the stored document: it is
\* written, or the stored one is removed.
Replaced(r) ==
    /\ session # None /\ Living = session
    /\ InFlight(r) /\ (HoldsCopy(r) \/ pc[r] = "swap")
    /\ Living' = doc[r]

\* The copy goes on although the stored document is gone.
Advanced(r) ==
    /\ session = None /\ Living = doc[r]
    /\ Plan(r) \/ Authorize(r)
    /\ Living' = doc'[r]

\* What a step of a request does to the living session.
LEMMA LivingServed ==
    ASSUME Exclusive, Inv, SingleWriterInv, SingleWriterInv', NEW r \in Requests,
           Begin(r) \/ Serve(r) \/ Abort(r)
    PROVE  Living' \in {Living, None} \/ Replaced(r) \/ Advanced(r)
  <1>1. /\ InFlight(r) \/ Quiet
        /\ \A q \in Requests \ {r} : pc'[q] = pc[q]
    BY LeaveFrame
       DEF Inv, TypeOK, InFlight, Ended, Begin, Serve, Abort, Refuse, Revise, Plan,
           Authorize, ReadEtag, Swap, SwapConflict, Run, RunHalfStored, Recover, Fold,
           Repair, Respond, SessionLost, Decide, PersistAnswer, PersistRecord,
           Remember, ReadForDelete, Drop, StartSave, Goto, Leave
  <1>2. InFlight(r)' \/ Quiet'
    BY <1>1 DEF SingleWriterInv, OneInFlight, InFlight, Quiet
  <1>3. Living = HeldBy(r)
    BY <1>1, LivingOf DEF LivingHeld, SingleWriterInv
  <1>4. Living' = HeldBy(r)'
    <2>1. LivingHeld'
      BY LivingOf, PTL
    <2> QED
      BY <1>2, <2>1 DEF LivingHeld, SingleWriterInv
  <1>5. CASE Begin(r)
    <2>1. session' = session /\ doc' = doc /\ pc[r] = "idle" /\ pc'[r] \in {"plan", "read"}
      BY <1>5 DEF Begin, stored, Goto, Inv, TypeOK
    <2>2. pc'[r] = "plan" => doc[r] = None
      BY <1>5, <2>1, CreatorAssumption DEF Begin, Goto, Inv, TypeOK, SingleWriterInv, BeforeCreation
    <2> QED
      BY <1>3, <1>4, <2>1, <2>2 DEF HeldBy, HoldsCopy
  <1>6. CASE Refuse(r) \/ Respond(r) \/ SessionLost(r) \/ SwapConflict(r) \/ Abort(r)
    <2>1. PICK label \in Ended : Leave(r, label)
      BY <1>6 DEF Refuse, Respond, SessionLost, SwapConflict, Abort, Ended
    <2>2. session' = session /\ pc'[r] \in Ended
      BY <1>6, <2>1, LeaveFrame
         DEF Inv, Refuse, Respond, SessionLost, SwapConflict, Abort, stored
    <2> QED
      BY <1>3, <1>4, <2>2 DEF HeldBy, HoldsCopy, Ended
  <1>7. CASE Revise(r) \/ Fold(r) \/ Repair(r) \/ Decide(r) \/ ReadForDelete(r)
    <2>1. session' = session /\ session # None
      BY <1>7 DEF Revise, Fold, Repair, Decide, ReadForDelete, MayRevise, MayDecide,
         Active, stored
    <2> QED
      BY <1>3, <1>4, <2>1 DEF HeldBy
  <1>8. CASE Plan(r) \/ Authorize(r)
    <2>1. /\ session' = session
          /\ pc[r] \in {"plan", "authorize"} /\ pc'[r] = "save"
      BY <1>8 DEF Plan, Authorize, StartSave, Goto, Inv, TypeOK, stored
    <2> QED
      BY <1>3, <1>4, <1>8, <2>1 DEF HeldBy, HoldsCopy, Advanced
  <1>9. CASE ReadEtag(r)
    <2>1. /\ session' = session /\ doc' = doc
          /\ pc[r] = "save" /\ pc'[r] = "swap" /\ etag'[r] = StoredEtag
      BY <1>9 DEF ReadEtag, Goto, Inv, TypeOK, stored, local
    <2> QED
      BY <1>3, <1>4, <2>1 DEF HeldBy, HoldsCopy, StoredEtag
  <1>10. CASE Swap(r)
    <2>1. /\ session' = doc[r] /\ doc[r] # None
          /\ pc[r] = "swap" /\ InFlight(r)
          /\ session = None => HoldsCopy(r)
      BY <1>10 DEF Swap, Inv, ThreadOK, InFlight, Ended, HoldsCopy, StoredEtag
    <2> QED
      BY <1>3, <1>4, <2>1 DEF HeldBy, Replaced
  <1>11. CASE Run(r) \/ RunHalfStored(r) \/ Recover(r)
    <2>1. /\ session' = session
          /\ pc'[r] \in {"recover", "fold"}
      BY <1>11 DEF Run, RunHalfStored, Recover, Terminal, Goto, Inv, TypeOK
    <2> QED
      BY <1>3, <1>4, <2>1 DEF HeldBy, HoldsCopy
  <1>12. CASE PersistAnswer(r) \/ PersistRecord(r)
    <2>1. /\ session' = session /\ doc' = doc
          /\ pc[r] \in {"answer", "record"} /\ pc'[r] \in {"record", "save"}
      BY <1>12 DEF PersistAnswer, PersistRecord, Goto, Inv, TypeOK, local
    <2> QED
      BY <1>3, <1>4, <2>1 DEF HeldBy, HoldsCopy
  <1>13. CASE Remember(r) \/ Drop(r)
    <2>1. /\ session' = session \/ session' = None
          /\ Leave(r, "done")
      BY <1>13 DEF Remember, Drop
    <2>2. pc'[r] = "done"
      BY <2>1, LeaveFrame DEF Inv, Ended
    <2> QED
      BY <1>3, <1>4, <2>1, <2>2 DEF HeldBy, HoldsCopy
  <1> QED
    BY <1>5, <1>6, <1>7, <1>8, <1>9, <1>10, <1>11, <1>12, <1>13 DEF Serve

\* What the clock and the store do to it.
LEMMA LivingLeft ==
    ASSUME SingleWriterInv, SingleWriterInv', Expire \/ Purge \/ UNCHANGED vars
    PROVE  Living' \in {Living, None} \/ \E r \in Requests : Replaced(r)
  <1>1. PICK r \in Requests : InFlight(r) \/ Quiet
    BY CreatorAssumption DEF Quiet
  <1>2. /\ UNCHANGED <<pc, doc>>
        /\ \/ session' = session /\ etag' = etag
           \/ session # None /\ session' = None /\ etag' = Superseded
    BY DEF Expire, Purge, vars, stored, local
  <1>3. Living = HeldBy(r)
    BY <1>1, LivingOf DEF LivingHeld, SingleWriterInv
  <1>4. Living' = HeldBy(r)'
    <2>1. LivingHeld'
      BY LivingOf, PTL
    <2>2. InFlight(r)' \/ Quiet'
      BY <1>1, <1>2 DEF InFlight, Quiet
    <2> QED
      BY <2>1, <2>2 DEF LivingHeld, SingleWriterInv
  <1>5. CASE session' = session /\ etag' = etag
    BY <1>2, <1>3, <1>4, <1>5 DEF HeldBy, HoldsCopy
  <1>6. CASE session # None /\ session' = None /\ etag' = Superseded
    <2>1. HoldsCopy(r)' => InFlight(r) /\ (HoldsCopy(r) \/ pc[r] = "swap")
      BY <1>2 DEF HoldsCopy, InFlight, Ended
    <2> QED
      BY <1>2, <1>3, <1>4, <1>6, <2>1 DEF HeldBy, Replaced
  <1> QED
    BY <1>2, <1>5, <1>6

\* A living session changes in no other way.
LEMMA LivingChanges ==
    ASSUME Exclusive, Inv, SingleWriterInv, SingleWriterInv', [Next]_vars
    PROVE  \/ Living' \in {Living, None}
           \/ \E r \in Requests : Replaced(r) \/ Advanced(r)
  BY LivingServed, LivingLeft DEF Next, Idle

\* Whatever a request holds is the stored session or one step of the review
\* ahead of it.
LEMMA CopyRefines ==
    ASSUME Inv, SingleWriterInv, NEW r \in Requests, Replaced(r)
    PROVE  [Protocol!Next]_Protocol!vars
  <1>1. /\ HoldsSession(r) /\ session \in Sessions
        /\ Stage = StageOf(session) /\ Revision = Len(session.drafts)
    BY DEF Replaced, SingleWriterInv, Inv, TypeOK, Stage, Revision, StageOf
  <1>2. CASE doc[r] = session
    BY <1>2 DEF Replaced, Protocol!vars, Stage, StageOf, Revision
  <1>3. CASE doc[r] # session
    <2>1. /\ pc[r] \in {"answer", "record", "save", "swap"}
          /\ doc[r] # None
          /\ then[r] \in Continuations
          /\ pc[r] \in {"answer", "record"} => Deciding(r)
      BY <1>1, <1>3 DEF Replaced, HoldsCopy, HoldsSession, Inv, TypeOK, ThreadOK, Deciding
    <2>2. Stage' = StageOf(doc[r]) /\ Revision' = Len(doc[r].drafts)
      BY <2>1 DEF Replaced, Stage, StageOf, Revision
    <2>3. CASE DraftSave(r)
      <3>1. StageOf(doc[r]) = "drafted" /\ NextDraft(doc[r])
        BY <1>1, <2>3 DEF HoldsSession, Replaced
      <3>2. Stage \in {"drafted", "running", "answered", "failed"}
        BY <1>1, <3>1 DEF NextDraft, StageOf
      <3>3. Protocol!Draft
        BY <1>1, <2>2, <3>1, <3>2 DEF NextDraft, Protocol!Draft, Protocol!Undecided
      <3> QED
        BY <3>3 DEF Protocol!Next
    <2>4. CASE Saving(r, "run")
      <3>1. Stage = "drafted" /\ Stage' = "running" /\ Revision' = Revision
        BY <1>1, <2>2, <2>4 DEF HoldsSession, Ahead, Replaced
      <3> QED
        BY <3>1 DEF Protocol!Next, Protocol!Start
    <2>5. CASE Saving(r, "reread")
      <3>1. /\ Stage = "running" /\ Stage' \in {"answered", "failed"}
            /\ Revision' = Revision
        BY <1>1, <2>2, <2>5 DEF HoldsSession, Ahead, Replaced
      <3> QED
        BY <3>1 DEF Protocol!Next, Protocol!Finish
    <2>6. CASE Deciding(r)
      <3>1. /\ Stage = "answered" /\ Stage' \in {"accepted", "rejected"}
            /\ Revision' = Revision
        BY <1>1, <2>2, <2>6 DEF HoldsSession, Ahead, Replaced
      <3> QED
        BY <3>1 DEF Protocol!Next, Protocol!Decide, Protocol!Decided
    <2> QED
      BY <2>1, <2>3, <2>4, <2>5, <2>6 DEF DraftSave, Deciding, Saving, Continuations
  <1> QED
    BY <1>2, <1>3

\* A session that was removed is planned and authorized as a stored one is.
LEMMA AdvanceRefines ==
    ASSUME Inv, Inv', SingleWriterInv, SingleWriterInv',
           NEW r \in Requests, Advanced(r)
    PROVE  Protocol!Next
  <1>1. /\ InFlight(r) /\ HoldsSession(r) /\ ThreadOK(r)
        /\ doc[r] \in Sessions \cup {None}
    BY DEF Advanced, Plan, Authorize, SingleWriterInv, InFlight, Ended, Inv, TypeOK
  <1>2. pc'[r] = "save"
    BY DEF Advanced, Plan, Authorize, StartSave, Goto, Inv, TypeOK
  <1>3. (HoldsSession(r) /\ ThreadOK(r))'
    BY <1>2 DEF SingleWriterInv, Inv, InFlight, Ended
  <1>4. doc'[r] # None
    BY <1>2, <1>3 DEF ThreadOK
  <1>5. Stage' = StageOf(doc'[r]) /\ Revision' = Len(doc'[r].drafts)
    BY <1>4 DEF Advanced, Stage, StageOf, Revision
  <1>6. CASE Plan(r)
    <2>1. PICK d \in PlannedVersions(r) : doc'[r] = WithDraft(doc[r], d)
      BY <1>6 DEF Plan, StartSave, Inv, TypeOK
    <2>2. DraftSave(r)'
      BY <1>2, <1>6 DEF Plan, StartSave, Inv, TypeOK, DraftSave, Saving
    <2>3. Stage' = "drafted"
      BY <1>3, <1>5, <2>2 DEF HoldsSession
    <2>4. Stage \in {"absent", "drafted", "running", "answered", "failed"}
      BY <1>1, <1>6 DEF Advanced, Plan, HoldsSession, Stage, StageOf
    <2>5. Revision' = Revision + 1
      <3>1. CASE doc[r] = None
        BY <1>5, <2>1, <3>1 DEF Advanced, Revision, WithDraft
      <3>2. CASE doc[r] # None
        <4>1. doc[r].drafts \in Seq(DraftVersions)
          BY <1>1, <3>2 DEF Sessions
        <4>2. doc'[r].drafts = Append(doc[r].drafts, d)
          BY <2>1, <3>2 DEF WithDraft
        <4> QED
          BY <1>5, <3>2, <4>1, <4>2 DEF Advanced, Revision
      <3> QED
        BY <3>1, <3>2
    <2>6. Protocol!Draft
      BY <2>3, <2>4, <2>5 DEF Protocol!Draft, Protocol!Undecided
    <2> QED
      BY <2>6 DEF Protocol!Next
  <1>7. CASE Authorize(r)
    <2>1. Saving(r, "run")' /\ doc'[r] = WithAuthorization(doc[r])
      BY <1>2, <1>7 DEF Authorize, StartSave, Inv, TypeOK, Saving
    <2>2. Stage' = "running"
      BY <1>3, <1>5, <2>1 DEF HoldsSession
    <2>3. doc[r] \in Sessions /\ doc[r] # None /\ StageOf(doc[r]) = "drafted"
      BY <1>1, <1>7 DEF Authorize, ThreadOK, HoldsSession
    <2>4. Stage = "drafted" /\ Revision = Len(doc[r].drafts)
      BY <2>3 DEF Advanced, Stage, StageOf, Revision
    <2>5. doc'[r].drafts = doc[r].drafts
      BY <2>1, <2>3 DEF WithAuthorization, Sessions
    <2>6. Protocol!Start
      BY <1>5, <2>2, <2>4, <2>5 DEF Protocol!Start
    <2> QED
      BY <2>6 DEF Protocol!Next
  <1> QED
    BY <1>6, <1>7 DEF Advanced

\* With a single writer the session implements the review protocol, also when
\* its retention ends under a running request, whose next save writes the
\* session anew.
THEOREM SessionImplementsProtocol == Exclusive => (Spec => ImplementsProtocol)
  <1> SUFFICES ASSUME Exclusive PROVE Spec => ImplementsProtocol
    OBVIOUS
  <1>1. Init => Protocol!Init
    BY DEF Init, Protocol!Init, Stage, Revision, Living, HoldsCopy
  <1>2. Inv /\ Inv' /\ SingleWriterInv /\ SingleWriterInv' /\ [Next]_vars
          => [Protocol!Next]_Protocol!vars
    <2> SUFFICES ASSUME Inv, Inv', SingleWriterInv, SingleWriterInv', [Next]_vars
                 PROVE  [Protocol!Next]_Protocol!vars
      OBVIOUS
    <2>1. CASE \E r \in Requests : Replaced(r) \/ Advanced(r)
      BY <2>1, CopyRefines, AdvanceRefines
    <2>2. CASE Living' = Living
      BY <2>2 DEF Protocol!vars, Stage, StageOf, Revision
    <2>3. CASE Living # None /\ Living' = None
      <3>1. Stage # "absent" /\ Stage' = "absent" /\ Revision' = 0
        BY <2>3 DEF Stage, StageOf, Revision
      <3> QED
        BY <3>1 DEF Protocol!Next, Protocol!Discard
    <2> QED
      BY <2>1, <2>2, <2>3, LivingChanges
  <1> QED
    BY <1>1, <1>2, Invariance, SingleWriterInvariance, PTL
       DEF Spec, ImplementsProtocol, Protocol!Spec

-----------------------------------------------------------------------------
(***************************************************************************)
(* A single writer keeps to its repair budget.                             *)
(***************************************************************************)

\* Fewer than m + 1 of the last drafts in a row are repairs.
Trailing(ds, m) ==
    m < Len(ds) =>
        \E k \in (Len(ds) - m) .. Len(ds) : ds[k].trigger # "auto_repair"

\* No more than MaxRepairs drafts in a row are repairs, wherever one looks.
Bounded(ds) ==
    \A i \in 1 .. Len(ds) :
        i + MaxRepairs <= Len(ds) =>
            \E k \in i .. (i + MaxRepairs) : ds[k].trigger # "auto_repair"

\* A rejected answer leaves the result it came from, and no answer.
FailureShown(s) == s.answerFailure => s.result # None /\ s.answer = None

\* The request has decided on a repair and not stored its draft yet.
Replanning(r) ==
    op[r] = "auto_repair" /\ (pc[r] \in {"read", "plan"} \/ DraftSave(r))

\* The request has stored a draft and is executing it.
Executing(r) ==
    \/ pc[r] \in {"authorize", "run", "recover", "fold", "reread"}
    \/ Saving(r, "run") \/ Saving(r, "reread")

\* The document the request will save is of the draft it is executing.
ExecutingCopy(r) == pc[r] = "authorize" \/ Saving(r, "run") \/ Saving(r, "reread")

\* A failure that m more repairs have led up to.
Repairable(s, m) == s.result # None /\ s.answer = None /\ Trailing(s.drafts, m)

GoodHistory(s) == Bounded(s.drafts) /\ FailureShown(s)

\* The new document appends a draft of the request's operation to the old one.
Extends(ds, more, trigger) ==
    \E d \in DraftVersions : d.trigger = trigger /\ more = Append(ds, d)

\* The repairs a request has spent are those the stored session ends in, at
\* most.
Spent(r) ==
    /\ (InFlight(r) /\ op[r] = "auto_repair") \/ budget[r] = MaxRepairs
    /\ Replanning(r) =>
          /\ budget[r] < MaxRepairs
          /\ session # None => Repairable(session, MaxRepairs - budget[r] - 1)
    /\ Executing(r) /\ session # None =>
          Trailing(session.drafts, MaxRepairs - budget[r])

\* And so it is with the document the request holds.
Carried(r) ==
    /\ doc[r] # None => GoodHistory(doc[r])
    /\ Replanning(r) /\ pc[r] = "plan" =>
          doc[r] # None /\ Repairable(doc[r], MaxRepairs - budget[r] - 1)
    /\ DraftSave(r) =>
          /\ Trailing(doc[r].drafts, MaxRepairs - budget[r])
          /\ session # None => Extends(session.drafts, doc[r].drafts, op[r])
    /\ ExecutingCopy(r) => Trailing(doc[r].drafts, MaxRepairs - budget[r])

StoredRepairs == session # None => GoodHistory(session)

RepairsInv ==
    /\ StoredRepairs
    /\ \A r \in Requests : Spent(r) /\ Carried(r)

\* One draft more: a repair lengthens the run of repairs by one, any other
\* draft ends it.
LEMMA TrailingAppend ==
    ASSUME NEW ds \in Seq(DraftVersions), NEW d \in DraftVersions, NEW m \in Nat,
           \/ d.trigger # "auto_repair"
           \/ m > 0 /\ Trailing(ds, m - 1)
    PROVE  Trailing(Append(ds, d), m)
  <1> DEFINE more == Append(ds, d)
  <1>1. /\ Len(more) = Len(ds) + 1 /\ Len(ds) \in Nat
        /\ more[Len(ds) + 1] = d
        /\ \A k \in 1 .. Len(ds) : more[k] = ds[k]
    OBVIOUS
  <1> HIDE DEF more
  <1> SUFFICES ASSUME m < Len(more)
               PROVE  \E k \in (Len(more) - m) .. Len(more) :
                         more[k].trigger # "auto_repair"
    BY DEF Trailing, more
  <1>2. CASE d.trigger # "auto_repair"
    BY <1>1, <1>2
  <1>3. CASE m > 0 /\ Trailing(ds, m - 1)
    <2>1. PICK k \in (Len(ds) - (m - 1)) .. Len(ds) : ds[k].trigger # "auto_repair"
      BY <1>1, <1>3 DEF Trailing
    <2>2. k \in 1 .. Len(ds) /\ k \in (Len(more) - m) .. Len(more)
      BY <1>1, <1>3, <2>1
    <2> QED
      BY <1>1, <2>1, <2>2
  <1> QED
    BY <1>2, <1>3

\* A run of repairs that is short is shorter than any longer bound.
LEMMA TrailingWeaker ==
    ASSUME NEW ds \in Seq(DraftVersions), NEW m \in Nat, NEW n \in Nat, m <= n,
           Trailing(ds, m)
    PROVE  Trailing(ds, n)
  <1> SUFFICES ASSUME n < Len(ds)
               PROVE  \E k \in (Len(ds) - n) .. Len(ds) : ds[k].trigger # "auto_repair"
    BY DEF Trailing
  <1>1. PICK k \in (Len(ds) - m) .. Len(ds) : ds[k].trigger # "auto_repair"
    BY DEF Trailing
  <1>2. k \in (Len(ds) - n) .. Len(ds)
    BY <1>1
  <1> QED
    BY <1>1, <1>2

\* A bounded history stays bounded if its last run of repairs is short.
LEMMA BoundedAppend ==
    ASSUME NEW ds \in Seq(DraftVersions), NEW d \in DraftVersions, Bounded(ds),
           Trailing(Append(ds, d), MaxRepairs)
    PROVE  Bounded(Append(ds, d))
  <1> DEFINE more == Append(ds, d)
  <1>1. /\ Len(more) = Len(ds) + 1 /\ Len(ds) \in Nat
        /\ \A k \in 1 .. Len(ds) : more[k] = ds[k]
    OBVIOUS
  <1> HIDE DEF more
  <1> SUFFICES ASSUME NEW i \in 1 .. Len(more), i + MaxRepairs <= Len(more)
               PROVE  \E k \in i .. (i + MaxRepairs) : more[k].trigger # "auto_repair"
    BY DEF Bounded, more
  <1>2. CASE i + MaxRepairs <= Len(ds)
    <2>1. PICK k \in i .. (i + MaxRepairs) : ds[k].trigger # "auto_repair"
      BY <1>1, <1>2, MaxRepairsAssumption DEF Bounded
    <2> QED
      BY <1>1, <1>2, <2>1, MaxRepairsAssumption
  <1>3. CASE i + MaxRepairs = Len(more)
    <2>1. Trailing(more, MaxRepairs)
      BY DEF more
    <2>2. MaxRepairs < Len(more) /\ Len(more) - MaxRepairs = i
      BY <1>1, <1>3, MaxRepairsAssumption
    <2> QED
      BY <1>3, <2>1, <2>2 DEF Trailing
  <1> QED
    BY <1>1, <1>2, <1>3, MaxRepairsAssumption

\* A step of the one request in flight keeps the budget of every other.
LEMMA RepairsStep ==
    ASSUME SingleWriterInv, RepairsInv, NEW r \in Requests, InFlight(r) \/ Quiet,
           \A q \in Requests \ {r} :
              pc'[q] = pc[q] /\ op'[q] = op[q] /\ budget'[q] = budget[q] /\ doc'[q] = doc[q],
           StoredRepairs', Spent(r)', Carried(r)'
    PROVE  RepairsInv'
  <1> SUFFICES ASSUME NEW q \in Requests \ {r} PROVE Spent(q)' /\ Carried(q)'
    BY DEF RepairsInv
  <1>1. /\ ~InFlight(q) /\ pc'[q] = pc[q] /\ budget'[q] = budget[q]
        /\ doc'[q] = doc[q]
    BY DEF SingleWriterInv, OneInFlight, Quiet
  <1>2. budget[q] = MaxRepairs /\ (doc[q] # None => GoodHistory(doc[q]))
    BY <1>1 DEF RepairsInv, Spent, Carried
  <1>3. pc'[q] \in {"idle"} \cup Ended
    BY <1>1 DEF InFlight
  <1>4. Spent(q)'
    BY <1>1, <1>2, <1>3 DEF Spent, Replanning, DraftSave, Executing, Saving, Ended
  <1>5. Carried(q)'
    BY <1>1, <1>2, <1>3 DEF Carried, GoodHistory, FailureShown, Replanning, DraftSave,
       ExecutingCopy, Saving, Ended
  <1> QED
    BY <1>4, <1>5

\* A request that ends gives its budget back.
LEMMA RepairsLeave ==
    ASSUME Inv, SingleWriterInv, RepairsInv, NEW r \in Requests, InFlight(r),
           NEW label \in Ended, Leave(r, label), StoredRepairs'
    PROVE  RepairsInv'
  <1>1. /\ pc'[r] = label /\ budget'[r] = MaxRepairs /\ doc'[r] = None
        /\ \A q \in Requests \ {r} :
              /\ pc'[q] = pc[q] /\ op'[q] = op[q] /\ budget'[q] = budget[q]
              /\ doc'[q] = doc[q]
    BY LeaveFrame DEF Inv
  <1>2. Spent(r)' /\ Carried(r)'
    BY <1>1 DEF Spent, Carried, Replanning, DraftSave, Executing, ExecutingCopy, Saving,
       Ended
  <1> QED
    BY <1>1, <1>2, RepairsStep

\* A request that moves on with the same operation, budget and session.
LEMMA RepairsGo ==
    ASSUME Inv, SingleWriterInv, RepairsInv, NEW r \in Requests, InFlight(r),
           NEW label \in Labels \ ({"idle"} \cup Ended), Goto(r, label),
           \A q \in Requests \ {r} : doc'[q] = doc[q],
           UNCHANGED <<session, op, budget>>,
           Replanning(r)' => Replanning(r),
           Executing(r)' => Executing(r),
           Carried(r)'
    PROVE  RepairsInv'
  <1>1. pc'[r] = label /\ \A q \in Requests \ {r} : pc'[q] = pc[q]
    BY GotoFrame DEF Inv
  <1>2. InFlight(r)'
    BY <1>1 DEF InFlight
  <1>3. Spent(r)'
    <2>1. Spent(r)
      BY DEF RepairsInv
    <2> QED
      BY <1>2, <2>1 DEF Spent
  <1>4. StoredRepairs'
    BY DEF RepairsInv, StoredRepairs, GoodHistory, FailureShown
  <1> QED
    BY <1>1, <1>3, <1>4, RepairsStep

\* A request that goes on with the very document it holds.
LEMMA RepairsSameDocument ==
    ASSUME Inv, SingleWriterInv, RepairsInv, NEW r \in Requests, InFlight(r),
           NEW label \in Labels \ ({"idle"} \cup Ended), Goto(r, label),
           UNCHANGED <<session, op, budget, doc>>,
           (Replanning(r) /\ pc[r] = "plan")' => Replanning(r) /\ pc[r] = "plan",
           Replanning(r)' => Replanning(r),
           DraftSave(r)' => DraftSave(r),
           Executing(r)' => Executing(r),
           ExecutingCopy(r)' => ExecutingCopy(r)
    PROVE  RepairsInv'
  <1>1. Carried(r)
    BY DEF RepairsInv
  <1>2. Carried(r)'
    BY <1>1 DEF Carried, GoodHistory, FailureShown
  <1> QED
    BY <1>2, RepairsGo

\* A request begins with its whole budget.
LEMMA RepairsBegin ==
    ASSUME Exclusive, Inv, SingleWriterInv, RepairsInv, NEW r \in Requests, Begin(r)
    PROVE  RepairsInv'
  <1>1. /\ Quiet /\ ~InFlight(r)
        /\ \A q \in Requests \ {r} :
              pc'[q] = pc[q] /\ op'[q] = op[q] /\ budget'[q] = budget[q]
        /\ pc'[r] \in {"plan", "read"}
        /\ op'[r] # "auto_repair"
        /\ budget'[r] = budget[r]
        /\ session' = session /\ doc' = doc
    BY DEF Begin, Goto, Inv, TypeOK, stored, InFlight
  <1>2. budget[r] = MaxRepairs /\ (doc[r] # None => GoodHistory(doc[r]))
    BY <1>1 DEF RepairsInv, Spent, Carried
  <1>3. Spent(r)' /\ Carried(r)'
    BY <1>1, <1>2 DEF Spent, Carried, GoodHistory, FailureShown, Replanning, DraftSave,
       Executing, ExecutingCopy, Saving
  <1>4. StoredRepairs'
    BY <1>1 DEF RepairsInv, StoredRepairs, GoodHistory, FailureShown
  <1> QED
    BY <1>1, <1>3, <1>4, RepairsStep

\* A request that ends without a write, or with the deletion of the session.
LEMMA RepairsEnd ==
    ASSUME Inv, SingleWriterInv, RepairsInv, NEW r \in Requests,
           \/ Refuse(r) \/ Respond(r) \/ SessionLost(r) \/ SwapConflict(r)
           \/ Abort(r) \/ Remember(r) \/ Drop(r)
    PROVE  RepairsInv'
  <1>1. PICK label \in Ended : Leave(r, label)
    BY DEF Refuse, Respond, SessionLost, SwapConflict, Abort, Remember, Drop, Ended
  <1>2. InFlight(r)
    BY DEF Refuse, Respond, SessionLost, SwapConflict, Abort, Remember, Drop,
       InFlight, Ended
  <1>3. session' = session \/ session' = None
    BY DEF Refuse, Respond, SessionLost, SwapConflict, Abort, Remember, Drop, stored
  <1>4. StoredRepairs'
    BY <1>3 DEF RepairsInv, StoredRepairs, GoodHistory, FailureShown
  <1> QED
    BY <1>1, <1>2, <1>4, RepairsLeave

\* The session as it is read for a repair is the session to be repaired.
LEMMA RepairsRevise ==
    ASSUME Inv, SingleWriterInv, RepairsInv, NEW r \in Requests, Revise(r)
    PROVE  RepairsInv'
  <1>1. /\ InFlight(r) /\ pc[r] = "read" /\ Goto(r, "plan") /\ pc'[r] = "plan"
        /\ UNCHANGED <<session, op, budget>>
        /\ doc'[r] = session /\ session # None
        /\ \A q \in Requests \ {r} : doc'[q] = doc[q]
    BY DEF Revise, InFlight, Ended, Goto, Inv, TypeOK, stored, MayRevise, Active
  <1>2. /\ ~DraftSave(r)' /\ ~Executing(r)' /\ ~ExecutingCopy(r)'
        /\ Replanning(r)' => Replanning(r)
    BY <1>1 DEF DraftSave, Executing, ExecutingCopy, Replanning, Saving
  <1>3. /\ GoodHistory(session)
        /\ Replanning(r) => Repairable(session, MaxRepairs - budget[r] - 1)
    BY <1>1 DEF RepairsInv, StoredRepairs, Spent
  <1>4. Carried(r)'
    <2>1. GoodHistory(doc[r])'
      BY <1>1, <1>3 DEF GoodHistory, FailureShown
    <2>2. Replanning(r)' => doc'[r] # None /\ Repairable(doc[r], MaxRepairs - budget[r] - 1)'
      BY <1>1, <1>2, <1>3 DEF Repairable
    <2> QED
      BY <1>2, <2>1, <2>2 DEF Carried
  <1> QED
    BY <1>1, <1>2, <1>4, RepairsGo DEF Labels, Ended

\* The steps that write neither the session nor the document in memory.
LEMMA RepairsOn ==
    ASSUME Inv, SingleWriterInv, RepairsInv, NEW r \in Requests,
           \/ ReadEtag(r) \/ Run(r) \/ RunHalfStored(r) \/ Recover(r)
           \/ PersistAnswer(r) \/ PersistRecord(r) \/ ReadForDelete(r)
    PROVE  RepairsInv'
  <1>1. CASE ReadEtag(r)
    <2>1. /\ InFlight(r) /\ pc[r] = "save" /\ Goto(r, "swap") /\ pc'[r] = "swap"
          /\ UNCHANGED <<session, op, budget, doc, then>>
      BY <1>1 DEF ReadEtag, InFlight, Ended, Goto, Inv, TypeOK, stored, local
    <2>2. /\ pc'[r] # "plan"
          /\ DraftSave(r)' => DraftSave(r)
          /\ Executing(r)' => Executing(r)
          /\ ExecutingCopy(r)' => ExecutingCopy(r)
          /\ Replanning(r)' => Replanning(r)
      BY <2>1 DEF DraftSave, Executing, ExecutingCopy, Replanning, Saving
    <2> QED
      BY <2>1, <2>2, RepairsSameDocument DEF Labels, Ended
  <1>2. CASE Run(r) \/ RunHalfStored(r) \/ Recover(r)
    <2>1. PICK label \in {"recover", "fold"} : Goto(r, label) /\ pc'[r] = label
      BY <1>2 DEF Run, RunHalfStored, Recover, Terminal, Goto, Inv, TypeOK
    <2>2. /\ InFlight(r) /\ pc[r] \in {"run", "recover"}
          /\ UNCHANGED <<session, op, budget, doc>>
      BY <1>2 DEF Run, RunHalfStored, Recover, InFlight, Ended, local
    <2>3. ~DraftSave(r)' /\ Executing(r) /\ ~ExecutingCopy(r)' /\ ~Replanning(r)'
      BY <2>1, <2>2 DEF DraftSave, Executing, ExecutingCopy, Replanning, Saving
    <2> QED
      BY <2>1, <2>2, <2>3, RepairsSameDocument DEF Labels, Ended
  <1>3. CASE PersistAnswer(r) \/ ReadForDelete(r)
    <2>1. PICK label \in {"record", "drop"} : Goto(r, label) /\ pc'[r] = label
      BY <1>3 DEF PersistAnswer, ReadForDelete, Goto, Inv, TypeOK
    <2>2. InFlight(r) /\ UNCHANGED <<session, op, budget, doc>>
      BY <1>3 DEF PersistAnswer, ReadForDelete, InFlight, Ended, stored, local
    <2>3. ~DraftSave(r)' /\ ~Executing(r)' /\ ~ExecutingCopy(r)' /\ ~Replanning(r)'
      BY <2>1 DEF DraftSave, Executing, ExecutingCopy, Replanning, Saving
    <2> QED
      BY <2>1, <2>2, <2>3, RepairsSameDocument DEF Labels, Ended
  <1>4. CASE PersistRecord(r)
    <2>1. /\ InFlight(r) /\ Goto(r, "save") /\ pc'[r] = "save" /\ then'[r] = "remember"
          /\ UNCHANGED <<session, op, budget, doc>>
      BY <1>4 DEF PersistRecord, InFlight, Ended, Goto, Inv, TypeOK, ThreadOK, local
    <2>2. ~DraftSave(r)' /\ ~Executing(r)' /\ ~ExecutingCopy(r)' /\ ~Replanning(r)'
      BY <2>1 DEF DraftSave, Executing, ExecutingCopy, Replanning, Saving
    <2> QED
      BY <2>1, <2>2, RepairsSameDocument DEF Labels, Ended
  <1> QED
    BY <1>1, <1>2, <1>3, <1>4

\* Authorizing adds nothing to the history of the document.
LEMMA RepairsAuthorize ==
    ASSUME Inv, SingleWriterInv, RepairsInv, NEW r \in Requests, Authorize(r)
    PROVE  RepairsInv'
  <1>1. /\ InFlight(r) /\ pc[r] = "authorize" /\ Goto(r, "save") /\ pc'[r] = "save"
        /\ then'[r] = "run"
        /\ UNCHANGED <<session, op, budget>>
        /\ doc[r] \in Sessions /\ doc[r] # None /\ doc'[r] = WithAuthorization(doc[r])
        /\ \A q \in Requests \ {r} : doc'[q] = doc[q]
    BY DEF Authorize, StartSave, InFlight, Ended, Goto, Inv, TypeOK, ThreadOK
  <1>2. ~DraftSave(r)' /\ Executing(r) /\ ExecutingCopy(r) /\ ~Replanning(r)'
    BY <1>1 DEF DraftSave, Executing, ExecutingCopy, Replanning, Saving
  <1>3. /\ doc'[r].drafts = doc[r].drafts
        /\ doc'[r].result = doc[r].result /\ doc'[r].answer = doc[r].answer
        /\ doc'[r].answerFailure = doc[r].answerFailure
    BY <1>1 DEF WithAuthorization, Sessions
  <1>4. Carried(r)'
    <2>1. GoodHistory(doc[r]) /\ Trailing(doc[r].drafts, MaxRepairs - budget[r])
      BY <1>1, <1>2 DEF RepairsInv, Carried
    <2> QED
      BY <1>1, <1>2, <1>3, <2>1 DEF Carried, GoodHistory, FailureShown
  <1> QED
    BY <1>1, <1>2, <1>4, RepairsGo DEF Labels, Ended

\* Folding in an outcome adds nothing to the history of the session.
LEMMA RepairsFold ==
    ASSUME Inv, SingleWriterInv, RepairsInv, NEW r \in Requests, Fold(r)
    PROVE  RepairsInv'
  <1> DEFINE status == jobs[JobOf(r)].status
  <1>1. PICK answered \in BOOLEAN :
           StartSave(r, WithResult(session, JobOf(r), status, answered), "reread")
    BY DEF Fold
  <1>2. /\ InFlight(r) /\ pc[r] = "fold" /\ Goto(r, "save") /\ pc'[r] = "save"
        /\ then'[r] = "reread"
        /\ UNCHANGED <<session, op, budget>>
        /\ session \in Sessions /\ session # None
        /\ doc'[r] = WithResult(session, JobOf(r), status, answered)
        /\ \A q \in Requests \ {r} : doc'[q] = doc[q]
        /\ status \in {"succeeded", "failed"}
    BY <1>1 DEF Fold, StartSave, InFlight, Ended, Goto, Inv, TypeOK, ThreadOK, stored
  <1>3. ~DraftSave(r)' /\ Executing(r) /\ ~Replanning(r)'
    BY <1>2 DEF DraftSave, Executing, Replanning, Saving
  <1>4. /\ doc'[r].drafts = session.drafts
        /\ doc'[r].result = [job |-> JobOf(r), status |-> status]
        /\ doc'[r].answer = IF status = "succeeded" /\ answered THEN JobOf(r) ELSE None
        /\ doc'[r].answerFailure = (status = "succeeded" /\ ~answered)
    BY <1>2 DEF WithResult, Sessions
  <1>5. doc'[r].result # None
    BY <1>2, <1>4, JobOfType, NoneAssumption DEF Inv, Results
  <1>6. Carried(r)'
    <2>1. Bounded(session.drafts) /\ Trailing(session.drafts, MaxRepairs - budget[r])
      BY <1>2, <1>3 DEF RepairsInv, StoredRepairs, GoodHistory, Spent
    <2>2. FailureShown(doc[r])'
      BY <1>4, <1>5 DEF FailureShown
    <2> QED
      BY <1>2, <1>3, <1>4, <2>1, <2>2 DEF Carried, GoodHistory
  <1> QED
    BY <1>2, <1>3, <1>6, RepairsGo DEF Labels, Ended

\* A decision adds nothing to it either.
LEMMA RepairsDecide ==
    ASSUME Inv, SingleWriterInv, RepairsInv, NEW r \in Requests, Decide(r)
    PROVE  RepairsInv'
  <1>1. PICK label \in {"answer", "record"} : Goto(r, label) /\ pc'[r] = label
    BY DEF Decide, FirstWrite, Goto, Inv, TypeOK
  <1>2. /\ InFlight(r) /\ UNCHANGED <<session, op, budget>>
        /\ session \in Sessions /\ session # None
        /\ doc'[r] = WithDecision(session, r, op[r])
        /\ \A q \in Requests \ {r} : doc'[q] = doc[q]
    BY DEF Decide, InFlight, Ended, MayDecide, Active, Inv, TypeOK, stored
  <1>3. ~DraftSave(r)' /\ ~Executing(r)' /\ ~ExecutingCopy(r)' /\ ~Replanning(r)'
    BY <1>1 DEF DraftSave, Executing, ExecutingCopy, Replanning, Saving
  <1>4. /\ doc'[r].drafts = session.drafts
        /\ doc'[r].result = session.result /\ doc'[r].answer = session.answer
        /\ doc'[r].answerFailure = session.answerFailure
    BY <1>2 DEF WithDecision, Sessions
  <1>5. Carried(r)'
    <2>1. GoodHistory(session)
      BY <1>2 DEF RepairsInv, StoredRepairs
    <2> QED
      BY <1>3, <1>4, <2>1 DEF Carried, GoodHistory, FailureShown
  <1> QED
    BY <1>1, <1>2, <1>3, <1>5, RepairsGo DEF Labels, Ended

\* The history a planned draft ends stays bounded, and ends in as many repairs
\* as have been spent.
LEMMA DraftPlanned ==
    ASSUME Inv, RepairsInv, NEW r \in Requests, Plan(r), NEW d \in PlannedVersions(r)
    PROVE  /\ Extends(IF doc[r] = None THEN << >> ELSE doc[r].drafts,
                      WithDraft(doc[r], d).drafts, op[r])
           /\ Latest(WithDraft(doc[r], d)).trigger = op[r]
           /\ Trailing(WithDraft(doc[r], d).drafts, MaxRepairs - budget[r])
           /\ GoodHistory(WithDraft(doc[r], d))
  <1> DEFINE ds == IF doc[r] = None THEN << >> ELSE doc[r].drafts
             more == WithDraft(doc[r], d).drafts
  <1>1. /\ pc[r] = "plan" /\ op[r] \in {"create", "revise", "auto_repair"}
        /\ doc[r] \in Sessions \cup {None}
        /\ budget[r] \in 0 .. MaxRepairs
        /\ Spent(r) /\ Carried(r)
    BY DEF Plan, Inv, TypeOK, ThreadOK, RepairsInv
  <1>2. d \in DraftVersions /\ d.trigger = op[r]
    <2>1. CASE d \in [draft : Drafts \cup {None}, trigger : {op[r]}, replays : {None}]
      BY <1>1, <2>1 DEF DraftVersions
    <2>2. CASE \E c \in cases : d = [draft |-> c.draft, trigger |-> op[r], replays |-> c]
      BY <1>1, <2>2 DEF DraftVersions, Inv, TypeOK, Cases
    <2> QED
      BY <2>1, <2>2 DEF PlannedVersions
  <1>3. ds \in Seq(DraftVersions) /\ Bounded(ds)
    <2>1. CASE doc[r] = None
      BY <2>1 DEF Bounded
    <2>2. CASE doc[r] # None
      BY <1>1, <2>2 DEF Carried, GoodHistory, Sessions
    <2> QED
      BY <2>1, <2>2
  <1>4. more = Append(ds, d) /\ WithDraft(doc[r], d).answerFailure = FALSE
    <2>1. <<d>> = Append(<< >>, d)
      OBVIOUS
    <2> QED
      BY <2>1 DEF WithDraft
  <1>5. Latest(WithDraft(doc[r], d)) = d
    BY <1>1, <1>2, WithDraftType
  <1>6. op[r] = "auto_repair" =>
           /\ budget[r] < MaxRepairs /\ doc[r] # None
           /\ Trailing(doc[r].drafts, MaxRepairs - budget[r] - 1)
    BY <1>1 DEF Spent, Carried, Replanning, Repairable
  <1>7. /\ MaxRepairs - budget[r] \in Nat
        /\ MaxRepairs - budget[r] <= MaxRepairs
        /\ budget[r] < MaxRepairs => MaxRepairs - budget[r] > 0
    BY <1>1, MaxRepairsAssumption
  <1> HIDE DEF ds, more
  <1>8. Trailing(more, MaxRepairs - budget[r])
    <2>1. CASE op[r] # "auto_repair"
      BY <1>2, <1>3, <1>4, <1>7, <2>1, TrailingAppend
    <2>2. CASE op[r] = "auto_repair"
      <3>1. Trailing(ds, MaxRepairs - budget[r] - 1)
        BY <1>6, <2>2 DEF ds
      <3> QED
        BY <1>2, <1>3, <1>4, <1>6, <1>7, <2>2, <3>1, TrailingAppend
    <2> QED
      BY <2>1, <2>2
  <1>9. more \in Seq(DraftVersions)
    BY <1>2, <1>3, <1>4
  <1>10. Trailing(more, MaxRepairs)
    BY <1>7, <1>8, <1>9, TrailingWeaker, MaxRepairsAssumption
  <1>11. Bounded(more)
    BY <1>2, <1>3, <1>4, <1>10, BoundedAppend
  <1> QED
    BY <1>2, <1>4, <1>5, <1>8, <1>11
       DEF Extends, GoodHistory, FailureShown, ds, more

\* A planned draft carries the operation that asked for it, and extends the
\* history that was read.
LEMMA RepairsPlan ==
    ASSUME Inv, SingleWriterInv, RepairsInv, NEW r \in Requests, Plan(r)
    PROVE  RepairsInv'
  <1>1. PICK d \in PlannedVersions(r) :
           StartSave(r, WithDraft(doc[r], d), IF Executable(d) THEN "authorize" ELSE "done")
    BY DEF Plan
  <1>2. /\ InFlight(r) /\ pc[r] = "plan"
        /\ session # None => doc[r] = session
        /\ UNCHANGED <<session, op, budget>>
    BY DEF Plan, InFlight, Ended, SingleWriterInv, HoldsSession, stored
  <1>3. /\ Goto(r, "save") /\ pc'[r] = "save"
        /\ doc'[r] = WithDraft(doc[r], d)
        /\ then'[r] \in {"authorize", "done"}
        /\ \A q \in Requests \ {r} : doc'[q] = doc[q]
    BY <1>1 DEF StartSave, Goto, Inv, TypeOK
  <1>4. /\ Extends(IF doc[r] = None THEN << >> ELSE doc[r].drafts, doc'[r].drafts, op[r])
        /\ Trailing(doc'[r].drafts, MaxRepairs - budget[r])
        /\ GoodHistory(doc'[r])
    BY <1>3, DraftPlanned
  <1>5. /\ ~Executing(r)' /\ ~ExecutingCopy(r)'
        /\ Replanning(r)' => Replanning(r)
    BY <1>2, <1>3 DEF Executing, ExecutingCopy, Replanning, Saving
  <1>6. Carried(r)'
    <2>1. session # None => Extends(session.drafts, doc'[r].drafts, op[r])
      BY <1>2, <1>4
    <2> QED
      BY <1>2, <1>3, <1>4, <1>5, <2>1 DEF Carried, GoodHistory, FailureShown, Extends
  <1> QED
    BY <1>2, <1>3, <1>5, <1>6, RepairsGo DEF Labels, Ended

\* A repair spends one of the budget, on a session that shows a failure.
LEMMA RepairsRepair ==
    ASSUME Inv, SingleWriterInv, RepairsInv, NEW r \in Requests, Repair(r)
    PROVE  RepairsInv'
  <1>1. /\ InFlight(r) /\ Executing(r) /\ session # None /\ MayRepair(r)
        /\ session' = session /\ doc' = doc
        /\ pc'[r] = "read" /\ op'[r] = "auto_repair" /\ budget'[r] = budget[r] - 1
        /\ \A q \in Requests \ {r} :
              pc'[q] = pc[q] /\ op'[q] = op[q] /\ budget'[q] = budget[q]
    BY DEF Repair, InFlight, Ended, Executing, Goto, Inv, TypeOK, stored
  <1>2. budget[r] \in 1 .. MaxRepairs
    BY <1>1, MaxRepairsAssumption DEF MayRepair, Inv, TypeOK
  <1>3. session.result # None /\ session.answer = None
    <2>1. CASE session.answerFailure
      BY <1>1, <2>1 DEF RepairsInv, StoredRepairs, GoodHistory, FailureShown
    <2>2. CASE session.result # None /\ session.result.status = "failed"
      BY <1>1, <2>2 DEF Inv, SessionOK, GoodDocument, Consistent
    <2> QED
      BY <1>1, <2>1, <2>2 DEF MayRepair, AnswerRepairNeeded
  <1>4. Trailing(session.drafts, MaxRepairs - budget[r])
    BY <1>1 DEF RepairsInv, Spent
  <1>5. MaxRepairs - budget'[r] - 1 = MaxRepairs - budget[r] /\ budget'[r] < MaxRepairs
    BY <1>1, <1>2, MaxRepairsAssumption
  <1>6. ~DraftSave(r)' /\ ~Executing(r)' /\ ~ExecutingCopy(r)' /\ InFlight(r)'
    BY <1>1 DEF DraftSave, Executing, ExecutingCopy, Saving, InFlight, Ended
  <1>7. Spent(r)'
    BY <1>1, <1>3, <1>4, <1>5, <1>6 DEF Spent, Repairable
  <1>8. Carried(r)'
    BY <1>1, <1>6 DEF RepairsInv, Carried, GoodHistory, FailureShown
  <1>9. StoredRepairs'
    BY <1>1 DEF RepairsInv, StoredRepairs, GoodHistory, FailureShown
  <1> QED
    BY <1>1, <1>7, <1>8, <1>9, RepairsStep

\* Storing a document: the draft the budget allows, or no draft at all.
LEMMA RepairsSwap ==
    ASSUME Inv, SingleWriterInv, RepairsInv, NEW r \in Requests, Swap(r)
    PROVE  RepairsInv'
  <1>1. /\ InFlight(r) /\ pc[r] = "swap" /\ session' = doc[r] /\ doc[r] # None
        /\ then[r] \in Continuations
        /\ Spent(r) /\ Carried(r)
    BY DEF Swap, InFlight, Ended, Inv, TypeOK, ThreadOK, RepairsInv
  <1>2. StoredRepairs'
    BY <1>1 DEF StoredRepairs, Carried, GoodHistory, FailureShown
  <1>3. CASE then[r] = "done"
    BY <1>1, <1>2, <1>3, RepairsLeave DEF Swap, Ended
  <1>4. CASE then[r] # "done"
    <2>1. Goto(r, then[r]) /\ UNCHANGED local
      BY <1>4 DEF Swap
    <2>2. pc'[r] = then[r] /\ \A q \in Requests \ {r} : pc'[q] = pc[q]
      BY <1>1, <2>1, GotoFrame DEF Inv, Labels
    <2>3. InFlight(r)' /\ ~DraftSave(r)' /\ ~Replanning(r)'
      BY <1>1, <1>4, <2>2
         DEF InFlight, Ended, DraftSave, Replanning, Saving, Continuations
    <2>4. Executing(r)' => DraftSave(r) \/ ExecutingCopy(r)
      BY <1>1, <1>4, <2>2
         DEF Executing, ExecutingCopy, DraftSave, Saving, Continuations
    <2>5. Executing(r)' => Trailing(doc[r].drafts, MaxRepairs - budget[r])
      BY <1>1, <2>4 DEF Carried
    <2>6. Spent(r)'
      BY <1>1, <2>1, <2>3, <2>5 DEF Spent, local
    <2>7. ExecutingCopy(r)' => Executing(r)'
      BY DEF ExecutingCopy, Executing
    <2>8. Carried(r)'
      BY <1>1, <2>1, <2>3, <2>5, <2>7 DEF Carried, GoodHistory, FailureShown, local
    <2> QED
      BY <1>1, <1>2, <2>1, <2>2, <2>6, <2>8, RepairsStep DEF local
  <1> QED
    BY <1>3, <1>4

\* The clock, and the store at the end of the retention.
LEMMA RepairsEnvironment ==
    ASSUME Inv, RepairsInv, Expire \/ Purge \/ UNCHANGED vars
    PROVE  RepairsInv'
  <1>1. /\ UNCHANGED <<pc, op, budget, doc, then>>
        /\ session' = session \/ session' = None
    BY DEF Expire, Purge, vars, stored, local
  <1>2. StoredRepairs'
    BY <1>1 DEF RepairsInv, StoredRepairs, GoodHistory, FailureShown
  <1>3. ASSUME NEW r \in Requests PROVE Spent(r)' /\ Carried(r)'
    <2>1. Spent(r) /\ Carried(r)
      BY DEF RepairsInv
    <2>2. Spent(r)'
      BY <1>1, <2>1 DEF Spent, InFlight, Replanning, DraftSave, Executing, Saving, Repairable
    <2>3. Carried(r)'
      BY <1>1, <2>1 DEF Carried, GoodHistory, FailureShown, Replanning, DraftSave,
         ExecutingCopy, Saving, Repairable, Extends
    <2> QED
      BY <2>2, <2>3
  <1> QED
    BY <1>2, <1>3 DEF RepairsInv

\* Before the first request nothing has been spent.
LEMMA RepairsFirst == Init => RepairsInv
  BY DEF Init, RepairsInv, StoredRepairs, Spent, Carried, Replanning, DraftSave,
     Executing, ExecutingCopy, Saving

\* Every step of a single writer keeps to the repair budget.
LEMMA RepairsNext ==
    ASSUME Exclusive
    PROVE  Inv /\ SingleWriterInv /\ RepairsInv /\ [Next]_vars => RepairsInv'
  <1> SUFFICES ASSUME Inv, SingleWriterInv, RepairsInv, [Next]_vars PROVE RepairsInv'
    OBVIOUS
  <1>1. ASSUME NEW r \in Requests, Begin(r) \/ Serve(r) \/ Abort(r) PROVE RepairsInv'
    BY <1>1, RepairsBegin, RepairsEnd, RepairsRevise, RepairsOn, RepairsAuthorize,
       RepairsFold, RepairsDecide, RepairsPlan, RepairsRepair, RepairsSwap
       DEF Serve
  <1>2. CASE Expire \/ Purge \/ Idle \/ UNCHANGED vars
    BY <1>2, RepairsEnvironment DEF Idle
  <1> QED
    BY <1>1, <1>2 DEF Next

\* The invariant of the repair budget.
THEOREM RepairsInvariance == Exclusive => (Spec => []RepairsInv)
  <1> SUFFICES ASSUME Exclusive PROVE Spec => []RepairsInv
    OBVIOUS
  <1>1. Init => RepairsInv
    BY RepairsFirst
  <1>2. Inv /\ SingleWriterInv /\ RepairsInv /\ [Next]_vars => RepairsInv'
    BY RepairsNext
  <1> QED
    BY <1>1, <1>2, Invariance, SingleWriterInvariance, PTL DEF Spec

\* With a single writer automatic repair never runs away: no more than
\* MaxRepairs drafts in a row are repairs, whatever requests, failures and
\* expiries the session has seen.
THEOREM RepairsAreBounded == Exclusive => (Spec => []RepairsBounded)
  <1> SUFFICES ASSUME Exclusive PROVE Spec => []RepairsBounded
    OBVIOUS
  <1>1. RepairsInv => RepairsBounded
    BY DEF RepairsInv, StoredRepairs, GoodHistory, Bounded, RepairsBounded
  <1> QED
    BY <1>1, RepairsInvariance, PTL

\* What becomes of a session s when t takes its place.
Answers(s, t) ==
    t # None /\ Latest(t).trigger = "auto_repair" /\ (s = None \/ s.drafts # t.drafts)
    => /\ s # None
       /\ s.result # None
       /\ s.answer = None
       /\ Len(t.drafts) = Len(s.drafts) + 1

\* A history that was extended is one longer and ends in the draft added.
LEMMA ExtendsLonger ==
    ASSUME NEW ds \in Seq(DraftVersions), NEW t, NEW trigger,
           Extends(ds, t.drafts, trigger)
    PROVE  Len(t.drafts) = Len(ds) + 1 /\ Latest(t).trigger = trigger
  <1>1. PICK d \in DraftVersions : d.trigger = trigger /\ t.drafts = Append(ds, d)
    BY DEF Extends
  <1>2. Len(Append(ds, d)) = Len(ds) + 1 /\ Append(ds, d)[Len(ds) + 1] = d
    OBVIOUS
  <1> QED
    BY <1>1, <1>2 DEF Latest

\* The copy that takes the place of the stored session: a repair of the
\* failure that session shows, or no repair.
LEMMA CopyAnswers ==
    ASSUME Inv, SingleWriterInv, RepairsInv, NEW r \in Requests, Replaced(r)
    PROVE  Answers(Living, Living')
  <1>1. /\ session # None /\ session \in Sessions
        /\ Living = session /\ Living' = doc[r]
        /\ InFlight(r) /\ (HoldsCopy(r) \/ pc[r] = "swap")
        /\ HoldsSession(r) /\ Spent(r) /\ Carried(r)
        /\ then[r] \in Continuations
    BY DEF Replaced, SingleWriterInv, RepairsInv, Inv, TypeOK
  <1>2. CASE DraftSave(r)
    <2>1. Len(doc[r].drafts) = Len(session.drafts) + 1 /\ Latest(doc[r]).trigger = op[r]
      BY <1>1, <1>2, ExtendsLonger DEF Carried, Sessions
    <2>2. op[r] = "auto_repair" => session.result # None /\ session.answer = None
      BY <1>1, <1>2 DEF Spent, Replanning, Repairable
    <2> QED
      BY <1>1, <2>1, <2>2 DEF Answers
  <1>3. CASE ~DraftSave(r)
    <2>1. doc[r].drafts = session.drafts
      BY <1>1, <1>3 DEF HoldsSession, HoldsCopy, Deciding, DraftSave, Saving, Ahead,
         Continuations
    <2> QED
      BY <1>1, <2>1 DEF Answers
  <1> QED
    BY <1>2, <1>3

\* The copy of a session that was removed: likewise.
LEMMA AdvanceAnswers ==
    ASSUME Inv, RepairsInv, NEW r \in Requests, Advanced(r)
    PROVE  Answers(Living, Living')
  <1>1. /\ Living = doc[r] /\ Living' = doc'[r]
        /\ doc[r] \in Sessions \cup {None}
        /\ Spent(r) /\ Carried(r) /\ ThreadOK(r)
    BY DEF Advanced, RepairsInv, Inv, TypeOK
  <1>2. CASE Plan(r)
    <2>1. PICK d \in PlannedVersions(r) : doc'[r] = WithDraft(doc[r], d)
      BY <1>2 DEF Plan, StartSave, Inv, TypeOK
    <2>2. /\ Extends(IF doc[r] = None THEN << >> ELSE doc[r].drafts, doc'[r].drafts, op[r])
          /\ Latest(doc'[r]).trigger = op[r]
      BY <1>2, <2>1, DraftPlanned
    <2>3. op[r] = "auto_repair" =>
             doc[r] # None /\ doc[r].result # None /\ doc[r].answer = None
      BY <1>1, <1>2 DEF Plan, Carried, Replanning, Repairable
    <2>4. doc[r] # None => Len(doc'[r].drafts) = Len(doc[r].drafts) + 1
      BY <1>1, <2>2, ExtendsLonger DEF Sessions
    <2> QED
      BY <1>1, <2>2, <2>3, <2>4 DEF Answers
  <1>3. CASE Authorize(r)
    <2>1. doc[r] \in Sessions /\ doc[r] # None /\ doc'[r] = WithAuthorization(doc[r])
      BY <1>1, <1>3 DEF Authorize, StartSave, ThreadOK, Inv, TypeOK
    <2>2. doc'[r].drafts = doc[r].drafts
      BY <2>1 DEF WithAuthorization, Sessions
    <2> QED
      BY <1>1, <2>1, <2>2 DEF Answers
  <1> QED
    BY <1>2, <1>3 DEF Advanced

\* With a single writer a repair is only added to a session that shows the
\* failure it answers, also when the session expires while it is planned.
THEOREM RepairsAnswerFailures == Exclusive => (Spec => RepairAnswersFailure)
  <1> SUFFICES ASSUME Exclusive PROVE Spec => RepairAnswersFailure
    OBVIOUS
  <1>1. Inv /\ SingleWriterInv /\ SingleWriterInv' /\ RepairsInv /\ [Next]_vars
          => [Answers(Living, Living')]_Living
    <2> SUFFICES ASSUME Inv, SingleWriterInv, SingleWriterInv', RepairsInv, [Next]_vars,
                        Living' # Living
                 PROVE  Answers(Living, Living')
      OBVIOUS
    <2>1. CASE Living' = None
      BY <2>1 DEF Answers
    <2> QED
      BY <2>1, LivingChanges, CopyAnswers, AdvanceAnswers
  <1>2. [Answers(Living, Living')]_Living
          => [Living' # None
              /\ Latest(Living').trigger = "auto_repair"
              /\ (Living = None \/ Living.drafts # Living'.drafts)
              => /\ Living # None
                 /\ Living.result # None
                 /\ Living.answer = None
                 /\ Len(Living'.drafts) = Len(Living.drafts) + 1]_Living
    BY DEF Answers
  <1> QED
    BY <1>1, <1>2, Invariance, SingleWriterInvariance, RepairsInvariance, PTL
       DEF Spec, RepairAnswersFailure

-----------------------------------------------------------------------------
(***************************************************************************)
(* With a single writer somebody attends to everything the session says is *)
(* still to come.                                                          *)
(***************************************************************************)

\* The request is going to fold in the outcome of a run, or was interrupted.
AttendsRun(r) ==
    pc[r] \in {"aborted", "run", "recover", "fold"} \/ Saving(r, "reread")

\* A session that shows an execution as running has a request that runs it.
RunsAttended ==
    session # None /\ session.authorization # None /\ session.result = None =>
        \E r \in Requests : AttendsRun(r)

\* The case base is as the decision of kind about draft version d leaves it.
InCaseBase(d, kind, by) ==
    IF kind = "accept"
      THEN d.replays = None => [by |-> by, draft |-> d.draft] \in cases
      ELSE d.replays \notin cases

\* The case base follows the decision that the session shows, or the request
\* that made it is about to see to that, or was interrupted.
DecisionsAttended ==
    session # None /\ session.decision # None =>
        LET by == session.decision.by IN
        \/ pc[by] \in {"aborted", "remember"}
        \/ InCaseBase(Latest(session), session.decision.kind, by)

\* What the store holds has not changed since the request last looked, unless
\* it is gone.
Undisturbed(r) ==
    session # None =>
        /\ pc[r] = "swap" => etag[r] = StoredEtag
        /\ pc[r] = "remember" => doc[r] = session

AttendedInv ==
    /\ \A r \in Requests : Undisturbed(r)
    /\ RunsAttended
    /\ DecisionsAttended

\* Nothing of the other requests is at stake when one takes a step.
LEMMA OthersUndisturbed ==
    ASSUME SingleWriterInv, NEW r \in Requests, InFlight(r) \/ Quiet,
           NEW q \in Requests \ {r}, pc'[q] = pc[q]
    PROVE  Undisturbed(q)'
  BY DEF SingleWriterInv, OneInFlight, Quiet, InFlight, Ended, Undisturbed

\* A step that leaves no session leaves nothing to attend to.
LEMMA AttendedNone ==
    ASSUME SingleWriterInv, NEW r \in Requests, InFlight(r) \/ Quiet,
           \A q \in Requests \ {r} : pc'[q] = pc[q],
           session' = None, Undisturbed(r)'
    PROVE  AttendedInv'
  BY OthersUndisturbed DEF AttendedInv, RunsAttended, DecisionsAttended

\* A step that changes neither the session nor the case base, of a request
\* that goes on attending to what it attended to.
LEMMA AttendedGo ==
    ASSUME Inv, SingleWriterInv, AttendedInv, NEW r \in Requests, InFlight(r) \/ Quiet,
           \A q \in Requests \ {r} : pc'[q] = pc[q] /\ then'[q] = then[q],
           session' = session, cases' = cases,
           AttendsRun(r) => AttendsRun(r)',
           pc[r] \in {"aborted", "remember"} => pc'[r] = "aborted",
           Undisturbed(r)'
    PROVE  AttendedInv'
  <1>1. \A q \in Requests : Undisturbed(q)'
    BY OthersUndisturbed
  <1>2. \A q \in Requests : AttendsRun(q) => AttendsRun(q)'
    BY DEF AttendsRun, Saving
  <1>3. \A q \in Requests : pc[q] \in {"aborted", "remember"} =>
                               pc'[q] \in {"aborted", "remember"}
    OBVIOUS
  <1>4. RunsAttended'
    BY <1>2 DEF AttendedInv, RunsAttended
  <1>5. DecisionsAttended'
    <2> SUFFICES ASSUME session # None, session.decision # None,
                        ~InCaseBase(Latest(session), session.decision.kind,
                                    session.decision.by)
                 PROVE  pc'[session.decision.by] \in {"aborted", "remember"}
      BY DEF DecisionsAttended, InCaseBase
    <2>1. pc[session.decision.by] \in {"aborted", "remember"}
      BY DEF AttendedInv, DecisionsAttended
    <2>2. CASE session.decision.by = r
      BY <2>1, <2>2
    <2>3. CASE session.decision.by \in Requests \ {r}
      BY <2>1, <2>3
    <2>4. session.decision.by \in Requests
      BY DEF Inv, TypeOK, Sessions, Decisions
    <2> QED
      BY <2>2, <2>3, <2>4
  <1> QED
    BY <1>1, <1>4, <1>5 DEF AttendedInv

\* With a single writer a save fails only if the session is gone.
LEMMA ConflictMeansGone ==
    ASSUME AttendedInv, NEW r \in Requests, SwapConflict(r)
    PROVE  session = None
  BY DEF AttendedInv, Undisturbed, SwapConflict

\* A step that only moves a request on.
LEMMA AttendedOn ==
    ASSUME Inv, SingleWriterInv, AttendedInv, NEW r \in Requests,
           \/ Revise(r) \/ Plan(r) \/ Authorize(r) \/ Run(r) \/ RunHalfStored(r)
           \/ Recover(r) \/ Fold(r) \/ Repair(r) \/ Decide(r) \/ PersistAnswer(r)
           \/ PersistRecord(r) \/ ReadForDelete(r)
    PROVE  AttendedInv'
  <1>1. /\ InFlight(r) /\ pc[r] \notin {"aborted", "remember"}
        /\ UNCHANGED <<session, cases>>
    BY DEF InFlight, Ended, stored, Revise, Plan, Authorize, Run, RunHalfStored, Recover,
       Fold, Repair, Decide, PersistAnswer, PersistRecord, ReadForDelete
  <1>2. \A q \in Requests \ {r} : pc'[q] = pc[q] /\ then'[q] = then[q]
    BY DEF Inv, TypeOK, Goto, StartSave, local,
       Revise, Plan, Authorize, Run, RunHalfStored, Recover,
       Fold, Repair, Decide, PersistAnswer, PersistRecord, ReadForDelete
  <1>3. pc'[r] \notin {"swap", "remember"}
    BY DEF Inv, TypeOK, Goto, StartSave, FirstWrite, Terminal,
       Revise, Plan, Authorize, Run, RunHalfStored, Recover,
       Fold, Repair, Decide, PersistAnswer, PersistRecord, ReadForDelete
  <1>4. AttendsRun(r) => AttendsRun(r)'
    BY DEF Inv, TypeOK, AttendsRun, Saving, Goto, StartSave, FirstWrite, Terminal,
       Revise, Plan, Authorize, Run, RunHalfStored, Recover, local,
       Fold, Repair, Decide, PersistAnswer, PersistRecord, ReadForDelete, ThreadOK
  <1>5. Undisturbed(r)'
    BY <1>3 DEF Undisturbed
  <1> QED
    BY <1>1, <1>2, <1>4, <1>5, AttendedGo

\* Reading the etag: nobody writes until the request does.
LEMMA AttendedReadEtag ==
    ASSUME Inv, SingleWriterInv, AttendedInv, NEW r \in Requests, ReadEtag(r)
    PROVE  AttendedInv'
  <1>1. /\ InFlight(r) /\ pc[r] = "save" /\ pc'[r] = "swap"
        /\ UNCHANGED <<session, cases, then>>
        /\ \A q \in Requests \ {r} : pc'[q] = pc[q]
    BY DEF ReadEtag, InFlight, Ended, stored, local, Goto, Inv, TypeOK
  <1>2. etag'[r] = StoredEtag
    BY DEF ReadEtag, Inv, TypeOK
  <1>3. StoredEtag' = StoredEtag
    BY <1>1 DEF StoredEtag
  <1>4. Undisturbed(r)'
    BY <1>1, <1>2, <1>3 DEF Undisturbed
  <1>5. AttendsRun(r) => AttendsRun(r)'
    BY <1>1 DEF AttendsRun, Saving
  <1> QED
    BY <1>1, <1>4, <1>5, AttendedGo

\* A request begins.
LEMMA AttendedBegin ==
    ASSUME Exclusive, Inv, SingleWriterInv, AttendedInv, NEW r \in Requests, Begin(r)
    PROVE  AttendedInv'
  <1>1. /\ Quiet /\ pc[r] = "idle" /\ pc'[r] \in {"plan", "read"}
        /\ UNCHANGED <<session, cases, then>>
        /\ \A q \in Requests \ {r} : pc'[q] = pc[q]
    BY DEF Begin, stored, Goto, Inv, TypeOK
  <1>2. Undisturbed(r)' /\ ~AttendsRun(r)
    BY <1>1 DEF Undisturbed, AttendsRun, Saving
  <1> QED
    BY <1>1, <1>2, AttendedGo

\* What Leave does to the labels.
LEMMA AttendedLeave ==
    ASSUME Inv, NEW r \in Requests, NEW label \in Ended, Leave(r, label)
    PROVE  /\ pc'[r] = label /\ Undisturbed(r)'
           /\ \A q \in Requests \ {r} : pc'[q] = pc[q] /\ then'[q] = then[q]
  BY LeaveFrame DEF Inv, Undisturbed, Ended

\* A request that ends as it should was not the one to attend to a run.
LEMMA AttendedEnd ==
    ASSUME Inv, SingleWriterInv, AttendedInv, NEW r \in Requests,
           Refuse(r) \/ Respond(r) \/ SessionLost(r) \/ SwapConflict(r) \/ Abort(r)
    PROVE  AttendedInv'
  <1>1. /\ InFlight(r) /\ UNCHANGED <<session, cases>>
        /\ pc[r] # "aborted"
    BY DEF Refuse, Respond, SessionLost, SwapConflict, Abort, InFlight, Ended, stored
  <1>2. PICK label \in Ended : Leave(r, label)
    BY DEF Refuse, Respond, SessionLost, SwapConflict, Abort, Ended
  <1>3. CASE SessionLost(r) \/ SwapConflict(r)
    BY <1>1, <1>2, <1>3, AttendedLeave, AttendedNone, ConflictMeansGone DEF SessionLost
  <1>4. CASE Refuse(r) \/ Respond(r)
    <2>1. pc[r] \in {"read", "reread"}
      BY <1>4 DEF Refuse, Respond
    <2>2. ~AttendsRun(r) /\ pc[r] # "remember"
      BY <2>1 DEF AttendsRun, Saving
    <2> QED
      BY <1>1, <1>2, <2>2, AttendedLeave, AttendedGo
  <1>5. CASE Abort(r)
    <2>1. Leave(r, "aborted")
      BY <1>5 DEF Abort
    <2>2. pc'[r] = "aborted"
      BY <2>1, AttendedLeave DEF Ended
    <2>3. AttendsRun(r)'
      BY <2>2 DEF AttendsRun
    <2> QED
      BY <1>1, <2>1, <2>2, <2>3, AttendedLeave, AttendedGo DEF Ended
  <1> QED
    BY <1>3, <1>4, <1>5

\* The session is deleted.
LEMMA AttendedDrop ==
    ASSUME Inv, SingleWriterInv, NEW r \in Requests, Drop(r)
    PROVE  AttendedInv'
  <1>1. InFlight(r) /\ session' = None /\ Leave(r, "done")
    BY DEF Drop, InFlight, Ended
  <1> QED
    BY <1>1, AttendedLeave, AttendedNone DEF Ended

\* Remembering: the case base follows the decision the session shows.
LEMMA AttendedRemember ==
    ASSUME Inv, SingleWriterInv, AttendedInv, NEW r \in Requests, Remember(r)
    PROVE  AttendedInv'
  <1>1. /\ InFlight(r) /\ pc[r] = "remember" /\ Leave(r, "done")
        /\ session' = session
        /\ cases' = Remembered(Latest(doc[r]), op[r], r)
        /\ op[r] \in {"accept", "reject"}
        /\ doc[r].decision = [kind |-> op[r], by |-> r]
        /\ session # None => doc[r] = session
    BY DEF Remember, InFlight, Ended, Inv, ThreadOK, AttendedInv, Undisturbed
  <1>2. \A q \in Requests : Undisturbed(q)'
    BY <1>1, AttendedLeave, OthersUndisturbed DEF Ended
  <1>3. ~AttendsRun(r)
    BY <1>1 DEF AttendsRun, Saving
  <1>4. \A q \in Requests : AttendsRun(q) => AttendsRun(q)'
    BY <1>1, <1>3, AttendedLeave DEF Ended, AttendsRun, Saving
  <1>5. RunsAttended'
    BY <1>1, <1>4 DEF AttendedInv, RunsAttended
  <1>6. ASSUME session # None PROVE DecisionsAttended'
    <2>1. PICK kind \in {"accept", "reject"} : kind = op[r]
      BY <1>1
    <2>2. InCaseBase(Latest(session), kind, r)'
      BY <1>1, <1>6, <2>1 DEF InCaseBase, Remembered
    <2>3. session'.decision.kind = kind /\ session'.decision.by = r
      BY <1>1, <1>6, <2>1
    <2> QED
      BY <1>1, <2>2, <2>3 DEF DecisionsAttended, InCaseBase
  <1>7. DecisionsAttended'
    BY <1>1, <1>6 DEF DecisionsAttended
  <1> QED
    BY <1>2, <1>5, <1>7 DEF AttendedInv

\* Writing the session: whoever makes it show a run or a decision goes on to
\* attend to it.
LEMMA AttendedSwap ==
    ASSUME Inv, SingleWriterInv, AttendedInv, NEW r \in Requests, Swap(r)
    PROVE  AttendedInv'
  <1>1. /\ InFlight(r) /\ HoldsSession(r) /\ pc[r] = "swap" /\ session' = doc[r]
        /\ doc[r] # None
        /\ then[r] \in Continuations
        /\ session # None => session \in Sessions
    BY DEF Swap, InFlight, Ended, SingleWriterInv, Inv, TypeOK, ThreadOK
  <1>2. /\ pc'[r] = then[r]
        /\ then[r] = "remember" => doc'[r] = doc[r]
        /\ \A q \in Requests \ {r} : pc'[q] = pc[q]
    <2>1. CASE then[r] = "done"
      BY <2>1, LeaveFrame DEF Swap, Inv, Ended
    <2>2. CASE then[r] # "done"
      BY <1>1, <2>2 DEF Swap, Goto, Inv, TypeOK, local
    <2> QED
      BY <2>1, <2>2
  <1>3. \A q \in Requests : Undisturbed(q)'
    <2>1. Undisturbed(r)'
      BY <1>1, <1>2 DEF Undisturbed, Continuations
    <2> QED
      BY <1>1, <1>2, <2>1, OthersUndisturbed
  <1>4. CASE then[r] \in {"authorize", "done"}
    <2>1. StageOf(doc[r]) = "drafted"
      BY <1>1, <1>4 DEF HoldsSession, DraftSave, Saving
    <2>2. doc[r].decision = None /\ doc[r].authorization = None
      BY <2>1 DEF StageOf
    <2> QED
      BY <1>1, <1>3, <2>2 DEF AttendedInv, RunsAttended, DecisionsAttended
  <1>5. CASE then[r] = "run"
    <2>1. StageOf(doc[r]) = "running"
      BY <1>1, <1>5 DEF HoldsSession, Saving
    <2>2. doc[r].decision = None
      BY <2>1 DEF StageOf
    <2>3. AttendsRun(r)'
      BY <1>2, <1>5 DEF AttendsRun
    <2> QED
      BY <1>1, <1>3, <2>2, <2>3 DEF AttendedInv, RunsAttended, DecisionsAttended
  <1>6. CASE then[r] = "reread"
    <2>1. StageOf(doc[r]) \in {"answered", "failed"}
      BY <1>1, <1>6 DEF HoldsSession, Saving
    <2>2. doc[r].result # None /\ doc[r].decision = None
      BY <2>1 DEF StageOf
    <2> QED
      BY <1>1, <1>3, <2>2 DEF AttendedInv, RunsAttended, DecisionsAttended
  <1>7. CASE then[r] = "remember"
    <2>1. /\ doc[r].result # None
          /\ doc[r].decision = [kind |-> op[r], by |-> r]
      BY <1>1, <1>7 DEF Inv, ThreadOK, Saving, Persistable
    <2>2. doc[r].decision.by = r
      BY <2>1
    <2> QED
      BY <1>1, <1>2, <1>3, <1>7, <2>1, <2>2
         DEF AttendedInv, RunsAttended, DecisionsAttended
  <1> QED
    BY <1>1, <1>4, <1>5, <1>6, <1>7 DEF Continuations

\* The clock, and the store at the end of the retention.
LEMMA AttendedEnvironment ==
    ASSUME AttendedInv, Expire \/ Purge \/ UNCHANGED vars
    PROVE  AttendedInv'
  <1>1. UNCHANGED <<cases, pc, doc, then>>
    BY DEF Expire, Purge, vars, stored, local
  <1>2. CASE session' = session /\ etag' = etag
    BY <1>1, <1>2 DEF AttendedInv, Undisturbed, StoredEtag, RunsAttended, AttendsRun,
       Saving, DecisionsAttended, InCaseBase
  <1>3. CASE session' = None
    BY <1>3 DEF AttendedInv, Undisturbed, RunsAttended, DecisionsAttended
  <1> QED
    BY <1>2, <1>3 DEF Expire, Purge, vars, stored

\* Every step of a single writer leaves somebody to attend.
LEMMA AttendedNext ==
    ASSUME Exclusive
    PROVE  Inv /\ SingleWriterInv /\ AttendedInv /\ [Next]_vars => AttendedInv'
  <1> SUFFICES ASSUME Inv, SingleWriterInv, AttendedInv, [Next]_vars PROVE AttendedInv'
    OBVIOUS
  <1>1. ASSUME NEW r \in Requests, Begin(r) \/ Serve(r) \/ Abort(r) PROVE AttendedInv'
    BY <1>1, AttendedBegin, AttendedOn, AttendedReadEtag, AttendedSwap, AttendedEnd,
       AttendedRemember, AttendedDrop
       DEF Serve
  <1>2. CASE Expire \/ Purge \/ Idle \/ UNCHANGED vars
    BY <1>2, AttendedEnvironment DEF Idle
  <1> QED
    BY <1>1, <1>2 DEF Next

\* There is nothing to attend to in the beginning.
LEMMA AttendedFirst == Init => AttendedInv
  BY DEF Init, AttendedInv, Undisturbed, RunsAttended, DecisionsAttended

\* The invariant of those who attend.
THEOREM AttendedInvariance == Exclusive => (Spec => []AttendedInv)
  <1> SUFFICES ASSUME Exclusive PROVE Spec => []AttendedInv
    OBVIOUS
  <1>1. Init => AttendedInv
    BY AttendedFirst
  <1>2. Inv /\ SingleWriterInv /\ AttendedInv /\ [Next]_vars => AttendedInv'
    BY AttendedNext
  <1> QED
    BY <1>1, <1>2, Invariance, SingleWriterInvariance, PTL DEF Spec

\* With a single writer two things are never left to nobody, unless a request
\* was interrupted: an execution that the session shows as running, and a
\* decision that the case base does not follow yet.  ExecutionReported and
\* RejectedReplayForgotten rest on this, and on RequestsEnd: those who attend
\* get there.
THEOREM EverythingIsAttended ==
    Exclusive => (Spec => [](RunsAttended /\ DecisionsAttended))
  <1> SUFFICES ASSUME Exclusive PROVE Spec => [](RunsAttended /\ DecisionsAttended)
    OBVIOUS
  <1>1. AttendedInv => RunsAttended /\ DecisionsAttended
    BY DEF AttendedInv
  <1> QED
    BY <1>1, AttendedInvariance, PTL
=============================================================================
