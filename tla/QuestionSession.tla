--------------------------- MODULE QuestionSession ---------------------------
(***************************************************************************)
(* One Question Session and the HTTP requests that work on it              *)
(* (app/api/question_sessions.py, session_repository.py,                   *)
(* workflow_records.py, the job life cycle of geoqa_agent/execution.py and *)
(* the case base as seen from DraftPlanner.remember).                      *)
(*                                                                         *)
(* Every request runs in a thread of its own (app/api/main.py hands each   *)
(* service call to to_thread) and keeps a copy of the session document in  *)
(* memory between the moment it reads it and the moment it writes it back. *)
(* One action is one call to the object store together with the            *)
(* computation that leads up to the next call, so requests interleave      *)
(* wherever two calls of one request are apart.                            *)
(***************************************************************************)
EXTENDS Naturals, Sequences, FiniteSets

CONSTANTS
    Requests,       \* the HTTP requests that name this session
    Creator,        \* the one among them that submits the question
    Drafts,         \* the workflow drafts a planner may propose, by content
    InvalidDrafts,  \* those the validator fails
    MaxRepairs,     \* MAX_ANSWER_REPAIR_ATTEMPTS
    Exclusive,      \* the single-writer assumption of QuestionSessionRepository
    Failures,       \* storage calls may raise and the container may stop
    Expires,        \* the session's retention may end while requests run
    None            \* Python's None

\* A workflow retained in the case base: the request that accepted it (None
\* for a decision in an earlier session) and the draft it replays.
Cases == [by : Requests \cup {None}, draft : Drafts \ InvalidDrafts]

\* A job id is drawn once for each execution, that is once for each value of
\* the repair budget within a request.
JobIds == Requests \X (0..MaxRepairs)

ASSUME CreatorAssumption == Creator \in Requests
ASSUME DraftsAssumption == InvalidDrafts \subseteq Drafts
ASSUME MaxRepairsAssumption == MaxRepairs \in Nat
ASSUME SwitchAssumption == {Exclusive, Failures, Expires} \subseteq BOOLEAN

VARIABLES
    session,    \* the session document in the object store, or None
    jobs,       \* the execution-job documents
    answers,    \* decisions whose answer.json is stored, by deciding request
    records,    \* decisions whose record.json is stored, by deciding request
    cases,      \* the case base
    expired,    \* the clock has passed the session's expires_at
    pc,         \* where each request's thread stands
    op,         \* what it is doing
    budget,     \* its repair_budget
    doc,        \* the session document it holds in memory
    then,       \* where it continues once the document is saved
    etag        \* how the etag it has read compares with the stored document

stored == <<session, jobs, answers, records, cases>>
local  == <<op, budget, doc, then>>
vars   == <<session, jobs, answers, records, cases, expired,
            pc, op, budget, doc, then, etag>>

Ended == {"done", "aborted"}
Continuations == {"authorize", "run", "reread", "remember", "done"}
Labels == {"idle", "read", "plan", "save", "swap", "recover", "fold",
           "answer", "record", "drop", "aborted"} \cup Continuations
Operations == {"create", "revise", "auto_repair", "accept", "reject", "delete"}

\* The store holds no document, the document the etag was read from, or
\* another one.
Etags == {"absent", "current", "stale"}

DraftVersions ==
    [draft : Drafts \cup {None},
     trigger : {"create", "revise", "auto_repair"},
     replays : Cases \cup {None}]
Authorizations == [version : Nat, draft : Drafts]
Results == [job : JobIds, status : {"succeeded", "failed"}]
Decisions == [kind : {"accept", "reject"}, by : Requests]
Sessions ==
    [drafts : Seq(DraftVersions),
     authorization : Authorizations \cup {None},
     result : Results \cup {None},
     answer : JobIds \cup {None},
     answerFailure : BOOLEAN,
     decision : Decisions \cup {None}]
Jobs == [version : Nat, draft : Drafts, status : {"running", "succeeded", "failed"}]
Records == [kind : {"accept", "reject"}, job : JobIds,
            version : Nat, draft : Drafts]

\* None is none of the values it may stand in for.
ASSUME NoneAssumption ==
    /\ None \notin Requests \cup Drafts \cup Cases \cup JobIds
    /\ None \notin Authorizations \cup Results \cup Decisions
    /\ None \notin Sessions \cup Jobs \cup Records

-----------------------------------------------------------------------------
(***************************************************************************)
(* The conditions the service computes from a session document.            *)
(***************************************************************************)

Latest(s) == s.drafts[Len(s.drafts)]

\* validation.status != "fail": an unsupported question has no draft at all.
Executable(d) == d.draft \in Drafts \ InvalidDrafts

Active(s) == s # None /\ ~expired

\* Mutant: a reviewed session may be planned again.
MayReviseReviewed(s) == Active(s)

MayRevise(s) == Active(s) /\ s.decision = None

\* Mutant: an answer may be decided a second time.
MayDecideAgain(s) ==
    /\ Active(s)
    /\ s.answer # None
    /\ s.result # None
    /\ s.result.status = "succeeded"
    /\ s.answer = s.result.job

MayDecide(s) ==
    /\ Active(s)
    /\ s.answer # None
    /\ s.result # None
    /\ s.result.status = "succeeded"
    /\ s.answer = s.result.job
    /\ s.decision = None

\* What persist_decision insists on before it writes anything.
Persistable(s) ==
    /\ s.answer # None
    /\ s.authorization # None
    /\ s.result # None
    /\ Latest(s).draft # None

\* Mutant: every execution is repaired, whatever came of it.
RepairAnyResult(s) == s.result # None

AnswerRepairNeeded(s) ==
    \/ s.answerFailure
    \/ s.result # None /\ s.result.status = "failed"

(***************************************************************************)
(* The documents the service builds in memory.                             *)
(***************************************************************************)

\* Mutant: the reset of the execution-phase state is forgotten.
WithDraftOnly(s, d) ==
    IF s = None
      THEN [drafts |-> <<d>>, authorization |-> None, result |-> None,
            answer |-> None, answerFailure |-> FALSE, decision |-> None]
      ELSE [s EXCEPT !.drafts = Append(s.drafts, d)]

\* Mutant: only the candidate answer survives the reset.
WithDraftKeepingAnswer(s, d) ==
    [WithDraftOnly(s, d) EXCEPT !.authorization = None, !.result = None,
                                !.answerFailure = FALSE, !.decision = None]

\* A new draft supersedes all execution-phase state of the previous one.
WithDraft(s, d) ==
    [drafts |-> IF s = None THEN <<d>> ELSE Append(s.drafts, d),
     authorization |-> None,
     result |-> None,
     answer |-> None,
     answerFailure |-> FALSE,
     decision |-> None]

\* The exact draft the job may replay.
Authorization(s) == [version |-> Len(s.drafts), draft |-> Latest(s).draft]

WithAuthorization(s) == [s EXCEPT !.authorization = Authorization(s)]

\* The sink folds a terminal job, and what construct made of it, into
\* whatever session document it has just read.
WithResult(s, j, status, answered) ==
    [s EXCEPT !.result = [job |-> j, status |-> status],
              !.answer = IF status = "succeeded" /\ answered THEN j ELSE None,
              !.answerFailure = status = "succeeded" /\ ~answered,
              !.decision = None]

WithDecision(s, r, kind) ==
    [s EXCEPT !.decision = [kind |-> kind, by |-> r]]

\* The record describes the last draft and the last execution side by side.
RecordOf(s, kind) ==
    [kind |-> kind, job |-> s.result.job,
     version |-> Len(s.drafts), draft |-> Latest(s).draft]

\* Mutant: every reviewed composition is retained, the rejected ones included.
RememberedAlways(d, kind, r) ==
    IF d.replays = None THEN cases \cup {[by |-> r, draft |-> d.draft]} ELSE cases

\* Mutant: a rejected replay stays in the case base.
RememberedAcceptedOnly(d, kind, r) ==
    IF kind = "accept" /\ d.replays = None
      THEN cases \cup {[by |-> r, draft |-> d.draft]}
      ELSE cases

\* DraftPlanner.remember: an accepted composition becomes a case, a rejected
\* replay stops being one.
Remembered(d, kind, r) ==
    IF kind = "accept"
      THEN IF d.replays = None
             THEN cases \cup {[by |-> r, draft |-> d.draft]}
             ELSE cases
      ELSE cases \ {d.replays}

-----------------------------------------------------------------------------
(***************************************************************************)
(* The steps of a request.                                                 *)
(***************************************************************************)

Goto(r, label) == pc' = [pc EXCEPT ![r] = label]

InFlight(r) == pc[r] \notin {"idle"} \cup Ended

Quiet == \A r \in Requests : ~InFlight(r)

\* The request ends, and with it everything its thread kept in memory.
Leave(r, label) ==
    /\ Goto(r, label)
    /\ op' = [op EXCEPT ![r] = "create"]
    /\ budget' = [budget EXCEPT ![r] = MaxRepairs]
    /\ doc' = [doc EXCEPT ![r] = None]
    /\ then' = [then EXCEPT ![r] = "done"]

\* The document is on its way to the store; next is where the request goes
\* once it is there.
StartSave(r, s, next) ==
    /\ doc' = [doc EXCEPT ![r] = s]
    /\ then' = [then EXCEPT ![r] = next]
    /\ Goto(r, "save")

Init ==
    /\ session = None
    /\ jobs = [j \in JobIds |-> None]
    /\ answers = {}
    /\ records = [r \in Requests |-> None]
    /\ cases \in SUBSET {c \in Cases : c.by = None}
    /\ expired = FALSE
    /\ pc = [r \in Requests |-> "idle"]
    /\ op = [r \in Requests |-> "create"]
    /\ budget = [r \in Requests |-> MaxRepairs]
    /\ doc = [r \in Requests |-> None]
    /\ then = [r \in Requests |-> "done"]
    /\ etag = [r \in Requests |-> "stale"]

\* A request arrives.  Editing and regenerating differ only in what they tell
\* the planner, so "revise" stands for both.
Begin(r) ==
    /\ pc[r] = "idle"
    /\ Exclusive => Quiet
    /\ IF r = Creator
         THEN op' = [op EXCEPT ![r] = "create"] /\ Goto(r, "plan")
         ELSE /\ \E o \in {"revise", "accept", "reject", "delete"} :
                     op' = [op EXCEPT ![r] = o]
              /\ Goto(r, "read")
    /\ UNCHANGED <<stored, expired, budget, doc, then, etag>>

\* repository.get, _ensure_active and the checks of the operation raise.
Refuse(r) ==
    /\ pc[r] = "read"
    /\ CASE op[r] \in {"revise", "auto_repair"} -> ~MayRevise(session)
         [] op[r] \in {"accept", "reject"} ->
                ~(MayDecide(session) /\ Persistable(session))
         [] op[r] = "delete" -> ~Active(session)
    /\ Leave(r, "done")
    /\ UNCHANGED <<stored, expired, etag>>

\* _revise reads the session it is going to plan for.
Revise(r) ==
    /\ pc[r] = "read"
    /\ op[r] \in {"revise", "auto_repair"}
    /\ MayRevise(session)
    /\ doc' = [doc EXCEPT ![r] = session]
    /\ Goto(r, "plan")
    /\ UNCHANGED <<stored, expired, op, budget, then, etag>>

\* What planning may come up with: an unsupported question, a composed draft
\* of any validity, and for a submission the replay of a case that validates.
PlannedVersions(r) ==
    [draft : Drafts \cup {None}, trigger : {op[r]}, replays : {None}]
    \cup (IF op[r] = "create"
            THEN {[draft |-> c.draft, trigger |-> op[r], replays |-> c] : c \in cases}
            ELSE {})

\* The language model has answered; only a draft that validates is executed.
Plan(r) ==
    /\ pc[r] = "plan"
    /\ \E d \in PlannedVersions(r) :
          StartSave(r, WithDraft(doc[r], d),
                    IF Executable(d) THEN "authorize" ELSE "done")
    /\ UNCHANGED <<stored, expired, op, budget, etag>>

JobOf(r) == <<r, budget[r]>>

\* _execute_current_draft creates the job before the session names it.
Authorize(r) ==
    /\ pc[r] = "authorize"
    /\ jobs' = [jobs EXCEPT ![JobOf(r)] =
                   [version |-> Len(doc[r].drafts),
                    draft |-> Latest(doc[r]).draft,
                    status |-> "running"]]
    /\ StartSave(r, WithAuthorization(doc[r]), "run")
    /\ UNCHANGED <<session, answers, records, cases, expired, op, budget, etag>>

\* What a conditional write asks of the store.
StoredEtag == IF session = None THEN "absent" ELSE "current"

\* The etags once the stored document is replaced or gone.
Superseded ==
    [q \in Requests |-> IF etag[q] = "current" THEN "stale" ELSE etag[q]]

\* save reads the etag the write will be conditional on.
ReadEtag(r) ==
    /\ pc[r] = "save"
    /\ etag' = [etag EXCEPT ![r] = StoredEtag]
    /\ Goto(r, "swap")
    /\ UNCHANGED <<stored, expired, local>>

\* The conditional write, and the retention that is set with it.
Swap(r) ==
    /\ pc[r] = "swap"
    /\ etag[r] = StoredEtag
    /\ session' = doc[r]
    /\ etag' = [Superseded EXCEPT ![r] = "stale"]
    /\ IF then[r] = "done"
         THEN Leave(r, "done")
         ELSE Goto(r, then[r]) /\ UNCHANGED local
    /\ UNCHANGED <<jobs, answers, records, cases, expired>>

\* ConcurrentPublicationError: another request wrote between the two calls.
SwapConflict(r) ==
    /\ pc[r] = "swap"
    /\ etag[r] # StoredEtag
    /\ Leave(r, "done")
    /\ etag' = [etag EXCEPT ![r] = "stale"]
    /\ UNCHANGED <<stored, expired>>

\* Mutant: the sink only hears of executions that succeeded.
SucceededOnly == {"succeeded"}

\* The job states the worker hands to its sink.
Terminal == {"succeeded", "failed"}

\* The worker has run the job's draft and stored the terminal job; its
\* finally block hands every terminal job to the sink.
Run(r) ==
    /\ pc[r] = "run"
    /\ \E status \in {"succeeded", "failed"} :
          /\ jobs' = [jobs EXCEPT ![JobOf(r)].status = status]
          /\ Goto(r, IF status \in Terminal THEN "fold" ELSE "done")
    /\ UNCHANGED <<session, answers, records, cases, expired, local, etag>>

\* The SUCCEEDED job is stored and the call that sets its retention raises.
RunHalfStored(r) ==
    /\ Failures
    /\ pc[r] = "run"
    /\ jobs' = [jobs EXCEPT ![JobOf(r)].status = "succeeded"]
    /\ Goto(r, "recover")
    /\ UNCHANGED <<session, answers, records, cases, expired, local, etag>>

\* The worker's except clause fails the job it finds in the store, the one
\* that has just succeeded included.
Recover(r) ==
    /\ pc[r] = "recover"
    /\ jobs' = [jobs EXCEPT ![JobOf(r)].status = "failed"]
    /\ Goto(r, "fold")
    /\ UNCHANGED <<session, answers, records, cases, expired, local, etag>>

\* The sink reads the session; construct accepts or rejects the outputs.
Fold(r) ==
    /\ pc[r] = "fold"
    /\ session # None
    /\ \E answered \in BOOLEAN :
          StartSave(r, WithResult(session, JobOf(r), jobs[JobOf(r)].status, answered),
                    "reread")
    /\ UNCHANGED <<stored, expired, op, budget, etag>>

\* Mutant: the repair budget is not looked at.
MayRepairForever(r) == AnswerRepairNeeded(session)

\* A run that died or missed the answer contract is planned again while the
\* request's budget lasts.
MayRepair(r) == budget[r] > 0 /\ AnswerRepairNeeded(session)

\* Back in the service, the session is read once more.
Repair(r) ==
    /\ pc[r] = "reread"
    /\ session # None
    /\ MayRepair(r)
    /\ op' = [op EXCEPT ![r] = "auto_repair"]
    /\ budget' = [budget EXCEPT ![r] = budget[r] - 1]
    /\ Goto(r, "read")
    /\ UNCHANGED <<stored, expired, doc, then, etag>>

Respond(r) ==
    /\ pc[r] = "reread"
    /\ session # None
    /\ ~MayRepair(r)
    /\ Leave(r, "done")
    /\ UNCHANGED <<stored, expired, etag>>

\* SessionNotFoundError, in the sink or after it.
SessionLost(r) ==
    /\ pc[r] \in {"fold", "reread"}
    /\ session = None
    /\ Leave(r, "done")
    /\ UNCHANGED <<stored, expired, etag>>

\* Mutant: an accepted answer is recorded without its artifact.
FirstWriteRecord(kind) == "record"

\* persist_decision writes an accepted answer before the workflow record.
FirstWrite(kind) == IF kind = "accept" THEN "answer" ELSE "record"

\* decide_result; the record is written first, the session after it.
Decide(r) ==
    /\ pc[r] = "read"
    /\ op[r] \in {"accept", "reject"}
    /\ MayDecide(session)
    /\ Persistable(session)
    /\ doc' = [doc EXCEPT ![r] = WithDecision(session, r, op[r])]
    /\ then' = [then EXCEPT ![r] = "remember"]
    /\ Goto(r, FirstWrite(op[r]))
    /\ UNCHANGED <<stored, expired, op, budget, etag>>

PersistAnswer(r) ==
    /\ pc[r] = "answer"
    /\ answers' = answers \cup {r}
    /\ Goto(r, "record")
    /\ UNCHANGED <<session, jobs, records, cases, expired, local, etag>>

PersistRecord(r) ==
    /\ pc[r] = "record"
    /\ records' = [records EXCEPT ![r] = RecordOf(doc[r], op[r])]
    /\ Goto(r, "save")
    /\ UNCHANGED <<session, jobs, answers, cases, expired, local, etag>>

Remember(r) ==
    /\ pc[r] = "remember"
    /\ cases' = Remembered(Latest(doc[r]), op[r], r)
    /\ Leave(r, "done")
    /\ UNCHANGED <<session, jobs, answers, records, expired, etag>>

ReadForDelete(r) ==
    /\ pc[r] = "read"
    /\ op[r] = "delete"
    /\ Active(session)
    /\ Goto(r, "drop")
    /\ UNCHANGED <<stored, expired, local, etag>>

Drop(r) ==
    /\ pc[r] = "drop"
    /\ session' = None
    /\ etag' = Superseded
    /\ Leave(r, "done")
    /\ UNCHANGED <<jobs, answers, records, cases, expired>>

-----------------------------------------------------------------------------
(***************************************************************************)
(* The environment.                                                        *)
(***************************************************************************)

\* A call to the store raises, or the container stops under the request.
\* Nothing a request keeps in memory survives it.
Abort(r) ==
    /\ Failures
    /\ InFlight(r)
    /\ Leave(r, "aborted")
    /\ etag' = [etag EXCEPT ![r] = "stale"]
    /\ UNCHANGED <<stored, expired>>

Expire ==
    /\ Expires
    /\ session # None
    /\ ~expired
    /\ expired' = TRUE
    /\ UNCHANGED <<stored, pc, local, etag>>

\* The store removes the document at the end of its retention, whoever is at
\* work on it: no request is asked, and the next save that finds no etag
\* writes the document anew.
Purge ==
    /\ expired
    /\ session # None
    /\ session' = None
    /\ etag' = Superseded
    /\ UNCHANGED <<jobs, answers, records, cases, expired, pc, local>>

\* Every request has been served.
Idle ==
    /\ \A r \in Requests : pc[r] \in Ended
    /\ UNCHANGED vars

Serve(r) ==
    \/ Refuse(r) \/ Revise(r) \/ Plan(r) \/ Authorize(r)
    \/ ReadEtag(r) \/ Swap(r) \/ SwapConflict(r)
    \/ Run(r) \/ RunHalfStored(r) \/ Recover(r) \/ Fold(r)
    \/ Repair(r) \/ Respond(r) \/ SessionLost(r)
    \/ Decide(r) \/ PersistAnswer(r) \/ PersistRecord(r) \/ Remember(r)
    \/ ReadForDelete(r) \/ Drop(r)

Next ==
    \/ \E r \in Requests : Begin(r) \/ Serve(r) \/ Abort(r)
    \/ Expire \/ Purge
    \/ Idle

\* A thread that has started keeps running; nobody has to send a request.
Spec == Init /\ [][Next]_vars /\ \A r \in Requests : WF_vars(Serve(r))

-----------------------------------------------------------------------------
(***************************************************************************)
(* Properties of any interleaving of requests.                             *)
(***************************************************************************)

\* Every variable keeps the type its Python counterpart declares.
TypeOK ==
    /\ session \in Sessions \cup {None}
    /\ jobs \in [JobIds -> Jobs \cup {None}]
    /\ answers \subseteq Requests
    /\ records \in [Requests -> Records \cup {None}]
    /\ cases \subseteq Cases
    /\ expired \in BOOLEAN
    /\ pc \in [Requests -> Labels]
    /\ op \in [Requests -> Operations]
    /\ budget \in [Requests -> 0..MaxRepairs]
    /\ doc \in [Requests -> Sessions \cup {None}]
    /\ then \in [Requests -> Continuations]
    /\ etag \in [Requests -> Etags]

\* A decision that a session shows has its workflow record, and an accepted
\* one its answer artifact: decide_result writes them before the session, and
\* no save that is lost, repeated or late can leave the decision alone.
DecisionRecorded ==
    session # None /\ session.decision # None =>
        LET by == session.decision.by IN
        /\ records[by] # None
        /\ records[by].kind = session.decision.kind
        /\ session.decision.kind = "accept" => by \in answers

\* Whatever writes overtake each other, an authorization in the session is
\* for its last draft, which validates: no execution is ever shown as
\* authorized for a draft that was superseded or never passed.
AuthorizesLatestDraft ==
    session # None /\ session.authorization # None =>
        /\ Executable(Latest(session))
        /\ session.authorization = Authorization(session)

\* The execution result in the session is the terminal job the store holds,
\* also when storing the job had to be recovered from, and a Candidate Answer
\* always comes from that result.
ResultAgreesWithJob ==
    session # None =>
        /\ session.result # None =>
              /\ jobs[session.result.job] # None
              /\ jobs[session.result.job].status = session.result.status
        /\ session.answer # None =>
              /\ session.result # None
              /\ session.result.status = "succeeded"
              /\ session.result.job = session.answer

(***************************************************************************)
(* Properties of a single writer.                                          *)
(***************************************************************************)

\* Requests that hold a copy of the document and will still write it back,
\* also when the store has removed the document meanwhile.  A save that read
\* an etag before the removal fails and writes nothing.
HoldsCopy(r) ==
    \/ pc[r] \in {"plan", "authorize", "answer", "record", "save"}
    \/ pc[r] = "swap" /\ etag[r] = "absent"

\* The session as its reviewer may still meet it: the stored document or,
\* between its removal by the store and the save that writes it anew, the
\* copy the running request is about to save.
Living ==
    IF session # None THEN session
    ELSE IF \E r \in Requests : HoldsCopy(r)
           THEN doc[CHOOSE r \in Requests : HoldsCopy(r)]
           ELSE None

\* What the session shows as the result is the run of its last draft under
\* the authorization next to it, so a Candidate Answer that may be decided
\* can also be persisted.
ResultOfLatestDraft ==
    session # None /\ session.result # None =>
        LET job == jobs[session.result.job] IN
        /\ session.authorization = [version |-> job.version, draft |-> job.draft]
        /\ MayDecide(session) => Persistable(session)

\* A workflow record vouches for a draft that really ran: its execution is a
\* succeeded job of the very draft version the record describes.
RecordsWhatRan ==
    \A r \in Requests :
        records[r] # None =>
            jobs[records[r].job] = [version |-> records[r].version,
                                    draft |-> records[r].draft,
                                    status |-> "succeeded"]

\* A workflow enters the case base only through a recorded acceptance of an
\* execution of that workflow.
CasesWereAccepted ==
    \A c \in cases :
        c.by # None =>
            /\ records[c.by] # None
            /\ records[c.by].kind = "accept"
            /\ records[c.by].draft = c.draft
            /\ jobs[records[c.by].job].draft = c.draft

\* Automatic repair never runs away: no more than MaxRepairs drafts in a row
\* are repairs.
RepairsBounded ==
    session # None =>
        \A i \in 1 .. Len(session.drafts) :
            i + MaxRepairs <= Len(session.drafts) =>
                \E k \in i .. (i + MaxRepairs) :
                    session.drafts[k].trigger # "auto_repair"

\* A repair is only ever added to a session that shows a failed execution or
\* a rejected answer of the draft it replaces, also when the session expires
\* while the repair is planned and is written anew.
RepairAnswersFailure ==
    [][Living' # None
       /\ Latest(Living').trigger = "auto_repair"
       /\ (Living = None \/ Living.drafts # Living'.drafts)
       => /\ Living # None
          /\ Living.result # None
          /\ Living.answer = None
          /\ Len(Living'.drafts) = Len(Living.drafts) + 1]_Living

\* "One immutable post-execution decision": as long as the session exists, a
\* decision once stored is never replaced and never withdrawn.
DecisionImmutable ==
    [][session # None /\ session' # None /\ session.decision # None
       => session'.decision = session.decision]_session

(***************************************************************************)
(* The session implements the review protocol.                             *)
(***************************************************************************)

Revision == IF Living = None THEN 0 ELSE Len(Living.drafts)

StageOf(s) ==
    IF s.decision # None
      THEN IF s.decision.kind = "accept" THEN "accepted" ELSE "rejected"
      ELSE IF s.result # None
             THEN IF s.answer # None THEN "answered" ELSE "failed"
             ELSE IF s.authorization # None THEN "running" ELSE "drafted"

Stage == IF Living = None THEN "absent" ELSE StageOf(Living)

Protocol == INSTANCE ReviewProtocol WITH stage <- Stage, revision <- Revision

\* The life of the session, read as stage and revision of the draft under
\* review, is a life ReviewProtocol allows.  That the store may remove the
\* document under a running request, and the request's next save write it
\* anew, never takes the review to another stage: the session goes on where
\* it stood or is gone.
ImplementsProtocol == Protocol!Spec

(***************************************************************************)
(* Liveness.                                                               *)
(***************************************************************************)

Interrupted == \E r \in Requests : pc[r] = "aborted"

\* A session that shows an authorized execution does not show it as running
\* for ever: its outcome is folded in, unless a request was interrupted.
ExecutionReported ==
    session # None /\ session.authorization # None /\ session.result = None
        ~> session = None \/ session.result # None \/ Interrupted

\* A case whose replay the reviewer rejects leaves the case base, unless a
\* request was interrupted.
RejectedReplayForgotten ==
    \A c \in Cases :
        session # None /\ session.decision # None
        /\ session.decision.kind = "reject" /\ Latest(session).replays = c
            ~> c \notin cases \/ Interrupted
=============================================================================
