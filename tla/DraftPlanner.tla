----------------------------- MODULE DraftPlanner -----------------------------
(***************************************************************************)
(* Planning, the drafts it leaves in the object store, and the case base,  *)
(* across Question Sessions                                                *)
(* (app/api/draft_planning.py, geoqa_agent/case_base.py, the draft         *)
(* repository of geoqa_agent/workflow_models.py).                          *)
(*                                                                         *)
(* Drafts are stored under the hash of their content and cases under the   *)
(* structure of the task they solve, so sessions of different owners meet  *)
(* in both.  Each session runs one planning at a time (QuestionSession     *)
(* models what happens within one session); an action is a language model  *)
(* call or a call to the object store.                                     *)
(***************************************************************************)
EXTENDS Naturals, FiniteSets

CONSTANTS
    Sessions,            \* the Question Sessions
    Tasks,               \* the task structures a question may be taken for
    Workflows,           \* the concrete workflows, by content
    Versions,            \* the Catalog versions that may be published
    Unfit,               \* <<workflow, version>> pairs the validator fails
    MaxInterpretations,  \* MAX_INTERPRETATION_ATTEMPTS
    MaxProposals,        \* MAX_PLANNING_ATTEMPTS
    Retention,           \* SESSION_RETENTION, in ticks of the clock
    Horizon,             \* the model's clock stops here
    Failures,            \* storage calls may raise and the container may stop
    SlowRequests,        \* the clock may tick under a running request
    None                 \* Python's None

ASSUME UnfitAssumption == Unfit \subseteq Workflows \X Versions
ASSUME AttemptsAssumption ==
    MaxInterpretations \in Nat \ {0} /\ MaxProposals \in Nat \ {0}
ASSUME ClockAssumption == Retention \in Nat \ {0} /\ Horizon \in Nat
ASSUME SwitchAssumption == {Failures, SlowRequests} \subseteq BOOLEAN

VARIABLES
    now,        \* the clock
    current,    \* the Catalog version the pointer names
    stored,     \* the drafts in the object store
    expiry,     \* when the store drops a draft
    cases,      \* the case base, by the session whose acceptance made the case
    pc,         \* where each session's planning stands
    trigger,    \* whether it plans a submission or a revision
    created,    \* when the session was created
    pinned,     \* the Catalog version this planning reads
    task,       \* the task its interpretation arrived at
    tries,      \* interpretation attempts made, while it interprets
    proposals,  \* proposals asked of the planning model
    draft,      \* the draft it has stored and is judging
    latest,     \* the last draft version in the session document
    answered,   \* the session shows a Candidate Answer for it
    decision    \* the reviewer's decision

planning == <<trigger, pinned, task, tries, proposals, draft>>
document == <<created, latest, answered, decision>>
vars == <<now, current, stored, expiry, cases, pc, planning, document>>

\* What identifies a draft: its task, its workflow, the Catalog version it is
\* bound to, and the case its provenance names (by the session that made it).
Drafts == [task : Tasks, workflow : Workflows, catalog : Versions,
           origin : Sessions \cup {None}]
Cases == [task : Tasks, workflow : Workflows, at : Nat]
Decisions == [kind : {"accept", "reject"}, at : Nat]

Never == None

Planning == {"interpret", "match", "propose", "retain", "save"}
Working == Planning \cup {"execute", "remember"}
Labels == {"idle", "review", "closed", "aborted"} \cup Working

ASSUME NoneAssumption ==
    /\ None \notin Sessions \cup Tasks \cup Versions \cup Drafts \cup Nat
    /\ None \notin Cases \cup Decisions

-----------------------------------------------------------------------------

Deadline(s) == created[s] + Retention

Active(s) == created[s] # None /\ now < Deadline(s)

\* validation.status # "fail"
Passes(d) == <<d.workflow, d.catalog>> \notin Unfit

Goto(s, label) == pc' = [pc EXCEPT ![s] = label]

\* Mutant: the case of any task is replayed.
MatchesAnyTask(s) == {q \in Sessions : cases[q] # None}

\* The cases whose layers, quantities and periods are those of the task.
Matches(s) == {q \in Sessions : cases[q] # None /\ cases[q].task = task[s]}

\* exact_match lists them by acceptance and takes the newest.
Newest(s) == {q \in Matches(s) : \A p \in Matches(s) : cases[p].at <= cases[q].at}

Init ==
    /\ now = 0
    /\ current \in Versions
    /\ stored = {}
    /\ expiry = [d \in Drafts |-> Never]
    /\ cases = [s \in Sessions |-> None]
    /\ pc = [s \in Sessions |-> "idle"]
    /\ trigger = [s \in Sessions |-> "submission"]
    /\ created = [s \in Sessions |-> None]
    /\ pinned = [s \in Sessions |-> None]
    /\ task = [s \in Sessions |-> None]
    /\ tries = [s \in Sessions |-> 0]
    /\ proposals = [s \in Sessions |-> 0]
    /\ draft = [s \in Sessions |-> None]
    /\ latest = [s \in Sessions |-> None]
    /\ answered = [s \in Sessions |-> FALSE]
    /\ decision = [s \in Sessions |-> None]

\* Mutant: an attempt is not counted.
NotCounted(n) == n

\* One attempt more.
Counted(n) == n + 1

\* plan reads the Catalog pointer once and asks for a first interpretation.
StartPlanning(s) ==
    /\ pinned' = [pinned EXCEPT ![s] = current]
    /\ tries' = [tries EXCEPT ![s] = 1]
    /\ Goto(s, "interpret")

\* Whatever planning keeps in memory is gone once it is over.
Forget(s) ==
    /\ pinned' = [pinned EXCEPT ![s] = None]
    /\ task' = [task EXCEPT ![s] = None]
    /\ tries' = [tries EXCEPT ![s] = 0]
    /\ proposals' = [proposals EXCEPT ![s] = 0]
    /\ draft' = [draft EXCEPT ![s] = None]
    /\ trigger' = [trigger EXCEPT ![s] = "submission"]

Submit(s) ==
    /\ pc[s] = "idle"
    /\ created' = [created EXCEPT ![s] = now]
    /\ StartPlanning(s)
    /\ UNCHANGED <<now, current, stored, expiry, cases, trigger, task,
                   proposals, draft, latest, answered, decision>>

\* An edit, a regeneration or an automatic repair of an open session.
Revise(s) ==
    /\ pc[s] = "review"
    /\ Active(s)
    /\ trigger' = [trigger EXCEPT ![s] = "revision"]
    /\ StartPlanning(s)
    /\ UNCHANGED <<now, current, stored, expiry, cases, task, proposals,
                   draft, document>>

\* Every role is grounded.  Only a submission looks for a case to replay.
Interpret(s) ==
    /\ pc[s] = "interpret"
    /\ \E t \in Tasks : task' = [task EXCEPT ![s] = t]
    /\ tries' = [tries EXCEPT ![s] = 0]
    /\ Goto(s, IF trigger[s] = "submission" THEN "match" ELSE "propose")
    /\ UNCHANGED <<now, current, stored, expiry, cases, trigger, pinned,
                   proposals, draft, document>>

MayInterpretAgain(s) == tries[s] < MaxInterpretations

\* A failure that diagnostics may repair is sent back to the model.
Reinterpret(s) ==
    /\ pc[s] = "interpret"
    /\ MayInterpretAgain(s)
    /\ tries' = [tries EXCEPT ![s] = Counted(tries[s])]
    /\ UNCHANGED <<now, current, stored, expiry, cases, pc, trigger, pinned,
                   task, proposals, draft, document>>

\* The question is unsupported: a draft version without a draft.
GiveUp(s) ==
    /\ pc[s] = "interpret"
    /\ Goto(s, "save")
    /\ tries' = [tries EXCEPT ![s] = 0]
    /\ UNCHANGED <<now, current, stored, expiry, cases, trigger, pinned, task,
                   proposals, draft, document>>

\* retrieve finds an exact match, instantiates it on the pinned Catalog and
\* stores the draft.  put_immutable keeps what is there under this id, and its
\* expiry with it.  (What happens between reading the cases and storing the
\* draft could as well have happened before or after both.)
Match(s) ==
    /\ pc[s] = "match"
    /\ \E q \in Newest(s) :
          LET d == [task |-> task[s], workflow |-> cases[q].workflow,
                    catalog |-> pinned[s], origin |-> q] IN
          /\ draft' = [draft EXCEPT ![s] = d]
          /\ stored' = stored \cup {d}
    /\ Goto(s, "retain")
    /\ UNCHANGED <<now, current, expiry, cases, trigger, pinned, task, tries,
                   proposals, document>>

NoMatch(s) ==
    /\ pc[s] = "match"
    /\ Matches(s) = {}
    /\ Goto(s, "propose")
    /\ UNCHANGED <<now, current, stored, expiry, cases, planning, document>>

\* The planning model composes any workflow for the task; propose stores it.
Propose(s) ==
    /\ pc[s] = "propose"
    /\ \E w \in Workflows :
          LET d == [task |-> task[s], workflow |-> w,
                    catalog |-> pinned[s], origin |-> None] IN
          /\ draft' = [draft EXCEPT ![s] = d]
          /\ stored' = stored \cup {d}
    /\ proposals' = [proposals EXCEPT ![s] = Counted(proposals[s])]
    /\ Goto(s, "retain")
    /\ UNCHANGED <<now, current, expiry, cases, trigger, pinned, task, tries,
                   document>>

\* The deadline handed to retain_until.  It replaces the one that another
\* session has set for the same draft, be that an earlier or a later one.
RetainUntil(s) == Deadline(s)

\* A replay that fails falls back to composition, a proposal that fails is
\* repaired while attempts last.
MayProposeAgain(s) ==
    /\ ~Passes(draft[s])
    /\ draft[s].origin = None => proposals[s] < MaxProposals

\* _validate: the validator judges the draft, then its retention is set.
Retain(s) ==
    /\ pc[s] = "retain"
    /\ draft[s] \in stored
    /\ expiry' = [expiry EXCEPT ![draft[s]] = RetainUntil(s)]
    /\ IF MayProposeAgain(s)
         THEN Goto(s, "propose") /\ draft' = [draft EXCEPT ![s] = None]
         ELSE Goto(s, "save") /\ UNCHANGED draft
    /\ UNCHANGED <<now, current, stored, cases, trigger, pinned, task, tries,
                   proposals, document>>

\* Another session's deadline took the draft away after it was stored.
RetainMissing(s) ==
    /\ pc[s] = "retain"
    /\ draft[s] \notin stored
    /\ Goto(s, IF trigger[s] = "submission" THEN "aborted" ELSE "review")
    /\ Forget(s)
    /\ UNCHANGED <<now, current, stored, expiry, cases, document>>

\* Mutant: whatever was planned is executed.
ExecutableAlways(d) == d # None

Executable(d) == d # None /\ Passes(d)

\* The draft version enters the session document.
Save(s) ==
    /\ pc[s] = "save"
    /\ latest' = [latest EXCEPT ![s] = draft[s]]
    /\ answered' = [answered EXCEPT ![s] = FALSE]
    /\ Goto(s, IF Executable(draft[s]) THEN "execute" ELSE "review")
    /\ Forget(s)
    /\ UNCHANGED <<now, current, stored, expiry, cases, created, decision>>

\* The worker reads the draft back from the store; a run that fails leaves
\* the session without an answer.
Execute(s) ==
    /\ pc[s] = "execute"
    /\ \E answer \in BOOLEAN :
          /\ answer => latest[s] \in stored
          /\ answered' = [answered EXCEPT ![s] = answer]
    /\ Goto(s, "review")
    /\ UNCHANGED <<now, current, stored, expiry, cases, planning,
                   created, latest, decision>>

\* The decision is in the session document; the case base follows.
Decide(s) ==
    /\ pc[s] = "review"
    /\ Active(s)
    /\ answered[s]
    /\ \E k \in {"accept", "reject"} :
          decision' = [decision EXCEPT ![s] = [kind |-> k, at |-> now]]
    /\ Goto(s, "remember")
    /\ UNCHANGED <<now, current, stored, expiry, cases, planning,
                   created, latest, answered>>

CaseOf(s) == [task |-> latest[s].task, workflow |-> latest[s].workflow,
              at |-> decision[s].at]

\* Mutant: an accepted replay is retained under its case's key again.
RetainedAgain(s) ==
    [cases EXCEPT ![IF latest[s].origin = None THEN s ELSE latest[s].origin] = CaseOf(s)]

\* An accepted composition becomes a case; an accepted replay "already exists".
Retained(s) ==
    IF latest[s].origin = None THEN [cases EXCEPT ![s] = CaseOf(s)] ELSE cases

\* Mutant: rejecting a replay removes every case of its task.
RemovedByTask(s) ==
    [q \in Sessions |-> IF cases[q] # None /\ cases[q].task = latest[s].task
                          THEN None ELSE cases[q]]

\* A rejected replay is no longer a case.
Removed(s) ==
    IF latest[s].origin = None THEN cases ELSE [cases EXCEPT ![latest[s].origin] = None]

RememberAccepted(s) ==
    /\ pc[s] = "remember"
    /\ decision[s].kind = "accept"
    /\ latest[s].origin = None => latest[s] \in stored
    /\ cases' = Retained(s)
    /\ Goto(s, "closed")
    /\ UNCHANGED <<now, current, stored, expiry, planning, document>>

RememberRejected(s) ==
    /\ pc[s] = "remember"
    /\ decision[s].kind = "reject"
    /\ cases' = Removed(s)
    /\ Goto(s, "closed")
    /\ UNCHANGED <<now, current, stored, expiry, planning, document>>

\* LookupError: the accepted draft is no longer stored.
RememberMissing(s) ==
    /\ pc[s] = "remember"
    /\ decision[s].kind = "accept"
    /\ latest[s].origin = None
    /\ latest[s] \notin stored
    /\ Goto(s, "aborted")
    /\ UNCHANGED <<now, current, stored, expiry, cases, planning, document>>

-----------------------------------------------------------------------------

\* A call raises or the container stops.  The session document stays as it
\* was last saved; a submission has none yet, a decision is final.
Abort(s) ==
    /\ Failures
    /\ pc[s] \in Working
    /\ Goto(s, IF \/ pc[s] = "remember"
                    \/ /\ pc[s] \in Planning
                       /\ trigger[s] = "submission"
                 THEN "aborted"
                 ELSE "review")
    /\ Forget(s)
    /\ UNCHANGED <<now, current, stored, expiry, cases, document>>

Tick ==
    /\ now < Horizon
    /\ SlowRequests \/ \A s \in Sessions : pc[s] \notin Working
    /\ now' = now + 1
    /\ UNCHANGED <<current, stored, expiry, cases, pc, planning, document>>

\* The store drops a draft whose expiry has come.
Purge(d) ==
    /\ d \in stored
    /\ expiry[d] # Never
    /\ expiry[d] <= now
    /\ stored' = stored \ {d}
    /\ expiry' = [expiry EXCEPT ![d] = Never]
    /\ UNCHANGED <<now, current, cases, pc, planning, document>>

\* An administrator publishes another Catalog version.
Publish(v) ==
    /\ current' = v
    /\ v # current
    /\ UNCHANGED <<now, stored, expiry, cases, pc, planning, document>>

\* The requests of a session's own thread.
Work(s) ==
    \/ Interpret(s) \/ Reinterpret(s) \/ GiveUp(s)
    \/ Match(s) \/ NoMatch(s) \/ Propose(s)
    \/ Retain(s) \/ RetainMissing(s) \/ Save(s) \/ Execute(s)
    \/ RememberAccepted(s) \/ RememberRejected(s) \/ RememberMissing(s)

Next ==
    \/ \E s \in Sessions : Submit(s) \/ Revise(s) \/ Work(s) \/ Decide(s) \/ Abort(s)
    \/ Tick
    \/ \E d \in stored : Purge(d)
    \/ \E v \in Versions : Publish(v)

\* A thread that plans or remembers keeps running.
Spec == Init /\ [][Next]_vars /\ \A s \in Sessions : WF_vars(Work(s))

-----------------------------------------------------------------------------

\* Every variable keeps the type its Python counterpart declares.
TypeOK ==
    /\ now \in Nat
    /\ current \in Versions
    /\ stored \subseteq Drafts
    /\ expiry \in [Drafts -> Nat \cup {Never}]
    /\ cases \in [Sessions -> Cases \cup {None}]
    /\ pc \in [Sessions -> Labels]
    /\ trigger \in [Sessions -> {"submission", "revision"}]
    /\ created \in [Sessions -> Nat \cup {None}]
    /\ pinned \in [Sessions -> Versions \cup {None}]
    /\ task \in [Sessions -> Tasks \cup {None}]
    /\ tries \in [Sessions -> 0 .. MaxInterpretations]
    /\ proposals \in [Sessions -> 0 .. MaxProposals]
    /\ draft \in [Sessions -> Drafts \cup {None}]
    /\ latest \in [Sessions -> Drafts \cup {None}]
    /\ answered \in [Sessions -> BOOLEAN]
    /\ decision \in [Sessions -> Decisions \cup {None}]

\* A replayed workflow is one that a reviewer accepted in another session for
\* the same task, however cases were retained and removed in between, and it
\* was validated again for the Catalog it replays on before it was executed.
ReplaysWereAccepted ==
    \A s \in Sessions :
        latest[s] # None /\ latest[s].origin # None =>
            LET q == latest[s].origin IN
            /\ decision[q] # None
            /\ decision[q].kind = "accept"
            /\ latest[q].task = latest[s].task
            /\ latest[q].workflow = latest[s].workflow
            /\ pc[s] = "execute" => Passes(latest[s])

\* Nothing unvalidated reaches a reviewer: an answer, a case and the draft a
\* worker is about to run all passed the validator.
OnlyValidatedRuns ==
    \A s \in Sessions :
        pc[s] = "execute" \/ answered[s] \/ cases[s] # None =>
            latest[s] # None /\ Passes(latest[s])

\* A case whose replay was rejected stays out of the case base, also when
\* sessions that replayed it before are accepted later.
RejectedCaseStaysOut ==
    \A s \in Sessions :
        /\ pc[s] = "closed"
        /\ decision[s].kind = "reject"
        /\ latest[s].origin # None
        => cases[latest[s].origin] = None

\* An accepted composition stays in the case base until the replay of this
\* very case is rejected.
CaseKeptUntilRejected ==
    \A s \in Sessions :
        /\ pc[s] = "closed"
        /\ decision[s].kind = "accept"
        /\ latest[s].origin = None
        => \/ cases[s] # None
           \/ \E q \in Sessions :
                 /\ decision[q] # None
                 /\ decision[q].kind = "reject"
                 /\ latest[q].origin = s

\* Planning comes to an end, however often the models fail.
PlanningEnds ==
    \A s \in Sessions : pc[s] \in Planning ~> pc[s] \notin Planning
=============================================================================
