-------------------------- MODULE DraftPlannerProofs --------------------------
(***************************************************************************)
(* Proofs about DraftPlanner for any sessions, tasks, workflows and        *)
(* Catalog versions, any validator, any attempt limits and any clock.      *)
(***************************************************************************)
EXTENDS DraftPlanner, TLAPS

(***************************************************************************)
(* The inductive invariant.                                                *)
(***************************************************************************)

\* The draft d replays what session q composed and its reviewer accepted; the
\* session is closed, so this does not change any more.
Accepted(q, d) ==
    /\ pc[q] = "closed"
    /\ decision[q].kind = "accept"
    /\ latest[q] # None
    /\ latest[q].origin = None
    /\ latest[q].task = d.task
    /\ latest[q].workflow = d.workflow

\* Where a planning stands and what it holds in memory.
PlanningOK(s) ==
    /\ pc[s] = "idle" <=> created[s] = None
    /\ pc[s] = "idle" => latest[s] = None /\ ~answered[s]
    /\ pc[s] \in Planning => pinned[s] # None
    /\ pc[s] \in {"match", "propose", "retain"} => task[s] # None
    /\ pc[s] \notin {"propose", "retain", "save"} => proposals[s] = 0
    /\ pc[s] = "propose" => proposals[s] < MaxProposals
    /\ draft[s] # None => pc[s] \in {"retain", "save"}
    /\ pc[s] = "retain" =>
          /\ draft[s] # None
          /\ draft[s].origin # None => proposals[s] = 0

\* What a planned, an executed and a reviewed draft version can rely on.
DocumentOK(s) ==
    /\ draft[s] # None /\ draft[s].origin # None =>
          /\ Accepted(draft[s].origin, draft[s])
          /\ pc[s] = "save" => Passes(draft[s])
    /\ latest[s] # None /\ latest[s].origin # None =>
          Accepted(latest[s].origin, latest[s])
    /\ pc[s] \in {"execute", "remember", "closed"} \/ answered[s] =>
          latest[s] # None /\ Passes(latest[s])
    /\ pc[s] \in {"remember", "closed"} => decision[s] # None
    /\ decision[s] # None =>
          /\ pc[s] \in {"remember", "closed", "aborted"}
          /\ latest[s] # None

\* The case base holds what closed sessions accepted, until it is rejected.
CaseOK(s) ==
    /\ cases[s] # None =>
          /\ Accepted(s, latest[s])
          /\ cases[s].task = latest[s].task
          /\ cases[s].workflow = latest[s].workflow
    /\ pc[s] = "closed" /\ decision[s].kind = "reject" /\ latest[s].origin # None
          => cases[latest[s].origin] = None
    /\ pc[s] = "closed" /\ decision[s].kind = "accept" /\ latest[s].origin = None
          => \/ cases[s] # None
             \/ \E q \in Sessions :
                   /\ decision[q] # None
                   /\ decision[q].kind = "reject"
                   /\ latest[q].origin = s

Inv ==
    /\ TypeOK
    /\ \A s \in Sessions : PlanningOK(s) /\ DocumentOK(s) /\ CaseOK(s)

-----------------------------------------------------------------------------

\* A record with a draft's fields is a draft.
LEMMA DraftType ==
    ASSUME NEW t \in Tasks, NEW w \in Workflows, NEW v \in Versions,
           NEW o \in Sessions \cup {None}
    PROVE  [task |-> t, workflow |-> w, catalog |-> v, origin |-> o] \in Drafts
  BY DEF Drafts

\* A draft's fields have their types, and a draft is not None.
LEMMA DraftFields ==
    ASSUME NEW d \in Drafts
    PROVE  /\ d # None
           /\ d.task \in Tasks /\ d.workflow \in Workflows
           /\ d.catalog \in Versions /\ d.origin \in Sessions \cup {None}
  BY NoneAssumption DEF Drafts

\* A case's fields have their types.
LEMMA CaseFields ==
    ASSUME NEW c \in Cases
    PROVE  /\ c # None
           /\ c.task \in Tasks /\ c.workflow \in Workflows /\ c.at \in Nat
  BY NoneAssumption DEF Cases

\* Match stores the instance of a case that the case base holds.
LEMMA MatchedDraft ==
    ASSUME Inv, NEW s \in Sessions, Match(s)
    PROVE  /\ pc[s] = "match"
           /\ pc' = [pc EXCEPT ![s] = "retain"]
           /\ UNCHANGED <<now, current, expiry, cases, trigger, pinned, task,
                          tries, proposals, document>>
           /\ \E d \in Drafts, q \in Sessions :
              /\ draft' = [draft EXCEPT ![s] = d]
              /\ stored' = stored \cup {d}
              /\ cases[q] # None
              /\ d.origin = q
              /\ d.task = cases[q].task
              /\ d.workflow = cases[q].workflow
<1>1. PICK q \in Sessions :
         /\ cases[q] # None
         /\ cases[q].task = task[s]
         /\ draft' = [draft EXCEPT ![s] =
                [task |-> task[s], workflow |-> cases[q].workflow,
                 catalog |-> pinned[s], origin |-> q]]
         /\ stored' = stored \cup
                {[task |-> task[s], workflow |-> cases[q].workflow,
                  catalog |-> pinned[s], origin |-> q]}
  BY DEF Match, Newest, Matches
<1>2. task[s] \in Tasks /\ pinned[s] \in Versions
  BY DEF Inv, TypeOK, Match, PlanningOK, Planning
<1>3. cases[q].workflow \in Workflows
  BY <1>1, CaseFields DEF Inv, TypeOK
<1> DEFINE d == [task |-> task[s], workflow |-> cases[q].workflow,
                 catalog |-> pinned[s], origin |-> q]
<1>4. d \in Drafts
  BY <1>2, <1>3, DraftType
<1>5. d.origin = q /\ d.task = cases[q].task /\ d.workflow = cases[q].workflow
  BY <1>1
<1>6. draft' = [draft EXCEPT ![s] = d] /\ stored' = stored \cup {d}
  BY <1>1
<1>7. /\ pc[s] = "match"
      /\ pc' = [pc EXCEPT ![s] = "retain"]
      /\ UNCHANGED <<now, current, expiry, cases, trigger, pinned, task,
                     tries, proposals, document>>
  BY DEF Match, Goto
<1> HIDE DEF d
<1> QED
  BY <1>1, <1>4, <1>5, <1>6, <1>7

\* Propose stores a draft of its own.
LEMMA ProposedDraft ==
    ASSUME Inv, NEW s \in Sessions, Propose(s)
    PROVE  /\ pc[s] = "propose"
           /\ pc' = [pc EXCEPT ![s] = "retain"]
           /\ proposals' = [proposals EXCEPT ![s] = proposals[s] + 1]
           /\ UNCHANGED <<now, current, expiry, cases, trigger, pinned, task,
                          tries, document>>
           /\ \E d \in Drafts :
              /\ draft' = [draft EXCEPT ![s] = d]
              /\ stored' = stored \cup {d}
              /\ d.origin = None
<1>1. PICK w \in Workflows :
         /\ draft' = [draft EXCEPT ![s] =
                [task |-> task[s], workflow |-> w,
                 catalog |-> pinned[s], origin |-> None]]
         /\ stored' = stored \cup
                {[task |-> task[s], workflow |-> w,
                  catalog |-> pinned[s], origin |-> None]}
  BY DEF Propose
<1>2. task[s] \in Tasks /\ pinned[s] \in Versions
  BY DEF Inv, TypeOK, Propose, PlanningOK, Planning
<1> DEFINE d == [task |-> task[s], workflow |-> w,
                 catalog |-> pinned[s], origin |-> None]
<1>3. d \in Drafts
  BY <1>2, DraftType
<1>4. d.origin = None /\ draft' = [draft EXCEPT ![s] = d]
                     /\ stored' = stored \cup {d}
  BY <1>1
<1>5. /\ pc[s] = "propose"
      /\ pc' = [pc EXCEPT ![s] = "retain"]
      /\ proposals' = [proposals EXCEPT ![s] = proposals[s] + 1]
      /\ UNCHANGED <<now, current, expiry, cases, trigger, pinned, task,
                     tries, document>>
  BY DEF Propose, Goto, Counted
<1> HIDE DEF d
<1> QED
  BY <1>3, <1>4, <1>5

\* Every step keeps the variables in their types.
LEMMA TypeStep == Inv /\ [Next]_vars => TypeOK'
<1> SUFFICES ASSUME Inv, [Next]_vars PROVE TypeOK'
  OBVIOUS
<1> USE DEF Labels, Working, Planning, planning, document, PlanningOK
<1>1. ASSUME NEW s \in Sessions, Submit(s) PROVE TypeOK'
  BY <1>1, NoneAssumption, AttemptsAssumption, ClockAssumption DEF Inv, TypeOK, Submit, StartPlanning, Goto
<1>2. ASSUME NEW s \in Sessions, Revise(s) PROVE TypeOK'
  BY <1>2, NoneAssumption, AttemptsAssumption, ClockAssumption DEF Inv, TypeOK, Revise, StartPlanning, Goto
<1>3. ASSUME NEW s \in Sessions, Interpret(s) PROVE TypeOK'
  BY <1>3, NoneAssumption, AttemptsAssumption, ClockAssumption DEF Inv, TypeOK, Interpret, Goto
<1>4. ASSUME NEW s \in Sessions, Reinterpret(s) PROVE TypeOK'
  BY <1>4, NoneAssumption, AttemptsAssumption, ClockAssumption DEF Inv, TypeOK, Reinterpret, MayInterpretAgain, Counted
<1>5. ASSUME NEW s \in Sessions, GiveUp(s) PROVE TypeOK'
  BY <1>5, NoneAssumption, AttemptsAssumption, ClockAssumption DEF Inv, TypeOK, GiveUp, Goto
<1>6. ASSUME NEW s \in Sessions, Match(s) PROVE TypeOK'
  BY <1>6, MatchedDraft DEF Inv, TypeOK
<1>7. ASSUME NEW s \in Sessions, NoMatch(s) PROVE TypeOK'
  BY <1>7, NoneAssumption, AttemptsAssumption, ClockAssumption DEF Inv, TypeOK, NoMatch, Goto
<1>8. ASSUME NEW s \in Sessions, Propose(s) PROVE TypeOK'
  <2>1. proposals[s] + 1 \in 0 .. MaxProposals
    BY <1>8, AttemptsAssumption DEF Inv, TypeOK, Propose
  <2> QED
    BY <1>8, <2>1, ProposedDraft DEF Inv, TypeOK
<1>9. ASSUME NEW s \in Sessions, Retain(s) PROVE TypeOK'
  BY <1>9, NoneAssumption, AttemptsAssumption, ClockAssumption DEF Inv, TypeOK, Retain, Goto, RetainUntil, Deadline, MayProposeAgain
<1>10. ASSUME NEW s \in Sessions, RetainMissing(s) PROVE TypeOK'
  BY <1>10, NoneAssumption, AttemptsAssumption, ClockAssumption DEF Inv, TypeOK, RetainMissing, Goto, Forget
<1>11. ASSUME NEW s \in Sessions, Save(s) PROVE TypeOK'
  BY <1>11, NoneAssumption, AttemptsAssumption, ClockAssumption DEF Inv, TypeOK, Save, Goto, Forget, Executable
<1>12. ASSUME NEW s \in Sessions, Execute(s) PROVE TypeOK'
  BY <1>12, NoneAssumption, AttemptsAssumption, ClockAssumption DEF Inv, TypeOK, Execute, Goto
<1>13. ASSUME NEW s \in Sessions, RememberAccepted(s) PROVE TypeOK'
  <2>1. latest[s] \in Drafts /\ decision[s] \in Decisions
    BY <1>13 DEF Inv, TypeOK, RememberAccepted, DocumentOK
  <2>2. CaseOf(s) \in Cases
    BY <2>1, DraftFields DEF CaseOf, Cases, Decisions
  <2> QED
    BY <1>13, <2>2 DEF Inv, TypeOK, RememberAccepted, Goto, Retained
<1>14. ASSUME NEW s \in Sessions, RememberRejected(s) PROVE TypeOK'
  BY <1>14, NoneAssumption, AttemptsAssumption, ClockAssumption DEF Inv, TypeOK, RememberRejected, Goto, Removed
<1>15. ASSUME NEW s \in Sessions, RememberMissing(s) PROVE TypeOK'
  BY <1>15, NoneAssumption, AttemptsAssumption, ClockAssumption DEF Inv, TypeOK, RememberMissing, Goto
<1>16. ASSUME NEW s \in Sessions, Decide(s) PROVE TypeOK'
  <2>1. \A k \in {"accept", "reject"} : [kind |-> k, at |-> now] \in Decisions
    BY DEF Inv, TypeOK, Decisions
  <2> QED
    BY <1>16, <2>1 DEF Inv, TypeOK, Decide, Goto
<1>17. ASSUME NEW s \in Sessions, Abort(s) PROVE TypeOK'
  BY <1>17, NoneAssumption, AttemptsAssumption, ClockAssumption DEF Inv, TypeOK, Abort, Goto, Forget
<1>18. CASE Tick
  BY <1>18, ClockAssumption DEF Inv, TypeOK, Tick
<1>19. ASSUME NEW d \in stored, Purge(d) PROVE TypeOK'
  BY <1>19 DEF Inv, TypeOK, Purge
<1>20. ASSUME NEW v \in Versions, Publish(v) PROVE TypeOK'
  BY <1>20 DEF Inv, TypeOK, Publish
<1>21. CASE UNCHANGED vars
  BY <1>21 DEF Inv, TypeOK, vars
<1> QED
  BY <1>1, <1>2, <1>3, <1>4, <1>5, <1>6, <1>7, <1>8, <1>9, <1>10, <1>11, <1>12,
     <1>13, <1>14, <1>15, <1>16, <1>17, <1>18, <1>19, <1>20, <1>21 DEF Next, Work

\* Every step keeps each planning where its memory says it stands.
LEMMA PlanningStep == Inv /\ [Next]_vars => \A q \in Sessions : PlanningOK(q)'
<1> SUFFICES ASSUME Inv, [Next]_vars, NEW q \in Sessions PROVE PlanningOK(q)'
  OBVIOUS
<1> USE DEF Inv, TypeOK, PlanningOK, Labels, Working, Planning, planning, document
<1>1. ASSUME NEW s \in Sessions, Submit(s) PROVE PlanningOK(q)'
  BY <1>1, NoneAssumption, AttemptsAssumption, ClockAssumption, DraftFields DEF Submit, StartPlanning, Goto
<1>2. ASSUME NEW s \in Sessions, Revise(s) PROVE PlanningOK(q)'
  BY <1>2, NoneAssumption, AttemptsAssumption, ClockAssumption, DraftFields DEF Revise, StartPlanning, Goto
<1>3. ASSUME NEW s \in Sessions, Interpret(s) PROVE PlanningOK(q)'
  BY <1>3, NoneAssumption, AttemptsAssumption, ClockAssumption, DraftFields DEF Interpret, Goto
<1>4. ASSUME NEW s \in Sessions, Reinterpret(s) PROVE PlanningOK(q)'
  BY <1>4, NoneAssumption, AttemptsAssumption, ClockAssumption, DraftFields DEF Reinterpret, MayInterpretAgain, Counted
<1>5. ASSUME NEW s \in Sessions, GiveUp(s) PROVE PlanningOK(q)'
  BY <1>5, NoneAssumption, AttemptsAssumption, ClockAssumption, DraftFields DEF GiveUp, Goto
<1>6. ASSUME NEW s \in Sessions, Match(s) PROVE PlanningOK(q)'
  BY <1>6, MatchedDraft, DraftFields
<1>7. ASSUME NEW s \in Sessions, NoMatch(s) PROVE PlanningOK(q)'
  BY <1>7, NoneAssumption, AttemptsAssumption, ClockAssumption, DraftFields DEF NoMatch, Goto
<1>8. ASSUME NEW s \in Sessions, Propose(s) PROVE PlanningOK(q)'
  BY <1>8, ProposedDraft, DraftFields
<1>9. ASSUME NEW s \in Sessions, Retain(s) PROVE PlanningOK(q)'
  BY <1>9, NoneAssumption, AttemptsAssumption, ClockAssumption, DraftFields DEF Retain, Goto, RetainUntil, Deadline, MayProposeAgain
<1>10. ASSUME NEW s \in Sessions, RetainMissing(s) PROVE PlanningOK(q)'
  BY <1>10, NoneAssumption, AttemptsAssumption, ClockAssumption, DraftFields DEF RetainMissing, Goto, Forget
<1>11. ASSUME NEW s \in Sessions, Save(s) PROVE PlanningOK(q)'
  BY <1>11, NoneAssumption, AttemptsAssumption, ClockAssumption, DraftFields DEF Save, Goto, Forget, Executable
<1>12. ASSUME NEW s \in Sessions, Execute(s) PROVE PlanningOK(q)'
  BY <1>12, NoneAssumption, AttemptsAssumption, ClockAssumption, DraftFields DEF Execute, Goto
<1>13. ASSUME NEW s \in Sessions, RememberAccepted(s) PROVE PlanningOK(q)'
  BY <1>13, NoneAssumption, AttemptsAssumption, ClockAssumption, DraftFields DEF RememberAccepted, Goto, Retained, CaseOf
<1>14. ASSUME NEW s \in Sessions, RememberRejected(s) PROVE PlanningOK(q)'
  BY <1>14, NoneAssumption, AttemptsAssumption, ClockAssumption, DraftFields DEF RememberRejected, Goto, Removed
<1>15. ASSUME NEW s \in Sessions, RememberMissing(s) PROVE PlanningOK(q)'
  BY <1>15, NoneAssumption, AttemptsAssumption, ClockAssumption, DraftFields DEF RememberMissing, Goto
<1>16. ASSUME NEW s \in Sessions, Decide(s) PROVE PlanningOK(q)'
  BY <1>16, NoneAssumption, AttemptsAssumption, ClockAssumption, DraftFields DEF Decide, Goto
<1>17. ASSUME NEW s \in Sessions, Abort(s) PROVE PlanningOK(q)'
  BY <1>17, NoneAssumption, AttemptsAssumption, ClockAssumption, DraftFields DEF Abort, Goto, Forget
<1>18. CASE Tick
  BY <1>18, NoneAssumption, AttemptsAssumption, ClockAssumption, DraftFields DEF Tick, planning, document
<1>19. ASSUME NEW d \in stored, Purge(d) PROVE PlanningOK(q)'
  BY <1>19, NoneAssumption, AttemptsAssumption, ClockAssumption, DraftFields DEF Purge, planning, document
<1>20. ASSUME NEW v \in Versions, Publish(v) PROVE PlanningOK(q)'
  BY <1>20, NoneAssumption, AttemptsAssumption, ClockAssumption, DraftFields DEF Publish, planning, document
<1>21. CASE UNCHANGED vars
  BY <1>21, NoneAssumption, AttemptsAssumption, ClockAssumption, DraftFields DEF vars, planning, document
<1> QED
  BY <1>1, <1>2, <1>3, <1>4, <1>5, <1>6, <1>7, <1>8, <1>9, <1>10, <1>11, <1>12,
     <1>13, <1>14, <1>15, <1>16, <1>17, <1>18, <1>19, <1>20, <1>21 DEF Next, Work

\* Every step keeps what the planned and the stored draft versions rely on.
LEMMA DocumentStep == Inv /\ [Next]_vars => \A q \in Sessions : DocumentOK(q)'
<1> SUFFICES ASSUME Inv, [Next]_vars, NEW q \in Sessions PROVE DocumentOK(q)'
  OBVIOUS
<1> USE DEF Inv, TypeOK, PlanningOK, DocumentOK, CaseOK, Accepted, Labels, Working, Planning, planning, document
<1>1. ASSUME NEW s \in Sessions, Submit(s) PROVE DocumentOK(q)'
  BY <1>1, NoneAssumption, DraftFields DEF Submit, StartPlanning, Goto
<1>2. ASSUME NEW s \in Sessions, Revise(s) PROVE DocumentOK(q)'
  BY <1>2, NoneAssumption, DraftFields DEF Revise, StartPlanning, Goto
<1>3. ASSUME NEW s \in Sessions, Interpret(s) PROVE DocumentOK(q)'
  BY <1>3, NoneAssumption, DraftFields DEF Interpret, Goto
<1>4. ASSUME NEW s \in Sessions, Reinterpret(s) PROVE DocumentOK(q)'
  BY <1>4, NoneAssumption, DraftFields DEF Reinterpret, MayInterpretAgain, Counted
<1>5. ASSUME NEW s \in Sessions, GiveUp(s) PROVE DocumentOK(q)'
  BY <1>5, NoneAssumption, DraftFields DEF GiveUp, Goto
<1>6. ASSUME NEW s \in Sessions, Match(s) PROVE DocumentOK(q)'
  BY <1>6, MatchedDraft, DraftFields, CaseFields
<1>7. ASSUME NEW s \in Sessions, NoMatch(s) PROVE DocumentOK(q)'
  BY <1>7, NoneAssumption, DraftFields DEF NoMatch, Goto
<1>8. ASSUME NEW s \in Sessions, Propose(s) PROVE DocumentOK(q)'
  BY <1>8, ProposedDraft, DraftFields
<1>9. ASSUME NEW s \in Sessions, Retain(s) PROVE DocumentOK(q)'
  BY <1>9, NoneAssumption, DraftFields DEF Retain, Goto, RetainUntil, Deadline, MayProposeAgain
<1>10. ASSUME NEW s \in Sessions, RetainMissing(s) PROVE DocumentOK(q)'
  BY <1>10, NoneAssumption, DraftFields DEF RetainMissing, Goto, Forget
<1>11. ASSUME NEW s \in Sessions, Save(s) PROVE DocumentOK(q)'
  BY <1>11, NoneAssumption, DraftFields DEF Save, Goto, Forget, Executable
<1>12. ASSUME NEW s \in Sessions, Execute(s) PROVE DocumentOK(q)'
  BY <1>12, NoneAssumption, DraftFields DEF Execute, Goto
<1>13. ASSUME NEW s \in Sessions, RememberAccepted(s) PROVE DocumentOK(q)'
  BY <1>13, NoneAssumption, DraftFields DEF RememberAccepted, Goto, Retained, CaseOf
<1>14. ASSUME NEW s \in Sessions, RememberRejected(s) PROVE DocumentOK(q)'
  BY <1>14, NoneAssumption, DraftFields DEF RememberRejected, Goto, Removed
<1>15. ASSUME NEW s \in Sessions, RememberMissing(s) PROVE DocumentOK(q)'
  BY <1>15, NoneAssumption, DraftFields DEF RememberMissing, Goto
<1>16. ASSUME NEW s \in Sessions, Decide(s) PROVE DocumentOK(q)'
  <2>1. PICK k \in {"accept", "reject"} :
           decision' = [decision EXCEPT ![s] = [kind |-> k, at |-> now]]
    BY <1>16 DEF Decide
  <2> DEFINE dec == [kind |-> k, at |-> now]
  <2>2. dec # None
    BY NoneAssumption DEF Decisions
  <2>3. decision' = [decision EXCEPT ![s] = dec]
    BY <2>1
  <2> HIDE DEF dec
  <2>4. pc[s] = "review" /\ answered[s] /\ pc' = [pc EXCEPT ![s] = "remember"]
    BY <1>16 DEF Decide, Goto
  <2>5. UNCHANGED <<draft, latest, answered>>
    BY <1>16 DEF Decide
  <2> QED
    BY <2>2, <2>3, <2>4, <2>5, DraftFields
<1>17. ASSUME NEW s \in Sessions, Abort(s) PROVE DocumentOK(q)'
  BY <1>17, NoneAssumption, DraftFields DEF Abort, Goto, Forget
<1>18. CASE Tick
  BY <1>18, NoneAssumption, DraftFields DEF Tick, planning, document
<1>19. ASSUME NEW d \in stored, Purge(d) PROVE DocumentOK(q)'
  BY <1>19, NoneAssumption, DraftFields DEF Purge, planning, document
<1>20. ASSUME NEW v \in Versions, Publish(v) PROVE DocumentOK(q)'
  BY <1>20, NoneAssumption, DraftFields DEF Publish, planning, document
<1>21. CASE UNCHANGED vars
  BY <1>21, NoneAssumption, DraftFields DEF vars, planning, document
<1> QED
  BY <1>1, <1>2, <1>3, <1>4, <1>5, <1>6, <1>7, <1>8, <1>9, <1>10, <1>11, <1>12,
     <1>13, <1>14, <1>15, <1>16, <1>17, <1>18, <1>19, <1>20, <1>21 DEF Next, Work

\* Every step keeps the case base to what closed sessions accepted.
LEMMA CaseStep == Inv /\ [Next]_vars => \A q \in Sessions : CaseOK(q)'
<1> SUFFICES ASSUME Inv, [Next]_vars, NEW q \in Sessions PROVE CaseOK(q)'
  OBVIOUS
<1> USE DEF Inv, TypeOK, PlanningOK, DocumentOK, CaseOK, Accepted, Labels, Working, Planning, planning, document
<1>1. ASSUME NEW s \in Sessions, Submit(s) PROVE CaseOK(q)'
  BY <1>1, NoneAssumption, DraftFields, CaseFields DEF Submit, StartPlanning, Goto
<1>2. ASSUME NEW s \in Sessions, Revise(s) PROVE CaseOK(q)'
  BY <1>2, NoneAssumption, DraftFields, CaseFields DEF Revise, StartPlanning, Goto
<1>3. ASSUME NEW s \in Sessions, Interpret(s) PROVE CaseOK(q)'
  BY <1>3, NoneAssumption, DraftFields, CaseFields DEF Interpret, Goto
<1>4. ASSUME NEW s \in Sessions, Reinterpret(s) PROVE CaseOK(q)'
  BY <1>4, NoneAssumption, DraftFields, CaseFields DEF Reinterpret, MayInterpretAgain, Counted
<1>5. ASSUME NEW s \in Sessions, GiveUp(s) PROVE CaseOK(q)'
  BY <1>5, NoneAssumption, DraftFields, CaseFields DEF GiveUp, Goto
<1>6. ASSUME NEW s \in Sessions, Match(s) PROVE CaseOK(q)'
  BY <1>6, MatchedDraft, DraftFields, CaseFields
<1>7. ASSUME NEW s \in Sessions, NoMatch(s) PROVE CaseOK(q)'
  BY <1>7, NoneAssumption, DraftFields, CaseFields DEF NoMatch, Goto
<1>8. ASSUME NEW s \in Sessions, Propose(s) PROVE CaseOK(q)'
  BY <1>8, ProposedDraft, DraftFields
<1>9. ASSUME NEW s \in Sessions, Retain(s) PROVE CaseOK(q)'
  BY <1>9, NoneAssumption, DraftFields, CaseFields DEF Retain, Goto, RetainUntil, Deadline, MayProposeAgain
<1>10. ASSUME NEW s \in Sessions, RetainMissing(s) PROVE CaseOK(q)'
  BY <1>10, NoneAssumption, DraftFields, CaseFields DEF RetainMissing, Goto, Forget
<1>11. ASSUME NEW s \in Sessions, Save(s) PROVE CaseOK(q)'
  BY <1>11, NoneAssumption, DraftFields, CaseFields DEF Save, Goto, Forget, Executable
<1>12. ASSUME NEW s \in Sessions, Execute(s) PROVE CaseOK(q)'
  BY <1>12, NoneAssumption, DraftFields, CaseFields DEF Execute, Goto
<1>13. ASSUME NEW s \in Sessions, RememberAccepted(s) PROVE CaseOK(q)'
  <2> DEFINE c == CaseOf(s)
  <2>1. latest[s] \in Drafts /\ decision[s] \in Decisions
    BY <1>13 DEF RememberAccepted
  <2>2. c \in Cases /\ c.task = latest[s].task /\ c.workflow = latest[s].workflow
    BY <2>1, DraftFields DEF CaseOf, Cases, Decisions
  <2>3. cases' = IF latest[s].origin = None THEN [cases EXCEPT ![s] = c] ELSE cases
    BY <1>13 DEF RememberAccepted, Retained
  <2> HIDE DEF c
  <2>4. /\ pc[s] = "remember" /\ decision[s].kind = "accept"
        /\ pc' = [pc EXCEPT ![s] = "closed"]
        /\ UNCHANGED <<latest, decision, answered>>
    BY <1>13 DEF RememberAccepted, Goto
  <2> QED
    BY <2>1, <2>2, <2>3, <2>4, DraftFields, CaseFields
<1>14. ASSUME NEW s \in Sessions, RememberRejected(s) PROVE CaseOK(q)'
  BY <1>14, NoneAssumption, DraftFields, CaseFields DEF RememberRejected, Goto, Removed
<1>15. ASSUME NEW s \in Sessions, RememberMissing(s) PROVE CaseOK(q)'
  BY <1>15, NoneAssumption, DraftFields, CaseFields DEF RememberMissing, Goto
<1>16. ASSUME NEW s \in Sessions, Decide(s) PROVE CaseOK(q)'
  <2>1. decision[s] = None /\ pc[s] = "review"
    BY <1>16 DEF Decide
  <2>2. UNCHANGED <<cases, latest>>
    BY <1>16 DEF Decide
  <2>3. \A p \in Sessions :
           /\ decision[p] # None => decision'[p] = decision[p]
           /\ pc[p] = "closed" <=> pc'[p] = "closed"
           /\ pc[p] = "closed" => decision'[p] = decision[p]
    BY <1>16, <2>1 DEF Decide, Goto
  <2>4. CaseOK(q) /\ (cases[q] # None => Accepted(q, latest[q])')
    BY <2>2, <2>3
  <2> QED
    BY <2>2, <2>3, <2>4
<1>17. ASSUME NEW s \in Sessions, Abort(s) PROVE CaseOK(q)'
  BY <1>17, NoneAssumption, DraftFields, CaseFields DEF Abort, Goto, Forget
<1>18. CASE Tick
  BY <1>18, NoneAssumption, DraftFields, CaseFields DEF Tick, planning, document
<1>19. ASSUME NEW d \in stored, Purge(d) PROVE CaseOK(q)'
  BY <1>19, NoneAssumption, DraftFields, CaseFields DEF Purge, planning, document
<1>20. ASSUME NEW v \in Versions, Publish(v) PROVE CaseOK(q)'
  BY <1>20, NoneAssumption, DraftFields, CaseFields DEF Publish, planning, document
<1>21. CASE UNCHANGED vars
  BY <1>21, NoneAssumption, DraftFields, CaseFields DEF vars, planning, document
<1> QED
  BY <1>1, <1>2, <1>3, <1>4, <1>5, <1>6, <1>7, <1>8, <1>9, <1>10, <1>11, <1>12,
     <1>13, <1>14, <1>15, <1>16, <1>17, <1>18, <1>19, <1>20, <1>21 DEF Next, Work

\* The invariant holds before the first submission.
LEMMA InitInv == Init => Inv
<1> SUFFICES ASSUME Init PROVE Inv
  OBVIOUS
<1>1. TypeOK
  BY AttemptsAssumption DEF Init, TypeOK, Labels, Never
<1>2. \A s \in Sessions : PlanningOK(s) /\ DocumentOK(s) /\ CaseOK(s)
  BY DEF Init, PlanningOK, DocumentOK, CaseOK, Planning
<1> QED
  BY <1>1, <1>2 DEF Inv

\* Every step keeps the invariant.
LEMMA NextInv == Inv /\ [Next]_vars => Inv'
  BY TypeStep, PlanningStep, DocumentStep, CaseStep DEF Inv

\* The inductive invariant holds in every behaviour.
THEOREM Invariance == Spec => []Inv
<1>1. Init => Inv
  BY InitInv
<1>2. Inv /\ [Next]_vars => Inv'
  BY NextInv
<1> QED
  BY <1>1, <1>2, PTL DEF Spec

-----------------------------------------------------------------------------

\* Every variable of the planners, the draft store and the case base keeps
\* its type, the attempt counters their limits.
THEOREM TypeCorrect == Spec => []TypeOK
<1>1. Inv => TypeOK
  BY DEF Inv
<1> QED
  BY <1>1, Invariance, PTL

\* DraftPlanner.retrieve only ever replays what a reviewer accepted for the
\* same task, and only what validates again is executed.
THEOREM ReplaysAreAccepted == Spec => []ReplaysWereAccepted
<1>1. Inv => ReplaysWereAccepted
  <2> SUFFICES ASSUME Inv, NEW s \in Sessions,
                      latest[s] # None, latest[s].origin # None
               PROVE  LET q == latest[s].origin IN
                      /\ decision[q] # None
                      /\ decision[q].kind = "accept"
                      /\ latest[q].task = latest[s].task
                      /\ latest[q].workflow = latest[s].workflow
                      /\ pc[s] = "execute" => Passes(latest[s])
    BY DEF ReplaysWereAccepted
  <2>1. latest[s].origin \in Sessions
    BY DraftFields DEF Inv, TypeOK
  <2> QED
    BY <2>1 DEF Inv, DocumentOK, Accepted
<1> QED
  BY <1>1, Invariance, PTL

\* What the worker runs, what a reviewer is shown and what becomes a case has
\* passed the validator.
THEOREM ValidatedRuns == Spec => []OnlyValidatedRuns
<1>1. Inv => OnlyValidatedRuns
  BY DEF Inv, OnlyValidatedRuns, DocumentOK, CaseOK, Accepted
<1> QED
  BY <1>1, Invariance, PTL

\* CaseBase.remove is final: no acceptance brings a rejected case back.
THEOREM RejectionsAreFinal == Spec => []RejectedCaseStaysOut
<1>1. Inv => RejectedCaseStaysOut
  BY DEF Inv, RejectedCaseStaysOut, CaseOK
<1> QED
  BY <1>1, Invariance, PTL

\* CaseBase.retain is lasting: only the rejection of its own replay removes an
\* accepted composition.
THEOREM CasesAreKept == Spec => []CaseKeptUntilRejected
<1>1. Inv => CaseKeptUntilRejected
  BY DEF Inv, CaseKeptUntilRejected, CaseOK
<1> QED
  BY <1>1, Invariance, PTL

-----------------------------------------------------------------------------
(***************************************************************************)
(* Planning comes to its end: what PlanningEnds rests on is a bound of the *)
(* steps a planning has left, which each of them lowers.                   *)
(***************************************************************************)

\* Each proposal is proposed and retained; what was matched or interpreted
\* may be followed by all of them.
StepsLeft(s) ==
    CASE pc[s] = "interpret" -> (2 * MaxProposals + 4) + (MaxInterpretations - tries[s])
      [] pc[s] = "match" -> 2 * MaxProposals + 3
      [] pc[s] = "retain" -> 2 * (MaxProposals - proposals[s]) + 2
      [] pc[s] = "propose" -> 2 * (MaxProposals - proposals[s]) + 1
      [] pc[s] = "save" -> 1
      [] OTHER -> 0

PlanningBound == 2 * MaxProposals + MaxInterpretations + 4

\* Planning always has a step left, and no more than the bound.
LEMMA StepsBounded ==
    ASSUME Inv, NEW s \in Sessions
    PROVE  /\ StepsLeft(s) \in 0 .. PlanningBound
           /\ pc[s] \in Planning => StepsLeft(s) > 0
<1>1. /\ MaxProposals \in Nat /\ MaxInterpretations \in Nat
      /\ proposals[s] \in 0 .. MaxProposals /\ tries[s] \in 0 .. MaxInterpretations
  BY AttemptsAssumption DEF Inv, TypeOK
<1> QED
  BY <1>1 DEF StepsLeft, PlanningBound, Planning

\* Every step of a planning session lowers what is left.
LEMMA PlanningStepTaken ==
    ASSUME Inv, NEW s \in Sessions, pc[s] \in Planning, Work(s)
    PROVE  StepsLeft(s)' < StepsLeft(s)
<1>1. /\ MaxProposals \in Nat /\ MaxInterpretations \in Nat
      /\ proposals[s] \in 0 .. MaxProposals /\ tries[s] \in 0 .. MaxInterpretations
      /\ proposals[s] # 0 => pc[s] \in {"propose", "retain", "save"}
      /\ pc[s] = "propose" => proposals[s] < MaxProposals
  BY AttemptsAssumption DEF Inv, TypeOK, PlanningOK
<1>2. pc \in [Sessions -> Labels] /\ tries \in [Sessions -> 0 .. MaxInterpretations]
      /\ proposals \in [Sessions -> 0 .. MaxProposals]
  BY DEF Inv, TypeOK
<1>3. CASE Interpret(s) \/ GiveUp(s)
  <2>1. pc[s] = "interpret" /\ pc'[s] \in {"match", "propose", "save"}
        /\ proposals'[s] = proposals[s]
    BY <1>2, <1>3 DEF Interpret, GiveUp, Goto
  <2> QED
    BY <1>1, <2>1 DEF StepsLeft
<1>4. CASE Reinterpret(s)
  <2>1. pc[s] = "interpret" /\ pc'[s] = "interpret" /\ tries'[s] = tries[s] + 1
    BY <1>2, <1>4 DEF Reinterpret, Counted
  <2> QED
    BY <1>1, <2>1 DEF StepsLeft
<1>5. CASE Match(s) \/ NoMatch(s)
  <2>1. pc[s] = "match" /\ pc'[s] \in {"retain", "propose"} /\ proposals'[s] = proposals[s]
    BY <1>2, <1>5 DEF Match, NoMatch, Goto, planning
  <2> QED
    BY <1>1, <2>1 DEF StepsLeft
<1>6. CASE Propose(s)
  <2>1. pc[s] = "propose" /\ pc'[s] = "retain" /\ proposals'[s] = proposals[s] + 1
    BY <1>2, <1>6 DEF Propose, Goto, Counted
  <2> QED
    BY <1>1, <2>1 DEF StepsLeft
<1>7. CASE Retain(s)
  <2>1. pc[s] = "retain" /\ pc'[s] \in {"propose", "save"} /\ proposals'[s] = proposals[s]
    BY <1>2, <1>7 DEF Retain, Goto
  <2> QED
    BY <1>1, <2>1 DEF StepsLeft
<1>8. CASE RetainMissing(s) \/ Save(s)
  <2>1. pc[s] \in {"retain", "save"} /\ pc'[s] \in {"aborted", "review", "execute"}
    BY <1>2, <1>8 DEF RetainMissing, Save, Goto
  <2> QED
    BY <1>1, <2>1 DEF StepsLeft
<1>9. CASE Execute(s) \/ RememberAccepted(s) \/ RememberRejected(s) \/ RememberMissing(s)
  BY <1>9 DEF Execute, RememberAccepted, RememberRejected, RememberMissing, Planning
<1> QED
  BY <1>3, <1>4, <1>5, <1>6, <1>7, <1>8, <1>9 DEF Work

\* An interrupted planning has nothing left to do.
LEMMA PlanningAborted ==
    ASSUME Inv, NEW s \in Sessions, pc[s] \in Planning, Abort(s)
    PROVE  StepsLeft(s)' < StepsLeft(s)
<1>1. pc'[s] \in {"aborted", "review"}
  BY DEF Abort, Goto, Inv, TypeOK
<1>2. StepsLeft(s)' = 0
  BY <1>1 DEF StepsLeft
<1> QED
  BY <1>2, StepsBounded DEF PlanningBound

\* What others do neither lengthens a planning nor shortens it.
LEMMA PlanningIsOwn ==
    ASSUME Inv, [Next]_vars, NEW s \in Sessions, pc[s] \in Planning,
           ~Work(s), ~Abort(s)
    PROVE  StepsLeft(s)' = StepsLeft(s)
<1>1. /\ pc \in [Sessions -> Labels] /\ tries \in [Sessions -> 0 .. MaxInterpretations]
      /\ proposals \in [Sessions -> 0 .. MaxProposals]
  BY DEF Inv, TypeOK
<1>2. ~Submit(s) /\ ~Revise(s) /\ ~Decide(s)
  BY DEF Submit, Revise, Decide, Planning
<1>3. ASSUME NEW q \in Sessions \ {s},
             Submit(q) \/ Revise(q) \/ Work(q) \/ Decide(q) \/ Abort(q)
      PROVE  pc'[s] = pc[s] /\ tries'[s] = tries[s] /\ proposals'[s] = proposals[s]
  BY <1>1, <1>3 DEF Submit, Revise, Work, Decide, Abort, Interpret, Reinterpret, GiveUp,
     Match, NoMatch, Propose, Retain, RetainMissing, Save, Execute, RememberAccepted,
     RememberRejected, RememberMissing, StartPlanning, Goto, Forget, planning
<1>4. CASE Tick \/ (\E d \in stored : Purge(d)) \/ (\E v \in Versions : Publish(v))
           \/ UNCHANGED vars
  BY <1>4 DEF Tick, Purge, Publish, vars, planning, StepsLeft
<1> QED
  BY <1>2, <1>3, <1>4 DEF Next, StepsLeft

PlanningAdvances ==
    \A s \in Sessions : pc[s] \in Planning =>
        IF Work(s) \/ Abort(s) THEN StepsLeft(s)' < StepsLeft(s)
                               ELSE StepsLeft(s)' = StepsLeft(s)

\* Whatever the models answer, a planning takes no more steps than a bound
\* that depends on the two attempt limits only; it always has one left, and
\* nothing other sessions, the clock or a publication do adds to them.
THEOREM PlanningsAreFinite ==
    Spec => /\ [](\A s \in Sessions : /\ StepsLeft(s) \in 0 .. PlanningBound
                                      /\ pc[s] \in Planning => StepsLeft(s) > 0)
            /\ [][PlanningAdvances]_vars
<1>1. Inv => \A s \in Sessions : /\ StepsLeft(s) \in 0 .. PlanningBound
                                 /\ pc[s] \in Planning => StepsLeft(s) > 0
  BY StepsBounded
<1>2. Inv /\ [Next]_vars => [PlanningAdvances]_vars
  BY PlanningStepTaken, PlanningAborted, PlanningIsOwn DEF PlanningAdvances
<1> QED
  BY <1>1, <1>2, Invariance, PTL DEF Spec
=============================================================================
