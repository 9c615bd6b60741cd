----------------------------- MODULE WebClient -----------------------------
(* The web client: a page that holds one session, what belongs to it and    *)
(* the visitor's history, all of it filled by replies that may arrive in    *)
(* any order, late, or after the visitor has gone elsewhere or been signed  *)
(* out.                                                                     *)
EXTENDS Naturals, FiniteSets

CONSTANTS
    Owned,      \* the visitor's own sessions
    Examples,   \* published sessions; an owner may open his own as one
    Jobs,       \* the executions a session may show, one at a time
    MaxPending, \* how many requests the visitor has under way
    None

VARIABLES
    authenticated, \* the server knows the visitor; a page never signs in again
    identity,      \* what the page believes
    history,       \* whether it lists the visitor's sessions
    session,       \* the open session
    url,           \* what the address names
    shown,         \* whose answer map and whose observations are shown
    mapError,      \* the page says that the map could not be had
    busy,          \* the operations that keep their buttons disabled
    pending        \* requests under way; two that are alike count as one

pageVars == <<identity, history, session, url, shown, mapError, busy>>
vars == <<authenticated, pageVars, pending>>

Documents == {"map", "observations"}

Operations == {"history", "identity", "restore", "example", "submit", "mutate", "delete"}

\* An execution may have ended with an answer or without one; an example is
\* published with both.
Sessions ==
    [id : Owned, public : {FALSE}, job : {None}, answered : {FALSE}] \cup
    [id : Owned, public : {FALSE}, job : Jobs, answered : BOOLEAN] \cup
    [id : Examples, public : {TRUE}, job : Jobs, answered : {TRUE}]

Addresses == [public : {FALSE}, id : Owned] \cup [public : {TRUE}, id : Examples]

\* What an effect depends on: the session and its answer, or its execution;
\* there is one answer of an execution.
Keys == [id : Owned \cup Examples, job : Jobs]

ASSUME WebClientAssumption ==
    /\ None \notin Owned \cup Examples \cup Jobs \cup Sessions \cup Addresses
    /\ None \notin Keys
    /\ MaxPending \in Nat

\* A request notes whether the server knew its visitor when it was sent, and
\* whether the page has been signed out since.
Requests ==
    [op : Operations \cup Documents, of : Owned \cup Examples \cup Keys \cup {None},
     public : BOOLEAN, open : BOOLEAN, auth : BOOLEAN, current : BOOLEAN]

Request(op, of, public, open) ==
    [op |-> op, of |-> of, public |-> public, open |-> open,
     auth |-> authenticated, current |-> TRUE]

-----------------------------------------------------------------------------
(* Applying a session                                                       *)

\* The map is fetched for an answer, the observations for an execution.
Key(d, s) ==
    IF s # None /\ s.job # None /\ (d = "map" => s.answered)
    THEN [id |-> s.id, job |-> s.job] ELSE None

\* Mutant: the effects only look at which session is open.
ChangedSession(s) ==
    {d \in Documents : s = None \/ session = None \/ s.id # session.id}

\* The effects that run again.
Changed(s) == {d \in Documents : Key(d, s) # Key(d, session)}

\* Mutant: an effect is not cancelled.
KeptDocuments(rs, ds) == rs

\* The cleanup of an effect: replies to its request are ignored.
Cancelled(rs, ds) == {r \in rs : r.op \notin ds}

\* The session is replaced, and each effect whose key is another runs again:
\* it clears its document, or leaves the former one until its own arrives.
Apply(s, rs) ==
    LET gone == {d \in Changed(s) : Key(d, s) = None} IN
    /\ session' = s
    /\ pending' = Cancelled(rs, Changed(s)) \cup
                  {Request(d, Key(d, s), s.public, FALSE) : d \in Changed(s) \ gone}
    /\ shown' = [d \in Documents |-> IF d \in gone THEN None ELSE shown[d]]
    /\ mapError' = (mapError /\ "map" \notin Changed(s))

-----------------------------------------------------------------------------
(* Signing out                                                              *)

Outdated(rs) == {[r EXCEPT !.current = FALSE] : r \in rs}

\* A 401: owned state is wiped, but for what stands under a public address.
SignOut(rs) ==
    /\ identity' = "anonymous"
    /\ history' = FALSE
    /\ IF url # None /\ url.public
       THEN pending' = Outdated(rs) /\ UNCHANGED <<session, url, shown, mapError>>
       ELSE url' = None /\ Apply(None, Outdated(rs))

\* The server forgets the visitor: the cookie expires, or another tab signs out.
Expire ==
    /\ authenticated
    /\ authenticated' = FALSE
    /\ UNCHANGED <<pageVars, pending>>

-----------------------------------------------------------------------------
(* What the visitor does                                                    *)

Send(r) ==
    /\ Cardinality(pending) < MaxPending
    /\ pending' = pending \cup {r}

Idle(op) == op \notin busy

RestoreSession(id) ==
    /\ history
    /\ Send(Request("restore", id, FALSE, FALSE))
    /\ busy' = busy \cup {"restore"}
    /\ UNCHANGED <<authenticated, identity, history, session, url, shown, mapError>>

OpenExample(id) ==
    /\ session = None /\ Idle("restore")
    /\ Send(Request("example", id, TRUE, FALSE))
    /\ busy' = busy \cup {"restore"}
    /\ UNCHANGED <<authenticated, identity, history, session, url, shown, mapError>>

SubmitQuestion ==
    /\ session = None /\ Idle("restore") /\ Idle("submit")
    /\ Send(Request("submit", None, FALSE, FALSE))
    /\ busy' = busy \cup {"submit"}
    /\ UNCHANGED <<authenticated, identity, history, session, url, shown, mapError>>

\* Revise, regenerate or decide.
Mutate ==
    /\ session # None /\ ~session.public /\ Idle("restore") /\ Idle("mutate")
    /\ Send(Request("mutate", session.id, FALSE, session.answered))
    /\ busy' = busy \cup {"mutate"}
    /\ UNCHANGED <<authenticated, identity, history, session, url, shown, mapError>>

\* The handler remembers which session was open when it was confirmed.
ConfirmDeletion(id) ==
    /\ history \/ (session # None /\ ~session.public /\ session.id = id)
    /\ Idle("delete")
    /\ Send(Request("delete", id, FALSE, session # None /\ session.id = id))
    /\ busy' = busy \cup {"delete"}
    /\ UNCHANGED <<authenticated, identity, history, session, url, shown, mapError>>

StartNewQuestion ==
    /\ url' = None
    /\ Apply(None, pending)
    /\ UNCHANGED <<authenticated, identity, history, busy>>

-----------------------------------------------------------------------------
(* Replies                                                                  *)

\* The flag that the finally clause of an operation resets.
Flag(op) == IF op = "example" THEN "restore" ELSE op

Done(r) == busy \ {Flag(r.op)}

Others(r) == pending \ {r}

\* A session is opened under its own address; what a mutation returns is shown
\* under the address that is there.
Opens(r, s) ==
    CASE r.op = "restore" -> s \in Sessions /\ ~s.public /\ s.id = r.of
      [] r.op = "example" -> s \in Sessions /\ s.public /\ s.id = r.of
      [] r.op = "submit" -> s \in Sessions /\ ~s.public
      [] OTHER -> FALSE

\* Mutant: a late reply still opens the session that it was asked for.
OpensLate(r, s) ==
    /\ r \in pending /\ r.op \in {"restore", "example", "submit"}
    /\ r.op # "example" => r.auth
    /\ Opens(r, s)
    /\ url' = [public |-> s.public, id |-> s.id]
    /\ Apply(s, IF r.op = "submit" THEN Others(r) \cup {Request("history", None, FALSE, FALSE)}
                ELSE Others(r))
    /\ busy' = Done(r)
    /\ UNCHANGED <<authenticated, identity, history>>

SessionArrives(r, s) ==
    /\ r \in pending /\ r.op \in {"restore", "example", "submit"}
    /\ r.op # "example" => r.auth /\ r.current
    /\ Opens(r, s)
    /\ url' = [public |-> s.public, id |-> s.id]
    /\ Apply(s, IF r.op = "submit" THEN Others(r) \cup {Request("history", None, FALSE, FALSE)}
                ELSE Others(r))
    /\ busy' = Done(r)
    /\ UNCHANGED <<authenticated, identity, history>>

MutationArrives(r, s) ==
    /\ r \in pending /\ r.op = "mutate" /\ r.auth /\ r.current
    /\ s \in Sessions /\ ~s.public /\ s.id = r.of /\ (r.open => s.answered)
    /\ Apply(s, Others(r) \cup {Request("history", None, FALSE, FALSE)})
    /\ busy' = Done(r)
    /\ UNCHANGED <<authenticated, identity, history, url>>

DeletionArrives(r) ==
    /\ r \in pending /\ r.op = "delete" /\ r.auth /\ r.current
    /\ LET rest == Others(r) \cup {Request("history", None, FALSE, FALSE)} IN
       IF r.open THEN url' = None /\ Apply(None, rest)
       ELSE pending' = rest /\ UNCHANGED <<session, url, shown, mapError>>
    /\ busy' = Done(r)
    /\ UNCHANGED <<authenticated, identity, history>>

\* The identity may also turn out to be none, and the history to be empty.
AccountArrives(r) ==
    /\ r \in pending /\ r.op \in {"identity", "history"} /\ r.auth /\ r.current
    /\ identity' = IF r.op = "identity" THEN "signed_in" ELSE identity
    /\ history' \in IF r.op = "history" THEN BOOLEAN ELSE {history}
    /\ pending' = Others(r)
    /\ UNCHANGED <<authenticated, session, url, shown, mapError, busy>>

\* A public document is taken in any case.
Taken(r) == r.public \/ (r.auth /\ r.current)

DocumentArrives(r) ==
    /\ r \in pending /\ r.op \in Documents /\ Taken(r)
    /\ shown' = [shown EXCEPT ![r.op] = r.of]
    /\ pending' = Others(r)
    /\ UNCHANGED <<authenticated, identity, history, session, url, mapError, busy>>

\* Errors other than a 401 are only shown; a listing of observations that
\* fails says nothing at all.
Fails(r) ==
    /\ r \in pending
    /\ mapError' = (mapError \/ (r.op = "map" /\ (r.public \/ r.current)))
    /\ busy' = Done(r)
    /\ pending' = Others(r)
    /\ UNCHANGED <<authenticated, identity, history, session, url, shown>>

\* Showcase routes know no 401; the refresh of the history ignores a late one.
Unauthorized(r) ==
    /\ r \in pending /\ ~authenticated /\ ~r.public
    /\ busy' = Done(r)
    /\ IF r.op = "history" /\ ~r.current
       THEN pending' = Others(r)
            /\ UNCHANGED <<identity, history, session, url, shown, mapError>>
       ELSE SignOut(Others(r))
    /\ UNCHANGED authenticated

\* A reply that the page does not look at.
Ignored(r) ==
    /\ r \in pending /\ r.auth /\ ~r.current /\ ~r.public
    /\ busy' = Done(r)
    /\ pending' = Others(r)
    /\ UNCHANGED <<authenticated, identity, history, session, url, shown, mapError>>

-----------------------------------------------------------------------------
\* A page is opened under some address, and asks for what it names.
Init ==
    /\ authenticated \in BOOLEAN
    /\ identity = "checking"
    /\ history = FALSE
    /\ session = None
    /\ url \in Addresses \cup {None}
    /\ shown = [d \in Documents |-> None]
    /\ mapError = FALSE
    /\ busy = {"restore" : u \in {url} \ {None}}
    /\ pending =
           {Request("identity", None, FALSE, FALSE), Request("history", None, FALSE, FALSE)} \cup
           {Request(IF u.public THEN "example" ELSE "restore", u.id, u.public, FALSE) :
               u \in {url} \ {None}}

Visitor ==
    \/ \E id \in Owned : RestoreSession(id) \/ ConfirmDeletion(id)
    \/ \E id \in Examples : OpenExample(id)
    \/ SubmitQuestion
    \/ Mutate
    \/ StartNewQuestion

Replies ==
    \E r \in pending :
        \/ \E s \in Sessions : SessionArrives(r, s) \/ MutationArrives(r, s)
        \/ DeletionArrives(r)
        \/ AccountArrives(r)
        \/ DocumentArrives(r)
        \/ Fails(r)
        \/ Unauthorized(r)
        \/ Ignored(r)

Next == Expire \/ Visitor \/ Replies

Spec == Init /\ [][Next]_vars

-----------------------------------------------------------------------------
(* Properties                                                               *)

\* The page's state and the requests it has under way are of their kind.
TypeOK ==
    /\ authenticated \in BOOLEAN
    /\ identity \in {"checking", "signed_in", "anonymous"}
    /\ history \in BOOLEAN
    /\ session \in Sessions \cup {None}
    /\ url \in Addresses \cup {None}
    /\ shown \in [Documents -> Keys \cup {None}]
    /\ mapError \in BOOLEAN
    /\ busy \subseteq {"restore", "submit", "mutate", "delete"}
    /\ pending \subseteq Requests

\* "so stale replies never repopulate a signed-out view": in whatever order
\* replies arrive, a visitor who is signed out sees none of his sessions, of
\* their maps and of his history, unless the address is public.
SignedOutViewIsEmpty ==
    identity = "anonymous" =>
        /\ ~history
        /\ url = None => session = None /\ shown = [d \in Documents |-> None]
        /\ url # None => url.public

\* "let cancelled = false": a map or a listing of observations that arrives
\* late, in whatever order, never puts another session's or a superseded
\* execution's document on the page.
LateDocumentsAreDropped ==
    [][\A d \in Documents :
           shown'[d] # shown[d] => shown'[d] \in {None, Key(d, session')}]_<<session, shown>>

\* As long as the visitor is not signed out, the map is that of the answer
\* under review, unless it is on its way or the page says that it could not
\* be had: no reply, late or lost, leaves another map in its place unnoticed.
MapShowsItsSession ==
    identity # "anonymous" =>
        \/ shown["map"] = Key("map", session)
        \/ \E r \in pending : r.op = "map"
        \/ mapError
=============================================================================
