-------------------------- MODULE WebClientProofs --------------------------
(***************************************************************************)
(* Theorems about WebClient, for all sessions and any number of requests.  *)
(***************************************************************************)
EXTENDS WebClient, TLAPS

-----------------------------------------------------------------------------
(* The inductive invariant. *)

\* Documents are only asked for of what is open.
DocumentsAsked(s, rs) ==
    \A r \in rs : r.op \in Documents => r.of = Key(r.op, s) /\ r.of # None

\* Without an answer, or an execution, there is nothing to show of it.
NothingWithoutKey(s, of) == \A d \in Documents : Key(d, s) = None => of[d] = None

\* Whatever was asked for before the visitor was signed out is outdated, and
\* afterwards the server does not know him.
NoReplyCounts(rs) == \A r \in rs : ~(r.auth /\ r.current)

SignedOut ==
    /\ ~authenticated /\ ~history /\ NoReplyCounts(pending)
    /\ url = None => session = None
    /\ url # None => url.public

Complete(s, rs, of, lost) ==
    of["map"] = Key("map", s) \/ (\E r \in rs : r.op = "map") \/ lost

ClientInv ==
    /\ TypeOK
    /\ DocumentsAsked(session, pending)
    /\ NothingWithoutKey(session, shown)
    /\ IF identity = "anonymous" THEN SignedOut
       ELSE /\ \A r \in pending : r.current
            /\ Complete(session, pending, shown, mapError)

-----------------------------------------------------------------------------
(* Sessions and requests. *)

LEMMA SessionType ==
    ASSUME NEW s \in Sessions
    PROVE  /\ s.id \in Owned \cup Examples /\ s.job \in Jobs \cup {None}
           /\ s.public \in BOOLEAN /\ s.answered \in BOOLEAN
           /\ [public |-> s.public, id |-> s.id] \in Addresses
           /\ s # None /\ [public |-> s.public, id |-> s.id] # None
<1> DEFINE address == [public |-> s.public, id |-> s.id]
<1>1. s # None
  BY WebClientAssumption
<1>2. CASE \/ s \in [id : Owned, public : {FALSE}, job : {None}, answered : {FALSE}]
           \/ s \in [id : Owned, public : {FALSE}, job : Jobs, answered : BOOLEAN]
  <2>1. /\ s.id \in Owned /\ s.public = FALSE /\ s.answered \in BOOLEAN
        /\ s.job \in Jobs \cup {None}
    BY <1>2
  <2>2. address \in Addresses
    BY <2>1 DEF Addresses
  <2>3. address # None
    BY <2>2, WebClientAssumption
  <2> QED
    BY <1>1, <2>1, <2>2, <2>3
<1>3. CASE s \in [id : Examples, public : {TRUE}, job : Jobs, answered : {TRUE}]
  <2>1. s.id \in Examples /\ s.public = TRUE /\ s.answered = TRUE /\ s.job \in Jobs
    BY <1>3
  <2>2. address \in Addresses
    BY <2>1 DEF Addresses
  <2>3. address # None
    BY <2>2, WebClientAssumption
  <2> QED
    BY <1>1, <2>1, <2>2, <2>3
<1> QED
  BY <1>2, <1>3 DEF Sessions

LEMMA KeyType ==
    /\ \A d \in Documents, s \in Sessions \cup {None} : Key(d, s) \in Keys \cup {None}
    /\ \A d \in Documents : Key(d, None) = None
    /\ \A d \in Documents, s \in Sessions \cup {None} : Key(d, s) # None => s \in Sessions
<1>1. ASSUME NEW d \in Documents, NEW s \in Sessions \cup {None}, Key(d, s) # None
      PROVE  s \in Sessions /\ Key(d, s) \in Keys
  <2>1. s \in Sessions /\ s.job # None /\ Key(d, s) = [id |-> s.id, job |-> s.job]
    BY <1>1 DEF Key
  <2>2. s.id \in Owned \cup Examples /\ s.job \in Jobs
    BY <2>1, SessionType
  <2> QED
    BY <2>1, <2>2 DEF Keys
<1>2. \A d \in Documents : Key(d, None) = None
  BY DEF Key
<1> QED
  BY <1>1, <1>2

LEMMA RequestType ==
    ASSUME authenticated \in BOOLEAN, NEW op \in Operations \cup Documents,
           NEW of \in Owned \cup Examples \cup Keys \cup {None}, NEW public \in BOOLEAN,
           NEW open \in BOOLEAN
    PROVE  /\ Request(op, of, public, open) \in Requests
           /\ Request(op, of, public, open).op = op
           /\ Request(op, of, public, open).of = of
           /\ Request(op, of, public, open).auth <=> authenticated
           /\ Request(op, of, public, open).current
BY DEF Request, Requests

LEMMA Names == Operations \cap Documents = {}
BY DEF Operations, Documents

\* What the effects ask for when they run again.
Wanted(s) == {Request(d, Key(d, s), s.public, FALSE) :
                  d \in {e \in Changed(s) : Key(e, s) # None}}

LEMMA WantedType ==
    ASSUME authenticated \in BOOLEAN, NEW s \in Sessions \cup {None}
    PROVE  /\ Wanted(s) \subseteq Requests
           /\ \A r \in Wanted(s) :
                  /\ r.op \in Documents /\ r.of = Key(r.op, s) /\ r.of # None
                  /\ (r.auth <=> authenticated) /\ r.current
           /\ \A d \in Changed(s) : Key(d, s) # None => \E r \in Wanted(s) : r.op = d
<1> DEFINE asked(d) == Request(d, Key(d, s), s.public, FALSE)
           due == {e \in Changed(s) : Key(e, s) # None}
<1>1. ASSUME NEW d \in due
      PROVE  /\ asked(d) \in Requests /\ asked(d).op = d /\ d \in Documents
             /\ asked(d).of = Key(d, s) /\ Key(d, s) # None
             /\ (asked(d).auth <=> authenticated) /\ asked(d).current
  <2>1. d \in Documents /\ Key(d, s) \in Keys /\ s \in Sessions
    BY KeyType DEF Changed
  <2>2. s.public \in BOOLEAN
    BY <2>1, SessionType
  <2> QED
    BY <2>1, <2>2 DEF Request, Requests
<1>2. Wanted(s) = {asked(d) : d \in due}
  BY DEF Wanted
<1>3. \A r \in Wanted(s) : \E d \in due : r = asked(d)
  BY <1>2
<1>4. \A d \in due : asked(d) \in Wanted(s)
  BY <1>2
<1>5. \A d \in Changed(s) : Key(d, s) # None => d \in due
  OBVIOUS
<1> HIDE DEF asked, due
<1>6. Wanted(s) \subseteq Requests
  BY <1>1, <1>3
<1>7. ASSUME NEW r \in Wanted(s)
      PROVE  /\ r.op \in Documents /\ r.of = Key(r.op, s) /\ r.of # None
             /\ (r.auth <=> authenticated) /\ r.current
  BY <1>1, <1>3
<1>8. \A d \in Changed(s) : Key(d, s) # None => \E r \in Wanted(s) : r.op = d
  BY <1>1, <1>4, <1>5
<1> QED
  BY <1>6, <1>7, <1>8

LEMMA OutdatedType ==
    ASSUME NEW rs, rs \subseteq Requests
    PROVE  /\ Outdated(rs) \subseteq Requests
           /\ NoReplyCounts(Outdated(rs))
           /\ \A r \in Outdated(rs) : \E q \in rs : r.op = q.op /\ r.of = q.of
BY DEF Outdated, Requests, NoReplyCounts

-----------------------------------------------------------------------------
(* A session is applied. *)

LEMMA Applied ==
    ASSUME ClientInv, NEW s \in Sessions \cup {None}, NEW rs, rs \subseteq Requests,
           \A r \in rs : r.op \in Documents => \E q \in pending : r.op = q.op /\ r.of = q.of,
           Apply(s, rs)
    PROVE  /\ session' = s /\ pending' \subseteq Requests /\ mapError' \in BOOLEAN
           /\ shown' \in [Documents -> Keys \cup {None}]
           /\ DocumentsAsked(s, pending')
           /\ NothingWithoutKey(s, shown')
           /\ \A r \in pending' : r \in rs \/ ((r.auth <=> authenticated) /\ r.current)
           /\ (/\ Complete(session, pending, shown, mapError)
               /\ \A q \in pending : q.op \in Documents => \E r \in rs : r.op = q.op)
              => Complete(s, pending', shown', mapError')
<1> USE DEF ClientInv
<1> DEFINE kept == Cancelled(rs, Changed(s))
<1>0. /\ session \in Sessions \cup {None} /\ authenticated \in BOOLEAN
      /\ shown \in [Documents -> Keys \cup {None}] /\ mapError \in BOOLEAN
  BY DEF TypeOK
<1>1. /\ session' = s /\ pending' = kept \cup Wanted(s)
      /\ mapError' = (mapError /\ "map" \notin Changed(s))
  <2>1. Changed(s) \ {d \in Changed(s) : Key(d, s) = None}
        = {e \in Changed(s) : Key(e, s) # None}
    OBVIOUS
  <2> QED
    BY <2>1 DEF Apply, Wanted
<1>2. /\ shown' \in [Documents -> Keys \cup {None}]
      /\ \A d \in Documents :
             shown'[d] = IF d \in Changed(s) /\ Key(d, s) = None THEN None ELSE shown[d]
  BY <1>0 DEF Apply
<1>3. /\ kept \subseteq rs
      /\ \A r \in rs : r \in kept <=> r.op \notin Changed(s)
  BY DEF Cancelled
<1>4. \A d \in Documents : d \notin Changed(s) => Key(d, s) = Key(d, session)
  BY DEF Changed
<1>5. pending' \subseteq Requests
  BY <1>0, <1>1, <1>3, WantedType
<1>6. DocumentsAsked(s, pending')
  <2>1. \A r \in kept : r.op \in Documents => r.of = Key(r.op, s) /\ r.of # None
    <3> SUFFICES ASSUME NEW r \in kept, r.op \in Documents
                 PROVE  r.of = Key(r.op, s) /\ r.of # None
      OBVIOUS
    <3>1. r \in rs /\ r.op \notin Changed(s)
      BY <1>3
    <3>2. PICK q \in pending : r.op = q.op /\ r.of = q.of
      BY <3>1
    <3> QED
      BY <1>4, <3>1, <3>2 DEF DocumentsAsked
  <2> QED
    BY <1>0, <1>1, <2>1, WantedType DEF DocumentsAsked
<1>7. NothingWithoutKey(s, shown')
  BY <1>2, <1>4 DEF NothingWithoutKey
<1>8. \A r \in pending' : r \in rs \/ ((r.auth <=> authenticated) /\ r.current)
  BY <1>0, <1>1, <1>3, WantedType
<1>9. ASSUME Complete(session, pending, shown, mapError),
             \A q \in pending : q.op \in Documents => \E r \in rs : r.op = q.op
      PROVE  Complete(s, pending', shown', mapError')
  <2>1. "map" \in Documents
    BY DEF Documents
  <2>2. CASE "map" \in Changed(s) /\ Key("map", s) = None
    BY <1>2, <2>1, <2>2 DEF Complete
  <2>3. CASE "map" \in Changed(s) /\ Key("map", s) # None
    BY <1>0, <1>1, <2>3, WantedType DEF Complete
  <2>4. CASE "map" \notin Changed(s)
    <3>1. shown'["map"] = shown["map"] /\ Key("map", s) = Key("map", session)
      BY <1>2, <1>4, <2>1, <2>4
    <3>2. mapError' = mapError
      BY <1>0, <1>1, <2>4
    <3>3. ASSUME NEW q \in pending, q.op = "map"
          PROVE  \E r \in pending' : r.op = "map"
      BY <1>1, <1>3, <1>9, <2>1, <2>4, <3>3
    <3> QED
      BY <1>9, <3>1, <3>2, <3>3 DEF Complete
  <2> QED
    BY <2>2, <2>3, <2>4
<1> HIDE DEF kept
<1> QED
  BY <1>1, <1>2, <1>5, <1>6, <1>7, <1>8, <1>9

\* Nothing is asked for but what the visitor does.
LEMMA Asks ==
    ASSUME ClientInv, NEW r \in Requests, r.op \in Operations,
           (r.auth <=> authenticated) /\ r.current,
           pending' = pending \cup {r},
           busy' \subseteq {"restore", "submit", "mutate", "delete"},
           UNCHANGED <<authenticated, identity, history, session, url, shown, mapError>>
    PROVE  ClientInv'
<1> USE DEF ClientInv
<1>1. r.op \notin Documents
  BY Names
<1>2. TypeOK'
  BY DEF TypeOK
<1>3. DocumentsAsked(session, pending')
  BY <1>1 DEF DocumentsAsked
<1>4. ASSUME identity = "anonymous" PROVE SignedOut'
  BY <1>4 DEF SignedOut, NoReplyCounts
<1>5. ASSUME identity # "anonymous"
      PROVE  (\A q \in pending' : q.current) /\ Complete(session, pending', shown, mapError)
  BY <1>5 DEF Complete
<1> QED
  BY <1>2, <1>3, <1>4, <1>5

\* A request is over, and nothing has come of it.
LEMMA Drops ==
    ASSUME ClientInv, NEW r \in pending, pending' = Others(r), busy' = Done(r),
           UNCHANGED <<authenticated, identity, history, session, url, shown>>,
           mapError' \in BOOLEAN, mapError => mapError',
           identity # "anonymous" /\ r.op = "map" => mapError'
    PROVE  ClientInv'
<1> USE DEF ClientInv
<1>1. pending' \subseteq pending /\ \A q \in pending : q \in pending' \/ q = r
  BY DEF Others
<1>2. TypeOK'
  BY <1>1 DEF TypeOK, Done
<1>3. DocumentsAsked(session, pending')
  BY <1>1 DEF DocumentsAsked
<1>4. ASSUME identity = "anonymous" PROVE SignedOut'
  BY <1>1, <1>4 DEF SignedOut, NoReplyCounts
<1>5. ASSUME identity # "anonymous"
      PROVE  (\A q \in pending' : q.current) /\ Complete(session, pending', shown, mapError')
  BY <1>1, <1>5 DEF Complete
<1> QED
  BY <1>2, <1>3, <1>4, <1>5

LEMMA SigningOut ==
    ASSUME ClientInv, ~authenticated, UNCHANGED authenticated,
           NEW rs \in SUBSET pending, SignOut(rs),
           busy' \subseteq {"restore", "submit", "mutate", "delete"}
    PROVE  ClientInv'
<1> USE DEF ClientInv
<1>1. rs \subseteq Requests
  BY DEF TypeOK
<1>2. /\ Outdated(rs) \subseteq Requests /\ NoReplyCounts(Outdated(rs))
      /\ \A r \in Outdated(rs) : \E q \in pending : r.op = q.op /\ r.of = q.of
  BY <1>1, OutdatedType
<1>3. identity' = "anonymous" /\ history' = FALSE
  BY DEF SignOut
<1>4. CASE url # None /\ url.public
  <2>1. /\ pending' = Outdated(rs)
        /\ UNCHANGED <<session, url, shown, mapError>>
    BY <1>4 DEF SignOut
  <2>2. DocumentsAsked(session, pending')
    BY <1>2, <2>1 DEF DocumentsAsked
  <2>3. SignedOut'
    BY <1>2, <1>3, <1>4, <2>1 DEF SignedOut
  <2> QED
    BY <1>2, <1>3, <2>1, <2>2, <2>3 DEF TypeOK
<1>5. CASE ~(url # None /\ url.public)
  <2>1. url' = None /\ Apply(None, Outdated(rs))
    BY <1>5 DEF SignOut
  <2>2. /\ session' = None /\ pending' \subseteq Requests /\ mapError' \in BOOLEAN
        /\ shown' \in [Documents -> Keys \cup {None}]
        /\ DocumentsAsked(None, pending') /\ NothingWithoutKey(None, shown')
        /\ \A r \in pending' :
               r \in Outdated(rs) \/ ((r.auth <=> authenticated) /\ r.current)
    BY <1>2, <2>1, Applied
  <2>3. NoReplyCounts(pending')
    BY <1>2, <2>2 DEF NoReplyCounts
  <2>4. SignedOut'
    BY <1>3, <2>1, <2>2, <2>3 DEF SignedOut
  <2> QED
    BY <1>3, <2>1, <2>2, <2>4 DEF TypeOK
<1> QED
  BY <1>4, <1>5

\* A session is opened under an address, after some request is over; while the
\* visitor is signed out, an example under a public one.
LEMMA Opening ==
    ASSUME ClientInv, NEW s \in Sessions \cup {None}, NEW rs \in SUBSET Requests,
           Apply(s, rs), UNCHANGED <<authenticated, identity, history>>,
           url' \in Addresses \cup {None},
           busy' \subseteq {"restore", "submit", "mutate", "delete"},
           \A q \in pending : q.op \in Documents => q \in rs,
           \A r \in rs : r \in pending
               \/ (r.op \in Operations /\ (r.auth <=> authenticated) /\ r.current),
           identity = "anonymous" => IF url' = None THEN s = None ELSE url'.public
    PROVE  ClientInv'
<1> USE DEF ClientInv
<1>1. \A r \in rs : r.op \in Documents => \E q \in pending : r.op = q.op /\ r.of = q.of
  BY Names
<1>2. /\ session' = s /\ pending' \subseteq Requests /\ mapError' \in BOOLEAN
      /\ shown' \in [Documents -> Keys \cup {None}]
      /\ DocumentsAsked(s, pending') /\ NothingWithoutKey(s, shown')
      /\ \A r \in pending' : r \in rs \/ ((r.auth <=> authenticated) /\ r.current)
      /\ (/\ Complete(session, pending, shown, mapError)
          /\ \A q \in pending : q.op \in Documents => \E r \in rs : r.op = q.op)
         => Complete(s, pending', shown', mapError')
  BY <1>1, Applied
<1>3. TypeOK'
  BY <1>2 DEF TypeOK
<1>4. ASSUME identity = "anonymous" PROVE SignedOut'
  <2>1. NoReplyCounts(pending')
    BY <1>2, <1>4 DEF SignedOut, NoReplyCounts
  <2> QED
    BY <1>2, <1>4, <2>1 DEF SignedOut
<1>5. ASSUME identity # "anonymous"
      PROVE  (\A q \in pending' : q.current) /\ Complete(s, pending', shown', mapError')
  BY <1>2, <1>5
<1> QED
  BY <1>2, <1>3, <1>4, <1>5

-----------------------------------------------------------------------------
(* The steps. *)

LEMMA InitInv == Init => ClientInv
<1> SUFFICES ASSUME Init PROVE ClientInv
  OBVIOUS
<1> DEFINE first == {Request("identity", None, FALSE, FALSE),
                     Request("history", None, FALSE, FALSE)}
           named == {Request(IF u.public THEN "example" ELSE "restore",
                             u.id, u.public, FALSE) : u \in {url} \ {None}}
<1>0. authenticated \in BOOLEAN
  BY DEF Init
<1>1. \A r \in first : r \in Requests /\ r.op \in Operations /\ r.current
  <2> DEFINE ask(op) == Request(op, None, FALSE, FALSE)
  <2>1. ASSUME NEW op \in {"identity", "history"}
        PROVE  ask(op) \in Requests /\ ask(op).op \in Operations /\ ask(op).current
    BY <1>0 DEF Request, Requests, Operations
  <2>2. first = {ask("identity"), ask("history")}
    OBVIOUS
  <2> HIDE DEF ask, first
  <2> QED
    BY <2>1, <2>2
<1>2. \A r \in named : r \in Requests /\ r.op \in Operations /\ r.current
  <2> DEFINE ask(u) == Request(IF u.public THEN "example" ELSE "restore",
                               u.id, u.public, FALSE)
  <2>1. ASSUME NEW u \in Addresses
        PROVE  ask(u) \in Requests /\ ask(u).op \in Operations /\ ask(u).current
    <3>1. u.public \in BOOLEAN /\ u.id \in Owned \cup Examples
      BY DEF Addresses
    <3>2. CASE u.public
      BY <1>0, <3>1, <3>2 DEF Request, Requests, Operations
    <3>3. CASE ~u.public
      BY <1>0, <3>1, <3>3 DEF Request, Requests, Operations
    <3> QED
      BY <3>2, <3>3
  <2>2. named = {ask(u) : u \in {url} \ {None}}
    OBVIOUS
  <2>3. {url} \ {None} \subseteq Addresses
    BY DEF Init
  <2> HIDE DEF ask, named
  <2> QED
    BY <2>1, <2>2, <2>3
<1>3. pending = first \cup named
  BY DEF Init
<1> HIDE DEF first, named
<1>4. \A r \in pending : r \in Requests /\ r.op \notin Documents /\ r.current
  BY <1>1, <1>2, <1>3, Names
<1>5. TypeOK
  BY <1>4 DEF Init, TypeOK
<1>6. DocumentsAsked(session, pending)
  BY <1>4 DEF DocumentsAsked
<1>7. "map" \in Documents /\ \A d \in Documents : Key(d, None) = None
  BY KeyType DEF Documents
<1>8. /\ NothingWithoutKey(session, shown)
      /\ Complete(session, pending, shown, mapError) /\ identity # "anonymous"
  BY <1>7 DEF Init, NothingWithoutKey, Complete
<1> QED
  BY <1>4, <1>5, <1>6, <1>8 DEF ClientInv

LEMMA VisitorInv == ClientInv /\ Visitor => ClientInv'
<1> SUFFICES ASSUME ClientInv, Visitor PROVE ClientInv'
  OBVIOUS
<1>0. TypeOK /\ authenticated \in BOOLEAN
  BY DEF ClientInv, TypeOK
<1>1. ASSUME NEW id \in Owned, RestoreSession(id) PROVE ClientInv'
  <2> DEFINE r == Request("restore", id, FALSE, FALSE)
  <2>1. r \in Requests /\ r.op \in Operations /\ (r.auth <=> authenticated) /\ r.current
    BY <1>0 DEF Request, Requests, Operations
  <2> HIDE DEF r
  <2> QED
    BY <1>0, <1>1, <2>1, Asks DEF RestoreSession, Send, TypeOK, r
<1>2. ASSUME NEW id \in Owned, ConfirmDeletion(id) PROVE ClientInv'
  <2> DEFINE r == Request("delete", id, FALSE, session # None /\ session.id = id)
  <2>1. r \in Requests /\ r.op \in Operations /\ (r.auth <=> authenticated) /\ r.current
    BY <1>0 DEF Request, Requests, Operations
  <2> HIDE DEF r
  <2> QED
    BY <1>0, <1>2, <2>1, Asks DEF ConfirmDeletion, Send, TypeOK, r
<1>3. ASSUME NEW id \in Examples, OpenExample(id) PROVE ClientInv'
  <2> DEFINE r == Request("example", id, TRUE, FALSE)
  <2>1. r \in Requests /\ r.op \in Operations /\ (r.auth <=> authenticated) /\ r.current
    BY <1>0 DEF Request, Requests, Operations
  <2> HIDE DEF r
  <2> QED
    BY <1>0, <1>3, <2>1, Asks DEF OpenExample, Send, TypeOK, r
<1>4. CASE SubmitQuestion
  <2> DEFINE r == Request("submit", None, FALSE, FALSE)
  <2>1. r \in Requests /\ r.op \in Operations /\ (r.auth <=> authenticated) /\ r.current
    BY <1>0 DEF Request, Requests, Operations
  <2> HIDE DEF r
  <2> QED
    BY <1>0, <1>4, <2>1, Asks DEF SubmitQuestion, Send, TypeOK, r
<1>5. CASE Mutate
  <2> DEFINE r == Request("mutate", session.id, FALSE, session.answered)
  <2>1. session.id \in Owned \cup Examples /\ session.answered \in BOOLEAN
    BY <1>0, <1>5, SessionType DEF Mutate, TypeOK
  <2>2. r \in Requests /\ r.op \in Operations /\ (r.auth <=> authenticated) /\ r.current
    BY <1>0, <2>1 DEF Request, Requests, Operations
  <2> HIDE DEF r
  <2> QED
    BY <1>0, <1>5, <2>2, Asks DEF Mutate, Send, TypeOK, r
<1>6. CASE StartNewQuestion
  BY <1>0, <1>6, Opening DEF StartNewQuestion, TypeOK
<1> QED
  BY <1>1, <1>2, <1>3, <1>4, <1>5, <1>6 DEF Visitor

LEMMA SessionReplies ==
    ASSUME ClientInv, NEW r \in pending, NEW s \in Sessions,
           SessionArrives(r, s) \/ MutationArrives(r, s)
    PROVE  ClientInv'
<1> DEFINE h == Request("history", None, FALSE, FALSE)
<1>1. h \in Requests /\ h.op \in Operations /\ (h.auth <=> authenticated) /\ h.current
  BY DEF ClientInv, TypeOK, Request, Requests, Operations
<1>2. r.op \notin Documents
  BY DEF SessionArrives, MutationArrives, Documents
<1>3. r \in Requests /\ pending \subseteq Requests
  BY DEF ClientInv, TypeOK
<1> HIDE DEF h
<1> DEFINE after == Others(r) \cup {h}
<1>4. /\ Others(r) \in SUBSET Requests /\ after \in SUBSET Requests
      /\ \A q \in pending : q.op \in Documents => q \in Others(r)
      /\ \A q \in after : q \in pending
             \/ (q.op \in Operations /\ (q.auth <=> authenticated) /\ q.current)
      /\ Others(r) \subseteq after
  BY <1>1, <1>2, <1>3 DEF Others
<1>5. busy' \subseteq {"restore", "submit", "mutate", "delete"}
  BY DEF SessionArrives, MutationArrives, Done, ClientInv, TypeOK
<1>6. identity = "anonymous" => ~(r.auth /\ r.current)
  BY DEF ClientInv, SignedOut, NoReplyCounts
<1>7. \E rs \in {Others(r), after} : Apply(s, rs)
  BY DEF SessionArrives, MutationArrives, h
<1>8. PICK rs \in {Others(r), after} : Apply(s, rs)
  BY <1>7
<1>9. UNCHANGED <<authenticated, identity, history>>
  BY DEF SessionArrives, MutationArrives
<1>10. CASE SessionArrives(r, s)
  <2>1. url' = [public |-> s.public, id |-> s.id] /\ url' \in Addresses /\ url' # None
    BY <1>10, SessionType DEF SessionArrives
  <2>2. identity = "anonymous" => url'.public
    BY <1>6, <1>10, <2>1 DEF SessionArrives, Opens
  <2> QED
    BY <1>4, <1>5, <1>8, <1>9, <2>1, <2>2, Opening
<1>11. CASE MutationArrives(r, s)
  <2>1. url' = url /\ url \in Addresses \cup {None} /\ identity # "anonymous"
    BY <1>6, <1>11 DEF MutationArrives, ClientInv, TypeOK
  <2> QED
    BY <1>4, <1>5, <1>8, <1>9, <2>1, Opening
<1> QED
  BY <1>10, <1>11

LEMMA DeletionReplies ==
    ASSUME ClientInv, NEW r \in pending, DeletionArrives(r)
    PROVE  ClientInv'
<1> DEFINE h == Request("history", None, FALSE, FALSE)
           after == Others(r) \cup {h}
<1>1. h \in Requests /\ h.op \in Operations /\ (h.auth <=> authenticated) /\ h.current
  BY DEF ClientInv, TypeOK, Request, Requests, Operations
<1>2. r.op \notin Documents /\ r.auth /\ r.current
  BY DEF DeletionArrives, Documents
<1>3. identity # "anonymous"
  BY <1>2 DEF ClientInv, SignedOut, NoReplyCounts
<1>4. pending \subseteq Requests
  BY DEF ClientInv, TypeOK
<1> HIDE DEF h
<1>5. /\ after \in SUBSET Requests
      /\ \A q \in pending : q.op \in Documents => q \in after
      /\ \A q \in after : q \in pending
             \/ (q.op \in Operations /\ (q.auth <=> authenticated) /\ q.current)
  BY <1>1, <1>2, <1>4 DEF Others
<1>6. busy' \subseteq {"restore", "submit", "mutate", "delete"}
  BY DEF DeletionArrives, Done, ClientInv, TypeOK
<1>7. UNCHANGED <<authenticated, identity, history>>
  BY DEF DeletionArrives
<1>8. CASE r.open
  <2>1. url' = None /\ Apply(None, after)
    BY <1>8 DEF DeletionArrives, h
  <2> QED
    BY <1>3, <1>5, <1>6, <1>7, <2>1, Opening
<1>9. CASE ~r.open
  <2>1. pending' = after /\ UNCHANGED <<session, url, shown, mapError>>
    BY <1>9 DEF DeletionArrives, h
  <2>2. TypeOK'
    BY <1>5, <1>6, <1>7, <2>1 DEF ClientInv, TypeOK
  <2>3. DocumentsAsked(session, after)
    BY <1>5, Names DEF ClientInv, DocumentsAsked
  <2>4. (\A q \in after : q.current) /\ Complete(session, after, shown, mapError)
    BY <1>3, <1>5 DEF ClientInv, Complete, Documents
  <2> HIDE DEF after
  <2> QED
    BY <1>3, <1>7, <2>1, <2>2, <2>3, <2>4 DEF ClientInv
<1> QED
  BY <1>8, <1>9

LEMMA AccountReplies ==
    ASSUME ClientInv, NEW r \in pending, AccountArrives(r)
    PROVE  ClientInv'
<1>1. /\ r.op \notin Documents /\ r.auth /\ r.current
      /\ pending' = Others(r) /\ identity' \in {"signed_in", identity} /\ history' \in BOOLEAN
      /\ UNCHANGED <<authenticated, session, url, shown, mapError, busy>>
  BY DEF AccountArrives, Documents, ClientInv, TypeOK
<1>2. identity # "anonymous" /\ identity' # "anonymous"
  BY <1>1 DEF ClientInv, SignedOut, NoReplyCounts
<1>3. pending' \subseteq pending /\ \A q \in pending : q \in pending' \/ q = r
  BY <1>1 DEF Others
<1>4. TypeOK'
  BY <1>1, <1>3 DEF ClientInv, TypeOK
<1>5. DocumentsAsked(session, pending')
  BY <1>3 DEF ClientInv, DocumentsAsked
<1>6. (\A q \in pending' : q.current) /\ Complete(session, pending', shown, mapError)
  BY <1>1, <1>2, <1>3 DEF ClientInv, Complete, Documents
<1> QED
  BY <1>1, <1>2, <1>4, <1>5, <1>6 DEF ClientInv

LEMMA DocumentReplies ==
    ASSUME ClientInv, NEW r \in pending, DocumentArrives(r)
    PROVE  ClientInv'
<1> USE DEF ClientInv
<1>1. /\ r.op \in Documents /\ r.of = Key(r.op, session) /\ r.of # None
      /\ r.of \in Keys
  BY KeyType DEF DocumentArrives, TypeOK, DocumentsAsked
<1>2. /\ shown' = [shown EXCEPT ![r.op] = r.of]
      /\ UNCHANGED <<authenticated, identity, history, session, url, mapError, busy>>
  BY DEF DocumentArrives
<1>3. pending' \subseteq pending /\ \A q \in pending : q \in pending' \/ q = r
  BY DEF DocumentArrives, Others
<1>4. shown \in [Documents -> Keys \cup {None}] /\ "map" \in Documents
  BY DEF TypeOK, Documents
<1>5. TypeOK'
  BY <1>1, <1>2, <1>3, <1>4 DEF TypeOK
<1>6. DocumentsAsked(session, pending') /\ NothingWithoutKey(session, shown')
  BY <1>1, <1>2, <1>3, <1>4 DEF DocumentsAsked, NothingWithoutKey
<1>7. ASSUME identity = "anonymous" PROVE SignedOut'
  BY <1>2, <1>3, <1>7 DEF SignedOut, NoReplyCounts
<1>8. ASSUME identity # "anonymous"
      PROVE  (\A q \in pending' : q.current) /\ Complete(session, pending', shown', mapError)
  BY <1>1, <1>2, <1>3, <1>4, <1>8 DEF Complete
<1> QED
  BY <1>2, <1>5, <1>6, <1>7, <1>8

LEMMA OtherReplies ==
    ASSUME ClientInv, NEW r \in pending, Fails(r) \/ Unauthorized(r) \/ Ignored(r)
    PROVE  ClientInv'
<1>1. /\ mapError \in BOOLEAN /\ r.public \in BOOLEAN /\ r.current \in BOOLEAN
      /\ Others(r) \in SUBSET pending
      /\ Done(r) \subseteq {"restore", "submit", "mutate", "delete"}
  BY DEF ClientInv, TypeOK, Requests, Others, Done
<1>2. identity # "anonymous" => r.current
  BY DEF ClientInv
<1>3. CASE Fails(r)
  <2>1. /\ mapError' = (mapError \/ (r.op = "map" /\ (r.public \/ r.current)))
        /\ pending' = Others(r) /\ busy' = Done(r)
        /\ UNCHANGED <<authenticated, identity, history, session, url, shown>>
    BY <1>3 DEF Fails
  <2>2. /\ mapError' \in BOOLEAN /\ (mapError => mapError')
        /\ identity # "anonymous" /\ r.op = "map" => mapError'
    BY <1>1, <1>2, <2>1
  <2> QED
    BY <2>1, <2>2, Drops
<1>4. CASE Unauthorized(r)
  <2>1. ~authenticated /\ busy' = Done(r) /\ UNCHANGED authenticated
    BY <1>4 DEF Unauthorized
  <2>2. CASE r.op = "history" /\ ~r.current
    BY <1>1, <1>2, <1>4, <2>1, <2>2, Drops DEF Unauthorized, Documents
  <2>3. CASE ~(r.op = "history" /\ ~r.current)
    BY <1>1, <1>4, <2>1, <2>3, SigningOut DEF Unauthorized
  <2> QED
    BY <2>2, <2>3
<1>5. CASE Ignored(r)
  <2>1. ~r.current
    BY <1>5 DEF Ignored
  <2> QED
    BY <1>1, <1>2, <1>5, <2>1, Drops DEF Ignored
<1> QED
  BY <1>3, <1>4, <1>5

LEMMA StepInv == ClientInv /\ [Next]_vars => ClientInv'
<1> SUFFICES ASSUME ClientInv, [Next]_vars PROVE ClientInv'
  OBVIOUS
<1>1. CASE Expire
  BY <1>1 DEF Expire, pageVars, ClientInv, TypeOK, SignedOut, DocumentsAsked, NothingWithoutKey,
     Complete, NoReplyCounts
<1>2. CASE Visitor
  BY <1>2, VisitorInv
<1>3. ASSUME NEW r \in pending,
             \/ \E s \in Sessions : SessionArrives(r, s) \/ MutationArrives(r, s)
             \/ DeletionArrives(r) \/ AccountArrives(r) \/ DocumentArrives(r)
             \/ Fails(r) \/ Unauthorized(r) \/ Ignored(r)
      PROVE  ClientInv'
  BY <1>3, SessionReplies, DeletionReplies, AccountReplies, DocumentReplies, OtherReplies
<1>4. CASE UNCHANGED vars
  BY <1>4 DEF vars, pageVars, ClientInv, TypeOK, SignedOut
<1> QED
  BY <1>1, <1>2, <1>3, <1>4 DEF Next, Replies

\* The invariant holds in every state, in whatever order replies arrive.
THEOREM Invariance == Spec => []ClientInv
BY InitInv, StepInv, PTL DEF Spec

-----------------------------------------------------------------------------
(* What follows. *)

\* The page's state and its requests are of their kind.
THEOREM TypeCorrect == Spec => []TypeOK
<1>1. ClientInv => TypeOK
  BY DEF ClientInv
<1> QED
  BY <1>1, Invariance, PTL

\* A visitor who is signed out sees nothing of his own, in whatever order the
\* replies arrive: those asked for before are outdated, those asked for
\* afterwards are refused.
THEOREM SignedOutSeesNothing == Spec => []SignedOutViewIsEmpty
<1>1. ASSUME ClientInv, identity = "anonymous", url = None
      PROVE  session = None /\ shown = [d \in Documents |-> None]
  <2>1. session = None
    BY <1>1 DEF ClientInv, SignedOut
  <2>2. \A d \in Documents : shown[d] = None
    BY <1>1, <2>1, KeyType DEF ClientInv, NothingWithoutKey
  <2> QED
    BY <1>1, <2>1, <2>2 DEF ClientInv, TypeOK
<1>2. ClientInv => SignedOutViewIsEmpty
  BY <1>1 DEF ClientInv, SignedOut, SignedOutViewIsEmpty
<1> QED
  BY <1>2, Invariance, PTL

\* The map is that of the answer under review, or on its way, or the page
\* says that it could not be had.
THEOREM MapBelongsToItsSession == Spec => []MapShowsItsSession
<1>1. ClientInv => MapShowsItsSession
  BY DEF ClientInv, Complete, MapShowsItsSession
<1> QED
  BY <1>1, Invariance, PTL

\* Applying a session shows no document that was not shown before.
LEMMA AppliedShows ==
    ASSUME NEW s, NEW rs, Apply(s, rs), NEW d \in Documents,
           shown \in [Documents -> Keys \cup {None}]
    PROVE  shown'[d] \in {None, shown[d]}
BY DEF Apply

\* Whatever the order of replies, only the documents of the session and the
\* execution that are open at that time are put on the page.
THEOREM LateRepliesAreDropped == Spec => LateDocumentsAreDropped
<1> DEFINE Fits == \A d \in Documents :
                       shown'[d] # shown[d] => shown'[d] \in {None, Key(d, session')}
<1>1. ASSUME ClientInv, Next PROVE Fits
  <2>0. shown \in [Documents -> Keys \cup {None}]
    BY <1>1 DEF ClientInv, TypeOK
  <2>1. ASSUME NEW s, NEW rs, Apply(s, rs) PROVE Fits
    BY <2>0, <2>1, AppliedShows
  <2>2. ASSUME UNCHANGED shown PROVE Fits
    BY <2>2
  <2>3. ASSUME NEW r \in pending, DocumentArrives(r) PROVE Fits
    <3>1. r.op \in Documents /\ r.of = Key(r.op, session) /\ session' = session
      BY <1>1, <2>3 DEF ClientInv, DocumentsAsked, DocumentArrives
    <3>2. shown' = [shown EXCEPT ![r.op] = r.of]
      BY <2>3 DEF DocumentArrives
    <3> QED
      BY <2>0, <3>1, <3>2
  <2>4. ASSUME NEW rs, SignOut(rs) PROVE Fits
    <3>1. UNCHANGED shown \/ Apply(None, Outdated(rs))
      BY <2>4 DEF SignOut
    <3> QED
      BY <2>1, <2>2, <3>1
  <2> HIDE DEF Fits
  <2>5. CASE Expire
    BY <2>2, <2>5 DEF Expire, pageVars
  <2>6. CASE Visitor
    <3>1. StartNewQuestion \/ UNCHANGED shown
      BY <2>6 DEF Visitor, RestoreSession, ConfirmDeletion, OpenExample, SubmitQuestion, Mutate
    <3> QED
      BY <2>1, <2>2, <3>1 DEF StartNewQuestion
  <2>7. ASSUME NEW r \in pending, NEW s \in Sessions,
               SessionArrives(r, s) \/ MutationArrives(r, s)
        PROVE  Fits
    BY <2>1, <2>7 DEF SessionArrives, MutationArrives
  <2>8. ASSUME NEW r \in pending,
               DeletionArrives(r) \/ AccountArrives(r) \/ Fails(r) \/ Ignored(r)
        PROVE  Fits
    BY <2>1, <2>2, <2>8 DEF DeletionArrives, AccountArrives, Fails, Ignored
  <2>9. ASSUME NEW r \in pending, Unauthorized(r) PROVE Fits
    BY <2>2, <2>4, <2>9 DEF Unauthorized
  <2> QED
    BY <1>1, <2>3, <2>5, <2>6, <2>7, <2>8, <2>9 DEF Next, Replies
<1>2. ASSUME UNCHANGED vars PROVE UNCHANGED <<session, shown>>
  BY <1>2 DEF vars, pageVars
<1>3. ClientInv /\ [Next]_vars => [Fits]_<<session, shown>>
  BY <1>1, <1>2
<1> QED
  BY <1>3, Invariance, PTL DEF Spec, LateDocumentsAreDropped
=============================================================================
