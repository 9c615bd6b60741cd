--------------------------- MODULE ReviewProtocol ---------------------------
(***************************************************************************)
(* What a Question Session promises its reviewer, without storage, threads *)
(* or failures.  A question has one draft under review at a time; the      *)
(* draft is executed, the execution ends in a Candidate Answer or in a     *)
(* failure, and the reviewer decides an answer at most once.  Planning     *)
(* again starts over with a new draft and is no longer possible once an    *)
(* answer is decided.                                                      *)
(*                                                                         *)
(* QuestionSession implements this protocol as long as one writer at a     *)
(* time holds the session document (its property ImplementsProtocol).      *)
(***************************************************************************)
EXTENDS Naturals

VARIABLES
    stage,      \* where the draft under review stands
    revision    \* the number of the draft under review, 0 without a session

vars == <<stage, revision>>

Undecided == {"drafted", "running", "answered", "failed"}
Decided   == {"accepted", "rejected"}
Stages    == {"absent"} \cup Undecided \cup Decided

Init ==
    /\ stage = "absent"
    /\ revision = 0

\* A draft is planned: the first one opens the session, a later one replaces
\* its predecessor together with everything the predecessor's run produced.
Draft ==
    /\ stage \in {"absent"} \cup Undecided
    /\ stage' = "drafted"
    /\ revision' = revision + 1

\* The draft is authorized and starts to execute.
Start ==
    /\ stage = "drafted"
    /\ stage' = "running"
    /\ UNCHANGED revision

\* The execution of the draft under review ends, with or without an answer.
Finish ==
    /\ stage = "running"
    /\ stage' \in {"answered", "failed"}
    /\ UNCHANGED revision

\* The reviewer decides the Candidate Answer.
Decide ==
    /\ stage = "answered"
    /\ stage' \in Decided
    /\ UNCHANGED revision

\* The session is deleted, or its retention ends and nobody is about to write
\* it anew.
Discard ==
    /\ stage # "absent"
    /\ stage' = "absent"
    /\ revision' = 0

Next == Draft \/ Start \/ Finish \/ Decide \/ Discard

Spec == Init /\ [][Next]_vars
=============================================================================
