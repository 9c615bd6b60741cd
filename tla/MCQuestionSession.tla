-------------------------- MODULE MCQuestionSession --------------------------
(* Instances of QuestionSession for TLC. *)
EXTENDS QuestionSession, TLC

\* Every request but the one that creates the session may perform any
\* operation, so they are interchangeable where only safety is checked.
Symmetry == Permutations(Requests \ {Creator})
=============================================================================
