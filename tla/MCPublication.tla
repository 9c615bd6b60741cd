--------------------------- MODULE MCPublication ---------------------------
(* Instances of Publication for TLC. *)
EXTENDS Publication, TLC

\* Processes are interchangeable, and so are sessions (all of them accepted)
\* and renderings; no run here checks liveness.
Symmetry == Permutations(Processes) \cup Permutations(Sessions)
                \cup Permutations(Renderings)
=============================================================================
