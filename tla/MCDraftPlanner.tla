---------------------------- MODULE MCDraftPlanner ----------------------------
(* Instances of DraftPlanner for TLC. *)
EXTENDS DraftPlanner, TLC

CONSTANTS w1, w2, v1, v2

\* The second workflow validates on the first Catalog version only.
UnfitLater == {<<w2, v2>>}

\* Nothing tells sessions or tasks apart.
Symmetry == Permutations(Sessions) \cup Permutations(Tasks)
=============================================================================
