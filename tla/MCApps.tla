------------------------------- MODULE MCApps -------------------------------
(* Small instances of Apps for TLC. *)
EXTENDS AppsRefinement, TLC

Symmetry == Permutations(Requests) \cup Permutations(Spaces)
               \cup Permutations(AppGUIDs) \cup Permutations(BuildGUIDs)
=============================================================================
