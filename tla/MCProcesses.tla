---------------------------- MODULE MCProcesses ----------------------------
(* Small instances of Processes for TLC. *)
EXTENDS Processes, TLC

Symmetry == Permutations(Requests) \cup Permutations(Spaces)
               \cup Permutations(AppGUIDs)
=============================================================================
