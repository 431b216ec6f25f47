------------------------------ MODULE MCBuilds ------------------------------
(* Small instances of Builds for TLC.  A variant picks a fixed namespace, so that *)
(* namespaces cannot be exchanged for one another.                                *)
EXTENDS Builds, TLC

Symmetry == Permutations(Requests) \cup Permutations(AppGUIDs) \cup Permutations(BuildGUIDs)
=============================================================================
