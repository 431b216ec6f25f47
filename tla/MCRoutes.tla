------------------------------ MODULE MCRoutes ------------------------------
(* Small instances of Routes for TLC. *)
EXTENDS Routes, TLC

Symmetry == Permutations(Requests) \cup Permutations(Spaces)
               \cup Permutations(RouteGUIDs) \cup Permutations(DomainGUIDs)
               \cup Permutations(Names) \cup Permutations(AppGUIDs)
=============================================================================
