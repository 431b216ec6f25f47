----------------------------- MODULE MCPackages -----------------------------
(* Small instances of Packages, and of its refinement, for TLC. *)
EXTENDS PackagesRefinement
=============================================================================
