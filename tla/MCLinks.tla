------------------------------- MODULE MCLinks -------------------------------
(* Small instances of Links for TLC. *)
EXTENDS Links, TLC

Symmetry == Permutations(AppGUIDs)
=============================================================================
