----------------------------- MODULE MCPayloads -----------------------------
(* Payloads for TLC: it has no constants, and finitely many bodies. *)
EXTENDS Payloads
=============================================================================
