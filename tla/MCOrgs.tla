------------------------------- MODULE MCOrgs -------------------------------
(* Small instances of Orgs for TLC. *)
EXTENDS Orgs, TLC

CONSTANT AccountSpaces   \* the namespaces of the service accounts

\* Service accounts of one name, in different namespaces.
Namesakes == {[kind |-> "ServiceAccount", namespace |-> space, name |-> "cli"] :
                 space \in AccountSpaces}

Symmetry == Permutations(Requests) \cup Permutations(GUIDs) \cup Permutations(Names)
               \cup Permutations(AccountSpaces)
=============================================================================
