------------------------------- MODULE MCPush -------------------------------
(* A small instance of Push for TLC. *)
EXTENDS Push, TLC

Symmetry == Permutations(Spaces) \cup Permutations(Uploads) \cup Permutations(Digests)

\* No two namespaces have, or had, an object of one name.
InOneSpace(objects) ==
    \A o \in DOMAIN objects, s, t \in Spaces :
        s # t => Absent \in {objects[o][s], objects[o][t]}

\* Nothing was deleted.
Kept(objects) == \A o \in DOMAIN objects, s \in Spaces : objects[o][s] # Deleted

OneUpload == \E r \in Uploads : upc[r] = "idle"
NoChange == \A r \in Changes : apc[r] = "idle"

\* A bound on what happens in one behaviour: with one upload, objects of one kind are
\* put into a second namespace; with two uploads nothing is, or kubectl does what it does
\* to packages alone and no droplet is set.
FewMoves ==
    \/ InOneSpace(apps) /\ InOneSpace(packages) /\ InOneSpace(builds)
    \/ OneUpload /\ \/ InOneSpace(apps) /\ InOneSpace(packages)
                    \/ InOneSpace(apps) /\ InOneSpace(builds)
                    \/ InOneSpace(packages) /\ InOneSpace(builds)
    \/ InOneSpace(apps) /\ Kept(apps) /\ InOneSpace(builds) /\ Kept(builds) /\ NoChange
=============================================================================
