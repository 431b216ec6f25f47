---------------------------- MODULE PackageBits ----------------------------
(***************************************************************************)
(* What the upload endpoint promises of a package, without the registry,   *)
(* the pushes and the calls of the handler.  A package awaits its bits     *)
(* from its creation.  An upload is accepted at a moment at which the      *)
(* package awaits its bits, and refused as a second one only at a moment   *)
(* at which it holds some.  It takes effect at most once and as a whole:   *)
(* from then on the package holds the bits of this upload.  At that moment *)
(* its client, if it still waits, is told that they are stored; a client   *)
(* is never told so at any other.  An upload that failed for its client    *)
(* may be under way still, and take effect late.                           *)
(*                                                                         *)
(* Two uploads may both be accepted before one takes effect, so that a     *)
(* package can hold the bits of the one and then those of the other.       *)
(***************************************************************************)
EXTENDS Cluster

CONSTANTS Requests, PackageGUIDs, Digests, Awaiting, None

VARIABLES bits,      \* bits[g][s]: the bits of the package g of namespace s
          asked,     \* asked[r]: the package and the bits that the upload r names
          place,     \* place[r]: the namespace where r found the package
          stage,     \* "idle", "open", "accepted", "closed"
          answer     \* "none", "stored", "refused", "failed"

vars == <<bits, asked, place, stage, answer>>
uploads == <<asked, place, stage, answer>>

Held == Digests \cup {Awaiting}

Init ==
    /\ bits \in [PackageGUIDs -> [Spaces -> Held \cup {Absent}]]
    /\ asked = [r \in Requests |-> None]
    /\ place = [r \in Requests |-> None]
    /\ stage = [r \in Requests |-> "idle"]
    /\ answer = [r \in Requests |-> "none"]

Ask(r, g, d) ==
    /\ stage[r] = "idle"
    /\ asked' = [asked EXCEPT ![r] = [package |-> g, bits |-> d]]
    /\ \/ stage' = [stage EXCEPT ![r] = "open"] /\ UNCHANGED answer
       \/ /\ stage' = [stage EXCEPT ![r] = "closed"]
          /\ answer' = [answer EXCEPT ![r] = "failed"]
    /\ UNCHANGED <<bits, place>>

Accept(r, s) ==
    /\ stage[r] = "open" /\ answer[r] = "none"
    /\ bits[asked[r].package][s] = Awaiting
    /\ place' = [place EXCEPT ![r] = s]
    /\ stage' = [stage EXCEPT ![r] = "accepted"]
    /\ UNCHANGED <<bits, asked, answer>>

Refuse(r, s) ==
    /\ stage[r] = "open" /\ answer[r] = "none"
    /\ bits[asked[r].package][s] \in Digests
    /\ place' = [place EXCEPT ![r] = s]
    /\ stage' = [stage EXCEPT ![r] = "closed"]
    /\ answer' = [answer EXCEPT ![r] = "refused"]
    /\ UNCHANGED <<bits, asked>>

Store(r) ==
    LET g == asked[r].package
        s == place[r] IN
    /\ stage[r] = "accepted"
    /\ bits[g][s] \in Held
    /\ bits' = [bits EXCEPT ![g][s] = asked[r].bits]
    /\ stage' = [stage EXCEPT ![r] = "closed"]
    /\ answer' = [answer EXCEPT ![r] = IF @ = "none" THEN "stored" ELSE @]
    /\ UNCHANGED <<asked, place>>

\* Uploads fail for their clients, all those of a server that dies at once; the
\* ones in "late" may take effect all the same.
Fail(failed, late) ==
    /\ \A r \in failed : stage[r] \in {"open", "accepted"} /\ answer[r] = "none"
    /\ \A r \in late : stage[r] = "accepted"
    /\ stage' = [r \in Requests |-> IF r \in failed \ late THEN "closed" ELSE stage[r]]
    /\ answer' = [r \in Requests |-> IF r \in failed THEN "failed" ELSE answer[r]]
    /\ UNCHANGED <<bits, asked, place>>

\* An upload that failed for its client comes to nothing.
Drop(r) ==
    /\ stage[r] = "accepted" /\ answer[r] = "failed"
    /\ stage' = [stage EXCEPT ![r] = "closed"]
    /\ UNCHANGED <<bits, asked, place, answer>>

Created(g, s) ==
    /\ bits[g][s] = Absent
    /\ bits' = [bits EXCEPT ![g][s] = Awaiting]
    /\ UNCHANGED uploads

Removed(g, s) ==
    /\ bits[g][s] \in Held
    /\ bits' = [bits EXCEPT ![g][s] = Deleted]
    /\ UNCHANGED uploads

Copied(g, s, t) ==
    /\ bits[g][s] \in Held /\ bits[g][t] = Absent
    /\ bits' = [bits EXCEPT ![g][t] = bits[g][s]]
    /\ UNCHANGED uploads

Next ==
    \/ \E r \in Requests :
          \/ \E g \in PackageGUIDs, d \in Digests : Ask(r, g, d)
          \/ \E s \in Spaces : Accept(r, s) \/ Refuse(r, s)
          \/ Store(r) \/ Drop(r)
    \/ \E failed \in SUBSET Requests : \E late \in SUBSET failed : Fail(failed, late)
    \/ \E g \in PackageGUIDs, s \in Spaces :
          \/ Created(g, s) \/ Removed(g, s)
          \/ \E t \in Spaces : Copied(g, s, t)

Spec == Init /\ [][Next]_vars
=============================================================================
