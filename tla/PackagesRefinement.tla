------------------------- MODULE PackagesRefinement -------------------------
(***************************************************************************)
(* The handlers of Packages implement PackageBits.  The bits of a package  *)
(* are the content of its image, provided that the registry holds the      *)
(* image for it: an image that the registry does not hold maps to no bits  *)
(* at all, and no step of PackageBits leads there.                         *)
(***************************************************************************)
EXTENDS Packages

CONSTANTS Awaiting, NoBits

ASSUME RefinementAssumption ==
    /\ {Awaiting, NoBits, Absent, Deleted, None} \cap Digests = {}
    /\ Awaiting \notin {NoBits, Absent, Deleted} /\ NoBits \notin {Absent, Deleted}

BitsOf(g, s) ==
    LET slot == packages[g][s] IN
    IF ~Exists(slot) THEN slot
    ELSE IF slot.image = NoImage THEN Awaiting
    ELSE IF Stored(g, s) THEN slot.image.digest
    ELSE NoBits

IsUpload(r) == requests[r].bits # None

AskedOf(r) ==
    IF IsUpload(r) THEN [package |-> requests[r].guid, bits |-> requests[r].bits] ELSE None

PlaceOf(r) == IF IsUpload(r) THEN requests[r].space ELSE None

StageOf(r) ==
    IF ~IsUpload(r) \/ pc[r] = "idle" THEN "idle"
    ELSE IF pc[r] = "fetch" THEN "open"
    ELSE IF pc[r] \in {"auth", "push", "patch"} THEN "accepted"
    ELSE "closed"

AnswerOf(r) ==
    IF ~IsUpload(r) \/ status[r] = "Pending" THEN "none"
    ELSE IF status[r] = "OK" THEN "stored"
    ELSE IF status[r] = "PackageBitsAlreadyUploaded" THEN "refused"
    ELSE "failed"

Bits == [g \in PackageGUIDs |-> [s \in Spaces |-> BitsOf(g, s)]]
Asked == [r \in Requests |-> AskedOf(r)]
Place == [r \in Requests |-> PlaceOf(r)]
Stage == [r \in Requests |-> StageOf(r)]
Answer == [r \in Requests |-> AnswerOf(r)]

Promise == INSTANCE PackageBits WITH
    bits <- Bits, asked <- Asked, place <- Place, stage <- Stage, answer <- Answer

\* The two handlers keep the promise of PackageBits, whatever fails, is lost or
\* lands late, and however requests interleave: they take effect at one moment.
UploadsAreAtomic == Promise!Spec
=============================================================================
