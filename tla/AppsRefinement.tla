--------------------------- MODULE AppsRefinement ---------------------------
(***************************************************************************)
(* The handlers of Apps implement AppChanges: what they read of an app and *)
(* of a droplet before they patch is as good as if they read it when the   *)
(* patch lands.                                                            *)
(***************************************************************************)
EXTENDS Apps

\* b was staged as a build of a; a build that was deleted does not tell whose it was.
WasDropletIn(store, b, a) ==
    \E t \in Spaces : \/ store[b][t] = Deleted
                      \/ /\ Exists(store[b][t])
                         /\ store[b][t].staged /\ store[b][t].app = a

WasDropletOf(b, a) == WasDropletIn(builds, b, a)

IsDropletOf(b, a) ==
    \E s \in Spaces : /\ FoundIn(builds, b, s)
                      /\ builds[b][s].staged /\ builds[b][s].app = a

IsChange(r) == requests[r].op \in {"setDroplet", "start", "stop"}

AskedOf(r) ==
    IF IsChange(r)
    THEN [op |-> requests[r].op, app |-> requests[r].app, droplet |-> requests[r].droplet]
    ELSE None

PlaceOf(r) == IF IsChange(r) THEN requests[r].space ELSE None

StageOf(r) ==
    IF ~IsChange(r) THEN "idle"
    ELSE IF pc[r] = "fetchApp" THEN "open"
    ELSE IF pc[r] \in {"fetchDroplet", "patch"} THEN "accepted"
    ELSE "closed"

\* A body that is refused (422) is, before any app is looked for.
AnswerOf(r) ==
    IF ~IsChange(r) \/ status[r] = "Pending" THEN "none"
    ELSE IF status[r] = "OK" THEN "made"
    ELSE IF \/ status[r] = "ResourceNotFound"
            \/ status[r] = "UnprocessableEntity" /\ requests[r].space # None THEN "refused"
    ELSE "failed"

Staged == {p \in AppGUIDs \X BuildGUIDs : WasDropletOf(p[2], p[1])}
Droplets == {p \in AppGUIDs \X BuildGUIDs : IsDropletOf(p[2], p[1])}
Asked == [r \in Requests |-> AskedOf(r)]
Place == [r \in Requests |-> PlaceOf(r)]
Stage == [r \in Requests |-> StageOf(r)]
Answer == [r \in Requests |-> AnswerOf(r)]

Promise == INSTANCE AppChanges WITH
    staged <- Staged, droplets <- Droplets,
    asked <- Asked, place <- Place, stage <- Stage, answer <- Answer

\* A start, a stop and a change of the droplet are made in one step each, if their
\* client is told so, although the handlers check what they read calls before: the
\* app and the droplet may be written by others in between.
ChangesAreAtomic == Promise!Spec
=============================================================================
