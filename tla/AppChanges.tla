----------------------------- MODULE AppChanges -----------------------------
(***************************************************************************)
(* What the three changes of an app promise, without the calls of their    *)
(* handlers: a start, a stop and a change of the current droplet test and  *)
(* set the record of the app in one step.  A start sets it only if the app *)
(* has a droplet at that moment, and a droplet is set only if it was       *)
(* staged for this app; the rest of the record stays.  The client, if it   *)
(* still waits, is then told that the change is made, and is never told so *)
(* at any other moment; and it is refused only at a moment that gives      *)
(* cause for it.  A change that failed for its client may be under way     *)
(* still, and be made late.                                                *)
(***************************************************************************)
EXTENDS Cluster

CONSTANTS Requests, AppGUIDs, Names, BuildGUIDs, None

VARIABLES apps,      \* apps[a][s]: the app a of the namespace s
          staged,    \* <<a, b>>: b was staged for a, and may be gone
          droplets,  \* <<a, b>>: b can be found, and is a droplet of a
          asked,     \* asked[r]: the change that r asks for
          place,     \* place[r]: the namespace where r found the app
          stage,     \* "idle", "open", "accepted", "closed"
          answer     \* "none", "made", "refused", "failed"

changes == <<asked, place, stage, answer>>
vars == <<apps, staged, droplets, changes>>

App == [name : Names, state : {"STARTED", "STOPPED"}, droplet : BuildGUIDs \cup {None},
        env : BOOLEAN]
Slots == App \cup {Absent, Deleted}
Change == [op : {"setDroplet", "start", "stop"}, app : AppGUIDs,
           droplet : BuildGUIDs \cup {None}]
Pairs == AppGUIDs \X BuildGUIDs

IsNew(app) == Exists(app) /\ app.state = "STOPPED" /\ app.droplet = None

Init ==
    /\ apps \in [AppGUIDs -> [Spaces -> Slots]]
    /\ staged \subseteq Pairs /\ droplets \subseteq staged
    /\ \A a \in AppGUIDs, s \in Spaces : Exists(apps[a][s]) =>
          /\ apps[a][s].state = "STARTED" => apps[a][s].droplet # None
          /\ apps[a][s].droplet # None => <<a, apps[a][s].droplet>> \in staged
    /\ asked = [r \in Requests |-> None]
    /\ place = [r \in Requests |-> None]
    /\ stage = [r \in Requests |-> "idle"]
    /\ answer = [r \in Requests |-> "none"]

Ask(r, change) ==
    /\ stage[r] = "idle"
    /\ asked' = [asked EXCEPT ![r] = change]
    /\ \/ stage' = [stage EXCEPT ![r] = "open"] /\ UNCHANGED answer
       \/ /\ stage' = [stage EXCEPT ![r] = "closed"]
          /\ answer' = [answer EXCEPT ![r] = "failed"]
    /\ UNCHANGED <<apps, staged, droplets, place>>

Accept(r, s) ==
    /\ stage[r] = "open" /\ answer[r] = "none"
    /\ Exists(apps[asked[r].app][s])
    /\ place' = [place EXCEPT ![r] = s]
    /\ stage' = [stage EXCEPT ![r] = "accepted"]
    /\ UNCHANGED <<apps, staged, droplets, asked, answer>>

Allowed(change, app) ==
    /\ change.op = "start" => app.droplet # None
    /\ change.op = "setDroplet" => <<change.app, change.droplet>> \in staged

Made(change, app) ==
    [app EXCEPT !.state = CASE change.op = "start" -> "STARTED"
                            [] change.op = "stop" -> "STOPPED"
                            [] change.op = "setDroplet" -> @,
                !.droplet = IF change.op = "setDroplet" THEN change.droplet ELSE @]

Make(r) ==
    LET a == asked[r].app
        s == place[r] IN
    /\ stage[r] = "accepted"
    /\ Exists(apps[a][s]) /\ Allowed(asked[r], apps[a][s])
    /\ apps' = [apps EXCEPT ![a][s] = Made(asked[r], apps[a][s])]
    /\ stage' = [stage EXCEPT ![r] = "closed"]
    /\ answer' = [answer EXCEPT ![r] = IF @ = "none" THEN "made" ELSE @]
    /\ UNCHANGED <<staged, droplets, asked, place>>

Refused(r) ==
    /\ answer[r] = "none"
    /\ stage' = [stage EXCEPT ![r] = "closed"]
    /\ answer' = [answer EXCEPT ![r] = "refused"]
    /\ UNCHANGED <<apps, staged, droplets, asked>>

\* There is no such app.
RefuseMissing(r) ==
    /\ stage[r] = "open"
    /\ \A s \in Spaces : ~Exists(apps[asked[r].app][s])
    /\ Refused(r) /\ UNCHANGED place

\* The app has no droplet to start.
RefuseStart(r, s) ==
    /\ stage[r] = "open" /\ asked[r].op = "start"
    /\ Exists(apps[asked[r].app][s]) /\ apps[asked[r].app][s].droplet = None
    /\ Refused(r) /\ place' = [place EXCEPT ![r] = s]

\* There is no such droplet of this app.
RefuseDroplet(r) ==
    /\ stage[r] = "accepted" /\ asked[r].op = "setDroplet"
    /\ <<asked[r].app, asked[r].droplet>> \notin droplets
    /\ Refused(r) /\ UNCHANGED place

\* Changes fail for their clients, all those of a server that dies at once; the ones
\* in "late" may be made all the same.
Fail(failed, late) ==
    /\ \A r \in failed : stage[r] \in {"open", "accepted"} /\ answer[r] = "none"
    /\ \A r \in late : stage[r] = "accepted"
    /\ stage' = [r \in Requests |-> IF r \in failed \ late THEN "closed" ELSE stage[r]]
    /\ answer' = [r \in Requests |-> IF r \in failed THEN "failed" ELSE answer[r]]
    /\ UNCHANGED <<apps, staged, droplets, asked, place>>

\* A change that failed for its client comes to nothing.
Drop(r) ==
    /\ stage[r] = "accepted" /\ answer[r] = "failed"
    /\ stage' = [stage EXCEPT ![r] = "closed"]
    /\ UNCHANGED <<apps, staged, droplets, asked, place, answer>>

\* Apps are created, deleted for good and copied; no one else changes one.
Evolves(slot, next, others) ==
    \/ next = slot
    \/ Exists(slot) /\ next = Deleted
    \/ slot = Absent /\ (IsNew(next) \/ (Exists(next) /\ next \in others))

Others ==
    /\ apps' \in [AppGUIDs -> [Spaces -> Slots]]
    /\ \A a \in AppGUIDs, s \in Spaces :
          Evolves(apps[a][s], apps'[a][s], {apps[a][t] : t \in Spaces})
    /\ staged' \subseteq Pairs /\ staged \subseteq staged' /\ droplets' \subseteq staged'
    /\ UNCHANGED changes

Next ==
    \/ \E r \in Requests :
          \/ \E change \in Change : Ask(r, change)
          \/ \E s \in Spaces : Accept(r, s) \/ RefuseStart(r, s)
          \/ Make(r) \/ RefuseMissing(r) \/ RefuseDroplet(r) \/ Drop(r)
    \/ \E failed \in SUBSET Requests : \E late \in SUBSET failed : Fail(failed, late)
    \/ Others

Spec == Init /\ [][Next]_vars
=============================================================================
