-------------------------------- MODULE Push --------------------------------
(***************************************************************************)
(* Pushing an app: the handlers of Packages, Builds and Apps at work on    *)
(* one cluster.  The client creates a package of its app, uploads the      *)
(* bits, creates a build of the package, and makes the droplet of the      *)
(* build the current one of the app; nothing holds it, or other clients,   *)
(* to that order.  The staging controller of cf-k8s-controllers takes the  *)
(* image that the package of a build has at the time, and the build        *)
(* succeeds, or fails.  Meanwhile kubectl deletes apps, packages and       *)
(* builds, and restores copies of them into other namespaces; the          *)
(* namespaces stay.  (Apps has the start that comes last.)                 *)
(***************************************************************************)
EXTENDS Cluster

CONSTANTS Uploads, Stagings, Changes,   \* requests, by the handlers that serve them
          AppGUIDs, PackageGUIDs, BuildGUIDs, Digests, Names,
          EnvSecret, NoImage, None

VARIABLES apps, packages, builds, registry,
          taken,                        \* taken[b][s]: the image that b of s was staged from
          uploads, upc, ustatus,        \* what the handlers of Packages hold
          stagings, bpc, bstatus,       \* of Builds
          changes, apc, astatus         \* of Apps

ofPackages == <<uploads, upc, ustatus>>
ofBuilds == <<stagings, bpc, bstatus>>
ofApps == <<changes, apc, astatus>>
vars == <<apps, packages, builds, registry, taken, ofPackages, ofBuilds, ofApps>>

\* An object, or what the handlers of another module read of it.
View(slot, object) == IF Exists(slot) THEN object ELSE slot

Staged(build) == ~build.staging /\ build.succeeded = "True"

P == INSTANCE Packages WITH
    Requests <- Uploads, requests <- uploads, pc <- upc, status <- ustatus,
    appSpaces <- [a \in AppGUIDs |-> Where(apps, a)]

B == INSTANCE Builds WITH
    Requests <- Stagings, requests <- stagings, pc <- bpc, status <- bstatus,
    packages <- [g \in PackageGUIDs |-> [s \in Spaces |->
                    View(packages[g][s], packages[g][s].app)]]

A == INSTANCE Apps WITH
    Requests <- Changes, requests <- changes, pc <- apc, status <- astatus,
    spaces <- {s \in Spaces : TRUE},
    secrets <- [a \in AppGUIDs |-> [s \in Spaces |-> Absent]],
    builds <- [b \in BuildGUIDs |-> [s \in Spaces |->
                  View(builds[b][s], [app |-> builds[b][s].app,
                                      staged |-> Staged(builds[b][s])])]]

ASSUME PushAssumption ==
    /\ NoImage \notin P!Images
    /\ None \notin AppGUIDs \cup PackageGUIDs \cup BuildGUIDs \cup Names \cup Spaces
    /\ None \notin A!Ops \cup B!Ops \cup B!BuildStates
    /\ {Absent, Deleted} \cap (P!Package \cup B!Build \cup A!App \cup A!Build) = {}
    /\ {Absent, Deleted} \cap [app : AppGUIDs, space : Spaces] = {}
    /\ {Absent, Deleted} \cap (AppGUIDs \cup {EnvSecret}) = {}
    /\ {Absent, Deleted, None} \cap Digests = {}

\* The apps are there; a package may be there already, without its bits.
Init ==
    /\ \E home \in [AppGUIDs -> Spaces], name \in [AppGUIDs -> Names] :
          /\ \A a, c \in AppGUIDs : name[a] = name[c] => a = c
          /\ apps = [a \in AppGUIDs |-> [s \in Spaces |->
                       IF s = home[a] THEN A!NewApp(name[a], FALSE) ELSE Absent]]
          /\ \/ packages = P!NoPackages
             \/ \E g \in PackageGUIDs, a \in AppGUIDs :
                   packages = [P!NoPackages EXCEPT ![g][home[a]] =
                                  [app |-> a, image |-> NoImage]]
    /\ builds = B!NoBuilds
    /\ registry = {}
    /\ taken = [b \in BuildGUIDs |-> [s \in Spaces |-> NoImage]]
    /\ uploads = [r \in Uploads |-> P!NoRequest]
    /\ stagings = [r \in Stagings |-> B!NoRequest]
    /\ changes = [r \in Changes |-> A!NoRequest]
    /\ upc = [r \in Uploads |-> "idle"] /\ ustatus = [r \in Uploads |-> "Pending"]
    /\ bpc = [r \in Stagings |-> "idle"] /\ bstatus = [r \in Stagings |-> "Pending"]
    /\ apc = [r \in Changes |-> "idle"] /\ astatus = [r \in Changes |-> "Pending"]
-----------------------------------------------------------------------------
(***************************************************************************)
(* The handlers                                                            *)
(***************************************************************************)
ServeUpload(r) ==
    /\ UNCHANGED <<apps, builds, taken, ofBuilds, ofApps>>
    /\ \/ \E a \in AppGUIDs : P!ReceiveCreate(r, a)
       \/ \E g \in PackageGUIDs, d \in Digests : P!ReceiveUpload(r, g, d)
       \/ P!HandlerStep(r)

ServeStaging(r) ==
    /\ UNCHANGED <<apps, packages, registry, taken, ofPackages, ofApps>>
    /\ \/ \E g \in PackageGUIDs : B!ReceiveCreate(r, g)
       \/ B!HandlerStep(r)

ServeChange(r) ==
    /\ UNCHANGED <<packages, builds, registry, taken, ofPackages, ofBuilds>>
    /\ \/ \E a \in AppGUIDs, b \in BuildGUIDs : A!ReceiveChange(r, "setDroplet", a, b)
       \/ A!HandlerStep(r)

\* One server has all the handlers.
Crash ==
    /\ UNCHANGED <<apps, packages, builds, registry, taken, uploads, stagings, changes>>
    /\ \/ \E r \in Uploads : P!InFlight(r)
       \/ \E r \in Stagings : B!InFlight(r)
       \/ \E r \in Changes : A!InFlight(r)
    /\ \/ P!Crashed(P!Writes)
       \/ (\A r \in Uploads : ~P!InFlight(r)) /\ UNCHANGED <<upc, ustatus>>
    /\ \/ B!Crashed(B!Writes)
       \/ (\A r \in Stagings : ~B!InFlight(r)) /\ UNCHANGED <<bpc, bstatus>>
    /\ \/ A!Crashed(A!Writes)
       \/ (\A r \in Changes : ~A!InFlight(r)) /\ UNCHANGED <<apc, astatus>>
-----------------------------------------------------------------------------
(***************************************************************************)
(* The staging controller, and kubectl                                     *)
(***************************************************************************)

\* A build whose package has bits is staged from them.
TakeImage(b, s) ==
    LET build == builds[b][s]
        package == packages[build.package][s] IN
    /\ Exists(build) /\ build.staging /\ taken[b][s] = NoImage
    /\ Exists(package) /\ package.image # NoImage
    /\ taken' = [taken EXCEPT ![b][s] = package.image]
    /\ UNCHANGED <<apps, packages, builds, registry, ofPackages, ofBuilds, ofApps>>

\* It succeeds with the image that it was staged from, or it fails.
FinishBuild(b, s) ==
    /\ UNCHANGED <<apps, packages, registry, taken, ofPackages, ofApps>>
    /\ \/ taken[b][s] # NoImage /\ B!SetConditions(b, s, FALSE, "True")
       \/ B!SetConditions(b, s, FALSE, "False")

\* kubectl deletes objects, or restores copies of them into other namespaces; the copy
\* of a build has yet to be staged there.
AppDeleted(a, s) ==
    /\ UNCHANGED <<packages, builds, registry, taken, ofPackages, ofBuilds>>
    /\ A!AppDeleted(a, s)

AppCopied(a, s, t) ==
    /\ UNCHANGED <<packages, builds, registry, taken, ofPackages, ofBuilds>>
    /\ A!AppCopied(a, s, t)

PackageDeleted(g, s) ==
    /\ UNCHANGED <<apps, builds, taken, ofBuilds, ofApps>>
    /\ P!PackageDeleted(g, s)

PackageCopied(g, s, t) ==
    /\ UNCHANGED <<apps, builds, taken, ofBuilds, ofApps>>
    /\ P!PackageCopied(g, s, t)

BuildDeleted(b, s) ==
    /\ UNCHANGED <<apps, packages, registry, taken, ofPackages, ofApps>>
    /\ B!BuildDeleted(b, s)

BuildCopied(b, s, t) ==
    /\ UNCHANGED <<apps, packages, registry, taken, ofPackages, ofApps>>
    /\ B!BuildCopied(b, s, t)

\* Every request was served and no write is on its way.
Quiescent ==
    /\ \A r \in Uploads : upc[r] = "done"
    /\ \A r \in Stagings : bpc[r] = "done"
    /\ \A r \in Changes : apc[r] = "done"
    /\ UNCHANGED vars

Next ==
    \/ \E r \in Uploads : ServeUpload(r)
    \/ \E r \in Stagings : ServeStaging(r)
    \/ \E r \in Changes : ServeChange(r)
    \/ Crash
    \/ \E b \in BuildGUIDs, s \in Spaces :
          TakeImage(b, s) \/ FinishBuild(b, s)
    \/ \E s, t \in Spaces :
          \/ \E a \in AppGUIDs : AppDeleted(a, s) \/ AppCopied(a, s, t)
          \/ \E g \in PackageGUIDs : PackageDeleted(g, s) \/ PackageCopied(g, s, t)
          \/ \E b \in BuildGUIDs : BuildDeleted(b, s) \/ BuildCopied(b, s, t)
    \/ Quiescent

Spec == Init /\ [][Next]_vars
-----------------------------------------------------------------------------
(***************************************************************************)
(* Properties                                                              *)
(***************************************************************************)
\* The build b was, as far as its slots say, built from the package g in s.
BuiltFrom(b, g, s) ==
    /\ builds[b][s] # Absent /\ packages[g][s] # Absent
    /\ Exists(builds[b][s]) => builds[b][s].package = g

\* The current droplet of an app is a build in the namespace of the app, where the
\* reference to it holds, or was one until it was deleted.  appSetCurrentDropletHandler
\* does not see to that: it looks the droplet up in every namespace, and compares nothing
\* but the GUID of the app.  It holds as long as kubectl has not put the app, or the
\* package of the droplet, into a second namespace, and fails in no other way: the
\* namespace goes from the app to its package and from there to the build.
DropletIsHere ==
    \A a \in AppGUIDs, s \in Spaces :
        LET b == apps[a][s].droplet IN
        (Exists(apps[a][s]) /\ b # None /\ builds[b][s] = Absent) =>
            \E t \in Spaces \ {s} :
                \/ apps[a][t] # Absent
                \/ \E g \in PackageGUIDs : BuiltFrom(b, g, t) /\ packages[g][s] # Absent

\* What an app runs once it is started was staged from bits that a client uploaded
\* for a package of this very app, and that the registry has in the repository of that
\* package: package, build and app are matched by three handlers, each against a record
\* that another one wrote.  A droplet that is not staged can only be a copy, and one of
\* the app all the same.
RunsOwnBits ==
    \A a \in AppGUIDs, s \in Spaces :
        LET b == apps[a][s].droplet
            build == builds[b][s] IN
        (Exists(apps[a][s]) /\ apps[a][s].droplet # None /\ Exists(build)) =>
            /\ build.app = a
            /\ Staged(build) \/ \E t \in Spaces \ {s} : builds[b][t] # Absent
            /\ Staged(build) =>
                  /\ taken[b][s] \in registry /\ taken[b][s].repo = build.package
                  /\ \E r \in Uploads : /\ uploads[r].guid = build.package
                                        /\ uploads[r].bits = taken[b][s].digest

\* A build of a package stages the bits that the client of an upload to it was told are
\* stored, unless another upload overlapped with that one, so that neither client had
\* been answered when the other came.  The build may be created before the bits are
\* there, or between two uploads: buildCreateHandler does not look at the state of the
\* package, and the controller reads it later.
StagesUploadedBits ==
    \A r \in Uploads, b \in BuildGUIDs, s \in Spaces :
        (/\ ustatus[r] = "OK" /\ uploads[r].space = s
         /\ Exists(builds[b][s]) /\ builds[b][s].package = uploads[r].guid
         /\ taken[b][s] # NoImage)
        => \E q \in Uploads :
              /\ uploads[q].guid = uploads[r].guid /\ uploads[q].space = s
              /\ uploads[q].bits = taken[b][s].digest
              /\ P!Overlap(q, r)
=============================================================================
