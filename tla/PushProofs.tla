----------------------------- MODULE PushProofs -----------------------------
(***************************************************************************)
(* Proofs about Push, for any number of requests, apps, packages and       *)
(* builds.  What the handlers of Packages do on their own is not proved    *)
(* again: every step of Push is a step of Packages, or none of its         *)
(* business, so that the invariant of PackagesProofs holds.                *)
(***************************************************************************)
EXTENDS Push, TLAPS

\* What PackageBits says of a package without bits, or whose bits the registry lacks.
Awaiting == CHOOSE x : x \notin Digests \cup {Absent, Deleted, None}
NoBits == CHOOSE x : x \notin Digests \cup {Absent, Deleted, None, Awaiting}

PP == INSTANCE PackagesProofs WITH
    Requests <- Uploads, requests <- uploads, pc <- upc, status <- ustatus,
    appSpaces <- [a \in AppGUIDs |-> Where(apps, a)]

\* What Builds sees of the packages, and Apps of the builds.
PackageView == [g \in PackageGUIDs |-> [s \in Spaces |->
                   View(packages[g][s], packages[g][s].app)]]

DropletView == [b \in BuildGUIDs |-> [s \in Spaces |->
                   View(builds[b][s], [app |-> builds[b][s].app,
                                       staged |-> Staged(builds[b][s])])]]

BP == INSTANCE BuildsProofs WITH
    Requests <- Stagings, requests <- stagings, pc <- bpc, status <- bstatus,
    packages <- PackageView

AP == INSTANCE AppsProofs WITH
    Requests <- Changes, requests <- changes, pc <- apc, status <- astatus,
    spaces <- {s \in Spaces : TRUE},
    secrets <- [a \in AppGUIDs |-> [s \in Spaces |-> Absent]],
    builds <- DropletView

-----------------------------------------------------------------------------
(***************************************************************************)
(* The inductive invariant                                                 *)
(***************************************************************************)
\* An app, as long as it is there, is one: its slots say nothing of each other.
AppsInv == apps \in [AppGUIDs -> [Spaces -> A!App \cup {Absent, Deleted}]]

\* The package g was created beside the app a, wherever copies of both went since.
Beside(g, a) == \E s \in Spaces : apps[a][s] # Absent /\ packages[g][s] # Absent

PackageInv ==
    \A g \in PackageGUIDs, s \in Spaces :
        Exists(packages[g][s]) => Beside(g, packages[g][s].app)

UploadInv ==
    \A r \in Uploads : upc[r] = "create" => apps[uploads[r].app][uploads[r].space] # Absent

\* An image was pushed by an upload to the package whose repository it is in.
Pushed(image) ==
    \E q \in Uploads : /\ upc[q] \in {"patch", "done"}
                       /\ uploads[q].guid = image.repo /\ uploads[q].bits = image.digest

RegistryInv == \A image \in registry : Pushed(image)

\* The build b was created beside the package g of the app a, and its copies name both.
MadeOf(b, g, a) ==
    /\ Beside(g, a)
    /\ \E s \in Spaces : builds[b][s] # Absent /\ packages[g][s] # Absent
    /\ \A s \in Spaces :
          Exists(builds[b][s]) => builds[b][s].package = g /\ builds[b][s].app = a

\* What b of s was staged from is an image of its package, put there by its uploads.
TakenWell(b, s) ==
    LET build == builds[b][s]
        image == taken[b][s] IN
    /\ image # NoImage => image \in registry /\ image.repo = build.package
                          /\ PP!Origin(build.package, s, image)
    /\ Staged(build) => image # NoImage

BuildsInv ==
    /\ builds \in [BuildGUIDs -> [Spaces -> B!Build \cup {Absent, Deleted}]]
    /\ taken \in [BuildGUIDs -> [Spaces -> P!Images \cup {NoImage}]]
    /\ \A b \in BuildGUIDs, s \in Spaces :
          /\ builds[b][s] # Absent => \E g \in PackageGUIDs, a \in AppGUIDs : MadeOf(b, g, a)
          /\ builds[b][s] = Absent => taken[b][s] = NoImage
          /\ Exists(builds[b][s]) => TakenWell(b, s)

\* A handler about to create a build holds a name nobody has used.
StagingHeld(r) ==
    /\ bpc[r] # "idle" => stagings[r].op = "createBuild"
    /\ bpc[r] = "fetchPackage" => stagings[r].package \in PackageGUIDs
    /\ bpc[r] = "create" =>
          /\ stagings[r].package \in PackageGUIDs /\ stagings[r].build \in BuildGUIDs
          /\ stagings[r].space \in Spaces /\ stagings[r].app \in AppGUIDs
          /\ \A s \in Spaces : builds[stagings[r].build][s] = Absent
          /\ packages[stagings[r].package][stagings[r].space] # Absent
          /\ Beside(stagings[r].package, stagings[r].app)
          /\ \A q \in Stagings \ {r} :
                bpc[q] = "create" => stagings[q].build # stagings[r].build

StagingInv ==
    /\ stagings \in [Stagings -> B!Request]
    /\ bpc \in [Stagings -> {"idle", "fetchPackage", "create", "done"}]
    /\ \A r \in Stagings : StagingHeld(r)

\* The build b is of the app a, and was staged before any copy was made of it.
DropletOf(b, a) ==
    /\ \E g \in PackageGUIDs : MadeOf(b, g, a)
    /\ \A s \in Spaces : Exists(builds[b][s]) =>
          Staged(builds[b][s]) \/ \E t \in Spaces \ {s} : builds[b][t] # Absent

DropletInv ==
    \A a \in AppGUIDs, s \in Spaces :
        (Exists(apps[a][s]) /\ apps[a][s].droplet # None) => DropletOf(apps[a][s].droplet, a)

ChangeHeld(r) ==
    /\ apc[r] # "idle" => /\ changes[r].op = "setDroplet" /\ changes[r].app \in AppGUIDs
                          /\ changes[r].droplet \in BuildGUIDs
    /\ apc[r] \in {"fetchDroplet", "patch"} => changes[r].space \in Spaces
    /\ apc[r] = "patch" => DropletOf(changes[r].droplet, changes[r].app)

ChangeInv ==
    /\ changes \in [Changes -> A!Request]
    /\ apc \in [Changes -> {"idle", "fetchApp", "fetchDroplet", "patch", "done"}]
    /\ \A r \in Changes : ChangeHeld(r)

\* What PackagesProofs proves of Packages, and uses for that.
PackagesInv == PP!IInv /\ PP!MapInv /\ PP!OriginInv

IInv ==
    /\ PackagesInv /\ AppsInv /\ PackageInv /\ UploadInv /\ RegistryInv
    /\ BuildsInv /\ StagingInv /\ DropletInv /\ ChangeInv
-----------------------------------------------------------------------------
(***************************************************************************)
(* What one step does to the apps, and to a change of one                  *)
(***************************************************************************)
\* The handlers of Packages, Builds and Apps leave what is not theirs alone.
OthersThanApps == UNCHANGED <<packages, builds, registry, taken, ofPackages, ofBuilds>>

Patches(r) ==
    LET a == changes[r].app
        s == changes[r].space IN
    /\ apc[r] = "patch" /\ Exists(apps[a][s])
    /\ apps' = [apps EXCEPT ![a][s] = [apps[a][s] EXCEPT !.droplet = changes[r].droplet]]
    /\ OthersThanApps

\* q goes on as it is, or is over.
ChangeStays(q) ==
    /\ changes'[q] = changes[q]
    /\ apc'[q] = apc[q] \/ (apc[q] # "idle" /\ apc'[q] = "done")

ChangeArrives(q) ==
    /\ apc[q] = "idle" /\ apc'[q] \in {"fetchApp", "done"}
    /\ changes'[q] \in A!Request /\ changes'[q].op = "setDroplet"
    /\ changes'[q].app \in AppGUIDs /\ changes'[q].droplet \in BuildGUIDs

AppLocated(q) ==
    /\ apc[q] = "fetchApp" /\ apc'[q] \in {"fetchDroplet", "done"} /\ UNCHANGED <<apps, builds>>
    /\ changes'[q] \in A!Request /\ changes'[q].op = changes[q].op
    /\ changes'[q].app = changes[q].app /\ changes'[q].droplet = changes[q].droplet
    /\ changes'[q].space \in Spaces

DropletFound(q) ==
    /\ apc[q] = "fetchDroplet" /\ apc'[q] = "patch" /\ changes'[q] = changes[q]
    /\ UNCHANGED <<apps, builds>>
    /\ \E s \in Spaces : LET build == builds[changes[q].droplet][s] IN
          /\ Exists(build) /\ build.app = changes[q].app /\ Staged(build)
          /\ \A t \in Spaces : Exists(builds[changes[q].droplet][t]) => t = s

ChangeSteps(q) ==
    ChangeStays(q) \/ ChangeArrives(q) \/ AppLocated(q) \/ DropletFound(q)

LEMMA ServeChangeSteps ==
  ASSUME BuildsInv, ChangeInv, NEW r \in Changes, ServeChange(r)
  PROVE  /\ UNCHANGED apps \/ Patches(r)
         /\ OthersThanApps
         /\ ChangeSteps(r)
         /\ \A q \in Changes \ {r} : ChangeStays(q)
<1>0. /\ changes \in [Changes -> A!Request] /\ changes[r] \in A!Request /\ ChangeHeld(r)
      /\ apc \in [Changes -> {"idle", "fetchApp", "fetchDroplet", "patch", "done"}]
      /\ OthersThanApps
  BY DEF ChangeInv, ServeChange, OthersThanApps
<1> USE DEF A!At, A!Pending, A!Call, A!Reply, A!Landed, A!cluster, A!Writes
<1> DEFINE Goal == (UNCHANGED apps \/ Patches(r)) /\ ChangeSteps(r)
                   /\ \A q \in Changes \ {r} : ChangeStays(q)
<1> SUFFICES Goal
  BY <1>0
<1>1. ASSUME NEW a \in AppGUIDs, NEW b \in BuildGUIDs, A!ReceiveChange(r, "setDroplet", a, b)
      PROVE  Goal
  <2> DEFINE request == [A!NoRequest EXCEPT !.op = "setDroplet", !.app = a, !.droplet = b,
                             !.after = {q \in Changes : A!Answered(q)}]
  <2>1. /\ request \in A!Request /\ request.op = "setDroplet"
        /\ request.app = a /\ request.droplet = b
    BY DEF A!NoRequest, A!Request, A!Ops
  <2>2. /\ UNCHANGED apps /\ changes' = [changes EXCEPT ![r] = request]
        /\ apc[r] = "idle" /\ \E p \in {"fetchApp", "done"} : apc' = [apc EXCEPT ![r] = p]
    BY <1>1 DEF A!ReceiveChange, A!Receive
  <2> HIDE DEF request
  <2> QED
    BY <1>0, <2>1, <2>2 DEF ChangeArrives, ChangeSteps, ChangeStays
<1>2. ASSUME NEW p, A!ReadFails(r, p), p # "idle" PROVE Goal
  BY <1>0, <1>2 DEF A!ReadFails, ChangeStays, ChangeSteps
<1>3. CASE A!FetchApp(r)
  <2> DEFINE a == changes[r].app
  <2>0. apc[r] = "fetchApp" /\ UNCHANGED apps /\ changes[r].op = "setDroplet"
    BY <1>0, <1>3 DEF A!FetchApp, ChangeHeld
  <2>1. CASE UNCHANGED changes /\ \E answer : A!Reply(r, answer)
    BY <1>0, <2>0, <2>1 DEF ChangeStays, ChangeSteps
  <2>2. ASSUME NEW s \in Spaces, A!FoundIn(apps, a, s), A!Call(r, "fetchDroplet"),
               changes' = [changes EXCEPT ![r].space = s]
        PROVE  Goal
    <3>2. /\ changes'[r] \in A!Request /\ changes'[r].op = changes[r].op
          /\ changes'[r].app = a /\ changes'[r].droplet = changes[r].droplet
          /\ changes'[r].space = s
      BY <1>0, <2>2 DEF A!Request
    <3>3. \A q \in Changes \ {r} : ChangeStays(q)
      BY <1>0, <2>2 DEF ChangeStays
    <3>4. AppLocated(r)
      BY <1>0, <2>0, <2>2, <3>2 DEF AppLocated, OthersThanApps
    <3> QED
      BY <2>0, <3>3, <3>4 DEF ChangeSteps
  <2> HIDE DEF Goal
  <2> QED
    BY <1>3, <2>0, <2>1, <2>2 DEF A!FetchApp
<1>4. CASE A!FetchDroplet(r)
  <2> DEFINE d == changes[r].droplet
  <2>0. apc[r] = "fetchDroplet" /\ UNCHANGED <<apps, builds, changes>> /\ d \in BuildGUIDs
    BY <1>0, <1>4 DEF A!FetchDroplet, ChangeHeld, OthersThanApps
  <2>1. CASE \E answer : A!Reply(r, answer)
    BY <1>0, <2>0, <2>1 DEF ChangeStays, ChangeSteps
  <2>2. ASSUME NEW s \in Spaces, A!Call(r, "patch"),
               LET view == [b \in BuildGUIDs |-> [t \in Spaces |->
                              View(builds[b][t], [app |-> builds[b][t].app,
                                                  staged |-> Staged(builds[b][t])])]]
               IN  A!FoundIn(view, d, s) /\ A!OwnDroplet(view[d][s], changes[r].app)
        PROVE  Goal
    <3>1. Exists(builds[d][s]) /\ \A t \in Spaces : Exists(builds[d][t]) => t = s
      <4>1. \A t \in Spaces : Exists(builds[d][t]) =>
              View(builds[d][t], [app |-> builds[d][t].app, staged |-> Staged(builds[d][t])])
                \in A!Build
        BY <2>0 DEF BuildsInv, A!Build, B!Build, View, Exists, Staged
      <4> QED
        BY <2>0, <2>2, <4>1, PushAssumption DEF A!FoundIn, A!Where, A!Exists, Exists, View
    <3>2. builds[d][s].app = changes[r].app /\ Staged(builds[d][s])
      BY <2>0, <2>2, <3>1 DEF A!OwnDroplet, View
    <3>3. DropletFound(r)
      BY <1>0, <2>0, <2>2, <3>1, <3>2 DEF DropletFound
    <3> QED
      BY <1>0, <2>0, <2>2, <3>3 DEF ChangeSteps, ChangeStays
  <2> HIDE DEF Goal
  <2> QED
    BY <1>4, <2>1, <2>2 DEF A!FetchDroplet
<1>5. CASE A!PatchApp(r)
  <2>1. Patches(r)
    BY <1>0, <1>5 DEF A!PatchApp, A!Changed, A!Exists, Exists, Patches, ChangeHeld
  <2>2. \A q \in Changes : ChangeStays(q)
    BY <1>0, <1>5 DEF A!PatchApp, ChangeStays
  <2> QED
    BY <2>1, <2>2 DEF ChangeSteps
<1>6. CASE A!RefuseWrite(r) \/ A!LoseAnswer(r)
  BY <1>0, <1>6 DEF A!RefuseWrite, A!LoseAnswer, A!AnswerLost, ChangeStays, ChangeSteps
<1>7. ~A!FetchNamespace(r) /\ ~A!CreateSecret(r) /\ ~A!CreateApp(r) /\ ~A!RefuseDuplicate(r)
  BY <1>0 DEF A!FetchNamespace, A!CreateSecret, A!CreateApp, A!RefuseDuplicate
<1> HIDE DEF Goal
<1> QED
  BY <1>1, <1>2, <1>3, <1>4, <1>5, <1>6, <1>7 DEF ServeChange, A!HandlerStep

\* The steps that are no change of an app.
OtherSteps ==
    \/ \E r \in Uploads : ServeUpload(r)
    \/ \E r \in Stagings : ServeStaging(r)
    \/ Crash
    \/ \E b \in BuildGUIDs, s, t \in Spaces :
          TakeImage(b, s) \/ FinishBuild(b, s) \/ BuildDeleted(b, s) \/ BuildCopied(b, s, t)
    \/ \E g \in PackageGUIDs, s, t \in Spaces : PackageDeleted(g, s) \/ PackageCopied(g, s, t)
    \/ UNCHANGED vars

LEMMA OthersChangeNoApp ==
  ASSUME ChangeInv, OtherSteps
  PROVE  UNCHANGED apps /\ \A q \in Changes : ChangeStays(q)
<1>0. apc \in [Changes -> {"idle", "fetchApp", "fetchDroplet", "patch", "done"}]
  BY DEF ChangeInv
<1>1. CASE Crash
  BY <1>0, <1>1 DEF Crash, A!Crashed, A!InFlight, A!Arrived, ChangeStays
<1>2. CASE UNCHANGED <<apps, ofApps>>
  BY <1>2 DEF ofApps, ChangeStays
<1> QED
  BY <1>1, <1>2 DEF OtherSteps, ServeUpload, ServeStaging, TakeImage, FinishBuild, BuildDeleted,
                    BuildCopied, PackageDeleted, PackageCopied, vars

\* kubectl deletes an app, or copies it.
AppMoves(a, s, t) == AppDeleted(a, s) \/ AppCopied(a, s, t)

LEMMA NextCases ==
  ASSUME [Next]_vars
  PROVE  \/ \E r \in Changes : ServeChange(r)
         \/ \E a \in AppGUIDs, s, t \in Spaces : AppMoves(a, s, t)
         \/ OtherSteps
  BY DEF Next, AppMoves, OtherSteps, Quiescent

\* An app never vanishes; it gets the droplet of a change, or comes with that of the app
\* it is a copy of.
AppKept(a, s) ==
    /\ apps'[a][s] \in A!App \cup {Absent, Deleted}
    /\ apps[a][s] # Absent => apps'[a][s] # Absent
    /\ Exists(apps'[a][s]) =>
          \/ \E t \in Spaces :
                Exists(apps[a][t]) /\ apps'[a][s].droplet = apps[a][t].droplet
          \/ \E r \in Changes :
                /\ apc[r] = "patch" /\ changes[r].app = a
                /\ apps'[a][s].droplet = changes[r].droplet

AppsStep ==
    /\ apps' \in [AppGUIDs -> [Spaces -> A!App \cup {Absent, Deleted}]]
    /\ \A a \in AppGUIDs, s \in Spaces : AppKept(a, s)
    /\ \A q \in Changes : ChangeSteps(q)

\* What a patch leaves of the app.
LEMMA PatchedApp ==
  ASSUME AppsInv, ChangeInv, NEW r \in Changes, Patches(r)
  PROVE  \E new \in A!App :
            /\ changes[r].app \in AppGUIDs /\ changes[r].space \in Spaces
            /\ Exists(apps[changes[r].app][changes[r].space]) /\ Exists(new)
            /\ apps' = [apps EXCEPT ![changes[r].app][changes[r].space] = new]
            /\ new.droplet = changes[r].droplet
<1> DEFINE a == changes[r].app
           s == changes[r].space
           patched == [apps[a][s] EXCEPT !.droplet = changes[r].droplet]
<1>1. a \in AppGUIDs /\ s \in Spaces /\ changes[r].droplet \in BuildGUIDs /\ Exists(apps[a][s])
  BY DEF Patches, ChangeInv, ChangeHeld
<1>2. apps[a][s] \in A!App
  BY <1>1 DEF AppsInv, Exists
<1>3. patched \in A!App /\ patched.droplet = changes[r].droplet
  BY <1>1, <1>2 DEF A!App
<1>4. Exists(patched)
  BY <1>3, PushAssumption DEF Exists
<1>5. apps' = [apps EXCEPT ![a][s] = patched]
  BY DEF Patches
<1> HIDE DEF patched
<1> QED
  BY <1>1, <1>3, <1>4, <1>5

LEMMA EveryAppsStep ==
  ASSUME AppsInv, BuildsInv, ChangeInv, [Next]_vars
  PROVE  AppsStep
<1>0. apps \in [AppGUIDs -> [Spaces -> A!App \cup {Absent, Deleted}]]
  BY DEF AppsInv
<1>1. ASSUME UNCHANGED apps, \A q \in Changes : ChangeSteps(q) PROVE AppsStep
  BY <1>0, <1>1 DEF AppsStep, AppKept
<1>2. ASSUME NEW r \in Changes, ServeChange(r) PROVE AppsStep
  <2>1. \A q \in Changes : ChangeSteps(q)
    BY <1>2, ServeChangeSteps DEF ChangeSteps
  <2>2. CASE Patches(r)
    <3>1. PICK new \in A!App :
            /\ changes[r].app \in AppGUIDs /\ changes[r].space \in Spaces /\ Exists(new)
            /\ apps' = [apps EXCEPT ![changes[r].app][changes[r].space] = new]
            /\ new.droplet = changes[r].droplet
      BY <2>2, PatchedApp
    <3>2. \A a \in AppGUIDs, s \in Spaces : AppKept(a, s)
      BY <1>0, <2>2, <3>1 DEF AppKept, Patches, Exists
    <3> QED
      BY <1>0, <2>1, <3>1, <3>2 DEF AppsStep
  <2> QED
    BY <1>1, <1>2, <2>1, <2>2, ServeChangeSteps
<1>3. ASSUME NEW a \in AppGUIDs, NEW s \in Spaces, NEW t \in Spaces, AppMoves(a, s, t)
      PROVE  AppsStep
  <2>0. UNCHANGED <<changes, apc>> /\ Exists(apps[a][s])
    BY <1>3 DEF AppMoves, AppDeleted, AppCopied, A!AppDeleted, A!AppCopied, A!Exists, Exists
  <2>1. \A q \in Changes : ChangeSteps(q)
    BY <2>0 DEF ChangeSteps, ChangeStays
  <2>2. CASE apps' = [apps EXCEPT ![a][s] = Deleted]
    BY <1>0, <2>0, <2>1, <2>2, SlotAssumption DEF AppsStep, AppKept, Exists
  <2>3. CASE apps[a][t] = Absent /\ apps' = [apps EXCEPT ![a][t] = apps[a][s]]
    BY <1>0, <2>0, <2>1, <2>3 DEF AppsStep, AppKept, Exists
  <2> QED
    BY <1>3, <2>2, <2>3 DEF AppMoves, AppDeleted, AppCopied, A!AppDeleted, A!AppCopied
<1>4. CASE OtherSteps
  BY <1>1, <1>4, OthersChangeNoApp DEF ChangeSteps
<1> QED
  BY <1>2, <1>3, <1>4, NextCases
-----------------------------------------------------------------------------
(***************************************************************************)
(* The steps of Push are steps of Packages                                 *)
(***************************************************************************)
LEMMA MarkersDiffer ==
  /\ {Awaiting, NoBits, Absent, Deleted, None} \cap Digests = {}
  /\ Awaiting \notin {NoBits, Absent, Deleted} /\ NoBits \notin {Absent, Deleted}
<1>1. Awaiting \notin Digests \cup {Absent, Deleted, None}
  BY NoSetContainsEverything DEF Awaiting
<1>2. NoBits \notin Digests \cup {Absent, Deleted, None, Awaiting}
  BY NoSetContainsEverything DEF NoBits
<1> QED
  BY <1>1, <1>2, PushAssumption

\* The assumptions of PackagesProofs.
LEMMA PackagesAssumed ==
  /\ NoImage \notin PP!Images
  /\ None \notin AppGUIDs \cup PackageGUIDs \cup Spaces
  /\ Absent \notin PP!Package /\ Deleted \notin PP!Package
  BY PushAssumption DEF P!Images, P!Package, PP!Images, PP!Package

LEMMA PackagesInvariant ==
  /\ PP!Init => PackagesInv
  /\ PackagesInv /\ [PP!Next]_PP!vars => PackagesInv'
  BY PackagesAssumed, MarkersDiffer, SlotAssumption, PP!InitIInv, PP!InitMapInv,
     PP!InitOriginInv, PP!NextIInv, PP!NextMapInv, PP!NextOriginInv DEF PackagesInv

LEMMA UploadIsPackages ==
  ASSUME NEW r \in Uploads, ServeUpload(r)
  PROVE  PP!Next
<1>1. ASSUME NEW a \in AppGUIDs, P!ReceiveCreate(r, a) PROVE PP!ReceiveCreate(r, a)
  BY <1>1 DEF P!ReceiveCreate, P!Call, P!Reply, P!PayloadErrors, P!cluster,
              PP!ReceiveCreate, PP!Call, PP!Reply, PP!PayloadErrors, PP!cluster
<1>2. ASSUME NEW g \in PackageGUIDs, NEW d \in Digests, P!ReceiveUpload(r, g, d)
      PROVE  PP!ReceiveUpload(r, g, d)
  BY <1>2 DEF P!ReceiveUpload, P!Call, P!Reply, P!cluster,
              PP!ReceiveUpload, PP!Call, PP!Reply, PP!cluster
<1>3. ASSUME P!HandlerStep(r) PROVE PP!HandlerStep(r)
  <2> USE DEF P!At, P!Pending, P!Call, P!Reply, P!Landed, P!cluster, P!Writes,
              PP!At, PP!Pending, PP!Call, PP!Reply, PP!Landed, PP!cluster, PP!Writes
  <2>1. P!FetchApp(r) => PP!FetchApp(r)
    BY DEF P!FetchApp, PP!FetchApp, P!Fresh, PP!Fresh
  <2>2. P!CreatePackage(r) => PP!CreatePackage(r)
    BY DEF P!CreatePackage, PP!CreatePackage
  <2>3. P!FetchPackage(r) => PP!FetchPackage(r)
    BY DEF P!FetchPackage, PP!FetchPackage, P!NotFound, P!Duplicated, P!FoundIn, P!Where,
           P!Exists, P!AwaitingUpload, PP!NotFound, PP!Duplicated, PP!FoundIn, PP!Where,
           PP!Exists, PP!AwaitingUpload
  <2>4. P!RegistryAuth(r) => PP!RegistryAuth(r)
    BY DEF P!RegistryAuth, PP!RegistryAuth
  <2>5. P!PushImage(r) => PP!PushImage(r)
    BY DEF P!PushImage, PP!PushImage, P!UploadedImageRef, PP!UploadedImageRef
  <2>6. P!UpdatePackageSource(r) => PP!UpdatePackageSource(r)
    BY DEF P!UpdatePackageSource, PP!UpdatePackageSource, P!Exists, PP!Exists
  <2>7. P!RefuseWrite(r) => PP!RefuseWrite(r)
    BY DEF P!RefuseWrite, PP!RefuseWrite
  <2>8. P!LoseAnswer(r) => PP!LoseAnswer(r)
    BY DEF P!LoseAnswer, PP!LoseAnswer, P!AnswerLost, PP!AnswerLost
  <2>9. \A p : P!ReadFails(r, p) => PP!ReadFails(r, p)
    BY DEF P!ReadFails, PP!ReadFails
  <2> QED
    BY <1>3, <2>1, <2>2, <2>3, <2>4, <2>5, <2>6, <2>7, <2>8, <2>9
       DEF P!HandlerStep, PP!HandlerStep
<1> QED
  BY <1>1, <1>2, <1>3 DEF ServeUpload, PP!Next

\* A move of an app changes what Packages sees of the apps.
LEMMA MoveIsPackages ==
  ASSUME AppsInv, NEW a \in AppGUIDs, NEW s \in Spaces, NEW t \in Spaces, AppMoves(a, s, t)
  PROVE  PP!Next
<1> DEFINE view == [c \in AppGUIDs |-> Where(apps, c)]
<1>0. /\ apps \in [AppGUIDs -> [Spaces -> A!App \cup {Absent, Deleted}]]
      /\ Exists(apps[a][s]) /\ UNCHANGED <<packages, registry, uploads, upc, ustatus>>
  BY DEF AppsInv, AppMoves, AppDeleted, AppCopied, A!AppDeleted, A!AppCopied, A!Exists, Exists,
         ofPackages
<1>1. CASE apps' = [apps EXCEPT ![a][s] = Deleted]
  <2>1. s \in view[a] /\ view' = [view EXCEPT ![a] = @ \ {s}]
    BY <1>0, <1>1 DEF Where, Exists
  <2>2. PP!AppChanges(a, s)
    BY <1>0, <2>1 DEF PP!AppChanges
  <2> QED
    BY <2>2 DEF PP!Next
<1>2. CASE apps[a][t] = Absent /\ apps' = [apps EXCEPT ![a][t] = apps[a][s]]
  <2>1. t \notin view[a] /\ view' = [view EXCEPT ![a] = @ \cup {t}]
    BY <1>0, <1>2 DEF Where, Exists
  <2>2. PP!AppChanges(a, t)
    BY <1>0, <2>1 DEF PP!AppChanges
  <2> QED
    BY <2>2 DEF PP!Next
<1> QED
  BY <1>1, <1>2 DEF AppMoves, AppDeleted, AppCopied, A!AppDeleted, A!AppCopied

LEMMA StepIsPackages ==
  ASSUME AppsInv, BuildsInv, ChangeInv, [Next]_vars
  PROVE  [PP!Next]_PP!vars
<1> DEFINE view == [a \in AppGUIDs |-> Where(apps, a)]
<1>1. ASSUME NEW r \in Changes, ServeChange(r) PROVE UNCHANGED view
  <2>1. CASE UNCHANGED apps
    BY <2>1
  <2>2. CASE Patches(r)
    <3>1. PICK new \in A!App :
            /\ changes[r].app \in AppGUIDs /\ changes[r].space \in Spaces
            /\ Exists(apps[changes[r].app][changes[r].space]) /\ Exists(new)
            /\ apps' = [apps EXCEPT ![changes[r].app][changes[r].space] = new]
      BY <2>2, PatchedApp
    <3>2. \A a \in AppGUIDs, s \in Spaces : Exists(apps'[a][s]) <=> Exists(apps[a][s])
      BY <3>1 DEF AppsInv
    <3> QED
      BY <3>2 DEF Where
  <2> QED
    BY <1>1, <2>1, <2>2, ServeChangeSteps
<1>2. ASSUME UNCHANGED <<view, packages, registry, ofPackages>> PROVE UNCHANGED PP!vars
  BY <1>2 DEF PP!vars, PP!cluster, ofPackages
<1>3. CASE \E r \in Changes : ServeChange(r)
  BY <1>1, <1>2, <1>3 DEF ServeChange
<1>4. CASE \E a \in AppGUIDs, s, t \in Spaces : AppMoves(a, s, t)
  BY <1>4, MoveIsPackages
<1>5. CASE OtherSteps
  <2>1. UNCHANGED view
    BY <1>5, OthersChangeNoApp
  <2>2. CASE \E r \in Uploads : ServeUpload(r)
    BY <2>2, UploadIsPackages
  <2>3. CASE UNCHANGED <<packages, registry, ofPackages>>
    BY <1>2, <2>1, <2>3
  <2>4. CASE Crash
    <3>1. CASE P!Crashed(P!Writes)
      <4>1. PP!Crashed(PP!Writes)
        BY <3>1 DEF P!Crashed, P!Writes, P!InFlight, P!Arrived, P!Pending,
                    PP!Crashed, PP!Writes, PP!InFlight, PP!Arrived, PP!Pending
      <4>2. UNCHANGED <<PP!cluster, registry, uploads>>
        BY <2>1, <2>4 DEF Crash, PP!cluster
      <4> QED
        BY <4>1, <4>2 DEF PP!Next, PP!Crash
    <3>2. CASE UNCHANGED <<upc, ustatus>>
      BY <2>3, <2>4, <3>2 DEF Crash, ofPackages
    <3> QED
      BY <2>4, <3>1, <3>2 DEF Crash
  <2>5. ASSUME NEW g \in PackageGUIDs, NEW s \in Spaces, PackageDeleted(g, s) PROVE PP!Next
    <3>1. PP!PackageDeleted(g, s)
      BY <2>5 DEF PackageDeleted, P!PackageDeleted, P!Exists, PP!PackageDeleted, PP!Exists
    <3> QED
      BY <3>1 DEF PP!Next
  <2>6. ASSUME NEW g \in PackageGUIDs, NEW s \in Spaces, NEW t \in Spaces, PackageCopied(g, s, t)
        PROVE  PP!Next
    <3>1. PP!PackageCopied(g, s, t)
      BY <2>6 DEF PackageCopied, P!PackageCopied, P!Exists, PP!PackageCopied, PP!Exists
    <3> QED
      BY <3>1 DEF PP!Next
  <2> QED
    BY <1>5, <2>2, <2>3, <2>4, <2>5, <2>6 DEF OtherSteps, ServeStaging, TakeImage, FinishBuild,
       BuildDeleted, BuildCopied, vars
<1> QED
  BY <1>3, <1>4, <1>5, NextCases
-----------------------------------------------------------------------------
(***************************************************************************)
(* What one step does to the packages, the registry, and an upload         *)
(***************************************************************************)
\* A package is created, copied or changes its image only, and leaves a tombstone.
PackageKept(g, s) ==
    /\ packages[g][s] # Absent => packages'[g][s] # Absent
    /\ Exists(packages'[g][s]) =>
          \/ \E t \in Spaces :
                Exists(packages[g][t]) /\ packages'[g][s].app = packages[g][t].app
          \/ \E r \in Uploads :
                /\ upc[r] = "create" /\ uploads[r].guid = g /\ uploads[r].space = s
                /\ packages'[g][s].app = uploads[r].app

SameBits(q) == uploads'[q].guid = uploads[q].guid /\ uploads'[q].bits = uploads[q].bits

RegistryGrows ==
    /\ registry \subseteq registry'
    /\ \A image \in registry' \ registry : \E r \in Uploads :
          /\ upc[r] = "push" /\ upc'[r] \in {"patch", "done"} /\ SameBits(r)
          /\ image = [repo |-> uploads[r].guid, digest |-> uploads[r].bits]

UploadStays(q) ==
    /\ uploads'[q] = uploads[q]
    /\ \/ upc'[q] = upc[q]
       \/ upc[q] = "auth" /\ upc'[q] = "push"
       \/ upc[q] # "idle" /\ upc'[q] = "done"

UploadArrives(q) == upc[q] = "idle" /\ upc'[q] \in {"fetchApp", "fetch", "done"}

UploadLocated(q) ==
    /\ upc[q] = "fetchApp" /\ upc'[q] = "create" /\ uploads'[q].app = uploads[q].app
    /\ Exists(apps[uploads[q].app][uploads'[q].space])

PackageFound(q) == upc[q] = "fetch" /\ upc'[q] \in {"auth", "done"}

UploadPushes(q) == upc[q] = "push" /\ upc'[q] = "patch" /\ SameBits(q)

UploadSteps(q) ==
    \/ UploadStays(q) \/ UploadArrives(q)
    \/ UploadLocated(q) \/ PackageFound(q) \/ UploadPushes(q)

PackagesStep ==
    /\ \A g \in PackageGUIDs, s \in Spaces : PackageKept(g, s)
    /\ RegistryGrows
    /\ \A q \in Uploads : UploadSteps(q)

LEMMA NoPackagesStep ==
  ASSUME UNCHANGED <<packages, registry>>, \A q \in Uploads : UploadSteps(q)
  PROVE  PackagesStep
  BY DEF PackagesStep, PackageKept, RegistryGrows

LEMMA ServeUploadSteps ==
  ASSUME PP!IInv, NEW r \in Uploads, ServeUpload(r)
  PROVE  PackagesStep
<1>0. /\ uploads \in [Uploads -> PP!Request] /\ uploads[r] \in PP!Request
      /\ upc \in [Uploads -> PP!PCs] /\ registry \subseteq PP!Images
      /\ packages \in [PackageGUIDs -> [Spaces -> PP!Package \cup {Absent, Deleted}]]
      /\ PP!Holds(r)
  BY DEF PP!IInv, PP!TypeOK, PP!UploadInv
<1> USE DEF P!At, P!Pending, P!Call, P!Reply, P!Landed, P!cluster, P!Writes
<1>1. ASSUME UNCHANGED <<packages, registry, uploads>>, upc[r] # "idle",
             \E p : upc' = [upc EXCEPT ![r] = p] /\ (p = "done" \/ (upc[r] = "auth" /\ p = "push"))
      PROVE  PackagesStep
  BY <1>0, <1>1, NoPackagesStep DEF UploadSteps, UploadStays
<1>2. ASSUME UNCHANGED <<packages, registry>>, NEW x, uploads' = [uploads EXCEPT ![r] = x],
             NEW p, upc' = [upc EXCEPT ![r] = p],
             UploadArrives(r) \/ UploadLocated(r) \/ PackageFound(r)
      PROVE  PackagesStep
  BY <1>0, <1>2, NoPackagesStep DEF UploadSteps, UploadStays
<1>3. ASSUME NEW a \in AppGUIDs, P!ReceiveCreate(r, a) PROVE PackagesStep
  BY <1>0, <1>2, <1>3 DEF P!ReceiveCreate, UploadArrives
<1>4. ASSUME NEW g \in PackageGUIDs, NEW d \in Digests, P!ReceiveUpload(r, g, d)
      PROVE  PackagesStep
  BY <1>0, <1>2, <1>4 DEF P!ReceiveUpload, UploadArrives
<1>5. CASE P!FetchApp(r)
  <2>0. upc[r] = "fetchApp" /\ uploads[r].app \in AppGUIDs /\ UNCHANGED <<packages, registry>>
    BY <1>0, <1>5 DEF P!FetchApp, PP!Holds
  <2>1. CASE UNCHANGED uploads /\ \E answer : P!Reply(r, answer)
    BY <1>1, <2>0, <2>1
  <2>2. ASSUME NEW s \in Spaces, NEW g \in PackageGUIDs,
               [a \in AppGUIDs |-> Where(apps, a)][uploads[r].app] = {s}, P!Call(r, "create"),
               uploads' = [uploads EXCEPT ![r] = [@ EXCEPT !.space = s, !.guid = g]]
        PROVE  PackagesStep
    <3>1. Exists(apps[uploads[r].app][s])
      BY <2>0, <2>2 DEF Where
    <3>2. uploads'[r].app = uploads[r].app /\ uploads'[r].space = s
      BY <1>0, <2>2 DEF PP!Request
    <3>3. upc' = [upc EXCEPT ![r] = "create"] /\ UploadLocated(r)
      BY <1>0, <2>0, <2>2, <3>1, <3>2 DEF UploadLocated
    <3> QED
      BY <1>2, <2>0, <2>2, <3>3
  <2> QED
    BY <1>5, <2>1, <2>2 DEF P!FetchApp
<1>6. CASE P!CreatePackage(r)
  <2> DEFINE g == uploads[r].guid
             s == uploads[r].space
             new == [app |-> uploads[r].app, image |-> NoImage]
  <2>1. /\ upc[r] = "create" /\ UNCHANGED <<registry, uploads>>
        /\ packages' = [packages EXCEPT ![g][s] = new] /\ upc' = [upc EXCEPT ![r] = "done"]
    BY <1>6 DEF P!CreatePackage
  <2>2. new # Absent /\ new.app = uploads[r].app
    <3>1. uploads[r].app \in AppGUIDs
      BY <2>1 DEF PP!IInv, PP!CreateInv
    <3> QED
      BY <3>1, PushAssumption DEF P!Package
  <2> HIDE DEF new
  <2>3. \A h \in PackageGUIDs, t \in Spaces : PackageKept(h, t)
    BY <1>0, <2>1, <2>2 DEF PackageKept
  <2>4. \A q \in Uploads : UploadStays(q)
    BY <1>0, <2>1 DEF UploadStays
  <2> QED
    BY <2>1, <2>3, <2>4 DEF PackagesStep, RegistryGrows, UploadSteps
<1>7. CASE P!FetchPackage(r)
  <2> DEFINE g == uploads[r].guid
  <2>0. upc[r] = "fetch" /\ UNCHANGED <<packages, registry>>
    BY <1>7 DEF P!FetchPackage
  <2>1. CASE UNCHANGED uploads /\ \E answer : P!Reply(r, answer)
    BY <1>1, <2>0, <2>1
  <2>2. ASSUME NEW s \in Spaces, P!FoundIn(packages, g, s),
               P!Call(r, "auth") \/ P!Reply(r, "PackageBitsAlreadyUploaded"),
               uploads' = [uploads EXCEPT ![r].space = s]
        PROVE  PackagesStep
    <3>1. PackageFound(r) /\ \E p : upc' = [upc EXCEPT ![r] = p]
      BY <1>0, <2>0, <2>2 DEF PackageFound
    <3> QED
      BY <1>2, <2>0, <2>2, <3>1
  <2> QED
    BY <1>7, <2>1, <2>2 DEF P!FetchPackage
<1>8. CASE P!RegistryAuth(r)
  BY <1>1, <1>8 DEF P!RegistryAuth
<1>9. CASE P!PushImage(r)
  <2> DEFINE image == [repo |-> uploads[r].guid, digest |-> uploads[r].bits]
  <2>1. /\ upc[r] = "push" /\ registry' = registry \cup {image} /\ UNCHANGED packages
        /\ \/ upc' = [upc EXCEPT ![r] = "patch"] /\ uploads' = [uploads EXCEPT ![r].image = image]
           \/ upc' = [upc EXCEPT ![r] = "done"] /\ UNCHANGED uploads
    BY <1>9 DEF P!PushImage, P!UploadedImageRef
  <2>2. SameBits(r)
    BY <1>0, <2>1 DEF SameBits, PP!Request
  <2>3. RegistryGrows
    BY <1>0, <2>1, <2>2 DEF RegistryGrows
  <2>4. \A q \in Uploads : UploadSteps(q)
    BY <1>0, <2>1, <2>2 DEF UploadSteps, UploadStays, UploadPushes
  <2> QED
    BY <2>1, <2>3, <2>4 DEF PackagesStep, PackageKept
<1>10. CASE P!UpdatePackageSource(r)
  <2> DEFINE g == uploads[r].guid
             s == uploads[r].space
             new == [packages[g][s] EXCEPT !.image = uploads[r].image]
  <2>1. /\ upc[r] = "patch" /\ UNCHANGED <<registry, uploads>> /\ Exists(packages[g][s])
        /\ packages' = [packages EXCEPT ![g][s] = new] /\ upc' = [upc EXCEPT ![r] = "done"]
    BY <1>10 DEF P!UpdatePackageSource, P!Exists, Exists
  <2>2. new # Absent /\ new.app = packages[g][s].app
    <3>1. g \in PackageGUIDs /\ s \in Spaces /\ uploads[r].image \in registry
      BY <1>0, <2>1 DEF PP!Holds
    <3>2. packages[g][s] \in PP!Package
      BY <1>0, <2>1, <3>1 DEF Exists
    <3>3. packages[g][s] \in P!Package /\ {Absent, Deleted} \cap P!Package = {}
      BY <3>2, PushAssumption DEF PP!Package, P!Package, PP!Images, P!Images
    <3>4. uploads[r].image \in P!Images
      BY <1>0, <3>1 DEF PP!Images, P!Images
    <3>5. new \in P!Package /\ new.app = packages[g][s].app
      BY <3>3, <3>4 DEF P!Package
    <3> QED
      BY <3>3, <3>5
  <2> HIDE DEF new
  <2>3. \A h \in PackageGUIDs, t \in Spaces : PackageKept(h, t)
    BY <1>0, <2>1, <2>2 DEF PackageKept, Exists
  <2>4. \A q \in Uploads : UploadStays(q)
    BY <1>0, <2>1 DEF UploadStays
  <2> QED
    BY <2>1, <2>3, <2>4 DEF PackagesStep, RegistryGrows, UploadSteps
<1>11. CASE P!RefuseWrite(r)
  BY <1>1, <1>11 DEF P!RefuseWrite
<1>12. CASE P!LoseAnswer(r)
  BY <1>12, NoPackagesStep DEF P!LoseAnswer, P!AnswerLost, UploadSteps, UploadStays
<1>13. ASSUME NEW p, P!ReadFails(r, p), p # "idle" PROVE PackagesStep
  BY <1>1, <1>13 DEF P!ReadFails
<1> HIDE DEF P!At, P!Pending, P!Call, P!Reply, P!Landed, P!cluster, P!Writes
<1> QED
  BY <1>3, <1>4, <1>5, <1>6, <1>7, <1>8, <1>9, <1>10, <1>11, <1>12, <1>13
     DEF ServeUpload, P!HandlerStep

LEMMA EveryPackagesStep ==
  ASSUME PP!IInv, [Next]_vars
  PROVE  PackagesStep
<1>0. upc \in [Uploads -> PP!PCs] /\ packages \in [PackageGUIDs -> [Spaces -> PP!Package \cup {Absent, Deleted}]]
  BY DEF PP!IInv, PP!TypeOK
<1>1. ASSUME UNCHANGED <<packages, registry, ofPackages>> PROVE PackagesStep
  BY <1>1, NoPackagesStep DEF ofPackages, UploadSteps, UploadStays
<1>2. CASE \E r \in Uploads : ServeUpload(r)
  BY <1>2, ServeUploadSteps
<1>3. CASE \E r \in Stagings : ServeStaging(r)
  BY <1>1, <1>3 DEF ServeStaging
<1>4. CASE \E r \in Changes : ServeChange(r)
  BY <1>1, <1>4 DEF ServeChange
<1>5. CASE Crash
  <2>1. \A q \in Uploads : UploadStays(q)
    BY <1>0, <1>5 DEF Crash, P!Crashed, P!InFlight, P!Arrived, UploadStays
  <2> QED
    BY <1>5, <2>1, NoPackagesStep DEF Crash, UploadSteps
<1>6. CASE \E b \in BuildGUIDs, s, t \in Spaces :
              TakeImage(b, s) \/ FinishBuild(b, s) \/ BuildDeleted(b, s) \/ BuildCopied(b, s, t)
  BY <1>1, <1>6 DEF TakeImage, FinishBuild, BuildDeleted, BuildCopied
<1>7. ASSUME NEW g \in PackageGUIDs, NEW s \in Spaces, PackageDeleted(g, s) PROVE PackagesStep
  <2>1. /\ packages' = [packages EXCEPT ![g][s] = Deleted] /\ Exists(packages[g][s])
        /\ UNCHANGED <<registry, uploads, upc>>
    BY <1>7 DEF PackageDeleted, P!PackageDeleted, P!Exists, Exists
  <2>2. \A h \in PackageGUIDs, t \in Spaces : PackageKept(h, t)
    BY <1>0, <2>1, SlotAssumption DEF PackageKept, Exists
  <2> QED
    BY <2>1, <2>2 DEF PackagesStep, RegistryGrows, UploadSteps, UploadStays
<1>8. ASSUME NEW g \in PackageGUIDs, NEW s \in Spaces, NEW t \in Spaces, PackageCopied(g, s, t)
      PROVE  PackagesStep
  <2>1. /\ packages' = [packages EXCEPT ![g][t] = packages[g][s]]
        /\ Exists(packages[g][s]) /\ packages[g][t] = Absent
        /\ UNCHANGED <<registry, uploads, upc>>
    BY <1>8 DEF PackageCopied, P!PackageCopied, P!Exists, Exists
  <2>2. \A h \in PackageGUIDs, u \in Spaces : PackageKept(h, u)
    BY <1>0, <2>1 DEF PackageKept, Exists
  <2> QED
    BY <2>1, <2>2 DEF PackagesStep, RegistryGrows, UploadSteps, UploadStays
<1>9. CASE \E a \in AppGUIDs, s, t \in Spaces : AppMoves(a, s, t)
  BY <1>1, <1>9 DEF AppMoves, AppDeleted, AppCopied
<1>10. CASE UNCHANGED vars
  BY <1>1, <1>10 DEF vars
<1> QED
  BY <1>2, <1>3, <1>4, <1>5, <1>6, <1>7, <1>8, <1>9, <1>10, NextCases DEF OtherSteps
-----------------------------------------------------------------------------
(***************************************************************************)
(* What one step does to the builds, and to a create of one                *)
(***************************************************************************)
Creates(r, b, s) == bpc[r] = "create" /\ stagings[r].build = b /\ stagings[r].space = s

\* The build b of s names the app and the package that b of t does.
SameNames(b, s, t) ==
    /\ builds'[b][s].app = builds[b][t].app
    /\ builds'[b][s].package = builds[b][t].package

\* A build is created or copied, and then keeps its app and its package, succeeds only
\* with the image it was staged from, and leaves a tombstone.
BuildKept(b, s) ==
    /\ builds'[b][s] \in B!Build \cup {Absent, Deleted}
    /\ builds[b][s] # Absent => builds'[b][s] # Absent
    /\ (builds[b][s] = Absent /\ builds'[b][s] # Absent) =>
          \/ \E r \in Stagings : Creates(r, b, s) /\ bpc'[r] = "done"
          \/ \E t \in Spaces : builds[b][t] # Absent
    /\ Exists(builds'[b][s]) =>
          \/ /\ Exists(builds[b][s]) /\ SameNames(b, s, s)
             /\ Staged(builds[b][s]) => Staged(builds'[b][s])
             /\ Staged(builds'[b][s]) => Staged(builds[b][s]) \/ taken[b][s] # NoImage
          \/ /\ builds[b][s] = Absent /\ ~Staged(builds'[b][s])
             /\ \E t \in Spaces : Exists(builds[b][t]) /\ SameNames(b, s, t)
          \/ \E r \in Stagings :
                /\ Creates(r, b, s) /\ bpc'[r] = "done" /\ ~Staged(builds'[b][s])
                /\ builds'[b][s].app = stagings[r].app
                /\ builds'[b][s].package = stagings[r].package

\* Nothing but an image that its package has is taken for a build.
TakenKept(b, s) ==
    LET package == packages[builds[b][s].package][s] IN
    \/ taken'[b][s] = taken[b][s]
    \/ /\ Exists(builds[b][s]) /\ UNCHANGED <<packages, builds>> /\ Exists(package)
       /\ package.image # NoImage /\ taken'[b][s] = package.image

StagingStays(q) ==
    \/ stagings'[q] = stagings[q] /\ bpc'[q] = bpc[q]
    \/ bpc[q] # "idle" /\ bpc'[q] = "done" /\ stagings'[q].op = stagings[q].op

StagingArrives(q) ==
    /\ bpc[q] = "idle" /\ bpc'[q] \in {"fetchPackage", "done"}
    /\ stagings'[q].op = "createBuild" /\ stagings'[q].package \in PackageGUIDs

StagingFound(q) ==
    LET s == stagings'[q].space
        g == stagings[q].package
        b == stagings'[q].build IN
    /\ bpc[q] = "fetchPackage" /\ bpc'[q] = "create" /\ UNCHANGED <<apps, packages, builds>>
    /\ stagings'[q].op = stagings[q].op /\ stagings'[q].package = g
    /\ s \in Spaces /\ b \in BuildGUIDs
    /\ Exists(packages[g][s]) /\ stagings'[q].app = packages[g][s].app
    /\ \A t \in Spaces : builds[b][t] = Absent
    /\ \A r \in Stagings \ {q} :
          /\ StagingStays(r)
          /\ stagings[r].op = "createBuild" => stagings[r].build # b

BuildsStep ==
    /\ builds' \in [BuildGUIDs -> [Spaces -> B!Build \cup {Absent, Deleted}]]
    /\ \A b \in BuildGUIDs, s \in Spaces : BuildKept(b, s)
    /\ taken' \in [BuildGUIDs -> [Spaces -> P!Images \cup {NoImage}]]
    /\ \A b \in BuildGUIDs, s \in Spaces : TakenKept(b, s)
    /\ stagings' \in [Stagings -> B!Request]
    /\ bpc' \in [Stagings -> {"idle", "fetchPackage", "create", "done"}]
    /\ \A q \in Stagings : StagingStays(q) \/ StagingArrives(q) \/ StagingFound(q)

LEMMA NoBuildsStep ==
  ASSUME BuildsInv, UNCHANGED <<builds, taken>>,
         stagings' \in [Stagings -> B!Request],
         bpc' \in [Stagings -> {"idle", "fetchPackage", "create", "done"}],
         \A q \in Stagings : StagingStays(q) \/ StagingArrives(q) \/ StagingFound(q)
  PROVE  BuildsStep
  BY DEF BuildsInv, BuildsStep, BuildKept, TakenKept, SameNames

LEMMA ServeStagingSteps ==
  ASSUME BuildsInv, StagingInv, NEW r \in Stagings, ServeStaging(r),
         packages \in [PackageGUIDs -> [Spaces -> P!Package \cup {Absent, Deleted}]]
  PROVE  BuildsStep
<1>0. /\ stagings \in [Stagings -> B!Request] /\ stagings[r] \in B!Request
      /\ bpc \in [Stagings -> {"idle", "fetchPackage", "create", "done"}]
      /\ builds \in [BuildGUIDs -> [Spaces -> B!Build \cup {Absent, Deleted}]]
      /\ taken \in [BuildGUIDs -> [Spaces -> P!Images \cup {NoImage}]]
      /\ StagingHeld(r) /\ UNCHANGED <<apps, packages, taken>>
  BY DEF StagingInv, BuildsInv, ServeStaging
<1> USE DEF B!At, B!Pending, B!Call, B!Reply, B!Landed, B!Writes
<1>1. ASSUME UNCHANGED builds, NEW x \in B!Request, stagings' = [stagings EXCEPT ![r] = x],
             NEW p \in {"fetchPackage", "create", "done"}, bpc' = [bpc EXCEPT ![r] = p],
             \/ p = "done" /\ bpc[r] # "idle" /\ x.op = stagings[r].op
             \/ StagingArrives(r) \/ StagingFound(r)
      PROVE  BuildsStep
  BY <1>0, <1>1, NoBuildsStep DEF StagingStays
<1>2. ASSUME UNCHANGED <<builds, stagings>>, bpc[r] # "idle", bpc' = [bpc EXCEPT ![r] = "done"]
      PROVE  BuildsStep
  BY <1>0, <1>2, NoBuildsStep DEF StagingStays
<1>3. ASSUME NEW g \in PackageGUIDs, B!ReceiveCreate(r, g) PROVE BuildsStep
  <2> DEFINE x == [stagings[r] EXCEPT !.op = "createBuild", !.package = g, !.after = B!Answered]
  <2>1. x \in B!Request /\ x.op = "createBuild" /\ x.package = g
    BY <1>0 DEF B!Request, B!Ops, B!Answered
  <2>2. /\ stagings' = [stagings EXCEPT ![r] = x] /\ UNCHANGED builds /\ bpc[r] = "idle"
        /\ \E p \in {"fetchPackage", "done"} : bpc' = [bpc EXCEPT ![r] = p]
    BY <1>3 DEF B!ReceiveCreate
  <2> HIDE DEF x
  <2> QED
    BY <1>0, <1>1, <2>1, <2>2 DEF StagingArrives
<1>4. CASE B!FetchPackage(r)
  <2> DEFINE g == stagings[r].package
  <2>0. bpc[r] = "fetchPackage" /\ g \in PackageGUIDs /\ UNCHANGED builds
    BY <1>0, <1>4 DEF B!FetchPackage, StagingHeld
  <2>1. CASE UNCHANGED stagings /\ \E answer : B!Reply(r, answer)
    BY <1>2, <2>0, <2>1
  <2>2. ASSUME NEW s \in Spaces, NEW b \in BuildGUIDs, B!Fresh(b), B!Call(r, "create"),
               NEW view,
               view = [h \in PackageGUIDs |-> [t \in Spaces |->
                          View(packages[h][t], packages[h][t].app)]],
               B!FoundIn(view, g, s),
               stagings' = [stagings EXCEPT ![r] =
                   [@ EXCEPT !.space = s, !.app = view[g][s], !.build = b]]
        PROVE  BuildsStep
    <3>1. Exists(packages[g][s]) /\ view[g][s] = packages[g][s].app
      BY <2>0, <2>2 DEF B!FoundIn, B!Where, B!Exists, View, Exists
    <3>2. packages[g][s].app \in AppGUIDs
      BY <2>0, <3>1 DEF P!Package, Exists
    <3> DEFINE x == [stagings[r] EXCEPT !.space = s, !.app = packages[g][s].app, !.build = b]
    <3>3. x \in B!Request /\ x.op = stagings[r].op /\ x.package = g
          /\ x.space = s /\ x.app = packages[g][s].app /\ x.build = b
      BY <1>0, <3>2 DEF B!Request
    <3>4. stagings' = [stagings EXCEPT ![r] = x]
      BY <2>2, <3>1
    <3> HIDE DEF x
    <3>5. \A q \in Stagings \ {r} : StagingStays(q)
      BY <1>0, <2>2, <3>4 DEF StagingStays
    <3>6. StagingFound(r)
      BY <1>0, <2>0, <2>2, <3>1, <3>3, <3>4, <3>5 DEF StagingFound, B!Fresh
    <3> QED
      BY <1>1, <2>0, <2>2, <3>3, <3>4, <3>6
  <2> QED
    BY <1>4, <2>1, <2>2 DEF B!FetchPackage, B!BuildSpace, B!PackageRecord
<1>5. CASE B!CreateBuild(r)
  <2> DEFINE b == stagings[r].build
             s == stagings[r].space
             new == B!NewBuild(stagings[r])
             shown == IF bstatus[r] = "Pending" THEN B!BuildState(new) ELSE stagings[r].shown
  <2>0. /\ bpc[r] = "create" /\ builds' = [builds EXCEPT ![b][s] = new]
        /\ stagings' = [stagings EXCEPT ![r].shown = shown] /\ bpc' = [bpc EXCEPT ![r] = "done"]
    BY <1>5 DEF B!CreateBuild
  <2>1. /\ b \in BuildGUIDs /\ s \in Spaces /\ stagings[r].app \in AppGUIDs
        /\ stagings[r].package \in PackageGUIDs
    BY <1>0, <2>0 DEF StagingHeld
  <2>2. /\ new \in B!Build /\ new.app = stagings[r].app /\ new.package = stagings[r].package
        /\ ~Staged(new) /\ B!BuildState(new) = "STAGING"
    BY <2>1 DEF B!NewBuild, B!Build, B!Conditions, Staged, B!BuildState
  <2>3. new # Absent
    BY <2>2, PushAssumption
  <2> HIDE DEF new
  <2>4. builds' \in [BuildGUIDs -> [Spaces -> B!Build \cup {Absent, Deleted}]]
    BY <1>0, <2>0, <2>2
  <2>5. Creates(r, b, s) /\ bpc'[r] = "done"
    BY <1>0, <2>0 DEF Creates
  <2>6. \A c \in BuildGUIDs, t \in Spaces : BuildKept(c, t)
    BY <1>0, <2>0, <2>1, <2>2, <2>3, <2>4, <2>5 DEF BuildKept, SameNames
  <2>7. shown \in B!BuildStates \cup {None}
    BY <1>0, <2>2 DEF B!BuildStates, B!Request
  <2> HIDE DEF shown
  <2>8. [stagings[r] EXCEPT !.shown = shown] \in B!Request
        /\ [stagings[r] EXCEPT !.shown = shown].op = stagings[r].op
    BY <1>0, <2>7 DEF B!Request
  <2>9. stagings' \in [Stagings -> B!Request] /\ \A q \in Stagings : StagingStays(q)
    BY <1>0, <2>0, <2>8 DEF StagingStays
  <2> QED
    BY <1>0, <2>0, <2>4, <2>6, <2>9 DEF BuildsStep, TakenKept
<1>6. CASE B!RefuseWrite(r)
  BY <1>2, <1>6 DEF B!RefuseWrite
<1>7. CASE B!LoseAnswer(r)
  BY <1>0, <1>7, NoBuildsStep DEF B!LoseAnswer, B!AnswerLost, StagingStays
<1>8. ASSUME NEW p, B!ReadFails(r, p), p # "idle" PROVE BuildsStep
  BY <1>2, <1>8 DEF B!ReadFails
<1>9. ~B!FetchBuild(r) /\ ~B!FetchDroplet(r)
  BY <1>0 DEF B!FetchBuild, B!FetchDroplet
<1> HIDE DEF B!At, B!Pending, B!Call, B!Reply, B!Landed, B!Writes
<1> QED
  BY <1>3, <1>4, <1>5, <1>6, <1>7, <1>8, <1>9 DEF ServeStaging, B!HandlerStep

LEMMA TakeImageStep ==
  ASSUME BuildsInv, StagingInv, NEW b \in BuildGUIDs, NEW s \in Spaces, TakeImage(b, s),
         packages \in [PackageGUIDs -> [Spaces -> P!Package \cup {Absent, Deleted}]]
  PROVE  BuildsStep
<1> DEFINE package == packages[builds[b][s].package][s]
<1>1. /\ Exists(builds[b][s]) /\ Exists(package) /\ package.image # NoImage
      /\ taken' = [taken EXCEPT ![b][s] = package.image]
      /\ UNCHANGED <<packages, builds, stagings, bpc>>
  BY DEF TakeImage, ofBuilds
<1>2. builds[b][s].package \in PackageGUIDs
  BY <1>1 DEF BuildsInv, Exists, B!Build
<1>3. package.image \in P!Images
  BY <1>1, <1>2 DEF P!Package, Exists
<1>4. taken' \in [BuildGUIDs -> [Spaces -> P!Images \cup {NoImage}]]
  BY <1>1, <1>3 DEF BuildsInv
<1>5. \A c \in BuildGUIDs, t \in Spaces : TakenKept(c, t)
  BY <1>1 DEF TakenKept, BuildsInv
<1>6. \A c \in BuildGUIDs, t \in Spaces : BuildKept(c, t)
  BY <1>1 DEF BuildKept, SameNames, BuildsInv
<1> QED
  BY <1>1, <1>4, <1>5, <1>6 DEF BuildsStep, BuildsInv, StagingInv, StagingStays

\* A build that is there is decided, or one that is not there yet copied.
LEMMA WriteBuildStep ==
  ASSUME BuildsInv, StagingInv, UNCHANGED <<taken, stagings, bpc>>,
         NEW b \in BuildGUIDs, NEW s \in Spaces, NEW new \in B!Build \cup {Deleted},
         builds' = [builds EXCEPT ![b][s] = new],
         \/ Exists(builds[b][s])
         \/ builds[b][s] = Absent /\ \E t \in Spaces : Exists(builds[b][t]),
         Exists(new) =>
            /\ \E t \in Spaces :
                  /\ Exists(builds[b][t])
                  /\ new.app = builds[b][t].app /\ new.package = builds[b][t].package
                  /\ builds[b][s] # Absent => t = s
            /\ Exists(builds[b][s]) /\ Staged(builds[b][s]) => Staged(new)
            /\ Staged(new) => Exists(builds[b][s]) /\ taken[b][s] # NoImage
  PROVE  BuildsStep
<1>1. builds' \in [BuildGUIDs -> [Spaces -> B!Build \cup {Absent, Deleted}]]
  BY DEF BuildsInv
<1>2. new # Absent
  BY PushAssumption, SlotAssumption
<1>3. BuildKept(b, s)
  <2>1. builds'[b][s] = new
    BY DEF BuildsInv
  <2> QED
    BY <1>2, <2>1 DEF BuildKept, SameNames, Exists
<1>4. ASSUME NEW c \in BuildGUIDs, NEW t \in Spaces, <<c, t>> # <<b, s>> PROVE BuildKept(c, t)
  <2>1. builds'[c][t] = builds[c][t]
    BY <1>4 DEF BuildsInv
  <2> QED
    BY <2>1 DEF BuildKept, SameNames, BuildsInv
<1>5. \A c \in BuildGUIDs, t \in Spaces : BuildKept(c, t)
  BY <1>3, <1>4
<1> QED
  BY <1>1, <1>5 DEF BuildsStep, TakenKept, BuildsInv, StagingInv, StagingStays

LEMMA FinishBuildStep ==
  ASSUME BuildsInv, StagingInv, NEW b \in BuildGUIDs, NEW s \in Spaces, FinishBuild(b, s)
  PROVE  BuildsStep
<1>1. PICK succeeded \in {"True", "False"} :
         /\ B!SetConditions(b, s, FALSE, succeeded)
         /\ succeeded = "True" => taken[b][s] # NoImage
  BY DEF FinishBuild
<1> DEFINE new == [builds[b][s] EXCEPT !.staging = FALSE, !.succeeded = succeeded]
<1>2. /\ Exists(builds[b][s]) /\ ~B!Decided(builds[b][s])
      /\ builds' = [builds EXCEPT ![b][s] = new] /\ UNCHANGED <<taken, stagings, bpc>>
  BY <1>1 DEF B!SetConditions, B!Exists, Exists, FinishBuild
<1>3. builds[b][s] \in B!Build
  BY <1>2 DEF BuildsInv, Exists
<1>4. /\ new \in B!Build /\ new.app = builds[b][s].app /\ new.package = builds[b][s].package
      /\ Staged(new) => taken[b][s] # NoImage
  BY <1>1, <1>3 DEF B!Build, B!Conditions, Staged
<1>5. ~Staged(builds[b][s])
  BY <1>2 DEF B!Decided, Staged
<1> HIDE DEF new
<1> QED
  BY <1>2, <1>4, <1>5, WriteBuildStep

LEMMA BuildDeletedStep ==
  ASSUME BuildsInv, StagingInv, NEW b \in BuildGUIDs, NEW s \in Spaces, BuildDeleted(b, s)
  PROVE  BuildsStep
<1>1. /\ Exists(builds[b][s]) /\ builds' = [builds EXCEPT ![b][s] = Deleted]
      /\ UNCHANGED <<taken, stagings, bpc>>
  BY DEF BuildDeleted, B!BuildDeleted, B!Exists, Exists
<1>2. ~Exists(Deleted)
  BY DEF Exists
<1> QED
  BY <1>1, <1>2, WriteBuildStep

LEMMA BuildCopiedStep ==
  ASSUME BuildsInv, StagingInv, NEW b \in BuildGUIDs, NEW s \in Spaces, NEW t \in Spaces,
         BuildCopied(b, s, t)
  PROVE  BuildsStep
<1>1. PICK new : new = B!NewBuild(builds[b][s])
  OBVIOUS
<1>2. /\ Exists(builds[b][s]) /\ builds[b][t] = Absent
      /\ builds' = [builds EXCEPT ![b][t] = new] /\ UNCHANGED <<taken, stagings, bpc>>
  BY <1>1 DEF BuildCopied, B!BuildCopied, B!Exists, Exists
<1>3. builds[b][s] \in B!Build
  BY <1>2 DEF BuildsInv, Exists
<1>4. /\ new \in B!Build /\ new.app = builds[b][s].app /\ new.package = builds[b][s].package
      /\ ~Staged(new)
  BY <1>1, <1>3 DEF B!NewBuild, B!Build, B!Conditions, Staged
<1>5. ~Exists(builds[b][t])
  BY <1>2 DEF Exists
<1> QED
  BY <1>2, <1>4, <1>5, WriteBuildStep

LEMMA PackagesTyped ==
  ASSUME PP!IInv
  PROVE  packages \in [PackageGUIDs -> [Spaces -> P!Package \cup {Absent, Deleted}]]
  BY DEF PP!IInv, PP!TypeOK, PP!Package, PP!Images, P!Package, P!Images

LEMMA EveryBuildsStep ==
  ASSUME PP!IInv, BuildsInv, StagingInv, [Next]_vars
  PROVE  BuildsStep
<1>1. ASSUME UNCHANGED <<builds, taken, ofBuilds>> PROVE BuildsStep
  BY <1>1, NoBuildsStep DEF ofBuilds, StagingInv, StagingStays
<1>2. CASE \E r \in Stagings : ServeStaging(r)
  BY <1>2, ServeStagingSteps, PackagesTyped
<1>3. CASE \E r \in Uploads : ServeUpload(r)
  BY <1>1, <1>3 DEF ServeUpload
<1>4. CASE \E r \in Changes : ServeChange(r)
  BY <1>1, <1>4 DEF ServeChange
<1>5. CASE Crash
  <2>1. /\ UNCHANGED <<builds, taken, stagings>>
        /\ bpc' \in [Stagings -> {"idle", "fetchPackage", "create", "done"}]
        /\ \A q \in Stagings : StagingStays(q)
    BY <1>5 DEF Crash, B!Crashed, B!InFlight, B!Arrived, StagingInv, StagingStays
  <2> QED
    BY <2>1, NoBuildsStep DEF StagingInv
<1>6. ASSUME NEW b \in BuildGUIDs, NEW s \in Spaces, NEW t \in Spaces,
             TakeImage(b, s) \/ FinishBuild(b, s) \/ BuildDeleted(b, s) \/ BuildCopied(b, s, t)
      PROVE  BuildsStep
  BY <1>6, TakeImageStep, FinishBuildStep, BuildDeletedStep, BuildCopiedStep, PackagesTyped
<1>7. CASE \E g \in PackageGUIDs, s, t \in Spaces : PackageDeleted(g, s) \/ PackageCopied(g, s, t)
  BY <1>1, <1>7 DEF PackageDeleted, PackageCopied
<1>8. CASE \E a \in AppGUIDs, s, t \in Spaces : AppMoves(a, s, t)
  BY <1>1, <1>8 DEF AppMoves, AppDeleted, AppCopied
<1>9. CASE UNCHANGED vars
  BY <1>1, <1>9 DEF vars
<1> QED
  BY <1>2, <1>3, <1>4, <1>5, <1>6, <1>7, <1>8, <1>9, NextCases DEF OtherSteps
-----------------------------------------------------------------------------
(***************************************************************************)
(* Preservation                                                            *)
(***************************************************************************)
LEMMA NextAppsInv == ASSUME AppsInv, BuildsInv, ChangeInv, [Next]_vars PROVE AppsInv'
  BY EveryAppsStep DEF AppsStep, AppsInv

\* Slots that are used stay so.
LEMMA BesideStays ==
  ASSUME AppsStep, PackagesStep, NEW g \in PackageGUIDs, NEW a \in AppGUIDs, Beside(g, a)
  PROVE  Beside(g, a)'
  BY DEF AppsStep, AppKept, PackagesStep, PackageKept, Beside

LEMMA NextPackageInv ==
  ASSUME PP!IInv, AppsStep, PackagesStep, PackageInv, UploadInv
  PROVE  PackageInv'
<1> SUFFICES ASSUME NEW g \in PackageGUIDs, NEW s \in Spaces, Exists(packages'[g][s])
             PROVE  Beside(g, packages[g][s].app)'
  BY DEF PackageInv
<1> PICK a : a = packages'[g][s].app
  OBVIOUS
<1>1. PackageKept(g, s)
  BY DEF PackagesStep
<1>2. ASSUME NEW t \in Spaces, Exists(packages[g][t]), packages[g][t].app = a
      PROVE  Beside(g, a)'
  <2>1. a \in AppGUIDs
    BY <1>2, PackagesTyped DEF P!Package, Exists
  <2> QED
    BY <1>2, <2>1, BesideStays DEF PackageInv
<1>3. ASSUME NEW r \in Uploads, upc[r] = "create", uploads[r].space = s, uploads[r].app = a
      PROVE  Beside(g, a)'
  <2>1. a \in AppGUIDs /\ apps[a][s] # Absent
    BY <1>3 DEF PP!IInv, PP!CreateInv, UploadInv
  <2>2. apps'[a][s] # Absent /\ packages'[g][s] # Absent
    BY <2>1 DEF AppsStep, AppKept, Exists
  <2> QED
    BY <2>2 DEF Beside
<1>4. Beside(g, a)'
  BY <1>1, <1>2, <1>3 DEF PackageKept
<1> QED
  BY <1>4 DEF Beside

LEMMA NextUploadInv ==
  ASSUME PP!IInv', AppsStep, PackagesStep, UploadInv
  PROVE  UploadInv'
<1> SUFFICES ASSUME NEW q \in Uploads, upc'[q] = "create"
             PROVE  apps'[uploads'[q].app][uploads'[q].space] # Absent
  BY DEF UploadInv
<1>1. UploadSteps(q)
  BY DEF PackagesStep
<1>2. uploads'[q].app \in AppGUIDs /\ uploads'[q].space \in Spaces
  BY DEF PP!IInv, PP!CreateInv
<1>3. apps[uploads'[q].app][uploads'[q].space] # Absent
  BY <1>1 DEF UploadInv, UploadSteps, UploadStays, UploadArrives, UploadLocated, PackageFound,
              UploadPushes, Exists
<1> QED
  BY <1>2, <1>3 DEF AppsStep, AppKept

LEMMA NextRegistryInv ==
  ASSUME PackagesStep, RegistryInv
  PROVE  RegistryInv'
<1> SUFFICES ASSUME NEW image \in registry' PROVE Pushed(image)'
  BY DEF RegistryInv
<1>1. CASE image \in registry
  <2>1. PICK q \in Uploads : /\ upc[q] \in {"patch", "done"}
                             /\ uploads[q].guid = image.repo /\ uploads[q].bits = image.digest
    BY <1>1 DEF RegistryInv, Pushed
  <2>2. uploads'[q] = uploads[q] /\ upc'[q] \in {"patch", "done"}
    BY <2>1 DEF PackagesStep, UploadSteps, UploadStays, UploadArrives, UploadLocated,
                PackageFound, UploadPushes
  <2> QED
    BY <2>1, <2>2 DEF Pushed
<1>2. CASE image \notin registry
  BY <1>2 DEF PackagesStep, RegistryGrows, Pushed, SameBits
<1> QED
  BY <1>1, <1>2

\* Where an image came from, once known, is known for good.
LEMMA OriginStays ==
  ASSUME PackagesInv, AppsInv, BuildsInv, ChangeInv, [Next]_vars,
         NEW g \in PackageGUIDs, NEW s \in Spaces, NEW image, PP!Origin(g, s, image)
  PROVE  PP!Origin(g, s, image)'
  BY StepIsPackages, PackagesAssumed, MarkersDiffer, SlotAssumption, PP!OriginStays
     DEF PackagesInv

\* A build keeps its package and its app, wherever copies of the three go.
LEMMA MadeOfStays ==
  ASSUME AppsStep, PackagesStep, BuildsStep, StagingInv, NEW b \in BuildGUIDs,
         NEW g \in PackageGUIDs, NEW a \in AppGUIDs, MadeOf(b, g, a)
  PROVE  MadeOf(b, g, a)'
<1>1. Beside(g, a)'
  BY BesideStays DEF MadeOf
<1>2. \A s \in Spaces : BuildKept(b, s) /\ PackageKept(g, s)
  BY DEF BuildsStep, PackagesStep
<1>3. \E s \in Spaces : builds'[b][s] # Absent /\ packages'[g][s] # Absent
  BY <1>2 DEF MadeOf, BuildKept, PackageKept
<1>4. ASSUME NEW r \in Stagings, NEW s \in Spaces, Creates(r, b, s) PROVE FALSE
  <2>1. StagingHeld(r)
    BY DEF StagingInv
  <2>2. \A t \in Spaces : builds[b][t] = Absent
    BY <1>4, <2>1 DEF StagingHeld, Creates
  <2> QED
    BY <2>2 DEF MadeOf
<1>5. ASSUME NEW s \in Spaces, Exists(builds'[b][s])
      PROVE  builds'[b][s].package = g /\ builds'[b][s].app = a
  BY <1>2, <1>4, <1>5 DEF MadeOf, BuildKept, SameNames
<1> QED
  BY <1>1, <1>3, <1>5 DEF MadeOf

\* What a create makes of the names that its handler holds.
LEMMA CreatedOf ==
  ASSUME AppsStep, PackagesStep, BuildsStep, StagingInv, NEW b \in BuildGUIDs, NEW s \in Spaces,
         NEW r \in Stagings, Creates(r, b, s), builds'[b][s] # Absent
  PROVE  /\ \A t \in Spaces : builds[b][t] = Absent
         /\ \E g \in PackageGUIDs, a \in AppGUIDs : MadeOf(b, g, a)'
<1> PICK g : g = stagings[r].package
  OBVIOUS
<1> PICK a : a = stagings[r].app
  OBVIOUS
<1>1. /\ g \in PackageGUIDs /\ a \in AppGUIDs /\ Beside(g, a) /\ packages[g][s] # Absent
      /\ \A t \in Spaces : builds[b][t] = Absent
      /\ \A q \in Stagings, t \in Spaces : Creates(q, b, t) => q = r
  BY DEF StagingInv, StagingHeld, Creates
<1>2. Beside(g, a)' /\ packages'[g][s] # Absent
  BY <1>1, BesideStays DEF PackagesStep, PackageKept
<1>3. ASSUME NEW t \in Spaces, Exists(builds'[b][t])
      PROVE  builds'[b][t].package = g /\ builds'[b][t].app = a
  <2>1. BuildKept(b, t)
    BY DEF BuildsStep
  <2> QED
    BY <1>1, <1>3, <2>1 DEF BuildKept, Exists
<1>4. MadeOf(b, g, a)'
  BY <1>2, <1>3 DEF MadeOf, Beside
<1> QED
  BY <1>1, <1>4

LEMMA NextTakenWell ==
  ASSUME PackagesInv, AppsInv, ChangeInv, BuildsInv, StagingInv, PackagesStep, BuildsStep,
         [Next]_vars, NEW b \in BuildGUIDs, NEW s \in Spaces, Exists(builds'[b][s])
  PROVE  TakenWell(b, s)'
<1>1. BuildKept(b, s) /\ TakenKept(b, s) /\ registry \subseteq registry'
  BY DEF BuildsStep, PackagesStep, RegistryGrows
<1> PICK g : g = builds'[b][s].package
  OBVIOUS
<1> PICK image : image = taken'[b][s]
  OBVIOUS
<1>2. CASE builds[b][s] = Absent /\ ~Staged(builds'[b][s])
  <2>1. taken'[b][s] = NoImage
    BY <1>1, <1>2 DEF TakenKept, BuildsInv, Exists
  <2> QED
    BY <1>2, <2>1 DEF TakenWell
<1>3. ASSUME Exists(builds[b][s]), builds[b][s].package = g,
             Staged(builds'[b][s]) => Staged(builds[b][s]) \/ taken[b][s] # NoImage
      PROVE  TakenWell(b, s)'
  <2>1. TakenWell(b, s) /\ g \in PackageGUIDs
    BY <1>3 DEF BuildsInv, B!Build, Exists
  <2>2. ASSUME image # NoImage
        PROVE  image \in registry /\ image.repo = g /\ PP!Origin(g, s, image)
    <3>1. CASE taken'[b][s] = taken[b][s]
      BY <1>3, <2>1, <2>2, <3>1 DEF TakenWell
    <3>2. CASE taken'[b][s] # taken[b][s]
      <4>1. Exists(packages[g][s]) /\ packages[g][s].image = image
        BY <1>1, <1>3, <3>2 DEF TakenKept
      <4>2. image \in registry /\ image.repo = g
        BY <2>1, <2>2, <4>1 DEF PackagesInv, PP!IInv, PP!ReadyIsPushed, PP!Stored, PP!Exists, Exists
      <4>3. PP!Origin(g, s, packages[g][s].image)
        BY <2>1, <2>2, <4>1 DEF PackagesInv, PP!OriginInv, PP!Exists, Exists
      <4> QED
        BY <4>1, <4>2, <4>3
    <3> QED
      BY <3>1, <3>2
  <2>3. image # NoImage => PP!Origin(g, s, image)'
    BY <2>1, <2>2, OriginStays
  <2>4. Staged(builds'[b][s]) => image # NoImage
    BY <1>1, <1>3, <2>1, PushAssumption DEF TakenWell, TakenKept
  <2> QED
    BY <1>1, <2>2, <2>3, <2>4 DEF TakenWell
<1>4. \A r \in Stagings : Creates(r, b, s) => builds[b][s] = Absent
  BY DEF StagingInv, StagingHeld, Creates
<1> QED
  BY <1>1, <1>2, <1>3, <1>4 DEF BuildKept, SameNames

LEMMA NextBuildsInv ==
  ASSUME PackagesInv, AppsInv, ChangeInv, BuildsInv, StagingInv,
         AppsStep, PackagesStep, BuildsStep, [Next]_vars
  PROVE  BuildsInv'
<1>1. ASSUME NEW b \in BuildGUIDs, NEW s \in Spaces, builds'[b][s] # Absent
      PROVE  \E g \in PackageGUIDs, a \in AppGUIDs : MadeOf(b, g, a)'
  <2>1. CASE \E t \in Spaces : builds[b][t] # Absent
    <3>1. PICK g \in PackageGUIDs, a \in AppGUIDs : MadeOf(b, g, a)
      BY <2>1 DEF BuildsInv
    <3> QED
      BY <3>1, MadeOfStays
  <2>2. BuildKept(b, s)
    BY DEF BuildsStep
  <2> QED
    BY <1>1, <2>1, <2>2, CreatedOf DEF BuildKept
<1>2. ASSUME NEW b \in BuildGUIDs, NEW s \in Spaces, builds'[b][s] = Absent
      PROVE  taken'[b][s] = NoImage
  <2>1. BuildKept(b, s) /\ TakenKept(b, s)
    BY DEF BuildsStep
  <2> QED
    BY <1>2, <2>1 DEF BuildKept, TakenKept, BuildsInv, Exists
<1>3. /\ builds' \in [BuildGUIDs -> [Spaces -> B!Build \cup {Absent, Deleted}]]
      /\ taken' \in [BuildGUIDs -> [Spaces -> P!Images \cup {NoImage}]]
  BY DEF BuildsStep
<1> QED
  BY <1>1, <1>2, <1>3, NextTakenWell DEF BuildsInv

LEMMA NextStagingInv ==
  ASSUME PP!IInv, PackageInv, BuildsInv, StagingInv, AppsStep, PackagesStep, BuildsStep
  PROVE  StagingInv'
<1>1. \A q \in Stagings : StagingHeld(q)
  BY DEF StagingInv
<1> SUFFICES ASSUME NEW q \in Stagings PROVE StagingHeld(q)'
  BY DEF BuildsStep, StagingInv
<1>2. StagingStays(q) \/ StagingArrives(q) \/ StagingFound(q)
  BY DEF BuildsStep
<1>3. CASE StagingStays(q) /\ bpc'[q] # "create"
  BY <1>1, <1>3 DEF StagingStays, StagingHeld
<1>4. CASE StagingStays(q) /\ bpc'[q] = "create"
  <2> PICK b : b = stagings[q].build
    OBVIOUS
  <2> PICK g : g = stagings[q].package
    OBVIOUS
  <2> PICK s : s = stagings[q].space
    OBVIOUS
  <2> PICK a : a = stagings[q].app
    OBVIOUS
  <2>1. stagings'[q] = stagings[q] /\ bpc[q] = "create"
    BY <1>4 DEF StagingStays
  <2>2. /\ b \in BuildGUIDs /\ g \in PackageGUIDs /\ s \in Spaces /\ a \in AppGUIDs
        /\ \A t \in Spaces : builds[b][t] = Absent
        /\ packages[g][s] # Absent /\ Beside(g, a)
    BY <1>1, <2>1 DEF StagingHeld
  <2>3. ASSUME NEW t \in Spaces PROVE builds'[b][t] = Absent
    <3>1. BuildKept(b, t)
      BY <2>2 DEF BuildsStep
    <3>2. \A r \in Stagings : Creates(r, b, t) => r = q
      BY <1>1, <2>1 DEF StagingHeld, Creates
    <3> QED
      BY <1>4, <2>2, <3>1, <3>2 DEF BuildKept
  <2>4. packages'[g][s] # Absent /\ Beside(g, a)'
    BY <2>2, BesideStays DEF PackagesStep, PackageKept
  <2>5. ASSUME NEW r \in Stagings \ {q}, bpc'[r] = "create" PROVE stagings'[r].build # b
    <3>1. StagingStays(r) \/ StagingFound(r)
      BY <2>5 DEF BuildsStep, StagingArrives
    <3> QED
      BY <1>1, <2>1, <2>5, <3>1 DEF StagingStays, StagingFound, StagingHeld
  <2> QED
    BY <1>1, <2>1, <2>2, <2>3, <2>4, <2>5 DEF StagingHeld, Beside
<1>5. CASE StagingArrives(q)
  BY <1>5 DEF StagingArrives, StagingHeld
<1>6. CASE StagingFound(q)
  <2> DEFINE g == stagings[q].package
             s == stagings'[q].space
             b == stagings'[q].build
  <2>0. g \in PackageGUIDs /\ s \in Spaces /\ b \in BuildGUIDs /\ stagings[q].op = "createBuild"
    BY <1>1, <1>6 DEF StagingFound, StagingHeld
  <2>1. /\ Exists(packages[g][s]) /\ stagings'[q].app = packages[g][s].app
        /\ stagings'[q].package = g /\ UNCHANGED <<apps, packages, builds>>
    BY <1>6 DEF StagingFound
  <2>2. stagings'[q].app \in AppGUIDs
    BY <2>0, <2>1, PackagesTyped DEF P!Package, Exists
  <2>3. Beside(g, packages[g][s].app)
    BY <2>0, <2>1 DEF PackageInv
  <2>4. Beside(stagings[q].package, stagings[q].app)' /\ packages'[g][s] # Absent
    BY <2>1, <2>3 DEF Beside, Exists
  <2>5. \A t \in Spaces : builds'[b][t] = Absent
    BY <1>6, <2>1 DEF StagingFound
  <2>6. \A r \in Stagings \ {q} : bpc'[r] = "create" => stagings'[r].build # b
    BY <1>1, <1>6 DEF StagingFound, StagingStays, StagingHeld
  <2> QED
    BY <1>6, <2>0, <2>1, <2>2, <2>4, <2>5, <2>6 DEF StagingFound, StagingHeld
<1> QED
  BY <1>2, <1>3, <1>4, <1>5, <1>6

\* A droplet of an app stays one; it can be copied and deleted.
LEMMA DropletStays ==
  ASSUME AppsStep, PackagesStep, BuildsStep, StagingInv, NEW b \in BuildGUIDs,
         NEW a \in AppGUIDs, DropletOf(b, a)
  PROVE  DropletOf(b, a)'
<1>1. PICK g \in PackageGUIDs : MadeOf(b, g, a)
  BY DEF DropletOf
<1>2. \A s \in Spaces : BuildKept(b, s) /\ \A r \in Stagings : ~Creates(r, b, s)
  BY <1>1 DEF BuildsStep, MadeOf, StagingInv, StagingHeld, Creates
<1>3. ASSUME NEW s \in Spaces, Exists(builds'[b][s])
      PROVE  Staged(builds'[b][s]) \/ \E t \in Spaces \ {s} : builds'[b][t] # Absent
  <2>1. CASE Exists(builds[b][s]) /\ (Staged(builds[b][s]) => Staged(builds'[b][s]))
    BY <1>2, <2>1 DEF DropletOf, BuildKept
  <2>2. CASE builds[b][s] = Absent /\ \E t \in Spaces : Exists(builds[b][t])
    BY <1>2, <2>2 DEF BuildKept, Exists
  <2> QED
    BY <1>2, <1>3, <2>1, <2>2 DEF BuildKept
<1>4. MadeOf(b, g, a)'
  BY <1>1, MadeOfStays
<1> QED
  BY <1>3, <1>4 DEF DropletOf

LEMMA NextDropletInv ==
  ASSUME AppsInv, ChangeInv, StagingInv, DropletInv, AppsStep, PackagesStep, BuildsStep
  PROVE  DropletInv'
<1> SUFFICES ASSUME NEW a \in AppGUIDs, NEW s \in Spaces,
                    Exists(apps'[a][s]), apps'[a][s].droplet # None
             PROVE  DropletOf(apps[a][s].droplet, a)'
  BY DEF DropletInv
<1> PICK b : b = apps'[a][s].droplet
  OBVIOUS
<1>1. b \in BuildGUIDs
  BY DEF AppsStep, A!App, Exists
<1>2. AppKept(a, s)
  BY DEF AppsStep
<1>3. DropletOf(b, a)
  BY <1>2 DEF AppKept, DropletInv, ChangeInv, ChangeHeld
<1>4. DropletOf(b, a)'
  BY <1>1, <1>3, DropletStays
<1> QED
  BY <1>4 DEF DropletOf, MadeOf

\* A step writes what the changes hold and where they are request by request.
LEMMA ChangesTyped ==
  ASSUME AppsInv, BuildsInv, ChangeInv, [Next]_vars
  PROVE  /\ changes' \in [Changes -> A!Request]
         /\ apc' \in [Changes -> {"idle", "fetchApp", "fetchDroplet", "patch", "done"}]
<1>0. /\ changes \in [Changes -> A!Request]
      /\ apc \in [Changes -> {"idle", "fetchApp", "fetchDroplet", "patch", "done"}]
      /\ \A q \in Changes : ChangeSteps(q)
  BY EveryAppsStep DEF ChangeInv, AppsStep
<1>1. ASSUME NEW r \in Changes, ServeChange(r)
      PROVE  /\ changes' = [q \in Changes |-> changes'[q]]
             /\ apc' = [q \in Changes |-> apc'[q]]
  <2> USE DEF A!At, A!Pending, A!Call, A!Reply, A!Landed, A!cluster
  <2> DEFINE Goal == /\ UNCHANGED changes \/ \E x : changes' = [changes EXCEPT ![r] = x]
                     /\ UNCHANGED apc \/ \E p : apc' = [apc EXCEPT ![r] = p]
  <2> SUFFICES Goal
    BY <1>0
  <2>1. ASSUME NEW a \in AppGUIDs, NEW b \in BuildGUIDs,
               A!ReceiveChange(r, "setDroplet", a, b)
        PROVE  Goal
    BY <2>1 DEF A!ReceiveChange, A!Receive
  <2>2. ASSUME NEW p, A!ReadFails(r, p) PROVE Goal
    BY <2>2 DEF A!ReadFails
  <2>3. CASE A!FetchApp(r)
    <3>1. changes[r].op = "setDroplet"
      BY <2>3 DEF A!FetchApp, ChangeInv, ChangeHeld
    <3>2. \E p : apc' = [apc EXCEPT ![r] = p]
      BY <2>3, <3>1 DEF A!FetchApp
    <3>3. ASSUME NEW s \in Spaces, changes' = [changes EXCEPT ![r].space = s]
          PROVE  \E x : changes' = [changes EXCEPT ![r] = x]
      <4> WITNESS [changes[r] EXCEPT !.space = s]
      <4> QED
        BY <3>3
    <3>4. UNCHANGED changes \/ \E s \in Spaces : changes' = [changes EXCEPT ![r].space = s]
      BY <2>3 DEF A!FetchApp
    <3> QED
      BY <3>2, <3>3, <3>4
  <2>4. CASE A!FetchDroplet(r) \/ A!PatchApp(r) \/ A!RefuseWrite(r) \/ A!LoseAnswer(r)
    BY <2>4 DEF A!FetchDroplet, A!PatchApp, A!RefuseWrite, A!LoseAnswer, A!AnswerLost
  <2>5. ~A!FetchNamespace(r) /\ ~A!CreateSecret(r) /\ ~A!CreateApp(r) /\ ~A!RefuseDuplicate(r)
    BY <1>0 DEF A!FetchNamespace, A!CreateSecret, A!CreateApp, A!RefuseDuplicate
  <2> HIDE DEF Goal, A!At, A!Pending, A!Call, A!Reply, A!Landed, A!cluster
  <2> QED
    BY <1>1, <2>1, <2>2, <2>3, <2>4, <2>5 DEF ServeChange, A!HandlerStep
<1>2. CASE Crash
  BY <1>0, <1>2 DEF Crash, A!Crashed
<1>3. CASE UNCHANGED <<changes, apc>>
  BY <1>0, <1>3
<1>4. CASE \E a \in AppGUIDs, s, t \in Spaces : AppMoves(a, s, t)
  BY <1>3, <1>4 DEF AppMoves, AppDeleted, AppCopied, A!AppDeleted, A!AppCopied
<1>5. CASE OtherSteps
  BY <1>2, <1>3, <1>5 DEF OtherSteps, ServeUpload, ServeStaging, TakeImage, FinishBuild,
     BuildDeleted, BuildCopied, PackageDeleted, PackageCopied, vars, ofApps
<1>6. /\ changes' = [q \in Changes |-> changes'[q]]
      /\ apc' = [q \in Changes |-> apc'[q]]
  BY <1>1, <1>4, <1>5, NextCases
<1>7. \A q \in Changes :
        /\ changes'[q] \in A!Request
        /\ apc'[q] \in {"idle", "fetchApp", "fetchDroplet", "patch", "done"}
  BY <1>0 DEF ChangeSteps, ChangeStays, ChangeArrives, AppLocated, DropletFound
<1> QED
  BY <1>6, <1>7

LEMMA NextChangeInv ==
  ASSUME AppsInv, ChangeInv, BuildsInv, StagingInv, AppsStep, PackagesStep, BuildsStep,
         [Next]_vars
  PROVE  ChangeInv'
<1> SUFFICES ASSUME NEW q \in Changes PROVE ChangeHeld(q)'
  BY ChangesTyped DEF ChangeInv
<1>1. ChangeHeld(q) /\ ChangeSteps(q)
  BY DEF ChangeInv, AppsStep
<1>2. \A a \in AppGUIDs, b \in BuildGUIDs : DropletOf(b, a) => DropletOf(b, a)'
  BY DropletStays
<1>3. CASE ChangeStays(q)
  <2>1. CASE apc'[q] = "done"
    BY <1>1, <1>3, <2>1 DEF ChangeStays, ChangeHeld
  <2>2. CASE apc'[q] = apc[q]
    <3> PICK a : a = changes[q].app
      OBVIOUS
    <3> PICK b : b = changes[q].droplet
      OBVIOUS
    <3>1. apc'[q] = "patch" => DropletOf(b, a)'
      BY <1>1, <1>2, <2>2 DEF ChangeHeld
    <3>2. changes'[q].app = a /\ changes'[q].droplet = b
      BY <1>3 DEF ChangeStays
    <3>3. apc'[q] = "patch" => DropletOf(changes[q].droplet, changes[q].app)'
      BY <3>1, <3>2 DEF DropletOf, MadeOf
    <3> QED
      BY <1>1, <1>3, <2>2, <3>3 DEF ChangeStays, ChangeHeld
  <2> QED
    BY <1>3, <2>1, <2>2 DEF ChangeStays
<1>4. CASE ChangeArrives(q)
  BY <1>4 DEF ChangeArrives, ChangeHeld
<1>5. CASE AppLocated(q)
  BY <1>1, <1>5 DEF AppLocated, ChangeHeld
<1>6. CASE DropletFound(q)
  <2> PICK a : a = changes[q].app
    OBVIOUS
  <2> PICK b : b = changes[q].droplet
    OBVIOUS
  <2>1. /\ a \in AppGUIDs /\ b \in BuildGUIDs /\ changes[q].op = "setDroplet"
        /\ changes[q].space \in Spaces /\ changes'[q] = changes[q]
    BY <1>1, <1>6 DEF DropletFound, ChangeHeld
  <2>2. PICK t \in Spaces : /\ Exists(builds[b][t]) /\ builds[b][t].app = a /\ Staged(builds[b][t])
                            /\ \A u \in Spaces : Exists(builds[b][u]) => u = t
    BY <1>6 DEF DropletFound
  <2>3. \E g \in PackageGUIDs : MadeOf(b, g, a)
    <3>1. PICK g \in PackageGUIDs, c \in AppGUIDs : MadeOf(b, g, c)
      BY <2>1, <2>2 DEF BuildsInv, Exists
    <3>2. c = a
      BY <2>2, <3>1 DEF MadeOf
    <3> QED
      BY <3>1, <3>2
  <2>4. DropletOf(b, a)
    BY <2>2, <2>3 DEF DropletOf
  <2>5. DropletOf(b, a)'
    BY <1>2, <2>1, <2>4
  <2>6. DropletOf(changes[q].droplet, changes[q].app)'
    BY <2>1, <2>5 DEF DropletOf, MadeOf
  <2> QED
    BY <2>1, <2>6 DEF ChangeHeld
<1> QED
  BY <1>1, <1>3, <1>4, <1>5, <1>6 DEF ChangeSteps
-----------------------------------------------------------------------------
LEMMA InitApps ==
  ASSUME Init
  PROVE  /\ AppsInv /\ DropletInv /\ PackageInv
         /\ [a \in AppGUIDs |-> Where(apps, a)] \in [AppGUIDs -> {{s} : s \in Spaces}]
<1>1. PICK home \in [AppGUIDs -> Spaces], name \in [AppGUIDs -> Names] :
        /\ apps = [a \in AppGUIDs |-> [s \in Spaces |->
                     IF s = home[a] THEN A!NewApp(name[a], FALSE) ELSE Absent]]
        /\ \/ packages = P!NoPackages
           \/ \E g \in PackageGUIDs, a \in AppGUIDs :
                 packages = [P!NoPackages EXCEPT ![g][home[a]] = [app |-> a, image |-> NoImage]]
  BY DEF Init
<1>2. \A a \in AppGUIDs :
        A!NewApp(name[a], FALSE) \in A!App /\ A!NewApp(name[a], FALSE).droplet = None
  BY DEF A!NewApp, A!App, A!DesiredStates
<1>3. \A a \in AppGUIDs, s \in Spaces : Exists(apps[a][s]) <=> (s = home[a])
  BY <1>1, <1>2, PushAssumption DEF Exists
<1>4. AppsInv
  <2> DEFINE new(a) == A!NewApp(name[a], FALSE)
  <2> HIDE DEF new
  <2>1. \A a \in AppGUIDs : new(a) \in A!App
    BY <1>2 DEF new
  <2>2. apps = [a \in AppGUIDs |-> [s \in Spaces |-> IF s = home[a] THEN new(a) ELSE Absent]]
    BY <1>1 DEF new
  <2> QED
    BY <2>1, <2>2 DEF AppsInv
<1>5. DropletInv
  BY <1>1, <1>2, <1>3 DEF DropletInv
<1>6. PackageInv
  <2>1. CASE packages = P!NoPackages
    BY <2>1 DEF P!NoPackages, PackageInv, Exists
  <2>2. ASSUME NEW g \in PackageGUIDs, NEW a \in AppGUIDs,
               packages = [P!NoPackages EXCEPT ![g][home[a]] = [app |-> a, image |-> NoImage]]
        PROVE  PackageInv
    <3>1. PICK new : new = [app |-> a, image |-> NoImage]
      OBVIOUS
    <3>2. \A h \in PackageGUIDs, s \in Spaces :
            packages[h][s] = IF h = g /\ s = home[a] THEN new ELSE Absent
      BY <2>2, <3>1 DEF P!NoPackages
    <3>3. new \in P!Package /\ new.app = a
      BY <3>1 DEF P!Package
    <3>4. Beside(g, a)
      BY <1>3, <3>2, <3>3, PushAssumption DEF Beside, Exists
    <3> QED
      BY <3>2, <3>3, <3>4 DEF PackageInv, Exists
  <2> QED
    BY <1>1, <2>1, <2>2
<1>7. \A a \in AppGUIDs : Where(apps, a) = {home[a]}
  BY <1>3 DEF Where
<1>8. [a \in AppGUIDs |-> Where(apps, a)] \in [AppGUIDs -> {{s} : s \in Spaces}]
  BY <1>7
<1> QED
  BY <1>4, <1>5, <1>6, <1>8

LEMMA InitIsPackages == ASSUME Init PROVE PP!Init
<1>1. [a \in AppGUIDs |-> Where(apps, a)] \in [AppGUIDs -> {{s} : s \in Spaces} \cup {{}}]
  BY InitApps
<1>2. \/ packages = PP!NoPackages /\ registry = {}
      \/ \E g \in PackageGUIDs, s \in Spaces, package \in PP!Package :
            /\ package.image # NoImage => package.image.repo = g
            /\ packages = [PP!NoPackages EXCEPT ![g][s] = package]
            /\ registry = {package.image} \ {NoImage}
  <2>1. CASE packages = P!NoPackages
    BY <2>1 DEF Init, P!NoPackages, PP!NoPackages
  <2>2. ASSUME NEW g \in PackageGUIDs, NEW a \in AppGUIDs, NEW s \in Spaces,
               packages = [P!NoPackages EXCEPT ![g][s] = [app |-> a, image |-> NoImage]]
        PROVE  \E package \in PP!Package :
                  /\ package.image # NoImage => package.image.repo = g
                  /\ packages = [PP!NoPackages EXCEPT ![g][s] = package]
                  /\ registry = {package.image} \ {NoImage}
    <3>1. [app |-> a, image |-> NoImage] \in PP!Package
      BY DEF PP!Package
    <3> WITNESS [app |-> a, image |-> NoImage] \in PP!Package
    <3> QED
      BY <2>2, <3>1 DEF Init, P!NoPackages, PP!NoPackages
  <2>3. packages = P!NoPackages \/ \E g \in PackageGUIDs, a \in AppGUIDs, s \in Spaces :
              packages = [P!NoPackages EXCEPT ![g][s] = [app |-> a, image |-> NoImage]]
    BY DEF Init
  <2> QED
    BY <2>1, <2>2, <2>3
<1> QED
  BY <1>1, <1>2 DEF Init, PP!Init, P!NoRequest, PP!NoRequest

-----------------------------------------------------------------------------
(***************************************************************************)
(* The steps of Push are steps of Apps                                     *)
(***************************************************************************)
\* The assumptions of AppsProofs.
LEMMA AppsAssumed ==
  /\ None \notin AppGUIDs \cup Names \cup BuildGUIDs \cup Spaces \cup AP!Ops
  /\ Absent \notin AP!App \cup AP!Build \cup {EnvSecret}
  /\ Deleted \notin AP!App \cup AP!Build \cup {EnvSecret}
  BY PushAssumption DEF A!App, A!Build, A!Ops, A!DesiredStates,
     AP!App, AP!Build, AP!Ops, AP!DesiredStates

LEMMA AppsInvariant ==
  /\ AP!FirstState => AP!IInv
  /\ AP!IInv /\ [AP!Next]_AP!vars => AP!IInv'
  BY AppsAssumed, SlotAssumption, AP!FirstIInv, AP!NextIInv

LEMMA ChangeIsApps ==
  ASSUME NEW r \in Changes, ServeChange(r)
  PROVE  AP!Next
<1>1. ASSUME NEW a \in AppGUIDs, NEW b \in BuildGUIDs, A!ReceiveChange(r, "setDroplet", a, b)
      PROVE  AP!ReceiveChange(r, "setDroplet", a, b)
  BY <1>1 DEF A!ReceiveChange, A!Receive, A!Call, A!Reply, A!PayloadErrors, A!cluster,
              A!NoRequest, A!Answered, A!Arrived, A!Pending,
              AP!ReceiveChange, AP!Receive, AP!Call, AP!Reply, AP!PayloadErrors, AP!cluster,
              AP!NoRequest, AP!Answered, AP!Arrived, AP!Pending, DropletView
<1>2. ASSUME A!HandlerStep(r) PROVE AP!HandlerStep(r)
  <2> USE DEF A!At, A!Pending, A!Call, A!Reply, A!Landed, A!cluster, A!Writes,
              AP!At, AP!Pending, AP!Call, AP!Reply, AP!Landed, AP!cluster, AP!Writes, DropletView
  <2>1. A!FetchNamespace(r) => AP!FetchNamespace(r)
    BY DEF A!FetchNamespace, AP!FetchNamespace, A!Fresh, AP!Fresh, A!Exists, AP!Exists
  <2>2. A!CreateSecret(r) => AP!CreateSecret(r)
    BY DEF A!CreateSecret, AP!CreateSecret
  <2>3. A!CreateApp(r) => AP!CreateApp(r)
    BY DEF A!CreateApp, AP!CreateApp, A!NewApp, AP!NewApp
  <2>4. A!RefuseDuplicate(r) => AP!RefuseDuplicate(r)
    BY DEF A!RefuseDuplicate, AP!RefuseDuplicate, A!Exists, AP!Exists
  <2>5. A!FetchApp(r) => AP!FetchApp(r)
    BY DEF A!FetchApp, AP!FetchApp, A!NotFound, A!Duplicated, A!FoundIn, A!Where, A!Exists,
           A!Startable, AP!NotFound, AP!Duplicated, AP!FoundIn, AP!Where, AP!Exists,
           AP!Startable
  <2>6. A!FetchDroplet(r) => AP!FetchDroplet(r)
    BY DEF A!FetchDroplet, AP!FetchDroplet, A!NotFound, A!Duplicated, A!FoundIn, A!Where,
           A!Exists, A!OwnDroplet, AP!NotFound, AP!Duplicated, AP!FoundIn, AP!Where,
           AP!Exists, AP!OwnDroplet
  <2>7. A!PatchApp(r) => AP!PatchApp(r)
    BY DEF A!PatchApp, AP!PatchApp, A!Exists, AP!Exists, A!Changed, AP!Changed
  <2>8. A!RefuseWrite(r) => AP!RefuseWrite(r)
    BY DEF A!RefuseWrite, AP!RefuseWrite
  <2>9. A!LoseAnswer(r) => AP!LoseAnswer(r)
    BY DEF A!LoseAnswer, AP!LoseAnswer, A!AnswerLost, AP!AnswerLost
  <2>10. \A p : A!ReadFails(r, p) => AP!ReadFails(r, p)
    BY DEF A!ReadFails, AP!ReadFails
  <2> QED
    BY <1>2, <2>1, <2>2, <2>3, <2>4, <2>5, <2>6, <2>7, <2>8, <2>9, <2>10
       DEF A!HandlerStep, AP!HandlerStep
<1> QED
  BY <1>1, <1>2 DEF ServeChange, AP!Next

\* What Apps sees of a build that is written.
LEMMA DropletViewSet ==
  ASSUME BuildsInv, NEW b \in BuildGUIDs, NEW s \in Spaces, NEW build,
         builds' = [builds EXCEPT ![b][s] = build]
  PROVE  DropletView' = [DropletView EXCEPT ![b][s] =
                            View(build, [app |-> build.app, staged |-> Staged(build)])]
  BY DEF BuildsInv, DropletView

LEMMA DropletViewIs ==
  ASSUME NEW build, Exists(build), NEW a, build.app = a, NEW staged, Staged(build) = staged
  PROVE  View(build, [app |-> build.app, staged |-> Staged(build)]) = [app |-> a, staged |-> staged]
  BY Zenon DEF View

LEMMA CreateBuildIsApps ==
  ASSUME BuildsInv, StagingInv, NEW r \in Stagings, ServeStaging(r), B!CreateBuild(r)
  PROVE  AP!Next
<1> DEFINE b == stagings[r].build
           s == stagings[r].space
           a == stagings[r].app
<1>1. PICK new : new = B!NewBuild(stagings[r])
  OBVIOUS
<1>2. bpc[r] = "create" /\ builds' = [builds EXCEPT ![b][s] = new]
  BY <1>1 DEF B!CreateBuild
<1>3. /\ b \in BuildGUIDs /\ s \in Spaces /\ a \in AppGUIDs /\ stagings[r].package \in PackageGUIDs
      /\ \A t \in Spaces : builds[b][t] = Absent
      /\ \E t \in Spaces : apps[a][t] # Absent
  BY <1>2 DEF StagingInv, StagingHeld, Beside
<1>4. new \in B!Build /\ new.app = a /\ Staged(new) = FALSE
  BY <1>1, <1>3 DEF B!NewBuild, B!Build, B!Conditions, Staged
<1>5. Exists(new)
  BY <1>4, PushAssumption DEF Exists
<1>6. View(new, [app |-> new.app, staged |-> Staged(new)]) = [app |-> a, staged |-> FALSE]
  BY <1>4, <1>5, DropletViewIs
<1>7. DropletView' = [DropletView EXCEPT ![b][s] = [app |-> a, staged |-> FALSE]]
  BY <1>2, <1>3, <1>6, DropletViewSet
<1>8. \A t \in Spaces : DropletView[b][t] = Absent
  BY <1>3 DEF DropletView, View, Exists
<1>9. AP!BuildCreated(b, s, a)
  BY <1>3, <1>7, <1>8 DEF AP!BuildCreated, ServeStaging, ofApps, Exists
<1> QED
  BY <1>3, <1>9 DEF AP!Next

LEMMA FinishBuildIsApps ==
  ASSUME BuildsInv, NEW b \in BuildGUIDs, NEW s \in Spaces, FinishBuild(b, s)
  PROVE  AP!Next \/ UNCHANGED DropletView
<1>1. PICK succeeded \in {"True", "False"} : B!SetConditions(b, s, FALSE, succeeded)
  BY DEF FinishBuild
<1>2. PICK new : new = [builds[b][s] EXCEPT !.staging = FALSE, !.succeeded = succeeded]
  OBVIOUS
<1>3. PICK a : a = builds[b][s].app
  OBVIOUS
<1>4. /\ Exists(builds[b][s]) /\ Staged(builds[b][s]) = FALSE
      /\ builds' = [builds EXCEPT ![b][s] = new]
  BY <1>1, <1>2 DEF B!SetConditions, B!Exists, B!Decided, Exists, Staged
<1>5. builds[b][s] \in B!Build /\ a \in AppGUIDs
  BY <1>3, <1>4 DEF BuildsInv, Exists, B!Build
<1>6. /\ new \in B!Build /\ new.app = a
      /\ succeeded = "True" => Staged(new) = TRUE
      /\ succeeded = "False" => Staged(new) = FALSE
  BY <1>2, <1>3, <1>5 DEF B!Build, B!Conditions, Staged
<1>7. Exists(new)
  BY <1>6, PushAssumption DEF Exists
<1>8. DropletView[b][s] = [app |-> a, staged |-> FALSE]
  <2>1. View(builds[b][s], [app |-> builds[b][s].app, staged |-> Staged(builds[b][s])])
          = [app |-> a, staged |-> FALSE]
    BY <1>3, <1>4, DropletViewIs
  <2> QED
    BY <2>1 DEF DropletView
<1>9. AP!Exists(DropletView[b][s])
  <2>1. DropletView[b][s] \in A!Build
    BY <1>5, <1>8 DEF A!Build
  <2> QED
    BY <2>1, PushAssumption DEF AP!Exists
<1> PICK view : view = DropletView
  OBVIOUS
<1>a. view = [c \in BuildGUIDs |-> [t \in Spaces |-> view[c][t]]]
  BY DEF DropletView
<1>b. view[b][s] = [app |-> a, staged |-> FALSE]
  BY <1>8
<1>10. CASE succeeded = "True"
  <2>1. View(new, [app |-> new.app, staged |-> Staged(new)]) = [app |-> a, staged |-> TRUE]
    BY <1>6, <1>7, <1>10, DropletViewIs
  <2>2. DropletView' = [DropletView EXCEPT ![b][s] = [app |-> a, staged |-> TRUE]]
    BY <1>4, <2>1, DropletViewSet
  <2>3. [view EXCEPT ![b][s] = [app |-> a, staged |-> TRUE]] = [view EXCEPT ![b][s].staged = TRUE]
    <3>1. PICK x : x = FALSE
      OBVIOUS
    <3>2. PICK y : y = TRUE
      OBVIOUS
    <3>3. view[b][s] = [app |-> a, staged |-> x]
      BY <1>b, <3>1, Zenon
    <3>4. [view[b][s] EXCEPT !.staged = y] = [app |-> a, staged |-> y]
      BY <3>3
    <3>5. [view EXCEPT ![b][s] = [app |-> a, staged |-> y]] = [view EXCEPT ![b][s].staged = y]
      BY <1>a, <3>4, Zenon
    <3> QED
      BY <3>2, <3>5, Zenon
  <2>4. ~DropletView[b][s].staged
    BY <1>8
  <2>5. AP!BuildStaged(b, s)
    BY <1>9, <2>2, <2>3, <2>4 DEF AP!BuildStaged, FinishBuild, ofApps
  <2> QED
    BY <2>5 DEF AP!Next
<1>11. CASE succeeded = "False"
  <2>1. View(new, [app |-> new.app, staged |-> Staged(new)]) = [app |-> a, staged |-> FALSE]
    BY <1>6, <1>7, <1>11, DropletViewIs
  <2>2. DropletView' = [DropletView EXCEPT ![b][s] = [app |-> a, staged |-> FALSE]]
    BY <1>4, <2>1, DropletViewSet
  <2>3. [view EXCEPT ![b][s] = [app |-> a, staged |-> FALSE]] = view
    <3>1. PICK x : x = [app |-> a, staged |-> FALSE]
      OBVIOUS
    <3>2. view[b][s] = x
      BY <1>b, <3>1, Zenon
    <3>3. [view EXCEPT ![b][s] = x] = view
      BY <1>a, <3>2
    <3> QED
      BY <3>1, <3>3, Zenon
  <2> QED
    BY <2>2, <2>3
<1> QED
  BY <1>10, <1>11

LEMMA BuildDeletedIsApps ==
  ASSUME BuildsInv, NEW b \in BuildGUIDs, NEW s \in Spaces, BuildDeleted(b, s)
  PROVE  AP!Next
<1>1. Exists(builds[b][s]) /\ builds' = [builds EXCEPT ![b][s] = Deleted]
  BY DEF BuildDeleted, B!BuildDeleted, B!Exists, Exists
<1>2. DropletView' = [DropletView EXCEPT ![b][s] = Deleted]
  BY <1>1, DropletViewSet DEF View, Exists
<1>3. AP!Exists(DropletView[b][s])
  <2>1. DropletView[b][s] = [app |-> builds[b][s].app, staged |-> Staged(builds[b][s])]
    BY <1>1 DEF DropletView, View
  <2>2. builds[b][s].app \in AppGUIDs /\ Staged(builds[b][s]) \in BOOLEAN
    BY <1>1 DEF BuildsInv, Exists, B!Build, Staged
  <2>3. DropletView[b][s] \in A!Build
    BY <2>1, <2>2 DEF A!Build
  <2> QED
    BY <2>3, PushAssumption DEF AP!Exists
<1>4. AP!BuildDeleted(b, s)
  BY <1>2, <1>3 DEF AP!BuildDeleted, BuildDeleted, ofApps
<1> QED
  BY <1>4 DEF AP!Next

LEMMA BuildCopiedIsApps ==
  ASSUME BuildsInv, NEW b \in BuildGUIDs, NEW s \in Spaces, NEW t \in Spaces,
         BuildCopied(b, s, t)
  PROVE  AP!Next
<1>1. PICK new : new = B!NewBuild(builds[b][s])
  OBVIOUS
<1>2. PICK a : a = builds[b][s].app
  OBVIOUS
<1>3. PICK old : old = Staged(builds[b][s])
  OBVIOUS
<1>4. /\ Exists(builds[b][s]) /\ builds[b][t] = Absent
      /\ builds' = [builds EXCEPT ![b][t] = new]
  BY <1>1 DEF BuildCopied, B!BuildCopied, B!Exists, Exists
<1>5. builds[b][s] \in B!Build /\ a \in AppGUIDs /\ old \in BOOLEAN
  BY <1>2, <1>3, <1>4 DEF BuildsInv, Exists, B!Build, Staged
<1>6. new \in B!Build /\ new.app = a /\ Staged(new) = FALSE
  BY <1>1, <1>2, <1>5 DEF B!NewBuild, B!Build, B!Conditions, Staged
<1>7. Exists(new)
  BY <1>6, PushAssumption DEF Exists
<1>8. View(new, [app |-> new.app, staged |-> Staged(new)]) = [app |-> a, staged |-> FALSE]
  BY <1>6, <1>7, DropletViewIs
<1>9. DropletView' = [DropletView EXCEPT ![b][t] = [app |-> a, staged |-> FALSE]]
  BY <1>4, <1>8, DropletViewSet
<1>10. DropletView[b][s] = [app |-> a, staged |-> old] /\ DropletView[b][t] = Absent
  <2>1. View(builds[b][s], [app |-> builds[b][s].app, staged |-> Staged(builds[b][s])])
          = [app |-> a, staged |-> old]
    BY <1>2, <1>3, <1>4, DropletViewIs
  <2>2. View(Absent, [app |-> Absent.app, staged |-> Staged(Absent)]) = Absent
    BY DEF View, Exists
  <2> QED
    BY <1>4, <2>1, <2>2 DEF DropletView
<1>11. AP!Exists(DropletView[b][s])
  <2>1. DropletView[b][s] \in A!Build
    BY <1>5, <1>10 DEF A!Build
  <2> QED
    BY <2>1, PushAssumption DEF AP!Exists
<1>12. [DropletView[b][s] EXCEPT !.staged = FALSE] = [app |-> a, staged |-> FALSE]
  <2>1. PICK x : x = FALSE
    OBVIOUS
  <2>2. PICK slot : slot = DropletView[b][s]
    OBVIOUS
  <2>3. slot = [app |-> a, staged |-> old]
    BY <1>10, <2>2
  <2>4. [slot EXCEPT !.staged = x] = [app |-> a, staged |-> x]
    BY <2>3
  <2> QED
    BY <2>1, <2>2, <2>4, Zenon
<1>13. AP!BuildCopied(b, s, t)
  BY <1>9, <1>10, <1>11, <1>12 DEF AP!BuildCopied, BuildCopied, ofApps
<1> QED
  BY <1>13 DEF AP!Next

LEMMA MoveIsApps ==
  ASSUME NEW a \in AppGUIDs, NEW s \in Spaces, NEW t \in Spaces, AppMoves(a, s, t)
  PROVE  AP!Next
<1>1. AppDeleted(a, s) => AP!AppDeleted(a, s)
  BY DEF AppDeleted, A!AppDeleted, A!Exists, AP!AppDeleted, AP!Exists, DropletView
<1>2. AppCopied(a, s, t) => AP!AppCopied(a, s, t)
  BY DEF AppCopied, A!AppCopied, A!Exists, AP!AppCopied, AP!Exists, DropletView
<1> QED
  BY <1>1, <1>2 DEF AppMoves, AP!Next

LEMMA StepIsApps ==
  ASSUME BuildsInv, StagingInv, [Next]_vars
  PROVE  [AP!Next]_AP!vars
<1>1. ASSUME UNCHANGED <<apps, DropletView, ofApps>> PROVE UNCHANGED AP!vars
  BY <1>1 DEF AP!vars, AP!cluster, ofApps
<1>2. UNCHANGED builds => UNCHANGED DropletView
  BY DEF DropletView
<1>3. CASE \E r \in Uploads : ServeUpload(r)
  BY <1>1, <1>2, <1>3 DEF ServeUpload
<1>4. ASSUME NEW r \in Stagings, ServeStaging(r) PROVE [AP!Next]_AP!vars
  <2>1. CASE B!CreateBuild(r)
    BY <1>4, <2>1, CreateBuildIsApps
  <2>2. B!CreateBuild(r) \/ UNCHANGED builds
    BY <1>4 DEF ServeStaging, B!ReceiveCreate, B!HandlerStep, B!FetchPackage, B!ReadFails,
       B!FetchBuild, B!FetchDroplet, B!RefuseWrite, B!LoseAnswer
  <2> QED
    BY <1>1, <1>2, <1>4, <2>1, <2>2 DEF ServeStaging
<1>5. CASE \E r \in Changes : ServeChange(r)
  BY <1>5, ChangeIsApps
<1>6. CASE Crash
  <2>1. CASE A!Crashed(A!Writes)
    <3>1. AP!Crashed(AP!Writes)
      BY <2>1 DEF A!Crashed, A!Writes, A!InFlight, A!Arrived, A!Pending,
                  AP!Crashed, AP!Writes, AP!InFlight, AP!Arrived, AP!Pending
    <3>2. UNCHANGED <<AP!cluster, changes>>
      BY <1>2, <1>6 DEF Crash, AP!cluster
    <3> QED
      BY <3>1, <3>2 DEF AP!Next, AP!Crash
  <2>2. CASE UNCHANGED <<apc, astatus>>
    BY <1>1, <1>2, <1>6, <2>2 DEF Crash, ofApps
  <2> QED
    BY <1>6, <2>1, <2>2 DEF Crash
<1>7. ASSUME NEW b \in BuildGUIDs, NEW s \in Spaces, TakeImage(b, s) PROVE UNCHANGED AP!vars
  BY <1>1, <1>2, <1>7 DEF TakeImage
<1>8. ASSUME NEW b \in BuildGUIDs, NEW s \in Spaces, FinishBuild(b, s)
      PROVE  [AP!Next]_AP!vars
  BY <1>1, <1>8, FinishBuildIsApps DEF FinishBuild
<1>9. ASSUME NEW b \in BuildGUIDs, NEW s \in Spaces, BuildDeleted(b, s) PROVE AP!Next
  BY <1>9, BuildDeletedIsApps
<1>10. ASSUME NEW b \in BuildGUIDs, NEW s \in Spaces, NEW t \in Spaces, BuildCopied(b, s, t)
       PROVE  AP!Next
  BY <1>10, BuildCopiedIsApps
<1>11. CASE \E g \in PackageGUIDs, s, t \in Spaces : PackageDeleted(g, s) \/ PackageCopied(g, s, t)
  BY <1>1, <1>2, <1>11 DEF PackageDeleted, PackageCopied
<1>12. CASE \E a \in AppGUIDs, s, t \in Spaces : AppMoves(a, s, t)
  BY <1>12, MoveIsApps
<1>13. CASE UNCHANGED vars
  BY <1>1, <1>2, <1>13 DEF vars
<1> QED
  BY <1>3, <1>4, <1>5, <1>6, <1>7, <1>8, <1>9, <1>10, <1>11, <1>12, <1>13, NextCases
     DEF OtherSteps

LEMMA InitIsApps == ASSUME Init PROVE AP!FirstState
<1>1. PICK home \in [AppGUIDs -> Spaces], name \in [AppGUIDs -> Names] :
        apps = [a \in AppGUIDs |-> [s \in Spaces |->
                     IF s = home[a] THEN A!NewApp(name[a], FALSE) ELSE Absent]]
  BY DEF Init
<1>2. \A a \in AppGUIDs :
        /\ A!NewApp(name[a], FALSE) \in AP!App /\ A!NewApp(name[a], FALSE).droplet = None
        /\ A!NewApp(name[a], FALSE).env = FALSE /\ A!NewApp(name[a], FALSE).state = "STOPPED"
  BY DEF A!NewApp, AP!App, AP!DesiredStates
<1>3. apps \in [AppGUIDs -> [Spaces -> AP!App \cup {Absent, Deleted}]]
  <2> DEFINE new(a) == A!NewApp(name[a], FALSE)
  <2> HIDE DEF new
  <2>1. \A a \in AppGUIDs : new(a) \in AP!App
    BY <1>2 DEF new
  <2>2. apps = [a \in AppGUIDs |-> [s \in Spaces |-> IF s = home[a] THEN new(a) ELSE Absent]]
    BY <1>1 DEF new
  <2> QED
    BY <2>1, <2>2
<1>4. DropletView = AP!NoObjects(BuildGUIDs)
  BY DEF Init, B!NoBuilds, DropletView, View, Exists, AP!NoObjects
<1>5. ASSUME NEW a \in AppGUIDs, NEW s \in Spaces, AP!Exists(apps[a][s])
      PROVE  ~apps[a][s].env /\ apps[a][s].state = "STOPPED" /\ apps[a][s].droplet = None
  BY <1>1, <1>2, <1>5 DEF AP!Exists
<1>6. AP!FirstApp
  BY <1>3, <1>4, <1>5 DEF AP!FirstApp, AP!CurrentDropletIsOwn, AP!NoObjects
<1> QED
  BY <1>6 DEF Init, AP!FirstState, AP!NoObjects, A!NoRequest, AP!NoRequest
-----------------------------------------------------------------------------
(***************************************************************************)
(* The steps of Push are steps of Builds                                   *)
(***************************************************************************)
\* The assumptions of BuildsProofs.
LEMMA BuildsAssumed ==
  /\ None \notin AppGUIDs \cup PackageGUIDs \cup BuildGUIDs \cup Spaces
  /\ None \notin BP!Ops \cup BP!BuildStates
  /\ AppGUIDs \cap {Absent, Deleted} = {}
  /\ Absent \notin BP!Build /\ Deleted \notin BP!Build
  BY PushAssumption DEF B!Build, B!Conditions, B!Ops, B!BuildStates,
     BP!Build, BP!Conditions, BP!Ops, BP!BuildStates

LEMMA BuildsInvariant ==
  /\ BP!Init => BP!IInv
  /\ BP!IInv /\ [BP!Next]_BP!vars => BP!IInv'
  BY BuildsAssumed, SlotAssumption, BP!InitIInv, BP!NextIInv

\* What Builds sees of a package that is written.
LEMMA PackageViewSet ==
  ASSUME packages \in [PackageGUIDs -> [Spaces -> P!Package \cup {Absent, Deleted}]],
         NEW g \in PackageGUIDs, NEW s \in Spaces, NEW package,
         packages' = [packages EXCEPT ![g][s] = package]
  PROVE  PackageView' = [PackageView EXCEPT ![g][s] = View(package, package.app)]
  BY DEF PackageView

LEMMA UploadIsBuilds ==
  ASSUME PP!IInv, NEW r \in Uploads, ServeUpload(r)
  PROVE  BP!Next \/ UNCHANGED PackageView
<1> DEFINE g == uploads[r].guid
           s == uploads[r].space
           a == uploads[r].app
<1>0. packages \in [PackageGUIDs -> [Spaces -> P!Package \cup {Absent, Deleted}]]
  BY DEF PP!IInv, PP!TypeOK, PP!Package, PP!Images, P!Package, P!Images
<1>1. CASE P!CreatePackage(r)
  <2>1. upc[r] = "create" /\ packages' = [packages EXCEPT ![g][s] = [app |-> a, image |-> NoImage]]
    BY <1>1 DEF P!CreatePackage
  <2>2. g \in PackageGUIDs /\ s \in Spaces /\ a \in AppGUIDs
        /\ \A t \in Spaces : packages[g][t] = Absent
    BY <2>1 DEF PP!IInv, PP!CreateInv
  <2>3. PICK new : new = [app |-> a, image |-> NoImage]
    OBVIOUS
  <2>4. new \in P!Package /\ new.app = a
    BY <2>2, <2>3 DEF P!Package
  <2>5. View(new, new.app) = a
    BY <2>4, PushAssumption DEF View, Exists
  <2>6. PackageView' = [PackageView EXCEPT ![g][s] = a]
    BY <1>0, <2>1, <2>2, <2>3, <2>5, PackageViewSet
  <2>7. \A t \in Spaces : PackageView[g][t] = Absent
    BY <2>2 DEF PackageView, View, Exists
  <2>8. BP!PackageCreated(g, s, a)
    BY <2>6, <2>7 DEF BP!PackageCreated, ServeUpload, ofBuilds
  <2> QED
    BY <2>2, <2>8 DEF BP!Next
<1>2. CASE P!UpdatePackageSource(r)
  <2>1. PICK new : new = [packages[g][s] EXCEPT !.image = uploads[r].image]
    OBVIOUS
  <2>2. /\ upc[r] = "patch" /\ Exists(packages[g][s])
        /\ packages' = [packages EXCEPT ![g][s] = new]
    BY <1>2, <2>1 DEF P!UpdatePackageSource, P!Exists, Exists
  <2>3. g \in PackageGUIDs /\ s \in Spaces /\ uploads[r].image \in P!Images
    <3>1. PP!Holds(r) /\ registry \subseteq PP!Images
      BY DEF PP!IInv, PP!UploadInv, PP!TypeOK
    <3> QED
      BY <2>2, <3>1 DEF PP!Holds, PP!Images, P!Images
  <2>4. packages[g][s] \in P!Package
    BY <1>0, <2>2, <2>3 DEF Exists
  <2>5. new \in P!Package /\ new.app = packages[g][s].app
    BY <2>1, <2>3, <2>4 DEF P!Package
  <2>6. View(new, new.app) = packages[g][s].app
    BY <2>5, PushAssumption DEF View, Exists
  <2>7. PackageView[g][s] = packages[g][s].app
    BY <2>2, <2>3 DEF PackageView, View
  <2>8. PackageView' = [PackageView EXCEPT ![g][s] = PackageView[g][s]]
    BY <1>0, <2>2, <2>3, <2>6, <2>7, PackageViewSet
  <2> QED
    BY <2>8 DEF PackageView
<1>3. CASE UNCHANGED packages
  BY <1>3 DEF PackageView
<1> QED
  BY <1>1, <1>2, <1>3 DEF ServeUpload, P!ReceiveCreate, P!ReceiveUpload, P!HandlerStep, P!FetchApp,
     P!ReadFails, P!FetchPackage, P!RegistryAuth, P!PushImage, P!RefuseWrite, P!LoseAnswer, P!cluster

LEMMA StagingIsBuilds ==
  ASSUME NEW r \in Stagings, ServeStaging(r)
  PROVE  BP!Next
<1> USE DEF B!At, B!Pending, B!Call, B!Reply, B!Landed, B!Writes,
            BP!At, BP!Pending, BP!Call, BP!Reply, BP!Landed, BP!Writes, PackageView
<1>1. ASSUME NEW g \in PackageGUIDs, B!ReceiveCreate(r, g) PROVE BP!ReceiveCreate(r, g)
  BY <1>1 DEF B!ReceiveCreate, B!PayloadErrors, B!Answered,
              BP!ReceiveCreate, BP!PayloadErrors, BP!Answered
<1>2. \A p : B!ReadFails(r, p) => BP!ReadFails(r, p)
  BY DEF B!ReadFails, BP!ReadFails
<1>3. B!FetchPackage(r) => BP!FetchPackage(r)
  BY DEF B!FetchPackage, B!NotFound, B!Duplicated, B!FoundIn, B!Where, B!Exists, B!Fresh,
         B!BuildSpace, B!PackageRecord, BP!FetchPackage, BP!NotFound, BP!Duplicated, BP!FoundIn,
         BP!Where, BP!Exists, BP!Fresh, BP!BuildSpace, BP!PackageRecord
<1>4. B!CreateBuild(r) => BP!CreateBuild(r)
  BY DEF B!CreateBuild, B!NewBuild, B!BuildState, BP!CreateBuild, BP!NewBuild, BP!BuildState
<1>5. B!FetchBuild(r) => BP!FetchBuild(r)
  BY DEF B!FetchBuild, B!NotFound, B!Duplicated, B!FoundIn, B!Where, B!Exists, B!Show, B!BuildState,
         BP!FetchBuild, BP!NotFound, BP!Duplicated, BP!FoundIn, BP!Where, BP!Exists, BP!Show,
         BP!BuildState
<1>6. B!FetchDroplet(r) => BP!FetchDroplet(r)
  BY DEF B!FetchDroplet, B!NotFound, B!Duplicated, B!FoundIn, B!Where, B!Exists, B!Show, B!IsDroplet,
         BP!FetchDroplet, BP!NotFound, BP!Duplicated, BP!FoundIn, BP!Where, BP!Exists, BP!Show,
         BP!IsDroplet
<1>7. B!RefuseWrite(r) => BP!RefuseWrite(r)
  BY DEF B!RefuseWrite, BP!RefuseWrite
<1>8. B!LoseAnswer(r) => BP!LoseAnswer(r)
  BY DEF B!LoseAnswer, B!AnswerLost, BP!LoseAnswer, BP!AnswerLost
<1>9. B!HandlerStep(r) => BP!HandlerStep(r)
  BY <1>2, <1>3, <1>4, <1>5, <1>6, <1>7, <1>8 DEF B!HandlerStep, BP!HandlerStep
<1> QED
  BY <1>1, <1>9 DEF ServeStaging, BP!Next

LEMMA StepIsBuilds ==
  ASSUME PP!IInv, [Next]_vars
  PROVE  [BP!Next]_BP!vars
<1>1. ASSUME UNCHANGED <<PackageView, builds, ofBuilds>> PROVE UNCHANGED BP!vars
  BY <1>1 DEF BP!vars, ofBuilds
<1>2. UNCHANGED packages => UNCHANGED PackageView
  BY DEF PackageView
<1>3. ASSUME NEW r \in Uploads, ServeUpload(r) PROVE [BP!Next]_BP!vars
  BY <1>1, <1>3, UploadIsBuilds DEF ServeUpload
<1>4. CASE \E r \in Stagings : ServeStaging(r)
  BY <1>4, StagingIsBuilds
<1>5. CASE \E r \in Changes : ServeChange(r)
  BY <1>1, <1>2, <1>5 DEF ServeChange
<1>6. CASE Crash
  <2>1. CASE B!Crashed(B!Writes)
    <3>1. BP!Crashed(BP!Writes)
      BY <2>1 DEF B!Crashed, B!Writes, B!InFlight, B!Arrived, B!Pending,
                  BP!Crashed, BP!Writes, BP!InFlight, BP!Arrived, BP!Pending
    <3>2. UNCHANGED <<PackageView, builds, stagings>>
      BY <1>2, <1>6 DEF Crash
    <3> QED
      BY <3>1, <3>2 DEF BP!Next, BP!Crash
  <2>2. CASE UNCHANGED <<bpc, bstatus>>
    BY <1>1, <1>2, <1>6, <2>2 DEF Crash, ofBuilds
  <2> QED
    BY <1>6, <2>1, <2>2 DEF Crash
<1>7. ASSUME NEW b \in BuildGUIDs, NEW s \in Spaces, TakeImage(b, s) PROVE UNCHANGED BP!vars
  BY <1>1, <1>2, <1>7 DEF TakeImage
<1>8. ASSUME NEW b \in BuildGUIDs, NEW s \in Spaces, FinishBuild(b, s) PROVE BP!Next
  <2>1. PICK succeeded \in {"True", "False"} : B!SetConditions(b, s, FALSE, succeeded)
    BY <1>8 DEF FinishBuild
  <2>2. BP!SetConditions(b, s, FALSE, succeeded)
    BY <1>2, <1>8, <2>1 DEF B!SetConditions, B!Exists, B!Decided,
       BP!SetConditions, BP!Exists, BP!Decided, FinishBuild
  <2>3. succeeded \in BP!Conditions /\ FALSE \in BOOLEAN
    BY DEF BP!Conditions
  <2> QED
    BY <2>2, <2>3, Zenon DEF BP!Next
<1>9. ASSUME NEW b \in BuildGUIDs, NEW s \in Spaces, BuildDeleted(b, s) PROVE BP!Next
  <2>1. BP!BuildDeleted(b, s)
    BY <1>2, <1>9 DEF B!BuildDeleted, B!Exists, BP!BuildDeleted, BP!Exists, BuildDeleted
  <2> QED
    BY <2>1 DEF BP!Next
<1>10. ASSUME NEW g \in PackageGUIDs, NEW s \in Spaces, PackageDeleted(g, s) PROVE BP!Next
  <2>1. Exists(packages[g][s]) /\ packages' = [packages EXCEPT ![g][s] = Deleted]
    BY <1>10 DEF PackageDeleted, P!PackageDeleted, P!Exists, Exists
  <2>2. packages \in [PackageGUIDs -> [Spaces -> P!Package \cup {Absent, Deleted}]]
    BY DEF PP!IInv, PP!TypeOK, PP!Package, PP!Images, P!Package, P!Images
  <2>3. PackageView' = [PackageView EXCEPT ![g][s] = Deleted]
    BY <2>1, <2>2, PackageViewSet DEF View, Exists
  <2>4. PackageView[g][s] \in AppGUIDs
    BY <2>1, <2>2 DEF PackageView, View, Exists, P!Package
  <2>5. BP!PackageDeleted(g, s)
    BY <1>10, <2>3, <2>4, PushAssumption DEF BP!PackageDeleted, BP!Exists, PackageDeleted, ofBuilds
  <2> QED
    BY <2>5 DEF BP!Next
<1>11. ASSUME NEW g \in PackageGUIDs, NEW s \in Spaces, NEW t \in Spaces, PackageCopied(g, s, t)
       PROVE  BP!Next
  <2>1. PICK package : package = packages[g][s]
    OBVIOUS
  <2>2. /\ Exists(package) /\ packages[g][t] = Absent
        /\ packages' = [packages EXCEPT ![g][t] = package]
    BY <1>11, <2>1 DEF PackageCopied, P!PackageCopied, P!Exists, Exists
  <2>3. packages \in [PackageGUIDs -> [Spaces -> P!Package \cup {Absent, Deleted}]]
    BY PackagesTyped
  <2>4. View(package, package.app) = package.app /\ package.app \in AppGUIDs
    BY <2>1, <2>2, <2>3 DEF View, Exists, P!Package
  <2>5. PackageView' = [PackageView EXCEPT ![g][t] = package.app]
    BY <2>2, <2>3, <2>4, PackageViewSet
  <2>6. PackageView[g][s] = package.app /\ PackageView[g][t] = Absent
    <3>1. View(Absent, Absent.app) = Absent
      BY DEF View, Exists
    <3> QED
      BY <2>1, <2>2, <2>4, <3>1 DEF PackageView
  <2>7. BP!PackageCopied(g, s, t)
    BY <1>11, <2>4, <2>5, <2>6, PushAssumption
       DEF BP!PackageCopied, BP!Exists, PackageCopied, ofBuilds
  <2> QED
    BY <2>7 DEF BP!Next
<1>12. ASSUME NEW b \in BuildGUIDs, NEW s \in Spaces, NEW t \in Spaces, BuildCopied(b, s, t)
       PROVE  BP!Next
  <2>1. BP!BuildCopied(b, s, t)
    BY <1>2, <1>12 DEF B!BuildCopied, B!Exists, B!NewBuild, BP!BuildCopied, BP!Exists,
       BP!NewBuild, BuildCopied
  <2> QED
    BY <2>1 DEF BP!Next
<1>13. CASE \E a \in AppGUIDs, s, t \in Spaces : AppMoves(a, s, t)
  BY <1>1, <1>2, <1>13 DEF AppMoves, AppDeleted, AppCopied
<1>14. CASE UNCHANGED vars
  BY <1>1, <1>2, <1>14 DEF vars
<1> QED
  BY <1>3, <1>4, <1>5, <1>6, <1>7, <1>8, <1>9, <1>10, <1>11, <1>12, <1>13, <1>14, NextCases
     DEF OtherSteps

LEMMA InitIsBuilds == ASSUME Init PROVE BP!Init
<1>1. \E there \in [PackageGUIDs -> [app : AppGUIDs, space : Spaces] \cup {Absent}] :
        PackageView = [g \in PackageGUIDs |-> [s \in Spaces |->
              IF there[g] # Absent /\ there[g].space = s THEN there[g].app ELSE Absent]]
  <2>1. CASE packages = P!NoPackages
    <3> WITNESS [g \in PackageGUIDs |-> Absent]
                   \in [PackageGUIDs -> [app : AppGUIDs, space : Spaces] \cup {Absent}]
    <3> QED
      BY <2>1 DEF P!NoPackages, PackageView, View, Exists
  <2>2. ASSUME NEW g \in PackageGUIDs, NEW a \in AppGUIDs, NEW s \in Spaces,
               packages = [P!NoPackages EXCEPT ![g][s] = [app |-> a, image |-> NoImage]]
        PROVE  \E there \in [PackageGUIDs -> [app : AppGUIDs, space : Spaces] \cup {Absent}] :
                  PackageView = [h \in PackageGUIDs |-> [t \in Spaces |->
                     IF there[h] # Absent /\ there[h].space = t THEN there[h].app ELSE Absent]]
    <3>1. PICK new : new = [app |-> a, image |-> NoImage]
      OBVIOUS
    <3>2. PICK home : home = [app |-> a, space |-> s]
      OBVIOUS
    <3>3. View(new, new.app) = a
      BY <3>1, PushAssumption DEF View, Exists, P!Package
    <3>4. home \in [app : AppGUIDs, space : Spaces] /\ home.app = a /\ home.space = s
      BY <3>2
    <3>5. home # Absent
      BY <3>4, PushAssumption
    <3>6. PackageView = [h \in PackageGUIDs |-> [t \in Spaces |->
                            IF h = g /\ t = s THEN a ELSE Absent]]
      <4>1. packages = [h \in PackageGUIDs |-> [t \in Spaces |->
                           IF h = g /\ t = s THEN new ELSE Absent]]
        BY <2>2, <3>1 DEF P!NoPackages
      <4>2. View(Absent, Absent.app) = Absent
        BY DEF View, Exists
      <4> QED
        BY <3>3, <4>1, <4>2 DEF PackageView
    <3> DEFINE there == [h \in PackageGUIDs |-> IF h = g THEN home ELSE Absent]
    <3>7. there \in [PackageGUIDs -> [app : AppGUIDs, space : Spaces] \cup {Absent}]
      BY <3>4
    <3>8. \A h \in PackageGUIDs, t \in Spaces :
            (IF there[h] # Absent /\ there[h].space = t THEN there[h].app ELSE Absent)
              = IF h = g /\ t = s THEN a ELSE Absent
      BY <3>4, <3>5
    <3> HIDE DEF there
    <3> WITNESS there \in [PackageGUIDs -> [app : AppGUIDs, space : Spaces] \cup {Absent}]
    <3> QED
      BY <3>6, <3>8
  <2> QED
    BY <2>1, <2>2 DEF Init
<1> QED
  BY <1>1 DEF Init, BP!Init, B!NoBuilds, BP!NoBuilds, B!NoRequest, BP!NoRequest
-----------------------------------------------------------------------------
LEMMA InitIInv == Init => IInv
<1> SUFFICES ASSUME Init PROVE IInv
  OBVIOUS
<1>1. PackagesInv
  BY InitIsPackages, PackagesInvariant
<1>2. BuildsInv
  BY DEF Init, BuildsInv, B!NoBuilds, Exists
<1>3. StagingInv
  BY DEF Init, StagingInv, StagingHeld, B!NoRequest, B!Request
<1>4. ChangeInv
  BY DEF Init, ChangeInv, ChangeHeld, A!NoRequest, A!Request
<1>5. UploadInv /\ RegistryInv
  BY DEF Init, UploadInv, RegistryInv
<1> QED
  BY <1>1, <1>2, <1>3, <1>4, <1>5, InitApps DEF IInv

LEMMA NextIInv == IInv /\ [Next]_vars => IInv'
<1> SUFFICES ASSUME IInv, [Next]_vars PROVE IInv'
  OBVIOUS
<1>1. /\ PackagesInv /\ AppsInv /\ PackageInv /\ UploadInv /\ RegistryInv
      /\ BuildsInv /\ StagingInv /\ DropletInv /\ ChangeInv
  BY DEF IInv
<1>2. PP!IInv
  BY <1>1 DEF PackagesInv
<1>3. AppsStep /\ PackagesStep /\ BuildsStep
  BY <1>1, <1>2, EveryAppsStep, EveryPackagesStep, EveryBuildsStep
<1>4. PackagesInv' /\ PP!IInv'
  BY <1>1, StepIsPackages, PackagesInvariant DEF PackagesInv
<1> QED
  BY <1>1, <1>2, <1>3, <1>4, NextAppsInv, NextPackageInv, NextUploadInv, NextRegistryInv,
     NextBuildsInv, NextStagingInv, NextDropletInv, NextChangeInv DEF IInv

LEMMA Invariance == Spec => []IInv
  BY InitIInv, NextIInv, PTL DEF Spec
-----------------------------------------------------------------------------
(***************************************************************************)
(* What follows                                                            *)
(***************************************************************************)
\* On the cluster that all handlers share, Packages goes on as its own module says: no
\* handler of builds or apps, and no controller, does to a package what Packages does
\* not allow.
THEOREM PackagesImplemented == Spec => PP!Init /\ [][PP!Next]_PP!vars
<1>1. IInv /\ [Next]_vars => [PP!Next]_PP!vars
  BY StepIsPackages DEF IInv
<1> QED
  BY <1>1, Invariance, InitIsPackages, PTL DEF Spec

\* Neither do uploads and changes of apps interfere with the staging of builds: whatever
\* Push does to packages and builds, Builds allows.
THEOREM BuildsImplemented == Spec => BP!Init /\ [][BP!Next]_BP!vars
<1>1. IInv /\ [Next]_vars => [BP!Next]_BP!vars
  BY StepIsBuilds DEF IInv, PackagesInv
<1> QED
  BY <1>1, Invariance, InitIsBuilds, PTL DEF Spec

\* In Push, too, a build is created beside the package that it names and of the app of
\* that package (appRef, packageRef are local references), while the packages change under
\* the handler by the requests of others.
THEOREM ReferencesSafety == Spec => []BP!ReferencesResolve
<1>1. BP!IInv => BP!ReferencesResolve
  BY DEF BP!IInv
<1>2. Init => BP!IInv
  BY InitIsBuilds, BuildsInvariant
<1>3. IInv /\ BP!IInv /\ [Next]_vars => BP!IInv'
  BY StepIsBuilds, BuildsInvariant DEF IInv, PackagesInv
<1> QED
  BY <1>1, <1>2, <1>3, Invariance, PTL DEF Spec

\* What happens to apps and to droplets in Push, Apps allows: a build that is created,
\* succeeds or is deleted is for Apps a droplet that comes, is staged or goes.
THEOREM AppsImplemented == Spec => AP!FirstState /\ [][AP!Next]_AP!vars
<1>1. IInv /\ [Next]_vars => [AP!Next]_AP!vars
  BY StepIsApps DEF IInv
<1> QED
  BY <1>1, Invariance, InitIsApps, PTL DEF Spec

\* So the answer 200 to a change of the current droplet is kept although the droplets come
\* from the other handlers of the server, and the controller, as the change is served.
THEOREM ChangesSafety == Spec => []AP!ChangesStick
<1>1. AP!IInv => AP!ChangesStick
  BY DEF AP!IInv
<1>2. Init => AP!IInv
  BY InitIsApps, AppsInvariant
<1>3. IInv /\ AP!IInv /\ [Next]_vars => AP!IInv'
  BY StepIsApps, AppsInvariant DEF IInv
<1> QED
  BY <1>1, <1>2, <1>3, Invariance, PTL DEF Spec

\* Neither do builds that are created, staged or deleted meanwhile come between what a
\* change of the current droplet checks and what it writes: in Push, too, it takes effect
\* at one moment, and its client is told so exactly then.
THEOREM PushKeepsChanges == Spec => AP!ChangesAreAtomic
<1>1. Init => AP!IInv /\ AP!OverInv /\ AP!Promise!Init
  BY InitIsApps, AppsInvariant, AppsAssumed, SlotAssumption, AP!FirstOverInv,
     AP!FirstPromise
<1>2. IInv /\ AP!IInv /\ AP!OverInv /\ [Next]_vars => AP!IInv' /\ AP!OverInv' /\ AP!Step
  BY StepIsApps, AppsInvariant, AppsAssumed, SlotAssumption, AP!NextOverInv, AP!NextStep
     DEF IInv, AP!IInv
<1>3. AP!Step <=> [AP!Promise!Next]_AP!Promise!vars
  BY DEF AP!Step
<1> QED
  BY <1>1, <1>2, <1>3, Invariance, PTL DEF Spec, AP!ChangesAreAtomic, AP!Promise!Spec

\* appSetCurrentDropletHandler gives an app a droplet of another namespace only when kubectl
\* has put the app, or the package of the droplet, into a second namespace: the handlers of
\* Push name no object of another namespace by themselves.
THEOREM DropletSafety == Spec => []DropletIsHere
<1>1. ASSUME IInv PROVE DropletIsHere
  <2> SUFFICES ASSUME NEW a \in AppGUIDs, NEW s \in Spaces, NEW b, b = apps[a][s].droplet,
                      Exists(apps[a][s]), b # None, builds[b][s] = Absent
               PROVE  \E t \in Spaces \ {s} :
                         \/ apps[a][t] # Absent
                         \/ \E g \in PackageGUIDs : BuiltFrom(b, g, t) /\ packages[g][s] # Absent
    BY DEF DropletIsHere
  <2>1. PICK g \in PackageGUIDs : MadeOf(b, g, a)
    BY <1>1 DEF IInv, DropletInv, DropletOf
  <2>2. PICK h \in Spaces : apps[a][h] # Absent /\ packages[g][h] # Absent
    BY <2>1 DEF MadeOf, Beside
  <2>3. PICK t \in Spaces : builds[b][t] # Absent /\ packages[g][t] # Absent
    BY <2>1 DEF MadeOf
  <2>4. BuiltFrom(b, g, t) /\ t # s
    BY <2>1, <2>3 DEF BuiltFrom, MadeOf
  <2> QED
    BY <2>2, <2>4
<1> QED
  BY <1>1, Invariance, PTL

\* Whatever clients do in whatever order, and kubectl to their objects, an app runs bits that
\* were uploaded for one of its own packages, and that the registry has.
THEOREM BitsSafety == Spec => []RunsOwnBits
<1>1. ASSUME IInv PROVE RunsOwnBits
  <2> SUFFICES ASSUME NEW a \in AppGUIDs, NEW s \in Spaces, NEW b, b = apps[a][s].droplet,
                      Exists(apps[a][s]), b # None, Exists(builds[b][s])
               PROVE  /\ builds[b][s].app = a
                      /\ Staged(builds[b][s]) \/ \E t \in Spaces \ {s} : builds[b][t] # Absent
                      /\ Staged(builds[b][s]) =>
                            /\ taken[b][s] \in registry /\ taken[b][s].repo = builds[b][s].package
                            /\ \E r \in Uploads : /\ uploads[r].guid = builds[b][s].package
                                                  /\ uploads[r].bits = taken[b][s].digest
    BY DEF RunsOwnBits
  <2>1. b \in BuildGUIDs
    BY <1>1 DEF IInv, AppsInv, Exists, A!App
  <2>2. DropletOf(b, a)
    BY <1>1 DEF IInv, DropletInv
  <2>3. builds[b][s].app = a
    BY <2>2 DEF DropletOf, MadeOf
  <2>4. TakenWell(b, s)
    BY <1>1, <2>1 DEF IInv, BuildsInv
  <2>5. \A image \in registry : Pushed(image)
    BY <1>1 DEF IInv, RegistryInv
  <2> QED
    BY <2>2, <2>3, <2>4, <2>5 DEF DropletOf, TakenWell, Pushed
<1> QED
  BY <1>1, Invariance, PTL

\* A client that was told its upload is stored, while no other one overlapped with it,
\* gets builds of these bits and no others.
THEOREM StagingSafety == Spec => []StagesUploadedBits
<1>1. ASSUME IInv PROVE StagesUploadedBits
  <2> SUFFICES ASSUME NEW r \in Uploads, NEW b \in BuildGUIDs, NEW s \in Spaces,
                      NEW g, g = uploads[r].guid, NEW image, image = taken[b][s],
                      ustatus[r] = "OK", uploads[r].space = s, Exists(builds[b][s]),
                      builds[b][s].package = g, image # NoImage
               PROVE  \E q \in Uploads :
                         /\ uploads[q].guid = g /\ uploads[q].space = s
                         /\ uploads[q].bits = image.digest
                         /\ P!Overlap(q, r)
    BY DEF StagesUploadedBits
  <2>1. PP!IInv /\ PP!Origin(g, s, image)
    BY <1>1 DEF IInv, PackagesInv, BuildsInv, TakenWell
  <2>2. PICK q \in Uploads : PP!PutBy(q, g, s, image)
    BY <2>1 DEF PP!Origin, PP!Untouched, PP!UnderWay
  <2>3. PP!Overlap(q, r)
    BY <2>1, <2>2, PackagesAssumed, MarkersDiffer, SlotAssumption, PP!PutByOverlaps
  <2>4. P!Overlap(q, r)
    BY <2>3 DEF PP!Overlap, P!Overlap
  <2> QED
    BY <2>2, <2>4 DEF PP!PutBy
<1> QED
  BY <1>1, Invariance, PTL

\* The bits of a package, in Push: what PackageBits says of the uploads goes on to hold when
\* builds are staged from them and apps run what was built.
THEOREM PushKeepsThePromise == Spec => PP!UploadsAreAtomic
<1>1. Init => PP!Promise!Init
  BY InitIsPackages, PackagesAssumed, MarkersDiffer, SlotAssumption, PP!InitStep
<1>2. IInv /\ [Next]_vars => PP!Step
  BY StepIsPackages, PackagesAssumed, MarkersDiffer, SlotAssumption, PP!NextStep
     DEF IInv, PackagesInv
<1>3. PP!Step <=> [PP!Promise!Next]_PP!Promise!vars
  BY DEF PP!Step
<1> QED
  BY <1>1, <1>2, <1>3, Invariance, PTL DEF Spec, PP!UploadsAreAtomic, PP!Promise!Spec

\* And so do the invariants of Packages: no step of a build or of an app takes a stored
\* image, or an answer, back.
THEOREM PackagesSafety ==
  Spec => [](PP!ReadyIsPushed /\ PP!AnsweredIsKept /\ PP!RefusedOnlyWhenStored
             /\ PP!NoUploadAfterOK)
<1>1. IInv => /\ PP!ReadyIsPushed /\ PP!AnsweredIsKept /\ PP!RefusedOnlyWhenStored
              /\ PP!NoUploadAfterOK
  BY PackagesAssumed, MarkersDiffer, SlotAssumption, PP!AnswersAreKept, PP!RefusalsAreTrue
     DEF IInv, PackagesInv, PP!IInv
<1> QED
  BY <1>1, Invariance, PTL
=============================================================================
