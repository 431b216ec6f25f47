------------------------------ MODULE Packages ------------------------------
(***************************************************************************)
(* Packages: POST /v3/packages and POST /v3/packages/<guid>/upload         *)
(* (apis/package_handler.go) over the CFPackage resources                  *)
(* (repositories/package_repository.go) and the image registry             *)
(* (repositories/upload_source_image.go).                                  *)
(***************************************************************************)
EXTENDS Cluster, Handlers

CONSTANTS AppGUIDs, PackageGUIDs,
          Digests,       \* contents of the uploaded bits, by digest
          NoImage, None

VARIABLES appSpaces,     \* appSpaces[a]: namespaces with a CFApp named a
          packages,      \* packages[g][s]: the CFPackage g of namespace s
          registry,      \* images pushed to the registry
          requests       \* what the handlers hold

cluster == <<appSpaces, packages>>
vars == <<cluster, registry, requests, pc, status>>

Images == [repo : PackageGUIDs, digest : Digests]
Package == [app : AppGUIDs, image : Images \cup {NoImage}]

ASSUME PackagesAssumption ==
    /\ NoImage \notin Images
    /\ None \notin AppGUIDs \cup PackageGUIDs \cup Spaces
    /\ Absent \notin Package /\ Deleted \notin Package

\* pc of packageCreateHandler: fetchApp, create; of packageUploadHandler: fetch,
\* auth, push, patch.
PCs == {"idle", "fetchApp", "create", "fetch", "auth", "push", "patch", "done"}
Writes == {"create", "push", "patch"}

\* What a handler holds.  "after" is there for the properties only: the requests
\* that had already been answered OK when this one arrived.
Request == [app : AppGUIDs \cup {None}, guid : PackageGUIDs \cup {None},
            space : Spaces \cup {None}, bits : Digests \cup {None},
            image : Images \cup {NoImage}, after : SUBSET Requests]

NoRequest == [app |-> None, guid |-> None, space |-> None, bits |-> None,
              image |-> NoImage, after |-> {}]

NoPackages == [g \in PackageGUIDs |-> [s \in Spaces |-> Absent]]

\* The package of an earlier request may be there, with its bits or without.
Init ==
    /\ appSpaces \in [AppGUIDs -> {{s} : s \in Spaces} \cup {{}}]
    /\ \/ packages = NoPackages /\ registry = {}
       \/ \E g \in PackageGUIDs, s \in Spaces, package \in Package :
             /\ package.image # NoImage => package.image.repo = g
             /\ packages = [NoPackages EXCEPT ![g][s] = package]
             /\ registry = {package.image} \ {NoImage}
    /\ requests = [r \in Requests |-> NoRequest]
    /\ pc = [r \in Requests |-> "idle"]
    /\ status = [r \in Requests |-> "Pending"]
-----------------------------------------------------------------------------
\* A read that fails makes every handler answer an unknown error.
ReadFails(r, p) ==
    /\ At(r, p)
    /\ Reply(r, "UnknownError")
    /\ UNCHANGED <<cluster, registry, requests>>

\* uuid.New: a name no object and no request carries.
Fresh(g) ==
    /\ \A s \in Spaces : packages[g][s] = Absent
    /\ \A r \in Requests : requests[r].guid # g

\* A variant that answers every upload: the state of the record is not looked at.
AwaitingUploadUnchecked(p) == TRUE

\* cfPackageToPackageRecord: a package awaits its bits until it has an image.
AwaitingUpload(p) == p.image = NoImage
-----------------------------------------------------------------------------
(***************************************************************************)
(* packageCreateHandler                                                    *)
(***************************************************************************)

\* The request arrives; its payload is decoded and validated and a client built.
ReceiveCreate(r, a) ==
    /\ pc[r] = "idle"
    /\ \/ Call(r, "fetchApp")
       \/ \E error \in PayloadErrors \cup {"UnknownError"} : Reply(r, error)
    /\ requests' = [requests EXCEPT ![r].app = a]
    /\ UNCHANGED <<cluster, registry>>

\* appRepo.FetchApp, then the name of the CFPackage is drawn.
FetchApp(r) ==
    LET spaces == appSpaces[requests[r].app] IN
    /\ At(r, "fetchApp")
    /\ \/ /\ spaces = {}
          /\ Reply(r, "UnprocessableEntity")
          /\ UNCHANGED requests
       \/ /\ \E s, t \in spaces : s # t
          /\ Reply(r, "UnknownError")
          /\ UNCHANGED requests
       \/ \E s \in Spaces, g \in PackageGUIDs :
             /\ spaces = {s}
             /\ Fresh(g)
             /\ Call(r, "create")
             /\ requests' = [requests EXCEPT ![r] = [@ EXCEPT !.space = s, !.guid = g]]
    /\ UNCHANGED <<cluster, registry>>

\* packageRepo.CreatePackage: the CFPackage is written beside its app.
CreatePackage(r) ==
    /\ pc[r] = "create"
    /\ packages' = [packages EXCEPT ![requests[r].guid][requests[r].space] =
                       [app |-> requests[r].app, image |-> NoImage]]
    /\ Landed(r, "Created")
    /\ UNCHANGED <<appSpaces, registry, requests>>
-----------------------------------------------------------------------------
(***************************************************************************)
(* packageUploadHandler                                                    *)
(***************************************************************************)
ReceiveUpload(r, g, d) ==
    /\ pc[r] = "idle"
    /\ \/ Call(r, "fetch")
       \/ \E error \in {"InvalidRequest", "UnprocessableEntity", "UnknownError"} :
             Reply(r, error)
    /\ requests' = [requests EXCEPT ![r] =
          [@ EXCEPT !.guid = g, !.bits = d,
                    !.after = {q \in Requests : status[q] = "OK"}]]
    /\ UNCHANGED <<cluster, registry>>

\* packageRepo.FetchPackage and the check of the state it returns.
FetchPackage(r) ==
    LET g == requests[r].guid IN
    /\ At(r, "fetch")
    /\ \/ /\ NotFound(packages, g)
          /\ Reply(r, "ResourceNotFound")
          /\ UNCHANGED requests
       \/ /\ Duplicated(packages, g)
          /\ Reply(r, "UnknownError")
          /\ UNCHANGED requests
       \/ \E s \in Spaces :
             /\ FoundIn(packages, g, s)
             /\ IF AwaitingUpload(packages[g][s])
                THEN Call(r, "auth")
                ELSE Reply(r, "PackageBitsAlreadyUploaded")
             /\ requests' = [requests EXCEPT ![r].space = s]
    /\ UNCHANGED <<cluster, registry>>

\* buildRegistryAuth
RegistryAuth(r) ==
    /\ At(r, "auth")
    /\ Call(r, "push")
    /\ UNCHANGED <<cluster, registry, requests>>

\* A variant that returns the bare digest.
UploadedImageDigest(g, d) == d

\* The reference UploadSourceImage returns names the image by digest in the
\* repository of the package, whatever the tag points to later.
UploadedImageRef(g, d) == [repo |-> g, digest |-> d]

\* uploadSourceImage: the push reaches the registry.
PushImage(r) ==
    LET image == UploadedImageRef(requests[r].guid, requests[r].bits) IN
    /\ pc[r] = "push"
    /\ registry' = registry \cup {image}
    /\ IF Pending(r)
       THEN Call(r, "patch") /\ requests' = [requests EXCEPT ![r].image = image]
       ELSE Call(r, "done") /\ UNCHANGED requests
    /\ UNCHANGED cluster

\* packageRepo.UpdatePackageSource: the merge patch sets the image and nothing
\* else; it is refused (RefuseWrite) when the package is gone by then.
UpdatePackageSource(r) ==
    LET g == requests[r].guid
        s == requests[r].space IN
    /\ pc[r] = "patch"
    /\ Exists(packages[g][s])
    /\ packages' = [packages EXCEPT ![g][s] = [@ EXCEPT !.image = requests[r].image]]
    /\ Landed(r, "OK")
    /\ UNCHANGED <<appSpaces, registry, requests>>
-----------------------------------------------------------------------------
(***************************************************************************)
(* Failing calls, the server and the environment                           *)
(***************************************************************************)
\* A variant that drops the error of the push: the patch is sent regardless.
RefuseWriteIgnored(r) ==
    /\ pc[r] \in Writes
    /\ IF At(r, "push")
       THEN /\ Call(r, "patch")
            /\ requests' = [requests EXCEPT ![r].image =
                               UploadedImageRef(requests[r].guid, requests[r].bits)]
       ELSE Landed(r, "UnknownError") /\ UNCHANGED requests
    /\ UNCHANGED <<cluster, registry>>

\* A variant that starts again from the fetch, without end, when a write is refused.
RefuseWriteRetried(r) ==
    /\ pc[r] \in Writes
    /\ IF pc[r] = "patch" /\ Pending(r) THEN Call(r, "fetch") ELSE Landed(r, "UnknownError")
    /\ UNCHANGED <<cluster, registry, requests>>

\* The far end refuses the write, or it never arrives.
RefuseWrite(r) ==
    /\ pc[r] \in Writes
    /\ Landed(r, "UnknownError")
    /\ UNCHANGED <<cluster, registry, requests>>

\* A variant that answers success when the answer to its write is lost.
LoseAnswerIgnored(r) ==
    /\ pc[r] \in Writes /\ Pending(r)
    /\ status' = [status EXCEPT ![r] = IF pc[r] = "create" THEN "Created" ELSE "OK"]
    /\ UNCHANGED <<cluster, registry, requests, pc>>

LoseAnswer(r) ==
    /\ pc[r] \in Writes /\ Pending(r)
    /\ AnswerLost(r)
    /\ UNCHANGED <<cluster, registry, requests>>

Crash == Crashed(Writes) /\ UNCHANGED <<cluster, registry, requests>>

\* Apps come and go by other handlers and by kubectl.
AppChanges(a, s) ==
    /\ \/ s \notin appSpaces[a] /\ appSpaces' = [appSpaces EXCEPT ![a] = @ \cup {s}]
       \/ s \in appSpaces[a] /\ appSpaces' = [appSpaces EXCEPT ![a] = @ \ {s}]
    /\ UNCHANGED <<packages, registry, requests, pc, status>>

\* kubectl deletes a package, or restores a copy of it into another namespace.
PackageDeleted(g, s) ==
    /\ Exists(packages[g][s])
    /\ packages' = [packages EXCEPT ![g][s] = Deleted]
    /\ UNCHANGED <<appSpaces, registry, requests, pc, status>>

PackageCopied(g, s, t) ==
    /\ Exists(packages[g][s])
    /\ packages[g][t] = Absent
    /\ packages' = [packages EXCEPT ![g][t] = packages[g][s]]
    /\ UNCHANGED <<appSpaces, registry, requests, pc, status>>

\* Every request was served and no write is on its way.
Quiescent ==
    /\ \A r \in Requests : pc[r] = "done"
    /\ UNCHANGED vars

HandlerStep(r) ==
    \/ FetchApp(r) \/ ReadFails(r, "fetchApp")
    \/ CreatePackage(r)
    \/ FetchPackage(r) \/ ReadFails(r, "fetch")
    \/ RegistryAuth(r) \/ ReadFails(r, "auth")
    \/ PushImage(r) \/ UpdatePackageSource(r)
    \/ RefuseWrite(r) \/ LoseAnswer(r)

Next ==
    \/ \E r \in Requests :
          \/ \E a \in AppGUIDs : ReceiveCreate(r, a)
          \/ \E g \in PackageGUIDs, d \in Digests : ReceiveUpload(r, g, d)
          \/ HandlerStep(r)
    \/ Crash
    \/ \E a \in AppGUIDs, s \in Spaces : AppChanges(a, s)
    \/ \E g \in PackageGUIDs, s, t \in Spaces :
          PackageDeleted(g, s) \/ PackageCopied(g, s, t)
    \/ Quiescent

\* A call answers or breaks in the end; clients, crashes and kubectl owe nothing.
Spec == Init /\ [][Next]_vars /\ \A r \in Requests : WF_vars(HandlerStep(r))
-----------------------------------------------------------------------------
(***************************************************************************)
(* Properties                                                              *)
(***************************************************************************)
TypeOK ==
    /\ appSpaces \in [AppGUIDs -> SUBSET Spaces]
    /\ packages \in [PackageGUIDs -> [Spaces -> Package \cup {Absent, Deleted}]]
    /\ registry \subseteq Images
    /\ requests \in [Requests -> Request]
    /\ pc \in [Requests -> PCs]
    /\ status \in [Requests -> Statuses]

\* Stored(g, s): the package has an image that the registry holds for it.
Stored(g, s) ==
    /\ Exists(packages[g][s])
    /\ packages[g][s].image \in registry
    /\ packages[g][s].image.repo = g

\* A package that reads READY can be staged: its image is in the registry, in
\* the repository of that package, whichever upload won, failed or was cut short
\* (packageUploadHandler pushes first and patches what the push returned).
ReadyIsPushed ==
    \A g \in PackageGUIDs, s \in Spaces :
        (Exists(packages[g][s]) /\ packages[g][s].image # NoImage) => Stored(g, s)

\* Neither of two uploads was over before the other one arrived.
Overlap(q, r) == q \notin requests[r].after /\ r \notin requests[q].after

\* A success is never taken back: the package of a create answered 201 is there until
\* someone deletes it, and that of an upload answered 200 has its bits stored, or those
\* of an upload that overlapped with it; bits of an earlier or a later one never come up.
AnsweredIsKept ==
    \A r \in Requests :
        LET g == requests[r].guid
            s == requests[r].space
            package == packages[g][s] IN
        /\ status[r] = "Created" => package = Deleted \/ Exists(package)
        /\ status[r] = "OK" =>
              \/ package = Deleted
              \/ /\ Stored(g, s)
                 /\ \E q \in Requests :
                       /\ requests[q].guid = g /\ requests[q].space = s
                       /\ requests[q].bits = package.image.digest
                       /\ Overlap(q, r)

\* An upload is refused as a second one only when a first one's bits are stored:
\* a client told PackageBitsAlreadyUploaded never waits for bits nobody has.
RefusedOnlyWhenStored ==
    \A r \in Requests :
        status[r] = "PackageBitsAlreadyUploaded" =>
            \/ packages[requests[r].guid][requests[r].space] = Deleted
            \/ Stored(requests[r].guid, requests[r].space)

\* An upload that arrives after another of the same package was answered 200
\* does not get past the state check, so it neither pushes nor patches.
NoUploadAfterOK ==
    \A q, r \in Requests :
        /\ q \in requests[r].after
        /\ requests[q].guid = requests[r].guid
        /\ requests[q].space = requests[r].space
        => /\ pc[r] \notin {"auth", "push", "patch"}
           /\ status[r] # "OK"

\* Every request that arrives is answered, if only by losing the connection.
EveryRequestAnswered ==
    \A r \in Requests :
        (pc[r] # "idle") ~> (status[r] # "Pending")

\* "Bits may be uploaded only once. Create a new package to upload different
\* bits." (apis/shared.go:159): the image of a package, once set, stays.
BitsUploadedOnce ==
    [][\A g \in PackageGUIDs, s \in Spaces :
          /\ Exists(packages[g][s]) /\ Exists(packages'[g][s])
          /\ packages[g][s].image # NoImage
          => packages'[g][s].image = packages[g][s].image]_vars
=============================================================================
