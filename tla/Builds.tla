------------------------------- MODULE Builds -------------------------------
(***************************************************************************)
(* Builds and droplets: POST /v3/builds, GET /v3/builds/<guid>             *)
(* (apis/build_handler.go) and GET /v3/droplets/<guid>                     *)
(* (apis/droplet_handler.go).  Both are views of one CFBuild resource      *)
(* (repositories/build_repository.go, droplet_repository.go), whose status *)
(* is kept by the staging controller of cf-k8s-controllers.                *)
(***************************************************************************)
EXTENDS Cluster, Handlers

CONSTANTS AppGUIDs, PackageGUIDs, BuildGUIDs, None

VARIABLES packages,      \* packages[g][s]: the app of the CFPackage g of namespace s
          builds,        \* builds[b][s]: the CFBuild b of namespace s
          requests       \* what the handlers hold

vars == <<packages, builds, requests, pc, status>>

\* getConditionValue: a condition that is not set reads Unknown.
Conditions == {"True", "False", "Unknown"}

\* "staging": the condition Staging is not False; "droplet": status.BuildDropletStatus
\* is set.
Build == [app : AppGUIDs, package : PackageGUIDs,
          staging : BOOLEAN, succeeded : Conditions, droplet : BOOLEAN]

Ops == {"createBuild", "getBuild", "getDroplet"}

\* What the client is shown of a build.
BuildStates == {"STAGING", "STAGED", "FAILED"}

ASSUME BuildsAssumption ==
    /\ None \notin AppGUIDs \cup PackageGUIDs \cup BuildGUIDs \cup Spaces
    /\ None \notin Ops \cup BuildStates
    /\ AppGUIDs \cap {Absent, Deleted} = {}
    /\ Absent \notin Build /\ Deleted \notin Build

\* pc of buildCreateHandler: fetchPackage, create; buildGetHandler: fetchBuild;
\* dropletGetHandler: fetchDroplet.
PCs == {"idle", "fetchPackage", "create", "fetchBuild", "fetchDroplet", "done"}
Writes == {"create"}

\* "after" is there for the properties only: the requests that had already been
\* answered when this one arrived.
Request == [op : Ops \cup {None}, package : PackageGUIDs \cup {None},
            build : BuildGUIDs \cup {None}, space : Spaces \cup {None},
            app : AppGUIDs \cup {None},
            shown : BuildStates \cup {None}, after : SUBSET Requests]

NoRequest == [op |-> None, package |-> None, build |-> None, space |-> None,
              app |-> None, shown |-> None, after |-> {}]

NoBuilds == [b \in BuildGUIDs |-> [s \in Spaces |-> Absent]]

\* A package of an earlier request may be there, and a build of it, decided or not.
Init ==
    /\ \E there \in [PackageGUIDs -> [app : AppGUIDs, space : Spaces] \cup {Absent}] :
          packages = [g \in PackageGUIDs |-> [s \in Spaces |->
              IF there[g] # Absent /\ there[g].space = s THEN there[g].app ELSE Absent]]
    /\ \/ builds = NoBuilds
       \/ \E b \in BuildGUIDs, s \in Spaces, build \in Build :
             /\ packages[build.package][s] = build.app
             /\ builds = [NoBuilds EXCEPT ![b][s] = build]
    /\ requests = [r \in Requests |-> NoRequest]
    /\ pc = [r \in Requests |-> "idle"]
    /\ status = [r \in Requests |-> "Pending"]
-----------------------------------------------------------------------------
(***************************************************************************)
(* What the two views make of the conditions                               *)
(***************************************************************************)

\* A variant that takes staging that is over, and not known to have succeeded,
\* for a failure.
BuildStateEager(build) ==
    CASE build.staging -> "STAGING"
      [] build.succeeded = "True" -> "STAGED"
      [] OTHER -> "FAILED"

\* A variant that goes by the one condition only.
BuildStateSucceeded(build) ==
    CASE build.succeeded = "True" -> "STAGED"
      [] build.succeeded = "False" -> "FAILED"
      [] OTHER -> "STAGING"

\* cfBuildToBuildRecord; a record that is STAGED names its droplet.
BuildState(build) ==
    CASE build.staging \/ build.succeeded = "Unknown" -> "STAGING"
      [] ~build.staging /\ build.succeeded = "True" -> "STAGED"
      [] ~build.staging /\ build.succeeded = "False" -> "FAILED"

\* returnDroplet
IsDroplet(build) == ~build.staging /\ build.succeeded = "True"
-----------------------------------------------------------------------------
ReadFails(r, p) ==
    /\ At(r, p)
    /\ Reply(r, "UnknownError")
    /\ UNCHANGED <<packages, builds, requests>>

Answered == {q \in Requests : status[q] # "Pending"}

\* The request arrives; a payload is decoded and validated; a client is built.
ReceiveCreate(r, g) ==
    /\ pc[r] = "idle"
    /\ \/ Call(r, "fetchPackage")
       \/ \E error \in PayloadErrors \cup {"UnknownError"} : Reply(r, error)
    /\ requests' = [requests EXCEPT ![r] =
          [@ EXCEPT !.op = "createBuild", !.package = g, !.after = Answered]]
    /\ UNCHANGED <<packages, builds>>

ReceiveGet(r, op, b) ==
    /\ pc[r] = "idle"
    /\ \/ Call(r, IF op = "getBuild" THEN "fetchBuild" ELSE "fetchDroplet")
       \/ Reply(r, "UnknownError")
    /\ requests' = [requests EXCEPT ![r] =
          [@ EXCEPT !.op = op, !.build = b, !.after = Answered]]
    /\ UNCHANGED <<packages, builds>>
-----------------------------------------------------------------------------
(***************************************************************************)
(* buildCreateHandler                                                      *)
(***************************************************************************)

\* uuid.New: a name no object and no create carries.
Fresh(b) ==
    /\ \A s \in Spaces : builds[b][s] = Absent
    /\ \A r \in Requests : requests[r].op = "createBuild" => requests[r].build # b

\* A variant that leaves the namespace to the default of the client.
BuildSpaceDefault(record) == CHOOSE s \in Spaces : TRUE

\* payload.ToMessage: the build goes beside its package.
BuildSpace(record) == record.space

\* cfPackageToPackageRecord
PackageRecord(g, s) == [space |-> s, app |-> packages[g][s]]

\* packageRepo.FetchPackage; then the name of the CFBuild is drawn.  The state
\* of the package is not looked at.
FetchPackage(r) ==
    LET g == requests[r].package IN
    /\ At(r, "fetchPackage")
    /\ \/ /\ NotFound(packages, g)
          /\ Reply(r, "UnprocessableEntity")
          /\ UNCHANGED requests
       \/ /\ Duplicated(packages, g)
          /\ Reply(r, "UnknownError")
          /\ UNCHANGED requests
       \/ \E s \in Spaces, b \in BuildGUIDs :
             /\ FoundIn(packages, g, s)
             /\ Fresh(b)
             /\ Call(r, "create")
             /\ requests' = [requests EXCEPT ![r] =
                   [@ EXCEPT !.space = BuildSpace(PackageRecord(g, s)),
                             !.app = PackageRecord(g, s).app, !.build = b]]
    /\ UNCHANGED <<packages, builds>>

\* A variant that leaves a condition without a value.
NewBuildBlank(request) ==
    [app |-> request.app, package |-> request.package,
     staging |-> TRUE, succeeded |-> None, droplet |-> FALSE]

NewBuild(request) ==
    [app |-> request.app, package |-> request.package,
     staging |-> TRUE, succeeded |-> "Unknown", droplet |-> FALSE]

\* buildRepo.CreateBuild answers with the record of the object it wrote.
CreateBuild(r) ==
    LET build == NewBuild(requests[r]) IN
    /\ pc[r] = "create"
    /\ builds' = [builds EXCEPT ![requests[r].build][requests[r].space] = build]
    /\ Landed(r, "Created")
    /\ requests' = [requests EXCEPT ![r].shown = IF Pending(r) THEN BuildState(build) ELSE @]
    /\ UNCHANGED packages
-----------------------------------------------------------------------------
(***************************************************************************)
(* buildGetHandler, dropletGetHandler                                      *)
(***************************************************************************)
Show(r, state) ==
    /\ Reply(r, "OK")
    /\ requests' = [requests EXCEPT ![r].shown = state]

FetchBuild(r) ==
    LET b == requests[r].build IN
    /\ At(r, "fetchBuild")
    /\ \/ NotFound(builds, b) /\ Reply(r, "ResourceNotFound") /\ UNCHANGED requests
       \/ Duplicated(builds, b) /\ Reply(r, "UnknownError") /\ UNCHANGED requests
       \/ \E s \in Spaces : FoundIn(builds, b, s) /\ Show(r, BuildState(builds[b][s]))
    /\ UNCHANGED <<packages, builds>>

\* A build that is no droplet is not found.  Without status.BuildDropletStatus
\* cfBuildToDropletRecord panics, and net/http drops the connection.
FetchDroplet(r) ==
    LET b == requests[r].build IN
    /\ At(r, "fetchDroplet")
    /\ \/ NotFound(builds, b) /\ Reply(r, "ResourceNotFound") /\ UNCHANGED requests
       \/ Duplicated(builds, b) /\ Reply(r, "UnknownError") /\ UNCHANGED requests
       \/ \E s \in Spaces :
             /\ FoundIn(builds, b, s)
             /\ \/ /\ ~IsDroplet(builds[b][s])
                   /\ Reply(r, "ResourceNotFound")
                   /\ UNCHANGED requests
                \/ /\ IsDroplet(builds[b][s]) /\ ~builds[b][s].droplet
                   /\ Reply(r, "ConnectionLost")
                   /\ UNCHANGED requests
                \/ /\ IsDroplet(builds[b][s]) /\ builds[b][s].droplet
                   /\ Show(r, "STAGED")
    /\ UNCHANGED <<packages, builds>>
-----------------------------------------------------------------------------
(***************************************************************************)
(* Failing calls, the server and the environment                           *)
(***************************************************************************)
RefuseWrite(r) ==
    /\ pc[r] \in Writes
    /\ Landed(r, "UnknownError")
    /\ UNCHANGED <<packages, builds, requests>>

LoseAnswer(r) ==
    /\ pc[r] \in Writes /\ Pending(r)
    /\ AnswerLost(r)
    /\ UNCHANGED <<packages, builds, requests>>

Crash == Crashed(Writes) /\ UNCHANGED <<packages, builds, requests>>

\* The controller is done with a build when both conditions are decided; until
\* then it sets them, and the droplet, in any order.
Decided(build) == ~build.staging /\ build.succeeded # "Unknown"

SetConditions(b, s, staging, succeeded) ==
    /\ Exists(builds[b][s]) /\ ~Decided(builds[b][s])
    /\ builds' = [builds EXCEPT ![b][s] =
                     [@ EXCEPT !.staging = staging, !.succeeded = succeeded]]
    /\ UNCHANGED <<packages, requests, pc, status>>

SetDroplet(b, s) ==
    /\ Exists(builds[b][s]) /\ ~builds[b][s].droplet
    /\ builds' = [builds EXCEPT ![b][s].droplet = TRUE]
    /\ UNCHANGED <<packages, requests, pc, status>>

\* A package of an app is created (see Packages).
PackageCreated(g, s, a) ==
    /\ \A t \in Spaces : packages[g][t] = Absent
    /\ packages' = [packages EXCEPT ![g][s] = a]
    /\ UNCHANGED <<builds, requests, pc, status>>

\* kubectl deletes an object, or restores a copy of it into another namespace;
\* the status is a subresource, which a copy starts without.
PackageDeleted(g, s) ==
    /\ Exists(packages[g][s])
    /\ packages' = [packages EXCEPT ![g][s] = Deleted]
    /\ UNCHANGED <<builds, requests, pc, status>>

PackageCopied(g, s, t) ==
    /\ Exists(packages[g][s]) /\ packages[g][t] = Absent
    /\ packages' = [packages EXCEPT ![g][t] = packages[g][s]]
    /\ UNCHANGED <<builds, requests, pc, status>>

BuildDeleted(b, s) ==
    /\ Exists(builds[b][s])
    /\ builds' = [builds EXCEPT ![b][s] = Deleted]
    /\ UNCHANGED <<packages, requests, pc, status>>

BuildCopied(b, s, t) ==
    /\ Exists(builds[b][s]) /\ builds[b][t] = Absent
    /\ builds' = [builds EXCEPT ![b][t] = NewBuild(builds[b][s])]
    /\ UNCHANGED <<packages, requests, pc, status>>

\* Every request was served and no write is on its way.
Quiescent ==
    /\ \A r \in Requests : pc[r] = "done"
    /\ UNCHANGED vars

HandlerStep(r) ==
    \/ FetchPackage(r) \/ ReadFails(r, "fetchPackage")
    \/ CreateBuild(r)
    \/ FetchBuild(r) \/ ReadFails(r, "fetchBuild")
    \/ FetchDroplet(r) \/ ReadFails(r, "fetchDroplet")
    \/ RefuseWrite(r) \/ LoseAnswer(r)

Next ==
    \/ \E r \in Requests :
          \/ \E g \in PackageGUIDs : ReceiveCreate(r, g)
          \/ \E op \in {"getBuild", "getDroplet"}, b \in BuildGUIDs : ReceiveGet(r, op, b)
          \/ HandlerStep(r)
    \/ Crash
    \/ \E b \in BuildGUIDs, s \in Spaces :
          \/ \E staging \in BOOLEAN, succeeded \in Conditions : SetConditions(b, s, staging, succeeded)
          \/ SetDroplet(b, s) \/ BuildDeleted(b, s)
          \/ \E t \in Spaces : BuildCopied(b, s, t)
    \/ \E g \in PackageGUIDs, s \in Spaces :
          \/ \E a \in AppGUIDs : PackageCreated(g, s, a)
          \/ PackageDeleted(g, s) \/ \E t \in Spaces : PackageCopied(g, s, t)
    \/ Quiescent

Spec == Init /\ [][Next]_vars /\ \A r \in Requests : WF_vars(HandlerStep(r))
-----------------------------------------------------------------------------
(***************************************************************************)
(* Properties                                                              *)
(***************************************************************************)
TypeOK ==
    /\ packages \in [PackageGUIDs -> [Spaces -> AppGUIDs \cup {Absent, Deleted}]]
    /\ builds \in [BuildGUIDs -> [Spaces -> Build \cup {Absent, Deleted}]]
    /\ requests \in [Requests -> Request]
    /\ pc \in [Requests -> PCs]
    /\ status \in [Requests -> Statuses]

WasDeleted(b) == \E s \in Spaces : builds[b][s] = Deleted

\* The client that was shown a build has seen it before it sends q.
SawBefore(r, q) ==
    /\ r \in requests[q].after
    /\ requests[r].build = requests[q].build
    /\ requests[r].shown # None

\* A build names its package and its app by local references, which hold in the
\* build's own namespace: the package is, or was, there, and is of that app,
\* whatever copies of it there are and whenever the write lands.
ReferencesResolve ==
    \A r \in Requests :
        LET b == requests[r].build
            s == requests[r].space
            g == requests[r].package IN
        (requests[r].op = "createBuild" /\ s # None /\ Exists(builds[b][s])) =>
            /\ packages[g][s] # Absent
            /\ Exists(packages[g][s]) => packages[g][s] = builds[b][s].app

\* A client that was shown a build is answered 404 for it later only after someone
\* deleted it, and for its droplet, too, once the build was shown as STAGED: both
\* handlers read the conditions alike.  That the droplet is shown is not said: while
\* status.BuildDropletStatus is not set, FetchDroplet drops the connection.
NotFoundIsDeleted ==
    \A r, q \in Requests :
        /\ SawBefore(r, q)
        /\ status[q] = "ResourceNotFound"
        /\ requests[q].op = "getDroplet" => requests[r].shown = "STAGED"
        => WasDeleted(requests[q].build)

\* A client that polls a build stops at STAGED or FAILED: no later answer says
\* anything else, and no answer says so while the controller may still decide
\* otherwise.
OutcomeStays ==
    \A r, q \in Requests :
        /\ SawBefore(r, q)
        /\ requests[r].shown \in {"STAGED", "FAILED"}
        /\ requests[q].shown # None
        => requests[q].shown = requests[r].shown \/ WasDeleted(requests[q].build)
=============================================================================
