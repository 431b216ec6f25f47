-------------------------------- MODULE Apps --------------------------------
(***************************************************************************)
(* Apps: POST /v3/apps, PATCH /v3/apps/<guid>/relationships/               *)
(* current_droplet, and POST /v3/apps/<guid>/actions/start and .../stop    *)
(* (apis/app_handler.go) over the CFApp resources and the secrets with     *)
(* their environment variables (repositories/app_repository.go).  Builds   *)
(* are written by others (apis/build_handler.go and the staging            *)
(* controller); a build that was staged is read back as a droplet          *)
(* (repositories/droplet_repository.go).                                   *)
(***************************************************************************)
EXTENDS Cluster, Handlers

CONSTANTS AppGUIDs, Names, BuildGUIDs,
          EnvSecret,     \* a secret with environment variables
          None

VARIABLES spaces,        \* the namespaces that exist
          apps,          \* apps[a][s]: the CFApp a of namespace s
          secrets,       \* secrets[a][s]: the secret "<a>-env" of namespace s
          builds,        \* builds[b][s]: the CFBuild b of namespace s
          requests       \* what the handlers hold

cluster == <<spaces, apps, secrets, builds>>
vars == <<cluster, requests, pc, status>>

DesiredStates == {"STARTED", "STOPPED"}

\* env: the app names the secret "<guid>-env".
App == [name : Names, state : DesiredStates, droplet : BuildGUIDs \cup {None},
        env : BOOLEAN]
Build == [app : AppGUIDs, staged : BOOLEAN]

Ops == {"create", "setDroplet", "start", "stop"}

ASSUME AppsAssumption ==
    /\ None \notin AppGUIDs \cup Names \cup BuildGUIDs \cup Spaces \cup Ops
    /\ Absent \notin App \cup Build \cup {EnvSecret}
    /\ Deleted \notin App \cup Build \cup {EnvSecret}

\* pc of appCreateHandler: namespace, secret, createApp; of the others:
\* fetchApp, fetchDroplet (appSetCurrentDropletHandler only), patch.
PCs == {"idle", "namespace", "secret", "createApp", "fetchApp", "fetchDroplet",
        "patch", "done"}
Writes == {"secret", "createApp", "patch"}

\* What a handler holds.  "after" is there for the properties only: the requests
\* that had already been answered when this one arrived.
Request == [op : Ops \cup {None}, app : AppGUIDs \cup {None},
            space : Spaces \cup {None}, name : Names \cup {None}, env : BOOLEAN,
            droplet : BuildGUIDs \cup {None}, after : SUBSET Requests]

NoRequest == [op |-> None, app |-> None, space |-> None, name |-> None,
              env |-> FALSE, droplet |-> None, after |-> {}]

\* A variant that leaves the desired state of a new app to the resource's default.
NewAppStateless(name, env) ==
    [name |-> name, state |-> "", droplet |-> None, env |-> env]

\* AppCreate.ToRecord, appRecordToCFApp: a new app is stopped and has no droplet.
NewApp(name, env) ==
    [name |-> name, state |-> "STOPPED", droplet |-> None, env |-> env]

NoObjects(guids) == [g \in guids |-> [s \in Spaces |-> Absent]]

\* Earlier requests may have left an app there, with a droplet or without, started
\* if it has one.
Init ==
    /\ spaces = Spaces
    /\ \/ apps = NoObjects(AppGUIDs) /\ builds = NoObjects(BuildGUIDs)
       \/ \E a \in AppGUIDs, s \in spaces, n \in Names :
             /\ apps = [NoObjects(AppGUIDs) EXCEPT ![a][s] = NewApp(n, FALSE)]
             /\ builds = NoObjects(BuildGUIDs)
       \/ \E a \in AppGUIDs, s \in spaces, n \in Names, b \in BuildGUIDs,
            state \in DesiredStates :
             /\ apps = [NoObjects(AppGUIDs) EXCEPT ![a][s] =
                           [name |-> n, state |-> state, droplet |-> b, env |-> FALSE]]
             /\ builds = [NoObjects(BuildGUIDs) EXCEPT ![b][s] =
                             [app |-> a, staged |-> TRUE]]
    /\ secrets = NoObjects(AppGUIDs)
    /\ requests = [r \in Requests |-> NoRequest]
    /\ pc = [r \in Requests |-> "idle"]
    /\ status = [r \in Requests |-> "Pending"]
-----------------------------------------------------------------------------
Answered(r) == Arrived(r) /\ ~Pending(r)

\* A request arrives; its payload is decoded and validated and a client built.
Receive(r, next, errors, request) ==
    /\ pc[r] = "idle"
    /\ \/ Call(r, next)
       \/ \E error \in errors : Reply(r, error)
    /\ requests' = [requests EXCEPT ![r] = request]
    /\ UNCHANGED cluster

ReadFails(r, p) ==
    /\ At(r, p)
    /\ Reply(r, "UnknownError")
    /\ UNCHANGED <<cluster, requests>>

\* uuid.New: a name no object and no request carries.
Fresh(a) ==
    /\ \A s \in Spaces : apps[a][s] = Absent /\ secrets[a][s] = Absent
    /\ \A b \in BuildGUIDs, s \in Spaces :
          Exists(builds[b][s]) => builds[b][s].app # a
    /\ \A r \in Requests : requests[r].app # a
-----------------------------------------------------------------------------
(***************************************************************************)
(* appCreateHandler                                                        *)
(***************************************************************************)
ReceiveCreate(r, s, n, env) ==
    Receive(r, "namespace", PayloadErrors \cup {"UnknownError"},
            [NoRequest EXCEPT !.op = "create", !.space = s, !.name = n, !.env = env])

\* appRepo.FetchNamespace, then the GUID of the app is drawn.  The namespace is not
\* there, or it is and the API server does not let the shim see it.
FetchNamespace(r) ==
    /\ At(r, "namespace")
    /\ \/ /\ Reply(r, "UnprocessableEntity")
          /\ UNCHANGED requests
       \/ \E a \in AppGUIDs :
             /\ requests[r].space \in spaces
             /\ Fresh(a)
             /\ Call(r, IF requests[r].env THEN "secret" ELSE "createApp")
             /\ requests' = [requests EXCEPT ![r].app = a]
    /\ UNCHANGED cluster

\* appRepo.CreateAppEnvironmentVariables: the secret is written before the app.
CreateSecret(r) ==
    /\ pc[r] = "secret"
    /\ requests[r].space \in spaces
    /\ secrets' = [secrets EXCEPT ![requests[r].app][requests[r].space] = EnvSecret]
    /\ IF Pending(r) THEN Call(r, "createApp") ELSE Landed(r, "UnknownError")
    /\ UNCHANGED <<spaces, apps, builds, requests>>

\* appRepo.CreateApp.  The webhook of cf-k8s-controllers refuses a name that is
\* taken in the space (RefuseDuplicate).
CreateApp(r) ==
    /\ pc[r] = "createApp"
    /\ requests[r].space \in spaces
    /\ apps' = [apps EXCEPT ![requests[r].app][requests[r].space] =
                   NewApp(requests[r].name, requests[r].env)]
    /\ Landed(r, "OK")
    /\ UNCHANGED <<spaces, secrets, builds, requests>>

RefuseDuplicate(r) ==
    /\ pc[r] = "createApp"
    /\ \E a \in AppGUIDs : LET app == apps[a][requests[r].space] IN
          Exists(app) /\ app.name = requests[r].name
    /\ Landed(r, "UniquenessError")
    /\ UNCHANGED <<cluster, requests>>
-----------------------------------------------------------------------------
(***************************************************************************)
(* appSetCurrentDropletHandler, appStartHandler, appStopHandler            *)
(***************************************************************************)
\* A start and a stop have no payload.
ReceiveChange(r, op, a, b) ==
    Receive(r, "fetchApp",
            {"UnknownError"} \cup IF op = "setDroplet" THEN PayloadErrors ELSE {},
            [NoRequest EXCEPT !.op = op, !.app = a, !.droplet = b,
                              !.after = {q \in Requests : Answered(q)}])

\* A variant that starts an app whatever its record says of the droplet.
StartableUnchecked(app) == TRUE

\* appStartHandler starts only an app whose record has a droplet.
Startable(app) == app.droplet # None

\* appRepo.FetchApp and, for a start, the check of the droplet.
FetchApp(r) ==
    LET a == requests[r].app IN
    /\ At(r, "fetchApp")
    /\ \/ /\ NotFound(apps, a)
          /\ Reply(r, "ResourceNotFound")
          /\ UNCHANGED requests
       \/ /\ Duplicated(apps, a)
          /\ Reply(r, "UnknownError")
          /\ UNCHANGED requests
       \/ \E s \in Spaces :
             /\ FoundIn(apps, a, s)
             /\ CASE requests[r].op = "setDroplet" -> Call(r, "fetchDroplet")
                  [] requests[r].op = "stop" -> Call(r, "patch")
                  [] requests[r].op = "start" ->
                        IF Startable(apps[a][s]) THEN Call(r, "patch")
                        ELSE Reply(r, "UnprocessableEntity")
             /\ requests' = [requests EXCEPT ![r].space = s]
    /\ UNCHANGED cluster

\* A variant that does not ask whose droplet it is.
OwnDropletUnchecked(build, a) == build.staged

\* returnDroplet: only a build that was staged is a droplet;
\* appSetCurrentDropletHandler: and it must belong to the app.
OwnDroplet(build, a) == build.staged /\ build.app = a

\* A variant that goes on whatever the lookup of the droplet returned.
FetchDropletUnseen(r) ==
    /\ At(r, "fetchDroplet")
    /\ Call(r, "patch")
    /\ UNCHANGED <<cluster, requests>>

\* dropletRepo.FetchDroplet and the check of its app; the droplet may be in any
\* namespace.  A build that was staged but has no status.BuildDropletStatus yet
\* makes cfBuildToDropletRecord panic, and net/http drops the connection.
FetchDroplet(r) ==
    LET b == requests[r].droplet IN
    /\ At(r, "fetchDroplet")
    /\ \/ NotFound(builds, b) /\ Reply(r, "UnprocessableEntity")
       \/ Duplicated(builds, b) /\ Reply(r, "UnknownError")
       \/ \E s \in Spaces :
             /\ FoundIn(builds, b, s)
             /\ IF OwnDroplet(builds[b][s], requests[r].app)
                THEN Call(r, "patch")
                ELSE Reply(r, "UnprocessableEntity")
       \/ \E s \in Spaces : /\ FoundIn(builds, b, s)
                          /\ builds[b][s].staged
                          /\ Reply(r, "ConnectionLost")
    /\ UNCHANGED <<cluster, requests>>

\* A variant that updates the app to the object the message was made into,
\* which has nothing but the field to change.
ChangedWhole(app, request) ==
    [app EXCEPT !.droplet = IF request.op = "setDroplet" THEN request.droplet ELSE None,
                !.state = IF request.op = "start" THEN "STARTED" ELSE "STOPPED"]

\* SetCurrentDroplet, SetAppDesiredState: the merge patch from the bare object
\* carries one field, and the server leaves the others as they are.
Changed(app, request) ==
    CASE request.op = "setDroplet" -> [app EXCEPT !.droplet = request.droplet]
      [] request.op = "start" -> [app EXCEPT !.state = "STARTED"]
      [] request.op = "stop" -> [app EXCEPT !.state = "STOPPED"]

PatchApp(r) ==
    LET a == requests[r].app
        s == requests[r].space IN
    /\ pc[r] = "patch"
    /\ Exists(apps[a][s])
    /\ apps' = [apps EXCEPT ![a][s] = Changed(apps[a][s], requests[r])]
    /\ Landed(r, "OK")
    /\ UNCHANGED <<spaces, secrets, builds, requests>>
-----------------------------------------------------------------------------
(***************************************************************************)
(* Failing calls, the server and the environment                           *)
(***************************************************************************)
\* A variant that ignores the error of the secret and creates the app all the same.
RefuseWriteIgnored(r) ==
    /\ pc[r] \in Writes
    /\ IF At(r, "secret") THEN Call(r, "createApp") ELSE Landed(r, "UnknownError")
    /\ UNCHANGED <<cluster, requests>>

\* A variant that takes an app that could not be written for one that was.
RefuseWriteAsDone(r) ==
    /\ pc[r] \in Writes
    /\ Landed(r, "OK")
    /\ UNCHANGED <<cluster, requests>>

\* The far end refuses the write, or it never arrives.
RefuseWrite(r) ==
    /\ pc[r] \in Writes
    /\ Landed(r, "UnknownError")
    /\ UNCHANGED <<cluster, requests>>

LoseAnswer(r) ==
    /\ pc[r] \in Writes /\ Pending(r)
    /\ AnswerLost(r)
    /\ UNCHANGED <<cluster, requests>>

Crash == Crashed(Writes) /\ UNCHANGED <<cluster, requests>>

\* kubectl deletes an app, or restores a copy of it into another namespace.
AppDeleted(a, s) ==
    /\ Exists(apps[a][s])
    /\ apps' = [apps EXCEPT ![a][s] = Deleted]
    /\ UNCHANGED <<spaces, secrets, builds, requests, pc, status>>

AppCopied(a, s, t) ==
    /\ Exists(apps[a][s]) /\ ~apps[a][s].env
    /\ apps[a][t] = Absent /\ t \in spaces
    /\ apps' = [apps EXCEPT ![a][t] = apps[a][s]]
    /\ UNCHANGED <<spaces, secrets, builds, requests, pc, status>>

\* A build of an app is created, in the namespace of its package; the staging
\* controller succeeds with it; it is copied into another namespace, without its
\* status, or deleted (Builds has the conditions one by one).
BuildCreated(b, s, a) ==
    /\ \A t \in Spaces : builds[b][t] = Absent
    /\ s \in spaces /\ \E t \in Spaces : apps[a][t] # Absent
    /\ builds' = [builds EXCEPT ![b][s] = [app |-> a, staged |-> FALSE]]
    /\ UNCHANGED <<spaces, apps, secrets, requests, pc, status>>

BuildStaged(b, s) ==
    /\ Exists(builds[b][s]) /\ ~builds[b][s].staged
    /\ builds' = [builds EXCEPT ![b][s].staged = TRUE]
    /\ UNCHANGED <<spaces, apps, secrets, requests, pc, status>>

BuildCopied(b, s, t) ==
    /\ Exists(builds[b][s])
    /\ builds[b][t] = Absent /\ t \in spaces
    /\ builds' = [builds EXCEPT ![b][t] = [builds[b][s] EXCEPT !.staged = FALSE]]
    /\ UNCHANGED <<spaces, apps, secrets, requests, pc, status>>

BuildDeleted(b, s) ==
    /\ Exists(builds[b][s])
    /\ builds' = [builds EXCEPT ![b][s] = Deleted]
    /\ UNCHANGED <<spaces, apps, secrets, requests, pc, status>>

\* A namespace is deleted with everything in it.
SpaceDeleted(s) ==
    LET emptied(store) == [g \in DOMAIN store |->
            [store[g] EXCEPT ![s] = IF Exists(@) THEN Deleted ELSE @]] IN
    /\ s \in spaces
    /\ spaces' = spaces \ {s}
    /\ apps' = emptied(apps)
    /\ secrets' = emptied(secrets)
    /\ builds' = emptied(builds)
    /\ UNCHANGED <<requests, pc, status>>

\* Every request was served and no write is on its way.
Quiescent ==
    /\ \A r \in Requests : pc[r] = "done"
    /\ UNCHANGED vars

HandlerStep(r) ==
    \/ FetchNamespace(r) \/ ReadFails(r, "namespace")
    \/ CreateSecret(r) \/ CreateApp(r) \/ RefuseDuplicate(r)
    \/ FetchApp(r) \/ ReadFails(r, "fetchApp")
    \/ FetchDroplet(r) \/ ReadFails(r, "fetchDroplet")
    \/ PatchApp(r)
    \/ RefuseWrite(r) \/ LoseAnswer(r)

Next ==
    \/ \E r \in Requests :
          \/ \E s \in Spaces, n \in Names, env \in BOOLEAN : ReceiveCreate(r, s, n, env)
          \/ \E a \in AppGUIDs, b \in BuildGUIDs : ReceiveChange(r, "setDroplet", a, b)
          \/ \E op \in {"start", "stop"}, a \in AppGUIDs : ReceiveChange(r, op, a, None)
          \/ HandlerStep(r)
    \/ Crash
    \/ \E a \in AppGUIDs, s, t \in Spaces : AppDeleted(a, s) \/ AppCopied(a, s, t)
    \/ \E b \in BuildGUIDs, s \in Spaces :
          \/ \E a \in AppGUIDs : BuildCreated(b, s, a)
          \/ BuildStaged(b, s) \/ BuildDeleted(b, s)
          \/ \E t \in Spaces : BuildCopied(b, s, t)
    \/ \E s \in Spaces : SpaceDeleted(s)
    \/ Quiescent

Spec == Init /\ [][Next]_vars /\ \A r \in Requests : WF_vars(HandlerStep(r))
-----------------------------------------------------------------------------
(***************************************************************************)
(* Properties                                                              *)
(***************************************************************************)
TypeOK ==
    /\ spaces \subseteq Spaces
    /\ apps \in [AppGUIDs -> [Spaces -> App \cup {Absent, Deleted}]]
    /\ secrets \in [AppGUIDs -> [Spaces -> {EnvSecret, Absent, Deleted}]]
    /\ builds \in [BuildGUIDs -> [Spaces -> Build \cup {Absent, Deleted}]]
    /\ requests \in [Requests -> Request]
    /\ pc \in [Requests -> PCs]
    /\ status \in [Requests -> Statuses]

\* An app that is STARTED has a droplet to run: the check of appStartHandler is
\* on a record it fetched earlier, and other handlers patch the app meanwhile.
StartedHasDroplet ==
    \A a \in AppGUIDs, s \in Spaces :
        (Exists(apps[a][s]) /\ apps[a][s].state = "STARTED") => apps[a][s].droplet # None

\* The current droplet of an app is a build of that app that was staged, or was
\* one until it was deleted ("belongs to this app", invalidDropletMsg).
CurrentDropletIsOwn ==
    \A a \in AppGUIDs, s \in Spaces :
        LET b == apps[a][s].droplet IN
        (Exists(apps[a][s]) /\ b # None) =>
            \E t \in Spaces : \/ builds[b][t] = Deleted
                              \/ /\ Exists(builds[b][t])
                                 /\ builds[b][t].staged /\ builds[b][t].app = a

\* An app that names its secret has it in its own namespace, whatever call of
\* appCreateHandler failed: the secret is written first.
EnvIsThere ==
    \A a \in AppGUIDs, s \in Spaces :
        (Exists(apps[a][s]) /\ apps[a][s].env) => secrets[a][s] = EnvSecret

\* A secret that no app names is left behind only by a create that is still
\* running or that its client was told had failed.
OrphanIsKnown ==
    \A a \in AppGUIDs, s \in Spaces :
        (secrets[a][s] = EnvSecret /\ apps[a][s] = Absent) =>
            \E r \in Requests : /\ requests[r].op = "create"
                                /\ requests[r].app = a
                                /\ status[r] # "OK"

\* The request asks for this value of the field that it changes.
Wants(r, app) ==
    CASE requests[r].op = "setDroplet" -> app.droplet = requests[r].droplet
      [] requests[r].op = "start" -> app.state = "STARTED"
      [] requests[r].op = "stop" -> app.state = "STOPPED"
      [] OTHER -> FALSE

SameField(q, r) ==
    (requests[q].op = "setDroplet") = (requests[r].op = "setDroplet")

\* A change that was answered 200 stays until another one undoes it: the app has
\* what the request asked for, or what a request that was not over before it
\* arrived asked for.  A start, a stop and a droplet never undo one another, and
\* no handler writes back what it read before.
ChangesStick ==
    \A r \in Requests :
        LET a == requests[r].app
            s == requests[r].space IN
        (status[r] = "OK" /\ requests[r].op # "create" /\ Exists(apps[a][s])) =>
            \/ Wants(r, apps[a][s])
            \/ \E q \in Requests \ {r} :
                  /\ requests[q].app = a /\ requests[q].op # "create"
                  /\ SameField(q, r)
                  /\ Wants(q, apps[a][s])
                  /\ q \in requests[r].after => status[q] \in {"UnknownError", "ConnectionLost"}
=============================================================================
