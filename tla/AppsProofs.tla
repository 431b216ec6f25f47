----------------------------- MODULE AppsProofs -----------------------------
(* Proofs about Apps, for any number of requests, apps, builds and spaces. *)
EXTENDS AppsRefinement, TLAPS

-----------------------------------------------------------------------------
(***************************************************************************)
(* The inductive invariant                                                 *)
(***************************************************************************)
ChangeOps == {"setDroplet", "start", "stop"}
Creating == {"secret", "createApp"}
Changing == {"fetchApp", "fetchDroplet", "patch"}

\* What a handler holds at each of its calls.
Holds(r) ==
    /\ pc[r] = "idle" => requests[r] = NoRequest /\ status[r] = "Pending"
    /\ pc[r] \in Creating \cup {"namespace"} =>
          /\ requests[r].op = "create"
          /\ requests[r].name \in Names /\ requests[r].space \in Spaces
    /\ pc[r] = "namespace" => requests[r].app = None
    /\ pc[r] \in Creating => requests[r].app \in AppGUIDs
    /\ pc[r] \in Changing =>
          /\ requests[r].op \in ChangeOps /\ requests[r].app \in AppGUIDs
          /\ requests[r].op = "setDroplet" => requests[r].droplet \in BuildGUIDs
    /\ pc[r] = "fetchDroplet" => requests[r].op = "setDroplet"
    /\ pc[r] \in {"fetchDroplet", "patch"} => requests[r].space \in Spaces
    /\ (pc[r] # "done" /\ ~Pending(r)) => status[r] \in {"UnknownError", "ConnectionLost"}

RequestInv == \A r \in Requests : Holds(r)

\* A handler about to create holds a name no app and no other create has.
CreateInv ==
    \A r \in Requests : pc[r] \in Creating =>
        /\ \A s \in Spaces : apps[requests[r].app][s] = Absent
        /\ \A q \in Requests \ {r} :
              pc[q] \in Creating => requests[q].app # requests[r].app

\* A handler about to patch, or that answered 200, names a slot that has an app, or
\* had one.
SlotInv ==
    \A r \in Requests :
        pc[r] \in {"fetchDroplet", "patch"} \/ status[r] = "OK" =>
            /\ requests[r].op \in Ops
            /\ requests[r].app \in AppGUIDs /\ requests[r].space \in Spaces
            /\ apps[requests[r].app][requests[r].space] # Absent

\* A create comes to the app after its secret was written, and the secret stays as
\* long as its namespace.
SecretInv ==
    \A r \in Requests :
        (pc[r] = "createApp" /\ requests[r].env /\ requests[r].space \in spaces) =>
            secrets[requests[r].app][requests[r].space] = EnvSecret

\* Every secret is the work of a create.
SecretIsOf(r, a, s) ==
    requests[r].op = "create" /\ requests[r].app = a /\ requests[r].space = s

OwnerInv ==
    \A a \in AppGUIDs, s \in Spaces :
        secrets[a][s] = EnvSecret => \E r \in Requests : SecretIsOf(r, a, s)

\* Once a start has seen a droplet the app never is without one.
StartInv ==
    \A r \in Requests :
        LET app == apps[requests[r].app][requests[r].space] IN
        (pc[r] = "patch" /\ requests[r].op = "start" /\ Exists(app)) => app.droplet # None

DropletInv ==
    \A r \in Requests :
        (pc[r] = "patch" /\ requests[r].op = "setDroplet") =>
            WasDropletOf(requests[r].droplet, requests[r].app)

AfterInv == \A r \in Requests : \A q \in requests[r].after : ~Pending(q)

IInv ==
    /\ TypeOK /\ RequestInv /\ CreateInv /\ SlotInv
    /\ SecretInv /\ OwnerInv /\ EnvIsThere
    /\ StartInv /\ StartedHasDroplet
    /\ DropletInv /\ CurrentDropletIsOwn
    /\ AfterInv /\ ChangesStick
-----------------------------------------------------------------------------
(***************************************************************************)
(* Initial states                                                          *)
(***************************************************************************)
\* The first app, if there is one, and its droplet.
FirstApp ==
    /\ apps \in [AppGUIDs -> [Spaces -> App \cup {Absent, Deleted}]]
    /\ builds \in [BuildGUIDs -> [Spaces -> Build \cup {Absent, Deleted}]]
    /\ \A a \in AppGUIDs, s \in Spaces : Exists(apps[a][s]) =>
          /\ ~apps[a][s].env
          /\ apps[a][s].droplet = None => apps[a][s].state = "STOPPED"
    /\ CurrentDropletIsOwn

LEMMA InitFirstApp == Init => FirstApp
<1> USE DEF FirstApp
<1>1. CASE apps = NoObjects(AppGUIDs) /\ builds = NoObjects(BuildGUIDs)
  BY <1>1 DEF NoObjects, Exists, CurrentDropletIsOwn
<1>2. ASSUME NEW c \in AppGUIDs, NEW u \in Spaces, NEW n \in Names,
             apps = [NoObjects(AppGUIDs) EXCEPT ![c][u] = NewApp(n, FALSE)],
             builds = NoObjects(BuildGUIDs)
      PROVE  FirstApp
  <2>1. NewApp(n, FALSE) \in App
    BY DEF NewApp, App, DesiredStates
  <2>2. \A a \in AppGUIDs, s \in Spaces : Exists(apps[a][s]) => apps[a][s] = NewApp(n, FALSE)
    BY <1>2 DEF NoObjects, Exists
  <2>3. CurrentDropletIsOwn
    BY <2>2 DEF CurrentDropletIsOwn, NewApp
  <2>4. \A a \in AppGUIDs, s \in Spaces : Exists(apps[a][s]) =>
           ~apps[a][s].env /\ apps[a][s].state = "STOPPED"
    BY <2>2 DEF NewApp
  <2> QED
    BY <1>2, <2>1, <2>3, <2>4 DEF NoObjects
<1>3. ASSUME NEW c \in AppGUIDs, NEW u \in Spaces, NEW n \in Names, NEW b \in BuildGUIDs,
             NEW state \in DesiredStates,
             apps = [NoObjects(AppGUIDs) EXCEPT ![c][u] =
                       [name |-> n, state |-> state, droplet |-> b, env |-> FALSE]],
             builds = [NoObjects(BuildGUIDs) EXCEPT ![b][u] = [app |-> c, staged |-> TRUE]]
      PROVE  FirstApp
  <2> DEFINE app == [name |-> n, state |-> state, droplet |-> b, env |-> FALSE]
             build == [app |-> c, staged |-> TRUE]
  <2>1. app \in App /\ build \in Build
    BY DEF App, Build
  <2>2. \A a \in AppGUIDs, s \in Spaces : Exists(apps[a][s]) => a = c /\ apps[a][s] = app
    BY <1>3 DEF NoObjects, Exists
  <2>3. builds[b][u] = build
    BY <1>3 DEF NoObjects
  <2>4. Exists(builds[b][u])
    BY <2>1, <2>3, AppsAssumption DEF Exists
  <2>5. b # None
    BY AppsAssumption
  <2>6. CurrentDropletIsOwn
    BY <2>2, <2>3, <2>4 DEF CurrentDropletIsOwn
  <2> QED
    BY <1>3, <2>1, <2>2, <2>5, <2>6 DEF NoObjects
<1> QED
  <2> SUFFICES ASSUME Init PROVE FirstApp
    OBVIOUS
  <2>1. spaces = Spaces
    BY DEF Init
  <2>2. CASE \E c \in AppGUIDs, u \in spaces, n \in Names :
                /\ apps = [NoObjects(AppGUIDs) EXCEPT ![c][u] = NewApp(n, FALSE)]
                /\ builds = NoObjects(BuildGUIDs)
    <3>1. PICK c \in AppGUIDs, u \in Spaces, n \in Names :
             /\ apps = [NoObjects(AppGUIDs) EXCEPT ![c][u] = NewApp(n, FALSE)]
             /\ builds = NoObjects(BuildGUIDs)
      BY <2>1, <2>2
    <3> QED
      BY <1>2, <3>1
  <2>3. CASE \E c \in AppGUIDs, u \in spaces, n \in Names, b \in BuildGUIDs,
                state \in DesiredStates :
                /\ apps = [NoObjects(AppGUIDs) EXCEPT ![c][u] =
                             [name |-> n, state |-> state, droplet |-> b, env |-> FALSE]]
                /\ builds = [NoObjects(BuildGUIDs) EXCEPT ![b][u] =
                               [app |-> c, staged |-> TRUE]]
    <3>1. PICK c \in AppGUIDs, u \in Spaces, n \in Names, b \in BuildGUIDs,
               state \in DesiredStates :
             /\ apps = [NoObjects(AppGUIDs) EXCEPT ![c][u] =
                          [name |-> n, state |-> state, droplet |-> b, env |-> FALSE]]
             /\ builds = [NoObjects(BuildGUIDs) EXCEPT ![b][u] = [app |-> c, staged |-> TRUE]]
      BY <2>1, <2>3, Zenon
    <3> QED
      BY <1>3, <3>1
  <2> HIDE DEF FirstApp
  <2> QED
    BY <1>1, <2>2, <2>3 DEF Init

\* No request has arrived, and no secret is there.
FirstState ==
    /\ FirstApp /\ spaces = Spaces /\ secrets = NoObjects(AppGUIDs)
    /\ requests = [r \in Requests |-> NoRequest]
    /\ pc = [r \in Requests |-> "idle"]
    /\ status = [r \in Requests |-> "Pending"]

LEMMA FirstIInv == FirstState => IInv
<1> SUFFICES ASSUME FirstState PROVE IInv
  OBVIOUS
<1>1. TypeOK
  BY DEF FirstState, FirstApp, TypeOK, NoObjects, NoRequest, Request, PCs, Statuses
<1>2. RequestInv /\ CreateInv /\ SlotInv /\ SecretInv /\ StartInv /\ DropletInv /\ AfterInv
  BY DEF FirstState, RequestInv, Holds, Pending, NoRequest, CreateInv, Creating, SlotInv,
         SecretInv, StartInv, DropletInv, AfterInv, Changing
<1>3. OwnerInv
  BY SlotAssumption, AppsAssumption DEF FirstState, OwnerInv, NoObjects
<1>4. EnvIsThere
  BY DEF FirstState, FirstApp, EnvIsThere
<1>5. StartedHasDroplet
  BY DEF FirstState, FirstApp, StartedHasDroplet
<1>6. ChangesStick
  BY DEF FirstState, ChangesStick
<1> QED
  BY <1>1, <1>2, <1>3, <1>4, <1>5, <1>6 DEF FirstState, FirstApp, IInv

LEMMA InitIInv == Init => IInv
  BY InitFirstApp, FirstIInv DEF Init, FirstState
-----------------------------------------------------------------------------
(***************************************************************************)
(* What one step does to one request, to one app, to one secret, and to    *)
(* what the droplets are                                                   *)
(***************************************************************************)
Kept(q) == pc'[q] = pc[q] /\ status'[q] = status[q] /\ requests'[q] = requests[q]

Received(q) ==
    \/ \E s \in Spaces, n \in Names, env \in BOOLEAN : ReceiveCreate(q, s, n, env)
    \/ \E a \in AppGUIDs, b \in BuildGUIDs : ReceiveChange(q, "setDroplet", a, b)
    \/ \E op \in {"start", "stop"}, a \in AppGUIDs : ReceiveChange(q, op, a, None)

Moved(q) == Kept(q) \/ Received(q) \/ HandlerStep(q) \/ Crash

\* The outcomes of FetchApp, spelled out.
AppFetched(r) ==
    LET a == requests[r].app IN
    /\ At(r, "fetchApp") /\ UNCHANGED cluster
    /\ \/ /\ \/ NotFound(apps, a) /\ Reply(r, "ResourceNotFound")
             \/ Reply(r, "UnknownError")
          /\ UNCHANGED requests
       \/ \E s \in Spaces :
             /\ FoundIn(apps, a, s)
             /\ requests' = [requests EXCEPT ![r].space = s]
             /\ \/ requests[r].op = "setDroplet" /\ Call(r, "fetchDroplet")
                \/ requests[r].op = "stop" /\ Call(r, "patch")
                \/ requests[r].op = "start" /\ Startable(apps[a][s]) /\ Call(r, "patch")
                \/ /\ requests[r].op = "start" /\ ~Startable(apps[a][s])
                   /\ Reply(r, "UnprocessableEntity")

LEMMA FetchAppOutcomes ==
  ASSUME RequestInv, NEW r \in Requests, FetchApp(r)
  PROVE  AppFetched(r)
<1>1. requests[r].op \in ChangeOps
  BY DEF RequestInv, Holds, FetchApp, At, Changing
<1>2. CASE \E s \in Spaces : FoundIn(apps, requests[r].app, s) /\
                             requests' = [requests EXCEPT ![r].space = s]
  <2>1. PICK s \in Spaces :
           /\ FoundIn(apps, requests[r].app, s)
           /\ requests' = [requests EXCEPT ![r].space = s]
           /\ CASE requests[r].op = "setDroplet" -> Call(r, "fetchDroplet")
                [] requests[r].op = "stop" -> Call(r, "patch")
                [] requests[r].op = "start" ->
                      IF Startable(apps[requests[r].app][s]) THEN Call(r, "patch")
                      ELSE Reply(r, "UnprocessableEntity")
    BY <1>2 DEF FetchApp, NotFound, Duplicated, FoundIn
  <2> QED
    BY <1>1, <2>1 DEF AppFetched, FetchApp, ChangeOps
<1>3. CASE ~\E s \in Spaces : FoundIn(apps, requests[r].app, s) /\
                              requests' = [requests EXCEPT ![r].space = s]
  BY <1>3 DEF AppFetched, FetchApp
<1> QED
  BY <1>2, <1>3

LEMMA Moves ==
  ASSUME TypeOK, RequestInv, [Next]_vars, NEW q \in Requests
  PROVE  Moved(q)
<1> USE DEF TypeOK, cluster, Moved, Kept
<1>1. ASSUME NEW r \in Requests, Received(r) PROVE Moved(q)
  <2>1. CASE q = r
    BY <1>1, <2>1
  <2>2. CASE q # r
    BY <1>1, <2>2 DEF Received, ReceiveCreate, ReceiveChange, Receive, Call, Reply
  <2> QED
    BY <2>1, <2>2
<1>2. ASSUME NEW r \in Requests, HandlerStep(r) PROVE Moved(q)
  <2>1. CASE q = r
    BY <1>2, <2>1
  <2>2. CASE q # r
    <3>6. CASE FetchNamespace(r)
      BY <2>2, <3>6 DEF FetchNamespace, Call, Reply
    <3>1. CASE FetchApp(r)
      <4>1. AppFetched(r)
        BY <3>1, FetchAppOutcomes
      <4> QED
        BY <2>2, <4>1 DEF AppFetched, Call, Reply
    <3>2. CASE CreateSecret(r) \/ CreateApp(r) \/ PatchApp(r) \/ RefuseDuplicate(r)
      BY <2>2, <3>2 DEF CreateSecret, CreateApp, PatchApp, RefuseDuplicate, Call, Reply, Landed
    <3>3. CASE FetchDroplet(r)
      <4>1. \/ Call(r, "patch") \/ Reply(r, "UnprocessableEntity")
            \/ Reply(r, "UnknownError") \/ Reply(r, "ConnectionLost")
        BY <3>3 DEF FetchDroplet
      <4> QED
        BY <2>2, <3>3, <4>1 DEF FetchDroplet, Call, Reply
    <3>4. CASE RefuseWrite(r) \/ LoseAnswer(r)
      BY <2>2, <3>4 DEF RefuseWrite, LoseAnswer, Reply, Landed, AnswerLost
    <3>5. CASE \E p \in PCs : ReadFails(r, p)
      BY <2>2, <3>5 DEF ReadFails, Reply
    <3> QED
      BY <1>2, <3>1, <3>2, <3>3, <3>4, <3>5, <3>6 DEF HandlerStep, PCs
  <2> QED
    BY <2>1, <2>2
<1>3. ASSUME NEW a \in AppGUIDs, NEW s \in Spaces, NEW t \in Spaces,
             AppDeleted(a, s) \/ AppCopied(a, s, t)
      PROVE  Kept(q)
  BY <1>3 DEF AppDeleted, AppCopied
<1>4. ASSUME NEW b \in BuildGUIDs, NEW s \in Spaces,
             \/ \E a \in AppGUIDs : BuildCreated(b, s, a)
             \/ BuildStaged(b, s) \/ BuildDeleted(b, s)
             \/ \E t \in Spaces : BuildCopied(b, s, t)
      PROVE  Kept(q)
  BY <1>4 DEF BuildCreated, BuildStaged, BuildDeleted, BuildCopied
<1>5. ASSUME NEW s \in Spaces, SpaceDeleted(s) PROVE Kept(q)
  BY <1>5 DEF SpaceDeleted
<1>6. CASE UNCHANGED vars
  BY <1>6 DEF vars
<1> QED
  BY <1>1, <1>2, <1>3, <1>4, <1>5, <1>6 DEF Next, Quiescent, Received

\* An app is created under a new name, copied, patched, or deleted for good.
AppCreated(a, s) ==
    \E r \in Requests :
        /\ pc[r] = "createApp" /\ pc'[r] = "done"
        /\ requests[r].app = a /\ requests[r].space = s /\ s \in spaces
        /\ apps'[a][s] = NewApp(requests[r].name, requests[r].env)
        /\ UNCHANGED secrets

AppCopiedFrom(a, t, s) ==
    /\ Exists(apps[a][t]) /\ ~apps[a][t].env
    /\ apps[a][s] = Absent /\ apps'[a][s] = apps[a][t]

AppPatched(a, s) ==
    \E r \in Requests :
        /\ pc[r] = "patch" /\ pc'[r] = "done" /\ requests'[r] = requests[r]
        /\ status'[r] = IF Pending(r) THEN "OK" ELSE status[r]
        /\ requests[r].app = a /\ requests[r].space = s
        /\ Exists(apps[a][s]) /\ apps'[a][s] = Changed(apps[a][s], requests[r])
        /\ UNCHANGED secrets

AppStep(a, s) ==
    \/ apps'[a][s] = apps[a][s]
    \/ Exists(apps[a][s]) /\ apps'[a][s] = Deleted
    \/ AppCreated(a, s)
    \/ \E t \in Spaces : AppCopiedFrom(a, t, s)
    \/ AppPatched(a, s)

LEMMA AppSteps ==
  ASSUME TypeOK, RequestInv, [Next]_vars, NEW a \in AppGUIDs, NEW s \in Spaces
  PROVE  AppStep(a, s)
<1> USE DEF TypeOK, cluster, AppStep
<1>1. ASSUME NEW r \in Requests, CreateApp(r) PROVE AppStep(a, s)
  <2>1. requests[r].app \in AppGUIDs /\ requests[r].space \in Spaces
    BY <1>1 DEF CreateApp, RequestInv, Holds, Creating
  <2>2. CASE requests[r].app = a /\ requests[r].space = s
    <3>1. AppCreated(a, s)
      BY <1>1, <2>1, <2>2 DEF CreateApp, AppCreated, Landed, Reply
    <3> QED
      BY <3>1
  <2>3. CASE ~(requests[r].app = a /\ requests[r].space = s)
    BY <1>1, <2>1, <2>3 DEF CreateApp
  <2> QED
    BY <2>2, <2>3
<1>2. ASSUME NEW r \in Requests, PatchApp(r) PROVE AppStep(a, s)
  <2>1. requests[r].app \in AppGUIDs /\ requests[r].space \in Spaces
    BY <1>2 DEF PatchApp, RequestInv, Holds, Changing
  <2>2. CASE requests[r].app = a /\ requests[r].space = s
    <3>1. AppPatched(a, s)
      BY <1>2, <2>1, <2>2 DEF PatchApp, AppPatched, Landed, Reply
    <3> QED
      BY <3>1
  <2>3. CASE ~(requests[r].app = a /\ requests[r].space = s)
    BY <1>2, <2>1, <2>3 DEF PatchApp
  <2> QED
    BY <2>2, <2>3
<1>3. ASSUME NEW c \in AppGUIDs, NEW u \in Spaces, AppDeleted(c, u) PROVE AppStep(a, s)
  BY <1>3 DEF AppDeleted
<1>4. ASSUME NEW c \in AppGUIDs, NEW u \in Spaces, NEW t \in Spaces, AppCopied(c, u, t)
      PROVE  AppStep(a, s)
  BY <1>4 DEF AppCopied, AppCopiedFrom
<1>5. ASSUME NEW u \in Spaces, SpaceDeleted(u) PROVE AppStep(a, s)
  BY <1>5 DEF SpaceDeleted
<1>6. CASE UNCHANGED apps
  BY <1>6
<1> QED
  BY <1>1, <1>2, <1>3, <1>4, <1>5, <1>6 DEF Next, HandlerStep, Quiescent, vars,
     ReceiveCreate, ReceiveChange, Receive, FetchNamespace, ReadFails, CreateSecret,
     RefuseDuplicate, FetchApp, FetchDroplet, RefuseWrite, LoseAnswer, Crash,
     BuildCreated, BuildStaged, BuildDeleted, BuildCopied

\* A secret is written by a create, and goes with its namespace.
SecretCreated(a, s) ==
    \E r \in Requests :
        /\ pc[r] = "secret" /\ requests'[r] = requests[r]
        /\ pc'[r] = IF Pending(r) THEN "createApp" ELSE "done"
        /\ requests[r].app = a /\ requests[r].space = s
        /\ secrets'[a][s] = EnvSecret

SecretStep(a, s) ==
    \/ secrets'[a][s] = secrets[a][s]
    \/ SecretCreated(a, s)
    \/ /\ s \in spaces /\ s \notin spaces' /\ secrets'[a][s] # EnvSecret
       /\ ~Exists(apps'[a][s]) /\ (apps[a][s] # Absent => apps'[a][s] # Absent)

LEMMA SecretSteps ==
  ASSUME TypeOK, RequestInv, [Next]_vars, NEW a \in AppGUIDs, NEW s \in Spaces
  PROVE  SecretStep(a, s) /\ spaces' \subseteq spaces
<1> USE DEF TypeOK, cluster, SecretStep
<1>1. ASSUME NEW r \in Requests, CreateSecret(r) PROVE SecretStep(a, s)
  <2>1. requests[r].app \in AppGUIDs /\ requests[r].space \in Spaces
    BY <1>1 DEF CreateSecret, RequestInv, Holds, Creating
  <2>2. CASE requests[r].app = a /\ requests[r].space = s
    <3>1. SecretCreated(a, s)
      BY <1>1, <2>1, <2>2 DEF CreateSecret, SecretCreated, Call, Landed, Reply
    <3> QED
      BY <3>1
  <2>3. CASE ~(requests[r].app = a /\ requests[r].space = s)
    BY <1>1, <2>1, <2>3 DEF CreateSecret
  <2> QED
    BY <2>2, <2>3
<1>2. ASSUME NEW u \in Spaces, SpaceDeleted(u) PROVE SecretStep(a, s)
  <2>1. CASE u = s
    BY <1>2, <2>1, SlotAssumption, AppsAssumption DEF SpaceDeleted, Exists
  <2>2. CASE u # s
    BY <1>2, <2>2 DEF SpaceDeleted
  <2> QED
    BY <2>1, <2>2
<1>3. ASSUME UNCHANGED secrets PROVE SecretStep(a, s)
  BY <1>3
<1>4. spaces' \subseteq spaces
  BY DEF Next, HandlerStep, Quiescent, vars, CreateSecret, CreateApp, PatchApp,
     ReceiveCreate, ReceiveChange, Receive, FetchNamespace, ReadFails, SpaceDeleted,
     RefuseDuplicate, FetchApp, FetchDroplet, RefuseWrite, LoseAnswer, Crash,
     AppDeleted, AppCopied, BuildCreated, BuildStaged, BuildDeleted, BuildCopied
<1> QED
  BY <1>1, <1>2, <1>3, <1>4 DEF Next, HandlerStep, Quiescent, vars, CreateApp, PatchApp,
     ReceiveCreate, ReceiveChange, Receive, FetchNamespace, ReadFails,
     RefuseDuplicate, FetchApp, FetchDroplet, RefuseWrite, LoseAnswer, Crash,
     AppDeleted, AppCopied, BuildCreated, BuildStaged, BuildDeleted, BuildCopied

\* A droplet of an app is one for good: a build is staged once and keeps its app.
LEMMA DropletStays ==
  ASSUME TypeOK, [Next]_vars, NEW b \in BuildGUIDs, NEW a \in AppGUIDs, WasDropletOf(b, a)
  PROVE  WasDropletIn(builds', b, a)
<1> USE DEF TypeOK, cluster
<1>1. PICK t \in Spaces : \/ builds[b][t] = Deleted
                          \/ /\ Exists(builds[b][t])
                             /\ builds[b][t].staged /\ builds[b][t].app = a
  BY DEF WasDropletOf, WasDropletIn
<1>2. \/ builds'[b][t] = builds[b][t] 
      \/ builds'[b][t] = Deleted
  <2>1. builds[b][t] # Absent
    BY <1>1, SlotAssumption DEF Exists
  <2>2. ASSUME NEW c \in BuildGUIDs, NEW u \in Spaces, NEW e \in AppGUIDs, BuildCreated(c, u, e)
        PROVE  builds'[b][t] = builds[b][t]
    BY <2>1, <2>2 DEF BuildCreated
  <2>3. ASSUME NEW c \in BuildGUIDs, NEW u \in Spaces, BuildStaged(c, u)
        PROVE  builds'[b][t] = builds[b][t]
    BY <1>1, <2>3 DEF BuildStaged, Exists
  <2>4. ASSUME NEW c \in BuildGUIDs, NEW u \in Spaces, BuildDeleted(c, u)
        PROVE  builds'[b][t] = builds[b][t] \/ builds'[b][t] = Deleted
    BY <2>4 DEF BuildDeleted
  <2>5. ASSUME NEW c \in BuildGUIDs, NEW u \in Spaces, NEW v \in Spaces, BuildCopied(c, u, v)
        PROVE  builds'[b][t] = builds[b][t]
    BY <2>1, <2>5 DEF BuildCopied
  <2>6. ASSUME NEW u \in Spaces, SpaceDeleted(u)
        PROVE  builds'[b][t] = builds[b][t] \/ builds'[b][t] = Deleted
    BY <2>6 DEF SpaceDeleted
  <2>7. CASE UNCHANGED builds
    BY <2>7
  <2> QED
    BY <2>2, <2>3, <2>4, <2>5, <2>6, <2>7 DEF Next, HandlerStep, Quiescent, vars, CreateApp,
       CreateSecret, PatchApp, ReceiveCreate, ReceiveChange, Receive, FetchNamespace, ReadFails,
       RefuseDuplicate, FetchApp, FetchDroplet, RefuseWrite, LoseAnswer, Crash,
       AppDeleted, AppCopied
<1> QED
  BY <1>1, <1>2 DEF WasDropletIn
-----------------------------------------------------------------------------
(***************************************************************************)
(* Preservation                                                            *)
(***************************************************************************)
\* How a request comes to each of its later calls, and to its answer.
Stays(q) == pc[q] # "idle" /\ requests'[q] = requests[q]

Comes(q) ==
    /\ pc'[q] \in Creating => (pc[q] \in Creating /\ Stays(q)) \/ FetchNamespace(q)
    /\ pc'[q] = "createApp" =>
          (pc[q] = "createApp" /\ Stays(q)) \/ CreateSecret(q) \/ FetchNamespace(q)
    /\ pc'[q] = "fetchDroplet" => (pc[q] = "fetchDroplet" /\ Stays(q)) \/ FetchApp(q)
    /\ pc'[q] = "patch" => (pc[q] = "patch" /\ Stays(q)) \/ FetchApp(q) \/ FetchDroplet(q)
    /\ status'[q] = "OK" => (status[q] = "OK" /\ Stays(q)) \/ CreateApp(q) \/ PatchApp(q)
    /\ status[q] # "Pending" => status'[q] = status[q] /\ Stays(q)
    /\ pc[q] # "idle" =>
          /\ requests'[q].op = requests[q].op
          /\ requests'[q].droplet = requests[q].droplet
          /\ requests'[q].after = requests[q].after
          /\ requests[q].op # "create" \/ requests[q].app # None =>
                requests'[q].app = requests[q].app
          /\ requests[q].op = "create" => requests'[q].space = requests[q].space

LEMMA Progress ==
  ASSUME TypeOK, RequestInv, [Next]_vars, NEW q \in Requests
  PROVE  Comes(q)
<1> USE DEF TypeOK, cluster, Comes, Stays, Creating, Pending
<1>0. Holds(q)
  BY DEF RequestInv
<1>1. CASE Kept(q)
  BY <1>0, <1>1 DEF Kept, Holds
<1>2. CASE Received(q)
  <2>1. pc[q] = "idle" /\ status[q] = "Pending"
    BY <1>0, <1>2 DEF Received, ReceiveCreate, ReceiveChange, Receive, Holds
  <2>2. pc'[q] \in {"namespace", "fetchApp", "done"} /\ status'[q] # "OK"
    BY <1>2, <2>1 DEF Received, ReceiveCreate, ReceiveChange, Receive, PayloadErrors, Call, Reply
  <2> QED
    BY <2>1, <2>2
<1>3. CASE HandlerStep(q)
  <2>1. CASE FetchNamespace(q)
    <3>1. \/ UNCHANGED requests
          \/ \E a \in AppGUIDs : requests' = [requests EXCEPT ![q].app = a]
      BY <2>1 DEF FetchNamespace
    <3>2. /\ requests'[q].op = requests[q].op /\ requests'[q].space = requests[q].space
          /\ requests'[q].droplet = requests[q].droplet
          /\ requests'[q].after = requests[q].after
      BY <3>1 DEF Request
    <3>3. pc[q] = "namespace" /\ pc'[q] \in {"secret", "createApp", "done"} /\ Pending(q)
          /\ status'[q] # "OK" /\ requests[q].op = "create" /\ requests[q].app = None
      BY <1>0, <2>1 DEF FetchNamespace, At, Call, Reply, Holds
    <3> QED
      BY <2>1, <3>2, <3>3
  <2>2. CASE FetchApp(q)
    <3>1. AppFetched(q)
      BY <2>2, FetchAppOutcomes
    <3>2. UNCHANGED requests \/ \E s \in Spaces : requests' = [requests EXCEPT ![q].space = s]
      BY <3>1 DEF AppFetched
    <3>3. /\ requests'[q].op = requests[q].op /\ requests'[q].app = requests[q].app
          /\ requests'[q].droplet = requests[q].droplet
          /\ requests'[q].after = requests[q].after
      BY <3>2 DEF Request
    <3>4. /\ pc[q] = "fetchApp" /\ pc'[q] \in {"patch", "fetchDroplet", "done"} /\ Pending(q)
          /\ status'[q] # "OK" /\ requests[q].op # "create"
      BY <1>0, <3>1 DEF AppFetched, At, Call, Reply, Holds, Changing, ChangeOps
    <3> QED
      BY <2>2, <3>3, <3>4
  <2>3. CASE FetchDroplet(q)
    BY <1>0, <2>3 DEF FetchDroplet, At, Call, Reply, Holds
  <2>4. CASE CreateSecret(q)
    BY <1>0, <2>4 DEF CreateSecret, Call, Landed, Reply
  <2>5. CASE CreateApp(q) \/ PatchApp(q)
    BY <1>0, <2>5 DEF CreateApp, PatchApp, Landed, Reply
  <2>6. CASE RefuseDuplicate(q)
    BY <1>0, <2>6 DEF RefuseDuplicate, Landed, Reply
  <2>7. CASE RefuseWrite(q) \/ LoseAnswer(q)
    BY <1>0, <2>7 DEF RefuseWrite, LoseAnswer, Landed, Reply, AnswerLost, Writes
  <2>8. CASE \E p \in PCs \ {"idle", "done"} : ReadFails(q, p)
    BY <1>0, <2>8 DEF ReadFails, At, Reply
  <2> HIDE DEF Comes, TypeOK
  <2> QED
    BY <1>3, <2>1, <2>2, <2>3, <2>4, <2>5, <2>6, <2>7, <2>8 DEF HandlerStep, PCs
<1>4. CASE Crash
  BY <1>0, <1>4 DEF Crash, Crashed, InFlight, Arrived, Writes, Holds
<1> QED
  BY <1>1, <1>2, <1>3, <1>4, Moves DEF Moved

\* One slot of a store is written; one field of a request is set.
LEMMA SlotWritten ==
  ASSUME NEW GUIDs, NEW Slots, NEW store \in [GUIDs -> [Spaces -> Slots]],
         NEW g \in GUIDs, NEW s \in Spaces, NEW slot \in Slots
  PROVE  [store EXCEPT ![g][s] = slot] \in [GUIDs -> [Spaces -> Slots]]
  OBVIOUS

LEMMA FieldSet ==
  ASSUME requests \in [Requests -> Request], NEW r \in Requests
  PROVE  /\ \A a \in AppGUIDs : [requests EXCEPT ![r].app = a] \in [Requests -> Request]
         /\ \A s \in Spaces : [requests EXCEPT ![r].space = s] \in [Requests -> Request]
  BY DEF Request

LEMMA NextTypeOK == ASSUME TypeOK, RequestInv, [Next]_vars PROVE TypeOK'
<1> USE DEF TypeOK, cluster
<1>1. ASSUME NEW r \in Requests, Received(r) PROVE TypeOK'
  <2>1. ASSUME NEW next \in PCs, NEW errors \in SUBSET Statuses, NEW request \in Request,
               Receive(r, next, errors, request)
        PROVE  TypeOK'
    BY <2>1 DEF Receive, Call, Reply, PCs
  <2>2. ASSUME NEW s \in Spaces, NEW n \in Names, NEW env \in BOOLEAN, ReceiveCreate(r, s, n, env)
        PROVE  TypeOK'
    <3>1. [NoRequest EXCEPT !.op = "create", !.space = s, !.name = n, !.env = env] \in Request
      BY DEF NoRequest, Request, Ops
    <3> QED
      BY <2>1, <2>2, <3>1 DEF ReceiveCreate, PCs, Statuses, PayloadErrors
  <2>3. ASSUME NEW op \in ChangeOps, NEW a \in AppGUIDs, NEW b \in BuildGUIDs \cup {None},
               ReceiveChange(r, op, a, b)
        PROVE  TypeOK'
    <3>1. [NoRequest EXCEPT !.op = op, !.app = a, !.droplet = b,
                            !.after = {q \in Requests : Answered(q)}] \in Request
      BY DEF NoRequest, Request, Ops, ChangeOps
    <3> QED
      BY <2>1, <2>3, <3>1 DEF ReceiveChange, PCs, Statuses, PayloadErrors
  <2> QED
    BY <1>1, <2>2, <2>3 DEF Received, ChangeOps
<1>2. ASSUME NEW r \in Requests, HandlerStep(r) PROVE TypeOK'
  <2>1. CASE FetchNamespace(r)
    <3>1. requests' \in [Requests -> Request]
      <4>1. \/ UNCHANGED requests
            \/ \E a \in AppGUIDs : requests' = [requests EXCEPT ![r].app = a]
        BY <2>1 DEF FetchNamespace
      <4>2. \A a \in AppGUIDs : [requests EXCEPT ![r].app = a] \in [Requests -> Request]
        BY FieldSet
      <4> QED
        BY <4>1, <4>2, Zenon
    <3>2. pc' \in [Requests -> PCs] /\ status' \in [Requests -> Statuses]
      BY <2>1 DEF FetchNamespace, Call, Reply, PCs, Statuses
    <3> QED
      BY <2>1, <3>1, <3>2 DEF FetchNamespace
  <2>2. CASE FetchApp(r)
    <3>1. AppFetched(r)
      BY <2>2, FetchAppOutcomes
    <3>2. requests' \in [Requests -> Request]
      <4>1. \/ UNCHANGED requests
            \/ \E s \in Spaces : requests' = [requests EXCEPT ![r].space = s]
        BY <3>1 DEF AppFetched
      <4>2. \A s \in Spaces : [requests EXCEPT ![r].space = s] \in [Requests -> Request]
        BY FieldSet
      <4> QED
        BY <4>1, <4>2, Zenon
    <3>3. pc' \in [Requests -> PCs] /\ status' \in [Requests -> Statuses]
      BY <3>1 DEF AppFetched, Call, Reply, PCs, Statuses
    <3>4. UNCHANGED cluster
      BY <3>1 DEF AppFetched
    <3> QED
      BY <3>2, <3>3, <3>4
  <2>3. CASE FetchDroplet(r)
    BY <2>3 DEF FetchDroplet, Call, Reply, PCs, Statuses
  <2>4. CASE CreateSecret(r)
    BY <2>4 DEF CreateSecret, Call, Landed, Reply, PCs, Statuses
  <2>5. CASE CreateApp(r)
    <3>1. requests[r].name \in Names /\ requests[r].env \in BOOLEAN
      BY <2>5 DEF CreateApp, RequestInv, Holds, Creating, Request
    <3>2. NewApp(requests[r].name, requests[r].env) \in App
      BY <3>1 DEF NewApp, App, DesiredStates
    <3> QED
      BY <2>5, <3>2 DEF CreateApp, Landed, Reply, PCs, Statuses
  <2>6. CASE PatchApp(r)
    <3> DEFINE app == apps[requests[r].app][requests[r].space]
    <3>1. /\ requests[r].op \in ChangeOps
          /\ requests[r].op = "setDroplet" => requests[r].droplet \in BuildGUIDs
          /\ requests[r].app \in AppGUIDs /\ requests[r].space \in Spaces
      BY <2>6 DEF PatchApp, RequestInv, Holds, Changing
    <3>2. app \in App
      BY <2>6, <3>1 DEF PatchApp, Exists
    <3>3. Changed(app, requests[r]) \in App
      BY <3>1, <3>2 DEF Changed, App, ChangeOps, DesiredStates
    <3> QED
      BY <2>6, <3>3 DEF PatchApp, Landed, Reply, PCs, Statuses
  <2>7. CASE RefuseDuplicate(r) \/ RefuseWrite(r) \/ LoseAnswer(r)
    BY <2>7 DEF RefuseDuplicate, RefuseWrite, LoseAnswer, Landed, Reply, AnswerLost, PCs, Statuses
  <2>8. CASE \E p \in PCs : ReadFails(r, p)
    BY <2>8 DEF ReadFails, Reply, PCs, Statuses
  <2> HIDE DEF TypeOK
  <2> QED
    BY <1>2, <2>1, <2>2, <2>3, <2>4, <2>5, <2>6, <2>7, <2>8 DEF HandlerStep, PCs
<1>3. ASSUME NEW a \in AppGUIDs, NEW s \in Spaces, NEW t \in Spaces,
             AppDeleted(a, s) \/ AppCopied(a, s, t)
      PROVE  TypeOK'
  <2>1. CASE AppDeleted(a, s)
    BY <2>1 DEF AppDeleted
  <2>2. CASE AppCopied(a, s, t)
    BY <2>2 DEF AppCopied
  <2> QED
    BY <1>3, <2>1, <2>2
<1>4. ASSUME NEW b \in BuildGUIDs, NEW s \in Spaces, NEW a \in AppGUIDs, BuildCreated(b, s, a)
      PROVE  TypeOK'
  BY <1>4 DEF BuildCreated, Build
<1>5. ASSUME NEW b \in BuildGUIDs, NEW s \in Spaces, BuildStaged(b, s) \/ BuildDeleted(b, s)
      PROVE  TypeOK'
  <2>1. CASE BuildStaged(b, s)
    <3>1. builds[b][s] \in Build
      BY <2>1 DEF BuildStaged, Exists
    <3>2. builds' = [builds EXCEPT ![b][s] = [builds[b][s] EXCEPT !.staged = TRUE]]
      BY <2>1 DEF BuildStaged
    <3>3. [builds[b][s] EXCEPT !.staged = TRUE] \in Build
      BY <3>1 DEF Build
    <3> QED
      BY <2>1, <3>2, <3>3 DEF BuildStaged
  <2>2. CASE BuildDeleted(b, s)
    BY <2>2 DEF BuildDeleted
  <2> QED
    BY <1>5, <2>1, <2>2
<1>6. ASSUME NEW b \in BuildGUIDs, NEW s \in Spaces, NEW t \in Spaces, BuildCopied(b, s, t)
      PROVE  TypeOK'
  <2>1. builds[b][s] \in Build
    BY <1>6 DEF BuildCopied, Exists
  <2>2. [builds[b][s] EXCEPT !.staged = FALSE] \in Build
    BY <2>1 DEF Build
  <2> QED
    BY <1>6, <2>2 DEF BuildCopied
<1>7. ASSUME NEW s \in Spaces, SpaceDeleted(s) PROVE TypeOK'
  BY <1>7 DEF SpaceDeleted
<1>8. CASE Crash
  BY <1>8 DEF Crash, Crashed, PCs, Statuses
<1>9. CASE UNCHANGED vars
  BY <1>9 DEF vars
<1> HIDE DEF TypeOK
<1> QED
  BY <1>1, <1>2, <1>3, <1>4, <1>5, <1>6, <1>7, <1>8, <1>9 DEF Next, Quiescent, Received

LEMMA NextRequestInv == ASSUME TypeOK, RequestInv, [Next]_vars PROVE RequestInv'
<1> SUFFICES ASSUME NEW q \in Requests PROVE Holds(q)'
  BY DEF RequestInv
<1> USE DEF TypeOK, cluster, Holds, Pending, Creating, Changing
<1>0. Holds(q)
  BY DEF RequestInv
<1>1. CASE Kept(q)
  BY <1>0, <1>1 DEF Kept
<1>2. ASSUME NEW s \in Spaces, NEW n \in Names, NEW env \in BOOLEAN, ReceiveCreate(q, s, n, env)
      PROVE  Holds(q)'
  <2>1. requests'[q].op = "create" /\ requests'[q].space = s /\ requests'[q].name = n
        /\ requests'[q].app = None
    BY <1>2 DEF ReceiveCreate, Receive, NoRequest
  <2> QED
    BY <1>0, <1>2, <2>1 DEF ReceiveCreate, Receive, Call, Reply
<1>3. ASSUME NEW op \in ChangeOps, NEW a \in AppGUIDs, NEW b \in BuildGUIDs \cup {None},
             ReceiveChange(q, op, a, b), op = "setDroplet" => b \in BuildGUIDs
      PROVE  Holds(q)'
  <2>1. requests'[q].op = op /\ requests'[q].app = a /\ requests'[q].droplet = b
    BY <1>3 DEF ReceiveChange, Receive, NoRequest
  <2> QED
    BY <1>0, <1>3, <2>1 DEF ReceiveChange, Receive, Call, Reply
<1>4. CASE HandlerStep(q)
  <2>1. CASE FetchNamespace(q)
    <3>1. CASE UNCHANGED requests /\ Reply(q, "UnprocessableEntity")
      BY <1>0, <2>1, <3>1 DEF FetchNamespace, At, Reply
    <3>2. ASSUME NEW a \in AppGUIDs, requests' = [requests EXCEPT ![q].app = a],
                 Call(q, IF requests[q].env THEN "secret" ELSE "createApp")
          PROVE  Holds(q)'
      <4>1. /\ requests'[q].app = a /\ requests'[q].op = requests[q].op
            /\ requests'[q].name = requests[q].name /\ requests'[q].space = requests[q].space
        BY <3>2 DEF Request
      <4>2. pc'[q] \in Creating /\ status'[q] = "Pending"
        BY <2>1, <3>2 DEF FetchNamespace, At, Call
      <4> QED
        BY <1>0, <2>1, <4>1, <4>2 DEF FetchNamespace, At
    <3> QED
      BY <2>1, <3>1, <3>2 DEF FetchNamespace
  <2>2. CASE FetchApp(q)
    <3>1. AppFetched(q)
      BY <2>2, FetchAppOutcomes
    <3>2. CASE UNCHANGED requests
      <4>1. pc'[q] \in {"done", "patch", "fetchDroplet"} /\ requests'[q] = requests[q]
        BY <3>1, <3>2 DEF AppFetched, Call, Reply
      <4>2. CASE pc'[q] = "done"
        BY <4>1, <4>2
      <4>3. CASE pc'[q] \in {"patch", "fetchDroplet"}
        <5>1. PICK s \in Spaces : requests' = [requests EXCEPT ![q].space = s]
          BY <3>1, <4>3 DEF AppFetched, Reply
        <5>2. requests'[q].space = s
          BY <5>1 DEF Request
        <5>3. status'[q] = "Pending" /\ (pc'[q] = "fetchDroplet" => requests[q].op = "setDroplet")
          BY <3>1, <4>3 DEF AppFetched, At, Call, Reply
        <5> QED
          BY <1>0, <3>1, <4>1, <4>3, <5>2, <5>3 DEF AppFetched, At
      <4> QED
        BY <4>1, <4>2, <4>3
    <3>3. ASSUME NEW s \in Spaces, requests' = [requests EXCEPT ![q].space = s]
          PROVE  Holds(q)'
      <4>1. /\ requests'[q].space = s /\ requests'[q].op = requests[q].op
            /\ requests'[q].app = requests[q].app /\ requests'[q].droplet = requests[q].droplet
        BY <3>3 DEF Request
      <4>2. \/ pc'[q] = "done"
            \/ pc'[q] = "patch" /\ status'[q] = "Pending"
            \/ pc'[q] = "fetchDroplet" /\ requests[q].op = "setDroplet" /\ status'[q] = "Pending"
        BY <3>1 DEF AppFetched, At, Call, Reply
      <4> QED
        BY <1>0, <3>1, <4>1, <4>2 DEF AppFetched, At
    <3> QED
      BY <3>1, <3>2, <3>3 DEF AppFetched
  <2>3. CASE FetchDroplet(q)
    BY <1>0, <2>3 DEF FetchDroplet, At, Call, Reply
  <2>4. CASE CreateSecret(q)
    BY <1>0, <2>4 DEF CreateSecret, Call, Landed, Reply
  <2>5. CASE CreateApp(q) \/ PatchApp(q) \/ RefuseDuplicate(q)
    BY <1>0, <2>5 DEF CreateApp, PatchApp, RefuseDuplicate, Landed, Reply
  <2>6. CASE RefuseWrite(q) \/ LoseAnswer(q)
    BY <1>0, <2>6 DEF RefuseWrite, LoseAnswer, Landed, Reply, AnswerLost, Writes
  <2>7. CASE \E p \in PCs : ReadFails(q, p)
    BY <1>0, <2>7 DEF ReadFails, At, Reply
  <2> HIDE DEF TypeOK, Holds
  <2> QED
    BY <1>4, <2>1, <2>2, <2>3, <2>4, <2>5, <2>6, <2>7 DEF HandlerStep, PCs
<1>5. CASE Crash
  BY <1>0, <1>5 DEF Crash, Crashed, InFlight, Arrived, Writes
<1> HIDE DEF TypeOK, Holds
<1> QED
  BY <1>1, <1>2, <1>3, <1>4, <1>5, Moves DEF Moved, Received, ChangeOps

\* What a patch leaves of an app: one field is the request's, the others stay.
LEMMA ChangedField ==
  ASSUME NEW app \in App, NEW request \in Request, request.op \in ChangeOps,
         request.op = "setDroplet" => request.droplet \in BuildGUIDs
  PROVE  LET new == Changed(app, request) IN
         /\ new \in App /\ new.env = app.env
         /\ request.op = "setDroplet" => new.droplet = request.droplet /\ new.state = app.state
         /\ request.op = "start" => new.droplet = app.droplet /\ new.state = "STARTED"
         /\ request.op = "stop" => new.droplet = app.droplet /\ new.state = "STOPPED"
<1>1. CASE request.op = "setDroplet"
  BY <1>1 DEF Changed, App
<1>2. CASE request.op = "start"
  BY <1>2 DEF Changed, App, DesiredStates
<1>3. CASE request.op = "stop"
  BY <1>3 DEF Changed, App, DesiredStates
<1> QED
  BY <1>1, <1>2, <1>3 DEF ChangeOps

LEMMA NewAppIs ==
  ASSUME NEW n \in Names, NEW env \in BOOLEAN
  PROVE  LET new == NewApp(n, env) IN
         new \in App /\ new.env = env /\ new.droplet = None /\ new.state = "STOPPED"
  BY DEF NewApp, App, DesiredStates

\* What AppStep says of a slot that has an app, or had one: it stays as it is, it is
\* deleted, or one request patches it.
LEMMA SlotSteps ==
  ASSUME TypeOK, RequestInv, CreateInv, [Next]_vars, NEW a \in AppGUIDs, NEW s \in Spaces,
         apps[a][s] # Absent
  PROVE  /\ apps'[a][s] # Absent
         /\ \/ apps'[a][s] = apps[a][s]
            \/ apps'[a][s] = Deleted
            \/ Exists(apps[a][s]) /\ AppPatched(a, s)
<1>1. AppStep(a, s)
  BY AppSteps
<1>2. ~AppCreated(a, s)
  BY DEF AppCreated, CreateInv, Creating
<1>3. ~\E t \in Spaces : AppCopiedFrom(a, t, s)
  BY DEF AppCopiedFrom
<1>4. ASSUME AppPatched(a, s) PROVE Exists(apps[a][s]) /\ apps'[a][s] # Absent
  <2>1. PICK r \in Requests : /\ pc[r] = "patch"
                              /\ requests[r].app = a /\ requests[r].space = s
                              /\ Exists(apps[a][s])
                              /\ apps'[a][s] = Changed(apps[a][s], requests[r])
    BY <1>4 DEF AppPatched
  <2>2. apps[a][s] \in App /\ requests[r] \in Request
    BY <2>1 DEF TypeOK, Exists
  <2>3. requests[r].op \in ChangeOps /\ (requests[r].op = "setDroplet" => requests[r].droplet \in BuildGUIDs)
    BY <2>1 DEF RequestInv, Holds, Changing
  <2> QED
    BY <2>1, <2>2, <2>3, ChangedField, AppsAssumption
<1> QED
  BY <1>1, <1>2, <1>3, <1>4, SlotAssumption DEF AppStep

LEMMA NextCreateInv == ASSUME TypeOK, RequestInv, CreateInv, [Next]_vars PROVE CreateInv'
<1> USE DEF TypeOK, cluster
<1> SUFFICES ASSUME NEW r \in Requests, pc'[r] \in Creating
             PROVE  /\ \A s \in Spaces : apps'[requests'[r].app][s] = Absent
                    /\ \A q \in Requests \ {r} :
                          pc'[q] \in Creating => requests'[q].app # requests'[r].app
  BY DEF CreateInv
<1> DEFINE a == requests'[r].app
<1>0. RequestInv'
  BY NextRequestInv
<1>1. a \in AppGUIDs
  BY <1>0 DEF RequestInv, Holds
<1>2. (pc[r] \in Creating /\ Stays(r)) \/ FetchNamespace(r)
  BY Progress DEF Comes
<1>3. FetchNamespace(r) => Fresh(a) /\ UNCHANGED cluster
  <2> SUFFICES ASSUME FetchNamespace(r) PROVE Fresh(a) /\ UNCHANGED cluster
    OBVIOUS
  <2>1. pc'[r] # "done"
    BY DEF Creating
  <2>2. PICK c \in AppGUIDs : Fresh(c) /\ requests' = [requests EXCEPT ![r].app = c]
    BY <2>1 DEF FetchNamespace, Reply
  <2>3. a = c
    BY <2>2 DEF Request
  <2> QED
    BY <2>2, <2>3 DEF FetchNamespace
<1>4. \A s \in Spaces : apps[a][s] = Absent
  BY <1>2, <1>3 DEF CreateInv, Stays, Fresh
<1>5. \A q \in Requests \ {r} : pc[q] \in Creating => requests[q].app # a
  BY <1>2, <1>3 DEF CreateInv, Stays, Fresh
<1>6. ASSUME NEW s \in Spaces PROVE apps'[a][s] = Absent
  <2>1. AppStep(a, s)
    BY <1>1, AppSteps
  <2>2. ~Exists(apps[a][s]) /\ \A t \in Spaces : ~Exists(apps[a][t])
    BY <1>4 DEF Exists
  <2>3. ~AppCreated(a, s)
    BY <1>5 DEF AppCreated, Creating
  <2> QED
    BY <1>4, <2>1, <2>2, <2>3 DEF AppStep, AppCopiedFrom, AppPatched
<1>7. ASSUME NEW q \in Requests \ {r}, pc'[q] \in Creating PROVE requests'[q].app # a
  <2>1. (pc[q] \in Creating /\ Stays(q)) \/ FetchNamespace(q)
    BY <1>7, Progress DEF Comes
  <2>2. CASE pc[q] \in Creating /\ Stays(q)
    BY <1>5, <2>2 DEF Stays
  <2>3. CASE FetchNamespace(q)
    <3>1. PICK c \in AppGUIDs : Fresh(c) /\ requests' = [requests EXCEPT ![q].app = c]
      BY <1>7, <2>3 DEF FetchNamespace, Reply, Creating
    <3>2. requests'[q].app = c
      BY <3>1 DEF Request
    <3>3. requests'[r] = requests[r]
      BY <3>1
    <3> QED
      BY <3>1, <3>2, <3>3 DEF Fresh
  <2> QED
    BY <2>1, <2>2, <2>3
<1> QED
  BY <1>6, <1>7

LEMMA NextSlotInv ==
  ASSUME TypeOK, RequestInv, CreateInv, SlotInv, [Next]_vars
  PROVE  SlotInv'
<1> USE DEF TypeOK, cluster
<1> DEFINE Named(r) == /\ requests[r].op \in Ops
                       /\ requests[r].app \in AppGUIDs /\ requests[r].space \in Spaces
                       /\ apps[requests[r].app][requests[r].space] # Absent
<1> SUFFICES ASSUME NEW r \in Requests,
                    pc'[r] \in {"fetchDroplet", "patch"} \/ status'[r] = "OK"
             PROVE  Named(r)'
  BY DEF SlotInv
<1>0. Comes(r) /\ Holds(r)
  BY Progress DEF RequestInv
<1>1. CASE Stays(r) /\ Named(r)
  BY <1>1, SlotSteps DEF Stays
<1>2. CASE FetchApp(r)
  <2>1. AppFetched(r)
    BY <1>2, FetchAppOutcomes
  <2>2. pc'[r] # "done"
    BY <2>1 DEF AppFetched, At, Pending, Call, Reply
  <2>3. PICK s \in Spaces : /\ FoundIn(apps, requests[r].app, s)
                            /\ requests' = [requests EXCEPT ![r].space = s]
    BY <2>1, <2>2 DEF AppFetched, Reply
  <2>4. requests'[r].app = requests[r].app /\ requests'[r].op = requests[r].op
        /\ requests'[r].space = s
    BY <2>3 DEF Request
  <2>5. apps[requests[r].app][s] # Absent
    BY <2>3 DEF FoundIn, Where, Exists
  <2> QED
    BY <1>0, <2>1, <2>4, <2>5 DEF AppFetched, At, Holds, Changing, ChangeOps, Ops
<1>3. CASE FetchDroplet(r)
  <2>1. Stays(r) /\ pc[r] = "fetchDroplet"
    BY <1>3 DEF FetchDroplet, At, Stays
  <2> QED
    BY <1>1, <2>1 DEF SlotInv
<1>4. CASE CreateApp(r)
  <2>1. /\ requests'[r] = requests[r] /\ requests[r].op = "create"
        /\ requests[r].app \in AppGUIDs /\ requests[r].space \in Spaces
        /\ requests[r].name \in Names /\ requests[r].env \in BOOLEAN
    BY <1>0, <1>4 DEF CreateApp, Holds, Creating, Request
  <2>2. apps'[requests[r].app][requests[r].space] = NewApp(requests[r].name, requests[r].env)
    BY <1>4, <2>1 DEF CreateApp
  <2> QED
    BY <2>1, <2>2, NewAppIs, AppsAssumption DEF Ops
<1>5. CASE PatchApp(r)
  <2>1. Stays(r) /\ pc[r] = "patch"
    BY <1>5 DEF PatchApp, Stays
  <2> QED
    BY <1>1, <2>1 DEF SlotInv
<1> QED
  BY <1>0, <1>1, <1>2, <1>3, <1>4, <1>5 DEF Comes, SlotInv

LEMMA NextSecret ==
  ASSUME TypeOK, RequestInv, CreateInv, SecretInv, OwnerInv, EnvIsThere, [Next]_vars
  PROVE  SecretInv' /\ OwnerInv' /\ EnvIsThere'
<1> USE DEF TypeOK, cluster
<1>1. SecretInv'
  <2> SUFFICES ASSUME NEW r \in Requests, pc'[r] = "createApp", requests'[r].env,
                      requests'[r].space \in spaces'
               PROVE  secrets'[requests'[r].app][requests'[r].space] = EnvSecret
    BY DEF SecretInv
  <2>0. Comes(r) /\ Holds(r)
    BY Progress DEF RequestInv
  <2>1. CASE pc[r] = "createApp" /\ Stays(r)
    <3>1. requests[r].app \in AppGUIDs /\ requests[r].space \in Spaces
      BY <2>0, <2>1 DEF Holds, Creating
    <3>2. /\ SecretStep(requests[r].app, requests[r].space)
          /\ spaces' \subseteq spaces
      BY <3>1, SecretSteps
    <3> QED
      BY <2>1, <3>2 DEF SecretInv, Stays, SecretStep, SecretCreated
  <2>2. CASE CreateSecret(r)
    BY <2>0, <2>2 DEF CreateSecret, Holds, Creating
  <2>3. CASE FetchNamespace(r)
    <3>1. PICK a \in AppGUIDs : /\ Call(r, IF requests[r].env THEN "secret" ELSE "createApp")
                                /\ requests' = [requests EXCEPT ![r].app = a]
      BY <2>3 DEF FetchNamespace, Reply
    <3>2. requests'[r] = [requests[r] EXCEPT !.app = a] /\ requests[r] \in Request
      BY <3>1
    <3>3. requests'[r].env = requests[r].env
      BY <3>2 DEF Request
    <3> QED
      BY <3>1, <3>3 DEF Call
  <2> QED
    BY <2>0, <2>1, <2>2, <2>3 DEF Comes
<1>2. OwnerInv'
  <2> SUFFICES ASSUME NEW a \in AppGUIDs, NEW s \in Spaces, secrets'[a][s] = EnvSecret
               PROVE  \E r \in Requests : SecretIsOf(r, a, s)'
    BY DEF OwnerInv
  <2>1. SecretStep(a, s)
    BY SecretSteps
  <2>2. CASE secrets'[a][s] = secrets[a][s]
    <3>1. PICK r \in Requests : SecretIsOf(r, a, s)
      BY <2>2 DEF OwnerInv
    <3>2. Comes(r) /\ Holds(r)
      BY Progress DEF RequestInv
    <3>3. pc[r] # "idle"
      BY <3>1, <3>2, AppsAssumption DEF SecretIsOf, Holds, NoRequest
    <3> QED
      BY <3>1, <3>2, <3>3, AppsAssumption DEF SecretIsOf, Comes
  <2>3. CASE SecretCreated(a, s)
    <3>1. PICK r \in Requests : /\ pc[r] = "secret" /\ requests'[r] = requests[r]
                                /\ requests[r].app = a /\ requests[r].space = s
      BY <2>3 DEF SecretCreated
    <3> QED
      BY <3>1 DEF RequestInv, Holds, Creating, SecretIsOf
  <2> QED
    BY <2>1, <2>2, <2>3 DEF SecretStep
<1>3. EnvIsThere'
  <2> SUFFICES ASSUME NEW a \in AppGUIDs, NEW s \in Spaces, Exists(apps'[a][s]), apps'[a][s].env
               PROVE  secrets'[a][s] = EnvSecret
    BY DEF EnvIsThere
  <2>1. AppStep(a, s) /\ SecretStep(a, s)
    BY AppSteps, SecretSteps
  <2>2. CASE apps'[a][s] = apps[a][s]
    BY <2>1, <2>2 DEF EnvIsThere, SecretStep, SecretCreated
  <2>3. CASE AppCreated(a, s)
    <3>1. PICK r \in Requests :
             /\ pc[r] = "createApp"
             /\ requests[r].app = a /\ requests[r].space = s /\ s \in spaces
             /\ apps'[a][s] = NewApp(requests[r].name, requests[r].env)
             /\ UNCHANGED secrets
      BY <2>3 DEF AppCreated
    <3>2. requests[r].env
      BY <3>1 DEF NewApp
    <3> QED
      BY <3>1, <3>2 DEF SecretInv
  <2>4. CASE AppPatched(a, s)
    <3>1. PICK r \in Requests :
             /\ pc[r] = "patch" /\ requests[r].app = a /\ requests[r].space = s
             /\ Exists(apps[a][s]) /\ apps'[a][s] = Changed(apps[a][s], requests[r])
             /\ UNCHANGED secrets
      BY <2>4 DEF AppPatched
    <3>2. apps[a][s] \in App /\ requests[r] \in Request
      BY <3>1 DEF Exists
    <3>3. requests[r].op \in ChangeOps /\ (requests[r].op = "setDroplet" => requests[r].droplet \in BuildGUIDs)
      BY <3>1 DEF RequestInv, Holds, Changing
    <3> QED
      BY <3>1, <3>2, <3>3, ChangedField DEF EnvIsThere
  <2> QED
    BY <2>1, <2>2, <2>3, <2>4 DEF AppStep, AppCopiedFrom, Exists
<1> QED
  BY <1>1, <1>2, <1>3

LEMMA NextStart ==
  ASSUME TypeOK, RequestInv, CreateInv, SlotInv, StartInv, StartedHasDroplet, [Next]_vars
  PROVE  StartInv' /\ StartedHasDroplet'
<1> USE DEF TypeOK, cluster
<1>1. ASSUME NEW a \in AppGUIDs, NEW s \in Spaces, AppPatched(a, s)
      PROVE  /\ apps[a][s].droplet # None => apps'[a][s].droplet # None
             /\ Exists(apps[a][s])
             /\ \/ apps'[a][s].droplet # None
                \/ apps'[a][s].state = "STOPPED"
  <2>1. PICK r \in Requests :
           /\ pc[r] = "patch" /\ requests[r].app = a /\ requests[r].space = s
           /\ Exists(apps[a][s]) /\ apps'[a][s] = Changed(apps[a][s], requests[r])
    BY <1>1 DEF AppPatched
  <2>2. apps[a][s] \in App /\ requests[r] \in Request
    BY <2>1 DEF Exists
  <2>3. requests[r].op \in ChangeOps /\ (requests[r].op = "setDroplet" => requests[r].droplet \in BuildGUIDs)
    BY <2>1 DEF RequestInv, Holds, Changing
  <2>4. requests[r].op = "start" => apps[a][s].droplet # None
    BY <2>1 DEF StartInv
  <2> QED
    BY <2>1, <2>2, <2>3, <2>4, ChangedField, AppsAssumption DEF ChangeOps
<1>2. StartInv'
  <2> SUFFICES ASSUME NEW r \in Requests, pc'[r] = "patch", requests'[r].op = "start",
                      Exists(apps'[requests'[r].app][requests'[r].space])
               PROVE  apps'[requests'[r].app][requests'[r].space].droplet # None
    BY DEF StartInv
  <2>0. Comes(r) /\ Holds(r)
    BY Progress DEF RequestInv
  <2>1. CASE pc[r] = "patch" /\ Stays(r)
    <3> DEFINE a == requests[r].app
               s == requests[r].space
    <3>1. a \in AppGUIDs /\ s \in Spaces /\ apps[a][s] # Absent
      BY <2>1 DEF SlotInv
    <3>2. \/ apps'[a][s] = apps[a][s]
          \/ apps'[a][s] = Deleted
          \/ Exists(apps[a][s]) /\ AppPatched(a, s)
      BY <3>1, SlotSteps
    <3>3. Exists(apps[a][s]) /\ (apps'[a][s] = apps[a][s] \/ AppPatched(a, s))
      BY <2>1, <3>2 DEF Exists, Stays
    <3> QED
      BY <1>1, <2>1, <3>1, <3>3 DEF StartInv, Stays
  <2>2. CASE FetchApp(r)
    <3>1. AppFetched(r)
      BY <2>2, FetchAppOutcomes
    <3>2. PICK s \in Spaces : /\ requests' = [requests EXCEPT ![r].space = s]
                              /\ \/ requests[r].op = "stop"
                                 \/ Startable(apps[requests[r].app][s])
      BY <3>1 DEF AppFetched, Call, Reply
    <3>3. requests'[r].op = requests[r].op /\ requests'[r].app = requests[r].app
          /\ requests'[r].space = s
      BY <3>2 DEF Request
    <3> QED
      BY <3>1, <3>2, <3>3 DEF AppFetched, Startable
  <2>3. CASE FetchDroplet(r)
    BY <2>0, <2>3 DEF FetchDroplet, At, Holds
  <2> QED
    BY <2>0, <2>1, <2>2, <2>3 DEF Comes
<1>3. StartedHasDroplet'
  <2> SUFFICES ASSUME NEW a \in AppGUIDs, NEW s \in Spaces, Exists(apps'[a][s]),
                      apps'[a][s].state = "STARTED"
               PROVE  apps'[a][s].droplet # None
    BY DEF StartedHasDroplet
  <2>1. AppStep(a, s)
    BY AppSteps
  <2>2. CASE apps'[a][s] = apps[a][s] \/ \E t \in Spaces : AppCopiedFrom(a, t, s)
    BY <2>2 DEF StartedHasDroplet, AppCopiedFrom
  <2>3. CASE AppCreated(a, s)
    BY <2>3 DEF AppCreated, NewApp
  <2>4. CASE AppPatched(a, s)
    BY <1>1, <2>4
  <2> QED
    BY <2>1, <2>2, <2>3, <2>4 DEF AppStep, Exists
<1> QED
  BY <1>2, <1>3

LEMMA NextDroplet ==
  ASSUME TypeOK, RequestInv, DropletInv, CurrentDropletIsOwn, [Next]_vars
  PROVE  DropletInv' /\ CurrentDropletIsOwn'
<1> USE DEF TypeOK, cluster
<1>1. DropletInv'
  <2> SUFFICES ASSUME NEW r \in Requests, pc'[r] = "patch", requests'[r].op = "setDroplet"
               PROVE  WasDropletOf(requests[r].droplet, requests[r].app)'
    BY DEF DropletInv
  <2>0. Comes(r) /\ Holds(r)
    BY Progress DEF RequestInv
  <2>1. CASE pc[r] = "patch" /\ Stays(r)
    <3>1. requests[r].droplet \in BuildGUIDs /\ requests[r].app \in AppGUIDs
          /\ WasDropletOf(requests[r].droplet, requests[r].app)
      BY <2>0, <2>1 DEF DropletInv, Stays, Holds, Changing
    <3>2. ASSUME NEW b \in BuildGUIDs, NEW a \in AppGUIDs, WasDropletOf(b, a)
          PROVE  WasDropletIn(builds', b, a)
      BY <3>2, DropletStays
    <3> QED
      BY <2>1, <3>1, <3>2 DEF Stays, WasDropletOf
  <2>2. CASE FetchApp(r)
    <3>1. AppFetched(r)
      BY <2>2, FetchAppOutcomes
    <3> QED
      BY <2>0, <3>1 DEF AppFetched, At, Call, Reply, Comes
  <2>3. CASE FetchDroplet(r)
    <3>1. PICK s \in Spaces : /\ FoundIn(builds, requests[r].droplet, s)
                              /\ OwnDroplet(builds[requests[r].droplet][s], requests[r].app)
      BY <2>3 DEF FetchDroplet, Reply, Call
    <3>2. Exists(builds[requests[r].droplet][s])
      BY <3>1 DEF FoundIn, Where
    <3> QED
      BY <2>3, <3>1, <3>2 DEF FetchDroplet, WasDropletOf, WasDropletIn, OwnDroplet
  <2> QED
    BY <2>0, <2>1, <2>2, <2>3 DEF Comes
<1>2. CurrentDropletIsOwn'
  <2>1. ASSUME NEW a \in AppGUIDs, NEW s \in Spaces, Exists(apps'[a][s]),
               apps'[a][s].droplet # None
        PROVE  WasDropletOf(apps'[a][s].droplet, a)
    <3>0. AppStep(a, s)
      BY AppSteps
    <3>1. ASSUME NEW t \in Spaces, Exists(apps[a][t]), apps'[a][s] = apps[a][t]
          PROVE  WasDropletOf(apps'[a][s].droplet, a)
      BY <2>1, <3>1 DEF CurrentDropletIsOwn, WasDropletOf, WasDropletIn
    <3>2. CASE AppPatched(a, s)
      <4>1. PICK r \in Requests :
               /\ pc[r] = "patch" /\ requests[r].app = a /\ requests[r].space = s
               /\ Exists(apps[a][s]) /\ apps'[a][s] = Changed(apps[a][s], requests[r])
        BY <3>2 DEF AppPatched
      <4>2. apps[a][s] \in App /\ requests[r] \in Request
        BY <4>1 DEF Exists
      <4>3. requests[r].op \in ChangeOps /\ (requests[r].op = "setDroplet" => requests[r].droplet \in BuildGUIDs)
        BY <4>1 DEF RequestInv, Holds, Changing
      <4>4. CASE requests[r].op = "setDroplet"
        <5>1. apps'[a][s].droplet = requests[r].droplet
          <6> HIDE DEF TypeOK
          <6> QED
            BY <4>1, <4>2, <4>3, <4>4, ChangedField
        <5> QED
          BY <4>1, <4>4, <5>1 DEF DropletInv
      <4>5. CASE requests[r].op # "setDroplet"
        <5>1. apps'[a][s].droplet = apps[a][s].droplet
          <6> HIDE DEF TypeOK
          <6> QED
            BY <4>1, <4>2, <4>3, <4>5, ChangedField DEF ChangeOps
        <5> QED
          BY <2>1, <4>1, <5>1 DEF CurrentDropletIsOwn, WasDropletOf, WasDropletIn
      <4> QED
        BY <4>4, <4>5
    <3>3. CASE AppCreated(a, s)
      BY <2>1, <3>3 DEF AppCreated, NewApp
    <3> HIDE DEF TypeOK
    <3> QED
      BY <2>1, <3>0, <3>1, <3>2, <3>3 DEF AppStep, AppCopiedFrom, Exists
  <2> SUFFICES ASSUME NEW a \in AppGUIDs, NEW s \in Spaces, Exists(apps'[a][s]),
                      apps'[a][s].droplet # None
               PROVE  WasDropletIn(builds', apps'[a][s].droplet, a)
    BY DEF CurrentDropletIsOwn, WasDropletIn
  <2>2. TypeOK'
    BY NextTypeOK
  <2>3. apps'[a][s].droplet \in BuildGUIDs
    BY <2>2 DEF Exists, App
  <2>4. ASSUME NEW b \in BuildGUIDs, WasDropletOf(b, a) PROVE WasDropletIn(builds', b, a)
    BY <2>4, DropletStays
  <2> QED
    BY <2>1, <2>3, <2>4
<1> QED
  BY <1>1, <1>2

LEMMA NextAfterInv == ASSUME TypeOK, RequestInv, AfterInv, [Next]_vars PROVE AfterInv'
<1> SUFFICES ASSUME NEW r \in Requests, NEW q \in requests'[r].after PROVE ~Pending(q)'
  BY DEF AfterInv
<1>0. TypeOK'
  BY NextTypeOK
<1>1. q \in Requests
  BY <1>0 DEF TypeOK, Request
<1>2. ~Pending(q)
  <2>1. CASE pc[r] # "idle"
    BY <2>1, Progress DEF Comes, AfterInv
  <2>2. CASE pc[r] = "idle"
    <3>1. CASE Received(r)
      <4>1. CASE \E s \in Spaces, n \in Names, env \in BOOLEAN : ReceiveCreate(r, s, n, env)
        BY <4>1 DEF ReceiveCreate, Receive, NoRequest, TypeOK
      <4>2. ASSUME NEW op, NEW a, NEW b, ReceiveChange(r, op, a, b) PROVE Answered(q)
        BY <4>2 DEF ReceiveChange, Receive, NoRequest, TypeOK
      <4> QED
        BY <3>1, <4>1, <4>2 DEF Received, Answered
    <3>2. CASE requests'[r] = requests[r]
      BY <3>2 DEF AfterInv
    <3>3. ~HandlerStep(r)
      BY <2>2 DEF HandlerStep, FetchNamespace, ReadFails, At, CreateSecret, CreateApp,
         RefuseDuplicate, FetchApp, FetchDroplet, PatchApp, RefuseWrite, LoseAnswer, Writes
    <3> QED
      BY <3>1, <3>2, <3>3, Moves DEF Moved, Kept, Crash
  <2> QED
    BY <2>1, <2>2
<1> QED
  BY <1>1, <1>2, Progress DEF Comes, Pending

\* q is why the app of r has the value it has.
Upholds(q, r) ==
    /\ Wants(q, apps[requests[r].app][requests[r].space])
    /\ \/ q = r
       \/ /\ requests[q].app = requests[r].app /\ requests[q].op # "create"
          /\ SameField(q, r)
          /\ q \in requests[r].after => status[q] \in {"UnknownError", "ConnectionLost"}

\* A change that was answered 200 survives the next step: a patch of the same field
\* by another request makes that one the witness, every other patch leaves the field.
LEMMA NextChangesStick ==
  ASSUME TypeOK, RequestInv, CreateInv, SlotInv, AfterInv, ChangesStick, [Next]_vars
  PROVE  ChangesStick'
<1> USE DEF TypeOK, cluster
<1> SUFFICES ASSUME NEW r \in Requests, status'[r] = "OK", requests'[r].op # "create",
                    Exists(apps'[requests'[r].app][requests'[r].space])
             PROVE  \E q \in Requests : Upholds(q, r)'
  BY DEF ChangesStick, Upholds
<1> DEFINE a == requests[r].app
           s == requests[r].space
<1>0. Comes(r) /\ Holds(r)
  BY Progress DEF RequestInv
<1>1. CASE PatchApp(r)
  <2>1. /\ requests' = requests
        /\ requests[r].op \in ChangeOps /\ requests[r] \in Request
        /\ requests[r].op = "setDroplet" => requests[r].droplet \in BuildGUIDs
        /\ a \in AppGUIDs /\ s \in Spaces
    BY <1>0, <1>1 DEF PatchApp, Holds, Changing
  <2>2. apps[a][s] \in App /\ apps'[a][s] = Changed(apps[a][s], requests[r])
    BY <1>1, <2>1 DEF PatchApp, Exists
  <2>3. Wants(r, apps[a][s])'
    <3> HIDE DEF TypeOK
    <3> QED
      BY <2>1, <2>2, ChangedField DEF Wants, ChangeOps
  <2>4. Upholds(r, r)'
    BY <2>3 DEF Upholds
  <2> QED
    BY <2>4
<1>2. CASE status[r] = "OK" /\ Stays(r)
  <2>1. /\ a \in AppGUIDs /\ s \in Spaces /\ apps[a][s] # Absent
        /\ requests[r].op \in ChangeOps
    BY <1>2 DEF SlotInv, Stays, Ops, ChangeOps
  <2>2. PICK p \in Requests : Upholds(p, r)
    <3>1. Exists(apps[a][s])
      BY <1>2, <2>1, SlotSteps DEF Stays, Exists
    <3> QED
      BY <1>2, <2>1, <3>1 DEF ChangesStick, Upholds, Stays, ChangeOps
  <2>3. Comes(p) /\ Holds(p) /\ pc[p] # "idle" /\ requests[p].op \in ChangeOps
    <3>1. requests[p].op \in ChangeOps
      BY <2>2 DEF Upholds, Wants, ChangeOps
    <3>2. Comes(p) /\ Holds(p)
      BY Progress DEF RequestInv
    <3>3. requests[p].op # None
      BY <3>1, AppsAssumption DEF Ops, ChangeOps
    <3> QED
      BY <3>1, <3>2, <3>3 DEF Holds, NoRequest
  <2>4. /\ requests'[p].op = requests[p].op /\ requests'[p].app = requests[p].app
        /\ requests'[p].droplet = requests[p].droplet
        /\ status[p] # "Pending" => status'[p] = status[p]
        /\ requests'[r] = requests[r]
    BY <1>2, <2>3 DEF Comes, ChangeOps, Stays
  <2>5. SameField(p, r) \/ p = r
    BY <2>2 DEF Upholds
  <2>6. ASSUME Wants(p, apps'[a][s]) PROVE Upholds(p, r)'
    <3>1. Wants(p, apps[requests[r].app][requests[r].space])'
      BY <2>4, <2>6 DEF Wants
    <3> QED
      BY <2>2, <2>4, <3>1 DEF Upholds, SameField
  <2>7. CASE apps'[a][s] = apps[a][s]
    BY <2>2, <2>6, <2>7 DEF Upholds
  <2>8. CASE AppPatched(a, s)
    <3>1. PICK q \in Requests :
             /\ pc[q] = "patch" /\ requests'[q] = requests[q]
             /\ status'[q] = IF Pending(q) THEN "OK" ELSE status[q]
             /\ requests[q].app = a /\ requests[q].space = s
             /\ Exists(apps[a][s]) /\ apps'[a][s] = Changed(apps[a][s], requests[q])
      BY <2>8 DEF AppPatched
    <3>2. /\ requests[q].op \in ChangeOps /\ requests[q] \in Request
          /\ requests[q].op = "setDroplet" => requests[q].droplet \in BuildGUIDs
          /\ ~Pending(q) => status[q] \in {"UnknownError", "ConnectionLost"}
      BY <3>1 DEF RequestInv, Holds, Changing
    <3>3. apps[a][s] \in App
      BY <2>1, <3>1 DEF Exists
    <3> DEFINE new == apps'[a][s]
    <3>4. /\ requests[q].op = "setDroplet" =>
                new.droplet = requests[q].droplet /\ new.state = apps[a][s].state
          /\ requests[q].op = "start" => new.droplet = apps[a][s].droplet /\ new.state = "STARTED"
          /\ requests[q].op = "stop" => new.droplet = apps[a][s].droplet /\ new.state = "STOPPED"
      <4>1. new = Changed(apps[a][s], requests[q])
        BY <3>1
      <4> HIDE DEF new, TypeOK, cluster
      <4> QED
        BY <3>2, <3>3, <4>1, ChangedField
    <3>5. CASE SameField(q, r)
      <4>1. Wants(q, new)
        BY <3>2, <3>4 DEF Wants, ChangeOps
      <4>2. Wants(q, apps[requests[r].app][requests[r].space])'
        BY <2>4, <3>1, <4>1 DEF Wants
      <4>3. q \in requests[r].after => status'[q] \in {"UnknownError", "ConnectionLost"}
        BY <3>1, <3>2 DEF AfterInv
      <4> QED
        BY <2>4, <3>1, <3>2, <3>5, <4>2, <4>3 DEF Upholds, SameField, ChangeOps
    <3>6. CASE ~SameField(q, r)
      <4>1. (requests[q].op = "setDroplet") # (requests[p].op = "setDroplet")
        BY <2>5, <3>6 DEF SameField
      <4>2. Wants(p, apps[a][s])
        BY <2>2 DEF Upholds
      <4>3. Wants(p, new)
        BY <2>3, <3>2, <3>4, <4>1, <4>2 DEF Wants, ChangeOps
      <4> QED
        BY <2>6, <4>3
    <3> QED
      BY <3>5, <3>6
  <2> QED
    BY <1>2, <2>1, <2>6, <2>7, <2>8, SlotSteps DEF Stays, Exists
<1>3. CASE CreateApp(r)
  BY <1>0, <1>3 DEF CreateApp, Holds, Creating
<1> QED
  BY <1>0, <1>1, <1>2, <1>3 DEF Comes

-----------------------------------------------------------------------------
(***************************************************************************)
(* The theorems                                                            *)
(***************************************************************************)
LEMMA NextIInv == IInv /\ [Next]_vars => IInv'
<1> SUFFICES ASSUME IInv, [Next]_vars PROVE IInv'
  OBVIOUS
<1> USE DEF IInv
<1>1. TypeOK' /\ RequestInv' /\ CreateInv' /\ SlotInv'
  BY NextTypeOK, NextRequestInv, NextCreateInv, NextSlotInv
<1>2. SecretInv' /\ OwnerInv' /\ EnvIsThere'
  BY NextSecret
<1>3. StartInv' /\ StartedHasDroplet'
  BY NextStart
<1>4. DropletInv' /\ CurrentDropletIsOwn'
  BY NextDroplet
<1>5. AfterInv' /\ ChangesStick'
  BY NextAfterInv, NextChangesStick
<1> QED
  BY <1>1, <1>2, <1>3, <1>4, <1>5

\* The inductive invariant holds in every reachable state.
THEOREM Invariance == Spec => []IInv
  BY InitIInv, NextIInv, PTL DEF Spec

\* Every app, secret, build and request is well formed.
THEOREM Typing == Spec => []TypeOK
<1>1. IInv => TypeOK
  BY DEF IInv
<1> QED
  BY Invariance, <1>1, PTL

\* An app that is STARTED has a droplet, although appStartHandler checks a record that
\* other handlers may have patched since.
THEOREM StartedSafety == Spec => []StartedHasDroplet
<1>1. IInv => StartedHasDroplet
  BY DEF IInv
<1> QED
  BY Invariance, <1>1, PTL

\* The current droplet of an app is, or was, a staged build of that app, although
\* appSetCurrentDropletHandler checks a build that may be deleted since.
THEOREM DropletSafety == Spec => []CurrentDropletIsOwn
<1>1. IInv => CurrentDropletIsOwn
  BY DEF IInv
<1> QED
  BY Invariance, <1>1, PTL

\* An app that names its secret has it, whatever call of appCreateHandler failed.
THEOREM EnvSafety == Spec => []EnvIsThere
<1>1. IInv => EnvIsThere
  BY DEF IInv
<1> QED
  BY Invariance, <1>1, PTL

\* A secret without an app belongs to a create that was not answered 200.
THEOREM OrphanSafety == Spec => []OrphanIsKnown
<1>1. IInv => OrphanIsKnown
  BY DEF IInv, OwnerInv, SecretIsOf, SlotInv, OrphanIsKnown
<1> QED
  BY Invariance, <1>1, PTL

\* A change that was answered 200 stays until a request that may overwrite it does.
THEOREM ChangesSafety == Spec => []ChangesStick
<1>1. IInv => ChangesStick
  BY DEF IInv
<1> QED
  BY Invariance, <1>1, PTL
-----------------------------------------------------------------------------
(***************************************************************************)
(* The changes are atomic.  What the mapping needs of a request beyond     *)
(* IInv: it is over only when it is answered.                              *)
(***************************************************************************)
OverInv == \A r \in Requests : pc[r] = "done" => ~Pending(r)

LEMMA FirstOverInv == FirstState => OverInv
  BY DEF FirstState, OverInv

LEMMA NextOverInv == ASSUME TypeOK, RequestInv, OverInv, [Next]_vars PROVE OverInv'
<1> USE DEF TypeOK, Pending
<1> SUFFICES ASSUME NEW q \in Requests, pc'[q] = "done" PROVE status'[q] # "Pending"
  BY DEF OverInv
<1>1. CASE Kept(q)
  BY <1>1 DEF Kept, OverInv
<1>2. CASE Received(q)
  BY <1>2 DEF Received, ReceiveCreate, ReceiveChange, Receive, PayloadErrors, Call, Reply
<1>3. CASE HandlerStep(q)
  <2>1. CASE FetchNamespace(q)
    BY <2>1 DEF FetchNamespace, Call, Reply
  <2>2. CASE FetchApp(q)
    <3>1. AppFetched(q)
      BY <2>2, FetchAppOutcomes
    <3> QED
      BY <3>1 DEF AppFetched, Call, Reply
  <2>3. CASE FetchDroplet(q)
    BY <2>3 DEF FetchDroplet, Call, Reply
  <2>4. CASE CreateSecret(q)
    BY <2>4 DEF CreateSecret, Call, Landed, Reply
  <2>5. CASE CreateApp(q) \/ PatchApp(q) \/ RefuseDuplicate(q) \/ RefuseWrite(q)
    BY <2>5 DEF CreateApp, PatchApp, RefuseDuplicate, RefuseWrite, Landed, Reply
  <2>6. CASE LoseAnswer(q)
    BY <2>6 DEF LoseAnswer, AnswerLost
  <2>7. CASE \E p \in PCs : ReadFails(q, p)
    BY <2>7 DEF ReadFails, Reply
  <2> QED
    BY <1>3, <2>1, <2>2, <2>3, <2>4, <2>5, <2>6, <2>7 DEF HandlerStep, PCs
<1>4. CASE Crash
  BY <1>4 DEF Crash, Crashed, InFlight, Arrived, OverInv
<1> QED
  BY <1>1, <1>2, <1>3, <1>4, Moves DEF Moved
-----------------------------------------------------------------------------
(***************************************************************************)
(* What a step does to the mapped variables                                *)
(***************************************************************************)
Step == [Promise!Next]_Promise!vars

StoresStay == UNCHANGED <<apps, Staged, Droplets>>

LEMMA StoresUnchanged == UNCHANGED <<apps, builds>> => StoresStay
  BY DEF StoresStay, Staged, Droplets, WasDropletOf, WasDropletIn, IsDropletOf, FoundIn, Where

\* No step but those of r's handler touches what r's handler holds.
OnlyMoves(r) == \A q \in Requests \ {r} : Kept(q)

LEMMA OneMoves ==
  ASSUME NEW r \in Requests, OnlyMoves(r)
  PROVE  /\ Asked' = [Asked EXCEPT ![r] = AskedOf(r)']
         /\ Place' = [Place EXCEPT ![r] = PlaceOf(r)']
         /\ Stage' = [Stage EXCEPT ![r] = StageOf(r)']
         /\ Answer' = [Answer EXCEPT ![r] = AnswerOf(r)']
<1>1. \A q \in Requests \ {r} : /\ AskedOf(q)' = AskedOf(q) /\ PlaceOf(q)' = PlaceOf(q)
                                /\ StageOf(q)' = StageOf(q) /\ AnswerOf(q)' = AnswerOf(q)
  BY DEF OnlyMoves, Kept, AskedOf, PlaceOf, StageOf, AnswerOf, IsChange
<1> QED
  BY <1>1 DEF Asked, Place, Stage, Answer

\* It moves without the abstract change taking notice.
Unseen(r) ==
    AskedOf(r)' = AskedOf(r) /\ PlaceOf(r)' = PlaceOf(r)
    /\ StageOf(r)' = StageOf(r) /\ AnswerOf(r)' = AnswerOf(r)

LEMMA OneStutters ==
  ASSUME NEW r \in Requests, OnlyMoves(r), Unseen(r)
  PROVE  UNCHANGED <<Asked, Place, Stage, Answer>>
  BY OneMoves DEF Unseen, Asked, Place, Stage, Answer

LEMMA NoneMoves ==
  ASSUME UNCHANGED <<pc, status, requests>>
  PROVE  UNCHANGED <<Asked, Place, Stage, Answer>>
  BY DEF Asked, Place, Stage, Answer, AskedOf, PlaceOf, StageOf, AnswerOf, IsChange

LEMMA Stutters == StoresStay /\ UNCHANGED <<Asked, Place, Stage, Answer>> => Step
  BY DEF StoresStay, Step, Promise!vars, Promise!changes

\* A change that fails for its client comes to nothing, or may be made late.
LEMMA FailStep ==
  ASSUME NEW r \in Requests, StoresStay, OnlyMoves(r),
         StageOf(r) \in {"open", "accepted"}, AnswerOf(r) = "none",
         AskedOf(r)' = AskedOf(r), PlaceOf(r)' = PlaceOf(r),
         AnswerOf(r)' = "failed",
         \/ StageOf(r)' = "closed"
         \/ StageOf(r) = "accepted" /\ StageOf(r)' = "accepted"
  PROVE  Step
<1>1. UNCHANGED <<Asked, Place>>
  BY OneMoves DEF Asked, Place
<1>2. Stage[r] = StageOf(r) /\ Answer[r] = AnswerOf(r)
  BY DEF Stage, Answer
<1>3. Answer' = [q \in Requests |-> IF q \in {r} THEN "failed" ELSE Answer[q]]
  BY OneMoves DEF Answer
<1>4. CASE StageOf(r)' = "closed"
  <2>1. Stage' = [q \in Requests |-> IF q \in {r} \ {} THEN "closed" ELSE Stage[q]]
    BY <1>4, OneMoves DEF Stage
  <2>2. Promise!Fail({r}, {})
    BY <1>1, <1>2, <1>3, <2>1 DEF Promise!Fail, StoresStay
  <2> QED
    BY <2>2 DEF Step, Promise!Next
<1>5. CASE StageOf(r) = "accepted" /\ StageOf(r)' = "accepted"
  <2>1. Stage' = [q \in Requests |-> IF q \in {r} \ {r} THEN "closed" ELSE Stage[q]]
    BY <1>5, OneMoves DEF Stage
  <2>2. Promise!Fail({r}, {r})
    BY <1>1, <1>2, <1>3, <1>5, <2>1 DEF Promise!Fail, StoresStay
  <2> QED
    BY <2>2 DEF Step, Promise!Next
<1> QED
  BY <1>4, <1>5

LEMMA DropStep ==
  ASSUME NEW r \in Requests, StoresStay, OnlyMoves(r),
         StageOf(r) = "accepted", AnswerOf(r) = "failed", StageOf(r)' = "closed",
         AskedOf(r)' = AskedOf(r), PlaceOf(r)' = PlaceOf(r), AnswerOf(r)' = AnswerOf(r)
  PROVE  Step
<1>1. UNCHANGED <<Asked, Place, Answer>>
  BY OneMoves DEF Asked, Place, Answer
<1>2. Stage[r] = StageOf(r) /\ Answer[r] = AnswerOf(r)
  BY DEF Stage, Answer
<1>3. Stage' = [Stage EXCEPT ![r] = "closed"]
  BY OneMoves
<1>4. Promise!Drop(r)
  BY <1>1, <1>2, <1>3 DEF Promise!Drop, StoresStay
<1> QED
  BY <1>4 DEF Step, Promise!Next

\* Apps come and go, builds are staged, copied and deleted: no change takes notice.
LEMMA OthersStep ==
  ASSUME TypeOK, RequestInv, CreateInv, [Next]_vars,
         UNCHANGED <<Asked, Place, Stage, Answer>>,
         \A a \in AppGUIDs, s \in Spaces : ~AppPatched(a, s)
  PROVE  Step
<1>1. ASSUME NEW a \in AppGUIDs, NEW s \in Spaces
      PROVE  Promise!Evolves(apps[a][s], apps'[a][s], {apps[a][t] : t \in Spaces})
  <2>1. AppStep(a, s)
    BY AppSteps
  <2>2. ASSUME AppCreated(a, s)
        PROVE  apps[a][s] = Absent /\ Promise!IsNew(apps'[a][s])
    <3>1. PICK r \in Requests : /\ pc[r] = "createApp" /\ requests[r].app = a
                                /\ apps'[a][s] = NewApp(requests[r].name, requests[r].env)
      BY <2>2 DEF AppCreated
    <3>2. requests[r].name \in Names /\ requests[r].env \in BOOLEAN
      BY <3>1 DEF RequestInv, Holds, Creating, TypeOK, Request
    <3>3. PICK new \in App : /\ new = NewApp(requests[r].name, requests[r].env)
                             /\ new.droplet = None /\ new.state = "STOPPED"
      BY <3>2, NewAppIs
    <3>4. apps[a][s] = Absent
      BY <3>1 DEF CreateInv, Creating
    <3> QED
      BY <3>1, <3>3, <3>4, AppsAssumption DEF Promise!IsNew, Promise!Exists
  <2>3. ASSUME NEW t \in Spaces, AppCopiedFrom(a, t, s)
        PROVE  /\ apps[a][s] = Absent /\ Promise!Exists(apps'[a][s])
               /\ apps'[a][s] \in {apps[a][u] : u \in Spaces}
    BY <2>3 DEF AppCopiedFrom, Promise!Exists, Exists
  <2> QED
    BY <2>1, <2>2, <2>3 DEF AppStep, Promise!Evolves, Promise!Exists, Exists
<1>2. apps' \in [AppGUIDs -> [Spaces -> Promise!Slots]]
  BY NextTypeOK DEF TypeOK, App, DesiredStates, Promise!Slots, Promise!App
<1>3. Staged \subseteq Staged'
  BY DropletStays DEF Staged, WasDropletOf
<1>4. Droplets' \subseteq Staged' /\ Staged' \subseteq Promise!Pairs
  BY DEF Droplets, Staged, IsDropletOf, WasDropletOf, WasDropletIn, FoundIn, Where, Promise!Pairs
<1>5. Promise!Others
  BY <1>1, <1>2, <1>3, <1>4 DEF Promise!Others, Promise!changes
<1> QED
  BY <1>5 DEF Step, Promise!Next
-----------------------------------------------------------------------------
(***************************************************************************)
(* The steps of the handlers                                               *)
(***************************************************************************)
\* What the abstract change is, at each call of its handler.
LEMMA ChangeAt ==
  ASSUME TypeOK, RequestInv, NEW r \in Requests, pc[r] \in Changing
  PROVE  /\ IsChange(r) /\ requests[r] \in Request
         /\ StageOf(r) = IF pc[r] = "fetchApp" THEN "open" ELSE "accepted"
         /\ AnswerOf(r) = IF Pending(r) THEN "none" ELSE "failed"
         /\ AskedOf(r) = [op |-> requests[r].op, app |-> requests[r].app,
                          droplet |-> requests[r].droplet]
<1>1. Holds(r) /\ requests[r] \in Request
  BY DEF RequestInv, TypeOK
<1>2. IsChange(r)
  BY <1>1 DEF Holds, Changing, ChangeOps, IsChange
<1>3. StageOf(r) = IF pc[r] = "fetchApp" THEN "open" ELSE "accepted"
  BY <1>2 DEF Changing, StageOf
<1>4. AnswerOf(r) = IF Pending(r) THEN "none" ELSE "failed"
  BY <1>1, <1>2 DEF Holds, Changing, AnswerOf, Pending
<1> QED
  BY <1>1, <1>2, <1>3, <1>4 DEF AskedOf

\* The calls of appCreateHandler, and a request that has not arrived, are no change.
LEMMA NoChangeAt ==
  ASSUME RequestInv, NEW r \in Requests, pc[r] \in Creating \cup {"namespace", "idle"}
  PROVE  ~IsChange(r)
  BY AppsAssumption DEF RequestInv, Holds, Creating, IsChange, NoRequest, Ops

\* A step of appCreateHandler that writes no app.
LEMMA CreateStutters ==
  ASSUME NEW r \in Requests, OnlyMoves(r), UNCHANGED <<apps, builds>>,
         ~IsChange(r), requests'[r].op = requests[r].op
  PROVE  Step
<1>1. ~IsChange(r)'
  BY DEF IsChange
<1>2. Unseen(r)
  BY <1>1 DEF Unseen, AskedOf, PlaceOf, StageOf, AnswerOf
<1> QED
  BY <1>2, OneStutters, StoresUnchanged, Stutters

\* A call fails for its client, and its handler is over.
LEMMA ReplyFails ==
  ASSUME TypeOK, RequestInv, NEW r \in Requests, pc[r] \in Changing, Pending(r),
         UNCHANGED <<cluster, requests>>,
         NEW answer \in {"UnknownError", "ConnectionLost"}, Reply(r, answer)
  PROVE  Step
<1>1. OnlyMoves(r) /\ pc'[r] = "done" /\ status'[r] = answer
  BY DEF Reply, OnlyMoves, Kept, TypeOK
<1>2. IsChange(r)' /\ AskedOf(r)' = AskedOf(r) /\ PlaceOf(r)' = PlaceOf(r)
  BY ChangeAt DEF AskedOf, PlaceOf, IsChange
<1>3. StageOf(r)' = "closed" /\ AnswerOf(r)' = "failed"
  BY <1>1, <1>2 DEF StageOf, AnswerOf
<1>4. StageOf(r) \in {"open", "accepted"} /\ AnswerOf(r) = "none"
  BY ChangeAt
<1> QED
  BY <1>1, <1>2, <1>3, <1>4, StoresUnchanged, FailStep DEF cluster

LEMMA AskStep ==
  ASSUME TypeOK, RequestInv, NEW r \in Requests,
         NEW op \in ChangeOps, NEW a \in AppGUIDs, NEW b \in BuildGUIDs \cup {None},
         ReceiveChange(r, op, a, b)
  PROVE  Step
<1>1. /\ requests[r] = NoRequest /\ pc[r] = "idle" /\ status[r] = "Pending"
      /\ requests'[r].op = op /\ requests'[r].app = a /\ requests'[r].droplet = b
      /\ requests'[r].space = None
  BY DEF ReceiveChange, Receive, RequestInv, Holds, TypeOK, NoRequest
<1>2. OnlyMoves(r) /\ UNCHANGED cluster
  BY DEF ReceiveChange, Receive, OnlyMoves, Kept, TypeOK, Call, Reply
<1>3. ~IsChange(r) /\ IsChange(r)'
  BY <1>1, NoChangeAt DEF IsChange, ChangeOps
<1>4. /\ StageOf(r) = "idle" /\ AnswerOf(r) = "none" /\ PlaceOf(r)' = PlaceOf(r)
      /\ AskedOf(r)' = [op |-> op, app |-> a, droplet |-> b]
  BY <1>1, <1>3 DEF AskedOf, PlaceOf, StageOf, AnswerOf
<1>5. \/ StageOf(r)' = "open" /\ AnswerOf(r)' = "none"
      \/ StageOf(r)' = "closed" /\ AnswerOf(r)' = "failed"
  <2>1. CASE Call(r, "fetchApp")
    <3>1. pc'[r] = "fetchApp" /\ status'[r] = "Pending"
      BY <1>1, <2>1 DEF Call, TypeOK
    <3> QED
      BY <1>3, <3>1 DEF StageOf, AnswerOf
  <2>2. ASSUME NEW error \in PayloadErrors \cup {"UnknownError"}, Reply(r, error)
        PROVE  StageOf(r)' = "closed" /\ AnswerOf(r)' = "failed"
    <3>1. pc'[r] = "done" /\ status'[r] = error
      BY <2>2 DEF Reply, TypeOK
    <3> QED
      BY <1>1, <1>3, <3>1 DEF StageOf, AnswerOf, PayloadErrors
  <2> QED
    BY <2>1, <2>2 DEF ReceiveChange, Receive
<1>6. /\ Asked' = [Asked EXCEPT ![r] = [op |-> op, app |-> a, droplet |-> b]]
      /\ Place' = Place
      /\ \/ Stage' = [Stage EXCEPT ![r] = "open"] /\ Answer' = Answer
         \/ /\ Stage' = [Stage EXCEPT ![r] = "closed"]
            /\ Answer' = [Answer EXCEPT ![r] = "failed"]
  BY <1>2, <1>4, <1>5, OneMoves DEF Place, Answer
<1>7. Stage[r] = "idle"
  BY <1>4 DEF Stage
<1>8. PICK change \in Promise!Change : change = [op |-> op, app |-> a, droplet |-> b]
  BY DEF Promise!Change, ChangeOps
<1>9. StoresStay
  BY <1>2, StoresUnchanged DEF cluster
<1>10. Promise!Ask(r, change)
  BY <1>6, <1>7, <1>8, <1>9 DEF Promise!Ask, StoresStay
<1> QED
  BY <1>10 DEF Step, Promise!Next

LEMMA FetchAppStep ==
  ASSUME TypeOK, RequestInv, NEW r \in Requests, FetchApp(r)
  PROVE  Step
<1>0. AppFetched(r)
  BY FetchAppOutcomes
<1>1. PICK a \in AppGUIDs : a = requests[r].app
  BY <1>0 DEF AppFetched, At, RequestInv, Holds, Changing
<1>2. pc[r] = "fetchApp" /\ status[r] = "Pending" /\ requests[r] \in Request /\ UNCHANGED cluster
  BY <1>0 DEF AppFetched, At, Pending, TypeOK
<1>3. /\ IsChange(r) /\ StageOf(r) = "open" /\ AnswerOf(r) = "none"
      /\ AskedOf(r) = [op |-> requests[r].op, app |-> a, droplet |-> requests[r].droplet]
  BY <1>1, <1>2, ChangeAt DEF Changing, Pending
<1>4. OnlyMoves(r)
  BY <1>0 DEF AppFetched, OnlyMoves, Kept, TypeOK, Call, Reply
<1>5. StoresStay
  BY <1>2, StoresUnchanged DEF cluster
<1>6. /\ Stage[r] = "open" /\ Answer[r] = "none"
      /\ Asked[r].app = a /\ Asked[r].op = requests[r].op
  BY <1>3 DEF Stage, Answer, Asked
<1>7. CASE Reply(r, "UnknownError") /\ UNCHANGED requests
  BY <1>2, <1>7, ReplyFails DEF Changing, Pending
<1>8. CASE NotFound(apps, a) /\ Reply(r, "ResourceNotFound") /\ UNCHANGED requests
  <2>1. pc'[r] = "done" /\ status'[r] = "ResourceNotFound"
    BY <1>8 DEF Reply, TypeOK
  <2>2. IsChange(r)' /\ AskedOf(r)' = AskedOf(r) /\ PlaceOf(r)' = PlaceOf(r)
    BY <1>3, <1>8 DEF AskedOf, PlaceOf, IsChange
  <2>3. StageOf(r)' = "closed" /\ AnswerOf(r)' = "refused"
    BY <2>1, <2>2 DEF StageOf, AnswerOf
  <2>4. /\ Asked' = Asked /\ Place' = Place
        /\ Stage' = [Stage EXCEPT ![r] = "closed"]
        /\ Answer' = [Answer EXCEPT ![r] = "refused"]
    BY <1>4, <2>2, <2>3, OneMoves DEF Asked, Place
  <2>5. \A s \in Spaces : ~Promise!Exists(apps[a][s])
    BY <1>8 DEF NotFound, Where, Promise!Exists, Exists
  <2>6. Promise!RefuseMissing(r)
    BY <1>5, <1>6, <2>4, <2>5 DEF Promise!RefuseMissing, Promise!Refused, StoresStay
  <2> QED
    BY <2>6 DEF Step, Promise!Next
<1>9. ASSUME NEW s \in Spaces, FoundIn(apps, a, s),
             requests' = [requests EXCEPT ![r].space = s],
             \/ Call(r, "fetchDroplet") \/ Call(r, "patch")
             \/ /\ requests[r].op = "start" /\ ~Startable(apps[a][s])
                /\ Reply(r, "UnprocessableEntity")
      PROVE  Step
  <2>1. Promise!Exists(apps[a][s])
    BY <1>9 DEF FoundIn, Where, Promise!Exists, Exists
  <2>2. /\ requests'[r].space = s /\ requests'[r].op = requests[r].op
        /\ requests'[r].app = requests[r].app /\ requests'[r].droplet = requests[r].droplet
    BY <1>2, <1>9 DEF TypeOK, Request
  <2>3. IsChange(r)' /\ AskedOf(r)' = AskedOf(r) /\ PlaceOf(r)' = s
    BY <1>3, <2>2 DEF AskedOf, PlaceOf, IsChange
  <2>4. Asked' = Asked /\ Place' = [Place EXCEPT ![r] = s]
    BY <1>4, <2>3, OneMoves DEF Asked
  <2>5. CASE Call(r, "fetchDroplet") \/ Call(r, "patch")
    <3>1. pc'[r] \in {"fetchDroplet", "patch"} /\ status'[r] = "Pending"
      BY <1>2, <2>5 DEF Call, TypeOK
    <3>2. StageOf(r)' = "accepted" /\ AnswerOf(r)' = "none"
      BY <2>3, <3>1 DEF StageOf, AnswerOf
    <3>3. Stage' = [Stage EXCEPT ![r] = "accepted"] /\ Answer' = Answer
      BY <1>3, <1>4, <3>2, OneMoves DEF Answer
    <3>4. Promise!Accept(r, s)
      BY <1>5, <1>6, <2>1, <2>4, <3>3 DEF Promise!Accept, StoresStay
    <3> QED
      BY <3>4 DEF Step, Promise!Next
  <2>6. CASE /\ requests[r].op = "start" /\ ~Startable(apps[a][s])
             /\ Reply(r, "UnprocessableEntity")
    <3>1. pc'[r] = "done" /\ status'[r] = "UnprocessableEntity"
      BY <2>6 DEF Reply, TypeOK
    <3>2. s # None
      BY AppsAssumption
    <3>3. StageOf(r)' = "closed" /\ AnswerOf(r)' = "refused"
      BY <2>2, <2>3, <3>1, <3>2 DEF StageOf, AnswerOf
    <3>4. /\ Stage' = [Stage EXCEPT ![r] = "closed"]
          /\ Answer' = [Answer EXCEPT ![r] = "refused"]
      BY <1>4, <3>3, OneMoves
    <3>5. apps[a][s].droplet = None
      BY <2>6 DEF Startable
    <3>6. Promise!RefuseStart(r, s)
      BY <1>5, <1>6, <2>1, <2>4, <2>6, <3>4, <3>5
         DEF Promise!RefuseStart, Promise!Refused, StoresStay
    <3> QED
      BY <3>6 DEF Step, Promise!Next
  <2> QED
    BY <1>9, <2>5, <2>6
<1> QED
  BY <1>0, <1>1, <1>7, <1>8, <1>9 DEF AppFetched

LEMMA FetchDropletStep ==
  ASSUME TypeOK, RequestInv, NEW r \in Requests, FetchDroplet(r)
  PROVE  Step
<1>1. PICK b \in BuildGUIDs : b = requests[r].droplet
  BY DEF FetchDroplet, At, RequestInv, Holds, Changing
<1>2. PICK a \in AppGUIDs : a = requests[r].app
  BY DEF FetchDroplet, At, RequestInv, Holds, Changing
<1>3. /\ pc[r] = "fetchDroplet" /\ status[r] = "Pending" /\ UNCHANGED <<cluster, requests>>
      /\ requests[r].op = "setDroplet" /\ requests[r].space # None
  BY AppsAssumption DEF FetchDroplet, At, Pending, RequestInv, Holds
<1>4. /\ IsChange(r) /\ StageOf(r) = "accepted" /\ AnswerOf(r) = "none"
      /\ AskedOf(r) = [op |-> "setDroplet", app |-> a, droplet |-> b]
  BY <1>1, <1>2, <1>3, ChangeAt DEF Changing, Pending
<1>5. OnlyMoves(r)
  BY DEF FetchDroplet, OnlyMoves, Kept, TypeOK, Call, Reply
<1>6. StoresStay
  BY <1>3, StoresUnchanged DEF cluster
<1>7. IsChange(r)' /\ AskedOf(r)' = AskedOf(r) /\ PlaceOf(r)' = PlaceOf(r)
  BY <1>3, <1>4 DEF AskedOf, PlaceOf, IsChange
<1>8. CASE Call(r, "patch")
  <2>1. pc'[r] = "patch" /\ status'[r] = "Pending"
    BY <1>3, <1>8 DEF Call, TypeOK
  <2>2. Unseen(r)
    BY <1>4, <1>7, <2>1 DEF Unseen, StageOf, AnswerOf
  <2> QED
    BY <1>5, <1>6, <2>2, OneStutters, Stutters
<1>9. ASSUME NEW answer \in {"UnknownError", "ConnectionLost"}, Reply(r, answer) PROVE Step
  BY <1>3, <1>9, ReplyFails DEF Changing, Pending
<1>10. CASE ~IsDropletOf(b, a) /\ Reply(r, "UnprocessableEntity")
  <2>1. pc'[r] = "done" /\ status'[r] = "UnprocessableEntity"
    BY <1>10 DEF Reply, TypeOK
  <2>2. StageOf(r)' = "closed" /\ AnswerOf(r)' = "refused"
    BY <1>3, <1>7, <2>1 DEF StageOf, AnswerOf
  <2>3. /\ Asked' = Asked /\ Place' = Place
        /\ Stage' = [Stage EXCEPT ![r] = "closed"]
        /\ Answer' = [Answer EXCEPT ![r] = "refused"]
    BY <1>5, <1>7, <2>2, OneMoves DEF Asked, Place
  <2>4. /\ Stage[r] = "accepted" /\ Answer[r] = "none"
        /\ Asked[r] = [op |-> "setDroplet", app |-> a, droplet |-> b]
    BY <1>4 DEF Stage, Answer, Asked
  <2>5. <<a, b>> \notin Droplets
    BY <1>10 DEF Droplets
  <2>6. Promise!RefuseDroplet(r)
    BY <1>6, <2>3, <2>4, <2>5 DEF Promise!RefuseDroplet, Promise!Refused, StoresStay
  <2> QED
    BY <2>6 DEF Step, Promise!Next
<1>11. ASSUME NotFound(builds, b) PROVE ~IsDropletOf(b, a)
  BY <1>11 DEF NotFound, IsDropletOf, FoundIn
<1>12. ASSUME NEW s \in Spaces, FoundIn(builds, b, s), ~OwnDroplet(builds[b][s], a)
       PROVE  ~IsDropletOf(b, a)
  <2>1. \A t \in Spaces : FoundIn(builds, b, t) => t = s
    BY <1>12 DEF FoundIn
  <2> QED
    BY <1>12, <2>1 DEF IsDropletOf, OwnDroplet
<1> QED
  BY <1>1, <1>2, <1>8, <1>9, <1>10, <1>11, <1>12 DEF FetchDroplet

\* The patch that lands makes the change, although the app and the droplet were read
\* calls before: the app has a droplet still, and the droplet was staged for it.
LEMMA PatchStep ==
  ASSUME TypeOK, RequestInv, StartInv, DropletInv, NEW r \in Requests, PatchApp(r)
  PROVE  Step
<1>1. PICK a \in AppGUIDs : a = requests[r].app
  BY DEF PatchApp, RequestInv, Holds, Changing
<1>2. PICK s \in Spaces : s = requests[r].space
  BY DEF PatchApp, RequestInv, Holds
<1>3. /\ pc[r] = "patch" /\ pc'[r] = "done" /\ requests' = requests /\ builds' = builds
      /\ status'[r] = IF Pending(r) THEN "OK" ELSE status[r]
      /\ Exists(apps[a][s]) /\ apps[a][s] \in App /\ requests[r] \in Request
      /\ apps' = [apps EXCEPT ![a][s] = Changed(apps[a][s], requests[r])]
  BY <1>1, <1>2 DEF PatchApp, Landed, Reply, TypeOK, Exists
<1>4. /\ requests[r].op \in ChangeOps
      /\ requests[r].op = "setDroplet" => requests[r].droplet \in BuildGUIDs
  BY <1>3 DEF RequestInv, Holds, Changing
<1>5. OnlyMoves(r)
  BY DEF PatchApp, OnlyMoves, Kept, TypeOK, Landed, Reply
<1>6. /\ IsChange(r) /\ StageOf(r) = "accepted"
      /\ AnswerOf(r) = IF Pending(r) THEN "none" ELSE "failed"
      /\ AskedOf(r) = [op |-> requests[r].op, app |-> a, droplet |-> requests[r].droplet]
      /\ PlaceOf(r) = s
  BY <1>1, <1>2, <1>3, ChangeAt DEF Changing, PlaceOf
<1>7. /\ AskedOf(r)' = AskedOf(r) /\ PlaceOf(r)' = PlaceOf(r) /\ StageOf(r)' = "closed"
      /\ AnswerOf(r)' = IF AnswerOf(r) = "none" THEN "made" ELSE AnswerOf(r)
  BY <1>3, <1>6 DEF AskedOf, PlaceOf, StageOf, AnswerOf, IsChange, Pending
<1>8. /\ Asked' = Asked /\ Place' = Place /\ Stage' = [Stage EXCEPT ![r] = "closed"]
      /\ Answer' = [Answer EXCEPT ![r] = IF @ = "none" THEN "made" ELSE @]
  BY <1>5, <1>7, OneMoves DEF Asked, Place, Answer
<1>9. Stage[r] = "accepted" /\ Asked[r] = AskedOf(r) /\ Place[r] = s
  BY <1>6 DEF Stage, Asked, Place
<1>10. UNCHANGED <<Staged, Droplets>>
  BY <1>3 DEF Staged, Droplets, WasDropletOf, WasDropletIn, IsDropletOf, FoundIn, Where
<1>11. Promise!Allowed(AskedOf(r), apps[a][s])
  <2>1. requests[r].op = "start" => apps[a][s].droplet # None
    BY <1>1, <1>2, <1>3 DEF StartInv
  <2>2. requests[r].op = "setDroplet" => <<a, requests[r].droplet>> \in Staged
    BY <1>1, <1>3, <1>4 DEF DropletInv, Staged
  <2> QED
    BY <1>6, <2>1, <2>2 DEF Promise!Allowed
<1>12. Changed(apps[a][s], requests[r]) = Promise!Made(AskedOf(r), apps[a][s])
  <2>1. PICK app \in App : app = apps[a][s]
    BY <1>3
  <2>2. PICK d : d = requests[r].droplet
    OBVIOUS
  <2>3. PICK change : /\ change = AskedOf(r)
                      /\ change.op = requests[r].op /\ change.droplet = d
    BY <1>6, <2>2
  <2>4. CASE requests[r].op = "setDroplet"
    <3>1. Promise!Made(change, app) = [app EXCEPT !.state = app.state, !.droplet = d]
      BY <2>3, <2>4 DEF Promise!Made
    <3>2. Changed(app, requests[r]) = [app EXCEPT !.droplet = d]
      BY <2>2, <2>4 DEF Changed
    <3>3. [app EXCEPT !.state = app.state, !.droplet = d] = [app EXCEPT !.droplet = d]
      BY DEF App
    <3> QED
      BY <2>1, <2>3, <3>1, <3>2, <3>3
  <2>5. ASSUME NEW new, requests[r].op # "setDroplet",
               Promise!Made(change, app) = [app EXCEPT !.state = new, !.droplet = app.droplet],
               Changed(app, requests[r]) = [app EXCEPT !.state = new]
        PROVE  Changed(apps[a][s], requests[r]) = Promise!Made(AskedOf(r), apps[a][s])
    <3>1. [app EXCEPT !.state = new, !.droplet = app.droplet] = [app EXCEPT !.state = new]
      BY DEF App
    <3> QED
      BY <2>1, <2>3, <2>5, <3>1
  <2>6. CASE requests[r].op = "start"
    <3>1. /\ Promise!Made(change, app) =
                [app EXCEPT !.state = "STARTED", !.droplet = app.droplet]
          /\ Changed(app, requests[r]) = [app EXCEPT !.state = "STARTED"]
      BY <2>3, <2>6 DEF Promise!Made, Changed
    <3> QED
      BY <2>5, <2>6, <3>1
  <2>7. CASE requests[r].op = "stop"
    <3>1. /\ Promise!Made(change, app) =
                [app EXCEPT !.state = "STOPPED", !.droplet = app.droplet]
          /\ Changed(app, requests[r]) = [app EXCEPT !.state = "STOPPED"]
      BY <2>3, <2>7 DEF Promise!Made, Changed
    <3> QED
      BY <2>5, <2>7, <3>1
  <2> QED
    BY <1>4, <2>4, <2>6, <2>7 DEF ChangeOps
<1>13. Asked[r].app = a /\ Promise!Exists(apps[a][s])
  BY <1>3, <1>6, <1>9 DEF Promise!Exists, Exists
<1>14. apps' = [apps EXCEPT ![a][s] = Promise!Made(Asked[r], apps[a][s])]
  BY <1>3, <1>9, <1>12
<1>15. Promise!Make(r)
  BY <1>8, <1>9, <1>10, <1>11, <1>13, <1>14 DEF Promise!Make
<1> QED
  BY <1>15 DEF Step, Promise!Next

LEMMA RefuseWriteStep ==
  ASSUME TypeOK, RequestInv, NEW r \in Requests, RefuseWrite(r)
  PROVE  Step
<1>1. /\ pc[r] \in Writes /\ UNCHANGED <<cluster, requests>> /\ pc'[r] = "done"
      /\ status'[r] = IF Pending(r) THEN "UnknownError" ELSE status[r]
  BY DEF RefuseWrite, Landed, Reply, TypeOK
<1>2. OnlyMoves(r)
  BY DEF RefuseWrite, OnlyMoves, Kept, TypeOK, Landed, Reply
<1>3. CASE pc[r] \in Creating
  BY <1>1, <1>2, <1>3, NoChangeAt, CreateStutters DEF cluster
<1>4. CASE pc[r] = "patch"
  <2>1. /\ IsChange(r) /\ StageOf(r) = "accepted"
        /\ AnswerOf(r) = IF Pending(r) THEN "none" ELSE "failed"
    BY <1>4, ChangeAt DEF Changing
  <2>2. /\ AskedOf(r)' = AskedOf(r) /\ PlaceOf(r)' = PlaceOf(r)
        /\ StageOf(r)' = "closed" /\ AnswerOf(r)' = "failed"
    BY <1>1, <2>1 DEF AskedOf, PlaceOf, StageOf, AnswerOf, IsChange, Pending
  <2>3. StoresStay
    BY <1>1, StoresUnchanged DEF cluster
  <2>4. CASE Pending(r)
    BY <1>2, <2>1, <2>2, <2>3, <2>4, FailStep
  <2>5. CASE ~Pending(r)
    BY <1>2, <2>1, <2>2, <2>3, <2>5, DropStep
  <2> QED
    BY <2>4, <2>5
<1> QED
  BY <1>1, <1>3, <1>4 DEF Writes, Creating

LEMMA LoseAnswerStep ==
  ASSUME TypeOK, RequestInv, NEW r \in Requests, LoseAnswer(r)
  PROVE  Step
<1>1. /\ pc[r] \in Writes /\ UNCHANGED <<cluster, requests, pc>> /\ Pending(r)
      /\ status'[r] = "UnknownError"
  BY DEF LoseAnswer, AnswerLost, TypeOK
<1>2. OnlyMoves(r)
  BY DEF LoseAnswer, OnlyMoves, Kept, TypeOK, AnswerLost
<1>3. CASE pc[r] \in Creating
  BY <1>1, <1>2, <1>3, NoChangeAt, CreateStutters DEF cluster
<1>4. CASE pc[r] = "patch"
  <2>1. /\ IsChange(r) /\ StageOf(r) = "accepted" /\ AnswerOf(r) = "none"
    BY <1>1, <1>4, ChangeAt DEF Changing
  <2>2. /\ AskedOf(r)' = AskedOf(r) /\ PlaceOf(r)' = PlaceOf(r)
        /\ StageOf(r)' = "accepted" /\ AnswerOf(r)' = "failed"
    BY <1>1, <1>4, <2>1 DEF AskedOf, PlaceOf, StageOf, AnswerOf, IsChange
  <2> QED
    BY <1>1, <1>2, <2>1, <2>2, StoresUnchanged, FailStep DEF cluster
<1> QED
  BY <1>1, <1>3, <1>4 DEF Writes, Creating

LEMMA CrashStep == ASSUME TypeOK, RequestInv, OverInv, Crash PROVE Step
<1> DEFINE failed == {r \in Requests : IsChange(r) /\ InFlight(r)}
           late == {r \in failed : pc[r] \in Writes}
<1>1. UNCHANGED <<cluster, requests>>
  BY DEF Crash
<1>2. \A r \in Requests :
         /\ pc'[r] = IF InFlight(r) /\ pc[r] \notin Writes THEN "done" ELSE pc[r]
         /\ status'[r] = IF InFlight(r) THEN "ConnectionLost" ELSE status[r]
         /\ IsChange(r)' = IsChange(r)
  BY DEF Crash, Crashed, IsChange
<1>3. \A r \in Requests : IsChange(r) => pc[r] \in Changing \cup {"done"}
  BY NoChangeAt DEF TypeOK, PCs, Creating, Changing
<1>4. ASSUME NEW r \in failed
      PROVE  /\ StageOf(r) \in {"open", "accepted"} /\ AnswerOf(r) = "none"
             /\ r \in late => StageOf(r) = "accepted"
  <2>1. pc[r] \in Changing /\ Pending(r)
    BY <1>3 DEF InFlight, OverInv
  <2> QED
    BY <2>1, ChangeAt DEF Writes
<1>5. ASSUME NEW r \in Requests
      PROVE  /\ StageOf(r)' = IF r \in failed \ late THEN "closed" ELSE StageOf(r)
             /\ AnswerOf(r)' = IF r \in failed THEN "failed" ELSE AnswerOf(r)
  <2>1. CASE ~IsChange(r)
    BY <1>2, <2>1 DEF StageOf, AnswerOf
  <2>2. CASE IsChange(r) /\ ~InFlight(r)
    BY <1>1, <1>2, <2>2 DEF StageOf, AnswerOf
  <2>3. CASE IsChange(r) /\ InFlight(r)
    <3>1. pc[r] \in Changing
      BY <1>3, <2>3 DEF InFlight, OverInv
    <3>2. AnswerOf(r)' = "failed"
      BY <1>2, <2>3 DEF AnswerOf
    <3>3. CASE pc[r] = "patch"
      BY <1>2, <2>3, <3>2, <3>3 DEF StageOf, Writes
    <3>4. CASE pc[r] # "patch"
      BY <1>2, <2>3, <3>1, <3>2, <3>4 DEF StageOf, Writes, Changing
    <3> QED
      BY <3>3, <3>4
  <2> QED
    BY <2>1, <2>2, <2>3
<1>6. /\ Stage' = [r \in Requests |-> IF r \in failed \ late THEN "closed" ELSE Stage[r]]
      /\ Answer' = [r \in Requests |-> IF r \in failed THEN "failed" ELSE Answer[r]]
  BY <1>5 DEF Stage, Answer
<1>7. /\ \A r \in failed : Stage[r] \in {"open", "accepted"} /\ Answer[r] = "none"
      /\ \A r \in late : Stage[r] = "accepted"
  BY <1>4 DEF Stage, Answer
<1>8. UNCHANGED <<Asked, Place>>
  BY <1>1, <1>2 DEF Asked, Place, AskedOf, PlaceOf
<1>9. StoresStay
  BY <1>1, StoresUnchanged DEF cluster
<1>10. failed \in SUBSET Requests /\ late \in SUBSET failed
  OBVIOUS
<1> HIDE DEF failed, late
<1>11. Promise!Fail(failed, late)
  BY <1>6, <1>7, <1>8, <1>9 DEF Promise!Fail, StoresStay
<1> QED
  BY <1>10, <1>11 DEF Step, Promise!Next

\* An app that is patched is so by a handler that goes from "patch" to "done".
LEMMA PatchMoves ==
  ASSUME NEW a \in AppGUIDs, NEW s \in Spaces, AppPatched(a, s)
  PROVE  \E q \in Requests : pc[q] = "patch" /\ pc'[q] = "done"
  BY DEF AppPatched

LEMMA CreateStep ==
  ASSUME TypeOK, RequestInv, CreateInv, [Next]_vars, NEW r \in Requests, CreateApp(r)
  PROVE  Step
<1>1. pc[r] = "createApp" /\ UNCHANGED requests /\ OnlyMoves(r)
  BY DEF CreateApp, OnlyMoves, Kept, TypeOK, Landed, Reply
<1>2. ~IsChange(r) /\ ~IsChange(r)'
  BY <1>1, NoChangeAt DEF Creating, IsChange
<1>3. Unseen(r)
  BY <1>2 DEF Unseen, AskedOf, PlaceOf, StageOf, AnswerOf
<1>4. \A a \in AppGUIDs, s \in Spaces : ~AppPatched(a, s)
  BY <1>1, PatchMoves DEF OnlyMoves, Kept
<1> QED
  BY <1>1, <1>3, <1>4, OneStutters, OthersStep

LEMMA ClusterStep ==
  ASSUME TypeOK, RequestInv, CreateInv, [Next]_vars, UNCHANGED <<pc, status, requests>>
  PROVE  Step
<1>1. \A a \in AppGUIDs, s \in Spaces : ~AppPatched(a, s)
  BY PatchMoves
<1> QED
  BY <1>1, NoneMoves, OthersStep

LEMMA NextStep == IInv /\ OverInv /\ [Next]_vars => Step
<1> SUFFICES ASSUME IInv, OverInv, [Next]_vars PROVE Step
  OBVIOUS
<1>a. TypeOK /\ RequestInv /\ CreateInv /\ StartInv /\ DropletInv
  BY DEF IInv
<1>1. ASSUME NEW r \in Requests, NEW s \in Spaces, NEW n \in Names, NEW env \in BOOLEAN,
             ReceiveCreate(r, s, n, env)
      PROVE  Step
  <2>1. pc[r] = "idle" /\ UNCHANGED cluster /\ requests'[r].op = "create"
    BY <1>1, <1>a DEF ReceiveCreate, Receive, TypeOK, NoRequest
  <2>2. OnlyMoves(r)
    BY <1>1, <1>a DEF ReceiveCreate, Receive, OnlyMoves, Kept, TypeOK, Call, Reply
  <2>3. ~IsChange(r) /\ ~IsChange(r)'
    BY <1>a, <2>1, NoChangeAt DEF IsChange
  <2>4. Unseen(r)
    BY <2>3 DEF Unseen, AskedOf, PlaceOf, StageOf, AnswerOf
  <2> QED
    BY <2>1, <2>2, <2>4, OneStutters, StoresUnchanged, Stutters DEF cluster
<1>2. ASSUME NEW r \in Requests, NEW op \in ChangeOps, NEW a \in AppGUIDs,
             NEW b \in BuildGUIDs \cup {None}, ReceiveChange(r, op, a, b)
      PROVE  Step
  BY <1>2, <1>a, AskStep
<1>3. ASSUME NEW r \in Requests, FetchNamespace(r) PROVE Step
  <2>1. pc[r] = "namespace" /\ UNCHANGED cluster
    BY <1>3 DEF FetchNamespace, At
  <2>2. OnlyMoves(r)
    BY <1>3, <1>a DEF FetchNamespace, OnlyMoves, Kept, TypeOK, Call, Reply
  <2>3. requests'[r].op = requests[r].op
    <3>1. \/ UNCHANGED requests
          \/ \E a \in AppGUIDs : requests' = [requests EXCEPT ![r].app = a]
      BY <1>3 DEF FetchNamespace
    <3> QED
      BY <1>a, <3>1 DEF TypeOK, Request
  <2> QED
    BY <1>a, <2>1, <2>2, <2>3, NoChangeAt, CreateStutters DEF cluster
<1>4. ASSUME NEW r \in Requests, ReadFails(r, "namespace") PROVE Step
  <2>1. pc[r] = "namespace" /\ UNCHANGED <<cluster, requests>>
    BY <1>4 DEF ReadFails, At
  <2>2. OnlyMoves(r)
    BY <1>4, <1>a DEF ReadFails, OnlyMoves, Kept, TypeOK, Reply
  <2> QED
    BY <1>a, <2>1, <2>2, NoChangeAt, CreateStutters DEF cluster
<1>5. ASSUME NEW r \in Requests, CreateSecret(r) PROVE Step
  <2>1. pc[r] = "secret" /\ UNCHANGED <<apps, builds, requests>>
    BY <1>5 DEF CreateSecret
  <2>2. OnlyMoves(r)
    BY <1>5, <1>a DEF CreateSecret, OnlyMoves, Kept, TypeOK, Call, Landed, Reply
  <2> QED
    BY <1>a, <2>1, <2>2, NoChangeAt, CreateStutters DEF Creating
<1>6. ASSUME NEW r \in Requests, RefuseDuplicate(r) PROVE Step
  <2>1. pc[r] = "createApp" /\ UNCHANGED <<cluster, requests>>
    BY <1>6 DEF RefuseDuplicate
  <2>2. OnlyMoves(r)
    BY <1>6, <1>a DEF RefuseDuplicate, OnlyMoves, Kept, TypeOK, Landed, Reply
  <2> QED
    BY <1>a, <2>1, <2>2, NoChangeAt, CreateStutters DEF Creating, cluster
<1>7. ASSUME NEW r \in Requests, NEW p \in {"fetchApp", "fetchDroplet"}, ReadFails(r, p)
      PROVE  Step
  BY <1>7, <1>a, ReplyFails DEF ReadFails, At, Changing
<1>8. ASSUME NEW r \in Requests, HandlerStep(r) PROVE Step
  BY <1>8, <1>3, <1>4, <1>5, <1>6, <1>7, <1>a, CreateStep, FetchAppStep, FetchDropletStep,
     PatchStep, RefuseWriteStep, LoseAnswerStep DEF HandlerStep
<1>9. CASE Crash
  BY <1>9, <1>a, CrashStep
<1>10. ASSUME UNCHANGED <<pc, status, requests>> PROVE Step
  BY <1>10, <1>a, ClusterStep
<1>11. ASSUME NEW a \in AppGUIDs, NEW s \in Spaces, NEW t \in Spaces,
              AppDeleted(a, s) \/ AppCopied(a, s, t)
       PROVE  Step
  BY <1>10, <1>11 DEF AppDeleted, AppCopied
<1>12. ASSUME NEW b \in BuildGUIDs, NEW s \in Spaces,
              \/ \E a \in AppGUIDs : BuildCreated(b, s, a)
              \/ BuildStaged(b, s) \/ BuildDeleted(b, s)
              \/ \E t \in Spaces : BuildCopied(b, s, t)
       PROVE  Step
  BY <1>10, <1>12 DEF BuildCreated, BuildStaged, BuildDeleted, BuildCopied
<1>13. ASSUME NEW s \in Spaces, SpaceDeleted(s) PROVE Step
  BY <1>10, <1>13 DEF SpaceDeleted
<1>14. CASE UNCHANGED vars
  BY <1>10, <1>14 DEF vars
<1> QED
  BY <1>1, <1>2, <1>8, <1>9, <1>11, <1>12, <1>13, <1>14 DEF Next, Quiescent, ChangeOps
-----------------------------------------------------------------------------
\* The apps and droplets that are there at first.
LEMMA FirstPromise == FirstState => Promise!Init
<1> SUFFICES ASSUME FirstState PROVE Promise!Init
  OBVIOUS
<1>1. TypeOK /\ StartedHasDroplet /\ CurrentDropletIsOwn
  BY FirstIInv DEF IInv
<1>2. /\ Asked = [r \in Requests |-> None] /\ Place = [r \in Requests |-> None]
      /\ Stage = [r \in Requests |-> "idle"] /\ Answer = [r \in Requests |-> "none"]
  <2>1. ASSUME NEW r \in Requests PROVE ~IsChange(r)
    BY AppsAssumption DEF FirstState, NoRequest, IsChange, Ops
  <2> QED
    BY <2>1 DEF Asked, Place, Stage, Answer, AskedOf, PlaceOf, StageOf, AnswerOf
<1>3. apps \in [AppGUIDs -> [Spaces -> Promise!Slots]]
  BY <1>1 DEF TypeOK, App, DesiredStates, Promise!Slots, Promise!App
<1>4. Staged \subseteq Promise!Pairs /\ Droplets \subseteq Staged
  BY DEF Staged, Droplets, IsDropletOf, WasDropletOf, WasDropletIn, FoundIn, Where, Promise!Pairs
<1>5. ASSUME NEW a \in AppGUIDs, NEW s \in Spaces, Promise!Exists(apps[a][s])
      PROVE  /\ apps[a][s].state = "STARTED" => apps[a][s].droplet # None
             /\ apps[a][s].droplet # None => <<a, apps[a][s].droplet>> \in Staged
  <2>1. Exists(apps[a][s]) /\ apps[a][s] \in App
    BY <1>1, <1>5 DEF Exists, Promise!Exists, TypeOK
  <2>2. CASE apps[a][s].droplet # None
    <3>1. apps[a][s].droplet \in BuildGUIDs
      BY <2>1, <2>2 DEF App
    <3>2. WasDropletOf(apps[a][s].droplet, a)
      BY <1>1, <2>1, <2>2 DEF CurrentDropletIsOwn, WasDropletOf, WasDropletIn
    <3> QED
      BY <2>2, <3>1, <3>2 DEF Staged
  <2>3. CASE apps[a][s].droplet = None
    BY <1>1, <2>1, <2>3 DEF StartedHasDroplet
  <2> QED
    BY <2>2, <2>3
<1> QED
  BY <1>2, <1>3, <1>4, <1>5 DEF Promise!Init

\* The handlers implement AppChanges: a start, a stop and a change of the droplet take
\* effect at one moment each, at which what they had checked calls before is still true.
THEOREM Refinement == Spec => ChangesAreAtomic
<1>1. Init => IInv /\ OverInv /\ Promise!Init
  <2>1. Init => FirstState
    BY InitFirstApp DEF Init, FirstState
  <2> QED
    BY <2>1, FirstIInv, FirstOverInv, FirstPromise
<1>2. IInv /\ OverInv /\ [Next]_vars => IInv' /\ OverInv'
  BY NextIInv, NextOverInv DEF IInv
<1>3. IInv /\ OverInv /\ [Next]_vars => [Promise!Next]_Promise!vars
  BY NextStep DEF Step
<1> QED
  BY <1>1, <1>2, <1>3, PTL DEF Spec, ChangesAreAtomic, Promise!Spec
=============================================================================
