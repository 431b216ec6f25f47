---------------------------- MODULE BuildsProofs ----------------------------
(* Proofs about Builds, for any number of requests, packages and builds.   *)
EXTENDS Builds, TLAPS

-----------------------------------------------------------------------------
(***************************************************************************)
(* The inductive invariant                                                 *)
(***************************************************************************)
Decisions == {"STAGED", "FAILED"}

\* What a handler holds at each of its calls.
Holds(r) ==
    /\ pc[r] = "idle" => requests[r] = NoRequest /\ status[r] = "Pending"
    /\ pc[r] # "idle" => requests[r].op \in Ops
    /\ requests[r].op \in {"getBuild", "getDroplet"} => requests[r].build \in BuildGUIDs
    /\ pc[r] \in {"fetchPackage", "create"} => requests[r].op = "createBuild"
    /\ requests[r].op = "createBuild" => requests[r].package \in PackageGUIDs
    /\ pc[r] = "fetchPackage" => requests[r].space = None /\ requests[r].build = None
    /\ requests[r].op = "createBuild" =>
          \/ requests[r].space = None /\ requests[r].build = None
          \/ requests[r].space \in Spaces /\ requests[r].build \in BuildGUIDs
             /\ requests[r].app \in AppGUIDs
    /\ pc[r] = "create" => requests[r].space # None
    /\ pc[r] = "fetchBuild" => requests[r].op = "getBuild"
    /\ pc[r] = "fetchDroplet" => requests[r].op = "getDroplet"
    /\ pc[r] # "done" => requests[r].shown = None
    /\ (pc[r] # "done" /\ ~Pending(r)) =>
          pc[r] = "create" /\ status[r] \in {"UnknownError", "ConnectionLost"}

RequestInv == \A r \in Requests : Holds(r)

\* A create about to write carries a name that no build and no other create has.
CreateInv ==
    \A r \in Requests : pc[r] = "create" =>
        /\ \A s \in Spaces : builds[requests[r].build][s] = Absent
        /\ \A q \in Requests \ {r} : requests[q].op = "createBuild" =>
              requests[q].build # requests[r].build

\* A create took the app of its package, and every build that carries its name is of
\* that app.
TakenInv ==
    \A r \in Requests :
        (requests[r].op = "createBuild" /\ requests[r].space # None) =>
            /\ packages[requests[r].package][requests[r].space] # Absent
            /\ Exists(packages[requests[r].package][requests[r].space]) =>
                  packages[requests[r].package][requests[r].space] = requests[r].app
            /\ \A s \in Spaces : Exists(builds[requests[r].build][s]) =>
                  builds[requests[r].build][s].app = requests[r].app

\* The build b that was shown in this state is still there, as decided as it was, or
\* it was deleted since.
Shows(build, state) ==
    /\ state = "STAGED" => IsDroplet(build)
    /\ state = "FAILED" => ~build.staging /\ build.succeeded = "False"

SeenIn(store, b, state) ==
    \E s \in Spaces : \/ store[b][s] = Deleted
                      \/ Exists(store[b][s]) /\ Shows(store[b][s], state)

SeenInv ==
    \A r \in Requests :
        requests[r].shown # None =>
            /\ status[r] # "Pending" /\ requests[r].build \in BuildGUIDs
            /\ SeenIn(builds, requests[r].build, requests[r].shown)

AfterInv == \A q \in Requests : \A r \in requests[q].after : status[r] # "Pending"

IInv == /\ TypeOK /\ RequestInv /\ CreateInv /\ TakenInv
        /\ SeenInv /\ AfterInv
        /\ ReferencesResolve /\ NotFoundIsDeleted /\ OutcomeStays
-----------------------------------------------------------------------------
(***************************************************************************)
(* Initial states                                                          *)
(***************************************************************************)
LEMMA InitIInv == Init => IInv
<1> SUFFICES ASSUME Init PROVE IInv
  OBVIOUS
<1>1. packages \in [PackageGUIDs -> [Spaces -> AppGUIDs \cup {Absent, Deleted}]]
  <2>1. PICK there \in [PackageGUIDs -> [app : AppGUIDs, space : Spaces] \cup {Absent}] :
           packages = [g \in PackageGUIDs |-> [s \in Spaces |->
              IF there[g] # Absent /\ there[g].space = s THEN there[g].app ELSE Absent]]
    BY DEF Init
  <2>2. \A g \in PackageGUIDs : there[g] # Absent => there[g].app \in AppGUIDs
    OBVIOUS
  <2> QED
    BY <2>1, <2>2
<1>2. builds \in [BuildGUIDs -> [Spaces -> Build \cup {Absent, Deleted}]]
  <2>1. CASE builds = NoBuilds
    BY <2>1 DEF NoBuilds
  <2>2. ASSUME NEW b \in BuildGUIDs, NEW s \in Spaces, NEW build \in Build,
               builds = [NoBuilds EXCEPT ![b][s] = build]
        PROVE  builds \in [BuildGUIDs -> [Spaces -> Build \cup {Absent, Deleted}]]
    BY <2>2 DEF NoBuilds
  <2> QED
    BY <2>1, <2>2 DEF Init
<1>3. /\ requests = [r \in Requests |-> NoRequest]
      /\ pc = [r \in Requests |-> "idle"]
      /\ status = [r \in Requests |-> "Pending"]
  BY DEF Init
<1>4. TypeOK
  BY <1>1, <1>2, <1>3 DEF TypeOK, NoRequest, Request, PCs, Statuses
<1>5. NoRequest.op \notin Ops
  BY BuildsAssumption DEF NoRequest
<1>6. RequestInv /\ CreateInv /\ TakenInv
  BY <1>3, <1>5 DEF RequestInv, Holds, Pending, NoRequest, CreateInv, TakenInv, Ops
<1>7. SeenInv /\ AfterInv /\ ReferencesResolve /\ NotFoundIsDeleted /\ OutcomeStays
  BY <1>3, <1>5 DEF SeenInv, AfterInv, ReferencesResolve, NotFoundIsDeleted, OutcomeStays,
     SawBefore, NoRequest, Ops
<1> QED
  BY <1>4, <1>6, <1>7 DEF IInv
-----------------------------------------------------------------------------
(***************************************************************************)
(* What one step does to one request, and to one slot of a store           *)
(***************************************************************************)
Received(q) ==
    \/ \E g \in PackageGUIDs : ReceiveCreate(q, g)
    \/ \E op \in {"getBuild", "getDroplet"}, b \in BuildGUIDs : ReceiveGet(q, op, b)

\* q arrives with this request.
Arrives(q, request) ==
    /\ pc[q] = "idle" /\ UNCHANGED <<packages, builds>>
    /\ requests' = [requests EXCEPT ![q] = request]
    /\ request \in Request /\ request.shown = None /\ request.after = Answered
    /\ request.space = None
    /\ \/ request.op = "createBuild" /\ request.package \in PackageGUIDs /\ request.build = None
       \/ request.op \in {"getBuild", "getDroplet"} /\ request.build \in BuildGUIDs
    /\ \/ request.op = "createBuild" /\ Call(q, "fetchPackage")
       \/ request.op = "getBuild" /\ Call(q, "fetchBuild")
       \/ request.op = "getDroplet" /\ Call(q, "fetchDroplet")
       \/ \E error \in PayloadErrors \cup {"UnknownError"} : Reply(q, error)

LEMMA Arrival ==
  ASSUME TypeOK, RequestInv, NEW q \in Requests, Received(q)
  PROVE  \E request \in Request : Arrives(q, request)
<1>0. pc[q] = "idle" /\ requests[q] = NoRequest
  BY DEF Received, ReceiveCreate, ReceiveGet, RequestInv, Holds
<1>1. Answered \subseteq Requests
  BY DEF Answered
<1>2. ASSUME NEW g \in PackageGUIDs, ReceiveCreate(q, g)
      PROVE  \E request \in Request : Arrives(q, request)
  <2> DEFINE request == [NoRequest EXCEPT !.op = "createBuild", !.package = g, !.after = Answered]
  <2>1. /\ request \in Request /\ request.op = "createBuild" /\ request.package = g
        /\ request.shown = None /\ request.build = None /\ request.space = None
        /\ request.after = Answered
    BY <1>1 DEF NoRequest, Request, Ops
  <2>2. requests' = [requests EXCEPT ![q] = request]
    BY <1>0, <1>2 DEF ReceiveCreate
  <2> HIDE DEF request
  <2> QED
    BY <1>2, <2>1, <2>2 DEF ReceiveCreate, Arrives
<1>3. ASSUME NEW op \in {"getBuild", "getDroplet"}, NEW b \in BuildGUIDs, ReceiveGet(q, op, b)
      PROVE  \E request \in Request : Arrives(q, request)
  <2> DEFINE request == [NoRequest EXCEPT !.op = op, !.build = b, !.after = Answered]
  <2>1. /\ request \in Request /\ request.op = op /\ request.build = b
        /\ request.shown = None /\ request.space = None /\ request.after = Answered
    BY <1>1 DEF NoRequest, Request, Ops
  <2>2. requests' = [requests EXCEPT ![q] = request]
    BY <1>0, <1>3 DEF ReceiveGet
  <2> HIDE DEF request
  <2> QED
    BY <1>3, <2>1, <2>2 DEF ReceiveGet, Arrives
<1> QED
  BY <1>2, <1>3 DEF Received

Kept(q) == pc'[q] = pc[q] /\ status'[q] = status[q] /\ requests'[q] = requests[q]

Moved(q) ==
    \/ Kept(q) \/ HandlerStep(q) \/ Crash
    \/ \E request \in Request : Arrives(q, request)

LEMMA Moves ==
  ASSUME TypeOK, RequestInv, [Next]_vars, NEW q \in Requests
  PROVE  Moved(q)
<1> USE DEF TypeOK, Moved, Kept
<1>1. ASSUME NEW r \in Requests, Received(r) PROVE Moved(q)
  <2>1. PICK request \in Request : Arrives(r, request)
    BY <1>1, Arrival
  <2>2. CASE q = r
    BY <2>1, <2>2
  <2>3. CASE q # r
    BY <2>1, <2>3 DEF Arrives, Call, Reply
  <2> QED
    BY <2>2, <2>3
<1>2. ASSUME NEW r \in Requests, HandlerStep(r) PROVE Moved(q)
  <2>1. CASE q = r
    BY <1>2, <2>1
  <2>2. CASE q # r
    <3>1. CASE FetchPackage(r)
      BY <2>2, <3>1 DEF FetchPackage, Call, Reply
    <3>2. CASE CreateBuild(r)
      BY <2>2, <3>2 DEF CreateBuild, Landed, Reply
    <3>3. CASE FetchBuild(r)
      BY <2>2, <3>3 DEF FetchBuild, Show, Reply
    <3>4. CASE FetchDroplet(r)
      BY <2>2, <3>4 DEF FetchDroplet, Show, Reply
    <3>5. CASE RefuseWrite(r) \/ LoseAnswer(r)
      BY <2>2, <3>5 DEF RefuseWrite, LoseAnswer, Landed, Reply, AnswerLost
    <3>6. CASE \E p \in PCs : ReadFails(r, p)
      BY <2>2, <3>6 DEF ReadFails, Reply
    <3> HIDE DEF TypeOK, Moved
    <3> QED
      BY <1>2, <3>1, <3>2, <3>3, <3>4, <3>5, <3>6 DEF HandlerStep, PCs
  <2> QED
    BY <2>1, <2>2
<1>3. ASSUME NEW b \in BuildGUIDs, NEW s \in Spaces,
             \/ \E staging \in BOOLEAN, succeeded \in Conditions :
                   SetConditions(b, s, staging, succeeded)
             \/ SetDroplet(b, s) \/ BuildDeleted(b, s)
             \/ \E t \in Spaces : BuildCopied(b, s, t)
      PROVE  Moved(q)
  BY <1>3 DEF SetConditions, SetDroplet, BuildDeleted, BuildCopied
<1>4. ASSUME NEW g \in PackageGUIDs, NEW s \in Spaces,
             \/ \E a \in AppGUIDs : PackageCreated(g, s, a)
             \/ PackageDeleted(g, s) \/ \E t \in Spaces : PackageCopied(g, s, t)
      PROVE  Moved(q)
  BY <1>4 DEF PackageCreated, PackageDeleted, PackageCopied
<1>5. CASE Crash \/ UNCHANGED vars
  BY <1>5 DEF vars
<1> HIDE DEF TypeOK, Moved
<1> QED
  BY <1>1, <1>2, <1>3, <1>4, <1>5 DEF Next, Quiescent, Received

\* A build is written once under its name, copied without its status, decided once,
\* and deleted for good.
BuildCreated(b, s) ==
    \E r \in Requests :
        /\ pc[r] = "create" /\ requests[r].op = "createBuild"
        /\ requests[r].build = b /\ requests[r].space = s /\ pc'[r] = "done"
        /\ builds'[b][s] = NewBuild(requests[r])

BuildUpdated(b, s) ==
    \/ \E staging \in BOOLEAN, succeeded \in Conditions :
          /\ ~Decided(builds[b][s])
          /\ builds'[b][s] = [builds[b][s] EXCEPT !.staging = staging, !.succeeded = succeeded]
    \/ builds'[b][s] = [builds[b][s] EXCEPT !.droplet = TRUE]

BuildStep(b, s) ==
    \/ builds'[b][s] = builds[b][s]
    \/ Exists(builds[b][s]) /\ builds'[b][s] = Deleted
    \/ Exists(builds[b][s]) /\ BuildUpdated(b, s)
    \/ BuildCreated(b, s)
    \/ \E t \in Spaces : /\ Exists(builds[b][t]) /\ builds[b][s] = Absent
                         /\ builds'[b][s] = NewBuild(builds[b][t])

LEMMA BuildSteps ==
  ASSUME TypeOK, RequestInv, [Next]_vars, NEW b \in BuildGUIDs, NEW s \in Spaces
  PROVE  BuildStep(b, s)
<1> USE DEF TypeOK, BuildStep
<1>1. ASSUME NEW r \in Requests, CreateBuild(r) PROVE BuildStep(b, s)
  <2>1. /\ requests[r].build \in BuildGUIDs /\ requests[r].space \in Spaces
        /\ requests[r].op = "createBuild"
    BY <1>1, BuildsAssumption DEF CreateBuild, RequestInv, Holds
  <2>2. CASE requests[r].build = b /\ requests[r].space = s
    BY <1>1, <2>1, <2>2 DEF CreateBuild, BuildCreated, Landed, Reply
  <2>3. CASE ~(requests[r].build = b /\ requests[r].space = s)
    BY <1>1, <2>1, <2>3 DEF CreateBuild
  <2> QED
    BY <2>2, <2>3
<1>2. ASSUME NEW c \in BuildGUIDs, NEW t \in Spaces, NEW staging \in BOOLEAN,
             NEW succeeded \in Conditions, SetConditions(c, t, staging, succeeded)
      PROVE  BuildStep(b, s)
  <2>1. CASE c = b /\ t = s
    BY <1>2, <2>1 DEF SetConditions, BuildUpdated
  <2>2. CASE ~(c = b /\ t = s)
    BY <1>2, <2>2 DEF SetConditions
  <2> QED
    BY <2>1, <2>2
<1>3. ASSUME NEW c \in BuildGUIDs, NEW t \in Spaces, SetDroplet(c, t) PROVE BuildStep(b, s)
  <2>1. CASE c = b /\ t = s
    BY <1>3, <2>1 DEF SetDroplet, BuildUpdated
  <2>2. CASE ~(c = b /\ t = s)
    BY <1>3, <2>2 DEF SetDroplet
  <2> QED
    BY <2>1, <2>2
<1>4. ASSUME NEW c \in BuildGUIDs, NEW t \in Spaces, BuildDeleted(c, t) PROVE BuildStep(b, s)
  BY <1>4 DEF BuildDeleted
<1>5. ASSUME NEW c \in BuildGUIDs, NEW t \in Spaces, NEW u \in Spaces, BuildCopied(c, t, u)
      PROVE  BuildStep(b, s)
  BY <1>5 DEF BuildCopied
<1>6. CASE UNCHANGED builds
  BY <1>6
<1> HIDE DEF TypeOK, BuildStep
<1> QED
  BY <1>1, <1>2, <1>3, <1>4, <1>5, <1>6 DEF Next, HandlerStep, Quiescent, vars, ReceiveCreate,
     ReceiveGet, FetchPackage, ReadFails, FetchBuild, FetchDroplet, RefuseWrite, LoseAnswer,
     Crash, PackageCreated, PackageDeleted, PackageCopied

\* A package is there for good, or deleted; it is created, or copied, where it never was.
LEMMA PackageSteps ==
  ASSUME TypeOK, [Next]_vars, NEW g \in PackageGUIDs, NEW s \in Spaces, packages[g][s] # Absent
  PROVE  packages'[g][s] = packages[g][s] \/ packages'[g][s] = Deleted
<1> USE DEF TypeOK
<1>1. ASSUME NEW h \in PackageGUIDs, NEW t \in Spaces, PackageDeleted(h, t)
      PROVE  packages'[g][s] = packages[g][s] \/ packages'[g][s] = Deleted
  BY <1>1 DEF PackageDeleted
<1>2. ASSUME NEW h \in PackageGUIDs, NEW t \in Spaces, NEW u \in Spaces, PackageCopied(h, t, u)
      PROVE  packages'[g][s] = packages[g][s]
  BY <1>2 DEF PackageCopied
<1>3. ASSUME NEW h \in PackageGUIDs, NEW t \in Spaces, NEW a \in AppGUIDs,
             PackageCreated(h, t, a)
      PROVE  packages'[g][s] = packages[g][s]
  BY <1>3 DEF PackageCreated
<1>4. CASE UNCHANGED packages
  BY <1>4
<1> HIDE DEF TypeOK
<1> QED
  BY <1>1, <1>2, <1>3, <1>4 DEF Next, HandlerStep, Quiescent, vars, ReceiveCreate, ReceiveGet,
     FetchPackage, ReadFails, CreateBuild, FetchBuild, FetchDroplet, RefuseWrite, LoseAnswer,
     Crash, SetConditions, SetDroplet, BuildDeleted, BuildCopied
-----------------------------------------------------------------------------
(***************************************************************************)
(* Preservation                                                            *)
(***************************************************************************)
\* The create that found its package, in namespace s, goes on with the name b.
Taken(r, s, b) ==
    /\ FoundIn(packages, requests[r].package, s) /\ Fresh(b) /\ Call(r, "create")
    /\ requests'[r].op = requests[r].op /\ requests'[r].package = requests[r].package
    /\ requests'[r].shown = requests[r].shown /\ requests'[r].after = requests[r].after
    /\ requests'[r].space = s /\ requests'[r].build = b
    /\ requests'[r].app = packages[requests[r].package][s]
    /\ requests' \in [Requests -> Request]

LEMMA PackageFetched ==
  ASSUME TypeOK, RequestInv, NEW r \in Requests, FetchPackage(r)
  PROVE  \/ UNCHANGED requests /\ \E error \in {"UnprocessableEntity", "UnknownError"} : Reply(r, error)
         \/ \E s \in Spaces, b \in BuildGUIDs : Taken(r, s, b)
<1> USE DEF TypeOK
<1>1. ASSUME NEW s \in Spaces, NEW b \in BuildGUIDs,
             FoundIn(packages, requests[r].package, s), Fresh(b), Call(r, "create"),
             requests' = [requests EXCEPT ![r] =
                   [@ EXCEPT !.space = BuildSpace(PackageRecord(requests[r].package, s)),
                             !.app = PackageRecord(requests[r].package, s).app, !.build = b]]
      PROVE  Taken(r, s, b)
  <2> DEFINE a == packages[requests[r].package][s]
             request == [requests[r] EXCEPT !.space = s, !.app = a, !.build = b]
  <2>1. requests[r].package \in PackageGUIDs
    BY <1>1 DEF RequestInv, Holds, FetchPackage, At
  <2>2. a \in AppGUIDs
    BY <1>1, <2>1 DEF FoundIn, Where, Exists
  <2>3. requests' = [requests EXCEPT ![r] = request]
    BY <1>1 DEF BuildSpace, PackageRecord
  <2> HIDE DEF a
  <2>4. /\ request \in Request /\ request.space = s /\ request.build = b /\ request.app = a
        /\ request.op = requests[r].op /\ request.package = requests[r].package
        /\ request.shown = requests[r].shown /\ request.after = requests[r].after
    <3>1. requests[r] \in Request
      OBVIOUS
    <3> HIDE DEF TypeOK
    <3>2. request \in Request
      BY <2>2, <3>1 DEF Request
    <3>3. /\ request.space = s /\ request.build = b /\ request.app = a
          /\ request.op = requests[r].op /\ request.package = requests[r].package
      BY <3>1 DEF Request
    <3>4. request.shown = requests[r].shown /\ request.after = requests[r].after
      BY <3>1 DEF Request
    <3> QED
      BY <3>2, <3>3, <3>4
  <2> HIDE DEF request
  <2>5. requests' \in [Requests -> Request] /\ requests'[r] = request
    BY <2>3, <2>4
  <2> HIDE DEF TypeOK
  <2> QED
    BY <1>1, <2>4, <2>5 DEF Taken, a
<1> QED
  BY <1>1 DEF FetchPackage

LEMMA BuildIs ==
  ASSUME NEW x, x.app \in AppGUIDs, x.package \in PackageGUIDs
  PROVE  NewBuild(x) \in Build /\ NewBuild(x).app = x.app
  BY DEF NewBuild, Build, Conditions

LEMMA ShownSet ==
  ASSUME NEW request \in Request, NEW state \in BuildStates \cup {None}
  PROVE  [request EXCEPT !.shown = state] \in Request
  BY DEF Request

LEMMA ConditionsSet ==
  ASSUME NEW build \in Build, NEW staging \in BOOLEAN, NEW succeeded \in Conditions
  PROVE  [build EXCEPT !.staging = staging, !.succeeded = succeeded] \in Build
  BY DEF Build

LEMMA DropletSet == ASSUME NEW build \in Build PROVE [build EXCEPT !.droplet = TRUE] \in Build
  BY DEF Build

LEMMA NextTypeOK == ASSUME TypeOK, RequestInv, [Next]_vars PROVE TypeOK'
<1> USE DEF TypeOK
<1>0. ASSUME NEW r \in Requests, \/ AnswerLost(r) \/ \E next \in PCs : Call(r, next)
                                 \/ \E error \in Statuses : Reply(r, error)
      PROVE  pc' \in [Requests -> PCs] /\ status' \in [Requests -> Statuses]
  BY <1>0 DEF AnswerLost, Call, Reply, PCs, Statuses
<1>1. ASSUME NEW r \in Requests, Received(r) PROVE TypeOK'
  <2>1. PICK request \in Request : Arrives(r, request)
    BY <1>1, Arrival
  <2>2. \/ \E next \in PCs : Call(r, next)
        \/ \E error \in Statuses : Reply(r, error)
    BY <2>1 DEF Arrives, PCs, Statuses, PayloadErrors
  <2> QED
    BY <1>0, <2>1, <2>2 DEF Arrives
<1>2. ASSUME NEW r \in Requests, HandlerStep(r) PROVE TypeOK'
  <2>0. ASSUME NEW state \in BuildStates \cup {None}, requests' = [requests EXCEPT ![r].shown = state]
        PROVE  requests' \in [Requests -> Request]
    <3>1. [requests[r] EXCEPT !.shown = state] \in Request
      BY ShownSet
    <3> QED
      BY <2>0, <3>1
  <2>1. CASE FetchPackage(r)
    <3>1. CASE UNCHANGED requests /\ \E error \in {"UnprocessableEntity", "UnknownError"} : Reply(r, error)
      BY <1>0, <2>1, <3>1 DEF FetchPackage, Statuses
    <3>2. ASSUME NEW s \in Spaces, NEW b \in BuildGUIDs, Taken(r, s, b) PROVE TypeOK'
      BY <1>0, <2>1, <3>2 DEF FetchPackage, Taken, PCs
    <3> QED
      BY <2>1, <3>1, <3>2, PackageFetched
  <2>2. CASE CreateBuild(r)
    <3>1. requests[r].build \in BuildGUIDs /\ requests[r].space \in Spaces
          /\ requests[r].app \in AppGUIDs /\ requests[r].package \in PackageGUIDs
      BY <2>2, BuildsAssumption DEF CreateBuild, RequestInv, Holds
    <3>2. NewBuild(requests[r]) \in Build
      BY <3>1, BuildIs
    <3>3. \E error \in Statuses : Reply(r, error)
      BY <2>2 DEF CreateBuild, Landed, Statuses
    <3>4. BuildState(NewBuild(requests[r])) \in BuildStates
      BY DEF BuildState, NewBuild, BuildStates
    <3>5. requests[r].shown \in BuildStates \cup {None}
      BY DEF Request
    <3>6. requests' \in [Requests -> Request]
      BY <2>0, <2>2, <3>4, <3>5 DEF CreateBuild
    <3> QED
      BY <1>0, <2>2, <3>1, <3>2, <3>3, <3>6 DEF CreateBuild
  <2>3. CASE FetchBuild(r) \/ FetchDroplet(r)
    <3>1. \E error \in Statuses : Reply(r, error)
      BY <2>3 DEF FetchBuild, FetchDroplet, Show, Statuses
    <3>2. ASSUME NEW build \in Build PROVE BuildState(build) \in BuildStates
      BY DEF BuildState, Build, Conditions, BuildStates
    <3>3. UNCHANGED requests \/ \E state \in BuildStates : requests' = [requests EXCEPT ![r].shown = state]
      <4>1. CASE FetchDroplet(r)
        BY <4>1 DEF FetchDroplet, Show, BuildStates
      <4>2. CASE FetchBuild(r)
        <5>1. requests[r].build \in BuildGUIDs
          BY <4>2 DEF RequestInv, Holds, FetchBuild, At
        <5>2. \A s \in Spaces : FoundIn(builds, requests[r].build, s) => builds[requests[r].build][s] \in Build
          BY <5>1 DEF FoundIn, Where, Exists
        <5> HIDE DEF TypeOK
        <5> QED
          BY <3>2, <4>2, <5>2 DEF FetchBuild, Show
      <4> QED
        BY <2>3, <4>1, <4>2
    <3>4. requests' \in [Requests -> Request]
      BY <2>0, <3>3
    <3> QED
      BY <1>0, <2>3, <3>1, <3>4 DEF FetchBuild, FetchDroplet
  <2>4. CASE RefuseWrite(r) \/ LoseAnswer(r)
    <3>1. AnswerLost(r) \/ \E error \in Statuses : Reply(r, error)
      BY <2>4 DEF RefuseWrite, LoseAnswer, Landed, Statuses
    <3> QED
      BY <1>0, <2>4, <3>1 DEF RefuseWrite, LoseAnswer
  <2>5. CASE \E p \in PCs : ReadFails(r, p)
    <3>1. \E error \in Statuses : Reply(r, error)
      BY <2>5 DEF ReadFails, Statuses
    <3> QED
      BY <1>0, <2>5, <3>1 DEF ReadFails
  <2> HIDE DEF TypeOK
  <2> QED
    BY <1>2, <2>1, <2>2, <2>3, <2>4, <2>5 DEF HandlerStep, PCs
<1>3. ASSUME NEW b \in BuildGUIDs, NEW s \in Spaces, NEW build \in Build \cup {Deleted},
             builds' = [builds EXCEPT ![b][s] = build], UNCHANGED <<packages, requests, pc, status>>
      PROVE  TypeOK'
  BY <1>3
<1>4. ASSUME NEW b \in BuildGUIDs, NEW s \in Spaces, NEW staging \in BOOLEAN,
             NEW succeeded \in Conditions, SetConditions(b, s, staging, succeeded)
      PROVE  TypeOK'
  <2>0. builds[b][s] \in Build
    BY <1>4 DEF SetConditions, Exists
  <2>1. [builds[b][s] EXCEPT !.staging = staging, !.succeeded = succeeded] \in Build
    BY <2>0, ConditionsSet
  <2> QED
    BY <1>3, <1>4, <2>1 DEF SetConditions
<1>5. ASSUME NEW b \in BuildGUIDs, NEW s \in Spaces, SetDroplet(b, s) PROVE TypeOK'
  <2>0. builds[b][s] \in Build
    BY <1>5 DEF SetDroplet, Exists
  <2>1. [builds[b][s] EXCEPT !.droplet = TRUE] \in Build
    BY <2>0, DropletSet
  <2>2. builds' = [builds EXCEPT ![b][s] = [builds[b][s] EXCEPT !.droplet = TRUE]]
    BY <1>5 DEF SetDroplet
  <2> QED
    BY <1>3, <1>5, <2>1, <2>2 DEF SetDroplet
<1>6. ASSUME NEW b \in BuildGUIDs, NEW s \in Spaces, BuildDeleted(b, s) PROVE TypeOK'
  BY <1>3, <1>6 DEF BuildDeleted
<1>7. ASSUME NEW b \in BuildGUIDs, NEW s \in Spaces, NEW t \in Spaces, BuildCopied(b, s, t)
      PROVE  TypeOK'
  <2>1. builds[b][s].app \in AppGUIDs /\ builds[b][s].package \in PackageGUIDs
    BY <1>7 DEF BuildCopied, Exists, Build
  <2>2. NewBuild(builds[b][s]) \in Build
    BY <2>1, BuildIs
  <2> QED
    BY <1>3, <1>7, <2>2 DEF BuildCopied
<1>8. ASSUME NEW g \in PackageGUIDs, NEW s \in Spaces,
             \/ \E a \in AppGUIDs : PackageCreated(g, s, a)
             \/ PackageDeleted(g, s) \/ \E t \in Spaces : PackageCopied(g, s, t)
      PROVE  TypeOK'
  <2>1. CASE PackageDeleted(g, s)
    BY <2>1 DEF PackageDeleted
  <2>2. ASSUME NEW t \in Spaces, PackageCopied(g, s, t) PROVE TypeOK'
    <3>1. packages[g][s] \in AppGUIDs
      BY <2>2 DEF PackageCopied, Exists
    <3> QED
      BY <2>2, <3>1 DEF PackageCopied
  <2>3. ASSUME NEW a \in AppGUIDs, PackageCreated(g, s, a) PROVE TypeOK'
    BY <2>3 DEF PackageCreated
  <2> QED
    BY <1>8, <2>1, <2>2, <2>3
<1>9. CASE Crash \/ UNCHANGED vars
  BY <1>9 DEF Crash, Crashed, PCs, Statuses, vars
<1> HIDE DEF TypeOK
<1> QED
  BY <1>1, <1>2, <1>4, <1>5, <1>6, <1>7, <1>8, <1>9 DEF Next, Quiescent, Received

LEMMA NextRequestInv == ASSUME TypeOK, RequestInv, [Next]_vars PROVE RequestInv'
<1> SUFFICES ASSUME NEW q \in Requests PROVE Holds(q)'
  BY DEF RequestInv
<1> USE DEF TypeOK, Pending
<1>0. Holds(q)
  BY DEF RequestInv
<1>1. CASE Kept(q)
  BY <1>0, <1>1 DEF Kept, Holds
<1>2. ASSUME NEW request \in Request, Arrives(q, request) PROVE Holds(q)'
  <2>1. requests'[q] = request /\ status[q] = "Pending"
    BY <1>0, <1>2 DEF Arrives, Holds
  <2>2. \/ pc'[q] = "fetchPackage" /\ request.op = "createBuild" /\ status'[q] = "Pending"
        \/ pc'[q] = "fetchBuild" /\ request.op = "getBuild" /\ status'[q] = "Pending"
        \/ pc'[q] = "fetchDroplet" /\ request.op = "getDroplet" /\ status'[q] = "Pending"
        \/ pc'[q] = "done"
    BY <1>2, <2>1 DEF Arrives, Call, Reply
  <2> QED
    BY <1>2, <2>1, <2>2 DEF Arrives, Holds, Ops
<1>3. CASE HandlerStep(q)
  <2>1. CASE FetchPackage(q)
    <3>1. CASE UNCHANGED requests /\ \E error \in {"UnprocessableEntity", "UnknownError"} : Reply(q, error)
      BY <1>0, <2>1, <3>1 DEF FetchPackage, At, Reply, Holds
    <3>2. ASSUME NEW s \in Spaces, NEW b \in BuildGUIDs, Taken(q, s, b) PROVE Holds(q)'
      <4>0. requests[q].package \in PackageGUIDs
        BY <1>0, <2>1 DEF FetchPackage, At, Holds
      <4>1. packages[requests[q].package][s] \in AppGUIDs
        BY <3>2, <4>0 DEF Taken, FoundIn, Where, Exists
      <4>2. pc'[q] = "create" /\ status'[q] = "Pending" /\ pc[q] = "fetchPackage"
        BY <2>1, <3>2 DEF FetchPackage, At, Taken, Call
      <4> QED
        BY <1>0, <3>2, <4>1, <4>2, BuildsAssumption DEF Holds, Taken
    <3> QED
      BY <2>1, <3>1, <3>2, PackageFetched
  <2>2. CASE CreateBuild(q)
    <3>1. pc'[q] = "done" /\ pc[q] = "create"
      BY <2>2 DEF CreateBuild, Landed, Reply
    <3>2. /\ requests'[q].op = requests[q].op /\ requests'[q].package = requests[q].package
          /\ requests'[q].space = requests[q].space /\ requests'[q].build = requests[q].build
          /\ requests'[q].app = requests[q].app
      BY <2>2 DEF CreateBuild, Request
    <3> QED
      BY <1>0, <3>1, <3>2 DEF Holds
  <2>3. ASSUME NEW x, requests'[q] = [requests[q] EXCEPT !.shown = x], pc'[q] = "done", pc[q] # "idle"
        PROVE  Holds(q)'
    <3>1. /\ requests'[q].op = requests[q].op /\ requests'[q].package = requests[q].package
          /\ requests'[q].space = requests[q].space /\ requests'[q].build = requests[q].build
          /\ requests'[q].app = requests[q].app
      BY <2>3 DEF Request
    <3> QED
      BY <1>0, <2>3, <3>1 DEF Holds
  <2>4. ASSUME requests'[q] = requests[q], pc'[q] = "done", pc[q] # "idle"
        PROVE  Holds(q)'
    BY <1>0, <2>4 DEF Holds
  <2>5. CASE FetchBuild(q)
    BY <2>3, <2>4, <2>5 DEF FetchBuild, At, Show, Reply
  <2>6. CASE FetchDroplet(q)
    BY <2>3, <2>4, <2>6 DEF FetchDroplet, At, Show, Reply
  <2>7. CASE RefuseWrite(q)
    BY <2>4, <2>7 DEF RefuseWrite, Writes, Landed, Reply
  <2>8. CASE LoseAnswer(q)
    BY <1>0, <2>8 DEF LoseAnswer, AnswerLost, Writes, Holds
  <2>9. CASE \E p \in PCs \ {"idle"} : ReadFails(q, p)
    BY <2>4, <2>9 DEF ReadFails, At, Reply
  <2> HIDE DEF TypeOK, Holds
  <2> QED
    BY <1>3, <2>1, <2>2, <2>5, <2>6, <2>7, <2>8, <2>9 DEF HandlerStep, PCs
<1>4. CASE Crash
  BY <1>0, <1>4 DEF Crash, Crashed, InFlight, Arrived, Writes, Holds
<1> HIDE DEF TypeOK, Holds
<1> QED
  BY <1>1, <1>2, <1>3, <1>4, Moves DEF Moved

\* A request that neither arrives nor has just found its package stays what it is; once
\* it is answered, its answer stays, too.
Steady(q) ==
    /\ requests'[q].op = requests[q].op /\ requests'[q].package = requests[q].package
    /\ requests'[q].build = requests[q].build /\ requests'[q].space = requests[q].space
    /\ requests'[q].app = requests[q].app /\ requests'[q].after = requests[q].after
    /\ pc'[q] = pc[q] \/ pc'[q] = "done"
    /\ status[q] # "Pending" => /\ status'[q] = status[q]
                                /\ requests'[q].shown = requests[q].shown

LEMMA RequestSteps ==
  ASSUME TypeOK, RequestInv, [Next]_vars, NEW q \in Requests
  PROVE  \/ \E request \in Request : Arrives(q, request)
         \/ At(q, "fetchPackage") /\ UNCHANGED <<packages, builds>>
            /\ \E s \in Spaces, b \in BuildGUIDs : Taken(q, s, b)
         \/ Steady(q)
<1> USE DEF TypeOK
<1>1. CASE Kept(q)
  BY <1>1 DEF Kept, Steady
<1>2. CASE Crash
  BY <1>2 DEF Crash, Crashed, InFlight, Pending, Steady
<1>3. CASE FetchPackage(q)
  <2>1. CASE UNCHANGED requests /\ \E error \in {"UnprocessableEntity", "UnknownError"} : Reply(q, error)
    BY <1>3, <2>1 DEF FetchPackage, At, Pending, Reply, Steady
  <2> QED
    BY <1>3, <2>1, PackageFetched DEF FetchPackage
<1>4. ASSUME NEW x, requests'[q] = [requests[q] EXCEPT !.shown = x], pc'[q] = "done",
             status[q] # "Pending" => /\ status'[q] = status[q] /\ x = requests[q].shown
      PROVE  Steady(q)
  <2>1. /\ requests'[q].op = requests[q].op /\ requests'[q].package = requests[q].package
        /\ requests'[q].space = requests[q].space /\ requests'[q].build = requests[q].build
        /\ requests'[q].app = requests[q].app /\ requests'[q].after = requests[q].after
        /\ requests'[q].shown = x
    BY <1>4 DEF Request
  <2> QED
    BY <1>4, <2>1 DEF Steady
<1>5. CASE CreateBuild(q)
  BY <1>4, <1>5 DEF CreateBuild, Landed, Reply, Pending
<1>6. CASE FetchBuild(q)
  <2>1. CASE UNCHANGED requests
    BY <1>6, <2>1 DEF FetchBuild, Show, At, Reply, Pending, Steady
  <2> QED
    BY <1>4, <1>6, <2>1 DEF FetchBuild, Show, At, Reply, Pending
<1>7. CASE FetchDroplet(q)
  <2>1. CASE UNCHANGED requests
    BY <1>7, <2>1 DEF FetchDroplet, Show, At, Reply, Pending, Steady
  <2> QED
    BY <1>4, <1>7, <2>1 DEF FetchDroplet, Show, At, Reply, Pending
<1>8. CASE RefuseWrite(q) \/ LoseAnswer(q)
  BY <1>8 DEF RefuseWrite, LoseAnswer, Landed, AnswerLost, Reply, Pending, Steady
<1>9. CASE \E p \in PCs : ReadFails(q, p)
  BY <1>9 DEF ReadFails, At, Reply, Pending, Steady
<1> HIDE DEF TypeOK
<1> QED
  BY <1>1, <1>2, <1>3, <1>5, <1>6, <1>7, <1>8, <1>9, Moves DEF Moved, HandlerStep, PCs

\* A request that was answered is not touched any more.
LEMMA Settled ==
  ASSUME TypeOK, RequestInv, [Next]_vars, NEW q \in Requests, status[q] # "Pending"
  PROVE  Steady(q)
<1>1. pc[q] # "idle"
  BY DEF RequestInv, Holds
<1> QED
  BY <1>1, RequestSteps DEF Arrives, At, Pending

LEMMA NextAfterInv == ASSUME TypeOK, RequestInv, AfterInv, [Next]_vars PROVE AfterInv'
<1> SUFFICES ASSUME NEW q \in Requests, NEW r \in requests'[q].after PROVE status'[r] # "Pending"
  BY DEF AfterInv
<1>1. r \in Requests
  BY NextTypeOK DEF TypeOK, Request
<1>2. status[r] # "Pending"
  <2>1. ASSUME NEW request \in Request, Arrives(q, request) PROVE status[r] # "Pending"
    BY <2>1 DEF Arrives, Answered, TypeOK
  <2>2. CASE requests'[q].after = requests[q].after
    BY <2>2 DEF AfterInv
  <2> QED
    BY <2>1, <2>2, RequestSteps DEF Steady, Taken
<1> QED
  BY <1>1, <1>2, Settled DEF Steady

LEMMA NextCreateInv ==
  ASSUME TypeOK, RequestInv, CreateInv, [Next]_vars PROVE CreateInv'
<1> SUFFICES ASSUME NEW r \in Requests, pc'[r] = "create"
             PROVE  /\ \A s \in Spaces : builds'[requests'[r].build][s] = Absent
                    /\ \A q \in Requests \ {r} : requests'[q].op = "createBuild" =>
                          requests'[q].build # requests'[r].build
  BY DEF CreateInv
<1>1. ASSUME NEW request \in Request, Arrives(r, request) PROVE FALSE
  BY <1>1 DEF Arrives, Call, Reply, TypeOK
<1>2. ASSUME At(r, "fetchPackage"), UNCHANGED builds, NEW s \in Spaces, NEW b \in BuildGUIDs,
             Taken(r, s, b)
      PROVE  /\ \A t \in Spaces : builds'[requests'[r].build][t] = Absent
             /\ \A q \in Requests \ {r} : requests'[q].op = "createBuild" =>
                   requests'[q].build # requests'[r].build
  <2>1. \A t \in Spaces : builds'[requests'[r].build][t] = Absent
    BY <1>2 DEF Taken, Fresh
  <2>2. ASSUME NEW q \in Requests \ {r}, requests'[q].op = "createBuild"
        PROVE  requests'[q].build # b
    <3>1. pc'[q] = pc[q] /\ status'[q] = status[q]
      BY <1>2 DEF Taken, Call, TypeOK
    <3>2. ASSUME NEW request \in Request, Arrives(q, request) PROVE requests'[q].build # b
      BY <3>1, <3>2 DEF Arrives, Call, Reply, TypeOK
    <3>3. ASSUME At(q, "fetchPackage"), NEW t \in Spaces, NEW c \in BuildGUIDs, Taken(q, t, c)
          PROVE  requests'[q].build # b
      BY <3>1, <3>3 DEF At, Taken, Call, TypeOK
    <3>4. CASE Steady(q)
      BY <1>2, <2>2, <3>4 DEF Steady, Taken, Fresh
    <3> QED
      BY <3>2, <3>3, <3>4, RequestSteps
  <2> QED
    BY <1>2, <2>1, <2>2 DEF Taken
<1>3. CASE Steady(r)
  <2>1. pc[r] = "create" /\ requests[r].op = "createBuild" /\ requests'[r].build = requests[r].build
        /\ requests[r].build \in BuildGUIDs
    BY <1>3, BuildsAssumption DEF Steady, RequestInv, Holds
  <2>2. ASSUME NEW s \in Spaces PROVE builds'[requests[r].build][s] = Absent
    <3>1. builds[requests[r].build][s] = Absent
      BY <2>1 DEF CreateInv
    <3>2. BuildStep(requests[r].build, s)
      BY <2>1, BuildSteps
    <3>3. ~BuildCreated(requests[r].build, s)
      BY <2>1 DEF BuildCreated, CreateInv
    <3>4. \A t \in Spaces : ~Exists(builds[requests[r].build][t])
      BY <2>1 DEF CreateInv, Exists
    <3> QED
      BY <3>1, <3>2, <3>3, <3>4 DEF BuildStep, Exists
  <2>3. ASSUME NEW q \in Requests \ {r}, requests'[q].op = "createBuild"
        PROVE  requests'[q].build # requests[r].build
    <3>1. ASSUME NEW request \in Request, Arrives(q, request)
          PROVE  requests'[q].build # requests[r].build
      <4>1. requests'[q] = request
        BY <3>1 DEF Arrives, TypeOK
      <4> QED
        BY <2>1, <2>3, <3>1, <4>1, BuildsAssumption DEF Arrives
    <3>2. ASSUME NEW s \in Spaces, NEW b \in BuildGUIDs, Taken(q, s, b)
          PROVE  requests'[q].build # requests[r].build
      BY <2>1, <3>2 DEF Taken, Fresh
    <3>3. CASE Steady(q)
      BY <2>1, <2>3, <3>3 DEF Steady, CreateInv
    <3> QED
      BY <3>1, <3>2, <3>3, RequestSteps
  <2> QED
    BY <2>1, <2>2, <2>3
<1> QED
  BY <1>1, <1>2, <1>3, RequestSteps

LEMMA NextTakenInv ==
  ASSUME TypeOK, RequestInv, CreateInv, TakenInv, [Next]_vars PROVE TakenInv'
<1> DEFINE Ref(r) ==
              /\ packages'[requests'[r].package][requests'[r].space] # Absent
              /\ Exists(packages'[requests'[r].package][requests'[r].space]) =>
                    packages'[requests'[r].package][requests'[r].space] = requests'[r].app
              /\ \A s \in Spaces : Exists(builds'[requests'[r].build][s]) =>
                    builds'[requests'[r].build][s].app = requests'[r].app
<1> SUFFICES ASSUME NEW r \in Requests, requests'[r].op = "createBuild", requests'[r].space # None
             PROVE  Ref(r)
  BY DEF TakenInv
<1>1. ASSUME NEW request \in Request, Arrives(r, request) PROVE FALSE
  BY <1>1 DEF Arrives, TypeOK
<1>2. ASSUME UNCHANGED <<packages, builds>>, NEW s \in Spaces, NEW b \in BuildGUIDs, Taken(r, s, b)
      PROVE  Ref(r)
  <2>1. Exists(packages[requests[r].package][s]) /\ \A t \in Spaces : ~Exists(builds[b][t])
    BY <1>2 DEF Taken, FoundIn, Where, Fresh, Exists
  <2> QED
    BY <1>2, <2>1 DEF Taken, Exists
<1>3. CASE Steady(r)
  <2> DEFINE g == requests[r].package
             b == requests[r].build
             space == requests[r].space
             app == requests[r].app
  <2>1. /\ requests'[r].package = g /\ requests'[r].build = b /\ requests'[r].space = space
        /\ requests'[r].app = app /\ requests[r].op = "createBuild" /\ space # None
    BY <1>3 DEF Steady
  <2>2. g \in PackageGUIDs /\ b \in BuildGUIDs /\ space \in Spaces
    BY <2>1 DEF RequestInv, Holds
  <2>3. /\ packages[g][space] # Absent
        /\ Exists(packages[g][space]) => packages[g][space] = app
        /\ \A s \in Spaces : Exists(builds[b][s]) => builds[b][s].app = app
    BY <2>1 DEF TakenInv
  <2>4. packages'[g][space] # Absent
        /\ (Exists(packages'[g][space]) => packages'[g][space] = app)
    <3>1. packages'[g][space] = packages[g][space] \/ packages'[g][space] = Deleted
      BY <2>2, <2>3, PackageSteps
    <3> QED
      BY <2>3, <3>1, SlotAssumption DEF Exists
  <2>5. ASSUME NEW s \in Spaces, Exists(builds'[b][s]) PROVE builds'[b][s].app = app
    <3>1. CASE builds'[b][s] = builds[b][s]
      BY <2>3, <2>5, <3>1
    <3>2. CASE Exists(builds[b][s]) /\ BuildUpdated(b, s)
      <4>1. builds[b][s] \in Build /\ builds[b][s].app = app
        BY <2>2, <2>3, <3>2 DEF TypeOK, Exists
      <4>2. builds'[b][s].app = builds[b][s].app
        BY <3>2, <4>1 DEF BuildUpdated, Build
      <4> QED
        BY <4>1, <4>2
    <3>3. CASE BuildCreated(b, s)
      <4>1. PICK q \in Requests : /\ pc[q] = "create" /\ requests[q].op = "createBuild"
                                  /\ requests[q].build = b /\ builds'[b][s] = NewBuild(requests[q])
        BY <3>3 DEF BuildCreated
      <4>2. q = r
        BY <2>1, <4>1 DEF CreateInv
      <4> QED
        BY <4>1, <4>2 DEF NewBuild
    <3>4. ASSUME NEW t \in Spaces, Exists(builds[b][t]), builds'[b][s] = NewBuild(builds[b][t])
          PROVE  builds'[b][s].app = app
      BY <2>3, <3>4 DEF NewBuild
    <3> HIDE DEF b, app
    <3>5. BuildStep(b, s)
      BY <2>2, BuildSteps
    <3> QED
      BY <2>5, <3>1, <3>2, <3>3, <3>4, <3>5 DEF BuildStep, Exists
  <2> QED
    BY <2>1, <2>4, <2>5
<1> HIDE DEF Ref
<1> QED
  BY <1>1, <1>2, <1>3, RequestSteps

\* What a create took is what its build refers to.
LEMMA NextReferencesResolve == ASSUME RequestInv', TakenInv' PROVE ReferencesResolve'
<1> SUFFICES ASSUME NEW r \in Requests, requests'[r].op = "createBuild", requests'[r].space # None,
                    Exists(builds'[requests'[r].build][requests'[r].space])
             PROVE  LET b == requests'[r].build
                        s == requests'[r].space
                        g == requests'[r].package IN
                    /\ packages'[g][s] # Absent
                    /\ Exists(packages'[g][s]) => packages'[g][s] = builds'[b][s].app
  BY DEF ReferencesResolve
<1>1. requests'[r].space \in Spaces
  BY DEF RequestInv, Holds
<1> QED
  BY <1>1 DEF TakenInv

\* A build that was deleted stays deleted, and one that was shown stays as decided as it
\* was shown.
LEMMA DeletedStays ==
  ASSUME TypeOK, RequestInv, CreateInv, [Next]_vars, NEW b \in BuildGUIDs, NEW s \in Spaces,
         builds[b][s] = Deleted
  PROVE  builds'[b][s] = Deleted
<1>1. ~BuildCreated(b, s)
  BY SlotAssumption DEF BuildCreated, CreateInv
<1> QED
  BY <1>1, BuildSteps, SlotAssumption DEF BuildStep, Exists

LEMMA SeenStays ==
  ASSUME TypeOK, RequestInv, CreateInv, [Next]_vars, NEW b \in BuildGUIDs, NEW state,
         SeenIn(builds, b, state)
  PROVE  SeenIn(builds', b, state)
<1>1. PICK s \in Spaces : \/ builds[b][s] = Deleted
                          \/ Exists(builds[b][s]) /\ Shows(builds[b][s], state)
  BY DEF SeenIn
<1>2. CASE builds[b][s] = Deleted
  BY <1>2, DeletedStays DEF SeenIn
<1>3. CASE Exists(builds[b][s]) /\ Shows(builds[b][s], state)
  <2> DEFINE build == builds[b][s]
  <2>0. build \in Build
    BY <1>3 DEF TypeOK, Exists
  <2>1. ~BuildCreated(b, s)
    BY <1>3 DEF BuildCreated, CreateInv, Exists
  <2>2. CASE BuildUpdated(b, s)
    <3>1. ASSUME NEW staging \in BOOLEAN, NEW succeeded \in Conditions, ~Decided(build),
                 builds'[b][s] = [build EXCEPT !.staging = staging, !.succeeded = succeeded]
          PROVE  Exists(builds'[b][s]) /\ Shows(builds'[b][s], state)
      <4>0. [build EXCEPT !.staging = staging, !.succeeded = succeeded] \in Build
        <5> HIDE DEF build
        <5> QED
          BY <2>0, ConditionsSet
      <4>1. builds'[b][s] \in Build
        BY <3>1, <4>0
      <4>2. state \notin {"STAGED", "FAILED"}
        BY <1>3, <3>1 DEF Shows, IsDroplet, Decided
      <4> QED
        BY <4>1, <4>2, BuildsAssumption DEF Exists, Shows
    <3>2. ASSUME builds'[b][s] = [build EXCEPT !.droplet = TRUE]
          PROVE  Exists(builds'[b][s]) /\ Shows(builds'[b][s], state)
      <4>1. builds'[b][s] \in Build
        BY <2>0, <3>2, DropletSet
      <4>2. builds'[b][s].staging = build.staging /\ builds'[b][s].succeeded = build.succeeded
        BY <2>0, <3>2 DEF Build
      <4> QED
        BY <1>3, <4>1, <4>2, BuildsAssumption DEF Exists, Shows, IsDroplet
    <3> QED
      BY <2>2, <3>1, <3>2 DEF BuildUpdated, SeenIn
  <2>3. BuildStep(b, s)
    BY BuildSteps
  <2> QED
    BY <1>3, <2>1, <2>2, <2>3 DEF BuildStep, Exists, SeenIn
<1> QED
  BY <1>1, <1>2, <1>3

\* What a request is shown now is what the build is, wherever it was found; only the
\* build that was just created is shown before it can be found.
ShowsNow(q) ==
    LET b == requests[q].build IN
    /\ status[q] = "Pending" /\ status'[q] \in {"OK", "Created"}
    /\ \/ /\ pc[q] = "create" /\ requests'[q].shown = "STAGING"
          /\ \E s \in Spaces : Exists(builds'[b][s])
       \/ /\ pc[q] \in {"fetchBuild", "fetchDroplet"} /\ UNCHANGED builds
          /\ \E s \in Spaces : /\ FoundIn(builds, b, s)
                               /\ Shows(builds[b][s], requests'[q].shown)
                               /\ Decided(builds[b][s]) => requests'[q].shown \in Decisions

LEMMA ShownNow ==
  ASSUME TypeOK, RequestInv, [Next]_vars, NEW q \in Requests, Steady(q),
         requests'[q].shown # requests[q].shown
  PROVE  ShowsNow(q)
<1> USE DEF TypeOK
<1> DEFINE b == requests[q].build
<1>1. ~Kept(q) /\ ~(\E request \in Request : Arrives(q, request))
  BY BuildsAssumption DEF Kept, Arrives, Steady, RequestInv, Holds, NoRequest
<1>2. CASE CreateBuild(q)
  <2>1. /\ b \in BuildGUIDs /\ requests[q].space \in Spaces
        /\ requests[q].app \in AppGUIDs /\ requests[q].package \in PackageGUIDs
        /\ pc[q] = "create"
    BY <1>2, BuildsAssumption DEF CreateBuild, RequestInv, Holds
  <2>2. Pending(q) /\ requests'[q].shown = BuildState(NewBuild(requests[q]))
    <3>1. requests'[q].shown = IF Pending(q) THEN BuildState(NewBuild(requests[q]))
                               ELSE requests[q].shown
      BY <1>2 DEF CreateBuild, Request
    <3> QED
      BY <3>1
  <2>3. BuildState(NewBuild(requests[q])) = "STAGING"
    BY DEF BuildState, NewBuild
  <2>4. NewBuild(requests[q]) \in Build
    BY <2>1, BuildIs
  <2>5. builds'[b][requests[q].space] = NewBuild(requests[q])
    BY <1>2, <2>1 DEF CreateBuild
  <2>6. status'[q] = "Created"
    BY <1>2, <2>2 DEF CreateBuild, Landed, Reply
  <2> QED
    BY <2>1, <2>2, <2>3, <2>4, <2>5, <2>6, BuildsAssumption DEF ShowsNow, Exists, Pending
<1>3. ASSUME NEW s \in Spaces, NEW state, pc[q] \in {"fetchBuild", "fetchDroplet"}, Pending(q),
             UNCHANGED builds, FoundIn(builds, b, s), Show(q, state), Shows(builds[b][s], state),
             Decided(builds[b][s]) => state \in Decisions
      PROVE  ShowsNow(q)
  <2>1. requests'[q].shown = state /\ status'[q] = "OK"
    BY <1>3 DEF Show, Reply, Request
  <2> QED
    BY <1>3, <2>1 DEF ShowsNow, Pending
<1>4. CASE FetchBuild(q)
  <2>1. b \in BuildGUIDs
    BY <1>4 DEF FetchBuild, At, RequestInv, Holds
  <2>2. PICK s \in Spaces : FoundIn(builds, b, s) /\ Show(q, BuildState(builds[b][s]))
    BY <1>4 DEF FetchBuild
  <2>3. builds[b][s] \in Build
    BY <2>1, <2>2 DEF FoundIn, Where, Exists
  <2>4. Shows(builds[b][s], BuildState(builds[b][s]))
        /\ (Decided(builds[b][s]) => BuildState(builds[b][s]) \in Decisions)
    BY <2>3 DEF Build, Conditions, BuildState, Shows, Decided, Decisions, IsDroplet
  <2> QED
    BY <1>3, <1>4, <2>2, <2>4 DEF FetchBuild, At
<1>5. CASE FetchDroplet(q)
  <2>1. PICK s \in Spaces : FoundIn(builds, b, s) /\ IsDroplet(builds[b][s]) /\ Show(q, "STAGED")
    BY <1>5 DEF FetchDroplet
  <2>2. Shows(builds[b][s], "STAGED")
    BY <2>1 DEF Shows
  <2> QED
    BY <1>3, <1>5, <2>1, <2>2 DEF FetchDroplet, At, Decisions
<1>6. CASE FetchPackage(q)
  BY <1>6, PackageFetched DEF Taken
<1>7. CASE UNCHANGED requests
  BY <1>7
<1> HIDE DEF TypeOK
<1> QED
  BY <1>1, <1>2, <1>4, <1>5, <1>6, <1>7, Moves
     DEF Moved, HandlerStep, ReadFails, RefuseWrite, LoseAnswer, Crash

LEMMA NextSeenInv ==
  ASSUME TypeOK, RequestInv, CreateInv, SeenInv, [Next]_vars PROVE SeenInv'
<1> SUFFICES ASSUME NEW r \in Requests, requests'[r].shown # None
             PROVE  /\ status'[r] # "Pending" /\ requests'[r].build \in BuildGUIDs
                    /\ SeenIn(builds', requests'[r].build, requests'[r].shown)
  BY DEF SeenInv, SeenIn, Shows
<1>1. ASSUME NEW request \in Request, Arrives(r, request) PROVE FALSE
  BY <1>1 DEF Arrives, TypeOK
<1>2. ASSUME At(r, "fetchPackage"), NEW s \in Spaces, NEW b \in BuildGUIDs, Taken(r, s, b)
      PROVE  FALSE
  BY <1>2 DEF At, Taken, RequestInv, Holds
<1>3. CASE Steady(r)
  <2>1. requests'[r].build = requests[r].build
    BY <1>3 DEF Steady
  <2>2. CASE requests'[r].shown = requests[r].shown
    <3>1. status[r] # "Pending" /\ requests[r].build \in BuildGUIDs
          /\ SeenIn(builds, requests[r].build, requests[r].shown)
      BY <2>2 DEF SeenInv
    <3> QED
      BY <1>3, <2>1, <2>2, <3>1, SeenStays DEF Steady
  <2>3. CASE requests'[r].shown # requests[r].shown
    <3>1. ShowsNow(r)
      BY <1>3, <2>3, ShownNow
    <3>2. requests[r].build \in BuildGUIDs
      BY <3>1, BuildsAssumption DEF ShowsNow, RequestInv, Holds
    <3> QED
      BY <2>1, <3>1, <3>2 DEF ShowsNow, SeenIn, FoundIn, Where, Shows
  <2> QED
    BY <2>2, <2>3
<1> QED
  BY <1>1, <1>2, <1>3, RequestSteps

\* Whoever saw a build before had its answer, and keeps it.
LEMMA SawStays ==
  ASSUME TypeOK, RequestInv, AfterInv, [Next]_vars, NEW r \in Requests, NEW q \in Requests,
         Steady(q), SawBefore(r, q)'
  PROVE  /\ SawBefore(r, q)
         /\ requests'[r].shown = requests[r].shown /\ requests'[q].build = requests[q].build
<1>1. r \in requests[q].after
  BY DEF Steady, SawBefore
<1>2. Steady(r) /\ status[r] # "Pending"
  BY <1>1, Settled DEF AfterInv
<1> QED
  BY <1>1, <1>2 DEF Steady, SawBefore

\* A request that saw something before is neither new nor about to create.
LEMMA SawIsSteady ==
  ASSUME TypeOK, RequestInv, AfterInv, [Next]_vars, NEW r \in Requests, NEW q \in Requests,
         requests'[q].shown # None \/ status'[q] = "ResourceNotFound"
  PROVE  Steady(q)
<1>1. ASSUME NEW request \in Request, Arrives(q, request) PROVE FALSE
  <2>1. requests'[q] = request /\ status[q] = "Pending"
    BY <1>1 DEF Arrives, TypeOK, RequestInv, Holds
  <2>2. status'[q] \in {"Pending", "UnknownError"} \cup PayloadErrors
    BY <1>1, <2>1 DEF Arrives, Call, Reply, TypeOK
  <2> QED
    BY <1>1, <2>1, <2>2 DEF Arrives, PayloadErrors
<1>2. ASSUME At(q, "fetchPackage"), NEW s \in Spaces, NEW b \in BuildGUIDs, Taken(q, s, b)
      PROVE  FALSE
  BY <1>2 DEF At, Pending, Taken, Call, RequestInv, Holds
<1> QED
  BY <1>1, <1>2, RequestSteps

LEMMA WasDeletedStays ==
  ASSUME TypeOK, RequestInv, CreateInv, [Next]_vars, NEW b \in BuildGUIDs, WasDeleted(b)
  PROVE  \E s \in Spaces : builds'[b][s] = Deleted
  BY DeletedStays DEF WasDeleted

\* A build is not found when no slot holds it, or when it is asked for as a droplet and is none.
LEMMA NotFoundNow ==
  ASSUME TypeOK, RequestInv, [Next]_vars, NEW q \in Requests, Steady(q),
         status'[q] = "ResourceNotFound", status[q] # "ResourceNotFound"
  PROVE  /\ UNCHANGED <<builds, requests>>
         /\ \/ NotFound(builds, requests[q].build)
            \/ /\ requests[q].op = "getDroplet"
               /\ \E s \in Spaces : /\ FoundIn(builds, requests[q].build, s)
                                    /\ ~IsDroplet(builds[requests[q].build][s])
<1> USE DEF TypeOK
<1>1. ~Kept(q) /\ ~(\E request \in Request : Arrives(q, request))
  <2>1. ASSUME NEW request \in Request, Arrives(q, request) PROVE FALSE
    <3>1. requests'[q].after = Answered /\ status[q] = "Pending"
      BY <2>1 DEF Arrives, RequestInv, Holds
    <3> QED
      BY <2>1, <3>1 DEF Arrives, Call, Reply, PayloadErrors
  <2> QED
    BY <2>1 DEF Kept
<1>2. CASE FetchBuild(q)
  BY <1>2 DEF FetchBuild, Show, Reply
<1>3. CASE FetchDroplet(q)
  BY <1>3 DEF FetchDroplet, Show, Reply, At, RequestInv, Holds
<1>4. CASE FetchPackage(q)
  BY <1>4, PackageFetched DEF Taken, Call, Reply
<1>5. CASE CreateBuild(q) \/ RefuseWrite(q) \/ LoseAnswer(q)
  BY <1>5 DEF CreateBuild, RefuseWrite, LoseAnswer, Landed, AnswerLost, Reply
<1>6. CASE \E p \in PCs : ReadFails(q, p)
  BY <1>6 DEF ReadFails, Reply
<1>7. CASE Crash
  BY <1>7 DEF Crash, Crashed
<1> HIDE DEF TypeOK
<1> QED
  BY <1>1, <1>2, <1>3, <1>4, <1>5, <1>6, <1>7, Moves DEF Moved, HandlerStep, PCs

LEMMA NextNotFoundIsDeleted ==
  ASSUME TypeOK, RequestInv, CreateInv, SeenInv, AfterInv, NotFoundIsDeleted, [Next]_vars
  PROVE  NotFoundIsDeleted'
<1> SUFFICES ASSUME NEW r \in Requests, NEW q \in Requests, SawBefore(r, q)',
                    status'[q] = "ResourceNotFound",
                    requests'[q].op = "getDroplet" => requests'[r].shown = "STAGED"
             PROVE  \E s \in Spaces : builds'[requests'[q].build][s] = Deleted
  BY DEF NotFoundIsDeleted, WasDeleted
<1> DEFINE b == requests[q].build
<1>1. Steady(q)
  BY SawIsSteady
<1>2. /\ SawBefore(r, q) /\ requests'[r].shown = requests[r].shown /\ requests'[q].build = b
      /\ requests'[q].op = requests[q].op
  BY <1>1, SawStays DEF Steady
<1>3. b \in BuildGUIDs /\ SeenIn(builds, b, requests[r].shown)
  BY <1>2 DEF SeenInv, SawBefore
<1>4. CASE status[q] = "ResourceNotFound"
  BY <1>2, <1>3, <1>4, WasDeletedStays DEF NotFoundIsDeleted
<1>5. CASE status[q] # "ResourceNotFound"
  <2>1. /\ UNCHANGED builds
        /\ \/ NotFound(builds, b)
           \/ /\ requests[q].op = "getDroplet"
              /\ \E s \in Spaces : FoundIn(builds, b, s) /\ ~IsDroplet(builds[b][s])
    BY <1>1, <1>5, NotFoundNow
  <2>2. PICK t \in Spaces : \/ builds[b][t] = Deleted
                            \/ Exists(builds[b][t]) /\ Shows(builds[b][t], requests[r].shown)
    BY <1>3 DEF SeenIn
  <2> QED
    BY <1>2, <2>1, <2>2 DEF NotFound, FoundIn, Where, Shows
<1> QED
  BY <1>4, <1>5

LEMMA NextOutcomeStays ==
  ASSUME TypeOK, RequestInv, CreateInv, SeenInv, AfterInv, OutcomeStays, [Next]_vars
  PROVE  OutcomeStays'
<1> SUFFICES ASSUME NEW r \in Requests, NEW q \in Requests, SawBefore(r, q)',
                    requests'[r].shown \in Decisions, requests'[q].shown # None,
                    requests'[q].shown # requests'[r].shown
             PROVE  \E s \in Spaces : builds'[requests'[q].build][s] = Deleted
  BY DEF OutcomeStays, WasDeleted, Decisions
<1> DEFINE b == requests[q].build
           state == requests[r].shown
<1>1. Steady(q)
  BY SawIsSteady
<1>2. SawBefore(r, q) /\ requests'[r].shown = state /\ requests'[q].build = b
  BY <1>1, SawStays
<1>3. b \in BuildGUIDs /\ SeenIn(builds, b, state)
  BY <1>2 DEF SeenInv, SawBefore
<1>4. CASE requests'[q].shown = requests[q].shown
  BY <1>2, <1>3, <1>4, WasDeletedStays DEF OutcomeStays, Decisions
<1>5. CASE requests'[q].shown # requests[q].shown
  <2>1. ShowsNow(q)
    BY <1>1, <1>5, ShownNow
  <2>2. PICK t \in Spaces : \/ builds[b][t] = Deleted
                            \/ Exists(builds[b][t]) /\ Shows(builds[b][t], state)
    BY <1>3 DEF SeenIn
  <2>3. pc[q] # "create"
    BY <2>2, SlotAssumption DEF CreateInv, Exists
  <2>4. PICK s \in Spaces : /\ FoundIn(builds, b, s) /\ Shows(builds[b][s], requests'[q].shown)
                            /\ Decided(builds[b][s]) => requests'[q].shown \in Decisions
    BY <2>1, <2>3 DEF ShowsNow
  <2>5. CASE builds[b][t] = Deleted
    BY <1>2, <2>1, <2>3, <2>5 DEF ShowsNow
  <2>6. CASE Exists(builds[b][t]) /\ Shows(builds[b][t], state)
    <3>1. t = s
      BY <2>4, <2>6 DEF FoundIn, Where
    <3>2. state \in Decisions /\ requests'[q].shown # state
      BY <1>2
    <3> HIDE DEF b, state
    <3> QED
      BY <2>4, <2>6, <3>1, <3>2 DEF Shows, IsDroplet, Decided, Decisions
  <2> QED
    BY <2>2, <2>5, <2>6
<1> QED
  BY <1>4, <1>5

LEMMA NextIInv == IInv /\ [Next]_vars => IInv'
<1> SUFFICES ASSUME IInv, [Next]_vars PROVE IInv'
  OBVIOUS
<1> USE DEF IInv
<1>1. TypeOK' /\ RequestInv'
  BY NextTypeOK, NextRequestInv
<1>2. CreateInv' /\ TakenInv'
  BY NextCreateInv, NextTakenInv
<1>3. SeenInv' /\ AfterInv'
  BY NextSeenInv, NextAfterInv
<1>4. ReferencesResolve'
  BY <1>1, <1>2, NextReferencesResolve
<1>5. NotFoundIsDeleted' /\ OutcomeStays'
  BY NextNotFoundIsDeleted, NextOutcomeStays
<1> QED
  BY <1>1, <1>2, <1>3, <1>4, <1>5
-----------------------------------------------------------------------------
(***************************************************************************)
(* Theorems                                                                *)
(***************************************************************************)
\* The inductive invariant holds of every behaviour.
THEOREM Invariance == Spec => []IInv
  BY InitIInv, NextIInv, PTL DEF Spec

\* What the handlers hold and what the cluster stores is always of its type: a build is
\* only ever written with an app, a package and both conditions.
THEOREM Typing == Spec => []TypeOK
  BY Invariance, PTL DEF IInv

\* A build that a create wrote refers to a package of its own namespace that is there, or
\* was there, and is of the app the build names.
THEOREM ReferencesSafety == Spec => []ReferencesResolve
  BY Invariance, PTL DEF IInv

\* Whoever was shown a build is not answered 404 for it later, nor for the droplet of one
\* shown as STAGED, unless it was deleted.
THEOREM NotFoundSafety == Spec => []NotFoundIsDeleted
  BY Invariance, PTL DEF IInv

\* A client that was shown STAGED or FAILED is never shown anything else of that build,
\* unless it was deleted.
THEOREM OutcomeSafety == Spec => []OutcomeStays
  BY Invariance, PTL DEF IInv
=============================================================================
