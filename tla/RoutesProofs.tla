---------------------------- MODULE RoutesProofs ----------------------------
(* Proofs about Routes, for any number of requests, routes and domains.    *)
EXTENDS Routes, TLAPS

-----------------------------------------------------------------------------
(***************************************************************************)
(* The inductive invariant                                                 *)
(***************************************************************************)

\* The calls of each kind of request, and those before it has found anything.
Calls(op) ==
    CASE op = "createRoute" -> {"namespace", "fetchDomain", "create"}
      [] op = "getRoute" -> {"fetchRoute", "fetchDomains"}
      [] op = "listRoutes" -> {"listRoutes", "fetchDomains"}
      [] op = "listAppRoutes" -> {"fetchApp", "listAppRoutes", "fetchDomains"}

Looking == {"idle", "namespace", "fetchDomain", "fetchRoute", "listRoutes", "fetchApp",
            "listAppRoutes"}

\* What a handler holds at each of its calls.
Holds(r) ==
    /\ pc[r] = "idle" => requests[r] = NoRequest /\ status[r] = "Pending"
    /\ pc[r] # "idle" => requests[r].op \in Ops
    /\ pc[r] \notin {"idle", "done"} => pc[r] \in Calls(requests[r].op)
    /\ requests[r].op = "createRoute" =>
          /\ requests[r].space \in Spaces /\ requests[r].domain \in DomainGUIDs
          /\ requests[r].todo = {}
    /\ requests[r].op = "getRoute" => requests[r].guid \in RouteGUIDs
    /\ requests[r].op = "listAppRoutes" => requests[r].app \in AppGUIDs
    /\ pc[r] = "listAppRoutes" => requests[r].space \in Spaces
    /\ pc[r] = "create" => requests[r].guid \in RouteGUIDs
    /\ pc[r] \in Looking => requests[r].todo = {} /\ requests[r].shown = {}
    /\ (pc[r] # "done" /\ ~Pending(r)) =>
          pc[r] = "create" /\ status[r] \in {"UnknownError", "ConnectionLost"}

RequestInv == \A r \in Requests : Holds(r)

\* A create about to write found its domain, and carries a name that no route and no
\* other create has.
CreateInv ==
    \A r \in Requests : pc[r] = "create" =>
        /\ domains[requests[r].domain] # Absent
        /\ \A s \in Spaces : routes[requests[r].guid][s] = Absent
        /\ \A q \in Requests \ {r} : requests[q].op = "createRoute" =>
              requests[q].guid # requests[r].guid

\* A domain whose name is shown is not fetched again.
TodoInv ==
    \A r \in Requests : \A f \in requests[r].shown, record \in requests[r].todo :
        f.route.domain # record.domain

\* The routes that are listed for an app are of the one namespace it was found in.
SpaceInv ==
    \A r \in Requests : requests[r].op = "listAppRoutes" =>
        /\ \A record \in requests[r].todo : record.space = requests[r].space
        /\ \A f \in requests[r].shown : f.route.space = requests[r].space

\* Every name that is shown, and every name that a domain has, was observed.
NamesInv ==
    \A r \in Requests :
        /\ InFlight(r) => NamesNow \subseteq history[r].names
        /\ \A f \in requests[r].shown : <<f.route.domain, f.name>> \in history[r].names

\* The routes that were there all the time will be listed, or were.
StableInv ==
    \A r \in Requests : InFlight(r) =>
        /\ requests[r].op \in {"createRoute", "getRoute"} => history[r].stable = {}
        /\ pc[r] \in {"listRoutes", "fetchApp"} =>
              history[r].stable \subseteq Listable(requests[r])
        /\ pc[r] = "listAppRoutes" =>
              history[r].stable \subseteq RoutesOfApp(requests[r].app, requests[r].space)
        /\ pc[r] = "fetchDomains" =>
              history[r].stable \subseteq
                  requests[r].todo \cup {f.route : f \in requests[r].shown}

IInv == /\ TypeOK /\ RequestInv /\ CreateInv /\ TodoInv /\ SpaceInv /\ NamesInv /\ StableInv
        /\ OneNamePerDomain /\ AnswerIsTimely /\ DomainWasThere
-----------------------------------------------------------------------------
(***************************************************************************)
(* Records, and initial states                                             *)
(***************************************************************************)
LEMMA RecordsAreFound ==
  ASSUME TypeOK
  PROVE  /\ AllRoutes \subseteq Found
         /\ \A g \in RouteGUIDs, s \in Spaces : Exists(routes[g][s]) => RouteRecord(g, s) \in Found
         /\ \A a, s : RoutesOfApp(a, s) \subseteq Found
<1>1. ASSUME NEW g \in RouteGUIDs, NEW s \in Spaces, Exists(routes[g][s])
      PROVE  RouteRecord(g, s) \in Found
  <2>1. routes[g][s] \in Route
    BY <1>1 DEF TypeOK, Exists
  <2> QED
    BY <2>1 DEF Route, RouteRecord, Found
<1>2. AllRoutes \subseteq Found
  BY <1>1 DEF AllRoutes
<1> QED
  BY <1>1, <1>2 DEF RoutesOfApp

LEMMA ListableIsFound ==
  ASSUME TypeOK, NEW request, request.op \in Ops PROVE Listable(request) \subseteq Found
<1>1. CASE request.op = "listRoutes"
  BY <1>1, RecordsAreFound DEF Listable
<1>2. CASE request.op = "listAppRoutes"
  BY <1>2, RecordsAreFound DEF Listable
<1>3. CASE request.op \notin {"listRoutes", "listAppRoutes"}
  BY <1>3 DEF Listable
<1> QED
  BY <1>1, <1>2, <1>3

LEMMA NamesAreNames == ASSUME TypeOK PROVE NamesNow \subseteq DomainGUIDs \X Names
  BY DEF TypeOK, NamesNow, Exists

LEMMA InitIInv == Init => IInv
<1> SUFFICES ASSUME Init PROVE IInv
  OBVIOUS
<1>1. PICK there \in [RouteGUIDs -> [space : Spaces, route : Route] \cup {Absent}] :
         /\ \A g \in RouteGUIDs : there[g] # Absent => domains[there[g].route.domain] # Absent
         /\ routes = [g \in RouteGUIDs |-> [s \in Spaces |->
                IF there[g] # Absent /\ there[g].space = s THEN there[g].route ELSE Absent]]
  BY DEF Init
<1>2. \A g \in RouteGUIDs : there[g] # Absent => there[g].route \in Route
  OBVIOUS
<1>3. routes \in [RouteGUIDs -> [Spaces -> Route \cup {Absent, Deleted}]]
  BY <1>1, <1>2
<1>4. /\ requests = [r \in Requests |-> NoRequest]
      /\ history = [r \in Requests |-> [stable |-> {}, names |-> {}]]
      /\ pc = [r \in Requests |-> "idle"]
      /\ status = [r \in Requests |-> "Pending"]
  BY DEF Init
<1>5. TypeOK
  <2>1. spaces \subseteq Spaces /\ domains \in [DomainGUIDs -> Names \cup {Absent, Deleted}]
    BY DEF Init
  <2>2. appSpaces \in [AppGUIDs -> SUBSET Spaces]
    BY DEF Init
  <2>3. NoRequest \in Request
    BY DEF NoRequest, Request
  <2> QED
    BY <1>3, <1>4, <2>1, <2>2, <2>3 DEF TypeOK, PCs, Statuses
<1>6. NoRequest.op \notin Ops /\ NoRequest.shown = {} /\ NoRequest.todo = {}
  BY RoutesAssumption DEF NoRequest
<1>7. RequestInv /\ CreateInv
  BY <1>4, <1>6 DEF RequestInv, Holds, Pending, CreateInv, Ops
<1>8. TodoInv /\ SpaceInv /\ NamesInv /\ StableInv
  BY <1>4, <1>6 DEF TodoInv, SpaceInv, NamesInv, StableInv, InFlight, Arrived
<1>9. OneNamePerDomain /\ AnswerIsTimely
  BY <1>4, <1>6 DEF OneNamePerDomain, AnswerIsTimely, Answer
<1>10. DomainWasThere
  BY <1>1 DEF DomainWasThere, Exists
<1> QED
  BY <1>5, <1>7, <1>8, <1>9, <1>10 DEF IInv
-----------------------------------------------------------------------------
(***************************************************************************)
(* What one step does to one request                                       *)
(***************************************************************************)
Received(q) ==
    \/ \E s \in Spaces, d \in DomainGUIDs : ReceiveCreate(q, s, d)
    \/ \E g \in RouteGUIDs : ReceiveGet(q, g)
    \/ ReceiveList(q)
    \/ \E a \in AppGUIDs : ReceiveListOfApp(q, a)

FirstCall(op) ==
    CASE op = "createRoute" -> "namespace"
      [] op = "getRoute" -> "fetchRoute"
      [] op = "listRoutes" -> "listRoutes"
      [] op = "listAppRoutes" -> "fetchApp"

\* q arrives with this request.
Arrives(q, request) ==
    /\ pc[q] = "idle" /\ UNCHANGED cluster
    /\ requests' = [requests EXCEPT ![q] = request]
    /\ history' = [history EXCEPT ![q] = [stable |-> Listable(request), names |-> NamesNow]]
    /\ request.op \in Ops /\ request.todo = {} /\ request.shown = {}
    /\ request.guid # None => request.op = "getRoute"
    /\ request.op = "createRoute" => request.space \in Spaces /\ request.domain \in DomainGUIDs
    /\ request.op = "getRoute" => request.guid \in RouteGUIDs
    /\ request.op = "listAppRoutes" => request.app \in AppGUIDs
    /\ \/ Call(q, FirstCall(request.op))
       \/ \E error \in PayloadErrors \cup {"UnknownError"} : Reply(q, error)

LEMMA Arrival ==
  ASSUME TypeOK, NEW q \in Requests, Received(q)
  PROVE  \E request \in Request : Arrives(q, request)
<1>1. ASSUME NEW s \in Spaces, NEW d \in DomainGUIDs, ReceiveCreate(q, s, d)
      PROVE  \E request \in Request : Arrives(q, request)
  <2> DEFINE request == [NoRequest EXCEPT !.op = "createRoute", !.space = s, !.domain = d]
  <2>1. /\ request \in Request /\ request.op = "createRoute" /\ request.space = s
        /\ request.domain = d /\ request.todo = {} /\ request.shown = {} /\ request.guid = None
    BY DEF NoRequest, Request, Ops
  <2>2. Receive(q, "namespace", PayloadErrors \cup {"UnknownError"}, request)
    BY <1>1 DEF ReceiveCreate
  <2> HIDE DEF request
  <2> QED
    BY <2>1, <2>2 DEF Receive, Arrives, FirstCall, Ops
<1>2. ASSUME NEW g \in RouteGUIDs, ReceiveGet(q, g)
      PROVE  \E request \in Request : Arrives(q, request)
  <2> DEFINE request == [NoRequest EXCEPT !.op = "getRoute", !.guid = g]
  <2>1. /\ request \in Request /\ request.op = "getRoute" /\ request.guid = g
        /\ request.todo = {} /\ request.shown = {}
    BY DEF NoRequest, Request, Ops
  <2>2. Receive(q, "fetchRoute", {"UnknownError"}, request)
    BY <1>2 DEF ReceiveGet
  <2> HIDE DEF request
  <2> QED
    BY <2>1, <2>2 DEF Receive, Arrives, FirstCall, Ops
<1>3. CASE ReceiveList(q)
  <2> DEFINE request == [NoRequest EXCEPT !.op = "listRoutes"]
  <2>1. /\ request \in Request /\ request.op = "listRoutes"
        /\ request.todo = {} /\ request.shown = {} /\ request.guid = None
    BY DEF NoRequest, Request, Ops
  <2>2. Receive(q, "listRoutes", {"UnknownError"}, request)
    BY <1>3 DEF ReceiveList
  <2> HIDE DEF request
  <2> QED
    BY <2>1, <2>2 DEF Receive, Arrives, FirstCall, Ops
<1>4. ASSUME NEW a \in AppGUIDs, ReceiveListOfApp(q, a)
      PROVE  \E request \in Request : Arrives(q, request)
  <2> DEFINE request == [NoRequest EXCEPT !.op = "listAppRoutes", !.app = a]
  <2>1. /\ request \in Request /\ request.op = "listAppRoutes" /\ request.app = a
        /\ request.todo = {} /\ request.shown = {} /\ request.guid = None
    BY DEF NoRequest, Request, Ops
  <2>2. Receive(q, "fetchApp", {"UnknownError"}, request)
    BY <1>4 DEF ReceiveListOfApp
  <2> HIDE DEF request
  <2> QED
    BY <2>1, <2>2 DEF Receive, Arrives, FirstCall, Ops
<1> QED
  BY <1>1, <1>2, <1>3, <1>4 DEF Received

\* The cluster stays what it is but for the route that a create writes.
Calm == /\ UNCHANGED <<spaces, appSpaces, domains>>
        /\ UNCHANGED routes \/ \E p \in Requests : CreateRoute(p)

\* Someone else changes the cluster.
Outside == Observed /\ UNCHANGED <<requests, pc, status>>

Kept(q) ==
    /\ pc'[q] = pc[q] /\ status'[q] = status[q]
    /\ requests'[q] = requests[q] /\ history'[q] = history[q]

Moved(q) ==
    \/ Calm /\ (Kept(q) \/ HandlerStep(q))
    \/ Crash \/ Outside
    \/ \E request \in Request : Arrives(q, request)

LEMMA Moves ==
  ASSUME TypeOK, [Next]_vars, NEW q \in Requests PROVE Moved(q)
<1> USE DEF TypeOK, Moved
<1>1. ASSUME NEW r \in Requests, Received(r) PROVE Moved(q)
  <2>1. PICK request \in Request : Arrives(r, request)
    BY <1>1, Arrival
  <2>2. CASE q = r
    BY <2>1, <2>2
  <2>3. CASE q # r
    BY <2>1, <2>3 DEF Arrives, Call, Reply, Kept, Calm, cluster
  <2> QED
    BY <2>2, <2>3
<1>2. ASSUME NEW r \in Requests, HandlerStep(r) PROVE Moved(q)
  <2>1. Calm
    <3>1. CASE CreateRoute(r)
      BY <3>1 DEF CreateRoute, Calm
    <3> HIDE DEF TypeOK, Moved
    <3>2. CASE ~CreateRoute(r)
      BY <1>2, <3>2 DEF HandlerStep, FetchNamespace, ReadFails, FetchDomain, FetchApp, FetchRoute,
         ListRoutes, ListAppRoutes, FoundRoutes, FetchDomainOfRoutes, RefuseWrite, LoseAnswer,
         Calm, cluster
    <3> QED
      BY <3>1, <3>2
  <2>2. ASSUME q # r PROVE Kept(q)
    <3> USE <2>2 DEF Kept, Call, Reply
    <3>1. CASE FetchNamespace(r) \/ \E p \in PCs : ReadFails(r, p)
      BY <3>1 DEF FetchNamespace, ReadFails
    <3>2. CASE FetchDomain(r)
      BY <3>2 DEF FetchDomain
    <3>3. CASE CreateRoute(r) \/ RefuseWrite(r) \/ LoseAnswer(r)
      BY <3>3 DEF CreateRoute, RefuseWrite, LoseAnswer, Landed, AnswerLost
    <3>4. CASE FetchApp(r)
      BY <3>4 DEF FetchApp
    <3>5. CASE FetchRoute(r) \/ ListRoutes(r) \/ ListAppRoutes(r)
      BY <3>5 DEF FetchRoute, ListRoutes, ListAppRoutes, FoundRoutes
    <3>6. CASE FetchDomainOfRoutes(r)
      BY <3>6 DEF FetchDomainOfRoutes, DomainMissing
    <3> HIDE DEF TypeOK, Moved, Kept
    <3> QED
      BY <1>2, <3>1, <3>2, <3>3, <3>4, <3>5, <3>6 DEF HandlerStep, PCs
  <2> QED
    BY <1>2, <2>1, <2>2
<1>3. CASE UNCHANGED vars
  BY <1>3 DEF vars, cluster, Kept, Calm
<1>4. CASE Outside
  BY <1>4
<1> HIDE DEF TypeOK, Moved
<1>5. ASSUME NEW d \in DomainGUIDs, (\E n \in Names : DomainSet(d, n)) \/ DomainDeleted(d)
      PROVE  Outside
  BY <1>5 DEF DomainSet, DomainDeleted, Outside
<1>6. ASSUME NEW g \in RouteGUIDs, NEW s \in Spaces,
             \/ \E apps \in SUBSET AppGUIDs : DestinationsSet(g, s, apps)
             \/ RouteDeleted(g, s)
             \/ \E d \in DomainGUIDs : RouteCreated(g, s, d)
             \/ \E t \in Spaces : RouteCopied(g, s, t)
      PROVE  Outside
  BY <1>6 DEF DestinationsSet, RouteDeleted, RouteCreated, RouteCopied, Outside
<1>7. ASSUME NEW s \in Spaces, (\E a \in AppGUIDs : AppChanges(a, s)) \/ SpaceDeleted(s)
      PROVE  Outside
  BY <1>7 DEF AppChanges, SpaceDeleted, Outside
<1>8. CASE Crash
  BY <1>8 DEF Moved
<1> QED
  BY <1>1, <1>2, <1>3, <1>4, <1>5, <1>6, <1>7, <1>8 DEF Next, Quiescent, Received

\* q goes on without looking at what it found: its call failed, was a write, or found
\* what it had to find.
Waits(q) ==
    /\ requests'[q] = requests[q] /\ history'[q] = history[q]
    /\ \/ pc'[q] = pc[q]
       \/ pc'[q] = "done" /\ pc[q] # "idle"
       \/ pc[q] = "namespace" /\ pc'[q] = "fetchDomain" /\ status'[q] = "Pending"
    /\ status'[q] = status[q] \/ InFlight(q)
    /\ (status'[q] # status[q] /\ pc'[q] # "done") =>
          pc[q] = "create" /\ status'[q] \in {"UnknownError", "ConnectionLost"}
    /\ status'[q] = "OK" => status[q] = "OK" \/ pc[q] = "create"

SameKind(x, y) == x.op = y.op /\ x.domain = y.domain /\ x.app = y.app

\* The domain of the new route was found.
Named(q, x) ==
    LET d == requests[q].domain IN
    /\ At(q, "fetchDomain") /\ Call(q, "create") /\ Exists(domains[d])
    /\ x.space = requests[q].space /\ x.todo = {}
    /\ x.guid \in RouteGUIDs /\ Fresh(x.guid)
    /\ x.shown = {[route |-> [guid |-> x.guid, space |-> x.space, domain |-> d],
                   name |-> domains[d]]}

\* The app was found in one namespace.
Located(q, x) ==
    /\ At(q, "fetchApp") /\ Call(q, "listAppRoutes") /\ x.space \in Spaces
    /\ appSpaces[x.app] = {x.space}
    /\ x.guid = requests[q].guid /\ x.todo = {} /\ x.shown = {}

\* These routes were found.
Looked(q, x) ==
    /\ Pending(q) /\ IF x.todo = {} THEN Reply(q, "OK") ELSE Call(q, "fetchDomains")
    /\ x.guid = requests[q].guid /\ x.space = requests[q].space /\ x.shown = {}
    /\ \/ pc[q] = "fetchRoute" /\ x.op = "getRoute"
       \/ pc[q] = "listRoutes" /\ x.op = "listRoutes" /\ x.todo = AllRoutes
       \/ pc[q] = "listAppRoutes" /\ x.op = "listAppRoutes" /\ x.todo = RoutesOfApp(x.app, x.space)

\* The domain of these records was found.
Joined(q, x) ==
    /\ At(q, "fetchDomains")
    /\ x.guid = requests[q].guid /\ x.space = requests[q].space
    /\ \E record \in requests[q].todo :
          LET records == {other \in requests[q].todo : other.domain = record.domain}
              name == domains[record.domain] IN
          /\ Exists(name)
          /\ x.todo = requests[q].todo \ records
          /\ x.shown = requests[q].shown \cup {[route |-> f, name |-> name] : f \in records}
          /\ IF x.todo = {} THEN Reply(q, "OK") ELSE UNCHANGED <<pc, status>>

Finds(q, x) ==
    /\ requests' = [requests EXCEPT ![q] = x] /\ UNCHANGED <<cluster, history>>
    /\ SameKind(x, requests[q])
    /\ Named(q, x) \/ Located(q, x) \/ Looked(q, x) \/ Joined(q, x)

LEMMA TodoSet ==
  ASSUME NEW request \in Request, NEW todo \in SUBSET Found
  PROVE  LET x == [request EXCEPT !.todo = todo] IN
         /\ x \in Request /\ SameKind(x, request) /\ x.todo = todo
         /\ x.guid = request.guid /\ x.space = request.space /\ x.shown = request.shown
  BY DEF Request, SameKind

LEMMA LooksFind ==
  ASSUME TypeOK, RequestInv, NEW q \in Requests, NEW records \in SUBSET Found,
         \/ At(q, "fetchRoute")
         \/ At(q, "listRoutes") /\ records = AllRoutes
         \/ At(q, "listAppRoutes") /\ records = RoutesOfApp(requests[q].app, requests[q].space),
         FoundRoutes(q, records)
  PROVE  \E x \in Request : Finds(q, x)
<1> DEFINE x == [requests[q] EXCEPT !.todo = records]
<1>1. requests[q] \in Request
  BY DEF TypeOK
<1>2. /\ x \in Request /\ SameKind(x, requests[q]) /\ x.todo = records
      /\ x.guid = requests[q].guid /\ x.space = requests[q].space /\ x.shown = requests[q].shown
  BY <1>1, TodoSet
<1>3. requests' = [requests EXCEPT ![q] = x]
  BY DEF FoundRoutes
<1> HIDE DEF x
<1>4. Holds(q)
  BY DEF RequestInv
<1>5. x.shown = {}
  BY <1>2, <1>4 DEF Holds, Looking, At
<1>6. requests[q].op = CASE pc[q] = "fetchRoute" -> "getRoute"
                         [] pc[q] = "listRoutes" -> "listRoutes"
                         [] pc[q] = "listAppRoutes" -> "listAppRoutes"
  BY <1>4 DEF Holds, At, Calls, Ops
<1>7. Looked(q, x)
  BY <1>2, <1>5, <1>6 DEF Looked, FoundRoutes, At, SameKind
<1> QED
  BY <1>2, <1>3, <1>7 DEF Finds, FoundRoutes

LEMMA NamedFinds ==
  ASSUME TypeOK, RequestInv, NEW q \in Requests, FetchDomain(q)
  PROVE  Waits(q) \/ \E x \in Request : Finds(q, x)
<1> DEFINE d == requests[q].domain
           s == requests[q].space
<1>0. requests[q] \in Request /\ d \in DomainGUIDs /\ s \in Spaces /\ requests[q].todo = {}
      /\ requests \in [Requests -> Request] /\ Pending(q) /\ pc \in [Requests -> PCs]
      /\ status \in [Requests -> Statuses] /\ pc[q] = "fetchDomain"
  <2>1. Holds(q) /\ pc[q] = "fetchDomain"
    BY DEF RequestInv, FetchDomain, At
  <2>2. requests[q].op = "createRoute"
    BY <2>1 DEF Holds, Calls, Ops
  <2>3. d \in DomainGUIDs /\ s \in Spaces /\ requests[q].todo = {}
    BY <2>1, <2>2 DEF Holds
  <2> QED
    BY <2>1, <2>3 DEF TypeOK, FetchDomain, At
<1>1. CASE UNCHANGED requests /\ Reply(q, "UnprocessableEntity")
  BY <1>0, <1>1 DEF FetchDomain, Reply, Waits, InFlight, Arrived
<1>2. ASSUME NEW g \in RouteGUIDs, Exists(domains[d]), Fresh(g), Call(q, "create"),
             requests' = [requests EXCEPT ![q] =
                 [@ EXCEPT !.guid = g,
                           !.shown = {[route |-> [guid |-> g, space |-> s, domain |-> d],
                                       name |-> domains[d]]}]]
      PROVE  \E x \in Request : Finds(q, x)
  <2> DEFINE shown == {[route |-> [guid |-> g, space |-> s, domain |-> d], name |-> domains[d]]}
             x == [requests[q] EXCEPT !.guid = g, !.shown = shown]
  <2>1. domains[d] \in Names
    BY <1>0, <1>2 DEF TypeOK, Exists
  <2>2. shown \in SUBSET Shown
    BY <1>0, <2>1 DEF Shown, Found
  <2>3. requests' = [requests EXCEPT ![q] = x]
    BY <1>2
  <2> HIDE DEF shown
  <2>4. /\ x \in Request /\ SameKind(x, requests[q]) /\ x.todo = {} /\ x.guid = g /\ x.space = s
        /\ x.shown = shown
    BY <1>0, <2>2 DEF Request, SameKind
  <2> HIDE DEF x
  <2>5. Named(q, x)
    BY <1>2, <2>4 DEF Named, FetchDomain, shown
  <2> QED
    BY <2>3, <2>4, <2>5 DEF Finds, FetchDomain
<1> QED
  BY <1>1, <1>2 DEF FetchDomain

LEMMA LocatedFinds ==
  ASSUME TypeOK, RequestInv, NEW q \in Requests, FetchApp(q)
  PROVE  Waits(q) \/ \E x \in Request : Finds(q, x)
<1>0. /\ requests[q] \in Request /\ requests \in [Requests -> Request]
      /\ pc \in [Requests -> PCs] /\ status \in [Requests -> Statuses]
  BY DEF TypeOK
<1>1. Pending(q) /\ pc[q] = "fetchApp" /\ requests[q].todo = {} /\ requests[q].shown = {}
  BY DEF RequestInv, FetchApp, At, Holds, Looking
<1>2. CASE UNCHANGED requests /\ \E error \in {"ResourceNotFound", "UnknownError"} : Reply(q, error)
  BY <1>0, <1>1, <1>2 DEF FetchApp, Reply, Waits, InFlight, Arrived
<1>3. ASSUME NEW s \in Spaces, appSpaces[requests[q].app] = {s}, Call(q, "listAppRoutes"),
             requests' = [requests EXCEPT ![q].space = s]
      PROVE  \E x \in Request : Finds(q, x)
  <2> DEFINE x == [requests[q] EXCEPT !.space = s]
  <2>1. requests' = [requests EXCEPT ![q] = x]
    BY <1>3
  <2>2. /\ x \in Request /\ SameKind(x, requests[q]) /\ x.space = s
        /\ x.guid = requests[q].guid /\ x.todo = {} /\ x.shown = {}
    BY <1>0, <1>1 DEF Request, SameKind
  <2> HIDE DEF x
  <2>3. Located(q, x)
    BY <1>1, <1>3, <2>2 DEF Located, SameKind, At
  <2> QED
    BY <2>1, <2>2, <2>3 DEF Finds, FetchApp
<1> QED
  BY <1>2, <1>3 DEF FetchApp

LEMMA JoinedFinds ==
  ASSUME TypeOK, RequestInv, NEW q \in Requests, FetchDomainOfRoutes(q)
  PROVE  Waits(q) \/ \E x \in Request : Finds(q, x)
<1>0. /\ requests[q] \in Request /\ requests \in [Requests -> Request]
      /\ pc \in [Requests -> PCs] /\ status \in [Requests -> Statuses]
      /\ requests[q].todo \subseteq Found /\ requests[q].shown \subseteq Shown
  BY DEF TypeOK, Request
<1>1. Pending(q) /\ pc[q] = "fetchDomains"
  BY DEF FetchDomainOfRoutes, At
<1>2. ASSUME UNCHANGED requests, Reply(q, "UnknownError") PROVE Waits(q)
  BY <1>0, <1>1, <1>2 DEF FetchDomainOfRoutes, Reply, Waits, InFlight, Arrived
<1>3. ASSUME NEW record \in requests[q].todo, NEW records, NEW name,
             records = WithSameDomain(requests[q].todo, record),
             name = domains[record.domain], Exists(name),
             requests' = [requests EXCEPT ![q] =
                 [@ EXCEPT !.todo = requests[q].todo \ records,
                           !.shown = requests[q].shown \cup {[route |-> f, name |-> name] : f \in records}]],
             IF requests[q].todo = records THEN Reply(q, "OK") ELSE UNCHANGED <<pc, status>>
      PROVE  \E x \in Request : Finds(q, x)
  <2> DEFINE shown == {[route |-> f, name |-> name] : f \in records}
             x == [requests[q] EXCEPT !.todo = requests[q].todo \ records,
                                      !.shown = requests[q].shown \cup shown]
  <2>1. requests' = [requests EXCEPT ![q] = x]
    BY <1>3
  <2>2. record.domain \in DomainGUIDs
    BY <1>0, <1>3 DEF Found
  <2>3. name \in Names
    BY <1>3, <2>2 DEF TypeOK, Exists
  <2>4. shown \subseteq Shown /\ records \subseteq requests[q].todo /\ records \subseteq Found
    BY <1>0, <1>3, <2>3 DEF Shown, WithSameDomain
  <2> HIDE DEF shown
  <2>5. /\ x \in Request /\ SameKind(x, requests[q]) /\ x.todo = requests[q].todo \ records
        /\ x.shown = requests[q].shown \cup shown
        /\ x.guid = requests[q].guid /\ x.space = requests[q].space
    BY <1>0, <2>4 DEF Request, SameKind
  <2> HIDE DEF x
  <2>6. requests[q].todo = records <=> x.todo = {}
    BY <2>4, <2>5
  <2>7. Joined(q, x)
    <3> SUFFICES /\ x.todo = requests[q].todo \ WithSameDomain(requests[q].todo, record)
                 /\ x.shown = requests[q].shown \cup
                       {[route |-> f, name |-> domains[record.domain]] :
                           f \in WithSameDomain(requests[q].todo, record)}
      BY <1>1, <1>3, <2>5, <2>6 DEF Joined, At, Pending, WithSameDomain
    <3> QED
      BY <1>3, <2>5 DEF shown
  <2> QED
    BY <2>1, <2>5, <2>7 DEF Finds, FetchDomainOfRoutes
<1> QED
  BY <1>2, <1>3 DEF FetchDomainOfRoutes, DomainMissing

LEMMA HandlerSteps ==
  ASSUME TypeOK, RequestInv, NEW q \in Requests, HandlerStep(q)
  PROVE  Waits(q) \/ \E x \in Request : Finds(q, x)
<1>0. /\ requests \in [Requests -> Request] /\ Holds(q)
      /\ pc \in [Requests -> PCs] /\ status \in [Requests -> Statuses]
  BY DEF TypeOK, RequestInv
<1>1. CASE FetchNamespace(q)
  BY <1>0, <1>1 DEF FetchNamespace, At, Pending, Call, Reply, Waits, InFlight, Arrived
<1>2. CASE \E p \in PCs \ {"idle"} : ReadFails(q, p)
  BY <1>0, <1>2 DEF ReadFails, At, Pending, Reply, Waits, InFlight, Arrived, Holds
<1>3. CASE CreateRoute(q) \/ RefuseWrite(q) \/ LoseAnswer(q)
  BY <1>0, <1>3 DEF CreateRoute, RefuseWrite, LoseAnswer, Writes, Landed, AnswerLost, Pending,
     Reply, Waits, InFlight, Arrived
<1>4. CASE FetchRoute(q)
  <2>0. pc[q] = "fetchRoute" /\ Pending(q) /\ requests[q].guid \in RouteGUIDs
    BY <1>0, <1>4 DEF FetchRoute, At, Holds, Calls, Ops
  <2>1. CASE UNCHANGED <<requests, history>> /\ \E error \in {"ResourceNotFound", "UnknownError"} : Reply(q, error)
    BY <1>0, <2>0, <2>1 DEF Reply, Waits, InFlight, Arrived
  <2>2. ASSUME NEW s \in Spaces, FoundIn(routes, requests[q].guid, s),
               FoundRoutes(q, {RouteRecord(requests[q].guid, s)})
        PROVE  \E x \in Request : Finds(q, x)
    <3>0. Exists(routes[requests[q].guid][s])
      BY <2>2 DEF FoundIn, Where
    <3>1. {RouteRecord(requests[q].guid, s)} \in SUBSET Found
      BY <2>0, <3>0, RecordsAreFound
    <3> QED
      BY <2>0, <2>2, <3>1, LooksFind DEF At
  <2> QED
    BY <1>4, <2>1, <2>2 DEF FetchRoute
<1>5. CASE ListRoutes(q)
  BY <1>5, LooksFind, RecordsAreFound DEF ListRoutes
<1>6. CASE ListAppRoutes(q)
  BY <1>6, LooksFind, RecordsAreFound DEF ListAppRoutes, ListedForApp
<1> HIDE DEF TypeOK
<1> QED
  BY <1>1, <1>2, <1>3, <1>4, <1>5, <1>6, NamedFinds, LocatedFinds, JoinedFinds DEF HandlerStep, PCs

\* The ways in which one step concerns the request q.
Steps(q) ==
    \/ Outside
    \/ Calm /\ Waits(q)
    \/ \E request \in Request : Arrives(q, request) \/ Finds(q, request)

LEMMA RequestSteps ==
  ASSUME TypeOK, RequestInv, [Next]_vars, NEW q \in Requests
  PROVE  Steps(q)
<1>0. /\ pc \in [Requests -> PCs] /\ status \in [Requests -> Statuses]
      /\ requests \in [Requests -> Request]
  BY DEF TypeOK
<1>1. CASE Calm /\ Kept(q)
  <2>1. Waits(q)
    BY <1>1 DEF Kept, Waits
  <2> QED
    BY <1>1, <2>1 DEF Steps
<1>2. CASE Calm /\ HandlerStep(q)
  BY <1>2, HandlerSteps DEF Steps
<1>3. CASE Crash
  <2>1. /\ requests'[q] = requests[q] /\ history'[q] = history[q] /\ Calm
        /\ pc'[q] = pc[q] \/ (pc'[q] = "done" /\ pc[q] # "idle")
    BY <1>0, <1>3 DEF Crash, Crashed, InFlight, Arrived, Calm, cluster
  <2>2. status'[q] = status[q] \/ (status'[q] = "ConnectionLost" /\ InFlight(q))
    BY <1>0, <1>3 DEF Crash, Crashed
  <2>3. (status'[q] # status[q] /\ pc'[q] # "done") => pc[q] = "create"
    BY <1>0, <1>3 DEF Crash, Crashed, Writes, InFlight, Arrived
  <2> QED
    BY <2>1, <2>2, <2>3 DEF Waits, Steps
<1> QED
  BY <1>1, <1>2, <1>3, Moves DEF Moved, Steps
-----------------------------------------------------------------------------
(***************************************************************************)
(* What one step does to one route, and to one domain                      *)
(***************************************************************************)
RouteWritten(g, s) ==
    \E r \in Requests :
        /\ pc[r] = "create" /\ requests[r].guid = g /\ requests[r].space = s /\ pc'[r] = "done"
        /\ routes'[g][s] = [domain |-> requests[r].domain, apps |-> {}]

\* Another server writes it.
RouteWrittenThere(g, s) ==
    /\ Fresh(g)
    /\ \E d \in DomainGUIDs :
          Exists(domains[d]) /\ routes'[g][s] = [domain |-> d, apps |-> {}]

RouteStep(g, s) ==
    \/ routes'[g][s] = routes[g][s]
    \/ Exists(routes[g][s]) /\ routes'[g][s] = Deleted
    \/ /\ Exists(routes[g][s])
       /\ \E apps \in SUBSET AppGUIDs : routes'[g][s] = [routes[g][s] EXCEPT !.apps = apps]
    \/ RouteWritten(g, s)
    \/ RouteWrittenThere(g, s)
    \/ /\ routes[g][s] = Absent
       /\ \E t \in Spaces : Exists(routes[g][t]) /\ routes'[g][s] = routes[g][t]

LEMMA RouteSteps ==
  ASSUME TypeOK, RequestInv, [Next]_vars, NEW g \in RouteGUIDs, NEW s \in Spaces
  PROVE  RouteStep(g, s)
<1> USE DEF TypeOK, RouteStep
<1>1. ASSUME NEW r \in Requests, CreateRoute(r) PROVE RouteStep(g, s)
  <2>1. pc[r] = "create" /\ pc'[r] = "done" /\ requests[r].guid \in RouteGUIDs
        /\ requests[r].space \in Spaces
    BY <1>1 DEF CreateRoute, Landed, Reply, RequestInv, Holds, Calls, Ops
  <2>2. CASE requests[r].guid = g /\ requests[r].space = s
    BY <1>1, <2>1, <2>2 DEF CreateRoute, RouteWritten
  <2>3. CASE ~(requests[r].guid = g /\ requests[r].space = s)
    BY <1>1, <2>1, <2>3 DEF CreateRoute
  <2> QED
    BY <2>2, <2>3
<1>2. ASSUME NEW h \in RouteGUIDs, NEW t \in Spaces, NEW apps \in SUBSET AppGUIDs,
             DestinationsSet(h, t, apps)
      PROVE  RouteStep(g, s)
  <2>1. CASE h = g /\ t = s
    BY <1>2, <2>1 DEF DestinationsSet
  <2>2. CASE ~(h = g /\ t = s)
    BY <1>2, <2>2 DEF DestinationsSet
  <2> QED
    BY <2>1, <2>2
<1>3. ASSUME NEW h \in RouteGUIDs, NEW t \in Spaces, RouteDeleted(h, t) PROVE RouteStep(g, s)
  BY <1>3 DEF RouteDeleted
<1>4. ASSUME NEW h \in RouteGUIDs, NEW t \in Spaces, NEW d \in DomainGUIDs, RouteCreated(h, t, d)
      PROVE  RouteStep(g, s)
  <2>1. CASE h = g /\ t = s
    BY <1>4, <2>1 DEF RouteCreated, RouteWrittenThere
  <2>2. CASE ~(h = g /\ t = s)
    BY <1>4, <2>2 DEF RouteCreated
  <2> QED
    BY <2>1, <2>2
<1>5. ASSUME NEW h \in RouteGUIDs, NEW t \in Spaces, NEW u \in Spaces, RouteCopied(h, t, u)
      PROVE  RouteStep(g, s)
  <2>1. CASE h = g /\ u = s
    BY <1>5, <2>1 DEF RouteCopied
  <2>2. CASE ~(h = g /\ u = s)
    BY <1>5, <2>2 DEF RouteCopied
  <2> QED
    BY <2>1, <2>2
<1>6. ASSUME NEW t \in Spaces, SpaceDeleted(t) PROVE RouteStep(g, s)
  <2>1. routes'[g][s] = IF s = t /\ Exists(routes[g][s]) THEN Deleted ELSE routes[g][s]
    BY <1>6 DEF SpaceDeleted
  <2> QED
    BY <2>1
<1>7. CASE UNCHANGED routes
  BY <1>7
<1>8. ASSUME NEW r \in Requests, HandlerStep(r), ~CreateRoute(r) PROVE UNCHANGED routes
  BY <1>8 DEF HandlerStep, FetchNamespace, ReadFails, FetchDomain, FetchApp, FetchRoute,
     ListRoutes, ListAppRoutes, FoundRoutes, FetchDomainOfRoutes, RefuseWrite, LoseAnswer, cluster
<1>9. ASSUME NEW r \in Requests, Received(r) PROVE UNCHANGED routes
  BY <1>9, Arrival DEF Arrives, cluster
<1> HIDE DEF TypeOK, RouteStep
<1> QED
  BY <1>1, <1>2, <1>3, <1>4, <1>5, <1>6, <1>7, <1>8, <1>9
     DEF Next, Received, Crash, DomainSet, DomainDeleted, AppChanges, Quiescent, vars, cluster

LEMMA DomainSteps ==
  ASSUME TypeOK, [Next]_vars, NEW d \in DomainGUIDs
  PROVE  \/ domains'[d] = domains[d]
         \/ domains'[d] \in Names
         \/ domains'[d] = Deleted /\ Exists(domains[d])
<1> USE DEF TypeOK
<1>1. ASSUME NEW e \in DomainGUIDs, NEW n \in Names, DomainSet(e, n)
      PROVE  domains'[d] = domains[d] \/ domains'[d] \in Names
  BY <1>1 DEF DomainSet
<1>2. ASSUME NEW e \in DomainGUIDs, DomainDeleted(e)
      PROVE  domains'[d] = domains[d] \/ (domains'[d] = Deleted /\ Exists(domains[d]))
  BY <1>2 DEF DomainDeleted
<1>3. CASE UNCHANGED domains
  BY <1>3
<1>4. ASSUME NEW r \in Requests, HandlerStep(r) PROVE UNCHANGED domains
  BY <1>4 DEF HandlerStep, FetchNamespace, ReadFails, FetchDomain, CreateRoute, FetchApp,
     FetchRoute, ListRoutes, ListAppRoutes, FoundRoutes, FetchDomainOfRoutes, RefuseWrite,
     LoseAnswer, cluster
<1>5. ASSUME NEW r \in Requests, Received(r) PROVE UNCHANGED domains
  BY <1>5, Arrival DEF Arrives, cluster
<1> HIDE DEF TypeOK
<1> QED
  BY <1>1, <1>2, <1>3, <1>4, <1>5
     DEF Next, Received, Crash, DestinationsSet, RouteDeleted, RouteCreated, RouteCopied,
         SpaceDeleted, AppChanges, Quiescent, vars, cluster
-----------------------------------------------------------------------------
(***************************************************************************)
(* Preservation                                                            *)
(***************************************************************************)
LEMMA NextRoutesType ==
  ASSUME TypeOK, RequestInv, [Next]_vars
  PROVE  routes' \in [RouteGUIDs -> [Spaces -> Route \cup {Absent, Deleted}]]
<1>1. ASSUME NEW r \in Requests, CreateRoute(r)
      PROVE  routes' \in [RouteGUIDs -> [Spaces -> Route \cup {Absent, Deleted}]]
  <2>1. requests[r].domain \in DomainGUIDs
    BY <1>1 DEF CreateRoute, RequestInv, Holds, Calls, Ops
  <2>2. [domain |-> requests[r].domain, apps |-> {}] \in Route
    BY <2>1 DEF Route
  <2> QED
    BY <1>1, <2>2 DEF CreateRoute, TypeOK
<1>2. ASSUME NEW h \in RouteGUIDs, NEW t \in Spaces, NEW apps \in SUBSET AppGUIDs,
             DestinationsSet(h, t, apps)
      PROVE  routes' \in [RouteGUIDs -> [Spaces -> Route \cup {Absent, Deleted}]]
  <2>1. routes[h][t] \in Route
    BY <1>2 DEF DestinationsSet, TypeOK, Exists
  <2>2. [routes[h][t] EXCEPT !.apps = apps] \in Route
    BY <2>1 DEF Route
  <2>3. routes' = [routes EXCEPT ![h][t] = [routes[h][t] EXCEPT !.apps = apps]]
    BY <1>2 DEF DestinationsSet
  <2> QED
    BY <2>2, <2>3 DEF TypeOK
<1>3. ASSUME NEW h \in RouteGUIDs, NEW t \in Spaces,
             \/ RouteDeleted(h, t)
             \/ \E d \in DomainGUIDs : RouteCreated(h, t, d)
             \/ \E u \in Spaces : RouteCopied(h, t, u)
      PROVE  routes' \in [RouteGUIDs -> [Spaces -> Route \cup {Absent, Deleted}]]
  <2>1. \A d \in DomainGUIDs : [domain |-> d, apps |-> {}] \in Route
    BY DEF Route
  <2>2. CASE RouteDeleted(h, t)
    BY <2>2 DEF RouteDeleted, TypeOK
  <2>3. ASSUME NEW d \in DomainGUIDs, RouteCreated(h, t, d)
        PROVE  routes' \in [RouteGUIDs -> [Spaces -> Route \cup {Absent, Deleted}]]
    BY <2>1, <2>3 DEF RouteCreated, TypeOK
  <2>4. ASSUME NEW u \in Spaces, RouteCopied(h, t, u)
        PROVE  routes' \in [RouteGUIDs -> [Spaces -> Route \cup {Absent, Deleted}]]
    BY <2>4 DEF RouteCopied, TypeOK
  <2> QED
    BY <1>3, <2>2, <2>3, <2>4
<1>4. ASSUME NEW t \in Spaces, SpaceDeleted(t)
      PROVE  routes' \in [RouteGUIDs -> [Spaces -> Route \cup {Absent, Deleted}]]
  BY <1>4 DEF SpaceDeleted, TypeOK
<1>5. CASE UNCHANGED routes
  BY <1>5 DEF TypeOK
<1>6. ASSUME NEW r \in Requests, HandlerStep(r), ~CreateRoute(r) PROVE UNCHANGED routes
  BY <1>6 DEF HandlerStep, FetchNamespace, ReadFails, FetchDomain, FetchApp, FetchRoute,
     ListRoutes, ListAppRoutes, FoundRoutes, FetchDomainOfRoutes, RefuseWrite, LoseAnswer, cluster
<1>7. ASSUME NEW r \in Requests, Received(r) PROVE UNCHANGED routes
  BY <1>7, Arrival DEF Arrives, cluster
<1> QED
  BY <1>1, <1>2, <1>3, <1>4, <1>5, <1>6, <1>7
     DEF Next, Received, Crash, DomainSet, DomainDeleted, AppChanges, Quiescent, vars, cluster

LEMMA NextClusterType ==
  ASSUME TypeOK, RequestInv, [Next]_vars
  PROVE  /\ spaces' \subseteq Spaces
         /\ appSpaces' \in [AppGUIDs -> SUBSET Spaces]
         /\ domains' \in [DomainGUIDs -> Names \cup {Absent, Deleted}]
<1> USE DEF TypeOK
<1> DEFINE Goal == /\ spaces' \subseteq Spaces
                   /\ appSpaces' \in [AppGUIDs -> SUBSET Spaces]
                   /\ domains' \in [DomainGUIDs -> Names \cup {Absent, Deleted}]
<1>1. ASSUME UNCHANGED <<spaces, appSpaces, domains>> PROVE Goal
  BY <1>1
<1>2. ASSUME NEW d \in DomainGUIDs, NEW n \in Names, DomainSet(d, n) PROVE Goal
  BY <1>2 DEF DomainSet
<1>3. ASSUME NEW d \in DomainGUIDs, DomainDeleted(d) PROVE Goal
  BY <1>3 DEF DomainDeleted
<1>4. ASSUME NEW a \in AppGUIDs, NEW s \in Spaces, AppChanges(a, s) PROVE Goal
  BY <1>4 DEF AppChanges
<1>5. ASSUME NEW s \in Spaces, SpaceDeleted(s) PROVE Goal
  BY <1>5 DEF SpaceDeleted
<1>6. ASSUME NEW r \in Requests, HandlerStep(r) PROVE UNCHANGED <<spaces, appSpaces, domains>>
  BY <1>6 DEF HandlerStep, FetchNamespace, ReadFails, FetchDomain, CreateRoute, FetchApp,
     FetchRoute, ListRoutes, ListAppRoutes, FoundRoutes, FetchDomainOfRoutes, RefuseWrite,
     LoseAnswer, cluster
<1>7. ASSUME NEW r \in Requests, Received(r) PROVE UNCHANGED <<spaces, appSpaces, domains>>
  BY <1>7, Arrival DEF Arrives, cluster
<1> HIDE DEF TypeOK, Goal
<1>8. Goal
  BY <1>1, <1>2, <1>3, <1>4, <1>5, <1>6, <1>7
     DEF Next, Received, Crash, DestinationsSet, RouteDeleted, RouteCreated, RouteCopied,
         Quiescent, vars, cluster
<1> QED
  BY <1>8 DEF Goal

\* A handler's step is a call, an answer or the loss of one.
Goes(r) ==
    \/ AnswerLost(r) \/ UNCHANGED <<pc, status>>
    \/ \E next \in PCs : Call(r, next)
    \/ \E answer \in Statuses : Reply(r, answer)

LEMMA HandlerGoes ==
  ASSUME TypeOK, NEW r \in Requests, HandlerStep(r) PROVE Goes(r) /\ UNCHANGED history
<1> USE DEF Goes, PCs, Statuses
<1>1. CASE FetchNamespace(r) \/ \E p \in PCs : ReadFails(r, p)
  BY <1>1 DEF FetchNamespace, ReadFails
<1>2. CASE FetchDomain(r) \/ FetchApp(r)
  BY <1>2 DEF FetchDomain, FetchApp
<1>3. CASE CreateRoute(r) \/ RefuseWrite(r) \/ LoseAnswer(r)
  BY <1>3 DEF CreateRoute, RefuseWrite, LoseAnswer, Landed, TypeOK
<1>4. CASE FetchRoute(r) \/ ListRoutes(r) \/ ListAppRoutes(r)
  BY <1>4 DEF FetchRoute, ListRoutes, ListAppRoutes, FoundRoutes
<1>5. CASE FetchDomainOfRoutes(r)
  BY <1>5 DEF FetchDomainOfRoutes, DomainMissing
<1> HIDE DEF Goes, Statuses
<1> QED
  BY <1>1, <1>2, <1>3, <1>4, <1>5 DEF HandlerStep

LEMMA HandlerRequests ==
  ASSUME TypeOK, RequestInv, NEW r \in Requests, HandlerStep(r)
  PROVE  requests' \in [Requests -> Request]
<1>1. CASE \E x \in Request : Finds(r, x)
  BY <1>1 DEF Finds, TypeOK
<1>2. CASE Waits(r)
  <2>0. ASSUME NEW x, requests' = [requests EXCEPT ![r] = x] PROVE requests' \in [Requests -> Request]
    BY <1>2, <2>0 DEF Waits, TypeOK
  <2>1. CASE UNCHANGED requests
    BY <2>1 DEF TypeOK
  <2>2. CASE FetchDomain(r)
    BY <2>0, <2>1, <2>2 DEF FetchDomain
  <2>3. CASE FetchApp(r)
    BY <2>0, <2>1, <2>3 DEF FetchApp
  <2>4. CASE FetchRoute(r) \/ ListRoutes(r) \/ ListAppRoutes(r)
    BY <2>0, <2>1, <2>4 DEF FetchRoute, ListRoutes, ListAppRoutes, FoundRoutes
  <2>5. CASE FetchDomainOfRoutes(r)
    BY <2>0, <2>1, <2>5 DEF FetchDomainOfRoutes, DomainMissing
  <2> QED
    BY <2>1, <2>2, <2>3, <2>4, <2>5 DEF HandlerStep, FetchNamespace, ReadFails, CreateRoute,
       RefuseWrite, LoseAnswer
<1> QED
  BY <1>1, <1>2, HandlerSteps

LEMMA NextTypeOK == ASSUME TypeOK, RequestInv, [Next]_vars PROVE TypeOK'
<1>1. /\ spaces' \subseteq Spaces
      /\ appSpaces' \in [AppGUIDs -> SUBSET Spaces]
      /\ domains' \in [DomainGUIDs -> Names \cup {Absent, Deleted}]
      /\ routes' \in [RouteGUIDs -> [Spaces -> Route \cup {Absent, Deleted}]]
  BY NextClusterType, NextRoutesType
<1> SUFFICES /\ requests' \in [Requests -> Request]
             /\ history' \in [Requests -> [stable : SUBSET Found,
                                           names : SUBSET (DomainGUIDs \X Names)]]
             /\ pc' \in [Requests -> PCs]
             /\ status' \in [Requests -> Statuses]
  BY <1>1 DEF TypeOK
<1> DEFINE Goal == /\ requests' \in [Requests -> Request]
                   /\ history' \in [Requests -> [stable : SUBSET Found,
                                                 names : SUBSET (DomainGUIDs \X Names)]]
                   /\ pc' \in [Requests -> PCs]
                   /\ status' \in [Requests -> Statuses]
<1>0. ASSUME NEW r \in Requests, Goes(r)
      PROVE  pc' \in [Requests -> PCs] /\ status' \in [Requests -> Statuses]
  BY <1>0 DEF TypeOK, Goes, AnswerLost, Call, Reply, PCs, Statuses
<1>2. ASSUME NEW r \in Requests, Received(r) PROVE Goal
  <2>1. PICK request \in Request : Arrives(r, request)
    BY <1>2, Arrival
  <2>2. Goes(r)
    BY <2>1 DEF Arrives, Goes, PCs, Statuses, PayloadErrors, FirstCall, Ops
  <2>3. [stable |-> Listable(request), names |-> NamesNow]
           \in [stable : SUBSET Found, names : SUBSET (DomainGUIDs \X Names)]
    BY <2>1, ListableIsFound, NamesAreNames DEF Arrives
  <2> QED
    BY <1>0, <2>1, <2>2, <2>3 DEF Arrives, TypeOK
<1>3. ASSUME NEW r \in Requests, HandlerStep(r) PROVE Goal
  BY <1>0, <1>3, HandlerGoes, HandlerRequests DEF TypeOK
<1>4. ASSUME Outside PROVE Goal
  <2>1. NamesNow' \subseteq DomainGUIDs \X Names
    BY <1>1 DEF NamesNow, Exists
  <2>2. ASSUME NEW r \in Requests
        PROVE  [stable |-> history[r].stable \cap Listable(requests[r])',
                names |-> history[r].names \cup NamesNow']
                  \in [stable : SUBSET Found, names : SUBSET (DomainGUIDs \X Names)]
    <3>1. history[r].stable \subseteq Found /\ history[r].names \subseteq DomainGUIDs \X Names
      BY DEF TypeOK
    <3> QED
      BY <2>1, <3>1
  <2>3. history' \in [Requests -> [stable : SUBSET Found,
                                   names : SUBSET (DomainGUIDs \X Names)]]
    BY <1>4, <2>2 DEF Outside, Observed, TypeOK
  <2> QED
    BY <1>4, <2>3 DEF Outside, TypeOK
<1>5. ASSUME Crash PROVE Goal
  BY <1>5 DEF Crash, Crashed, TypeOK, PCs, Statuses
<1>6. ASSUME UNCHANGED vars PROVE Goal
  BY <1>6 DEF vars, TypeOK
<1> HIDE DEF Goal
<1>7. Goal
  BY <1>2, <1>3, <1>4, <1>5, <1>6
     DEF Next, Quiescent, Received, Outside, DomainSet, DomainDeleted, DestinationsSet,
         RouteDeleted, RouteCreated, RouteCopied, AppChanges, SpaceDeleted
<1> QED
  BY <1>7 DEF Goal

LEMMA NextRequestInv == ASSUME TypeOK, RequestInv, [Next]_vars PROVE RequestInv'
<1> SUFFICES ASSUME NEW q \in Requests PROVE Holds(q)'
  BY DEF RequestInv
<1>0. /\ Holds(q) /\ pc \in [Requests -> PCs] /\ status \in [Requests -> Statuses]
      /\ requests \in [Requests -> Request] /\ requests' \in [Requests -> Request]
  BY NextTypeOK DEF RequestInv, TypeOK
<1> USE DEF Pending
<1>1. CASE Outside
  BY <1>0, <1>1 DEF Outside, Holds
<1>2. CASE Waits(q)
  <2>0. /\ requests'[q] = requests[q]
        /\ status'[q] = status[q] \/ (status[q] = "Pending" /\ pc[q] # "idle")
        /\ (status'[q] # status[q] /\ pc'[q] # "done") =>
              pc[q] = "create" /\ status'[q] \in {"UnknownError", "ConnectionLost"}
    BY <1>2 DEF Waits, InFlight, Arrived
  <2>1. CASE pc'[q] = "done"
    <3>1. pc[q] # "idle"
      BY <1>2, <2>1 DEF Waits
    <3> QED
      BY <1>0, <2>0, <2>1, <3>1 DEF Holds, Looking
  <2>2. CASE pc'[q] = pc[q] /\ pc[q] # "done"
    BY <1>0, <2>0, <2>2 DEF Holds
  <2>3. CASE pc[q] = "namespace" /\ pc'[q] = "fetchDomain" /\ status'[q] = "Pending"
    BY <1>0, <2>0, <2>3 DEF Holds, Calls, Ops, Looking
  <2> QED
    BY <1>2, <2>1, <2>2, <2>3 DEF Waits
<1>3. ASSUME NEW request \in Request, Arrives(q, request) PROVE Holds(q)'
  <2>1. requests'[q] = request /\ status[q] = "Pending"
    BY <1>0, <1>3 DEF Arrives, Holds
  <2>2. \/ pc'[q] = FirstCall(request.op) /\ status'[q] = "Pending"
        \/ pc'[q] = "done"
    BY <1>0, <1>3, <2>1 DEF Arrives, Call, Reply
  <2>3. request.op \in Ops /\ request.todo = {} /\ request.shown = {}
    BY <1>3 DEF Arrives
  <2>4. FirstCall(request.op) \in Calls(request.op)
        /\ FirstCall(request.op) \in {"namespace", "fetchRoute", "listRoutes", "fetchApp"}
    BY <2>3 DEF FirstCall, Calls, Ops
  <2> QED
    BY <1>3, <2>1, <2>2, <2>3, <2>4 DEF Arrives, Holds, Looking
<1>4. ASSUME NEW x \in Request, Finds(q, x) PROVE Holds(q)'
  <2>0. requests'[q] = x /\ SameKind(x, requests[q])
    BY <1>0, <1>4 DEF Finds
  <2>1. CASE Named(q, x)
    <3>1. pc'[q] = "create" /\ status'[q] = "Pending" /\ pc[q] = "fetchDomain"
      BY <1>0, <2>1 DEF Named, At, Call
    <3>2. requests[q].op = "createRoute"
      BY <1>0, <3>1 DEF Holds, Calls, Ops
    <3> QED
      BY <1>0, <2>0, <2>1, <3>1, <3>2 DEF Holds, Named, SameKind, Calls, Ops, Looking
  <2>2. CASE Located(q, x)
    <3>1. pc'[q] = "listAppRoutes" /\ status'[q] = "Pending" /\ pc[q] = "fetchApp"
      BY <1>0, <2>2 DEF Located, At, Call
    <3>2. requests[q].op = "listAppRoutes"
      BY <1>0, <3>1 DEF Holds, Calls, Ops
    <3> QED
      BY <1>0, <2>0, <2>2, <3>1, <3>2 DEF Holds, Located, SameKind, Calls, Ops
  <2>3. CASE Looked(q, x)
    <3>1. /\ pc'[q] = "done" \/ (pc'[q] = "fetchDomains" /\ status'[q] = "Pending")
          /\ pc[q] \in {"fetchRoute", "listRoutes", "listAppRoutes"}
      BY <1>0, <2>3 DEF Looked, Reply, Call
    <3>2. x.op \in {"getRoute", "listRoutes", "listAppRoutes"}
      BY <2>3 DEF Looked
    <3> QED
      BY <1>0, <2>0, <2>3, <3>1, <3>2 DEF Holds, Looked, SameKind, Calls, Ops, Looking
  <2>4. CASE Joined(q, x)
    <3>1. pc'[q] = "done" \/ (pc'[q] = "fetchDomains" /\ status'[q] = "Pending")
      BY <1>0, <2>4 DEF Joined, Reply, At
    <3>2. pc[q] = "fetchDomains" /\ requests[q].op \in {"getRoute", "listRoutes", "listAppRoutes"}
      BY <1>0, <2>4 DEF Joined, At, Holds, Calls, Ops
    <3>3. x.op = requests[q].op /\ x.app = requests[q].app /\ x.guid = requests[q].guid
      BY <2>0, <2>4 DEF Joined, SameKind
    <3> QED
      BY <1>0, <2>0, <3>1, <3>2, <3>3 DEF Holds, Calls, Ops, Looking
  <2> QED
    BY <1>4, <2>1, <2>2, <2>3, <2>4 DEF Finds
<1> QED
  BY <1>1, <1>2, <1>3, <1>4, RequestSteps DEF Steps

LEMMA DomainStays ==
  ASSUME TypeOK, [Next]_vars, NEW d \in DomainGUIDs, domains[d] # Absent
  PROVE  domains'[d] # Absent
  BY DomainSteps, RoutesAssumption, SlotAssumption

\* The name of a create is nobody else's.
LEMMA NamedApart ==
  ASSUME TypeOK, RequestInv, CreateInv, [Next]_vars, NEW r \in Requests, NEW q \in Requests \ {r},
         pc[r] = "create", requests'[q].op = "createRoute"
  PROVE  requests'[q].guid # requests[r].guid
<1>0. requests[r].guid \in RouteGUIDs /\ requests[r].op = "createRoute"
      /\ requests \in [Requests -> Request]
  BY DEF RequestInv, Holds, Calls, Ops, TypeOK
<1>1. CASE requests'[q].op = requests[q].op /\ requests'[q].guid = requests[q].guid
  BY <1>1 DEF CreateInv
<1>2. ASSUME NEW request \in Request, Arrives(q, request)
      PROVE  requests'[q].guid # requests[r].guid
  BY <1>0, <1>2, RoutesAssumption DEF Arrives
<1>3. ASSUME NEW x \in Request, Finds(q, x) PROVE requests'[q].guid # requests[r].guid
  <2>1. requests'[q] = x /\ x.op = requests[q].op
    BY <1>0, <1>3 DEF Finds, SameKind
  <2>2. CASE Named(q, x)
    BY <1>0, <2>1, <2>2 DEF Named, Fresh
  <2>3. CASE x.guid = requests[q].guid
    BY <1>1, <2>1, <2>3
  <2> QED
    BY <1>3, <2>2, <2>3 DEF Finds, Located, Looked, Joined
<1> QED
  BY <1>1, <1>2, <1>3, RequestSteps DEF Steps, Outside, Waits

LEMMA NextCreateInv ==
  ASSUME TypeOK, RequestInv, CreateInv, [Next]_vars PROVE CreateInv'
<1> DEFINE Goal(r) ==
              /\ domains'[requests'[r].domain] # Absent
              /\ \A s \in Spaces : routes'[requests'[r].guid][s] = Absent
              /\ \A q \in Requests \ {r} : requests'[q].op = "createRoute" =>
                    requests'[q].guid # requests'[r].guid
<1> SUFFICES ASSUME NEW r \in Requests, pc'[r] = "create" PROVE Goal(r)
  BY DEF CreateInv
<1>0. /\ Holds(r) /\ pc \in [Requests -> PCs]
      /\ requests \in [Requests -> Request]
  BY DEF RequestInv, TypeOK
<1>1. CASE pc[r] = "create" /\ requests'[r] = requests[r]
  <2> DEFINE g == requests[r].guid
             d == requests[r].domain
  <2>1. requests[r].op = "createRoute" /\ g \in RouteGUIDs /\ d \in DomainGUIDs
    BY <1>0, <1>1 DEF Holds, Calls, Ops
  <2>2. domains'[d] # Absent
    BY <1>1, <2>1, DomainStays DEF CreateInv
  <2>3. ASSUME NEW s \in Spaces PROVE routes'[g][s] = Absent
    <3>1. \A t \in Spaces : routes[g][t] = Absent
      BY <1>1 DEF CreateInv
    <3>2. ~RouteWritten(g, s)
      <4> SUFFICES ASSUME NEW q \in Requests, pc[q] = "create", requests[q].guid = g,
                          pc'[q] = "done"
                   PROVE  FALSE
        BY DEF RouteWritten
      <4>1. requests[q].op = "createRoute"
        BY DEF RequestInv, Holds, Calls, Ops
      <4> QED
        BY <1>1, <4>1 DEF CreateInv
    <3>3. ~Fresh(g)
      BY <2>1 DEF Fresh
    <3>4. RouteStep(g, s)
      BY <2>1, RouteSteps
    <3> HIDE DEF g
    <3> QED
      BY <3>1, <3>2, <3>3, <3>4 DEF RouteStep, RouteWrittenThere, Exists
  <2> QED
    BY <1>1, <2>2, <2>3, NamedApart
<1>2. ASSUME NEW x \in Request, Finds(r, x) PROVE Goal(r)
  <2>1. requests'[r] = x /\ \A q \in Requests \ {r} : requests'[q] = requests[q]
    BY <1>0, <1>2 DEF Finds
  <2>2. Named(r, x)
    BY <1>0, <1>2 DEF Finds, Located, Looked, Joined, Call, Reply, At
  <2>3. UNCHANGED <<domains, routes>> /\ x.domain = requests[r].domain
    BY <1>2 DEF Finds, SameKind, cluster
  <2> QED
    BY <2>1, <2>2, <2>3 DEF Named, Fresh, Exists
<1>3. ASSUME NEW request \in Request, Arrives(r, request) PROVE FALSE
  BY <1>0, <1>3 DEF Arrives, Call, Reply, FirstCall, Ops
<1>4. CASE Outside \/ Waits(r)
  BY <1>1, <1>4 DEF Outside, Waits
<1> QED
  BY <1>2, <1>3, <1>4, RequestSteps DEF Steps

LEMMA NextDomainWasThere ==
  ASSUME TypeOK, RequestInv, CreateInv, DomainWasThere, [Next]_vars PROVE DomainWasThere'
<1> SUFFICES ASSUME NEW g \in RouteGUIDs, NEW s \in Spaces, Exists(routes'[g][s])
             PROVE  domains'[routes'[g][s].domain] # Absent
  BY DEF DomainWasThere, Exists
<1>1. \A t \in Spaces : Exists(routes[g][t]) => /\ routes[g][t] \in Route
                                                /\ routes[g][t].domain \in DomainGUIDs
                                                /\ domains[routes[g][t].domain] # Absent
  BY DEF TypeOK, Exists, Route, DomainWasThere
<1>2. ASSUME NEW t \in Spaces, Exists(routes[g][t]), routes'[g][s].domain = routes[g][t].domain
      PROVE  domains'[routes'[g][s].domain] # Absent
  BY <1>1, <1>2, DomainStays
<1>3. CASE RouteWritten(g, s)
  <2>1. PICK r \in Requests : pc[r] = "create" /\ routes'[g][s].domain = requests[r].domain
    BY <1>3 DEF RouteWritten
  <2>2. requests[r].domain \in DomainGUIDs
    BY <2>1 DEF RequestInv, Holds, Calls, Ops
  <2> QED
    BY <2>1, <2>2, DomainStays DEF CreateInv
<1>4. CASE RouteWrittenThere(g, s)
  <2>1. PICK d \in DomainGUIDs : Exists(domains[d]) /\ routes'[g][s].domain = d
    BY <1>4 DEF RouteWrittenThere
  <2> QED
    BY <2>1, DomainStays DEF Exists
<1>5. ASSUME Exists(routes[g][s]), NEW apps \in SUBSET AppGUIDs,
             routes'[g][s] = [routes[g][s] EXCEPT !.apps = apps]
      PROVE  domains'[routes'[g][s].domain] # Absent
  <2>1. routes'[g][s].domain = routes[g][s].domain
    BY <1>1, <1>5 DEF Route
  <2> QED
    BY <1>2, <1>5, <2>1
<1> QED
  BY <1>2, <1>3, <1>4, <1>5, RouteSteps DEF RouteStep, Exists

LEMMA NextTodoInv == ASSUME TypeOK, RequestInv, TodoInv, [Next]_vars PROVE TodoInv'
<1> SUFFICES ASSUME NEW r \in Requests, NEW f \in requests'[r].shown,
                    NEW record \in requests'[r].todo
             PROVE  f.route.domain # record.domain
  BY DEF TodoInv
<1>0. requests \in [Requests -> Request]
  BY DEF TypeOK
<1>1. CASE requests'[r] = requests[r]
  BY <1>1 DEF TodoInv
<1>2. ASSUME NEW request \in Request, Arrives(r, request) PROVE FALSE
  BY <1>0, <1>2 DEF Arrives
<1>3. ASSUME NEW x \in Request, Finds(r, x) PROVE f.route.domain # record.domain
  <2>1. requests'[r] = x
    BY <1>0, <1>3 DEF Finds
  <2>2. x.shown # {} /\ x.todo # {}
    BY <2>1
  <2>3. Joined(r, x)
    BY <1>3, <2>2 DEF Finds, Named, Located, Looked
  <2>4. PICK c \in requests[r].todo :
           LET records == {other \in requests[r].todo : other.domain = c.domain} IN
           /\ x.todo = requests[r].todo \ records
           /\ x.shown = requests[r].shown \cup
                           {[route |-> g, name |-> domains[c.domain]] : g \in records}
    BY <2>3 DEF Joined
  <2>5. record \in requests[r].todo /\ record.domain # c.domain
    BY <2>1, <2>4
  <2>6. f \in requests[r].shown \/ f.route.domain = c.domain
    BY <2>1, <2>4
  <2> QED
    BY <2>5, <2>6 DEF TodoInv
<1> QED
  BY <1>1, <1>2, <1>3, RequestSteps DEF Steps, Outside, Waits

LEMMA NextOneNamePerDomain ==
  ASSUME TypeOK, RequestInv, TodoInv, OneNamePerDomain, [Next]_vars PROVE OneNamePerDomain'
<1> SUFFICES ASSUME NEW r \in Requests, NEW f \in requests'[r].shown, NEW g \in requests'[r].shown,
                    f.route.domain = g.route.domain
             PROVE  f.name = g.name
  BY DEF OneNamePerDomain, Answer
<1>0. requests \in [Requests -> Request]
  BY DEF TypeOK
<1>1. CASE requests'[r] = requests[r]
  BY <1>1 DEF OneNamePerDomain, Answer
<1>2. ASSUME NEW request \in Request, Arrives(r, request) PROVE FALSE
  BY <1>0, <1>2 DEF Arrives
<1>3. ASSUME NEW x \in Request, Finds(r, x) PROVE f.name = g.name
  <2>1. requests'[r] = x
    BY <1>0, <1>3 DEF Finds
  <2>2. CASE Named(r, x)
    BY <2>1, <2>2 DEF Named
  <2>3. CASE Joined(r, x)
    <3>1. PICK c \in requests[r].todo :
             LET records == {other \in requests[r].todo : other.domain = c.domain} IN
             x.shown = requests[r].shown \cup
                          {[route |-> h, name |-> domains[c.domain]] : h \in records}
      BY <2>3 DEF Joined
    <3>2. \A h \in x.shown : \/ h \in requests[r].shown /\ h.route.domain # c.domain
                             \/ h.route.domain = c.domain /\ h.name = domains[c.domain]
      BY <3>1 DEF TodoInv
    <3> QED
      BY <2>1, <3>2 DEF OneNamePerDomain, Answer
  <2> QED
    BY <1>3, <2>1, <2>2, <2>3 DEF Finds, Located, Looked
<1> QED
  BY <1>1, <1>2, <1>3, RequestSteps DEF Steps, Outside, Waits

LEMMA NextSpaceInv == ASSUME TypeOK, RequestInv, SpaceInv, [Next]_vars PROVE SpaceInv'
<1> SUFFICES ASSUME NEW r \in Requests, requests'[r].op = "listAppRoutes"
             PROVE  /\ \A record \in requests'[r].todo : record.space = requests'[r].space
                    /\ \A f \in requests'[r].shown : f.route.space = requests'[r].space
  BY DEF SpaceInv
<1>0. requests \in [Requests -> Request]
  BY DEF TypeOK
<1>1. CASE requests'[r] = requests[r]
  BY <1>1 DEF SpaceInv
<1>2. ASSUME NEW request \in Request, Arrives(r, request)
      PROVE  requests'[r].todo = {} /\ requests'[r].shown = {}
  BY <1>0, <1>2 DEF Arrives
<1>3. ASSUME NEW x \in Request, Finds(r, x)
      PROVE  /\ \A record \in x.todo : record.space = x.space
             /\ \A f \in x.shown : f.route.space = x.space
  <2>1. requests'[r] = x /\ x.op = "listAppRoutes" /\ requests[r].op = "listAppRoutes"
    BY <1>0, <1>3 DEF Finds, SameKind
  <2>2. ~Named(r, x)
    BY <2>1 DEF Named, At, RequestInv, Holds, Calls, Ops
  <2>3. CASE Located(r, x)
    BY <2>3 DEF Located
  <2>4. CASE Looked(r, x)
    BY <2>1, <2>4 DEF Looked, RoutesOfApp
  <2>5. CASE Joined(r, x)
    <3>1. PICK c \in requests[r].todo :
           LET records == {other \in requests[r].todo : other.domain = c.domain} IN
           /\ x.todo = requests[r].todo \ records
           /\ x.shown = requests[r].shown \cup
                           {[route |-> g, name |-> domains[c.domain]] : g \in records}
      BY <2>5 DEF Joined
    <3>2. x.space = requests[r].space
      BY <2>5 DEF Joined
    <3> QED
      BY <2>1, <3>1, <3>2 DEF SpaceInv
  <2> QED
    BY <1>3, <2>2, <2>3, <2>4, <2>5 DEF Finds
<1>4. ASSUME NEW x \in Request, Finds(r, x) PROVE requests'[r] = x
  BY <1>0, <1>4 DEF Finds
<1> QED
  BY <1>1, <1>2, <1>3, <1>4, RequestSteps DEF Steps, Outside, Waits

\* The routes of the list of an app are of the space it was found in.
LEMMA OneSpace == SpaceInv => AppRoutesInOneSpace
  BY DEF SpaceInv, AppRoutesInOneSpace, Answer

LEMMA NextNamesInv == ASSUME TypeOK, RequestInv, NamesInv, [Next]_vars PROVE NamesInv'
<1> SUFFICES ASSUME NEW r \in Requests
             PROVE  /\ InFlight(r)' => NamesNow' \subseteq history'[r].names
                    /\ \A f \in requests'[r].shown :
                          <<f.route.domain, f.name>> \in history'[r].names
  BY DEF NamesInv
<1>0. /\ requests \in [Requests -> Request]
      /\ pc \in [Requests -> PCs] /\ status \in [Requests -> Statuses]
      /\ history \in [Requests -> [stable : SUBSET Found,
                                   names : SUBSET (DomainGUIDs \X Names)]]
      /\ Holds(r)
  BY DEF TypeOK, RequestInv
<1>1. CASE Outside
  <2>1. InFlight(r) => history'[r].names = history[r].names \cup NamesNow'
    BY <1>1 DEF Outside, Observed
  <2>2. ~InFlight(r) => history'[r] = history[r]
    BY <1>1 DEF Outside, Observed
  <2>3. InFlight(r)' <=> InFlight(r)
    BY <1>1 DEF Outside, InFlight, Arrived, Pending
  <2>4. requests'[r] = requests[r]
    BY <1>1 DEF Outside
  <2> QED
    BY <2>1, <2>2, <2>3, <2>4 DEF NamesInv
<1>2. CASE Calm /\ Waits(r)
  <2>1. InFlight(r)' => InFlight(r)
    BY <1>0, <1>2 DEF Waits, InFlight, Arrived, Pending
  <2>2. NamesNow' = NamesNow
    BY <1>2 DEF Calm, NamesNow
  <2> QED
    BY <1>2, <2>1, <2>2 DEF Waits, NamesInv
<1>3. ASSUME NEW request \in Request, Arrives(r, request)
      PROVE  NamesNow' = history'[r].names /\ requests'[r].shown = {}
  <2>1. NamesNow' = NamesNow
    BY <1>3 DEF Arrives, NamesNow, cluster
  <2> QED
    BY <1>0, <1>3, <2>1 DEF Arrives
<1>4. ASSUME NEW x \in Request, Finds(r, x)
      PROVE  /\ NamesNow' \subseteq history'[r].names
             /\ \A f \in requests'[r].shown : <<f.route.domain, f.name>> \in history'[r].names
  <2>1. NamesNow' = NamesNow /\ history' = history /\ requests'[r] = x
    BY <1>0, <1>4 DEF Finds, NamesNow, cluster
  <2>2. InFlight(r)
    BY <1>4 DEF Finds, Named, Located, Looked, Joined, At, InFlight, Arrived
  <2>3. NamesNow \subseteq history[r].names
    BY <2>2 DEF NamesInv
  <2>4. \A d \in DomainGUIDs : Exists(domains[d]) => <<d, domains[d]>> \in history[r].names
    BY <2>3 DEF NamesNow
  <2>5. CASE Named(r, x)
    <3>1. requests[r].domain \in DomainGUIDs
      BY <1>0, <2>5 DEF Named, At, Holds, Calls, Ops
    <3> QED
      BY <2>1, <2>3, <2>4, <2>5, <3>1 DEF Named
  <2>6. CASE Joined(r, x)
    <3>1. PICK c \in requests[r].todo :
             LET records == {other \in requests[r].todo : other.domain = c.domain} IN
             /\ Exists(domains[c.domain])
             /\ x.shown = requests[r].shown \cup
                             {[route |-> g, name |-> domains[c.domain]] : g \in records}
      BY <2>6 DEF Joined
    <3>2. requests[r].todo \subseteq Found
      BY <1>0 DEF Request
    <3>3. c.domain \in DomainGUIDs
      BY <3>2 DEF Found
    <3>4. <<c.domain, domains[c.domain]>> \in history[r].names
      BY <2>4, <3>1, <3>3
    <3>5. \A f \in x.shown : \/ f \in requests[r].shown
                             \/ f.route.domain = c.domain /\ f.name = domains[c.domain]
      BY <3>1
    <3> QED
      BY <2>1, <2>3, <3>4, <3>5 DEF NamesInv
  <2> QED
    BY <1>4, <2>1, <2>3, <2>5, <2>6 DEF Finds, Located, Looked
<1> QED
  BY <1>1, <1>2, <1>3, <1>4, RequestSteps DEF Steps

\* No handler takes a route out of a list.
LEMMA ListsGrow ==
  ASSUME TypeOK, RequestInv, CreateInv, Calm
  PROVE  /\ AllRoutes \subseteq AllRoutes'
         /\ \A a \in AppGUIDs, s \in Spaces : RoutesOfApp(a, s) \subseteq RoutesOfApp(a, s)'
<1>1. ASSUME NEW g \in RouteGUIDs, NEW s \in Spaces, Exists(routes[g][s])
      PROVE  routes'[g][s] = routes[g][s]
  <2>1. CASE UNCHANGED routes
    BY <2>1
  <2>2. ASSUME NEW p \in Requests, CreateRoute(p) PROVE routes'[g][s] = routes[g][s]
    <3>1. pc[p] = "create" /\ requests[p].guid \in RouteGUIDs /\ requests[p].space \in Spaces
      BY <2>2 DEF CreateRoute, RequestInv, Holds, Calls, Ops
    <3>2. requests[p].guid # g \/ requests[p].space # s
      BY <1>1, <3>1 DEF CreateInv, Exists
    <3> QED
      BY <2>2, <3>1, <3>2 DEF CreateRoute, TypeOK
  <2> QED
    BY <2>1, <2>2 DEF Calm
<1>2. ASSUME NEW f \in AllRoutes
      PROVE  f \in AllRoutes' /\ f.guid \in RouteGUIDs /\ f.space \in Spaces
             /\ routes'[f.guid][f.space] = routes[f.guid][f.space]
  <2>1. PICK g \in RouteGUIDs, s \in Spaces : Exists(routes[g][s]) /\ f = RouteRecord(g, s)
    BY DEF AllRoutes
  <2>2. f.guid = g /\ f.space = s /\ f = [guid |-> g, space |-> s, domain |-> routes'[g][s].domain]
    BY <1>1, <2>1 DEF RouteRecord
  <2>3. <<g, s>> \in {q \in RouteGUIDs \X Spaces : Exists(routes'[q[1]][q[2]])}
    BY <1>1, <2>1
  <2>4. f \in AllRoutes'
    <3>1. f = RouteRecord(<<g, s>>[1], <<g, s>>[2])'
      BY <2>2 DEF RouteRecord
    <3> QED
      BY <2>3, <3>1 DEF AllRoutes
  <2> QED
    BY <1>1, <2>1, <2>2, <2>4
<1>3. ASSUME NEW a \in AppGUIDs, NEW s \in Spaces, NEW f \in RoutesOfApp(a, s)
      PROVE  f \in RoutesOfApp(a, s)'
  <2>1. f \in AllRoutes /\ f.space = s /\ a \in routes[f.guid][s].apps
    BY DEF RoutesOfApp
  <2>2. f \in AllRoutes' /\ a \in routes'[f.guid][s].apps
    BY <1>2, <2>1
  <2> QED
    BY <2>1, <2>2 DEF RoutesOfApp
<1> QED
  BY <1>2, <1>3

\* What was looked up, or joined with its domains, has the routes that stayed.
LEMMA StableFound ==
  ASSUME TypeOK, RequestInv, StableInv, NEW r \in Requests, NEW x \in Request, Finds(r, x),
         Looked(r, x) \/ Joined(r, x)
  PROVE  history'[r].stable \subseteq x.todo \cup {f.route : f \in x.shown}
<1>1. history'[r].stable = history[r].stable
  BY DEF Finds
<1>2. InFlight(r)
  BY DEF Looked, Joined, At, InFlight, Arrived
<1>3. CASE Looked(r, x)
  <2>1. x.op = requests[r].op /\ x.app = requests[r].app /\ x.space = requests[r].space
    BY <1>3 DEF Finds, SameKind, Looked
  <2>2. CASE pc[r] = "fetchRoute" /\ x.op = "getRoute"
    BY <1>1, <1>2, <2>1, <2>2 DEF StableInv
  <2>3. CASE pc[r] = "listRoutes" /\ x.op = "listRoutes" /\ x.todo = AllRoutes
    BY <1>1, <1>2, <2>1, <2>3 DEF StableInv, Listable
  <2>4. CASE pc[r] = "listAppRoutes" /\ x.todo = RoutesOfApp(x.app, x.space)
    BY <1>1, <1>2, <2>1, <2>4 DEF StableInv
  <2> QED
    BY <1>3, <2>2, <2>3, <2>4 DEF Looked
<1>4. CASE Joined(r, x)
  <2>1. PICK c \in requests[r].todo :
           LET records == {other \in requests[r].todo : other.domain = c.domain} IN
           /\ x.todo = requests[r].todo \ records
           /\ x.shown = requests[r].shown \cup
                           {[route |-> g, name |-> domains[c.domain]] : g \in records}
    BY <1>4 DEF Joined
  <2>2. history[r].stable \subseteq requests[r].todo \cup {f.route : f \in requests[r].shown}
    BY <1>2, <1>4 DEF StableInv, Joined, At
  <2>3. ASSUME NEW h \in requests[r].todo PROVE h \in x.todo \cup {f.route : f \in x.shown}
    <3>1. CASE h.domain = c.domain
      <4>1. [route |-> h, name |-> domains[c.domain]] \in x.shown
        BY <2>1, <3>1
      <4> QED
        BY <4>1
    <3>2. CASE h.domain # c.domain
      BY <2>1, <3>2
    <3> QED
      BY <3>1, <3>2
  <2>4. {f.route : f \in requests[r].shown} \subseteq {f.route : f \in x.shown}
    BY <2>1
  <2> QED
    BY <1>1, <2>2, <2>3, <2>4
<1> QED
  BY <1>3, <1>4

LEMMA NextStableInv ==
  ASSUME TypeOK, RequestInv, CreateInv, StableInv, [Next]_vars PROVE StableInv'
<1> DEFINE Goal(r) ==
        /\ requests'[r].op \in {"createRoute", "getRoute"} => history'[r].stable = {}
        /\ pc'[r] \in {"listRoutes", "fetchApp"} =>
              history'[r].stable \subseteq Listable(requests[r])'
        /\ pc'[r] = "listAppRoutes" =>
              history'[r].stable \subseteq RoutesOfApp(requests[r].app, requests[r].space)'
        /\ pc'[r] = "fetchDomains" =>
              history'[r].stable \subseteq
                  requests'[r].todo \cup {f.route : f \in requests'[r].shown}
<1> SUFFICES ASSUME NEW r \in Requests, InFlight(r)' PROVE Goal(r)
  BY DEF StableInv
<1>0. /\ requests \in [Requests -> Request]
      /\ pc \in [Requests -> PCs] /\ status \in [Requests -> Statuses]
      /\ history \in [Requests -> [stable : SUBSET Found,
                                   names : SUBSET (DomainGUIDs \X Names)]]
      /\ Holds(r)
  BY DEF TypeOK, RequestInv
<1>1. CASE Outside
  <2>1. InFlight(r) /\ requests' = requests /\ pc' = pc
    BY <1>1 DEF Outside, InFlight, Arrived, Pending
  <2>2. history'[r].stable = history[r].stable \cap Listable(requests[r])'
    BY <1>1, <2>1 DEF Outside, Observed
  <2>3. pc[r] = "listAppRoutes" =>
           history'[r].stable \subseteq RoutesOfApp(requests[r].app, requests[r].space)'
    <3> SUFFICES ASSUME pc[r] = "listAppRoutes", NEW f \in history'[r].stable
                 PROVE  f \in RoutesOfApp(requests[r].app, requests[r].space)'
      OBVIOUS
    <3>1. requests'[r].op = "listAppRoutes"
      BY <1>0, <2>1 DEF Holds, Calls, Ops
    <3>2. f.space = requests[r].space
      BY <2>1, <2>2 DEF StableInv, RoutesOfApp
    <3>3. f \in UNION {RoutesOfApp(requests[r].app, s)' : s \in appSpaces'[requests'[r].app]}
      BY <2>2, <3>1 DEF Listable
    <3>4. PICK s \in appSpaces'[requests'[r].app] : f \in RoutesOfApp(requests[r].app, s)'
      BY <3>3
    <3>5. f.space = s
      BY <3>4 DEF RoutesOfApp
    <3> QED
      BY <2>1, <3>2, <3>4, <3>5
  <2> QED
    BY <2>1, <2>2, <2>3 DEF StableInv
<1>2. CASE Calm /\ Waits(r)
  <2>1. /\ InFlight(r) /\ requests'[r] = requests[r] /\ history'[r] = history[r]
        /\ pc'[r] \in {"listRoutes", "fetchApp", "listAppRoutes", "fetchDomains"} => pc'[r] = pc[r]
    BY <1>0, <1>2 DEF Waits, InFlight, Arrived, Pending
  <2>2. pc[r] = "listRoutes" => Listable(requests[r]) \subseteq Listable(requests[r])'
    <3>1. pc[r] = "listRoutes" => requests[r].op = "listRoutes"
      BY <1>0 DEF Holds, Calls, Ops
    <3> QED
      BY <1>2, <2>1, <3>1, ListsGrow DEF Listable
  <2>3. pc[r] = "fetchApp" => Listable(requests[r]) \subseteq Listable(requests[r])'
    <3> SUFFICES ASSUME pc[r] = "fetchApp", NEW f \in Listable(requests[r])
                 PROVE  f \in Listable(requests[r])'
      OBVIOUS
    <3>1. requests[r].op = "listAppRoutes" /\ requests[r].app \in AppGUIDs
      BY <1>0 DEF Holds, Calls, Ops
    <3>2. PICK s \in appSpaces[requests[r].app] : f \in RoutesOfApp(requests[r].app, s)
      BY <3>1 DEF Listable
    <3>3. s \in Spaces /\ s \in appSpaces'[requests[r].app]
      BY <1>2, <3>1 DEF TypeOK, Calm
    <3>4. f \in RoutesOfApp(requests[r].app, s)'
      BY <1>2, <2>1, <3>1, <3>2, <3>3, ListsGrow DEF RoutesOfApp
    <3> QED
      BY <2>1, <3>1, <3>3, <3>4 DEF Listable
  <2>4. pc[r] = "listAppRoutes" =>
           RoutesOfApp(requests[r].app, requests[r].space)
             \subseteq RoutesOfApp(requests[r].app, requests[r].space)'
    <3>1. pc[r] = "listAppRoutes" => requests[r].app \in AppGUIDs /\ requests[r].space \in Spaces
      BY <1>0 DEF Holds, Calls, Ops
    <3> QED
      BY <1>2, <2>1, <3>1, ListsGrow DEF RoutesOfApp
  <2> QED
    BY <2>1, <2>2, <2>3, <2>4 DEF StableInv
<1>3. ASSUME NEW request \in Request, Arrives(r, request) PROVE Goal(r)
  <2>1. /\ requests'[r] = request /\ history'[r].stable = Listable(request)
        /\ UNCHANGED <<appSpaces, routes>>
    BY <1>0, <1>3 DEF Arrives, cluster
  <2>2. Listable(requests[r])' = Listable(request)
    BY <2>1 DEF Listable, RoutesOfApp, AllRoutes, RouteRecord
  <2>3. pc'[r] \notin {"listAppRoutes", "fetchDomains"}
    BY <1>0, <1>3 DEF Arrives, Call, Reply, FirstCall, Ops
  <2>4. request.op \in {"createRoute", "getRoute"} => Listable(request) = {}
    BY DEF Listable
  <2> QED
    BY <2>1, <2>2, <2>3, <2>4
<1>4. ASSUME NEW x \in Request, Finds(r, x) PROVE Goal(r)
  <2>1. /\ requests'[r] = x /\ history' = history /\ UNCHANGED <<appSpaces, routes>>
        /\ x.op = requests[r].op /\ x.app = requests[r].app
    BY <1>0, <1>4 DEF Finds, SameKind, cluster
  <2>2. InFlight(r)
    BY <1>4 DEF Finds, Named, Located, Looked, Joined, At, InFlight, Arrived
  <2>3. x.op \in {"createRoute", "getRoute"} => history'[r].stable = {}
    BY <2>1, <2>2 DEF StableInv
  <2>4. CASE Named(r, x)
    BY <1>0, <2>1, <2>3, <2>4 DEF Named, Call
  <2>5. CASE Located(r, x)
    <3>1. pc'[r] = "listAppRoutes" /\ pc[r] = "fetchApp"
      BY <1>0, <2>5 DEF Located, Call, At
    <3>2. requests[r].op = "listAppRoutes"
      BY <1>0, <3>1 DEF Holds, Calls, Ops
    <3>3. history[r].stable \subseteq Listable(requests[r])
      BY <2>2, <3>1 DEF StableInv
    <3>4. Listable(requests[r]) = RoutesOfApp(x.app, x.space)
      BY <2>1, <2>5, <3>2 DEF Listable, Located
    <3>5. RoutesOfApp(requests[r].app, requests[r].space)' = RoutesOfApp(x.app, x.space)
      BY <2>1 DEF RoutesOfApp, AllRoutes, RouteRecord
    <3> QED
      BY <2>1, <2>3, <3>1, <3>3, <3>4, <3>5
  <2>6. CASE Looked(r, x) \/ Joined(r, x)
    <3>1. pc'[r] \in {"done", "fetchDomains"}
      BY <1>0, <2>6 DEF Looked, Joined, Reply, Call, At
    <3> QED
      BY <1>4, <2>1, <2>3, <2>6, <3>1, StableFound
  <2> QED
    BY <1>4, <2>4, <2>5, <2>6 DEF Finds
<1> HIDE DEF Goal
<1> QED
  BY <1>1, <1>2, <1>3, <1>4, RequestSteps DEF Steps

LEMMA NextAnswerIsTimely ==
  ASSUME TypeOK, RequestInv, NamesInv, StableInv, AnswerIsTimely, [Next]_vars
  PROVE  AnswerIsTimely'
<1> SUFFICES ASSUME NEW r \in Requests, status'[r] = "OK"
             PROVE  history'[r].stable \subseteq {f.route : f \in requests'[r].shown}
  BY NextNamesInv DEF AnswerIsTimely, NamesInv, Answer
<1>0. /\ requests \in [Requests -> Request]
      /\ pc \in [Requests -> PCs] /\ status \in [Requests -> Statuses]
      /\ Holds(r)
  BY DEF TypeOK, RequestInv
<1>1. CASE Outside
  <2>1. status[r] = "OK" /\ requests' = requests
    BY <1>1 DEF Outside
  <2>2. history'[r] = history[r]
    BY <1>1, <2>1 DEF Outside, Observed, InFlight, Pending
  <2> QED
    BY <2>1, <2>2 DEF AnswerIsTimely, Answer
<1>2. CASE Waits(r)
  <2>1. CASE status[r] = "OK"
    BY <1>2, <2>1 DEF Waits, AnswerIsTimely, Answer
  <2>2. CASE status[r] # "OK"
    <3>1. InFlight(r) /\ pc[r] = "create" /\ history'[r] = history[r]
      BY <1>2, <2>2 DEF Waits
    <3>2. requests[r].op = "createRoute"
      BY <1>0, <3>1 DEF Holds, Calls, Ops
    <3> QED
      BY <3>1, <3>2 DEF StableInv
  <2> QED
    BY <2>1, <2>2
<1>3. ASSUME NEW request \in Request, Arrives(r, request) PROVE FALSE
  BY <1>0, <1>3 DEF Arrives, Call, Reply, PayloadErrors, Holds
<1>4. ASSUME NEW x \in Request, Finds(r, x)
      PROVE  history'[r].stable \subseteq {f.route : f \in requests'[r].shown}
  <2>1. requests'[r] = x
    BY <1>0, <1>4 DEF Finds
  <2>2. (Looked(r, x) \/ Joined(r, x)) /\ x.todo = {}
    BY <1>0, <1>4 DEF Finds, Named, Located, Looked, Joined, At, Pending, Call, Reply
  <2> QED
    BY <1>4, <2>1, <2>2, StableFound
<1> QED
  BY <1>1, <1>2, <1>3, <1>4, RequestSteps DEF Steps

LEMMA NextIInv == IInv /\ [Next]_vars => IInv'
<1> SUFFICES ASSUME IInv, [Next]_vars PROVE IInv'
  OBVIOUS
<1> USE DEF IInv
<1>1. TypeOK' /\ RequestInv' /\ CreateInv'
  BY NextTypeOK, NextRequestInv, NextCreateInv
<1>2. TodoInv' /\ OneNamePerDomain' /\ SpaceInv'
  BY NextTodoInv, NextOneNamePerDomain, NextSpaceInv
<1>3. NamesInv' /\ StableInv' /\ AnswerIsTimely'
  BY NextNamesInv, NextStableInv, NextAnswerIsTimely
<1>4. DomainWasThere'
  BY NextDomainWasThere
<1> QED
  BY <1>1, <1>2, <1>3, <1>4
-----------------------------------------------------------------------------
(***************************************************************************)
(* Theorems                                                                *)
(***************************************************************************)
\* The inductive invariant holds of every behaviour.
THEOREM Invariance == Spec => []IInv
  BY InitIInv, NextIInv, PTL DEF Spec

\* What the handlers hold and what the cluster stores is always of its type: no record
\* is put together without its guid, its namespace or its domain.
THEOREM Typing == Spec => []TypeOK
  BY Invariance, PTL DEF IInv

\* An answer gives a domain one name, though the domain is renamed while it is put
\* together: its name is read once for all the routes that have it.
THEOREM NameSafety == Spec => []OneNamePerDomain
  BY Invariance, PTL DEF IInv

\* No answer shows a name that its domain did not have since the request arrived, and no
\* list leaves out a route that was there all the time.
THEOREM AnswerSafety == Spec => []AnswerIsTimely
  BY Invariance, PTL DEF IInv

\* The list of an app's routes is of one space.
THEOREM AppRoutesSafety == Spec => []AppRoutesInOneSpace
<1>1. IInv => AppRoutesInOneSpace
  BY OneSpace DEF IInv
<1> QED
  BY <1>1, Invariance, PTL

\* A route is only ever written with a domain that is or was there, though the domain is
\* deleted between the call that finds it and the one that writes the route.
THEOREM DomainSafety == Spec => []DomainWasThere
  BY Invariance, PTL DEF IInv
=============================================================================
