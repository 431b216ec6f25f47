------------------------------- MODULE Routes -------------------------------
(***************************************************************************)
(* Routes and domains: GET and POST /v3/routes, GET /v3/routes/<guid>, GET *)
(* /v3/routes/<guid>/destinations (apis/route_handler.go) and GET          *)
(* /v3/apps/<guid>/routes (apis/app_handler.go) over the CFRoute and       *)
(* CFDomain resources (repositories/route_repository.go,                   *)
(* domain_repository.go).  A route names its domain, and what a handler    *)
(* shows is put together from a read of the routes and one read of each    *)
(* domain, while both change.                                              *)
(***************************************************************************)
EXTENDS Cluster, Handlers

CONSTANTS RouteGUIDs, DomainGUIDs,
          Names,         \* of domains
          AppGUIDs, None

VARIABLES spaces,        \* the namespaces that exist
          appSpaces,     \* appSpaces[a]: namespaces with a CFApp named a
          domains,       \* domains[d]: the name that the CFDomain d gives
          routes,        \* routes[g][s]: the CFRoute g of namespace s
          requests,      \* what the handlers hold
          history        \* what the cluster was like while a request was served

cluster == <<spaces, appSpaces, domains, routes>>
vars == <<cluster, requests, history, pc, status>>

\* "apps": the apps its destinations name.
Route == [domain : DomainGUIDs, apps : SUBSET AppGUIDs]

Ops == {"createRoute", "getRoute", "listRoutes", "listAppRoutes"}

ASSUME RoutesAssumption ==
    /\ None \notin RouteGUIDs \cup DomainGUIDs \cup AppGUIDs \cup Spaces \cup Ops
    /\ Names \cap {Absent, Deleted} = {}
    /\ Absent \notin Route /\ Deleted \notin Route

\* pc of routeCreateHandler: namespace, fetchDomain, create; of the readers:
\* fetchRoute, listRoutes, or fetchApp and listAppRoutes, and then fetchDomains.
PCs == {"idle", "namespace", "fetchDomain", "create", "fetchRoute", "listRoutes",
        "fetchApp", "listAppRoutes", "fetchDomains", "done"}
Writes == {"create"}

\* A record of a route, and a record that has its domain.
Found == [guid : RouteGUIDs, space : Spaces, domain : DomainGUIDs]
Shown == [route : Found, name : Names]

\* What a handler holds: the records whose domain is still to be fetched and the
\* others.
Request == [op : Ops \cup {None}, guid : RouteGUIDs \cup {None},
            space : Spaces \cup {None}, domain : DomainGUIDs \cup {None},
            app : AppGUIDs \cup {None}, todo : SUBSET Found, shown : SUBSET Shown]

NoRequest == [op |-> None, guid |-> None, space |-> None, domain |-> None,
              app |-> None, todo |-> {}, shown |-> {}]

\* Routes and domains may be there already.
Init ==
    /\ spaces = Spaces
    /\ appSpaces \in [AppGUIDs -> {{s} : s \in Spaces}]
    /\ domains \in [DomainGUIDs -> Names \cup {Absent}]
    /\ \E there \in [RouteGUIDs -> [space : Spaces, route : Route] \cup {Absent}] :
          /\ \A g \in RouteGUIDs :
                there[g] # Absent => domains[there[g].route.domain] # Absent
          /\ routes = [g \in RouteGUIDs |-> [s \in Spaces |->
                 IF there[g] # Absent /\ there[g].space = s THEN there[g].route ELSE Absent]]
    /\ requests = [r \in Requests |-> NoRequest]
    /\ history = [r \in Requests |-> [stable |-> {}, names |-> {}]]
    /\ pc = [r \in Requests |-> "idle"]
    /\ status = [r \in Requests |-> "Pending"]
-----------------------------------------------------------------------------
(***************************************************************************)
(* Kept for the properties only: the routes that a list should show if     *)
(* they stay, and the names that the domains have had, since it arrived.   *)
(***************************************************************************)
\* A variant that leaves the namespace out.
RouteRecordNowhere(g, s) == [guid |-> g, space |-> None, domain |-> routes[g][s].domain]

\* cfRouteToRouteRecord
RouteRecord(g, s) == [guid |-> g, space |-> s, domain |-> routes[g][s].domain]

AllRoutes == {RouteRecord(p[1], p[2]) : p \in {q \in RouteGUIDs \X Spaces :
                                                  Exists(routes[q[1]][q[2]])}}

\* filterByAppDestination over a list of the one namespace.
RoutesOfApp(a, s) ==
    {record \in AllRoutes : record.space = s /\ a \in routes[record.guid][s].apps}

Listable(request) ==
    CASE request.op = "listRoutes" -> AllRoutes
      [] request.op = "listAppRoutes" ->
            UNION {RoutesOfApp(request.app, s) : s \in appSpaces[request.app]}
      [] OTHER -> {}

NamesNow == {<<d, domains[d]>> : d \in {c \in DomainGUIDs : Exists(domains[c])}}

Observed ==
    history' = [r \in Requests |->
        IF InFlight(r)
        THEN [stable |-> history[r].stable \cap Listable(requests[r])',
              names |-> history[r].names \cup NamesNow']
        ELSE history[r]]
-----------------------------------------------------------------------------
ReadFails(r, p) ==
    /\ At(r, p)
    /\ Reply(r, "UnknownError")
    /\ UNCHANGED <<cluster, requests, history>>

\* A request arrives; a payload is decoded and validated; a client is built.
Receive(r, next, errors, request) ==
    /\ pc[r] = "idle"
    /\ \/ Call(r, next)
       \/ \E error \in errors : Reply(r, error)
    /\ requests' = [requests EXCEPT ![r] = request]
    /\ history' = [history EXCEPT ![r] = [stable |-> Listable(request), names |-> NamesNow]]
    /\ UNCHANGED cluster

ReceiveCreate(r, s, d) ==
    Receive(r, "namespace", PayloadErrors \cup {"UnknownError"},
            [NoRequest EXCEPT !.op = "createRoute", !.space = s, !.domain = d])

\* routeGetHandler and routeGetDestinationsHandler look the same record up.
ReceiveGet(r, g) ==
    Receive(r, "fetchRoute", {"UnknownError"},
            [NoRequest EXCEPT !.op = "getRoute", !.guid = g])

ReceiveList(r) ==
    Receive(r, "listRoutes", {"UnknownError"}, [NoRequest EXCEPT !.op = "listRoutes"])

ReceiveListOfApp(r, a) ==
    Receive(r, "fetchApp", {"UnknownError"},
            [NoRequest EXCEPT !.op = "listAppRoutes", !.app = a])
-----------------------------------------------------------------------------
(***************************************************************************)
(* routeCreateHandler                                                      *)
(***************************************************************************)

\* appRepo.FetchNamespace.  The namespace is not there, or it is and the API server
\* does not let the shim see it.
FetchNamespace(r) ==
    /\ At(r, "namespace")
    /\ \/ requests[r].space \in spaces /\ Call(r, "fetchDomain")
       \/ Reply(r, "UnprocessableEntity")
    /\ UNCHANGED <<cluster, requests, history>>

\* uuid.New: a name no object and no create carries.
Fresh(g) ==
    /\ \A s \in Spaces : routes[g][s] = Absent
    /\ \A r \in Requests : requests[r].op = "createRoute" => requests[r].guid # g

\* A variant that creates the route whatever becomes of its domain, which the
\* answer then does not have.
FetchDomainUnchecked(r) ==
    /\ At(r, "fetchDomain")
    /\ \E g \in RouteGUIDs :
          /\ Fresh(g)
          /\ Call(r, "create")
          /\ requests' = [requests EXCEPT ![r].guid = g]
    /\ UNCHANGED <<cluster, history>>

\* domainRepo.FetchDomain; then the name of the CFRoute is drawn.  A domain that the
\* shim may not see is answered like one that is not there.
FetchDomain(r) ==
    LET d == requests[r].domain
        s == requests[r].space IN
    /\ At(r, "fetchDomain")
    /\ \/ /\ Reply(r, "UnprocessableEntity")
          /\ UNCHANGED requests
       \/ \E g \in RouteGUIDs :
             /\ Exists(domains[d])
             /\ Fresh(g)
             /\ Call(r, "create")
             /\ requests' = [requests EXCEPT ![r] =
                   [@ EXCEPT !.guid = g,
                             !.shown = {[route |-> [guid |-> g, space |-> s, domain |-> d],
                                         name |-> domains[d]]}]]
    /\ UNCHANGED <<cluster, history>>

\* routeRepo.CreateRoute; a new route has no destinations.
CreateRoute(r) ==
    LET g == requests[r].guid
        s == requests[r].space IN
    /\ pc[r] = "create"
    /\ s \in spaces
    /\ routes' = [routes EXCEPT ![g][s] = [domain |-> requests[r].domain, apps |-> {}]]
    /\ Landed(r, "OK")
    /\ UNCHANGED <<spaces, appSpaces, domains, requests, history>>
-----------------------------------------------------------------------------
(***************************************************************************)
(* routeGetHandler, routeGetListHandler, getRoutesForAppHandler            *)
(***************************************************************************)
FetchApp(r) ==
    LET in == appSpaces[requests[r].app] IN
    /\ At(r, "fetchApp")
    /\ \/ in = {} /\ Reply(r, "ResourceNotFound") /\ UNCHANGED requests
       \/ (\E s, t \in in : s # t) /\ Reply(r, "UnknownError") /\ UNCHANGED requests
       \/ \E s \in Spaces : /\ in = {s}
                            /\ Call(r, "listAppRoutes")
                            /\ requests' = [requests EXCEPT ![r].space = s]
    /\ UNCHANGED <<cluster, history>>

\* The domains of the records are fetched next, if there are any.
FoundRoutes(r, records) ==
    /\ requests' = [requests EXCEPT ![r].todo = records]
    /\ IF records = {} THEN Reply(r, "OK") ELSE Call(r, "fetchDomains")
    /\ UNCHANGED <<cluster, history>>

FetchRoute(r) ==
    LET g == requests[r].guid IN
    /\ At(r, "fetchRoute")
    /\ \/ /\ NotFound(routes, g)
          /\ Reply(r, "ResourceNotFound")
          /\ UNCHANGED <<cluster, requests, history>>
       \/ /\ Duplicated(routes, g)
          /\ Reply(r, "UnknownError")
          /\ UNCHANGED <<cluster, requests, history>>
       \/ \E s \in Spaces : FoundIn(routes, g, s) /\ FoundRoutes(r, {RouteRecord(g, s)})

ListRoutes(r) == At(r, "listRoutes") /\ FoundRoutes(r, AllRoutes)

\* A variant that leaves the namespace out of the list.
ListedForAppAnywhere(a, s) == {record \in AllRoutes : a \in routes[record.guid][record.space].apps}

\* routeRepo.FetchRoutesForApp
ListedForApp(a, s) == RoutesOfApp(a, s)

ListAppRoutes(r) ==
    /\ At(r, "listAppRoutes")
    /\ FoundRoutes(r, ListedForApp(requests[r].app, requests[r].space))

\* A variant that fetches the domain of every route on its own.
WithDomainOf(todo, record) == {record}

\* getDomainsForRoutes remembers the domain for the routes that have it too.
WithSameDomain(todo, record) == {other \in todo : other.domain = record.domain}

\* A variant that leaves out the routes whose domain is not there.
DomainMissingSkipped(r, records) ==
    /\ requests' = [requests EXCEPT ![r].todo = @ \ records]
    /\ IF requests[r].todo = records THEN Reply(r, "OK") ELSE UNCHANGED <<pc, status>>

\* One route whose domain is not there fails the whole answer.
DomainMissing(r, records) ==
    /\ Reply(r, "UnknownError")
    /\ UNCHANGED requests

\* getDomainsForRoutes, lookupRouteAndDomain: one domain is fetched.
FetchDomainOfRoutes(r) ==
    LET todo == requests[r].todo
        shown == requests[r].shown IN
    /\ At(r, "fetchDomains")
    /\ \E record \in todo :
          LET records == WithSameDomain(todo, record)
              name == domains[record.domain] IN
          IF Exists(name)
          THEN /\ requests' = [requests EXCEPT ![r] =
                     [@ EXCEPT !.todo = todo \ records,
                               !.shown = shown \cup {[route |-> f, name |-> name] : f \in records}]]
               /\ IF todo = records THEN Reply(r, "OK") ELSE UNCHANGED <<pc, status>>
          ELSE DomainMissing(r, records)
    /\ UNCHANGED <<cluster, history>>
-----------------------------------------------------------------------------
(***************************************************************************)
(* Failing calls, the server and the environment                           *)
(***************************************************************************)
RefuseWrite(r) ==
    /\ pc[r] \in Writes
    /\ Landed(r, "UnknownError")
    /\ UNCHANGED <<cluster, requests, history>>

LoseAnswer(r) ==
    /\ pc[r] \in Writes /\ Pending(r)
    /\ AnswerLost(r)
    /\ UNCHANGED <<cluster, requests, history>>

Crash == Crashed(Writes) /\ UNCHANGED <<cluster, requests, history>>

\* Domains are made, renamed and deleted with kubectl, under names that come again.
DomainSet(d, n) ==
    /\ domains[d] # n
    /\ domains' = [domains EXCEPT ![d] = n]
    /\ UNCHANGED <<spaces, appSpaces, routes, requests, pc, status>>
    /\ Observed

DomainDeleted(d) ==
    /\ Exists(domains[d])
    /\ domains' = [domains EXCEPT ![d] = Deleted]
    /\ UNCHANGED <<spaces, appSpaces, routes, requests, pc, status>>
    /\ Observed

\* Another server creates a route: what CreateRoute does there.
RouteCreated(g, s, d) ==
    /\ Fresh(g) /\ s \in spaces /\ Exists(domains[d])
    /\ routes' = [routes EXCEPT ![g][s] = [domain |-> d, apps |-> {}]]
    /\ UNCHANGED <<spaces, appSpaces, domains, requests, pc, status>>
    /\ Observed

\* Destinations are set, routes are deleted or copied into another namespace,
\* with kubectl.
DestinationsSet(g, s, apps) ==
    /\ Exists(routes[g][s]) /\ routes[g][s].apps # apps
    /\ routes' = [routes EXCEPT ![g][s].apps = apps]
    /\ UNCHANGED <<spaces, appSpaces, domains, requests, pc, status>>
    /\ Observed

RouteDeleted(g, s) ==
    /\ Exists(routes[g][s])
    /\ routes' = [routes EXCEPT ![g][s] = Deleted]
    /\ UNCHANGED <<spaces, appSpaces, domains, requests, pc, status>>
    /\ Observed

RouteCopied(g, s, t) ==
    /\ Exists(routes[g][s]) /\ routes[g][t] = Absent /\ t \in spaces
    /\ routes' = [routes EXCEPT ![g][t] = routes[g][s]]
    /\ UNCHANGED <<spaces, appSpaces, domains, requests, pc, status>>
    /\ Observed

\* An app is deleted or restored in some namespace.
AppChanges(a, s) ==
    /\ s \in spaces
    /\ appSpaces' = [appSpaces EXCEPT ![a] = (@ \ {s}) \cup ({s} \ @)]
    /\ UNCHANGED <<spaces, domains, routes, requests, pc, status>>
    /\ Observed

\* A namespace is deleted with everything in it.
SpaceDeleted(s) ==
    /\ s \in spaces
    /\ spaces' = spaces \ {s}
    /\ appSpaces' = [a \in AppGUIDs |-> appSpaces[a] \ {s}]
    /\ routes' = [g \in RouteGUIDs |->
                     [routes[g] EXCEPT ![s] = IF Exists(@) THEN Deleted ELSE @]]
    /\ UNCHANGED <<domains, requests, pc, status>>
    /\ Observed

\* Every request was served and no write is on its way.
Quiescent ==
    /\ \A r \in Requests : pc[r] = "done"
    /\ UNCHANGED vars

HandlerStep(r) ==
    \/ FetchNamespace(r) \/ ReadFails(r, "namespace")
    \/ FetchDomain(r) \/ ReadFails(r, "fetchDomain")
    \/ CreateRoute(r)
    \/ FetchApp(r) \/ ReadFails(r, "fetchApp")
    \/ FetchRoute(r) \/ ReadFails(r, "fetchRoute")
    \/ ListRoutes(r) \/ ReadFails(r, "listRoutes")
    \/ ListAppRoutes(r) \/ ReadFails(r, "listAppRoutes")
    \/ FetchDomainOfRoutes(r) \/ ReadFails(r, "fetchDomains")
    \/ RefuseWrite(r) \/ LoseAnswer(r)

Next ==
    \/ \E r \in Requests :
          \/ \E s \in Spaces, d \in DomainGUIDs : ReceiveCreate(r, s, d)
          \/ \E g \in RouteGUIDs : ReceiveGet(r, g)
          \/ ReceiveList(r)
          \/ \E a \in AppGUIDs : ReceiveListOfApp(r, a)
          \/ HandlerStep(r)
    \/ Crash
    \/ \E d \in DomainGUIDs : (\E n \in Names : DomainSet(d, n)) \/ DomainDeleted(d)
    \/ \E g \in RouteGUIDs, s \in Spaces :
          \/ \E apps \in SUBSET AppGUIDs : DestinationsSet(g, s, apps)
          \/ RouteDeleted(g, s)
          \/ \E d \in DomainGUIDs : RouteCreated(g, s, d)
          \/ \E t \in Spaces : RouteCopied(g, s, t)
    \/ \E a \in AppGUIDs, s \in Spaces : AppChanges(a, s)
    \/ \E s \in Spaces : SpaceDeleted(s)
    \/ Quiescent

Spec == Init /\ [][Next]_vars /\ \A r \in Requests : WF_vars(HandlerStep(r))
-----------------------------------------------------------------------------
(***************************************************************************)
(* Properties                                                              *)
(***************************************************************************)
TypeOK ==
    /\ spaces \subseteq Spaces
    /\ appSpaces \in [AppGUIDs -> SUBSET Spaces]
    /\ domains \in [DomainGUIDs -> Names \cup {Absent, Deleted}]
    /\ routes \in [RouteGUIDs -> [Spaces -> Route \cup {Absent, Deleted}]]
    /\ requests \in [Requests -> Request]
    /\ history \in [Requests -> [stable : SUBSET Found,
                                 names : SUBSET (DomainGUIDs \X Names)]]
    /\ pc \in [Requests -> PCs]
    /\ status \in [Requests -> Statuses]

Answer(r) == requests[r].shown

\* One answer gives a domain one name, although the domain may be renamed, or
\* deleted and made again, between the reads that the answer is put together from.
OneNamePerDomain ==
    \A r \in Requests : \A f, g \in Answer(r) :
        f.route.domain = g.route.domain => f.name = g.name

\* No answer shows a domain under a name that it did not have since the request
\* arrived, and no list leaves out a route that was there all the time: if the
\* domain of one of them is missing there is no answer at all.
AnswerIsTimely ==
    \A r \in Requests :
        status[r] = "OK" =>
            /\ \A f \in Answer(r) : <<f.route.domain, f.name>> \in history[r].names
            /\ history[r].stable \subseteq {f.route : f \in Answer(r)}

\* The list of an app has no routes of other spaces, even when a copy of the app
\* and of its routes lies there: destinations are references within a namespace.
\* An app that is in two spaces has no list at all.
AppRoutesInOneSpace ==
    \A r \in Requests :
        (requests[r].op = "listAppRoutes" /\ status[r] = "OK") =>
            \A f, g \in Answer(r) : f.route.space = g.route.space

\* Every route names a domain that is or was there, whichever of the handler's
\* calls the domain was deleted between.
DomainWasThere ==
    \A g \in RouteGUIDs, s \in Spaces :
        Exists(routes[g][s]) => domains[routes[g][s].domain] # Absent
=============================================================================
