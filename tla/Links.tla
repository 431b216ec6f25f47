-------------------------------- MODULE Links --------------------------------
(***************************************************************************)
(* Links: a client that goes through the API by the links of the documents *)
(* it is shown (presenter/*.go), which the router takes apart again        *)
(* (RegisterRoutes of the handlers, main.go).  The paths are written down  *)
(* twice, as endpoints of handlers and as bases of presenters.  A request  *)
(* is served in one step here, at the time of its last read; the other     *)
(* modules have the calls one by one.                                      *)
(***************************************************************************)
CONSTANTS AppGUIDs, PackageGUIDs, BuildGUIDs, ProcessGUIDs, RouteGUIDs,
          OrgGUIDs, SpaceGUIDs, DomainGUIDs,
          Absent, Deleted, None

VARIABLES objects,       \* objects[g]: the record of the object g
          doc, members,  \* the document that the client is at, and what it lists
          status,        \* the answer to its last request
          from, rel,     \* the document and the link that it followed last
          walk           \* the app that it came by, and has followed links from since

client == <<doc, members, status, from, rel, walk>>
vars == <<objects, client>>

GUIDs == AppGUIDs \cup PackageGUIDs \cup BuildGUIDs \cup ProcessGUIDs \cup RouteGUIDs

Kinds == {"root", "v3", "app", "appList", "currentDroplet", "process", "processList",
          "package", "build", "droplet", "route", "routeList", "appRouteList",
          "destinations", "org", "orgList", "space", "spaceList"}

\* A record, and the document that shows it.  The app of an app is itself, that of a
\* route the one its destination names; a build that is STAGED names its droplet, an
\* app its current one.
Record == [kind : Kinds, guid : GUIDs \cup OrgGUIDs \cup SpaceGUIDs \cup {None},
           app : AppGUIDs \cup {None}, package : PackageGUIDs \cup {None},
           droplet : BuildGUIDs \cup {None}, space : SpaceGUIDs \cup {None},
           org : OrgGUIDs \cup {None}, domain : DomainGUIDs \cup {None}]

\* Every object has a GUID of its own (uuid.NewString), whatever its kind.
ASSUME LinksAssumption ==
    /\ None \notin GUIDs \cup OrgGUIDs \cup SpaceGUIDs \cup DomainGUIDs
    /\ AppGUIDs \cap (PackageGUIDs \cup BuildGUIDs \cup ProcessGUIDs \cup RouteGUIDs) = {}
    /\ PackageGUIDs \cap (BuildGUIDs \cup ProcessGUIDs \cup RouteGUIDs) = {}
    /\ BuildGUIDs \cap (ProcessGUIDs \cup RouteGUIDs) = {}
    /\ ProcessGUIDs \cap RouteGUIDs = {}
    /\ Absent # Deleted /\ Absent \notin Record /\ Deleted \notin Record

Blank(kind) == [kind |-> kind, guid |-> None, app |-> None, package |-> None,
                droplet |-> None, space |-> None, org |-> None, domain |-> None]

Init ==
    /\ objects = [g \in GUIDs |-> Absent]
    /\ doc = Blank("root") /\ from = Blank("root") /\ members = {}
    /\ rel = "self" /\ status = "OK" /\ walk = None
-----------------------------------------------------------------------------
(***************************************************************************)
(* The links of a document                                                 *)
(***************************************************************************)
\* appendPath: base, GUID and the rest of a path.
Link(name, method, base, guid, rest) ==
    [rel |-> name, method |-> method, path |-> <<base, guid, rest>>]

Get(name, base, guid, rest) == Link(name, "GET", base, guid, rest)

\* setQuery: the one page of a list.
Pages(base, guid, rest) == {Get("first", base, guid, rest), Get("last", base, guid, rest)}

\* GetRootResponse
ForRoot == {Get("self", "/", None, ""), Get("cloud_controller_v3", "/v3", None, "")}

\* The links to parts of an app that the shim does not serve are named by their paths.
ForApp(d) ==
    {Get(part, "/v3/apps", d.guid, part) :
        part \in {"processes", "packages", "environment_variables", "droplets/current",
                  "droplets", "tasks", "revisions", "revisions/deployed", "features"}}
    \cup {Get("self", "/v3/apps", d.guid, ""), Get("space", "/v3/spaces", d.space, ""),
          Link("start", "POST", "/v3/apps", d.guid, "actions/start"),
          Link("stop", "POST", "/v3/apps", d.guid, "actions/stop")}

ForCurrentDroplet(d) ==
    {Get("self", "/v3/apps", d.app, "relationships/current_droplet"),
     Get("related", "/v3/apps", d.app, "droplets/current")}

\* A variant whose app link names the process.
ForProcessOwn(d) ==
    {Get("self", "/v3/processes", d.guid, ""), Get("app", "/v3/apps", d.guid, "")}

ForProcess(d) ==
    {Get("self", "/v3/processes", d.guid, ""), Get("app", "/v3/apps", d.app, ""),
     Get("space", "/v3/spaces", d.space, ""), Get("stats", "/v3/processes", d.guid, "stats"),
     Link("scale", "POST", "/v3/processes", d.guid, "actions/scale")}

ForPackage(d) ==
    {Get("self", "/v3/packages", d.guid, ""), Get("app", "/v3/apps", d.app, ""),
     Link("upload", "POST", "/v3/packages", d.guid, "upload"),
     Get("download", "/v3/packages", d.guid, "download")}

\* A variant that has the base of builds for the droplet, which is one.
ForBuildOnly(d) ==
    {Get("self", "/v3/builds", d.guid, ""), Get("app", "/v3/apps", d.app, "")}
    \cup {Get("droplet", "/v3/builds", g, "") : g \in {d.droplet} \ {None}}

ForBuild(d) ==
    {Get("self", "/v3/builds", d.guid, ""), Get("app", "/v3/apps", d.app, "")}
    \cup {Get("droplet", "/v3/droplets", g, "") : g \in {d.droplet} \ {None}}

ForDroplet(d) ==
    {Get("self", "/v3/droplets", d.guid, ""), Get("package", "/v3/packages", d.package, ""),
     Get("app", "/v3/apps", d.app, ""),
     Link("assign_current_droplet", "PATCH", "/v3/apps", d.app, "relationships/current_droplet")}

ForRoute(d) ==
    {Get("self", "/v3/routes", d.guid, ""), Get("space", "/v3/spaces", d.space, ""),
     Get("domain", "/v3/domains", d.domain, ""),
     Get("destinations", "/v3/routes", d.guid, "destinations")}

ForRouteDestinations(d) ==
    {Get("self", "/v3/routes", d.guid, "destinations"), Get("route", "/v3/routes", d.guid, "")}

ForAppList == Pages("/v3/apps", None, "")
ForProcessList(d) == Pages("/v3/apps", d.guid, "processes")
ForRouteList == Pages("/v3/routes", None, "")
ForAppRouteList(d) == Pages("/v3/apps", d.guid, "routes")

\* toOrgResponse, toSpaceResponse
ForOrg(d) == {Get("self", "/v3/organizations", d.guid, "")}

ForSpace(d) ==
    {Get("self", "/v3/spaces", d.guid, ""), Get("organization", "/v3/organizations", d.org, "")}

ForOrgList == Pages("/v3/organizations", None, "")
ForSpaceList == Pages("/v3/spaces", None, "")

\* rootV3GetHandler
ForRootV3 == {Get("self", "/v3", None, "")}

LinksOf(d) ==
    CASE d.kind = "root" -> ForRoot
      [] d.kind = "v3" -> ForRootV3
      [] d.kind = "app" -> ForApp(d)
      [] d.kind = "appList" -> ForAppList
      [] d.kind = "currentDroplet" -> ForCurrentDroplet(d)
      [] d.kind = "process" -> ForProcess(d)
      [] d.kind = "processList" -> ForProcessList(d)
      [] d.kind = "package" -> ForPackage(d)
      [] d.kind = "build" -> ForBuild(d)
      [] d.kind = "droplet" -> ForDroplet(d)
      [] d.kind = "route" -> ForRoute(d)
      [] d.kind = "routeList" -> ForRouteList
      [] d.kind = "appRouteList" -> ForAppRouteList(d)
      [] d.kind = "destinations" -> ForRouteDestinations(d)
      [] d.kind = "org" -> ForOrg(d)
      [] d.kind = "orgList" -> ForOrgList
      [] d.kind = "space" -> ForSpace(d)
      [] d.kind = "spaceList" -> ForSpaceList
-----------------------------------------------------------------------------
(***************************************************************************)
(* The router: the endpoints that can be reached by a link, or entered at  *)
(***************************************************************************)
Endpoint(method, base, one, rest, serves) ==
    [method |-> method, base |-> base, one |-> one, rest |-> rest, serves |-> serves]

\* RegisterRoutes of every handler: method, base, whether a GUID follows, the rest.
Endpoints == {
    Endpoint("GET", "/", FALSE, "", "root"),
    Endpoint("GET", "/v3", FALSE, "", "v3"),
    Endpoint("GET", "/v3/apps", FALSE, "", "appList"),
    Endpoint("GET", "/v3/apps", TRUE, "", "app"),
    Endpoint("GET", "/v3/apps", TRUE, "processes", "processList"),
    Endpoint("GET", "/v3/apps", TRUE, "routes", "appRouteList"),
    Endpoint("PATCH", "/v3/apps", TRUE, "relationships/current_droplet", "currentDroplet"),
    Endpoint("POST", "/v3/apps", TRUE, "actions/start", "start"),
    Endpoint("POST", "/v3/apps", TRUE, "actions/stop", "app"),
    Endpoint("GET", "/v3/processes", TRUE, "", "process"),
    Endpoint("POST", "/v3/packages", TRUE, "upload", "package"),
    Endpoint("GET", "/v3/builds", TRUE, "", "build"),
    Endpoint("GET", "/v3/droplets", TRUE, "", "droplet"),
    Endpoint("GET", "/v3/routes", FALSE, "", "routeList"),
    Endpoint("GET", "/v3/routes", TRUE, "", "route"),
    Endpoint("GET", "/v3/routes", TRUE, "destinations", "destinations"),
    Endpoint("GET", "/v3/organizations", FALSE, "", "orgList"),
    Endpoint("GET", "/v3/spaces", FALSE, "", "spaceList")}

AtPath(link) ==
    {e \in Endpoints : /\ e.base = link.path[1] /\ e.rest = link.path[3]
                       /\ e.one = (link.path[2] # None)}
-----------------------------------------------------------------------------
(***************************************************************************)
(* What the handlers answer                                                *)
(***************************************************************************)
Exists(g) == objects[g] \notin {Absent, Deleted}
Existing(guids) == {objects[g] : g \in {h \in guids : Exists(h)}}

Shown(d, listed) == doc' = d /\ members' = listed /\ status' = "OK"
Refused(answer) == status' = answer /\ UNCHANGED <<doc, members>>

As(kind, record) == [record EXCEPT !.kind = kind]

\* The GUID of a path names an object of the kind that the handler looks for.
Found(g, guids) == g \in guids /\ Exists(g)

ShowOne(g, guids, kind, listed) ==
    \/ Found(g, guids) /\ Shown(As(kind, objects[g]), listed)
    \/ ~Found(g, guids) /\ Refused("ResourceNotFound")

\* A variant that lists the processes of every app of the namespace.
ProcessesOfAny(a) == Existing(ProcessGUIDs)

\* FetchProcessesForApp
ProcessesOf(a) == {record \in Existing(ProcessGUIDs) : record.app = a}

\* FetchRoutesForApp
RoutesOf(a) == {record \in Existing(RouteGUIDs) : record.app = a}

ServeApp(serves, g) ==
    \/ /\ serves = "appList"
       /\ Shown(Blank("appList"), Existing(AppGUIDs))
       /\ UNCHANGED objects
    \/ /\ serves = "app"
       /\ ShowOne(g, AppGUIDs, "app", {})
       /\ UNCHANGED objects
    \/ /\ serves = "start"
       /\ \/ /\ Found(g, AppGUIDs) /\ objects[g].droplet = None
             /\ Refused("UnprocessableEntity")
          \/ /\ Found(g, AppGUIDs) => objects[g].droplet # None
             /\ ShowOne(g, AppGUIDs, "app", {})
       /\ UNCHANGED objects
    \/ /\ serves = "processList"
       /\ ShowOne(g, AppGUIDs, "processList", ProcessesOf(g))
       /\ UNCHANGED objects
    \/ /\ serves = "appRouteList"
       /\ ShowOne(g, AppGUIDs, "appRouteList", RoutesOf(g))
       /\ UNCHANGED objects

\* appSetCurrentDropletHandler, for the droplet that the client is at.
ServeCurrentDroplet(serves, a) ==
    LET b == doc.guid IN
    /\ serves = "currentDroplet"
    /\ IF ~Exists(a)
       THEN Refused("ResourceNotFound") /\ UNCHANGED objects
       ELSE IF Exists(b) /\ objects[b].droplet = b /\ objects[b].app = a
            THEN /\ Shown([Blank("currentDroplet") EXCEPT !.app = a, !.droplet = b], {})
                 /\ objects' = [objects EXCEPT ![a].droplet = b]
            ELSE Refused("UnprocessableEntity") /\ UNCHANGED objects

ServeRoot(serves) ==
    /\ \/ serves = "root" /\ Shown(Blank("root"), {})
       \/ serves = "v3" /\ Shown(Blank("v3"), {})
    /\ UNCHANGED objects

ServeProcess(serves, g) ==
    /\ serves = "process"
    /\ ShowOne(g, ProcessGUIDs, "process", {})
    /\ UNCHANGED objects

\* An upload shows the package; the bits and the image are not here.
ServePackage(serves, g) ==
    /\ serves = "package"
    /\ ShowOne(g, PackageGUIDs, "package", {})
    /\ UNCHANGED objects

ServeBuild(serves, g) ==
    /\ \/ serves = "build" /\ ShowOne(g, BuildGUIDs, "build", {})
       \/ /\ serves = "droplet"
          /\ ShowOne(g, {b \in BuildGUIDs : Exists(b) /\ objects[b].droplet # None},
                     "droplet", {})
    /\ UNCHANGED objects

ServeRoute(serves, g) ==
    /\ \/ serves = "routeList" /\ Shown(Blank("routeList"), Existing(RouteGUIDs))
       \/ serves = "route" /\ ShowOne(g, RouteGUIDs, "route", {})
       \/ serves = "destinations" /\ ShowOne(g, RouteGUIDs, "destinations", {})
    /\ UNCHANGED objects

ServeOrg(serves) ==
    /\ \/ /\ serves = "orgList"
          /\ Shown(Blank("orgList"), {[Blank("org") EXCEPT !.guid = o] : o \in OrgGUIDs})
       \/ /\ serves = "spaceList"
          /\ \E home \in [SpaceGUIDs -> OrgGUIDs] :
                Shown(Blank("spaceList"), {[Blank("space") EXCEPT !.guid = s, !.org = home[s]] :
                                              s \in SpaceGUIDs})
    /\ UNCHANGED objects

Serve(serves, g) ==
    \/ ServeApp(serves, g) \/ ServeCurrentDroplet(serves, g)
    \/ ServeRoot(serves) \/ ServeProcess(serves, g) \/ ServePackage(serves, g)
    \/ ServeBuild(serves, g) \/ ServeRoute(serves, g) \/ ServeOrg(serves)
-----------------------------------------------------------------------------
(***************************************************************************)
(* The client                                                              *)
(***************************************************************************)
\* It follows a link of the document that it is at.  gorilla/mux answers for a path
\* that no endpoint has, or not with this method; a handler may fail.
Follow(link) ==
    /\ link \in LinksOf(doc)
    /\ from' = doc /\ rel' = link.rel
    /\ \/ /\ AtPath(link) = {}
          /\ Refused("NoSuchPath")
          /\ UNCHANGED objects
       \/ /\ AtPath(link) # {} /\ \A e \in AtPath(link) : e.method # link.method
          /\ Refused("MethodNotAllowed")
          /\ UNCHANGED objects
       \/ \E e \in AtPath(link) :
             /\ e.method = link.method
             /\ Serve(e.serves, link.path[2])
       \/ /\ AtPath(link) # {}
          /\ Refused("UnknownError")
          /\ UNCHANGED objects
    /\ UNCHANGED walk

\* It goes to one of the documents that the list it is at embeds.
Pick(record) ==
    /\ record \in members
    /\ doc' = record /\ members' = {}
    /\ from' = record /\ rel' = "self" /\ status' = "OK"
    /\ walk' = IF walk = None THEN record.app ELSE walk
    /\ UNCHANGED objects

\* It starts again at a list, or at the routes of an app, whose path it knows.
Enter(serves, g) ==
    /\ \/ /\ serves \in {"root", "appList", "routeList", "orgList", "spaceList"} /\ g = None
          /\ walk' = None
       \/ serves = "appRouteList" /\ g \in AppGUIDs /\ Exists(g) /\ walk' = g
    /\ Serve(serves, g)
    /\ from' = doc' /\ rel' = "self"

\* A create shows the client the new object.
Created(g, record) ==
    /\ objects[g] = Absent
    /\ objects' = [objects EXCEPT ![g] = record]
    /\ Shown(record, {})
    /\ from' = record /\ rel' = "self" /\ walk' = record.app

CreateApp(a, s) ==
    Created(a, [Blank("app") EXCEPT !.guid = a, !.app = a, !.space = s])

CreatePackage(g, a) ==
    /\ Exists(a)
    /\ Created(g, [Blank("package") EXCEPT !.guid = g, !.app = a, !.space = objects[a].space])

CreateBuild(b, g) ==
    /\ Exists(g)
    /\ Created(b, [objects[g] EXCEPT !.kind = "build", !.guid = b, !.package = g])

CreateRoute(g, s, d) ==
    Created(g, [Blank("route") EXCEPT !.guid = g, !.space = s, !.domain = d])
-----------------------------------------------------------------------------
(***************************************************************************)
(* The controllers of cf-k8s-controllers, and kubectl                      *)
(***************************************************************************)
BuildStaged(b) ==
    /\ Exists(b)
    /\ objects' = [objects EXCEPT ![b].droplet = b]
    /\ UNCHANGED client

ProcessCreated(p, a) ==
    /\ objects[p] = Absent /\ Exists(a)
    /\ objects' = [objects EXCEPT ![p] =
          [Blank("process") EXCEPT !.guid = p, !.app = a, !.space = objects[a].space]]
    /\ UNCHANGED client

DestinationSet(g, a) ==
    /\ Exists(g)
    /\ objects' = [objects EXCEPT ![g].app = a]
    /\ UNCHANGED client

Removed(g) ==
    /\ Exists(g)
    /\ objects' = [objects EXCEPT ![g] = Deleted]
    /\ UNCHANGED client

Next ==
    \/ \E link \in LinksOf(doc) : Follow(link)
    \/ \E record \in members : Pick(record)
    \/ \E serves \in {"root", "appList", "routeList", "appRouteList", "orgList", "spaceList"},
          g \in AppGUIDs \cup {None} : Enter(serves, g)
    \/ \E s \in SpaceGUIDs :
          \/ \E a \in AppGUIDs : CreateApp(a, s)
          \/ \E g \in RouteGUIDs, d \in DomainGUIDs : CreateRoute(g, s, d)
    \/ \E g \in PackageGUIDs, a \in AppGUIDs : CreatePackage(g, a)
    \/ \E b \in BuildGUIDs, g \in PackageGUIDs : CreateBuild(b, g)
    \/ \E b \in BuildGUIDs : BuildStaged(b)
    \/ \E p \in ProcessGUIDs, a \in AppGUIDs : ProcessCreated(p, a)
    \/ \E g \in RouteGUIDs, a \in AppGUIDs \cup {None} : DestinationSet(g, a)
    \/ \E g \in GUIDs : Removed(g)

Spec == Init /\ [][Next]_vars
-----------------------------------------------------------------------------
(***************************************************************************)
(* Properties                                                              *)
(***************************************************************************)
\* The document d is what the link name of the document f says that it is.  The links
\* to spaces, organizations, domains and packages, and to what the shim does not
\* have of an app or a process, lead nowhere.
Meant(f, name, d) ==
    CASE name \in {"self", "first", "last", "start", "stop", "upload"} ->
            d.kind = f.kind /\ d.guid = f.guid
      [] name = "app" -> d.kind = "app" /\ d.guid = f.app
      [] name = "droplet" -> d.kind = "droplet" /\ d.guid = f.droplet
      [] name = "processes" -> d.kind = "processList" /\ d.guid = f.guid
      [] name = "destinations" -> d.kind = "destinations" /\ d.guid = f.guid
      [] name = "route" -> d.kind = "route" /\ d.guid = f.guid
      [] name = "assign_current_droplet" ->
            d.kind = "currentDroplet" /\ d.app = f.app /\ d.droplet = f.guid
      [] name = "cloud_controller_v3" -> d.kind = "v3"
      [] OTHER -> FALSE

\* Whatever link the client follows, if it is answered at all the document is of the
\* kind and about the object that the link's name says: the paths that presenters put
\* together are the ones that the handlers take apart.
LinksLeadThere == status = "OK" => Meant(from, rel, doc)

\* A link is answered 404 by a handler only when the object it is about was deleted
\* after the client was shown the link: no presenter puts a GUID into a path of
\* another kind of object, and nothing links to a droplet that is not there yet.
LinksHold ==
    status = "ResourceNotFound" =>
        LET target == CASE rel \in {"app", "assign_current_droplet"} -> from.app
                        [] rel = "droplet" -> from.droplet
                        [] OTHER -> from.guid IN
        objects[target] = Deleted

\* A client that came by an app and goes on by links, over the app's processes, its
\* packages, builds and droplets, and back, is never at a document of another app.
WalkStaysWithApp ==
    (walk # None /\ doc.kind \notin {"route", "destinations"}) => doc.app \in {walk, None}
=============================================================================
