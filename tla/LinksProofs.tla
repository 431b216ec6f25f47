----------------------------- MODULE LinksProofs -----------------------------
(* Proofs about Links, for any objects and any documents of them. *)
EXTENDS Links, TLAPS

-----------------------------------------------------------------------------
(***************************************************************************)
(* The inductive invariant                                                 *)
(***************************************************************************)
\* The object g is there, or was.
Known(g) == objects[g] # Absent

OwnApp(record) == record.app \in AppGUIDs /\ Known(record.app)

\* A record is of the kind that the GUID of its object says, and was made for an app
\* that was there; the droplet of a build is the build.
ObjectHolds(g, record) ==
    /\ record \in Record /\ record.guid = g
    /\ g \in AppGUIDs => /\ record.kind = "app" /\ record.app = g
                         /\ record.space \in SpaceGUIDs
    /\ g \in PackageGUIDs => /\ record.kind = "package" /\ OwnApp(record)
                             /\ record.droplet = None
    /\ g \in BuildGUIDs => /\ record.kind = "build" /\ OwnApp(record)
                           /\ record.droplet \in {None, g}
    /\ g \in ProcessGUIDs => /\ record.kind = "process" /\ OwnApp(record)
                             /\ record.space \in SpaceGUIDs
    /\ g \in RouteGUIDs => record.kind = "route" /\ record.space \in SpaceGUIDs

ObjectsInv ==
    /\ objects \in [GUIDs -> Record \cup {Absent, Deleted}]
    /\ \A g \in GUIDs : Exists(g) => ObjectHolds(g, objects[g])

Lists == {"root", "v3", "appList", "routeList", "orgList", "spaceList"}

\* The document d shows an object of "guids", of the same app as the record has now.
Shows(d, guids) ==
    /\ d.guid \in guids /\ Known(d.guid) /\ OwnApp(d)
    /\ Exists(d.guid) => objects[d.guid].app = d.app

\* It shows a droplet: the build it names is one, as long as it is there.
ShowsDroplet(d) == d.droplet = d.guid /\ (Exists(d.guid) => objects[d.guid].droplet = d.guid)

\* What a document shows was so once, and a link of it names what was there.
DocHolds(d) ==
    /\ d \in Record
    /\ d.kind \in Lists => d.guid = None /\ d.app = None
    /\ d.kind \in {"org", "space"} => d.guid # None /\ d.app = None
    /\ d.kind = "space" => d.org # None
    /\ d.kind \in {"app", "processList", "appRouteList"} =>
          d.app = d.guid /\ OwnApp(d) /\ d.space \in SpaceGUIDs
    /\ d.kind = "process" => Shows(d, ProcessGUIDs) /\ d.space \in SpaceGUIDs
    /\ d.kind = "package" => Shows(d, PackageGUIDs)
    /\ d.kind = "build" => Shows(d, BuildGUIDs) /\ (d.droplet # None => ShowsDroplet(d))
    /\ d.kind = "droplet" => Shows(d, BuildGUIDs) /\ ShowsDroplet(d)
    /\ d.kind = "currentDroplet" => OwnApp(d)
    /\ d.kind \in {"route", "destinations"} =>
          d.guid \in RouteGUIDs /\ Known(d.guid) /\ d.space \in SpaceGUIDs

\* d is about the app w that the client came by, if it came by one.
InWalk(d, w) == (w # None /\ d.kind \notin {"route", "destinations"}) => d.app \in {w, None}

\* What a list embeds.
MemberHolds(d, w) ==
    DocHolds(d) /\ InWalk(d, w) /\ d.kind \in {"app", "process", "route", "org", "space"}

\* The client is at d, which lists "listed", and came by the app w.
At(d, listed, w) ==
    /\ DocHolds(d) /\ InWalk(d, w)
    /\ d.kind \in Lists => w = None
    /\ \A record \in listed : MemberHolds(record, w)

ClientInv == At(doc, members, walk)

Target(f, name) ==
    CASE name \in {"app", "assign_current_droplet"} -> f.app
      [] name = "droplet" -> f.droplet
      [] OTHER -> f.guid

Gone(g) == g \in GUIDs /\ objects[g] = Deleted

TargetInv == status = "ResourceNotFound" => Gone(Target(from, rel))

IInv == ObjectsInv /\ ClientInv /\ TargetInv /\ LinksLeadThere
-----------------------------------------------------------------------------
(***************************************************************************)
(* The objects                                                             *)
(***************************************************************************)
\* No object comes back, and none but a route changes its app; a droplet stays one.
Evolves ==
    \A g \in GUIDs :
        /\ Known(g) => Known(g)'
        /\ Known(g) /\ Exists(g)' =>
              /\ Exists(g)
              /\ g \notin RouteGUIDs => objects'[g].app = objects[g].app
              /\ (g \in BuildGUIDs /\ objects[g].droplet = g) => objects'[g].droplet = g

LEMMA GuidsOfKinds ==
  /\ AppGUIDs \subseteq GUIDs /\ PackageGUIDs \subseteq GUIDs /\ BuildGUIDs \subseteq GUIDs
  /\ ProcessGUIDs \subseteq GUIDs /\ RouteGUIDs \subseteq GUIDs /\ None \notin GUIDs
  BY LinksAssumption DEF GUIDs

LEMMA NothingEvolves ==
  ASSUME UNCHANGED objects
  PROVE  Evolves
  BY DEF Evolves, Known, Exists

\* What held of a record goes on to hold.
LEMMA RecordStays ==
  ASSUME Evolves, NEW g \in GUIDs, NEW record, ObjectHolds(g, record)
  PROVE  ObjectHolds(g, record)'
<1>1. OwnApp(record) => OwnApp(record)'
  BY GuidsOfKinds DEF OwnApp, Evolves
<1> QED
  BY <1>1 DEF ObjectHolds

\* How an object may change: it is created, is deleted, or keeps its app and its droplet.
MayBecome(h, record) ==
    \/ Exists(h) /\ record = Deleted
    \/ /\ ObjectHolds(h, record)
       /\ \/ objects[h] = Absent
          \/ /\ Exists(h)
             /\ h \notin RouteGUIDs => record.app = objects[h].app
             /\ (h \in BuildGUIDs /\ objects[h].droplet = h) => record.droplet = h

LEMMA OneEvolves ==
  ASSUME ObjectsInv, NEW h \in GUIDs, NEW record, MayBecome(h, record),
         objects' = [objects EXCEPT ![h] = record]
  PROVE  Evolves /\ ObjectsInv'
<1>1. /\ objects'[h] = record
      /\ \A g \in GUIDs \ {h} : objects'[g] = objects[g]
  BY DEF ObjectsInv
<1>2. record \in Record \cup {Deleted} /\ record # Absent
  BY LinksAssumption DEF MayBecome, ObjectHolds
<1>3. Evolves
  <2> SUFFICES ASSUME NEW g \in GUIDs
               PROVE  /\ Known(g) => Known(g)'
                      /\ Known(g) /\ Exists(g)' =>
                            /\ Exists(g)
                            /\ g \notin RouteGUIDs => objects'[g].app = objects[g].app
                            /\ (g \in BuildGUIDs /\ objects[g].droplet = g)
                                  => objects'[g].droplet = g
    BY DEF Evolves
  <2>1. CASE g # h
    BY <1>1, <2>1 DEF Known, Exists
  <2>2. CASE g = h
    BY <1>1, <1>2, <2>2, LinksAssumption DEF Known, Exists, MayBecome
  <2> QED
    BY <2>1, <2>2
<1>4. objects' \in [GUIDs -> Record \cup {Absent, Deleted}]
  BY <1>2 DEF ObjectsInv
<1>5. ASSUME NEW g \in GUIDs, Exists(g)' PROVE ObjectHolds(g, objects[g])'
  <2>1. PICK r : r = objects'[g]
    OBVIOUS
  <2>2. ObjectHolds(g, r)
    <3>1. CASE g # h
      BY <1>1, <1>5, <2>1, <3>1 DEF ObjectsInv, Exists
    <3>2. CASE g = h
      BY <1>1, <1>5, <2>1, <3>2 DEF MayBecome, Exists
    <3> QED
      BY <3>1, <3>2
  <2>3. ObjectHolds(g, r)'
    BY <1>3, <2>2, RecordStays
  <2> QED
    BY <2>1, <2>3 DEF ObjectHolds, OwnApp, Known
<1> QED
  BY <1>3, <1>4, <1>5 DEF ObjectsInv
-----------------------------------------------------------------------------
(***************************************************************************)
(* The documents                                                           *)
(***************************************************************************)
LEMMA DocStays ==
  ASSUME Evolves, NEW d, DocHolds(d)
  PROVE  DocHolds(d)'
<1>1. OwnApp(d) => OwnApp(d)'
  BY GuidsOfKinds DEF OwnApp, Evolves
<1>2. ASSUME NEW guids, guids \in {PackageGUIDs, BuildGUIDs, ProcessGUIDs}, Shows(d, guids)
      PROVE  Shows(d, guids)'
  <2>1. d.guid \in GUIDs \ RouteGUIDs
    BY <1>2, GuidsOfKinds, LinksAssumption DEF Shows
  <2> QED
    BY <1>1, <1>2, <2>1 DEF Shows, Evolves
<1>3. ASSUME Shows(d, BuildGUIDs), ShowsDroplet(d) PROVE ShowsDroplet(d)'
  BY <1>3, GuidsOfKinds DEF Shows, ShowsDroplet, Evolves
<1>4. d.guid \in RouteGUIDs /\ Known(d.guid) => Known(d.guid)'
  BY GuidsOfKinds DEF Evolves
<1> QED
  BY <1>1, <1>2, <1>3, <1>4 DEF DocHolds

\* The client goes where it may be.
LEMMA ClientAt ==
  ASSUME Evolves, NEW d, NEW listed, NEW w, At(d, listed, w),
         doc' = d, members' = listed, walk' = w
  PROVE  ClientInv'
<1>1. PICK e : e = doc'
  OBVIOUS
<1>2. DocHolds(e)'
  BY <1>1, DocStays DEF At
<1>3. DocHolds(doc)'
  BY <1>1, <1>2 DEF DocHolds, OwnApp, Known, Shows, ShowsDroplet, Exists
<1>4. \A record \in listed : MemberHolds(record, w)'
  BY DocStays DEF At, MemberHolds, InWalk
<1>5. InWalk(d, w) /\ (d.kind \in Lists => w = None)
  BY DEF At
<1>6. \A record \in members' : MemberHolds(record, walk)'
  BY <1>4 DEF MemberHolds, InWalk
<1> QED
  BY <1>3, <1>5, <1>6 DEF ClientInv, At, InWalk
-----------------------------------------------------------------------------
(***************************************************************************)
(* Where the links of a document lead                                      *)
(***************************************************************************)
\* The handler that a request of this method and path is served by.
Routed(method, base, one, rest, serves) ==
    \/ method = "GET" /\ one = FALSE /\ rest = "" /\
          \/ base = "/" /\ serves = "root"
          \/ base = "/v3" /\ serves = "v3"
          \/ base = "/v3/apps" /\ serves = "appList"
          \/ base = "/v3/routes" /\ serves = "routeList"
          \/ base = "/v3/organizations" /\ serves = "orgList"
          \/ base = "/v3/spaces" /\ serves = "spaceList"
    \/ method = "GET" /\ one = TRUE /\ rest = "" /\
          \/ base = "/v3/apps" /\ serves = "app"
          \/ base = "/v3/processes" /\ serves = "process"
          \/ base = "/v3/builds" /\ serves = "build"
          \/ base = "/v3/droplets" /\ serves = "droplet"
          \/ base = "/v3/routes" /\ serves = "route"
    \/ method = "GET" /\ one = TRUE /\
          \/ base = "/v3/apps" /\ rest = "processes" /\ serves = "processList"
          \/ base = "/v3/apps" /\ rest = "routes" /\ serves = "appRouteList"
          \/ base = "/v3/routes" /\ rest = "destinations" /\ serves = "destinations"
    \/ method = "POST" /\ one = TRUE /\
          \/ base = "/v3/apps" /\ rest = "actions/start" /\ serves = "start"
          \/ base = "/v3/apps" /\ rest = "actions/stop" /\ serves = "app"
          \/ base = "/v3/packages" /\ rest = "upload" /\ serves = "package"
    \/ /\ method = "PATCH" /\ one = TRUE /\ base = "/v3/apps"
       /\ rest = "relationships/current_droplet" /\ serves = "currentDroplet"

LEMMA EndpointsRoute ==
  ASSUME NEW e \in Endpoints
  PROVE  Routed(e.method, e.base, e.one, e.rest, e.serves)
<1>1. ASSUME NEW method, NEW base, NEW one, NEW rest, NEW serves,
             e = Endpoint(method, base, one, rest, serves),
             Routed(method, base, one, rest, serves)
      PROVE  Routed(e.method, e.base, e.one, e.rest, e.serves)
  BY <1>1 DEF Endpoint
<1>2. /\ Routed("GET", "/", FALSE, "", "root")
      /\ Routed("GET", "/v3", FALSE, "", "v3")
      /\ Routed("GET", "/v3/apps", FALSE, "", "appList")
      /\ Routed("GET", "/v3/apps", TRUE, "", "app")
      /\ Routed("GET", "/v3/apps", TRUE, "processes", "processList")
      /\ Routed("GET", "/v3/apps", TRUE, "routes", "appRouteList")
      /\ Routed("PATCH", "/v3/apps", TRUE, "relationships/current_droplet", "currentDroplet")
      /\ Routed("POST", "/v3/apps", TRUE, "actions/start", "start")
      /\ Routed("POST", "/v3/apps", TRUE, "actions/stop", "app")
      /\ Routed("GET", "/v3/processes", TRUE, "", "process")
      /\ Routed("POST", "/v3/packages", TRUE, "upload", "package")
      /\ Routed("GET", "/v3/builds", TRUE, "", "build")
      /\ Routed("GET", "/v3/droplets", TRUE, "", "droplet")
      /\ Routed("GET", "/v3/routes", FALSE, "", "routeList")
      /\ Routed("GET", "/v3/routes", TRUE, "", "route")
      /\ Routed("GET", "/v3/routes", TRUE, "destinations", "destinations")
      /\ Routed("GET", "/v3/organizations", FALSE, "", "orgList")
      /\ Routed("GET", "/v3/spaces", FALSE, "", "spaceList")
  BY DEF Routed
<1> QED
  BY <1>1, <1>2 DEF Endpoints

\* What a link of this name leads to, by the kind of the document.
Leads(d, name, serves, g) ==
    \/ d.kind \in Lists /\ serves \in Lists /\
          \/ name \in {"self", "first", "last"} /\ serves = d.kind
          \/ d.kind = "root" /\ name = "cloud_controller_v3" /\ serves = "v3"
    \/ d.kind = "app" /\ g = d.guid /\
          \/ name \in {"self", "stop"} /\ serves = "app"
          \/ name = "start" /\ serves = "start"
          \/ name = "processes" /\ serves = "processList"
    \/ /\ d.kind \in {"processList", "appRouteList"} /\ name \in {"first", "last"}
       /\ serves = d.kind /\ g = d.guid
    \/ d.kind \in {"process", "build", "droplet"} /\ name = "self" /\ serves = d.kind /\ g = d.guid
    \/ d.kind = "package" /\ name = "upload" /\ serves = "package" /\ g = d.guid
    \/ /\ d.kind \in {"process", "package", "build", "droplet"} /\ name = "app"
       /\ serves = "app" /\ g = d.app
    \/ /\ d.kind = "build" /\ name = "droplet" /\ serves = "droplet"
       /\ g = d.droplet /\ d.droplet # None
    \/ /\ d.kind = "droplet" /\ name = "assign_current_droplet" /\ serves = "currentDroplet"
       /\ g = d.app
    \/ d.kind \in {"route", "destinations"} /\ g = d.guid /\
          \/ name = "self" /\ serves = d.kind
          \/ d.kind = "route" /\ name = "destinations" /\ serves = "destinations"
          \/ d.kind = "destinations" /\ name = "route" /\ serves = "route"

LEMMA LinkLeads ==
  ASSUME NEW d, DocHolds(d), NEW link \in LinksOf(d),
         NEW e \in AtPath(link), e.method = link.method
  PROVE  Leads(d, link.rel, e.serves, link.path[2])
<1> DEFINE Goal == Leads(d, link.rel, e.serves, link.path[2])
           Is(name, method, base, g, rest) ==
               link.rel = name /\ link.path[2] = g /\ Routed(method, base, FALSE, rest, e.serves)
           One(name, method, base, g, rest) ==
               link.rel = name /\ link.path[2] = g /\ Routed(method, base, TRUE, rest, e.serves)
<1>a. ASSUME NEW name, NEW method, NEW base, NEW g, NEW rest,
             link = Link(name, method, base, g, rest)
      PROVE  /\ g = None => Is(name, method, base, g, rest)
             /\ g # None => One(name, method, base, g, rest)
  <2>1. /\ link.rel = name /\ link.method = method
        /\ link.path[1] = base /\ link.path[2] = g /\ link.path[3] = rest
    BY <1>a DEF Link
  <2>2. /\ e \in Endpoints /\ e.base = base /\ e.rest = rest /\ e.one = (g # None)
    BY <2>1 DEF AtPath
  <2> QED
    BY <2>1, <2>2, EndpointsRoute
<1>b. /\ d.kind = "root" => LinksOf(d) = ForRoot
      /\ d.kind = "v3" => LinksOf(d) = ForRootV3
      /\ d.kind = "app" => LinksOf(d) = ForApp(d)
      /\ d.kind = "appList" => LinksOf(d) = ForAppList
      /\ d.kind = "currentDroplet" => LinksOf(d) = ForCurrentDroplet(d)
      /\ d.kind = "process" => LinksOf(d) = ForProcess(d)
      /\ d.kind = "processList" => LinksOf(d) = ForProcessList(d)
      /\ d.kind = "package" => LinksOf(d) = ForPackage(d)
      /\ d.kind = "build" => LinksOf(d) = ForBuild(d)
      /\ d.kind = "droplet" => LinksOf(d) = ForDroplet(d)
      /\ d.kind = "route" => LinksOf(d) = ForRoute(d)
      /\ d.kind = "routeList" => LinksOf(d) = ForRouteList
      /\ d.kind = "appRouteList" => LinksOf(d) = ForAppRouteList(d)
      /\ d.kind = "destinations" => LinksOf(d) = ForRouteDestinations(d)
      /\ d.kind = "org" => LinksOf(d) = ForOrg(d)
      /\ d.kind = "orgList" => LinksOf(d) = ForOrgList
      /\ d.kind = "space" => LinksOf(d) = ForSpace(d)
      /\ d.kind = "spaceList" => LinksOf(d) = ForSpaceList
  BY DEF LinksOf
<1>0. d \in Record
  BY DEF DocHolds
<1> SUFFICES Goal
  OBVIOUS
<1>1. CASE d.kind = "app"
  <2>0. link \in ForApp(d)
    BY <1>1, <1>b
  <2>1. d.guid # None /\ d.space # None
    BY <1>1, GuidsOfKinds, LinksAssumption DEF DocHolds, OwnApp
  <2>2. ASSUME NEW part \in {"processes", "packages", "environment_variables",
                             "droplets/current", "droplets", "tasks", "revisions",
                             "revisions/deployed", "features"},
               link = Get(part, "/v3/apps", d.guid, part)
        PROVE  Goal
    <3>1. One(part, "GET", "/v3/apps", d.guid, part)
      BY <1>a, <2>1, <2>2 DEF Get
    <3> QED
      BY <1>1, <3>1 DEF Routed, Leads
  <2>3. \/ \E part \in {"processes", "packages", "environment_variables",
                        "droplets/current", "droplets", "tasks", "revisions",
                        "revisions/deployed", "features"} :
              link = Get(part, "/v3/apps", d.guid, part)
        \/ One("self", "GET", "/v3/apps", d.guid, "")
        \/ One("space", "GET", "/v3/spaces", d.space, "")
        \/ One("start", "POST", "/v3/apps", d.guid, "actions/start")
        \/ One("stop", "POST", "/v3/apps", d.guid, "actions/stop")
    BY <1>a, <2>0, <2>1 DEF ForApp, Get
  <2> QED
    BY <1>1, <2>2, <2>3 DEF Routed, Leads
<1>2. CASE d.kind = "root"
  <2>0. link \in ForRoot
    BY <1>2, <1>b
  <2>1. \/ Is("self", "GET", "/", None, "")
        \/ Is("cloud_controller_v3", "GET", "/v3", None, "")
    BY <1>a, <2>0 DEF ForRoot, Get
  <2> QED
    BY <1>2, <2>1 DEF Routed, Leads, Lists
<1>3. CASE d.kind = "v3"
  <2>0. link \in ForRootV3
    BY <1>3, <1>b
  <2>1. Is("self", "GET", "/v3", None, "")
    BY <1>a, <2>0 DEF ForRootV3, Get
  <2> QED
    BY <1>3, <2>1 DEF Routed, Leads, Lists
<1>4. CASE d.kind = "appList"
  <2>0. link \in ForAppList
    BY <1>4, <1>b
  <2>1. \/ Is("first", "GET", "/v3/apps", None, "")
        \/ Is("last", "GET", "/v3/apps", None, "")
    BY <1>a, <2>0 DEF ForAppList, Pages, Get
  <2> QED
    BY <1>4, <2>1 DEF Routed, Leads, Lists
<1>5. CASE d.kind = "routeList"
  <2>0. link \in ForRouteList
    BY <1>5, <1>b
  <2>1. \/ Is("first", "GET", "/v3/routes", None, "")
        \/ Is("last", "GET", "/v3/routes", None, "")
    BY <1>a, <2>0 DEF ForRouteList, Pages, Get
  <2> QED
    BY <1>5, <2>1 DEF Routed, Leads, Lists
<1>6. CASE d.kind = "orgList"
  <2>0. link \in ForOrgList
    BY <1>6, <1>b
  <2>1. \/ Is("first", "GET", "/v3/organizations", None, "")
        \/ Is("last", "GET", "/v3/organizations", None, "")
    BY <1>a, <2>0 DEF ForOrgList, Pages, Get
  <2> QED
    BY <1>6, <2>1 DEF Routed, Leads, Lists
<1>7. CASE d.kind = "spaceList"
  <2>0. link \in ForSpaceList
    BY <1>7, <1>b
  <2>1. \/ Is("first", "GET", "/v3/spaces", None, "")
        \/ Is("last", "GET", "/v3/spaces", None, "")
    BY <1>a, <2>0 DEF ForSpaceList, Pages, Get
  <2> QED
    BY <1>7, <2>1 DEF Routed, Leads, Lists
<1>8. CASE d.kind = "processList"
  <2>0. link \in ForProcessList(d)
    BY <1>8, <1>b
  <2>1. d.guid # None
    BY <1>8, GuidsOfKinds DEF DocHolds, OwnApp
  <2>2. \/ One("first", "GET", "/v3/apps", d.guid, "processes")
        \/ One("last", "GET", "/v3/apps", d.guid, "processes")
    BY <1>a, <2>0, <2>1 DEF ForProcessList, Pages, Get
  <2> QED
    BY <1>8, <2>2 DEF Routed, Leads
<1>9. CASE d.kind = "appRouteList"
  <2>0. link \in ForAppRouteList(d)
    BY <1>9, <1>b
  <2>1. d.guid # None
    BY <1>9, GuidsOfKinds DEF DocHolds, OwnApp
  <2>2. \/ One("first", "GET", "/v3/apps", d.guid, "routes")
        \/ One("last", "GET", "/v3/apps", d.guid, "routes")
    BY <1>a, <2>0, <2>1 DEF ForAppRouteList, Pages, Get
  <2> QED
    BY <1>9, <2>2 DEF Routed, Leads
<1>10. CASE d.kind = "currentDroplet"
  <2>0. link \in ForCurrentDroplet(d)
    BY <1>10, <1>b
  <2>1. d.app # None
    BY <1>10, GuidsOfKinds DEF DocHolds, OwnApp
  <2>2. \/ One("self", "GET", "/v3/apps", d.app, "relationships/current_droplet")
        \/ One("related", "GET", "/v3/apps", d.app, "droplets/current")
    BY <1>a, <2>0, <2>1 DEF ForCurrentDroplet, Get
  <2> QED
    BY <1>10, <2>2 DEF Routed, Leads
<1>11. CASE d.kind = "process"
  <2>0. link \in ForProcess(d)
    BY <1>11, <1>b
  <2>1. d.guid # None /\ d.app # None /\ d.space # None
    BY <1>11, GuidsOfKinds, LinksAssumption DEF DocHolds, OwnApp, Shows
  <2>2. \/ One("self", "GET", "/v3/processes", d.guid, "")
        \/ One("app", "GET", "/v3/apps", d.app, "")
        \/ One("space", "GET", "/v3/spaces", d.space, "")
        \/ One("stats", "GET", "/v3/processes", d.guid, "stats")
        \/ One("scale", "POST", "/v3/processes", d.guid, "actions/scale")
    BY <1>a, <2>0, <2>1 DEF ForProcess, Get
  <2> QED
    BY <1>11, <2>2 DEF Routed, Leads
<1>12. CASE d.kind = "package"
  <2>0. link \in ForPackage(d)
    BY <1>12, <1>b
  <2>1. d.guid # None /\ d.app # None
    BY <1>12, GuidsOfKinds DEF DocHolds, OwnApp, Shows
  <2>2. \/ One("self", "GET", "/v3/packages", d.guid, "")
        \/ One("app", "GET", "/v3/apps", d.app, "")
        \/ One("upload", "POST", "/v3/packages", d.guid, "upload")
        \/ One("download", "GET", "/v3/packages", d.guid, "download")
    BY <1>a, <2>0, <2>1 DEF ForPackage, Get
  <2> QED
    BY <1>12, <2>2 DEF Routed, Leads
<1>13. CASE d.kind = "build"
  <2>0. link \in ForBuild(d)
    BY <1>13, <1>b
  <2>1. d.guid # None /\ d.app # None
    BY <1>13, GuidsOfKinds DEF DocHolds, OwnApp, Shows
  <2>2. \/ One("self", "GET", "/v3/builds", d.guid, "")
        \/ One("app", "GET", "/v3/apps", d.app, "")
        \/ d.droplet # None /\ One("droplet", "GET", "/v3/droplets", d.droplet, "")
    BY <1>a, <2>0, <2>1 DEF ForBuild, Get
  <2> QED
    BY <1>13, <2>2 DEF Routed, Leads
<1>14. CASE d.kind = "droplet"
  <2>0. link \in ForDroplet(d)
    BY <1>14, <1>b
  <2>1. d.guid # None /\ d.app # None
    BY <1>14, GuidsOfKinds DEF DocHolds, OwnApp, Shows
  <2>2. \/ One("self", "GET", "/v3/droplets", d.guid, "")
        \/ One("package", "GET", "/v3/packages", d.package, "")
        \/ Is("package", "GET", "/v3/packages", d.package, "")
        \/ One("app", "GET", "/v3/apps", d.app, "")
        \/ One("assign_current_droplet", "PATCH", "/v3/apps", d.app,
             "relationships/current_droplet")
    BY <1>a, <2>0, <2>1 DEF ForDroplet, Get
  <2> QED
    BY <1>14, <2>2 DEF Routed, Leads
<1>15. CASE d.kind = "route"
  <2>0. link \in ForRoute(d)
    BY <1>15, <1>b
  <2>1. d.guid # None /\ d.space # None
    BY <1>15, GuidsOfKinds, LinksAssumption DEF DocHolds
  <2>2. \/ One("self", "GET", "/v3/routes", d.guid, "")
        \/ One("space", "GET", "/v3/spaces", d.space, "")
        \/ One("domain", "GET", "/v3/domains", d.domain, "")
        \/ Is("domain", "GET", "/v3/domains", d.domain, "")
        \/ One("destinations", "GET", "/v3/routes", d.guid, "destinations")
    BY <1>a, <2>0, <2>1 DEF ForRoute, Get
  <2> QED
    BY <1>15, <2>2 DEF Routed, Leads
<1>16. CASE d.kind = "destinations"
  <2>0. link \in ForRouteDestinations(d)
    BY <1>16, <1>b
  <2>1. d.guid # None
    BY <1>16, GuidsOfKinds DEF DocHolds
  <2>2. \/ One("self", "GET", "/v3/routes", d.guid, "destinations")
        \/ One("route", "GET", "/v3/routes", d.guid, "")
    BY <1>a, <2>0, <2>1 DEF ForRouteDestinations, Get
  <2> QED
    BY <1>16, <2>2 DEF Routed, Leads
<1>17. CASE d.kind = "org"
  <2>0. link \in ForOrg(d)
    BY <1>17, <1>b
  <2>1. d.guid # None
    BY <1>17 DEF DocHolds
  <2>2. One("self", "GET", "/v3/organizations", d.guid, "")
    BY <1>a, <2>0, <2>1 DEF ForOrg, Get
  <2> QED
    BY <1>17, <2>2 DEF Routed, Leads
<1>18. CASE d.kind = "space"
  <2>0. link \in ForSpace(d)
    BY <1>18, <1>b
  <2>1. d.guid # None /\ d.org # None
    BY <1>18 DEF DocHolds
  <2>2. \/ One("self", "GET", "/v3/spaces", d.guid, "")
        \/ One("organization", "GET", "/v3/organizations", d.org, "")
    BY <1>a, <2>0, <2>1 DEF ForSpace, Get
  <2> QED
    BY <1>18, <2>2 DEF Routed, Leads
<1> HIDE DEF Goal
<1> QED
  BY <1>0, <1>1, <1>2, <1>3, <1>4, <1>5, <1>6, <1>7, <1>8, <1>9,
     <1>10, <1>11, <1>12, <1>13, <1>14, <1>15, <1>16, <1>17, <1>18 DEF Record, Kinds
-----------------------------------------------------------------------------
(***************************************************************************)
(* What the handlers show                                                  *)
(***************************************************************************)
\* A document of the object g that a handler shows.
ShownAs(kind, g) ==
    \/ g \in AppGUIDs /\ kind \in {"app", "processList", "appRouteList"}
    \/ g \in ProcessGUIDs /\ kind = "process"
    \/ g \in PackageGUIDs /\ kind = "package"
    \/ g \in BuildGUIDs /\ kind = "build"
    \/ g \in BuildGUIDs /\ kind = "droplet" /\ objects[g].droplet # None
    \/ g \in RouteGUIDs /\ kind \in {"route", "destinations"}

LEMMA ObjectShown ==
  ASSUME ObjectsInv, NEW g, Exists(g), NEW kind, ShownAs(kind, g)
  PROVE  /\ As(kind, objects[g]).kind = kind /\ As(kind, objects[g]).guid = g
         /\ As(kind, objects[g]).app = objects[g].app
         /\ DocHolds(As(kind, objects[g]))
<1> DEFINE d == As(kind, objects[g])
<1>1. g \in GUIDs /\ ObjectHolds(g, objects[g]) /\ Known(g)
  BY GuidsOfKinds DEF ShownAs, ObjectsInv, Known, Exists
<1>2. objects[g] \in Record /\ objects[g].guid = g
  BY <1>1 DEF ObjectHolds
<1>3. /\ d \in Record /\ d.kind = kind /\ d.guid = g /\ d.app = objects[g].app
      /\ d.space = objects[g].space /\ d.droplet = objects[g].droplet
  BY <1>2 DEF As, Record, Kinds, ShownAs
<1>4. OwnApp(objects[g]) => OwnApp(d)
  BY <1>3 DEF OwnApp
<1> HIDE DEF d
<1>5. DocHolds(d)
  BY <1>1, <1>3, <1>4, LinksAssumption
     DEF ShownAs, ObjectHolds, DocHolds, Shows, ShowsDroplet, OwnApp, Lists
<1> QED
  BY <1>3, <1>5 DEF d

\* The records that a list embeds are documents themselves.
LEMMA RecordShown ==
  ASSUME ObjectsInv, NEW g \in AppGUIDs \cup ProcessGUIDs \cup RouteGUIDs, Exists(g)
  PROVE  /\ DocHolds(objects[g])
         /\ g \in AppGUIDs => objects[g].kind = "app"
         /\ g \in ProcessGUIDs => objects[g].kind = "process"
         /\ g \in RouteGUIDs => objects[g].kind = "route"
<1>1. ObjectHolds(g, objects[g]) /\ Known(g)
  BY GuidsOfKinds DEF ObjectsInv, Known, Exists
<1> QED
  BY <1>1, LinksAssumption DEF ObjectHolds, DocHolds, Shows, OwnApp, Lists

LEMMA BlankHolds ==
  ASSUME NEW kind \in Lists
  PROVE  DocHolds(Blank(kind)) /\ InWalk(Blank(kind), None)
  BY DEF DocHolds, InWalk, Blank, Lists, Record, Kinds

\* A list of everything is shown to a client that has come by no app.
LEMMA ListShown ==
  ASSUME ObjectsInv, NEW kind \in Lists, NEW g, Serve(kind, g)
  PROVE  /\ UNCHANGED objects /\ doc' = Blank(kind) /\ status' = "OK"
         /\ \A record \in members' : MemberHolds(record, None)
<1>1. ASSUME NEW guids, guids \in {AppGUIDs, RouteGUIDs}, NEW record \in Existing(guids)
      PROVE  MemberHolds(record, None)
  <2>1. PICK h \in guids : Exists(h) /\ record = objects[h]
    BY <1>1 DEF Existing
  <2> QED
    BY <1>1, <2>1, RecordShown DEF MemberHolds, InWalk
<1>2. ASSUME NEW o \in OrgGUIDs PROVE MemberHolds([Blank("org") EXCEPT !.guid = o], None)
  BY LinksAssumption DEF Blank, MemberHolds, InWalk, DocHolds, Record, Kinds, Lists
<1>3. ASSUME NEW s \in SpaceGUIDs, NEW o \in OrgGUIDs
      PROVE  MemberHolds([Blank("space") EXCEPT !.guid = s, !.org = o], None)
  BY LinksAssumption DEF Blank, MemberHolds, InWalk, DocHolds, Record, Kinds, Lists
<1>4. CASE kind \in {"root", "v3"}
  BY <1>4 DEF Serve, ServeApp, ServeCurrentDroplet, ServeRoot, ServeProcess, ServePackage,
              ServeBuild, ServeRoute, ServeOrg, Shown
<1>5. CASE kind = "appList"
  <2>1. Shown(Blank("appList"), Existing(AppGUIDs)) /\ UNCHANGED objects
    BY <1>5 DEF Serve, ServeApp, ServeCurrentDroplet, ServeRoot, ServeProcess, ServePackage,
                ServeBuild, ServeRoute, ServeOrg
  <2> QED
    BY <1>1, <1>5, <2>1 DEF Shown
<1>6. CASE kind = "routeList"
  <2>1. Shown(Blank("routeList"), Existing(RouteGUIDs)) /\ UNCHANGED objects
    BY <1>6 DEF Serve, ServeApp, ServeCurrentDroplet, ServeRoot, ServeProcess, ServePackage,
                ServeBuild, ServeRoute, ServeOrg
  <2> QED
    BY <1>1, <1>6, <2>1 DEF Shown
<1>7. CASE kind = "orgList"
  <2>1. /\ Shown(Blank("orgList"), {[Blank("org") EXCEPT !.guid = o] : o \in OrgGUIDs})
        /\ UNCHANGED objects
    BY <1>7 DEF Serve, ServeApp, ServeCurrentDroplet, ServeRoot, ServeProcess, ServePackage,
                ServeBuild, ServeRoute, ServeOrg
  <2> QED
    BY <1>2, <1>7, <2>1 DEF Shown
<1>8. CASE kind = "spaceList"
  <2>1. ServeOrg("spaceList")
    BY <1>8 DEF Serve, ServeApp, ServeCurrentDroplet, ServeRoot, ServeProcess, ServePackage,
                ServeBuild, ServeRoute
  <2>2. PICK home \in [SpaceGUIDs -> OrgGUIDs] :
           Shown(Blank("spaceList"), {[Blank("space") EXCEPT !.guid = s, !.org = home[s]] :
                                        s \in SpaceGUIDs})
    BY <2>1 DEF ServeOrg
  <2>3. \A record \in members' : MemberHolds(record, None)
    <3> SUFFICES ASSUME NEW record \in members' PROVE MemberHolds(record, None)
      OBVIOUS
    <3>1. PICK s \in SpaceGUIDs : record = [Blank("space") EXCEPT !.guid = s, !.org = home[s]]
      BY <2>2 DEF Shown
    <3>2. home[s] \in OrgGUIDs
      OBVIOUS
    <3> QED
      BY <1>3, <3>1, <3>2
  <2>4. UNCHANGED objects
    BY <2>1 DEF ServeOrg
  <2> QED
    BY <1>8, <2>2, <2>3, <2>4 DEF Shown
<1> QED
  BY <1>4, <1>5, <1>6, <1>7, <1>8 DEF Lists

\* A request about the object g, of the kind that the handler looks for.
AsksFor(serves, g) ==
    \/ g \in AppGUIDs /\ serves \in {"app", "start", "processList", "appRouteList"}
    \/ g \in ProcessGUIDs /\ serves = "process"
    \/ g \in PackageGUIDs /\ serves = "package"
    \/ g \in BuildGUIDs /\ serves = "build"
    \/ g \in BuildGUIDs /\ serves = "droplet" /\ (Exists(g) => objects[g].droplet # None)
    \/ g \in RouteGUIDs /\ serves \in {"route", "destinations"}

\* What it lists are processes of the app g, or routes.
Listed(kind, g) ==
    \A record \in members' :
        /\ DocHolds(record) /\ kind \in {"processList", "appRouteList"}
        /\ record.kind = "route" \/ (record.kind = "process" /\ record.app = objects[g].app)

ShowsObject(kind, g) ==
    Exists(g) /\ ShownAs(kind, g) /\ Listed(kind, g)
    /\ doc' = As(kind, objects[g]) /\ status' = "OK"

LEMMA OneShown ==
  ASSUME ObjectsInv, NEW serves, NEW g, AsksFor(serves, g), Serve(serves, g)
  PROVE  /\ UNCHANGED objects
         /\ \/ ShowsObject(IF serves = "start" THEN "app" ELSE serves, g)
            \/ ~Exists(g) /\ Refused("ResourceNotFound")
            \/ Refused("UnprocessableEntity")
<1> USE DEF Serve, ServeApp, ServeCurrentDroplet, ServeRoot, ServeProcess, ServePackage,
            ServeBuild, ServeRoute, ServeOrg
<1>1. CASE serves = "app"
  BY <1>1, LinksAssumption, GuidsOfKinds
     DEF AsksFor, ShowOne, Found, Shown, ShowsObject, ShownAs, Listed
<1>2. CASE serves = "start"
  BY <1>2, LinksAssumption, GuidsOfKinds
     DEF AsksFor, ShowOne, Found, Shown, ShowsObject, ShownAs, Listed
<1>3. CASE serves = "processList"
  <2>1. \A record \in ProcessesOf(g) :
           DocHolds(record) /\ record.kind = "process" /\ record.app = g
    BY RecordShown DEF ProcessesOf, Existing
  <2>2. g \in AppGUIDs /\ (Exists(g) => objects[g].app = g)
    BY <1>3, LinksAssumption, GuidsOfKinds DEF AsksFor, ObjectsInv, ObjectHolds
  <2> QED
    BY <1>3, <2>1, <2>2
       DEF AsksFor, ShowOne, Found, Shown, ShowsObject, ShownAs, Listed
<1>4. CASE serves = "appRouteList"
  <2>1. \A record \in RoutesOf(g) : DocHolds(record) /\ record.kind = "route"
    BY RecordShown DEF RoutesOf, Existing
  <2> QED
    BY <1>4, <2>1, LinksAssumption, GuidsOfKinds
       DEF AsksFor, ShowOne, Found, Shown, ShowsObject, ShownAs, Listed
<1>5. CASE serves \in {"process", "package", "build", "route", "destinations"}
  BY <1>5, LinksAssumption, GuidsOfKinds
     DEF AsksFor, ShowOne, Found, Shown, ShowsObject, ShownAs, Listed
<1>6. CASE serves = "droplet"
  <2>1. g \in BuildGUIDs /\ (Exists(g) => objects[g].droplet # None)
    BY <1>6 DEF AsksFor
  <2> QED
    BY <1>6, <2>1 DEF ShowOne, Found, Shown, ShowsObject, ShownAs, Listed
<1> QED
  BY <1>1, <1>2, <1>3, <1>4, <1>5, <1>6 DEF AsksFor
-----------------------------------------------------------------------------
(***************************************************************************)
(* The client follows a link                                               *)
(***************************************************************************)
\* It gets to what the link says, is refused, or is told that its object is gone.
Arrives(w) == /\ At(doc', members', w) /\ walk' = w
              /\ status' = "OK" /\ LinksLeadThere'

Stays == UNCHANGED <<doc, members, walk>>

Ends(name) ==
    \/ Arrives(walk)
    \/ Stays /\ status' \notin {"OK", "ResourceNotFound"}
    \/ Stays /\ status' = "ResourceNotFound" /\ Gone(Target(doc, name))

\* A list leads to itself, and the root to the root of the API.
LEMMA FollowToList ==
  ASSUME ObjectsInv, ClientInv, doc.kind \in Lists, NEW name, NEW serves \in Lists, NEW g,
         Leads(doc, name, serves, g), Serve(serves, g),
         from' = doc, rel' = name, UNCHANGED walk
  PROVE  Arrives(walk) /\ UNCHANGED objects
<1>1. /\ UNCHANGED objects /\ doc' = Blank(serves) /\ status' = "OK"
      /\ \A record \in members' : MemberHolds(record, None)
  BY ListShown
<1>2. walk = None /\ doc.guid = None
  BY DEF ClientInv, At, DocHolds
<1>3. At(doc', members', walk)
  BY <1>1, <1>2, BlankHolds DEF At
<1>4. \/ name \in {"self", "first", "last"} /\ serves = doc.kind
      \/ name = "cloud_controller_v3" /\ serves = "v3"
  BY DEF Leads, Lists
<1>5. LinksLeadThere'
  BY <1>1, <1>2, <1>4 DEF LinksLeadThere, Meant, Blank
<1> QED
  BY <1>1, <1>3, <1>5 DEF Arrives

\* Other links lead to an object that is, or was, there: of the same app.
LEMMA LinkNames ==
  ASSUME ObjectsInv, NEW d, DocHolds(d), d.kind \notin Lists,
         NEW name, NEW serves, NEW g, Leads(d, name, serves, g), serves # "currentDroplet"
  PROVE  /\ AsksFor(serves, g) /\ Known(g) /\ g \in GUIDs /\ g = Target(d, name)
         /\ d.kind \in {"route", "destinations"} => serves \in {"route", "destinations"}
         /\ d.kind \notin {"route", "destinations"} /\ Exists(g) => objects[g].app = d.app
<1> USE GuidsOfKinds
<1>0. d.kind # "currentDroplet"
  BY DEF Leads, Lists
<1>1. CASE d.kind \in {"app", "processList", "appRouteList"}
  <2>1. d.guid \in AppGUIDs /\ Known(d.guid) /\ d.app = d.guid /\ g = d.guid
    BY <1>1 DEF Leads, DocHolds, OwnApp, Lists
  <2>2. name \notin {"app", "droplet", "assign_current_droplet"}
        /\ serves \in {"app", "start", "processList", "appRouteList"}
    BY <1>1 DEF Leads, Lists
  <2>3. Exists(g) => objects[g].app = d.app
    BY <2>1 DEF ObjectsInv, ObjectHolds
  <2> QED
    BY <1>1, <2>1, <2>2, <2>3 DEF AsksFor, Target
<1>2. CASE d.kind \in {"process", "package", "build", "droplet"}
  <2>1. /\ d.kind = "process" => Shows(d, ProcessGUIDs)
        /\ d.kind = "package" => Shows(d, PackageGUIDs)
        /\ d.kind = "build" => Shows(d, BuildGUIDs) /\ (d.droplet # None => ShowsDroplet(d))
        /\ d.kind = "droplet" => Shows(d, BuildGUIDs) /\ ShowsDroplet(d)
    BY DEF DocHolds
  <2>2. Known(d.guid) /\ OwnApp(d) /\ (Exists(d.guid) => objects[d.guid].app = d.app)
    BY <1>2, <2>1 DEF Shows
  <2>3. CASE name = "app"
    <3>1. serves = "app" /\ g = d.app
      BY <1>2, <2>3 DEF Leads, Lists
    <3>2. Exists(g) => objects[g].app = d.app
      BY <2>2, <3>1 DEF ObjectsInv, ObjectHolds, OwnApp
    <3> QED
      BY <1>2, <2>2, <2>3, <3>1, <3>2 DEF AsksFor, Target, OwnApp
  <2>4. CASE name = "droplet"
    <3>1. d.kind = "build" /\ serves = "droplet" /\ g = d.droplet /\ g # None
      BY <1>2, <2>4 DEF Leads, Lists
    <3>2. g = d.guid /\ g \in BuildGUIDs /\ (Exists(g) => objects[g].droplet = g)
      BY <2>1, <3>1 DEF Shows, ShowsDroplet
    <3> QED
      BY <2>2, <2>4, <3>1, <3>2 DEF AsksFor, Target
  <2>5. CASE name \notin {"app", "droplet"}
    <3>1. serves = d.kind /\ g = d.guid /\ name \in {"self", "upload"}
      BY <1>2, <2>5 DEF Leads, Lists
    <3>2. AsksFor(serves, g)
      BY <1>2, <2>1, <3>1 DEF AsksFor, Shows, ShowsDroplet
    <3>3. d.guid \in GUIDs
      BY <1>2, <2>1 DEF Shows
    <3> QED
      BY <1>2, <2>2, <3>1, <3>2, <3>3 DEF Target
  <2> QED
    BY <2>3, <2>4, <2>5
<1>3. CASE d.kind \in {"route", "destinations"}
  <2>1. d.guid \in RouteGUIDs /\ Known(d.guid)
    BY <1>3 DEF DocHolds
  <2>2. /\ g = d.guid /\ serves \in {"route", "destinations"}
        /\ name \in {"self", "route", "destinations"}
    BY <1>3 DEF Leads, Lists
  <2> QED
    BY <1>3, <2>1, <2>2 DEF AsksFor, Target
<1>4. d.kind \notin {"org", "space"}
  BY DEF Leads, Lists
<1> QED
  BY <1>0, <1>1, <1>2, <1>3, <1>4 DEF DocHolds, Record, Kinds, Lists

LEMMA LinkMeans ==
  ASSUME NEW d, d.kind \notin Lists, NEW name, NEW serves, NEW g, Leads(d, name, serves, g),
         serves # "currentDroplet",
         NEW x, x.kind = (IF serves = "start" THEN "app" ELSE serves), x.guid = g
  PROVE  Meant(d, name, x)
  BY DEF Leads, Lists, Meant

LEMMA FollowToObject ==
  ASSUME ObjectsInv, ClientInv, doc.kind \notin Lists, NEW name, NEW serves, NEW g,
         Leads(doc, name, serves, g), serves # "currentDroplet", Serve(serves, g),
         from' = doc, rel' = name, UNCHANGED walk
  PROVE  Ends(name) /\ UNCHANGED objects
<1> DEFINE kind == IF serves = "start" THEN "app" ELSE serves
<1>0. DocHolds(doc) /\ InWalk(doc, walk)
  BY DEF ClientInv, At
<1>1. /\ AsksFor(serves, g) /\ Known(g) /\ g \in GUIDs /\ g = Target(doc, name)
      /\ doc.kind \in {"route", "destinations"} => serves \in {"route", "destinations"}
      /\ doc.kind \notin {"route", "destinations"} /\ Exists(g) => objects[g].app = doc.app
  BY <1>0, LinkNames
<1>2. /\ UNCHANGED objects
      /\ \/ ShowsObject(kind, g)
         \/ ~Exists(g) /\ Refused("ResourceNotFound")
         \/ Refused("UnprocessableEntity")
  BY <1>1, OneShown
<1>3. ASSUME ShowsObject(kind, g) PROVE Arrives(walk)
  <2>1. /\ doc'.kind = kind /\ doc'.guid = g /\ doc'.app = objects[g].app
        /\ DocHolds(As(kind, objects[g])) /\ doc' = As(kind, objects[g])
    BY <1>3, ObjectShown DEF ShowsObject
  <2>2. kind \notin Lists
    BY <1>3, LinksAssumption DEF ShowsObject, ShownAs, Lists
  <2>3. InWalk(doc', walk) /\ (kind \in {"route", "destinations"} \/ walk = None
                               \/ objects[g].app \in {walk, None})
    BY <1>0, <1>1, <1>3, <2>1 DEF InWalk, ShowsObject
  <2>4. \A record \in members' : MemberHolds(record, walk)
    BY <1>3, <2>3 DEF ShowsObject, Listed, MemberHolds, InWalk
  <2>5. Meant(doc, name, doc')
    BY <1>1, <2>1, LinkMeans
  <2>6. At(doc', members', walk)
    BY <2>1, <2>2, <2>3, <2>4 DEF At
  <2> QED
    BY <1>3, <2>5, <2>6 DEF Arrives, ShowsObject, LinksLeadThere
<1> QED
  BY <1>1, <1>2, <1>3 DEF Ends, Stays, Refused, Gone, Known, Exists

\* It makes the droplet that it is at the current one of its app.
LEMMA FollowToCurrentDroplet ==
  ASSUME ObjectsInv, ClientInv, NEW name, NEW g,
         Leads(doc, name, "currentDroplet", g), Serve("currentDroplet", g),
         from' = doc, rel' = name, UNCHANGED walk
  PROVE  Ends(name) /\ Evolves /\ ObjectsInv'
<1>1. doc.kind = "droplet" /\ name = "assign_current_droplet" /\ g = doc.app
  BY DEF Leads, Lists
<1>2. PICK b : b = doc.guid
  OBVIOUS
<1>3. /\ b \in BuildGUIDs /\ g \in AppGUIDs /\ Known(g) /\ InWalk(doc, walk)
      /\ g \in GUIDs
  BY <1>1, <1>2, GuidsOfKinds DEF ClientInv, At, DocHolds, Shows, OwnApp
<1>4. ServeCurrentDroplet("currentDroplet", g)
  BY DEF Serve, ServeApp, ServeRoot, ServeProcess, ServePackage, ServeBuild, ServeRoute, ServeOrg
<1>5. CASE ~Exists(g)
  <2>1. Refused("ResourceNotFound") /\ UNCHANGED objects
    BY <1>4, <1>5 DEF ServeCurrentDroplet
  <2>2. Gone(Target(doc, name))
    BY <1>1, <1>3, <1>5 DEF Gone, Target, Known, Exists
  <2> QED
    BY <2>1, <2>2, NothingEvolves DEF Ends, Stays, Refused, ObjectsInv, ObjectHolds, OwnApp,
       Known, Exists
<1>6. CASE Exists(g) /\ ~(Exists(b) /\ objects[b].droplet = b /\ objects[b].app = g)
  <2>1. Refused("UnprocessableEntity") /\ UNCHANGED objects
    BY <1>2, <1>4, <1>6 DEF ServeCurrentDroplet
  <2> QED
    BY <2>1, NothingEvolves DEF Ends, Stays, Refused, ObjectsInv, ObjectHolds, OwnApp,
       Known, Exists
<1>7. CASE Exists(g) /\ Exists(b) /\ objects[b].droplet = b /\ objects[b].app = g
  <2>1. /\ Shown([Blank("currentDroplet") EXCEPT !.app = g, !.droplet = b], {})
        /\ objects' = [objects EXCEPT ![g].droplet = b]
    BY <1>2, <1>4, <1>7 DEF ServeCurrentDroplet
  <2>2. PICK record : record = [objects[g] EXCEPT !.droplet = b]
    OBVIOUS
  <2>3. objects' = [objects EXCEPT ![g] = record]
    BY <1>3, <2>1, <2>2 DEF ObjectsInv
  <2>4. ObjectHolds(g, objects[g])
    BY <1>3, <1>7 DEF ObjectsInv
  <2>5. ObjectHolds(g, record) /\ record.app = objects[g].app
    BY <1>3, <2>2, <2>4, LinksAssumption DEF ObjectHolds, OwnApp, Record
  <2>6. MayBecome(g, record)
    BY <1>3, <1>7, <2>5, LinksAssumption DEF MayBecome
  <2>7. Evolves /\ ObjectsInv'
    BY <1>3, <2>3, <2>6, OneEvolves
  <2>8. /\ doc'.kind = "currentDroplet" /\ doc'.app = g /\ doc'.droplet = b
        /\ doc' \in Record /\ members' = {} /\ status' = "OK"
    BY <1>3, <2>1, GuidsOfKinds DEF Shown, Blank, Record, Kinds
  <2>9. DocHolds(doc')
    BY <1>3, <2>8 DEF DocHolds, Lists, OwnApp
  <2>10. At(doc', members', walk)
    BY <1>1, <1>3, <2>8, <2>9 DEF At, InWalk, Lists
  <2>11. LinksLeadThere'
    BY <1>1, <1>2, <2>8 DEF LinksLeadThere, Meant
  <2> QED
    BY <2>7, <2>8, <2>10, <2>11 DEF Ends, Arrives
<1> QED
  BY <1>5, <1>6, <1>7

LEMMA FollowEnds ==
  ASSUME ObjectsInv, ClientInv, NEW link, Follow(link)
  PROVE  Ends(link.rel) /\ Evolves /\ ObjectsInv' /\ from' = doc /\ rel' = link.rel
<1>0. link \in LinksOf(doc) /\ from' = doc /\ rel' = link.rel /\ UNCHANGED walk
  BY DEF Follow
<1>a. UNCHANGED objects => Evolves /\ ObjectsInv'
  BY NothingEvolves DEF ObjectsInv, ObjectHolds, OwnApp, Known, Exists
<1>1. ASSUME NEW e \in AtPath(link), e.method = link.method, Serve(e.serves, link.path[2])
      PROVE  Ends(link.rel) /\ Evolves /\ ObjectsInv'
  <2>1. Leads(doc, link.rel, e.serves, link.path[2])
    BY <1>0, <1>1, LinkLeads DEF ClientInv, At
  <2>2. CASE e.serves = "currentDroplet"
    BY <1>0, <1>1, <2>1, <2>2, FollowToCurrentDroplet
  <2>3. CASE doc.kind \in Lists
    <3>1. e.serves \in Lists
      BY <2>1, <2>3 DEF Leads, Lists
    <3> QED
      BY <1>0, <1>1, <1>a, <2>1, <2>3, <3>1, FollowToList DEF Ends
  <2>4. CASE doc.kind \notin Lists /\ e.serves # "currentDroplet"
    BY <1>0, <1>1, <1>a, <2>1, <2>4, FollowToObject
  <2> QED
    BY <2>2, <2>3, <2>4
<1>2. ASSUME NEW answer \in {"NoSuchPath", "MethodNotAllowed", "UnknownError"},
             Refused(answer), UNCHANGED objects
      PROVE  Ends(link.rel) /\ Evolves /\ ObjectsInv'
  BY <1>0, <1>2, <1>a DEF Ends, Stays, Refused
<1>3. \/ \E answer \in {"NoSuchPath", "MethodNotAllowed", "UnknownError"} :
            Refused(answer) /\ UNCHANGED objects
      \/ \E e \in AtPath(link) : e.method = link.method /\ Serve(e.serves, link.path[2])
  BY DEF Follow
<1> QED
  BY <1>0, <1>1, <1>2, <1>3
-----------------------------------------------------------------------------
(***************************************************************************)
(* Every step keeps the invariant                                          *)
(***************************************************************************)
LEMMA GoneStays ==
  ASSUME Evolves, NEW g, Gone(g)
  PROVE  g \in GUIDs /\ objects'[g] = Deleted
  BY LinksAssumption DEF Evolves, Gone, Known, Exists

LEMMA ArrivesKeeps ==
  ASSUME Evolves, NEW w, Arrives(w)
  PROVE  ClientInv' /\ TargetInv' /\ LinksLeadThere'
<1>1. ClientInv'
  BY ClientAt DEF Arrives
<1> QED
  BY <1>1 DEF Arrives, TargetInv

LEMMA StaysKeeps ==
  ASSUME ClientInv, Evolves, Stays
  PROVE  ClientInv'
  BY ClientAt DEF Stays, ClientInv

LEMMA FollowKeeps ==
  ASSUME ObjectsInv, ClientInv, NEW link, Follow(link)
  PROVE  ObjectsInv' /\ ClientInv' /\ TargetInv' /\ LinksLeadThere'
<1>1. Ends(link.rel) /\ Evolves /\ ObjectsInv' /\ from' = doc /\ rel' = link.rel
  BY FollowEnds
<1>2. ASSUME Stays, status' \notin {"OK", "ResourceNotFound"}
      PROVE  ClientInv' /\ TargetInv' /\ LinksLeadThere'
  BY <1>1, <1>2, StaysKeeps DEF TargetInv, LinksLeadThere
<1>3. ASSUME Stays, status' = "ResourceNotFound", Gone(Target(doc, link.rel))
      PROVE  ClientInv' /\ TargetInv' /\ LinksLeadThere'
  <2>1. Target(from, rel)' = Target(doc, link.rel)
    BY <1>1 DEF Target
  <2>2. Gone(Target(from, rel))'
    BY <1>1, <1>3, <2>1, GoneStays DEF Gone
  <2> QED
    BY <1>1, <1>3, <2>2, StaysKeeps DEF TargetInv, LinksLeadThere
<1> QED
  BY <1>1, <1>2, <1>3, ArrivesKeeps DEF Ends

\* The client goes to a document by itself.
LEMMA SelfMeant == \A d : Meant(d, "self", d)
  BY DEF Meant

LEMMA PickKeeps ==
  ASSUME ObjectsInv, ClientInv, NEW record \in members, Pick(record)
  PROVE  ObjectsInv' /\ ClientInv' /\ TargetInv' /\ LinksLeadThere'
<1>1. DocHolds(record) /\ InWalk(record, walk) /\ record.kind \notin Lists
  BY DEF ClientInv, At, MemberHolds, Lists
<1>2. InWalk(record, walk') /\ UNCHANGED objects
  BY <1>1 DEF Pick, InWalk
<1>3. At(doc', members', walk')
  BY <1>1, <1>2 DEF Pick, At
<1>4. LinksLeadThere'
  BY SelfMeant DEF Pick, LinksLeadThere
<1>5. Arrives(walk')
  BY <1>3, <1>4 DEF Pick, Arrives
<1>6. Evolves /\ ObjectsInv'
  BY <1>2, NothingEvolves DEF ObjectsInv, ObjectHolds, OwnApp, Known, Exists
<1> QED
  BY <1>5, <1>6, ArrivesKeeps

LEMMA EnterKeeps ==
  ASSUME ObjectsInv, ClientInv, NEW serves, NEW g, Enter(serves, g)
  PROVE  ObjectsInv' /\ ClientInv' /\ TargetInv' /\ LinksLeadThere'
<1>0. Serve(serves, g) /\ from' = doc' /\ rel' = "self"
  BY DEF Enter
<1>1. LinksLeadThere'
  BY <1>0, SelfMeant DEF LinksLeadThere
<1>2. Arrives(walk') /\ UNCHANGED objects
  <2>1. CASE serves \in Lists /\ walk' = None
    <3>1. /\ UNCHANGED objects /\ doc' = Blank(serves) /\ status' = "OK"
          /\ \A record \in members' : MemberHolds(record, None)
      BY <1>0, <2>1, ListShown
    <3>2. At(doc', members', walk')
      BY <2>1, <3>1, BlankHolds DEF At
    <3> QED
      BY <1>1, <3>1, <3>2 DEF Arrives
  <2>2. CASE serves = "appRouteList" /\ g \in AppGUIDs /\ Exists(g) /\ walk' = g
    <3>1. /\ Shown(As("appRouteList", objects[g]), RoutesOf(g)) /\ UNCHANGED objects
      BY <1>0, <2>2 DEF Serve, ServeApp, ServeCurrentDroplet, ServeRoot, ServeProcess,
         ServePackage, ServeBuild, ServeRoute, ServeOrg, ShowOne, Found
    <3>2. \A record \in RoutesOf(g) : MemberHolds(record, g)
      BY RecordShown DEF RoutesOf, Existing, MemberHolds, InWalk
    <3>3. objects[g].app = g
      BY <2>2, GuidsOfKinds DEF ObjectsInv, ObjectHolds
    <3>4. /\ DocHolds(doc') /\ doc'.kind = "appRouteList" /\ doc'.app = g
      BY <2>2, <3>1, <3>3, ObjectShown DEF Shown, ShownAs
    <3>5. At(doc', members', walk')
      BY <2>2, <3>1, <3>2, <3>4 DEF At, Shown, InWalk, Lists
    <3> QED
      BY <1>1, <3>1, <3>5 DEF Arrives, Shown
  <2> QED
    BY <2>1, <2>2 DEF Enter, Lists
<1>3. Evolves /\ ObjectsInv'
  BY <1>2, NothingEvolves DEF ObjectsInv, ObjectHolds, OwnApp, Known, Exists
<1> QED
  BY <1>2, <1>3, ArrivesKeeps

\* The client is shown the object that it made.
LEMMA CreatedHolds ==
  ASSUME ObjectsInv, NEW g \in GUIDs, NEW record, ObjectHolds(g, record),
         objects' = [objects EXCEPT ![g] = record]
  PROVE  DocHolds(record)'
<1>1. objects'[g] = record /\ record.guid = g
  BY DEF ObjectsInv, ObjectHolds
<1>2. record # Absent /\ record \in Record
  BY LinksAssumption DEF ObjectHolds
<1>3. Known(g)'
  BY <1>1, <1>2 DEF Known
<1>4. OwnApp(record) => OwnApp(record)'
  BY <1>3 DEF OwnApp, Known, ObjectsInv
<1>5. CASE g \in AppGUIDs
  <2>1. record.kind = "app" /\ record.app = g /\ record.space \in SpaceGUIDs
    BY <1>5 DEF ObjectHolds
  <2> QED
    BY <1>1, <1>2, <1>3, <1>5, <2>1 DEF DocHolds, OwnApp, Lists
<1>6. CASE g \in PackageGUIDs
  <2>1. record.kind = "package" /\ OwnApp(record)'
    BY <1>4, <1>6 DEF ObjectHolds
  <2> QED
    BY <1>1, <1>2, <1>3, <1>6, <2>1 DEF DocHolds, Shows, Lists
<1>7. CASE g \in BuildGUIDs
  <2>1. record.kind = "build" /\ OwnApp(record)' /\ record.droplet \in {None, g}
    BY <1>4, <1>7 DEF ObjectHolds
  <2>2. Shows(record, BuildGUIDs)'
    BY <1>1, <1>3, <1>7, <2>1 DEF Shows
  <2>3. record.droplet # None => ShowsDroplet(record)'
    BY <1>1, <2>1 DEF ShowsDroplet
  <2> QED
    BY <1>2, <2>1, <2>2, <2>3 DEF DocHolds, Lists
<1>8. CASE g \in ProcessGUIDs
  <2>1. record.kind = "process" /\ OwnApp(record)' /\ record.space \in SpaceGUIDs
    BY <1>4, <1>8 DEF ObjectHolds
  <2> QED
    BY <1>1, <1>2, <1>3, <1>8, <2>1 DEF DocHolds, Shows, Lists
<1>9. CASE g \in RouteGUIDs
  <2>1. record.kind = "route" /\ record.space \in SpaceGUIDs
    BY <1>9 DEF ObjectHolds
  <2> QED
    BY <1>1, <1>2, <1>3, <1>9, <2>1 DEF DocHolds, Lists
<1> QED
  BY <1>5, <1>6, <1>7, <1>8, <1>9 DEF GUIDs

LEMMA CreatedKeeps ==
  ASSUME ObjectsInv, NEW g \in GUIDs, NEW record, ObjectHolds(g, record), Created(g, record)
  PROVE  ObjectsInv' /\ ClientInv' /\ TargetInv' /\ LinksLeadThere'
<1>1. /\ objects[g] = Absent /\ objects' = [objects EXCEPT ![g] = record]
      /\ doc' = record /\ members' = {} /\ status' = "OK"
      /\ from' = record /\ rel' = "self" /\ walk' = record.app
  BY DEF Created, Shown
<1>2. Evolves /\ ObjectsInv'
  BY <1>1, OneEvolves DEF MayBecome
<1>3. DocHolds(record)'
  BY <1>1, CreatedHolds
<1>4. PICK e : e = doc'
  OBVIOUS
<1>5. DocHolds(e)'
  BY <1>1, <1>3, <1>4
<1>6. DocHolds(doc)'
  BY <1>4, <1>5 DEF DocHolds, OwnApp, Known, Shows, ShowsDroplet, Exists
<1>7. record.kind \notin Lists
  BY DEF ObjectHolds, GUIDs, Lists
<1>8. ClientInv'
  BY <1>1, <1>6, <1>7 DEF ClientInv, At, InWalk
<1>9. TargetInv' /\ LinksLeadThere'
  BY <1>1, SelfMeant DEF TargetInv, LinksLeadThere
<1> QED
  BY <1>2, <1>8, <1>9

LEMMA CreatesKeep ==
  ASSUME ObjectsInv,
         \/ \E s \in SpaceGUIDs, a \in AppGUIDs : CreateApp(a, s)
         \/ \E s \in SpaceGUIDs, g \in RouteGUIDs, d \in DomainGUIDs : CreateRoute(g, s, d)
         \/ \E g \in PackageGUIDs, a \in AppGUIDs : CreatePackage(g, a)
         \/ \E b \in BuildGUIDs, g \in PackageGUIDs : CreateBuild(b, g)
  PROVE  ObjectsInv' /\ ClientInv' /\ TargetInv' /\ LinksLeadThere'
<1> USE GuidsOfKinds
<1>1. ASSUME NEW s \in SpaceGUIDs, NEW a \in AppGUIDs, CreateApp(a, s)
      PROVE  ObjectsInv' /\ ClientInv' /\ TargetInv' /\ LinksLeadThere'
  <2>1. PICK record : record = [Blank("app") EXCEPT !.guid = a, !.app = a, !.space = s]
    OBVIOUS
  <2>2. ObjectHolds(a, record)
    BY <2>1, LinksAssumption DEF ObjectHolds, Blank, Record, Kinds
  <2> QED
    BY <1>1, <2>1, <2>2, CreatedKeeps DEF CreateApp
<1>2. ASSUME NEW s \in SpaceGUIDs, NEW g \in RouteGUIDs, NEW d \in DomainGUIDs,
             CreateRoute(g, s, d)
      PROVE  ObjectsInv' /\ ClientInv' /\ TargetInv' /\ LinksLeadThere'
  <2>1. PICK record : record = [Blank("route") EXCEPT !.guid = g, !.space = s, !.domain = d]
    OBVIOUS
  <2>2. ObjectHolds(g, record)
    BY <2>1, LinksAssumption DEF ObjectHolds, Blank, Record, Kinds
  <2> QED
    BY <1>2, <2>1, <2>2, CreatedKeeps DEF CreateRoute
<1>3. ASSUME NEW g \in PackageGUIDs, NEW a \in AppGUIDs, CreatePackage(g, a)
      PROVE  ObjectsInv' /\ ClientInv' /\ TargetInv' /\ LinksLeadThere'
  <2>1. PICK record : record = [Blank("package") EXCEPT !.guid = g, !.app = a,
                                                        !.space = objects[a].space]
    OBVIOUS
  <2>2. objects[a].space \in SpaceGUIDs /\ Known(a)
    BY <1>3 DEF CreatePackage, ObjectsInv, ObjectHolds, Known, Exists
  <2>3. ObjectHolds(g, record)
    BY <2>1, <2>2, LinksAssumption DEF ObjectHolds, OwnApp, Blank, Record, Kinds
  <2> QED
    BY <1>3, <2>1, <2>3, CreatedKeeps DEF CreatePackage
<1>4. ASSUME NEW b \in BuildGUIDs, NEW g \in PackageGUIDs, CreateBuild(b, g)
      PROVE  ObjectsInv' /\ ClientInv' /\ TargetInv' /\ LinksLeadThere'
  <2>1. PICK record : record = [objects[g] EXCEPT !.kind = "build", !.guid = b, !.package = g]
    OBVIOUS
  <2>2. ObjectHolds(g, objects[g])
    BY <1>4 DEF CreateBuild, ObjectsInv
  <2>3. ObjectHolds(b, record)
    BY <2>1, <2>2, LinksAssumption DEF ObjectHolds, OwnApp, Record, Kinds
  <2> QED
    BY <1>4, <2>1, <2>3, CreatedKeeps DEF CreateBuild
<1> QED
  BY <1>1, <1>2, <1>3, <1>4

\* A step of a controller, or of kubectl: the client stays where it is.
LEMMA BehindTheClient ==
  ASSUME IInv, NEW h \in GUIDs, NEW record, MayBecome(h, record),
         objects' = [objects EXCEPT ![h] = record], UNCHANGED client
  PROVE  IInv'
<1>1. Evolves /\ ObjectsInv'
  BY OneEvolves DEF IInv
<1>2. ClientInv'
  BY <1>1, StaysKeeps DEF IInv, Stays, client
<1>3. TargetInv'
  <2>1. Target(from, rel)' = Target(from, rel) /\ UNCHANGED status
    BY DEF Target, client
  <2> QED
    BY <1>1, <2>1, GoneStays DEF IInv, TargetInv, Gone
<1>4. LinksLeadThere'
  BY DEF IInv, LinksLeadThere, Meant, client
<1> QED
  BY <1>1, <1>2, <1>3, <1>4 DEF IInv

LEMMA ControllersKeep ==
  ASSUME IInv,
         \/ \E b \in BuildGUIDs : BuildStaged(b)
         \/ \E p \in ProcessGUIDs, a \in AppGUIDs : ProcessCreated(p, a)
         \/ \E g \in RouteGUIDs, a \in AppGUIDs \cup {None} : DestinationSet(g, a)
         \/ \E g \in GUIDs : Removed(g)
  PROVE  IInv'
<1> USE GuidsOfKinds DEF IInv
<1>1. ASSUME NEW b \in BuildGUIDs, BuildStaged(b) PROVE IInv'
  <2>1. PICK record : record = [objects[b] EXCEPT !.droplet = b]
    OBVIOUS
  <2>2. ObjectHolds(b, objects[b])
    BY <1>1 DEF BuildStaged, ObjectsInv
  <2>3. ObjectHolds(b, record) /\ record.app = objects[b].app /\ record.droplet = b
    BY <2>1, <2>2, LinksAssumption DEF ObjectHolds, OwnApp, Record
  <2>4. objects' = [objects EXCEPT ![b] = record] /\ MayBecome(b, record)
    BY <1>1, <2>1, <2>3 DEF BuildStaged, MayBecome, ObjectsInv
  <2> QED
    BY <1>1, <2>4, BehindTheClient DEF BuildStaged
<1>2. ASSUME NEW p \in ProcessGUIDs, NEW a \in AppGUIDs, ProcessCreated(p, a) PROVE IInv'
  <2>1. PICK record : record = [Blank("process") EXCEPT !.guid = p, !.app = a,
                                                        !.space = objects[a].space]
    OBVIOUS
  <2>2. objects[a].space \in SpaceGUIDs /\ Known(a)
    BY <1>2 DEF ProcessCreated, ObjectsInv, ObjectHolds, Known, Exists
  <2>3. ObjectHolds(p, record)
    BY <2>1, <2>2, LinksAssumption DEF ObjectHolds, OwnApp, Blank, Record, Kinds
  <2>4. objects' = [objects EXCEPT ![p] = record] /\ MayBecome(p, record)
    BY <1>2, <2>1, <2>3 DEF ProcessCreated, MayBecome
  <2> QED
    BY <1>2, <2>4, BehindTheClient DEF ProcessCreated
<1>3. ASSUME NEW g \in RouteGUIDs, NEW a \in AppGUIDs \cup {None}, DestinationSet(g, a)
      PROVE  IInv'
  <2>1. PICK record : record = [objects[g] EXCEPT !.app = a]
    OBVIOUS
  <2>2. ObjectHolds(g, objects[g])
    BY <1>3 DEF DestinationSet, ObjectsInv
  <2>3. ObjectHolds(g, record)
    BY <2>1, <2>2, LinksAssumption DEF ObjectHolds, Record
  <2>4. objects' = [objects EXCEPT ![g] = record] /\ MayBecome(g, record)
    BY <1>3, <2>1, <2>3, LinksAssumption DEF DestinationSet, MayBecome, ObjectsInv
  <2> QED
    BY <1>3, <2>4, BehindTheClient DEF DestinationSet
<1>4. ASSUME NEW g \in GUIDs, Removed(g) PROVE IInv'
  BY <1>4, BehindTheClient DEF Removed, MayBecome
<1> QED
  BY <1>1, <1>2, <1>3, <1>4
-----------------------------------------------------------------------------
(***************************************************************************)
(* The theorems                                                            *)
(***************************************************************************)
LEMMA InitIInv == Init => IInv
<1> SUFFICES ASSUME Init PROVE IInv
  OBVIOUS
<1>1. ObjectsInv
  BY DEF Init, ObjectsInv, Exists
<1>2. doc = Blank("root") /\ members = {} /\ walk = None
  BY DEF Init
<1>3. ClientInv
  BY <1>2, BlankHolds DEF ClientInv, At, Lists
<1>4. TargetInv /\ LinksLeadThere
  BY SelfMeant DEF Init, TargetInv, LinksLeadThere
<1> QED
  BY <1>1, <1>3, <1>4 DEF IInv

LEMMA NextIInv == IInv /\ [Next]_vars => IInv'
<1> SUFFICES ASSUME IInv, [Next]_vars PROVE IInv'
  OBVIOUS
<1>1. CASE \E link \in LinksOf(doc) : Follow(link)
  BY <1>1, FollowKeeps DEF IInv
<1>2. CASE \E record \in members : Pick(record)
  BY <1>2, PickKeeps DEF IInv
<1>3. CASE \E serves \in Lists \cup {"appRouteList"}, g \in AppGUIDs \cup {None} :
              Enter(serves, g)
  BY <1>3, EnterKeeps DEF IInv
<1>4. CASE \/ \E s \in SpaceGUIDs, a \in AppGUIDs : CreateApp(a, s)
           \/ \E s \in SpaceGUIDs, g \in RouteGUIDs, d \in DomainGUIDs : CreateRoute(g, s, d)
           \/ \E g \in PackageGUIDs, a \in AppGUIDs : CreatePackage(g, a)
           \/ \E b \in BuildGUIDs, g \in PackageGUIDs : CreateBuild(b, g)
  BY <1>4, CreatesKeep DEF IInv
<1>5. CASE \/ \E b \in BuildGUIDs : BuildStaged(b)
           \/ \E p \in ProcessGUIDs, a \in AppGUIDs : ProcessCreated(p, a)
           \/ \E g \in RouteGUIDs, a \in AppGUIDs \cup {None} : DestinationSet(g, a)
           \/ \E g \in GUIDs : Removed(g)
  BY <1>5, ControllersKeep
<1>6. CASE UNCHANGED vars
  BY <1>6 DEF vars, client, IInv, ObjectsInv, ObjectHolds, OwnApp, Known, Exists, ClientInv, At,
     DocHolds, InWalk, MemberHolds, Shows, ShowsDroplet, TargetInv, Gone, Target,
     LinksLeadThere, Meant
<1> QED
  BY <1>1, <1>2, <1>3, <1>4, <1>5, <1>6 DEF Next, Lists

LEMMA Invariance == Spec => []IInv
  BY InitIInv, NextIInv, PTL DEF Spec

\* Whatever link a client follows and whatever happens to the objects meanwhile, an
\* answer is a document of the kind, and about the object, that the name of the link says
\* (presenter/*.go against RegisterRoutes).
THEOREM LinksLead == Spec => []LinksLeadThere
<1>1. IInv => LinksLeadThere
  BY DEF IInv
<1> QED
  BY <1>1, Invariance, PTL

\* A handler answers a link with 404 only when the object that the link is about was
\* deleted after the client had the link.
THEOREM LinksSafety == Spec => []LinksHold
<1>1. IInv => LinksHold
  BY DEF IInv, TargetInv, Target, Gone, LinksHold
<1> QED
  BY <1>1, Invariance, PTL

\* By links, a client that came by an app never gets to a document of another app.
THEOREM WalkSafety == Spec => []WalkStaysWithApp
<1>1. IInv => WalkStaysWithApp
  BY DEF IInv, ClientInv, At, InWalk, WalkStaysWithApp
<1> QED
  BY <1>1, Invariance, PTL
=============================================================================
