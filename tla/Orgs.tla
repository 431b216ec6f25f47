-------------------------------- MODULE Orgs --------------------------------
(***************************************************************************)
(* Organizations and spaces: GET and POST /v3/organizations                *)
(* (apis/org_handler.go) and /v3/spaces (apis/space_handler.go) over the   *)
(* subnamespace anchors of HNC, the hierarchical namespace controller      *)
(* (repositories/org_repository.go).  The anchor of an org lies in the     *)
(* root namespace, that of a space in the namespace of its org.  HNC makes *)
(* the namespace of an anchor and sets the anchor's state; the handler     *)
(* that created the anchor watches it, for a while, until it is Ok.  The   *)
(* org list shows the orgs that have a role binding for the kind and name  *)
(* of the caller (repositories/org_repository_auth_decorator.go).          *)
(***************************************************************************)
EXTENDS Handlers

CONSTANTS GUIDs,         \* of orgs and spaces
          Root,          \* the root namespace
          Names,
          Users,         \* the subjects of tokens and role bindings
          AuthEnabled,   \* main.go: which repository provider is wired in
          Absent, Deleted, None

VARIABLES anchors,       \* anchors[g]: the SubnamespaceAnchor named g
          bindings,      \* <<u, g>>: a role binding in namespace g names u
          requests,      \* what the handlers hold
          history        \* what the cluster was like while a list was running

vars == <<anchors, bindings, requests, history, pc, status>>

\* v1alpha2: a new anchor has no state; HNC sets it to Ok or to one of the others
\* (Missing, Conflict, Forbidden), which the shim does not tell apart.
AnchorStates == {"Ok", "NotOk"}
Anchor == [parent : GUIDs \cup {Root}, name : Names, state : AnchorStates]

Ops == {"createOrg", "createSpace", "listOrgs", "listSpaces"}

\* A subject is a user, or a service account of a namespace; WhoAmI keeps its kind
\* and the last segment of its name, which for a service account is the name without
\* the namespace, and GetAuthorizedNamespaces compares these two.
Identity(u) == [kind |-> u.kind, name |-> u.name]

ASSUME OrgsAssumption ==
    /\ AuthEnabled \in BOOLEAN
    /\ Root \notin GUIDs
    /\ None \notin GUIDs \cup {Root} \cup Names \cup Ops
    /\ None \notin Users
    /\ Absent # Deleted /\ Absent \notin Anchor /\ Deleted \notin Anchor

\* pc of the create handlers: identity (orgs only), create, watch, watching; of
\* the list handlers: identity, listOrgs, bindings and listSpaces.
PCs == {"idle", "identity", "create", "watch", "watching", "listOrgs", "bindings",
        "listSpaces", "done"}
Writes == {"create"}

\* What a handler holds: the anchor to create and whether the watch has an event
\* with state Ok for it; the filters of a list and what it has found.
Request == [op : Ops \cup {None}, user : Users \cup {None}, guid : GUIDs \cup {None},
            parent : GUIDs \cup {Root, None}, name : Names \cup {None},
            event : BOOLEAN, names : SUBSET Names, orgs : SUBSET GUIDs,
            found : SUBSET GUIDs]

NoRequest == [op |-> None, user |-> None, guid |-> None, parent |-> None,
              name |-> None, event |-> FALSE, names |-> {}, orgs |-> {}, found |-> {}]

Exists(g) == anchors[g] \notin {Absent, Deleted}
IsOk(g) == Exists(g) /\ anchors[g].state = "Ok"

NoAnchors == [g \in GUIDs |-> Absent]

\* The org of an earlier request may be there already.
Init ==
    /\ \/ anchors = NoAnchors
       \/ \E g \in GUIDs, n \in Names :
             anchors = [NoAnchors EXCEPT ![g] = [parent |-> Root, name |-> n, state |-> "Ok"]]
    /\ bindings = {}
    /\ requests = [r \in Requests |-> NoRequest]
    /\ history = [r \in Requests |-> [stable |-> {}, ok |-> {}, bound |-> {}]]
    /\ pc = [r \in Requests |-> "idle"]
    /\ status = [r \in Requests |-> "Pending"]
-----------------------------------------------------------------------------
(***************************************************************************)
(* Kept for the properties only: of a create, whether its anchor was Ok at *)
(* some time since it arrived; of a list, the orgs or spaces that were Ok, *)
(* and the orgs with a role binding for the caller's kind and name, at     *)
(* some time, and those that it could have listed at any time.             *)
(***************************************************************************)
BoundTo(u) ==
    {g \in GUIDs : \/ ~AuthEnabled
                   \/ \E v \in Users : Identity(v) = Identity(u) /\ <<v, g>> \in bindings}

Ok(request) ==
    {g \in GUIDs : /\ IsOk(g)
                   /\ CASE request.op \in {"createOrg", "createSpace"} -> g = request.guid
                        [] request.op = "listOrgs" -> anchors[g].parent = Root
                        [] request.op = "listSpaces" -> anchors[g].parent # Root}

Bound(request) == IF request.op = "listOrgs" THEN BoundTo(request.user) ELSE {}

Listable(request) ==
    CASE request.op = "listOrgs" -> Ok(request) \cap BoundTo(request.user)
      [] request.op = "listSpaces" ->
            {g \in Ok(request) : \E org \in GUIDs : /\ anchors[g].parent = org
                                                    /\ Exists(org)
                                                    /\ anchors[org].parent = Root}
      [] OTHER -> {}

Started(request) ==
    [stable |-> Listable(request), ok |-> Ok(request), bound |-> Bound(request)]

Observed ==
    history' = [r \in Requests |->
        IF InFlight(r)
        THEN [stable |-> history[r].stable \cap Listable(requests[r])',
              ok |-> history[r].ok \cup Ok(requests[r])',
              bound |-> history[r].bound \cup Bound(requests[r])']
        ELSE history[r]]
-----------------------------------------------------------------------------
(***************************************************************************)
(* A request arrives; its payload is decoded and validated.                *)
(***************************************************************************)
Receive(r, next, request) ==
    /\ pc[r] = "idle"
    /\ \/ Call(r, next)
       \/ \E error \in PayloadErrors : Reply(r, error)
    /\ requests' = [requests EXCEPT ![r] = request]
    /\ history' = [history EXCEPT ![r] = Started(request)]
    /\ UNCHANGED <<anchors, bindings>>

\* uuid.New: a name no anchor and no request carries.
Fresh(g) == anchors[g] = Absent /\ \A r \in Requests : requests[r].guid # g

ReceiveCreateOrg(r, u, g, n) ==
    /\ Fresh(g)
    /\ Receive(r, IF AuthEnabled THEN "identity" ELSE "create",
               [NoRequest EXCEPT !.op = "createOrg", !.user = u, !.guid = g,
                                 !.parent = Root, !.name = n])

ReceiveCreateSpace(r, g, org, n) ==
    /\ Fresh(g)
    /\ Receive(r, "create", [NoRequest EXCEPT !.op = "createSpace", !.guid = g,
                                              !.parent = org, !.name = n])

\* The lists have no payload to refuse.
ReceiveList(r, next, request) ==
    /\ pc[r] = "idle"
    /\ Call(r, next)
    /\ requests' = [requests EXCEPT ![r] = request]
    /\ history' = [history EXCEPT ![r] = Started(request)]
    /\ UNCHANGED <<anchors, bindings>>

ReceiveListOrgs(r, u, names) ==
    ReceiveList(r, IF AuthEnabled THEN "identity" ELSE "listOrgs",
                [NoRequest EXCEPT !.op = "listOrgs", !.user = u, !.names = names])

ReceiveListSpaces(r, orgs, names) ==
    ReceiveList(r, "listSpaces",
                [NoRequest EXCEPT !.op = "listSpaces", !.orgs = orgs, !.names = names])
-----------------------------------------------------------------------------
(***************************************************************************)
(* OrgRepoForRequest: who is asking.                                       *)
(***************************************************************************)
\* The Authorization headers that GetIdentity tells apart: "bearer" has two words, the
\* first of them the scheme.
Headers == {"none", "malformed", "unsupported", "bearer"}

\* What the API server tells of a token.
Reviews == [authenticated : BOOLEAN, serviceAccount : BOOLEAN, prefixed : BOOLEAN]

\* WhoAmI: the user, or the service account whose name has the prefix of such names;
\* what is kept of it is its Identity.
Identified(review) ==
    review.authenticated /\ (review.serviceAccount => review.prefixed)

WhoAmI(r) ==
    \E review \in Reviews :
        \/ /\ Identified(review)
           /\ Call(r, IF requests[r].op = "createOrg" THEN "create" ELSE "listOrgs")
        \/ ~Identified(review) /\ Reply(r, "UnknownError")

GetIdentity(r) ==
    /\ At(r, "identity")
    /\ \E header \in Headers :
          \/ header = "none" /\ Reply(r, "Unauthorized")
          \/ header \in {"malformed", "unsupported"} /\ Reply(r, "UnknownError")
          \/ header = "bearer" /\ WhoAmI(r)
    /\ UNCHANGED <<anchors, bindings, requests, history>>

ReadFails(r, p) ==
    /\ At(r, p)
    /\ Reply(r, "UnknownError")
    /\ UNCHANGED <<anchors, bindings, requests, history>>
-----------------------------------------------------------------------------
(***************************************************************************)
(* createSubnamespaceAnchor                                                *)
(***************************************************************************)
\* A variant that leaves the namespace of the anchor out.
NewAnchorNowhere(request) == [parent |-> None, name |-> request.name, state |-> "NotOk"]

NewAnchor(request) ==
    [parent |-> request.parent, name |-> request.name, state |-> "NotOk"]

\* The anchor of a space needs the namespace of its org.
CreateAnchor(r) ==
    /\ pc[r] = "create"
    /\ requests[r].parent \in GUIDs => Exists(requests[r].parent)
    /\ anchors' = [anchors EXCEPT ![requests[r].guid] = NewAnchor(requests[r])]
    /\ IF Pending(r) THEN Call(r, "watch") ELSE Landed(r, "UnknownError")
    /\ UNCHANGED <<bindings, requests, history>>

\* The webhook of cf-k8s-controllers refuses a name that is taken.
RefuseDuplicate(r) ==
    /\ pc[r] = "create"
    /\ \E g \in GUIDs : /\ Exists(g)
                        /\ anchors[g].parent = requests[r].parent
                        /\ anchors[g].name = requests[r].name
    /\ Landed(r, "UnprocessableEntity")
    /\ UNCHANGED <<anchors, bindings, requests, history>>

\* A variant that takes the first event for the one it waits for.
FirstEventAny(g) == Exists(g)

\* Watch without a resource version tells the state of the anchor first.
FirstEvent(g) == IsOk(g)

StartWatch(r) ==
    /\ At(r, "watch")
    /\ Call(r, "watching")
    /\ requests' = [requests EXCEPT ![r].event = FirstEvent(requests[r].guid)]
    /\ UNCHANGED <<anchors, bindings, history>>

\* The handler gets the event with state Ok.
SeeOk(r) ==
    /\ At(r, "watching")
    /\ requests[r].event
    /\ Reply(r, "Created")
    /\ UNCHANGED <<anchors, bindings, requests, history>>

\* A variant that watches with the context of the request, which has no deadline.
WatchEndsNever(r) == FALSE /\ UNCHANGED vars

\* The watch times out, or the API server closes it, and the anchor stays.  An
\* event may be on its way just then.
WatchEnds(r) ==
    /\ At(r, "watching")
    /\ Reply(r, "UnknownError")
    /\ UNCHANGED <<anchors, bindings, requests, history>>
-----------------------------------------------------------------------------
(***************************************************************************)
(* FetchOrgs, FetchSpaces                                                  *)
(***************************************************************************)
MatchFilter(filter, value) == filter = {} \/ value \in filter

ListedOrg(g, request) ==
    /\ IsOk(g) /\ anchors[g].parent = Root
    /\ MatchFilter(request.names, anchors[g].name)

\* OrgRepo.FetchOrgs; with authorization the role bindings are listed next.
ListOrgs(r) ==
    /\ At(r, "listOrgs")
    /\ requests' = [requests EXCEPT ![r].found =
                       {g \in GUIDs : ListedOrg(g, requests[r])}]
    /\ IF AuthEnabled THEN Call(r, "bindings") ELSE Reply(r, "OK")
    /\ UNCHANGED <<anchors, bindings, history>>

\* A variant that hands on what OrgRepo.FetchOrgs found.
FilterNothing(r) ==
    /\ At(r, "bindings")
    /\ Reply(r, "OK")
    /\ UNCHANGED <<anchors, bindings, requests, history>>

\* OrgRepoAuthDecorator.FetchOrgs: the namespaces with a role binding of the caller.
FilterAuthorized(r) ==
    /\ At(r, "bindings")
    /\ requests' = [requests EXCEPT ![r].found = @ \cap BoundTo(requests[r].user)]
    /\ Reply(r, "OK")
    /\ UNCHANGED <<anchors, bindings, history>>

\* FetchSpaces: one list of every anchor; the org of a space need not be Ok.
ListedSpace(g, request) ==
    /\ IsOk(g)
    /\ MatchFilter(request.names, anchors[g].name)
    /\ \E org \in GUIDs : /\ anchors[g].parent = org
                          /\ Exists(org) /\ anchors[org].parent = Root
                          /\ MatchFilter(request.orgs, org)

ListSpaces(r) ==
    /\ At(r, "listSpaces")
    /\ requests' = [requests EXCEPT ![r].found =
                       {g \in GUIDs : ListedSpace(g, requests[r])}]
    /\ Reply(r, "OK")
    /\ UNCHANGED <<anchors, bindings, history>>
-----------------------------------------------------------------------------
(***************************************************************************)
(* Failing calls, the server and the environment                           *)
(***************************************************************************)
RefuseWrite(r) ==
    /\ pc[r] \in Writes
    /\ Landed(r, "UnknownError")
    /\ UNCHANGED <<anchors, bindings, requests, history>>

\* A variant that sends the create again when its answer is lost, and is told
\* that the name is taken, by the first one.
LoseAnswerRetried(r) ==
    /\ pc[r] \in Writes /\ Pending(r)
    /\ requests[r].parent = Root
    /\ anchors' = [anchors EXCEPT ![requests[r].guid] = NewAnchor(requests[r])]
    /\ Reply(r, "UnprocessableEntity")
    /\ UNCHANGED <<bindings, requests, history>>

LoseAnswer(r) ==
    /\ pc[r] \in Writes /\ Pending(r)
    /\ AnswerLost(r)
    /\ UNCHANGED <<anchors, bindings, requests, history>>

Crash == Crashed(Writes) /\ UNCHANGED <<anchors, bindings, requests, history>>

\* HNC sets the state of an anchor; who watches the anchor gets an event.
SetState(g, state) ==
    /\ Exists(g) /\ state # anchors[g].state
    /\ anchors' = [anchors EXCEPT ![g].state = state]
    /\ requests' = [r \in Requests |->
          IF At(r, "watching") /\ requests[r].guid = g /\ state = "Ok"
          THEN [requests[r] EXCEPT !.event = TRUE]
          ELSE requests[r]]
    /\ UNCHANGED <<bindings, pc, status>>
    /\ Observed

\* An anchor without spaces below it is deleted.
DeleteAnchor(g) ==
    /\ Exists(g)
    /\ \A h \in GUIDs : Exists(h) => anchors[h].parent # g
    /\ anchors' = [anchors EXCEPT ![g] = Deleted]
    /\ UNCHANGED <<bindings, requests, pc, status>>
    /\ Observed

\* Role bindings are kept by others.
ChangeBinding(u, g) ==
    /\ bindings' = (bindings \ {<<u, g>>}) \cup ({<<u, g>>} \ bindings)
    /\ UNCHANGED <<anchors, requests, pc, status>>
    /\ Observed

\* Every request was served and no write is on its way.
Quiescent ==
    /\ \A r \in Requests : pc[r] = "done"
    /\ UNCHANGED vars

HandlerStep(r) ==
    \/ GetIdentity(r) \/ ReadFails(r, "identity")
    \/ CreateAnchor(r) \/ RefuseDuplicate(r)
    \/ StartWatch(r) \/ ReadFails(r, "watch")
    \/ SeeOk(r) \/ WatchEnds(r)
    \/ ListOrgs(r) \/ ReadFails(r, "listOrgs")
    \/ FilterAuthorized(r) \/ ReadFails(r, "bindings")
    \/ ListSpaces(r) \/ ReadFails(r, "listSpaces")
    \/ RefuseWrite(r) \/ LoseAnswer(r)

Next ==
    \/ \E r \in Requests :
          \/ \E u \in Users, g \in GUIDs, n \in Names : ReceiveCreateOrg(r, u, g, n)
          \/ \E g, org \in GUIDs, n \in Names : ReceiveCreateSpace(r, g, org, n)
          \/ \E u \in Users, names \in SUBSET Names : ReceiveListOrgs(r, u, names)
          \/ \E orgs \in SUBSET GUIDs, names \in SUBSET Names :
                ReceiveListSpaces(r, orgs, names)
          \/ HandlerStep(r)
    \/ Crash
    \/ \E g \in GUIDs : \/ \E state \in AnchorStates : SetState(g, state)
                        \/ DeleteAnchor(g)
    \/ \E u \in Users, g \in GUIDs : ChangeBinding(u, g)
    \/ Quiescent

\* A call answers or breaks in the end, and context.WithTimeout ends the watch;
\* HNC may never come round to an anchor.
Spec == Init /\ [][Next]_vars /\ \A r \in Requests : WF_vars(HandlerStep(r))
-----------------------------------------------------------------------------
(***************************************************************************)
(* Properties                                                              *)
(***************************************************************************)
TypeOK ==
    /\ anchors \in [GUIDs -> Anchor \cup {Absent, Deleted}]
    /\ bindings \subseteq Users \X GUIDs
    /\ requests \in [Requests -> Request]
    /\ history \in [Requests -> [stable : SUBSET GUIDs, ok : SUBSET GUIDs,
                                 bound : SUBSET GUIDs]]
    /\ pc \in [Requests -> PCs]
    /\ status \in [Requests -> Statuses]

\* A create answers 201 only if its anchor was Ok, so that the namespace is
\* there, at some time since the request arrived.
CreatedWasOk ==
    \A r \in Requests : status[r] = "Created" => requests[r].guid \in history[r].ok

\* The client that is told its org or space was refused (the payload, the
\* credentials, a name that is taken) finds nothing of it later.
RefusedLeavesNothing ==
    \A r \in Requests :
        (/\ requests[r].op \in {"createOrg", "createSpace"}
         /\ status[r] \in {"MessageParseError", "UnprocessableEntity", "Unauthorized"})
        => anchors[requests[r].guid] = Absent

\* A list is right for some moments of the request, although the orgs are read
\* before the role bindings: it has nothing that was never Ok, nor an org to which no
\* role binding ever named the caller's kind and name, and, unfiltered, everything
\* that could be listed all the time.  That is as far as the list goes by the caller:
\* the bindings of a service account of another namespace that has the same name are
\* taken for the caller's.
ListIsTimely ==
    \A r \in Requests :
        (requests[r].op \in {"listOrgs", "listSpaces"} /\ status[r] = "OK") =>
            /\ requests[r].found \subseteq history[r].ok
            /\ requests[r].op = "listOrgs" => requests[r].found \subseteq history[r].bound
            /\ requests[r].names \cup requests[r].orgs = {} =>
                  history[r].stable \subseteq requests[r].found

\* A create is answered even when HNC never gets to its anchor.
EveryRequestAnswered == \A r \in Requests : Arrived(r) ~> ~Pending(r)
=============================================================================
