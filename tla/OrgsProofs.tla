----------------------------- MODULE OrgsProofs -----------------------------
(* Proofs about Orgs, for any number of requests, orgs, spaces and users.  *)
EXTENDS Orgs, TLAPS

-----------------------------------------------------------------------------
(***************************************************************************)
(* The inductive invariant                                                 *)
(***************************************************************************)
CreateOps == {"createOrg", "createSpace"}
ListOps == {"listOrgs", "listSpaces"}
Refusals == {"MessageParseError", "UnprocessableEntity", "Unauthorized"}

\* What a handler holds at each of its calls.
Holds(r) ==
    /\ pc[r] = "idle" => requests[r] = NoRequest /\ status[r] = "Pending"
    /\ pc[r] # "idle" => requests[r].op \in Ops
    /\ requests[r].op \in CreateOps =>
          /\ requests[r].guid \in GUIDs /\ requests[r].name \in Names
          /\ requests[r].parent \in GUIDs \cup {Root}
    /\ requests[r].op \notin CreateOps => requests[r].guid = None
    /\ pc[r] = "identity" => requests[r].op \in {"createOrg", "listOrgs"}
    /\ pc[r] \in {"create", "watch", "watching"} => requests[r].op \in CreateOps
    /\ pc[r] \in {"listOrgs", "bindings"} => requests[r].op = "listOrgs"
    /\ pc[r] = "listSpaces" => requests[r].op = "listSpaces"
    /\ pc[r] = "bindings" => AuthEnabled
    /\ (pc[r] # "done" /\ ~Pending(r)) =>
          pc[r] = "create" /\ status[r] \in {"UnknownError", "ConnectionLost"}

RequestInv == \A r \in Requests : Holds(r)

\* Two creates never carry the same name.
GuidInv ==
    \A q, r \in Requests :
        (q # r /\ requests[r].op \in CreateOps) => requests[q].guid # requests[r].guid

\* The anchor of a create that has yet to be written, or was refused, is not there.
AnchorInv ==
    \A r \in Requests :
        (/\ requests[r].op \in CreateOps
         /\ pc[r] \in {"identity", "create"} \/ status[r] \in Refusals)
        => anchors[requests[r].guid] = Absent

\* What Ok, Bound and Listable say, of given anchors and bindings.
OkIn(as, request) ==
    {g \in GUIDs : /\ as[g] \notin {Absent, Deleted} /\ as[g].state = "Ok"
                   /\ request.op \in CreateOps => g = request.guid
                   /\ request.op = "listOrgs" => as[g].parent = Root
                   /\ request.op = "listSpaces" => as[g].parent # Root}

BoundToIn(bs, u) ==
    {g \in GUIDs : \/ ~AuthEnabled
                   \/ \E v \in Users : Identity(v) = Identity(u) /\ <<v, g>> \in bs}

BoundIn(bs, request) == IF request.op = "listOrgs" THEN BoundToIn(bs, request.user) ELSE {}

ListableIn(as, bs, request) ==
    {g \in OkIn(as, request) :
        /\ request.op \notin CreateOps
        /\ request.op = "listOrgs" => g \in BoundToIn(bs, request.user)
        /\ request.op = "listSpaces" =>
              \E org \in GUIDs : /\ as[g].parent = org
                                 /\ as[org] \notin {Absent, Deleted}
                                 /\ as[org].parent = Root}

\* The history of a running request covers the state of the moment.
HistoryInv ==
    \A r \in Requests : InFlight(r) =>
        /\ history[r].stable \subseteq ListableIn(anchors, bindings, requests[r])
        /\ OkIn(anchors, requests[r]) \subseteq history[r].ok
        /\ BoundIn(bindings, requests[r]) \subseteq history[r].bound

\* An event tells of a state that the history has.
EventInv ==
    \A r \in Requests :
        (pc[r] = "watching" /\ requests[r].event) => requests[r].guid \in history[r].ok

\* The orgs of the first list are timely before the bindings are read.
FoundInv ==
    \A r \in Requests : pc[r] = "bindings" =>
        /\ requests[r].found \subseteq history[r].ok
        /\ requests[r].names \cup requests[r].orgs = {} =>
              history[r].stable \subseteq requests[r].found

IInv ==
    /\ TypeOK /\ RequestInv /\ GuidInv /\ AnchorInv
    /\ HistoryInv /\ EventInv /\ CreatedWasOk
    /\ FoundInv /\ ListIsTimely
-----------------------------------------------------------------------------
(***************************************************************************)
(* The history, in terms of the anchors and bindings of a state            *)
(***************************************************************************)
LEMMA OkIs ==
  ASSUME NEW request, request.op \in Ops
  PROVE  /\ Ok(request) = OkIn(anchors, request)
         /\ Bound(request) = BoundIn(bindings, request)
         /\ Listable(request) = ListableIn(anchors, bindings, request)
<1>1. Bound(request) = BoundIn(bindings, request)
  BY DEF Bound, BoundIn, BoundTo, BoundToIn
<1>2. CASE request.op \in CreateOps
  BY <1>1, <1>2 DEF Ok, OkIn, Listable, ListableIn, CreateOps, IsOk, Exists
<1>3. CASE request.op = "listOrgs"
  BY <1>1, <1>3 DEF Ok, OkIn, Listable, ListableIn, CreateOps, IsOk, Exists, BoundTo, BoundToIn
<1>4. CASE request.op = "listSpaces"
  <2>1. Ok(request) = OkIn(anchors, request)
    BY <1>4 DEF Ok, OkIn, CreateOps, IsOk, Exists
  <2>2. Listable(request) = ListableIn(anchors, bindings, request)
    BY <1>4, <2>1 DEF Listable, ListableIn, CreateOps, Exists
  <2> QED
    BY <1>1, <2>1, <2>2
<1> QED
  BY <1>2, <1>3, <1>4 DEF Ops, CreateOps

LEMMA ObservedIs ==
  ASSUME NEW r \in Requests, requests'[r].op \in Ops, InFlight(r), Observed
  PROVE  history'[r] =
           [stable |-> history[r].stable \cap ListableIn(anchors', bindings', requests'[r]),
            ok |-> history[r].ok \cup OkIn(anchors', requests'[r]),
            bound |-> history[r].bound \cup BoundIn(bindings', requests'[r])]
<1>1. Bound(requests[r])' = BoundIn(bindings', requests'[r])
  BY DEF Bound, BoundIn, BoundTo, BoundToIn
<1>2. /\ Ok(requests[r])' = OkIn(anchors', requests'[r])
      /\ Listable(requests[r])' = ListableIn(anchors', bindings', requests'[r])
  <2>2. CASE requests'[r].op \in CreateOps
    BY <1>1, <2>2 DEF Ok, OkIn, Listable, ListableIn, CreateOps, IsOk, Exists
  <2>3. CASE requests'[r].op = "listOrgs"
    BY <1>1, <2>3 DEF Ok, OkIn, Listable, ListableIn, CreateOps, IsOk, Exists, BoundTo, BoundToIn
  <2>4. CASE requests'[r].op = "listSpaces"
    <3>1. Ok(requests[r])' = OkIn(anchors', requests'[r])
      BY <2>4 DEF Ok, OkIn, CreateOps, IsOk, Exists
    <3>2. Listable(requests[r])' = ListableIn(anchors', bindings', requests'[r])
      BY <2>4, <3>1 DEF Listable, ListableIn, CreateOps, Exists
    <3> QED
      BY <3>1, <3>2
  <2> QED
    BY <2>2, <2>3, <2>4 DEF Ops, CreateOps
<1> QED
  BY <1>1, <1>2 DEF Observed
-----------------------------------------------------------------------------
(***************************************************************************)
(* Initial states                                                          *)
(***************************************************************************)
LEMMA InitIInv == Init => IInv
<1> SUFFICES ASSUME Init PROVE IInv
  OBVIOUS
<1>1. anchors \in [GUIDs -> Anchor \cup {Absent, Deleted}]
  <2>1. CASE anchors = NoAnchors
    BY <2>1 DEF NoAnchors
  <2>2. ASSUME NEW g \in GUIDs, NEW n \in Names,
               anchors = [NoAnchors EXCEPT ![g] = [parent |-> Root, name |-> n, state |-> "Ok"]]
        PROVE  anchors \in [GUIDs -> Anchor \cup {Absent, Deleted}]
    <3>1. [parent |-> Root, name |-> n, state |-> "Ok"] \in Anchor
      BY DEF Anchor, AnchorStates
    <3> QED
      BY <2>2, <3>1 DEF NoAnchors
  <2> QED
    BY <2>1, <2>2 DEF Init
<1>2. /\ requests = [r \in Requests |-> NoRequest]
      /\ pc = [r \in Requests |-> "idle"]
      /\ status = [r \in Requests |-> "Pending"]
      /\ history = [r \in Requests |-> [stable |-> {}, ok |-> {}, bound |-> {}]]
      /\ bindings = {}
  BY DEF Init
<1>3. NoRequest.op \notin Ops
  BY OrgsAssumption DEF NoRequest
<1>4. TypeOK
  BY <1>1, <1>2 DEF TypeOK, NoRequest, Request, PCs, Statuses
<1>5. RequestInv
  BY <1>2, <1>3 DEF RequestInv, Holds, Pending, NoRequest, CreateOps, Ops
<1>6. GuidInv /\ AnchorInv
  BY <1>2, <1>3 DEF GuidInv, AnchorInv, Refusals, CreateOps, Ops
<1>7. HistoryInv /\ EventInv /\ CreatedWasOk /\ FoundInv /\ ListIsTimely
  BY <1>2 DEF HistoryInv, EventInv, CreatedWasOk, FoundInv, ListIsTimely, InFlight, Arrived
<1> QED
  BY <1>4, <1>5, <1>6, <1>7 DEF IInv
-----------------------------------------------------------------------------
(***************************************************************************)
(* What one step does to one request, and to one anchor                    *)
(***************************************************************************)
\* q arrives with this request.
Arrives(q, request) ==
    /\ pc[q] = "idle" /\ UNCHANGED <<anchors, bindings>>
    /\ requests' = [requests EXCEPT ![q] = request]
    /\ history' = [history EXCEPT ![q] = Started(request)]
    /\ request \in Request /\ request.op \in Ops
    /\ IF request.op \in CreateOps
       THEN /\ Fresh(request.guid) /\ request.guid \in GUIDs
            /\ request.name \in Names /\ request.parent \in GUIDs \cup {Root}
            /\ \/ request.op = "createOrg" /\ Call(q, "identity")
               \/ Call(q, "create")
               \/ \E error \in PayloadErrors : Reply(q, error)
       ELSE /\ request.guid = None
            /\ \/ request.op = "listOrgs" /\ (Call(q, "identity") \/ Call(q, "listOrgs"))
               \/ request.op = "listSpaces" /\ Call(q, "listSpaces")

Received(q) ==
    \/ \E u \in Users, g \in GUIDs, n \in Names : ReceiveCreateOrg(q, u, g, n)
    \/ \E g, org \in GUIDs, n \in Names : ReceiveCreateSpace(q, g, org, n)
    \/ \E u \in Users, names \in SUBSET Names : ReceiveListOrgs(q, u, names)
    \/ \E orgs \in SUBSET GUIDs, names \in SUBSET Names : ReceiveListSpaces(q, orgs, names)

LEMMA Arrival ==
  ASSUME NEW q \in Requests, Received(q)
  PROVE  \E request \in Request : Arrives(q, request)
<1> USE DEF CreateOps, Ops
<1>1. ASSUME NEW u \in Users, NEW g \in GUIDs, NEW n \in Names, ReceiveCreateOrg(q, u, g, n)
      PROVE  \E request \in Request : Arrives(q, request)
  <2> DEFINE request == [NoRequest EXCEPT !.op = "createOrg", !.user = u, !.guid = g,
                                          !.parent = Root, !.name = n]
  <2>1. /\ request \in Request /\ request.op = "createOrg" /\ request.guid = g
        /\ request.name = n /\ request.parent = Root
    BY DEF NoRequest, Request
  <2> HIDE DEF request
  <2> QED
    BY <1>1, <2>1 DEF ReceiveCreateOrg, Receive, Arrives, request
<1>2. ASSUME NEW g \in GUIDs, NEW org \in GUIDs, NEW n \in Names, ReceiveCreateSpace(q, g, org, n)
      PROVE  \E request \in Request : Arrives(q, request)
  <2> DEFINE request == [NoRequest EXCEPT !.op = "createSpace", !.guid = g,
                                          !.parent = org, !.name = n]
  <2>1. /\ request \in Request /\ request.op = "createSpace" /\ request.guid = g
        /\ request.name = n /\ request.parent = org
    BY DEF NoRequest, Request
  <2> QED
    BY <1>2, <2>1 DEF ReceiveCreateSpace, Receive, Arrives
<1>3. ASSUME NEW u \in Users, NEW names \in SUBSET Names, ReceiveListOrgs(q, u, names)
      PROVE  \E request \in Request : Arrives(q, request)
  <2> DEFINE request == [NoRequest EXCEPT !.op = "listOrgs", !.user = u, !.names = names]
  <2>1. request \in Request /\ request.op = "listOrgs" /\ request.guid = None
    BY DEF NoRequest, Request
  <2> QED
    BY <1>3, <2>1 DEF ReceiveListOrgs, ReceiveList, Arrives
<1>4. ASSUME NEW orgs \in SUBSET GUIDs, NEW names \in SUBSET Names,
             ReceiveListSpaces(q, orgs, names)
      PROVE  \E request \in Request : Arrives(q, request)
  <2> DEFINE request == [NoRequest EXCEPT !.op = "listSpaces", !.orgs = orgs, !.names = names]
  <2>1. request \in Request /\ request.op = "listSpaces" /\ request.guid = None
    BY DEF NoRequest, Request
  <2> QED
    BY <1>4, <2>1 DEF ReceiveListSpaces, ReceiveList, Arrives
<1> QED
  BY <1>1, <1>2, <1>3, <1>4 DEF Received

\* Others act: the request stays as it is, but for an event that the watch tells.
Stays(q) == /\ pc'[q] = pc[q] /\ status'[q] = status[q]
            /\ requests'[q] = requests[q] /\ history'[q] = history[q]

Sees(q) ==
    /\ pc'[q] = pc[q] /\ status'[q] = status[q] /\ Observed
    /\ \/ requests'[q] = requests[q]
       \/ /\ At(q, "watching") /\ requests'[q] = [requests[q] EXCEPT !.event = TRUE]
          /\ anchors'[requests[q].guid] \notin {Absent, Deleted}
          /\ anchors'[requests[q].guid].state = "Ok"

Moved(q) ==
    \/ Stays(q) \/ Sees(q) \/ HandlerStep(q) \/ Crash
    \/ \E request \in Request : Arrives(q, request)

LEMMA Moves ==
  ASSUME TypeOK, [Next]_vars, NEW q \in Requests
  PROVE  Moved(q)
<1> USE DEF TypeOK, Moved
<1>1. ASSUME NEW r \in Requests, Received(r) PROVE Moved(q)
  <2>1. PICK request \in Request : Arrives(r, request)
    BY <1>1, Arrival
  <2>2. CASE q = r
    BY <2>1, <2>2
  <2>3. CASE q # r
    <3>1. (\E next \in PCs : Call(r, next)) \/ \E error \in Statuses : Reply(r, error)
      BY <2>1 DEF Arrives, PCs, Statuses, PayloadErrors
    <3> QED
      BY <2>1, <2>3, <3>1 DEF Arrives, Call, Reply, Stays
  <2> QED
    BY <2>2, <2>3
<1>2. ASSUME NEW r \in Requests, HandlerStep(r) PROVE Moved(q)
  <2>1. CASE q = r
    BY <1>2, <2>1
  <2>2. CASE q # r
    <3>1. ASSUME requests' = requests \/ \E request : requests' = [requests EXCEPT ![r] = request],
                 history' = history,
                 \/ AnswerLost(r) \/ \E next \in PCs : Call(r, next)
                 \/ \E error \in Statuses : Reply(r, error)
          PROVE  Stays(q)
      BY <2>2, <3>1 DEF AnswerLost, Call, Reply, Stays
    <3> USE DEF PCs, Statuses
    <3>2. CASE GetIdentity(r)
      BY <3>1, <3>2 DEF GetIdentity, WhoAmI
    <3>3. CASE CreateAnchor(r)
      BY <3>1, <3>3 DEF CreateAnchor, Landed
    <3>4. CASE RefuseDuplicate(r) \/ RefuseWrite(r)
      BY <3>1, <3>4 DEF RefuseDuplicate, RefuseWrite, Landed
    <3>5. CASE StartWatch(r)
      BY <3>1, <3>5 DEF StartWatch
    <3>6. CASE SeeOk(r) \/ WatchEnds(r) \/ LoseAnswer(r)
      BY <3>1, <3>6 DEF SeeOk, WatchEnds, LoseAnswer
    <3>7. CASE ListOrgs(r)
      BY <3>1, <3>7 DEF ListOrgs
    <3>8. CASE FilterAuthorized(r) \/ ListSpaces(r)
      BY <3>1, <3>8 DEF FilterAuthorized, ListSpaces
    <3>9. CASE \E p \in PCs : ReadFails(r, p)
      BY <3>1, <3>9 DEF ReadFails
    <3> QED
      BY <1>2, <3>2, <3>3, <3>4, <3>5, <3>6, <3>7, <3>8, <3>9 DEF HandlerStep
  <2> QED
    BY <2>1, <2>2
<1>3. ASSUME NEW g \in GUIDs, NEW state \in AnchorStates, SetState(g, state) PROVE Moved(q)
  <2>1. CASE At(q, "watching") /\ requests[q].guid = g /\ state = "Ok"
    <3>1. anchors[g] \in Anchor /\ anchors'[g] = [anchors[g] EXCEPT !.state = state]
      BY <1>3 DEF SetState, Exists
    <3>2. [anchors[g] EXCEPT !.state = state] \in Anchor /\ anchors'[g].state = state
      BY <3>1 DEF Anchor
    <3> QED
      BY <1>3, <2>1, <3>1, <3>2, OrgsAssumption DEF SetState, Sees
  <2>2. CASE ~(At(q, "watching") /\ requests[q].guid = g /\ state = "Ok")
    BY <1>3, <2>2 DEF SetState, Sees
  <2> QED
    BY <2>1, <2>2
<1>4. ASSUME NEW g \in GUIDs, DeleteAnchor(g) PROVE Moved(q)
  BY <1>4 DEF DeleteAnchor, Sees
<1>5. ASSUME NEW u \in Users, NEW g \in GUIDs, ChangeBinding(u, g) PROVE Moved(q)
  BY <1>5 DEF ChangeBinding, Sees
<1>6. CASE UNCHANGED vars
  BY <1>6 DEF vars, Stays
<1>7. CASE Crash
  BY <1>7
<1> HIDE DEF TypeOK, Moved
<1> QED
  BY <1>1, <1>2, <1>3, <1>4, <1>5, <1>6, <1>7 DEF Next, Quiescent, Received

\* An anchor is written once, by the create that carries its name; then it changes
\* its state until it is deleted.
AnchorCreated(g) ==
    \E r \in Requests :
        /\ pc[r] = "create" /\ pc'[r] \in {"watch", "done"}
        /\ status'[r] = status[r]
        /\ requests[r].guid = g /\ anchors'[g] = NewAnchor(requests[r])

LEMMA AnchorSteps ==
  ASSUME TypeOK, [Next]_vars, NEW g \in GUIDs
  PROVE  anchors'[g] = anchors[g] \/ AnchorCreated(g) \/ Exists(g)
<1> USE DEF TypeOK
<1>1. ASSUME NEW r \in Requests, CreateAnchor(r)
      PROVE  anchors'[g] = anchors[g] \/ AnchorCreated(g)
  <2>1. CASE requests[r].guid = g
    BY <1>1, <2>1 DEF CreateAnchor, AnchorCreated, Call, Landed, Reply
  <2>2. CASE requests[r].guid # g
    BY <1>1, <2>2 DEF CreateAnchor
  <2> QED
    BY <2>1, <2>2
<1>2. ASSUME NEW h \in GUIDs, NEW state \in AnchorStates, SetState(h, state)
      PROVE  anchors'[g] = anchors[g] \/ Exists(g)
  BY <1>2 DEF SetState
<1>3. ASSUME NEW h \in GUIDs, DeleteAnchor(h)
      PROVE  anchors'[g] = anchors[g] \/ Exists(g)
  BY <1>3 DEF DeleteAnchor
<1>4. CASE UNCHANGED anchors
  BY <1>4
<1>5. ASSUME NEW r \in Requests, HandlerStep(r)
      PROVE  CreateAnchor(r) \/ UNCHANGED anchors
  <2> HIDE DEF TypeOK
  <2> QED
    BY <1>5 DEF HandlerStep, GetIdentity, ReadFails, RefuseDuplicate, StartWatch, SeeOk, WatchEnds,
       ListOrgs, FilterAuthorized, ListSpaces, RefuseWrite, LoseAnswer
<1>6. ASSUME NEW r \in Requests,
             \/ \E u \in Users, h \in GUIDs, n \in Names : ReceiveCreateOrg(r, u, h, n)
             \/ \E h, org \in GUIDs, n \in Names : ReceiveCreateSpace(r, h, org, n)
             \/ \E u \in Users, names \in SUBSET Names : ReceiveListOrgs(r, u, names)
             \/ \E orgs \in SUBSET GUIDs, names \in SUBSET Names :
                   ReceiveListSpaces(r, orgs, names)
      PROVE  UNCHANGED anchors
  <2> HIDE DEF TypeOK
  <2> QED
    BY <1>6 DEF ReceiveCreateOrg, ReceiveCreateSpace, Receive, ReceiveListOrgs,
       ReceiveListSpaces, ReceiveList
<1>7. CASE \E u \in Users, h \in GUIDs : ChangeBinding(u, h)
  BY <1>7 DEF ChangeBinding
<1>8. CASE Crash \/ Quiescent \/ UNCHANGED vars
  BY <1>8 DEF Crash, Quiescent, vars
<1> HIDE DEF TypeOK
<1> QED
  BY <1>1, <1>2, <1>3, <1>4, <1>5, <1>6, <1>7, <1>8 DEF Next
-----------------------------------------------------------------------------
(***************************************************************************)
(* Preservation                                                            *)
(***************************************************************************)
LEMMA ObservedType ==
  ASSUME TypeOK, Observed
  PROVE  history' \in [Requests -> [stable : SUBSET GUIDs, ok : SUBSET GUIDs, bound : SUBSET GUIDs]]
<1> DEFINE H == [stable : SUBSET GUIDs, ok : SUBSET GUIDs, bound : SUBSET GUIDs]
<1>1. ASSUME NEW r \in Requests
      PROVE  /\ history[r] \in H
             /\ [stable |-> history[r].stable \cap Listable(requests[r])',
                 ok |-> history[r].ok \cup Ok(requests[r])',
                 bound |-> history[r].bound \cup Bound(requests[r])'] \in H
  <2>1. Ok(requests[r])' \subseteq GUIDs
    BY DEF Ok
  <2>2. Bound(requests[r])' \subseteq GUIDs
    BY DEF Bound, BoundTo
  <2>3. history[r] \in H
    BY DEF TypeOK
  <2> QED
    BY <2>1, <2>2, <2>3
<1> QED
  BY <1>1 DEF Observed

LEMMA FieldSet ==
  ASSUME NEW request \in Request
  PROVE  /\ \A event \in BOOLEAN : [request EXCEPT !.event = event] \in Request
         /\ \A found \in SUBSET GUIDs : [request EXCEPT !.found = found] \in Request
  BY DEF Request

LEMMA NextTypeOK == ASSUME TypeOK, RequestInv, [Next]_vars PROVE TypeOK'
<1> USE DEF TypeOK
<1>1. ASSUME NEW r \in Requests, Received(r) PROVE TypeOK'
  <2>1. PICK request \in Request : Arrives(r, request)
    BY <1>1, Arrival
  <2>2. Started(request) \in [stable : SUBSET GUIDs, ok : SUBSET GUIDs, bound : SUBSET GUIDs]
    <3>1. request.op \in Ops
      BY <2>1 DEF Arrives
    <3>2. /\ OkIn(anchors, request) \subseteq GUIDs /\ BoundIn(bindings, request) \subseteq GUIDs
          /\ ListableIn(anchors, bindings, request) \subseteq GUIDs
      BY DEF OkIn, BoundIn, BoundToIn, ListableIn
    <3>3. Started(request) = [stable |-> ListableIn(anchors, bindings, request),
                              ok |-> OkIn(anchors, request), bound |-> BoundIn(bindings, request)]
      BY <3>1, OkIs DEF Started
    <3> QED
      BY <3>2, <3>3
  <2>3. \/ \E next \in PCs : Call(r, next)
        \/ \E error \in Statuses : Reply(r, error)
    BY <2>1 DEF Arrives, PCs, Statuses, PayloadErrors
  <2>4. pc' \in [Requests -> PCs] /\ status' \in [Requests -> Statuses]
    BY <2>3 DEF Call, Reply, PCs
  <2> QED
    BY <2>1, <2>2, <2>4 DEF Arrives
<1>2. ASSUME NEW r \in Requests, HandlerStep(r) PROVE TypeOK'
  <2>0. ASSUME \/ AnswerLost(r) \/ \E next \in PCs : Call(r, next)
               \/ \E error \in Statuses : Reply(r, error)
        PROVE  pc' \in [Requests -> PCs] /\ status' \in [Requests -> Statuses]
    BY <2>0 DEF AnswerLost, Call, Reply, PCs, Statuses
  <2>1. CASE GetIdentity(r)
    <3>1. (\E next \in PCs : Call(r, next)) \/ \E error \in Statuses : Reply(r, error)
      BY <2>1 DEF GetIdentity, WhoAmI, PCs, Statuses
    <3> QED
      BY <2>0, <2>1, <3>1 DEF GetIdentity
  <2>2. CASE CreateAnchor(r)
    <3>1. requests[r].name \in Names /\ requests[r].parent \in GUIDs \cup {Root}
      BY <2>2 DEF CreateAnchor, RequestInv, Holds
    <3>2. NewAnchor(requests[r]) \in Anchor
      BY <3>1 DEF NewAnchor, Anchor, AnchorStates
    <3>3. (\E next \in PCs : Call(r, next)) \/ \E error \in Statuses : Reply(r, error)
      BY <2>2 DEF CreateAnchor, Landed, PCs, Statuses
    <3> QED
      BY <2>0, <2>2, <3>2, <3>3 DEF CreateAnchor
  <2>3. CASE RefuseDuplicate(r) \/ RefuseWrite(r)
    <3>1. \E error \in Statuses : Reply(r, error)
      BY <2>3 DEF RefuseDuplicate, RefuseWrite, Landed, Statuses
    <3> QED
      BY <2>0, <2>3, <3>1 DEF RefuseDuplicate, RefuseWrite
  <2>4. CASE StartWatch(r)
    <3>1. FirstEvent(requests[r].guid) \in BOOLEAN
      BY DEF FirstEvent, IsOk, Exists
    <3>2. [requests[r] EXCEPT !.event = FirstEvent(requests[r].guid)] \in Request
      <4>1. \A event \in BOOLEAN : [requests[r] EXCEPT !.event = event] \in Request
        BY FieldSet
      <4> QED
        BY <3>1, <4>1
    <3>3. requests' = [requests EXCEPT ![r] = [requests[r] EXCEPT !.event = FirstEvent(requests[r].guid)]]
      BY <2>4 DEF StartWatch
    <3> HIDE DEF TypeOK
    <3>4. requests' \in [Requests -> Request]
      BY <3>2, <3>3 DEF TypeOK
    <3>5. pc' \in [Requests -> PCs] /\ status' \in [Requests -> Statuses]
      BY <2>0, <2>4 DEF StartWatch, PCs
    <3> QED
      BY <2>4, <3>4, <3>5 DEF StartWatch, TypeOK
  <2>5. CASE SeeOk(r) \/ WatchEnds(r) \/ LoseAnswer(r)
    <3>1. AnswerLost(r) \/ \E error \in Statuses : Reply(r, error)
      BY <2>5 DEF SeeOk, WatchEnds, LoseAnswer, Statuses
    <3> QED
      BY <2>0, <2>5, <3>1 DEF SeeOk, WatchEnds, LoseAnswer
  <2>6. ASSUME NEW found \in SUBSET GUIDs, requests' = [requests EXCEPT ![r].found = found],
               (\E next \in PCs : Call(r, next)) \/ \E error \in Statuses : Reply(r, error),
               UNCHANGED <<anchors, bindings, history>>
        PROVE  TypeOK'
    <3>1. [requests[r] EXCEPT !.found = found] \in Request
      BY FieldSet
    <3>2. requests' \in [Requests -> Request]
      BY <2>6, <3>1
    <3> QED
      BY <2>0, <2>6, <3>2
  <2>7. CASE ListOrgs(r)
    <3>1. (\E next \in PCs : Call(r, next)) \/ \E error \in Statuses : Reply(r, error)
      BY <2>7 DEF ListOrgs, PCs, Statuses
    <3>2. {g \in GUIDs : ListedOrg(g, requests[r])} \in SUBSET GUIDs
      OBVIOUS
    <3> QED
      BY <2>6, <2>7, <3>1, <3>2 DEF ListOrgs
  <2>8. CASE ListSpaces(r)
    <3>1. \E error \in Statuses : Reply(r, error)
      BY <2>8 DEF ListSpaces, Statuses
    <3>2. {g \in GUIDs : ListedSpace(g, requests[r])} \in SUBSET GUIDs
      OBVIOUS
    <3> QED
      BY <2>6, <2>8, <3>1, <3>2 DEF ListSpaces
  <2>9. CASE FilterAuthorized(r)
    <3>1. \E error \in Statuses : Reply(r, error)
      BY <2>9 DEF FilterAuthorized, Statuses
    <3>2. requests[r].found \cap BoundTo(requests[r].user) \in SUBSET GUIDs
      BY DEF BoundTo
    <3> QED
      BY <2>6, <2>9, <3>1, <3>2 DEF FilterAuthorized
  <2>10. CASE \E p \in PCs : ReadFails(r, p)
    <3>1. \E error \in Statuses : Reply(r, error)
      BY <2>10 DEF ReadFails, Statuses
    <3> QED
      BY <2>0, <2>10, <3>1 DEF ReadFails
  <2> HIDE DEF TypeOK
  <2> QED
    BY <1>2, <2>1, <2>2, <2>3, <2>4, <2>5, <2>7, <2>8, <2>9, <2>10 DEF HandlerStep, PCs
<1>3. ASSUME NEW g \in GUIDs, NEW state \in AnchorStates, SetState(g, state) PROVE TypeOK'
  <2>1. [anchors[g] EXCEPT !.state = state] \in Anchor
    BY <1>3 DEF SetState, Exists, Anchor
  <2>2. anchors' \in [GUIDs -> Anchor \cup {Absent, Deleted}]
    BY <1>3, <2>1 DEF SetState
  <2>3. requests' \in [Requests -> Request]
    <3>1. \A r \in Requests : requests[r] \in Request /\ [requests[r] EXCEPT !.event = TRUE] \in Request
      <4>1. \A r \in Requests : requests[r] \in Request
        OBVIOUS
      <4> HIDE DEF TypeOK
      <4> QED
        BY <4>1, FieldSet
    <3> HIDE DEF TypeOK
    <3> QED
      BY <1>3, <3>1 DEF SetState
  <2> QED
    BY <1>3, <2>2, <2>3, ObservedType DEF SetState
<1>4. ASSUME NEW g \in GUIDs, DeleteAnchor(g) PROVE TypeOK'
  BY <1>4, ObservedType DEF DeleteAnchor
<1>5. ASSUME NEW u \in Users, NEW g \in GUIDs, ChangeBinding(u, g) PROVE TypeOK'
  BY <1>5, ObservedType DEF ChangeBinding
<1>6. CASE UNCHANGED vars
  BY <1>6 DEF vars
<1>7. CASE Crash
  BY <1>7 DEF Crash, Crashed, PCs, Statuses
<1> HIDE DEF TypeOK
<1> QED
  BY <1>1, <1>2, <1>3, <1>4, <1>5, <1>6, <1>7 DEF Next, Quiescent, Received

\* What a request asks for stays; its answer, once given, does too.
SameAsk(q) ==
    /\ requests'[q].op = requests[q].op /\ requests'[q].guid = requests[q].guid
    /\ requests'[q].user = requests[q].user /\ requests'[q].name = requests[q].name
    /\ requests'[q].parent = requests[q].parent
    /\ requests'[q].names = requests[q].names /\ requests'[q].orgs = requests[q].orgs

\* A handler's own step, in what it changes of the request and of its progress.
Progress(q) ==
    /\ pc[q] \notin {"idle", "done"} /\ SameAsk(q)
    /\ history'[q] = history[q]
    /\ \/ GetIdentity(q) \/ requests'[q] = requests[q] \/ StartWatch(q)
       \/ ListOrgs(q) \/ ListSpaces(q) \/ FilterAuthorized(q)

LEMMA HandlerProgress ==
  ASSUME TypeOK, NEW q \in Requests, HandlerStep(q)
  PROVE  Progress(q)
<1> USE DEF TypeOK, SameAsk
<1>0. requests[q] \in Request
  OBVIOUS
<1>1. CASE GetIdentity(q)
  BY <1>1 DEF GetIdentity, At, Progress
<1>2. CASE CreateAnchor(q) \/ RefuseDuplicate(q) \/ RefuseWrite(q) \/ LoseAnswer(q)
  BY <1>2 DEF CreateAnchor, RefuseDuplicate, RefuseWrite, LoseAnswer, Writes, Progress
<1>3. CASE StartWatch(q)
  <2>1. requests'[q] = [requests[q] EXCEPT !.event = FirstEvent(requests[q].guid)]
    BY <1>3 DEF StartWatch
  <2>2. SameAsk(q)
    BY <1>0, <2>1 DEF Request
  <2> QED
    BY <1>3, <2>2 DEF StartWatch, At, Progress
<1>4. CASE SeeOk(q) \/ WatchEnds(q)
  BY <1>4 DEF SeeOk, WatchEnds, At, Progress
<1>5. ASSUME NEW found, requests'[q] = [requests[q] EXCEPT !.found = found]
      PROVE  SameAsk(q)
  BY <1>0, <1>5 DEF Request
<1>6. CASE ListOrgs(q) \/ ListSpaces(q) \/ FilterAuthorized(q)
  <2>1. SameAsk(q)
    BY <1>5, <1>6 DEF ListOrgs, ListSpaces, FilterAuthorized
  <2>2. pc[q] \notin {"idle", "done"} /\ history'[q] = history[q]
    BY <1>6 DEF ListOrgs, ListSpaces, FilterAuthorized, At
  <2> QED
    BY <1>6, <2>1, <2>2 DEF Progress
<1>7. CASE \E p \in PCs \ {"idle", "done"} : ReadFails(q, p)
  BY <1>7 DEF ReadFails, At, Progress
<1> HIDE DEF TypeOK, SameAsk
<1> QED
  BY <1>1, <1>2, <1>3, <1>4, <1>6, <1>7 DEF HandlerStep, PCs

LEMMA Asks ==
  ASSUME TypeOK, [Next]_vars, NEW q \in Requests
  PROVE  SameAsk(q) \/ \E request \in Request : Arrives(q, request)
<1>1. CASE HandlerStep(q)
  BY <1>1, HandlerProgress DEF Progress
<1>2. CASE Stays(q) \/ Crash
  BY <1>2 DEF Stays, Crash, SameAsk
<1>3. CASE Sees(q)
  <2>1. requests[q] \in Request
    BY DEF TypeOK
  <2> QED
    BY <1>3, <2>1 DEF Sees, SameAsk, Request
<1> QED
  BY <1>1, <1>2, <1>3, Moves DEF Moved

LEMMA NextRequestInv == ASSUME TypeOK, RequestInv, [Next]_vars PROVE RequestInv'
<1> SUFFICES ASSUME NEW q \in Requests PROVE Holds(q)'
  BY DEF RequestInv
<1> USE DEF TypeOK, Pending
<1>0. Holds(q)
  BY DEF RequestInv
<1>1. CASE Stays(q)
  BY <1>0, <1>1 DEF Stays, Holds
<1>2. CASE Sees(q)
  <2>1. SameAsk(q)
    BY <1>2 DEF Sees, SameAsk, Request
  <2>2. pc[q] = "idle" => requests'[q] = requests[q]
    BY <1>2 DEF Sees, At
  <2> QED
    BY <1>0, <1>2, <2>1, <2>2 DEF Sees, SameAsk, Holds
<1>3. ASSUME NEW request \in Request, Arrives(q, request) PROVE Holds(q)'
  <2>1. requests'[q] = request /\ status[q] = "Pending"
    BY <1>0, <1>3 DEF Arrives, Holds
  <2>2. CASE request.op \in CreateOps
    <3>1. \/ pc'[q] = "identity" /\ request.op = "createOrg" /\ status'[q] = "Pending"
          \/ pc'[q] = "create" /\ status'[q] = "Pending"
          \/ pc'[q] = "done"
      BY <1>3, <2>1, <2>2 DEF Arrives, Call, Reply
    <3> QED
      BY <1>3, <2>1, <2>2, <3>1 DEF Arrives, Holds
  <2>3. CASE request.op \notin CreateOps
    <3>1. /\ \/ pc'[q] \in {"identity", "listOrgs"} /\ request.op = "listOrgs"
             \/ pc'[q] = "listSpaces" /\ request.op = "listSpaces"
          /\ status'[q] = "Pending" /\ request.op \in Ops /\ request.guid = None
      BY <1>3, <2>1, <2>3 DEF Arrives, Call, Reply
    <3> QED
      BY <2>1, <2>3, <3>1 DEF Holds
  <2> QED
    BY <2>2, <2>3
<1>4. CASE HandlerStep(q)
  <2>0. SameAsk(q) /\ pc[q] \notin {"idle", "done"}
    BY <1>4, HandlerProgress DEF Progress
  <2> USE <1>0, <2>0 DEF SameAsk, Holds
  <2>1. CASE GetIdentity(q)
    <3>1. /\ pc[q] = "identity"
          /\ \/ pc'[q] = "done"
             \/ pc'[q] = "create" /\ requests[q].op = "createOrg" /\ status'[q] = "Pending"
             \/ pc'[q] = "listOrgs" /\ requests[q].op # "createOrg" /\ status'[q] = "Pending"
      BY <2>1 DEF GetIdentity, WhoAmI, At, Call, Reply
    <3> QED
      BY <3>1 DEF CreateOps
  <2>2. CASE CreateAnchor(q)
    BY <2>2 DEF CreateAnchor, Call, Landed, Reply
  <2>3. CASE RefuseDuplicate(q) \/ RefuseWrite(q) \/ LoseAnswer(q)
    BY <2>3 DEF RefuseDuplicate, RefuseWrite, LoseAnswer, Landed, Reply, AnswerLost, Writes
  <2>4. CASE StartWatch(q)
    BY <2>4 DEF StartWatch, At, Call
  <2>5. CASE SeeOk(q) \/ WatchEnds(q)
    BY <2>5 DEF SeeOk, WatchEnds, Reply
  <2>6. CASE ListOrgs(q)
    BY <2>6 DEF ListOrgs, At, Call, Reply
  <2>7. CASE FilterAuthorized(q) \/ ListSpaces(q)
    BY <2>7 DEF FilterAuthorized, ListSpaces, Reply
  <2>8. CASE \E p \in PCs : ReadFails(q, p)
    BY <2>8 DEF ReadFails, Reply
  <2> HIDE DEF TypeOK, Holds, SameAsk
  <2> QED
    BY <1>4, <2>1, <2>2, <2>3, <2>4, <2>5, <2>6, <2>7, <2>8 DEF HandlerStep, PCs
<1>5. CASE Crash
  BY <1>0, <1>5 DEF Crash, Crashed, InFlight, Arrived, Writes, Holds
<1> HIDE DEF TypeOK, Holds
<1> QED
  BY <1>1, <1>2, <1>3, <1>4, <1>5, Moves DEF Moved

LEMMA NextGuidInv == ASSUME TypeOK, RequestInv, GuidInv, [Next]_vars PROVE GuidInv'
<1> SUFFICES ASSUME NEW q \in Requests, NEW r \in Requests, q # r,
                    requests'[r].op \in CreateOps, requests'[q].guid = requests'[r].guid
             PROVE  FALSE
  BY DEF GuidInv
<1>0. Holds(r)' /\ Holds(q)'
  BY NextRequestInv DEF RequestInv
<1>1. requests'[r].guid \in GUIDs /\ requests'[q].op \in CreateOps
  BY <1>0, OrgsAssumption DEF Holds
<1>2. ASSUME NEW x \in Requests, NEW y \in Requests, x # y,
             NEW request \in Request, Arrives(x, request),
             requests'[x].guid = requests'[y].guid, requests'[x].op \in CreateOps
      PROVE  FALSE
  <2>1. requests'[x] = request /\ requests'[y] = requests[y]
    BY <1>2 DEF Arrives, TypeOK
  <2> QED
    BY <1>2, <2>1 DEF Arrives, Fresh
<1>3. SameAsk(q) /\ SameAsk(r)
  BY <1>1, <1>2, Asks
<1> QED
  BY <1>3 DEF SameAsk, GuidInv

LEMMA NextAnchorInv ==
  ASSUME TypeOK, RequestInv, GuidInv, AnchorInv, [Next]_vars
  PROVE  AnchorInv'
<1> USE DEF TypeOK
<1> SUFFICES ASSUME NEW r \in Requests, requests'[r].op \in CreateOps,
                    pc'[r] \in {"identity", "create"} \/ status'[r] \in Refusals
             PROVE  anchors'[requests'[r].guid] = Absent
  BY DEF AnchorInv
<1>0. Holds(r) /\ Holds(r)'
  BY NextRequestInv DEF RequestInv
<1>1. ASSUME NEW request \in Request, Arrives(r, request)
      PROVE  anchors'[requests'[r].guid] = Absent
  <2>1. requests'[r] = request
    BY <1>1 DEF Arrives
  <2> QED
    BY <1>1, <2>1 DEF Arrives, Fresh
<1>2. CASE SameAsk(r)
  <2> DEFINE g == requests[r].guid
  <2>1. g \in GUIDs /\ requests[r].op \in CreateOps
    BY <1>0, <1>2 DEF SameAsk, Holds
  <2>2. pc[r] \in {"identity", "create"} \/ status[r] \in Refusals
    <3>1. CASE Stays(r) \/ Sees(r)
      BY <3>1 DEF Stays, Sees
    <3>2. CASE HandlerStep(r)
      <4>1. CASE GetIdentity(r)
        BY <4>1 DEF GetIdentity, At
      <4>2. CASE CreateAnchor(r) \/ RefuseDuplicate(r) \/ RefuseWrite(r) \/ LoseAnswer(r)
        BY <4>2 DEF CreateAnchor, RefuseDuplicate, RefuseWrite, LoseAnswer, Writes
      <4>3. CASE \E p \in PCs : ReadFails(r, p)
        BY <4>3 DEF ReadFails, At, Reply, Refusals
      <4>4. CASE StartWatch(r)
        BY <4>4 DEF StartWatch, At, Pending, Call, Refusals
      <4>5. CASE SeeOk(r) \/ WatchEnds(r)
        BY <4>5 DEF SeeOk, WatchEnds, Reply, Refusals
      <4>6. CASE ListOrgs(r) \/ ListSpaces(r) \/ FilterAuthorized(r)
        BY <1>0, <2>1, <4>6 DEF ListOrgs, ListSpaces, FilterAuthorized, At, Holds, CreateOps
      <4> HIDE DEF TypeOK
      <4> QED
        BY <3>2, <4>1, <4>2, <4>3, <4>4, <4>5, <4>6 DEF HandlerStep, PCs
    <3>3. CASE Crash
      BY <3>3 DEF Crash, Crashed, Refusals
    <3>4. ~\E request \in Request : Arrives(r, request)
      BY <1>0, <2>1, OrgsAssumption DEF Arrives, Holds, NoRequest, CreateOps, Ops
    <3> HIDE DEF TypeOK
    <3> QED
      BY <3>1, <3>2, <3>3, <3>4, Moves DEF Moved
  <2>3. anchors[g] = Absent
    BY <2>1, <2>2 DEF AnchorInv
  <2>4. ~AnchorCreated(g)
    <3>1. SUFFICES ASSUME NEW q \in Requests, pc[q] = "create", pc'[q] \in {"watch", "done"},
                          requests[q].guid = g, status'[q] = status[q]
                   PROVE  FALSE
      BY DEF AnchorCreated
    <3>2. q = r
      BY <2>1, <3>1 DEF GuidInv
    <3> QED
      BY <1>0, <3>1, <3>2 DEF Holds, Pending, Refusals
  <2> QED
    BY <1>2, <2>1, <2>3, <2>4, AnchorSteps DEF SameAsk, Exists
<1> QED
  BY <1>1, <1>2, Asks

\* The create of an anchor shows nothing new, and hides nothing that could be listed.
LEMMA CreateHidesNothing ==
  ASSUME TypeOK, RequestInv, AnchorInv, NEW q \in Requests, CreateAnchor(q), NEW request
  PROVE  /\ OkIn(anchors', request) = OkIn(anchors, request)
         /\ ListableIn(anchors, bindings, request) \subseteq ListableIn(anchors', bindings, request)
<1> DEFINE g == requests[q].guid
<1>1. /\ g \in GUIDs /\ anchors[g] = Absent
      /\ requests[q].name \in Names /\ requests[q].parent \in GUIDs \cup {Root}
  BY DEF CreateAnchor, RequestInv, Holds, AnchorInv
<1>2. NewAnchor(requests[q]) \in Anchor /\ NewAnchor(requests[q]).state = "NotOk"
  BY <1>1 DEF NewAnchor, Anchor, AnchorStates
<1>3. anchors' = [anchors EXCEPT ![g] = NewAnchor(requests[q])]
  BY DEF CreateAnchor
<1>4. /\ \A h \in GUIDs : h # g => anchors'[h] = anchors[h]
      /\ anchors'[g] \notin {Absent, Deleted} /\ anchors'[g].state = "NotOk"
  BY <1>1, <1>2, <1>3, OrgsAssumption DEF TypeOK
<1> HIDE DEF g
<1>5. OkIn(anchors', request) = OkIn(anchors, request)
  BY <1>1, <1>4 DEF OkIn
<1>6. \A h \in OkIn(anchors, request) : h # g
  BY <1>1 DEF OkIn
<1>7. ListableIn(anchors, bindings, request) \subseteq ListableIn(anchors', bindings, request)
  BY <1>1, <1>4, <1>5, <1>6 DEF ListableIn, OkIn
<1> QED
  BY <1>5, <1>7

\* What the history covers depends on what the request asks for only.
LEMMA SameCover ==
  ASSUME NEW as, NEW bs, NEW x, NEW y, x.op = y.op, x.guid = y.guid, x.user = y.user
  PROVE  /\ OkIn(as, x) = OkIn(as, y) /\ BoundIn(bs, x) = BoundIn(bs, y)
         /\ ListableIn(as, bs, x) = ListableIn(as, bs, y)
  BY DEF OkIn, BoundIn, ListableIn

LEMMA NextHistoryInv ==
  ASSUME TypeOK, RequestInv, AnchorInv, HistoryInv, [Next]_vars
  PROVE  HistoryInv'
<1> USE DEF TypeOK
<1> SUFFICES ASSUME NEW r \in Requests, InFlight(r)'
             PROVE  /\ history'[r].stable \subseteq ListableIn(anchors', bindings', requests'[r])
                    /\ OkIn(anchors', requests'[r]) \subseteq history'[r].ok
                    /\ BoundIn(bindings', requests'[r]) \subseteq history'[r].bound
  BY DEF HistoryInv
<1>0. requests'[r].op \in Ops
  BY NextRequestInv DEF RequestInv, Holds, InFlight, Arrived
<1>1. ASSUME NEW request \in Request, Arrives(r, request)
      PROVE  /\ history'[r].stable \subseteq ListableIn(anchors', bindings', requests'[r])
             /\ OkIn(anchors', requests'[r]) \subseteq history'[r].ok
             /\ BoundIn(bindings', requests'[r]) \subseteq history'[r].bound
  <2>1. requests'[r] = request /\ history'[r] = Started(request)
        /\ anchors' = anchors /\ bindings' = bindings
    BY <1>1 DEF Arrives
  <2>2. Started(request) = [stable |-> ListableIn(anchors, bindings, request),
                            ok |-> OkIn(anchors, request), bound |-> BoundIn(bindings, request)]
    BY <1>1, OkIs DEF Arrives, Started
  <2> QED
    BY <2>1, <2>2
<1>2. CASE Observed /\ InFlight(r)
  <2>2. history'[r] =
           [stable |-> history[r].stable \cap ListableIn(anchors', bindings', requests'[r]),
            ok |-> history[r].ok \cup OkIn(anchors', requests'[r]),
            bound |-> history[r].bound \cup BoundIn(bindings', requests'[r])]
    BY <1>0, <1>2, ObservedIs
  <2> QED
    BY <2>2
<1>3. CASE SameAsk(r) /\ InFlight(r) /\ history'[r] = history[r] /\ ~Observed
  <2>1. /\ history[r].stable \subseteq ListableIn(anchors, bindings, requests[r])
        /\ OkIn(anchors, requests[r]) \subseteq history[r].ok
        /\ BoundIn(bindings, requests[r]) \subseteq history[r].bound
    BY <1>3 DEF HistoryInv
  <2>2. /\ OkIn(anchors, requests[r]) = OkIn(anchors, requests'[r])
        /\ BoundIn(bindings, requests[r]) = BoundIn(bindings, requests'[r])
        /\ ListableIn(anchors, bindings, requests[r]) = ListableIn(anchors, bindings, requests'[r])
    <3>1. /\ requests[r].op = requests'[r].op /\ requests[r].guid = requests'[r].guid
          /\ requests[r].user = requests'[r].user
      BY <1>3 DEF SameAsk
    <3> HIDE DEF TypeOK
    <3> QED
      BY <3>1, SameCover
  <2>3. CASE UNCHANGED <<anchors, bindings>>
    BY <1>3, <2>1, <2>2, <2>3
  <2>4. ASSUME NEW q \in Requests, CreateAnchor(q)
        PROVE  /\ OkIn(anchors', requests'[r]) = OkIn(anchors, requests'[r])
               /\ bindings' = bindings
               /\ ListableIn(anchors, bindings, requests'[r])
                     \subseteq ListableIn(anchors', bindings, requests'[r])
    <3>1. bindings' = bindings
      BY <2>4 DEF CreateAnchor
    <3> HIDE DEF TypeOK
    <3> QED
      BY <2>4, <3>1, CreateHidesNothing
  <2>5. UNCHANGED <<anchors, bindings>> \/ \E q \in Requests : CreateAnchor(q)
    <3> HIDE DEF TypeOK
    <3>1. ASSUME NEW q \in Requests, Received(q) PROVE UNCHANGED <<anchors, bindings>>
      BY <3>1, Arrival DEF Arrives
    <3>2. ASSUME NEW q \in Requests, HandlerStep(q), ~CreateAnchor(q)
          PROVE  UNCHANGED <<anchors, bindings>>
      BY <3>2 DEF HandlerStep, GetIdentity, ReadFails, RefuseDuplicate, StartWatch, SeeOk,
         WatchEnds, ListOrgs, FilterAuthorized, ListSpaces, RefuseWrite, LoseAnswer
    <3>3. ASSUME NEW g \in GUIDs, \/ \E state \in AnchorStates : SetState(g, state)
                                 \/ DeleteAnchor(g)
                                 \/ \E u \in Users : ChangeBinding(u, g)
          PROVE  FALSE
      BY <1>3, <3>3 DEF SetState, DeleteAnchor, ChangeBinding
    <3>4. CASE Crash \/ UNCHANGED vars
      BY <3>4 DEF Crash, vars
    <3> QED
      BY <3>1, <3>2, <3>3, <3>4 DEF Next, Received, Quiescent
  <2> QED
    BY <1>3, <2>1, <2>2, <2>3, <2>4, <2>5
<1>4. ASSUME ~\E request \in Request : Arrives(r, request)
      PROVE  SameAsk(r) /\ InFlight(r) /\ (Observed \/ history'[r] = history[r])
  <2>1. SameAsk(r)
    BY <1>4, Asks
  <2>2. CASE Stays(r) \/ Sees(r)
    BY <2>1, <2>2 DEF Stays, Sees, InFlight, Arrived, Pending
  <2>3. CASE HandlerStep(r)
    <3>1. Holds(r) /\ Holds(r)' /\ pc[r] \notin {"idle", "done"} /\ history'[r] = history[r]
      BY <2>3, NextRequestInv, HandlerProgress DEF RequestInv, Progress
    <3>2. status[r] = "Pending"
      <4>1. CASE pc[r] = "create"
        BY <2>3, <4>1 DEF HandlerStep, GetIdentity, ReadFails, At, CreateAnchor, RefuseDuplicate,
           StartWatch, SeeOk, WatchEnds, ListOrgs, FilterAuthorized, ListSpaces, RefuseWrite,
           LoseAnswer, Landed, Reply, InFlight, Pending, AnswerLost
      <4> QED
        BY <3>1, <4>1 DEF Holds, Pending
    <3> QED
      BY <2>1, <3>1, <3>2 DEF InFlight, Arrived, Pending
  <2>4. CASE Crash
    BY <2>4 DEF Crash, Crashed, InFlight, Pending, Arrived
  <2> HIDE DEF TypeOK
  <2> QED
    BY <1>4, <2>1, <2>2, <2>3, <2>4, Moves DEF Moved
<1> QED
  BY <1>1, <1>2, <1>3, <1>4

\* History only grows towards the list: what was stable may not be any more, what was
\* Ok or allowed stays so.
LEMMA HistoryGrows ==
  ASSUME TypeOK, RequestInv, [Next]_vars, NEW r \in Requests, pc[r] # "idle"
  PROVE  /\ SameAsk(r)
         /\ history'[r].stable \subseteq history[r].stable
         /\ history[r].ok \subseteq history'[r].ok
         /\ history[r].bound \subseteq history'[r].bound
         /\ ~Pending(r) => /\ status'[r] = status[r] /\ history'[r] = history[r]
                           /\ requests'[r].found = requests[r].found
<1> USE DEF TypeOK, Pending
<1>0. Holds(r) /\ Holds(r)'
  BY NextRequestInv DEF RequestInv
<1>1. SameAsk(r)
  BY Asks DEF Arrives
<1>2. CASE Stays(r) \/ Crash
  BY <1>1, <1>2 DEF Stays, Crash, Crashed, InFlight
<1>3. CASE Sees(r)
  <2>1. requests'[r].op \in Ops
    BY <1>0, <1>3 DEF Holds, Sees
  <2>2. requests'[r].found = requests[r].found
    BY <1>3 DEF Sees, Request
  <2>3. CASE InFlight(r)
    <3>1. history'[r] =
           [stable |-> history[r].stable \cap ListableIn(anchors', bindings', requests'[r]),
            ok |-> history[r].ok \cup OkIn(anchors', requests'[r]),
            bound |-> history[r].bound \cup BoundIn(bindings', requests'[r])]
      BY <1>3, <2>1, <2>3, ObservedIs DEF Sees
    <3> QED
      BY <1>1, <2>3, <3>1 DEF InFlight
  <2>4. CASE ~InFlight(r)
    <3>1. history'[r] = history[r]
      BY <1>3, <2>4 DEF Sees, Observed
    <3> QED
      BY <1>1, <1>3, <2>2, <3>1 DEF Sees
  <2> QED
    BY <2>3, <2>4
<1>4. CASE HandlerStep(r)
  <2>1. history'[r] = history[r] /\ pc[r] # "done"
    BY <1>4, HandlerProgress DEF Progress
  <2>2. ASSUME ~Pending(r) PROVE status'[r] = status[r] /\ requests'[r].found = requests[r].found
    <3>1. pc[r] = "create"
      BY <1>0, <2>1, <2>2 DEF Holds
    <3> QED
      BY <1>4, <2>2, <3>1 DEF HandlerStep, GetIdentity, ReadFails, At, CreateAnchor, RefuseDuplicate,
         StartWatch, SeeOk, WatchEnds, ListOrgs, FilterAuthorized, ListSpaces, RefuseWrite,
         LoseAnswer, Landed, Reply
  <2> QED
    BY <1>1, <2>1, <2>2
<1> HIDE DEF TypeOK
<1> QED
  BY <1>2, <1>3, <1>4, Moves DEF Moved, Arrives

LEMMA NextCreated ==
  ASSUME TypeOK, RequestInv, AnchorInv, HistoryInv, EventInv, CreatedWasOk, [Next]_vars
  PROVE  EventInv' /\ CreatedWasOk'
<1> USE DEF TypeOK, Pending
<1> SUFFICES ASSUME NEW r \in Requests
             PROVE  (\/ pc'[r] = "watching" /\ requests'[r].event
                     \/ status'[r] = "Created") => requests'[r].guid \in history'[r].ok
  BY DEF EventInv, CreatedWasOk
<1>0. Holds(r)
  BY DEF RequestInv
<1>1. CASE pc[r] = "idle"
  <2>1. CASE Stays(r) \/ Sees(r) \/ Crash
    BY <1>0, <1>1, <2>1 DEF Stays, Sees, Crash, Crashed, InFlight, Arrived, Holds
  <2>2. ASSUME NEW request \in Request, Arrives(r, request)
        PROVE  pc'[r] # "watching" /\ status'[r] # "Created"
    BY <1>0, <2>2 DEF Arrives, Call, Reply, PayloadErrors, Holds
  <2>3. ~HandlerStep(r)
    BY <1>1, HandlerProgress DEF Progress
  <2> HIDE DEF TypeOK
  <2> QED
    BY <2>1, <2>2, <2>3, Moves DEF Moved
<1>2. CASE pc[r] # "idle"
  <2>0. /\ SameAsk(r) /\ history[r].ok \subseteq history'[r].ok
        /\ ~Pending(r) => status'[r] = status[r]
    BY <1>2, HistoryGrows
  <2>1. CASE requests[r].guid \in history[r].ok
    BY <2>0, <2>1 DEF SameAsk
  <2>2. CASE requests[r].guid \notin history[r].ok
    <3>0. /\ ~(pc[r] = "watching" /\ requests[r].event)
          /\ status[r] # "Created"
      BY <2>2 DEF EventInv, CreatedWasOk
    <3>1. CASE Stays(r) \/ Crash
      BY <3>0, <3>1 DEF Stays, Crash, Crashed
    <3>2. CASE Sees(r)
      <4>1. CASE requests'[r] = requests[r]
        BY <3>0, <3>2, <4>1 DEF Sees
      <4>2. CASE requests'[r] # requests[r]
        <5>1. /\ At(r, "watching") /\ requests[r].op \in CreateOps /\ requests[r].guid \in GUIDs
              /\ anchors'[requests[r].guid] \notin {Absent, Deleted}
              /\ anchors'[requests[r].guid].state = "Ok"
          BY <1>0, <3>2, <4>2 DEF Sees, At, Holds
        <5>2. requests[r].guid \in OkIn(anchors', requests'[r])
          BY <2>0, <5>1 DEF OkIn, SameAsk, CreateOps
        <5>3. InFlight(r)'
          BY <3>2, <5>1 DEF Sees, At, InFlight, Arrived
        <5>4. OkIn(anchors', requests'[r]) \subseteq history'[r].ok
          BY <5>3, NextHistoryInv DEF HistoryInv
        <5> QED
          BY <2>0, <5>2, <5>4 DEF SameAsk
      <4> QED
        BY <4>1, <4>2
    <3>3. CASE HandlerStep(r)
      <4>1. CASE StartWatch(r)
        <5>1. /\ At(r, "watch") /\ requests[r].op \in CreateOps /\ requests[r].guid \in GUIDs
              /\ InFlight(r)
          BY <1>0, <1>2, <4>1 DEF StartWatch, At, Holds, InFlight, Arrived
        <5>2. ~IsOk(requests[r].guid)
          <6>1. requests[r].guid \notin OkIn(anchors, requests[r])
            BY <2>2, <5>1 DEF HistoryInv
          <6> QED
            BY <5>1, <6>1 DEF OkIn, IsOk, Exists, CreateOps
        <5>3. requests'[r].event = FALSE
          BY <4>1, <5>2 DEF StartWatch, FirstEvent, Request
        <5> QED
          BY <4>1, <5>1, <5>3 DEF StartWatch, At, Call
      <4>2. CASE SeeOk(r)
        BY <3>0, <4>2 DEF SeeOk, At
      <4>3. ~StartWatch(r) /\ ~SeeOk(r) => pc'[r] # "watching" /\ status'[r] # "Created"
        BY <3>0, <3>3, <1>0 DEF HandlerStep, GetIdentity, WhoAmI, ReadFails, At, CreateAnchor,
           RefuseDuplicate, WatchEnds, ListOrgs, FilterAuthorized, ListSpaces, RefuseWrite,
           LoseAnswer, Landed, Reply, Call, AnswerLost, Writes
      <4> QED
        BY <4>1, <4>2, <4>3
    <3> HIDE DEF TypeOK
    <3> QED
      BY <1>2, <3>1, <3>2, <3>3, Moves DEF Moved, Arrives
  <2> QED
    BY <2>1, <2>2
<1> QED
  BY <1>1, <1>2

\* What the lists find, against the history of the moment.
LEMMA OrgsFound ==
  ASSUME TypeOK, RequestInv, HistoryInv, NEW r \in Requests, ListOrgs(r)
  PROVE  /\ requests'[r].found \subseteq history[r].ok
         /\ requests[r].names \cup requests[r].orgs = {} =>
               history[r].stable \subseteq requests'[r].found
         /\ ~AuthEnabled => requests'[r].found \subseteq history[r].bound
<1> DEFINE found == {g \in GUIDs : ListedOrg(g, requests[r])}
<1>1. requests'[r].found = found
  <2>1. requests'[r] = [requests[r] EXCEPT !.found = found] /\ requests[r] \in Request
    BY DEF ListOrgs, TypeOK
  <2> HIDE DEF found
  <2> QED
    BY <2>1 DEF Request
<1>2. requests[r].op = "listOrgs" /\ InFlight(r)
  BY DEF ListOrgs, At, RequestInv, Holds, InFlight, Arrived
<1>3. /\ history[r].stable \subseteq ListableIn(anchors, bindings, requests[r])
      /\ OkIn(anchors, requests[r]) \subseteq history[r].ok
      /\ BoundIn(bindings, requests[r]) \subseteq history[r].bound
  BY <1>2 DEF HistoryInv
<1>4. found \subseteq OkIn(anchors, requests[r])
  BY <1>2 DEF ListedOrg, IsOk, Exists, OkIn, CreateOps
<1>5. requests[r].names \cup requests[r].orgs = {} =>
         ListableIn(anchors, bindings, requests[r]) \subseteq found
  BY <1>2 DEF ListedOrg, MatchFilter, IsOk, Exists, OkIn, ListableIn
<1>6. ~AuthEnabled => found \subseteq BoundIn(bindings, requests[r])
  BY <1>2 DEF BoundIn, BoundToIn
<1> HIDE DEF found
<1> QED
  BY <1>1, <1>3, <1>4, <1>5, <1>6

LEMMA SpacesFound ==
  ASSUME TypeOK, RequestInv, HistoryInv, NEW r \in Requests, ListSpaces(r)
  PROVE  /\ requests'[r].found \subseteq history[r].ok
         /\ requests[r].names \cup requests[r].orgs = {} =>
               history[r].stable \subseteq requests'[r].found
         /\ requests[r].op = "listSpaces"
<1> DEFINE found == {g \in GUIDs : ListedSpace(g, requests[r])}
<1>1. requests'[r].found = found
  <2>1. requests'[r] = [requests[r] EXCEPT !.found = found] /\ requests[r] \in Request
    BY DEF ListSpaces, TypeOK
  <2> HIDE DEF found
  <2> QED
    BY <2>1 DEF Request
<1>2. requests[r].op = "listSpaces" /\ InFlight(r)
  BY DEF ListSpaces, At, RequestInv, Holds, InFlight, Arrived
<1>3. /\ history[r].stable \subseteq ListableIn(anchors, bindings, requests[r])
      /\ OkIn(anchors, requests[r]) \subseteq history[r].ok
  BY <1>2 DEF HistoryInv
<1>4. found \subseteq OkIn(anchors, requests[r])
  BY <1>2, OrgsAssumption DEF ListedSpace, IsOk, Exists, OkIn, CreateOps
<1>5. requests[r].names \cup requests[r].orgs = {} =>
         ListableIn(anchors, bindings, requests[r]) \subseteq found
  BY <1>2 DEF ListedSpace, MatchFilter, IsOk, Exists, OkIn, ListableIn
<1> HIDE DEF found
<1> QED
  BY <1>1, <1>2, <1>3, <1>4, <1>5

LEMMA OrgsFiltered ==
  ASSUME TypeOK, RequestInv, HistoryInv, FoundInv, NEW r \in Requests, FilterAuthorized(r)
  PROVE  /\ requests'[r].found \subseteq history[r].ok \cap history[r].bound
         /\ requests[r].names \cup requests[r].orgs = {} =>
               history[r].stable \subseteq requests'[r].found
<1> DEFINE found == requests[r].found \cap BoundTo(requests[r].user)
<1>1. requests'[r].found = found
  <2>1. requests'[r] = [requests[r] EXCEPT !.found = found] /\ requests[r] \in Request
    BY DEF FilterAuthorized, TypeOK
  <2> HIDE DEF found
  <2> QED
    BY <2>1 DEF Request
<1>2. requests[r].op = "listOrgs" /\ InFlight(r) /\ pc[r] = "bindings"
  BY DEF FilterAuthorized, At, RequestInv, Holds, InFlight, Arrived
<1>3. /\ history[r].stable \subseteq ListableIn(anchors, bindings, requests[r])
      /\ BoundIn(bindings, requests[r]) \subseteq history[r].bound
  BY <1>2 DEF HistoryInv
<1>4. /\ requests[r].found \subseteq history[r].ok
      /\ requests[r].names \cup requests[r].orgs = {} =>
            history[r].stable \subseteq requests[r].found
  BY <1>2 DEF FoundInv
<1>5. BoundTo(requests[r].user) = BoundIn(bindings, requests[r])
  BY <1>2 DEF BoundIn, BoundTo, BoundToIn
<1>6. ListableIn(anchors, bindings, requests[r]) \subseteq BoundIn(bindings, requests[r])
  BY <1>2 DEF ListableIn, BoundIn
<1> QED
  BY <1>1, <1>3, <1>4, <1>5, <1>6

LEMMA NextList ==
  ASSUME TypeOK, RequestInv, HistoryInv, FoundInv, ListIsTimely, [Next]_vars
  PROVE  FoundInv' /\ ListIsTimely'
<1> USE DEF TypeOK, Pending
<1> SUFFICES ASSUME NEW r \in Requests,
                    \/ pc'[r] = "bindings"
                    \/ status'[r] = "OK" /\ requests'[r].op \in ListOps
             PROVE  /\ requests'[r].found \subseteq history'[r].ok
                    /\ requests'[r].names \cup requests'[r].orgs = {} =>
                          history'[r].stable \subseteq requests'[r].found
                    /\ (status'[r] = "OK" /\ requests'[r].op = "listOrgs") =>
                          requests'[r].found \subseteq history'[r].bound
  BY DEF FoundInv, ListIsTimely, ListOps
<1>0. Holds(r) /\ Holds(r)'
  BY NextRequestInv DEF RequestInv
<1>1. pc[r] # "idle"
  <2>1. CASE Stays(r) \/ Sees(r) \/ Crash
    BY <1>0, <2>1 DEF Stays, Sees, Crash, Crashed, InFlight, Arrived, Holds
  <2>2. ASSUME NEW request \in Request, Arrives(r, request)
        PROVE  FALSE
    BY <1>0, <2>2 DEF Arrives, Call, Reply, PayloadErrors, Holds
  <2>3. CASE HandlerStep(r)
    BY <2>3, HandlerProgress DEF Progress
  <2> HIDE DEF TypeOK
  <2> QED
    BY <2>1, <2>2, <2>3, Moves DEF Moved
<1>2. /\ SameAsk(r)
      /\ history'[r].stable \subseteq history[r].stable
      /\ history[r].ok \subseteq history'[r].ok
      /\ history[r].bound \subseteq history'[r].bound
      /\ ~Pending(r) => /\ status'[r] = status[r] /\ history'[r] = history[r]
                        /\ requests'[r].found = requests[r].found
  BY <1>1, HistoryGrows
<1>3. CASE status[r] = "OK"
  <2>1. requests[r].op \in ListOps
    BY <1>0, <1>2, <1>3 DEF SameAsk, Holds
  <2> QED
    BY <1>2, <1>3, <2>1 DEF ListIsTimely, SameAsk, ListOps
<1>4. CASE pc[r] = "bindings" /\ pc'[r] = "bindings" /\ requests'[r].found = requests[r].found
           /\ status'[r] # "OK"
  BY <1>2, <1>4 DEF FoundInv, SameAsk
<1>5. CASE ListOrgs(r)
  <2>1. status'[r] = "OK" => ~AuthEnabled
    BY <1>5, OrgsAssumption DEF ListOrgs, At, Call, Reply
  <2> QED
    BY <1>2, <1>5, <2>1, OrgsFound DEF SameAsk
<1>6. CASE ListSpaces(r)
  BY <1>2, <1>6, SpacesFound DEF SameAsk
<1>7. CASE FilterAuthorized(r)
  BY <1>2, <1>7, OrgsFiltered DEF SameAsk
<1>8. CASE status[r] # "OK" /\ ~ListOrgs(r) /\ ~ListSpaces(r) /\ ~FilterAuthorized(r)
  <2>1. CASE Stays(r)
    BY <1>4, <1>8, <2>1 DEF Stays
  <2>2. CASE Sees(r)
    <3>1. requests'[r].found = requests[r].found
      BY <2>2 DEF Sees, Request
    <3> QED
      BY <1>4, <1>8, <2>2, <3>1 DEF Sees
  <2>3. ~Crash
    BY <1>0, <1>8 DEF Crash, Crashed, InFlight, Arrived, Writes, Holds
  <2>4. ~HandlerStep(r)
    BY <1>0, <1>8 DEF HandlerStep, GetIdentity, WhoAmI, ReadFails, At, CreateAnchor, StartWatch,
       SeeOk, RefuseDuplicate, WatchEnds, RefuseWrite, LoseAnswer, Landed, Reply, Call,
       AnswerLost, Writes, Holds
  <2> HIDE DEF TypeOK
  <2> QED
    BY <1>1, <2>1, <2>2, <2>3, <2>4, Moves DEF Moved, Arrives
<1> QED
  BY <1>3, <1>5, <1>6, <1>7, <1>8
-----------------------------------------------------------------------------
(***************************************************************************)
(* The theorems                                                            *)
(***************************************************************************)
\* The inductive invariant holds in every reachable state.
THEOREM Invariance == Spec => []IInv
<1>1. IInv /\ [Next]_vars => IInv'
  <2> SUFFICES ASSUME IInv, [Next]_vars PROVE IInv'
    OBVIOUS
  <2> USE DEF IInv
  <2>1. TypeOK' /\ RequestInv' /\ GuidInv' /\ AnchorInv' /\ HistoryInv'
    BY NextTypeOK, NextRequestInv, NextGuidInv, NextAnchorInv, NextHistoryInv
  <2>2. EventInv' /\ CreatedWasOk'
    BY NextCreated
  <2>3. FoundInv' /\ ListIsTimely'
    BY NextList
  <2> QED
    BY <2>1, <2>2, <2>3
<1> QED
  BY InitIInv, <1>1, PTL DEF Spec

\* Every anchor, binding, request and history is well formed.
THEOREM Typing == Spec => []TypeOK
<1>1. IInv => TypeOK
  BY DEF IInv
<1> QED
  BY Invariance, <1>1, PTL

\* A create answers 201 only if HNC had set its anchor to Ok since it arrived, although
\* the watch starts after the anchor is written.
THEOREM CreatedSafety == Spec => []CreatedWasOk
<1>1. IInv => CreatedWasOk
  BY DEF IInv
<1> QED
  BY Invariance, <1>1, PTL

\* A create that was refused left no anchor behind and never will.
THEOREM RefusedSafety == Spec => []RefusedLeavesNothing
<1>1. IInv => RefusedLeavesNothing
  BY DEF IInv, AnchorInv, RefusedLeavesNothing, CreateOps, Refusals
<1> QED
  BY Invariance, <1>1, PTL

\* A list is right for moments of its request, although orgs and role bindings are read
\* one after the other.
THEOREM ListSafety == Spec => []ListIsTimely
<1>1. IInv => ListIsTimely
  BY DEF IInv
<1> QED
  BY Invariance, <1>1, PTL
=============================================================================
