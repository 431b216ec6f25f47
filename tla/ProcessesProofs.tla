-------------------------- MODULE ProcessesProofs --------------------------
(* Proofs about Processes, for any number of requests, apps and processes. *)
EXTENDS Processes, TLAPS

-----------------------------------------------------------------------------
(***************************************************************************)
(* The inductive invariant                                                 *)
(***************************************************************************)
OfApp == {"getApp", "listProcesses"}
OfProcess == {"getProcess", "getSidecars"}

\* What a handler holds at each of its calls.
Holds(r) ==
    /\ pc[r] = "idle" => requests[r] = NoRequest
    /\ pc[r] # "idle" => requests[r].op \in Ops
    /\ requests[r].op \in OfApp => requests[r].guid \in AppGUIDs
    /\ requests[r].op \in OfProcess => requests[r].guid \in ProcessGUIDs
    /\ pc[r] = "fetchApp" => requests[r].op \in OfApp
    /\ pc[r] = "listApps" => requests[r].op = "listApps"
    /\ pc[r] = "listProcesses" => requests[r].op = "listProcesses" /\ requests[r].space \in Spaces
    /\ pc[r] = "fetchProcess" => requests[r].op \in OfProcess
    /\ pc[r] # "done" <=> status[r] = "Pending"
    /\ pc[r] # "done" => requests[r].shown = {}

RequestInv == \A r \in Requests : Holds(r)

\* What was there, and where the app was, since the request arrived; the processes that
\* stayed beside the app are in the namespace that will be listed.
HistoryInv ==
    \A r \in Requests : InFlight(r) =>
        /\ ThereFor(requests[r]) \subseteq history[r].seen
        /\ HomesFor(requests[r]) \subseteq history[r].homes
        /\ pc[r] = "fetchApp" => history[r].stable \subseteq DueFor(requests[r])
        /\ pc[r] = "listProcesses" =>
              /\ requests[r].space \in history[r].homes
              /\ history[r].stable \subseteq ProcessesOf(requests[r].guid, requests[r].space)

\* What was shown is there, or was.
Known(g) ==
    \/ g \in AppGUIDs /\ \E s \in Spaces : apps[g][s] # Absent
    \/ g \in ProcessGUIDs /\ \E s \in Spaces : processes[g][s] # Absent

SeenInv == \A r \in Requests : \A record \in requests[r].shown : Known(record.guid)

AfterInv == \A q \in Requests : \A r \in requests[q].after : status[r] # "Pending"

IInv == /\ TypeOK /\ RequestInv /\ HistoryInv /\ SeenInv /\ AfterInv
        /\ ListIsTimely /\ ProcessesOfOneApp /\ ShownIsFound
-----------------------------------------------------------------------------
(***************************************************************************)
(* Records, and initial states                                             *)
(***************************************************************************)
LEMMA AppRecordIs ==
  ASSUME NEW a \in AppGUIDs, NEW s \in Spaces PROVE AppRecord(a, s) \in Record
  BY DEF AppRecord, Record, Guids

LEMMA ProcessRecordIs ==
  ASSUME TypeOK, NEW p \in ProcessGUIDs, NEW s \in Spaces, Exists(processes[p][s])
  PROVE  ProcessRecord(p, s) \in Record
<1>1. processes[p][s] \in AppGUIDs
  BY DEF TypeOK, Exists
<1> QED
  BY <1>1 DEF ProcessRecord, Record, Guids

LEMMA RecordsAre ==
  ASSUME TypeOK
  PROVE  /\ AllApps \subseteq Record /\ AllProcesses \subseteq Record
         /\ \A a, s : ProcessesOf(a, s) \subseteq Record
<1>1. AllApps \subseteq Record
  BY AppRecordIs DEF AllApps, Where
<1>2. AllProcesses \subseteq Record
  BY ProcessRecordIs DEF AllProcesses, Where
<1> QED
  BY <1>1, <1>2 DEF ProcessesOf, FilterByAppGUID, InNamespace

LEMMA HistoryIs ==
  ASSUME TypeOK, NEW request
  PROVE  /\ DueFor(request) \subseteq Record /\ ThereFor(request) \subseteq Record
         /\ HomesFor(request) \subseteq Spaces
  BY RecordsAre DEF DueFor, ThereFor, HomesFor, Where

LEMMA InitIInv == Init => IInv
<1> SUFFICES ASSUME Init PROVE IInv
  OBVIOUS
<1>1. /\ requests = [r \in Requests |-> NoRequest]
      /\ history = [r \in Requests |-> NoHistory]
      /\ pc = [r \in Requests |-> "idle"]
      /\ status = [r \in Requests |-> "Pending"]
  BY DEF Init
<1>2. PICK home \in [AppGUIDs -> Spaces \cup {None}],
           owner \in [ProcessGUIDs -> AppGUIDs \cup {None}] :
         /\ apps = [a \in AppGUIDs |-> [s \in Spaces |-> IF s = home[a] THEN CFApp ELSE Absent]]
         /\ processes = [p \in ProcessGUIDs |-> [s \in Spaces |->
                IF owner[p] # None /\ home[owner[p]] = s THEN owner[p] ELSE Absent]]
  BY DEF Init
<1>3. /\ apps \in [AppGUIDs -> [Spaces -> {CFApp, Absent, Deleted}]]
      /\ processes \in [ProcessGUIDs -> [Spaces -> AppGUIDs \cup {Absent, Deleted}]]
  BY <1>2
<1>4. NoRequest \in Request
  BY DEF NoRequest, Request
<1>5. TypeOK
  BY <1>1, <1>3, <1>4 DEF TypeOK, NoHistory, PCs, Statuses
<1>6. NoRequest.op \notin Ops /\ NoRequest.shown = {} /\ NoRequest.after = {}
  BY ProcessesAssumption DEF NoRequest
<1>7. RequestInv
  BY <1>1, <1>6 DEF RequestInv, Holds, OfApp, OfProcess, Ops
<1>8. HistoryInv /\ SeenInv /\ AfterInv
  BY <1>1, <1>6 DEF HistoryInv, SeenInv, AfterInv, InFlight, Arrived
<1>9. ListIsTimely /\ ProcessesOfOneApp /\ ShownIsFound
  BY <1>1, <1>6 DEF ListIsTimely, ProcessesOfOneApp, ShownIsFound
<1> QED
  BY <1>5, <1>7, <1>8, <1>9 DEF IInv
-----------------------------------------------------------------------------
(***************************************************************************)
(* What one step does to one request                                       *)
(***************************************************************************)
Received(q) ==
    \/ \E a \in AppGUIDs : ReceiveGetApp(q, a) \/ ReceiveListProcesses(q, a)
    \/ ReceiveListApps(q)
    \/ \E p \in ProcessGUIDs : ReceiveGetProcess(q, p) \/ ReceiveGetSidecars(q, p)

FirstCall(op) ==
    CASE op \in OfApp -> "fetchApp"
      [] op = "listApps" -> "listApps"
      [] op \in OfProcess -> "fetchProcess"

AnsweredNow == {q \in Requests : status[q] # "Pending"}

\* q arrives with this request.
Arrives(q, request) ==
    /\ pc[q] = "idle" /\ UNCHANGED cluster
    /\ requests' = [requests EXCEPT ![q] = request]
    /\ history' = [history EXCEPT ![q] = [stable |-> DueFor(request),
                                          seen |-> ThereFor(request),
                                          homes |-> HomesFor(request)]]
    /\ request.op \in Ops /\ request.shown = {} /\ request.after = AnsweredNow
    /\ request.op \in OfApp => request.guid \in AppGUIDs
    /\ request.op \in OfProcess => request.guid \in ProcessGUIDs
    /\ Call(q, FirstCall(request.op)) \/ Reply(q, "UnknownError")

LEMMA Arrival ==
  ASSUME TypeOK, NEW q \in Requests, Received(q)
  PROVE  \E request \in Request : Arrives(q, request)
<1>1. ASSUME NEW op \in Ops, NEW g \in Guids \cup {None}, Receive(q, op, g, FirstCall(op)),
             op \in OfApp => g \in AppGUIDs, op \in OfProcess => g \in ProcessGUIDs
      PROVE  \E request \in Request : Arrives(q, request)
  <2> DEFINE request == [NoRequest EXCEPT !.op = op, !.guid = g, !.after = AnsweredNow]
  <2>1. /\ request \in Request /\ request.op = op /\ request.guid = g
        /\ request.shown = {} /\ request.after = AnsweredNow
    BY DEF NoRequest, Request, AnsweredNow
  <2>2. /\ pc[q] = "idle" /\ UNCHANGED cluster
        /\ Call(q, FirstCall(op)) \/ Reply(q, "UnknownError")
        /\ requests' = [requests EXCEPT ![q] = request]
        /\ history' = [history EXCEPT ![q] = [stable |-> DueFor(request),
                                              seen |-> ThereFor(request),
                                              homes |-> HomesFor(request)]]
    BY <1>1 DEF Receive, AnsweredNow
  <2> HIDE DEF request
  <2> QED
    BY <1>1, <2>1, <2>2 DEF Arrives
<1>2. /\ FirstCall("getApp") = "fetchApp" /\ FirstCall("listProcesses") = "fetchApp"
      /\ FirstCall("listApps") = "listApps"
      /\ FirstCall("getProcess") = "fetchProcess" /\ FirstCall("getSidecars") = "fetchProcess"
  BY DEF FirstCall, OfApp, OfProcess
<1>3. ASSUME NEW a \in AppGUIDs, ReceiveGetApp(q, a) \/ ReceiveListProcesses(q, a)
      PROVE  \E request \in Request : Arrives(q, request)
  BY <1>1, <1>2, <1>3 DEF ReceiveGetApp, ReceiveListProcesses, Ops, OfApp, OfProcess, Guids
<1>4. CASE ReceiveListApps(q)
  BY <1>1, <1>2, <1>4 DEF ReceiveListApps, Ops, OfApp, OfProcess
<1>5. ASSUME NEW p \in ProcessGUIDs, ReceiveGetProcess(q, p) \/ ReceiveGetSidecars(q, p)
      PROVE  \E request \in Request : Arrives(q, request)
  BY <1>1, <1>2, <1>5 DEF ReceiveGetProcess, ReceiveGetSidecars, Ops, OfApp, OfProcess, Guids
<1> QED
  BY <1>3, <1>4, <1>5 DEF Received

\* Someone else changes the cluster.
Outside == Observed /\ UNCHANGED <<requests, pc, status>>

\* The object that q asks for is nowhere.
Missed(q) ==
    \/ requests[q].op \in OfApp /\ NotFound(apps, requests[q].guid)
    \/ requests[q].op \in OfProcess /\ NotFound(processes, requests[q].guid)

\* q stays what it is, or is answered with an error.
Waits(q) ==
    /\ UNCHANGED cluster /\ requests'[q] = requests[q] /\ history'[q] = history[q]
    /\ \/ pc'[q] = pc[q] /\ status'[q] = status[q]
       \/ /\ pc[q] \notin {"idle", "done"} /\ pc'[q] = "done"
          /\ status'[q] \in {"ResourceNotFound", "UnknownError", "ConnectionLost"}
          /\ status'[q] = "ResourceNotFound" => Missed(q)

SameKind(x, y) == x.op = y.op /\ x.guid = y.guid /\ x.after = y.after

\* The app was found in one namespace, where its processes are listed next.
Located(q, x) ==
    /\ pc[q] = "fetchApp" /\ Call(q, "listProcesses") /\ x.op = "listProcesses"
    /\ x.space \in Spaces /\ FoundIn(apps, x.guid, x.space) /\ x.shown = {}

\* q shows what it found.
Shows(q, x) ==
    /\ Reply(q, "OK") /\ x.space = requests[q].space
    /\ \/ x.shown \subseteq AllApps \cup AllProcesses /\ x.op # "listProcesses"
       \/ pc[q] = "listProcesses" /\ x.shown = ProcessesOf(x.guid, x.space)

Finds(q, x) ==
    /\ requests' = [requests EXCEPT ![q] = x] /\ UNCHANGED <<cluster, history>>
    /\ Pending(q) /\ pc[q] \notin {"idle", "done"} /\ SameKind(x, requests[q])
    /\ Located(q, x) \/ Shows(q, x)

LEMMA ShownSet ==
  ASSUME NEW request \in Request, NEW shown \in SUBSET Record
  PROVE  LET x == [request EXCEPT !.shown = shown] IN
         x \in Request /\ SameKind(x, request) /\ x.space = request.space /\ x.shown = shown
  BY DEF Request, SameKind

LEMMA SpaceSet ==
  ASSUME NEW request \in Request, NEW s \in Spaces
  PROVE  LET x == [request EXCEPT !.space = s] IN
         x \in Request /\ SameKind(x, request) /\ x.space = s /\ x.shown = request.shown
  BY DEF Request, SameKind

LEMMA ShowFinds ==
  ASSUME TypeOK, RequestInv, NEW q \in Requests, NEW records \in SUBSET Record,
         Show(q, records), UNCHANGED <<cluster, history>>, Pending(q), pc[q] \notin {"idle", "done"},
         \/ records \subseteq AllApps \cup AllProcesses /\ requests[q].op # "listProcesses"
         \/ /\ pc[q] = "listProcesses"
            /\ records = ProcessesOf(requests[q].guid, requests[q].space)
  PROVE  \E x \in Request : Finds(q, x)
<1> DEFINE x == [requests[q] EXCEPT !.shown = records]
<1>1. requests[q] \in Request
  BY DEF TypeOK
<1>2. /\ x \in Request /\ SameKind(x, requests[q]) /\ x.space = requests[q].space
      /\ x.shown = records
  BY <1>1, ShownSet
<1>3. requests' = [requests EXCEPT ![q] = x]
  BY DEF Show
<1> HIDE DEF x
<1>4. Shows(q, x)
  BY <1>2 DEF Shows, Show, SameKind
<1> QED
  BY <1>2, <1>3, <1>4 DEF Finds

LEMMA HandlerSteps ==
  ASSUME TypeOK, RequestInv, NEW q \in Requests, HandlerStep(q)
  PROVE  Waits(q) \/ \E x \in Request : Finds(q, x)
<1>0. /\ requests \in [Requests -> Request] /\ Holds(q)
      /\ pc \in [Requests -> PCs] /\ status \in [Requests -> Statuses]
  BY DEF TypeOK, RequestInv
<1>1. ASSUME pc[q] \notin {"idle", "done"}, UNCHANGED <<cluster, requests, history>>,
             NEW error \in {"ResourceNotFound", "UnknownError"}, Reply(q, error),
             error = "ResourceNotFound" => Missed(q)
      PROVE  Waits(q)
  BY <1>0, <1>1 DEF Waits, Reply
<1>2. CASE \E p \in PCs \ {"idle", "done"} : ReadFails(q, p)
  BY <1>1, <1>2 DEF ReadFails, At
<1>3. CASE FetchApp(q)
  <2> DEFINE a == requests[q].guid
  <2>0. pc[q] = "fetchApp" /\ Pending(q) /\ requests[q].op \in OfApp /\ a \in AppGUIDs
        /\ requests[q].shown = {}
    BY <1>0, <1>3 DEF FetchApp, At, Holds
  <2>1. CASE UNCHANGED requests /\ \E answer \in FetchFailed(apps, a) : Reply(q, answer)
    BY <1>1, <1>3, <2>0, <2>1 DEF FetchApp, FetchFailed, Missed
  <2>2. ASSUME NEW s \in Spaces, FoundIn(apps, a, s), requests[q].op = "getApp",
               Show(q, {AppRecord(a, s)})
        PROVE  \E x \in Request : Finds(q, x)
    <3>1. {AppRecord(a, s)} \in SUBSET Record
      BY <2>0, AppRecordIs
    <3>2. {AppRecord(a, s)} \subseteq AllApps
      BY <2>0, <2>2 DEF AllApps, FoundIn
    <3>3. UNCHANGED <<cluster, history>>
      BY <1>3 DEF FetchApp
    <3> HIDE DEF a
    <3> QED
      BY <2>0, <2>2, <3>1, <3>2, <3>3, ShowFinds
  <2>3. ASSUME NEW s \in Spaces, FoundIn(apps, a, s), requests[q].op = "listProcesses",
               Call(q, "listProcesses"), requests' = [requests EXCEPT ![q].space = s]
        PROVE  \E x \in Request : Finds(q, x)
    <3> DEFINE x == [requests[q] EXCEPT !.space = s]
    <3>1. requests' = [requests EXCEPT ![q] = x]
      BY <2>3
    <3>2. x \in Request /\ SameKind(x, requests[q]) /\ x.space = s /\ x.shown = {}
      BY <1>0, <2>0, SpaceSet
    <3> HIDE DEF x
    <3>3. Located(q, x)
      BY <2>0, <2>3, <3>2 DEF Located, SameKind
    <3> QED
      BY <1>3, <2>0, <3>1, <3>2, <3>3 DEF Finds, FetchApp
  <2> QED
    BY <1>3, <2>1, <2>2, <2>3 DEF FetchApp
<1>4. CASE ListApps(q)
  <2>1. pc[q] = "listApps" /\ Pending(q) /\ requests[q].op = "listApps"
    BY <1>0, <1>4 DEF ListApps, At, Holds
  <2> QED
    BY <1>4, <2>1, ShowFinds, RecordsAre DEF ListApps
<1>5. CASE ListProcesses(q)
  <2>1. pc[q] = "listProcesses" /\ Pending(q)
    BY <1>5 DEF ListProcesses, At
  <2> QED
    BY <1>5, <2>1, ShowFinds, RecordsAre DEF ListProcesses
<1>6. CASE FetchProcess(q)
  <2> DEFINE p == requests[q].guid
  <2>0. pc[q] = "fetchProcess" /\ Pending(q) /\ requests[q].op \in OfProcess /\ p \in ProcessGUIDs
    BY <1>0, <1>6 DEF FetchProcess, At, Holds
  <2>1. CASE UNCHANGED requests /\ \E answer \in FetchFailed(processes, p) : Reply(q, answer)
    BY <1>1, <1>6, <2>0, <2>1 DEF FetchProcess, FetchFailed, Missed
  <2>2. ASSUME NEW s \in Spaces, FoundIn(processes, p, s), NEW records,
               records = {ProcessRecord(p, s)} \/ records = {}, Show(q, records)
        PROVE  \E x \in Request : Finds(q, x)
    <3>0. Exists(processes[p][s])
      BY <2>2 DEF FoundIn, Where
    <3>1. ProcessRecord(p, s) \in Record
      BY <2>0, <3>0, ProcessRecordIs
    <3>2. ProcessRecord(p, s) \in AllProcesses
      BY <2>0, <2>2 DEF AllProcesses, FoundIn
    <3>3. UNCHANGED <<cluster, history>> /\ requests[q].op # "listProcesses"
      BY <1>6, <2>0 DEF FetchProcess, OfProcess
    <3>4. records \in SUBSET Record /\ records \subseteq AllApps \cup AllProcesses
      BY <2>2, <3>1, <3>2
    <3> HIDE DEF p
    <3> QED
      BY <2>0, <2>2, <3>3, <3>4, ShowFinds
  <2> QED
    BY <1>6, <2>1, <2>2 DEF FetchProcess
<1> QED
  BY <1>2, <1>3, <1>4, <1>5, <1>6 DEF HandlerStep, PCs

\* The ways in which one step concerns the request q.
Steps(q) ==
    \/ Outside \/ Waits(q)
    \/ \E request \in Request : Arrives(q, request) \/ Finds(q, request)

LEMMA RequestSteps ==
  ASSUME TypeOK, RequestInv, [Next]_vars, NEW q \in Requests
  PROVE  Steps(q)
<1>0. /\ pc \in [Requests -> PCs] /\ status \in [Requests -> Statuses]
      /\ requests \in [Requests -> Request] /\ Holds(q)
      /\ history \in [Requests -> [stable : SUBSET Record, seen : SUBSET Record,
                                   homes : SUBSET Spaces]]
  BY DEF TypeOK, RequestInv
<1>1. ASSUME NEW r \in Requests, Received(r) PROVE Steps(q)
  <2>1. PICK request \in Request : Arrives(r, request)
    BY <1>1, Arrival
  <2>2. CASE q = r
    BY <2>1, <2>2 DEF Steps
  <2>3. ASSUME q # r PROVE Waits(q)
    BY <1>0, <2>1, <2>3 DEF Arrives, Call, Reply, Waits
  <2> QED
    BY <2>2, <2>3 DEF Steps
<1>2. ASSUME NEW r \in Requests, HandlerStep(r) PROVE Steps(q)
  <2>1. CASE q = r
    BY <1>2, <2>1, HandlerSteps DEF Steps
  <2>2. ASSUME q # r PROVE Waits(q)
    <3> USE <1>0, <2>2 DEF Waits, Call, Reply
    <3>1. CASE \E p \in PCs : ReadFails(r, p)
      BY <3>1 DEF ReadFails
    <3>2. CASE FetchApp(r)
      BY <3>2 DEF FetchApp, Show
    <3>3. CASE ListApps(r) \/ ListProcesses(r)
      BY <3>3 DEF ListApps, ListProcesses, Show
    <3>4. CASE FetchProcess(r)
      BY <3>4 DEF FetchProcess, Show
    <3> HIDE DEF Waits
    <3> QED
      BY <1>2, <3>1, <3>2, <3>3, <3>4 DEF HandlerStep, PCs
  <2> QED
    BY <2>1, <2>2 DEF Steps
<1>3. CASE Crash
  <2>1. UNCHANGED <<cluster, requests, history>>
    BY <1>3 DEF Crash
  <2>2. IF InFlight(q) THEN pc'[q] = "done" /\ status'[q] = "ConnectionLost"
                       ELSE pc'[q] = pc[q] /\ status'[q] = status[q]
    BY <1>0, <1>3 DEF Crash, Crashed
  <2>3. InFlight(q) => pc[q] \notin {"idle", "done"}
    BY <1>0 DEF InFlight, Arrived, Pending, Holds
  <2> QED
    BY <2>1, <2>2, <2>3 DEF Waits, Steps
<1>4. CASE UNCHANGED vars
  BY <1>4 DEF vars, Waits, Steps
<1>5. CASE Outside
  BY <1>5 DEF Steps
<1> QED
  BY <1>1, <1>2, <1>3, <1>4, <1>5
     DEF Next, Received, Outside, AppCreated, AppDeleted, AppCopied, ProcessCreated,
         ProcessDeleted, ProcessCopied, Quiescent
-----------------------------------------------------------------------------
(***************************************************************************)
(* Preservation                                                            *)
(***************************************************************************)
LEMMA HandlerTypes ==
  ASSUME TypeOK, RequestInv, NEW r \in Requests, HandlerStep(r)
  PROVE  /\ requests' \in [Requests -> Request] /\ UNCHANGED <<cluster, history>>
         /\ pc' \in [Requests -> PCs] /\ status' \in [Requests -> Statuses]
<1>1. UNCHANGED <<cluster, history>>
  BY DEF HandlerStep, FetchApp, ListApps, ListProcesses, FetchProcess, ReadFails
<1>2. pc' \in [Requests -> PCs] /\ status' \in [Requests -> Statuses]
  <2>1. ASSUME NEW answer \in {"OK", "ResourceNotFound", "UnknownError"}, Reply(r, answer)
        PROVE  pc' \in [Requests -> PCs] /\ status' \in [Requests -> Statuses]
    BY <2>1 DEF Reply, TypeOK, PCs, Statuses
  <2>2. ASSUME Call(r, "listProcesses")
        PROVE  pc' \in [Requests -> PCs] /\ status' \in [Requests -> Statuses]
    BY <2>2 DEF Call, TypeOK, PCs
  <2> QED
    BY <2>1, <2>2 DEF HandlerStep, FetchApp, FetchFailed, ListApps, ListProcesses, FetchProcess,
       ReadFails, Show
<1> SUFFICES requests' \in [Requests -> Request]
  BY <1>1, <1>2
<1>3. ASSUME NEW x, requests' = [requests EXCEPT ![r] = x] PROVE requests' \in [Requests -> Request]
  <2>1. CASE Waits(r)
    BY <1>3, <2>1 DEF Waits, TypeOK
  <2>2. CASE \E y \in Request : Finds(r, y)
    BY <2>2 DEF Finds, TypeOK
  <2> QED
    BY <2>1, <2>2, HandlerSteps
<1>4. CASE UNCHANGED requests
  BY <1>4 DEF TypeOK
<1>5. CASE FetchApp(r)
  BY <1>3, <1>4, <1>5 DEF FetchApp, Show
<1>6. CASE ListApps(r) \/ ListProcesses(r)
  BY <1>3, <1>6 DEF ListApps, ListProcesses, Show
<1>7. CASE FetchProcess(r)
  BY <1>3, <1>4, <1>7 DEF FetchProcess, Show
<1> QED
  BY <1>4, <1>5, <1>6, <1>7 DEF HandlerStep, ReadFails

\* The changes that others make.
AppsChange == \E a \in AppGUIDs, s \in Spaces :
    AppCreated(a, s) \/ AppDeleted(a, s) \/ \E t \in Spaces : AppCopied(a, s, t)
ProcessesChange == \E p \in ProcessGUIDs, s \in Spaces :
    \/ \E a \in AppGUIDs : ProcessCreated(p, s, a)
    \/ ProcessDeleted(p, s) \/ \E t \in Spaces : ProcessCopied(p, s, t)

LEMMA ClusterSteps ==
  ASSUME TypeOK, RequestInv, [Next]_vars
  PROVE  UNCHANGED cluster \/ (AppsChange /\ Outside) \/ (ProcessesChange /\ Outside)
<1>1. ASSUME NEW r \in Requests, Received(r) PROVE UNCHANGED cluster
  BY <1>1, Arrival DEF Arrives
<1>2. ASSUME NEW r \in Requests, HandlerStep(r) PROVE UNCHANGED cluster
  BY <1>2, HandlerTypes
<1>3. AppsChange => Outside
  BY DEF AppsChange, AppCreated, AppDeleted, AppCopied, Outside
<1>4. ProcessesChange => Outside
  BY DEF ProcessesChange, ProcessCreated, ProcessDeleted, ProcessCopied, Outside
<1> QED
  BY <1>1, <1>2, <1>3, <1>4 DEF Next, Received, AppsChange, ProcessesChange, Crash, Quiescent, vars

LEMMA NextClusterType ==
  ASSUME TypeOK, RequestInv, [Next]_vars
  PROVE  /\ apps' \in [AppGUIDs -> [Spaces -> {CFApp, Absent, Deleted}]]
         /\ processes' \in [ProcessGUIDs -> [Spaces -> AppGUIDs \cup {Absent, Deleted}]]
<1> USE DEF TypeOK
<1>1. CASE UNCHANGED cluster
  BY <1>1 DEF cluster
<1>2. CASE AppsChange
  <2>1. UNCHANGED processes
    BY <1>2 DEF AppsChange, AppCreated, AppDeleted, AppCopied
  <2>2. PICK a \in AppGUIDs, s \in Spaces :
           AppCreated(a, s) \/ AppDeleted(a, s) \/ \E t \in Spaces : AppCopied(a, s, t)
    BY <1>2 DEF AppsChange
  <2>3. apps' \in [AppGUIDs -> [Spaces -> {CFApp, Absent, Deleted}]]
    <3>1. CASE AppCreated(a, s)
      BY <3>1 DEF AppCreated
    <3>2. CASE AppDeleted(a, s)
      BY <3>2 DEF AppDeleted
    <3>3. ASSUME NEW t \in Spaces, AppCopied(a, s, t)
          PROVE  apps' \in [AppGUIDs -> [Spaces -> {CFApp, Absent, Deleted}]]
      <4>1. apps' = [apps EXCEPT ![a][t] = apps[a][s]] /\ apps[a][s] \in {CFApp, Absent, Deleted}
        BY <3>3 DEF AppCopied
      <4> QED
        BY <4>1
    <3> QED
      BY <2>2, <3>1, <3>2, <3>3
  <2> QED
    BY <2>1, <2>3
<1>3. CASE ProcessesChange
  <2>1. UNCHANGED apps
    BY <1>3 DEF ProcessesChange, ProcessCreated, ProcessDeleted, ProcessCopied
  <2>2. PICK p \in ProcessGUIDs, s \in Spaces :
           \/ \E a \in AppGUIDs : ProcessCreated(p, s, a)
           \/ ProcessDeleted(p, s) \/ \E t \in Spaces : ProcessCopied(p, s, t)
    BY <1>3 DEF ProcessesChange
  <2>3. processes' \in [ProcessGUIDs -> [Spaces -> AppGUIDs \cup {Absent, Deleted}]]
    <3>1. ASSUME NEW a \in AppGUIDs, ProcessCreated(p, s, a)
          PROVE  processes' \in [ProcessGUIDs -> [Spaces -> AppGUIDs \cup {Absent, Deleted}]]
      BY <3>1 DEF ProcessCreated
    <3>2. CASE ProcessDeleted(p, s)
      BY <3>2 DEF ProcessDeleted
    <3>3. ASSUME NEW t \in Spaces, ProcessCopied(p, s, t)
          PROVE  processes' \in [ProcessGUIDs -> [Spaces -> AppGUIDs \cup {Absent, Deleted}]]
      <4>1. /\ processes' = [processes EXCEPT ![p][t] = processes[p][s]]
            /\ processes[p][s] \in AppGUIDs \cup {Absent, Deleted}
        BY <3>3 DEF ProcessCopied
      <4> QED
        BY <4>1
    <3> QED
      BY <2>2, <3>1, <3>2, <3>3
  <2> QED
    BY <2>1, <2>3
<1> HIDE DEF TypeOK
<1> QED
  BY <1>1, <1>2, <1>3, ClusterSteps

LEMMA NextTypeOK == ASSUME TypeOK, RequestInv, [Next]_vars PROVE TypeOK'
<1>1. /\ apps' \in [AppGUIDs -> [Spaces -> {CFApp, Absent, Deleted}]]
      /\ processes' \in [ProcessGUIDs -> [Spaces -> AppGUIDs \cup {Absent, Deleted}]]
  BY NextClusterType
<1> DEFINE Histories == [Requests -> [stable : SUBSET Record, seen : SUBSET Record,
                                      homes : SUBSET Spaces]]
           Goal == /\ requests' \in [Requests -> Request] /\ history' \in Histories
                   /\ pc' \in [Requests -> PCs] /\ status' \in [Requests -> Statuses]
<1> SUFFICES Goal
  BY <1>1 DEF TypeOK
<1>2. ASSUME NEW r \in Requests, Received(r) PROVE Goal
  <2>1. PICK request \in Request : Arrives(r, request)
    BY <1>2, Arrival
  <2>2. pc' \in [Requests -> PCs] /\ status' \in [Requests -> Statuses]
    <3>1. FirstCall(request.op) \in PCs
      BY <2>1 DEF Arrives, FirstCall, Ops, OfApp, OfProcess, PCs
    <3> QED
      BY <2>1, <3>1 DEF Arrives, Call, Reply, TypeOK, PCs, Statuses
  <2>3. [stable |-> DueFor(request), seen |-> ThereFor(request), homes |-> HomesFor(request)]
           \in [stable : SUBSET Record, seen : SUBSET Record, homes : SUBSET Spaces]
    BY HistoryIs
  <2> QED
    BY <2>1, <2>2, <2>3 DEF Arrives, TypeOK
<1>3. ASSUME NEW r \in Requests, HandlerStep(r) PROVE Goal
  BY <1>3, HandlerTypes DEF TypeOK
<1>4. ASSUME Outside PROVE Goal
  <2>1. ASSUME NEW r \in Requests
        PROVE  /\ ThereFor(requests[r])' \subseteq Record
               /\ HomesFor(requests[r])' \subseteq Spaces
    <3>1. AllProcesses' \subseteq Record
      <4>1. ASSUME NEW p \in ProcessGUIDs, NEW s \in Spaces, Exists(processes'[p][s])
            PROVE  [guid |-> p, space |-> s, app |-> processes'[p][s]] \in Record
        <5>1. processes'[p][s] \in AppGUIDs
          BY <1>1, <4>1 DEF Exists
        <5> QED
          BY <5>1 DEF Record, Guids
      <4> QED
        BY <4>1 DEF AllProcesses, ProcessRecord, Where
    <3> QED
      BY <3>1 DEF ThereFor, HomesFor, Where
  <2>2. ASSUME NEW r \in Requests
        PROVE  [stable |-> history[r].stable \cap DueFor(requests[r])',
                seen |-> history[r].seen \cup ThereFor(requests[r])',
                homes |-> history[r].homes \cup HomesFor(requests[r])']
                  \in [stable : SUBSET Record, seen : SUBSET Record, homes : SUBSET Spaces]
    <3>1. /\ history[r].stable \subseteq Record /\ history[r].seen \subseteq Record
          /\ history[r].homes \subseteq Spaces
      BY DEF TypeOK
    <3> QED
      BY <2>1, <3>1
  <2>3. history' \in Histories
    BY <1>4, <2>2 DEF Outside, Observed, TypeOK
  <2> QED
    BY <1>4, <2>3 DEF Outside, TypeOK
<1>5. ASSUME Crash PROVE Goal
  BY <1>5 DEF Crash, Crashed, TypeOK, PCs, Statuses
<1>6. ASSUME UNCHANGED vars PROVE Goal
  BY <1>6 DEF vars, TypeOK
<1> HIDE DEF Goal
<1> QED
  BY <1>2, <1>3, <1>4, <1>5, <1>6
     DEF Next, Received, Outside, AppCreated, AppDeleted, AppCopied, ProcessCreated,
         ProcessDeleted, ProcessCopied, Quiescent

LEMMA NextRequestInv == ASSUME TypeOK, RequestInv, [Next]_vars PROVE RequestInv'
<1> SUFFICES ASSUME NEW q \in Requests PROVE Holds(q)'
  BY DEF RequestInv
<1>0. /\ Holds(q) /\ pc \in [Requests -> PCs] /\ status \in [Requests -> Statuses]
      /\ requests \in [Requests -> Request]
  BY DEF RequestInv, TypeOK
<1>1. CASE Outside
  BY <1>0, <1>1 DEF Outside, Holds
<1>2. CASE Waits(q)
  <2>1. CASE pc'[q] = pc[q] /\ status'[q] = status[q]
    BY <1>0, <1>2, <2>1 DEF Waits, Holds
  <2>2. CASE pc[q] # "idle" /\ pc'[q] = "done" /\ status'[q] # "Pending"
    BY <1>0, <1>2, <2>2 DEF Waits, Holds
  <2> QED
    BY <1>2, <2>1, <2>2 DEF Waits
<1>3. ASSUME NEW request \in Request, Arrives(q, request) PROVE Holds(q)'
  <2>1. requests'[q] = request /\ status[q] = "Pending"
    BY <1>0, <1>3 DEF Arrives, Holds
  <2>2. \/ pc'[q] = FirstCall(request.op) /\ status'[q] = "Pending"
        \/ pc'[q] = "done" /\ status'[q] = "UnknownError"
    BY <1>0, <1>3, <2>1 DEF Arrives, Call, Reply
  <2>3. request.op \in Ops
    BY <1>3 DEF Arrives
  <2>4. \/ request.op \in OfApp /\ FirstCall(request.op) = "fetchApp"
        \/ request.op = "listApps" /\ FirstCall(request.op) = "listApps"
        \/ request.op \in OfProcess /\ FirstCall(request.op) = "fetchProcess"
    BY <2>3 DEF FirstCall, Ops, OfApp, OfProcess
  <2> QED
    BY <1>3, <2>1, <2>2, <2>3, <2>4 DEF Arrives, Holds
<1>4. ASSUME NEW x \in Request, Finds(q, x) PROVE Holds(q)'
  <2>0. requests'[q] = x /\ SameKind(x, requests[q]) /\ pc[q] # "idle" /\ status[q] = "Pending"
    BY <1>0, <1>4 DEF Finds, Pending
  <2>1. CASE Located(q, x)
    <3>1. pc'[q] = "listProcesses" /\ status'[q] = "Pending" /\ x.space \in Spaces /\ x.shown = {}
          /\ x.op = "listProcesses"
      BY <1>0, <2>0, <2>1 DEF Located, Call
    <3> QED
      BY <1>0, <2>0, <3>1 DEF Holds, SameKind
  <2>2. CASE Shows(q, x)
    <3>1. pc'[q] = "done" /\ status'[q] = "OK"
      BY <1>0, <2>2 DEF Shows, Reply
    <3> QED
      BY <1>0, <2>0, <3>1 DEF Holds, SameKind
  <2> QED
    BY <1>4, <2>1, <2>2 DEF Finds
<1> QED
  BY <1>1, <1>2, <1>3, <1>4, RequestSteps DEF Steps

\* A slot that was written is never blank again, and a deleted object stays deleted.
LEMMA SlotSteps ==
  ASSUME TypeOK, RequestInv, [Next]_vars
  PROVE  /\ \A a \in AppGUIDs, s \in Spaces :
               /\ apps[a][s] # Absent => apps'[a][s] # Absent
               /\ apps[a][s] = Deleted => apps'[a][s] = Deleted
         /\ \A p \in ProcessGUIDs, s \in Spaces :
               /\ processes[p][s] # Absent => processes'[p][s] # Absent
               /\ processes[p][s] = Deleted => processes'[p][s] = Deleted
<1> USE DEF TypeOK
<1>1. CASE UNCHANGED cluster
  BY <1>1 DEF cluster
<1>2. ASSUME AppsChange
      PROVE  /\ UNCHANGED processes
             /\ \A a \in AppGUIDs, s \in Spaces :
                   /\ apps[a][s] # Absent => apps'[a][s] # Absent
                   /\ apps[a][s] = Deleted => apps'[a][s] = Deleted
  <2>0. UNCHANGED processes
    BY <1>2 DEF AppsChange, AppCreated, AppDeleted, AppCopied
  <2>1. PICK a \in AppGUIDs, s \in Spaces, x \in {CFApp, Deleted} :
           /\ apps' = [apps EXCEPT ![a][s] = x]
           /\ apps[a][s] # Deleted
    <3>1. ASSUME NEW a \in AppGUIDs, NEW s \in Spaces, NEW t \in Spaces, AppCopied(a, s, t)
          PROVE  /\ apps' = [apps EXCEPT ![a][t] = apps[a][s]]
                 /\ apps[a][s] = CFApp /\ apps[a][t] # Deleted
      BY <3>1, SlotAssumption DEF AppCopied, Exists
    <3>2. ASSUME NEW a \in AppGUIDs, NEW s \in Spaces, AppCreated(a, s)
          PROVE  apps' = [apps EXCEPT ![a][s] = CFApp] /\ apps[a][s] # Deleted
      BY <3>2, SlotAssumption DEF AppCreated
    <3>3. ASSUME NEW a \in AppGUIDs, NEW s \in Spaces, AppDeleted(a, s)
          PROVE  apps' = [apps EXCEPT ![a][s] = Deleted] /\ apps[a][s] # Deleted
      BY <3>3 DEF AppDeleted, Exists
    <3> QED
      BY <1>2, <3>1, <3>2, <3>3 DEF AppsChange
  <2>2. x # Absent
    BY SlotAssumption, ProcessesAssumption
  <2> QED
    BY <2>0, <2>1, <2>2
<1>3. ASSUME ProcessesChange
      PROVE  /\ UNCHANGED apps
             /\ \A p \in ProcessGUIDs, s \in Spaces :
                   /\ processes[p][s] # Absent => processes'[p][s] # Absent
                   /\ processes[p][s] = Deleted => processes'[p][s] = Deleted
  <2>0. UNCHANGED apps
    BY <1>3 DEF ProcessesChange, ProcessCreated, ProcessDeleted, ProcessCopied
  <2> DEFINE Writes(p, s) == \E x \in AppGUIDs \cup {Deleted} :
                  processes' = [processes EXCEPT ![p][s] = x] /\ processes[p][s] # Deleted
  <2>1. \E p \in ProcessGUIDs, s \in Spaces : Writes(p, s)
    <3>1. ASSUME NEW p \in ProcessGUIDs, NEW s \in Spaces, NEW t \in Spaces, ProcessCopied(p, s, t)
          PROVE  Writes(p, t)
      <4>1. processes[p][s] \in AppGUIDs /\ processes[p][t] # Deleted
        BY <3>1, SlotAssumption DEF ProcessCopied, Exists
      <4> QED
        BY <3>1, <4>1 DEF ProcessCopied
    <3>2. ASSUME NEW p \in ProcessGUIDs, NEW s \in Spaces, NEW a \in AppGUIDs,
                 ProcessCreated(p, s, a)
          PROVE  Writes(p, s)
      BY <3>2, SlotAssumption DEF ProcessCreated
    <3>3. ASSUME NEW p \in ProcessGUIDs, NEW s \in Spaces, ProcessDeleted(p, s)
          PROVE  Writes(p, s)
      BY <3>3 DEF ProcessDeleted, Exists
    <3> HIDE DEF Writes
    <3> QED
      BY <1>3, <3>1, <3>2, <3>3 DEF ProcessesChange
  <2>2. PICK p \in ProcessGUIDs, s \in Spaces, x \in AppGUIDs \cup {Deleted} :
           /\ processes' = [processes EXCEPT ![p][s] = x]
           /\ processes[p][s] # Deleted
    BY <2>1
  <2>3. x # Absent
    BY SlotAssumption, ProcessesAssumption
  <2> QED
    BY <2>0, <2>2, <2>3
<1> HIDE DEF TypeOK
<1> QED
  BY <1>1, <1>2, <1>3, ClusterSteps

LEMMA KnownStays ==
  ASSUME TypeOK, RequestInv, [Next]_vars, NEW g
  PROVE  (Known(g) => Known(g)') /\ (WasDeleted(g) => WasDeleted(g)')
  BY SlotSteps DEF Known, WasDeleted

\* An answer, and what was shown with it, stay.
LEMMA Settled ==
  ASSUME TypeOK, RequestInv, [Next]_vars, NEW q \in Requests, status[q] # "Pending"
  PROVE  requests'[q] = requests[q] /\ status'[q] = status[q]
<1>1. pc[q] = "done"
  BY DEF RequestInv, Holds
<1> QED
  BY <1>1, RequestSteps DEF Steps, Outside, Waits, Arrives, Finds, Pending

LEMMA NextAfterInv == ASSUME TypeOK, RequestInv, AfterInv, [Next]_vars PROVE AfterInv'
<1> SUFFICES ASSUME NEW q \in Requests, NEW r \in requests'[q].after PROVE status'[r] # "Pending"
  BY DEF AfterInv
<1>1. requests'[q].after = requests[q].after \/ requests'[q].after = AnsweredNow
  BY RequestSteps DEF Steps, Outside, Waits, Arrives, Finds, SameKind, TypeOK
<1>2. requests[q].after \subseteq Requests
  BY DEF TypeOK, Request
<1>3. r \in Requests /\ status[r] # "Pending"
  BY <1>1, <1>2 DEF AfterInv, AnsweredNow
<1> QED
  BY <1>3, Settled

LEMMA ShownAreKnown ==
  /\ \A record \in AllApps \cup AllProcesses : Known(record.guid)
  /\ \A a, s : ProcessesOf(a, s) \subseteq AllProcesses
  BY DEF AllApps, AllProcesses, AppRecord, ProcessRecord, Where, Exists, Known, ProcessesOf,
         FilterByAppGUID, InNamespace

LEMMA NextSeenInv == ASSUME TypeOK, RequestInv, SeenInv, [Next]_vars PROVE SeenInv'
<1> SUFFICES ASSUME NEW q \in Requests, NEW record \in requests'[q].shown
             PROVE  Known(record.guid)'
  BY DEF SeenInv
<1>1. SUFFICES Known(record.guid)
  BY KnownStays
<1>2. CASE requests'[q] = requests[q]
  BY <1>2 DEF SeenInv
<1>3. ASSUME NEW request \in Request, Arrives(q, request) PROVE FALSE
  BY <1>3 DEF Arrives, TypeOK
<1>4. ASSUME NEW x \in Request, Finds(q, x) PROVE Known(record.guid)
  <2>1. requests'[q] = x
    BY <1>4 DEF Finds, TypeOK
  <2> QED
    BY <1>4, <2>1, ShownAreKnown DEF Finds, Located, Shows
<1> QED
  BY <1>2, <1>3, <1>4, RequestSteps DEF Steps, Outside, Waits

LEMMA NextHistoryInv == ASSUME TypeOK, RequestInv, HistoryInv, [Next]_vars PROVE HistoryInv'
<1> DEFINE Kept(q) ==
              /\ ThereFor(requests[q]) \subseteq history[q].seen
              /\ HomesFor(requests[q]) \subseteq history[q].homes
              /\ pc[q] = "fetchApp" => history[q].stable \subseteq DueFor(requests[q])
              /\ pc[q] = "listProcesses" =>
                    /\ requests[q].space \in history[q].homes
                    /\ history[q].stable \subseteq
                          ProcessesOf(requests[q].guid, requests[q].space)
<1> SUFFICES ASSUME NEW q \in Requests, InFlight(q)' PROVE Kept(q)'
  BY DEF HistoryInv
<1>0. /\ Holds(q)
      /\ InFlight(q) => Kept(q)
      /\ pc \in [Requests -> PCs] /\ status \in [Requests -> Statuses]
      /\ requests \in [Requests -> Request] /\ requests[q] \in Request
  BY DEF RequestInv, HistoryInv, TypeOK
<1>1. CASE Outside
  <2>1. InFlight(q) /\ pc'[q] = pc[q] /\ requests'[q] = requests[q]
    BY <1>1 DEF Outside, InFlight, Arrived, Pending
  <2>2. /\ history'[q].stable = history[q].stable \cap DueFor(requests[q])'
        /\ history'[q].seen = history[q].seen \cup ThereFor(requests[q])'
        /\ history'[q].homes = history[q].homes \cup HomesFor(requests[q])'
    BY <1>1, <2>1 DEF Outside, Observed
  <2>3. CASE pc[q] = "listProcesses"
    <3>1. /\ requests[q].space \in history[q].homes
          /\ history[q].stable \subseteq ProcessesOf(requests[q].guid, requests[q].space)
      BY <1>0, <2>1, <2>3
    <3>2. DueFor(requests[q])' \subseteq {record \in AllProcesses' : record.app = requests'[q].guid}
      BY DEF DueFor, ThereFor
    <3>3. \A record \in history[q].stable : record.space = requests[q].space
      BY <3>1 DEF ProcessesOf, FilterByAppGUID, InNamespace
    <3>4. history'[q].stable \subseteq ProcessesOf(requests[q].guid, requests[q].space)'
      BY <2>1, <2>2, <3>2, <3>3 DEF ProcessesOf, FilterByAppGUID, InNamespace
    <3> QED
      BY <2>1, <2>2, <2>3, <3>1, <3>4
  <2> QED
    BY <2>1, <2>2, <2>3
<1>2. CASE Waits(q)
  <2>1. /\ InFlight(q) /\ pc'[q] = pc[q] /\ requests'[q] = requests[q] /\ history'[q] = history[q]
        /\ UNCHANGED <<apps, processes>>
    BY <1>2 DEF Waits, InFlight, Arrived, Pending, cluster
  <2>2. /\ ThereFor(requests[q])' = ThereFor(requests[q])
        /\ HomesFor(requests[q])' = HomesFor(requests[q])
        /\ DueFor(requests[q])' = DueFor(requests[q])
        /\ ProcessesOf(requests[q].guid, requests[q].space)' =
              ProcessesOf(requests[q].guid, requests[q].space)
    BY <2>1 DEF ThereFor, HomesFor, DueFor, ProcessesOf, FilterByAppGUID, InNamespace,
                AllProcesses, ProcessRecord, Where
  <2> QED
    BY <1>0, <2>1, <2>2
<1>3. ASSUME NEW request \in Request, Arrives(q, request) PROVE Kept(q)'
  <2>1. /\ requests'[q] = request /\ UNCHANGED <<apps, processes>>
        /\ history'[q].stable = DueFor(request) /\ history'[q].seen = ThereFor(request)
        /\ history'[q].homes = HomesFor(request)
    BY <1>0, <1>3 DEF Arrives, cluster, TypeOK
  <2>2. /\ ThereFor(requests[q])' = ThereFor(request)
        /\ HomesFor(requests[q])' = HomesFor(request)
        /\ DueFor(requests[q])' = DueFor(request)
    BY <2>1 DEF ThereFor, HomesFor, DueFor, AllProcesses, ProcessRecord, Where
  <2>3. pc'[q] # "listProcesses"
    BY <1>0, <1>3 DEF Arrives, Call, Reply, FirstCall, Ops, OfApp, OfProcess
  <2> QED
    BY <2>1, <2>2, <2>3
<1>4. ASSUME NEW x \in Request, Finds(q, x) PROVE Kept(q)'
  <2>0. /\ requests'[q] = x /\ UNCHANGED <<apps, processes>> /\ history'[q] = history[q]
        /\ InFlight(q) /\ SameKind(x, requests[q])
    BY <1>0, <1>4 DEF Finds, InFlight, Arrived, cluster
  <2>1. ~Shows(q, x)
    BY <1>0 DEF Shows, Reply, InFlight, Pending
  <2>2. /\ pc[q] = "fetchApp" /\ pc'[q] = "listProcesses" /\ x.op = "listProcesses"
        /\ Where(apps, x.guid) = {x.space}
    BY <1>0, <1>4, <2>1 DEF Finds, Located, Call, FoundIn
  <2>3. /\ ThereFor(requests[q])' = ThereFor(requests[q])
        /\ HomesFor(requests[q])' = HomesFor(requests[q])
        /\ ProcessesOf(requests[q].guid, requests[q].space)' = ProcessesOf(x.guid, x.space)
    BY <2>0 DEF ThereFor, HomesFor, ProcessesOf, FilterByAppGUID, InNamespace, AllProcesses,
                ProcessRecord, Where, SameKind
  <2>4. HomesFor(requests[q]) = {x.space}
    BY <2>0, <2>2 DEF HomesFor, SameKind
  <2>5. DueFor(requests[q]) \subseteq ProcessesOf(x.guid, x.space)
    BY <2>0, <2>4 DEF DueFor, ThereFor, ProcessesOf, FilterByAppGUID, InNamespace, SameKind
  <2> QED
    BY <1>0, <2>0, <2>2, <2>3, <2>4, <2>5
<1> HIDE DEF Kept
<1> QED
  BY <1>1, <1>2, <1>3, <1>4, RequestSteps DEF Steps

LEMMA NextListIsTimely ==
  ASSUME TypeOK, RequestInv, HistoryInv, ListIsTimely, [Next]_vars
  PROVE  ListIsTimely'
<1> DEFINE Timely(r) ==
              /\ history[r].stable \subseteq requests[r].shown
              /\ requests[r].shown \subseteq history[r].seen
              /\ \A record \in requests[r].shown : record.space \in history[r].homes
<1> SUFFICES ASSUME NEW q \in Requests, status'[q] = "OK", requests'[q].op = "listProcesses"
             PROVE  Timely(q)'
  BY DEF ListIsTimely
<1>0. /\ Holds(q) /\ pc \in [Requests -> PCs] /\ status \in [Requests -> Statuses]
      /\ requests \in [Requests -> Request]
      /\ status[q] = "OK" /\ requests[q].op = "listProcesses" => Timely(q)
  BY DEF RequestInv, TypeOK, ListIsTimely
<1>1. CASE Outside
  <2>1. /\ requests'[q] = requests[q] /\ status[q] = "OK"
        /\ history'[q] = history[q]
    BY <1>1 DEF Outside, Observed, InFlight, Pending
  <2> QED
    BY <1>0, <2>1
<1>2. CASE Waits(q)
  <2>1. requests'[q] = requests[q] /\ status[q] = "OK" /\ history'[q] = history[q]
    BY <1>2 DEF Waits
  <2> QED
    BY <1>0, <2>1
<1>3. ASSUME NEW request \in Request, Arrives(q, request) PROVE FALSE
  BY <1>0, <1>3 DEF Arrives, Call, Reply, Holds
<1>4. ASSUME NEW x \in Request, Finds(q, x) PROVE Timely(q)'
  <2>0. requests'[q] = x /\ history'[q] = history[q] /\ InFlight(q) /\ SameKind(x, requests[q])
    BY <1>0, <1>4 DEF Finds, InFlight, Arrived
  <2>1. ~Located(q, x)
    BY <1>0, <1>4 DEF Finds, Located, Call, Pending
  <2>2. /\ pc[q] = "listProcesses" /\ x.space = requests[q].space
        /\ x.shown = ProcessesOf(requests[q].guid, requests[q].space)
        /\ requests[q].op = "listProcesses"
    BY <1>4, <2>0, <2>1 DEF Finds, Shows, SameKind
  <2>3. /\ ThereFor(requests[q]) \subseteq history[q].seen
        /\ requests[q].space \in history[q].homes
        /\ history[q].stable \subseteq x.shown
    BY <2>0, <2>2 DEF HistoryInv
  <2>4. /\ x.shown \subseteq ThereFor(requests[q])
        /\ \A record \in x.shown : record.space = requests[q].space
    BY <2>2 DEF ThereFor, ProcessesOf, FilterByAppGUID, InNamespace
  <2> QED
    BY <2>0, <2>3, <2>4
<1> HIDE DEF Timely
<1> QED
  BY <1>1, <1>2, <1>3, <1>4, RequestSteps DEF Steps

LEMMA NextProcessesOfOneApp ==
  ASSUME TypeOK, RequestInv, ProcessesOfOneApp, [Next]_vars
  PROVE  ProcessesOfOneApp'
<1> DEFINE OneApp(r) ==
              \A f, g \in requests[r].shown : f.app = requests[r].guid /\ f.space = g.space
<1> SUFFICES ASSUME NEW q \in Requests, requests'[q].op = "listProcesses", status'[q] = "OK"
             PROVE  OneApp(q)'
  BY DEF ProcessesOfOneApp
<1>0. /\ Holds(q) /\ pc \in [Requests -> PCs] /\ status \in [Requests -> Statuses]
      /\ requests \in [Requests -> Request]
      /\ requests[q].op = "listProcesses" /\ status[q] = "OK" => OneApp(q)
  BY DEF RequestInv, TypeOK, ProcessesOfOneApp
<1>1. CASE Outside \/ Waits(q)
  <2>1. requests'[q] = requests[q] /\ status[q] = "OK"
    BY <1>1 DEF Outside, Waits
  <2> QED
    BY <1>0, <2>1
<1>2. ASSUME NEW request \in Request, Arrives(q, request) PROVE FALSE
  BY <1>0, <1>2 DEF Arrives, Call, Reply, Holds
<1>3. ASSUME NEW x \in Request, Finds(q, x) PROVE OneApp(q)'
  <2>0. requests'[q] = x /\ SameKind(x, requests[q]) /\ x.op = "listProcesses"
    BY <1>0, <1>3 DEF Finds
  <2>1. ~Located(q, x)
    BY <1>0, <1>3 DEF Finds, Located, Call, Pending
  <2>2. x.shown = ProcessesOf(x.guid, x.space)
    BY <1>3, <2>0, <2>1 DEF Finds, Shows
  <2> QED
    BY <2>0, <2>2 DEF ProcessesOf, FilterByAppGUID, InNamespace
<1> HIDE DEF OneApp
<1> QED
  BY <1>1, <1>2, <1>3, RequestSteps DEF Steps

LEMMA NextShownIsFound ==
  ASSUME TypeOK, RequestInv, SeenInv, AfterInv, ShownIsFound, [Next]_vars
  PROVE  ShownIsFound'
<1> SUFFICES ASSUME NEW r \in Requests, NEW q \in Requests,
                    r \in requests'[q].after, status'[q] = "ResourceNotFound",
                    NEW record \in requests'[r].shown, record.guid = requests'[q].guid
             PROVE  WasDeleted(requests[q].guid)'
  BY DEF ShownIsFound
<1>0. Holds(q) /\ requests \in [Requests -> Request] /\ status \in [Requests -> Statuses]
  BY DEF RequestInv, TypeOK
\* Only an answered request, or one that waits, can be told "not found" after the step.
<1>1. \/ status[q] = "ResourceNotFound"
      \/ UNCHANGED cluster /\ Missed(q) /\ requests'[q] = requests[q]
  <2>1. CASE Outside \/ Waits(q)
    BY <2>1 DEF Outside, Waits
  <2>2. ASSUME NEW request \in Request, Arrives(q, request) PROVE FALSE
    BY <1>0, <2>2 DEF Arrives, Call, Reply, Holds
  <2>3. ASSUME NEW x \in Request, Finds(q, x) PROVE FALSE
    BY <1>0, <2>3 DEF Finds, Located, Shows, Call, Reply, Pending
  <2> QED
    BY <2>1, <2>2, <2>3, RequestSteps DEF Steps
<1>2. requests'[q] = requests[q]
  BY <1>1, Settled
<1>3. status[r] # "Pending" /\ requests'[r] = requests[r]
  BY <1>2, Settled DEF AfterInv
<1>4. WasDeleted(requests[q].guid)
  <2>1. CASE status[q] = "ResourceNotFound"
    BY <1>2, <1>3, <2>1 DEF ShownIsFound
  <2>2. CASE Missed(q)
    <3>1. Known(requests[q].guid)
      BY <1>2, <1>3 DEF SeenInv
    <3>2. \/ requests[q].guid \in AppGUIDs /\ NotFound(apps, requests[q].guid)
          \/ requests[q].guid \in ProcessGUIDs /\ NotFound(processes, requests[q].guid)
      BY <1>0, <2>2 DEF Missed, Holds
    <3> QED
      BY <3>1, <3>2, ProcessesAssumption DEF Known, NotFound, Where, Exists, WasDeleted
  <2> QED
    BY <1>1, <2>1, <2>2
<1>5. PICK g : g = requests[q].guid
  OBVIOUS
<1>6. WasDeleted(g) /\ WasDeleted(g)'
  BY <1>4, <1>5, KnownStays DEF WasDeleted
<1> QED
  BY <1>2, <1>5, <1>6 DEF WasDeleted
-----------------------------------------------------------------------------
(***************************************************************************)
(* The theorems                                                            *)
(***************************************************************************)
LEMMA NextIInv == IInv /\ [Next]_vars => IInv'
  BY NextTypeOK, NextRequestInv, NextHistoryInv, NextSeenInv, NextAfterInv, NextListIsTimely,
     NextProcessesOfOneApp, NextShownIsFound DEF IInv

\* Everything below follows from one inductive invariant: what a handler holds at each
\* of its calls, and what the cluster was like since its request arrived.
THEOREM Invariance == Spec => []IInv
  BY InitIInv, NextIInv, PTL DEF Spec

\* Every variable keeps its type: a slot holds an object or a tombstone, and what is
\* shown are records of apps and processes.
THEOREM Typing == Spec => []TypeOK
<1>1. IInv => TypeOK
  BY DEF IInv
<1> QED
  BY <1>1, Invariance, PTL

\* GET /v3/apps/<guid>/processes leaves out no process that was beside the app all the
\* time and shows none that never was there, although FetchApp and
\* FetchProcessesForApp read the cluster at two different times.
THEOREM ListSafety == Spec => []ListIsTimely
<1>1. IInv => ListIsTimely
  BY DEF IInv
<1> QED
  BY <1>1, Invariance, PTL

\* The processes of one answer are of the app that was asked for and of one namespace,
\* whatever copies of the app there are.
THEOREM OneAppSafety == Spec => []ProcessesOfOneApp
<1>1. IInv => ProcessesOfOneApp
  BY DEF IInv
<1> QED
  BY <1>1, Invariance, PTL

\* An app or a process that some answer has shown is a 404 for a later request only when
\* it was deleted: FetchApp and FetchProcess report a duplicate as another error.
THEOREM ShownSafety == Spec => []ShownIsFound
<1>1. IInv => ShownIsFound
  BY DEF IInv
<1> QED
  BY <1>1, Invariance, PTL
=============================================================================
