------------------------------ MODULE Processes ------------------------------
(***************************************************************************)
(* The reads of apps and processes: GET /v3/apps, GET /v3/apps/<guid>, GET *)
(* /v3/apps/<guid>/processes (apis/app_handler.go), GET                    *)
(* /v3/processes/<guid> and GET /v3/processes/<guid>/sidecars              *)
(* (apis/process_handler.go), over the CFApp and CFProcess resources       *)
(* (repositories/app_repository.go, process_repository.go).  The           *)
(* controllers of cf-k8s-controllers write the processes of an app.        *)
(***************************************************************************)
EXTENDS Cluster, Handlers

CONSTANTS AppGUIDs, ProcessGUIDs, CFApp, None

VARIABLES apps,          \* apps[a][s]: the CFApp a of namespace s
          processes,     \* processes[p][s]: the app of the CFProcess p of namespace s
          requests,      \* what the handlers hold
          history        \* what the cluster was like while a request was served

cluster == <<apps, processes>>
vars == <<cluster, requests, history, pc, status>>

Guids == AppGUIDs \cup ProcessGUIDs

Ops == {"getApp", "listApps", "listProcesses", "getProcess", "getSidecars"}

ASSUME ProcessesAssumption ==
    /\ AppGUIDs \cap ProcessGUIDs = {}
    /\ None \notin Guids \cup Spaces \cup Ops
    /\ {Absent, Deleted} \cap ({CFApp} \cup AppGUIDs) = {}

\* pc of appGetHandler, getProcessesForAppHandler: fetchApp; the latter then
\* listProcesses; appListHandler: listApps; the process handlers: fetchProcess.
PCs == {"idle", "fetchApp", "listApps", "listProcesses", "fetchProcess", "done"}

\* A record: the app of an app is itself.
Record == [guid : Guids, space : Spaces, app : AppGUIDs]

\* What a handler holds and shows.  "after" is there for the properties only: the
\* requests that had already been answered when this one arrived.
Request == [op : Ops \cup {None}, guid : Guids \cup {None}, space : Spaces \cup {None},
            shown : SUBSET Record, after : SUBSET Requests]

NoRequest == [op |-> None, guid |-> None, space |-> None, shown |-> {}, after |-> {}]

NoHistory == [stable |-> {}, seen |-> {}, homes |-> {}]

\* Apps may be there already, with their processes.
Init ==
    /\ \E home \in [AppGUIDs -> Spaces \cup {None}],
         owner \in [ProcessGUIDs -> AppGUIDs \cup {None}] :
          /\ apps = [a \in AppGUIDs |-> [s \in Spaces |->
                        IF s = home[a] THEN CFApp ELSE Absent]]
          /\ processes = [p \in ProcessGUIDs |-> [s \in Spaces |->
                IF owner[p] # None /\ home[owner[p]] = s THEN owner[p] ELSE Absent]]
    /\ requests = [r \in Requests |-> NoRequest]
    /\ history = [r \in Requests |-> NoHistory]
    /\ pc = [r \in Requests |-> "idle"]
    /\ status = [r \in Requests |-> "Pending"]
-----------------------------------------------------------------------------
(***************************************************************************)
(* Records, and the filters of the repositories                            *)
(***************************************************************************)
\* cfAppToAppRecord
AppRecord(a, s) == [guid |-> a, space |-> s, app |-> a]

AllApps == UNION {{AppRecord(a, s) : s \in Where(apps, a)} : a \in AppGUIDs}

\* A variant that takes the app's namespace for the process's own name.
ProcessRecordMixed(p, s) == [guid |-> s, space |-> s, app |-> processes[p][s]]

\* cfProcessToProcessRecord
ProcessRecord(p, s) == [guid |-> p, space |-> s, app |-> processes[p][s]]

AllProcesses == UNION {{ProcessRecord(p, s) : s \in Where(processes, p)} : p \in ProcessGUIDs}

\* A variant that filters by name, as FetchProcess does.
FilterByAppGUIDNamed(records, a) == {record \in records : record.guid = a}

\* filterProcessesByAppGUID
FilterByAppGUID(records, a) == {record \in records : record.app = a}

\* A variant that lists every namespace.
InNamespaceAny(records, s) == records

\* client.InNamespace
InNamespace(records, s) == {record \in records : record.space = s}

ProcessesOf(a, s) == FilterByAppGUID(InNamespace(AllProcesses, s), a)
-----------------------------------------------------------------------------
(***************************************************************************)
(* Kept for the properties only: the processes that the list of an app     *)
(* should show if they stay, those that were there, and the namespaces     *)
(* that the app was in, since the request arrived.                         *)
(***************************************************************************)
ThereFor(request) ==
    {record \in AllProcesses : request.op = "listProcesses" /\ record.app = request.guid}

HomesFor(request) ==
    IF request.op = "listProcesses" THEN Where(apps, request.guid) ELSE {}

DueFor(request) == {record \in ThereFor(request) : record.space \in HomesFor(request)}

Observed ==
    history' = [r \in Requests |->
        IF InFlight(r)
        THEN [stable |-> history[r].stable \cap DueFor(requests[r])',
              seen |-> history[r].seen \cup ThereFor(requests[r])',
              homes |-> history[r].homes \cup HomesFor(requests[r])']
        ELSE history[r]]
-----------------------------------------------------------------------------
(***************************************************************************)
(* The handlers                                                            *)
(***************************************************************************)
\* A request arrives, and a client is built.
Receive(r, op, g, next) ==
    LET request == [NoRequest EXCEPT !.op = op, !.guid = g,
                                     !.after = {q \in Requests : status[q] # "Pending"}] IN
    /\ pc[r] = "idle"
    /\ Call(r, next) \/ Reply(r, "UnknownError")
    /\ requests' = [requests EXCEPT ![r] = request]
    /\ history' = [history EXCEPT ![r] = [stable |-> DueFor(request),
                                          seen |-> ThereFor(request),
                                          homes |-> HomesFor(request)]]
    /\ UNCHANGED cluster

ReceiveGetApp(r, a) == Receive(r, "getApp", a, "fetchApp")
ReceiveListApps(r) == Receive(r, "listApps", None, "listApps")
ReceiveListProcesses(r, a) == Receive(r, "listProcesses", a, "fetchApp")
ReceiveGetProcess(r, p) == Receive(r, "getProcess", p, "fetchProcess")
ReceiveGetSidecars(r, p) == Receive(r, "getSidecars", p, "fetchProcess")

ReadFails(r, p) ==
    /\ At(r, p)
    /\ Reply(r, "UnknownError")
    /\ UNCHANGED <<cluster, requests, history>>

Show(r, records) ==
    /\ Reply(r, "OK")
    /\ requests' = [requests EXCEPT ![r].shown = records]

\* A variant that answers every error of the lookup as not found.
FetchFailedAny(store, g) == IF Where(store, g) = {} \/ Duplicated(store, g)
                            THEN {"ResourceNotFound"} ELSE {}

\* LogError, and the switch of the app handlers: what is answered for a lookup that
\* finds nothing, or more than one object.
FetchFailed(store, g) ==
    {answer \in {"ResourceNotFound", "UnknownError"} :
        \/ answer = "ResourceNotFound" /\ NotFound(store, g)
        \/ answer = "UnknownError" /\ Duplicated(store, g)}

\* appRepo.FetchApp.  The namespace of the record is kept for the list of processes.
FetchApp(r) ==
    LET a == requests[r].guid IN
    /\ At(r, "fetchApp")
    /\ \/ /\ \E answer \in FetchFailed(apps, a) : Reply(r, answer)
          /\ UNCHANGED requests
       \/ \E s \in Spaces :
             /\ FoundIn(apps, a, s)
             /\ \/ /\ requests[r].op = "getApp"
                   /\ Show(r, {AppRecord(a, s)})
                \/ /\ requests[r].op = "listProcesses"
                   /\ Call(r, "listProcesses")
                   /\ requests' = [requests EXCEPT ![r].space = s]
    /\ UNCHANGED <<cluster, history>>

\* appRepo.FetchAppList
ListApps(r) ==
    /\ At(r, "listApps")
    /\ Show(r, AllApps)
    /\ UNCHANGED <<cluster, history>>

\* processRepo.FetchProcessesForApp, in the namespace that the app was found in.
ListProcesses(r) ==
    /\ At(r, "listProcesses")
    /\ Show(r, ProcessesOf(requests[r].guid, requests[r].space))
    /\ UNCHANGED <<cluster, history>>

\* processRepo.FetchProcess.  The sidecars of a process that is there are always
\* none.
FetchProcess(r) ==
    LET p == requests[r].guid IN
    /\ At(r, "fetchProcess")
    /\ \/ /\ \E answer \in FetchFailed(processes, p) : Reply(r, answer)
          /\ UNCHANGED requests
       \/ \E s \in Spaces :
             /\ FoundIn(processes, p, s)
             /\ Show(r, IF requests[r].op = "getProcess" THEN {ProcessRecord(p, s)} ELSE {})
    /\ UNCHANGED <<cluster, history>>
-----------------------------------------------------------------------------
(***************************************************************************)
(* The server and the environment                                          *)
(***************************************************************************)
Crash == Crashed({}) /\ UNCHANGED <<cluster, requests, history>>

\* Apps are created by other handlers, deleted with kubectl, or restored from a copy
\* into another namespace.
AppCreated(a, s) ==
    /\ \A t \in Spaces : apps[a][t] = Absent
    /\ apps' = [apps EXCEPT ![a][s] = CFApp]
    /\ UNCHANGED <<processes, requests, pc, status>>
    /\ Observed

AppDeleted(a, s) ==
    /\ Exists(apps[a][s])
    /\ apps' = [apps EXCEPT ![a][s] = Deleted]
    /\ UNCHANGED <<processes, requests, pc, status>>
    /\ Observed

AppCopied(a, s, t) ==
    /\ Exists(apps[a][s]) /\ apps[a][t] = Absent
    /\ apps' = [apps EXCEPT ![a][t] = apps[a][s]]
    /\ UNCHANGED <<processes, requests, pc, status>>
    /\ Observed

\* The app controller writes a process beside its app; processes are deleted, or
\* restored from a copy into another namespace.
ProcessCreated(p, s, a) ==
    /\ \A t \in Spaces : processes[p][t] = Absent
    /\ Exists(apps[a][s])
    /\ processes' = [processes EXCEPT ![p][s] = a]
    /\ UNCHANGED <<apps, requests, pc, status>>
    /\ Observed

ProcessDeleted(p, s) ==
    /\ Exists(processes[p][s])
    /\ processes' = [processes EXCEPT ![p][s] = Deleted]
    /\ UNCHANGED <<apps, requests, pc, status>>
    /\ Observed

ProcessCopied(p, s, t) ==
    /\ Exists(processes[p][s]) /\ processes[p][t] = Absent
    /\ processes' = [processes EXCEPT ![p][t] = processes[p][s]]
    /\ UNCHANGED <<apps, requests, pc, status>>
    /\ Observed

\* Every request was served.
Quiescent ==
    /\ \A r \in Requests : pc[r] = "done"
    /\ UNCHANGED vars

HandlerStep(r) ==
    \/ FetchApp(r) \/ ReadFails(r, "fetchApp")
    \/ ListApps(r) \/ ReadFails(r, "listApps")
    \/ ListProcesses(r) \/ ReadFails(r, "listProcesses")
    \/ FetchProcess(r) \/ ReadFails(r, "fetchProcess")

Next ==
    \/ \E r \in Requests :
          \/ \E a \in AppGUIDs : ReceiveGetApp(r, a) \/ ReceiveListProcesses(r, a)
          \/ ReceiveListApps(r)
          \/ \E p \in ProcessGUIDs : ReceiveGetProcess(r, p) \/ ReceiveGetSidecars(r, p)
          \/ HandlerStep(r)
    \/ Crash
    \/ \E a \in AppGUIDs, s \in Spaces :
          AppCreated(a, s) \/ AppDeleted(a, s) \/ \E t \in Spaces : AppCopied(a, s, t)
    \/ \E p \in ProcessGUIDs, s \in Spaces :
          \/ \E a \in AppGUIDs : ProcessCreated(p, s, a)
          \/ ProcessDeleted(p, s) \/ \E t \in Spaces : ProcessCopied(p, s, t)
    \/ Quiescent

Spec == Init /\ [][Next]_vars /\ \A r \in Requests : WF_vars(HandlerStep(r))
-----------------------------------------------------------------------------
(***************************************************************************)
(* Properties                                                              *)
(***************************************************************************)
TypeOK ==
    /\ apps \in [AppGUIDs -> [Spaces -> {CFApp, Absent, Deleted}]]
    /\ processes \in [ProcessGUIDs -> [Spaces -> AppGUIDs \cup {Absent, Deleted}]]
    /\ requests \in [Requests -> Request]
    /\ history \in [Requests -> [stable : SUBSET Record, seen : SUBSET Record,
                                 homes : SUBSET Spaces]]
    /\ pc \in [Requests -> PCs]
    /\ status \in [Requests -> Statuses]

\* The list of the processes of an app leaves out none that was beside the app all the
\* time it was served, and shows none that was not there for some of that time, or that
\* lies where the app never was: it is put together from two reads, of the app and of
\* its namespace, and both change in between.
ListIsTimely ==
    \A r \in Requests :
        (status[r] = "OK" /\ requests[r].op = "listProcesses") =>
            /\ history[r].stable \subseteq requests[r].shown
            /\ requests[r].shown \subseteq history[r].seen
            /\ \A record \in requests[r].shown : record.space \in history[r].homes

\* The processes of an app, as one answer shows them, are of that app and lie in one
\* namespace, also when a copy of the app and of its processes lies in another one:
\* an app that is in two has no list at all.
ProcessesOfOneApp ==
    \A r \in Requests :
        (requests[r].op = "listProcesses" /\ status[r] = "OK") =>
            \A f, g \in requests[r].shown : f.app = requests[r].guid /\ f.space = g.space

WasDeleted(g) ==
    \/ g \in AppGUIDs /\ \E s \in Spaces : apps[g][s] = Deleted
    \/ g \in ProcessGUIDs /\ \E s \in Spaces : processes[g][s] = Deleted

\* Whoever was shown an app or a process, on its own or in a list, is told that it is
\* not found only after someone has deleted it: a second copy of it makes the answer an
\* error, but never a 404, which clients take for the end of the object.
ShownIsFound ==
    \A r, q \in Requests :
        (/\ r \in requests[q].after
         /\ status[q] = "ResourceNotFound"
         /\ \E record \in requests[r].shown : record.guid = requests[q].guid)
        => WasDeleted(requests[q].guid)
=============================================================================
