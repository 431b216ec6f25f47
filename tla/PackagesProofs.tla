--------------------------- MODULE PackagesProofs ---------------------------
(***************************************************************************)
(* Proofs about Packages, for any number of requests, packages and spaces: *)
(* its invariants first, and then that it implements PackageBits.          *)
(***************************************************************************)
EXTENDS PackagesRefinement, TLAPS

-----------------------------------------------------------------------------
(***************************************************************************)
(* The inductive invariant: what a handler holds at each of its calls.     *)
(***************************************************************************)

\* A handler about to create holds a name nobody has used.
CreateInv ==
    \A r \in Requests : pc[r] = "create" =>
        /\ requests[r].app \in AppGUIDs
        /\ requests[r].guid \in PackageGUIDs
        /\ requests[r].space \in Spaces
        /\ \A s \in Spaces : packages[requests[r].guid][s] = Absent
        /\ \A q \in Requests \ {r} :
              pc[q] = "create" => requests[q].guid # requests[r].guid

\* A handler that pushes knows its package; one that patches holds an image
\* that it has pushed into the repository of that package.
Holds(r) ==
    /\ pc[r] = "idle" => requests[r] = NoRequest /\ status[r] = "Pending"
    /\ pc[r] = "fetchApp" => requests[r].app \in AppGUIDs
    /\ pc[r] \in {"fetch", "auth", "push", "patch"} =>
          requests[r].guid \in PackageGUIDs /\ requests[r].bits \in Digests
    /\ pc[r] \in {"auth", "push", "patch"} => requests[r].space \in Spaces
    /\ pc[r] = "patch" =>
          /\ requests[r].image \in registry
          /\ requests[r].image.repo = requests[r].guid

UploadInv == \A r \in Requests : Holds(r)

\* A request with one of these answers names a slot; it holds what was answered.
Settled(g, s) == packages[g][s] = Deleted \/ Stored(g, s)

Answered(r) ==
    /\ status[r] \in {"Created", "OK", "PackageBitsAlreadyUploaded"} =>
          /\ pc[r] = "done"
          /\ requests[r].guid \in PackageGUIDs
          /\ requests[r].space \in Spaces
          /\ packages[requests[r].guid][requests[r].space] # Absent
    /\ status[r] \in {"OK", "PackageBitsAlreadyUploaded"} =>
          Settled(requests[r].guid, requests[r].space)

AnswerInv == \A r \in Requests : Answered(r)

\* The uploads an upload arrived after are over.
AfterInv ==
    \A r \in Requests : \A q \in requests[r].after :
        status[q] = "OK"

IInv ==
    /\ TypeOK /\ CreateInv /\ UploadInv /\ AnswerInv /\ AfterInv
    /\ ReadyIsPushed /\ NoUploadAfterOK
-----------------------------------------------------------------------------
\* What the first package is and where its image is, if it has one.
LEMMA InitSlots ==
  ASSUME Init
  PROVE  /\ packages \in [PackageGUIDs -> [Spaces -> Package \cup {Absent, Deleted}]]
         /\ registry \subseteq Images
         /\ ReadyIsPushed
<1>1. CASE packages = NoPackages /\ registry = {}
  BY <1>1 DEF NoPackages, ReadyIsPushed, Exists
<1>2. ASSUME NEW h \in PackageGUIDs, NEW t \in Spaces, NEW package \in Package,
             package.image # NoImage => package.image.repo = h,
             packages = [NoPackages EXCEPT ![h][t] = package],
             registry = {package.image} \ {NoImage}
      PROVE  /\ packages \in [PackageGUIDs -> [Spaces -> Package \cup {Absent, Deleted}]]
             /\ registry \subseteq Images
             /\ ReadyIsPushed
  <2>1. package.image \in Images \cup {NoImage}
    BY <1>2 DEF Package
  <2>2. packages \in [PackageGUIDs -> [Spaces -> Package \cup {Absent, Deleted}]]
    BY <1>2 DEF NoPackages
  <2>3. \A g \in PackageGUIDs, s \in Spaces :
           Exists(packages[g][s]) => g = h /\ packages[g][s] = package
    BY <1>2 DEF NoPackages, Exists
  <2>4. ReadyIsPushed
    BY <1>2, <2>1, <2>3 DEF ReadyIsPushed, Stored
  <2> QED
    BY <1>2, <2>1, <2>2, <2>4
<1> QED
  BY <1>1, <1>2 DEF Init

LEMMA InitTypeOK == Init => TypeOK
<1> SUFFICES ASSUME Init PROVE TypeOK
  OBVIOUS
<1>1. appSpaces \in [AppGUIDs -> SUBSET Spaces]
  BY DEF Init
<1>2. /\ requests \in [Requests -> Request] /\ pc \in [Requests -> PCs]
      /\ status \in [Requests -> Statuses]
  BY DEF Init, NoRequest, Request, PCs, Statuses
<1> QED
  BY <1>1, <1>2, InitSlots DEF TypeOK

\* The fields of a request that one step sets.
LEMMA FieldsSet ==
  ASSUME NEW request \in Request
  PROVE  /\ \A a \in AppGUIDs : [request EXCEPT !.app = a] \in Request
         /\ \A s \in Spaces : [request EXCEPT !.space = s] \in Request
         /\ \A i \in Images : [request EXCEPT !.image = i] \in Request
         /\ \A s \in Spaces, g \in PackageGUIDs :
               [request EXCEPT !.space = s, !.guid = g] \in Request
         /\ \A g \in PackageGUIDs, d \in Digests, after \in SUBSET Requests :
               [request EXCEPT !.guid = g, !.bits = d, !.after = after] \in Request
<1>1. \A a \in AppGUIDs : [request EXCEPT !.app = a] \in Request
  BY DEF Request
<1>2. \A s \in Spaces : [request EXCEPT !.space = s] \in Request
  BY DEF Request
<1>3. \A i \in Images : [request EXCEPT !.image = i] \in Request
  BY DEF Request
<1>4. \A s \in Spaces, g \in PackageGUIDs : [request EXCEPT !.space = s, !.guid = g] \in Request
  BY DEF Request
<1>5. ASSUME NEW g \in PackageGUIDs, NEW d \in Digests, NEW after \in SUBSET Requests
      PROVE  [request EXCEPT !.guid = g, !.bits = d, !.after = after] \in Request
  BY DEF Request
<1> QED
  BY <1>1, <1>2, <1>3, <1>4, <1>5, Zenon

LEMMA RequestSet ==
  ASSUME requests \in [Requests -> Request], NEW r \in Requests, NEW request \in Request,
         requests' = [requests EXCEPT ![r] = request]
  PROVE  requests' \in [Requests -> Request]
  OBVIOUS

LEMMA NextTypeOK == IInv /\ [Next]_vars => TypeOK'
<1> SUFFICES ASSUME IInv, [Next]_vars PROVE TypeOK'
  OBVIOUS
<1> USE DEF IInv, TypeOK, cluster
<1>1. ASSUME NEW r \in Requests, NEW a \in AppGUIDs, ReceiveCreate(r, a) PROVE TypeOK'
  <2>1. requests' \in [Requests -> Request]
    <3>1. requests' = [requests EXCEPT ![r] = [requests[r] EXCEPT !.app = a]]
      BY <1>1 DEF ReceiveCreate
    <3> QED
      BY <3>1, FieldsSet, RequestSet
  <2>2. pc' \in [Requests -> PCs] /\ status' \in [Requests -> Statuses]
    BY <1>1 DEF ReceiveCreate, PayloadErrors, Call, Reply, PCs, Statuses
  <2> QED
    BY <1>1, <2>1, <2>2 DEF ReceiveCreate
<1>2. ASSUME NEW r \in Requests, NEW g \in PackageGUIDs, NEW d \in Digests,
             ReceiveUpload(r, g, d)
      PROVE  TypeOK'
  <2>1. requests' \in [Requests -> Request]
    <3> DEFINE after == {q \in Requests : status[q] = "OK"}
    <3>1. requests' = [requests EXCEPT ![r] =
                            [requests[r] EXCEPT !.guid = g, !.bits = d, !.after = after]]
      BY <1>2 DEF ReceiveUpload
    <3>2. after \in SUBSET Requests
      OBVIOUS
    <3> HIDE DEF after
    <3> QED
      BY <3>1, <3>2, FieldsSet, RequestSet
  <2>2. pc' \in [Requests -> PCs] /\ status' \in [Requests -> Statuses]
    BY <1>2 DEF ReceiveUpload, Call, Reply, PCs, Statuses
  <2> QED
    BY <1>2, <2>1, <2>2 DEF ReceiveUpload
<1>3. ASSUME NEW r \in Requests, FetchApp(r) PROVE TypeOK'
  <2>1. requests' \in [Requests -> Request]
    <3>1. ASSUME NEW s \in Spaces, NEW g \in PackageGUIDs,
                 requests' = [requests EXCEPT ![r] = [@ EXCEPT !.space = s, !.guid = g]]
          PROVE  requests' \in [Requests -> Request]
      BY <3>1, FieldsSet
    <3> QED
      BY <1>3, <3>1 DEF FetchApp
  <2> QED
    BY <1>3, <2>1 DEF FetchApp, Call, Reply, PCs, Statuses
<1>4. ASSUME NEW r \in Requests, NEW p \in PCs, ReadFails(r, p) PROVE TypeOK'
  BY <1>4 DEF ReadFails, Reply, PCs, Statuses
<1>5. ASSUME NEW r \in Requests, CreatePackage(r) PROVE TypeOK'
  <2>1. packages' \in [PackageGUIDs -> [Spaces -> Package \cup {Absent, Deleted}]]
    BY <1>5 DEF CreatePackage, CreateInv, Package
  <2> QED
    BY <1>5, <2>1 DEF CreatePackage, Landed, Reply, PCs, Statuses
<1>6. ASSUME NEW r \in Requests, FetchPackage(r) PROVE TypeOK'
  <2>1. requests' \in [Requests -> Request]
    <3>1. ASSUME NEW s \in Spaces, requests' = [requests EXCEPT ![r].space = s]
          PROVE  requests' \in [Requests -> Request]
      BY <3>1, FieldsSet
    <3> QED
      BY <1>6, <3>1 DEF FetchPackage
  <2> QED
    BY <1>6, <2>1 DEF FetchPackage, Call, Reply, PCs, Statuses
<1>7. ASSUME NEW r \in Requests, RegistryAuth(r) PROVE TypeOK'
  BY <1>7 DEF RegistryAuth, Call, PCs
<1>8. ASSUME NEW r \in Requests, PushImage(r) PROVE TypeOK'
  <2> DEFINE image == UploadedImageRef(requests[r].guid, requests[r].bits)
  <2>1. image \in Images
    BY <1>8 DEF PushImage, UploadInv, Holds, UploadedImageRef, Images
  <2>2. requests' \in [Requests -> Request]
    <3>1. ASSUME NEW i \in Images, requests' = [requests EXCEPT ![r].image = i]
          PROVE  requests' \in [Requests -> Request]
      BY <3>1, FieldsSet
    <3> QED
      BY <1>8, <2>1, <3>1 DEF PushImage
  <2> QED
    BY <1>8, <2>1, <2>2 DEF PushImage, Call, PCs
<1>9. ASSUME NEW r \in Requests, UpdatePackageSource(r) PROVE TypeOK'
  <2> DEFINE g == requests[r].guid
             s == requests[r].space
  <2>1. [packages[g][s] EXCEPT !.image = requests[r].image] \in Package
    BY <1>9 DEF UpdatePackageSource, UploadInv, Holds, Package, Exists
  <2>2. packages' \in [PackageGUIDs -> [Spaces -> Package \cup {Absent, Deleted}]]
    BY <1>9, <2>1 DEF UpdatePackageSource
  <2> QED
    BY <1>9, <2>2 DEF UpdatePackageSource, Landed, Reply, PCs, Statuses
<1>10. ASSUME NEW r \in Requests, RefuseWrite(r) PROVE TypeOK'
  BY <1>10 DEF RefuseWrite, Landed, Reply, PCs, Statuses
<1>11. ASSUME NEW r \in Requests, LoseAnswer(r) PROVE TypeOK'
  BY <1>11 DEF LoseAnswer, AnswerLost, Statuses
<1>12. CASE Crash
  BY <1>12 DEF Crash, Crashed, PCs, Statuses
<1>13. ASSUME NEW a \in AppGUIDs, NEW s \in Spaces, AppChanges(a, s) PROVE TypeOK'
  BY <1>13 DEF AppChanges
<1>14. ASSUME NEW g \in PackageGUIDs, NEW s \in Spaces, PackageDeleted(g, s) PROVE TypeOK'
  BY <1>14 DEF PackageDeleted
<1>15. ASSUME NEW g \in PackageGUIDs, NEW s \in Spaces, NEW t \in Spaces,
              PackageCopied(g, s, t)
       PROVE  TypeOK'
  BY <1>15 DEF PackageCopied
<1>16. CASE UNCHANGED vars
  BY <1>16 DEF vars
<1> QED
  BY <1>1, <1>2, <1>3, <1>4, <1>5, <1>6, <1>7, <1>8, <1>9, <1>10, <1>11, <1>12,
     <1>13, <1>14, <1>15, <1>16 DEF Next, HandlerStep, Quiescent, PCs

LEMMA NextCreateInv == IInv /\ [Next]_vars => CreateInv'
<1> SUFFICES ASSUME IInv, [Next]_vars PROVE CreateInv'
  OBVIOUS
<1> USE DEF IInv, TypeOK, cluster, CreateInv
<1>1. ASSUME NEW r \in Requests, NEW a \in AppGUIDs, ReceiveCreate(r, a) PROVE CreateInv'
  BY <1>1 DEF ReceiveCreate, Call, Reply
<1>2. ASSUME NEW r \in Requests, NEW g \in PackageGUIDs, NEW d \in Digests,
             ReceiveUpload(r, g, d)
      PROVE  CreateInv'
  BY <1>2 DEF ReceiveUpload, Call, Reply
<1>3. ASSUME NEW r \in Requests, FetchApp(r) PROVE CreateInv'
  <2>1. ASSUME NEW answer \in Statuses, Reply(r, answer), UNCHANGED requests
        PROVE  CreateInv'
    BY <1>3, <2>1 DEF FetchApp, Reply
  <2>2. ASSUME NEW s \in Spaces, NEW g \in PackageGUIDs, Fresh(g), Call(r, "create"),
               requests' = [requests EXCEPT ![r] = [@ EXCEPT !.space = s, !.guid = g]]
        PROVE  CreateInv'
    <3>1. /\ requests'[r].app = requests[r].app
          /\ requests'[r].guid = g /\ requests'[r].space = s
      BY <2>2 DEF Request
    <3>2. requests[r].app \in AppGUIDs
      BY <1>3 DEF FetchApp, At, UploadInv, Holds
    <3>3. \A q \in Requests \ {r} : requests'[q] = requests[q] /\ pc'[q] = pc[q]
      BY <2>2 DEF Call
    <3>4. \A q \in Requests : requests[q].guid # g
      BY <2>2 DEF Fresh
    <3>5. \A t \in Spaces : packages'[g][t] = Absent
      BY <1>3, <2>2 DEF FetchApp, Fresh
    <3>6. UNCHANGED packages
      BY <1>3 DEF FetchApp
    <3> QED
      BY <3>1, <3>2, <3>3, <3>4, <3>5, <3>6
  <2> QED
    BY <1>3, <2>1, <2>2 DEF FetchApp, Statuses
<1>4. ASSUME NEW r \in Requests, NEW p \in PCs, ReadFails(r, p) PROVE CreateInv'
  BY <1>4 DEF ReadFails, Reply, At, Pending
<1>5. ASSUME NEW r \in Requests, CreatePackage(r) PROVE CreateInv'
  BY <1>5 DEF CreatePackage, Landed, Reply
<1>6. ASSUME NEW r \in Requests, FetchPackage(r) PROVE CreateInv'
  BY <1>6 DEF FetchPackage, Call, Reply, At, Pending
<1>7. ASSUME NEW r \in Requests, RegistryAuth(r) PROVE CreateInv'
  BY <1>7 DEF RegistryAuth, Call, At, Pending
<1>8. ASSUME NEW r \in Requests, PushImage(r) PROVE CreateInv'
  BY <1>8 DEF PushImage, Call, UploadedImageRef
<1>9. ASSUME NEW r \in Requests, UpdatePackageSource(r) PROVE CreateInv'
  BY <1>9 DEF UpdatePackageSource, Landed, Reply, Exists
<1>10. ASSUME NEW r \in Requests, RefuseWrite(r) PROVE CreateInv'
  BY <1>10 DEF RefuseWrite, Landed, Reply
<1>11. ASSUME NEW r \in Requests, LoseAnswer(r) PROVE CreateInv'
  BY <1>11 DEF LoseAnswer, AnswerLost, Pending
<1>12. CASE Crash
  BY <1>12 DEF Crash, Crashed
<1>13. ASSUME NEW a \in AppGUIDs, NEW s \in Spaces, AppChanges(a, s) PROVE CreateInv'
  BY <1>13 DEF AppChanges
<1>14. ASSUME NEW g \in PackageGUIDs, NEW s \in Spaces, PackageDeleted(g, s) PROVE CreateInv'
  BY <1>14 DEF PackageDeleted, Exists
<1>15. ASSUME NEW g \in PackageGUIDs, NEW s \in Spaces, NEW t \in Spaces,
              PackageCopied(g, s, t)
      PROVE  CreateInv'
  BY <1>15 DEF PackageCopied, Exists
<1>16. CASE UNCHANGED vars
  BY <1>16 DEF vars
<1> QED
  BY <1>1, <1>2, <1>3, <1>4, <1>5, <1>6, <1>7, <1>8, <1>9, <1>10, <1>11, <1>12,
     <1>13, <1>14, <1>15, <1>16 DEF Next, HandlerStep, Quiescent, PCs

LEMMA NextUploadInv == IInv /\ [Next]_vars => UploadInv'
<1> SUFFICES ASSUME IInv, [Next]_vars PROVE UploadInv'
  OBVIOUS
<1> USE DEF IInv, TypeOK, cluster, UploadInv, Holds
<1>0. ASSUME NEW r \in Requests,
             \A q \in Requests \ {r} : /\ pc'[q] = pc[q] /\ status'[q] = status[q]
                                       /\ requests'[q] = requests[q],
             registry \subseteq registry', Holds(r)'
      PROVE  UploadInv'
  BY <1>0
<1>1. ASSUME NEW r \in Requests, NEW a \in AppGUIDs, ReceiveCreate(r, a) PROVE UploadInv'
  <2>1. Holds(r)'
    BY <1>1 DEF ReceiveCreate, Call, Reply, Request
  <2> QED
    BY <1>1, <1>0, <2>1 DEF ReceiveCreate, Call, Reply
<1>2. ASSUME NEW r \in Requests, NEW g \in PackageGUIDs, NEW d \in Digests,
             ReceiveUpload(r, g, d)
      PROVE  UploadInv'
  <2>1. Holds(r)'
    BY <1>2 DEF ReceiveUpload, Call, Reply, Request
  <2> QED
    BY <1>2, <1>0, <2>1 DEF ReceiveUpload, Call, Reply
<1>3. ASSUME NEW r \in Requests, FetchApp(r) PROVE UploadInv'
  <2>1. Holds(r)'
    BY <1>3 DEF FetchApp, Call, Reply
  <2> QED
    BY <1>3, <1>0, <2>1 DEF FetchApp, Call, Reply
<1>4. ASSUME NEW r \in Requests, NEW p \in PCs, ReadFails(r, p) PROVE UploadInv'
  BY <1>4 DEF ReadFails, Reply, At, Pending
<1>5. ASSUME NEW r \in Requests, CreatePackage(r) PROVE UploadInv'
  BY <1>5 DEF CreatePackage, Landed, Reply
<1>6. ASSUME NEW r \in Requests, FetchPackage(r) PROVE UploadInv'
  <2>1. ASSUME NEW answer \in Statuses, Reply(r, answer), UNCHANGED requests
        PROVE  UploadInv'
    BY <1>6, <2>1 DEF FetchPackage, Reply
  <2>2. ASSUME NEW s \in Spaces, requests' = [requests EXCEPT ![r].space = s]
        PROVE  UploadInv'
    <3>1. /\ requests'[r].guid = requests[r].guid
          /\ requests'[r].bits = requests[r].bits
          /\ requests'[r].space = s
      BY <2>2 DEF Request
    <3>2. pc'[r] \in {"auth", "done"}
      BY <1>6 DEF FetchPackage, Call, Reply
    <3>3. Holds(r)'
      BY <1>6, <3>1, <3>2 DEF FetchPackage, At
    <3>4. \A q \in Requests \ {r} :
             requests'[q] = requests[q] /\ pc'[q] = pc[q] /\ status'[q] = status[q]
      BY <1>6, <2>2 DEF FetchPackage, Call, Reply
    <3> QED
      BY <1>6, <1>0, <3>3, <3>4 DEF FetchPackage
  <2> QED
    BY <1>6, <2>1, <2>2 DEF FetchPackage, Statuses
<1>7. ASSUME NEW r \in Requests, RegistryAuth(r) PROVE UploadInv'
  BY <1>7 DEF RegistryAuth, Call, At, Pending
<1>8. ASSUME NEW r \in Requests, PushImage(r) PROVE UploadInv'
  <2> DEFINE image == UploadedImageRef(requests[r].guid, requests[r].bits)
  <2>1. CASE Pending(r)
    <3>1. requests'[r] = [requests[r] EXCEPT !.image = image] /\ pc'[r] = "patch"
      BY <1>8, <2>1 DEF PushImage, Call
    <3>2. /\ requests'[r].guid = requests[r].guid
          /\ requests'[r].bits = requests[r].bits
          /\ requests'[r].space = requests[r].space
          /\ requests'[r].image = image
      BY <3>1 DEF Request
    <3>3. image \in registry' /\ image.repo = requests[r].guid
      BY <1>8 DEF PushImage, UploadedImageRef
    <3>4. Holds(r)'
      BY <1>8, <3>1, <3>2, <3>3 DEF PushImage
    <3> QED
      BY <1>8, <1>0, <2>1, <3>4 DEF PushImage, Call
  <2>2. CASE ~Pending(r)
    BY <1>8, <2>2 DEF PushImage, Call
  <2> QED
    BY <2>1, <2>2
<1>9. ASSUME NEW r \in Requests, UpdatePackageSource(r) PROVE UploadInv'
  BY <1>9 DEF UpdatePackageSource, Landed, Reply
<1>10. ASSUME NEW r \in Requests, RefuseWrite(r) PROVE UploadInv'
  BY <1>10 DEF RefuseWrite, Landed, Reply
<1>11. ASSUME NEW r \in Requests, LoseAnswer(r) PROVE UploadInv'
  BY <1>11 DEF LoseAnswer, AnswerLost, Writes
<1>12. CASE Crash
  BY <1>12 DEF Crash, Crashed, InFlight, Arrived, Writes
<1>13. ASSUME NEW a \in AppGUIDs, NEW s \in Spaces, AppChanges(a, s) PROVE UploadInv'
  BY <1>13 DEF AppChanges
<1>14. ASSUME NEW g \in PackageGUIDs, NEW s \in Spaces, PackageDeleted(g, s) PROVE UploadInv'
  BY <1>14 DEF PackageDeleted
<1>15. ASSUME NEW g \in PackageGUIDs, NEW s \in Spaces, NEW t \in Spaces,
              PackageCopied(g, s, t)
      PROVE  UploadInv'
  BY <1>15 DEF PackageCopied
<1>16. CASE UNCHANGED vars
  BY <1>16 DEF vars
<1> QED
  BY <1>1, <1>2, <1>3, <1>4, <1>5, <1>6, <1>7, <1>8, <1>9, <1>10, <1>11, <1>12,
     <1>13, <1>14, <1>15, <1>16 DEF Next, HandlerStep, Quiescent, PCs

LEMMA NextAfterInv == IInv /\ [Next]_vars => AfterInv'
<1> SUFFICES ASSUME IInv, [Next]_vars PROVE AfterInv'
  OBVIOUS
<1> USE DEF IInv, TypeOK, cluster, AfterInv
<1>1. ASSUME NEW r \in Requests, NEW a \in AppGUIDs, ReceiveCreate(r, a) PROVE AfterInv'
  <2>1. \A q \in Requests : requests'[q].after = requests[q].after
    BY <1>1 DEF ReceiveCreate, Request
  <2> QED
    BY <1>1, <2>1 DEF ReceiveCreate, Call, Reply, Request, UploadInv, Holds
<1>2. ASSUME NEW r \in Requests, NEW g \in PackageGUIDs, NEW d \in Digests,
             ReceiveUpload(r, g, d)
      PROVE  AfterInv'
  <2>1. \A q \in Requests : \A p \in requests'[q].after : status[p] = "OK"
    BY <1>2 DEF ReceiveUpload, Request
  <2>2. \A q \in Requests : requests'[q].after \subseteq Requests
    BY NextTypeOK DEF Request
  <2>3. status[r] = "Pending"
    BY <1>2 DEF ReceiveUpload, UploadInv, Holds
  <2> QED
    BY <1>2, <2>1, <2>2, <2>3 DEF ReceiveUpload, Call, Reply
<1>3. ASSUME NEW r \in Requests, FetchApp(r) PROVE AfterInv'
  <2>1. ASSUME NEW s \in Spaces, NEW g \in PackageGUIDs,
               requests' = [requests EXCEPT ![r] = [@ EXCEPT !.space = s, !.guid = g]]
        PROVE  \A q \in Requests : requests'[q].after = requests[q].after
    BY <2>1 DEF Request
  <2>2. \A q \in Requests : requests'[q].after = requests[q].after
    BY <1>3, <2>1 DEF FetchApp
  <2>3. \A q \in Requests : requests[q].after \subseteq Requests
    BY DEF Request
  <2>4. \A q \in Requests : status[q] = "OK" => status'[q] = "OK"
    BY <1>3 DEF FetchApp, Call, Reply, At, Pending
  <2> QED
    BY <2>2, <2>3, <2>4
<1>4. ASSUME NEW r \in Requests, NEW p \in PCs, ReadFails(r, p) PROVE AfterInv'
  BY <1>4 DEF ReadFails, Reply, At, Pending
<1>5. ASSUME NEW r \in Requests, CreatePackage(r) PROVE AfterInv'
  BY <1>5 DEF CreatePackage, Landed, Reply, Pending, Request
<1>6. ASSUME NEW r \in Requests, FetchPackage(r) PROVE AfterInv'
  BY <1>6 DEF FetchPackage, Call, Reply, At, Pending, Request
<1>7. ASSUME NEW r \in Requests, RegistryAuth(r) PROVE AfterInv'
  BY <1>7 DEF RegistryAuth, Call, At, Pending
<1>8. ASSUME NEW r \in Requests, PushImage(r) PROVE AfterInv'
  <2>1. \A q \in Requests : requests'[q].after = requests[q].after
    BY <1>8 DEF PushImage, Request
  <2> QED
    BY <1>8, <2>1 DEF PushImage, Call
<1>9. ASSUME NEW r \in Requests, UpdatePackageSource(r) PROVE AfterInv'
  BY <1>9 DEF UpdatePackageSource, Landed, Reply, Pending, Request
<1>10. ASSUME NEW r \in Requests, RefuseWrite(r) PROVE AfterInv'
  BY <1>10 DEF RefuseWrite, Landed, Reply, Pending, Request
<1>11. ASSUME NEW r \in Requests, LoseAnswer(r) PROVE AfterInv'
  BY <1>11 DEF LoseAnswer, AnswerLost, Pending
<1>12. CASE Crash
  BY <1>12 DEF Crash, Crashed, InFlight, Pending, Request
<1>13. ASSUME NEW a \in AppGUIDs, NEW s \in Spaces, AppChanges(a, s) PROVE AfterInv'
  BY <1>13 DEF AppChanges
<1>14. ASSUME NEW g \in PackageGUIDs, NEW s \in Spaces, PackageDeleted(g, s) PROVE AfterInv'
  BY <1>14 DEF PackageDeleted
<1>15. ASSUME NEW g \in PackageGUIDs, NEW s \in Spaces, NEW t \in Spaces,
              PackageCopied(g, s, t)
      PROVE  AfterInv'
  BY <1>15 DEF PackageCopied
<1>16. CASE UNCHANGED vars
  BY <1>16 DEF vars
<1> QED
  BY <1>1, <1>2, <1>3, <1>4, <1>5, <1>6, <1>7, <1>8, <1>9, <1>10, <1>11, <1>12,
     <1>13, <1>14, <1>15, <1>16 DEF Next, HandlerStep, Quiescent, PCs

\* UpdatePackageSource stores the image of one slot and leaves the others alone.
Patched(r, h, t) ==
    /\ h = requests[r].guid /\ t = requests[r].space
    /\ Stored(h, t)'
    /\ \A g \in PackageGUIDs, s \in Spaces :
          <<g, s>> # <<h, t>> => packages'[g][s] = packages[g][s]
    /\ UNCHANGED registry

LEMMA PatchStores ==
  ASSUME IInv, NEW r \in Requests, UpdatePackageSource(r)
  PROVE  \E h \in PackageGUIDs, t \in Spaces : Patched(r, h, t)
<1> USE DEF IInv, TypeOK, UpdatePackageSource
<1>1. PICK h \in PackageGUIDs, t \in Spaces : h = requests[r].guid /\ t = requests[r].space
  BY DEF UploadInv, Holds
<1>2. packages[h][t] \in Package
  BY <1>1 DEF Exists
<1>3. packages'[h][t] = [packages[h][t] EXCEPT !.image = requests[r].image]
  BY <1>1
<1>4. requests[r].image \in registry /\ requests[r].image.repo = h
  BY <1>1 DEF UploadInv, Holds
<1>5. packages'[h][t] \in Package /\ packages'[h][t].image = requests[r].image
  BY <1>2, <1>3, <1>4 DEF Package
<1>6. Stored(h, t)'
  <2>1. packages'[h][t] # Absent /\ packages'[h][t] # Deleted
    BY <1>5, PackagesAssumption
  <2>2. UNCHANGED registry
    OBVIOUS
  <2> HIDE DEF IInv, TypeOK, UpdatePackageSource
  <2> QED
    BY <1>4, <1>5, <2>1, <2>2 DEF Stored, Exists
<1>7. \A g \in PackageGUIDs, s \in Spaces :
         <<g, s>> # <<h, t>> => packages'[g][s] = packages[g][s]
  BY <1>1
<1> QED
  BY <1>1, <1>6, <1>7 DEF Patched

LEMMA NextReadyIsPushed == IInv /\ [Next]_vars => ReadyIsPushed'
<1> SUFFICES ASSUME IInv, [Next]_vars PROVE ReadyIsPushed'
  OBVIOUS
<1> USE DEF IInv, TypeOK, cluster, ReadyIsPushed, Stored, Exists
<1>1. ASSUME NEW r \in Requests, NEW a \in AppGUIDs, ReceiveCreate(r, a) PROVE ReadyIsPushed'
  BY <1>1 DEF ReceiveCreate, Call, Reply
<1>2. ASSUME NEW r \in Requests, NEW g \in PackageGUIDs, NEW d \in Digests,
             ReceiveUpload(r, g, d)
      PROVE  ReadyIsPushed'
  BY <1>2 DEF ReceiveUpload, Call, Reply
<1>3. ASSUME NEW r \in Requests, FetchApp(r) PROVE ReadyIsPushed'
  BY <1>3 DEF FetchApp, Fresh, Call, Reply
<1>4. ASSUME NEW r \in Requests, NEW p \in PCs, ReadFails(r, p) PROVE ReadyIsPushed'
  BY <1>4 DEF ReadFails, Reply, At, Pending
<1>5. ASSUME NEW r \in Requests, CreatePackage(r) PROVE ReadyIsPushed'
  BY <1>5 DEF CreatePackage, Landed, Reply, Package, NoRequest
<1>6. ASSUME NEW r \in Requests, FetchPackage(r) PROVE ReadyIsPushed'
  BY <1>6 DEF FetchPackage, Call, Reply, At, Pending
<1>7. ASSUME NEW r \in Requests, RegistryAuth(r) PROVE ReadyIsPushed'
  BY <1>7 DEF RegistryAuth, Call, At, Pending
<1>8. ASSUME NEW r \in Requests, PushImage(r) PROVE ReadyIsPushed'
  BY <1>8 DEF PushImage, Call, UploadedImageRef
<1>9. ASSUME NEW r \in Requests, UpdatePackageSource(r) PROVE ReadyIsPushed'
  <2>1. PICK h \in PackageGUIDs, t \in Spaces : Patched(r, h, t)
    BY <1>9, PatchStores
  <2> QED
    BY <2>1 DEF Patched
<1>10. ASSUME NEW r \in Requests, RefuseWrite(r) PROVE ReadyIsPushed'
  BY <1>10 DEF RefuseWrite, Landed, Reply
<1>11. ASSUME NEW r \in Requests, LoseAnswer(r) PROVE ReadyIsPushed'
  BY <1>11 DEF LoseAnswer, AnswerLost, Pending
<1>12. CASE Crash
  BY <1>12 DEF Crash, Crashed
<1>13. ASSUME NEW a \in AppGUIDs, NEW s \in Spaces, AppChanges(a, s) PROVE ReadyIsPushed'
  BY <1>13 DEF AppChanges
<1>14. ASSUME NEW g \in PackageGUIDs, NEW s \in Spaces, PackageDeleted(g, s) PROVE ReadyIsPushed'
  BY <1>14 DEF PackageDeleted
<1>15. ASSUME NEW g \in PackageGUIDs, NEW s \in Spaces, NEW t \in Spaces,
              PackageCopied(g, s, t)
      PROVE  ReadyIsPushed'
  BY <1>15 DEF PackageCopied
<1>16. CASE UNCHANGED vars
  BY <1>16 DEF vars
<1> QED
  BY <1>1, <1>2, <1>3, <1>4, <1>5, <1>6, <1>7, <1>8, <1>9, <1>10, <1>11, <1>12,
     <1>13, <1>14, <1>15, <1>16 DEF Next, HandlerStep, Quiescent, PCs

\* No step takes back what a slot was found to hold.
SlotKept(g, s) ==
    /\ packages[g][s] # Absent => packages'[g][s] # Absent
    /\ Settled(g, s) => Settled(g, s)'

SlotsKept == \A g \in PackageGUIDs, s \in Spaces : SlotKept(g, s)

LEMMA NextSlotsKept == IInv /\ [Next]_vars => SlotsKept
<1> SUFFICES ASSUME IInv, [Next]_vars PROVE SlotsKept
  OBVIOUS
<1> USE DEF IInv, TypeOK, cluster, SlotsKept, SlotKept, Settled, Stored, Exists
<1>1. ASSUME NEW r \in Requests, NEW a \in AppGUIDs, ReceiveCreate(r, a) PROVE SlotsKept
  BY <1>1 DEF ReceiveCreate, Call, Reply
<1>2. ASSUME NEW r \in Requests, NEW g \in PackageGUIDs, NEW d \in Digests,
             ReceiveUpload(r, g, d)
      PROVE  SlotsKept
  BY <1>2 DEF ReceiveUpload, Call, Reply
<1>3. ASSUME NEW r \in Requests, FetchApp(r) PROVE SlotsKept
  BY <1>3 DEF FetchApp, Fresh, Call, Reply
<1>4. ASSUME NEW r \in Requests, NEW p \in PCs, ReadFails(r, p) PROVE SlotsKept
  BY <1>4 DEF ReadFails, Reply, At, Pending
<1>5. ASSUME NEW r \in Requests, CreatePackage(r) PROVE SlotsKept
  <2>1. \A g \in PackageGUIDs, s \in Spaces :
           packages[g][s] # Absent => packages'[g][s] = packages[g][s]
    BY <1>5 DEF CreatePackage, CreateInv
  <2>2. UNCHANGED registry
    BY <1>5 DEF CreatePackage
  <2> QED
    BY <2>1, <2>2, SlotAssumption
<1>6. ASSUME NEW r \in Requests, FetchPackage(r) PROVE SlotsKept
  BY <1>6 DEF FetchPackage, Call, Reply, At, Pending
<1>7. ASSUME NEW r \in Requests, RegistryAuth(r) PROVE SlotsKept
  BY <1>7 DEF RegistryAuth, Call, At, Pending
<1>8. ASSUME NEW r \in Requests, PushImage(r) PROVE SlotsKept
  BY <1>8 DEF PushImage, Call, UploadedImageRef
<1>9. ASSUME NEW r \in Requests, UpdatePackageSource(r) PROVE SlotsKept
  <2>1. PICK h \in PackageGUIDs, t \in Spaces : Patched(r, h, t)
    BY <1>9, PatchStores
  <2> QED
    BY <2>1 DEF Patched
<1>10. ASSUME NEW r \in Requests, RefuseWrite(r) PROVE SlotsKept
  BY <1>10 DEF RefuseWrite, Landed, Reply
<1>11. ASSUME NEW r \in Requests, LoseAnswer(r) PROVE SlotsKept
  BY <1>11 DEF LoseAnswer, AnswerLost, Pending
<1>12. CASE Crash
  BY <1>12 DEF Crash, Crashed
<1>13. ASSUME NEW a \in AppGUIDs, NEW s \in Spaces, AppChanges(a, s) PROVE SlotsKept
  BY <1>13 DEF AppChanges
<1>14. ASSUME NEW g \in PackageGUIDs, NEW s \in Spaces, PackageDeleted(g, s) PROVE SlotsKept
  <2>1. \A h \in PackageGUIDs, t \in Spaces :
           packages'[h][t] = packages[h][t] \/ packages'[h][t] = Deleted
    BY <1>14 DEF PackageDeleted
  <2>2. UNCHANGED registry
    BY <1>14 DEF PackageDeleted
  <2> QED
    BY <2>1, <2>2, SlotAssumption
<1>15. ASSUME NEW g \in PackageGUIDs, NEW s \in Spaces, NEW t \in Spaces,
              PackageCopied(g, s, t)
      PROVE  SlotsKept
  <2>1. \A h \in PackageGUIDs, x \in Spaces :
           packages[h][x] # Absent => packages'[h][x] = packages[h][x]
    BY <1>15 DEF PackageCopied
  <2>2. UNCHANGED registry
    BY <1>15 DEF PackageCopied
  <2> QED
    BY <2>1, <2>2, SlotAssumption
<1>16. CASE UNCHANGED vars
  BY <1>16 DEF vars
<1> QED
  BY <1>1, <1>2, <1>3, <1>4, <1>5, <1>6, <1>7, <1>8, <1>9, <1>10, <1>11, <1>12,
     <1>13, <1>14, <1>15, <1>16 DEF Next, HandlerStep, Quiescent, PCs

LEMMA NextAnswerInv == IInv /\ [Next]_vars => AnswerInv'
<1> SUFFICES ASSUME IInv, [Next]_vars PROVE AnswerInv'
  OBVIOUS
<1> DEFINE Kept(q) == /\ pc'[q] = pc[q] /\ status'[q] = status[q]
                      /\ requests'[q] = requests[q]
           Refused(q) == status'[q] \notin {"Created", "OK", "PackageBitsAlreadyUploaded"}
<1>a. ASSUME NEW q \in Requests, Kept(q) PROVE Answered(q)'
  <2>1. SlotsKept
    BY NextSlotsKept
  <2> QED
    BY <1>a, <2>1 DEF IInv, AnswerInv, Answered, SlotsKept, SlotKept
<1>b. ASSUME NEW q \in Requests, Refused(q) PROVE Answered(q)'
  BY <1>b DEF Answered
<1>c. ASSUME NEW r \in Requests, Answered(r)', \A q \in Requests \ {r} : Kept(q)
      PROVE  AnswerInv'
  BY <1>a, <1>c DEF AnswerInv
<1>d. ASSUME NEW r \in Requests, Refused(r), \A q \in Requests \ {r} : Kept(q)
      PROVE  AnswerInv'
  BY <1>b, <1>c, <1>d
<1>e. ASSUME \A q \in Requests : Kept(q) \/ Refused(q) PROVE AnswerInv'
  BY <1>a, <1>b, <1>e DEF AnswerInv
<1>f. ASSUME NEW r \in Requests, pc[r] \in Writes
      PROVE  status[r] \notin {"Created", "OK", "PackageBitsAlreadyUploaded"}
  BY <1>f DEF IInv, AnswerInv, Answered, Writes
<1> HIDE DEF Kept, Refused
<1> USE DEF IInv, TypeOK, cluster
<1>1. ASSUME NEW r \in Requests, NEW a \in AppGUIDs, ReceiveCreate(r, a) PROVE AnswerInv'
  <2>1. status[r] = "Pending"
    BY <1>1 DEF ReceiveCreate, UploadInv, Holds
  <2> QED
    BY <1>1, <1>d, <2>1 DEF Kept, Refused, ReceiveCreate, PayloadErrors, Call, Reply
<1>2. ASSUME NEW r \in Requests, NEW g \in PackageGUIDs, NEW d \in Digests,
             ReceiveUpload(r, g, d)
      PROVE  AnswerInv'
  <2>1. status[r] = "Pending"
    BY <1>2 DEF ReceiveUpload, UploadInv, Holds
  <2> QED
    BY <1>2, <1>d, <2>1 DEF Kept, Refused, ReceiveUpload, Call, Reply
<1>3. ASSUME NEW r \in Requests, FetchApp(r) PROVE AnswerInv'
  BY <1>3, <1>d DEF Kept, Refused, FetchApp, Call, Reply, At, Pending
<1>4. ASSUME NEW r \in Requests, NEW p \in PCs, ReadFails(r, p) PROVE AnswerInv'
  BY <1>4, <1>d DEF Kept, Refused, ReadFails, Reply
<1>5. ASSUME NEW r \in Requests, CreatePackage(r) PROVE AnswerInv'
  <2> DEFINE h == requests[r].guid
             t == requests[r].space
  <2>1. h \in PackageGUIDs /\ t \in Spaces /\ requests[r].app \in AppGUIDs
    BY <1>5 DEF CreatePackage, CreateInv
  <2>2. packages'[h][t] \in Package
    BY <1>5, <2>1 DEF CreatePackage, Package
  <2>3. Answered(r)'
    BY <1>5, <1>f, <2>1, <2>2, PackagesAssumption
       DEF Answered, CreatePackage, Landed, Reply, Writes
  <2> QED
    BY <1>5, <1>c, <2>3 DEF Kept, CreatePackage, Landed, Reply
<1>6. ASSUME NEW r \in Requests, FetchPackage(r) PROVE AnswerInv'
  <2>1. PICK h \in PackageGUIDs : h = requests[r].guid
    BY <1>6 DEF FetchPackage, At, UploadInv, Holds
  <2>2. ASSUME NEW s \in Spaces, FoundIn(packages, h, s), ~AwaitingUpload(packages[h][s]),
               Reply(r, "PackageBitsAlreadyUploaded"),
               requests' = [requests EXCEPT ![r].space = s]
        PROVE  Answered(r)'
    <3>1. requests'[r].guid = h /\ requests'[r].space = s
      BY <2>1, <2>2 DEF Request
    <3>2. Stored(h, s)
      BY <2>2 DEF FoundIn, Where, AwaitingUpload, ReadyIsPushed
    <3>3. Stored(h, s)'
      BY <1>6, <3>2 DEF FetchPackage, Stored
    <3> QED
      BY <2>2, <3>1, <3>3 DEF Answered, Settled, Exists, Reply, Stored
  <2>3. Refused(r) \/ Answered(r)'
    BY <1>6, <2>1, <2>2 DEF Refused, FetchPackage, Call, Reply, At, Pending
  <2>4. \A q \in Requests \ {r} : Kept(q)
    BY <1>6 DEF Kept, FetchPackage, Call, Reply
  <2> QED
    BY <2>3, <2>4, <1>c, <1>d
<1>7. ASSUME NEW r \in Requests, RegistryAuth(r) PROVE AnswerInv'
  BY <1>7, <1>d DEF Kept, Refused, RegistryAuth, Call, At, Pending
<1>8. ASSUME NEW r \in Requests, PushImage(r) PROVE AnswerInv'
  <2>1. Refused(r)
    BY <1>8, <1>f DEF Refused, PushImage, Call, Writes
  <2> QED
    BY <1>8, <1>d, <2>1 DEF Kept, PushImage, Call
<1>9. ASSUME NEW r \in Requests, UpdatePackageSource(r) PROVE AnswerInv'
  <2>1. PICK h \in PackageGUIDs, t \in Spaces : Patched(r, h, t)
    BY <1>9, PatchStores
  <2>2. requests'[r].guid = h /\ requests'[r].space = t
    BY <1>9, <2>1 DEF UpdatePackageSource, Patched
  <2>3. pc'[r] = "done"
    BY <1>9 DEF UpdatePackageSource, Landed, Reply
  <2>4. Answered(r)'
    BY <2>1, <2>2, <2>3 DEF Patched, Answered, Settled, Stored, Exists
  <2> QED
    BY <1>9, <1>c, <2>4 DEF Kept, UpdatePackageSource, Landed, Reply
<1>10. ASSUME NEW r \in Requests, RefuseWrite(r) PROVE AnswerInv'
  <2>1. Refused(r)
    BY <1>10, <1>f DEF Refused, RefuseWrite, Landed, Reply
  <2> QED
    BY <1>10, <1>d, <2>1 DEF Kept, RefuseWrite, Landed, Reply
<1>11. ASSUME NEW r \in Requests, LoseAnswer(r) PROVE AnswerInv'
  BY <1>11, <1>d DEF Kept, Refused, LoseAnswer, AnswerLost
<1>12. CASE Crash
  BY <1>12, <1>e DEF Kept, Refused, Crash, Crashed
<1>13. ASSUME NEW a \in AppGUIDs, NEW s \in Spaces, AppChanges(a, s) PROVE AnswerInv'
  BY <1>13, <1>e DEF Kept, AppChanges
<1>14. ASSUME NEW g \in PackageGUIDs, NEW s \in Spaces, PackageDeleted(g, s) PROVE AnswerInv'
  BY <1>14, <1>e DEF Kept, PackageDeleted
<1>15. ASSUME NEW g \in PackageGUIDs, NEW s \in Spaces, NEW t \in Spaces,
              PackageCopied(g, s, t)
       PROVE  AnswerInv'
  BY <1>15, <1>e DEF Kept, PackageCopied
<1>16. CASE UNCHANGED vars
  BY <1>16, <1>e DEF Kept, vars
<1> QED
  BY <1>1, <1>2, <1>3, <1>4, <1>5, <1>6, <1>7, <1>8, <1>9, <1>10, <1>11, <1>12,
     <1>13, <1>14, <1>15, <1>16 DEF Next, HandlerStep, Quiescent, PCs

LEMMA NextNoUploadAfterOK == IInv /\ [Next]_vars => NoUploadAfterOK'
<1> SUFFICES ASSUME IInv, [Next]_vars PROVE NoUploadAfterOK'
  OBVIOUS
<1> USE DEF IInv, TypeOK, cluster, NoUploadAfterOK
<1>1. ASSUME NEW r \in Requests, NEW a \in AppGUIDs, ReceiveCreate(r, a) PROVE NoUploadAfterOK'
  BY <1>1 DEF ReceiveCreate, PayloadErrors, Call, Reply
<1>2. ASSUME NEW r \in Requests, NEW g \in PackageGUIDs, NEW d \in Digests,
             ReceiveUpload(r, g, d)
      PROVE  NoUploadAfterOK'
  <2>1. /\ status[r] = "Pending"
        /\ \A q \in Requests \ {r} : requests'[q] = requests[q]
        /\ pc'[r] \in {"fetch", "done"} /\ status'[r] # "OK"
    BY <1>2 DEF ReceiveUpload, UploadInv, Holds, Call, Reply
  <2>2. r \notin requests'[r].after /\ \A q \in Requests : r \notin requests[q].after
    BY <1>2, <2>1 DEF ReceiveUpload, AfterInv, Request
  <2> QED
    BY <1>2, <2>1, <2>2 DEF ReceiveUpload, Call, Reply
<1>3. ASSUME NEW r \in Requests, FetchApp(r) PROVE NoUploadAfterOK'
  <2>1. /\ \A q \in Requests \ {r} : /\ requests'[q] = requests[q]
                                     /\ pc'[q] = pc[q] /\ status'[q] = status[q]
        /\ pc'[r] \in {"create", "done"} /\ status'[r] # "OK"
    BY <1>3 DEF FetchApp, Call, Reply, At, Pending
  <2>2. \A q \in Requests : r \notin requests[q].after
    BY <1>3 DEF FetchApp, At, Pending, AfterInv, Request
  <2> QED
    BY <2>1, <2>2
<1>4. ASSUME NEW r \in Requests, NEW p \in PCs, ReadFails(r, p) PROVE NoUploadAfterOK'
  BY <1>4 DEF ReadFails, Reply, At, Pending
<1>5. ASSUME NEW r \in Requests, CreatePackage(r) PROVE NoUploadAfterOK'
  BY <1>5 DEF CreatePackage, Landed, Reply
<1>6. ASSUME NEW r \in Requests, FetchPackage(r) PROVE NoUploadAfterOK'
  <2>1. /\ \A q \in Requests \ {r} : /\ requests'[q] = requests[q]
                                     /\ pc'[q] = pc[q] /\ status'[q] = status[q]
        /\ status'[r] # "OK"
    BY <1>6 DEF FetchPackage, Call, Reply, At, Pending
  <2>2. \A q \in Requests : r \notin requests[q].after
    BY <1>6 DEF FetchPackage, At, Pending, AfterInv, Request
  <2>3. ASSUME NEW q \in requests'[r].after, requests'[q].guid = requests'[r].guid,
               requests'[q].space = requests'[r].space
        PROVE  pc'[r] \notin {"auth", "push", "patch"}
    <3> DEFINE h == requests[r].guid
    <3>1. CASE pc'[r] = "done"
      BY <3>1
    <3>2. ASSUME NEW s \in Spaces, FoundIn(packages, h, s), AwaitingUpload(packages[h][s]),
                 requests' = [requests EXCEPT ![r].space = s]
          PROVE  FALSE
      <4>1. /\ requests'[r].guid = h /\ requests'[r].space = s
            /\ requests'[r].after = requests[r].after
        BY <3>2 DEF Request
      <4>2. q \in Requests /\ q # r /\ status[q] = "OK"
        BY <4>1, <2>2 DEF AfterInv, Request
      <4>3. Settled(h, s)
        BY <2>1, <2>3, <4>1, <4>2 DEF AnswerInv, Answered
      <4> QED
        BY <3>2, <4>3, PackagesAssumption
           DEF Settled, Stored, FoundIn, Where, Exists, AwaitingUpload
    <3> QED
      BY <1>6, <3>1, <3>2 DEF FetchPackage, Call, Reply
  <2>4. requests'[r].after = requests[r].after
    BY <1>6 DEF FetchPackage, Request
  <2> QED
    BY <2>1, <2>2, <2>3
<1>7. ASSUME NEW r \in Requests, RegistryAuth(r) PROVE NoUploadAfterOK'
  BY <1>7 DEF RegistryAuth, Call, At, Pending
<1>8. ASSUME NEW r \in Requests, PushImage(r) PROVE NoUploadAfterOK'
  <2>1. \A q \in Requests : /\ requests'[q].guid = requests[q].guid
                              /\ requests'[q].space = requests[q].space
                              /\ requests'[q].after = requests[q].after
    <3>1. ASSUME NEW i, requests' = [requests EXCEPT ![r].image = i]
          PROVE  \A q \in Requests : /\ requests'[q].guid = requests[q].guid
                                    /\ requests'[q].space = requests[q].space
                                    /\ requests'[q].after = requests[q].after
      BY <3>1 DEF Request
    <3> QED
      BY <1>8, <3>1 DEF PushImage
  <2> QED
    BY <1>8, <2>1 DEF PushImage, Call
<1>9. ASSUME NEW r \in Requests, UpdatePackageSource(r) PROVE NoUploadAfterOK'
  BY <1>9 DEF UpdatePackageSource, Landed, Reply
<1>10. ASSUME NEW r \in Requests, RefuseWrite(r) PROVE NoUploadAfterOK'
  BY <1>10 DEF RefuseWrite, Landed, Reply
<1>11. ASSUME NEW r \in Requests, LoseAnswer(r) PROVE NoUploadAfterOK'
  BY <1>11 DEF LoseAnswer, AnswerLost, Pending
<1>12. CASE Crash
  BY <1>12 DEF Crash, Crashed
<1>13. ASSUME NEW a \in AppGUIDs, NEW s \in Spaces, AppChanges(a, s) PROVE NoUploadAfterOK'
  BY <1>13 DEF AppChanges
<1>14. ASSUME NEW g \in PackageGUIDs, NEW s \in Spaces, PackageDeleted(g, s) PROVE NoUploadAfterOK'
  BY <1>14 DEF PackageDeleted
<1>15. ASSUME NEW g \in PackageGUIDs, NEW s \in Spaces, NEW t \in Spaces,
              PackageCopied(g, s, t)
      PROVE  NoUploadAfterOK'
  BY <1>15 DEF PackageCopied
<1>16. CASE UNCHANGED vars
  BY <1>16 DEF vars
<1> QED
  BY <1>1, <1>2, <1>3, <1>4, <1>5, <1>6, <1>7, <1>8, <1>9, <1>10, <1>11, <1>12,
     <1>13, <1>14, <1>15, <1>16 DEF Next, HandlerStep, Quiescent, PCs

LEMMA InitIInv == Init => IInv
<1> SUFFICES ASSUME Init PROVE IInv
  OBVIOUS
<1>1. TypeOK
  BY InitTypeOK
<1>2. \A r \in Requests : pc[r] = "idle" /\ status[r] = "Pending" /\ requests[r] = NoRequest
  BY DEF Init
<1>4. CreateInv /\ UploadInv /\ AnswerInv
  BY <1>2 DEF CreateInv, UploadInv, Holds, AnswerInv, Answered
<1>5. AfterInv /\ NoUploadAfterOK
  BY <1>2 DEF AfterInv, NoUploadAfterOK, NoRequest
<1>6. ReadyIsPushed
  BY InitSlots
<1> QED
  BY <1>1, <1>4, <1>5, <1>6 DEF IInv

LEMMA NextIInv == IInv /\ [Next]_vars => IInv'
  BY NextTypeOK, NextCreateInv, NextUploadInv, NextAfterInv, NextReadyIsPushed,
     NextAnswerInv, NextNoUploadAfterOK DEF IInv

LEMMA Invariance == Spec => []IInv
  BY InitIInv, NextIInv, PTL DEF Spec

LEMMA RefusalsAreTrue == IInv => RefusedOnlyWhenStored
  BY DEF IInv, AnswerInv, Answered, Settled, RefusedOnlyWhenStored
-----------------------------------------------------------------------------
\* Every reachable state is well typed.
THEOREM TypeCorrect == Spec => []TypeOK
<1>1. IInv => TypeOK
  BY DEF IInv
<1> QED
  BY Invariance, <1>1, PTL

\* The image of a package that reads READY is in the registry.
THEOREM ReadyCorrect == Spec => []ReadyIsPushed
<1>1. IInv => ReadyIsPushed
  BY DEF IInv
<1> QED
  BY Invariance, <1>1, PTL

\* A client told that the bits were already uploaded can rely on bits being there.
THEOREM RefusalsHold == Spec => []RefusedOnlyWhenStored
  BY Invariance, RefusalsAreTrue, PTL

\* After an upload was answered 200, a later one neither pushes nor patches.
THEOREM LaterUploadsRefused == Spec => []NoUploadAfterOK
<1>1. IInv => NoUploadAfterOK
  BY DEF IInv
<1> QED
  BY Invariance, <1>1, PTL

\* The steps that write packages.
LEMMA NextPackages ==
  ASSUME [Next]_vars
  PROVE  \/ UNCHANGED packages
         \/ \E r \in Requests : UpdatePackageSource(r) \/ CreatePackage(r)
         \/ \E g \in PackageGUIDs, s, t \in Spaces :
               PackageDeleted(g, s) \/ PackageCopied(g, s, t)
<1>1. ASSUME NEW r \in Requests, HandlerStep(r)
      PROVE  UNCHANGED packages \/ UpdatePackageSource(r) \/ CreatePackage(r)
  BY <1>1 DEF HandlerStep, FetchApp, ReadFails, FetchPackage, RegistryAuth, PushImage,
              RefuseWrite, LoseAnswer, cluster
<1>2. ASSUME NEW r \in Requests, NEW a \in AppGUIDs, ReceiveCreate(r, a)
      PROVE  UNCHANGED packages
  BY <1>2 DEF ReceiveCreate, cluster
<1>3. ASSUME NEW r \in Requests, NEW g \in PackageGUIDs, NEW d \in Digests,
             ReceiveUpload(r, g, d)
      PROVE  UNCHANGED packages
  BY <1>3 DEF ReceiveUpload, cluster
<1>4. (Crash \/ Quiescent \/ UNCHANGED vars) => UNCHANGED packages
  BY DEF Crash, Quiescent, vars, cluster
<1>5. (\E a \in AppGUIDs, s \in Spaces : AppChanges(a, s)) => UNCHANGED packages
  BY DEF AppChanges
<1> QED
  BY <1>1, <1>2, <1>3, <1>4, <1>5 DEF Next

\* What is left of "Bits may be uploaded only once" (apis/shared.go:159): the image of a
\* package that has one changes only when the patch of another upload lands, which had
\* passed the check of the state before it.  No upload of this package, in this namespace,
\* had been answered 200 when that other one arrived.
ReplacedByOverlap(g, s) ==
    (/\ Exists(packages[g][s]) /\ packages[g][s].image # NoImage
     /\ Exists(packages'[g][s]) /\ packages'[g][s] # packages[g][s])
    => \E r \in Requests :
          /\ pc[r] = "patch" /\ requests[r].guid = g /\ requests[r].space = s
          /\ packages'[g][s] = [packages[g][s] EXCEPT !.image = requests[r].image]
          /\ \A q \in requests[r].after : <<requests[q].guid, requests[q].space>> # <<g, s>>

OverlapOnly == [][\A g \in PackageGUIDs, s \in Spaces : ReplacedByOverlap(g, s)]_vars

\* A package that is READY stays as it is, until it is deleted or an upload that overlapped
\* with the first one replaces its image.
THEOREM OnlyOverlapReplaces == Spec => OverlapOnly
<1>1. ASSUME IInv, [Next]_vars, NEW g \in PackageGUIDs, NEW s \in Spaces
      PROVE  ReplacedByOverlap(g, s)
  <2> SUFFICES ASSUME Exists(packages[g][s]), packages[g][s].image # NoImage,
                      Exists(packages'[g][s]), packages'[g][s] # packages[g][s]
               PROVE  \E r \in Requests :
                         /\ pc[r] = "patch" /\ requests[r].guid = g /\ requests[r].space = s
                         /\ packages'[g][s] = [packages[g][s] EXCEPT !.image = requests[r].image]
                         /\ \A q \in requests[r].after :
                               <<requests[q].guid, requests[q].space>> # <<g, s>>
    BY DEF ReplacedByOverlap
  <2>a. packages \in [PackageGUIDs -> [Spaces -> Package \cup {Absent, Deleted}]]
    BY <1>1 DEF IInv, TypeOK
  <2>1. ASSUME NEW r \in Requests, UpdatePackageSource(r)
        PROVE  /\ pc[r] = "patch" /\ requests[r].guid = g /\ requests[r].space = s
               /\ packages'[g][s] = [packages[g][s] EXCEPT !.image = requests[r].image]
               /\ \A q \in requests[r].after : <<requests[q].guid, requests[q].space>> # <<g, s>>
    <3>1. pc[r] = "patch" /\ requests[r].guid = g /\ requests[r].space = s
      BY <2>1, <2>a DEF UpdatePackageSource
    <3>2. packages'[g][s] = [packages[g][s] EXCEPT !.image = requests[r].image]
      BY <2>1, <2>a, <3>1 DEF UpdatePackageSource
    <3>3. \A q \in requests[r].after : q \in Requests
      BY <1>1 DEF IInv, TypeOK, Request
    <3> QED
      BY <1>1, <3>1, <3>2, <3>3 DEF IInv, NoUploadAfterOK
  <2>2. ASSUME NEW r \in Requests, CreatePackage(r) PROVE FALSE
    <3>1. packages[requests[r].guid][requests[r].space] = Absent
      BY <1>1, <2>2 DEF CreatePackage, IInv, CreateInv
    <3> QED
      BY <2>2, <2>a, <3>1 DEF CreatePackage, Exists
  <2>3. ASSUME NEW h \in PackageGUIDs, NEW t \in Spaces, PackageDeleted(h, t) PROVE FALSE
    BY <2>3, <2>a DEF PackageDeleted, Exists
  <2>4. ASSUME NEW h \in PackageGUIDs, NEW t \in Spaces, NEW u \in Spaces,
               PackageCopied(h, t, u)
        PROVE  FALSE
    BY <2>4, <2>a DEF PackageCopied, Exists
  <2>5. UNCHANGED packages =>  FALSE
    OBVIOUS
  <2>6. \/ UNCHANGED packages
        \/ \E r \in Requests : UpdatePackageSource(r) \/ CreatePackage(r)
        \/ \E h \in PackageGUIDs, t, u \in Spaces :
              PackageDeleted(h, t) \/ PackageCopied(h, t, u)
    BY <1>1, NextPackages
  <2> QED
    BY <2>1, <2>2, <2>3, <2>4, <2>5, <2>6
<1>2. IInv /\ [Next]_vars => [\A g \in PackageGUIDs, s \in Spaces : ReplacedByOverlap(g, s)]_vars
  BY <1>1
<1> QED
  BY <1>2, Invariance, PTL DEF Spec, OverlapOnly
-----------------------------------------------------------------------------
(***************************************************************************)
(* What the mapping needs of a request beyond IInv: the calls of an upload *)
(* are those of the upload handler, it patches the image of its own bits,  *)
(* and a request is over only when it is answered.                         *)
(***************************************************************************)
Mapped(r) ==
    /\ IsUpload(r) => pc[r] \notin {"idle", "fetchApp", "create"}
    /\ pc[r] = "patch" => requests[r].image.digest = requests[r].bits
    /\ pc[r] = "done" => status[r] # "Pending"

MapInv == \A r \in Requests : Mapped(r)

\* No step but those of r's handler touches what r's handler holds.
Kept(q) == pc'[q] = pc[q] /\ status'[q] = status[q] /\ requests'[q] = requests[q]

OnlyMoves(r) == \A q \in Requests \ {r} : Kept(q)

LEMMA InitMapInv == Init => MapInv
  BY DEF Init, MapInv, Mapped, IsUpload, NoRequest

\* A create has no bits, and its handler does not touch them.
LEMMA CreateHasNoBits ==
  ASSUME TypeOK, MapInv, NEW r \in Requests, FetchApp(r)
  PROVE  requests[r].bits = None /\ requests'[r].bits = None
<1>1. requests[r].bits = None
  BY DEF FetchApp, At, MapInv, Mapped, IsUpload
<1>2. requests \in [Requests -> Request]
  BY DEF TypeOK
<1>3. ASSUME NEW s, NEW g,
             requests' = [requests EXCEPT ![r] = [@ EXCEPT !.space = s, !.guid = g]]
      PROVE  requests'[r].bits = requests[r].bits
  BY <1>2, <1>3 DEF Request
<1>4. requests'[r].bits = requests[r].bits
  BY <1>3 DEF FetchApp
<1> QED
  BY <1>1, <1>4

LEMMA NextMapInv == IInv /\ MapInv /\ [Next]_vars => MapInv'
<1> SUFFICES ASSUME IInv, MapInv, [Next]_vars PROVE MapInv'
  OBVIOUS
<1>a. ASSUME NEW r \in Requests, OnlyMoves(r), Mapped(r)' PROVE MapInv'
  BY <1>a DEF MapInv, Mapped, OnlyMoves, Kept, IsUpload
<1>b. ASSUME UNCHANGED <<pc, status, requests>> PROVE MapInv'
  BY <1>b DEF MapInv, Mapped, IsUpload
<1> USE DEF IInv, TypeOK, MapInv, Mapped, IsUpload, OnlyMoves, Kept
<1>1. ASSUME NEW r \in Requests, NEW a \in AppGUIDs, ReceiveCreate(r, a) PROVE MapInv'
  <2>1. requests[r] = NoRequest
    BY <1>1 DEF ReceiveCreate, UploadInv, Holds
  <2>2. requests'[r].bits = None
    <3>1. requests'[r] = [NoRequest EXCEPT !.app = a]
      BY <1>1, <2>1 DEF ReceiveCreate
    <3> QED
      BY <3>1 DEF NoRequest
  <2> QED
    BY <1>1, <1>a, <2>2 DEF ReceiveCreate, PayloadErrors, Call, Reply
<1>2. ASSUME NEW r \in Requests, NEW g \in PackageGUIDs, NEW d \in Digests,
             ReceiveUpload(r, g, d)
      PROVE  MapInv'
  <2>1. OnlyMoves(r)
    BY <1>2 DEF ReceiveUpload, Call, Reply
  <2>2. Mapped(r)'
    BY <1>2 DEF ReceiveUpload, Call, Reply
  <2> QED
    BY <2>1, <2>2, <1>a
<1>3. ASSUME NEW r \in Requests, FetchApp(r) PROVE MapInv'
  <2>1. requests[r].bits = None /\ requests'[r].bits = None
    BY <1>3, CreateHasNoBits
  <2> QED
    BY <1>3, <1>a, <2>1 DEF FetchApp, Call, Reply
<1>4. ASSUME NEW r \in Requests, NEW p \in PCs, ReadFails(r, p) PROVE MapInv'
  BY <1>4, <1>a DEF ReadFails, Reply
<1>5. ASSUME NEW r \in Requests, CreatePackage(r) PROVE MapInv'
  BY <1>5, <1>a DEF CreatePackage, Landed, Reply, Pending
<1>6. ASSUME NEW r \in Requests, FetchPackage(r) PROVE MapInv'
  BY <1>6, <1>a DEF FetchPackage, Call, Reply, At
<1>7. ASSUME NEW r \in Requests, RegistryAuth(r) PROVE MapInv'
  BY <1>7, <1>a DEF RegistryAuth, Call, At
<1>8. ASSUME NEW r \in Requests, PushImage(r) PROVE MapInv'
  <2>1. CASE Pending(r)
    <3>1. requests'[r].image.digest = requests[r].bits /\ requests'[r].bits = requests[r].bits
      BY <1>8, <2>1 DEF PushImage, UploadedImageRef, Request
    <3> QED
      BY <1>8, <1>a, <2>1, <3>1 DEF PushImage, Call
  <2>2. CASE ~Pending(r)
    BY <1>8, <1>a, <2>2 DEF PushImage, Call, Pending
  <2> QED
    BY <2>1, <2>2
<1>9. ASSUME NEW r \in Requests, UpdatePackageSource(r) PROVE MapInv'
  BY <1>9, <1>a DEF UpdatePackageSource, Landed, Reply, Pending
<1>10. ASSUME NEW r \in Requests, RefuseWrite(r) PROVE MapInv'
  BY <1>10, <1>a DEF RefuseWrite, Landed, Reply, Pending
<1>11. ASSUME NEW r \in Requests, LoseAnswer(r) PROVE MapInv'
  BY <1>11, <1>a DEF LoseAnswer, AnswerLost, Pending
<1>12. CASE Crash
  BY <1>12 DEF Crash, Crashed, InFlight, Pending, Writes, Arrived
<1>13. ASSUME NEW a \in AppGUIDs, NEW s \in Spaces, AppChanges(a, s) PROVE MapInv'
  BY <1>13, <1>b DEF AppChanges
<1>14. ASSUME NEW g \in PackageGUIDs, NEW s \in Spaces, PackageDeleted(g, s) PROVE MapInv'
  BY <1>14, <1>b DEF PackageDeleted
<1>15. ASSUME NEW g \in PackageGUIDs, NEW s \in Spaces, NEW t \in Spaces,
              PackageCopied(g, s, t)
       PROVE  MapInv'
  BY <1>15, <1>b DEF PackageCopied
<1>16. CASE UNCHANGED vars
  BY <1>16, <1>b DEF vars
<1> QED
  BY <1>1, <1>2, <1>3, <1>4, <1>5, <1>6, <1>7, <1>8, <1>9, <1>10, <1>11, <1>12,
     <1>13, <1>14, <1>15, <1>16 DEF Next, HandlerStep, Quiescent, PCs
-----------------------------------------------------------------------------
(***************************************************************************)
(* Whose bits an image has: those of an upload to this very package of     *)
(* this namespace, unless the image came with a copy of the package, or    *)
(* was there from the start, and uploads found it there.                   *)
(***************************************************************************)
UnderWay(r) == pc[r] \in {"auth", "push", "patch"} \/ status[r] = "OK"

\* An upload knows the namespace of its package from when it found the package there.
SlotFound(r) ==
    pc[r] \in {"auth", "push", "patch"} => packages[requests[r].guid][requests[r].space] # Absent

PutBy(q, g, s, image) ==
    /\ pc[q] = "done" /\ requests[q].guid = g /\ requests[q].space = s
    /\ requests[q].bits = image.digest
    /\ \A p \in requests[q].after : <<requests[p].guid, requests[p].space>> # <<g, s>>

Sealed(g, s) ==
    \/ packages[g][s] = Deleted
    \/ Exists(packages[g][s]) /\ packages[g][s].image # NoImage

Untouched(g, s) ==
    \A r \in Requests : UnderWay(r) => <<requests[r].guid, requests[r].space>> # <<g, s>>

Origin(g, s, image) ==
    \/ \E q \in Requests : PutBy(q, g, s, image)
    \/ Sealed(g, s) /\ Untouched(g, s)

OriginInv ==
    /\ \A r \in Requests : SlotFound(r)
    /\ \A g \in PackageGUIDs, s \in Spaces :
          (Exists(packages[g][s]) /\ packages[g][s].image # NoImage) =>
              Origin(g, s, packages[g][s].image)

LEMMA InitOriginInv == Init => OriginInv
<1> SUFFICES ASSUME Init PROVE OriginInv
  OBVIOUS
<1>1. \A r \in Requests : pc[r] = "idle" /\ status[r] = "Pending"
  BY DEF Init
<1> QED
  BY <1>1 DEF OriginInv, SlotFound, Origin, Sealed, Untouched, UnderWay

\* An upload goes on with the package that it found, and finds one that awaits its bits.
SameSlot(r) == requests'[r].guid = requests[r].guid /\ requests'[r].space = requests[r].space

GoesOn(r) ==
    /\ pc[r] = "done" => Kept(r)
    /\ UnderWay(r)' =>
          \/ UnderWay(r) /\ SameSlot(r)
          \/ LET slot == packages[requests'[r].guid][requests'[r].space] IN
                Exists(slot) /\ slot.image = NoImage /\ UNCHANGED packages

AllGoOn == \A r \in Requests : GoesOn(r)

LEMMA NextGoesOn == IInv /\ MapInv /\ [Next]_vars => AllGoOn
<1> SUFFICES ASSUME IInv, MapInv, [Next]_vars PROVE AllGoOn
  OBVIOUS
<1> USE DEF IInv, TypeOK, cluster, UnderWay, SameSlot
<1>a. ASSUME NEW r \in Requests, OnlyMoves(r), GoesOn(r) PROVE AllGoOn
  BY <1>a DEF AllGoOn, GoesOn, OnlyMoves, Kept
<1>b. ASSUME NEW r \in Requests, OnlyMoves(r), pc[r] # "done", ~UnderWay(r)' PROVE AllGoOn
  BY <1>a, <1>b DEF GoesOn
<1>c. ASSUME NEW r \in Requests, OnlyMoves(r), pc[r] # "done", UnderWay(r), SameSlot(r)
      PROVE  AllGoOn
  BY <1>a, <1>c DEF GoesOn
<1>d. ASSUME UNCHANGED <<pc, status, requests>> PROVE AllGoOn
  BY <1>d DEF AllGoOn, GoesOn, Kept
<1>e. \A r \in Requests : (pc[r] # "done" => status[r] # "OK") /\ (pc[r] = "idle" => status[r] = "Pending")
  BY DEF AnswerInv, Answered, UploadInv, Holds
<1> USE DEF OnlyMoves, Kept
<1>1. ASSUME NEW r \in Requests, NEW a \in AppGUIDs, ReceiveCreate(r, a) PROVE AllGoOn
  BY <1>1, <1>b, <1>e DEF ReceiveCreate, PayloadErrors, Call, Reply
<1>2. ASSUME NEW r \in Requests, NEW g \in PackageGUIDs, NEW d \in Digests,
             ReceiveUpload(r, g, d)
      PROVE  AllGoOn
  BY <1>2, <1>b, <1>e DEF ReceiveUpload, Call, Reply
<1>3. ASSUME NEW r \in Requests, FetchApp(r) PROVE AllGoOn
  BY <1>3, <1>b, <1>e DEF FetchApp, Call, Reply, At
<1>4. ASSUME NEW r \in Requests, NEW p \in {"fetchApp", "fetch", "auth"}, ReadFails(r, p)
      PROVE  AllGoOn
  BY <1>4, <1>b DEF ReadFails, Reply, At
<1>5. ASSUME NEW r \in Requests, CreatePackage(r) PROVE AllGoOn
  <2>1. pc[r] # "done" /\ pc'[r] = "done" /\ status'[r] # "OK"
    BY <1>5, <1>e DEF CreatePackage, Landed, Reply
  <2> QED
    BY <1>5, <1>b, <2>1 DEF CreatePackage, Landed, Reply
<1>6. ASSUME NEW r \in Requests, FetchPackage(r) PROVE AllGoOn
  <2>0. OnlyMoves(r) /\ pc[r] = "fetch" /\ UNCHANGED packages
    BY <1>6 DEF FetchPackage, Call, Reply, At
  <2> DEFINE g == requests[r].guid
  <2>1. CASE pc'[r] = "done"
    BY <1>6, <1>b, <1>e, <2>0, <2>1 DEF FetchPackage, Call, Reply
  <2>2. ASSUME NEW s \in Spaces, FoundIn(packages, g, s), AwaitingUpload(packages[g][s]),
               requests' = [requests EXCEPT ![r].space = s]
        PROVE  AllGoOn
    <3>1. requests'[r].guid = g /\ requests'[r].space = s
      BY <2>2 DEF Request
    <3>2. Exists(packages[g][s]) /\ packages[g][s].image = NoImage
      BY <2>2 DEF FoundIn, Where, AwaitingUpload
    <3>3. GoesOn(r)
      BY <2>0, <3>1, <3>2 DEF GoesOn
    <3> QED
      BY <1>a, <2>0, <3>3
  <2> QED
    BY <1>6, <2>1, <2>2 DEF FetchPackage, Call, Reply
<1>7. ASSUME NEW r \in Requests, RegistryAuth(r) PROVE AllGoOn
  BY <1>7, <1>c DEF RegistryAuth, Call, At
<1>8. ASSUME NEW r \in Requests, PushImage(r) PROVE AllGoOn
  <2>1. SameSlot(r)
    <3>1. ASSUME NEW i, requests' = [requests EXCEPT ![r].image = i] PROVE SameSlot(r)
      BY <3>1 DEF Request
    <3> QED
      BY <1>8, <3>1 DEF PushImage
  <2> QED
    BY <1>8, <1>c, <2>1 DEF PushImage, Call
<1>9. ASSUME NEW r \in Requests, UpdatePackageSource(r) PROVE AllGoOn
  BY <1>9, <1>c DEF UpdatePackageSource, Landed, Reply
<1>10. ASSUME NEW r \in Requests, RefuseWrite(r) PROVE AllGoOn
  <2>1. pc[r] # "done" /\ pc'[r] = "done" /\ status'[r] # "OK"
    BY <1>10, <1>e DEF RefuseWrite, Landed, Reply, Writes
  <2> QED
    BY <1>10, <1>b, <2>1 DEF RefuseWrite, Landed, Reply
<1>11. ASSUME NEW r \in Requests, LoseAnswer(r) PROVE AllGoOn
  <2>1. OnlyMoves(r) /\ UNCHANGED requests /\ pc'[r] = pc[r] /\ status'[r] = "UnknownError"
        /\ pc[r] # "done"
    BY <1>11 DEF LoseAnswer, AnswerLost, Writes
  <2>2. GoesOn(r)
    BY <2>1 DEF GoesOn
  <2> QED
    BY <1>a, <2>1, <2>2
<1>12. CASE Crash
  <2>1. ASSUME NEW r \in Requests
        PROVE  /\ UNCHANGED requests /\ pc'[r] \in {pc[r], "done"}
               /\ status'[r] \in {status[r], "ConnectionLost"}
               /\ pc[r] = "done" => status'[r] = status[r]
    BY <1>12, <1>e DEF Crash, Crashed, InFlight, Arrived, Pending, MapInv, Mapped
  <2> QED
    BY <2>1 DEF AllGoOn, GoesOn
<1>13. ASSUME NEW a \in AppGUIDs, NEW s \in Spaces, AppChanges(a, s) PROVE AllGoOn
  BY <1>13, <1>d DEF AppChanges
<1>14. ASSUME NEW g \in PackageGUIDs, NEW s \in Spaces, PackageDeleted(g, s) PROVE AllGoOn
  BY <1>14, <1>d DEF PackageDeleted
<1>15. ASSUME NEW g \in PackageGUIDs, NEW s \in Spaces, NEW t \in Spaces,
              PackageCopied(g, s, t)
       PROVE  AllGoOn
  BY <1>15, <1>d DEF PackageCopied
<1>16. CASE UNCHANGED vars
  BY <1>16, <1>d DEF vars
<1> QED
  BY <1>1, <1>2, <1>3, <1>4, <1>5, <1>6, <1>7, <1>8, <1>9, <1>10, <1>11, <1>12,
     <1>13, <1>14, <1>15, <1>16 DEF Next, HandlerStep, Quiescent

\* A patch sets the image of the upload that sent it.
LEMMA PatchSets ==
  ASSUME IInv, NEW r \in Requests, UpdatePackageSource(r)
  PROVE  LET g == requests[r].guid
             s == requests[r].space IN
         /\ g \in PackageGUIDs /\ s \in Spaces /\ requests[r].image \in Images
         /\ Exists(packages[g][s]) /\ Exists(packages'[g][s])
         /\ packages'[g][s].image = requests[r].image
         /\ \A h \in PackageGUIDs, t \in Spaces :
               <<h, t>> # <<g, s>> => packages'[h][t] = packages[h][t]
<1> DEFINE g == requests[r].guid
           s == requests[r].space
           new == [packages[g][s] EXCEPT !.image = requests[r].image]
<1>1. /\ pc[r] = "patch" /\ Exists(packages[g][s])
      /\ packages' = [packages EXCEPT ![g][s] = new]
  BY DEF UpdatePackageSource
<1>2. g \in PackageGUIDs /\ s \in Spaces /\ requests[r].image \in Images
  BY <1>1 DEF IInv, TypeOK, UploadInv, Holds
<1>3. packages \in [PackageGUIDs -> [Spaces -> Package \cup {Absent, Deleted}]]
  BY DEF IInv, TypeOK
<1>4. packages[g][s] \in Package
  BY <1>1, <1>2, <1>3 DEF Exists
<1>5. new \in Package /\ new.image = requests[r].image
  BY <1>2, <1>4 DEF Package
<1>6. Exists(new)
  BY <1>5, PackagesAssumption DEF Exists
<1> HIDE DEF new
<1> QED
  BY <1>1, <1>2, <1>3, <1>5, <1>6

\* A package with an image keeps one until it is deleted, and a tombstone stays.
LEMMA SealedStays ==
  ASSUME IInv, [Next]_vars, NEW g \in PackageGUIDs, NEW s \in Spaces, Sealed(g, s)
  PROVE  Sealed(g, s)'
<1>0. /\ packages \in [PackageGUIDs -> [Spaces -> Package \cup {Absent, Deleted}]]
      /\ packages[g][s] # Absent
  BY SlotAssumption DEF IInv, TypeOK, Sealed, Exists
<1>1. ASSUME NEW r \in Requests, UpdatePackageSource(r) PROVE Sealed(g, s)'
  BY <1>1, PatchSets, PackagesAssumption DEF Sealed
<1>2. ASSUME NEW r \in Requests, CreatePackage(r) PROVE packages'[g][s] = packages[g][s]
  <2>1. packages[requests[r].guid][requests[r].space] = Absent
    BY <1>2 DEF CreatePackage, IInv, CreateInv
  <2> QED
    BY <1>0, <1>2, <2>1 DEF CreatePackage
<1>3. ASSUME NEW h \in PackageGUIDs, NEW t \in Spaces, PackageDeleted(h, t)
      PROVE  packages'[g][s] = packages[g][s] \/ packages'[g][s] = Deleted
  BY <1>0, <1>3 DEF PackageDeleted
<1>4. ASSUME NEW h \in PackageGUIDs, NEW t \in Spaces, NEW u \in Spaces, PackageCopied(h, t, u)
      PROVE  packages'[g][s] = packages[g][s]
  BY <1>0, <1>4 DEF PackageCopied
<1> QED
  BY <1>1, <1>2, <1>3, <1>4, NextPackages DEF Sealed

LEMMA OriginStays ==
  ASSUME IInv, MapInv, [Next]_vars, NEW g \in PackageGUIDs, NEW s \in Spaces, NEW image,
         Origin(g, s, image)
  PROVE  Origin(g, s, image)'
<1>0. AllGoOn
  BY NextGoesOn
<1>1. ASSUME NEW q \in Requests, PutBy(q, g, s, image) PROVE PutBy(q, g, s, image)'
  <2>1. requests'[q] = requests[q] /\ pc'[q] = "done"
    BY <1>0, <1>1 DEF AllGoOn, GoesOn, Kept, PutBy
  <2>2. \A p \in requests[q].after : requests'[p] = requests[p]
    <3>1. ASSUME NEW p \in requests[q].after PROVE p \in Requests /\ pc[p] = "done"
      BY DEF IInv, TypeOK, Request, AfterInv, AnswerInv, Answered
    <3> QED
      BY <1>0, <3>1 DEF AllGoOn, GoesOn, Kept
  <2> QED
    BY <1>1, <2>1, <2>2 DEF PutBy
<1>2. ASSUME Sealed(g, s), Untouched(g, s) PROVE Untouched(g, s)'
  <2> SUFFICES ASSUME NEW r \in Requests, UnderWay(r)',
                      requests'[r].guid = g, requests'[r].space = s
               PROVE  FALSE
    BY DEF Untouched
  <2>1. CASE UnderWay(r) /\ SameSlot(r)
    BY <1>2, <2>1 DEF Untouched, SameSlot
  <2>2. CASE Exists(packages[g][s]) /\ packages[g][s].image = NoImage
    BY <1>2, <2>2 DEF Sealed, Exists
  <2> QED
    BY <1>0, <2>1, <2>2 DEF AllGoOn, GoesOn
<1> QED
  BY <1>1, <1>2, SealedStays DEF Origin

LEMMA NextSlotFound ==
  ASSUME IInv, MapInv, OriginInv, [Next]_vars, NEW r \in Requests
  PROVE  SlotFound(r)'
<1> DEFINE g == requests'[r].guid
           s == requests'[r].space
<1> SUFFICES ASSUME pc'[r] \in {"auth", "push", "patch"} PROVE packages'[g][s] # Absent
  BY DEF SlotFound
<1>0. AllGoOn /\ SlotsKept
  BY NextGoesOn, NextSlotsKept
<1>1. g \in PackageGUIDs /\ s \in Spaces
  BY NextUploadInv DEF UploadInv, Holds
<1>2. packages[g][s] # Absent
  <2>1. CASE UnderWay(r) /\ SameSlot(r)
    BY <2>1 DEF UnderWay, SameSlot, OriginInv, SlotFound, IInv, AnswerInv, Answered
  <2>2. CASE Exists(packages[g][s])
    BY <2>2 DEF Exists
  <2> QED
    BY <1>0, <2>1, <2>2 DEF AllGoOn, GoesOn, UnderWay
<1> QED
  BY <1>0, <1>1, <1>2 DEF SlotsKept, SlotKept

LEMMA NextOriginInv == IInv /\ MapInv /\ OriginInv /\ [Next]_vars => OriginInv'
<1> SUFFICES ASSUME IInv, MapInv, OriginInv, [Next]_vars,
                    NEW g \in PackageGUIDs, NEW s \in Spaces,
                    Exists(packages'[g][s]), packages'[g][s].image # NoImage
             PROVE  Origin(g, s, packages[g][s].image)'
  BY NextSlotFound DEF OriginInv
<1>0. packages \in [PackageGUIDs -> [Spaces -> Package \cup {Absent, Deleted}]]
  BY DEF IInv, TypeOK
<1>1. CASE packages'[g][s] = packages[g][s]
  <2>1. Origin(g, s, packages[g][s].image)
    BY <1>1 DEF OriginInv
  <2> PICK image : image = packages[g][s].image
    OBVIOUS
  <2>2. Origin(g, s, image)'
    BY <2>1, OriginStays
  <2> QED
    BY <1>1, <2>2
<1>2. ASSUME NEW r \in Requests, UpdatePackageSource(r), packages'[g][s] # packages[g][s]
      PROVE  Origin(g, s, packages[g][s].image)'
  <2>1. /\ requests[r].guid = g /\ requests[r].space = s
        /\ packages'[g][s].image = requests[r].image
    BY <1>2, PatchSets
  <2>2. pc[r] = "patch" /\ pc'[r] = "done" /\ UNCHANGED requests
    BY <1>2 DEF UpdatePackageSource, Landed, Reply, IInv, TypeOK
  <2>3. requests[r].bits = requests[r].image.digest
    BY <2>2 DEF MapInv, Mapped
  <2>4. \A p \in requests[r].after : <<requests[p].guid, requests[p].space>> # <<g, s>>
    BY <2>1, <2>2 DEF IInv, NoUploadAfterOK, TypeOK, Request
  <2>5. PutBy(r, g, s, packages[g][s].image)'
    BY <2>1, <2>2, <2>3, <2>4 DEF PutBy
  <2> QED
    BY <2>5 DEF Origin
<1>3. ASSUME NEW r \in Requests, CreatePackage(r), packages'[g][s] # packages[g][s] PROVE FALSE
  <2>1. packages'[g][s] = [app |-> requests[r].app, image |-> NoImage]
    BY <1>0, <1>3 DEF CreatePackage
  <2> QED
    BY <2>1
<1>4. ASSUME NEW h \in PackageGUIDs, NEW t \in Spaces, PackageDeleted(h, t)
      PROVE  packages'[g][s] = packages[g][s]
  BY <1>0, <1>4 DEF PackageDeleted, Exists
<1>5. ASSUME NEW h \in PackageGUIDs, NEW t \in Spaces, NEW u \in Spaces,
             PackageCopied(h, t, u), packages'[g][s] # packages[g][s]
      PROVE  Origin(g, s, packages[g][s].image)'
  <2>1. packages[g][s] = Absent /\ UNCHANGED <<requests, pc, status>>
    BY <1>0, <1>5 DEF PackageCopied
  <2>2. Untouched(g, s)'
    BY <2>1 DEF Untouched, UnderWay, OriginInv, SlotFound, IInv, AnswerInv, Answered
  <2> QED
    BY <2>2 DEF Origin, Sealed
<1> QED
  BY <1>1, <1>2, <1>3, <1>4, <1>5, NextPackages

\* Of two uploads to one package of which one was answered OK and the other had its bits
\* put there, neither came after the other one.
LEMMA PutByOverlaps ==
  ASSUME IInv, NEW r \in Requests, status[r] = "OK", NEW q \in Requests, NEW image,
         PutBy(q, requests[r].guid, requests[r].space, image)
  PROVE  Overlap(q, r)
<1>1. r \notin requests[q].after
  BY DEF PutBy
<1>2. q \notin requests[r].after
  BY DEF PutBy, IInv, NoUploadAfterOK
<1> QED
  BY <1>1, <1>2 DEF Overlap

LEMMA AnswersAreKept == IInv /\ OriginInv => AnsweredIsKept
<1> SUFFICES ASSUME IInv, OriginInv, NEW r \in Requests,
                    NEW g, g = requests[r].guid, NEW s, s = requests[r].space
             PROVE  /\ status[r] = "Created" =>
                          packages[g][s] = Deleted \/ Exists(packages[g][s])
                    /\ status[r] = "OK" =>
                          \/ packages[g][s] = Deleted
                          \/ /\ Stored(g, s)
                             /\ \E q \in Requests :
                                   /\ requests[q].guid = g /\ requests[q].space = s
                                   /\ requests[q].bits = packages[g][s].image.digest
                                   /\ Overlap(q, r)
  BY DEF AnsweredIsKept
<1>1. status[r] = "Created" => packages[g][s] = Deleted \/ Exists(packages[g][s])
  BY DEF IInv, AnswerInv, Answered, Exists
<1>2. ASSUME status[r] = "OK", packages[g][s] # Deleted
      PROVE  /\ Stored(g, s)
             /\ \E q \in Requests :
                   /\ requests[q].guid = g /\ requests[q].space = s
                   /\ requests[q].bits = packages[g][s].image.digest
                   /\ Overlap(q, r)
  <2>1. g \in PackageGUIDs /\ s \in Spaces /\ Stored(g, s)
    BY <1>2 DEF IInv, AnswerInv, Answered, Settled
  <2>2. packages[g][s].image # NoImage
    BY <2>1, PackagesAssumption DEF IInv, TypeOK, Stored
  <2>3. PICK q \in Requests : PutBy(q, g, s, packages[g][s].image)
    BY <1>2, <2>1, <2>2 DEF OriginInv, Origin, Untouched, UnderWay, Stored
  <2> QED
    BY <1>2, <2>1, <2>3, PutByOverlaps DEF PutBy
<1> QED
  BY <1>1, <1>2

\* A create or an upload that was answered with success is not taken back, and nothing but
\* an upload that overlapped with an upload puts other bits in the place of its own.
THEOREM AnswersHold == Spec => []AnsweredIsKept
<1>1. Init => MapInv /\ OriginInv
  BY InitMapInv, InitOriginInv
<1>2. IInv /\ MapInv /\ OriginInv /\ [Next]_vars => MapInv' /\ OriginInv'
  BY NextMapInv, NextOriginInv
<1> QED
  BY <1>1, <1>2, Invariance, AnswersAreKept, PTL DEF Spec
-----------------------------------------------------------------------------
(***************************************************************************)
(* What a step does to the mapped variables.                               *)
(***************************************************************************)

\* The registry only grows, and READY packages have their images there already.
LEMMA BitsStay ==
  ASSUME ReadyIsPushed, registry \subseteq registry',
         NEW g \in PackageGUIDs, NEW s \in Spaces, packages'[g][s] = packages[g][s]
  PROVE  BitsOf(g, s)' = BitsOf(g, s)
  BY DEF BitsOf, ReadyIsPushed, Stored, Exists

LEMMA BitsUnchanged ==
  ASSUME ReadyIsPushed, registry \subseteq registry', UNCHANGED packages
  PROVE  UNCHANGED Bits
<1>1. \A g \in PackageGUIDs, s \in Spaces : BitsOf(g, s)' = BitsOf(g, s)
  BY BitsStay
<1> QED
  BY <1>1 DEF Bits

\* One slot changes.
LEMMA BitsChange ==
  ASSUME ReadyIsPushed, registry \subseteq registry',
         NEW h \in PackageGUIDs, NEW t \in Spaces, NEW b, BitsOf(h, t)' = b,
         \A g \in PackageGUIDs, s \in Spaces :
            <<g, s>> # <<h, t>> => packages'[g][s] = packages[g][s]
  PROVE  Bits' = [Bits EXCEPT ![h][t] = b]
<1>1. \A g \in PackageGUIDs, s \in Spaces :
         BitsOf(g, s)' = IF g = h /\ s = t THEN b ELSE BitsOf(g, s)
  BY BitsStay
<1>2. Bits' = [g \in PackageGUIDs |-> [s \in Spaces |->
                  IF g = h /\ s = t THEN b ELSE BitsOf(g, s)]]
  BY <1>1 DEF Bits
<1> QED
  BY <1>2 DEF Bits

\* The handler of one request moves.
LEMMA OneMoves ==
  ASSUME NEW r \in Requests, OnlyMoves(r)
  PROVE  /\ Asked' = [Asked EXCEPT ![r] = AskedOf(r)']
         /\ Place' = [Place EXCEPT ![r] = PlaceOf(r)']
         /\ Stage' = [Stage EXCEPT ![r] = StageOf(r)']
         /\ Answer' = [Answer EXCEPT ![r] = AnswerOf(r)']
<1>1. \A q \in Requests \ {r} : /\ AskedOf(q)' = AskedOf(q) /\ PlaceOf(q)' = PlaceOf(q)
                                /\ StageOf(q)' = StageOf(q) /\ AnswerOf(q)' = AnswerOf(q)
  BY DEF OnlyMoves, Kept, AskedOf, PlaceOf, StageOf, AnswerOf, IsUpload
<1> QED
  BY <1>1 DEF Asked, Place, Stage, Answer

\* It moves without the abstract upload taking notice.
Unseen(r) ==
    AskedOf(r)' = AskedOf(r) /\ PlaceOf(r)' = PlaceOf(r)
    /\ StageOf(r)' = StageOf(r) /\ AnswerOf(r)' = AnswerOf(r)

LEMMA OneStutters ==
  ASSUME NEW r \in Requests, OnlyMoves(r), Unseen(r)
  PROVE  UNCHANGED <<Asked, Place, Stage, Answer>>
  BY OneMoves DEF Unseen, Asked, Place, Stage, Answer

LEMMA NoneMoves ==
  ASSUME UNCHANGED <<pc, status, requests>>
  PROVE  UNCHANGED <<Asked, Place, Stage, Answer>>
  BY DEF Asked, Place, Stage, Answer, AskedOf, PlaceOf, StageOf, AnswerOf, IsUpload
-----------------------------------------------------------------------------
Step == [Promise!Next]_Promise!vars

MappedUnchanged == UNCHANGED <<Bits, Asked, Place, Stage, Answer>>

LEMMA Stutters == MappedUnchanged => Step
  BY DEF MappedUnchanged, Step, Promise!vars

\* An object holds bits, or awaits them.
LEMMA SlotHolds ==
  ASSUME TypeOK, ReadyIsPushed, NEW g \in PackageGUIDs, NEW s \in Spaces,
         Exists(packages[g][s])
  PROVE  Bits[g][s] \in Digests \cup {Awaiting}
<1>1. packages[g][s] \in Package
  BY DEF Exists, TypeOK
<1>2. CASE packages[g][s].image = NoImage
  BY <1>2 DEF Bits, BitsOf
<1>3. CASE packages[g][s].image # NoImage
  <2>1. Stored(g, s) /\ packages[g][s].image \in Images
    BY <1>1, <1>3 DEF ReadyIsPushed, Package
  <2> QED
    BY <1>3, <2>1 DEF Bits, BitsOf, Images
<1> QED
  BY <1>2, <1>3

\* An upload that fails for its client may come to nothing or land late.
LEMMA FailStep ==
  ASSUME NEW r \in Requests, UNCHANGED Bits, OnlyMoves(r),
         StageOf(r) \in {"open", "accepted"}, AnswerOf(r) = "none",
         AskedOf(r)' = AskedOf(r), PlaceOf(r)' = PlaceOf(r),
         AnswerOf(r)' = "failed",
         \/ StageOf(r)' = "closed"
         \/ StageOf(r) = "accepted" /\ StageOf(r)' = "accepted"
  PROVE  Step
<1>1. UNCHANGED <<Asked, Place>>
  BY OneMoves DEF Asked, Place
<1>2. Stage[r] = StageOf(r) /\ Answer[r] = AnswerOf(r)
  BY DEF Stage, Answer
<1>3. Answer' = [q \in Requests |-> IF q \in {r} THEN "failed" ELSE Answer[q]]
  BY OneMoves DEF Answer
<1>4. CASE StageOf(r)' = "closed"
  <2>1. Stage' = [q \in Requests |-> IF q \in {r} \ {} THEN "closed" ELSE Stage[q]]
    BY <1>4, OneMoves DEF Stage
  <2>2. Promise!Fail({r}, {})
    BY <1>1, <1>2, <1>3, <2>1 DEF Promise!Fail
  <2> QED
    BY <2>2 DEF Step, Promise!Next
<1>5. CASE StageOf(r) = "accepted" /\ StageOf(r)' = "accepted"
  <2>1. Stage' = [q \in Requests |-> IF q \in {r} \ {r} THEN "closed" ELSE Stage[q]]
    BY <1>5, OneMoves DEF Stage
  <2>2. Promise!Fail({r}, {r})
    BY <1>1, <1>2, <1>3, <1>5, <2>1 DEF Promise!Fail
  <2> QED
    BY <2>2 DEF Step, Promise!Next
<1> QED
  BY <1>4, <1>5

LEMMA DropStep ==
  ASSUME NEW r \in Requests, UNCHANGED Bits, OnlyMoves(r),
         StageOf(r) = "accepted", AnswerOf(r) = "failed", StageOf(r)' = "closed",
         AskedOf(r)' = AskedOf(r), PlaceOf(r)' = PlaceOf(r), AnswerOf(r)' = AnswerOf(r)
  PROVE  Step
<1>1. UNCHANGED <<Asked, Place, Answer>>
  BY OneMoves DEF Asked, Place, Answer
<1>2. Stage[r] = StageOf(r) /\ Answer[r] = AnswerOf(r)
  BY DEF Stage, Answer
<1>3. Stage' = [Stage EXCEPT ![r] = "closed"]
  BY OneMoves
<1>4. Promise!Drop(r)
  BY <1>1, <1>2, <1>3 DEF Promise!Drop
<1> QED
  BY <1>4 DEF Step, Promise!Next

LEMMA NextStep == IInv /\ MapInv /\ [Next]_vars => Step
<1> SUFFICES ASSUME IInv, MapInv, [Next]_vars PROVE Step
  OBVIOUS
<1> USE DEF cluster
<1>a. ReadyIsPushed /\ TypeOK
  BY DEF IInv
<1>b. \A r \in Requests : /\ requests[r].guid = requests[r].guid
                          /\ Mapped(r) /\ Holds(r) /\ Answered(r)
  BY DEF IInv, MapInv, UploadInv, AnswerInv
<1>1. ASSUME NEW r \in Requests, NEW a \in AppGUIDs, ReceiveCreate(r, a) PROVE Step
  <2>1. IsUpload(r) = FALSE /\ IsUpload(r)' = FALSE
    <3>1. requests[r] = NoRequest /\ requests'[r] = [NoRequest EXCEPT !.app = a]
      BY <1>1, <1>a, <1>b DEF ReceiveCreate, Holds, TypeOK
    <3> QED
      BY <3>1 DEF NoRequest, IsUpload
  <2>2. Unseen(r)
    BY <2>1 DEF Unseen, AskedOf, PlaceOf, StageOf, AnswerOf
  <2>3. OnlyMoves(r)
    BY <1>1, <1>a DEF ReceiveCreate, OnlyMoves, Kept, TypeOK, Call, Reply
  <2>4. UNCHANGED Bits
    BY <1>1, <1>a, BitsUnchanged DEF ReceiveCreate
  <2> QED
    BY <2>2, <2>3, <2>4, OneStutters, Stutters DEF MappedUnchanged
<1>2. ASSUME NEW r \in Requests, NEW g \in PackageGUIDs, NEW d \in Digests,
             ReceiveUpload(r, g, d)
      PROVE  Step
  <2>1. /\ requests[r] = NoRequest /\ pc[r] = "idle" /\ status[r] = "Pending"
        /\ requests'[r].guid = g /\ requests'[r].bits = d
        /\ requests'[r].space = requests[r].space
    BY <1>2, <1>a, <1>b DEF ReceiveUpload, Holds, TypeOK, Request
  <2>2. OnlyMoves(r)
    BY <1>2, <1>a DEF ReceiveUpload, OnlyMoves, Kept, TypeOK, Call, Reply
  <2>3. UNCHANGED Bits
    BY <1>2, <1>a, BitsUnchanged DEF ReceiveUpload
  <2>4. ~IsUpload(r) /\ IsUpload(r)' /\ requests[r].space = None
    BY <2>1, RefinementAssumption DEF IsUpload, NoRequest
  <2>5. /\ StageOf(r) = "idle" /\ AnswerOf(r) = "none"
        /\ AskedOf(r)' = [package |-> g, bits |-> d] /\ PlaceOf(r)' = PlaceOf(r)
    BY <2>1, <2>4 DEF AskedOf, PlaceOf, StageOf, AnswerOf
  <2>6. \/ StageOf(r)' = "open" /\ AnswerOf(r)' = "none"
        \/ StageOf(r)' = "closed" /\ AnswerOf(r)' = "failed"
    BY <1>2, <1>a, <2>1, <2>4 DEF StageOf, AnswerOf, ReceiveUpload, Call, Reply, TypeOK
  <2>7. Promise!Ask(r, g, d)
    BY <2>2, <2>3, <2>5, <2>6, OneMoves DEF Promise!Ask, Place, Stage, Answer
  <2> QED
    BY <2>7 DEF Step, Promise!Next
<1>3. ASSUME NEW r \in Requests, FetchApp(r) PROVE Step
  <2>1. requests[r].bits = None /\ requests'[r].bits = None
    BY <1>3, <1>a, CreateHasNoBits
  <2>2. Unseen(r)
    BY <2>1 DEF Unseen, AskedOf, PlaceOf, StageOf, AnswerOf, IsUpload
  <2>3. OnlyMoves(r)
    BY <1>3, <1>a DEF FetchApp, OnlyMoves, Kept, TypeOK, Call, Reply
  <2>4. UNCHANGED Bits
    BY <1>3, <1>a, BitsUnchanged DEF FetchApp
  <2> QED
    BY <2>2, <2>3, <2>4, OneStutters, Stutters DEF MappedUnchanged
<1>4. ASSUME NEW r \in Requests, NEW p \in {"fetchApp", "fetch", "auth"}, ReadFails(r, p)
      PROVE  Step
  <2>1. /\ pc[r] = p /\ status[r] = "Pending" /\ UNCHANGED requests
        /\ pc'[r] = "done" /\ status'[r] = "UnknownError"
    BY <1>4, <1>a DEF ReadFails, At, Pending, Reply, TypeOK
  <2>2. OnlyMoves(r)
    BY <1>4, <1>a DEF ReadFails, OnlyMoves, Kept, TypeOK, Reply
  <2>3. UNCHANGED Bits
    BY <1>4, <1>a, BitsUnchanged DEF ReadFails
  <2>4. CASE ~IsUpload(r)
    <3>1. Unseen(r)
      BY <2>1, <2>4 DEF Unseen, AskedOf, PlaceOf, StageOf, AnswerOf, IsUpload
    <3> QED
      BY <2>2, <2>3, <3>1, OneStutters, Stutters DEF MappedUnchanged
  <2>5. CASE IsUpload(r)
    <3>1. /\ StageOf(r) \in {"open", "accepted"} /\ AnswerOf(r) = "none"
          /\ AskedOf(r)' = AskedOf(r) /\ PlaceOf(r)' = PlaceOf(r)
          /\ AnswerOf(r)' = "failed" /\ StageOf(r)' = "closed"
      BY <2>1, <2>5, <1>b DEF Mapped, AskedOf, PlaceOf, StageOf, AnswerOf, IsUpload
    <3> QED
      BY <2>2, <2>3, <3>1, FailStep
  <2> QED
    BY <2>4, <2>5
<1>5. ASSUME NEW r \in Requests, CreatePackage(r) PROVE Step
  <2>1. PICK h \in PackageGUIDs, t \in Spaces :
           /\ h = requests[r].guid /\ t = requests[r].space /\ packages[h][t] = Absent
           /\ requests[r].app \in AppGUIDs
    BY <1>5 DEF CreatePackage, IInv, CreateInv
  <2> DEFINE new == [app |-> requests[r].app, image |-> NoImage]
  <2>2. new \in Package /\ new.image = NoImage
    BY <2>1 DEF Package
  <2>3. /\ packages' = [packages EXCEPT ![h][t] = new]
        /\ UNCHANGED <<requests, registry>> /\ pc[r] = "create"
    BY <1>5, <2>1 DEF CreatePackage
  <2>4. packages'[h][t] = new
    BY <2>1, <2>3, <1>a DEF TypeOK
  <2>5. BitsOf(h, t)' = Awaiting
    BY <2>2, <2>4, PackagesAssumption DEF BitsOf, Exists
  <2>6. \A g \in PackageGUIDs, s \in Spaces :
           <<g, s>> # <<h, t>> => packages'[g][s] = packages[g][s]
    BY <2>1, <2>3, <1>a DEF TypeOK
  <2>7. Bits' = [Bits EXCEPT ![h][t] = Awaiting]
    BY <1>a, <2>3, <2>5, <2>6, BitsChange
  <2>8. Bits[h][t] = Absent
    BY <2>1 DEF Bits, BitsOf, Exists
  <2>9. OnlyMoves(r)
    BY <1>5, <1>a DEF CreatePackage, OnlyMoves, Kept, TypeOK, Landed, Reply
  <2>10. Unseen(r)
    BY <2>3, <1>b DEF Mapped, Unseen, AskedOf, PlaceOf, StageOf, AnswerOf, IsUpload
  <2>11. Promise!Created(h, t)
    BY <2>7, <2>8, <2>9, <2>10, OneStutters DEF Promise!Created, Promise!uploads
  <2> QED
    BY <2>11 DEF Step, Promise!Next
<1>6. ASSUME NEW r \in Requests, FetchPackage(r) PROVE Step
  <2>1. PICK g \in PackageGUIDs : g = requests[r].guid
    BY <1>6, <1>b DEF FetchPackage, At, Holds
  <2>2. /\ pc[r] = "fetch" /\ status[r] = "Pending"
        /\ IsUpload(r) /\ requests[r] \in Request
    BY <1>6, <1>a, <1>b, RefinementAssumption
       DEF FetchPackage, At, Pending, Holds, TypeOK, IsUpload
  <2>3. OnlyMoves(r)
    BY <1>6, <1>a DEF FetchPackage, OnlyMoves, Kept, TypeOK, Call, Reply
  <2>4. UNCHANGED Bits
    BY <1>6, <1>a, BitsUnchanged DEF FetchPackage
  <2>5. /\ AskedOf(r) = [package |-> g, bits |-> requests[r].bits]
        /\ StageOf(r) = "open" /\ AnswerOf(r) = "none"
    BY <2>1, <2>2 DEF AskedOf, StageOf, AnswerOf
  <2>6. ASSUME NEW answer \in {"ResourceNotFound", "UnknownError"}, Reply(r, answer),
               UNCHANGED requests
        PROVE  Step
    <3>1. pc'[r] = "done" /\ status'[r] = answer
      BY <2>6, <1>a DEF Reply, TypeOK
    <3>2. /\ AskedOf(r)' = AskedOf(r) /\ PlaceOf(r)' = PlaceOf(r)
          /\ AnswerOf(r)' = "failed" /\ StageOf(r)' = "closed"
      BY <2>2, <2>6, <3>1 DEF AskedOf, PlaceOf, StageOf, AnswerOf, IsUpload
    <3> QED
      BY <2>3, <2>4, <2>5, <3>2, FailStep
  <2>7. ASSUME NEW s \in Spaces, FoundIn(packages, g, s),
               requests' = [requests EXCEPT ![r].space = s],
               IF AwaitingUpload(packages[g][s]) THEN Call(r, "auth")
               ELSE Reply(r, "PackageBitsAlreadyUploaded")
        PROVE  Step
    <3>1. Exists(packages[g][s])
      BY <2>7 DEF FoundIn, Where
    <3>2. /\ requests'[r].space = s /\ requests'[r].guid = g
          /\ requests'[r].bits = requests[r].bits
      BY <2>1, <2>2, <2>7, <1>a DEF Request, TypeOK
    <3>3. /\ AskedOf(r)' = AskedOf(r) /\ PlaceOf(r)' = s /\ IsUpload(r)'
      BY <2>1, <2>2, <3>2 DEF AskedOf, PlaceOf, IsUpload
    <3>4. Asked' = Asked /\ Place' = [Place EXCEPT ![r] = s]
      BY <2>3, <3>3, OneMoves DEF Asked
    <3>5. /\ Stage[r] = "open" /\ Answer[r] = "none" /\ Asked[r].package = g
      BY <2>5 DEF Stage, Answer, Asked
    <3>6. CASE AwaitingUpload(packages[g][s])
      <4>1. Bits[g][s] = Awaiting
        BY <3>1, <3>6 DEF Bits, BitsOf, AwaitingUpload
      <4>2. pc'[r] = "auth" /\ status'[r] = "Pending"
        BY <2>2, <2>7, <3>6, <1>a DEF Call, TypeOK
      <4>3. StageOf(r)' = "accepted" /\ AnswerOf(r)' = "none"
        BY <3>3, <4>2 DEF StageOf, AnswerOf
      <4>4. Stage' = [Stage EXCEPT ![r] = "accepted"] /\ Answer' = Answer
        BY <2>3, <2>5, <4>3, OneMoves DEF Answer
      <4>5. Promise!Accept(r, s)
        BY <2>4, <3>4, <3>5, <4>1, <4>4 DEF Promise!Accept
      <4> QED
        BY <4>5 DEF Step, Promise!Next
    <3>7. CASE ~AwaitingUpload(packages[g][s])
      <4>1. Stored(g, s) /\ packages[g][s].image \in Images
        BY <3>1, <3>7, <1>a DEF ReadyIsPushed, AwaitingUpload, TypeOK, Stored
      <4>2. Bits[g][s] \in Digests
        BY <3>1, <3>7, <4>1 DEF Bits, BitsOf, AwaitingUpload, Images
      <4>3. pc'[r] = "done" /\ status'[r] = "PackageBitsAlreadyUploaded"
        BY <2>2, <2>7, <3>7, <1>a DEF Reply, TypeOK
      <4>4. StageOf(r)' = "closed" /\ AnswerOf(r)' = "refused"
        BY <3>3, <4>3 DEF StageOf, AnswerOf
      <4>5. /\ Stage' = [Stage EXCEPT ![r] = "closed"]
            /\ Answer' = [Answer EXCEPT ![r] = "refused"]
        BY <2>3, <4>4, OneMoves
      <4>6. Promise!Refuse(r, s)
        BY <2>4, <3>4, <3>5, <4>2, <4>5 DEF Promise!Refuse
      <4> QED
        BY <4>6 DEF Step, Promise!Next
    <3> QED
      BY <3>6, <3>7
  <2> QED
    BY <1>6, <2>1, <2>6, <2>7 DEF FetchPackage
<1>7. ASSUME NEW r \in Requests, RegistryAuth(r) PROVE Step
  <2>1. /\ pc[r] = "auth" /\ pc'[r] = "push"
        /\ UNCHANGED <<status, requests>>
    BY <1>7, <1>a DEF RegistryAuth, At, Call, TypeOK
  <2>2. Unseen(r)
    BY <2>1 DEF Unseen, AskedOf, PlaceOf, StageOf, AnswerOf, IsUpload
  <2>3. OnlyMoves(r)
    BY <1>7, <1>a DEF RegistryAuth, OnlyMoves, Kept, TypeOK, Call
  <2>4. UNCHANGED Bits
    BY <1>7, <1>a, BitsUnchanged DEF RegistryAuth
  <2> QED
    BY <2>2, <2>3, <2>4, OneStutters, Stutters DEF MappedUnchanged
<1>c. ASSUME NEW r \in Requests, pc[r] \in {"push", "patch"}
      PROVE  /\ IsUpload(r) /\ StageOf(r) = "accepted"
             /\ AnswerOf(r) = IF Pending(r) THEN "none" ELSE "failed"
  <2>1. IsUpload(r)
    BY <1>c, <1>b, RefinementAssumption DEF Holds, IsUpload
  <2> QED
    BY <1>c, <1>b, <2>1 DEF Answered, StageOf, AnswerOf, Pending
<1>8. ASSUME NEW r \in Requests, PushImage(r) PROVE Step
  <2>1. OnlyMoves(r)
    BY <1>8, <1>a DEF PushImage, OnlyMoves, Kept, TypeOK, Call
  <2>2. UNCHANGED Bits
    BY <1>8, <1>a, BitsUnchanged DEF PushImage
  <2>3. pc[r] = "push" /\ UNCHANGED status /\ requests[r] \in Request
    BY <1>8, <1>a DEF PushImage, Call, TypeOK
  <2>4. CASE Pending(r)
    <3>1. pc'[r] = "patch"
      BY <1>8, <2>4, <1>a DEF PushImage, Call, TypeOK
    <3>2. /\ requests'[r].guid = requests[r].guid /\ requests'[r].space = requests[r].space
          /\ requests'[r].bits = requests[r].bits
      BY <1>8, <2>3, <2>4, <1>a DEF PushImage, Request, TypeOK
    <3>3. Unseen(r)
      BY <2>3, <3>1, <3>2 DEF Unseen, AskedOf, PlaceOf, StageOf, AnswerOf, IsUpload
    <3> QED
      BY <2>1, <2>2, <3>3, OneStutters, Stutters DEF MappedUnchanged
  <2>5. CASE ~Pending(r)
    <3>1. pc'[r] = "done" /\ UNCHANGED requests
      BY <1>8, <2>5, <1>a DEF PushImage, Call, TypeOK
    <3>2. /\ StageOf(r) = "accepted" /\ AnswerOf(r) = "failed" /\ IsUpload(r)
      BY <1>c, <2>3, <2>5
    <3>3. /\ StageOf(r)' = "closed" /\ AskedOf(r)' = AskedOf(r)
          /\ PlaceOf(r)' = PlaceOf(r) /\ AnswerOf(r)' = AnswerOf(r)
      BY <2>3, <3>1, <3>2 DEF AskedOf, PlaceOf, StageOf, AnswerOf, IsUpload
    <3> QED
      BY <2>1, <2>2, <3>2, <3>3, DropStep
  <2> QED
    BY <2>4, <2>5
<1>9. ASSUME NEW r \in Requests, UpdatePackageSource(r) PROVE Step
  <2>1. PICK h \in PackageGUIDs, t \in Spaces : Patched(r, h, t)
    BY <1>9, PatchStores
  <2>2. /\ pc[r] = "patch" /\ UNCHANGED requests /\ pc'[r] = "done"
        /\ status'[r] = IF Pending(r) THEN "OK" ELSE status[r]
        /\ Exists(packages[h][t])
    BY <1>9, <2>1, <1>a DEF UpdatePackageSource, Patched, Landed, Reply, TypeOK
  <2>3. OnlyMoves(r)
    BY <1>9, <1>a DEF UpdatePackageSource, OnlyMoves, Kept, TypeOK, Landed, Reply
  <2>4. /\ IsUpload(r) /\ StageOf(r) = "accepted"
        /\ AnswerOf(r) = IF Pending(r) THEN "none" ELSE "failed"
    BY <2>2, <1>c
  <2>5. /\ AskedOf(r)' = AskedOf(r) /\ PlaceOf(r)' = PlaceOf(r) /\ StageOf(r)' = "closed"
        /\ AnswerOf(r)' = IF AnswerOf(r) = "none" THEN "stored" ELSE AnswerOf(r)
    BY <2>2, <2>4 DEF AskedOf, PlaceOf, StageOf, AnswerOf, IsUpload, Pending
  <2>6. /\ Asked' = Asked /\ Place' = Place /\ Stage' = [Stage EXCEPT ![r] = "closed"]
        /\ Answer' = [Answer EXCEPT ![r] = IF @ = "none" THEN "stored" ELSE @]
    BY <2>3, <2>5, OneMoves DEF Asked, Place, Answer
  <2>7. /\ Stage[r] = "accepted" /\ Asked[r].package = h /\ Place[r] = t
        /\ Asked[r].bits = requests[r].bits
    BY <2>1, <2>4 DEF Stage, Asked, Place, AskedOf, PlaceOf, Patched
  <2>8. Bits[h][t] \in Digests \cup {Awaiting}
    BY <2>2, <1>a, SlotHolds
  <2>9. packages'[h][t].image = requests[r].image
    <3>1. packages[h][t] \in Package
      BY <2>2, <1>a DEF Exists, TypeOK
    <3>2. packages'[h][t] = [packages[h][t] EXCEPT !.image = requests[r].image]
      BY <1>9, <2>1, <1>a DEF UpdatePackageSource, Patched, TypeOK
    <3> QED
      BY <3>1, <3>2 DEF Package
  <2>10. BitsOf(h, t)' = requests[r].bits
    <3>1. Stored(h, t)' /\ requests[r].image.digest = requests[r].bits
      BY <2>1, <2>2, <1>b DEF Patched, Mapped
    <3>2. packages'[h][t].image \in Images
      BY <2>1, <2>9, <3>1, <1>a DEF Stored, Patched, TypeOK
    <3> QED
      BY <2>9, <3>1, <3>2, PackagesAssumption DEF BitsOf, Stored
  <2>11. Bits' = [Bits EXCEPT ![h][t] = requests[r].bits]
    BY <2>1, <2>10, <1>a, BitsChange DEF Patched
  <2>12. Promise!Store(r)
    BY <2>6, <2>7, <2>8, <2>11 DEF Promise!Store, Promise!Held
  <2> QED
    BY <2>12 DEF Step, Promise!Next
<1>10. ASSUME NEW r \in Requests, RefuseWrite(r) PROVE Step
  <2>1. /\ pc[r] \in Writes /\ UNCHANGED requests /\ pc'[r] = "done"
        /\ status'[r] = IF Pending(r) THEN "UnknownError" ELSE status[r]
    BY <1>10, <1>a DEF RefuseWrite, Landed, Reply, TypeOK
  <2>2. OnlyMoves(r)
    BY <1>10, <1>a DEF RefuseWrite, OnlyMoves, Kept, TypeOK, Landed, Reply
  <2>3. UNCHANGED Bits
    BY <1>10, <1>a, BitsUnchanged DEF RefuseWrite
  <2>4. CASE pc[r] = "create"
    <3>1. Unseen(r)
      BY <2>1, <2>4, <1>b DEF Mapped, Unseen, AskedOf, PlaceOf, StageOf, AnswerOf, IsUpload
    <3> QED
      BY <2>2, <2>3, <3>1, OneStutters, Stutters DEF MappedUnchanged
  <2>5. CASE pc[r] \in {"push", "patch"}
    <3>1. /\ IsUpload(r) /\ StageOf(r) = "accepted"
          /\ AnswerOf(r) = IF Pending(r) THEN "none" ELSE "failed"
      BY <2>5, <1>c
    <3>2. /\ AskedOf(r)' = AskedOf(r) /\ PlaceOf(r)' = PlaceOf(r)
          /\ StageOf(r)' = "closed" /\ AnswerOf(r)' = "failed"
      BY <2>1, <3>1 DEF AskedOf, PlaceOf, StageOf, AnswerOf, IsUpload, Pending
    <3>3. CASE Pending(r)
      BY <2>2, <2>3, <3>1, <3>2, <3>3, FailStep
    <3>4. CASE ~Pending(r)
      BY <2>2, <2>3, <3>1, <3>2, <3>4, DropStep
    <3> QED
      BY <3>3, <3>4
  <2> QED
    BY <2>1, <2>4, <2>5 DEF Writes
<1>11. ASSUME NEW r \in Requests, LoseAnswer(r) PROVE Step
  <2>1. /\ pc[r] \in Writes /\ UNCHANGED <<requests, pc>> /\ Pending(r)
        /\ status'[r] = "UnknownError"
    BY <1>11, <1>a DEF LoseAnswer, AnswerLost, TypeOK
  <2>2. OnlyMoves(r)
    BY <1>11, <1>a DEF LoseAnswer, OnlyMoves, Kept, TypeOK, AnswerLost
  <2>3. UNCHANGED Bits
    BY <1>11, <1>a, BitsUnchanged DEF LoseAnswer
  <2>4. CASE pc[r] = "create"
    <3>1. Unseen(r)
      BY <2>1, <2>4, <1>b DEF Mapped, Unseen, AskedOf, PlaceOf, StageOf, AnswerOf, IsUpload
    <3> QED
      BY <2>2, <2>3, <3>1, OneStutters, Stutters DEF MappedUnchanged
  <2>5. CASE pc[r] \in {"push", "patch"}
    <3>1. /\ IsUpload(r) /\ StageOf(r) = "accepted" /\ AnswerOf(r) = "none"
      BY <2>1, <2>5, <1>c
    <3>2. /\ AskedOf(r)' = AskedOf(r) /\ PlaceOf(r)' = PlaceOf(r)
          /\ StageOf(r)' = "accepted" /\ AnswerOf(r)' = "failed"
      BY <2>1, <2>5, <3>1 DEF AskedOf, PlaceOf, StageOf, AnswerOf, IsUpload
    <3> QED
      BY <2>2, <2>3, <3>1, <3>2, FailStep
  <2> QED
    BY <2>1, <2>4, <2>5 DEF Writes
<1>12. CASE Crash
  <2>1. UNCHANGED Bits /\ UNCHANGED <<Asked, Place>>
    BY <1>12, <1>a, BitsUnchanged DEF Crash, Asked, Place, AskedOf, PlaceOf, IsUpload
  <2> DEFINE failed == {r \in Requests : IsUpload(r) /\ InFlight(r)}
             late == {r \in failed : pc[r] \in Writes}
  <2>2. \A r \in Requests :
           /\ pc'[r] = IF InFlight(r) /\ pc[r] \notin Writes THEN "done" ELSE pc[r]
           /\ status'[r] = IF InFlight(r) THEN "ConnectionLost" ELSE status[r]
           /\ IsUpload(r)' = IsUpload(r)
    BY <1>12 DEF Crash, Crashed, IsUpload
  <2>3. \A r \in failed : StageOf(r) \in {"open", "accepted"} /\ AnswerOf(r) = "none"
    BY <1>a, <1>b DEF Mapped, TypeOK, PCs, InFlight, Pending, Arrived, StageOf, AnswerOf
  <2>4. \A r \in late : StageOf(r) = "accepted"
    BY <1>b DEF Mapped, Writes, StageOf
  <2>5. ASSUME NEW r \in Requests
        PROVE  /\ StageOf(r)' = IF r \in failed \ late THEN "closed" ELSE StageOf(r)
               /\ AnswerOf(r)' = IF r \in failed THEN "failed" ELSE AnswerOf(r)
    BY <2>2, <1>b DEF Mapped, Writes, InFlight, Arrived, Pending, StageOf, AnswerOf
  <2>6. /\ Stage' = [r \in Requests |-> IF r \in failed \ late THEN "closed" ELSE Stage[r]]
        /\ Answer' = [r \in Requests |-> IF r \in failed THEN "failed" ELSE Answer[r]]
    BY <2>5 DEF Stage, Answer
  <2>7. /\ \A r \in failed : Stage[r] \in {"open", "accepted"} /\ Answer[r] = "none"
        /\ \A r \in late : Stage[r] = "accepted"
    BY <2>3, <2>4 DEF Stage, Answer
  <2> HIDE DEF failed, late
  <2>8. Promise!Fail(failed, late)
    BY <2>1, <2>6, <2>7 DEF Promise!Fail
  <2>9. failed \in SUBSET Requests /\ late \in SUBSET failed
    BY DEF failed, late
  <2> QED
    BY <2>8, <2>9 DEF Step, Promise!Next
<1>13. ASSUME NEW a \in AppGUIDs, NEW s \in Spaces, AppChanges(a, s) PROVE Step
  BY <1>13, <1>a, BitsUnchanged, NoneMoves, Stutters DEF AppChanges, MappedUnchanged
<1>14. ASSUME NEW g \in PackageGUIDs, NEW s \in Spaces, PackageDeleted(g, s) PROVE Step
  <2>1. packages'[g][s] = Deleted /\ UNCHANGED <<registry, requests, pc, status>>
    BY <1>14, <1>a DEF PackageDeleted, TypeOK
  <2>2. BitsOf(g, s)' = Deleted
    BY <2>1 DEF BitsOf, Exists
  <2>3. Bits' = [Bits EXCEPT ![g][s] = Deleted]
    BY <1>14, <1>a, <2>1, <2>2, BitsChange DEF PackageDeleted, TypeOK
  <2>4. Bits[g][s] \in Digests \cup {Awaiting}
    BY <1>14, <1>a, SlotHolds DEF PackageDeleted
  <2>5. Promise!Removed(g, s)
    BY <2>1, <2>3, <2>4, NoneMoves DEF Promise!Removed, Promise!Held, Promise!uploads
  <2> QED
    BY <2>5 DEF Step, Promise!Next
<1>15. ASSUME NEW g \in PackageGUIDs, NEW s \in Spaces, NEW t \in Spaces,
              PackageCopied(g, s, t)
       PROVE  Step
  <2>1. /\ packages'[g][t] = packages[g][s]
        /\ UNCHANGED <<registry, requests, pc, status>>
    BY <1>15, <1>a DEF PackageCopied, TypeOK
  <2>2. BitsOf(g, t)' = BitsOf(g, s)
    BY <2>1 DEF BitsOf, Stored
  <2>3. Bits' = [Bits EXCEPT ![g][t] = BitsOf(g, s)]
    BY <1>15, <1>a, <2>1, <2>2, BitsChange DEF PackageCopied, TypeOK
  <2>4. /\ Bits[g][s] = BitsOf(g, s) /\ Bits[g][s] \in Digests \cup {Awaiting}
        /\ Bits[g][t] = Absent
    BY <1>15, <1>a, SlotHolds DEF PackageCopied, Bits, BitsOf, Exists
  <2>5. Promise!Copied(g, s, t)
    BY <2>1, <2>3, <2>4, NoneMoves DEF Promise!Copied, Promise!Held, Promise!uploads
  <2> QED
    BY <2>5 DEF Step, Promise!Next
<1>16. CASE UNCHANGED vars
  BY <1>16, <1>a, BitsUnchanged, NoneMoves, Stutters DEF vars, MappedUnchanged
<1> QED
  BY <1>1, <1>2, <1>3, <1>4, <1>5, <1>6, <1>7, <1>8, <1>9, <1>10, <1>11, <1>12,
     <1>13, <1>14, <1>15, <1>16 DEF Next, HandlerStep, Quiescent

LEMMA InitStep == Init => Promise!Init
<1> SUFFICES ASSUME Init PROVE Promise!Init
  OBVIOUS
<1>1. /\ Asked = [r \in Requests |-> None] /\ Place = [r \in Requests |-> None]
      /\ Stage = [r \in Requests |-> "idle"] /\ Answer = [r \in Requests |-> "none"]
  BY DEF Init, NoRequest, Asked, Place, Stage, Answer, AskedOf, PlaceOf, StageOf,
         AnswerOf, IsUpload
<1>2. ASSUME NEW g \in PackageGUIDs, NEW s \in Spaces
      PROVE  BitsOf(g, s) \in Digests \cup {Awaiting, Absent}
  <2>0. packages[g][s] # Deleted
    <3>1. CASE packages = NoPackages
      BY <3>1, SlotAssumption DEF NoPackages
    <3>2. ASSUME NEW h \in PackageGUIDs, NEW t \in Spaces, NEW package \in Package,
                 packages = [NoPackages EXCEPT ![h][t] = package]
          PROVE  packages[g][s] # Deleted
      <4>1. packages[g][s] \in {package, Absent}
        BY <3>2 DEF NoPackages
      <4> QED
        BY <4>1, SlotAssumption, PackagesAssumption
    <3> QED
      BY <3>1, <3>2 DEF Init
  <2>1. packages[g][s] # Deleted /\ ReadyIsPushed /\ TypeOK
    BY <2>0, InitIInv DEF IInv
  <2>2. CASE Exists(packages[g][s])
    BY <2>1, <2>2, SlotHolds DEF Bits
  <2>3. CASE ~Exists(packages[g][s])
    BY <2>1, <2>3 DEF BitsOf, Exists
  <2> QED
    BY <2>2, <2>3
<1>3. Bits \in [PackageGUIDs -> [Spaces -> Promise!Held \cup {Absent}]]
  BY <1>2 DEF Bits, Promise!Held
<1> QED
  BY <1>1, <1>3 DEF Promise!Init

\* The handlers implement PackageBits.
THEOREM Refinement == Spec => UploadsAreAtomic
<1>1. Init => IInv /\ MapInv
  BY InitIInv, InitMapInv
<1>2. IInv /\ MapInv /\ [Next]_vars => IInv' /\ MapInv'
  BY NextIInv, NextMapInv
<1>3. IInv /\ MapInv /\ [Next]_vars => [Promise!Next]_Promise!vars
  BY NextStep DEF Step
<1> QED
  BY <1>1, <1>2, <1>3, InitStep, PTL DEF Spec, UploadsAreAtomic, Promise!Spec
=============================================================================
