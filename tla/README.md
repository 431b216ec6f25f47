# cf-k8s-api in TLA+

TLA+ modules, TLC configurations and TLAPS proofs for the CF API shim of this
repository: the HTTP handlers of `apis/` over the repositories of
`repositories/`, which keep every Cloud Foundry resource as a Kubernetes object.

## 1. The system

The shim has no state of its own. `main.go` builds one handler per resource
and calls `http.ListenAndServe` (main.go:157); `net/http` serves every request in
a goroutine. A handler is a sequence of calls to the Kubernetes API server (and,
for an upload, to the image registry); nothing orders the calls of two requests,
there is no transaction, no lock, no resource version in a write, and no retry.
What a handler read it uses later, after calls that take time. The objects are
also written by others: the controllers of cf-k8s-controllers, HNC (the
hierarchical namespace controller), and `kubectl`.

A resource is addressed by a GUID, which is the object's name. The namespace is
not part of the address, so every `Fetch...` lists the objects of the whole
cluster, filters by `metadata.name`, and answers *not found*, *duplicate*
(an unknown error for the client) or the one object. Decision record 0001
describes a cache from GUID to namespace; the code has none.

### 1.1 Components

| Component | State | Operations | Hard behaviour | Correct if |
|---|---|---|---|---|
| packages (`package_handler.go`, `package_repository.go`) | CFPackage objects | create; upload: fetch, check, registry credentials, push, patch | check-then-act over a long push; lost answers; a crash between push and patch | a READY package has its image; an answer holds; a second upload is refused only when a first one's bits are stored |
| source image upload (`upload_source_image.go`) | the registry | push one layer, return the reference by digest | the push may land although its answer is lost | the reference names the image of that package |
| apps (`app_handler.go`, `app_repository.go`) | CFApp objects, `<guid>-env` secrets | create, start, stop, set current droplet | secret and app are two writes; start and droplet are checked on old records, patched by field | a started app has a droplet; it is its own; changes do not undo one another; no app without its secret |
| builds, droplets (`build_handler.go`, `droplet_handler.go` and repositories) | CFBuild objects | create; get build; get droplet | two views of one object whose conditions arrive one at a time | the views agree; an outcome, once shown, stays |
| orgs, spaces (`org_handler.go`, `space_handler.go`, `org_repository.go`) | subnamespace anchors | create and wait for HNC; list | a watch set up after the write, a deadline, a list put together from two reads | 201 only if the anchor was Ok; lists are right for the time of the request; every create ends |
| processes, reads of apps (`process_handler.go`, `process_repository.go`, the reads of `app_handler.go`) | CFProcess objects | get app, list apps, processes of an app, get process, sidecars | the app and its namespace are read one after the other; copies | a list is right for the time of the request and of one app; a 404 means a deletion |
| identity, authorization (`repositories/authorization`, `repositories/provider`, `org_repository_auth_decorator.go`) | role bindings (read) | header, token review; namespaces bound to the caller | read after the orgs | a list shows no org without a role binding for the caller's kind and name |
| routes, domains (`route_handler.go` and repositories) | CFRoute, CFDomain objects | create, get, destinations, list, routes of an app | the domains of a list are fetched one by one | one name per domain in one answer; names are timely; one space per app |
| error responses (`apis/shared.go`) | – | the answer for each failure | – | which failure gives which answer |
| payloads (`apis/shared.go`, `payloads/`) | – | decode a body, validate it by tags, convert it | what `required` means differs for structs, pointers, lists and strings; types nest and are shared | accepted exactly if it has what the API asks for; no nil is dereferenced |
| presenters (`presenter/`), endpoints (`RegisterRoutes`, `main.go`) | – | the links of a document; the paths that are served | every path is written twice, links are followed later | a link leads to what it names, for as long as that is there |
| root and resource matches, configuration | – | constant answers, reading of files at the start | – | – |

### 1.2 Interactions

* package create reads the app and writes beside it; build create reads the package
  and writes beside it; set current droplet reads the app, then the build;
  the routes of an app read the app, the routes of its namespace, then the domains.
* a `cf push` goes through all of these: create a package, upload its bits, create a
  build, poll it, set the current droplet, start. Each handler checks what it is given
  against a record that another one wrote; none knows the order.
* the staging controller reads the image of the package of a build, when it gets to it.
* the staging controller sets the conditions `Staging` and `Succeeded` and
  `status.BuildDropletStatus` of a build, which the shim reads as build and as droplet.
* `kubectl` deletes objects, and puts a copy of one into another namespace under the same name (a restore, a move).
* the webhook of cf-k8s-controllers refuses an app, an org or a space whose name is taken.
* HNC makes the namespace of an anchor and sets the anchor's state.
* a namespace that is deleted takes its apps, secrets, builds and routes with it.

## 2. The modules

| Module | Models |
|---|---|
| `Cluster` | a store of objects by GUID and namespace, and the three outcomes of a cluster-wide fetch |
| `Handlers` | a request's control: the next call (`pc`), the answer (`status`), failed calls, lost answers, crashes |
| `Packages` | package create and upload, the registry |
| `Apps` | app create, start, stop, set current droplet |
| `Builds` | build create, build get, droplet get |
| `Orgs` | org and space create and list, with and without authorization |
| `Routes` | route create, get, list, the routes of an app, domains |
| `Processes` | get and list of apps, the processes of an app, process get, sidecars |
| `Push` | `Packages`, `Builds` and `Apps` at work on one cluster, with the staging controller between them |
| `Payloads` | decoding, validation and conversion of the seven request bodies |
| `Links` | the links of the documents, the endpoints, and a client that goes from one to the other |
| `PackageBits` | what the upload endpoint promises: an abstract specification, without the registry and the calls |
| `PackagesRefinement` | the mapping from `Packages` to `PackageBits` |
| `AppChanges` | what a start, a stop and a change of the droplet promise: an abstract specification, without the calls |
| `AppsRefinement` | the mapping from `Apps` to `AppChanges` |
| `PackagesProofs`, `AppsProofs`, `BuildsProofs`, `OrgsProofs`, `RoutesProofs`, `ProcessesProofs`, `LinksProofs` | theorems about the module each one is named after, with their proofs; `PackagesProofs` and `AppsProofs` also have the proofs that `Packages` implements `PackageBits` and `Apps` implements `AppChanges` |
| `PushProofs` | theorems about `Push`, on top of instances of `PackagesProofs`, `BuildsProofs` and `AppsProofs` |
| `MC...` | symmetry sets for TLC; one module per specification, extended by its `.cfg` files |

### 2.1 How state and actions correspond to the code

**Stores.** `packages[g][s]`, `apps[a][s]`, ... is the object named `g` of namespace
`s`, or `Absent`, or `Deleted`. An object holds only what some guard or some
property reads: an app its name, desired state, droplet and whether it names its
secret; a package its app and image; a build its app, package, conditions and
whether it has a droplet status. Names are UUIDs (`Fresh`), and a removed object is
not written again under its name, except for domains, which people name.

**Handlers.** `pc[r]` is the call that the handler of request `r` makes next, and
each call with everything the handler does until the next one is one action:
the effect at the API server, the branch on the result, the answer. `requests[r]`
is what the handler holds in its variables. `Receive...` is the arrival, with the
payload decoded, validated, and the client built; its error answers are the
outcomes of these. `ReadFails` is a failing read of any kind.

**Writes.** A write is in one of the sets `Writes`. It can take effect (the action
named for it), be refused (`RefuseWrite`, or `RefuseDuplicate` for the webhook),
or lose its answer (`LoseAnswer`): the handler then answers an unknown error, and
the write stays under way, so that it may still take effect later or never. A crash
(`Crash`) does the same to every request at once. `Landed` settles a write and
answers if there is still someone to answer. No write is sent twice: the handlers do
not retry, and neither does the client of controller-runtime.

**Patches.** `UpdatePackageSource`, `SetCurrentDroplet` and `SetAppDesiredState`
build a bare object, change one field and send `client.MergeFrom(base)`: the patch
has only that field and no resource version. So `Changed` alters that field of the
object as it is when the patch lands, and a patch of a deleted object is refused.

**The environment.** `AppChanges`, `PackageCreated`, `PackageCopied`, `BuildStaged`, `SetState`,
`ChangeBinding`, `DomainSet`, `SpaceDeleted`, ... are the steps of kubectl, HNC and
the controllers, as far as the handlers can see them.

**History.** `after` in a request record, and `history` in `Orgs`, `Routes` and `Processes`, are
there for the properties only: which requests were over when this one arrived,
and what the cluster was like while it was running. No action's guard reads them.

**Composition.** `Push` holds the apps, packages, builds and the registry once. `P`, `B` and
`A` are instances of `Packages`, `Builds` and `Apps` over them, each with a set of
requests of its own; where a module knows less of an object than another
one (`Builds` has of a package its app only), the instance is given a view (`View`).
A step of a handler leaves what the other modules alone know unchanged, and a crash takes
the requests of all three. `TakeImage` and `FinishBuild` are the staging controller: it
reads the image that the package has at that time, and decides the build later. A build whose
package is without an image, or gone, waits or fails. `AppDeleted`, `AppCopied`, `PackageDeleted`, `PackageCopied`,
`BuildDeleted` and `BuildCopied` are kubectl, as in the modules composed. What these have and `Push` leaves out: the
creation of apps (all of them are there from the start), their secrets, start and stop, reads of builds and droplets, and
the deletion of a namespace as one step; the namespaces stay.

**Callers.** A caller of `Orgs` is a user, or a service account of some namespace. `WhoAmI` keeps its kind and
its name, for a service account the last segment of the name (token_reviewer.go:54), and
`GetAuthorizedNamespaces` compares these two with the subjects of the role bindings (authorization/org.go:32).
`Identity` is that conversion: service accounts of one name in different namespaces are one caller to the shim,
and each is shown the orgs with a role binding for the other. `ListIsTimely` speaks of the caller in this sense.

**Bodies.** In `Payloads`, `body[p]` tells what the body has at the place `p`: nothing, null,
a value of another type, an empty one, one that the field's own rule refuses, or a good
one. A field has a type and the tags of its `validate`. The client writes the fields in any
order, so that every body is sent. What a struct that was left out means for the
fields within it (`Reached`) is the library's doing, as are the meanings of `required`
(`Satisfied`).

**Links.** `Links` serves a request in one step, at the time of its last read, since its subject
is where a path leads and not what may happen between two reads; the other modules
have these calls one by one. A path is a base, a GUID and a rest. `LinksOf` is made from
the presenters, `Endpoints` from the `RegisterRoutes` of the handlers, and `Follow` has the
router match one against the other. Objects are created, staged, pointed elsewhere and
deleted while the client looks at an old document.

**Refinement.** `PackageBits` has for a package its bits only, and for an upload the stages
*open*, *accepted*, *closed* and what the client was told. `BitsOf` maps the image of a package to
its content only if the registry holds it, and to `NoBits` otherwise, where no step of
`PackageBits` leads. The fetch maps to `Accept` or `Refuse`, the registry's steps
to stuttering, the patch to `Store`, a lost answer to `Fail` with the upload left under way.

`AppChanges` has the apps as they are, but of the builds only which of them were staged for which
app (`staged`) and which can be found as droplets (`droplets`); secrets, namespaces and the create handler are gone.
The fetch of the app maps to `Accept`, `RefuseMissing` or `RefuseStart`, that of the droplet to `RefuseDroplet` or to
stuttering, and the patch to `Make`, which has the checks of both fetches in its guard (`Allowed`): that they
hold when the patch lands is what is to be shown. All that others do to apps and builds is `Others`.

**Variants.** Definitions with a comment "A variant that ..." are altered versions of the
definition that follows them. No specification uses them; they serve to see
that a property would notice the mistake.

### 2.2 Assumptions about code outside this repository

* The API server carries out one call atomically; a call either answers or breaks.
* Names generated by `uuid.New` do not collide.
* A namespace that is read may be answered *unauthorized*, whether it is there or not; the handlers then tell
  the client, with 422, that it is not there or not to be read (app_repository.go:122), and likewise for a
  domain (domain_repository.go:33).
* The webhook refuses a name that is taken at that moment; it may also fail.
* The staging controller sets the conditions in any order until both are decided and
  then leaves them. It may write `status.BuildDropletStatus` before or after them.
* A copy of an object in another namespace starts without a status.
* An anchor that has anchors below it is not deleted.
* A watch without a resource version first tells the present state of the anchor.

## 3. What TLC checks

Every run is on a small instance, with all interleavings and with failures, lost answers and
crashes at every call (`Payloads` and `Links` have neither calls nor crashes). Deadlock is
checked in every run; `Quiescent`, or `Done`, is the only step of a system in which every
request was served and nothing is under way. A configuration is named after the module
it instantiates, without or with a word for its question.

| Configuration | Instance | Properties | States |
|---|---|---|---|
| `MCPackages` | 2 requests, 2 spaces, 1 app, 1 package, 2 contents | `TypeOK` `ReadyIsPushed` `AnsweredIsKept` `RefusedOnlyWhenStored` `NoUploadAfterOK` `EveryRequestAnswered` `UploadsAreAtomic` | 173,488 |
| `MCPackagesOnce` | the same with 1 space | `BitsUploadedOnce` (violated, section 5) | – |
| `MCApps` | 2 requests, 2 spaces, 2 apps, 1 name, 1 build | `TypeOK` `StartedHasDroplet` `CurrentDropletIsOwn` `ChangesStick` `EnvIsThere` `OrphanIsKnown` | 3,194,056 |
| `MCBuilds` | 2 requests, 2 spaces, 2 apps, 1 package, 1 build | `TypeOK` `ReferencesResolve` `NotFoundIsDeleted` `OutcomeStays` | 648,482 |
| `MCOrgs` | 2 requests, 2 GUIDs, 1 name, 2 service accounts of one name, with authorization | `TypeOK` `CreatedWasOk` `RefusedLeavesNothing` `ListIsTimely` | 2,874,021 |
| `MCOrgsPrivileged` | 2 requests, 1 GUID, 2 names, 1 user, without authorization | `EveryRequestAnswered` | 94,848 |
| `MCRoutes` | 1 request, 2 spaces, 2 routes, 1 domain, 2 names, 1 app | `TypeOK` `OneNamePerDomain` `AnswerIsTimely` `AppRoutesInOneSpace` `DomainWasThere` | 546,970 |
| `MCProcesses` | 2 requests, 2 spaces, 2 apps, 1 process | `TypeOK` `ListIsTimely` `ProcessesOfOneApp` `ShownIsFound` | 4,117,785 |
| `MCPush` | 2 uploads or package creates, 1 build create, 1 change of an app, 2 spaces, 1 app, 1 package, 1 build, 2 contents, `FewMoves` | `DropletIsHere` `RunsOwnBits` `StagesUploadedBits` | 1,007,742 |
| `MCPayloads` | the 7 payloads, every body | `AcceptedIsComplete` `NoNilRead` `AcceptedIfAcceptable` | 1,554,134 |
| `MCPayloadsNull` | the same | `MissingIsUnprocessable` (violated, section 5) | – |
| `MCLinks` | 2 apps and 1 object of every other kind | `LinksLeadThere` `LinksHold` `WalkStaysWithApp` | 300,823 |

**The bounds.** Each request is served once, so `Requests` bounds how many requests a behaviour has. Two
handlers make a race; the rest of the world (deletions, copies, conditions, bindings) is not bounded by it, so
that one or two requests are enough where the race is with the environment. Two namespaces give the duplicates
and the copies that a fetch can meet. Two contents tell one upload from another; two apps tell own from foreign.
In `MCRoutes` two routes of one domain give the sharing and the rename between two fetches; `history` speaks of
one request, and no request reads what another holds. `MCPush` has one request for each step of a push and a
second one for the race of two uploads, or for the create before the upload. It has a constraint, `FewMoves`, on
what one behaviour has of all that: with one upload, kubectl puts objects of one of the three kinds into the
second namespace; with two uploads it moves and deletes packages alone, no droplet being set, or puts nothing
there (TLC also finds the properties true without the bound when there is one upload, 1,086,338 states). The
proofs know no such bound. One app is not enough to tell own from foreign, which for the current droplet is the
subject of `MCApps`, with two apps (`CurrentDropletIsOwn`); `Push` with two apps, in one namespace, is too large
to be a run beside the moves, and TLC finds the two properties true that this could concern (`RunsOwnBits` and
`StagesUploadedBits`, 2,928,024 states). `MCPayloads` needs no bound: a place of a body has at most five kinds
of values, and all bodies are written. A link of `MCLinks` tells its target from another object of the same kind
(the second app) and from objects of other kinds. Objects are made and deleted at most once per GUID and
namespace, which bounds the environment.

Symmetry is used in runs of invariants only, and for sets whose members no definition
tells apart. `MCPackages` has temporal properties and uses none; `MCBuilds` does not exchange namespaces,
since a variant of `Builds` picks a fixed one.

**What the properties are about.**

* `ReadyIsPushed`, `AnsweredIsKept`, `RefusedOnlyWhenStored`, `NoUploadAfterOK`: the upload pushes, then
  patches, with a check long before. The answers of any two uploads are consistent with what is stored,
  whichever one failed on the way. After a 200 (`AnsweredIsKept`) the bits stored are those of this upload or of
  one that overlapped with it; that it need not be the former is the disagreement of section 5.
* `StartedHasDroplet`: the start is decided on an old record. It holds because
  nothing takes a droplet away: the only writer replaces it.
* `ChangesStick`: a 200 of start, stop or set droplet is undone only by a request on
  the same field that was not over before (or whose write was still under way).
* `CurrentDropletIsOwn`: the droplet was a staged build of the app.
* `EnvIsThere`, `OrphanIsKnown`: the two writes of app create, with any of them failing.
* `NotFoundIsDeleted`, `OutcomeStays`, `ReferencesResolve` (`Builds`): the two views of a build, polled while
  the controller works, and the namespace of its references. `NotFoundIsDeleted` is about the answer 404 alone:
  the handler of droplets may still break the connection of a client that was shown STAGED (section 5).
* `CreatedWasOk`, `RefusedLeavesNothing`, `ListIsTimely` (`Orgs`): what a client of orgs and
  spaces may conclude from an answer. A list is not a snapshot: with authorization it is
  made of two reads, and the property says what still holds.
* `OneNamePerDomain`, `AnswerIsTimely`, `AppRoutesInOneSpace`, `DomainWasThere`:
  answers put together from several reads.
* `ListIsTimely`, `ProcessesOfOneApp`, `ShownIsFound` (`Processes`): the processes of an app are
  read in the namespace where the app was a moment ago, and a 404, which clients take
  for the end of an object, is never the answer to a mere copy of it.
* `UploadsAreAtomic`: the upload is a fetch, a push and a patch, any of which can fail, be lost
  or land late; to a client it looks like one step, that is taken once or not at all.
* `DropletIsHere`, `RunsOwnBits`, `StagesUploadedBits`: what holds of a push as a whole, though no handler
  checks it, while kubectl deletes and copies. `DropletIsHere` has an exception, which the code does take: once
  the app, or the package of the droplet, was put into a second namespace, a build made there can become the
  droplet of the app here. There is no other way. No handler compares the namespace of a droplet with that of
  the app, none of the builds looks at the state of the package, and the controller reads the image at a time of
  its own.
* `AcceptedIsComplete`, `AcceptedIfAcceptable`, `NoNilRead`: `AcceptedIfAcceptable` compares the tags of the
  payload types, under the rules of the library, with what each endpoint needs, stated
  separately (`Needed`, `WholeLifecycle`). The other two are about what is done with a
  body that was accepted.
* `LinksLeadThere`, `LinksHold`, `WalkStaysWithApp`: the paths that presenters put together against those that
  handlers take apart, and what they name when they are followed later.

**Fairness.** `WF_vars(HandlerStep(r))` for every request and nothing else. A call of a
handler answers or breaks, since the connection or the request's context ends, and for a
watch `context.WithTimeout` (main.go:36, 30 seconds) does; a goroutine that can go on is
scheduled. Clients, crashes, HNC, the controllers and kubectl owe nothing, so
`EveryRequestAnswered` holds although HNC may never get to an anchor. `Push`, `Payloads`, `Links`,
`PackageBits` and `AppChanges` state no fairness: they are about safety only.

## 4. What is proved

Every theorem holds for any sets of requests, namespaces, objects, names and contents that satisfy
the assumptions named in the modules. These say

* that the placeholders (`None`, `Absent`, `Deleted`, `NoImage`, `Root`) differ from one another where
  they meet, and are none of the values they stand beside: GUIDs, names, contents, records of objects, and
  the strings for operations and states (a model value stands for what Go writes as the zero value);
* that objects of different kinds do not share a GUID, where a definition takes a GUID of either kind (apps and
  processes in `Processes`, every kind in `Links`): each object gets a UUID of its own;
* that `AuthEnabled` is true or false.

They bound nothing, and TLC evaluates each of them in the runs of section 3. `PushProofs` needs two more values,
which stand for bits that are awaited and bits that the registry lacks (`Awaiting`, `NoBits`): it chooses two
that are no contents.

| Module | Theorem | States |
|---|---|---|
| `PackagesProofs` | `TypeCorrect` | `Spec => []TypeOK` |
| | `ReadyCorrect` | `Spec => []ReadyIsPushed` |
| | `AnswersHold` | `Spec => []AnsweredIsKept` |
| | `RefusalsHold` | `Spec => []RefusedOnlyWhenStored` |
| | `LaterUploadsRefused` | `Spec => []NoUploadAfterOK` |
| | `OnlyOverlapReplaces` | a step that changes a READY package is the patch of an upload that came after no answered one of that package |
| | `Refinement` | `Spec => UploadsAreAtomic` |
| `AppsProofs` | `Typing` | `Spec => []TypeOK` |
| | `StartedSafety` | `Spec => []StartedHasDroplet` |
| | `DropletSafety` | `Spec => []CurrentDropletIsOwn` |
| | `EnvSafety`, `OrphanSafety` | `Spec => []EnvIsThere`, `Spec => []OrphanIsKnown` |
| | `ChangesSafety` | `Spec => []ChangesStick` |
| | `Refinement` | `Spec => ChangesAreAtomic` |
| `OrgsProofs` | `Typing` | `Spec => []TypeOK` |
| | `CreatedSafety` | `Spec => []CreatedWasOk` |
| | `RefusedSafety` | `Spec => []RefusedLeavesNothing` |
| | `ListSafety` | `Spec => []ListIsTimely` |
| `BuildsProofs` | `Typing` | `Spec => []TypeOK` |
| | `ReferencesSafety` | `Spec => []ReferencesResolve` |
| | `NotFoundSafety` | `Spec => []NotFoundIsDeleted` |
| | `OutcomeSafety` | `Spec => []OutcomeStays` |
| `RoutesProofs` | `Typing` | `Spec => []TypeOK` |
| | `NameSafety` | `Spec => []OneNamePerDomain` |
| | `AnswerSafety` | `Spec => []AnswerIsTimely` |
| | `AppRoutesSafety` | `Spec => []AppRoutesInOneSpace` |
| | `DomainSafety` | `Spec => []DomainWasThere` |
| `ProcessesProofs` | `Typing` | `Spec => []TypeOK` |
| | `ListSafety` | `Spec => []ListIsTimely` |
| | `OneAppSafety` | `Spec => []ProcessesOfOneApp` |
| | `ShownSafety` | `Spec => []ShownIsFound` |
| `LinksProofs` | `LinksLead` | `Spec => []LinksLeadThere` |
| | `LinksSafety` | `Spec => []LinksHold` |
| | `WalkSafety` | `Spec => []WalkStaysWithApp` |
| `PushProofs` | `PackagesImplemented` | `Spec => PP!Init /\ [][PP!Next]_PP!vars` |
| | `PackagesSafety` | the safety properties of `Packages` hold of `Push` |
| | `PushKeepsThePromise` | `Spec => PP!UploadsAreAtomic` |
| | `BuildsImplemented` | `Spec => BP!Init /\ [][BP!Next]_BP!vars` |
| | `ReferencesSafety` | `Spec => []BP!ReferencesResolve` |
| | `AppsImplemented` | `Spec => AP!FirstState /\ [][AP!Next]_AP!vars` |
| | `ChangesSafety` | `Spec => []AP!ChangesStick` |
| | `PushKeepsChanges` | `Spec => AP!ChangesAreAtomic` |
| | `DropletSafety` | `Spec => []DropletIsHere` |
| | `BitsSafety` | `Spec => []RunsOwnBits` |
| | `StagingSafety` | `Spec => []StagesUploadedBits` |

### 4.1 How the proofs go

Hardly any of these properties is inductive alone: they speak of what was answered, and a handler may
be anywhere between its first read and an answer. Each module has an inductive invariant
`IInv`, whose parts say what a handler has in hand at each of its calls; `InitIInv` and `NextIInv`
prove it, part by part and, under a part, action by action (`Next...` lemmas), and each theorem
follows from it. Four kinds of parts come back in every module:

* *what a handler holds* (`Holds`, `RequestInv`): which fields are set, and to values of which set,
  at which call; and that a handler which has answered, but is not done, has a write under way
  and told its client of an error;
* *names are fresh* (`CreateInv`): a handler about to create holds a name that no object and no
  other create has, so that its write, which may land after its answer was lost, overwrites
  nothing;
* *tombstones* (`SlotInv`, `SeenInv`, `TakenInv`, ...): what was read, shown or answered names a slot
  that is not blank any more, and stays so;
* *requests that are over* (`AfterInv`): those that a request came after were answered, for good.

Where the steps of many actions look alike to an invariant, a lemma first says what a step can
do to one slot or to one request (`SlotsKept`, `EveryAppsStep`, `BuildsStep`, ...), and the
preservation lemmas use nothing else of the actions.

**Packages.** `UploadInv` says, at the patch, that the registry holds the image about to be written, in the
repository of the package. The registry only grows, so this lasts until the patch lands. `AnswerInv`
(`Answered`, `Settled`) says that a request with one of the three answers that promise something names a slot
with a package, and, for an upload or a refusal, with a stored image or a deletion. `OriginInv` names the upload
whose bits an image has, one that overlapped with every upload of this package and namespace that was answered
200. `NoUploadAfterOK` follows since an upload that was answered OK settles the slot: a later one that reads the
slot finds an image there and is refused. `OnlyOverlapReplaces` says what is left of "bits may be uploaded only
once" (section 5): in a step that replaces an image, the upload that patches came after no upload of that
package that had been answered 200.

**Apps.** `StartInv` carries the check of a start from the read to the patch: once a start saw
a droplet, its app has one whenever the app is there, since nothing takes a droplet away. `DropletInv` does the
same for the check of set current droplet: the build was staged as one of this app, or is deleted.
`SecretInv` ties the second write of a create to the first one, and `OwnerInv` gives every secret
its create. `ChangesStick` is inductive with `SlotInv` and `AfterInv`: the patch that undoes a change is
the work of a request that was not over when the change came.

**Orgs.** `AnchorInv`: the anchor of a create that was refused, or that has yet to be written,
is not there. `HistoryInv` says that the history of a running request covers the present
(what is Ok, bound, and has been listable all along), `EventInv` that an event of the watch told of
a state in that history, and `FoundInv` that the orgs of the first read are timely when
the bindings are read.

**Builds.** `TakenInv` holds the app and the package that a create took together until the write
lands, whatever happens to the package. `SeenInv` says that what was shown of a build is still true of one
copy of it, or that it was deleted; since a build that was decided stays so and a copy starts without
a status, two answers about one name cannot contradict each other.

**Routes.** `TodoInv`: a domain whose name is shown is not fetched again, which is what makes an answer
agree with itself. `SpaceInv`: the routes of an app are of the namespace the app was found in.
`NamesInv` and `StableInv` relate `history` to the present, and to the routes still to be shown.

**Processes.** `HistoryInv`: the processes that stayed beside the app since the request arrived are
in the namespace that will be listed, which was a home of the app. `SeenInv`: what was shown is there or was, so
that *not found*, which needs a blank or deleted slot everywhere, means a deletion.

**Links.** Here the invariant is about two things that never meet in one state: a document in the hands of the
client and the cluster as it has become. `ObjectsInv` says what objects are: a record matches the kind of its
GUID, and the droplet of a build that is staged is that build, made for an app that was there. `ClientInv`
(`DocHolds`) says of the document that what it shows was so when it was made and that its links name objects
that were there, deleted since or not. `TargetInv`: what was answered 404 was deleted. `Evolves` is all that a
step may do to an object, and `DocHolds` survives it. `EndpointsRoute` and `LinkLeads` go through the two tables
once: to which handler, and with which GUID, the router brings the path that a presenter wrote; `FollowEnds`
then needs nothing else of them. TLC has checked `ObjectsInv`, `ClientInv` and `TargetInv` on the instance of
`MCLinks` as well.

**Push.** The proof uses that of Packages: `PP` is an instance of `PackagesProofs` over the variables of `Push`,
and `StepIsPackages` shows that every step of the composition, the moves of kubectl included (`MoveIsPackages`),
is a step of Packages or leaves all of its variables unchanged, the apps' namespaces among them. So `PP!IInv`
holds of `Push` (`PackagesImplemented`), and `PP!OriginInv` with it. A move breaks what one would like to say,
that app, package, build and droplet are in one namespace; what it leaves intact is that each was *made* beside
the other. `Beside` says so of a package and its app (`PackageInv`), `MadeOf` of a build, its package and its
app (`BuildsInv`), `DropletOf` of an app and its droplet (`DropletInv`), and `StagingHeld` and `ChangeHeld` of
what the handlers hold between two calls. `DropletIsHere` follows: when the droplet is not where the app is, the
chain from the one to the other passes through a slot of another namespace. `TakenWell` says that what a build
was staged from is an image of its package that one of its uploads put there (`PP!Origin`), wherever copies of
both went; this gives `RunsOwnBits`, with `RegistryInv` (every image of the registry was pushed by an upload,
`Pushed`), and `StagesUploadedBits`. The steps of one part of the state are described once (`EveryAppsStep`,
`EveryPackagesStep`, `EveryBuildsStep`), and the invariants are preserved by whatever steps so. The promise of
`PackageBits` comes over in the same way (`PushKeepsThePromise`), with the lemmas of the refinement used once
more.

Builds and Apps are instances of their proof modules too, `BP` and `AP`, which see packages and builds through
`PackageView` and `DropletView`. `StepIsBuilds` and `StepIsApps` show that every step of `Push` is a step of
each of them, or a stutter. The work of one module is the environment of another: a create of Packages is
`PackageCreated` of Builds, since its name is new (`CreateInv`), while its patch changes nothing that Builds
sees; a create of Builds is `BuildCreated` of Apps, the controller's verdict `BuildStaged`, or nothing, and a
copy `BuildCopied` or `AppCopied` (`BuildCopiedIsApps`, `MoveIsApps`). So the composition does nothing that the
modules alone have not been checked for: their environments are not too tame. `ChangesStick` and
`ReferencesResolve`, which speak of what a client was answered, hold in `Push` for that reason. (`Push` starts
with all of its apps, `Apps` with at most one: the proof of `Apps` starts from `FirstState`, which is what both
have in common.)

**The refinements.** `Refinement` of Packages rests on `IInv` of Packages and on `MapInv`, which says what the
mapping needs of a request: the calls of an upload are those of the upload handler, the image it is about to
patch is that of its own bits, and a request is over only when it is answered. `InitStep` maps the initial
states, `NextStep` every step to a step of `PackageBits` or to a stutter, action by action: `BitsStay`,
`BitsUnchanged` and `BitsChange` say what a step does to the mapped bits, `OneMoves`, `OneStutters` and
`NoneMoves` to the mapped requests. `ReadyIsPushed` is what keeps `NoBits` from the mapped bits: a patch writes
an image that the registry holds.

`Refinement` of Apps has the same shape, with `OverInv` (a request is over only when it is answered) beside
`IInv` and a lemma for each step (`AskStep`, `FetchAppStep`, `PatchStep`, ...). `StartInv` and `DropletInv` give
`PatchStep` the guard of `Make`; `Changed` gives the same record as `Made`, the patch being of one field.
`AppSteps` and `DropletStays` show that all other steps are `Others`: an app is created stopped and without a
droplet, copied or deleted for good, and what was once staged for an app stays so. `ChangesAreAtomic` is a
property of `MCApps` too, but with two apps and two namespaces TLC takes too long over it for a run; with one
app, or with one namespace, it finds it true. `PushKeepsChanges` carries it over to `Push`, as `StepIsApps`
allows.

### 4.2 What is model-checked only

* `EveryRequestAnswered`, in `Packages` and in `Orgs`: liveness under fairness, which the provers
  do not handle. The safety proofs use no fairness.
* `AcceptedIsComplete`, `NoNilRead`, `AcceptedIfAcceptable`: the subject of `Payloads` is a fixed table of seven
  payload types and their tags. TLC writes every body there is, without a bound, so that a proof
  would say nothing more.
* The violated properties of section 5.

## 5. Disagreements between the code and its words

**Bits are uploaded once.** `apis/shared.go:159` tells a client "Bits may be uploaded only once. Create a new package
to upload different bits." `MCPackagesOnce` states this as `BitsUploadedOnce`: an image
once set stays. TLC finds two uploads that both fetch the package while it awaits
its bits; both push, both patch, both are answered 200, and the second patch
replaces the image of the first (package_handler.go:166 checks, line 188 patches without
a resource version). `NoUploadAfterOK` is what does hold: an upload that
begins after another one was answered is refused.

**A missing field is answered 422.** `apis/app_handler_test.go:259` says "the request body is invalid with
missing required name field" and expects *Name is a required field* with status 422. `MCPayloadsNull` states
this for every endpoint as `MissingIsUnprocessable`. The body `null` lacks the field as well. Decoding
it into `&object` (apis/shared.go:40) is no error and leaves a nil interface, `v.Struct` then returns an
`InvalidValidationError` (line 73), and the assertion that the error is a list of
broken rules (line 75) panics: the connection is dropped without an answer. For every other body
`NoNilRead` and `AcceptedIfAcceptable` hold.

Two more things a reader of the models will meet. A create of an org that times out
leaves its anchor, and a second try is refused as a duplicate. And a droplet whose build
has its conditions before its `status.BuildDropletStatus` makes
`cfBuildToDropletRecord` panic (droplet_repository.go:65); `net/http` then drops
the connection. The order of these writes is the controller's, which is not in this
repository.

## 6. What is not modelled

* The contents of objects that no guard reads: labels, annotations, lifecycle data,
  timestamps, host and path of a route, values of environment variables. Presenters copy
  them from the record into the document.
* JSON, and titles, codes and texts of errors.
* The temporary file and the zip conversion of an upload: no state of theirs outlives the call.
* `resource_matches`, which answers a constant.
* Configuration and the building of clients, before the first request.
* The generated fakes and the test helpers, which are no part of the program.
* What is not in this repository: the order in which the staging controller writes, and the webhook
  that would refuse a second route of one host, path and domain (route_handler.go:275 says that it is yet to
  be written). Two such creates both succeed.

## 7. Plan

Done: `Cluster`, `Handlers`, `Packages` with its abstract specification and the proof of the
refinement, `Apps` with the same, `Builds`, `Orgs`, `Routes`, `Processes`, `Payloads`, `Links`, and `Push`, which
composes the first three; proofs of every safety property that a run checks, but for those of `Payloads`;
proofs that `Push` does nothing that `Packages`, `Builds` and `Apps` do not allow.

Open: an abstract specification of the creation of an anchor as one step, with a proof of the refinement that
rests on the invariants of `OrgsProofs`.
