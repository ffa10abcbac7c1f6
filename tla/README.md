# Nacos Controller in TLA+

Nacos Controller is a Kubernetes operator that keeps two systems in line: the
ConfigMaps, Secrets and Services of a cluster and the configs and services of a
Nacos server.  This directory models the parts of it that carry state through
several calls, checks them with TLC on small instances and proves the most
important safety properties with TLAPS for every value of the constants.
`PROJECT.json` lists the runs, the mutants, the lines each definition stands
for, the findings and the hazards.

## The system

| Part | Source | State it keeps | Operations | What makes it correct |
|---|---|---|---|---|
| ConfigMap and Secret reconcilers | `pkg/controller/configmap_controller.go`, `secret_controller.go`, `pkg/nacos/config_sync_controller.go` | finalizer of the object, listen list and digests in the status of the DynamicConfiguration (DC), configs on the server | Reconcile, DoReconcile, Finalize, configDataIdSync | at rest both sides agree or the status says where they do not; no content gets lost; a deleted object goes away |
| Nacos change callback | `pkg/nacos/server2cluster.go` | the object, the DC's status, one mutex per DC | CallbackWithContext, syncConfigToLocal, LockManager | an edit in Nacos reaches the cluster and survives; callbacks of a DC exclude each other; none starves |
| Object wrappers | `pkg/nacos/object_reference_wrapper.go`, `util.go` | a copy of one object | Reload, GetContent, StoreContent, Flush | the write back does not undo the writes of others |
| DC status | `pkg/nacos/dynamicconfiguration_util.go` | ListenConfigs, SyncStatuses, phase | UpdateSyncStatus, AddListenConfig, UpdateStatus ... | it says what has been synced, and the next pass decides by it |
| DC reconciler | `pkg/controller/dynamicconfiguration_controller.go`, `pkg/nacos/nacos_controller.go` | the DC's status and finalizer, fuzzyListenMap | SyncDynamicConfiguration, finalization, CleanOldNacosConfig | the initial sync follows the conflict policy; it ends; a change of server and a deletion are carried out and leave no listener behind |
| Fuzzy listen task | `pkg/nacos/nacos_controller.go` | a goroutine and a stop channel per DC | poll, stop | new data ids on the server are picked up while the DC lives; the task ends with it |
| Config client | `pkg/nacos/client` | cached SDK clients and their listeners | GetConfig, PublishConfig, DeleteConfig, ListenConfig, CancelListenConfig | the groups of the status have a listener at the DC's server and nobody listens elsewhere |
| Service discovery | `pkg/controller/servicediscovery_controller.go`, `endpoint_controller.go`, `service_controller.go`, `pkg/nacos/naming` | finalizer and status of a ServiceDiscovery (SD), instances on the server | syncExistedService, syncEndponits, doFinalization, SyncInstanceToNacos, RegisterServiceInstances | the instances are those of the Endpoints; the instances of others stay; a deleted SD takes its own along |
| Naming HTTP SDK | `pkg/nacos/naming/http_sdk.go` | none | GetAllInstances, UpdateServiceHealthCheckTypeToNone, CreatePersistService | errors are seen as errors |
| Admission webhook | `api/v1/dynamicconfiguration_webhook.go` | none | Default, validateDC | only specs the controller can follow are stored |
| Auth provider, list helpers, `cmd/main.go`, generated code | see `PROJECT.json` | none that outlives a call | | |

**Interaction.**  The reconcilers are driven by informers: a watch event puts a
name into a work queue, one worker takes it out, and reads go to the informer's
cache, which lags behind the API server.  Writes go to the API server and fail
when the writer's copy is not the current version.  The Nacos SDK polls the
server and starts a goroutine per change.  All handlers share, without knowing
of each other, the object, the status of the DC (or SD) and the Nacos server.

**What is hard.**  Interleavings of handlers that each make five to ten remote
calls; caches of different age; writes of one step that happen before the write
that makes them true; errors that are logged and dropped; calls that fail after
they have reached the server; a restart that loses every listener; cycles in
which two handlers overwrite each other.  The list with lines is under
`hazards` in `PROJECT.json`.

## Modules

| Module | Content |
|---|---|
| `ObjectContent` | a ConfigMap or Secret as a record, with GetContent, GetAllKeys and StoreContent of the wrappers, the API server's validation of a ConfigMap, and base64 by what it does to a text: some texts do not decode, and one that does comes back in canonical form |
| `SyncStatus` | the status of a DC for one group, CompareDataIds and the functions that update the status |
| `ConfigSync` | the four handlers R (object reconciler), C (callback), D (DC reconciler) and F (fuzzy listen task), the informers, the SDK's notification, users and restarts |
| `DcLifecycle` | the life of a DC whose scope and server change and which is deleted and created again: D, the reconcilers of the objects as far as they use clients, the fuzzy listen task, the cache of SDK clients and the webhook |
| `LockManager` | GetLock and the use of the mutex by callbacks; ConfigSync's serialisation of callbacks rests on it |
| `ServiceDiscovery` | the reconcilers S (of the SD) and E (of Endpoints), the naming client's calls, informers and users |
| `Registry` | what service discovery promises: an abstract register into which only addresses enter that have been offered under their key, once the service is prepared, and from which only the controller's own leave |
| `MCConfigSync`, `MCDcLifecycle`, `MCLockManager`, `MCServiceDiscovery` | values of the constants for TLC |
| `ConfigSyncProofs`, `ContentProofs`, `PolicyProofs`, `SteadyProofs`, `DcLifecycleProofs`, `ListenerProofs`, `LockManagerProofs`, `ServiceDiscoveryProofs` | theorems |

`ConfigSync` extends `SyncStatus`, which extends `ObjectContent`.
`ServiceDiscovery` instantiates `Registry`: `offered` is the set of (key,
address) pairs the Endpoints have had so far, `prepared` the services whose
health check is off, `own` and `foreign` the entries of the Nacos server.
`ConfigSync` has the contents of one group under one spec, `DcLifecycle` has no
contents but several specs, servers and clients.

**State and actions.**  Every remote call of a handler is a step of its own:
`proc[p]` holds the program counter and the local variables that live across
calls.  (ListenConfig only registers with the SDK and goes with the call before
it.)  In `ConfigSync` one pass of R is RStart (or RFinalize), RList, then per
data id RDelete, RBoth or Query and Apply, then RStatus and RUpdate; C is
CStart, CreateMissing, AddFinalizer, CStore, CFlush; D is DStart,
CreateMissing, AddFinalizer, Query and Apply per data id, DFlush, DStatus; F is
FPoll (the search), FCheck (GetContentLatest) and FLoad and FWrite (the Get and
the write of StoreContentLatest).  F's read of the DC is part of FPoll: it reads
the informer's cache, whose lag is in the model anyhow.  In
`DcLifecycle` a pass of D is DStart, DClean per group, DClose and DDelete when
the server changes or the DC is deleted, then DNext, Get and Listen per group,
and DStatus or DRemoveFinalizer; Miss and Build are the two halves of
ClientBuilder.Build between which the cache may change.  In
`ServiceDiscovery` a pass of S is SNew or SStart, then per Service SNext,
GetService, CreatePersistService and UpdateHealthCheck (the calls of
UpdateServiceHealthCheckTypeToNone), Query, Register, Deregister and Status, and
at the end of a finalization RemoveFinalizer; E enters with EStart, which leaves
out an SD that names its server by an endpoint only (`ByAddress`), and shares
the calls.

**Versions.**  A resourceVersion is never compared except for equality with the
current one, so it is represented by the set of those who hold the current
one (`objHeld`, `dcHeld`, `sdHeld`).  A write succeeds iff the writer is in the
set, and leaves only the writer in it; `"cache"` in the set means that the
informer is up to date.  This keeps the state space finite without a bound on
writes.

**Errors.**  `Fault` lets a call to Nacos fail, at most `MaxFaults` times.  In
`ConfigSync` and `ServiceDiscovery` a failing call that changes something may
have reached the server (in `DcLifecycle` no call changes the server).  An error
answer of the naming API that GetAllInstances takes for "no instances", which it
does with any JSON object and any text that contains "not found", is an outcome
of Query; `misread` records that it has hidden an instance which had to go.  A
panic in the object and DC reconcilers is caught by their `recover` and ends the
pass without a requeue, and is modelled so.  `abandoned` records that a handler
of `ConfigSync` logged an error and dropped its work: the properties that rest
on Consistent promise nothing about the data ids after that, so the hazards of
dropped work are listed in `PROJECT.json` as not caught.

**External.**  The API server, informers, work queues, garbage collection, the
Nacos server, its SDK and the users are modelled from how the code uses them,
and marked so in the map.  The Nacos server of `ServiceDiscovery` removes no
service of its own accord.

## Runs

Passing runs:

| Run | Instance | Shows |
|---|---|---|
| `steady` | one data id of a referenced ConfigMap, synced, syncDeletion, preferServer, three edits on either side (a change, back to the first content, a removal), one failing call, two attempts of a callback; FreshSpec | TypeOK; ConsistentAtRest under every interleaving of the handlers |
| `initial` | two data ids, a new object and DC, preferCluster, the server with or without configs | R and D sync at once: ConsistentAtRest, ClusterWins (no content of the cluster is replaced), Converges |
| `restart` | a Secret without syncDeletion; edits on the server to a text c2 that decodes but is read back as another one, c3, to one that does not decode, and to none; the object starts with c1 and may be deleted and created again; two operations, one restart at any point | ConsistentAtRest: after an edit to c2 the object must have left c1 for c3, a conversion that is not the identity; CurrentCopies, NoContentLost |
| `live` | two data ids of which the object has one, one operation, one failing call | Converges, DeletionCompletes, NewConfigsArrive (a config under a new data id reaches the object) |
| `lock` | three callbacks, each of which may run again | NoNilLock, ExclusionWhenSettled, SettledIsStable, EventuallySettled, EveryCallbackRuns |
| `discovery` | two listed Services, one renamed and without Endpoints at first, an instance of somebody else under one key and no Nacos service yet under the others, one operation, one failing call, which may have reached the server or read as no instances | TypeOK, ChecksOff, OthersKept, ImplementsRegistry, EventuallyInSync, SdDeletionCompletes |
| `lifecycle` | one object, two servers, both scopes, a list of objects that is missing, empty or full, and requests the webhook rejects; one change of the spec, deletion (and recreation) of the DC or edit of the object, and one restart, failing call or status write of a callback | TypeOK, NoStrayListeners, ListenersAlive, TaskFollowsDc, OnlyStrandedStuck |

Violated runs, each a disagreement of the code with the repository's README or
its own comments:

| Run | Property | What TLC shows |
|---|---|---|
| `scope` | ScopeRespected | `DynamicConfigurationMatch` ends with `return true`, so a partial DC publishes objects it does not reference |
| `conflict_policy` | ServerWins | R has read the object with an empty key, D stores the server's content and records its digest; R joins its old copy with the new status, takes the empty key for a deletion and deletes the config on the server |
| `lost_edit` | NacosEditsSurvive | the callback writes the status before the object; R sees the new digest with the old content and publishes the old content over the edit |
| `stuck` | ConflictsOnlyDelay | D moves the DC to another server, drops the old client and loses the status write to an object reconciler; the retry looks for the old client again, does not find it and fails, and so does every retry after it |
| `full_sync` | InSyncAtRest | one failing call in the initial sync of a full SD leaves the existing Services unregistered, as the retry takes the update path |

**Bounds.**  One object or SD: the handlers of different objects share only the
DC's status, whose conflicts D and R already produce.  One data id suffices
where the property is about one, two where a pass must survive the failure of
one of several.  Three contents let both sides be edited to something new and
distinct.  Two operations are the least that race with each other as well as
with the handlers; `discovery` and `lifecycle` have one, which races with the
handlers only; `steady` has three, the least with which a user can put an
old content back while the other side changes.  The code makes three attempts of
a callback (RetrySteps); `steady` has two, one that is repeated and one that is
not, and the theorem about it any number.  One fault or
restart at any point covers every single failure.  `MaxInFlight` is 1, so that callbacks run in the order of the
changes.  In `discovery` the two Services, three keys and three addresses make
the renamed key, an added, a deleted and a foreign address distinct.  In
`lifecycle` two servers are the old and the new one, and one operation with one
fault puts a restart, a conflict or a failing call between any two calls of the
pass it starts.  A second group adds no handler that one group lacks, only
further races for Build (see below), but with one group a spec the webhook
accepts never leaves out a group the status has, so that DStart has nothing to
drop for that reason; the theorems about the listeners hold for any number of
groups.

**Fairness.**  Weak fairness of each handler, each informer and the SDK's
notification: work queues, goroutines, watches and the polling loop keep
running and retry.  F is a goroutine that polls every 15 seconds while its DC
lives.  In `lifecycle` FStop is strongly fair: the task selects among its timer
and the stop signal, and a signal that is ready whenever it waits is taken
eventually.  `lock` has strong fairness on Lock only, as Go's mutex
hands over to a waiter that has waited for a millisecond.  Users, faults and
restarts have none.

**Assumptions of single runs**, each of which excludes behaviour the code does
not handle well, and is a hazard in `PROJECT.json`:

- `SettledEdits`: a server-side edit waits until the SDK has reported the last
  one.  Else an edit that is taken back between two polls goes unnoticed while
  the controller's own write in between does not.
- `MaxInFlight = 1`: with two callbacks in flight the older content may be
  stored last and ConsistentAtRest fails.
- `FreshEdit` (FreshSpec, the run `steady`): R tells an edit of the object from
  what it has synced by the digest on record alone, and a callback that finds
  its content in the object already returns before it records the digest.  So
  when both sides are changed to the same content and a user then puts the
  previous one back in the cluster, R takes it for synced and the two sides stay
  apart.  FreshEdit excludes a write of a user whose digest is the one on record
  while the server has another content; with Spec instead of FreshSpec TLC finds
  the case at once.
- `steady` does not delete the object: Finalize deletes the data ids that are
  still in the object, so a key that is removed shortly before leaves its config
  on the server.
- `restart` has no syncDeletion: a deletion on the server during the restart is
  no change to the new listener.
- Converges is checked for one edit (`live`) and for the initial sync under
  preferCluster (`initial`).  With two edits in the cluster, under preferServer
  or after a restart R and C can overwrite each other for ever; only timing
  ends the cycle in practice.
- `raced` in EventuallyInSync: the property speaks of users who act when all is
  at rest.  A user who scales or deletes a Service during a pass of S can leave
  the server with the old addresses: S and E interleave their queries and
  registrations, and nothing starts another pass when the status writes fall
  into one second, or when the Endpoints are gone by then.
- `excused` in NoStrayListeners and ListenersAlive: a user changes the spec, or
  deletes the DC, before the controller has recorded the last server; an object
  reconciler with a stale copy of the DC listens at the old server, or after
  the DC is gone or marked for deletion; or a ListenConfig fails, which an
  object reconciler only logs and, since the status lists the group already,
  nobody repeats.
- NoStrayListeners speaks of cached clients: two handlers that find no client
  build one each, and the listeners of the one that is replaced (`orphans`) can
  be neither cancelled nor closed.  ListenersAlive counts them, as they still
  call back.
- `Stranded` in OnlyStrandedStuck: the status lists listeners and there is no
  client for the server it names.  CleanOldNacosConfig fails then, and on every
  retry, since nobody builds a client for a server that is to be left.  Three
  ways lead there.  After a restart there is no client until an object is
  reconciled.  A change of server or a deletion removes the client first and
  writes the status, or the finalizer, last: when that write is refused because
  an object reconciler or a callback has written the status, or because the
  cache lags, the request starts over without the client.  And an object
  reconciler may list its group before the status names any server.  The
  property says that nothing else keeps a change of server or a deletion from
  being carried out; it does not say that these are rare.  That the second way
  needs neither a restart nor a failing call is the run `stuck`.
- `misread` in EventuallyInSync: in the finalization an error answer that reads
  as no instances makes doFinalization go on, remove the finalizer and leave the
  instances on the server for good; in another pass it leaves the instances that
  had to go until the Endpoints change again.
- A ConfigMap whose content changes between JSON and plain text: StoreContent
  puts the key into the other map and leaves it in the first, the API server
  refuses the object, the error of Flush is logged and the edit is lost.  In the
  model this sets `abandoned`.  The contents of `restart` and `steady` are of one
  kind.
- `lifecycle` has the webhook, which `cmd/main.go` turns on with
  `--enable-webhook`.  Its Default also drops an empty list of objects, since
  the webhook marshals the spec again and `objectRefs` is `omitempty`.
- F takes the configs of a search one at a time, and a search that fails or
  finds nothing changes nothing: the next poll finds the rest.  A system at rest
  may have F in the middle of looking, but not of storing.
- `discovery` deletes only the Service that keeps its own name: for a renamed
  one E no longer finds the annotations and the instances stay.

**Mutants.**  Every property of a passing run has a mutant: a definition that
models code replaced by one with a plausible bug, under which TLC finds the
property violated.

## Theorems

All constants are arbitrary within the ASSUMEs of the modules.

- `ConfigSyncProofs!TypeCorrect`: Spec => []TypeOK, with two conjuncts that
  make it inductive: a running callback has its job, without which the retry
  counter is not typed, and what F has found, and has yet to check or store, can
  be stored.
  One lemma per operator and per action.
- `ContentProofs!CopiesAreCurrent`: Spec => []CurrentCopies.  A handler that
  holds the current version of the object has a copy that covers it: the copy
  lacks no content and is not marked deleted on its own account.  It is
  inductive together with TypeOK: reads from the cache establish it, writes of
  others take the version away, and the handler's own changes only add content.
- `ContentProofs!ContentIsSafe`: Spec => NoContentLost.  Without syncDeletion
  no step of a handler removes a content from the object or the server.  It
  rests on CopiesAreCurrent: a write that succeeds is a write from a covering
  copy.
- `PolicyProofs!ClusterKeepsItsContents`: NothingMissing => (Spec => ClusterWins).
  Until a user acts every data id is in one of two situations and stays in it.
  `Owned`: the object has had a content from the start; then the object, the
  cache, every handler's copy, every callback and every job have that content,
  and the server has it before anybody listens (Apply publishes, then listens,
  then records).  `Taken`: the object had none; then whatever the copies, the
  callbacks and F have is what the server has, as it reads once it is stored
  (`Norm`), and what the server has never changes for what is read; that a
  content once stored is not lost again is ContentIsSafe.  `Undisturbed` adds
  that the object is there and not being deleted, so that nobody creates it.
  A step of one handler is an instance of one lemma, `Moves`: what it writes to
  either side comes from a copy it had, and what it goes on with too.
  `NothingMissing` is the one hypothesis: with syncDeletion the objects of
  InitObjs have a content under every key.  Without it the claim is false and
  TLC shows it: R takes a key its old copy lacks, and that D or F has filled
  meanwhile, for one the user has deleted, deletes the config, and the callback
  empties the key.  The run `initial` satisfies the hypothesis.
- `SteadyProofs!SteadyIsConsistent`: Steady => (FreshSpec => []ConsistentAtRest).
  `Steady` says that the initial sync has listened to every key, that one
  callback at a time is in flight, and that there are no restarts and no
  deletions of the object; data ids, contents, kind, syncDeletion, the number of
  edits, failing calls and retries, and the age of the caches are arbitrary.
  The inductive invariant `SteadyInv` has four parts.  `Shape`: D and F have
  nothing to do, everything is listened to, and R's pass has no data id to sync
  for the first time.  `InFlight`: the one callback carries what the SDK has
  reported last.  `HeldInv`: a holder of the current version of the object or of
  the status has it in hand, and an R whose copy is old will be queued again.
  `KnownInv`, the heart of it: while the two sides disagree on a data id, and
  nobody has dropped work, somebody still knows of it.  Either (`Noticed`) the
  SDK has not yet reported what the server has, or the status says failed, or
  the digest R has recorded, or is about to record, is not that of the object's
  content and R will look at the object again or has that very content in hand
  and before it; or (`Arriving`) a callback carries the server's content and its
  copy of the object is not older than the disagreement; or (`Doomed`) R works
  from an old status, whose write will be refused, and the pass is dropped.  The
  hardest steps are CStore, which makes R's status an old one in the middle of
  its pass, and CFlush, where a content that is stored reads as `Norm` of it.
  TLC checked SteadyInv first, on instances with up to five operations, two
  faults, two data ids, Secrets and JSON contents.  It led to FreshEdit: without
  it KnownInv fails at EditLocal.
- `LockManagerProofs!LockSafety` and `SettledForGood`: for any number of
  callbacks GetLock never returns nil, callbacks that hold the same mutex
  exclude each other, and once no callback is creating a mutex or holding an
  older one this stays so.  The invariant adds that the map has a mutex as soon
  as anybody has one.
- `ServiceDiscoveryProofs!InstancesUnchecked`: Spec => [](TypeOK /\ ChecksOff).
- `ServiceDiscoveryProofs!OthersAreSafe`: Spec => OthersKept.  The inductive
  invariant `IInv` says of each reconciler what it has in hand: outside the
  calls that change instances nothing to change, in the finalization nothing to
  register, past UpdateHealthCheck a key whose health check is off, and nothing of
  others to deregister.  The last part is stable although the server changes between
  query and call, since no step turns an instance into somebody else's.  That
  nobody outside the controller registers instances during the run is part of
  the model.
- `ServiceDiscoveryProofs!DiscoveryImplementsRegistry`: Spec => ImplementsRegistry.
  `OfferInv` strengthens IInv: every copy of the Endpoints (the informer's, a
  reconciler's) holds addresses the Service has had, and what a reconciler is
  about to register was in such a copy under the key it has in hand.  Every
  step is then an Offer, a PrepareService, an Enter, a Leave or a stutter.
- `DcLifecycleProofs!TypeCorrect`: Spec => []TypeOK; that `stopping` stays a
  natural number says that no task ends that nobody has stopped.
- `DcLifecycleProofs!TaskIsRight`: Spec => []TaskFollowsDc.  The inductive
  invariant `LifeInv` has four parts: the informer's copy is the DC or an
  earlier generation of it (CacheInv); a DC in use neither goes away behind the
  controller's back nor comes back once its deletion has been seen (UseInv);
  what each stage of a pass of D says of the DC (PassInv); a task runs only for
  a DC that has its finalizer and is in the cache, and a DC without a task has
  a pass of D before it (TaskInv).
- `ListenerProofs!NoListenerLeftBehind`: Spec => []NoStrayListeners.  At rest a
  cached client with any listener is that of the server the spec and the status
  of the existing DC both name; once the DC is gone there is none.  It does not
  speak of clients that are no longer cached, nor of groups at the right server
  that the status does not list.  `StatusHasListeners`: Spec => []ListenersAlive.
  At rest every group of the status has a listener at the spec's server, of the
  cached client or of an open one that another Build has replaced.  Both are
  under `excused` (see above), and both rest on two invariants.
  `VersionInv` holds in every reachable state: optimistic concurrency tells a
  holder of the current version that its copy is the DC as it is (HeldInv), the
  cache and D's queue tell when D has still to see a change (SeenInv), a
  deletion is not taken back (DelInv), and a client is in the cache before it
  has listeners (ClientInv).  `ListenInv` holds as long as `excused` does not:
  D works on the spec as it is, since a spec that changes under a request in
  progress is excused (RequestInv); a client has listeners at the spec's server
  or the status' one only, because D leaves the old server before it writes the
  new one, and a listener outside the status belongs to a handler that is about
  to record it or to a D that is about to drop it (StrayInv); every group of
  the status without a listener is queued, is about to be listened to, or will
  be dropped (AliveInv); the objects' reconcilers do not work for a server from
  which D has gone on (CopyInv).  At rest nothing is queued or in progress, and
  the last two are the two properties.  `excused` never becomes false again, so
  assuming ~excused after a step gives it before the step.
  Both invariants were model-checked first, with one group and two servers and
  with two groups, before they were proved.

Only model-checked: liveness (Converges, DeletionCompletes, NewConfigsArrive,
EventuallySettled, EveryCallbackRuns, EventuallyInSync, SdDeletionCompletes,
OnlyStrandedStuck), which is beyond the provers used.  ConsistentAtRest is proved
for the steady state only.  During the initial sync (`initial`) and across a
restart and the deletion of the object (`restart`) it is model-checked: there
the status may have no digest, R and D sync the same keys at once, and the new
listeners start from nothing, so that other actors know of a disagreement than
those of KnownInv.  With two callbacks in flight, or with a server edited before
the SDK has reported the last edit (MaxInFlight, SettledEdits), it is false:
callbacks run in the wrong order and leave the older content.

## Not modelled

- Several DCs over one object, several SDs over one Service.
- In `DcLifecycle` contents, several data ids of a group, the panic of a
  PublishConfig that returns false (`ConfigSync` has it), and a change of
  credentials: clients are cached by address, not by credentials.
- In `ServiceDiscovery` a change of the spec, groups other than the default one
  (the PUT that switches the health check off leaves groupName out, so that for
  another group it changes, or misses, another service), annotations that change
  or do not parse, Endpoints with a subset without ports (ConvertToAddresses
  panics on them unless the annotations give a port), a second controller whose
  instances carry the same mark, a restart.
- Credentials and signatures, paging, logging, flag parsing, the wiring of the
  manager, generated code: no state that outlives a call.
- Functions without a caller: DelLock, RemoveSyncStatus, InjectLabels,
  StoreAllContent, DeleteContent, RegisterService.

## Plan

1. Done: `ObjectContent`, `SyncStatus`, `ConfigSync` with its four handlers,
   `DcLifecycle`, `LockManager`, `ServiceDiscovery` and `Registry` with their
   runs, and the theorems above.
2. Proofs: done for every invariant and action property the runs check,
   ConsistentAtRest in the steady state.  Left: ConsistentAtRest during the
   initial sync and after a restart.
3. An abstract specification of two replicas that agree at rest, implemented by
   `ConfigSync`, and of a mutex, implemented by `LockManager` once settled.
4. A change of spec and a restart in `ServiceDiscovery`, and the cache of
   naming clients.
