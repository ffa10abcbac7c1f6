----------------------------- MODULE ConfigSync -----------------------------
(***************************************************************************)
(* Two-way synchronisation of one ConfigMap or Secret with its Nacos group *)
(* under one DynamicConfiguration (DC).  Four handlers of the controller   *)
(* work on the same object, the same DC status and the same Nacos configs: *)
(*                                                                         *)
(*   "R"  the ConfigMap/Secret reconciler: pkg/controller/configmap_       *)
(*        controller.go, secret_controller.go and pkg/nacos/config_sync_   *)
(*        controller.go;                                                   *)
(*   "C"  the Nacos change callback: pkg/nacos/server2cluster.go (its      *)
(*        runs are serialised by the DC's lock, see LockManager);          *)
(*   "D"  the DC reconciler: pkg/controller/dynamicconfiguration_          *)
(*        controller.go and the initial sync of pkg/nacos/nacos_           *)
(*        controller.go;                                                   *)
(*   "F"  the fuzzy listen task of pkg/nacos/nacos_controller.go, which    *)
(*        looks for configs of the group that nobody listens to.           *)
(*                                                                         *)
(* External, modelled from how the code uses it: the API server with its   *)
(* optimistic concurrency, the informer caches, the work queues, the Nacos *)
(* server and the listening side of its SDK, and the users of both sides.  *)
(*                                                                         *)
(* Abstractions.  A resourceVersion is represented by the set of those who *)
(* hold the current one (objHeld, dcHeld): a write succeeds iff the writer *)
(* is in the set.  A handler's read of a cache and the call that follows   *)
(* are one step when the cache's own lag already covers what could happen  *)
(* between them.  The DC has its finalizer, is not deleted and its spec    *)
(* does not change (DcLifecycle has these).  F runs once the DC's status   *)
(* has a scope, which D records in the pass that starts the task.          *)
(***************************************************************************)
EXTENDS SyncStatus, Naturals, FiniteSets

CONSTANTS
    Scope,          \* spec.strategy.syncScope: "full" or "partial"
    Referenced,     \* is the object one of spec.objectRefs?
    SyncDeletion,   \* spec.strategy.syncDeletion
    PreferCluster,  \* is spec.strategy.conflictPolicy preferCluster?
    RetrySteps,     \* Steps of the callback's RetryOnConflict
    InitSynced,     \* does the run start with the initial sync behind it?
    InitObjs,       \* the objects a user may create
    InitServers,    \* the configs the Nacos server may start with
    LocalEdits,     \* what a user may write to a key of the object
    ServerEdits,    \* what a user may write to a config of the server
    DeleteObjects,  \* may users delete and recreate the object?
    SettledEdits,   \* does a server-side edit wait until the SDK has reported
                    \* the last change?
    MaxOps,         \* bound: user operations
    MaxInFlight,    \* bound: callbacks started by the SDK and not yet over
    MaxCrashes,     \* bound: restarts of the controller
    MaxFaults       \* bound: failing calls to the Nacos server

ASSUME SyncAssumption ==
    /\ Scope \in {"full", "partial"}
    /\ {Referenced, SyncDeletion, PreferCluster, DeleteObjects,
        SettledEdits, InitSynced} \subseteq BOOLEAN
    /\ RetrySteps \in Nat \ {0}
    /\ {MaxOps, MaxInFlight, MaxCrashes, MaxFaults} \subseteq Nat
    /\ IsFiniteSet(DataIds)
    /\ InitServers \subseteq [DataIds -> Texts]
    /\ ServerEdits \subseteq Texts
    /\ LocalEdits \subseteq Slots
    /\ InitObjs \subseteq Objects
    /\ \A o \in InitObjs : o.exists /\ ~o.deleting /\ Valid(o) /\ (InitSynced => o.fin)

VARIABLES
    obj, objCache, objHeld,   \* the object, the informer's copy, the holders
    objQueued,                \* the object is in R's work queue
    dc, dcCache, dcHeld,      \* the same for the DC's status
    dcQueued,                 \* the DC is in D's work queue
    server,                   \* the configs of the group on the Nacos server
    listening, seen,          \* the SDK's listeners and what they last reported
    pending,                  \* callbacks waiting for the lock or for a retry
    proc,                     \* the local state of the handlers
    abandoned,                \* a handler has logged an error and dropped work
    ops, crashes, faults      \* how much of the bounds is used up

objVars == <<obj, objCache, objHeld, objQueued>>
dcVars  == <<dc, dcCache, dcHeld, dcQueued>>
nacos   == <<server, listening, seen, pending>>
budget  == <<ops, crashes, faults>>
vars    == <<objVars, dcVars, nacos, proc, abandoned, budget>>

Procs   == {"R", "C", "D", "F"}
Holders == Procs \cup {"cache"}

\* A run of the callback: its arguments and the attempts it has left.  Also a
\* config F has found.
Callbacks == [id : DataIds, content : Texts, left : 1..RetrySteps]

\* job is the callback C runs, or the config F is at; id and read are the data
\* id under configDataIdSync and what GetConfig returned for it; known says that
\* the group was in ListenConfigs, or for F that the object exists; err that
\* errConfigList is not empty.
ProcStates ==
    [pc : {"idle", "list", "create", "addfin", "store", "flush", "sync", "apply",
           "status", "update", "check", "load", "write"},
     obj : Objects, dc : Statuses, todo : Todos, job : SUBSET Callbacks,
     id : SUBSET DataIds, read : Texts, known : BOOLEAN, err : BOOLEAN]

Idle == [pc |-> "idle", obj |-> NoObject, dc |-> NewStatus, todo |-> NoTodo,
         job |-> {}, id |-> {}, read |-> Empty, known |-> FALSE, err |-> FALSE]

\* What D's initial sync of the object o leaves in the status.
SyncedStatus(o) ==
    [scope |-> Scope, listen |-> GetAllKeys(o), phase |-> "succeed",
     sync |-> [d \in DataIds |-> IF d \in GetAllKeys(o)
                                 THEN [state |-> "ready", md5 |-> CalcMd5(GetContent(o, d))]
                                 ELSE NoSyncStatus]]

\* A new object and a new DC, or both after the initial sync.
Init ==
    /\ obj \in InitObjs /\ objCache = obj /\ objHeld = {"cache"}
    /\ objQueued = ~InitSynced /\ dcQueued = ~InitSynced
    /\ \/ /\ ~InitSynced
          /\ dc = NewStatus /\ server \in InitServers
          /\ listening = {} /\ seen = [d \in DataIds |-> Empty]
       \/ /\ InitSynced
          /\ dc = SyncedStatus(obj) /\ server = [d \in DataIds |-> GetContent(obj, d)]
          /\ listening = GetAllKeys(obj) /\ seen = server
    /\ dcCache = dc /\ dcHeld = {"cache"}
    /\ pending = {} /\ proc = [p \in Procs |-> Idle]
    /\ abandoned = FALSE /\ ops = 0 /\ crashes = 0 /\ faults = 0

-----------------------------------------------------------------------------
(* Building blocks. *)

\* p goes on from local state rec; an idle handler holds nothing.
Become(p, rec) == proc' = [proc EXCEPT ![p] = rec]

Release(held, p, rec) == IF rec.pc = "idle" THEN held \ {p} ELSE held

\* p copies the cached object: it holds the current version iff the cache does.
CacheRead(held, p) == IF "cache" \in held THEN held \cup {p} ELSE held \ {p}

\* What the API server answers to p's Update of the object to o.
ObjUpdateResult(p, o) ==
    CASE ~obj.exists                                     -> "notfound"
      [] obj.exists /\ p \notin objHeld                  -> "conflict"
      [] obj.exists /\ p \in objHeld /\ ~Valid(o)        -> "invalid"
      [] OTHER                                           -> "ok"

\* p's successful Update of the object to o, after which p is in state rec.
\* A write that changes nothing makes no new version.
ObjUpdate(p, o, rec) ==
    /\ obj' = Collected(o)
    /\ objHeld' = Release(IF o = obj THEN objHeld ELSE {p}, p, rec)
    /\ Become(p, rec)

ObjKept(p, rec) ==
    /\ objHeld' = Release(objHeld, p, rec)
    /\ Become(p, rec)
    /\ UNCHANGED obj

\* p's successful Status().Update to s.  Rewriting the same entries may or
\* may not make a new version: it depends on the timestamps.
DcUpdate(p, s, rec) ==
    /\ dc' = s
    /\ \E held \in {{p}} \cup (IF s = dc THEN {dcHeld} ELSE {}) :
          dcHeld' = Release(held, p, rec)

DcKept(p, rec) == dcHeld' = Release(dcHeld, p, rec) /\ UNCHANGED dc

\* One more call to the Nacos server fails.
Fault == faults < MaxFaults /\ faults' = faults + 1

\* ListenConfig for the data ids D, the SDK having read the contents sn: a
\* listener that is already there is kept.
ListenConfig(D, sn) ==
    /\ listening' = listening \cup D
    /\ seen' = [d \in DataIds |-> IF d \in D \ listening THEN sn ELSE seen[d]]

\* Mutation: one attempt too many.
RetryOnceMore(p) ==
    LET n == CHOOSE m \in proc[p].job : TRUE IN
    IF n.left > 0
    THEN /\ pending' = pending \cup {[n EXCEPT !.left = @ - 1]}
         /\ UNCHANGED abandoned
    ELSE /\ abandoned' = TRUE
         /\ UNCHANGED pending

\* The callback's attempt ended with a conflict: RetryOnConflict runs it again
\* later, or gives up after RetrySteps attempts, which is only logged.
RetryOnConflict(p) ==
    LET n == CHOOSE m \in proc[p].job : TRUE IN
    IF n.left > 1
    THEN /\ pending' = pending \cup {[n EXCEPT !.left = @ - 1]}
         /\ UNCHANGED abandoned
    ELSE /\ abandoned' = TRUE
         /\ UNCHANGED pending

-----------------------------------------------------------------------------
(* The ConfigMap/Secret reconciler. *)

\* Reconcile up to DoReconcile or Finalize.  When ensureFinalizer's Update
\* meets a conflict the request goes back to the queue and nothing changes.
RStart ==
    /\ proc["R"].pc = "idle" /\ objQueued
    /\ objQueued' = FALSE
    /\ \/ /\ objCache.exists => objCache.deleting /\ ~objCache.fin
          /\ UNCHANGED <<obj, objHeld, proc>>
       \/ /\ objCache.exists /\ objCache.fin
          /\ objHeld' = CacheRead(objHeld, "R")
          /\ Become("R", [Idle EXCEPT !.pc = "list", !.obj = objCache])
          /\ UNCHANGED obj
       \/ LET o == [objCache EXCEPT !.fin = TRUE] IN
          /\ objCache.exists /\ ~objCache.deleting /\ ~objCache.fin
          /\ "cache" \in objHeld
          /\ ObjUpdate("R", o, [Idle EXCEPT !.pc = "list", !.obj = o])
    /\ UNCHANGED <<objCache, dcVars, nacos, abandoned, budget>>

\* The DC is in the object's namespace; the refs are looked at, and the last
\* statement returns true all the same.
DynamicConfigurationMatch == Scope = "full" \/ Referenced \/ TRUE

\* The status after ListenConfig has failed for the data ids F.
RelistenFailed(s, F) ==
    [s EXCEPT !.sync = [d \in DataIds |->
        IF d \in F THEN UpdateSyncStatus(s, d, CalcMd5(Empty), FALSE).sync[d] ELSE @[d]]]

\* The loop body of DoReconcile or Finalize has the DC's status s and goes on
\* with the status st and the data ids of t, or skips the DC.
Listed(skip, s, st, t, bad) ==
    [proc["R"] EXCEPT !.pc = IF DynamicConfigurationMatch /\ ~skip THEN "sync" ELSE "update",
                      !.dc = st, !.todo = t, !.known = s.listen # {}, !.err = bad]

\* Finalize of an object that is being deleted.
RFinalize ==
    LET me == proc["R"]
        s  == dcCache
        bothIds == CompareDataIds(s.listen, GetAllKeys(me.obj)).both
    IN
    /\ me.pc = "list" /\ me.obj.deleting
    /\ dcHeld' = CacheRead(dcHeld, "R")
    /\ Become("R", Listed(s.listen = {}, s, s, [NoTodo EXCEPT !.del = bothIds], FALSE))
    /\ UNCHANGED <<objVars, dc, dcCache, dcQueued, nacos, abandoned, budget>>

\* DoReconcile of any other.  A group that is listened to is first listened to
\* again (a new process has no listeners), which may fail for the data ids F;
\* the keys of a group that is not are all treated as local only.
RList ==
    LET me == proc["R"]
        s  == dcCache
    IN
    /\ me.pc = "list" /\ ~me.obj.deleting
    /\ dcHeld' = CacheRead(dcHeld, "R")
    /\ \/ /\ s.listen = {}
          /\ Become("R", Listed(FALSE, s, s, [NoTodo EXCEPT !.loc = GetAllKeys(me.obj)], FALSE))
          /\ UNCHANGED <<listening, seen, faults>>
       \/ /\ s.listen # {}
          /\ \E F \in SUBSET s.listen :
                /\ faults' = faults + Cardinality(F) /\ faults' <= MaxFaults
                /\ ListenConfig(s.listen \ F, Empty)
                /\ Become("R", Listed(FALSE, s, RelistenFailed(s, F),
                                     CompareDataIds(s.listen, GetAllKeys(me.obj)), F # {}))
    /\ UNCHANGED <<objVars, dc, dcCache, dcQueued, server, pending, abandoned, ops, crashes>>

\* A call that fails for its caller may have reached the server all the same.
PushFailed(d, c) == server' \in {server, [server EXCEPT ![d] = c]}

\* Mutation: the outcome of the call is not looked at.
RPushUnchecked(d, c, rec) ==
    /\ \/ server' = [server EXCEPT ![d] = c] /\ UNCHANGED faults
       \/ Fault /\ PushFailed(d, c)
    /\ Become("R", [rec EXCEPT !.dc = UpdateSyncStatus(@, d, CalcMd5(c), TRUE)])

\* PublishConfig, or DeleteConfig when c is Empty, and the sync status of its
\* outcome.
RPush(d, c, rec) ==
    \/ /\ server' = [server EXCEPT ![d] = c]
       /\ Become("R", [rec EXCEPT !.dc = UpdateSyncStatus(@, d, CalcMd5(c), TRUE)])
       /\ UNCHANGED faults
    \/ /\ Fault
       /\ Become("R", [rec EXCEPT !.dc = UpdateSyncStatus(@, d, CalcMd5(Empty), FALSE),
                                  !.err = TRUE])
       /\ PushFailed(d, c)

\* Mutation: syncDeletion is not looked at.
RDeleteAlways(d) ==
    LET me == proc["R"] IN
    /\ me.pc = "sync" /\ d \in me.todo.del
    /\ RPush(d, Empty, [me EXCEPT !.todo.del = @ \ {d}])
    /\ UNCHANGED <<objVars, dcVars, listening, seen, pending, abandoned, ops, crashes>>

\* A data id that is listened to and no longer in the object, and when the
\* object is being deleted every data id that is in both.
RDelete(d) ==
    LET me   == proc["R"]
        rest == [me EXCEPT !.todo.del = @ \ {d}]
    IN
    /\ me.pc = "sync" /\ d \in me.todo.del
    /\ \/ SyncDeletion /\ RPush(d, Empty, rest)
       \/ /\ ~SyncDeletion
          /\ Become("R", [rest EXCEPT !.dc = UpdateSyncStatus(@, d, CalcMd5(Empty), TRUE)])
          /\ UNCHANGED <<server, faults>>
    /\ UNCHANGED <<objVars, dcVars, listening, seen, pending, abandoned, ops, crashes>>

\* A data id on both sides: the digest of the last sync tells whether the
\* local content has changed since.
RBoth(d) ==
    LET me   == proc["R"]
        rest == [me EXCEPT !.todo.both = @ \ {d}]
        localContent == GetContent(me.obj, d)
        oldMd5 == GetSyncStatusByDataId(me.dc, d).md5
        push == /\ oldMd5 # CalcMd5(localContent)
                /\ localContent = Empty => SyncDeletion
    IN
    /\ me.pc = "sync" /\ me.todo.del = {} /\ me.todo.loc = {} /\ d \in me.todo.both
    /\ \/ push /\ RPush(d, localContent, rest)
       \/ ~push /\ Become("R", rest) /\ UNCHANGED <<server, faults>>
    /\ UNCHANGED <<objVars, dcVars, listening, seen, pending, abandoned, ops, crashes>>

\* The end of DoReconcile and Finalize.  A conflict is only logged: the pass
\* worked from an old status, its own is lost and it is not repeated.
RStatus ==
    LET me   == proc["R"]
        rest == [me EXCEPT !.pc = "update", !.dc = NewStatus, !.todo = NoTodo,
                           !.known = FALSE, !.err = FALSE]
        s == IF ~me.known THEN me.dc
             ELSE IF me.err THEN FailedStatus(me.dc) ELSE UpdateStatus(me.dc)
    IN
    /\ me.pc = "sync" /\ me.todo = NoTodo
    /\ \/ /\ "R" \in dcHeld
          /\ DcUpdate("R", s, Idle)
          /\ UNCHANGED abandoned
       \/ /\ "R" \notin dcHeld
          /\ DcKept("R", Idle)
          /\ abandoned' = TRUE
    /\ Become("R", rest)
    /\ UNCHANGED <<objVars, dcCache, dcQueued, nacos, budget>>

\* Mutations: the finalizer stays; the request always goes back to the queue.
RUpdateKeepingFinalizer ==
    /\ proc["R"].pc = "update"
    /\ \/ /\ ObjUpdateResult("R", proc["R"].obj) = "ok"
          /\ ObjUpdate("R", proc["R"].obj, Idle)
          /\ UNCHANGED objQueued
       \/ /\ ObjUpdateResult("R", proc["R"].obj) # "ok"
          /\ ObjKept("R", Idle)
          /\ objQueued' = TRUE
    /\ dcHeld' = dcHeld \ {"R"}
    /\ UNCHANGED <<objCache, dc, dcCache, dcQueued, nacos, abandoned, budget>>

RUpdateAndRequeue ==
    /\ proc["R"].pc = "update"
    /\ ObjKept("R", Idle)
    /\ objQueued' = TRUE
    /\ dcHeld' = dcHeld \ {"R"}
    /\ UNCHANGED <<objCache, dc, dcCache, dcQueued, nacos, abandoned, budget>>

\* Reconcile's last Update, or doFinalization's, which drops the finalizer.
\* Any error puts the request back into the queue.
RUpdate ==
    LET me == proc["R"]
        o  == IF me.obj.deleting THEN [me.obj EXCEPT !.fin = FALSE] ELSE me.obj
    IN
    /\ me.pc = "update"
    /\ \/ /\ ObjUpdateResult("R", o) = "ok"
          /\ ObjUpdate("R", o, Idle)
          /\ UNCHANGED objQueued
       \/ /\ ObjUpdateResult("R", o) # "ok"
          /\ ObjKept("R", Idle)
          /\ objQueued' = TRUE
    /\ dcHeld' = dcHeld \ {"R"}
    /\ UNCHANGED <<objCache, dc, dcCache, dcQueued, nacos, abandoned, budget>>

-----------------------------------------------------------------------------
(* configDataIdSync of R and the loop body of D's configGroupSync. *)

\* GetConfig; an error counts as "no such config".
Query(p, d) ==
    LET me == proc[p] IN
    /\ p \in {"R", "D"}
    /\ me.pc = "sync" /\ me.todo.del = {} /\ d \in me.todo.loc
    /\ \E got \in {server[d], Empty} :
          /\ \/ got = server[d] /\ UNCHANGED faults
             \/ got # server[d] /\ Fault
          /\ Become(p, [me EXCEPT !.pc = "apply", !.id = {d}, !.read = got,
                                  !.todo.loc = @ \ {d}])
    /\ UNCHANGED <<objVars, dcVars, nacos, abandoned, ops, crashes>>

\* D records the digest it has synced, R the empty one.
RecordedMd5(p, c) == IF p = "D" THEN CalcMd5(c) ELSE CalcMd5(Empty)

\* p goes on with the next data id, having failed with this one.
FailedDataId(p, rest, d) ==
    Become(p, [rest EXCEPT !.dc = UpdateSyncStatus(@, d, CalcMd5(Empty), FALSE),
                           !.err = TRUE])

\* The last part: ListenConfig and AddListenConfig.  The SDK starts from the
\* snapshot GetConfig left behind, or from nothing.
Listen(p, rest, d) ==
    \/ /\ \E sn \in {Empty, proc[p].read} : ListenConfig({d}, sn)
       /\ Become(p, [rest EXCEPT !.dc = AddListenConfig(@, d)])
       /\ UNCHANGED faults
    \/ /\ Fault
       /\ FailedDataId(p, rest, d)
       /\ UNCHANGED <<listening, seen>>

\* Mutations: the conflict policy is not looked at; a conflict copies nothing.
ToLocalAlways(l, c) == c # Empty
ToServerIfMissing(l, c) == l # Empty /\ c = Empty

\* Which side is copied, l being the content of the object and c the server's.
ToLocal(l, c) == c # Empty /\ (l # Empty => ~PreferCluster)

ToServer(l, c) == l # Empty /\ (c # Empty => PreferCluster)

\* Compare the two sides and copy one to the other.  R ignores the error of
\* StoreContent, D reports it.
Apply(p, d) ==
    LET me   == proc[p]
        rest == [me EXCEPT !.pc = "sync", !.id = {}, !.read = Empty]
        localContent == GetContent(me.obj, d)
        toLocal  == ToLocal(localContent, me.read)
        toServer == ToServer(localContent, me.read)
        stored   == IF CanStore(me.read) THEN StoreContent(me.obj, d, me.read) ELSE me.obj
        ready(c) == [rest EXCEPT !.dc = UpdateSyncStatus(@, d, RecordedMd5(p, c), TRUE)]
    IN
    /\ me.pc = "apply" /\ me.id = {d}
    /\ \/ /\ toLocal /\ (p = "D" => CanStore(me.read))
          /\ Listen(p, [ready(me.read) EXCEPT !.obj = stored], d)
          /\ abandoned' = (abandoned \/ ~CanStore(me.read))
          /\ UNCHANGED <<server, objHeld, dcHeld>>
       \/ /\ toLocal /\ p = "D" /\ ~CanStore(me.read)
          /\ FailedDataId(p, rest, d)
          /\ UNCHANGED <<server, listening, seen, objHeld, dcHeld, abandoned, faults>>
       \/ /\ toServer
          /\ server' = [server EXCEPT ![d] = localContent]
          /\ Listen(p, ready(localContent), d)
          /\ UNCHANGED <<objHeld, dcHeld, abandoned>>
       \/ /\ toServer /\ Fault /\ PushFailed(d, localContent)
          /\ FailedDataId(p, rest, d)
          /\ UNCHANGED <<listening, seen, objHeld, dcHeld, abandoned>>
       \/ \* PublishConfig returned false and no error: err.Error() panics, and
          \* Reconcile's recover ends the pass as a success.
          /\ toServer /\ Fault /\ PushFailed(d, localContent)
          /\ Become(p, Idle)
          /\ objHeld' = objHeld \ {p} /\ dcHeld' = dcHeld \ {p}
          /\ abandoned' = TRUE
          /\ UNCHANGED <<listening, seen>>
       \/ /\ ~toLocal /\ ~toServer
          /\ Listen(p, rest, d)
          /\ UNCHANGED <<server, objHeld, dcHeld, abandoned>>
    /\ UNCHANGED <<obj, objCache, objQueued, dc, dcCache, dcQueued, pending, ops, crashes>>

-----------------------------------------------------------------------------
(* Reload of the wrappers, used by C and D. *)

\* The state of p once the wrapper has the object o.
Loaded(p, rec, o) ==
    IF p = "C" THEN [rec EXCEPT !.pc = "store", !.obj = o]
    ELSE [rec EXCEPT !.pc = "sync", !.obj = o, !.todo = [NoTodo EXCEPT !.loc = GetAllKeys(o)]]

\* Get the object.
Reload(p, rec) ==
    \/ /\ obj.exists /\ obj.fin
       /\ objHeld' = objHeld \cup {p}
       /\ Become(p, Loaded(p, rec, obj))
       /\ UNCHANGED obj
    \/ /\ obj.exists /\ ~obj.fin
       /\ objHeld' = objHeld \cup {p}
       /\ Become(p, [rec EXCEPT !.pc = "addfin", !.obj = obj])
       /\ UNCHANGED obj
    \/ /\ ~obj.exists
       /\ Become(p, [rec EXCEPT !.pc = "create"])
       /\ UNCHANGED <<obj, objHeld>>

\* p has no wrapper: D logs it and leaves the group out, C drops the callback.
NoWrapper(p) ==
    /\ ObjKept(p, IF p = "D" THEN [proc[p] EXCEPT !.pc = "status", !.obj = NoObject] ELSE Idle)
    /\ dcHeld' = IF p = "D" THEN dcHeld ELSE dcHeld \ {p}
    /\ abandoned' = TRUE
    /\ UNCHANGED pending

\* The object was not found: create it, which fails if it is there by now.
CreateMissing(p) ==
    LET me == proc[p] IN
    /\ me.pc = "create"
    /\ \/ /\ ~obj.exists
          /\ obj' = NewObject
          /\ objHeld' = {p}
          /\ Become(p, [me EXCEPT !.pc = "addfin", !.obj = NewObject])
          /\ UNCHANGED <<dcHeld, pending, abandoned>>
       \/ obj.exists /\ NoWrapper(p)
    /\ UNCHANGED <<objCache, objQueued, dc, dcCache, dcQueued, server, listening, seen, budget>>

\* The object has no finalizer: add it.  C retries a conflict.
AddFinalizer(p) ==
    LET me == proc[p]
        o  == [me.obj EXCEPT !.fin = TRUE]
        result == ObjUpdateResult(p, o)
        retry  == result = "conflict" /\ p = "C"
    IN
    /\ me.pc = "addfin"
    /\ \/ /\ result = "ok"
          /\ ObjUpdate(p, o, Loaded(p, me, o))
          /\ UNCHANGED <<dcHeld, pending, abandoned>>
       \/ /\ retry
          /\ ObjKept(p, Idle)
          /\ dcHeld' = dcHeld \ {p}
          /\ RetryOnConflict(p)
       \/ result # "ok" /\ ~retry /\ NoWrapper(p)
    /\ UNCHANGED <<objCache, objQueued, dc, dcCache, dcQueued, server, listening, seen, budget>>

-----------------------------------------------------------------------------
(* The callback: CallbackWithContext takes the lock and syncConfigToLocal   *)
(* runs with it.                                                            *)

CStart(n) ==
    /\ proc["C"].pc = "idle" /\ n \in pending
    /\ pending' = pending \ {n}
    /\ dcHeld' = CacheRead(dcHeld, "C")
    /\ Reload("C", [Idle EXCEPT !.dc = dcCache, !.job = {n}])
    /\ UNCHANGED <<objCache, objQueued, dc, dcCache, dcQueued, server, listening, seen,
                   abandoned, budget>>

\* Mutation: syncDeletion is not looked at.
IgnoredNever(c) == FALSE

\* A config that is gone from the server is left in the object.
Ignored(c) == c = Empty /\ ~SyncDeletion

\* Decide what the notification n means and write the status.
CStore(n) ==
    LET me == proc["C"]
        ignored == Ignored(n.content)
        same    == CalcMd5(n.content) = CalcMd5(GetContent(me.obj, n.id))
        s == IF ignored THEN UpdateSyncStatusIfAbsent(me.dc, n.id, CalcMd5(Empty), TRUE)
                        ELSE UpdateSyncStatus(me.dc, n.id, CalcMd5(n.content), TRUE)
        written == IF ignored THEN Idle
                   ELSE [me EXCEPT !.pc = "flush", !.dc = NewStatus,
                                   !.obj = StoreContent(@, n.id, n.content)]
    IN
    /\ me.pc = "store" /\ me.job = {n}
    /\ \/ /\ ~ignored /\ (same \/ ~CanStore(n.content))
          /\ ObjKept("C", Idle) /\ DcKept("C", Idle)
          /\ abandoned' = (abandoned \/ ~same)
          /\ UNCHANGED pending
       \/ /\ ignored \/ (~same /\ CanStore(n.content))
          /\ "C" \in dcHeld
          /\ ObjKept("C", written) /\ DcUpdate("C", s, Idle)
          /\ UNCHANGED <<pending, abandoned>>
       \/ /\ ignored \/ (~same /\ CanStore(n.content))
          /\ "C" \notin dcHeld
          /\ ObjKept("C", Idle) /\ DcKept("C", Idle)
          /\ RetryOnConflict("C")
    /\ UNCHANGED <<objCache, objQueued, dcCache, dcQueued, server, listening, seen, budget>>

\* Only now is the content written to the object.
CFlush ==
    LET me == proc["C"]
        result == ObjUpdateResult("C", me.obj)
    IN
    /\ me.pc = "flush"
    /\ \/ /\ result = "ok"
          /\ ObjUpdate("C", me.obj, Idle)
          /\ UNCHANGED <<pending, abandoned>>
       \/ /\ result = "conflict"
          /\ ObjKept("C", Idle)
          /\ RetryOnConflict("C")
       \/ /\ result \notin {"ok", "conflict"}
          /\ ObjKept("C", Idle)
          /\ abandoned' = TRUE
          /\ UNCHANGED pending
    /\ UNCHANGED <<objCache, objQueued, dcVars, server, listening, seen, budget>>

-----------------------------------------------------------------------------
(* The DC reconciler. *)

\* syncPartial2Partial drops a group whose object is not referenced.
DropsGroup(s) == Scope = "partial" /\ s.scope # "" /\ ~Referenced /\ s.listen # {}

\* syncNew, when the status has no scope yet, takes every object or the
\* referenced ones; later syncFull2Full takes none, and syncPartial2Partial a
\* referenced one whose group is not listened to.
SyncsGroup(s) ==
    IF s.scope = "" THEN IF Scope = "full" THEN objCache.exists ELSE Referenced
                    ELSE Scope = "partial" /\ Referenced /\ s.listen = {}

\* SyncDynamicConfiguration up to the wrapper of configGroupSync.
DStart ==
    LET s  == dcCache
        me == [Idle EXCEPT !.dc = IF DropsGroup(s) THEN DropGroup(s) ELSE s]
    IN
    /\ proc["D"].pc = "idle" /\ dcQueued
    /\ dcQueued' = FALSE
    /\ dcHeld' = CacheRead(dcHeld, "D")
    /\ listening' = IF DropsGroup(s) THEN listening \ s.listen ELSE listening
    /\ \/ SyncsGroup(s) /\ Reload("D", me)
       \/ ~SyncsGroup(s) /\ ObjKept("D", [me EXCEPT !.pc = "status"])
    /\ UNCHANGED <<objCache, objQueued, dc, dcCache, server, seen, pending, abandoned, budget>>

\* The Flush that ends configGroupSync; an error is only logged.
DFlush ==
    LET me   == proc["D"]
        rest == [me EXCEPT !.pc = "status", !.obj = NoObject]
    IN
    /\ me.pc = "sync" /\ me.todo = NoTodo
    /\ \/ /\ ObjUpdateResult("D", me.obj) = "ok"
          /\ ObjUpdate("D", me.obj, rest)
          /\ UNCHANGED abandoned
       \/ /\ ObjUpdateResult("D", me.obj) # "ok"
          /\ ObjKept("D", rest)
          /\ abandoned' = TRUE
    /\ UNCHANGED <<objCache, objQueued, dcVars, nacos, budget>>

\* The end of Reconcile: an error of the sync, or of this write, puts the
\* request back into the queue.
DStatus ==
    LET me == proc["D"]
        st == UpdateDynamicConfigurationStatus(me.dc, Scope)
        s  == IF me.err THEN FailedStatus(st) ELSE UpdateStatus(st)
    IN
    /\ me.pc = "status"
    /\ \/ /\ "D" \in dcHeld
          /\ DcUpdate("D", s, Idle)
          /\ dcQueued' = (dcQueued \/ me.err)
       \/ /\ "D" \notin dcHeld
          /\ DcKept("D", Idle)
          /\ dcQueued' = TRUE
    /\ ObjKept("D", Idle)
    /\ UNCHANGED <<objCache, objQueued, dcCache, nacos, abandoned, budget>>

-----------------------------------------------------------------------------
(* The fuzzy listen task. *)

\* The scope of the DC has a pattern for the object's group.
FuzzyPattern == Scope = "full" \/ Referenced

\* Mutation: a missing negation.
UnknownButListed(d) == server[d] # Empty /\ d \in dcCache.listen

\* SearchConfigs returns a config that the cached DC does not list.
Unknown(d) == server[d] # Empty /\ d \notin dcCache.listen

\* The timer fires and the search finds d, which the cached DC does not list.
\* The configs of a search are taken one at a time; a search that fails, or finds
\* nothing new, changes nothing.  The DC is read from the cache just before: that
\* the cache lags behind stands for the time between the two.
FPoll(d) ==
    /\ proc["F"].pc = "idle" /\ dcCache.scope # "" /\ FuzzyPattern
    /\ Unknown(d)
    /\ Become("F", [Idle EXCEPT !.pc = "check",
                                !.job = {[id |-> d, content |-> server[d], left |-> 1]}])
    /\ UNCHANGED <<objVars, dcVars, nacos, abandoned, budget>>

\* GetContentLatest: F is done with a config whose content the object has, or
\* cannot store.
FCheck(n) ==
    /\ proc["F"].pc = "check" /\ n \in proc["F"].job
    /\ \/ GetContent(obj, n.id) = Empty /\ CanStore(n.content)
          /\ Become("F", [Idle EXCEPT !.pc = "load", !.job = {n}])
       \/ ~(GetContent(obj, n.id) = Empty /\ CanStore(n.content))
          /\ Become("F", Idle)
    /\ UNCHANGED <<objVars, dcVars, nacos, abandoned, budget>>

\* StoreContentLatest of n gets the object once more; whatever it has by now
\* under the key is replaced.
FLoad(n) ==
    LET o == IF obj.exists THEN obj ELSE NewObject IN
    /\ proc["F"].pc = "load" /\ n \in proc["F"].job
    /\ objHeld' = IF obj.exists THEN objHeld \cup {"F"} ELSE objHeld \ {"F"}
    /\ Become("F", [Idle EXCEPT !.pc = "write", !.known = obj.exists,
                       !.obj = [StoreContent(o, n.id, n.content) EXCEPT !.fin = TRUE]])
    /\ UNCHANGED <<obj, objCache, objQueued, dcVars, nacos, abandoned, budget>>

\* ... and updates or creates it.  An error is logged; the next poll tries again.
FWrite ==
    LET o == proc["F"].obj IN
    /\ proc["F"].pc = "write"
    /\ \/ /\ proc["F"].known /\ ObjUpdateResult("F", o) = "ok"
          /\ ObjUpdate("F", o, Idle)
       \/ /\ proc["F"].known /\ ObjUpdateResult("F", o) # "ok"
          /\ ObjKept("F", Idle)
       \/ /\ ~proc["F"].known /\ ~obj.exists
          /\ obj' = o /\ objHeld' = {}
          /\ Become("F", Idle)
       \/ /\ ~proc["F"].known /\ obj.exists
          /\ ObjKept("F", Idle)
    /\ UNCHANGED <<objCache, objQueued, dcVars, nacos, abandoned, budget>>

-----------------------------------------------------------------------------
(* The environment. *)

\* The informer of ConfigMaps/Secrets delivers the current object and its
\* event puts the object into R's queue.
ObjInformer ==
    /\ "cache" \notin objHeld
    /\ objCache' = obj
    /\ objHeld' = objHeld \cup {"cache"}
    /\ objQueued' = TRUE
    /\ UNCHANGED <<obj, dcVars, nacos, proc, abandoned, budget>>

\* The informer of DCs: a status change does not change the generation, so
\* GenerationChangedPredicate lets no event through.
DcInformer ==
    /\ "cache" \notin dcHeld
    /\ dcCache' = dc
    /\ dcHeld' = dcHeld \cup {"cache"}
    /\ UNCHANGED <<objVars, dc, dcQueued, nacos, proc, abandoned, budget>>

\* The SDK sees that a config differs from what it last reported and starts a
\* goroutine with OnChange.
Notify(d) ==
    /\ d \in listening /\ seen[d] # server[d]
    /\ Cardinality(pending) + Cardinality(proc["C"].job) < MaxInFlight
    /\ pending' = pending \cup {[id |-> d, content |-> server[d], left |-> RetrySteps]}
    /\ seen' = [seen EXCEPT ![d] = server[d]]
    /\ UNCHANGED <<objVars, dcVars, server, listening, proc, abandoned, budget>>

UserOp == ops < MaxOps /\ ops' = ops + 1 /\ UNCHANGED <<crashes, faults>>

EditLocal(d, v) ==
    /\ UserOp
    /\ obj.exists /\ UserPut(obj, d, v) # obj
    /\ obj' = UserPut(obj, d, v) /\ objHeld' = {}
    /\ UNCHANGED <<objCache, objQueued, dcVars, nacos, proc, abandoned>>

DeleteObject ==
    /\ UserOp
    /\ DeleteObjects /\ obj.exists /\ ~obj.deleting
    /\ obj' = Collected([obj EXCEPT !.deleting = TRUE]) /\ objHeld' = {}
    /\ UNCHANGED <<objCache, objQueued, dcVars, nacos, proc, abandoned>>

CreateObject(o) ==
    /\ UserOp
    /\ DeleteObjects /\ ~obj.exists
    /\ obj' = [o EXCEPT !.fin = FALSE] /\ objHeld' = {}
    /\ UNCHANGED <<objCache, objQueued, dcVars, nacos, proc, abandoned>>

EditServer(d, c) ==
    /\ UserOp
    /\ server[d] # c
    /\ SettledEdits /\ d \in listening => seen[d] = server[d]
    /\ server' = [server EXCEPT ![d] = c]
    /\ UNCHANGED <<objVars, dcVars, listening, seen, pending, proc, abandoned>>

\* The controller process restarts: handlers, callbacks and listeners are
\* gone, the caches are filled afresh and every object is queued.
Crash ==
    /\ crashes < MaxCrashes /\ crashes' = crashes + 1
    /\ proc' = [p \in Procs |-> Idle]
    /\ pending' = {} /\ listening' = {} /\ seen' = [d \in DataIds |-> Empty]
    /\ objCache' = obj /\ objHeld' = {"cache"} /\ objQueued' = TRUE
    /\ dcCache' = dc /\ dcHeld' = {"cache"} /\ dcQueued' = TRUE
    /\ UNCHANGED <<obj, dc, server, abandoned, ops, faults>>

-----------------------------------------------------------------------------

Reconciler == RStart \/ RFinalize \/ RList \/ RStatus \/ RUpdate
              \/ \E d \in DataIds : RDelete(d) \/ RBoth(d) \/ Query("R", d) \/ Apply("R", d)

Callback == \/ \E n \in pending : CStart(n)
            \/ CreateMissing("C") \/ AddFinalizer("C")
            \/ \E n \in proc["C"].job : CStore(n)
            \/ CFlush

DcReconciler == DStart \/ CreateMissing("D") \/ AddFinalizer("D") \/ DFlush \/ DStatus
                \/ \E d \in DataIds : Query("D", d) \/ Apply("D", d)

FuzzyListen == \/ \E d \in DataIds : FPoll(d)
               \/ \E n \in proc["F"].job : FCheck(n) \/ FLoad(n)
               \/ FWrite

Controller == Reconciler \/ Callback \/ DcReconciler \/ FuzzyListen

Delivery == ObjInformer \/ DcInformer \/ \E d \in DataIds : Notify(d)

User == \/ \E d \in DataIds : \/ \E v \in LocalEdits : EditLocal(d, v)
                              \/ \E c \in ServerEdits : EditServer(d, c)
        \/ DeleteObject
        \/ \E o \in InitObjs : CreateObject(o)

\* Nothing is queued, running, in flight or out of date, though F, which polls
\* for ever, may have a look.
Quiescent ==
    /\ \A p \in Procs : proc[p].pc = "idle" \/ (p = "F" /\ proc[p].pc = "check")
    /\ ~objQueued /\ ~dcQueued
    /\ "cache" \in objHeld /\ "cache" \in dcHeld
    /\ pending = {} /\ \A d \in listening : seen[d] = server[d]

\* Being at rest is the one way to stop; any other end is a deadlock.
Rest == Quiescent /\ UNCHANGED vars

Next == Controller \/ Delivery \/ User \/ Crash \/ Rest

Spec == Init /\ [][Next]_vars

\* What R has recorded of d, or is about to record.
LastSynced(d) == IF proc["R"].pc = "sync" THEN proc["R"].dc.sync[d] ELSE dc.sync[d]

\* R tells an edit of the object from what it has synced by the digest alone.  A
\* content a user writes is fresh unless that digest is the one on record while
\* the server has another content.
FreshEdit ==
    \A d \in DataIds :
        LET c == GetContent(obj', d) IN
        ops' # ops /\ d \in GetAllKeys(obj') /\ (d \in GetAllKeys(obj) => c # GetContent(obj, d)) =>
            \/ c = server[d]
            \/ LastSynced(d).md5 # CalcMd5(c)
            \/ LastSynced(d).state = "failed"

\* The behaviours in which users do not put an old content back unnoticed.
FreshSpec == Init /\ [][Next /\ FreshEdit]_vars

\* The work queues, the goroutines, the informers and the SDK's polling loop
\* keep running.
FairSpec ==
    /\ Spec
    /\ WF_vars(Reconciler) /\ WF_vars(Callback) /\ WF_vars(DcReconciler)
    /\ WF_vars(FuzzyListen)
    /\ WF_vars(ObjInformer) /\ WF_vars(DcInformer)
    /\ \A d \in DataIds : WF_vars(Notify(d))

-----------------------------------------------------------------------------
(* Properties. *)

\* Type correctness of the whole state, the handlers' local state included.
TypeOK ==
    /\ obj \in Objects /\ objCache \in Objects /\ objHeld \subseteq Holders
    /\ dc \in Statuses /\ dcCache \in Statuses /\ dcHeld \subseteq Holders
    /\ objQueued \in BOOLEAN /\ dcQueued \in BOOLEAN
    /\ server \in [DataIds -> Texts]
    /\ listening \subseteq DataIds /\ seen \in [DataIds -> Texts]
    /\ pending \subseteq Callbacks
    /\ proc \in [Procs -> ProcStates]
    /\ abandoned \in BOOLEAN
    /\ ops \in 0..MaxOps /\ crashes \in 0..MaxCrashes /\ faults \in 0..MaxFaults

\* The two sides of a data id agree, for a Secret on the bytes; without
\* syncDeletion a side may also lack the content.
Agree(d) ==
    LET l == GetContent(obj, d)
        c == server[d]
    IN  \/ l = c
        \/ Kind = "Secret" /\ c \in Base64 /\ l = Canonical[c]
        \/ ~SyncDeletion /\ Empty \in {l, c}

\* Every synced data id agrees or is reported as not ready in the DC's status,
\* or a handler has logged an error and dropped work.
Consistent ==
    abandoned \/ \A d \in GetAllKeys(obj) \cup listening : Agree(d) \/ dc.sync[d].state = "failed"

\* Whenever the system has come to rest, and no handler dropped work on the
\* way, the object and the Nacos server agree on every synced data id, unless
\* the DC's status reports that data id as not ready.
ConsistentAtRest == Quiescent => Consistent

\* What a handler may write over obj: an object that is not marked for deletion
\* on its own account and, without syncDeletion, lacks no content.
Covers(o) ==
    /\ o.exists
    /\ o.deleting => obj.deleting
    /\ ~SyncDeletion => \A d \in DataIds : GetContent(obj, d) # Empty => GetContent(o, d) # Empty

\* Optimistic concurrency protects the object: a handler that holds its current
\* version, and whose next Update therefore succeeds, has a copy that covers it.
\* With the facts about the API server and the informer this is inductive.
CurrentCopies ==
    /\ "cache" \in objHeld => objCache = obj
    /\ ~obj.exists => \A d \in DataIds : GetContent(obj, d) = Empty
    /\ obj.deleting => obj.fin
    /\ \A p \in Procs :
          p \in objHeld /\ proc[p].pc \notin {"idle", "create", "status", "check", "load"} =>
              Covers(proc[p].obj)

\* Without syncDeletion no step of the controller makes a content disappear
\* on either side: only users (the steps that count in ops) do.
NoContentLost ==
    [][ops' = ops /\ ~SyncDeletion =>
        \A d \in DataIds :
            /\ server[d] # Empty => server'[d] # Empty
            /\ GetContent(obj, d) # Empty /\ ~obj.deleting => GetContent(obj', d) # Empty]_vars

\* Under preferCluster the initial sync keeps what the cluster has: until a
\* user acts, no content of the object is replaced by another.
ClusterWins ==
    [][PreferCluster /\ ops' = 0 =>
        \A d \in DataIds : GetContent(obj, d) # Empty => GetContent(obj', d) = GetContent(obj, d)]_vars

\* Under preferServer the initial sync keeps what the Nacos server has.
ServerWins ==
    [][~PreferCluster /\ ops' = 0 =>
        \A d \in DataIds : server[d] # Empty => server'[d] = server[d]]_vars

\* A partial DC that does not reference the object leaves its group on the
\* Nacos server alone.
ScopeRespected ==
    [][Scope = "partial" /\ ~Referenced /\ ops' = ops => server' = server]_vars

\* While only the server side is edited, the controller never changes it.
NacosEditsSurvive ==
    [][LocalEdits = {} /\ InitSynced /\ ops' = ops => server' = server]_vars

\* After finitely many user operations the handlers, queues and caches come to
\* rest for good, and what they leave is consistent.
Converges == <>[](Quiescent /\ Consistent)

\* A config that somebody creates in Nacos under the object's group, and that
\* nobody listens to, is found, brought to the cluster and listened to, unless
\* it is removed again or the DC's status or a dropped pass accounts for it.
NewConfigsArrive ==
    \A d \in DataIds :
        FuzzyPattern /\ server[d] # Empty ~>
            server[d] = Empty \/ d \in dc.listen \/ abandoned \/ dc.sync[d].state = "failed"

\* An object that is being deleted does go away: its finalizer is removed.
DeletionCompletes == obj.deleting ~> ~obj.deleting

=============================================================================
