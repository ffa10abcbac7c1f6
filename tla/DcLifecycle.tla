---------------------------- MODULE DcLifecycle ----------------------------
(***************************************************************************)
(* The life of one DynamicConfiguration (DC): its first sync, changes of   *)
(* its scope and of its Nacos server, its deletion, and the SDK clients,   *)
(* listeners and the fuzzy listen task the controller keeps for it.        *)
(*                                                                         *)
(*   "D"      the DC reconciler: pkg/controller/dynamicconfiguration_      *)
(*            controller.go and the sync... functions, CleanOldNacosConfig *)
(*            and Finalize of pkg/nacos/nacos_controller.go;               *)
(*   a group  the reconciler of that ConfigMap or Secret, as far as it     *)
(*            uses clients and writes the DC's status (DoReconcile);       *)
(*   "F"      the goroutine of the fuzzy listen task.                      *)
(*                                                                         *)
(* All of them reach Nacos through ClientBuilder of pkg/nacos/client/impl/ *)
(* default_client.go, a map of clients without a lock around its checks.   *)
(* External: the API server, the informer, the work queues, what the SDK's *)
(* CloseClient does, the change callback as a writer of the status.        *)
(*                                                                         *)
(* Abstractions.  Contents and data ids are those of ConfigSync: here a    *)
(* group has one data id and is listened to or not, its object exists, and *)
(* GetConfig and PublishConfig are one call, without the panic ConfigSync  *)
(* has for it.  Build followed by a call is one step if it finds a client, *)
(* two if not.  As in ConfigSync the current resourceVersion is the set of *)
(* those who hold it.  The webhook is enabled (--enable-webhook).          *)
(***************************************************************************)
EXTENDS Naturals, FiniteSets

CONSTANTS
    Groups,       \* ConfigMaps and Secrets, each with a reconciler of its own
    Servers,      \* values of spec.nacosServer
    NoServer,     \* status.nacosServerStatus before the first sync
    Requests,     \* the specs users send to the API server
    MaxOps,       \* bound: user operations, the creation of a new DC aside
    MaxFaults     \* bound: restarts, failing calls and callbacks that write the
                  \* status, together

ASSUME LifecycleAssumption ==
    /\ {"D", "F", "cache"} \cap Groups = {}
    /\ NoServer \notin Servers
    /\ Requests \subseteq [server : Servers \cup {NoServer}, scope : {"", "full", "partial"},
                            refs : SUBSET SUBSET Groups]
    /\ {MaxOps, MaxFaults} \subseteq Nat

VARIABLES
    dc, dcCache, dcHeld,    \* the DC, the informer's copy, the holders
    dcQueued, objQueued,    \* the work queues of D and of the groups
    client,                 \* ClientBuilder's cache, per server
    orphans,                \* listeners of open clients that are not in it
    task,                   \* the fuzzy listen task of fuzzyListenMap is running
    stopping,               \* tasks that have a stop signal waiting for them
    proc,                   \* the local state of the handlers
    excused,                \* history: see Listen and ChangeSpec
    ops, faults

dcVars == <<dc, dcCache, dcHeld>>
queues == <<dcQueued, objQueued>>
sdk    == <<client, orphans>>
tasks  == <<task, stopping>>
budget == <<ops, faults>>
vars   == <<dcVars, queues, sdk, tasks, proc, excused, budget>>

Procs == Groups \cup {"D", "F"}

-----------------------------------------------------------------------------
(* The admission webhook.  refs is {} for an objectRefs that is nil and {G}   *)
(* for a list, empty or not, of the groups G.                                 *)

\* A scope that is missing is derived from the list as it was sent; an empty
\* list has gone (omitempty) from what the webhook answers.
Default(r) ==
    [r EXCEPT !.scope = IF @ # "" THEN @ ELSE IF r.refs # {} THEN "partial" ELSE "full",
              !.refs = @ \ {{}}]

validateDC(r) ==
    /\ r.server # NoServer
    /\ r.scope \in {"full", "partial"}
    /\ r.refs = {} <=> r.scope = "full"

\* What the API server stores.
Specs == {s \in {Default(r) : r \in Requests} : validateDC(s)}

ASSUME SpecsAssumption == Specs # {}

\* The groups a spec selects.
InScope(spec) == IF spec.scope = "full" THEN Groups ELSE UNION spec.refs

-----------------------------------------------------------------------------
(* The state. *)

\* gen tells apart the generations of the spec, and an old DC from a new one of
\* the same name.  scope, server and listen are the status.
Dcs == [exists : BOOLEAN, deleting : BOOLEAN, fin : BOOLEAN, gen : Nat, spec : Specs,
        scope : {"", "full", "partial"}, server : Servers \cup {NoServer},
        listen : SUBSET Groups]

NewDc(spec, gen) == [exists |-> TRUE, deleting |-> FALSE, fin |-> FALSE, gen |-> gen,
                     spec |-> spec, scope |-> "", server |-> NoServer, listen |-> {}]

\* A handler's copy: none looks at the generation.
Copy(d) == [d EXCEPT !.gen = 0]

NoDc(spec, gen) == [NewDc(spec, gen) EXCEPT !.exists = FALSE]

\* st is "closed" between CloseClient and the deletion from the cache.
Clients == [st : {"none", "open", "closed"}, on : SUBSET Groups]

NoClient == [st |-> "none", on |-> {}]

\* dc is the handler's copy; todo the groups still to be handled, item the one
\* in hand; miss says that Build has found no client; err that errConfigList is
\* not empty.
ProcStates ==
    [pc : {"idle", "clean", "close", "delete", "next", "get", "listen", "search", "status",
           "unfin"},
     dc : Dcs, todo : SUBSET Groups, item : SUBSET Groups, miss : BOOLEAN, err : BOOLEAN]

Idle == LET any == CHOOSE s \in Specs : TRUE IN
        [pc |-> "idle", dc |-> NoDc(any, 0), todo |-> {}, item |-> {}, miss |-> FALSE,
         err |-> FALSE]

\* A new DC, a new process.
Init ==
    /\ dc \in {NewDc(s, 0) : s \in Specs} /\ dcCache = dc /\ dcHeld = {"cache"}
    /\ dcQueued = TRUE /\ objQueued = Groups
    /\ client = [s \in Servers |-> NoClient] /\ orphans = [s \in Servers |-> {}]
    /\ task = FALSE /\ stopping = 0
    /\ proc = [p \in Procs |-> Idle] /\ excused = FALSE
    /\ ops = 0 /\ faults = 0

-----------------------------------------------------------------------------
(* Building blocks. *)

Become(p, rec) == proc' = [proc EXCEPT ![p] = rec]

Release(held, p, rec) == IF rec.pc = "idle" THEN held \ {p} ELSE held

CacheRead(held, p) == IF "cache" \in held THEN held \cup {p} ELSE held \ {p}

Fault == faults < MaxFaults /\ faults' = faults + 1

CleanDynamicConfigurationStatus(d) ==
    [d EXCEPT !.scope = "", !.server = NoServer, !.listen = {}]

UpdateDynamicConfigurationStatus(d) ==
    [d EXCEPT !.scope = d.spec.scope, !.server = d.spec.server]

checkNacosServerChange(d) == d.spec.server # d.server

\* p's Status().Update, if p holds the current version: the status of d and
\* nothing else of it.
StatusOf(d) == [dc EXCEPT !.scope = d.scope, !.server = d.server, !.listen = d.listen]

WriteStatus(p, d) ==
    /\ p \in dcHeld
    /\ dc' = StatusOf(d)
    /\ \E held \in {{p}} \cup (IF dc' = dc THEN {dcHeld} ELSE {}) : dcHeld' = held \ {p}

-----------------------------------------------------------------------------
(* ClientBuilder. *)

\* The server p is talking to.
Target(p) == proc[p].dc.spec.server

\* Build finds no client and goes on to make one.
Miss(p) ==
    /\ proc[p].pc \in {"get", "listen", "search"} /\ ~proc[p].miss
    /\ client[Target(p)].st = "none"
    /\ Become(p, [proc[p] EXCEPT !.miss = TRUE])
    /\ UNCHANGED <<dcVars, queues, sdk, tasks, excused, budget>>

\* Build returns a client, on which p starts to listen to the groups G.  A new
\* one replaces whatever the cache has by now; a closed one accepts a listener
\* and never calls it.
Build(p, G) ==
    LET s == Target(p) IN
    \/ /\ ~proc[p].miss /\ client[s].st # "none"
       /\ client' = [client EXCEPT ![s].on = IF client[s].st = "open" THEN @ \cup G ELSE @]
       /\ UNCHANGED orphans
    \/ /\ proc[p].miss
       /\ client' = [client EXCEPT ![s] = [st |-> "open", on |-> G]]
       /\ orphans' = [orphans EXCEPT ![s] = @ \cup client[s].on]

\* The client cannot be built.
BuildFails(p) == proc[p].miss /\ UNCHANGED sdk

\* p is done with the group in hand.
Done(p, rec) == [rec EXCEPT !.pc = IF p = "D" THEN "next" ELSE "status", !.miss = FALSE,
                            !.item = {}]

\* GetConfig and PublishConfig.
Get(p) ==
    LET me == proc[p] IN
    /\ me.pc = "get"
    /\ \/ /\ Build(p, {})
          /\ Become(p, [me EXCEPT !.pc = "listen", !.miss = FALSE])
          /\ UNCHANGED faults
       \/ /\ Fault /\ (Build(p, {}) \/ BuildFails(p))
          /\ Become(p, Done(p, [me EXCEPT !.err = TRUE]))
    /\ UNCHANGED <<dcVars, queues, tasks, excused, ops>>

\* ListenConfig and AddListenConfig.  excused notes that the server is not, or
\* no longer, the one the DC names, and that a call has failed, which an object
\* reconciler only logs.
Listen(p) ==
    LET me == proc[p] IN
    /\ me.pc = "listen"
    /\ \/ /\ Build(p, me.item)
          /\ Become(p, Done(p, [me EXCEPT !.dc.listen = @ \cup me.item]))
          /\ excused' = (excused \/ ~dc.exists \/ dc.deleting \/ Target(p) # dc.spec.server)
          /\ UNCHANGED faults
       \/ /\ Fault /\ (Build(p, {}) \/ BuildFails(p))
          /\ Become(p, Done(p, [me EXCEPT !.err = TRUE]))
          /\ excused' = TRUE
    /\ UNCHANGED <<dcVars, queues, tasks, ops>>

-----------------------------------------------------------------------------
(* The object reconcilers. *)

\* Mutation: a group of the status is taken for one that has its listener.
FirstStepTrusting(g, d) == IF g \in d.listen THEN "status" ELSE "get"

FirstStep(g, d) == IF g \in d.listen THEN "listen" ELSE "get"

\* Reconcile of the object g: a group that is listened to is listened to again,
\* the others are synced first.  A DC that is being deleted is not told apart,
\* nor an object it does not reference: DynamicConfigurationMatch is true of all.
RStart(g) ==
    /\ proc[g].pc = "idle" /\ g \in objQueued
    /\ objQueued' = objQueued \ {g}
    /\ \/ ~dcCache.exists /\ UNCHANGED <<proc, dcHeld>>
       \/ /\ dcCache.exists
          /\ dcHeld' = CacheRead(dcHeld, g)
          /\ Become(g, [Idle EXCEPT !.pc = FirstStep(g, dcCache), !.dc = Copy(dcCache), !.item = {g}])
    /\ UNCHANGED <<dc, dcCache, dcQueued, sdk, tasks, excused, budget>>

\* The end of DoReconcile: a conflict is only logged.
RStatus(g) ==
    /\ proc[g].pc = "status"
    /\ \/ WriteStatus(g, proc[g].dc)
       \/ g \notin dcHeld /\ UNCHANGED <<dc, dcHeld>>
    /\ Become(g, Idle)
    /\ UNCHANGED <<dcCache, queues, sdk, tasks, excused, budget>>

-----------------------------------------------------------------------------
(* The DC reconciler. *)

\* Reconcile up to the first call: the finalizer, and which of syncNew,
\* syncFull2Full, syncPartial2Full, syncPartial2Partial and Finalize it is.
\* The listeners of groups that have left the scope are cancelled through the
\* cached client, if there is one.  A conflict over the finalizer puts the
\* request back: nothing changes.
DStart ==
    LET c    == Copy(dcCache)
        d    == [c EXCEPT !.fin = TRUE]
        gone == IF c.scope = "" THEN {} ELSE c.listen \ InScope(c.spec)
        rec  == [Idle EXCEPT !.dc = [d EXCEPT !.listen = @ \ gone]]
        new  == InScope(c.spec) \ (IF c.scope = "" THEN {} ELSE c.listen)
        move == c.scope # "" /\ checkNacosServerChange(c)
        skip == c.scope = "full" /\ c.spec.scope = "full"
    IN
    /\ proc["D"].pc = "idle" /\ dcQueued
    /\ dcQueued' = FALSE
    /\ \/ /\ ~c.exists \/ (c.deleting /\ ~c.fin)
          /\ UNCHANGED <<dc, dcHeld, client, proc>>
       \/ /\ c.exists /\ c.deleting /\ c.fin
          /\ dcHeld' = CacheRead(dcHeld, "D")
          /\ Become("D", [Idle EXCEPT !.pc = "clean", !.dc = c, !.todo = c.listen])
          /\ UNCHANGED <<dc, client>>
       \/ /\ c.exists /\ ~c.deleting
          /\ \/ c.fin /\ dcHeld' = CacheRead(dcHeld, "D") /\ UNCHANGED dc
             \/ ~c.fin /\ "cache" \in dcHeld /\ dc' = [dc EXCEPT !.fin = TRUE] /\ dcHeld' = {"D"}
          /\ \/ /\ move
                /\ Become("D", [Idle EXCEPT !.pc = "clean", !.dc = d, !.todo = c.listen])
                /\ UNCHANGED client
             \/ /\ ~move /\ skip
                /\ Become("D", [Idle EXCEPT !.pc = "status", !.dc = d])
                /\ UNCHANGED client
             \/ /\ ~move /\ ~skip
                /\ Become("D", [rec EXCEPT !.pc = "next", !.todo = new])
                /\ client' = IF gone = {} THEN client ELSE [client EXCEPT ![c.server].on = @ \ gone]
    /\ UNCHANGED <<dcCache, objQueued, orphans, tasks, excused, budget>>

\* CleanOldNacosConfig: CancelListenConfig for each group of the status.
\* Without a client the pass ends: of the status it writes only the phase, and
\* whether or not it can, the error puts the request back.
DClean(g) ==
    LET me == proc["D"]
        s  == me.dc.server
        ok == s \in Servers /\ client[s].st # "none"
    IN
    /\ me.pc = "clean" /\ g \in me.todo
    /\ \/ /\ ok
          /\ client' = [client EXCEPT ![s].on = @ \ {g}]
          /\ Become("D", [me EXCEPT !.todo = @ \ {g}])
          /\ UNCHANGED <<dc, dcHeld, dcQueued>>
       \/ /\ ~ok
          /\ \/ WriteStatus("D", me.dc)
             \/ "D" \notin dcHeld /\ UNCHANGED <<dc, dcHeld>>
          /\ dcQueued' = TRUE
          /\ Become("D", Idle)
          /\ UNCHANGED client
    /\ UNCHANGED <<dcCache, objQueued, orphans, tasks, excused, budget>>

\* Mutation: the stopped task stays in the map.
StopTaskKept == task' = task /\ stopping' = IF task THEN stopping + 1 ELSE stopping

\* The fuzzy listen task leaves the map and a goroutine is started that sends it
\* the stop signal.
StopTask == task' = FALSE /\ stopping' = IF task THEN stopping + 1 ELSE stopping

\* What CleanOldNacosConfig is followed by: the rest of Finalize, or syncNew.
Cleaned ==
    LET me == proc["D"] IN
    IF me.dc.deleting
    THEN /\ Become("D", [me EXCEPT !.pc = "unfin"])
         /\ StopTask
    ELSE /\ Become("D", [me EXCEPT !.pc = "next", !.dc = CleanDynamicConfigurationStatus(@),
                                   !.todo = InScope(me.dc.spec)])
         /\ UNCHANGED tasks

\* Mutation: the client of the old server is neither closed nor forgotten.
DCloseForgotten ==
    /\ proc["D"].pc = "clean" /\ proc["D"].todo = {}
    /\ Cleaned
    /\ UNCHANGED <<dcVars, queues, sdk, excused, budget>>

\* Remove: close the cached client ...
DClose ==
    LET s == proc["D"].dc.server IN
    /\ proc["D"].pc = "clean" /\ proc["D"].todo = {}
    /\ \/ /\ s \in Servers /\ client[s].st # "none"
          /\ client' = [client EXCEPT ![s] = [st |-> "closed", on |-> {}]]
          /\ Become("D", [proc["D"] EXCEPT !.pc = "delete"])
          /\ UNCHANGED tasks
       \/ /\ ~(s \in Servers /\ client[s].st # "none")
          /\ Cleaned
          /\ UNCHANGED client
    /\ UNCHANGED <<dcVars, queues, orphans, excused, budget>>

\* ... and delete what the cache has for the server by now.
DDelete ==
    LET s == proc["D"].dc.server IN
    /\ proc["D"].pc = "delete"
    /\ client' = [client EXCEPT ![s] = NoClient]
    /\ orphans' = [orphans EXCEPT ![s] = @ \cup client[s].on]
    /\ Cleaned
    /\ UNCHANGED <<dcVars, queues, excused, budget>>

\* configGroupSync of the next group.
DNext(g) ==
    LET me == proc["D"] IN
    /\ me.pc = "next" /\ g \in me.todo
    /\ Become("D", [me EXCEPT !.pc = "get", !.todo = @ \ {g}, !.item = {g}])
    /\ UNCHANGED <<dcVars, queues, sdk, tasks, excused, budget>>

\* The end of the sync: FuzzyListenConfig starts a task unless the map has one,
\* and Reconcile writes the status.  An error of either puts the request back.
DStatus ==
    LET me == proc["D"]
        d  == UpdateDynamicConfigurationStatus(me.dc)
    IN
    /\ me.pc = "status" \/ (me.pc = "next" /\ me.todo = {})
    /\ task' = (task \/ ~me.err)
    /\ \/ WriteStatus("D", d) /\ dcQueued' = (dcQueued \/ me.err)
       \/ "D" \notin dcHeld /\ dcQueued' = TRUE /\ UNCHANGED <<dc, dcHeld>>
    /\ Become("D", Idle)
    /\ UNCHANGED <<dcCache, objQueued, sdk, stopping, excused, budget>>

\* Mutation: after a conflict the request is not put back.
DRemoveFinalizerOnce ==
    /\ proc["D"].pc = "unfin"
    /\ \/ "D" \in dcHeld /\ dc' = NoDc(dc.spec, dc.gen) /\ dcHeld' = {}
       \/ "D" \notin dcHeld /\ UNCHANGED <<dc, dcHeld>>
    /\ Become("D", Idle)
    /\ UNCHANGED <<dcCache, queues, sdk, tasks, excused, budget>>

\* The end of doFinalization: without its finalizer the DC goes away.
DRemoveFinalizer ==
    /\ proc["D"].pc = "unfin"
    /\ \/ /\ "D" \in dcHeld
          /\ dc' = NoDc(dc.spec, dc.gen) /\ dcHeld' = {}
          /\ UNCHANGED dcQueued
       \/ /\ "D" \notin dcHeld /\ dcQueued' = TRUE
          /\ UNCHANGED <<dc, dcHeld>>
    /\ Become("D", Idle)
    /\ UNCHANGED <<dcCache, objQueued, sdk, tasks, excused, budget>>

-----------------------------------------------------------------------------
(* The fuzzy listen task. *)

\* The timer fires.  A scope without patterns searches nothing.
FPoll ==
    /\ proc["F"].pc = "idle" /\ (task \/ stopping > 0)
    /\ dcCache.exists /\ InScope(dcCache.spec) # {}
    /\ Become("F", [Idle EXCEPT !.pc = "search", !.dc = NoDc(dcCache.spec, 0)])
    /\ UNCHANGED <<dcVars, queues, sdk, tasks, excused, budget>>

\* SearchConfigs.
FSearch ==
    /\ proc["F"].pc = "search"
    /\ \/ Build("F", {}) /\ UNCHANGED faults
       \/ Fault /\ (Build("F", {}) \/ BuildFails("F"))
    /\ Become("F", Idle)
    /\ UNCHANGED <<dcVars, queues, tasks, excused, ops>>

\* Mutation: a task ends that nobody has stopped.
FStopUnasked ==
    /\ proc["F"].pc = "idle" /\ task
    /\ stopping' = stopping - 1
    /\ UNCHANGED <<dcVars, queues, sdk, task, proc, excused, budget>>

\* A task that waits for its timer takes the stop signal, or finds that the DC is
\* gone, and ends.
FStop ==
    /\ proc["F"].pc = "idle" /\ stopping > 0
    /\ stopping' = stopping - 1
    /\ UNCHANGED <<dcVars, queues, sdk, task, proc, excused, budget>>

-----------------------------------------------------------------------------
(* The environment. *)

\* The informer.  GenerationChangedPredicate lets no status write through.
DcInformer ==
    /\ "cache" \notin dcHeld
    /\ dcCache' = dc
    /\ dcHeld' = dcHeld \cup {"cache"}
    /\ dcQueued' = (dcQueued \/ dc.gen # dcCache.gen \/ dc.exists # dcCache.exists)
    /\ UNCHANGED <<dc, objQueued, sdk, tasks, proc, excused, budget>>

\* The groups a client listens to at the server s.
Live(s) == client[s].on \cup orphans[s]

\* A change callback writes the status.
CallbackWrites ==
    /\ Fault
    /\ dc.exists /\ \E s \in Servers : Live(s) # {}
    /\ dcHeld' = {}
    /\ UNCHANGED <<dc, dcCache, queues, sdk, tasks, proc, excused, ops>>

UserOp == ops < MaxOps /\ ops' = ops + 1 /\ UNCHANGED faults

\* D has dealt with the last change of the spec.
Settled == proc["D"].pc = "idle" /\ ~dcQueued /\ "cache" \in dcHeld

\* excused also notes that a user changes the spec, or deletes the DC, before
\* the controller has dealt with, or recorded, the last server.
ChangeSpec(spec) ==
    /\ UserOp
    /\ dc.exists /\ ~dc.deleting /\ dc.spec # spec
    /\ dc' = [dc EXCEPT !.spec = spec, !.gen = @ + 1] /\ dcHeld' = {}
    /\ excused' = (excused \/ ~Settled)
    /\ UNCHANGED <<dcCache, queues, sdk, tasks, proc>>

DeleteDc ==
    /\ UserOp
    /\ dc.exists /\ ~dc.deleting
    /\ dc' = IF dc.fin THEN [dc EXCEPT !.deleting = TRUE, !.gen = @ + 1]
                       ELSE NoDc(dc.spec, dc.gen + 1)
    /\ dcHeld' = {}
    /\ excused' = (excused \/ dc.server # dc.spec.server)
    /\ UNCHANGED <<dcCache, queues, sdk, tasks, proc>>

\* The DC is created again as it was; not more often than it is deleted.
CreateDc ==
    /\ ~dc.exists
    /\ dc' = NewDc(dc.spec, dc.gen + 1) /\ dcHeld' = {}
    /\ UNCHANGED <<dcCache, queues, sdk, tasks, proc, excused, budget>>

EditObject(g) ==
    /\ UserOp
    /\ g \notin objQueued
    /\ objQueued' = objQueued \cup {g}
    /\ UNCHANGED <<dcVars, dcQueued, sdk, tasks, proc, excused>>

\* The process restarts: clients, tasks and handlers are gone.
Crash ==
    /\ Fault
    /\ proc' = [p \in Procs |-> Idle]
    /\ client' = [s \in Servers |-> NoClient] /\ orphans' = [s \in Servers |-> {}]
    /\ task' = FALSE /\ stopping' = 0
    /\ dcCache' = dc /\ dcHeld' = {"cache"} /\ dcQueued' = TRUE /\ objQueued' = Groups
    /\ UNCHANGED <<dc, excused, ops>>

-----------------------------------------------------------------------------

Reconciler(g) == RStart(g) \/ Miss(g) \/ Get(g) \/ Listen(g) \/ RStatus(g)

DcReconciler == \/ DStart \/ DClose \/ DDelete \/ DStatus \/ DRemoveFinalizer
                \/ Miss("D") \/ Get("D") \/ Listen("D")
                \/ \E g \in Groups : DClean(g) \/ DNext(g)

FuzzyListen == FPoll \/ Miss("F") \/ FSearch

User == \/ \E spec \in Specs : ChangeSpec(spec)
        \/ DeleteDc \/ CreateDc
        \/ \E g \in Groups : EditObject(g)

\* The reconcilers have nothing to do and the cache is up to date.
Quiescent ==
    /\ \A p \in Procs \ {"F"} : proc[p].pc = "idle"
    /\ ~dcQueued /\ objQueued = {} /\ "cache" \in dcHeld

Rest == Quiescent /\ UNCHANGED vars

Next == \/ \E g \in Groups : Reconciler(g)
        \/ DcReconciler \/ FuzzyListen \/ FStop
        \/ DcInformer \/ CallbackWrites \/ User \/ Crash \/ Rest

Spec == Init /\ [][Next]_vars

\* The work queues, the informer and the goroutines keep running; a task that
\* waits for its timer takes the stop signal before the timer fires for ever.
FairSpec ==
    /\ Spec
    /\ \A g \in Groups : WF_vars(Reconciler(g))
    /\ WF_vars(DcReconciler) /\ WF_vars(FuzzyListen) /\ SF_vars(FStop)
    /\ WF_vars(DcInformer)

-----------------------------------------------------------------------------
(* Properties. *)

\* Type correctness of the whole state.
TypeOK ==
    /\ dc \in Dcs /\ dcCache \in Dcs /\ dcHeld \subseteq Procs \cup {"cache"}
    /\ dcQueued \in BOOLEAN /\ objQueued \subseteq Groups
    /\ client \in [Servers -> Clients] /\ orphans \in [Servers -> SUBSET Groups]
    /\ task \in BOOLEAN /\ stopping \in Nat
    /\ proc \in [Procs -> ProcStates] /\ excused \in BOOLEAN
    /\ ops \in 0..MaxOps /\ faults \in 0..MaxFaults

\* At rest a cached client that listens is at the server the DC's spec and status
\* name, and none listens once the DC is gone.
NoStrayListeners ==
    Quiescent /\ ~excused =>
        \A s \in Servers : client[s].on # {} => dc.exists /\ dc.spec.server = s /\ dc.server = s

\* At rest every group of the status has a listener at the DC's server.
ListenersAlive ==
    Quiescent /\ ~excused /\ dc.exists => dc.listen \subseteq Live(dc.spec.server)

\* At rest the fuzzy listen task runs iff there is a DC; and no task of the map
\* ever fails to find the DC, which would end it and leave it in the map.
TaskFollowsDc == /\ Quiescent => task = dc.exists
                 /\ task => dcCache.exists

\* The status lists listeners and there is no client for its server: to cancel
\* them fails, and so does every retry.  A restart leaves the DC like this; so do
\* a conflict at D's last write once DDelete has dropped the client, and an object
\* reconciler that lists its group before D has recorded a server.
Stranded == dc.listen # {} /\ (dc.server \in Servers => client[dc.server].st = "none")

\* The DC is to be deleted, or its server is not yet the one of its spec.
Pending == dc.exists /\ (dc.deleting \/ dc.spec.server # dc.server)

\* A change of the server and the deletion of the DC are carried out.
RequestsComplete == []<>~Pending

\* So they are for a DC whose server has been recorded, however often a handler
\* loses a write to another: a conflict only delays a request.
ConflictsOnlyDelay == Pending /\ dc.server # NoServer ~> ~Pending

\* Whatever the handlers, the callbacks and a restart do in between, nothing but a
\* stranded DC keeps them from being carried out.
OnlyStrandedStuck == RequestsComplete \/ <>[]Stranded
=============================================================================
