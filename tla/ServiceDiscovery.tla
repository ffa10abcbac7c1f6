-------------------------- MODULE ServiceDiscovery --------------------------
(***************************************************************************)
(* Registration of the Services of a namespace at a Nacos server under one *)
(* ServiceDiscovery (SD).  Two reconcilers share the SD's status and the   *)
(* instances on the server, and neither knows of the other:                *)
(*                                                                         *)
(*   "S"  pkg/controller/servicediscovery_controller.go: what exists when  *)
(*        the SD is created or changed, and the finalization of the SD;    *)
(*   "E"  pkg/controller/endpoint_controller.go: every change of an        *)
(*        Endpoints object.                                                *)
(*                                                                         *)
(* Both call RegisterServiceInstances of pkg/nacos/naming/naming_client.go *)
(* and through it pkg/nacos/naming/http_sdk.go, one HTTP call per step.    *)
(*                                                                         *)
(* External, modelled from how the code uses it: the API server, the       *)
(* informer caches and work queues, the endpoints controller of Kubernetes *)
(* and the Nacos server.                                                   *)
(*                                                                         *)
(* Abstractions.  An address is one value (ip and port).  A Nacos service  *)
(* key is one value; the group is the default one, so that the update of   *)
(* the health check, which leaves the group out, finds the service it is   *)
(* meant for.  The Nacos server removes no service of its own accord.  As  *)
(* in ConfigSync the current resourceVersion is the set of those who hold  *)
(* it.  The SD's spec names a Nacos server and does not change; its client *)
(* has been built.  The annotations of a Service are well formed and do    *)
(* not change.  Every subset of an Endpoints object has a port:            *)
(* ConvertToAddresses takes the first one and panics where there is none.  *)
(***************************************************************************)
EXTENDS Naturals, FiniteSets

CONSTANTS
    Services,     \* names of Services and of their Endpoints
    Keys,         \* service keys on the Nacos server
    NacosName,    \* the key the Service's annotations, or its name, select
    Listed,       \* spec.services; the empty set stands for all Services
    ByAddress,    \* does spec.nacosServer have a serverAddr, or only an endpoint?
    Addrs,        \* addresses
    InitServices, \* the Services that exist when the SD is created
    InitEps,      \* what the Endpoints may be then
    InitOthers,   \* the instances then that others have registered, per key
    ScaleTo,      \* the sets of addresses a Service may scale to
    Deletable,    \* the Services users may delete
    DeleteSds,    \* may users delete the SD?
    MaxOps,       \* bound: user operations
    MaxFaults     \* bound: failing calls to the Nacos server

\* An Endpoints object is the singleton of its set of addresses, so that {}
\* stands for a missing one.
None == {}
Eps  == {None} \cup {{A} : A \in SUBSET Addrs}

ASSUME DiscoveryAssumption ==
    /\ Services \subseteq Keys
    /\ NacosName \in [Services -> Keys]
    /\ {Listed, Deletable, InitServices} \subseteq SUBSET Services
    /\ InitEps \subseteq [Services -> Eps]
    /\ InitOthers \in [Keys -> SUBSET Addrs]
    /\ ScaleTo \subseteq SUBSET Addrs
    /\ {ByAddress, DeleteSds} \subseteq BOOLEAN
    /\ MaxOps \in Nat /\ MaxFaults \in Nat

VARIABLES
    svc, svcCache,           \* Services: "present", "deleted" or "none"
    eps, epCache, epQueued,  \* Endpoints, the informer's copy, E's work queue
    sd, sdCache, sdHeld,     \* the SD, the informer's copy, the holders
    sdQueued,                \* the SD is in S's work queue
    nacos,                   \* what the Nacos server has for a key and address
    nacosSvcs, unchecked,    \* its services, and those whose health check is NONE
    proc,                    \* the local state of S and E
    raced,                   \* history: a user has acted before all was at rest
    misread,                 \* history: see Query
    seen,                    \* history: the addresses the Endpoints have ever had
    ops, faults              \* how much of the bounds is used up

clusterVars == <<svc, svcCache, eps, epCache>>
healthVars == <<nacosSvcs, unchecked>>
userVars == <<raced, seen, ops>>
faultVars == <<misread, faults>>
vars == <<clusterVars, epQueued, sd, sdCache, sdHeld, sdQueued, nacos, healthVars, proc,
          userVars, faultVars>>

Procs == {"S", "E"}

\* status is the set of keys of status.syncStatuses: every entry is ready.
Sds == [exists : BOOLEAN, deleting : BOOLEAN, fin : BOOLEAN, status : SUBSET Keys]

NoSd == [exists |-> FALSE, deleting |-> FALSE, fin |-> FALSE, status |-> {}]

\* list is what p has read of the Endpoints, todo the Services, or in the
\* finalization the keys, still to be handled; item and key are the one in
\* hand, add and del the calls diffAddresses has found necessary for it.
ProcStates ==
    [pc : {"idle", "next", "prepare", "create", "update", "query", "change"}, final : BOOLEAN,
     sd : Sds, list : [Services -> Eps], todo : SUBSET Keys,
     item : SUBSET Keys, key : SUBSET Keys, add : SUBSET Addrs, del : SUBSET Addrs]

Idle == [pc |-> "idle", final |-> FALSE, sd |-> NoSd, list |-> [s \in Services |-> None],
         todo |-> {}, item |-> {}, key |-> {}, add |-> {}, del |-> {}]

Init ==
    /\ svc = [s \in Services |-> IF s \in InitServices THEN "present" ELSE "none"]
    /\ svcCache = svc
    /\ eps \in InitEps /\ epCache = eps /\ epQueued = {}
    /\ sd = [NoSd EXCEPT !.exists = TRUE] /\ sdCache = sd /\ sdHeld = {"cache"} /\ sdQueued = TRUE
    /\ nacos = [k \in Keys |-> [a \in Addrs |-> IF a \in InitOthers[k] THEN "other" ELSE "none"]]
    /\ nacosSvcs = {k \in Keys : InitOthers[k] # {}} /\ unchecked = {}
    /\ proc = [p \in Procs |-> Idle]
    /\ raced = FALSE /\ misread = FALSE /\ seen = [s \in Services |-> UNION eps[s]]
    /\ ops = 0 /\ faults = 0

-----------------------------------------------------------------------------
(* Building blocks. *)

InScope(s) == Listed = {} \/ s \in Listed

\* The addresses of an Endpoints object; none if it is gone.
ConvertToAddresses(e) == UNION e

\* Without the Service its annotations are unknown and its own name is used.
GenerateServiceInfo(s) == IF svcCache[s] = "present" THEN NacosName[s] ELSE s

Become(p, rec) ==
    /\ proc' = [proc EXCEPT ![p] = rec]
    /\ sdHeld' = IF rec.pc = "idle" THEN sdHeld \ {p} ELSE sdHeld

\* Mutation: the Nacos name of the Service is queued in place of its own.
FailedByKey(p) ==
    /\ Become(p, Idle)
    /\ sdQueued' = (sdQueued \/ p = "S")
    /\ epQueued' = epQueued \cup (IF p = "E" THEN proc[p].key ELSE {})

\* Reconcile returns an error: the request goes back to p's queue.
Failed(p) ==
    /\ Become(p, Idle)
    /\ sdQueued' = (sdQueued \/ p = "S")
    /\ epQueued' = epQueued \cup (IF p = "E" THEN proc[p].item ELSE {})

Fault == faults < MaxFaults /\ faults' = faults + 1

-----------------------------------------------------------------------------
(* The two reconcilers up to the first call. *)

\* Reconcile of the Endpoints s.  The SD is not asked whether it is being
\* deleted; one that gives no address of its server is left out.
EStart(s) ==
    /\ proc["E"].pc = "idle" /\ s \in epQueued
    /\ epQueued' = epQueued \ {s}
    /\ \/ /\ ~(sdCache.exists /\ InScope(s) /\ ByAddress)
          /\ UNCHANGED <<proc, sdHeld>>
       \/ /\ sdCache.exists /\ InScope(s) /\ ByAddress
          /\ proc' = [proc EXCEPT !["E"] =
                        [Idle EXCEPT !.pc = "prepare", !.sd = sdCache, !.list[s] = epCache[s],
                                     !.item = {s}, !.key = {GenerateServiceInfo(s)}]]
          /\ sdHeld' = IF "cache" \in sdHeld THEN sdHeld \cup {"E"} ELSE sdHeld
    /\ UNCHANGED <<clusterVars, sd, sdCache, sdQueued, nacos, healthVars, userVars, faultVars>>

\* Reconcile of a new SD: ensureFinalizer, then syncExistedService takes the
\* listed Services, all of which must have Endpoints, or all Endpoints there
\* are.  A conflict leaves the request in the queue.
SNew ==
    LET o == [sdCache EXCEPT !.fin = TRUE]
        existing == {s \in Services : InScope(s) /\ epCache[s] # None}
        missing  == \E s \in Listed : epCache[s] = None
        rec == IF missing \/ existing = {} THEN Idle
               ELSE [Idle EXCEPT !.pc = "next", !.sd = o, !.list = epCache, !.todo = existing]
    IN
    /\ proc["S"].pc = "idle" /\ sdQueued
    /\ sdCache.exists /\ ~sdCache.fin /\ "cache" \in sdHeld
    /\ sd' = o
    /\ sdQueued' = missing
    /\ proc' = [proc EXCEPT !["S"] = rec]
    /\ sdHeld' = IF rec.pc = "idle" THEN {} ELSE {"S"}
    /\ UNCHANGED <<clusterVars, epQueued, sdCache, nacos, healthVars, userVars, faultVars>>

\* Reconcile of an SD that has its finalizer, or is gone.  An update syncs the
\* listed Services only: with an empty list there is nothing to do.
SStart ==
    LET listed == {s \in Listed : epCache[s] # None}
        rec == IF sdCache.deleting
               THEN [Idle EXCEPT !.pc = "next", !.final = TRUE, !.sd = sdCache,
                                 !.todo = sdCache.status]
               ELSE [Idle EXCEPT !.pc = "next", !.sd = sdCache, !.list = epCache,
                                 !.todo = listed]
    IN
    /\ proc["S"].pc = "idle" /\ sdQueued
    /\ sdCache.exists => sdCache.fin
    /\ sdQueued' = FALSE
    /\ \/ /\ ~sdCache.exists \/ (~sdCache.deleting /\ listed = {})
          /\ UNCHANGED <<proc, sdHeld>>
       \/ /\ sdCache.exists /\ (sdCache.deleting \/ listed # {})
          /\ proc' = [proc EXCEPT !["S"] = rec]
          /\ sdHeld' = IF "cache" \in sdHeld THEN sdHeld \cup {"S"} ELSE sdHeld
    /\ UNCHANGED <<clusterVars, epQueued, sd, sdCache, nacos, healthVars, userVars, faultVars>>

\* The loops of syncEndponits and doFinalization.  A missing Service ends the
\* whole pass.
SNext(i) ==
    LET me   == proc["S"]
        rest == [me EXCEPT !.todo = @ \ {i}, !.item = {i}]
    IN
    /\ me.pc = "next" /\ i \in me.todo
    /\ \/ /\ me.final
          /\ Become("S", [rest EXCEPT !.pc = "query", !.key = {i}])
          /\ UNCHANGED <<sdQueued, epQueued>>
       \/ /\ ~me.final /\ svcCache[i] = "present"
          /\ Become("S", [rest EXCEPT !.pc = "prepare", !.key = {GenerateServiceInfo(i)}])
          /\ UNCHANGED <<sdQueued, epQueued>>
       \/ /\ ~me.final /\ svcCache[i] # "present"
          /\ Failed("S")
    /\ UNCHANGED <<clusterVars, sd, sdCache, nacos, healthVars, userVars, faultVars>>

-----------------------------------------------------------------------------
(* RegisterServiceInstances and UnregisterService. *)

\* UpdateServiceHealthCheckTypeToNone asks for the service of k first.  Without
\* an address the call cannot be made.
GetService(p, k) ==
    LET me == proc[p]
        Found(pc) == ByAddress /\ Become(p, [me EXCEPT !.pc = pc])
                     /\ UNCHANGED <<sdQueued, epQueued, faults>>
    IN
    /\ me.pc = "prepare" /\ me.key = {k}
    /\ \/ k \in unchecked /\ Found("query")
       \/ k \in nacosSvcs \ unchecked /\ Found("update")
       \/ k \notin nacosSvcs \cup unchecked /\ Found("create")
       \/ (Fault \/ (~ByAddress /\ UNCHANGED faults)) /\ Failed(p)
    /\ UNCHANGED <<clusterVars, sd, sdCache, nacos, healthVars, userVars, misread>>

\* It creates a service that is not there and asks again, which finds it: the
\* third attempt of the loop is never needed.
CreatePersistService(p, k) ==
    LET me == proc[p] IN
    /\ me.pc = "create" /\ me.key = {k}
    /\ \/ /\ nacosSvcs' = nacosSvcs \cup {k}
          /\ Become(p, [me EXCEPT !.pc = "prepare"])
          /\ UNCHANGED <<sdQueued, epQueued, faults>>
       \/ Fault /\ Failed(p) /\ nacosSvcs' \in {nacosSvcs, nacosSvcs \cup {k}}
    /\ UNCHANGED <<clusterVars, sd, sdCache, nacos, unchecked, userVars, misread>>

\* Mutation: the answer to the update of the health check is not looked at.
UpdateUnasked(p, k) ==
    LET me == proc[p] IN
    /\ me.pc = "update" /\ me.key = {k}
    /\ Become(p, [me EXCEPT !.pc = "query"])
    /\ \/ unchecked' = unchecked \cup {k} /\ UNCHANGED faults
       \/ Fault /\ UNCHANGED unchecked
    /\ UNCHANGED <<clusterVars, sd, sdCache, sdQueued, epQueued, nacos, nacosSvcs, userVars,
                   misread>>

\* Then it switches the health check of the service off.  A call that fails for
\* its caller may have reached the server: so in all the calls below.
UpdateHealthCheck(p, k) ==
    LET me == proc[p] IN
    /\ me.pc = "update" /\ me.key = {k}
    /\ \/ /\ unchecked' = unchecked \cup {k}
          /\ Become(p, [me EXCEPT !.pc = "query"])
          /\ UNCHANGED <<sdQueued, epQueued, faults>>
       \/ Fault /\ Failed(p) /\ unchecked' \in {unchecked, unchecked \cup {k}}
    /\ UNCHANGED <<clusterVars, sd, sdCache, nacos, nacosSvcs, userVars, misread>>

\* Mutation: the instances of others are taken for the controller's own.
InstancesOfAnybody(k) == {a \in Addrs : nacos[k][a] # "none"}

\* The instances that carry the controller's mark.
GetAllInstances(k) == {a \in Addrs : nacos[k][a] = "synced"}

\* Mutation: addresses that are gone are kept.
DiffAddedOnly(old, curr) == [added |-> curr \ old, deleted |-> {}]

diffAddresses(old, curr) == [added |-> curr \ old, deleted |-> old \ curr]

\* Mutation: the addresses of all the Endpoints in hand are registered.
WantedOfAll(p) ==
    IF proc[p].final THEN {} ELSE UNION {ConvertToAddresses(proc[p].list[s]) : s \in Services}

\* The addresses p is to have registered for the item in hand; none in the
\* finalization.
Wanted(p) ==
    IF proc[p].final THEN {} ELSE UNION {ConvertToAddresses(proc[p].list[s]) : s \in proc[p].item}

\* p goes on with what is to be changed when the instances found are there.
Compared(p, found) ==
    LET diff == diffAddresses(found, Wanted(p)) IN
    /\ Become(p, [proc[p] EXCEPT !.pc = "change", !.add = diff.added, !.del = diff.deleted])
    /\ UNCHANGED <<sdQueued, epQueued>>

\* GetAllInstances and diffAddresses.  An error answer whose body is a JSON
\* object, or contains "not found", reads as no instances; misread notes that
\* it has hidden one that had to go.
Query(p, k) ==
    /\ proc[p].pc = "query" /\ proc[p].key = {k}
    /\ \/ Compared(p, GetAllInstances(k)) /\ UNCHANGED <<misread, faults>>
       \/ /\ Fault /\ Compared(p, {})
          /\ misread' = (misread \/ diffAddresses(GetAllInstances(k), Wanted(p)).deleted # {})
       \/ Fault /\ Failed(p) /\ UNCHANGED misread
    /\ UNCHANGED <<clusterVars, sd, sdCache, nacos, healthVars, userVars>>

\* RegisterInstance for an added address.
Register(p, k, a) ==
    LET me == proc[p] IN
    /\ me.pc = "change" /\ me.key = {k} /\ a \in me.add
    /\ \/ /\ nacos' = [nacos EXCEPT ![k][a] = "synced"]
          /\ Become(p, [me EXCEPT !.add = @ \ {a}])
          /\ UNCHANGED <<sdQueued, epQueued, faults>>
       \/ Fault /\ Failed(p) /\ nacos' \in {nacos, [nacos EXCEPT ![k][a] = "synced"]}
    /\ UNCHANGED <<clusterVars, sd, sdCache, healthVars, userVars, misread>>

\* DeregisterInstance for a deleted one, when all the added are through.
Deregister(p, k, a) ==
    LET me == proc[p] IN
    /\ me.pc = "change" /\ me.key = {k} /\ me.add = {} /\ a \in me.del
    /\ \/ /\ nacos' = [nacos EXCEPT ![k][a] = "none"]
          /\ Become(p, [me EXCEPT !.del = @ \ {a}])
          /\ UNCHANGED <<sdQueued, epQueued, faults>>
       \/ Fault /\ Failed(p) /\ nacos' \in {nacos, [nacos EXCEPT ![k][a] = "none"]}
    /\ UNCHANGED <<clusterVars, sd, sdCache, healthVars, userVars, misread>>

\* Done with the item: doFinalization goes on with the next status entry, the
\* others record the key in the SD's status.  An entry that is already there
\* makes a new version only by its LastSyncTime.  Any error ends the pass.
Status(p) ==
    LET me   == proc[p]
        o    == [me.sd EXCEPT !.status = @ \cup me.key]
        rest == [me EXCEPT !.item = {}, !.key = {}]
        done == IF p = "S" /\ me.todo # {} THEN [rest EXCEPT !.pc = "next", !.sd = o] ELSE Idle
    IN
    /\ me.pc = "change" /\ me.add = {} /\ me.del = {}
    /\ \/ /\ me.final
          /\ Become(p, [rest EXCEPT !.pc = "next"])
          /\ UNCHANGED <<sd, sdQueued, epQueued>>
       \/ /\ ~me.final /\ p \in sdHeld
          /\ sd' = o
          /\ proc' = [proc EXCEPT ![p] = done]
          /\ \E held \in {{p}} \cup (IF o = sd THEN {sdHeld} ELSE {}) :
                sdHeld' = IF done.pc = "idle" THEN held \ {p} ELSE held
          /\ UNCHANGED <<sdQueued, epQueued>>
       \/ /\ ~me.final /\ p \notin sdHeld
          /\ Failed(p)
          /\ UNCHANGED sd
    /\ UNCHANGED <<clusterVars, sdCache, nacos, healthVars, userVars, faultVars>>

\* Mutation: the SD is written back with its finalizer.
RemoveFinalizerForgotten ==
    LET me == proc["S"] IN
    /\ me.pc = "next" /\ me.final /\ me.todo = {}
    /\ Become("S", Idle)
    /\ UNCHANGED <<clusterVars, epQueued, sd, sdCache, sdQueued, nacos, healthVars, userVars, faultVars>>

\* Every status entry is unregistered: remove the finalizer, which lets the SD
\* go.
RemoveFinalizer ==
    LET me == proc["S"] IN
    /\ me.pc = "next" /\ me.final /\ me.todo = {}
    /\ \/ /\ "S" \in sdHeld
          /\ sd' = NoSd /\ sdHeld' = {}
          /\ proc' = [proc EXCEPT !["S"] = Idle]
          /\ UNCHANGED <<sdQueued, epQueued>>
       \/ "S" \notin sdHeld /\ Failed("S") /\ UNCHANGED sd
    /\ UNCHANGED <<clusterVars, sdCache, nacos, healthVars, userVars, faultVars>>

-----------------------------------------------------------------------------
(* The environment. *)

\* The informers.  Services have a reconciler that does nothing; a change of
\* the SD's status queues the SD again, as no predicate filters it out.
SvcInformer(s) ==
    /\ svcCache[s] # svc[s]
    /\ svcCache' = [svcCache EXCEPT ![s] = svc[s]]
    /\ UNCHANGED <<svc, eps, epCache, epQueued, sd, sdCache, sdHeld, sdQueued, nacos, healthVars,
                   proc, userVars, faultVars>>

EpInformer(s) ==
    /\ epCache[s] # eps[s]
    /\ epCache' = [epCache EXCEPT ![s] = eps[s]]
    /\ epQueued' = epQueued \cup {s}
    /\ UNCHANGED <<svc, svcCache, eps, sd, sdCache, sdHeld, sdQueued, nacos, healthVars, proc,
                   userVars, faultVars>>

SdInformer ==
    /\ "cache" \notin sdHeld
    /\ sdCache' = sd
    /\ sdHeld' = sdHeld \cup {"cache"}
    /\ sdQueued' = TRUE
    /\ UNCHANGED <<clusterVars, epQueued, sd, nacos, healthVars, proc, userVars, faultVars>>

\* The endpoints controller of Kubernetes follows the deletion of a Service.
CollectEndpoints(s) ==
    /\ svc[s] = "deleted" /\ eps[s] # None
    /\ eps' = [eps EXCEPT ![s] = None]
    /\ UNCHANGED <<svc, svcCache, epCache, epQueued, sd, sdCache, sdHeld, sdQueued, nacos,
                   healthVars, proc, userVars, faultVars>>

\* Nothing is queued, running or out of date.
Quiescent ==
    /\ \A p \in Procs : proc[p].pc = "idle"
    /\ epQueued = {} /\ ~sdQueued /\ "cache" \in sdHeld
    /\ svcCache = svc /\ epCache = eps
    /\ \A s \in Services : svc[s] = "deleted" => eps[s] = None

UserOp ==
    /\ ops < MaxOps /\ ops' = ops + 1
    /\ raced' = (raced \/ ~Quiescent)

\* The pods behind a Service, or the Service itself, come and go.
Scale(s, A) ==
    /\ UserOp
    /\ svc[s] = "present" /\ eps[s] # {A}
    /\ eps' = [eps EXCEPT ![s] = {A}]
    /\ seen' = [seen EXCEPT ![s] = @ \cup A]
    /\ UNCHANGED <<svc, svcCache, epCache, epQueued, sd, sdCache, sdHeld, sdQueued, nacos,
                   healthVars, proc, faultVars>>

DeleteService(s) ==
    /\ UserOp
    /\ s \in Deletable /\ svc[s] = "present"
    /\ svc' = [svc EXCEPT ![s] = "deleted"]
    /\ UNCHANGED <<svcCache, eps, epCache, epQueued, sd, sdCache, sdHeld, sdQueued, nacos,
                   healthVars, proc, seen, faultVars>>

DeleteSd ==
    /\ UserOp
    /\ DeleteSds /\ sd.exists /\ ~sd.deleting
    /\ sd' = IF sd.fin THEN [sd EXCEPT !.deleting = TRUE] ELSE NoSd
    /\ sdHeld' = {}
    /\ UNCHANGED <<clusterVars, epQueued, sdCache, sdQueued, nacos, healthVars, proc, seen, faultVars>>

-----------------------------------------------------------------------------

Instances(p) == \E k \in Keys : \/ GetService(p, k) \/ CreatePersistService(p, k)
                                \/ UpdateHealthCheck(p, k) \/ Query(p, k)
                                \/ \E a \in Addrs : Register(p, k, a) \/ Deregister(p, k, a)

EndpointReconciler == (\E s \in Services : EStart(s)) \/ Instances("E") \/ Status("E")

SdReconciler == SNew \/ SStart \/ (\E i \in Keys : SNext(i)) \/ Instances("S") \/ Status("S")
                \/ RemoveFinalizer

Delivery == SdInformer \/ \E s \in Services : \/ SvcInformer(s) \/ EpInformer(s)
                                              \/ CollectEndpoints(s)

User == DeleteSd \/ \E s \in Services : DeleteService(s) \/ \E A \in ScaleTo : Scale(s, A)

Rest == Quiescent /\ UNCHANGED vars

Next == EndpointReconciler \/ SdReconciler \/ Delivery \/ User \/ Rest

Spec == Init /\ [][Next]_vars

\* The work queues and the informers keep running.
FairSpec ==
    /\ Spec
    /\ WF_vars(SdReconciler) /\ WF_vars(SdInformer)
    /\ WF_vars(EndpointReconciler)
    /\ \A s \in Services : /\ WF_vars(SvcInformer(s)) /\ WF_vars(EpInformer(s))
                           /\ WF_vars(CollectEndpoints(s))

-----------------------------------------------------------------------------
(* Properties. *)

\* Type correctness of the whole state.
TypeOK ==
    /\ {svc, svcCache} \subseteq [Services -> {"present", "deleted", "none"}]
    /\ {eps, epCache} \subseteq [Services -> Eps]
    /\ epQueued \subseteq Services
    /\ {sd, sdCache} \subseteq Sds /\ sdHeld \subseteq Procs \cup {"cache"} /\ sdQueued \in BOOLEAN
    /\ nacos \in [Keys -> [Addrs -> {"none", "synced", "other"}]]
    /\ nacosSvcs \subseteq Keys /\ unchecked \subseteq Keys
    /\ proc \in [Procs -> ProcStates]
    /\ raced \in BOOLEAN /\ misread \in BOOLEAN /\ seen \in [Services -> SUBSET Addrs]
    /\ ops \in 0..MaxOps /\ faults \in 0..MaxFaults

\* The addresses of every Service in scope are registered, and no others.
Matches ==
    \A s \in Services : InScope(s) => GetAllInstances(NacosName[s]) = ConvertToAddresses(eps[s])

\* The SD's status names every key the controller has instances under: the
\* finalization unregisters what the status names, and only that.
Recorded == \A k \in Keys : GetAllInstances(k) # {} => k \in sd.status

\* Once users and the network leave it alone, an SD brings the Nacos server in
\* line with the Endpoints for good, and its status with the Nacos server; an
\* SD that is deleted takes all its instances along.  Calls that fail with an
\* error, also those that have reached the server, and conflicts of the two
\* reconcilers over the status only delay this.  Excluded are users who act
\* while the reconcilers are at work (see the README for what they can cause)
\* and an error answer that GetAllInstances takes for "no instances" when there
\* was one to deregister: in the finalization it leaves that one for good.
EventuallyInSync ==
    <>[](~raced /\ ~misread =>
               IF sd.exists /\ ~sd.deleting
               THEN Matches /\ Recorded
               ELSE \A k \in Keys : GetAllInstances(k) = {})

\* Whenever the system is at rest, the Nacos server is in line with the
\* Endpoints of every Service in scope.
InSyncAtRest == Quiescent /\ sd.exists /\ ~sd.deleting => Matches

\* What others have registered is never deregistered, by neither reconciler and
\* not in the finalization either.
OthersKept ==
    [][\A k \in Keys, a \in Addrs : nacos[k][a] = "other" => nacos'[k][a] # "none"]_vars

\* Every instance is registered under a Nacos service whose health check is
\* off: nobody sends heartbeats for it.
ChecksOff == \A k \in Keys : GetAllInstances(k) # {} => k \in unchecked

\* An SD that is being deleted goes away.
SdDeletionCompletes == sd.deleting ~> ~sd.exists

-----------------------------------------------------------------------------
(* The abstract specification. *)

\* The entries the Endpoints of the Services have ever called for: with its
\* Service an Endpoints object goes under the name the annotations select,
\* without it under its own.
Offered == {e \in Keys \X Addrs :
               \E s \in Services : e[1] \in {s, NacosName[s]} /\ e[2] \in seen[s]}

EntriesOf(who) == {e \in Keys \X Addrs : nacos[e[1]][e[2]] = who}

Reg == INSTANCE Registry WITH
          offered  <- Offered,
          prepared <- unchecked,
          own      <- EntriesOf("synced"),
          foreign  <- EntriesOf("other")

\* Both reconcilers together, with failing calls and stale caches, do nothing
\* to the Nacos server that Registry does not allow: an instance they register
\* belongs to a Service that goes by this key and has had this address, under a
\* service whose health check is off, and what they deregister is their own.
ImplementsRegistry == Reg!Spec
=============================================================================
