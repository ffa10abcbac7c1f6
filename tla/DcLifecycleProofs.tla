-------------------------- MODULE DcLifecycleProofs --------------------------
(***************************************************************************)
(* Proofs about DcLifecycle: type correctness, and that the fuzzy listen   *)
(* task follows the DynamicConfiguration.                                  *)
(***************************************************************************)
EXTENDS DcLifecycle, TLAPS

-----------------------------------------------------------------------------
(* Type correctness. *)

LEMMA BoundTypes == MaxOps \in Nat /\ MaxFaults \in Nat
<1>1. {MaxOps, MaxFaults} \subseteq Nat
  BY LifecycleAssumption
<1> QED BY <1>1

\* The names of the groups, of D, of F and of the cache are different.
LEMMA NamesDiffer ==
    "D" \in Procs /\ "F" \in Procs /\ "cache" \notin Procs /\ "D" \notin Groups /\ "F" \notin Groups
<1>1. {"D", "F", "cache"} \cap Groups = {}
  BY LifecycleAssumption
<1> QED BY <1>1 DEF Procs

\* A spec the webhook lets through names a server, a scope and groups.
LEMMA SpecTypes ==
    \A s \in Specs : s.server \in Servers /\ s.scope \in {"full", "partial"} /\ InScope(s) \subseteq Groups
<1> SUFFICES ASSUME NEW s \in Specs
             PROVE  s.server \in Servers /\ s.scope \in {"full", "partial"} /\ InScope(s) \subseteq Groups
  OBVIOUS
<1>1. PICK r \in Requests : s = Default(r) /\ validateDC(s)
  BY DEF Specs
<1>2. Requests \subseteq [server : Servers \cup {NoServer}, scope : {"", "full", "partial"},
                        refs : SUBSET SUBSET Groups]
  BY LifecycleAssumption
<1>3. r \in [server : Servers \cup {NoServer}, scope : {"", "full", "partial"},
            refs : SUBSET SUBSET Groups]
  BY <1>2
<1>4. r.server \in Servers \cup {NoServer} /\ r.refs \in SUBSET SUBSET Groups
  BY <1>3
<1>5. s.server = r.server /\ s.refs \subseteq r.refs
  BY <1>1, <1>3 DEF Default
<1> QED BY <1>1, <1>4, <1>5 DEF validateDC, InScope

\* The DCs the API server and the handlers make of one.
LEMMA DcTypes ==
    /\ \A s \in Specs, n \in Nat : NewDc(s, n) \in Dcs /\ NoDc(s, n) \in Dcs
    /\ \A d \in Dcs : /\ Copy(d) \in Dcs
                     /\ CleanDynamicConfigurationStatus(d) \in Dcs
                     /\ UpdateDynamicConfigurationStatus(d) \in Dcs
    /\ \A d \in Dcs, G \in SUBSET Groups, b \in BOOLEAN :
          [d EXCEPT !.listen = G] \in Dcs /\ [d EXCEPT !.fin = b] \in Dcs
<1>1. \A s \in Specs, n \in Nat : NewDc(s, n) \in Dcs
  BY DEF NewDc, Dcs
<1>2. \A s \in Specs, n \in Nat : NoDc(s, n) \in Dcs
  BY DEF NewDc, NoDc, Dcs
<1>3. \A d \in Dcs : Copy(d) \in Dcs /\ CleanDynamicConfigurationStatus(d) \in Dcs
  BY DEF Copy, CleanDynamicConfigurationStatus, Dcs
<1>4. \A d \in Dcs : UpdateDynamicConfigurationStatus(d) \in Dcs
  BY SpecTypes DEF UpdateDynamicConfigurationStatus, Dcs
<1>5. \A d \in Dcs, G \in SUBSET Groups, b \in BOOLEAN :
          [d EXCEPT !.listen = G] \in Dcs /\ [d EXCEPT !.fin = b] \in Dcs
  BY DEF Dcs
<1> QED BY <1>1, <1>2, <1>3, <1>4, <1>5

LEMMA DcFields ==
    ASSUME TypeOK
    PROVE  /\ dc.spec \in Specs /\ dc.gen \in Nat /\ dc.gen + 1 \in Nat
           /\ dcCache.spec \in Specs /\ dcCache.gen \in Nat
<1>1. dc.spec \in Specs /\ dc.gen \in Nat /\ dcCache.spec \in Specs /\ dcCache.gen \in Nat
  BY DEF TypeOK, Dcs
<1> QED BY <1>1

LEMMA IdleType == Idle \in ProcStates /\ Idle.pc = "idle"
<1> DEFINE any == CHOOSE s \in Specs : TRUE
<1>1. any \in Specs
  BY SpecsAssumption
<1> HIDE DEF any
<1>2. NoDc(any, 0) \in Dcs
  BY <1>1, DcTypes
<1> QED BY <1>2 DEF Idle, ProcStates, any

LEMMA BecomeType ==
    ASSUME TypeOK, NEW p \in Procs, NEW rec \in ProcStates, Become(p, rec)
    PROVE  proc' \in [Procs -> ProcStates]
BY DEF TypeOK, Become

\* Every other handler keeps its local state when p goes on.
LEMMA BecomeOthers ==
    ASSUME TypeOK, NEW p \in Procs, NEW rec, Become(p, rec)
    PROVE  proc'[p] = rec /\ \A q \in Procs \ {p} : proc'[q] = proc[q]
BY DEF TypeOK, Become

LEMMA HeldType ==
    ASSUME TypeOK, NEW p \in Procs
    PROVE  CacheRead(dcHeld, p) \subseteq Procs \cup {"cache"}
BY DEF CacheRead, TypeOK

\* Status().Update changes the status and nothing else of the DC, and the cache
\* is up to date afterwards only if it was before and nothing has changed.
LEMMA WriteStatusType ==
    ASSUME TypeOK, NEW p \in Procs, NEW d \in Dcs, WriteStatus(p, d)
    PROVE  /\ dc' \in Dcs /\ dcHeld' \subseteq Procs \cup {"cache"}
           /\ dc'.exists = dc.exists /\ dc'.deleting = dc.deleting /\ dc'.fin = dc.fin
           /\ dc'.gen = dc.gen
           /\ "cache" \in dcHeld' => "cache" \in dcHeld /\ dc' = dc
<1>1. /\ StatusOf(d) \in Dcs /\ StatusOf(d).exists = dc.exists
      /\ StatusOf(d).deleting = dc.deleting /\ StatusOf(d).fin = dc.fin
      /\ StatusOf(d).gen = dc.gen
  BY DEF StatusOf, TypeOK, Dcs
<1>2. dc' = StatusOf(d)
  BY DEF WriteStatus
<1>3. /\ dcHeld' \subseteq Procs \cup {"cache"}
      /\ "cache" \in dcHeld' => "cache" \in dcHeld /\ dc' = dc
  <2>1. PICK held \in {{p}} \cup (IF dc' = dc THEN {dcHeld} ELSE {}) : dcHeld' = held \ {p}
    BY DEF WriteStatus
  <2>2. held = {p} \/ (held = dcHeld /\ dc' = dc)
    BY <2>1
  <2> QED BY <2>1, <2>2 DEF TypeOK
<1> QED BY <1>1, <1>2, <1>3

\* The clients, after Build.
LEMMA BuildType ==
    ASSUME TypeOK, NEW p \in Procs, NEW G \in SUBSET Groups, Build(p, G) \/ BuildFails(p)
    PROVE  client' \in [Servers -> Clients] /\ orphans' \in [Servers -> SUBSET Groups]
<1>1. Target(p) \in Servers
  BY SpecTypes DEF Target, TypeOK, ProcStates, Dcs
<1>2. client[Target(p)] \in Clients /\ orphans[Target(p)] \in SUBSET Groups
  BY <1>1 DEF TypeOK
<1>3. CASE BuildFails(p)
  BY <1>3 DEF BuildFails, sdk, TypeOK
<1>4. CASE Build(p, G)
  <2> DEFINE s   == Target(p)
             more == [client[s] EXCEPT !.on = IF client[s].st = "open" THEN @ \cup G ELSE @]
             new  == [st |-> "open", on |-> G]
  <2>1. more \in Clients /\ new \in Clients /\ orphans[s] \cup client[s].on \in SUBSET Groups
    BY <1>2 DEF Clients
  <2>2. \/ client' = [client EXCEPT ![s] = more] /\ orphans' = orphans
        \/ /\ client' = [client EXCEPT ![s] = new]
           /\ orphans' = [orphans EXCEPT ![s] = orphans[s] \cup client[s].on]
    BY <1>4 DEF Build
  <2> HIDE DEF more, new, s
  <2> QED BY <2>1, <2>2 DEF TypeOK
<1> QED BY <1>3, <1>4

LEMMA FaultType ==
    ASSUME TypeOK, Fault \/ UNCHANGED faults
    PROVE  faults' \in 0..MaxFaults
BY BoundTypes DEF Fault, TypeOK

LEMMA InitType == Init => TypeOK
<1> SUFFICES ASSUME Init PROVE TypeOK
  OBVIOUS
<1>1. dc \in Dcs /\ dcCache \in Dcs
  BY DcTypes DEF Init
<1>2. NoClient \in Clients
  BY DEF NoClient, Clients
<1>3. proc \in [Procs -> ProcStates]
  BY IdleType DEF Init
<1>4. client \in [Servers -> Clients] /\ orphans \in [Servers -> SUBSET Groups]
  BY <1>2 DEF Init
<1>5. ops \in 0..MaxOps /\ faults \in 0..MaxFaults /\ stopping \in Nat
  BY BoundTypes DEF Init
<1> QED BY <1>1, <1>3, <1>4, <1>5 DEF Init, TypeOK

\* The steps a group's reconciler, D and F share.
LEMMA MissType ==
    ASSUME TypeOK, NEW p \in Procs, Miss(p)
    PROVE  TypeOK'
<1>1. [proc[p] EXCEPT !.miss = TRUE] \in ProcStates
  <2>1. proc[p] \in ProcStates
    BY DEF TypeOK
  <2> QED BY <2>1 DEF ProcStates
<1>2. proc' \in [Procs -> ProcStates]
  BY <1>1, BecomeType DEF Miss
<1> QED BY <1>2 DEF Miss, TypeOK, dcVars, queues, sdk, tasks, budget

LEMMA DoneType ==
    ASSUME NEW p, NEW rec \in ProcStates
    PROVE  Done(p, rec) \in ProcStates
BY DEF Done, ProcStates

LEMMA GetType ==
    ASSUME TypeOK, NEW p \in Procs, Get(p)
    PROVE  TypeOK'
<1> DEFINE me == proc[p]
           ok == [me EXCEPT !.pc = "listen", !.miss = FALSE]
           bad == Done(p, [me EXCEPT !.err = TRUE])
<1>1. ok \in ProcStates /\ [me EXCEPT !.err = TRUE] \in ProcStates
  <2>1. me \in ProcStates
    BY DEF TypeOK
  <2> QED BY <2>1 DEF ProcStates
<1>2. bad \in ProcStates
  BY <1>1, DoneType
<1> HIDE DEF ok, bad
<1>3. (Become(p, ok) \/ Become(p, bad)) /\ (Build(p, {}) \/ BuildFails(p)) /\ (Fault \/ UNCHANGED faults)
  BY DEF Get, ok, bad
<1>4. proc' \in [Procs -> ProcStates]
  BY <1>1, <1>2, <1>3, BecomeType
<1>5. client' \in [Servers -> Clients] /\ orphans' \in [Servers -> SUBSET Groups]
  BY <1>3, BuildType
<1> QED BY <1>3, <1>4, <1>5, FaultType DEF Get, TypeOK, dcVars, queues, tasks

LEMMA ListenType ==
    ASSUME TypeOK, NEW p \in Procs, Listen(p)
    PROVE  TypeOK'
<1> DEFINE me == proc[p]
           ok == Done(p, [me EXCEPT !.dc.listen = @ \cup me.item])
           bad == Done(p, [me EXCEPT !.err = TRUE])
<1>1. me \in ProcStates /\ me.dc \in Dcs /\ me.item \in SUBSET Groups
  BY DEF TypeOK, ProcStates
<1>2. [me EXCEPT !.dc.listen = @ \cup me.item] \in ProcStates
  BY <1>1 DEF ProcStates, Dcs
<1>3. [me EXCEPT !.err = TRUE] \in ProcStates
  BY <1>1 DEF ProcStates
<1>4. ok \in ProcStates /\ bad \in ProcStates
  BY <1>2, <1>3, DoneType
<1> HIDE DEF ok, bad
<1>5. /\ Become(p, ok) \/ Become(p, bad)
      /\ Build(p, me.item) \/ Build(p, {}) \/ BuildFails(p)
      /\ Fault \/ UNCHANGED faults
  BY DEF Listen, ok, bad
<1>6. proc' \in [Procs -> ProcStates]
  BY <1>4, <1>5, BecomeType
<1>7. client' \in [Servers -> Clients] /\ orphans' \in [Servers -> SUBSET Groups]
  BY <1>1, <1>5, BuildType
<1>8. excused' \in BOOLEAN
  BY DEF Listen
<1> QED BY <1>5, <1>6, <1>7, <1>8, FaultType DEF Listen, TypeOK, dcVars, queues, tasks

\* The steps of a group's reconciler.
LEMMA RStartType ==
    ASSUME TypeOK, NEW g \in Groups, RStart(g)
    PROVE  TypeOK'
<1> DEFINE rec == [Idle EXCEPT !.pc = FirstStep(g, dcCache), !.dc = Copy(dcCache), !.item = {g}]
<1>1. g \in Procs /\ dcCache \in Dcs
  BY DEF Procs, TypeOK
<1>2. Copy(dcCache) \in Dcs /\ FirstStep(g, dcCache) \in {"get", "listen"}
  BY <1>1, DcTypes DEF FirstStep
<1>3. rec \in ProcStates
  BY <1>2, IdleType DEF ProcStates
<1> HIDE DEF rec
<1>4. \/ UNCHANGED <<proc, dcHeld>>
      \/ dcHeld' = CacheRead(dcHeld, g) /\ Become(g, rec)
  BY DEF RStart, rec
<1>5. proc' \in [Procs -> ProcStates] /\ dcHeld' \subseteq Procs \cup {"cache"}
  BY <1>1, <1>3, <1>4, BecomeType, HeldType DEF TypeOK
<1> QED BY <1>5 DEF RStart, TypeOK, sdk, tasks, budget

LEMMA RStatusType ==
    ASSUME TypeOK, NEW g \in Groups, RStatus(g)
    PROVE  TypeOK'
<1>1. g \in Procs /\ proc[g].dc \in Dcs
  BY DEF Procs, TypeOK, ProcStates
<1>2. dc' \in Dcs /\ dcHeld' \subseteq Procs \cup {"cache"}
  BY <1>1, WriteStatusType DEF RStatus, TypeOK
<1>3. proc' \in [Procs -> ProcStates]
  BY <1>1, BecomeType, IdleType DEF RStatus
<1> QED BY <1>2, <1>3 DEF RStatus, TypeOK, queues, sdk, tasks, budget

\* The steps of the DC reconciler.
LEMMA DStartType == TypeOK /\ DStart => TypeOK'
<1> SUFFICES ASSUME TypeOK, DStart PROVE TypeOK'
  OBVIOUS
<1> DEFINE c    == Copy(dcCache)
           d    == [c EXCEPT !.fin = TRUE]
           gone == IF c.scope = "" THEN {} ELSE c.listen \ InScope(c.spec)
           new  == InScope(c.spec) \ (IF c.scope = "" THEN {} ELSE c.listen)
           del  == [Idle EXCEPT !.pc = "clean", !.dc = c, !.todo = c.listen]
           mov  == [Idle EXCEPT !.pc = "clean", !.dc = d, !.todo = c.listen]
           skip == [Idle EXCEPT !.pc = "status", !.dc = d]
           sync == [[Idle EXCEPT !.dc = [d EXCEPT !.listen = @ \ gone]]
                       EXCEPT !.pc = "next", !.todo = new]
<1>1. c \in Dcs /\ d \in Dcs /\ "D" \in Procs
  BY DcTypes, NamesDiffer DEF TypeOK
<1>2. c.listen \subseteq Groups /\ InScope(c.spec) \subseteq Groups
  BY <1>1, SpecTypes DEF Dcs
<1>3. gone \subseteq Groups /\ new \subseteq Groups
  BY <1>2
<1> HIDE DEF c, d, gone, new
<1>4. [d EXCEPT !.listen = @ \ gone] \in Dcs
  BY <1>1 DEF Dcs
<1>5. del \in ProcStates /\ mov \in ProcStates /\ skip \in ProcStates
  BY <1>1, <1>2, IdleType DEF ProcStates
<1>6. sync \in ProcStates
  BY <1>3, <1>4, IdleType DEF ProcStates
<1> HIDE DEF del, mov, skip, sync
<1>7. UNCHANGED proc \/ Become("D", del) \/ Become("D", mov) \/ Become("D", skip) \/ Become("D", sync)
  BY DEF DStart, c, d, gone, new, del, mov, skip, sync
<1>8. proc' \in [Procs -> ProcStates]
  BY <1>1, <1>5, <1>6, <1>7, BecomeType DEF TypeOK
<1>9. client' \in [Servers -> Clients]
  <2>1. client' = client \/ client' = [client EXCEPT ![c.server].on = @ \ gone]
    BY DEF DStart, c, gone
  <2> QED BY <2>1 DEF TypeOK, Clients
<1>10. dc' \in Dcs
  <2>1. dc' = dc \/ dc' = [dc EXCEPT !.fin = TRUE]
    BY DEF DStart
  <2> QED BY <2>1, DcTypes DEF TypeOK
<1>11. dcHeld' \subseteq Procs \cup {"cache"}
  <2>1. dcHeld' = dcHeld \/ dcHeld' = CacheRead(dcHeld, "D") \/ dcHeld' = {"D"}
    BY DEF DStart
  <2> QED BY <1>1, <2>1, HeldType DEF TypeOK
<1> QED BY <1>8, <1>9, <1>10, <1>11 DEF DStart, TypeOK, tasks, budget

LEMMA DCleanType ==
    ASSUME TypeOK, NEW g \in Groups, DClean(g)
    PROVE  TypeOK'
<1> DEFINE me == proc["D"]
<1>1. me \in ProcStates /\ me.dc \in Dcs /\ "D" \in Procs
  BY NamesDiffer DEF TypeOK, ProcStates
<1>2. [me EXCEPT !.todo = @ \ {g}] \in ProcStates
  BY <1>1 DEF ProcStates
<1>3. proc' \in [Procs -> ProcStates]
  BY <1>1, <1>2, BecomeType, IdleType DEF DClean
<1>4. client' \in [Servers -> Clients]
  <2>1. client' = client \/ client' = [client EXCEPT ![me.dc.server].on = @ \ {g}]
    BY DEF DClean
  <2> QED BY <2>1 DEF TypeOK, Clients
<1>5. dc' \in Dcs /\ dcHeld' \subseteq Procs \cup {"cache"} /\ dcQueued' \in BOOLEAN
  BY <1>1, WriteStatusType DEF DClean, TypeOK
<1> QED BY <1>3, <1>4, <1>5 DEF DClean, TypeOK, tasks, budget

LEMMA CleanedType ==
    ASSUME TypeOK, Cleaned
    PROVE  proc' \in [Procs -> ProcStates] /\ task' \in BOOLEAN /\ stopping' \in Nat
<1> DEFINE me == proc["D"]
           unfin == [me EXCEPT !.pc = "unfin"]
           next == [me EXCEPT !.pc = "next", !.dc = CleanDynamicConfigurationStatus(@),
                              !.todo = InScope(me.dc.spec)]
<1>1. me \in ProcStates /\ me.dc \in Dcs /\ "D" \in Procs
  BY NamesDiffer DEF TypeOK, ProcStates
<1>2. CleanDynamicConfigurationStatus(me.dc) \in Dcs /\ InScope(me.dc.spec) \subseteq Groups
  BY <1>1, DcTypes, SpecTypes DEF Dcs
<1>3. unfin \in ProcStates /\ next \in ProcStates
  BY <1>1, <1>2 DEF ProcStates
<1> HIDE DEF unfin, next
<1>4. Become("D", unfin) \/ Become("D", next)
  BY DEF Cleaned, unfin, next
<1>5. task' \in BOOLEAN /\ stopping' \in Nat
  <2>1. (task' = FALSE /\ stopping' \in {stopping, stopping + 1}) \/ UNCHANGED <<task, stopping>>
    BY DEF Cleaned, StopTask, tasks
  <2>2. stopping \in Nat /\ stopping + 1 \in Nat /\ task \in BOOLEAN
    BY DEF TypeOK
  <2> QED BY <2>1, <2>2
<1> QED BY <1>1, <1>3, <1>4, <1>5, BecomeType

LEMMA DCloseType == TypeOK /\ (DClose \/ DDelete) => TypeOK'
<1> SUFFICES ASSUME TypeOK, DClose \/ DDelete PROVE TypeOK'
  OBVIOUS
<1> DEFINE me == proc["D"]
           s == me.dc.server
<1>1. me \in ProcStates /\ "D" \in Procs
  BY NamesDiffer DEF TypeOK
<1>2. [me EXCEPT !.pc = "delete"] \in ProcStates
  BY <1>1 DEF ProcStates
<1>3. (Become("D", [me EXCEPT !.pc = "delete"]) /\ UNCHANGED tasks) \/ Cleaned
  BY DEF DClose, DDelete
<1>4. proc' \in [Procs -> ProcStates] /\ task' \in BOOLEAN /\ stopping' \in Nat
  BY <1>1, <1>2, <1>3, BecomeType, CleanedType DEF TypeOK, tasks
<1>5. client' \in [Servers -> Clients]
  <2>1. \/ client' = client
        \/ client' = [client EXCEPT ![s] = [st |-> "closed", on |-> {}]]
        \/ client' = [client EXCEPT ![s] = NoClient]
    BY DEF DClose, DDelete
  <2> QED BY <2>1 DEF TypeOK, Clients, NoClient
<1>6. orphans' \in [Servers -> SUBSET Groups]
  <2>1. orphans' = orphans \/ orphans' = [orphans EXCEPT ![s] = @ \cup client[s].on]
    BY DEF DClose, DDelete
  <2>2. s \in Servers => client[s].on \subseteq Groups
    BY DEF TypeOK, Clients
  <2> QED BY <2>1, <2>2 DEF TypeOK
<1> QED BY <1>4, <1>5, <1>6 DEF DClose, DDelete, TypeOK, dcVars, queues, budget

LEMMA DNextType ==
    ASSUME TypeOK, NEW g \in Groups, DNext(g)
    PROVE  TypeOK'
<1>1. proc["D"] \in ProcStates /\ "D" \in Procs
  BY NamesDiffer DEF TypeOK
<1>2. [proc["D"] EXCEPT !.pc = "get", !.todo = @ \ {g}, !.item = {g}] \in ProcStates
  BY <1>1 DEF ProcStates
<1>3. proc' \in [Procs -> ProcStates]
  BY <1>1, <1>2, BecomeType DEF DNext
<1> QED BY <1>3 DEF DNext, TypeOK, dcVars, queues, sdk, tasks, budget

LEMMA DStatusType == TypeOK /\ DStatus => TypeOK'
<1> SUFFICES ASSUME TypeOK, DStatus PROVE TypeOK'
  OBVIOUS
<1>1. /\ proc["D"].dc \in Dcs /\ proc["D"].err \in BOOLEAN /\ "D" \in Procs
  BY NamesDiffer DEF TypeOK, ProcStates
<1>2. UpdateDynamicConfigurationStatus(proc["D"].dc) \in Dcs
  BY <1>1, DcTypes
<1>3. dc' \in Dcs /\ dcHeld' \subseteq Procs \cup {"cache"}
  BY <1>1, <1>2, WriteStatusType DEF DStatus, TypeOK
<1>4. proc' \in [Procs -> ProcStates]
  BY <1>1, BecomeType, IdleType DEF DStatus
<1>5. task' \in BOOLEAN /\ dcQueued' \in BOOLEAN
  BY <1>1 DEF DStatus, TypeOK
<1> QED BY <1>3, <1>4, <1>5 DEF DStatus, TypeOK, sdk, budget

LEMMA DRemoveFinalizerType == TypeOK /\ DRemoveFinalizer => TypeOK'
<1> SUFFICES ASSUME TypeOK, DRemoveFinalizer PROVE TypeOK'
  OBVIOUS
<1>1. NoDc(dc.spec, dc.gen) \in Dcs
  BY DcTypes, DcFields
<1>2. dc' \in Dcs /\ dcHeld' \subseteq Procs \cup {"cache"} /\ dcQueued' \in BOOLEAN
  BY <1>1 DEF DRemoveFinalizer, TypeOK
<1>3. proc' \in [Procs -> ProcStates]
  BY BecomeType, IdleType, NamesDiffer DEF DRemoveFinalizer
<1> QED BY <1>2, <1>3 DEF DRemoveFinalizer, TypeOK, sdk, tasks, budget

\* The steps of the fuzzy listen task.
LEMMA FuzzyType == TypeOK /\ (FPoll \/ FSearch \/ FStop) => TypeOK'
<1> SUFFICES ASSUME TypeOK, FPoll \/ FSearch \/ FStop PROVE TypeOK'
  OBVIOUS
<1>1. CASE FPoll
  <2>1. NoDc(dcCache.spec, 0) \in Dcs
    BY DcTypes, DcFields
  <2>2. [Idle EXCEPT !.pc = "search", !.dc = NoDc(dcCache.spec, 0)] \in ProcStates
    BY <2>1, IdleType DEF ProcStates
  <2>3. proc' \in [Procs -> ProcStates]
    BY <1>1, <2>2, BecomeType, NamesDiffer DEF FPoll
  <2> QED BY <1>1, <2>3 DEF FPoll, TypeOK, dcVars, queues, sdk, tasks, budget
<1>2. CASE FSearch
  <2>1. client' \in [Servers -> Clients] /\ orphans' \in [Servers -> SUBSET Groups]
    BY <1>2, BuildType, NamesDiffer DEF FSearch
  <2>2. proc' \in [Procs -> ProcStates]
    BY <1>2, BecomeType, IdleType, NamesDiffer DEF FSearch
  <2>3. faults' \in 0..MaxFaults
    BY <1>2, FaultType DEF FSearch
  <2> QED BY <1>2, <2>1, <2>2, <2>3 DEF FSearch, TypeOK, dcVars, queues, tasks
<1>3. CASE FStop
  BY <1>3 DEF FStop, TypeOK, dcVars, queues, sdk, budget
<1> QED BY <1>1, <1>2, <1>3

\* The steps of the environment.
LEMMA EnvironmentType == TypeOK /\ (DcInformer \/ CallbackWrites \/ User \/ Crash) => TypeOK'
<1> SUFFICES ASSUME TypeOK, DcInformer \/ CallbackWrites \/ User \/ Crash PROVE TypeOK'
  OBVIOUS
<1>1. CASE DcInformer
  <2>1. dcQueued' \in BOOLEAN
    BY <1>1 DEF DcInformer
  <2> QED BY <1>1, <2>1 DEF DcInformer, TypeOK, sdk, tasks, budget
<1>2. CASE CallbackWrites
  <2>1. faults' \in 0..MaxFaults
    BY <1>2, FaultType DEF CallbackWrites
  <2> QED BY <1>2, <2>1 DEF CallbackWrites, TypeOK, queues, sdk, tasks
<1>3. UserOp => ops' \in 0..MaxOps /\ faults' \in 0..MaxFaults
  BY BoundTypes DEF UserOp, TypeOK
<1>4. ASSUME NEW spec \in Specs, ChangeSpec(spec)
      PROVE  TypeOK'
  <2>1. dc' = [dc EXCEPT !.spec = spec, !.gen = @ + 1] /\ dc \in Dcs
    BY <1>4 DEF ChangeSpec, TypeOK
  <2>2. dc' \in Dcs
    BY <2>1, DcFields DEF Dcs
  <2>3. dcHeld' \subseteq Procs \cup {"cache"} /\ excused' \in BOOLEAN
    BY <1>4 DEF ChangeSpec
  <2> QED BY <1>3, <1>4, <2>2, <2>3 DEF ChangeSpec, TypeOK, queues, sdk, tasks
<1>5. CASE DeleteDc
  <2>1. dc.spec \in Specs /\ dc.gen + 1 \in Nat
    BY DcFields
  <2>2. NoDc(dc.spec, dc.gen + 1) \in Dcs
    BY <2>1, DcTypes
  <2>3. [dc EXCEPT !.deleting = TRUE, !.gen = @ + 1] \in Dcs
    <3>1. dc \in Dcs
      BY DEF TypeOK
    <3> QED BY <2>1, <3>1 DEF Dcs
  <2>4. dc' \in Dcs /\ dcHeld' \subseteq Procs \cup {"cache"} /\ excused' \in BOOLEAN
    BY <1>5, <2>2, <2>3 DEF DeleteDc
  <2> QED BY <1>3, <1>5, <2>4 DEF DeleteDc, TypeOK, queues, sdk, tasks
<1>6. CASE CreateDc
  <2>1. dc.spec \in Specs /\ dc.gen + 1 \in Nat
    BY DcFields
  <2>2. NewDc(dc.spec, dc.gen + 1) \in Dcs
    BY <2>1, DcTypes
  <2> QED BY <1>6, <2>2 DEF CreateDc, TypeOK, queues, sdk, tasks, budget
<1>7. ASSUME NEW g \in Groups, EditObject(g)
      PROVE  TypeOK'
  BY <1>3, <1>7 DEF EditObject, TypeOK, dcVars, sdk, tasks
<1>8. CASE Crash
  <2>1. faults' \in 0..MaxFaults
    BY <1>8, FaultType DEF Crash
  <2>2. proc' \in [Procs -> ProcStates]
    BY <1>8, IdleType DEF Crash
  <2>3. client' \in [Servers -> Clients] /\ orphans' \in [Servers -> SUBSET Groups]
    BY <1>8 DEF Crash, Clients, NoClient
  <2> QED BY <1>8, <2>1, <2>2, <2>3 DEF Crash, TypeOK
<1> QED BY <1>1, <1>2, <1>4, <1>5, <1>6, <1>7, <1>8 DEF User

\* TypeOK is inductive as it stands.
LEMMA TypeStep ==
    ASSUME TypeOK, [Next]_vars
    PROVE  TypeOK'
<1>1. ASSUME NEW g \in Groups, Reconciler(g)
      PROVE  TypeOK'
  BY <1>1, RStartType, MissType, GetType, ListenType, RStatusType DEF Reconciler, Procs
<1>2. CASE DcReconciler
  BY <1>2, DStartType, DCleanType, DCloseType, DNextType, DStatusType, DRemoveFinalizerType,
     MissType, GetType, ListenType, NamesDiffer DEF DcReconciler
<1>3. CASE FuzzyListen \/ FStop
  BY <1>3, FuzzyType, MissType, NamesDiffer DEF FuzzyListen
<1>4. CASE Rest \/ UNCHANGED vars
  BY <1>4 DEF Rest, TypeOK, vars, dcVars, queues, sdk, tasks, budget
<1> QED BY <1>1, <1>2, <1>3, <1>4, EnvironmentType DEF Next

\* Type correctness, for every number of groups, servers, specs, operations and
\* faults: the DC, its copies, the clients and the task counters are of their
\* types; in particular no task is stopped twice.
THEOREM TypeCorrect == Spec => []TypeOK
<1> QED BY InitType, TypeStep, PTL DEF Spec

-----------------------------------------------------------------------------
(* The inductive invariant. *)

\* The DC is in use: D has put its finalizer on it and nobody has deleted it.
InUse(d) == d.exists /\ ~d.deleting /\ d.fin

\* The API server and the informer: a DC that is being deleted has its
\* finalizer, and the cache has the DC as it is, or as it once was.
CacheInv ==
    /\ "cache" \in dcHeld => dcCache = dc
    /\ dcCache.gen <= dc.gen
    /\ dc.deleting => dc.fin
    /\ dcCache.deleting => dcCache.fin

\* A DC in use cannot go away behind the controller's back, nor come back once
\* its deletion has been seen.
UseInv ==
    /\ InUse(dcCache) => dc.exists /\ dc.fin
    /\ dcCache.deleting => ~InUse(dc)

\* What D's local state says of the DC.
PassInv ==
    LET me == proc["D"] IN
    /\ me.pc \in {"next", "get", "listen", "status"} => ~me.dc.deleting
    /\ me.pc = "unfin" => me.dc.deleting /\ ~task
    /\ me.pc # "idle" /\ ~me.dc.deleting => dc.exists /\ dc.fin /\ dcCache.exists
    /\ me.pc # "idle" /\ me.dc.deleting => ~InUse(dc) /\ ~InUse(dcCache)

\* A task runs only for a DC that has its finalizer and is in the cache, and a DC
\* without one has a pass of D before it.
TaskInv ==
    /\ task => dc.exists /\ dc.fin /\ dcCache.exists
    /\ dc.exists /\ ~task => \/ dcQueued \/ proc["D"].pc # "idle"
                             \/ dc.gen # dcCache.gen \/ dc.exists # dcCache.exists

LifeInv == CacheInv /\ UseInv /\ PassInv /\ TaskInv

LEMMA InitLife == Init => LifeInv
<1> SUFFICES ASSUME Init PROVE LifeInv
  OBVIOUS
<1>1. PICK spec \in Specs : dc = NewDc(spec, 0)
  BY DEF Init
<1>2. dc.exists /\ ~dc.deleting /\ ~dc.fin /\ dc.gen = 0 /\ dcCache = dc
  BY <1>1 DEF Init, NewDc
<1>3. proc["D"].pc = "idle"
  BY IdleType, NamesDiffer DEF Init
<1> QED BY <1>2, <1>3 DEF Init, LifeInv, CacheInv, UseInv, PassInv, TaskInv, InUse

\* The status of the DC may change, but not whether it is there, being deleted or
\* has its finalizer.
SameDc ==
    /\ dc'.exists = dc.exists /\ dc'.deleting = dc.deleting /\ dc'.fin = dc.fin /\ dc'.gen = dc.gen
    /\ "cache" \in dcHeld' => "cache" \in dcHeld /\ dc' = dc
    /\ UNCHANGED dcCache

\* A step that is neither D's nor one on the DC itself.
LEMMA Neutral ==
    ASSUME LifeInv, SameDc, UNCHANGED <<dcQueued, task>>, proc'["D"] = proc["D"]
    PROVE  LifeInv'
<1>1. CacheInv' /\ UseInv'
  BY DEF LifeInv, SameDc, CacheInv, UseInv, InUse
<1>2. PassInv' /\ TaskInv'
  BY DEF LifeInv, SameDc, PassInv, TaskInv, InUse
<1> QED BY <1>1, <1>2 DEF LifeInv

LEMMA CacheReadSame ==
    ASSUME NEW p \in Procs, dcHeld' = CacheRead(dcHeld, p), UNCHANGED <<dc, dcCache>>
    PROVE  SameDc
BY NamesDiffer DEF CacheRead, SameDc

LEMMA WriteStatusSame ==
    ASSUME TypeOK, NEW p \in Procs, NEW d \in Dcs, UNCHANGED dcCache,
           WriteStatus(p, d) \/ UNCHANGED <<dc, dcHeld>>
    PROVE  SameDc
<1>1. CASE WriteStatus(p, d)
  BY <1>1, WriteStatusType DEF SameDc
<1>2. CASE UNCHANGED <<dc, dcHeld>>
  BY <1>2 DEF SameDc
<1> QED BY <1>1, <1>2

\* The reconcilers of the groups and the fuzzy listen task leave D, the queue of
\* D and the task map alone.
LEMMA GroupLife ==
    ASSUME TypeOK, LifeInv, NEW g \in Groups, Reconciler(g)
    PROVE  LifeInv'
<1>1. g \in Procs /\ g # "D" /\ "D" \in Procs
  BY NamesDiffer DEF Procs
<1>2. \A rec : Become(g, rec) => proc'["D"] = proc["D"]
  BY <1>1, BecomeOthers
<1>3. CASE RStart(g)
  <2>1. SameDc
    BY <1>1, <1>3, CacheReadSame DEF RStart, SameDc
  <2> QED BY <1>2, <1>3, <2>1, Neutral DEF RStart, tasks
<1>4. CASE Miss(g) \/ Get(g) \/ Listen(g)
  <2>1. UNCHANGED <<dcVars, queues, tasks>> /\ \E rec : Become(g, rec)
    BY <1>4 DEF Miss, Get, Listen
  <2>2. SameDc
    BY <2>1 DEF dcVars, SameDc
  <2> QED BY <1>2, <2>1, <2>2, Neutral DEF queues, tasks
<1>5. CASE RStatus(g)
  <2>1. proc[g].dc \in Dcs
    BY <1>1 DEF TypeOK, ProcStates
  <2>2. SameDc
    BY <1>1, <1>5, <2>1, WriteStatusSame DEF RStatus
  <2> QED BY <1>2, <1>5, <2>2, Neutral DEF RStatus, queues, tasks
<1> QED BY <1>3, <1>4, <1>5 DEF Reconciler

LEMMA FuzzyLife ==
    ASSUME TypeOK, LifeInv, FuzzyListen \/ FStop
    PROVE  LifeInv'
<1>1. \A rec : Become("F", rec) => proc'["D"] = proc["D"]
  BY BecomeOthers, NamesDiffer
<1>2. proc'["D"] = proc["D"] /\ UNCHANGED <<dcVars, dcQueued, task>>
  BY <1>1 DEF FuzzyListen, FPoll, Miss, FSearch, FStop, queues, tasks
<1>3. SameDc
  BY <1>2 DEF dcVars, SameDc
<1> QED BY <1>2, <1>3, Neutral

\* D goes on with a pass, on the same copy.
LEMMA PassGoesOn ==
    ASSUME TypeOK, LifeInv, NEW rec, Become("D", rec), UNCHANGED <<dcVars, dcQueued, task>>,
           proc["D"].pc # "idle", rec.dc.deleting = proc["D"].dc.deleting,
           rec.pc \notin {"idle", "unfin"},
           rec.pc \in {"next", "get", "listen", "status"} => ~rec.dc.deleting
    PROVE  LifeInv'
<1>1. proc'["D"] = rec
  BY BecomeOthers, NamesDiffer
<1>2. UNCHANGED <<dc, dcCache, dcHeld>>
  BY DEF dcVars
<1>3. CacheInv' /\ UseInv'
  BY <1>2 DEF LifeInv, CacheInv, UseInv, InUse
<1>4. PassInv'
  BY <1>1, <1>2 DEF LifeInv, PassInv, InUse
<1>5. TaskInv'
  BY <1>1, <1>2 DEF LifeInv, TaskInv
<1> QED BY <1>3, <1>4, <1>5 DEF LifeInv

\* A pass of D ends and leaves the DC to the API server; without a task the
\* request is in the queue again.
LEMMA PassEnds ==
    ASSUME TypeOK, LifeInv, Become("D", Idle), SameDc, dc.exists => dcQueued' \/ task',
           task' => dc.exists /\ dc.fin /\ dcCache.exists
    PROVE  LifeInv'
<1>1. proc'["D"].pc = "idle"
  BY BecomeOthers, NamesDiffer, IdleType
<1>2. CacheInv' /\ UseInv'
  BY DEF LifeInv, SameDc, CacheInv, UseInv, InUse
<1>3. PassInv'
  BY <1>1 DEF PassInv
<1>4. TaskInv'
  BY DEF TaskInv, SameDc
<1> QED BY <1>2, <1>3, <1>4 DEF LifeInv

LEMMA DcCallsLife ==
    ASSUME TypeOK, LifeInv, Miss("D") \/ Get("D") \/ Listen("D")
    PROVE  LifeInv'
<1> DEFINE me == proc["D"]
<1>1. me \in ProcStates /\ me.dc \in Dcs
  BY NamesDiffer DEF TypeOK, ProcStates
<1>2. UNCHANGED <<dcVars, dcQueued, task>> /\ me.pc \in {"get", "listen", "search"}
  BY DEF Miss, Get, Listen, queues, tasks
<1>3. me.pc \in {"get", "listen"} => ~me.dc.deleting
  BY DEF LifeInv, PassInv
<1>4. ASSUME NEW r \in ProcStates, r.dc.deleting = me.dc.deleting
      PROVE  Done("D", r).pc = "next" /\ Done("D", r).dc.deleting = me.dc.deleting
  BY <1>4 DEF Done, ProcStates
<1>5. CASE Miss("D")
  <2> DEFINE rec == [me EXCEPT !.miss = TRUE]
  <2>1. rec.pc = me.pc /\ rec.dc = me.dc /\ Become("D", rec)
    BY <1>1, <1>5 DEF ProcStates, Miss
  <2> HIDE DEF rec
  <2> QED BY <1>2, <1>3, <2>1, PassGoesOn
<1>6. CASE Get("D")
  <2> DEFINE rec == [me EXCEPT !.pc = "listen", !.miss = FALSE]
             bad == [me EXCEPT !.err = TRUE]
  <2>1. rec.pc = "listen" /\ rec.dc = me.dc /\ bad \in ProcStates /\ bad.dc = me.dc
    BY <1>1 DEF ProcStates
  <2>2. Become("D", rec) \/ Become("D", Done("D", bad))
    BY <1>6 DEF Get
  <2>3. me.pc = "get"
    BY <1>6 DEF Get
  <2> HIDE DEF rec, bad
  <2> QED BY <1>2, <1>3, <1>4, <2>1, <2>2, <2>3, PassGoesOn
<1>7. CASE Listen("D")
  <2> DEFINE rec == [me EXCEPT !.dc.listen = @ \cup me.item]
             bad == [me EXCEPT !.err = TRUE]
  <2>1. bad \in ProcStates /\ bad.dc = me.dc
    BY <1>1 DEF ProcStates
  <2>2. rec \in ProcStates /\ rec.dc.deleting = me.dc.deleting
    <3>1. me.item \in SUBSET Groups
      BY <1>1 DEF ProcStates
    <3> QED BY <1>1, <3>1 DEF ProcStates, Dcs
  <2>3. Become("D", Done("D", rec)) \/ Become("D", Done("D", bad))
    BY <1>7 DEF Listen
  <2>4. me.pc = "listen"
    BY <1>7 DEF Listen
  <2> HIDE DEF rec, bad
  <2> QED BY <1>2, <1>3, <1>4, <2>1, <2>2, <2>3, <2>4, PassGoesOn
<1> QED BY <1>5, <1>6, <1>7

\* CleanOldNacosConfig is behind D: the task is stopped iff the DC is deleted.
LEMMA CleanedLife ==
    ASSUME TypeOK, LifeInv, Cleaned, UNCHANGED <<dcVars, dcQueued>>, proc["D"].pc # "idle"
    PROVE  LifeInv'
<1> DEFINE me == proc["D"]
           unfin == [me EXCEPT !.pc = "unfin"]
           next == [me EXCEPT !.pc = "next", !.dc = CleanDynamicConfigurationStatus(@),
                              !.todo = InScope(me.dc.spec)]
<1>1. me \in ProcStates /\ me.dc \in Dcs
  BY NamesDiffer DEF TypeOK, ProcStates
<1>2. unfin.pc = "unfin" /\ unfin.dc = me.dc
  BY <1>1 DEF ProcStates
<1>3. next.pc = "next" /\ next.dc.deleting = me.dc.deleting
  BY <1>1 DEF ProcStates, Dcs, CleanDynamicConfigurationStatus
<1> HIDE DEF unfin, next
<1>4. CASE me.dc.deleting
  <2>1. Become("D", unfin) /\ task' = FALSE
    BY <1>4 DEF Cleaned, StopTask, unfin
  <2>2. proc'["D"] = unfin
    BY <2>1, BecomeOthers, NamesDiffer
  <2>3. UNCHANGED <<dc, dcCache, dcHeld>>
    BY DEF dcVars
  <2>4. CacheInv' /\ UseInv'
    BY <2>3 DEF LifeInv, CacheInv, UseInv, InUse
  <2>5. PassInv'
    BY <1>2, <1>4, <2>1, <2>2, <2>3 DEF LifeInv, PassInv, InUse
  <2>6. TaskInv'
    BY <1>2, <2>1, <2>2 DEF TaskInv
  <2> QED BY <2>4, <2>5, <2>6 DEF LifeInv
<1>5. CASE ~me.dc.deleting
  <2>1. Become("D", next) /\ UNCHANGED task
    BY <1>5 DEF Cleaned, next, tasks
  <2> QED BY <1>3, <1>5, <2>1, PassGoesOn
<1> QED BY <1>4, <1>5

LEMMA DStartLife ==
    ASSUME TypeOK, LifeInv, DStart
    PROVE  LifeInv'
<1> DEFINE c == Copy(dcCache)
           d == [c EXCEPT !.fin = TRUE]
           gone == IF c.scope = "" THEN {} ELSE c.listen \ InScope(c.spec)
           new  == InScope(c.spec) \ (IF c.scope = "" THEN {} ELSE c.listen)
           del  == [Idle EXCEPT !.pc = "clean", !.dc = c, !.todo = c.listen]
           mov  == [Idle EXCEPT !.pc = "clean", !.dc = d, !.todo = c.listen]
           skip == [Idle EXCEPT !.pc = "status", !.dc = d]
           sync == [[Idle EXCEPT !.dc = [d EXCEPT !.listen = @ \ gone]]
                       EXCEPT !.pc = "next", !.todo = new]
<1>1. /\ c \in Dcs /\ c.exists = dcCache.exists /\ c.deleting = dcCache.deleting
      /\ c.fin = dcCache.fin
  BY DcTypes DEF TypeOK, Copy, Dcs
<1> HIDE DEF c
<1>2. d \in Dcs /\ d.deleting = c.deleting
  BY <1>1 DEF Dcs
<1> HIDE DEF d, gone, new
<1>3. [d EXCEPT !.listen = @ \ gone].deleting = c.deleting
  BY <1>2 DEF Dcs
<1>4. /\ del.pc = "clean" /\ del.dc = c /\ mov.pc = "clean" /\ mov.dc = d
      /\ skip.pc = "status" /\ skip.dc = d
  BY IdleType DEF ProcStates
<1>5. sync.pc = "next" /\ sync.dc.deleting = c.deleting
  BY <1>3, IdleType DEF ProcStates
<1> HIDE DEF del, mov, skip, sync
<1>6. UNCHANGED <<dcCache, task>> /\ proc["D"].pc = "idle"
  BY DEF DStart, tasks
<1>7. CASE /\ ~c.exists \/ (c.deleting /\ ~c.fin)
           /\ UNCHANGED <<dc, dcHeld, proc>>
  <2>1. ~dcCache.exists
    BY <1>1, <1>7 DEF LifeInv, CacheInv
  <2>2. CacheInv' /\ UseInv' /\ PassInv'
    BY <1>6, <1>7 DEF LifeInv, CacheInv, UseInv, PassInv, InUse
  <2>3. TaskInv'
    BY <1>6, <1>7, <2>1 DEF LifeInv, TaskInv
  <2> QED BY <2>2, <2>3 DEF LifeInv
<1>8. ASSUME NEW rec, Become("D", rec), rec.pc \in {"clean", "status", "next"},
             SameDc \/ (dc' = [dc EXCEPT !.fin = TRUE] /\ dcHeld' = {"D"} /\ dcCache = dc),
             rec.dc.deleting = dcCache.deleting, dcCache.exists,
             rec.pc # "clean" => ~dcCache.deleting,
             ~dcCache.deleting => dc'.exists /\ dc'.fin /\ (~dcCache.fin => dcHeld' = {"D"}),
             dcCache.deleting => SameDc
      PROVE  LifeInv'
  <2>1. proc'["D"] = rec
    BY <1>8, BecomeOthers, NamesDiffer
  <2>2. dc \in Dcs /\ dcCache \in Dcs
    BY DEF TypeOK
  <2>3. CASE SameDc
    <3>1. CacheInv' /\ UseInv'
      BY <2>3 DEF LifeInv, SameDc, CacheInv, UseInv, InUse
    <3>2. PassInv'
      BY <1>8, <2>1, <2>3 DEF LifeInv, SameDc, PassInv, UseInv, InUse
    <3>3. TaskInv'
      BY <1>6, <1>8, <2>1, <2>3 DEF LifeInv, SameDc, TaskInv
    <3> QED BY <3>1, <3>2, <3>3 DEF LifeInv
  <2>4. CASE dc' = [dc EXCEPT !.fin = TRUE] /\ dcHeld' = {"D"} /\ dcCache = dc /\ ~dcCache.deleting
    <3>1. dc'.exists = dc.exists /\ dc'.deleting = dc.deleting /\ dc'.fin /\ dc'.gen = dc.gen
      BY <2>2, <2>4 DEF Dcs
    <3>2. CacheInv'
      BY <1>6, <2>4, <3>1 DEF LifeInv, CacheInv
    <3>3. UseInv'
      BY <1>6, <1>8, <2>4, <3>1 DEF UseInv, InUse
    <3>4. PassInv'
      BY <1>6, <1>8, <2>1, <2>4, <3>1 DEF PassInv
    <3>5. TaskInv'
      BY <1>6, <1>8, <2>1, <2>4, <3>1 DEF LifeInv, TaskInv
    <3> QED BY <3>2, <3>3, <3>4, <3>5 DEF LifeInv
  <2> QED BY <1>8, <2>3, <2>4
<1>9. CASE /\ c.exists /\ c.deleting /\ dcHeld' = CacheRead(dcHeld, "D") /\ UNCHANGED dc
           /\ Become("D", del)
  <2>1. SameDc
    BY <1>6, <1>9, CacheReadSame, NamesDiffer
  <2> QED BY <1>1, <1>4, <1>8, <1>9, <2>1
<1>10. CASE /\ c.exists /\ ~c.deleting
            /\ \/ c.fin /\ dcHeld' = CacheRead(dcHeld, "D") /\ UNCHANGED dc
               \/ ~c.fin /\ "cache" \in dcHeld /\ dc' = [dc EXCEPT !.fin = TRUE] /\ dcHeld' = {"D"}
            /\ Become("D", mov) \/ Become("D", skip) \/ Become("D", sync)
  <2>1. dc \in Dcs
    BY DEF TypeOK
  <2>2. CASE c.fin /\ dcHeld' = CacheRead(dcHeld, "D") /\ UNCHANGED dc
    <3>1. SameDc
      BY <1>6, <2>2, CacheReadSame, NamesDiffer
    <3>2. dc.exists /\ dc.fin
      BY <1>1, <1>10, <2>2 DEF LifeInv, UseInv, InUse
    <3> QED BY <1>1, <1>2, <1>4, <1>5, <1>8, <1>10, <2>2, <3>1, <3>2
  <2>3. CASE ~c.fin /\ "cache" \in dcHeld /\ dc' = [dc EXCEPT !.fin = TRUE] /\ dcHeld' = {"D"}
    <3>1. dcCache = dc
      BY <2>3 DEF LifeInv, CacheInv
    <3>2. dc'.exists /\ dc'.fin
      BY <1>1, <1>10, <2>1, <2>3, <3>1 DEF Dcs
    <3> QED BY <1>1, <1>2, <1>4, <1>5, <1>8, <1>10, <2>3, <3>1, <3>2
  <2> QED BY <1>10, <2>2, <2>3
<1> QED BY <1>7, <1>9, <1>10 DEF DStart, c, d, gone, new, del, mov, skip, sync

LEMMA DcPassLife ==
    ASSUME TypeOK, LifeInv, DcReconciler
    PROVE  LifeInv'
<1> DEFINE me == proc["D"]
<1>1. me \in ProcStates /\ me.dc \in Dcs /\ "D" \in Procs
  BY NamesDiffer DEF TypeOK, ProcStates
<1>2. ASSUME NEW g \in Groups, DClean(g)
      PROVE  LifeInv'
  <2> DEFINE rec == [me EXCEPT !.todo = @ \ {g}]
  <2>1. rec.pc = me.pc /\ rec.dc = me.dc /\ me.pc = "clean"
    BY <1>1, <1>2 DEF ProcStates, DClean
  <2> HIDE DEF rec
  <2>2. CASE Become("D", rec) /\ UNCHANGED <<dc, dcHeld, dcQueued>>
    <3>1. UNCHANGED <<dcVars, dcQueued, task>>
      BY <1>2, <2>2 DEF DClean, dcVars, tasks
    <3> QED BY <2>1, <2>2, <3>1, PassGoesOn
  <2>3. CASE /\ WriteStatus("D", me.dc) \/ UNCHANGED <<dc, dcHeld>>
             /\ dcQueued' = TRUE /\ Become("D", Idle)
    <3>1. UNCHANGED <<dcCache, task>>
      BY <1>2 DEF DClean, tasks
    <3>2. SameDc
      BY <1>1, <2>3, <3>1, WriteStatusSame
    <3> QED BY <2>3, <3>1, <3>2, PassEnds DEF LifeInv, TaskInv
  <2> QED BY <1>2, <2>2, <2>3 DEF DClean, rec
<1>3. CASE DClose \/ DDelete
  <2> DEFINE rec == [me EXCEPT !.pc = "delete"]
  <2>1. rec.pc = "delete" /\ rec.dc = me.dc /\ me.pc \in {"clean", "delete"}
    BY <1>1, <1>3 DEF ProcStates, DClose, DDelete
  <2> HIDE DEF rec
  <2>2. (Become("D", rec) /\ UNCHANGED tasks) \/ Cleaned
    BY <1>3 DEF DClose, DDelete, rec
  <2>3. UNCHANGED <<dcVars, dcQueued>>
    BY <1>3 DEF DClose, DDelete, queues
  <2> QED BY <2>1, <2>2, <2>3, PassGoesOn, CleanedLife DEF tasks
<1>4. ASSUME NEW g \in Groups, DNext(g)
      PROVE  LifeInv'
  <2> DEFINE rec == [me EXCEPT !.pc = "get", !.todo = @ \ {g}, !.item = {g}]
  <2>1. rec.pc = "get" /\ rec.dc = me.dc
    BY <1>1 DEF ProcStates
  <2>2. Become("D", rec) /\ me.pc = "next" /\ UNCHANGED <<dcVars, dcQueued, task>>
    BY <1>4 DEF DNext, queues, tasks
  <2>3. ~me.dc.deleting
    BY <2>2 DEF LifeInv, PassInv
  <2> HIDE DEF rec
  <2> QED BY <2>1, <2>2, <2>3, PassGoesOn
<1>5. CASE DStatus
  <2>1. UpdateDynamicConfigurationStatus(me.dc) \in Dcs
    BY <1>1, DcTypes
  <2>2. SameDc
    BY <1>1, <1>5, <2>1, WriteStatusSame DEF DStatus
  <2>3. dc.exists /\ dc.fin /\ dcCache.exists
    BY <1>5 DEF DStatus, LifeInv, PassInv
  <2>4. dcQueued' \/ task'
    BY <1>5 DEF DStatus
  <2>5. Become("D", Idle)
    BY <1>5 DEF DStatus
  <2> QED BY <2>2, <2>3, <2>4, <2>5, PassEnds
<1>6. CASE DRemoveFinalizer
  <2>1. Become("D", Idle) /\ UNCHANGED <<dcCache, task>> /\ me.pc = "unfin"
    BY <1>6 DEF DRemoveFinalizer, tasks
  <2>2. ~task /\ ~InUse(dcCache)
    BY <2>1 DEF LifeInv, PassInv
  <2>3. CASE dc' = NoDc(dc.spec, dc.gen) /\ dcHeld' = {}
    <3>1. ~dc'.exists /\ ~dc'.deleting /\ dc'.gen = dc.gen
      BY <2>3 DEF NoDc, NewDc
    <3>2. proc'["D"].pc = "idle"
      BY <2>1, BecomeOthers, NamesDiffer, IdleType
    <3>3. CacheInv' /\ UseInv'
      BY <2>1, <2>2, <2>3, <3>1 DEF LifeInv, CacheInv, UseInv, InUse
    <3>4. PassInv' /\ TaskInv'
      BY <2>1, <2>2, <3>1, <3>2 DEF PassInv, TaskInv
    <3> QED BY <3>3, <3>4 DEF LifeInv
  <2>4. CASE dcQueued' = TRUE /\ UNCHANGED <<dc, dcHeld>>
    <3>1. SameDc
      BY <2>1, <2>4 DEF SameDc
    <3> QED BY <2>1, <2>2, <2>4, <3>1, PassEnds
  <2> QED BY <1>6, <2>3, <2>4 DEF DRemoveFinalizer
<1> QED BY <1>2, <1>3, <1>4, <1>5, <1>6, DStartLife, DcCallsLife DEF DcReconciler

\* The steps of the environment.
LEMMA EnvironmentLife ==
    ASSUME TypeOK, LifeInv, DcInformer \/ CallbackWrites \/ User \/ Crash \/ Rest \/ UNCHANGED vars
    PROVE  LifeInv'
<1>1. dc \in Dcs /\ dc.gen \in Nat /\ dcCache.gen \in Nat
  BY DcFields DEF TypeOK
<1>2. CASE DcInformer
  <2>1. UNCHANGED <<dc, proc, task>> /\ dcCache' = dc
    BY <1>2 DEF DcInformer, tasks
  <2>2. CacheInv' /\ UseInv'
    BY <1>1, <2>1 DEF LifeInv, CacheInv, UseInv, InUse
  <2>3. PassInv'
    BY <2>1 DEF LifeInv, PassInv, InUse
  <2>4. TaskInv'
    BY <1>2, <2>1 DEF DcInformer, LifeInv, TaskInv
  <2> QED BY <2>2, <2>3, <2>4 DEF LifeInv
<1>3. CASE CallbackWrites \/ (\E g \in Groups : EditObject(g)) \/ Rest \/ UNCHANGED vars
  <2>1. UNCHANGED <<dc, dcCache, dcQueued, task, proc>> /\ dcHeld' \in {{}, dcHeld}
    BY <1>3 DEF CallbackWrites, EditObject, Rest, vars, dcVars, queues, tasks
  <2>2. SameDc
    BY <2>1 DEF SameDc
  <2> QED BY <2>1, <2>2, Neutral
<1>4. ASSUME dcHeld' = {}, UNCHANGED <<dcCache, queues, tasks, proc>>, dc'.gen = dc.gen + 1,
             InUse(dcCache) => dc'.exists /\ dc'.fin,
             InUse(dc') => InUse(dc), dc'.deleting => dc'.fin,
             dc.exists /\ dc.fin => dc'.exists /\ dc'.fin
      PROVE  LifeInv'
  <2>1. UNCHANGED <<dcQueued, task>> /\ dc'.gen # dcCache.gen /\ dcCache.gen <= dc'.gen
    BY <1>1, <1>4 DEF queues, tasks, LifeInv, CacheInv
  <2>2. CacheInv'
    BY <1>4, <2>1 DEF LifeInv, CacheInv
  <2>3. UseInv'
    BY <1>4 DEF LifeInv, UseInv, InUse
  <2>4. PassInv'
    BY <1>4, <2>1 DEF LifeInv, PassInv, InUse
  <2>5. TaskInv'
    BY <1>4, <2>1 DEF LifeInv, TaskInv
  <2> QED BY <2>2, <2>3, <2>4, <2>5 DEF LifeInv
<1>5. ASSUME NEW spec \in Specs, ChangeSpec(spec)
      PROVE  LifeInv'
  <2>1. dc' = [dc EXCEPT !.spec = spec, !.gen = @ + 1] /\ dcHeld' = {}
    BY <1>5 DEF ChangeSpec
  <2>2. /\ dc'.gen = dc.gen + 1 /\ dc'.exists = dc.exists /\ dc'.deleting = dc.deleting
        /\ dc'.fin = dc.fin
    BY <1>1, <2>1 DEF Dcs
  <2> QED BY <1>4, <1>5, <2>1, <2>2 DEF ChangeSpec, LifeInv, CacheInv, UseInv, InUse
<1>6. CASE DeleteDc
  <2>1. UNCHANGED <<dcCache, queues, tasks, proc>> /\ dcHeld' = {} /\ dc.exists
    BY <1>6 DEF DeleteDc
  <2>2. CASE dc.fin
    <3>1. dc' = [dc EXCEPT !.deleting = TRUE, !.gen = @ + 1]
      BY <1>6, <2>2 DEF DeleteDc
    <3>2. dc'.gen = dc.gen + 1 /\ dc'.exists /\ dc'.deleting /\ dc'.fin
      BY <1>1, <2>1, <2>2, <3>1 DEF Dcs
    <3> QED BY <1>4, <2>1, <3>2 DEF InUse
  <2>3. CASE ~dc.fin
    <3>1. dc' = NoDc(dc.spec, dc.gen + 1)
      BY <1>6, <2>3 DEF DeleteDc
    <3>2. dc'.gen = dc.gen + 1 /\ ~dc'.exists /\ ~dc'.deleting
      BY <3>1 DEF NoDc, NewDc
    <3> QED BY <1>4, <2>1, <2>3, <3>2 DEF InUse, LifeInv, UseInv
  <2> QED BY <2>2, <2>3
<1>7. CASE CreateDc
  <2>1. UNCHANGED <<dcCache, queues, tasks, proc>> /\ dcHeld' = {} /\ ~dc.exists
        /\ dc' = NewDc(dc.spec, dc.gen + 1)
    BY <1>7 DEF CreateDc
  <2>2. dc'.gen = dc.gen + 1 /\ dc'.exists /\ ~dc'.deleting /\ ~dc'.fin
    BY <2>1 DEF NewDc
  <2> QED BY <1>4, <2>1, <2>2 DEF InUse, LifeInv, UseInv
<1>8. CASE Crash
  <2>1. proc'["D"].pc = "idle" /\ dcCache' = dc /\ UNCHANGED dc /\ dcQueued' /\ ~task'
    BY <1>8, IdleType, NamesDiffer DEF Crash
  <2>2. CacheInv' /\ UseInv'
    BY <1>1, <2>1 DEF LifeInv, CacheInv, UseInv, InUse
  <2>3. PassInv' /\ TaskInv'
    BY <2>1 DEF PassInv, TaskInv
  <2> QED BY <2>2, <2>3 DEF LifeInv
<1> QED BY <1>2, <1>3, <1>5, <1>6, <1>7, <1>8 DEF User

LEMMA LifeStep ==
    ASSUME TypeOK, LifeInv, [Next]_vars
    PROVE  LifeInv'
BY GroupLife, DcPassLife, FuzzyLife, EnvironmentLife DEF Next

\* The invariant says enough of the states in which the reconcilers are at rest.
LEMMA LifeImplies == TypeOK /\ LifeInv => TaskFollowsDc
<1> SUFFICES ASSUME TypeOK, LifeInv, Quiescent PROVE task = dc.exists
  BY DEF TaskFollowsDc, LifeInv, TaskInv
<1>1. dcCache = dc /\ ~dcQueued /\ proc["D"].pc = "idle"
  BY NamesDiffer DEF Quiescent, LifeInv, CacheInv
<1>2. task <=> dc.exists
  BY <1>1 DEF LifeInv, TaskInv
<1>3. task \in BOOLEAN /\ dc.exists \in BOOLEAN
  BY DEF TypeOK, Dcs
<1> QED BY <1>2, <1>3

\* Whenever the reconcilers are at rest a fuzzy listen task runs exactly if
\* there is a DC: no interleaving of passes, deletions, recreations, restarts
\* and failing calls starts one for a DC that is gone or leaves a DC without.
\* And a task of the map finds its DC whenever its timer fires.
THEOREM TaskIsRight == Spec => []TaskFollowsDc
<1>1. Spec => []LifeInv
  BY InitLife, LifeStep, TypeCorrect, PTL DEF Spec
<1> QED BY <1>1, LifeImplies, TypeCorrect, PTL
=============================================================================
