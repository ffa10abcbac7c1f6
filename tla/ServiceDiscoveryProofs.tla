----------------------- MODULE ServiceDiscoveryProofs -----------------------
(***************************************************************************)
(* Proofs about ServiceDiscovery: type correctness, that the instances of  *)
(* others are never deregistered, that no instance is registered under a   *)
(* service whose health check is on, and that Registry is implemented.     *)
(***************************************************************************)
EXTENDS ServiceDiscovery, TLAPS

\* What a reconciler has in hand.  Outside the calls that change instances it
\* has none to change, and the finalization registers nothing; outside the
\* finalization it goes by Services, and past the call that
\* switches it off, by a service whose health check is off.
InHand(p) ==
    /\ proc[p].pc # "change" => proc[p].add = {} /\ proc[p].del = {}
    /\ proc[p].final => proc[p].add = {}
    /\ ~proc[p].final => proc[p].item \subseteq Services /\ proc[p].todo \subseteq Services
    /\ ~proc[p].final /\ proc[p].pc \in {"query", "change"} => proc[p].key \subseteq unchecked

\* No reconciler means to deregister what others have registered, although the
\* instances may have changed since it has looked.
NoneOfOthers(p) ==
    \A k \in Keys, a \in Addrs :
        proc[p].key = {k} /\ a \in proc[p].del => nacos[k][a] # "other"

IInv ==
    /\ TypeOK
    /\ ~proc["E"].final
    /\ \A p \in Procs : InHand(p) /\ NoneOfOthers(p)
    /\ ChecksOff

-----------------------------------------------------------------------------

LEMMA IdleType == Idle \in ProcStates /\ NoSd \in Sds
BY DEF Idle, ProcStates, NoSd, Sds, Eps, None

\* The initial states.
LEMMA InitIInv == Init => IInv
<1> SUFFICES ASSUME Init PROVE IInv
  OBVIOUS
<1>1. sd \in Sds
  BY DEF Init, NoSd, Sds
<1>2. TypeOK
  <2>1. svc \in [Services -> {"present", "deleted", "none"}]
    BY DEF Init
  <2>2. nacos \in [Keys -> [Addrs -> {"none", "synced", "other"}]]
    BY DEF Init
  <2>3. proc \in [Procs -> ProcStates]
    BY IdleType DEF Init
  <2>4. svcCache = svc /\ epCache = eps /\ sdCache = sd /\ eps \in [Services -> Eps]
    BY DiscoveryAssumption DEF Init
  <2>5. /\ epQueued = {} /\ sdHeld = {"cache"} /\ sdQueued = TRUE
        /\ nacosSvcs \subseteq Keys /\ unchecked = {}
        /\ raced = FALSE /\ misread = FALSE /\ ops = 0 /\ faults = 0
    BY DEF Init
  <2>6. 0 \in 0..MaxOps /\ 0 \in 0..MaxFaults
    BY DiscoveryAssumption
  <2>7. seen \in [Services -> SUBSET Addrs]
    BY DiscoveryAssumption DEF Init, Eps, None
  <2> QED BY <1>1, <2>1, <2>2, <2>3, <2>4, <2>5, <2>6, <2>7 DEF TypeOK
<1>3. \A p \in Procs : proc[p] = Idle
  BY DEF Init
<1>4. ChecksOff
  BY DEF Init, ChecksOff, GetAllInstances
<1> QED BY <1>2, <1>3, <1>4 DEF IInv, InHand, NoneOfOthers, Idle, Procs

\* The types of what the building blocks change.
LEMMA BecomeTypes ==
    ASSUME TypeOK, NEW p \in Procs, NEW rec \in ProcStates, Become(p, rec)
    PROVE  /\ proc' \in [Procs -> ProcStates] /\ sdHeld' \subseteq Procs \cup {"cache"}
           /\ proc'[p] = rec
BY DEF TypeOK, Become

LEMMA FailedTypes ==
    ASSUME IInv, NEW p \in Procs, Failed(p)
    PROVE  /\ proc' \in [Procs -> ProcStates] /\ sdHeld' \subseteq Procs \cup {"cache"}
           /\ epQueued' \subseteq Services /\ sdQueued' \in BOOLEAN
           /\ proc' = [proc EXCEPT ![p] = Idle] /\ proc'[p] = Idle
<1>1. Become(p, Idle)
  BY DEF Failed
<1>2. p = "E" => proc[p].item \subseteq Services
  BY DEF IInv, InHand
<1>3. epQueued' \subseteq Services
  BY <1>2 DEF Failed, IInv, TypeOK
<1>4. sdQueued' \in BOOLEAN
  BY DEF Failed
<1>5. proc' = [proc EXCEPT ![p] = Idle]
  BY <1>1 DEF Become
<1> QED BY <1>1, <1>3, <1>4, <1>5, BecomeTypes, IdleType DEF IInv

LEMMA FaultType ==
    ASSUME TypeOK, Fault
    PROVE  faults' \in 0..MaxFaults
BY DiscoveryAssumption DEF TypeOK, Fault

\* The server's state only loses marks of others, never gains one.
NoNewOthers == \A k \in Keys, a \in Addrs : nacos'[k][a] = "other" => nacos[k][a] = "other"

\* A step that changes the local state of p only: what the invariant says of
\* the other reconciler stays true.
LEMMA BecomeIInv ==
    ASSUME IInv, NEW p \in Procs, NEW rec \in ProcStates, proc' = [proc EXCEPT ![p] = rec],
           NoNewOthers, unchecked \subseteq unchecked', TypeOK', ChecksOff',
           p = "E" => ~rec.final, InHand(p)', NoneOfOthers(p)'
    PROVE  IInv'
<1>1. proc'[p] = rec /\ \A q \in Procs \ {p} : proc'[q] = proc[q]
  BY DEF IInv, TypeOK
<1>2. \A q \in Procs \ {p} : InHand(q)' /\ NoneOfOthers(q)'
  BY <1>1 DEF IInv, InHand, NoneOfOthers, NoNewOthers
<1>3. ~proc'["E"].final
  BY <1>1 DEF IInv, Procs
<1> QED BY <1>2, <1>3 DEF IInv

\* A pass that fails leaves nothing in hand.
LEMMA FailedIInv ==
    ASSUME IInv, NEW p \in Procs, Failed(p), NoNewOthers, unchecked \subseteq unchecked',
           TypeOK', ChecksOff'
    PROVE  IInv'
<1>1. proc' = [proc EXCEPT ![p] = Idle] /\ proc'[p] = Idle
  BY FailedTypes
<1>2. InHand(p)' /\ NoneOfOthers(p)'
  BY <1>1 DEF InHand, NoneOfOthers, Idle
<1>3. ~Idle.final
  BY DEF Idle
<1> QED BY <1>1, <1>2, <1>3, BecomeIInv, IdleType

\* The steps of the environment touch neither the reconcilers nor the server.
LEMMA OutsideIInv ==
    ASSUME IInv, TypeOK', UNCHANGED <<proc, nacos, unchecked>>
    PROVE  IInv'
BY DEF IInv, InHand, NoneOfOthers, ChecksOff, GetAllInstances

-----------------------------------------------------------------------------
(* One lemma per action. *)

LEMMA GenerateServiceInfoType ==
    ASSUME TypeOK, NEW s \in Services
    PROVE  GenerateServiceInfo(s) \in Keys
BY DiscoveryAssumption DEF GenerateServiceInfo

LEMMA EStartIInv ==
    ASSUME IInv, NEW s \in Services, EStart(s)
    PROVE  IInv'
<1> DEFINE rec == [Idle EXCEPT !.pc = "prepare", !.sd = sdCache, !.list[s] = epCache[s],
                               !.item = {s}, !.key = {GenerateServiceInfo(s)}]
<1>1. TypeOK
  BY DEF IInv
<1>2. rec \in ProcStates
  <2>1. sdCache \in Sds /\ epCache[s] \in Eps /\ {s} \subseteq Keys
    BY <1>1, DiscoveryAssumption DEF TypeOK
  <2> QED BY <1>1, <2>1, GenerateServiceInfoType, IdleType DEF ProcStates
<1>3. epQueued' \subseteq Services /\ "E" \in Procs
  BY <1>1 DEF TypeOK, EStart, Procs
<1>4. /\ UNCHANGED <<svc, svcCache, eps, epCache, sd, sdCache, sdQueued, nacos, nacosSvcs,
                     unchecked, raced, seen, ops, misread, faults>>
  BY DEF EStart, clusterVars, healthVars, userVars, faultVars
<1>5. CASE UNCHANGED <<proc, sdHeld>>
  <2>1. TypeOK'
    BY <1>1, <1>3, <1>4, <1>5 DEF TypeOK
  <2> QED BY <1>4, <1>5, <2>1, OutsideIInv
<1>6. CASE /\ proc' = [proc EXCEPT !["E"] = rec]
           /\ sdHeld' = IF "cache" \in sdHeld THEN sdHeld \cup {"E"} ELSE sdHeld
  <2>1. proc' \in [Procs -> ProcStates] /\ proc'["E"] = rec
    BY <1>1, <1>2, <1>3, <1>6 DEF TypeOK
  <2>2. TypeOK'
    BY <1>1, <1>3, <1>4, <1>6, <2>1 DEF TypeOK
  <2>3. rec.add = {} /\ rec.del = {} /\ ~rec.final /\ rec.pc = "prepare"
        /\ rec.item = {s} /\ rec.todo = {}
    BY DEF Idle
  <2>4. InHand("E")' /\ NoneOfOthers("E")'
    BY <2>1, <2>3 DEF InHand, NoneOfOthers
  <2>5. ChecksOff' /\ NoNewOthers
    BY <1>4 DEF IInv, ChecksOff, GetAllInstances, NoNewOthers
  <2> QED BY <1>2, <1>3, <1>4, <1>6, <2>2, <2>3, <2>4, <2>5, BecomeIInv
<1> QED BY <1>5, <1>6 DEF EStart

LEMMA SNewIInv ==
    ASSUME IInv, SNew
    PROVE  IInv'
<1> DEFINE o == [sdCache EXCEPT !.fin = TRUE]
           existing == {s \in Services : InScope(s) /\ epCache[s] # None}
           missing  == \E s \in Listed : epCache[s] = None
           rec == IF missing \/ existing = {} THEN Idle
                  ELSE [Idle EXCEPT !.pc = "next", !.sd = o, !.list = epCache, !.todo = existing]
<1>1. TypeOK /\ "S" \in Procs
  BY DEF IInv, Procs
<1>2. o \in Sds /\ epCache \in [Services -> Eps] /\ existing \subseteq Keys
  BY <1>1, DiscoveryAssumption DEF TypeOK, Sds
<1>3. rec \in ProcStates
  BY <1>2, IdleType DEF ProcStates
<1>4. /\ UNCHANGED <<svc, svcCache, eps, epCache, epQueued, sdCache, nacos, nacosSvcs,
                     unchecked, raced, seen, ops, misread, faults>>
      /\ sd' = o /\ sdQueued' = missing /\ proc' = [proc EXCEPT !["S"] = rec]
      /\ sdHeld' = IF rec.pc = "idle" THEN {} ELSE {"S"}
  BY DEF SNew, clusterVars, healthVars, userVars, faultVars
<1>5. proc' \in [Procs -> ProcStates] /\ proc'["S"] = rec
  BY <1>1, <1>3, <1>4 DEF TypeOK
<1>6. sdQueued' \in BOOLEAN /\ sdHeld' \subseteq Procs \cup {"cache"}
  BY <1>4 DEF Procs
<1>7. TypeOK'
  BY <1>1, <1>2, <1>4, <1>5, <1>6 DEF TypeOK
<1>8. /\ rec.add = {} /\ rec.del = {} /\ ~rec.final /\ rec.pc \in {"idle", "next"}
      /\ rec.item = {} /\ rec.todo \subseteq Services
  BY DEF Idle
<1>9. InHand("S")' /\ NoneOfOthers("S")'
  <2> HIDE DEF rec
  <2> QED BY <1>5, <1>8 DEF InHand, NoneOfOthers
<1>10. ChecksOff' /\ NoNewOthers
  BY <1>4 DEF IInv, ChecksOff, GetAllInstances, NoNewOthers
<1> HIDE DEF rec
<1> QED BY <1>1, <1>3, <1>4, <1>7, <1>9, <1>10, BecomeIInv

LEMMA SStartIInv ==
    ASSUME IInv, SStart
    PROVE  IInv'
<1> DEFINE listed == {s \in Listed : epCache[s] # None}
           rec == IF sdCache.deleting
                  THEN [Idle EXCEPT !.pc = "next", !.final = TRUE, !.sd = sdCache,
                                    !.todo = sdCache.status]
                  ELSE [Idle EXCEPT !.pc = "next", !.sd = sdCache, !.list = epCache,
                                    !.todo = listed]
<1>1. TypeOK /\ "S" \in Procs
  BY DEF IInv, Procs
<1>2. /\ sdCache \in Sds /\ sdCache.status \subseteq Keys /\ epCache \in [Services -> Eps]
      /\ listed \subseteq Services /\ listed \subseteq Keys
  BY <1>1, DiscoveryAssumption DEF TypeOK, Sds
<1>3. rec \in ProcStates
  BY <1>2, IdleType DEF ProcStates
<1>4. UNCHANGED <<svc, svcCache, eps, epCache, epQueued, sd, sdCache, nacos, nacosSvcs,
                  unchecked, raced, seen, ops, misread, faults>> /\ sdQueued' = FALSE
  BY DEF SStart, clusterVars, healthVars, userVars, faultVars
<1>5. CASE UNCHANGED <<proc, sdHeld>>
  <2>1. TypeOK'
    BY <1>1, <1>4, <1>5 DEF TypeOK
  <2> QED BY <1>4, <1>5, <2>1, OutsideIInv
<1>6. CASE /\ proc' = [proc EXCEPT !["S"] = rec]
           /\ sdHeld' = IF "cache" \in sdHeld THEN sdHeld \cup {"S"} ELSE sdHeld
  <2>1. proc' \in [Procs -> ProcStates] /\ proc'["S"] = rec
    BY <1>1, <1>3, <1>6 DEF TypeOK
  <2>2. TypeOK'
    BY <1>1, <1>4, <1>6, <2>1 DEF TypeOK
  <2>3. /\ rec.add = {} /\ rec.del = {} /\ rec.pc = "next" /\ rec.item = {}
        /\ ~rec.final => rec.todo \subseteq Services
    BY <1>2 DEF Idle
  <2>4. InHand("S")' /\ NoneOfOthers("S")'
    <3> HIDE DEF rec
    <3> QED BY <2>1, <2>3 DEF InHand, NoneOfOthers
  <2>5. ChecksOff' /\ NoNewOthers
    BY <1>4 DEF IInv, ChecksOff, GetAllInstances, NoNewOthers
  <2> HIDE DEF rec
  <2> QED BY <1>1, <1>3, <1>4, <1>6, <2>2, <2>4, <2>5, BecomeIInv
<1> QED BY <1>5, <1>6 DEF SStart

LEMMA SNextIInv ==
    ASSUME IInv, NEW i \in Keys, SNext(i)
    PROVE  IInv'
<1> DEFINE me   == proc["S"]
           rest == [me EXCEPT !.todo = @ \ {i}, !.item = {i}]
<1>1. TypeOK /\ "S" \in Procs /\ me \in ProcStates /\ InHand("S") /\ me.pc = "next" /\ i \in me.todo
  BY DEF IInv, Procs, TypeOK, SNext
<1>2. UNCHANGED <<svc, svcCache, eps, epCache, sd, sdCache, nacos, nacosSvcs, unchecked, raced, seen, ops, misread, faults>>
  BY DEF SNext, clusterVars, healthVars, userVars, faultVars
<1>3. ChecksOff' /\ NoNewOthers
  BY <1>2 DEF IInv, ChecksOff, GetAllInstances, NoNewOthers
<1>4. me.add = {} /\ me.del = {}
  BY <1>1 DEF InHand
<1>5. ASSUME NEW rec \in ProcStates, Become("S", rec), UNCHANGED <<sdQueued, epQueued>>,
             rec.add = {}, rec.del = {}, rec.pc \in {"query", "prepare"},
             ~rec.final => /\ rec.pc = "prepare"
                           /\ rec.item \subseteq Services /\ rec.todo \subseteq Services
      PROVE  IInv'
  <2>1. /\ proc' \in [Procs -> ProcStates] /\ sdHeld' \subseteq Procs \cup {"cache"}
        /\ proc'["S"] = rec /\ proc' = [proc EXCEPT !["S"] = rec]
    BY <1>1, <1>5, BecomeTypes DEF Become
  <2>2. TypeOK'
    BY <1>1, <1>2, <1>5, <2>1 DEF TypeOK
  <2>3. InHand("S")' /\ NoneOfOthers("S")'
    BY <1>5, <2>1 DEF InHand, NoneOfOthers
  <2> QED BY <1>1, <1>2, <1>3, <1>5, <2>1, <2>2, <2>3, BecomeIInv
<1>6. CASE me.final /\ Become("S", [rest EXCEPT !.pc = "query", !.key = {i}])
           /\ UNCHANGED <<sdQueued, epQueued>>
  <2>1. [rest EXCEPT !.pc = "query", !.key = {i}] \in ProcStates
    BY <1>1 DEF ProcStates
  <2> QED BY <1>1, <1>4, <1>5, <1>6, <2>1 DEF ProcStates
<1>7. CASE ~me.final /\ Become("S", [rest EXCEPT !.pc = "prepare", !.key = {GenerateServiceInfo(i)}])
           /\ UNCHANGED <<sdQueued, epQueued>>
  <2>1. i \in Services /\ me.todo \subseteq Services
    BY <1>1, <1>7 DEF InHand
  <2>2. GenerateServiceInfo(i) \in Keys
    BY <1>1, <2>1, GenerateServiceInfoType
  <2>3. [rest EXCEPT !.pc = "prepare", !.key = {GenerateServiceInfo(i)}] \in ProcStates
    BY <1>1, <2>2 DEF ProcStates
  <2> QED BY <1>1, <1>4, <1>5, <1>7, <2>1, <2>3 DEF ProcStates
<1>8. CASE Failed("S")
  <2>1. TypeOK'
    BY <1>1, <1>2, <1>8, FailedTypes DEF TypeOK
  <2> QED BY <1>1, <1>2, <1>3, <1>8, <2>1, FailedIInv
<1> QED BY <1>6, <1>7, <1>8 DEF SNext

\* What the calls to the Nacos server leave alone, and a call that fails.
LEMMA CallFailedIInv ==
    ASSUME IInv, NEW p \in Procs, Failed(p),
           UNCHANGED <<clusterVars, sd, sdCache, userVars, misread>>,
           faults' \in 0..MaxFaults,
           nacos' \in [Keys -> [Addrs -> {"none", "synced", "other"}]],
           nacosSvcs' \subseteq Keys, unchecked \subseteq unchecked', unchecked' \subseteq Keys,
           NoNewOthers, ChecksOff'
    PROVE  IInv'
<1>1. TypeOK
  BY DEF IInv
<1>2. UNCHANGED <<svc, svcCache, eps, epCache, sd, sdCache, raced, seen, ops, misread>>
  BY DEF clusterVars, userVars
<1>3. TypeOK'
  BY <1>1, <1>2, FailedTypes DEF TypeOK
<1> QED BY <1>3, FailedIInv

\* A call that prepares the service and goes on to the step pc.
LEMMA CallDoneIInv ==
    ASSUME IInv, NEW p \in Procs, NEW k \in Keys, NEW pc \in {"prepare", "create", "update", "query"},
           proc[p].pc # "change", proc[p].key = {k}, pc = "query" => k \in unchecked',
           Become(p, [proc[p] EXCEPT !.pc = pc]),
           UNCHANGED <<clusterVars, sd, sdCache, sdQueued, epQueued, nacos, userVars, faultVars>>,
           nacosSvcs' \subseteq Keys, unchecked \subseteq unchecked', unchecked' \subseteq Keys
    PROVE  IInv'
<1> DEFINE rec == [proc[p] EXCEPT !.pc = pc]
<1>1. TypeOK /\ proc[p] \in ProcStates /\ InHand(p)
  BY DEF IInv, TypeOK
<1>2. UNCHANGED <<svc, svcCache, eps, epCache, raced, seen, ops, misread, faults>>
  BY DEF clusterVars, userVars, faultVars
<1>3. NoNewOthers /\ ChecksOff'
  BY DEF IInv, ChecksOff, GetAllInstances, NoNewOthers
<1>4. rec \in ProcStates
  BY <1>1 DEF ProcStates
<1>5. /\ proc' \in [Procs -> ProcStates] /\ sdHeld' \subseteq Procs \cup {"cache"}
      /\ proc'[p] = rec /\ proc' = [proc EXCEPT ![p] = rec]
  BY <1>1, <1>4, BecomeTypes DEF Become
<1>6. TypeOK'
  BY <1>1, <1>2, <1>5 DEF TypeOK
<1>7. /\ rec.add = {} /\ rec.del = {} /\ rec.final = proc[p].final
      /\ rec.item = proc[p].item /\ rec.todo = proc[p].todo /\ rec.key = {k} /\ rec.pc = pc
  BY <1>1 DEF ProcStates, InHand
<1> HIDE DEF rec
<1>8. InHand(p)' /\ NoneOfOthers(p)'
  BY <1>1, <1>5, <1>7 DEF InHand, NoneOfOthers
<1>9. p = "E" => ~rec.final
  BY <1>7 DEF IInv
<1> QED BY <1>3, <1>4, <1>5, <1>6, <1>8, <1>9, BecomeIInv

LEMMA GetServiceIInv ==
    ASSUME IInv, NEW p \in Procs, NEW k \in Keys, GetService(p, k)
    PROVE  IInv'
<1>1. /\ TypeOK /\ proc[p].pc = "prepare" /\ proc[p].key = {k}
      /\ nacosSvcs \subseteq Keys /\ unchecked \subseteq Keys /\ faults \in 0..MaxFaults
      /\ nacos \in [Keys -> [Addrs -> {"none", "synced", "other"}]]
  BY DEF IInv, TypeOK, GetService
<1>2. UNCHANGED <<clusterVars, sd, sdCache, nacos, nacosSvcs, unchecked, userVars, misread>>
  BY DEF GetService, healthVars
<1>3. ASSUME NEW pc \in {"create", "update", "query"}, pc = "query" => k \in unchecked,
             Become(p, [proc[p] EXCEPT !.pc = pc]), UNCHANGED <<sdQueued, epQueued, faults>>
      PROVE  IInv'
  BY <1>1, <1>2, <1>3, CallDoneIInv DEF faultVars
<1>4. CASE Failed(p) /\ (Fault \/ UNCHANGED faults)
  <2>1. faults' \in 0..MaxFaults
    BY <1>1, <1>4, FaultType
  <2>2. NoNewOthers /\ ChecksOff'
    BY <1>2 DEF IInv, ChecksOff, GetAllInstances, NoNewOthers
  <2> QED BY <1>1, <1>2, <1>4, <2>1, <2>2, CallFailedIInv
<1> QED BY <1>3, <1>4 DEF GetService

LEMMA CreatePersistServiceIInv ==
    ASSUME IInv, NEW p \in Procs, NEW k \in Keys, CreatePersistService(p, k)
    PROVE  IInv'
<1>1. /\ TypeOK /\ proc[p].pc = "create" /\ proc[p].key = {k} /\ unchecked \subseteq Keys
      /\ nacos \in [Keys -> [Addrs -> {"none", "synced", "other"}]]
  BY DEF IInv, TypeOK, CreatePersistService
<1>2. /\ UNCHANGED <<clusterVars, sd, sdCache, nacos, unchecked, userVars, misread>>
      /\ nacosSvcs' \subseteq Keys
  BY <1>1 DEF CreatePersistService, TypeOK
<1>3. CASE Become(p, [proc[p] EXCEPT !.pc = "prepare"]) /\ UNCHANGED <<sdQueued, epQueued, faults>>
  BY <1>1, <1>2, <1>3, CallDoneIInv DEF faultVars
<1>4. CASE Fault /\ Failed(p)
  <2>1. NoNewOthers /\ ChecksOff'
    BY <1>2 DEF IInv, ChecksOff, GetAllInstances, NoNewOthers
  <2> QED BY <1>1, <1>2, <1>4, <2>1, FaultType, CallFailedIInv
<1> QED BY <1>3, <1>4 DEF CreatePersistService

LEMMA UpdateHealthCheckIInv ==
    ASSUME IInv, NEW p \in Procs, NEW k \in Keys, UpdateHealthCheck(p, k)
    PROVE  IInv'
<1>1. /\ TypeOK /\ proc[p].pc = "update" /\ proc[p].key = {k} /\ nacosSvcs \subseteq Keys
      /\ nacos \in [Keys -> [Addrs -> {"none", "synced", "other"}]]
  BY DEF IInv, TypeOK, UpdateHealthCheck
<1>2. /\ UNCHANGED <<clusterVars, sd, sdCache, nacos, nacosSvcs, userVars, misread>>
      /\ unchecked \subseteq unchecked' /\ unchecked' \subseteq Keys
  BY <1>1 DEF UpdateHealthCheck, TypeOK
<1>3. CASE /\ Become(p, [proc[p] EXCEPT !.pc = "query"]) /\ UNCHANGED <<sdQueued, epQueued, faults>>
           /\ unchecked' = unchecked \cup {k}
  BY <1>1, <1>2, <1>3, CallDoneIInv DEF faultVars
<1>4. CASE Fault /\ Failed(p)
  <2>1. NoNewOthers /\ ChecksOff'
    BY <1>2 DEF IInv, ChecksOff, GetAllInstances, NoNewOthers
  <2> QED BY <1>1, <1>2, <1>4, <2>1, FaultType, CallFailedIInv
<1> QED BY <1>3, <1>4 DEF UpdateHealthCheck

\* What p is to have registered consists of addresses.
LEMMA WantedType ==
    ASSUME IInv, NEW p \in Procs
    PROVE  Wanted(p) \subseteq Addrs
<1>1. proc[p] \in ProcStates /\ InHand(p)
  BY DEF IInv, TypeOK
<1>2. \A e \in Eps : ConvertToAddresses(e) \subseteq Addrs
  BY DEF Eps, None, ConvertToAddresses
<1>3. ASSUME ~proc[p].final, NEW s \in proc[p].item
      PROVE  ConvertToAddresses(proc[p].list[s]) \subseteq Addrs
  <2>1. s \in Services /\ proc[p].list[s] \in Eps
    BY <1>1, <1>3 DEF InHand, ProcStates
  <2> QED BY <1>2, <2>1
<1> QED BY <1>3 DEF Wanted

LEMMA ComparedIInv ==
    ASSUME IInv, NEW p \in Procs, NEW k \in Keys, proc[p].pc = "query", proc[p].key = {k},
           NEW found \in SUBSET GetAllInstances(k), Compared(p, found),
           UNCHANGED <<clusterVars, sd, sdCache, nacos, healthVars, userVars>>,
           misread' \in BOOLEAN, faults' \in 0..MaxFaults
    PROVE  IInv'
<1> DEFINE me   == proc[p]
           diff == diffAddresses(found, Wanted(p))
           rec  == [me EXCEPT !.pc = "change", !.add = diff.added, !.del = diff.deleted]
<1>1. TypeOK /\ me \in ProcStates /\ InHand(p) /\ me.pc = "query" /\ me.key = {k}
  BY DEF IInv, TypeOK
<1>2. /\ UNCHANGED <<svc, svcCache, eps, epCache, sd, sdCache, nacos, nacosSvcs, unchecked,
                     raced, seen, ops, sdQueued, epQueued>>
      /\ Become(p, rec)
  BY DEF Compared, clusterVars, healthVars, userVars
<1>3. NoNewOthers /\ ChecksOff'
  BY <1>2 DEF IInv, ChecksOff, GetAllInstances, NoNewOthers
<1>4. diff.added = Wanted(p) \ found /\ diff.deleted \subseteq GetAllInstances(k)
  BY DEF diffAddresses
<1> HIDE DEF diff
<1>5. diff.added \subseteq Addrs /\ diff.deleted \subseteq Addrs /\ (me.final => diff.added = {})
  BY <1>4, WantedType DEF GetAllInstances, Wanted
<1>6. \A a \in diff.deleted : nacos[k][a] # "other"
  BY <1>4 DEF GetAllInstances
<1>7. rec \in ProcStates
  BY <1>1, <1>5 DEF ProcStates
<1>8. /\ proc' \in [Procs -> ProcStates] /\ sdHeld' \subseteq Procs \cup {"cache"}
      /\ proc'[p] = rec /\ proc' = [proc EXCEPT ![p] = rec]
  BY <1>1, <1>2, <1>7, BecomeTypes DEF Become
<1>9. TypeOK'
  BY <1>1, <1>2, <1>8 DEF TypeOK
<1>10. /\ rec.add = diff.added /\ rec.del = diff.deleted /\ rec.final = me.final
       /\ rec.item = me.item /\ rec.todo = me.todo /\ rec.key = {k} /\ rec.pc = "change"
  BY <1>1 DEF ProcStates
<1> HIDE DEF rec
<1>11. InHand(p)'
  BY <1>1, <1>2, <1>5, <1>8, <1>10 DEF InHand
<1>12. NoneOfOthers(p)'
  BY <1>2, <1>6, <1>8, <1>10 DEF NoneOfOthers
<1>13. p = "E" => ~rec.final
  BY <1>10 DEF IInv
<1> QED BY <1>2, <1>3, <1>7, <1>8, <1>9, <1>11, <1>12, <1>13, BecomeIInv

LEMMA QueryIInv ==
    ASSUME IInv, NEW p \in Procs, NEW k \in Keys, Query(p, k)
    PROVE  IInv'
<1>1. /\ TypeOK /\ proc[p].pc = "query" /\ proc[p].key = {k}
      /\ nacosSvcs \subseteq Keys /\ unchecked \subseteq Keys
      /\ misread \in BOOLEAN /\ faults \in 0..MaxFaults
      /\ nacos \in [Keys -> [Addrs -> {"none", "synced", "other"}]]
  BY DEF IInv, TypeOK, Query
<1>2. UNCHANGED <<clusterVars, sd, sdCache, nacos, healthVars, userVars>>
  BY DEF Query
<1>3. ASSUME NEW found \in {GetAllInstances(k), {}}, Compared(p, found),
             misread' \in BOOLEAN, faults' \in 0..MaxFaults
      PROVE  IInv'
  <2>1. found \in SUBSET GetAllInstances(k)
    OBVIOUS
  <2> QED BY <1>1, <1>2, <1>3, <2>1, ComparedIInv
<1>4. CASE Fault /\ Failed(p) /\ UNCHANGED misread
  <2>1. NoNewOthers /\ ChecksOff' /\ UNCHANGED <<nacosSvcs, unchecked>>
    BY <1>2 DEF IInv, ChecksOff, GetAllInstances, NoNewOthers, healthVars
  <2> QED BY <1>1, <1>2, <1>4, <2>1, FaultType, CallFailedIInv
<1>5. CASE Compared(p, GetAllInstances(k)) /\ UNCHANGED <<misread, faults>>
  BY <1>1, <1>3, <1>5
<1>6. CASE /\ Fault /\ Compared(p, {})
           /\ misread' = (misread \/ diffAddresses(GetAllInstances(k), Wanted(p)).deleted # {})
  BY <1>1, <1>3, <1>6, FaultType
<1> QED BY <1>4, <1>5, <1>6 DEF Query

\* A call that changes an instance, and the copy of the work left to do.
LEMMA ChangeIInv ==
    ASSUME IInv, NEW p \in Procs, NEW k \in Keys, NEW a \in Addrs,
           proc[p].pc = "change", proc[p].key = {k},
           UNCHANGED <<clusterVars, sd, sdCache, healthVars, userVars, misread>>,
           NEW add \in SUBSET proc[p].add, NEW del \in SUBSET proc[p].del,
           NEW v \in {"none", "synced"}, v = "synced" => a \in proc[p].add,
           NEW n, n = [nacos EXCEPT ![k][a] = v],
           NEW rec, rec = [proc[p] EXCEPT !.add = add, !.del = del],
           \/ nacos' = n /\ Become(p, rec) /\ UNCHANGED <<sdQueued, epQueued, faults>>
           \/ Fault /\ Failed(p) /\ nacos' \in {nacos, n}
    PROVE  IInv'
<1>1. /\ TypeOK /\ proc[p] \in ProcStates /\ InHand(p) /\ NoneOfOthers(p)
      /\ nacos \in [Keys -> [Addrs -> {"none", "synced", "other"}]]
  BY DEF IInv, TypeOK
<1>2. UNCHANGED <<svc, svcCache, eps, epCache, sd, sdCache, nacosSvcs, unchecked, raced, seen,
                  ops, misread>>
  BY DEF clusterVars, healthVars, userVars
<1>3. n \in [Keys -> [Addrs -> {"none", "synced", "other"}]]
  BY <1>1
<1>4. \A l \in Keys, b \in Addrs : n[l][b] = IF l = k /\ b = a THEN v ELSE nacos[l][b]
  BY <1>1
<1>5. nacos' \in {nacos, n}
  OBVIOUS
<1>6. NoNewOthers
  <2>1. SUFFICES ASSUME NEW l \in Keys, NEW b \in Addrs, nacos'[l][b] = "other"
                 PROVE  nacos[l][b] = "other"
    BY DEF NoNewOthers
  <2>2. n[l][b] = "other" => nacos[l][b] = "other"
    BY <1>4
  <2> QED BY <1>5, <2>1, <2>2
<1>7. v = "synced" => k \in unchecked
  BY <1>1 DEF InHand
<1>8. ChecksOff'
  <2> SUFFICES ASSUME NEW l \in Keys, NEW b \in Addrs, nacos'[l][b] = "synced"
               PROVE  l \in unchecked'
    BY DEF ChecksOff, GetAllInstances
  <2>1. nacos[l][b] = "synced" => l \in unchecked
    BY DEF IInv, ChecksOff, GetAllInstances
  <2> QED BY <1>2, <1>4, <1>5, <1>7, <2>1
<1>9. CASE nacos' = n /\ Become(p, rec) /\ UNCHANGED <<sdQueued, epQueued, faults>>
  <2>1. rec \in ProcStates
    BY <1>1 DEF ProcStates
  <2>2. /\ proc' \in [Procs -> ProcStates] /\ sdHeld' \subseteq Procs \cup {"cache"}
        /\ proc'[p] = rec /\ proc' = [proc EXCEPT ![p] = rec]
    BY <1>1, <1>9, <2>1, BecomeTypes DEF Become
  <2>3. TypeOK'
    BY <1>1, <1>2, <1>3, <1>9, <2>2 DEF TypeOK
  <2>4. /\ rec.add \subseteq proc[p].add /\ rec.del \subseteq proc[p].del
        /\ rec.final = proc[p].final /\ rec.item = proc[p].item /\ rec.todo = proc[p].todo
        /\ rec.key = {k} /\ rec.pc = "change"
    BY <1>1 DEF ProcStates
  <2>5. InHand(p)'
    BY <1>1, <1>2, <2>2, <2>4 DEF InHand
  <2>6. NoneOfOthers(p)'
    <3>1. SUFFICES ASSUME NEW l \in Keys, NEW b \in Addrs, rec.key = {l}, b \in rec.del
                   PROVE  nacos'[l][b] # "other"
      BY <2>2 DEF NoneOfOthers
    <3>2. proc[p].key = {l} /\ b \in proc[p].del
      BY <2>4, <3>1
    <3>3. nacos[l][b] # "other"
      BY <1>1, <3>2 DEF NoneOfOthers
    <3> QED BY <1>6, <3>3 DEF NoNewOthers
  <2>7. p = "E" => ~rec.final
    BY <2>4 DEF IInv
  <2> QED BY <1>2, <1>6, <1>8, <2>1, <2>2, <2>3, <2>5, <2>6, <2>7, BecomeIInv
<1>10. CASE Fault /\ Failed(p) /\ nacos' \in {nacos, n}
  <2>1. nacos' \in [Keys -> [Addrs -> {"none", "synced", "other"}]]
    BY <1>1, <1>3, <1>10
  <2>2. faults' \in 0..MaxFaults /\ nacosSvcs' \subseteq Keys /\ unchecked' \subseteq Keys
    BY <1>1, <1>2, <1>10, FaultType DEF TypeOK
  <2> QED BY <1>2, <1>6, <1>8, <1>10, <2>1, <2>2, CallFailedIInv
<1> QED BY <1>9, <1>10

LEMMA RegisterIInv ==
    ASSUME IInv, NEW p \in Procs, NEW k \in Keys, NEW a \in Addrs, Register(p, k, a)
    PROVE  IInv'
<1> DEFINE add == proc[p].add \ {a}
           n   == [nacos EXCEPT ![k][a] = "synced"]
           rec == [proc[p] EXCEPT !.add = add, !.del = proc[p].del]
<1>1. proc[p] \in ProcStates
  BY DEF IInv, TypeOK
<1>2. [proc[p] EXCEPT !.add = @ \ {a}] = rec
  BY <1>1 DEF ProcStates
<1>3. \/ nacos' = n /\ Become(p, rec) /\ UNCHANGED <<sdQueued, epQueued, faults>>
      \/ Fault /\ Failed(p) /\ nacos' \in {nacos, n}
  BY <1>2 DEF Register
<1>4. /\ proc[p].pc = "change" /\ proc[p].key = {k} /\ a \in proc[p].add
      /\ UNCHANGED <<clusterVars, sd, sdCache, healthVars, userVars, misread>>
  BY DEF Register
<1>5. add \in SUBSET proc[p].add /\ proc[p].del \in SUBSET proc[p].del
  OBVIOUS
<1>6. n = [nacos EXCEPT ![k][a] = "synced"]
  OBVIOUS
<1>7. rec = [proc[p] EXCEPT !.add = add, !.del = proc[p].del]
  OBVIOUS
<1> HIDE DEF add, n, rec
<1> QED BY <1>3, <1>4, <1>5, <1>6, <1>7, ChangeIInv

LEMMA DeregisterIInv ==
    ASSUME IInv, NEW p \in Procs, NEW k \in Keys, NEW a \in Addrs, Deregister(p, k, a)
    PROVE  IInv'
<1> DEFINE del == proc[p].del \ {a}
           n   == [nacos EXCEPT ![k][a] = "none"]
           rec == [proc[p] EXCEPT !.add = proc[p].add, !.del = del]
<1>1. proc[p] \in ProcStates
  BY DEF IInv, TypeOK
<1>2. [proc[p] EXCEPT !.del = @ \ {a}] = rec
  BY <1>1 DEF ProcStates
<1>3. \/ nacos' = n /\ Become(p, rec) /\ UNCHANGED <<sdQueued, epQueued, faults>>
      \/ Fault /\ Failed(p) /\ nacos' \in {nacos, n}
  BY <1>2 DEF Deregister
<1>4. /\ proc[p].pc = "change" /\ proc[p].key = {k}
      /\ UNCHANGED <<clusterVars, sd, sdCache, healthVars, userVars, misread>>
  BY DEF Deregister
<1>5. del \in SUBSET proc[p].del /\ proc[p].add \in SUBSET proc[p].add
  OBVIOUS
<1>6. PICK v \in {"none", "synced"} :
        n = [nacos EXCEPT ![k][a] = v] /\ (v = "synced" => a \in proc[p].add)
  OBVIOUS
<1>7. rec = [proc[p] EXCEPT !.add = proc[p].add, !.del = del]
  OBVIOUS
<1> HIDE DEF del, n, rec
<1>8. CASE nacos' = n /\ Become(p, rec) /\ UNCHANGED <<sdQueued, epQueued, faults>>
  BY <1>4, <1>5, <1>6, <1>7, <1>8, ChangeIInv, ZenonT(60)
<1>9. CASE Fault /\ Failed(p) /\ nacos' \in {nacos, n}
  BY <1>4, <1>5, <1>6, <1>7, <1>9, ChangeIInv, ZenonT(60)
<1> QED BY <1>3, <1>8, <1>9

LEMMA StatusIInv ==
    ASSUME IInv, NEW p \in Procs, Status(p)
    PROVE  IInv'
<1> DEFINE me   == proc[p]
           o    == [me.sd EXCEPT !.status = @ \cup me.key]
           rest == [me EXCEPT !.item = {}, !.key = {}]
           done == IF p = "S" /\ me.todo # {} THEN [rest EXCEPT !.pc = "next", !.sd = o] ELSE Idle
<1>1. TypeOK /\ me \in ProcStates /\ InHand(p) /\ me.add = {} /\ me.del = {}
  BY DEF IInv, TypeOK, Status
<1>2. UNCHANGED <<svc, svcCache, eps, epCache, sdCache, nacos, nacosSvcs, unchecked, raced, seen, ops, misread, faults>>
  BY DEF Status, clusterVars, healthVars, userVars, faultVars
<1>3. NoNewOthers /\ ChecksOff'
  BY <1>2 DEF IInv, ChecksOff, GetAllInstances, NoNewOthers
<1>4. o \in Sds
  BY <1>1 DEF ProcStates, Sds
<1>5. ASSUME NEW rec \in ProcStates, proc' = [proc EXCEPT ![p] = rec], UNCHANGED <<sdQueued, epQueued>>,
             sdHeld' \subseteq Procs \cup {"cache"}, sd' \in Sds, p = "E" => ~rec.final,
             rec.add = {}, rec.del = {}, rec.pc \in {"idle", "next"},
             ~rec.final => rec.item \subseteq Services /\ rec.todo \subseteq Services
      PROVE  IInv'
  <2>1. proc' \in [Procs -> ProcStates] /\ proc'[p] = rec
    BY <1>1, <1>5 DEF TypeOK
  <2>2. TypeOK'
    BY <1>1, <1>2, <1>5, <2>1 DEF TypeOK
  <2>3. InHand(p)' /\ NoneOfOthers(p)'
    BY <1>5, <2>1 DEF InHand, NoneOfOthers
  <2> QED BY <1>2, <1>3, <1>5, <2>1, <2>2, <2>3, BecomeIInv
<1>6. CASE me.final /\ Become(p, [rest EXCEPT !.pc = "next"]) /\ UNCHANGED <<sd, sdQueued, epQueued>>
  <2> DEFINE rec == [rest EXCEPT !.pc = "next"]
  <2>1. rec \in ProcStates
    BY <1>1 DEF ProcStates
  <2>2. rec.add = {} /\ rec.del = {} /\ rec.pc = "next" /\ rec.final
    BY <1>1, <1>6 DEF ProcStates
  <2>3. p # "E"
    BY <1>6 DEF IInv
  <2>4. sd' \in Sds /\ UNCHANGED <<sdQueued, epQueued>>
    BY <1>1, <1>6 DEF TypeOK
  <2>5. Become(p, rec)
    BY <1>6
  <2> HIDE DEF rec
  <2>6. sdHeld' \subseteq Procs \cup {"cache"} /\ proc' = [proc EXCEPT ![p] = rec]
    BY <1>1, <2>1, <2>5, BecomeTypes DEF Become
  <2> QED BY <1>5, <2>1, <2>2, <2>3, <2>4, <2>6
<1>7. CASE /\ ~me.final /\ sd' = o /\ proc' = [proc EXCEPT ![p] = done]
           /\ \E held \in {{p}} \cup (IF o = sd THEN {sdHeld} ELSE {}) :
                 sdHeld' = IF done.pc = "idle" THEN held \ {p} ELSE held
           /\ UNCHANGED <<sdQueued, epQueued>>
  <2>1. done \in ProcStates
    BY <1>1, <1>4, IdleType DEF ProcStates
  <2>2. me.todo \subseteq Services
    BY <1>1, <1>7 DEF InHand
  <2>3. /\ done.add = {} /\ done.del = {} /\ done.pc \in {"idle", "next"} /\ ~done.final
        /\ done.item = {} /\ done.todo \subseteq Services
    BY <1>1, <1>7, <2>2 DEF ProcStates, Idle
  <2>4. sdHeld' \subseteq Procs \cup {"cache"}
    <3> HIDE DEF done, o
    <3> QED BY <1>1, <1>7 DEF TypeOK
  <2> HIDE DEF done
  <2> QED BY <1>4, <1>5, <1>7, <2>1, <2>3, <2>4
<1>8. CASE Failed(p) /\ UNCHANGED sd
  <2>1. TypeOK'
    BY <1>1, <1>2, <1>8, FailedTypes DEF TypeOK
  <2> QED BY <1>2, <1>3, <1>8, <2>1, FailedIInv
<1> QED BY <1>6, <1>7, <1>8 DEF Status

LEMMA RemoveFinalizerIInv ==
    ASSUME IInv, RemoveFinalizer
    PROVE  IInv'
<1>1. TypeOK /\ "S" \in Procs
  BY DEF IInv, Procs
<1>2. UNCHANGED <<svc, svcCache, eps, epCache, sdCache, nacos, nacosSvcs, unchecked, raced, seen, ops, misread, faults>>
  BY DEF RemoveFinalizer, clusterVars, healthVars, userVars, faultVars
<1>3. NoNewOthers /\ ChecksOff'
  BY <1>2 DEF IInv, ChecksOff, GetAllInstances, NoNewOthers
<1>4. CASE /\ sd' = NoSd /\ sdHeld' = {} /\ proc' = [proc EXCEPT !["S"] = Idle]
           /\ UNCHANGED <<sdQueued, epQueued>>
  <2>1. proc' \in [Procs -> ProcStates] /\ proc'["S"] = Idle
    BY <1>1, <1>4, IdleType DEF TypeOK
  <2>2. TypeOK'
    BY <1>1, <1>2, <1>4, <2>1, IdleType DEF TypeOK
  <2>3. InHand("S")' /\ NoneOfOthers("S")'
    BY <2>1 DEF InHand, NoneOfOthers, Idle
  <2> QED BY <1>1, <1>2, <1>3, <1>4, <2>2, <2>3, BecomeIInv, IdleType
<1>5. CASE Failed("S") /\ UNCHANGED sd
  <2>1. TypeOK'
    BY <1>1, <1>2, <1>5, FailedTypes DEF TypeOK
  <2> QED BY <1>1, <1>2, <1>3, <1>5, <2>1, FailedIInv
<1> QED BY <1>4, <1>5 DEF RemoveFinalizer

\* The informers and the endpoints controller.
LEMMA DeliveryIInv ==
    ASSUME IInv, Delivery
    PROVE  IInv'
<1>1. TypeOK
  BY DEF IInv
<1>2. CASE SdInformer
  <2>1. UNCHANGED <<svc, svcCache, eps, epCache, epQueued, sd, nacos, nacosSvcs, unchecked, proc,
                    raced, seen, ops, misread, faults>>
        /\ sdCache' = sd /\ sdHeld' = sdHeld \cup {"cache"} /\ sdQueued' = TRUE
    BY <1>2 DEF SdInformer, clusterVars, healthVars, userVars, faultVars
  <2>2. TypeOK'
    BY <1>1, <2>1 DEF TypeOK
  <2> QED BY <2>1, <2>2, OutsideIInv
<1>3. ASSUME NEW s \in Services, SvcInformer(s)
      PROVE  IInv'
  <2>1. TypeOK'
    BY <1>1, <1>3 DEF TypeOK, SvcInformer, healthVars, userVars, faultVars
  <2> QED BY <1>3, <2>1, OutsideIInv DEF SvcInformer, healthVars
<1>4. ASSUME NEW s \in Services, EpInformer(s)
      PROVE  IInv'
  <2>1. TypeOK'
    BY <1>1, <1>4 DEF TypeOK, EpInformer, healthVars, userVars, faultVars
  <2> QED BY <1>4, <2>1, OutsideIInv DEF EpInformer, healthVars
<1>5. ASSUME NEW s \in Services, CollectEndpoints(s)
      PROVE  IInv'
  <2>1. None \in Eps
    BY DEF Eps
  <2>2. TypeOK'
    BY <1>1, <1>5, <2>1 DEF TypeOK, CollectEndpoints, healthVars, userVars, faultVars
  <2> QED BY <1>5, <2>2, OutsideIInv DEF CollectEndpoints, healthVars
<1> QED BY <1>2, <1>3, <1>4, <1>5 DEF Delivery

\* The users.
LEMMA UserIInv ==
    ASSUME IInv, User
    PROVE  IInv'
<1>1. TypeOK
  BY DEF IInv
<1>2. UserOp => ops' \in 0..MaxOps /\ raced' \in BOOLEAN
  BY <1>1, DiscoveryAssumption DEF TypeOK, UserOp
<1>3. CASE DeleteSd
  <2>1. sd' \in Sds
    BY <1>1, <1>3, IdleType DEF TypeOK, Sds, DeleteSd
  <2>2. TypeOK'
    BY <1>1, <1>2, <1>3, <2>1 DEF TypeOK, DeleteSd, clusterVars, healthVars, faultVars
  <2> QED BY <1>3, <2>2, OutsideIInv DEF DeleteSd, healthVars
<1>4. ASSUME NEW s \in Services, DeleteService(s)
      PROVE  IInv'
  <2>1. TypeOK'
    BY <1>1, <1>2, <1>4 DEF TypeOK, DeleteService, healthVars, faultVars
  <2> QED BY <1>4, <2>1, OutsideIInv DEF DeleteService, healthVars
<1>5. ASSUME NEW s \in Services, NEW A \in ScaleTo, Scale(s, A)
      PROVE  IInv'
  <2>1. {A} \in Eps
    BY DiscoveryAssumption DEF Eps
  <2>2. seen' \in [Services -> SUBSET Addrs]
    BY <1>1, <1>5, DiscoveryAssumption DEF TypeOK, Scale
  <2>3. TypeOK'
    BY <1>1, <1>2, <1>5, <2>1, <2>2 DEF TypeOK, Scale, healthVars, faultVars
  <2> QED BY <1>5, <2>3, OutsideIInv DEF Scale, healthVars
<1> QED BY <1>3, <1>4, <1>5 DEF User

LEMMA StutterIInv ==
    ASSUME IInv, UNCHANGED vars
    PROVE  IInv'
<1>1. TypeOK'
  BY DEF IInv, TypeOK, vars, clusterVars, healthVars, userVars, faultVars
<1> QED BY <1>1, OutsideIInv DEF vars, healthVars

\* Every step keeps the invariant.
LEMMA NextIInv ==
    ASSUME IInv, [Next]_vars
    PROVE  IInv'
<1>1. ASSUME NEW p \in Procs, Instances(p) PROVE IInv'
  BY <1>1, GetServiceIInv, CreatePersistServiceIInv, UpdateHealthCheckIInv, QueryIInv,
     RegisterIInv, DeregisterIInv DEF Instances
<1>2. "S" \in Procs /\ "E" \in Procs
  BY DEF Procs
<1>3. CASE EndpointReconciler
  BY <1>1, <1>2, <1>3, EStartIInv, StatusIInv DEF EndpointReconciler
<1>4. CASE SdReconciler
  BY <1>1, <1>2, <1>4, SNewIInv, SStartIInv, SNextIInv, StatusIInv, RemoveFinalizerIInv
     DEF SdReconciler
<1>5. CASE Delivery
  BY <1>5, DeliveryIInv
<1>6. CASE User
  BY <1>6, UserIInv
<1>7. CASE UNCHANGED vars
  BY <1>7, StutterIInv
<1> QED BY <1>3, <1>4, <1>5, <1>6, <1>7 DEF Next, Rest

\* The invariant holds in every reachable state.
LEMMA Invariance == Spec => []IInv
BY InitIInv, NextIInv, PTL DEF Spec

-----------------------------------------------------------------------------
(* The theorems. *)

\* Type correctness, and: for any number of Services, keys and addresses, no
\* instance of the controller is under a Nacos service whose health check has
\* not been switched off, whichever calls fail.
THEOREM InstancesUnchecked == Spec => [](TypeOK /\ ChecksOff)
<1>1. IInv => TypeOK /\ ChecksOff
  BY DEF IInv
<1> QED BY <1>1, Invariance, PTL

\* Only Deregister takes an instance away, and what it takes carried the mark
\* of the controller when it was looked up; nobody takes the mark off since.
LEMMA StepKeepsOthers ==
    ASSUME IInv, [Next]_vars, NEW k \in Keys, NEW a \in Addrs, nacos[k][a] = "other"
    PROVE  nacos'[k][a] # "none"
<1>1. TypeOK
  BY DEF IInv
<1>2. CASE nacos' = nacos
  BY <1>2
<1>3. ASSUME NEW p \in Procs, NEW l \in Keys, NEW b \in Addrs, Register(p, l, b)
      PROVE  nacos'[k][a] # "none"
  <2>1. nacos' \in {nacos, [nacos EXCEPT ![l][b] = "synced"]}
    BY <1>3 DEF Register
  <2> QED BY <1>1, <2>1 DEF TypeOK
<1>4. ASSUME NEW p \in Procs, NEW l \in Keys, NEW b \in Addrs, Deregister(p, l, b)
      PROVE  nacos'[k][a] # "none"
  <2>1. nacos' \in {nacos, [nacos EXCEPT ![l][b] = "none"]}
    BY <1>4 DEF Deregister
  <2>2. nacos[l][b] # "other"
    BY <1>4 DEF IInv, NoneOfOthers, Deregister
  <2> QED BY <1>1, <2>1, <2>2 DEF TypeOK
<1>5. \/ nacos' = nacos
      \/ \E p \in Procs, l \in Keys, b \in Addrs : Register(p, l, b) \/ Deregister(p, l, b)
  <2>1. ASSUME NEW p \in Procs, Instances(p)
        PROVE  \/ nacos' = nacos
               \/ \E l \in Keys, b \in Addrs : Register(p, l, b) \/ Deregister(p, l, b)
    BY <2>1 DEF Instances, GetService, CreatePersistService, UpdateHealthCheck, Query
  <2>2. ASSUME NEW p \in Procs, Status(p) PROVE nacos' = nacos
    BY <2>2 DEF Status
  <2>3. "S" \in Procs /\ "E" \in Procs
    BY DEF Procs
  <2>4. CASE EndpointReconciler
    BY <2>1, <2>2, <2>3, <2>4 DEF EndpointReconciler, EStart
  <2>5. CASE SdReconciler
    BY <2>1, <2>2, <2>3, <2>5 DEF SdReconciler, SNew, SStart, SNext, RemoveFinalizer
  <2>6. CASE Delivery
    BY <2>6 DEF Delivery, SdInformer, SvcInformer, EpInformer, CollectEndpoints
  <2>7. CASE User
    BY <2>7 DEF User, DeleteSd, DeleteService, Scale
  <2>8. CASE UNCHANGED vars
    BY <2>8 DEF vars
  <2> QED BY <2>4, <2>5, <2>6, <2>7, <2>8 DEF Next, Rest
<1> QED BY <1>2, <1>3, <1>4, <1>5

\* What others have registered is never deregistered, for any number of
\* Services, keys and addresses and however the two reconcilers interleave.
THEOREM OthersAreSafe == Spec => OthersKept
<1> DEFINE Kept == \A k \in Keys, a \in Addrs : nacos[k][a] = "other" => nacos'[k][a] # "none"
<1>1. IInv /\ [Next]_vars => [Kept]_vars
  BY StepKeepsOthers
<1> QED BY <1>1, Invariance, PTL DEF Spec, OthersKept

-----------------------------------------------------------------------------
(***************************************************************************)
(* ServiceDiscovery implements Registry, for any Services, keys and        *)
(* addresses.  What is missing in the invariant above is where the         *)
(* addresses a reconciler is about to register come from.                  *)
(***************************************************************************)

\* The addresses a reconciler has read have been in the Endpoints, its key is
\* one its Service goes by, and what it will register has been called for.
Backed(r) ==
    /\ \A s \in Services : UNION r.list[s] \subseteq seen[s]
    /\ ~r.final => \A s \in r.item, k \in r.key : k \in {s, NacosName[s]}
    /\ \A k \in r.key, a \in r.add : <<k, a>> \in Offered

\* The Endpoints and the informer's copy of them.
CopiesSeen == \A s \in Services : UNION eps[s] \subseteq seen[s] /\ UNION epCache[s] \subseteq seen[s]

OfferInv == CopiesSeen /\ \A p \in Procs : Backed(proc[p])

LEMMA IdleBacked == Backed(Idle)
BY DEF Backed, Idle, None

LEMMA InitOffer == Init => OfferInv
BY IdleBacked DEF Init, OfferInv, CopiesSeen

\* A step that leaves the Endpoints alone and changes at most the local state
\* of p.
LEMMA BecomeOffer ==
    ASSUME IInv, OfferInv, NEW p \in Procs, NEW rec, Backed(rec),
           proc' = [proc EXCEPT ![p] = rec], UNCHANGED <<eps, epCache, seen>>
    PROVE  OfferInv'
<1>1. \A q \in Procs : proc'[q] = rec \/ proc'[q] = proc[q]
  BY DEF IInv, TypeOK
<1>2. ASSUME NEW r, Backed(r) PROVE Backed(r)'
  BY <1>2 DEF Backed, Offered
<1>3. CopiesSeen'
  BY DEF OfferInv, CopiesSeen
<1>4. \A q \in Procs : Backed(proc'[q])
  BY <1>1 DEF OfferInv
<1> QED BY <1>2, <1>3, <1>4 DEF OfferInv, Backed, Offered

\* A pass that fails has nothing in hand.
LEMMA FailedOffer ==
    ASSUME IInv, OfferInv, NEW p \in Procs, Failed(p), UNCHANGED <<eps, epCache, seen>>
    PROVE  OfferInv'
<1>1. proc' = [proc EXCEPT ![p] = Idle]
  BY DEF Failed, Become
<1> QED BY <1>1, IdleBacked, BecomeOffer

LEMMA StillOffer ==
    ASSUME OfferInv, UNCHANGED <<eps, epCache, seen, proc>>
    PROVE  OfferInv'
BY DEF OfferInv, CopiesSeen, Backed, Offered

-----------------------------------------------------------------------------
(* The reconcilers. *)

LEMMA EStartOffer ==
    ASSUME IInv, OfferInv, NEW s \in Services, EStart(s)
    PROVE  OfferInv'
<1> DEFINE rec == [Idle EXCEPT !.pc = "prepare", !.sd = sdCache, !.list[s] = epCache[s],
                               !.item = {s}, !.key = {GenerateServiceInfo(s)}]
<1>1. UNCHANGED <<eps, epCache, seen>>
  BY DEF EStart, clusterVars, userVars
<1>2. CASE UNCHANGED proc
  BY <1>1, <1>2, StillOffer
<1>3. CASE proc' = [proc EXCEPT !["E"] = rec]
  <2>1. \A t \in Services : rec.list[t] = IF t = s THEN epCache[s] ELSE None
    BY DEF Idle
  <2>2. rec.item = {s} /\ rec.key = {GenerateServiceInfo(s)} /\ rec.add = {}
    BY DEF Idle
  <2>3. GenerateServiceInfo(s) \in {s, NacosName[s]}
    BY DEF GenerateServiceInfo
  <2> HIDE DEF rec
  <2>4. Backed(rec)
    BY <2>1, <2>2, <2>3 DEF Backed, OfferInv, CopiesSeen, None
  <2> QED BY <1>1, <1>3, <2>4, BecomeOffer DEF Procs
<1> QED BY <1>2, <1>3 DEF EStart

\* What syncEndponits starts from.
LEMMA ListBacked ==
    ASSUME OfferInv, NEW o, NEW todo
    PROVE  Backed([Idle EXCEPT !.pc = "next", !.sd = o, !.list = epCache, !.todo = todo])
<1> DEFINE rec == [Idle EXCEPT !.pc = "next", !.sd = o, !.list = epCache, !.todo = todo]
<1>1. rec.list = epCache /\ rec.item = {} /\ rec.key = {}
  BY DEF Idle
<1> HIDE DEF rec
<1>2. Backed(rec)
  BY <1>1 DEF Backed, OfferInv, CopiesSeen
<1> QED BY <1>2 DEF rec

LEMMA SNewOffer ==
    ASSUME IInv, OfferInv, SNew
    PROVE  OfferInv'
<1> DEFINE o == [sdCache EXCEPT !.fin = TRUE]
           existing == {s \in Services : InScope(s) /\ epCache[s] # None}
           rec == [Idle EXCEPT !.pc = "next", !.sd = o, !.list = epCache, !.todo = existing]
<1>1. UNCHANGED <<eps, epCache, seen>>
  BY DEF SNew, clusterVars, userVars
<1>2. proc' = [proc EXCEPT !["S"] = Idle] \/ proc' = [proc EXCEPT !["S"] = rec]
  BY DEF SNew
<1>3. Backed(rec) /\ "S" \in Procs
  BY ListBacked DEF Procs
<1> HIDE DEF rec
<1> QED BY <1>1, <1>2, <1>3, IdleBacked, BecomeOffer

LEMMA SStartOffer ==
    ASSUME IInv, OfferInv, SStart
    PROVE  OfferInv'
<1> DEFINE listed == {s \in Listed : epCache[s] # None}
           fin == [Idle EXCEPT !.pc = "next", !.final = TRUE, !.sd = sdCache,
                               !.todo = sdCache.status]
           rec == [Idle EXCEPT !.pc = "next", !.sd = sdCache, !.list = epCache, !.todo = listed]
<1>1. UNCHANGED <<eps, epCache, seen>>
  BY DEF SStart, clusterVars, userVars
<1>2. \/ UNCHANGED proc
      \/ proc' = [proc EXCEPT !["S"] = fin]
      \/ proc' = [proc EXCEPT !["S"] = rec]
  BY DEF SStart
<1>3. Backed(rec) /\ "S" \in Procs
  BY ListBacked DEF Procs
<1>4. Backed(fin)
  BY DEF Backed, Idle, None
<1> HIDE DEF rec, fin
<1> QED BY <1>1, <1>2, <1>3, <1>4, StillOffer, BecomeOffer

LEMMA SNextOffer ==
    ASSUME IInv, OfferInv, NEW i \in Keys, SNext(i)
    PROVE  OfferInv'
<1> DEFINE me  == proc["S"]
           fin == [[me EXCEPT !.todo = @ \ {i}, !.item = {i}] EXCEPT !.pc = "query", !.key = {i}]
           rec == [[me EXCEPT !.todo = @ \ {i}, !.item = {i}] EXCEPT
                      !.pc = "prepare", !.key = {GenerateServiceInfo(i)}]
<1>1. UNCHANGED <<eps, epCache, seen>>
  BY DEF SNext, clusterVars, userVars
<1>2. /\ me \in ProcStates /\ "S" \in Procs /\ me.pc = "next" /\ Backed(me)
      /\ me.add = {}
  BY DEF IInv, TypeOK, SNext, InHand, OfferInv, Procs
<1>3. \/ me.final /\ proc' = [proc EXCEPT !["S"] = fin]
      \/ ~me.final /\ proc' = [proc EXCEPT !["S"] = rec]
      \/ Failed("S")
  BY DEF SNext, Become
<1>4. /\ fin.list = me.list /\ fin.add = me.add /\ fin.final = me.final
      /\ rec.list = me.list /\ rec.add = me.add /\ rec.item = {i}
      /\ rec.key = {GenerateServiceInfo(i)}
  BY <1>2 DEF ProcStates
<1>5. GenerateServiceInfo(i) \in {i, NacosName[i]}
  BY DEF GenerateServiceInfo
<1> HIDE DEF me, fin, rec
<1>6. Backed(rec) /\ (me.final => Backed(fin))
  BY <1>2, <1>4, <1>5 DEF Backed
<1> QED BY <1>1, <1>2, <1>3, <1>6, FailedOffer, BecomeOffer

\* A record that has the list, item and key of another one and registers no
\* more than that is backed if the other one is.
LEMMA SmallerBacked ==
    ASSUME NEW r, NEW q, Backed(r), q.list = r.list, q.final = r.final,
           q.item \subseteq r.item, q.key \subseteq r.key, q.add \subseteq r.add
    PROVE  Backed(q)
BY DEF Backed

LEMMA PrepareOffer ==
    ASSUME IInv, OfferInv, NEW p \in Procs, NEW k \in Keys,
           GetService(p, k) \/ CreatePersistService(p, k) \/ UpdateHealthCheck(p, k)
    PROVE  OfferInv'
<1>1. UNCHANGED <<eps, epCache, seen>>
  BY DEF GetService, CreatePersistService, UpdateHealthCheck, clusterVars, userVars
<1>2. proc[p] \in ProcStates /\ Backed(proc[p])
  BY DEF IInv, TypeOK, OfferInv
<1>3. \/ \E pc \in {"prepare", "create", "update", "query"} :
            proc' = [proc EXCEPT ![p] = [proc[p] EXCEPT !.pc = pc]]
      \/ Failed(p)
  BY DEF GetService, CreatePersistService, UpdateHealthCheck, Become
<1>4. ASSUME NEW pc, proc' = [proc EXCEPT ![p] = [proc[p] EXCEPT !.pc = pc]]
      PROVE  OfferInv'
  <2> DEFINE rec == [proc[p] EXCEPT !.pc = pc]
  <2>1. /\ rec.list = proc[p].list /\ rec.final = proc[p].final /\ rec.item = proc[p].item
        /\ rec.key = proc[p].key /\ rec.add = proc[p].add
    BY <1>2 DEF ProcStates
  <2>2. proc' = [proc EXCEPT ![p] = rec]
    BY <1>4
  <2> HIDE DEF rec
  <2>3. Backed(rec)
    BY <1>2, <2>1, SmallerBacked
  <2> QED BY <1>1, <2>2, <2>3, BecomeOffer
<1> QED BY <1>1, <1>3, <1>4, FailedOffer

\* The one place where addresses to register come up.
LEMMA QueryOffer ==
    ASSUME IInv, OfferInv, NEW p \in Procs, NEW k \in Keys, Query(p, k)
    PROVE  OfferInv'
<1> DEFINE me == proc[p]
           diff(found) == diffAddresses(found, Wanted(p))
           rec(found) == [me EXCEPT !.pc = "change", !.add = diff(found).added,
                                    !.del = diff(found).deleted]
<1>1. UNCHANGED <<eps, epCache, seen>>
  BY DEF Query, clusterVars, userVars
<1>2. me \in ProcStates /\ Backed(me) /\ InHand(p) /\ me.key = {k}
  BY DEF IInv, TypeOK, OfferInv, Query
<1>3. (\E found : proc' = [proc EXCEPT ![p] = rec(found)]) \/ Failed(p)
  BY DEF Query, Compared, Become
<1>4. ASSUME NEW a \in Wanted(p)
      PROVE  <<k, a>> \in Offered
  <2>1. ~me.final /\ a \in UNION {ConvertToAddresses(me.list[s]) : s \in me.item}
    BY DEF Wanted
  <2>2. PICK s \in me.item : a \in ConvertToAddresses(me.list[s])
    BY <2>1
  <2>3. s \in Services
    BY <1>2, <2>1 DEF InHand
  <2>4. a \in seen[s] /\ k \in {s, NacosName[s]}
    BY <1>2, <2>1, <2>2, <2>3 DEF Backed, ConvertToAddresses
  <2>5. a \in Addrs
    BY <2>3, <2>4 DEF IInv, TypeOK
  <2> QED BY <2>3, <2>4, <2>5 DEF Offered
<1>5. ASSUME NEW found, proc' = [proc EXCEPT ![p] = rec(found)]
      PROVE  OfferInv'
  <2> DEFINE r == rec(found)
  <2>1. diff(found).added \subseteq Wanted(p)
    BY DEF diffAddresses
  <2>2. /\ r.list = me.list /\ r.final = me.final /\ r.item = me.item
        /\ r.key = {k} /\ r.add = diff(found).added
    BY <1>2 DEF ProcStates
  <2>3. proc' = [proc EXCEPT ![p] = r]
    BY <1>5
  <2> HIDE DEF me, diff, r
  <2>4. Backed(r)
    BY <1>2, <1>4, <2>1, <2>2 DEF Backed
  <2> QED BY <1>1, <2>3, <2>4, BecomeOffer
<1> QED BY <1>1, <1>3, <1>5, FailedOffer

LEMMA ChangeOffer ==
    ASSUME IInv, OfferInv, NEW p \in Procs, NEW k \in Keys, NEW a \in Addrs,
           Register(p, k, a) \/ Deregister(p, k, a)
    PROVE  OfferInv'
<1> DEFINE me  == proc[p]
           fewer == [me EXCEPT !.add = @ \ {a}]
           less  == [me EXCEPT !.del = @ \ {a}]
<1>1. UNCHANGED <<eps, epCache, seen>>
  BY DEF Register, Deregister, clusterVars, userVars
<1>2. me \in ProcStates /\ Backed(me)
  BY DEF IInv, TypeOK, OfferInv
<1>3. \/ proc' = [proc EXCEPT ![p] = fewer]
      \/ proc' = [proc EXCEPT ![p] = less]
      \/ Failed(p)
  BY DEF Register, Deregister, Become
<1>4. /\ fewer.list = me.list /\ fewer.final = me.final /\ fewer.item = me.item
      /\ fewer.key = me.key /\ fewer.add \subseteq me.add
  BY <1>2 DEF ProcStates
<1>5. /\ less.list = me.list /\ less.final = me.final /\ less.item = me.item
      /\ less.key = me.key /\ less.add = me.add
  BY <1>2 DEF ProcStates
<1> HIDE DEF me, fewer, less
<1>6. Backed(fewer) /\ Backed(less)
  BY <1>2, <1>4, <1>5, SmallerBacked
<1> QED BY <1>1, <1>3, <1>6, FailedOffer, BecomeOffer

LEMMA StatusOffer ==
    ASSUME IInv, OfferInv, NEW p \in Procs, Status(p)
    PROVE  OfferInv'
<1> DEFINE me   == proc[p]
           o    == [me.sd EXCEPT !.status = @ \cup me.key]
           rest == [me EXCEPT !.item = {}, !.key = {}]
           fin  == [rest EXCEPT !.pc = "next"]
           done == [rest EXCEPT !.pc = "next", !.sd = o]
<1>1. UNCHANGED <<eps, epCache, seen>>
  BY DEF Status, clusterVars, userVars
<1>2. me \in ProcStates /\ Backed(me)
  BY DEF IInv, TypeOK, OfferInv
<1>3. \/ proc' = [proc EXCEPT ![p] = fin]
      \/ proc' = [proc EXCEPT ![p] = done]
      \/ proc' = [proc EXCEPT ![p] = Idle]
      \/ Failed(p)
  BY DEF Status, Become
<1>4. /\ fin.list = me.list /\ fin.final = me.final /\ fin.item = {} /\ fin.key = {}
      /\ fin.add = me.add
  BY <1>2 DEF ProcStates
<1>5. /\ done.list = me.list /\ done.final = me.final /\ done.item = {} /\ done.key = {}
      /\ done.add = me.add
  BY <1>2 DEF ProcStates
<1> HIDE DEF me, fin, done
<1>6. Backed(fin) /\ Backed(done)
  BY <1>2, <1>4, <1>5, SmallerBacked
<1> QED BY <1>1, <1>3, <1>6, IdleBacked, FailedOffer, BecomeOffer

LEMMA RemoveFinalizerOffer ==
    ASSUME IInv, OfferInv, RemoveFinalizer
    PROVE  OfferInv'
<1>1. UNCHANGED <<eps, epCache, seen>> /\ "S" \in Procs
  BY DEF RemoveFinalizer, clusterVars, userVars, Procs
<1>2. proc' = [proc EXCEPT !["S"] = Idle] \/ Failed("S")
  BY DEF RemoveFinalizer
<1> QED BY <1>1, <1>2, IdleBacked, FailedOffer, BecomeOffer

-----------------------------------------------------------------------------
(* The environment. *)

LEMMA DeliveryOffer ==
    ASSUME IInv, OfferInv, Delivery
    PROVE  OfferInv'
<1>1. CASE SdInformer
  BY <1>1, StillOffer DEF SdInformer, clusterVars, userVars
<1>2. ASSUME NEW s \in Services, SvcInformer(s) PROVE OfferInv'
  BY <1>2, StillOffer DEF SvcInformer, userVars
<1>3. ASSUME NEW s \in Services, UNCHANGED <<seen, proc>>,
             \A t \in Services : eps'[t] \in {eps[t], None} /\ epCache'[t] \in {epCache[t], eps[t]}
      PROVE  OfferInv'
  <2>1. CopiesSeen'
    BY <1>3 DEF OfferInv, CopiesSeen, None
  <2>2. \A p \in Procs : Backed(proc[p])'
    BY <1>3 DEF OfferInv, Backed, Offered
  <2> QED BY <2>1, <2>2 DEF OfferInv
<1>4. ASSUME NEW s \in Services, EpInformer(s) PROVE OfferInv'
  <2>1. \A t \in Services : epCache'[t] \in {epCache[t], eps[t]}
    BY <1>4 DEF IInv, TypeOK, EpInformer
  <2>2. UNCHANGED <<eps, seen, proc>>
    BY <1>4 DEF EpInformer, userVars
  <2> QED BY <1>3, <2>1, <2>2
<1>5. ASSUME NEW s \in Services, CollectEndpoints(s) PROVE OfferInv'
  <2>1. \A t \in Services : eps'[t] \in {eps[t], None}
    BY <1>5 DEF IInv, TypeOK, CollectEndpoints
  <2>2. UNCHANGED <<epCache, seen, proc>>
    BY <1>5 DEF CollectEndpoints, userVars
  <2> QED BY <1>3, <2>1, <2>2
<1> QED BY <1>1, <1>2, <1>4, <1>5 DEF Delivery

LEMMA UserOffer ==
    ASSUME IInv, OfferInv, User
    PROVE  OfferInv'
<1>1. CASE DeleteSd
  BY <1>1, StillOffer DEF DeleteSd, clusterVars
<1>2. ASSUME NEW s \in Services, DeleteService(s) PROVE OfferInv'
  BY <1>2, StillOffer DEF DeleteService
<1>3. ASSUME NEW s \in Services, NEW A \in ScaleTo, Scale(s, A) PROVE OfferInv'
  <2>1. UNCHANGED <<epCache, proc>>
    BY <1>3 DEF Scale
  <2>2. \A t \in Services : /\ eps'[t] = IF t = s THEN {A} ELSE eps[t]
                            /\ seen'[t] = IF t = s THEN seen[s] \cup A ELSE seen[t]
    BY <1>3 DEF IInv, TypeOK, Scale
  <2>3. CopiesSeen'
    BY <2>1, <2>2 DEF OfferInv, CopiesSeen
  <2>4. Offered \subseteq Offered' /\ \A t \in Services : seen[t] \subseteq seen'[t]
    BY <2>2 DEF Offered
  <2>5. ASSUME NEW p \in Procs PROVE Backed(proc[p])'
    BY <2>1, <2>4 DEF OfferInv, Backed
  <2> QED BY <2>3, <2>5 DEF OfferInv
<1> QED BY <1>1, <1>2, <1>3 DEF User

LEMMA NextOffer ==
    ASSUME IInv, OfferInv, [Next]_vars
    PROVE  OfferInv'
<1>1. ASSUME NEW p \in Procs, Instances(p) PROVE OfferInv'
  BY <1>1, PrepareOffer, QueryOffer, ChangeOffer DEF Instances
<1>2. "S" \in Procs /\ "E" \in Procs
  BY DEF Procs
<1>3. CASE EndpointReconciler
  BY <1>1, <1>2, <1>3, EStartOffer, StatusOffer DEF EndpointReconciler
<1>4. CASE SdReconciler
  BY <1>1, <1>2, <1>4, SNewOffer, SStartOffer, SNextOffer, StatusOffer, RemoveFinalizerOffer
     DEF SdReconciler
<1>5. CASE Delivery
  BY <1>5, DeliveryOffer
<1>6. CASE User
  BY <1>6, UserOffer
<1>7. CASE UNCHANGED vars
  BY <1>7, StillOffer DEF vars, clusterVars, userVars
<1> QED BY <1>3, <1>4, <1>5, <1>6, <1>7 DEF Next, Rest

LEMMA OfferInvariance == Spec => [](IInv /\ OfferInv)
BY InitIInv, NextIInv, InitOffer, NextOffer, PTL DEF Spec

-----------------------------------------------------------------------------
(* The refinement. *)

\* The initial states map to initial states.
LEMMA InitImplements == Init => Reg!Init
<1> SUFFICES ASSUME Init PROVE Reg!Init
  OBVIOUS
<1>1. Offered \subseteq Keys \X Addrs /\ EntriesOf("other") \subseteq Keys \X Addrs
  BY DEF Offered, EntriesOf
<1>2. EntriesOf("synced") = {}
  <2>1. \A k \in Keys, a \in Addrs : nacos[k][a] # "synced"
    BY DEF Init
  <2> QED BY <2>1 DEF EntriesOf
<1> QED BY <1>1, <1>2 DEF Reg!Init, Reg!Entries, Init

\* A step that changes at most one instance on the server.
LEMMA EntriesAfter ==
    ASSUME IInv, NEW k \in Keys, NEW a \in Addrs, NEW v, nacos' = [nacos EXCEPT ![k][a] = v]
    PROVE  /\ EntriesOf("synced")' = (EntriesOf("synced") \ {<<k, a>>})
                                     \cup (IF v = "synced" THEN {<<k, a>>} ELSE {})
           /\ EntriesOf("other")' = (EntriesOf("other") \ {<<k, a>>})
                                    \cup (IF v = "other" THEN {<<k, a>>} ELSE {})
<1>1. \A l \in Keys, b \in Addrs : nacos'[l][b] = IF l = k /\ b = a THEN v ELSE nacos[l][b]
  BY DEF IInv, TypeOK
<1>2. ASSUME NEW e \in Keys \X Addrs, NEW who
      PROVE  nacos'[e[1]][e[2]] = who <=> \/ e # <<k, a>> /\ nacos[e[1]][e[2]] = who
                                          \/ e = <<k, a>> /\ v = who
  BY <1>1
<1>3. <<k, a>> \in Keys \X Addrs
  OBVIOUS
<1>4. EntriesOf("synced")' = (EntriesOf("synced") \ {<<k, a>>})
                             \cup (IF v = "synced" THEN {<<k, a>>} ELSE {})
  BY <1>2, <1>3 DEF EntriesOf
<1>5. EntriesOf("other")' = (EntriesOf("other") \ {<<k, a>>})
                            \cup (IF v = "other" THEN {<<k, a>>} ELSE {})
  BY <1>2, <1>3 DEF EntriesOf
<1> QED BY <1>4, <1>5

LEMMA RegisterImplements ==
    ASSUME IInv, OfferInv, NEW p \in Procs, NEW k \in Keys, NEW a \in Addrs, Register(p, k, a)
    PROVE  [Reg!Next]_(Reg!regVars)
<1>1. UNCHANGED <<seen, unchecked>>
  BY DEF Register, healthVars, userVars
<1>2. Offered' = Offered
  BY <1>1 DEF Offered
<1>3. CASE nacos' = nacos
  BY <1>1, <1>2, <1>3 DEF EntriesOf, Reg!regVars
<1>4. CASE nacos' = [nacos EXCEPT ![k][a] = "synced"]
  <2>1. ~proc[p].final /\ k \in unchecked
    BY DEF Register, IInv, InHand
  <2>2. <<k, a>> \in Offered
    BY DEF Register, OfferInv, Backed
  <2>3. /\ EntriesOf("synced")' = EntriesOf("synced") \cup {<<k, a>>}
        /\ EntriesOf("other")' = EntriesOf("other") \ {<<k, a>>}
    BY <1>4, EntriesAfter
  <2>4. Reg!Enter(k, a)
    BY <1>1, <1>2, <2>1, <2>2, <2>3 DEF Reg!Enter
  <2> QED BY <2>4 DEF Reg!Next
<1> QED BY <1>3, <1>4 DEF Register

LEMMA DeregisterImplements ==
    ASSUME IInv, OfferInv, NEW p \in Procs, NEW k \in Keys, NEW a \in Addrs, Deregister(p, k, a)
    PROVE  [Reg!Next]_(Reg!regVars)
<1>1. UNCHANGED <<seen, unchecked>>
  BY DEF Deregister, healthVars, userVars
<1>2. Offered' = Offered
  BY <1>1 DEF Offered
<1>3. CASE nacos' = nacos
  BY <1>1, <1>2, <1>3 DEF EntriesOf, Reg!regVars
<1>4. CASE nacos' = [nacos EXCEPT ![k][a] = "none"]
  <2>1. nacos[k][a] # "other"
    BY DEF Deregister, IInv, NoneOfOthers
  <2>2. /\ EntriesOf("synced")' = EntriesOf("synced") \ {<<k, a>>}
        /\ EntriesOf("other")' = EntriesOf("other") \ {<<k, a>>}
    <3>1. PICK v : v = "none"
      OBVIOUS
    <3>2. nacos' = [nacos EXCEPT ![k][a] = v] /\ v # "synced" /\ v # "other"
      BY <1>4, <3>1
    <3>3. /\ EntriesOf("synced")' = (EntriesOf("synced") \ {<<k, a>>})
                                    \cup (IF v = "synced" THEN {<<k, a>>} ELSE {})
          /\ EntriesOf("other")' = (EntriesOf("other") \ {<<k, a>>})
                                   \cup (IF v = "other" THEN {<<k, a>>} ELSE {})
      BY <3>2, EntriesAfter, Zenon
    <3> QED BY <3>2, <3>3
  <2>3. <<k, a>> \notin EntriesOf("other")
    BY <2>1 DEF EntriesOf
  <2>4. Reg!Leave(k, a)
    BY <1>1, <1>2, <2>2, <2>3 DEF Reg!Leave
  <2> QED BY <2>4 DEF Reg!Next
<1> QED BY <1>3, <1>4 DEF Deregister

LEMMA PrepareImplements ==
    ASSUME NEW p \in Procs, NEW k \in Keys,
           GetService(p, k) \/ CreatePersistService(p, k) \/ UpdateHealthCheck(p, k)
    PROVE  [Reg!Next]_(Reg!regVars)
<1>1. UNCHANGED <<seen, nacos>> /\ unchecked' \in {unchecked, unchecked \cup {k}}
  BY DEF GetService, CreatePersistService, UpdateHealthCheck, healthVars, userVars
<1>2. Offered' = Offered /\ \A who : EntriesOf(who)' = EntriesOf(who)
  BY <1>1 DEF Offered, EntriesOf
<1>3. CASE unchecked' = unchecked
  BY <1>2, <1>3 DEF Reg!regVars
<1>4. CASE unchecked' = unchecked \cup {k}
  BY <1>2, <1>4 DEF Reg!Next, Reg!PrepareService
<1> QED BY <1>1, <1>3, <1>4

\* Only Scale adds to what has been offered.
LEMMA ScaleImplements ==
    ASSUME IInv, NEW s \in Services, NEW A \in ScaleTo, Scale(s, A)
    PROVE  [Reg!Next]_(Reg!regVars)
<1>1. UNCHANGED <<nacos, unchecked>>
  BY DEF Scale, healthVars
<1>2. \A t \in Services : seen[t] \subseteq seen'[t]
  BY DEF IInv, TypeOK, Scale
<1>3. Offered \subseteq Offered' /\ Offered' \subseteq Keys \X Addrs
  BY <1>2 DEF Offered
<1>4. \A who : EntriesOf(who)' = EntriesOf(who)
  BY <1>1 DEF EntriesOf
<1> QED BY <1>1, <1>3, <1>4 DEF Reg!Next, Reg!Offer, Reg!Entries

LEMMA StillImplements ==
    ASSUME UNCHANGED <<seen, nacos, unchecked>>
    PROVE  [Reg!Next]_(Reg!regVars)
BY DEF Reg!regVars, Offered, EntriesOf

\* Every step maps to a step of Registry or a stutter.
LEMMA StepImplements ==
    ASSUME IInv, OfferInv, [Next]_vars
    PROVE  [Reg!Next]_(Reg!regVars)
<1>1. ASSUME NEW p \in Procs, Instances(p) PROVE [Reg!Next]_(Reg!regVars)
  <2>1. ASSUME NEW k \in Keys, Query(p, k) PROVE [Reg!Next]_(Reg!regVars)
    BY <2>1, StillImplements DEF Query, healthVars, userVars
  <2> QED BY <1>1, <2>1, PrepareImplements, RegisterImplements, DeregisterImplements DEF Instances
<1>2. ASSUME NEW p \in Procs, Status(p) PROVE [Reg!Next]_(Reg!regVars)
  BY <1>2, StillImplements DEF Status, healthVars, userVars
<1>3. "S" \in Procs /\ "E" \in Procs
  BY DEF Procs
<1>4. CASE EndpointReconciler
  <2>1. ASSUME NEW s \in Services, EStart(s) PROVE [Reg!Next]_(Reg!regVars)
    BY <2>1, StillImplements DEF EStart, healthVars, userVars
  <2> QED BY <1>1, <1>2, <1>3, <1>4, <2>1 DEF EndpointReconciler
<1>5. CASE SdReconciler
  <2>1. ASSUME SNew \/ SStart \/ RemoveFinalizer \/ \E i \in Keys : SNext(i)
        PROVE  [Reg!Next]_(Reg!regVars)
    BY <2>1, StillImplements DEF SNew, SStart, RemoveFinalizer, SNext, healthVars, userVars
  <2> QED BY <1>1, <1>2, <1>3, <1>5, <2>1 DEF SdReconciler
<1>6. CASE Delivery
  BY <1>6, StillImplements DEF Delivery, SdInformer, SvcInformer, EpInformer, CollectEndpoints,
                               healthVars, userVars
<1>7. CASE User
  <2>1. ASSUME DeleteSd \/ \E s \in Services : DeleteService(s)
        PROVE  [Reg!Next]_(Reg!regVars)
    BY <2>1, StillImplements DEF DeleteSd, DeleteService, healthVars
  <2> QED BY <1>7, <2>1, ScaleImplements DEF User
<1>8. CASE UNCHANGED vars
  BY <1>8, StillImplements DEF vars, healthVars, userVars
<1> QED BY <1>4, <1>5, <1>6, <1>7, <1>8 DEF Next, Rest

\* The two reconcilers implement Registry: whatever fails, however stale their
\* caches are and however they interleave, for every value of the constants,
\* an instance they register has been in the Endpoints of a Service that goes
\* by its key and is under a service whose health check is off, and they
\* deregister nothing but their own.
THEOREM DiscoveryImplementsRegistry == Spec => ImplementsRegistry
<1>1. IInv /\ OfferInv /\ [Next]_vars => [Reg!Next]_(Reg!regVars)
  BY StepImplements
<1> QED BY <1>1, InitImplements, OfferInvariance, PTL DEF Spec, Reg!Spec, ImplementsRegistry
=============================================================================
