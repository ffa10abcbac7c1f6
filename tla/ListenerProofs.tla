--------------------------- MODULE ListenerProofs ---------------------------
(***************************************************************************)
(* Proofs about DcLifecycle: at rest no cached client listens where the DC *)
(* does not want it to, and every group of the status has its listener.    *)
(*                                                                         *)
(* Two invariants carry the argument.  VersionInv says what the holders of *)
(* the current version, the cache and the queue of D know about the DC.    *)
(* ListenInv builds on it: which clients may have listeners while a move   *)
(* or a deletion is under way, and what each group of the status that has  *)
(* no listener is waiting for.                                             *)
(***************************************************************************)
EXTENDS DcLifecycleProofs

-----------------------------------------------------------------------------
(* What is known of the DC. *)

Active == proc["D"].pc # "idle"

\* An event that will queue D is on its way.
Behind == dc.gen # dcCache.gen \/ dc.exists # dcCache.exists

\* The DC has not been synced yet.
Unsynced(d) == d.scope = ""

\* The cache has the DC as it is up to its status, or an event is on its way; a
\* status is never taken back, and there is none before the finalizer.
SeenInv ==
    /\ dc.gen = dcCache.gen => dcCache.spec = dc.spec
    /\ ~Behind => dcCache.deleting = dc.deleting
    /\ dc.exists /\ ~dcCache.exists => dc.listen = {}
    /\ InUse(dcCache) /\ dcCache.server # NoServer => dc.server # NoServer
    /\ Unsynced(dc) <=> dc.server = NoServer
    /\ Unsynced(dcCache) <=> dcCache.server = NoServer
    /\ ~dc.fin => dc.server = NoServer

SameStatus(d) == d.scope = dc.scope /\ d.server = dc.server

\* A handler that holds the current version has, but for what it has done to its
\* copy itself, the DC as it is.
HeldInv ==
    /\ \A p \in dcHeld : p # "cache" =>
          /\ proc[p].pc # "idle" /\ p # "F"
          /\ ~Behind
          /\ proc[p].dc.spec = dc.spec /\ proc[p].dc.deleting = dc.deleting
    /\ \A g \in Groups \cap dcHeld : "cache" \in dcHeld /\ SameStatus(proc[g].dc)
    /\ "D" \in dcHeld => ~dcQueued
    /\ "D" \in dcHeld /\ proc["D"].pc \in {"clean", "delete"} =>
          SameStatus(proc["D"].dc) /\ proc["D"].dc.listen = dc.listen

\* A deletion D has seen, or is going to see.
DelInv ==
    /\ dc.deleting => dc.exists
    /\ dcCache.deleting /\ (dcQueued \/ Active) => dc.deleting
    /\ Active /\ proc["D"].dc.deleting => dc.deleting
    /\ dc.deleting => Behind \/ dcQueued \/ (Active /\ proc["D"].dc.deleting)

\* A client without a connection has no listeners, and one that is closed is
\* about to be deleted.  A group's reconciler works on its group.
ClientInv ==
    /\ \A s \in Servers : client[s].st # "open" => client[s].on = {}
    /\ \A s \in Servers :
          client[s].st = "closed" => proc["D"].pc = "delete" /\ proc["D"].dc.server = s
    /\ \A g \in Groups : proc[g].pc \in {"get", "listen"} => proc[g].item = {g}

VersionInv == SeenInv /\ HeldInv /\ DelInv /\ ClientInv

LEMMA InitVersions == Init => VersionInv
<1> SUFFICES ASSUME Init PROVE VersionInv
  OBVIOUS
<1>1. PICK spec \in Specs : dc = NewDc(spec, 0)
  BY DEF Init
<1>2. /\ dc.exists /\ ~dc.deleting /\ ~dc.fin /\ dc.server = NoServer /\ dc.listen = {}
      /\ dcCache = dc
  BY <1>1 DEF Init, NewDc
<1>3. Unsynced(dc)
  BY <1>1, Zenon DEF NewDc, Unsynced
<1>4. \A p \in Procs : proc[p].pc = "idle"
  BY IdleType DEF Init
<1>5. \A s \in Servers : client[s].st = "none" /\ client[s].on = {}
  BY DEF Init, NoClient
<1>6. SeenInv
  BY <1>2, <1>3 DEF SeenInv, Behind, InUse
<1>7. HeldInv
  BY LifecycleAssumption DEF Init, HeldInv
<1>8. DelInv
  BY <1>2, <1>4, NamesDiffer DEF DelInv, Active
<1>9. ClientInv
  BY <1>4, <1>5 DEF ClientInv, Procs
<1> QED BY <1>6, <1>7, <1>8, <1>9 DEF VersionInv

-----------------------------------------------------------------------------
(* What the building blocks do. *)

\* dc' is dc with the status of d.
Statused(d) ==
    /\ dc'.exists = dc.exists /\ dc'.deleting = dc.deleting /\ dc'.fin = dc.fin
    /\ dc'.gen = dc.gen /\ dc'.spec = dc.spec
    /\ dc'.scope = d.scope /\ dc'.server = d.server /\ dc'.listen = d.listen

LEMMA StatusWritten ==
    ASSUME TypeOK, NEW p \in Procs, NEW d \in Dcs, WriteStatus(p, d)
    PROVE  /\ p \in dcHeld /\ Statused(d)
           /\ dcHeld' = {} \/ (dc' = dc /\ dcHeld' = dcHeld \ {p})
<1>1. dc' = StatusOf(d) /\ dc \in Dcs
  BY DEF WriteStatus, TypeOK
<1>2. Statused(d)
  BY <1>1 DEF StatusOf, Statused, Dcs
<1>3. PICK held \in {{p}} \cup (IF dc' = dc THEN {dcHeld} ELSE {}) : dcHeld' = held \ {p}
  BY DEF WriteStatus
<1>4. held = {p} \/ (held = dcHeld /\ dc' = dc)
  BY <1>3
<1> QED BY <1>2, <1>3, <1>4 DEF WriteStatus

\* Clients get listeners for the groups G at the server s, and none is lost.
Grows(s, G) ==
    \A t \in Servers :
        /\ client'[t].st = "closed" => client[t].st = "closed"
        /\ client'[t].st # "open" => client'[t].on = {}
        /\ client'[t].on \subseteq client[t].on \cup (IF t = s THEN G ELSE {})
        /\ Live(t) \subseteq Live(t)'

LEMMA NoGrowth ==
    ASSUME ClientInv, UNCHANGED sdk, NEW s, NEW G
    PROVE  Grows(s, G)
BY DEF ClientInv, sdk, Grows, Live

LEMMA BuildGrows ==
    ASSUME TypeOK, ClientInv, NEW p \in Procs, NEW G \in SUBSET Groups,
           Build(p, G) \/ BuildFails(p), NEW s, s = Target(p)
    PROVE  /\ Grows(s, G)
           /\ Build(p, G) /\ client[s].st # "closed" => G \subseteq Live(s)'
<1>1. s \in Servers
  BY SpecTypes DEF Target, TypeOK, ProcStates, Dcs
<1>2. client[s] \in Clients
  BY <1>1 DEF TypeOK
<1>3. CASE BuildFails(p) /\ ~Build(p, G)
  BY <1>3, NoGrowth DEF BuildFails
<1>4. CASE ~proc[p].miss /\ client[s].st # "none" /\ UNCHANGED orphans /\
           client' = [client EXCEPT ![s].on = IF client[s].st = "open" THEN @ \cup G ELSE @]
  <2>1. /\ \A t \in Servers : t # s => client'[t] = client[t]
        /\ client'[s].st = client[s].st
        /\ client'[s].on = IF client[s].st = "open" THEN client[s].on \cup G ELSE client[s].on
    BY <1>1, <1>2, <1>4 DEF TypeOK, Clients
  <2>2. client[s].st \in {"none", "open", "closed"}
    BY <1>2 DEF Clients
  <2>3. Grows(s, G)
    BY <1>1, <1>4, <2>1 DEF Grows, Live, ClientInv
  <2>4. client[s].st # "closed" => G \subseteq Live(s)'
    BY <1>4, <2>1, <2>2 DEF Live
  <2> QED BY <2>3, <2>4
<1>5. CASE /\ client' = [client EXCEPT ![s] = [st |-> "open", on |-> G]]
           /\ orphans' = [orphans EXCEPT ![s] = @ \cup client[s].on]
  <2>1. /\ \A t \in Servers : t # s => client'[t] = client[t] /\ orphans'[t] = orphans[t]
        /\ client'[s].st = "open" /\ client'[s].on = G
        /\ orphans'[s] = orphans[s] \cup client[s].on
    BY <1>1, <1>5 DEF TypeOK
  <2>2. Grows(s, G)
    BY <1>1, <2>1 DEF Grows, Live, ClientInv
  <2>3. G \subseteq Live(s)'
    BY <2>1 DEF Live
  <2> QED BY <2>2, <2>3
<1> QED BY <1>3, <1>4, <1>5 DEF Build

-----------------------------------------------------------------------------
(* VersionInv, step by step. *)

\* The handler p goes on with rec.
GoesOn(p, rec) ==
    /\ proc[p].pc # "idle" /\ rec.pc # "idle"
    /\ rec.dc.spec = proc[p].dc.spec /\ rec.dc.deleting = proc[p].dc.deleting
    /\ p \in Groups \/ rec.pc \in {"clean", "delete"} =>
          rec.dc.scope = proc[p].dc.scope /\ rec.dc.server = proc[p].dc.server
    /\ rec.pc \in {"clean", "delete"} =>
          proc[p].pc \in {"clean", "delete"} /\ rec.dc.listen = proc[p].dc.listen

LEMMA GoesOnVersions ==
    ASSUME TypeOK, SeenInv, HeldInv, DelInv, NEW p \in Procs, NEW rec, Become(p, rec),
           UNCHANGED <<dcVars, dcQueued>>, p # "F" => GoesOn(p, rec)
    PROVE  SeenInv' /\ HeldInv' /\ DelInv'
<1>1. proc'[p] = rec /\ \A q \in Procs \ {p} : proc'[q] = proc[q]
  BY BecomeOthers
<1>2. UNCHANGED <<dc, dcCache, dcHeld, dcQueued>>
  BY DEF dcVars
<1>3. SeenInv'
  BY <1>2 DEF SeenInv, Behind, InUse, Unsynced
<1>4. dcHeld \subseteq Procs \cup {"cache"}
  BY DEF TypeOK
<1>5. HeldInv'
  <2>1. ASSUME NEW q \in dcHeld, q # "cache"
        PROVE  /\ proc'[q].pc # "idle" /\ q # "F" /\ ~Behind'
               /\ proc'[q].dc.spec = dc.spec /\ proc'[q].dc.deleting = dc.deleting
    BY <1>1, <1>2, <1>4, <2>1 DEF HeldInv, GoesOn, Behind
  <2>2. ASSUME NEW g \in Groups \cap dcHeld
        PROVE  "cache" \in dcHeld /\ SameStatus(proc'[g].dc)
    BY <1>1, <2>2, NamesDiffer DEF HeldInv, GoesOn, SameStatus, Procs
  <2>3. ASSUME "D" \in dcHeld
        PROVE  /\ ~dcQueued
               /\ proc'["D"].pc \in {"clean", "delete"} =>
                     SameStatus(proc'["D"].dc) /\ proc'["D"].dc.listen = dc.listen
    BY <1>1, <2>3, NamesDiffer DEF HeldInv, GoesOn, SameStatus
  <2> QED BY <1>2, <2>1, <2>2, <2>3 DEF HeldInv, SameStatus
<1>6. DelInv'
  <2>1. Active' = Active /\ proc'["D"].dc.deleting = proc["D"].dc.deleting
    BY <1>1, NamesDiffer DEF GoesOn, Active
  <2> QED BY <1>2, <2>1 DEF DelInv, Behind
<1> QED BY <1>3, <1>5, <1>6

\* The calls leave the clients in order.
LEMMA CallClients ==
    ASSUME TypeOK, ClientInv, NEW p \in Procs, NEW rec, Become(p, rec), NEW s, NEW G, Grows(s, G),
           p = "D" => proc[p].pc # "delete",
           p \in Groups /\ rec.pc \in {"get", "listen"} => rec.item = {p}
    PROVE  ClientInv'
<1>1. proc'[p] = rec /\ \A q \in Procs \ {p} : proc'[q] = proc[q]
  BY BecomeOthers
<1>2. \A t \in Servers : client'[t].st # "open" => client'[t].on = {}
  BY DEF Grows
<1>3. \A t \in Servers :
         client'[t].st = "closed" => proc'["D"].pc = "delete" /\ proc'["D"].dc.server = t
  BY <1>1, NamesDiffer DEF Grows, ClientInv
<1>4. \A g \in Groups : proc'[g].pc \in {"get", "listen"} => proc'[g].item = {g}
  BY <1>1 DEF ClientInv, Procs
<1> QED BY <1>2, <1>3, <1>4 DEF ClientInv

\* The steps before, during and after a call to Nacos.
LEMMA CallVersions ==
    ASSUME TypeOK, VersionInv, NEW p \in Procs, Miss(p) \/ Get(p) \/ Listen(p)
    PROVE  VersionInv'
<1> DEFINE me == proc[p]
<1>1. me \in ProcStates /\ me.dc \in Dcs /\ me.item \in SUBSET Groups
  BY DEF TypeOK, ProcStates
<1>2. UNCHANGED <<dcVars, dcQueued>> /\ me.pc \in {"get", "listen", "search"}
  BY DEF Miss, Get, Listen, queues
<1>3. ASSUME NEW rec, Become(p, rec), rec.pc \in {me.pc, "listen", "next", "status"},
             rec.dc.spec = me.dc.spec, rec.dc.deleting = me.dc.deleting,
             rec.dc.scope = me.dc.scope, rec.dc.server = me.dc.server,
             rec.pc \in {"get", "listen"} => rec.item = me.item /\ me.pc \in {"get", "listen"},
             NEW s, NEW G, Grows(s, G)
      PROVE  VersionInv'
  <2>1. GoesOn(p, rec)
    BY <1>2, <1>3 DEF GoesOn
  <2>2. p \in Groups /\ rec.pc \in {"get", "listen"} => rec.item = {p}
    BY <1>3 DEF VersionInv, ClientInv
  <2>3. ClientInv'
    BY <1>2, <1>3, <2>2, CallClients DEF VersionInv
  <2> QED BY <1>2, <1>3, <2>1, <2>3, GoesOnVersions DEF VersionInv
<1>4. ASSUME NEW r \in ProcStates
      PROVE  Done(p, r).pc \in {"next", "status"} /\ Done(p, r).dc = r.dc
  BY <1>4 DEF Done, ProcStates
<1>5. CASE Miss(p)
  <2> DEFINE rec == [me EXCEPT !.miss = TRUE]
  <2>1. rec.pc = me.pc /\ rec.dc = me.dc /\ rec.item = me.item
    BY <1>1 DEF ProcStates
  <2>2. Become(p, rec) /\ UNCHANGED sdk
    BY <1>5 DEF Miss
  <2>3. Grows(NoServer, {})
    BY <2>2, NoGrowth DEF VersionInv
  <2> HIDE DEF rec
  <2> QED BY <1>3, <2>1, <2>2, <2>3
<1>6. CASE Get(p)
  <2> DEFINE rec == [me EXCEPT !.pc = "listen", !.miss = FALSE]
             bad == [me EXCEPT !.err = TRUE]
  <2>1. rec.pc = "listen" /\ rec.dc = me.dc /\ rec.item = me.item /\ bad \in ProcStates /\ bad.dc = me.dc
    BY <1>1 DEF ProcStates
  <2>2. Done(p, bad).pc \in {"next", "status"} /\ Done(p, bad).dc = me.dc
    BY <1>4, <2>1
  <2>3. Become(p, rec) \/ Become(p, Done(p, bad))
    BY <1>6 DEF Get
  <2>4. (Build(p, {}) \/ BuildFails(p)) /\ me.pc = "get"
    BY <1>6 DEF Get
  <2>5. Grows(Target(p), {})
    BY <2>4, BuildGrows DEF VersionInv
  <2> HIDE DEF rec, bad
  <2> QED BY <1>3, <2>1, <2>2, <2>3, <2>4, <2>5
<1>7. CASE Listen(p)
  <2> DEFINE rec == [me EXCEPT !.dc.listen = @ \cup me.item]
             bad == [me EXCEPT !.err = TRUE]
  <2>1. bad \in ProcStates /\ bad.dc = me.dc
    BY <1>1 DEF ProcStates
  <2>2. /\ rec \in ProcStates /\ rec.dc.spec = me.dc.spec /\ rec.dc.deleting = me.dc.deleting
        /\ rec.dc.scope = me.dc.scope /\ rec.dc.server = me.dc.server
    BY <1>1 DEF ProcStates, Dcs
  <2>3. Become(p, Done(p, rec)) \/ Become(p, Done(p, bad))
    BY <1>7 DEF Listen
  <2>4. /\ Build(p, me.item) \/ Build(p, {}) \/ BuildFails(p)
        /\ me.pc = "listen"
    BY <1>7 DEF Listen
  <2>5. \E G \in SUBSET Groups : Grows(Target(p), G)
    BY <1>1, <2>4, BuildGrows DEF VersionInv
  <2> HIDE DEF rec, bad
  <2>6. ASSUME NEW r \in ProcStates, Become(p, Done(p, r)), r.dc.spec = me.dc.spec,
               r.dc.deleting = me.dc.deleting, r.dc.scope = me.dc.scope, r.dc.server = me.dc.server
        PROVE  VersionInv'
    BY <1>3, <1>4, <2>5, <2>6
  <2> QED BY <2>1, <2>2, <2>3, <2>6
<1> QED BY <1>5, <1>6, <1>7

\* A step that changes nothing the versions depend on, but for a write of the
\* status by somebody else.
LEMMA SameVersions ==
    ASSUME TypeOK, VersionInv, UNCHANGED <<dc, dcCache, dcQueued, sdk, proc>>, dcHeld' \in {dcHeld, {}}
    PROVE  VersionInv'
<1>1. SeenInv'
  BY DEF VersionInv, SeenInv, Behind, InUse, Unsynced
<1>2. HeldInv'
  BY DEF VersionInv, HeldInv, Behind, SameStatus
<1>3. DelInv'
  BY DEF VersionInv, DelInv, Active, Behind
<1>4. ClientInv'
  BY DEF VersionInv, ClientInv, sdk
<1> QED BY <1>1, <1>2, <1>3, <1>4 DEF VersionInv

\* p writes the status of d, or has a conflict, and ends its pass.
Ends(p, d) ==
    /\ Become(p, Idle) /\ UNCHANGED <<dcCache, client>>
    /\ \/ p \in dcHeld /\ Statused(d) /\ (dcHeld' = {} \/ (dc' = dc /\ dcHeld' = dcHeld \ {p}))
       \/ p \notin dcHeld /\ UNCHANGED <<dc, dcHeld>>

LEMMA EndVersions ==
    ASSUME TypeOK, VersionInv, NEW p \in Procs, NEW d, Ends(p, d),
           p \in dcHeld => /\ Unsynced(d) <=> d.server = NoServer
                           /\ dc.server # NoServer => d.server # NoServer
                           /\ ~dc.fin => d.server = NoServer,
           p # "D" => UNCHANGED dcQueued,
           p = "D" => Active /\ proc[p].pc # "delete" /\ (dc.deleting => dcQueued')
    PROVE  VersionInv'
<1>1. proc'[p] = Idle /\ Idle.pc = "idle" /\ \A q \in Procs \ {p} : proc'[q] = proc[q]
  BY BecomeOthers, IdleType DEF Ends
<1>2. /\ dc'.exists = dc.exists /\ dc'.deleting = dc.deleting /\ dc'.fin = dc.fin
      /\ dc'.gen = dc.gen /\ dc'.spec = dc.spec /\ dcCache' = dcCache
  BY DEF Ends, Statused
<1>3. dcHeld \subseteq Procs \cup {"cache"}
  BY DEF TypeOK
<1>4. SeenInv'
  <2>1. CASE UNCHANGED dc
    BY <1>2, <2>1 DEF VersionInv, SeenInv, Behind, InUse, Unsynced
  <2>2. CASE p \in dcHeld /\ Statused(d)
    <3>1. ~Behind
      BY <2>2, NamesDiffer DEF VersionInv, HeldInv
    <3>2. dc'.scope = d.scope /\ dc'.server = d.server
      BY <2>2 DEF Statused
    <3>3. Unsynced(dc') <=> dc'.server = NoServer
      BY <2>2, <3>2 DEF Unsynced
    <3> QED BY <1>2, <2>2, <3>1, <3>2, <3>3 DEF VersionInv, SeenInv, Behind, InUse, Unsynced
  <2> QED BY <2>1, <2>2 DEF Ends
<1>5. HeldInv'
  <2>1. CASE dcHeld' = {}
    BY <2>1 DEF HeldInv
  <2>2. CASE UNCHANGED dc /\ dcHeld' = dcHeld \ {p}
    <3>1. ASSUME NEW q \in dcHeld', q # "cache"
          PROVE  /\ proc'[q].pc # "idle" /\ q # "F" /\ ~Behind'
                 /\ proc'[q].dc.spec = dc'.spec /\ proc'[q].dc.deleting = dc'.deleting
      BY <1>1, <1>2, <1>3, <2>2, <3>1 DEF VersionInv, HeldInv, Behind
    <3>2. ASSUME NEW g \in Groups \cap dcHeld'
          PROVE  "cache" \in dcHeld' /\ SameStatus(proc[g].dc) /\ proc'[g] = proc[g]
      BY <1>1, <2>2, <3>2, NamesDiffer DEF VersionInv, HeldInv, Procs
    <3>3. ASSUME "D" \in dcHeld'
          PROVE  ~dcQueued' /\ proc'["D"] = proc["D"] /\ "D" \in dcHeld
      BY <1>1, <2>2, <3>3, NamesDiffer DEF VersionInv, HeldInv
    <3> QED BY <2>2, <3>1, <3>2, <3>3 DEF VersionInv, HeldInv, SameStatus
  <2> QED BY <2>1, <2>2 DEF Ends
<1>6. DelInv'
  <2>1. CASE p = "D"
    <3>1. ~Active'
      BY <1>1, <2>1 DEF Active
    <3> QED BY <1>2, <2>1, <3>1 DEF VersionInv, DelInv, Behind
  <2>2. CASE p # "D"
    <3>1. proc'["D"] = proc["D"]
      BY <1>1, <2>2, NamesDiffer
    <3> QED BY <1>2, <2>2, <3>1 DEF VersionInv, DelInv, Behind, Active
  <2> QED BY <2>1, <2>2
<1>7. ClientInv'
  <2>1. \A g \in Groups : proc'[g].pc \in {"get", "listen"} => proc'[g].item = {g}
    BY <1>1 DEF VersionInv, ClientInv, Procs
  <2>2. \A s \in Servers :
           client[s].st = "closed" => proc'["D"].pc = "delete" /\ proc'["D"].dc.server = s
    BY <1>1, NamesDiffer DEF VersionInv, ClientInv
  <2> QED BY <2>1, <2>2 DEF VersionInv, ClientInv, Ends
<1> QED BY <1>4, <1>5, <1>6, <1>7 DEF VersionInv

\* A copy differs from the DC in its generation only.
LEMMA CopyFields ==
    ASSUME NEW d \in Dcs
    PROVE  /\ Copy(d) \in Dcs /\ Copy(d).exists = d.exists /\ Copy(d).deleting = d.deleting
           /\ Copy(d).fin = d.fin /\ Copy(d).spec = d.spec /\ Copy(d).scope = d.scope
           /\ Copy(d).server = d.server /\ Copy(d).listen = d.listen
BY DcTypes DEF Copy, Dcs

LEMMA RStartVersions ==
    ASSUME TypeOK, LifeInv, VersionInv, NEW g \in Groups, RStart(g)
    PROVE  VersionInv'
<1> DEFINE rec == [Idle EXCEPT !.pc = FirstStep(g, dcCache), !.dc = Copy(dcCache), !.item = {g}]
<1>1. g \in Procs /\ g # "D" /\ g # "F" /\ g # "cache" /\ dcCache \in Dcs
  BY NamesDiffer DEF Procs, TypeOK
<1>2. /\ rec.pc \in {"get", "listen"} /\ rec.item = {g} /\ rec.dc = Copy(dcCache)
      /\ rec.dc.spec = dcCache.spec /\ rec.dc.deleting = dcCache.deleting
      /\ rec.dc.scope = dcCache.scope /\ rec.dc.server = dcCache.server
  <2>1. Copy(dcCache) \in Dcs /\ FirstStep(g, dcCache) \in {"get", "listen"}
    BY <1>1, CopyFields DEF FirstStep
  <2>2. rec.pc \in {"get", "listen"} /\ rec.item = {g} /\ rec.dc = Copy(dcCache)
    BY <2>1, IdleType DEF ProcStates
  <2> QED BY <1>1, <2>2, CopyFields
<1> HIDE DEF rec
<1>3. CASE UNCHANGED <<proc, dcHeld>>
  BY <1>3, SameVersions DEF RStart
<1>4. CASE dcHeld' = CacheRead(dcHeld, g) /\ Become(g, rec)
  <2>1. UNCHANGED <<dc, dcCache, dcQueued, sdk>>
    BY DEF RStart
  <2>2. proc'[g] = rec /\ \A q \in Procs \ {g} : proc'[q] = proc[q]
    BY <1>1, <1>4, BecomeOthers
  <2>3. \A q \in dcHeld' : q = g \/ q \in dcHeld
    BY <1>4 DEF CacheRead
  <2>4. g \in dcHeld' => "cache" \in dcHeld /\ "cache" \in dcHeld' /\ dcCache = dc
    BY <1>4 DEF CacheRead, LifeInv, CacheInv
  <2>5. "cache" \in dcHeld => "cache" \in dcHeld'
    BY <1>4 DEF CacheRead
  <2>6. SeenInv'
    BY <2>1 DEF VersionInv, SeenInv, Behind, InUse, Unsynced
  <2>7. dcHeld \subseteq Procs \cup {"cache"}
    BY DEF TypeOK
  <2>8. HeldInv'
    <3>1. ASSUME NEW q \in dcHeld', q # "cache"
          PROVE  /\ proc'[q].pc # "idle" /\ q # "F" /\ ~Behind'
                 /\ proc'[q].dc.spec = dc'.spec /\ proc'[q].dc.deleting = dc'.deleting
      <4>1. CASE q = g
        BY <1>1, <1>2, <2>1, <2>2, <2>4, <3>1, <4>1 DEF Behind
      <4>2. CASE q # g
        BY <2>1, <2>2, <2>3, <2>7, <3>1, <4>2 DEF VersionInv, HeldInv, Behind
      <4> QED BY <4>1, <4>2
    <3>2. ASSUME NEW h \in Groups \cap dcHeld'
          PROVE  "cache" \in dcHeld' /\ SameStatus(proc'[h].dc)
      <4>1. CASE h = g
        BY <1>2, <2>2, <2>4, <3>2, <4>1 DEF SameStatus
      <4>2. CASE h # g
        BY <2>2, <2>3, <2>5, <3>2, <4>2 DEF VersionInv, HeldInv, Procs
      <4> QED BY <4>1, <4>2
    <3>3. proc'["D"] = proc["D"] /\ ("D" \in dcHeld' => "D" \in dcHeld)
      BY <1>1, <2>2, <2>3, NamesDiffer
    <3> QED BY <2>1, <3>1, <3>2, <3>3 DEF VersionInv, HeldInv, SameStatus
  <2>9. DelInv'
    <3>1. proc'["D"] = proc["D"]
      BY <1>1, <2>2, NamesDiffer
    <3> QED BY <2>1, <3>1 DEF VersionInv, DelInv, Behind, Active
  <2>10. ClientInv'
    BY <1>1, <1>2, <1>4, <2>1, CallClients, NoGrowth DEF VersionInv
  <2> QED BY <2>6, <2>8, <2>9, <2>10 DEF VersionInv
<1> QED BY <1>3, <1>4 DEF RStart, rec

LEMMA RStatusVersions ==
    ASSUME TypeOK, VersionInv, NEW g \in Groups, RStatus(g)
    PROVE  VersionInv'
<1>1. g \in Procs /\ g # "D" /\ proc[g].dc \in Dcs
  BY NamesDiffer DEF Procs, TypeOK, ProcStates
<1>2. Ends(g, proc[g].dc) /\ UNCHANGED dcQueued
  BY <1>1, StatusWritten DEF RStatus, Ends, queues, sdk
<1>3. g \in dcHeld => proc[g].dc.scope = dc.scope /\ proc[g].dc.server = dc.server
  BY DEF VersionInv, HeldInv, SameStatus
<1>4. g \in dcHeld => Unsynced(proc[g].dc) <=> proc[g].dc.server = NoServer
  BY <1>3 DEF VersionInv, SeenInv, Unsynced
<1> QED BY <1>1, <1>2, <1>3, <1>4, EndVersions DEF VersionInv, SeenInv

LEMMA FuzzyVersions ==
    ASSUME TypeOK, VersionInv, FuzzyListen \/ FStop
    PROVE  VersionInv'
<1>1. CASE FStop
  BY <1>1, SameVersions DEF FStop, dcVars, queues
<1>2. CASE Miss("F")
  BY <1>2, CallVersions, NamesDiffer
<1>3. CASE FPoll \/ FSearch
  <2>1. UNCHANGED <<dcVars, dcQueued>> /\ \E rec : Become("F", rec)
    BY <1>3 DEF FPoll, FSearch, queues
  <2>2. UNCHANGED sdk \/ Build("F", {}) \/ BuildFails("F")
    BY <1>3 DEF FPoll, FSearch
  <2>3. \E s : Grows(s, {})
    BY <2>2, BuildGrows, NoGrowth, NamesDiffer DEF VersionInv
  <2> QED BY <2>1, <2>3, GoesOnVersions, CallClients, NamesDiffer DEF VersionInv
<1> QED BY <1>1, <1>2, <1>3 DEF FuzzyListen

\* The first step of a pass of D reads the cache; the pass holds the current
\* version only if that was it, or if D has just written the finalizer.
Reads ==
    /\ \A p \in dcHeld' : p # "cache" => p = "D" \/ p \in dcHeld
    /\ \/ UNCHANGED dc /\ ("cache" \in dcHeld => "cache" \in dcHeld') /\ ("D" \in dcHeld' => dcCache = dc)
       \/ dc' = [dc EXCEPT !.fin = TRUE] /\ dcHeld' = {"D"} /\ dcCache = dc

\* The pass begins with rec, which has the spec of the cache.  A DC without a
\* finalizer is synced only if the cache is up to date.
Begins(rec) ==
    /\ Become("D", rec) /\ Reads /\ dcCache.exists
    /\ rec.dc.spec = dcCache.spec /\ rec.dc.deleting = dcCache.deleting
    /\ dcCache.deleting => UNCHANGED dc
    /\ ~dcCache.deleting => dc'.exists /\ dc'.fin
    /\ ~dcCache.deleting /\ ~InUse(dcCache) => dcCache = dc

\* It is one of Finalize or of a change of the server ...
BeginsToClean(rec) ==
    /\ rec.pc = "clean" /\ UNCHANGED client
    /\ rec.dc.scope = dcCache.scope /\ rec.dc.server = dcCache.server
    /\ rec.dc.listen = dcCache.listen
    /\ ~dcCache.deleting => ~Unsynced(dcCache) /\ dcCache.server # dcCache.spec.server

\* ... or of a sync, which drops the groups that have left the scope.
BeginsToSync(rec) ==
    /\ rec.pc \in {"next", "status"} /\ ~dcCache.deleting
    /\ rec.dc.listen \subseteq dcCache.listen
    /\ Unsynced(dcCache) \/ dcCache.server = dcCache.spec.server
    /\ ~Unsynced(dcCache) => rec.dc.listen \subseteq InScope(dcCache.spec)
    /\ \/ UNCHANGED client
       \/ /\ ~Unsynced(dcCache)
          /\ client' = [client EXCEPT ![dcCache.server].on =
                            @ \ (dcCache.listen \ InScope(dcCache.spec))]

LEMMA DStartCases ==
    ASSUME TypeOK, LifeInv, DStart
    PROVE  \/ ~dcCache.exists /\ UNCHANGED <<dc, dcHeld, client, proc>>
           \/ \E rec : Begins(rec) /\ (BeginsToClean(rec) \/ BeginsToSync(rec))
<1> DEFINE c == Copy(dcCache)
           d == [c EXCEPT !.fin = TRUE]
           gone == IF c.scope = "" THEN {} ELSE c.listen \ InScope(c.spec)
           new  == InScope(c.spec) \ (IF c.scope = "" THEN {} ELSE c.listen)
           less == [d EXCEPT !.listen = @ \ gone]
           del  == [Idle EXCEPT !.pc = "clean", !.dc = c, !.todo = c.listen]
           mov  == [Idle EXCEPT !.pc = "clean", !.dc = d, !.todo = c.listen]
           skip == [Idle EXCEPT !.pc = "status", !.dc = d]
           sync == [[Idle EXCEPT !.dc = less] EXCEPT !.pc = "next", !.todo = new]
           move == c.scope # "" /\ checkNacosServerChange(c)
           full == c.scope = "full" /\ c.spec.scope = "full"
           shrunk == client' = IF gone = {} THEN client
                               ELSE [client EXCEPT ![c.server].on = @ \ gone]
<1>1. dc \in Dcs /\ dcCache \in Dcs /\ "D" \in Procs
  BY NamesDiffer DEF TypeOK
<1>2. /\ c \in Dcs /\ c.exists = dcCache.exists /\ c.deleting = dcCache.deleting
      /\ c.fin = dcCache.fin /\ c.spec = dcCache.spec /\ c.scope = dcCache.scope
      /\ c.server = dcCache.server /\ c.listen = dcCache.listen
  BY <1>1, CopyFields
<1> HIDE DEF c
<1>3. /\ d \in Dcs /\ d.deleting = c.deleting /\ d.spec = c.spec /\ d.scope = c.scope
      /\ d.server = c.server /\ d.listen = c.listen
  BY <1>2 DEF Dcs
<1> HIDE DEF d
<1>4. less.deleting = c.deleting /\ less.spec = c.spec /\ less.listen = c.listen \ gone
  <2> HIDE DEF gone
  <2> QED BY <1>3 DEF Dcs
<1>5. /\ Unsynced(dcCache) => gone = {}
      /\ ~Unsynced(dcCache) => gone = dcCache.listen \ InScope(dcCache.spec)
  BY <1>2, Zenon DEF Unsynced
<1>6. /\ move => ~Unsynced(dcCache) /\ dcCache.server # dcCache.spec.server
      /\ ~move => Unsynced(dcCache) \/ dcCache.server = dcCache.spec.server
  BY <1>2, Zenon DEF Unsynced, checkNacosServerChange
<1>7. full => dcCache.listen \subseteq InScope(dcCache.spec)
  BY <1>1, <1>2 DEF Dcs, InScope
<1> HIDE DEF gone, new, less, move, full
<1>8. /\ del.pc = "clean" /\ del.dc = c /\ mov.pc = "clean" /\ mov.dc = d
      /\ skip.pc = "status" /\ skip.dc = d
  BY IdleType DEF ProcStates
<1>9. sync.pc = "next" /\ sync.dc = less
  BY IdleType DEF ProcStates
<1> HIDE DEF del, mov, skip, sync
<1>10. dcHeld' = CacheRead(dcHeld, "D") /\ UNCHANGED dc => Reads
  BY DEF CacheRead, Reads, LifeInv, CacheInv
<1>11. CASE /\ c.exists /\ c.deleting /\ dcHeld' = CacheRead(dcHeld, "D") /\ UNCHANGED <<dc, client>>
            /\ Become("D", del)
  <2>1. Begins(del) /\ BeginsToClean(del)
    BY <1>2, <1>8, <1>10, <1>11 DEF Begins, BeginsToClean
  <2> QED BY <2>1
<1>12. CASE /\ c.exists /\ ~c.deleting
            /\ \/ c.fin /\ dcHeld' = CacheRead(dcHeld, "D") /\ UNCHANGED dc
               \/ ~c.fin /\ "cache" \in dcHeld /\ dc' = [dc EXCEPT !.fin = TRUE] /\ dcHeld' = {"D"}
            /\ \/ move /\ Become("D", mov) /\ UNCHANGED client
               \/ ~move /\ full /\ Become("D", skip) /\ UNCHANGED client
               \/ ~move /\ Become("D", sync) /\ shrunk
  <2>1. Reads /\ dc'.exists /\ dc'.fin /\ (~InUse(dcCache) => dcCache = dc)
    <3>1. CASE c.fin /\ dcHeld' = CacheRead(dcHeld, "D") /\ UNCHANGED dc
      BY <1>2, <1>10, <1>12, <3>1 DEF InUse, LifeInv, UseInv
    <3>2. CASE ~c.fin /\ "cache" \in dcHeld /\ dc' = [dc EXCEPT !.fin = TRUE] /\ dcHeld' = {"D"}
      <4>1. dcCache = dc
        BY <3>2 DEF LifeInv, CacheInv
      <4>2. dc'.exists /\ dc'.fin
        BY <1>1, <1>2, <1>12, <3>2, <4>1 DEF Dcs
      <4> QED BY <3>2, <4>1, <4>2 DEF Reads
    <3> QED BY <1>12, <3>1, <3>2
  <2>2. ASSUME NEW rec, Become("D", rec), rec.dc.spec = c.spec, rec.dc.deleting = c.deleting
        PROVE  Begins(rec)
    BY <1>2, <1>12, <2>1, <2>2 DEF Begins
  <2>3. CASE move /\ Become("D", mov) /\ UNCHANGED client
    <3>1. Begins(mov) /\ BeginsToClean(mov)
      BY <1>2, <1>3, <1>6, <1>8, <2>2, <2>3 DEF BeginsToClean
    <3> QED BY <3>1
  <2>4. CASE ~move /\ full /\ Become("D", skip) /\ UNCHANGED client
    <3>1. Begins(skip) /\ BeginsToSync(skip)
      BY <1>2, <1>3, <1>6, <1>7, <1>8, <1>12, <2>2, <2>4 DEF BeginsToSync
    <3> QED BY <3>1
  <2>5. CASE ~move /\ Become("D", sync) /\ shrunk
    <3>1. sync.dc.listen \subseteq dcCache.listen
      BY <1>2, <1>4, <1>9
    <3>2. ~Unsynced(dcCache) => sync.dc.listen \subseteq InScope(dcCache.spec)
      BY <1>2, <1>4, <1>5, <1>9
    <3>3. \/ UNCHANGED client
          \/ /\ ~Unsynced(dcCache)
             /\ client' = [client EXCEPT ![dcCache.server].on =
                               @ \ (dcCache.listen \ InScope(dcCache.spec))]
      BY <1>2, <1>5, <2>5
    <3>4. Begins(sync) /\ BeginsToSync(sync)
      BY <1>2, <1>4, <1>6, <1>9, <1>12, <2>2, <2>5, <3>1, <3>2, <3>3 DEF BeginsToSync
    <3> QED BY <3>4
  <2> QED BY <1>12, <2>3, <2>4, <2>5
<1>13. CASE ~c.exists \/ (c.deleting /\ ~c.fin)
  <2>1. ~dcCache.exists
    BY <1>2, <1>13 DEF LifeInv, CacheInv
  <2>2. UNCHANGED <<dc, dcHeld, client, proc>>
    BY <1>2, <1>13, <2>1 DEF DStart, c
  <2> QED BY <2>1, <2>2
<1> QED BY <1>11, <1>12, <1>13 DEF DStart, c, d, gone, new, less, del, mov, skip, sync, move, full

LEMMA DStartVersions ==
    ASSUME TypeOK, LifeInv, VersionInv, DStart
    PROVE  VersionInv'
<1>1. proc["D"].pc = "idle" /\ dcQueued /\ ~dcQueued' /\ UNCHANGED dcCache
  BY DEF DStart
<1>2. CASE ~dcCache.exists /\ UNCHANGED <<dc, dcHeld, client, proc>>
  <2>1. SeenInv'
    BY <1>1, <1>2 DEF VersionInv, SeenInv, Behind, InUse, Unsynced
  <2>2. HeldInv'
    BY <1>1, <1>2 DEF VersionInv, HeldInv, Behind, SameStatus
  <2>3. DelInv'
    BY <1>1, <1>2 DEF VersionInv, DelInv, Active, Behind
  <2>4. ClientInv'
    BY <1>2 DEF VersionInv, ClientInv
  <2> QED BY <2>1, <2>2, <2>3, <2>4 DEF VersionInv
<1>3. ASSUME NEW rec, Begins(rec), BeginsToClean(rec) \/ BeginsToSync(rec)
      PROVE  VersionInv'
  <2>1. proc'["D"] = rec /\ \A q \in Procs \ {"D"} : proc'[q] = proc[q]
    BY <1>3, BecomeOthers, NamesDiffer DEF Begins
  <2>2. /\ dc'.exists = dc.exists /\ dc'.deleting = dc.deleting /\ dc'.gen = dc.gen
        /\ dc'.spec = dc.spec /\ dc'.scope = dc.scope /\ dc'.server = dc.server
        /\ dc'.listen = dc.listen /\ (dc.fin => dc'.fin)
    <3>1. dc \in Dcs
      BY DEF TypeOK
    <3> QED BY <1>3, <3>1 DEF Begins, Reads, Dcs
  <2>3. SeenInv'
    BY <1>1, <2>2 DEF VersionInv, SeenInv, Behind, InUse, Unsynced
  <2>4. dcHeld \subseteq Procs \cup {"cache"}
    BY DEF TypeOK
  <2>5. "D" \in dcHeld' => dcCache.spec = dc.spec /\ dcCache.deleting = dc.deleting
           /\ dcCache.exists = dc.exists /\ dcCache.gen = dc.gen /\ dcCache.scope = dc.scope
           /\ dcCache.server = dc.server /\ dcCache.listen = dc.listen
    BY <1>3 DEF Begins, Reads
  <2>6. \A q \in dcHeld' : q \notin {"D", "cache"} =>
           q \in dcHeld /\ proc'[q] = proc[q] /\ ("cache" \in dcHeld => "cache" \in dcHeld')
    BY <1>3, <2>1, <2>4 DEF Begins, Reads
  <2>7. HeldInv'
    <3>1. ASSUME NEW q \in dcHeld', q # "cache"
          PROVE  /\ proc'[q].pc # "idle" /\ q # "F" /\ ~Behind'
                 /\ proc'[q].dc.spec = dc'.spec /\ proc'[q].dc.deleting = dc'.deleting
      <4>1. CASE q = "D"
        <5>1. rec.pc # "idle" /\ rec.dc.spec = dcCache.spec /\ rec.dc.deleting = dcCache.deleting
          BY <1>3 DEF Begins, BeginsToClean, BeginsToSync
        <5> QED BY <1>1, <2>1, <2>2, <2>5, <3>1, <4>1, <5>1 DEF Behind
      <4>2. CASE q # "D"
        BY <1>1, <2>2, <2>6, <3>1, <4>2 DEF VersionInv, HeldInv, Behind
      <4> QED BY <4>1, <4>2
    <3>2. ASSUME NEW g \in Groups \cap dcHeld'
          PROVE  "cache" \in dcHeld' /\ SameStatus(proc'[g].dc)
      BY <2>6, <3>2, NamesDiffer, LifecycleAssumption DEF VersionInv, HeldInv
    <3>3. "D" \in dcHeld' /\ rec.pc \in {"clean", "delete"} =>
             /\ rec.dc.scope = dc.scope /\ rec.dc.server = dc.server
             /\ rec.dc.listen = dc.listen
      BY <1>3, <2>5 DEF BeginsToClean, BeginsToSync
    <3> QED BY <1>1, <2>1, <2>2, <3>1, <3>2, <3>3 DEF HeldInv, SameStatus
  <2>8. DelInv'
    <3>1. rec.pc # "idle" /\ rec.dc.deleting = dcCache.deleting
      BY <1>3 DEF Begins, BeginsToClean, BeginsToSync
    <3>2. dcCache.deleting => dc.deleting
      BY <1>1 DEF VersionInv, DelInv
    <3>3. dc.deleting /\ ~dcCache.deleting => Behind
      BY DEF VersionInv, SeenInv
    <3> QED BY <1>1, <2>1, <2>2, <3>1, <3>2, <3>3 DEF VersionInv, DelInv, Active, Behind
  <2>9. ClientInv'
    <3>1. \A s \in Servers : client'[s].st = client[s].st /\ client'[s].on \subseteq client[s].on
      BY <1>3 DEF BeginsToClean, BeginsToSync, TypeOK, Clients
    <3>2. \A g \in Groups : proc'[g] = proc[g]
      BY <2>1, NamesDiffer DEF Procs
    <3> QED BY <1>1, <3>1, <3>2 DEF VersionInv, ClientInv
  <2> QED BY <2>3, <2>7, <2>8, <2>9 DEF VersionInv
<1> QED BY <1>2, <1>3, DStartCases

\* CleanOldNacosConfig has ended: D goes on with unfin or with the sync.
LEMMA CleanedGoesOn ==
    ASSUME TypeOK, Cleaned, proc["D"].pc # "idle"
    PROVE  \E rec : /\ Become("D", rec) /\ GoesOn("D", rec)
                    /\ rec.pc = IF proc["D"].dc.deleting THEN "unfin" ELSE "next"
                    /\ ~proc["D"].dc.deleting => rec.dc.listen = {}
<1> DEFINE me == proc["D"]
           clean == CleanDynamicConfigurationStatus(me.dc)
           unfin == [me EXCEPT !.pc = "unfin"]
           next == [me EXCEPT !.pc = "next", !.dc = CleanDynamicConfigurationStatus(@),
                              !.todo = InScope(me.dc.spec)]
<1>1. me \in ProcStates /\ me.dc \in Dcs
  BY NamesDiffer DEF TypeOK, ProcStates
<1>2. unfin.pc = "unfin" /\ unfin.dc = me.dc
  BY <1>1 DEF ProcStates
<1>3. next.pc = "next" /\ next.dc = clean
  BY <1>1 DEF ProcStates
<1>4. clean.spec = me.dc.spec /\ clean.deleting = me.dc.deleting /\ clean.listen = {}
  BY <1>1 DEF CleanDynamicConfigurationStatus, Dcs
<1> HIDE DEF unfin, next, clean
<1>5. IF me.dc.deleting THEN Become("D", unfin) ELSE Become("D", next)
  BY DEF Cleaned, unfin, next
<1> QED BY <1>2, <1>3, <1>4, <1>5, NamesDiffer DEF GoesOn

\* What is left of the clients after CancelListenConfig, CloseClient and the
\* deletion from the cache.
LEMMA CleanupClients ==
    ASSUME TypeOK, ClientInv, NEW rec, Become("D", rec),
           \A t \in Servers : /\ client'[t].st # "open" => client'[t].on = {}
                              /\ client'[t].st = "closed" => rec.pc = "delete" /\ rec.dc.server = t
    PROVE  ClientInv'
<1>1. proc'["D"] = rec /\ \A g \in Groups : proc'[g] = proc[g]
  BY BecomeOthers, NamesDiffer DEF Procs
<1> QED BY <1>1 DEF ClientInv

LEMMA DcPassVersions ==
    ASSUME TypeOK, LifeInv, VersionInv, DcReconciler
    PROVE  VersionInv'
<1> DEFINE me == proc["D"]
           s  == me.dc.server
<1>1. me \in ProcStates /\ me.dc \in Dcs /\ "D" \in Procs /\ dc \in Dcs
  BY NamesDiffer DEF TypeOK, ProcStates
<1>2. ASSUME NEW rec, Become("D", rec), GoesOn("D", rec), UNCHANGED <<dcVars, dcQueued>>,
             \A t \in Servers : /\ client'[t].st # "open" => client'[t].on = {}
                                /\ client'[t].st = "closed" => rec.pc = "delete" /\ rec.dc.server = t
      PROVE  VersionInv'
  BY <1>1, <1>2, GoesOnVersions, CleanupClients, NamesDiffer DEF VersionInv
<1>3. ASSUME NEW g \in Groups, DClean(g)
      PROVE  VersionInv'
  <2> DEFINE rec == [me EXCEPT !.todo = @ \ {g}]
  <2>1. rec.pc = me.pc /\ rec.dc = me.dc /\ me.pc = "clean"
    BY <1>1, <1>3 DEF ProcStates, DClean
  <2> HIDE DEF rec
  <2>2. CASE /\ client' = [client EXCEPT ![s].on = @ \ {g}] /\ Become("D", rec)
             /\ UNCHANGED <<dc, dcHeld, dcQueued>>
    <3>1. \A t \in Servers : client'[t].st = client[t].st /\ client'[t].on \subseteq client[t].on
      BY <2>2 DEF TypeOK, Clients
    <3>2. \A t \in Servers : client[t].st # "open" => client'[t].on = {}
      BY <3>1 DEF VersionInv, ClientInv
    <3>3. \A t \in Servers : client'[t].st # "closed"
      BY <2>1, <3>1 DEF VersionInv, ClientInv
    <3>4. GoesOn("D", rec)
      BY <2>1 DEF GoesOn
    <3>5. UNCHANGED <<dcVars, dcQueued>>
      BY <1>3, <2>2 DEF DClean, dcVars
    <3> QED BY <1>2, <2>2, <3>1, <3>2, <3>3, <3>4, <3>5
  <2>3. CASE /\ WriteStatus("D", me.dc) \/ ("D" \notin dcHeld /\ UNCHANGED <<dc, dcHeld>>)
             /\ dcQueued' = TRUE /\ Become("D", Idle) /\ UNCHANGED client
    <3>1. Ends("D", me.dc)
      BY <1>1, <1>3, <2>3, StatusWritten DEF Ends, DClean
    <3>2. "D" \in dcHeld => me.dc.scope = dc.scope /\ me.dc.server = dc.server
      BY <2>1 DEF VersionInv, HeldInv, SameStatus
    <3>3. "D" \in dcHeld => Unsynced(me.dc) <=> me.dc.server = NoServer
      BY <3>2 DEF VersionInv, SeenInv, Unsynced
    <3> QED BY <1>1, <2>1, <2>3, <3>1, <3>2, <3>3, EndVersions DEF VersionInv, SeenInv, Active
  <2> QED BY <1>3, <2>2, <2>3 DEF DClean, rec
<1>4. CASE DClose
  <2> DEFINE rec == [me EXCEPT !.pc = "delete"]
  <2>1. rec.pc = "delete" /\ rec.dc = me.dc /\ me.pc = "clean" /\ UNCHANGED <<dcVars, dcQueued>>
    BY <1>1, <1>4 DEF ProcStates, DClose, queues
  <2> HIDE DEF rec
  <2>2. \A t \in Servers : client[t].st # "closed"
    BY <2>1 DEF VersionInv, ClientInv
  <2>3. CASE client' = [client EXCEPT ![s] = [st |-> "closed", on |-> {}]] /\ Become("D", rec)
    <3>1. \A t \in Servers : IF t = s THEN client'[t].st = "closed" /\ client'[t].on = {}
                                     ELSE client'[t] = client[t]
      BY <2>3 DEF TypeOK
    <3>2. \A t \in Servers : /\ client'[t].st # "open" => client'[t].on = {}
                             /\ client'[t].st = "closed" => t = s
      BY <2>2, <3>1 DEF VersionInv, ClientInv
    <3>3. GoesOn("D", rec)
      BY <2>1 DEF GoesOn
    <3> QED BY <1>2, <2>1, <2>3, <3>2, <3>3
  <2>4. CASE Cleaned /\ UNCHANGED client
    <3>1. \A t \in Servers : client'[t].st # "open" => client'[t].on = {}
      BY <2>4 DEF VersionInv, ClientInv
    <3> QED BY <1>2, <2>1, <2>2, <2>4, <3>1, CleanedGoesOn
  <2> QED BY <1>4, <2>3, <2>4 DEF DClose, rec
<1>5. CASE DDelete
  <2>1. /\ me.pc = "delete" /\ UNCHANGED <<dcVars, dcQueued>> /\ Cleaned
        /\ client' = [client EXCEPT ![s] = NoClient]
    BY <1>5 DEF DDelete, queues
  <2>2. \A t \in Servers : IF t = s THEN client'[t].st = "none" /\ client'[t].on = {}
                                   ELSE client'[t] = client[t]
    BY <2>1 DEF TypeOK, NoClient
  <2>3. \A t \in Servers : client'[t].st # "closed" /\ (client'[t].st # "open" => client'[t].on = {})
    BY <2>2 DEF VersionInv, ClientInv
  <2> QED BY <1>2, <2>1, <2>3, CleanedGoesOn
<1>6. ASSUME NEW g \in Groups, DNext(g)
      PROVE  VersionInv'
  <2> DEFINE rec == [me EXCEPT !.pc = "get", !.todo = @ \ {g}, !.item = {g}]
  <2>1. rec.pc = "get" /\ rec.dc = me.dc
    BY <1>1 DEF ProcStates
  <2>2. Become("D", rec) /\ me.pc = "next" /\ UNCHANGED <<dcVars, dcQueued, sdk>>
    BY <1>6 DEF DNext, queues
  <2> HIDE DEF rec
  <2>3. GoesOn("D", rec)
    BY <2>1, <2>2 DEF GoesOn
  <2>4. \A t \in Servers : client'[t].st # "closed" /\ (client'[t].st # "open" => client'[t].on = {})
    BY <2>2 DEF VersionInv, ClientInv, sdk
  <2> QED BY <1>2, <2>2, <2>3, <2>4
<1>7. CASE DStatus
  <2> DEFINE d == UpdateDynamicConfigurationStatus(me.dc)
  <2>1. d \in Dcs /\ d.scope = me.dc.spec.scope /\ d.server = me.dc.spec.server
    BY <1>1, DcTypes DEF UpdateDynamicConfigurationStatus, Dcs
  <2>2. me.dc.spec \in Specs
    BY <1>1 DEF Dcs
  <2>3. d.server \in Servers /\ d.server # NoServer /\ d.scope \in {"full", "partial"}
    BY <2>1, <2>2, SpecTypes, LifecycleAssumption
  <2>4. ~Unsynced(d)
    BY <2>3, Zenon DEF Unsynced
  <2>5. me.pc \in {"status", "next"} /\ ~me.dc.deleting /\ dc.fin
    BY <1>7 DEF DStatus, LifeInv, PassInv
  <2> HIDE DEF d
  <2>6. Ends("D", d)
    BY <1>1, <1>7, <2>1, StatusWritten DEF Ends, DStatus, sdk, d
  <2>7. dc.deleting => dcQueued'
    <3>1. "D" \in dcHeld => ~dc.deleting
      BY <2>5, NamesDiffer DEF VersionInv, HeldInv
    <3>2. "D" \notin dcHeld => dcQueued'
      BY <1>7 DEF DStatus, WriteStatus
    <3> QED BY <3>1, <3>2
  <2> QED BY <1>1, <2>3, <2>4, <2>5, <2>6, <2>7, EndVersions DEF Active
<1>8. CASE DRemoveFinalizer
  <2>1. Become("D", Idle) /\ UNCHANGED <<dcCache, sdk>> /\ me.pc = "unfin"
    BY <1>8 DEF DRemoveFinalizer
  <2>2. CASE "D" \notin dcHeld /\ dcQueued' = TRUE /\ UNCHANGED <<dc, dcHeld>>
    <3>1. Ends("D", me.dc)
      BY <2>1, <2>2 DEF Ends, sdk
    <3> QED BY <1>1, <2>1, <2>2, <3>1, EndVersions DEF Active
  <2>3. CASE "D" \in dcHeld /\ dc' = NoDc(dc.spec, dc.gen) /\ dcHeld' = {} /\ UNCHANGED dcQueued
    <3>1. /\ ~dc'.exists /\ ~dc'.deleting /\ ~dc'.fin /\ dc'.gen = dc.gen /\ dc'.spec = dc.spec
          /\ dc'.server = NoServer /\ dc'.listen = {}
      BY <2>3 DEF NoDc, NewDc
    <3>2. Unsynced(dc')
      BY <2>3, Zenon DEF NoDc, NewDc, Unsynced
    <3>3. proc'["D"].pc = "idle" /\ \A g \in Groups : proc'[g] = proc[g]
      BY <2>1, BecomeOthers, NamesDiffer, IdleType DEF Procs
    <3>4. ~InUse(dcCache) /\ me.dc.deleting
      BY <2>1 DEF LifeInv, PassInv
    <3>5. ~Behind /\ ~dcQueued
      BY <2>3 DEF VersionInv, HeldInv
    <3>6. dc.deleting
      BY <2>1, <3>4 DEF VersionInv, DelInv, Active
    <3>7. dcCache.exists
      BY <3>5, <3>6 DEF VersionInv, DelInv, Behind
    <3>8. SeenInv'
      <4>1. (Unsynced(dcCache) <=> dcCache.server = NoServer)'
        BY <2>1 DEF VersionInv, SeenInv, Unsynced
      <4>2. (Unsynced(dc) <=> dc.server = NoServer)'
        BY <3>1, <3>2 DEF Unsynced
      <4>3. Behind'
        BY <2>1, <3>1, <3>7 DEF Behind
      <4> QED BY <2>1, <3>1, <3>4, <4>1, <4>2, <4>3 DEF VersionInv, SeenInv, InUse
    <3>9. HeldInv'
      BY <2>3 DEF HeldInv
    <3>10. DelInv'
      BY <2>1, <2>3, <3>1, <3>3, <3>5 DEF DelInv, Active
    <3>11. ClientInv'
      BY <2>1, <3>3 DEF VersionInv, ClientInv, sdk
    <3> QED BY <3>8, <3>9, <3>10, <3>11 DEF VersionInv
  <2> QED BY <1>8, <2>2, <2>3 DEF DRemoveFinalizer
<1> QED BY <1>1, <1>3, <1>4, <1>5, <1>6, <1>7, <1>8, DStartVersions, CallVersions DEF DcReconciler

\* The API server: every change of the spec, deletion and creation takes the
\* current version from all who hold it, and its event is on its way.
UserChange ==
    /\ dcHeld' = {} /\ UNCHANGED <<dcCache, queues, sdk, proc>>
    /\ dc'.gen = dc.gen + 1
    /\ ~dc'.fin => dc'.server = NoServer
    /\ dc.exists /\ ~dc.deleting /\ dc.fin =>
          dc'.exists /\ dc'.fin /\ dc'.server = dc.server /\ dc'.listen = dc.listen
    /\ ~(dc.exists /\ dc.fin) => dc'.server = NoServer
    /\ dc'.exists /\ ~dc.exists => dc'.listen = {}
    /\ dc'.exists /\ dc.exists => dc'.listen = dc.listen
    /\ ~dc.deleting /\ (dc'.deleting => dc'.exists)

LEMMA FreshDc ==
    \A spec, n :
        /\ NewDc(spec, n).exists /\ ~NoDc(spec, n).exists
        /\ \A d \in {NewDc(spec, n), NoDc(spec, n)} :
              /\ ~d.deleting /\ ~d.fin /\ d.gen = n /\ d.spec = spec
              /\ d.server = NoServer /\ d.listen = {} /\ Unsynced(d)
<1>1. \A spec, n : /\ ~NewDc(spec, n).deleting /\ ~NewDc(spec, n).fin /\ NewDc(spec, n).gen = n
                   /\ NewDc(spec, n).spec = spec /\ NewDc(spec, n).server = NoServer
                   /\ NewDc(spec, n).listen = {} /\ NewDc(spec, n).exists
  BY DEF NewDc
<1>2. \A spec, n : /\ ~NoDc(spec, n).deleting /\ ~NoDc(spec, n).fin /\ NoDc(spec, n).gen = n
                   /\ NoDc(spec, n).spec = spec /\ NoDc(spec, n).server = NoServer
                   /\ NoDc(spec, n).listen = {} /\ ~NoDc(spec, n).exists
  BY DEF NewDc, NoDc
<1>3. \A spec, n : Unsynced(NewDc(spec, n)) /\ Unsynced(NoDc(spec, n))
  BY Zenon DEF NewDc, NoDc, Unsynced
<1> QED BY <1>1, <1>2, <1>3

LEMMA UserChanges ==
    ASSUME TypeOK, VersionInv, (\E spec \in Specs : ChangeSpec(spec)) \/ DeleteDc \/ CreateDc
    PROVE  UserChange /\ ((Unsynced(dc) <=> dc.server = NoServer)')
<1>1. dc \in Dcs
  BY DEF TypeOK
<1>2. ~dc.exists \/ ~dc.deleting => ~dc.deleting
  BY DEF VersionInv, DelInv
<1>3. ~dc.fin => dc.server = NoServer
  BY DEF VersionInv, SeenInv
<1>4. Unsynced(dc) <=> dc.server = NoServer
  BY DEF VersionInv, SeenInv
<1>5. ASSUME NEW spec \in Specs, ChangeSpec(spec)
      PROVE  UserChange /\ dc'.scope = dc.scope /\ dc'.server = dc.server
  <2>1. /\ dc' = [dc EXCEPT !.spec = spec, !.gen = @ + 1] /\ dcHeld' = {} /\ dc.exists
        /\ ~dc.deleting /\ UNCHANGED <<dcCache, queues, sdk, proc>>
    BY <1>5 DEF ChangeSpec
  <2>2. /\ dc'.gen = dc.gen + 1 /\ dc'.exists = dc.exists /\ dc'.deleting = dc.deleting
        /\ dc'.fin = dc.fin /\ dc'.scope = dc.scope /\ dc'.server = dc.server
        /\ dc'.listen = dc.listen
    BY <1>1, <2>1 DEF Dcs
  <2> QED BY <1>3, <2>1, <2>2 DEF UserChange
<1>6. CASE DeleteDc /\ dc.fin
  <2>1. /\ dc' = [dc EXCEPT !.deleting = TRUE, !.gen = @ + 1] /\ dcHeld' = {} /\ dc.exists
        /\ ~dc.deleting /\ UNCHANGED <<dcCache, queues, sdk, proc>>
    BY <1>6 DEF DeleteDc
  <2>2. /\ dc'.gen = dc.gen + 1 /\ dc'.exists = dc.exists /\ dc'.deleting
        /\ dc'.fin = dc.fin /\ dc'.scope = dc.scope /\ dc'.server = dc.server
        /\ dc'.listen = dc.listen
    BY <1>1, <2>1 DEF Dcs
  <2>3. UserChange
    BY <1>6, <2>1, <2>2 DEF UserChange
  <2> QED BY <1>4, <2>2, <2>3 DEF Unsynced
<1>7. CASE (DeleteDc /\ ~dc.fin) \/ CreateDc
  <2>1. /\ dc' = NoDc(dc.spec, dc.gen + 1) \/ (dc' = NewDc(dc.spec, dc.gen + 1) /\ ~dc.exists)
        /\ dcHeld' = {} /\ UNCHANGED <<dcCache, queues, sdk, proc>>
        /\ ~dc.exists \/ (~dc.fin /\ ~dc.deleting)
    BY <1>7 DEF DeleteDc, CreateDc
  <2>2. /\ dc'.gen = dc.gen + 1 /\ ~dc'.deleting /\ ~dc'.fin /\ dc'.server = NoServer
        /\ dc'.listen = {} /\ (dc'.exists => ~dc.exists)
    <3>1. CASE dc' = NoDc(dc.spec, dc.gen + 1)
      BY <3>1, FreshDc
    <3>2. CASE dc' = NewDc(dc.spec, dc.gen + 1) /\ ~dc.exists
      BY <3>2, FreshDc
    <3> QED BY <2>1, <3>1, <3>2
  <2>3. UserChange
    BY <1>2, <2>1, <2>2 DEF UserChange
  <2>4. Unsynced(dc')
    BY <2>1, FreshDc
  <2> QED BY <2>2, <2>3, <2>4 DEF Unsynced
<1> QED BY <1>4, <1>5, <1>6, <1>7 DEF Unsynced

LEMMA UserVersions ==
    ASSUME TypeOK, LifeInv, VersionInv, UserChange, (Unsynced(dc) <=> dc.server = NoServer)'
    PROVE  VersionInv'
<1>1. dc.gen \in Nat /\ dcCache.gen \in Nat /\ dcCache.gen <= dc.gen
  BY DcFields DEF LifeInv, CacheInv
<1>2. dc'.gen # dcCache.gen /\ Behind' /\ UNCHANGED dcQueued
  BY <1>1 DEF UserChange, Behind, queues
<1>3. SeenInv'
  <2>1. (Unsynced(dcCache) <=> dcCache.server = NoServer)'
    BY DEF VersionInv, SeenInv, Unsynced, UserChange
  <2>2. (dc.exists /\ ~dcCache.exists => dc.listen = {})'
    BY DEF VersionInv, SeenInv, UserChange
  <2>3. (InUse(dcCache) /\ dcCache.server # NoServer => dc.server # NoServer)'
    BY DEF VersionInv, SeenInv, UserChange, LifeInv, UseInv, InUse
  <2> QED BY <1>2, <2>1, <2>2, <2>3 DEF SeenInv, UserChange
<1>4. HeldInv'
  BY DEF HeldInv, UserChange
<1>5. DelInv'
  BY <1>2 DEF VersionInv, DelInv, Active, UserChange
<1>6. ClientInv'
  BY DEF VersionInv, ClientInv, UserChange, sdk
<1> QED BY <1>3, <1>4, <1>5, <1>6 DEF VersionInv

LEMMA EnvironmentVersions ==
    ASSUME TypeOK, LifeInv, VersionInv,
           DcInformer \/ CallbackWrites \/ User \/ Crash \/ Rest \/ UNCHANGED vars
    PROVE  VersionInv'
<1>1. CASE DcInformer
  <2>1. /\ UNCHANGED <<dc, sdk, proc>> /\ dcCache' = dc /\ dcHeld' = dcHeld \cup {"cache"}
        /\ "cache" \notin dcHeld /\ (dcQueued' <=> dcQueued \/ Behind)
    BY <1>1 DEF DcInformer, Behind
  <2>2. SeenInv'
    BY <2>1 DEF VersionInv, SeenInv, Behind, InUse, Unsynced
  <2>3. HeldInv'
    <3>1. \A p \in dcHeld : p # "cache" => ~Behind
      BY DEF VersionInv, HeldInv
    <3>2. "D" \in dcHeld => ~dcQueued'
      BY <2>1, <3>1, NamesDiffer DEF VersionInv, HeldInv
    <3>3. ~Behind'
      BY <2>1 DEF Behind
    <3>4. "cache" \notin Groups
      BY NamesDiffer DEF Procs
    <3> QED BY <2>1, <3>2, <3>3, <3>4 DEF VersionInv, HeldInv, SameStatus
  <2>4. DelInv'
    BY <2>1 DEF VersionInv, DelInv, Active, Behind
  <2>5. ClientInv'
    BY <2>1 DEF VersionInv, ClientInv, sdk
  <2> QED BY <2>2, <2>3, <2>4, <2>5 DEF VersionInv
<1>2. CASE CallbackWrites \/ (\E g \in Groups : EditObject(g)) \/ Rest \/ UNCHANGED vars
  <2>1. UNCHANGED <<dc, dcCache, dcQueued, sdk, proc>> /\ dcHeld' \in {dcHeld, {}}
    BY <1>2 DEF CallbackWrites, EditObject, Rest, vars, dcVars, queues
  <2> QED BY <2>1, SameVersions
<1>3. CASE (\E spec \in Specs : ChangeSpec(spec)) \/ DeleteDc \/ CreateDc
  BY <1>3, UserChanges, UserVersions
<1>4. CASE Crash
  <2>1. /\ \A p \in Procs : proc'[p].pc = "idle"
        /\ dcCache' = dc /\ UNCHANGED dc /\ dcQueued' /\ dcHeld' = {"cache"}
        /\ \A s \in Servers : client'[s].st = "none" /\ client'[s].on = {}
    BY <1>4, IdleType DEF Crash, NoClient
  <2>2. SeenInv'
    BY <2>1 DEF VersionInv, SeenInv, Behind, InUse, Unsynced
  <2>3. HeldInv'
    BY <2>1, LifecycleAssumption DEF HeldInv
  <2>4. DelInv'
    BY <2>1, NamesDiffer DEF VersionInv, DelInv, Active
  <2>5. ClientInv'
    BY <2>1, NamesDiffer DEF ClientInv, Procs
  <2> QED BY <2>2, <2>3, <2>4, <2>5 DEF VersionInv
<1> QED BY <1>1, <1>2, <1>3, <1>4 DEF User

LEMMA VersionStep ==
    ASSUME TypeOK, LifeInv, VersionInv, [Next]_vars
    PROVE  VersionInv'
<1>1. ASSUME NEW g \in Groups, Reconciler(g)
      PROVE  VersionInv'
  BY <1>1, RStartVersions, RStatusVersions, CallVersions DEF Reconciler, Procs
<1> QED BY <1>1, DcPassVersions, FuzzyVersions, EnvironmentVersions DEF Next

-----------------------------------------------------------------------------
(* Where the listeners are. *)

Cleaning == proc["D"].pc \in {"clean", "delete"}

Syncing == proc["D"].pc \in {"next", "get", "listen", "status"}

\* D works, or is going to, on the spec as it is; it cleans up at the server of
\* the spec only if the DC is deleted.  If D has nothing to do the status has
\* the server of the spec.
RequestInv ==
    /\ dcQueued \/ Active => dcCache.spec = dc.spec
    /\ Active => proc["D"].dc.spec = dc.spec
    /\ Cleaning => (proc["D"].dc.deleting <=> proc["D"].dc.server = dc.spec.server)
    /\ dc.deleting => dc.server = dc.spec.server
    /\ dcCache.deleting => dcCache.server = dcCache.spec.server
    /\ dc.exists /\ ~dc.deleting =>
          dcQueued \/ Active \/ Behind \/ dc.server = dc.spec.server

\* A cached client has listeners only at the server of the spec and at the one of
\* the status, which D leaves before it writes the new one; at none when the
\* finalizer goes.
StrayInv ==
    /\ \A s \in Servers : client[s].on # {} => dc.exists /\ s \in {dc.spec.server, dc.server}
    /\ "D" \in dcHeld /\ Syncing => \A s \in Servers : client[s].on # {} => s = dc.spec.server
    /\ proc["D"].pc = "unfin" => \A s \in Servers : client[s].on = {}

Here(g) == g \in Live(dc.spec.server)

\* The reconciler of the group g is about to listen to it again.
Underway(g) == (g \in objQueued /\ g \in dcCache.listen) \/ proc[g].pc = "listen"

\* A group of the status without a listener gets one, or D drops it from the
\* status because it has left the scope.
AliveInv ==
    dc.exists /\ ~dc.deleting /\ dc.server \in {NoServer, dc.spec.server} =>
        \A g \in dc.listen :
            \/ Here(g) \/ Underway(g)
            \/ g \notin InScope(dc.spec) /\ dc.server # NoServer /\ (dcQueued \/ Active)

\* The same for the groups a handler is going to write into the status.
CopyInv ==
    /\ "D" \in dcHeld /\ Syncing =>
          \A g \in proc["D"].dc.listen : Here(g) \/ (g \in dc.listen /\ Underway(g))
    /\ \A g \in Groups \cap dcHeld :
          \A h \in proc[g].dc.listen : h \in dc.listen \/ (~dc.deleting /\ h = g /\ Here(h))

ListenInv == RequestInv /\ StrayInv /\ AliveInv /\ CopyInv

LEMMA InitListen == Init => ListenInv
<1> SUFFICES ASSUME Init PROVE ListenInv
  OBVIOUS
<1>1. PICK spec \in Specs : dc = NewDc(spec, 0)
  BY DEF Init
<1>2. ~dc.deleting /\ dc.listen = {} /\ dcCache = dc /\ dcQueued
  BY <1>1, FreshDc DEF Init
<1>3. proc["D"].pc = "idle"
  BY IdleType, NamesDiffer DEF Init
<1>4. \A s \in Servers : client[s].on = {}
  BY DEF Init, NoClient
<1>5. RequestInv
  BY <1>2, <1>3 DEF RequestInv, Active, Cleaning
<1>6. StrayInv
  BY <1>3, <1>4 DEF StrayInv, Syncing
<1>7. AliveInv
  BY <1>2 DEF AliveInv
<1>8. CopyInv
  BY LifecycleAssumption DEF Init, CopyInv
<1> QED BY <1>5, <1>6, <1>7, <1>8 DEF ListenInv

\* The steps before, during and after a call to Nacos, if they excuse nothing.
LEMMA CallKeepsListeners ==
    ASSUME TypeOK, LifeInv, VersionInv, ListenInv, NEW p \in Procs, NEW rec, Become(p, rec),
           UNCHANGED <<dcVars, queues>>, NEW s, NEW G, Grows(s, G),
           G # {} => dc.exists /\ ~dc.deleting /\ s = dc.spec.server,
           p # "F" => GoesOn(p, rec),
           p = "D" => \/ rec.pc = proc[p].pc /\ rec.pc \notin {"clean", "delete", "unfin"}
                      \/ {proc[p].pc, rec.pc} \subseteq {"next", "get", "listen"},
           p # "F" => \A h \in rec.dc.listen :
                         \/ h \in proc[p].dc.listen
                         \/ ~dc.deleting /\ h \in Live(dc.spec.server)' /\ (p \in Groups => h = p),
           p \in Groups /\ proc[p].pc = "listen" /\ rec.pc # "listen" => p \in Live(dc.spec.server)'
    PROVE  ListenInv'
<1>1. proc'[p] = rec /\ \A q \in Procs \ {p} : proc'[q] = proc[q]
  BY BecomeOthers
<1>2. UNCHANGED <<dc, dcCache, dcHeld, dcQueued, objQueued>>
  BY DEF dcVars, queues
<1>3. dc.spec.server \in Servers
  BY DcFields, SpecTypes
<1>4. /\ proc'["D"].pc = "idle" <=> proc["D"].pc = "idle"
      /\ proc'["D"].dc.spec = proc["D"].dc.spec
      /\ Cleaning' => proc'["D"] = proc["D"]
      /\ Syncing' <=> Syncing
      /\ proc'["D"].pc = "unfin" <=> proc["D"].pc = "unfin"
  BY <1>1, NamesDiffer DEF GoesOn, Cleaning, Syncing
<1>5. RequestInv'
  BY <1>2, <1>4 DEF ListenInv, RequestInv, Active, Behind, Cleaning
<1>6. StrayInv'
  <2>1. \A t \in Servers : client'[t].on # {} => client[t].on # {} \/ (G # {} /\ t = s)
    BY DEF Grows
  <2>2. proc["D"].pc = "unfin" => dc.deleting
    BY DEF VersionInv, DelInv, LifeInv, PassInv, Active
  <2>3. \A t \in Servers : client'[t].on # {} => client[t].on # {} \/ (t = dc.spec.server /\ dc.exists)
    BY <2>1
  <2>4. dc.deleting => \A t \in Servers : client'[t].on # {} => client[t].on # {}
    BY <2>1
  <2> QED BY <1>2, <1>4, <2>2, <2>3, <2>4 DEF ListenInv, StrayInv
<1>7. \A h \in Groups : (Here(h) => Here(h)') /\ (Underway(h) => Underway(h)' \/ Here(h)')
  BY <1>1, <1>2, <1>3 DEF Here, Underway, Grows, Procs
<1>8. AliveInv'
  <2>1. dc.listen \subseteq Groups
    BY DEF TypeOK, Dcs
  <2>2. Active' <=> Active
    BY <1>4 DEF Active
  <2> QED BY <1>2, <1>7, <2>1, <2>2 DEF ListenInv, AliveInv
<1>9. CopyInv'
  <2>1. \A h \in dc.listen : h \in Groups
    BY DEF TypeOK, Dcs
  <2>2. \A h \in proc["D"].dc.listen : h \in Groups
    BY NamesDiffer DEF TypeOK, ProcStates, Dcs
  <2>3. \A h \in proc'["D"].dc.listen : h \in proc["D"].dc.listen \/ Here(h)'
    BY <1>1, <1>2, NamesDiffer DEF Here
  <2>4. ("D" \in dcHeld /\ Syncing =>
          \A g \in proc["D"].dc.listen : Here(g) \/ (g \in dc.listen /\ Underway(g)))'
    BY <1>2, <1>4, <1>7, <2>2, <2>3 DEF ListenInv, CopyInv
  <2>5. ASSUME NEW g \in Groups, g \in dcHeld, NEW h \in proc'[g].dc.listen
        PROVE  h \in dc.listen \/ (~dc.deleting /\ h = g /\ Here(h)')
    <3>1. g \in Procs /\ g # "F"
      BY NamesDiffer DEF Procs
    <3>2. h \in proc[g].dc.listen \/ (~dc.deleting /\ h = g /\ Here(h)')
      BY <1>1, <1>2, <2>5, <3>1 DEF Here
    <3> QED BY <1>7, <2>5, <3>2 DEF ListenInv, CopyInv
  <2> QED BY <1>2, <2>4, <2>5 DEF CopyInv
<1> QED BY <1>5, <1>6, <1>8, <1>9 DEF ListenInv

LEMMA CallListeners ==
    ASSUME TypeOK, LifeInv, VersionInv, ListenInv, NEW p \in Procs, p # "F",
           Miss(p) \/ Get(p) \/ Listen(p), ~excused'
    PROVE  ListenInv'
<1> DEFINE me == proc[p]
<1>1. me \in ProcStates /\ me.dc \in Dcs /\ me.item \in SUBSET Groups
  BY DEF TypeOK, ProcStates
<1>2. UNCHANGED <<dcVars, queues>> /\ me.pc \in {"get", "listen", "search"}
  BY DEF Miss, Get, Listen
<1>3. ASSUME NEW r \in ProcStates
      PROVE  /\ Done(p, r).pc = IF p = "D" THEN "next" ELSE "status"
             /\ Done(p, r).dc = r.dc
  BY <1>3 DEF Done, ProcStates
<1>4. UNCHANGED dc
  BY <1>2 DEF dcVars
<1>5. CASE Miss(p)
  <2> DEFINE rec == [me EXCEPT !.miss = TRUE]
  <2>1. rec.pc = me.pc /\ rec.dc = me.dc
    BY <1>1 DEF ProcStates
  <2>2. Become(p, rec) /\ UNCHANGED sdk
    BY <1>5 DEF Miss
  <2>3. Grows(NoServer, {})
    BY <2>2, NoGrowth DEF VersionInv
  <2> HIDE DEF rec
  <2>4. GoesOn(p, rec)
    BY <1>2, <2>1 DEF GoesOn
  <2> QED BY <1>2, <2>1, <2>2, <2>3, <2>4, CallKeepsListeners
<1>6. CASE Get(p)
  <2> DEFINE ok  == [me EXCEPT !.pc = "listen", !.miss = FALSE]
             bad == [me EXCEPT !.err = TRUE]
  <2>1. ok.pc = "listen" /\ ok.dc = me.dc /\ bad \in ProcStates /\ bad.dc = me.dc
    BY <1>1 DEF ProcStates
  <2>2. /\ Become(p, ok) \/ Become(p, Done(p, bad))
        /\ (Build(p, {}) \/ BuildFails(p)) /\ me.pc = "get"
    BY <1>6 DEF Get
  <2>3. Grows(Target(p), {})
    BY <2>2, BuildGrows DEF VersionInv
  <2> HIDE DEF ok, bad
  <2>4. ASSUME NEW rec, Become(p, rec), rec.dc = me.dc,
               rec.pc \in {"listen", IF p = "D" THEN "next" ELSE "status"}
        PROVE  ListenInv'
    <3>1. GoesOn(p, rec)
      BY <2>2, <2>4 DEF GoesOn
    <3>2. p = "D" => {me.pc, rec.pc} \subseteq {"next", "get", "listen"}
      BY <2>2, <2>4
    <3> QED BY <1>2, <2>2, <2>3, <2>4, <3>1, <3>2, CallKeepsListeners
  <2>5. Done(p, bad).dc = me.dc /\ Done(p, bad).pc = IF p = "D" THEN "next" ELSE "status"
    BY <1>3, <2>1
  <2> QED BY <2>1, <2>2, <2>4, <2>5
<1>7. CASE Listen(p)
  <2> DEFINE ok == [me EXCEPT !.dc.listen = @ \cup me.item]
             s  == dc.spec.server
  <2>1. /\ ok \in ProcStates /\ ok.dc.spec = me.dc.spec /\ ok.dc.deleting = me.dc.deleting
        /\ ok.dc.scope = me.dc.scope /\ ok.dc.server = me.dc.server
        /\ ok.dc.listen = me.dc.listen \cup me.item
    BY <1>1 DEF ProcStates, Dcs
  <2>2. /\ Build(p, me.item) /\ Become(p, Done(p, ok)) /\ me.pc = "listen"
        /\ dc.exists /\ ~dc.deleting /\ Target(p) = s
    BY <1>7 DEF Listen
  <2> HIDE DEF ok
  <2>3. s \in Servers
    BY DcFields, SpecTypes
  <2>4. client[s].st # "closed"
    BY <2>2, <2>3 DEF VersionInv, ClientInv, DelInv, Active, ListenInv, RequestInv, Cleaning
  <2>5. Grows(s, me.item) /\ me.item \subseteq Live(s)'
    <3>1. ASSUME NEW t, t = s
          PROVE  Grows(t, me.item) /\ me.item \subseteq Live(t)'
      BY <1>1, <2>2, <2>4, <3>1, BuildGrows DEF VersionInv
    <3>2. \E t : t = s
      OBVIOUS
    <3> QED BY <1>4, <3>1, <3>2
  <2>6. p \in Groups => me.item = {p}
    BY <2>2 DEF VersionInv, ClientInv
  <2> DEFINE rec == Done(p, ok)
  <2>7. rec.dc = ok.dc /\ rec.pc = IF p = "D" THEN "next" ELSE "status"
    BY <1>3, <2>1
  <2> HIDE DEF rec
  <2>8. GoesOn(p, rec)
    BY <2>1, <2>2, <2>7 DEF GoesOn
  <2>9. p = "D" => {me.pc, rec.pc} \subseteq {"next", "get", "listen"}
    BY <2>2, <2>7
  <2>10. \A h \in rec.dc.listen :
            h \in me.dc.listen \/ (~dc.deleting /\ h \in Live(s)' /\ (p \in Groups => h = p))
    BY <2>1, <2>2, <2>5, <2>6, <2>7
  <2>11. p \in Groups => p \in Live(s)'
    BY <2>5, <2>6
  <2>12. Become(p, rec)
    BY <2>2 DEF rec
  <2> QED BY <1>2, <2>2, <2>5, <2>8, <2>9, <2>10, <2>11, <2>12, CallKeepsListeners
<1> QED BY <1>5, <1>6, <1>7

LEMMA FuzzyListeners ==
    ASSUME TypeOK, LifeInv, VersionInv, ListenInv, FuzzyListen
    PROVE  ListenInv'
<1>1. UNCHANGED <<dcVars, queues>> /\ \E rec : Become("F", rec)
  BY DEF FuzzyListen, FPoll, Miss, FSearch
<1>2. UNCHANGED sdk \/ Build("F", {}) \/ BuildFails("F")
  BY DEF FuzzyListen, FPoll, Miss, FSearch
<1>3. \E s : Grows(s, {})
  BY <1>2, BuildGrows, NoGrowth, NamesDiffer DEF VersionInv
<1> QED BY <1>1, <1>3, CallKeepsListeners, NamesDiffer

\* A step that adds requests to the queues of the groups, or takes the current
\* version from all who hold it.
LEMMA SameListeners ==
    ASSUME TypeOK, ListenInv, UNCHANGED <<dc, dcCache, dcQueued, sdk, proc>>,
           objQueued \subseteq objQueued', dcHeld' \in {dcHeld, {}}
    PROVE  ListenInv'
<1>1. RequestInv' /\ StrayInv'
  BY DEF ListenInv, RequestInv, StrayInv, Active, Behind, Cleaning, Syncing, sdk
<1>2. \A h : (Here(h) => Here(h)') /\ (Underway(h) => Underway(h)')
  BY DEF Here, Underway, Live, sdk
<1>3. AliveInv' /\ CopyInv'
  BY <1>2 DEF ListenInv, AliveInv, CopyInv, Active, Syncing
<1> QED BY <1>1, <1>3 DEF ListenInv

LEMMA RStartListeners ==
    ASSUME TypeOK, LifeInv, VersionInv, ListenInv, NEW g \in Groups, RStart(g)
    PROVE  ListenInv'
<1> DEFINE rec == [Idle EXCEPT !.pc = FirstStep(g, dcCache), !.dc = Copy(dcCache), !.item = {g}]
<1>1. g \in Procs /\ g # "D" /\ g # "F" /\ g # "cache" /\ dcCache \in Dcs
  BY NamesDiffer DEF Procs, TypeOK
<1>2. rec.pc = FirstStep(g, dcCache) /\ rec.dc.listen = dcCache.listen
  <2>1. Copy(dcCache) \in Dcs /\ FirstStep(g, dcCache) \in {"get", "listen"}
    BY <1>1, CopyFields DEF FirstStep
  <2>2. rec.pc = FirstStep(g, dcCache) /\ rec.dc = Copy(dcCache)
    BY <2>1, IdleType DEF ProcStates
  <2> QED BY <1>1, <2>2, CopyFields
<1> HIDE DEF rec
<1>3. /\ UNCHANGED <<dc, dcCache, dcQueued, sdk>> /\ objQueued' = objQueued \ {g}
      /\ proc[g].pc = "idle"
      /\ \/ ~dcCache.exists /\ UNCHANGED <<proc, dcHeld>>
         \/ dcCache.exists /\ dcHeld' = CacheRead(dcHeld, g) /\ Become(g, rec)
  BY DEF RStart, rec
<1>4. /\ proc'["D"] = proc["D"] /\ \A h \in Groups \ {g} : proc'[h] = proc[h]
      /\ dcCache.exists => proc'[g] = rec
  BY <1>1, <1>3, BecomeOthers, NamesDiffer DEF Procs
<1>5. \A q \in dcHeld' : q \in dcHeld \/ (q = g /\ dcCache.exists /\ dcCache = dc)
  BY <1>3 DEF CacheRead, LifeInv, CacheInv
<1>6. RequestInv' /\ StrayInv'
  <2>1. "D" \in dcHeld' => "D" \in dcHeld
    BY <1>1, <1>5
  <2> QED BY <1>3, <1>4, <2>1 DEF ListenInv, RequestInv, StrayInv, Active, Behind, Cleaning, Syncing, sdk
<1>7. \A h : Here(h)' <=> Here(h)
  BY <1>3 DEF Here, Live, sdk
<1>8. ASSUME NEW h \in Groups, Underway(h), dcCache.exists
      PROVE  Underway(h)'
  <2>1. CASE h # g
    BY <1>3, <1>4, <1>8, <2>1 DEF Underway
  <2>2. CASE h = g
    <3>1. g \in dcCache.listen
      BY <1>3, <1>8, <2>2 DEF Underway
    <3>2. proc'[g].pc = "listen"
      BY <1>2, <1>4, <1>8, <3>1 DEF FirstStep
    <3> QED BY <2>2, <3>2 DEF Underway
  <2> QED BY <2>1, <2>2
<1>9. AliveInv'
  <2>1. dc.exists /\ ~dcCache.exists => dc.listen = {}
    BY DEF VersionInv, SeenInv
  <2>2. dc.listen \subseteq Groups
    BY DEF TypeOK, Dcs
  <2>3. Active' <=> Active
    BY <1>4 DEF Active
  <2> QED BY <1>3, <1>7, <1>8, <2>1, <2>2, <2>3 DEF ListenInv, AliveInv
<1>10. CopyInv'
  <2>1. "D" \in dcHeld /\ Syncing => dcCache.exists
    BY DEF LifeInv, PassInv, Syncing
  <2>2. dc.listen \subseteq Groups
    BY DEF TypeOK, Dcs
  <2>3. (Syncing' <=> Syncing) /\ ("D" \in dcHeld' => "D" \in dcHeld)
    BY <1>1, <1>4, <1>5 DEF Syncing
  <2>4. ("D" \in dcHeld /\ Syncing =>
          \A h \in proc["D"].dc.listen : Here(h) \/ (h \in dc.listen /\ Underway(h)))'
    BY <1>3, <1>4, <1>7, <1>8, <2>1, <2>2, <2>3 DEF ListenInv, CopyInv
  <2>5. ASSUME NEW k \in Groups, k \in dcHeld', NEW h \in proc'[k].dc.listen
        PROVE  h \in dc.listen \/ (~dc.deleting /\ h = k /\ Here(h))
    <3>1. CASE k # g
      BY <1>4, <1>5, <2>5, <3>1 DEF ListenInv, CopyInv
    <3>2. CASE k = g
      <4>1. dcCache.exists /\ dcCache = dc
        <5>1. g \notin dcHeld
          BY <1>1, <1>3 DEF VersionInv, HeldInv
        <5> QED BY <1>5, <2>5, <3>2, <5>1
      <4> QED BY <1>2, <1>4, <2>5, <3>2, <4>1
    <3> QED BY <3>1, <3>2
  <2> QED BY <1>3, <1>7, <2>4, <2>5 DEF CopyInv
<1> QED BY <1>6, <1>9, <1>10 DEF ListenInv

\* A group's reconciler adds its group to the status, or has a conflict.
LEMMA RStatusListeners ==
    ASSUME TypeOK, VersionInv, ListenInv, NEW g \in Groups, RStatus(g)
    PROVE  ListenInv'
<1> DEFINE d == proc[g].dc
<1>1. g \in Procs /\ g # "D" /\ g # "cache" /\ d \in Dcs /\ proc[g].pc = "status"
  BY NamesDiffer DEF Procs, TypeOK, ProcStates, RStatus
<1>2. Ends(g, d) /\ UNCHANGED <<dcCache, dcQueued, objQueued, sdk>>
  BY <1>1, StatusWritten DEF RStatus, Ends, queues, sdk
<1>3. proc'["D"] = proc["D"] /\ \A h \in Groups : h = g \/ proc'[h] = proc[h]
  BY <1>1, <1>2, BecomeOthers, NamesDiffer DEF Ends, Procs
<1>4. /\ dc'.exists = dc.exists /\ dc'.deleting = dc.deleting /\ dc'.gen = dc.gen
      /\ dc'.spec = dc.spec /\ dc'.server = dc.server
  BY <1>2 DEF Ends, Statused, VersionInv, HeldInv, SameStatus
<1>5. \A h \in dc'.listen : h \in dc.listen \/ (~dc.deleting /\ Here(h))
  BY <1>2 DEF Ends, Statused, ListenInv, CopyInv
<1>6. dcHeld' = {} \/ (dc' = dc /\ dcHeld' \subseteq dcHeld \ {g})
  BY <1>2 DEF Ends
<1>7. RequestInv'
  BY <1>2, <1>3, <1>4 DEF ListenInv, RequestInv, Active, Behind, Cleaning
<1>8. StrayInv'
  BY <1>2, <1>3, <1>4, <1>6 DEF ListenInv, StrayInv, Syncing, sdk
<1>9. \A h \in Groups : (Here(h)' <=> Here(h)) /\ (Underway(h) => Underway(h)')
  BY <1>1, <1>2, <1>3, <1>4 DEF Here, Underway, Live, sdk
<1>10. AliveInv'
  <2>1. dc.listen \subseteq Groups /\ dc'.listen \subseteq Groups
    <3>1. dc' \in Dcs
      BY <1>1, WriteStatusType DEF RStatus, TypeOK
    <3> QED BY <3>1 DEF TypeOK, Dcs
  <2>2. Active' <=> Active
    BY <1>3 DEF Active
  <2> QED BY <1>2, <1>4, <1>5, <1>9, <2>1, <2>2 DEF ListenInv, AliveInv
<1>11. CopyInv'
  <2>1. CASE dcHeld' = {}
    BY <2>1 DEF CopyInv
  <2>2. CASE dc' = dc /\ dcHeld' \subseteq dcHeld \ {g}
    <3>1. dc.listen \subseteq Groups /\ proc["D"].dc.listen \subseteq Groups
      BY NamesDiffer DEF TypeOK, ProcStates, Dcs
    <3>2. Syncing' <=> Syncing
      BY <1>3 DEF Syncing
    <3>3. ("D" \in dcHeld /\ Syncing =>
            \A h \in proc["D"].dc.listen : Here(h) \/ (h \in dc.listen /\ Underway(h)))'
      BY <1>3, <1>9, <2>2, <3>1, <3>2 DEF ListenInv, CopyInv
    <3>4. ASSUME NEW k \in Groups, k \in dcHeld', NEW h \in proc'[k].dc.listen
          PROVE  h \in dc.listen \/ (~dc.deleting /\ h = k /\ Here(h)')
      <4>1. proc'[k] = proc[k] /\ k \in dcHeld
        BY <1>3, <2>2, <3>4
      <4> QED BY <1>9, <3>4, <4>1 DEF ListenInv, CopyInv
    <3> QED BY <2>2, <3>3, <3>4 DEF CopyInv
  <2> QED BY <1>6, <2>1, <2>2
<1> QED BY <1>7, <1>8, <1>10, <1>11 DEF ListenInv

\* D ends a pass.  A sync writes the server of the spec and the groups D has
\* found or made a listener for; all other ends put the request back.
LEMMA DEndListeners ==
    ASSUME TypeOK, LifeInv, VersionInv, ListenInv, NEW d \in Dcs, Ends("D", d), Active,
           UNCHANGED <<orphans, objQueued>>,
           "D" \notin dcHeld => dcQueued',
           "D" \in dcHeld =>
              \/ d.server = dc.server /\ d.listen = dc.listen /\ dcQueued'
              \/ /\ Syncing /\ ~dc.deleting
                 /\ d.server = dc.spec.server /\ d.listen = proc["D"].dc.listen
    PROVE  ListenInv'
<1>1. proc'["D"].pc = "idle" /\ \A g \in Groups : proc'[g] = proc[g]
  BY BecomeOthers, IdleType, NamesDiffer DEF Ends, Procs
<1>2. ~Active' /\ ~Cleaning' /\ ~Syncing' /\ proc'["D"].pc # "unfin"
  BY <1>1 DEF Active, Cleaning, Syncing
<1>3. /\ dc'.exists = dc.exists /\ dc'.deleting = dc.deleting /\ dc'.gen = dc.gen
      /\ dc'.spec = dc.spec /\ dcCache' = dcCache /\ client' = client
  BY DEF Ends, Statused
<1>4. dcHeld' = {} \/ (dc' = dc /\ dcHeld' \subseteq dcHeld)
  BY DEF Ends
<1>5. \A h \in Groups : (Here(h)' <=> Here(h)) /\ (Underway(h)' <=> Underway(h))
  BY <1>1, <1>3 DEF Here, Underway, Live
<1>6. dcCache.spec = dc.spec
  BY DEF ListenInv, RequestInv
<1>7. (dcCache.deleting => dcCache.server = dcCache.spec.server)'
  BY <1>3 DEF ListenInv, RequestInv
<1>8. CopyInv'
  <2>1. CASE dcHeld' = {}
    BY <2>1 DEF CopyInv
  <2>2. CASE dc' = dc /\ dcHeld' \subseteq dcHeld
    <3>1. ASSUME NEW k \in Groups, k \in dcHeld', NEW h \in proc'[k].dc.listen
          PROVE  h \in dc.listen \/ (~dc.deleting /\ h = k /\ Here(h)')
      BY <1>1, <1>5, <2>2, <3>1 DEF ListenInv, CopyInv
    <3> QED BY <1>2, <2>2, <3>1 DEF CopyInv
  <2> QED BY <1>4, <2>1, <2>2
<1>9. CASE dcQueued' /\ dc'.server = dc.server /\ dc'.listen = dc.listen
  <2>1. RequestInv'
    BY <1>2, <1>3, <1>6, <1>7, <1>9 DEF ListenInv, RequestInv
  <2>2. StrayInv'
    BY <1>2, <1>3, <1>9 DEF ListenInv, StrayInv
  <2>3. dc.listen \subseteq Groups
    BY DEF TypeOK, Dcs
  <2>4. AliveInv'
    BY <1>3, <1>5, <1>9, <2>3 DEF ListenInv, AliveInv
  <2> QED BY <1>8, <2>1, <2>2, <2>4 DEF ListenInv
<1>10. CASE /\ "D" \in dcHeld /\ Syncing /\ ~dc.deleting
            /\ dc'.server = dc.spec.server /\ dc'.listen = proc["D"].dc.listen
  <2>1. RequestInv'
    BY <1>2, <1>3, <1>6, <1>7, <1>10 DEF RequestInv
  <2>2. StrayInv'
    BY <1>2, <1>3, <1>10 DEF ListenInv, StrayInv
  <2>3. proc["D"].dc.listen \subseteq Groups
    BY NamesDiffer DEF TypeOK, ProcStates, Dcs
  <2>4. AliveInv'
    BY <1>3, <1>5, <1>10, <2>3 DEF ListenInv, CopyInv, AliveInv
  <2> QED BY <1>8, <2>1, <2>2, <2>4 DEF ListenInv
<1> QED BY <1>9, <1>10 DEF Ends, Statused

\* D goes on to clean up, or is done with it.
LEMMA CleanListeners ==
    ASSUME TypeOK, LifeInv, VersionInv, ListenInv, Cleaning, UNCHANGED <<dcVars, queues>>,
           NEW rec, Become("D", rec), GoesOn("D", rec),
           \A t \in Servers : /\ client'[t].on \subseteq client[t].on
                              /\ t # proc["D"].dc.server => Live(t) \subseteq Live(t)',
           \/ rec.pc \in {"clean", "delete"}
           \/ /\ rec.pc = IF proc["D"].dc.deleting THEN "unfin" ELSE "next"
              /\ ~proc["D"].dc.deleting => rec.dc.listen = {}
              /\ \A t \in Servers : t = proc["D"].dc.server => client'[t].on = {}
    PROVE  ListenInv'
<1> DEFINE me == proc["D"]
<1>1. proc'["D"] = rec /\ \A g \in Groups : proc'[g] = proc[g]
  BY BecomeOthers, NamesDiffer DEF Procs
<1>2. UNCHANGED <<dc, dcCache, dcHeld, dcQueued, objQueued>> /\ dc.spec.server \in Servers
  BY DcFields, SpecTypes DEF dcVars, queues
<1>3. Active /\ Active' /\ (me.dc.deleting => dc.deleting)
  BY <1>1 DEF Active, Cleaning, GoesOn, VersionInv, DelInv
<1>4. me.dc.deleting <=> me.dc.server = dc.spec.server
  BY DEF ListenInv, RequestInv
<1>5. RequestInv'
  BY <1>1, <1>2, <1>3, <1>4 DEF ListenInv, RequestInv, Cleaning, Behind, GoesOn
<1>6. StrayInv'
  <2>1. \A t \in Servers : client'[t].on # {} => client[t].on # {}
    OBVIOUS
  <2>2. "D" \in dcHeld /\ Syncing' =>
           \A t \in Servers : client'[t].on # {} => t = dc.spec.server
    <3>1. "D" \in dcHeld => me.dc.server = dc.server
      BY DEF VersionInv, HeldInv, Cleaning, SameStatus
    <3> QED BY <1>1, <2>1, <3>1 DEF ListenInv, StrayInv, Syncing
  <2>3. rec.pc = "unfin" => \A t \in Servers : client'[t].on = {}
    <3>1. me.dc.deleting => dc.server = dc.spec.server /\ me.dc.server = dc.spec.server
      BY <1>3, <1>4 DEF ListenInv, RequestInv
    <3> QED BY <2>1, <3>1 DEF ListenInv, StrayInv
  <2> QED BY <1>1, <1>2, <2>1, <2>2, <2>3 DEF ListenInv, StrayInv
<1>7. ~dc.deleting => \A h \in Groups : (Here(h) => Here(h)') /\ (Underway(h)' <=> Underway(h))
  BY <1>1, <1>2, <1>3, <1>4 DEF Here, Underway
<1>8. AliveInv'
  <2>1. dc.listen \subseteq Groups
    BY DEF TypeOK, Dcs
  <2> QED BY <1>2, <1>3, <1>7, <2>1 DEF ListenInv, AliveInv
<1>9. CopyInv'
  <2>1. ASSUME NEW k \in Groups, k \in dcHeld', NEW h \in proc'[k].dc.listen
        PROVE  h \in dc.listen \/ (~dc.deleting /\ h = k /\ Here(h)')
    BY <1>1, <1>2, <1>7, <2>1 DEF ListenInv, CopyInv
  <2>2. Syncing' => rec.dc.listen = {}
    BY <1>1 DEF Syncing
  <2> QED BY <1>1, <1>2, <2>1, <2>2 DEF CopyInv
<1> QED BY <1>5, <1>6, <1>8, <1>9 DEF ListenInv

LEMMA DStartListeners ==
    ASSUME TypeOK, LifeInv, VersionInv, ListenInv, DStart
    PROVE  ListenInv'
<1>1. /\ proc["D"].pc = "idle" /\ dcQueued /\ ~dcQueued'
      /\ UNCHANGED <<dcCache, objQueued, orphans>>
  BY DEF DStart
<1>2. dcCache.spec = dc.spec /\ (dcCache.deleting => dc.deleting) /\ dc.spec.server \in Servers
  BY <1>1, DcFields, SpecTypes DEF ListenInv, RequestInv, VersionInv, DelInv
<1>3. CASE ~dcCache.exists /\ UNCHANGED <<dc, dcHeld, client, proc>>
  <2>1. dc.exists => Behind /\ dc.listen = {}
    BY <1>3 DEF Behind, VersionInv, SeenInv
  <2>2. RequestInv'
    BY <1>1, <1>3, <2>1 DEF ListenInv, RequestInv, Active, Behind, Cleaning
  <2>3. StrayInv'
    BY <1>3 DEF ListenInv, StrayInv, Syncing
  <2>4. AliveInv'
    BY <1>3, <2>1 DEF AliveInv
  <2>5. CopyInv'
    <3>1. ~Syncing'
      BY <1>1, <1>3 DEF Syncing
    <3> QED BY <1>3, <3>1 DEF ListenInv, CopyInv, Here, Live, DStart
  <2> QED BY <2>2, <2>3, <2>4, <2>5 DEF ListenInv
<1>4. ASSUME NEW rec, Begins(rec), BeginsToClean(rec) \/ BeginsToSync(rec)
      PROVE  ListenInv'
  <2>1. proc'["D"] = rec /\ \A g \in Groups : proc'[g] = proc[g]
    BY <1>4, BecomeOthers, NamesDiffer DEF Begins, Procs
  <2>2. /\ dc'.exists = dc.exists /\ dc'.deleting = dc.deleting /\ dc'.spec = dc.spec
        /\ dc'.server = dc.server /\ dc'.listen = dc.listen
    <3>1. dc \in Dcs
      BY DEF TypeOK
    <3> QED BY <1>4, <3>1 DEF Begins, Reads, Dcs
  <2>3. Active' /\ rec.dc.spec = dc.spec /\ rec.dc.deleting = dcCache.deleting
    BY <1>2, <1>4, <2>1 DEF Active, Begins, BeginsToClean, BeginsToSync
  <2>4. "D" \in dcHeld' => /\ dcCache.server = dc.server /\ dcCache.listen = dc.listen
                           /\ Unsynced(dcCache) <=> dc.server = NoServer
    <3>1. "D" \in dcHeld' => dcCache = dc
      BY <1>4 DEF Begins, Reads
    <3> QED BY <3>1 DEF VersionInv, SeenInv
  <2>5. RequestInv'
    <3>1. (Cleaning => (proc["D"].dc.deleting <=> proc["D"].dc.server = dc.spec.server))'
      <4>1. CASE BeginsToClean(rec)
        BY <1>2, <2>1, <2>2, <2>3, <4>1 DEF ListenInv, RequestInv, Cleaning, BeginsToClean
      <4>2. CASE BeginsToSync(rec)
        BY <2>1, <4>2 DEF Cleaning, BeginsToSync
      <4> QED BY <1>4, <4>1, <4>2
    <3> QED BY <1>1, <1>2, <2>1, <2>2, <2>3, <3>1 DEF ListenInv, RequestInv
  <2>6. \A t \in Servers : client'[t].on \subseteq client[t].on
    BY <1>4 DEF BeginsToClean, BeginsToSync, TypeOK, Clients
  <2>7. StrayInv'
    <3>1. "D" \in dcHeld' /\ Syncing' => dc.server \in {NoServer, dc.spec.server}
      BY <1>2, <1>4, <2>1, <2>4 DEF Syncing, BeginsToClean, BeginsToSync
    <3>2. \A t \in Servers : client'[t].on # {} =>
             dc.exists /\ t \in {dc.spec.server, dc.server} /\ t # NoServer
      BY <2>6, LifecycleAssumption DEF ListenInv, StrayInv
    <3>3. rec.pc # "unfin"
      BY <1>4 DEF BeginsToClean, BeginsToSync
    <3> QED BY <2>1, <2>2, <3>1, <3>2, <3>3 DEF StrayInv
  <2>8. \A h \in Groups : Underway(h)' <=> Underway(h)
    BY <1>1, <2>1 DEF Underway
  <2>9. ASSUME NEW h \in Groups, Here(h), ~Here(h)'
        PROVE  /\ h \in dcCache.listen /\ h \notin InScope(dc.spec) /\ ~Unsynced(dcCache)
               /\ ~dcCache.deleting
    <3>1. client' # client
      BY <1>1, <2>2, <2>9 DEF Here, Live
    <3>2. /\ ~Unsynced(dcCache) /\ ~dcCache.deleting
          /\ client' = [client EXCEPT ![dcCache.server].on =
                            @ \ (dcCache.listen \ InScope(dcCache.spec))]
      BY <1>4, <3>1 DEF BeginsToClean, BeginsToSync
    <3>3. \A t \in Servers : \A k : k \in client[t].on /\ k \notin client'[t].on =>
             k \in dcCache.listen \ InScope(dcCache.spec)
      BY <3>2 DEF TypeOK, Clients
    <3> QED BY <1>1, <1>2, <2>2, <2>9, <3>2, <3>3 DEF Here, Live
  <2>10. AliveInv'
    <3>1. dc.listen \subseteq Groups
      BY DEF TypeOK, Dcs
    <3>2. ~dcCache.deleting /\ ~Unsynced(dcCache) => dc.server # NoServer
      <4>1. CASE InUse(dcCache)
        BY <4>1 DEF VersionInv, SeenInv
      <4>2. CASE ~InUse(dcCache) /\ ~dcCache.deleting
        <5>1. dcCache = dc
          BY <1>4, <4>2 DEF Begins
        <5> QED BY <5>1 DEF VersionInv, SeenInv
      <4> QED BY <4>1, <4>2
    <3>3. \A h \in dc.listen :
             Here(h) => Here(h)' \/ (h \notin InScope(dc.spec) /\ dc.server # NoServer)
      BY <2>9, <3>1, <3>2
    <3> QED BY <1>1, <2>2, <2>3, <2>8, <3>1, <3>3 DEF ListenInv, AliveInv
  <2>11. CopyInv'
    <3>1. ASSUME "D" \in dcHeld', Syncing', NEW h \in rec.dc.listen
          PROVE  Here(h)' \/ (h \in dc.listen /\ Underway(h)')
      <4>1. BeginsToSync(rec) /\ ~dcCache.deleting /\ dc'.exists
        BY <1>4, <2>1, <3>1 DEF Syncing, BeginsToClean, BeginsToSync, Begins
      <4>2. /\ h \in dc.listen /\ h \in Groups /\ dc.exists
            /\ dc.server \in {NoServer, dc.spec.server}
        BY <1>2, <2>2, <2>4, <3>1, <4>1 DEF BeginsToSync, TypeOK, Dcs
      <4>3. ~dc.deleting
        BY <1>4, <3>1, <4>1 DEF Begins, Reads
      <4>4. h \notin InScope(dc.spec) => dc.server = NoServer
        BY <1>2, <2>4, <3>1, <4>1 DEF BeginsToSync
      <4>5. Here(h) \/ Underway(h)
        BY <4>2, <4>3, <4>4 DEF ListenInv, AliveInv
      <4>6. Here(h) => Here(h)'
        BY <2>4, <2>9, <3>1, <4>2, <4>4
      <4> QED BY <2>8, <4>2, <4>5, <4>6
    <3>2. ASSUME NEW k \in Groups, k \in dcHeld', NEW h \in proc'[k].dc.listen
          PROVE  h \in dc.listen \/ (~dc.deleting /\ h = k /\ Here(h)')
      <4>1. k # "D" /\ k # "cache"
        BY NamesDiffer DEF Procs
      <4>2. k \in dcHeld /\ proc'[k] = proc[k]
        BY <1>4, <2>1, <3>2, <4>1 DEF Begins, Reads
      <4>3. dcCache = dc
        BY <4>2 DEF VersionInv, HeldInv, LifeInv, CacheInv
      <4>4. h \in dc.listen \/ (~dc.deleting /\ h = k /\ Here(h))
        BY <3>2, <4>2 DEF ListenInv, CopyInv
      <4> QED BY <2>9, <4>3, <4>4
    <3> QED BY <2>1, <2>2, <3>1, <3>2 DEF CopyInv
  <2> QED BY <2>5, <2>7, <2>10, <2>11 DEF ListenInv
<1> QED BY <1>3, <1>4, DStartCases

LEMMA DcPassListeners ==
    ASSUME TypeOK, LifeInv, VersionInv, ListenInv, DcReconciler, ~excused'
    PROVE  ListenInv'
<1> DEFINE me == proc["D"]
           s  == me.dc.server
<1>1. me \in ProcStates /\ me.dc \in Dcs /\ "D" \in Procs /\ "D" # "F" /\ "D" \notin Groups
  BY NamesDiffer DEF TypeOK, ProcStates
<1>2. ASSUME NEW g \in Groups, DClean(g)
      PROVE  ListenInv'
  <2> DEFINE rec == [me EXCEPT !.todo = @ \ {g}]
  <2>1. rec.pc = me.pc /\ rec.dc = me.dc /\ me.pc = "clean" /\ UNCHANGED <<dcCache, objQueued, orphans>>
    BY <1>1, <1>2 DEF ProcStates, DClean
  <2> HIDE DEF rec
  <2>2. CASE /\ client' = [client EXCEPT ![s].on = @ \ {g}] /\ Become("D", rec)
             /\ UNCHANGED <<dc, dcHeld, dcQueued>>
    <3>1. \A t \in Servers : /\ client'[t].on \subseteq client[t].on
                             /\ t # s => client'[t] = client[t]
      BY <2>2 DEF TypeOK, Clients
    <3>2. \A t \in Servers : t # s => Live(t) \subseteq Live(t)'
      BY <2>1, <3>1 DEF Live
    <3>3. GoesOn("D", rec) /\ Cleaning /\ UNCHANGED <<dcVars, queues>>
      BY <2>1, <2>2 DEF GoesOn, Cleaning, dcVars, queues
    <3> QED BY <2>1, <2>2, <3>1, <3>2, <3>3, CleanListeners
  <2>3. CASE /\ WriteStatus("D", me.dc) \/ ("D" \notin dcHeld /\ UNCHANGED <<dc, dcHeld>>)
             /\ dcQueued' = TRUE /\ Become("D", Idle) /\ UNCHANGED client
    <3>1. Ends("D", me.dc)
      BY <1>1, <2>1, <2>3, StatusWritten DEF Ends
    <3>2. "D" \in dcHeld => me.dc.server = dc.server /\ me.dc.listen = dc.listen
      BY <2>1 DEF VersionInv, HeldInv, SameStatus
    <3>3. Active
      BY <2>1 DEF Active
    <3> QED BY <1>1, <2>1, <2>3, <3>1, <3>2, <3>3, DEndListeners
  <2> QED BY <1>2, <2>2, <2>3 DEF DClean, rec
<1>3. ASSUME Cleaning, Cleaned, UNCHANGED <<dcVars, queues>>,
             \A t \in Servers : /\ client'[t].on \subseteq client[t].on
                                /\ t # s => Live(t) \subseteq Live(t)'
                                /\ t = s => client'[t].on = {}
      PROVE  ListenInv'
  <2>1. me.pc # "idle"
    BY <1>3 DEF Cleaning
  <2>2. PICK rec : /\ Become("D", rec) /\ GoesOn("D", rec)
                   /\ rec.pc = IF me.dc.deleting THEN "unfin" ELSE "next"
                   /\ ~me.dc.deleting => rec.dc.listen = {}
    BY <1>3, <2>1, CleanedGoesOn
  <2> QED BY <1>3, <2>2, CleanListeners
<1>4. CASE DClose
  <2> DEFINE rec == [me EXCEPT !.pc = "delete"]
  <2>1. /\ rec.pc = "delete" /\ rec.dc = me.dc /\ me.pc = "clean"
        /\ UNCHANGED <<dcVars, queues, orphans>>
    BY <1>1, <1>4 DEF ProcStates, DClose
  <2> HIDE DEF rec
  <2>2. Cleaning
    BY <2>1 DEF Cleaning
  <2>3. CASE client' = [client EXCEPT ![s] = [st |-> "closed", on |-> {}]] /\ Become("D", rec)
    <3>1. \A t \in Servers : /\ client'[t].on \subseteq client[t].on
                             /\ t # s => client'[t] = client[t]
      BY <2>3 DEF TypeOK
    <3>2. \A t \in Servers : t # s => Live(t) \subseteq Live(t)'
      BY <2>1, <3>1 DEF Live
    <3>3. GoesOn("D", rec)
      BY <2>1 DEF GoesOn
    <3> QED BY <2>1, <2>2, <2>3, <3>1, <3>2, <3>3, CleanListeners
  <2>4. CASE Cleaned /\ UNCHANGED client /\ ~(s \in Servers /\ client[s].st # "none")
    <3>1. \A t \in Servers : t = s => client[t].on = {}
      BY <2>4 DEF VersionInv, ClientInv
    <3>2. \A t \in Servers : Live(t)' = Live(t)
      BY <2>1, <2>4 DEF Live
    <3> QED BY <1>3, <2>1, <2>2, <2>4, <3>1, <3>2
  <2> QED BY <1>4, <2>3, <2>4 DEF DClose, rec
<1>5. CASE DDelete
  <2>1. /\ me.pc = "delete" /\ UNCHANGED <<dcVars, queues>> /\ Cleaned
        /\ client' = [client EXCEPT ![s] = NoClient]
        /\ orphans' = [orphans EXCEPT ![s] = @ \cup client[s].on]
    BY <1>5 DEF DDelete
  <2>2. \A t \in Servers : /\ t = s => client'[t].on = {}
                           /\ t # s => client'[t] = client[t] /\ orphans'[t] = orphans[t]
    BY <2>1 DEF TypeOK, NoClient
  <2>3. \A t \in Servers : client'[t].on \subseteq client[t].on /\ (t # s => Live(t) \subseteq Live(t)')
    BY <2>2 DEF Live
  <2>4. Cleaning
    BY <2>1 DEF Cleaning
  <2> QED BY <1>3, <2>1, <2>2, <2>3, <2>4
<1>6. ASSUME NEW g \in Groups, DNext(g)
      PROVE  ListenInv'
  <2> DEFINE rec == [me EXCEPT !.pc = "get", !.todo = @ \ {g}, !.item = {g}]
  <2>1. rec.pc = "get" /\ rec.dc = me.dc
    BY <1>1 DEF ProcStates
  <2>2. Become("D", rec) /\ me.pc = "next" /\ UNCHANGED <<dcVars, queues, sdk>>
    BY <1>6 DEF DNext
  <2> HIDE DEF rec
  <2>3. GoesOn("D", rec) /\ {me.pc, rec.pc} \subseteq {"next", "get", "listen"}
    BY <2>1, <2>2 DEF GoesOn
  <2>4. Grows(NoServer, {})
    BY <2>2, NoGrowth DEF VersionInv
  <2> QED BY <1>1, <2>1, <2>2, <2>3, <2>4, CallKeepsListeners
<1>7. CASE DStatus
  <2> DEFINE d == UpdateDynamicConfigurationStatus(me.dc)
  <2>1. d \in Dcs /\ d.server = me.dc.spec.server /\ d.listen = me.dc.listen
    BY <1>1, DcTypes DEF UpdateDynamicConfigurationStatus, Dcs
  <2>2. me.pc \in {"status", "next"} /\ ~me.dc.deleting
    BY <1>7 DEF DStatus, LifeInv, PassInv
  <2> HIDE DEF d
  <2>3. Ends("D", d) /\ UNCHANGED <<orphans, objQueued>>
    BY <1>1, <1>7, <2>1, StatusWritten DEF Ends, DStatus, sdk, d
  <2>4. "D" \notin dcHeld => dcQueued'
    BY <1>7 DEF DStatus, WriteStatus
  <2>5. Active /\ Syncing /\ me.dc.spec = dc.spec
    BY <2>2 DEF Active, Syncing, ListenInv, RequestInv
  <2>6. "D" \in dcHeld => ~dc.deleting
    BY <2>2 DEF VersionInv, HeldInv
  <2> QED BY <2>1, <2>3, <2>4, <2>5, <2>6, DEndListeners
<1>8. CASE DRemoveFinalizer
  <2>1. Become("D", Idle) /\ UNCHANGED <<dcCache, objQueued, sdk>> /\ me.pc = "unfin"
    BY <1>8 DEF DRemoveFinalizer
  <2>2. CASE "D" \notin dcHeld /\ dcQueued' = TRUE /\ UNCHANGED <<dc, dcHeld>>
    <3>1. Ends("D", me.dc) /\ Active /\ UNCHANGED <<orphans, objQueued>>
      BY <2>1, <2>2 DEF Ends, sdk, Active
    <3> QED BY <1>1, <2>2, <3>1, DEndListeners
  <2>3. CASE "D" \in dcHeld /\ dc' = NoDc(dc.spec, dc.gen) /\ dcHeld' = {} /\ UNCHANGED dcQueued
    <3>1. ~dc'.exists /\ ~dc'.deleting /\ dc'.spec = dc.spec
      BY <2>3, FreshDc
    <3>2. proc'["D"].pc = "idle"
      BY <1>1, <2>1, BecomeOthers, IdleType
    <3>3. ~Active' /\ ~Cleaning' /\ ~Syncing'
      BY <3>2 DEF Active, Cleaning, Syncing
    <3>4. RequestInv'
      BY <2>1, <2>3, <3>1, <3>3 DEF ListenInv, RequestInv
    <3>5. StrayInv'
      BY <2>1, <3>2, <3>3 DEF ListenInv, StrayInv, sdk
    <3>6. AliveInv' /\ CopyInv'
      BY <2>3, <3>1 DEF AliveInv, CopyInv
    <3> QED BY <3>4, <3>5, <3>6 DEF ListenInv
  <2> QED BY <1>8, <2>2, <2>3 DEF DRemoveFinalizer
<1> QED BY <1>1, <1>2, <1>4, <1>5, <1>6, <1>7, <1>8, DStartListeners, CallListeners
    DEF DcReconciler

\* What users do to the DC, if it excuses nothing: they change the spec of a DC
\* that is settled, delete one whose status has the server of the spec, or create
\* one when there is none.
LEMMA UserListeners ==
    ASSUME TypeOK, LifeInv, VersionInv, ListenInv, ~excused',
           (\E spec \in Specs : ChangeSpec(spec)) \/ DeleteDc \/ CreateDc
    PROVE  ListenInv'
<1>1. /\ dc \in Dcs /\ dc.gen \in Nat /\ dcCache.gen \in Nat /\ dcCache.gen <= dc.gen
      /\ dc.spec.server \in Servers /\ NoServer \notin Servers
  BY DcFields, SpecTypes, LifecycleAssumption DEF TypeOK, LifeInv, CacheInv
<1>2. /\ UNCHANGED <<dcCache, queues, sdk, proc, dcQueued, objQueued>> /\ dcHeld' = {}
      /\ dc'.gen = dc.gen + 1
  BY UserChanges DEF UserChange, queues
<1>3. Behind'
  BY <1>1, <1>2 DEF Behind
<1>4. (Active' <=> Active) /\ (Cleaning' <=> Cleaning)
  BY <1>2 DEF Active, Cleaning
<1>5. CopyInv'
  BY <1>2 DEF CopyInv
<1>6. ASSUME NEW spec \in Specs, ChangeSpec(spec)
      PROVE  ListenInv'
  <2>1. /\ dc' = [dc EXCEPT !.spec = spec, !.gen = @ + 1] /\ dc.exists /\ ~dc.deleting
        /\ proc["D"].pc = "idle" /\ ~dcQueued /\ dcCache = dc
    BY <1>6 DEF ChangeSpec, Settled, LifeInv, CacheInv
  <2>2. /\ dc'.exists /\ ~dc'.deleting /\ dc'.spec = spec /\ dc'.server = dc.server
        /\ dc'.listen = dc.listen
    BY <1>1, <2>1 DEF Dcs
  <2>3. ~Active /\ ~Cleaning /\ ~Behind
    BY <2>1 DEF Active, Cleaning, Behind
  <2>4. dc.server = dc.spec.server
    BY <2>1, <2>3 DEF ListenInv, RequestInv
  <2>5. RequestInv'
    BY <1>2, <1>3, <1>4, <2>1, <2>2, <2>3 DEF ListenInv, RequestInv
  <2>6. StrayInv'
    BY <1>2, <2>1, <2>2, <2>4 DEF ListenInv, StrayInv, Syncing, sdk
  <2>7. dc'.server = dc'.spec.server => \A h : (Here(h)' <=> Here(h)) /\ (Underway(h)' <=> Underway(h))
    BY <1>2, <2>2, <2>4 DEF Here, Underway, Live, sdk
  <2>8. AliveInv'
    BY <1>1, <2>1, <2>2, <2>3, <2>4, <2>7 DEF ListenInv, AliveInv
  <2> QED BY <1>5, <2>5, <2>6, <2>8 DEF ListenInv
<1>7. CASE DeleteDc
  <2>1. dc.exists /\ dc.server = dc.spec.server /\ dc.fin
    BY <1>1, <1>7 DEF DeleteDc, VersionInv, SeenInv
  <2>2. dc' = [dc EXCEPT !.deleting = TRUE, !.gen = @ + 1]
    BY <1>7, <2>1 DEF DeleteDc
  <2>3. dc'.exists /\ dc'.deleting /\ dc'.spec = dc.spec /\ dc'.server = dc.server
    BY <1>1, <2>1, <2>2 DEF Dcs
  <2>4. RequestInv'
    BY <1>2, <1>4, <2>1, <2>3 DEF ListenInv, RequestInv
  <2>5. StrayInv'
    BY <1>2, <2>1, <2>3 DEF ListenInv, StrayInv, Syncing, sdk
  <2>6. AliveInv'
    BY <2>3 DEF AliveInv
  <2> QED BY <1>5, <2>4, <2>5, <2>6 DEF ListenInv
<1>8. CASE CreateDc
  <2>1. dc' = NewDc(dc.spec, dc.gen + 1) /\ ~dc.exists
    BY <1>8 DEF CreateDc
  <2>2. ~dc'.deleting /\ dc'.spec = dc.spec /\ dc'.listen = {}
    BY <2>1, FreshDc
  <2>3. RequestInv'
    BY <1>2, <1>3, <1>4, <2>2 DEF ListenInv, RequestInv
  <2>4. StrayInv'
    BY <1>2, <2>1 DEF ListenInv, StrayInv, Syncing, sdk
  <2>5. AliveInv'
    BY <2>2 DEF AliveInv
  <2> QED BY <1>5, <2>3, <2>4, <2>5 DEF ListenInv
<1> QED BY <1>6, <1>7, <1>8

LEMMA EnvironmentListeners ==
    ASSUME TypeOK, LifeInv, VersionInv, ListenInv, ~excused',
           DcInformer \/ CallbackWrites \/ User \/ Crash \/ FStop \/ Rest \/ UNCHANGED vars
    PROVE  ListenInv'
<1>1. CASE DcInformer
  <2>1. /\ UNCHANGED <<dc, sdk, proc, objQueued>> /\ dcCache' = dc /\ dcHeld' = dcHeld \cup {"cache"}
        /\ dcQueued' <=> dcQueued \/ Behind
    BY <1>1 DEF DcInformer, Behind
  <2>2. RequestInv'
    BY <2>1 DEF ListenInv, RequestInv, Active, Behind, Cleaning
  <2>3. StrayInv'
    BY <2>1 DEF ListenInv, StrayInv, Syncing, sdk
  <2>4. \A h : (Here(h)' <=> Here(h)) /\ (h \in dc.listen /\ Underway(h) => Underway(h)')
    BY <2>1 DEF Here, Underway, Live, sdk
  <2>5. AliveInv'
    BY <2>1, <2>4 DEF ListenInv, AliveInv, Active
  <2>6. CopyInv'
    <3>1. "cache" \notin Groups
      BY NamesDiffer DEF Procs
    <3> QED BY <2>1, <2>4, <3>1 DEF ListenInv, CopyInv, Syncing
  <2> QED BY <2>2, <2>3, <2>5, <2>6 DEF ListenInv
<1>2. CASE CallbackWrites \/ (\E g \in Groups : EditObject(g)) \/ FStop \/ Rest \/ UNCHANGED vars
  <2>1. /\ UNCHANGED <<dc, dcCache, dcQueued, sdk, proc>> /\ dcHeld' \in {dcHeld, {}}
        /\ objQueued \subseteq objQueued'
    BY <1>2 DEF CallbackWrites, EditObject, FStop, Rest, vars, dcVars, queues
  <2> QED BY <2>1, SameListeners
<1>3. CASE (\E spec \in Specs : ChangeSpec(spec)) \/ DeleteDc \/ CreateDc
  BY <1>3, UserListeners
<1>4. CASE Crash
  <2>1. /\ proc'["D"].pc = "idle" /\ dcCache' = dc /\ UNCHANGED dc /\ dcQueued'
        /\ dcHeld' = {"cache"} /\ objQueued' = Groups
        /\ \A s \in Servers : client'[s].on = {}
    BY <1>4, IdleType, NamesDiffer DEF Crash, NoClient
  <2>2. ~Active' /\ ~Cleaning' /\ ~Syncing'
    BY <2>1 DEF Active, Cleaning, Syncing
  <2>3. RequestInv'
    BY <2>1, <2>2 DEF ListenInv, RequestInv
  <2>4. StrayInv'
    BY <2>1, <2>2 DEF StrayInv
  <2>5. AliveInv'
    <3>1. dc.listen \subseteq Groups
      BY DEF TypeOK, Dcs
    <3> QED BY <2>1, <3>1 DEF AliveInv, Underway
  <2>6. CopyInv'
    BY <2>1, LifecycleAssumption DEF CopyInv
  <2> QED BY <2>3, <2>4, <2>5, <2>6 DEF ListenInv
<1> QED BY <1>1, <1>2, <1>3, <1>4 DEF User

\* What excuses once excuses for ever.
LEMMA ExcuseStays == TypeOK /\ [Next]_vars /\ excused => excused'
BY DEF Next, Reconciler, RStart, Miss, Get, Listen, RStatus, DcReconciler, DStart, DClose, DDelete,
       DStatus, DRemoveFinalizer, DClean, DNext, FuzzyListen, FPoll, FSearch, FStop, DcInformer,
       CallbackWrites, User, ChangeSpec, DeleteDc, CreateDc, EditObject, Crash, Rest, vars

LEMMA ListenStep ==
    ASSUME TypeOK, LifeInv, VersionInv, excused \/ ListenInv, [Next]_vars
    PROVE  (excused \/ ListenInv)'
<1> SUFFICES ASSUME ~excused' PROVE ListenInv'
  OBVIOUS
<1>1. ListenInv
  BY ExcuseStays
<1>2. ASSUME NEW g \in Groups, Reconciler(g)
      PROVE  ListenInv'
  <2>1. g \in Procs /\ g # "F"
    BY NamesDiffer DEF Procs
  <2> QED BY <1>1, <1>2, <2>1, RStartListeners, RStatusListeners, CallListeners DEF Reconciler
<1> QED BY <1>1, <1>2, DcPassListeners, FuzzyListeners, EnvironmentListeners DEF Next

LEMMA ListenersInductive == Spec => []((excused \/ ListenInv) /\ VersionInv /\ LifeInv)
<1>1. Spec => []LifeInv
  BY InitLife, LifeStep, TypeCorrect, PTL DEF Spec
<1>2. Spec => []VersionInv
  BY <1>1, InitVersions, VersionStep, TypeCorrect, PTL DEF Spec
<1>3. Init => excused \/ ListenInv
  BY InitListen
<1>4. Spec => [](excused \/ ListenInv)
  BY <1>1, <1>2, <1>3, ListenStep, TypeCorrect, PTL DEF Spec
<1> QED BY <1>1, <1>2, <1>4, PTL

\* At rest there is nothing D has still to do: the status has the server of the
\* spec and the DC is not being deleted.
LEMMA RestIsSettled ==
    ASSUME TypeOK, LifeInv, VersionInv, ListenInv, Quiescent
    PROVE  /\ ~Active /\ ~dcQueued /\ ~Behind /\ ~dc.deleting
           /\ dc.exists => dc.server = dc.spec.server
<1>1. proc["D"].pc = "idle" /\ ~dcQueued /\ dcCache = dc
  BY NamesDiffer DEF Quiescent, LifeInv, CacheInv
<1>2. ~Active /\ ~Behind
  BY <1>1 DEF Active, Behind
<1> QED BY <1>1, <1>2 DEF VersionInv, DelInv, ListenInv, RequestInv

\* Whenever the reconcilers are at rest, a client of ClientBuilder's cache that has
\* a listener is the one for the server the DC's spec and status name, and once the
\* DC is gone none has any, whatever the number of groups, servers, operations and
\* faults: moves, deletions, restarts and the lock-free checks of ClientBuilder
\* leave none behind.  Excused are runs in which a call has failed, a change of the
\* spec has overtaken D, or a handler has listened for a DC that was gone, being
\* deleted or moved by then.  Nothing is said of clients that have dropped out of
\* the cache, nor of groups the status does not list.
THEOREM NoListenerLeftBehind == Spec => []NoStrayListeners
<1>1. TypeOK /\ LifeInv /\ VersionInv /\ (excused \/ ListenInv) => NoStrayListeners
  <2> SUFFICES ASSUME TypeOK, LifeInv, VersionInv, ListenInv, Quiescent,
                      NEW s \in Servers, client[s].on # {}
               PROVE  dc.exists /\ dc.spec.server = s /\ dc.server = s
    BY DEF NoStrayListeners
  <2>1. dc.exists /\ s \in {dc.spec.server, dc.server}
    BY DEF ListenInv, StrayInv
  <2> QED BY <2>1, RestIsSettled
<1> QED BY <1>1, ListenersInductive, TypeCorrect, PTL

\* Whenever the reconcilers are at rest every group the status lists has a
\* listener at the DC's server, unless excused, after any moves, changes of scope
\* and restarts: what a restart has lost has been listened to again, and what has
\* left the scope is out of the status.  The listener may be that of an open client
\* that is no longer in the cache.
THEOREM StatusHasListeners == Spec => []ListenersAlive
<1>1. TypeOK /\ LifeInv /\ VersionInv /\ (excused \/ ListenInv) => ListenersAlive
  <2> SUFFICES ASSUME TypeOK, LifeInv, VersionInv, ListenInv, Quiescent, dc.exists,
                      NEW g \in dc.listen
               PROVE  g \in Live(dc.spec.server)
    BY DEF ListenersAlive
  <2>1. /\ ~Active /\ ~dcQueued /\ ~dc.deleting /\ dc.server = dc.spec.server
    BY RestIsSettled
  <2>2. g \in Procs \ {"F"}
    BY NamesDiffer DEF TypeOK, Dcs, Procs
  <2>3. ~Underway(g)
    BY <2>2 DEF Underway, Quiescent
  <2> QED BY <2>1, <2>3 DEF ListenInv, AliveInv, Here
<1> QED BY <1>1, ListenersInductive, TypeCorrect, PTL
=============================================================================
