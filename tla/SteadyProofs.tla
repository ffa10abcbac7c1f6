---------------------------- MODULE SteadyProofs ----------------------------
(***************************************************************************)
(* Once every key is synced the two sides agree whenever the system is at  *)
(* rest, for any number of data ids, edits, failing calls and retries.     *)
(*                                                                         *)
(* Then R and C are the only handlers with work to do (Shape).  While the  *)
(* object and the server disagree on a data id, somebody still knows of it *)
(* (Noticed, Arriving): the SDK has a change to report, a callback carries *)
(* what the server has, or the digest on record is another than that of    *)
(* the object's content, and R will look at it or is about to.             *)
(***************************************************************************)
EXTENDS PolicyProofs

\* The steady state: the initial sync has listened to every key, the controller
\* keeps running, one callback at a time is in flight.
Steady ==
    /\ InitSynced /\ SettledEdits /\ ~DeleteObjects
    /\ MaxInFlight = 1 /\ MaxCrashes = 0
    /\ \A o \in InitObjs : GetAllKeys(o) = DataIds

\* An object nobody deletes.
Live(o) == o.exists /\ ~o.deleting /\ o.fin

\* What R has in hand while it goes through the data ids.
PassOfR(r) ==
    r.pc = "sync" =>
        /\ r.dc.listen = DataIds /\ r.todo.loc = {}
        /\ r.todo.both \subseteq GetAllKeys(r.obj) /\ r.todo.del \cap GetAllKeys(r.obj) = {}

\* Nobody creates or deletes the object or drops a listener: D and F have
\* nothing to do.
Shape ==
    /\ Live(obj) /\ Live(objCache)
    /\ \A p \in {"R", "C"} : proc[p].pc # "idle" => Live(proc[p].obj)
    /\ proc["D"].pc = "idle" /\ proc["F"].pc = "idle" /\ ~dcQueued
    /\ listening = DataIds /\ dc.listen = DataIds /\ dcCache.listen = DataIds
    /\ proc["R"].pc \in {"idle", "list", "sync", "update"} /\ PassOfR(proc["R"])
    /\ proc["C"].pc \in {"idle", "store", "flush"}
    /\ proc["C"].pc = "store" => proc["C"].dc.listen = DataIds

\* One callback is in flight and carries what the SDK has reported last.
InFlight ==
    /\ \A n \in pending \cup proc["C"].job : n.content = seen[n.id]
    /\ \A m, n \in pending \cup proc["C"].job : m = n
    /\ proc["C"].pc = "idle" => proc["C"].job = {}
    /\ proc["C"].pc # "idle" => pending = {} /\ proc["C"].job # {}
    /\ proc["C"].pc = "flush" => \A n \in proc["C"].job : CanStore(n.content)

\* R has to look at the object once more.
Alert == "cache" \notin objHeld \/ objQueued

\* A holder of the current version has it; R learns of the others.
HeldInv ==
    /\ "cache" \in objHeld => objCache = obj
    /\ "cache" \in dcHeld => dcCache = dc
    /\ proc["R"].pc # "idle" => (Alert \/ "R" \in objHeld)
    /\ proc["R"].pc # "idle" /\ "R" \in objHeld => proc["R"].obj = obj
    /\ proc["C"].pc = "store" /\ "C" \in objHeld => proc["C"].obj = obj
    /\ proc["C"].pc = "flush" /\ "C" \in objHeld =>
          \A n \in proc["C"].job : proc["C"].obj = StoreContent(obj, n.id, n.content)
    /\ proc["C"].pc = "store" /\ "C" \in dcHeld => proc["C"].dc = dc

\* The digest on record is not the one of the object's content.
Differs(d) == d \in GetAllKeys(obj) => LastSynced(d).md5 # CalcMd5(GetContent(obj, d))

\* R has the current content of d in hand and has still to compare it.
Working(d) ==
    LET me == proc["R"] IN
    /\ me.pc \in {"list", "sync"}
    /\ me.obj.data[d] = obj.data[d] /\ me.obj.binary[d] = obj.binary[d]
    /\ me.pc = "sync" => d \in me.todo.del \cup me.todo.both

Unseen(d) == seen[d] # server[d]

Failed(d) == LastSynced(d).state = "failed"

\* The two sides agree on d or somebody other than C knows that they do not.
Noticed(d) == Agree(d) \/ Failed(d) \/ Unseen(d) \/ (Differs(d) /\ (Alert \/ Working(d)))

\* C is about to bring what the server has.
Arriving(d) ==
    \/ \E n \in pending : n.id = d
    \/ /\ \E n \in proc["C"].job : n.id = d
       /\ proc["C"].pc = "store" => GetContent(proc["C"].obj, d) = GetContent(obj, d)

\* R's status write will be refused.
Doomed == proc["R"].pc = "sync" /\ "R" \notin dcHeld

KnownInv == abandoned \/ Doomed \/ \A d \in DataIds : Noticed(d) \/ Arriving(d)

\* The inductive invariant.
SteadyInv ==
    /\ TypeOK /\ CallbackHasJob /\ FoundStorable
    /\ Shape /\ InFlight /\ HeldInv /\ KnownInv

-----------------------------------------------------------------------------
(* Contents and digests. *)

\* A digest tells contents apart.
LEMMA Md5Injective ==
    ASSUME NEW a, NEW b, CalcMd5(a) = CalcMd5(b)
    PROVE  a = b
BY DEF CalcMd5

\* Whether a data id is in the object, and its content, are a matter of its slots.
LEMMA SlotsTell ==
    ASSUME NEW o, NEW q, NEW d \in DataIds, o.data[d] = q.data[d], o.binary[d] = q.binary[d]
    PROVE  GetContent(o, d) = GetContent(q, d) /\ (d \in GetAllKeys(o) <=> d \in GetAllKeys(q))
BY DEF GetContent, GetAllKeys

\* StoreContent leaves the other data ids alone, and what it stores into an
\* object the API server accepts is what the object returns.
LEMMA StoreContentSlots ==
    ASSUME NEW o \in Objects, NEW e \in DataIds, NEW c \in Texts, CanStore(c)
    PROVE  /\ \A d \in DataIds \ {e} : /\ StoreContent(o, e, c).data[d] = o.data[d]
                                       /\ StoreContent(o, e, c).binary[d] = o.binary[d]
           /\ Valid(StoreContent(o, e, c)) => GetContent(StoreContent(o, e, c), e) = Norm(c)
<1>1. c # Absent /\ Empty # Absent
  BY ContentAssumption DEF Texts
<1>2. CASE Kind = "Secret"
  <2>1. Norm(c) = IF c = Empty THEN Empty ELSE Canonical[c]
    BY <1>2, ContentAssumption DEF CanStore, Norm
  <2>2. Norm(c) # Absent
    BY <1>1, <1>2, <2>1, ContentAssumption DEF CanStore
  <2>3. StoreContent(o, e, c) = [o EXCEPT !.data[e] = Norm(c)]
    BY <1>2, <2>1 DEF StoreContent
  <2> QED BY <2>2, <2>3 DEF GetContent, Objects
<1>3. CASE Kind # "Secret"
  <2>1. Norm(c) = c
    BY <1>3 DEF Norm
  <2>2. CASE c \in Json
    <3>1. StoreContent(o, e, c) = [o EXCEPT !.binary[e] = c]
      BY <1>3, <2>2 DEF StoreContent
    <3> QED BY <1>1, <2>1, <3>1 DEF GetContent, Objects, Valid
  <2>3. CASE c \notin Json
    <3>1. StoreContent(o, e, c) = [o EXCEPT !.data[e] = c]
      BY <1>3, <2>3 DEF StoreContent
    <3> QED BY <1>1, <2>1, <3>1 DEF GetContent, Objects
  <2> QED BY <2>2, <2>3
<1> QED BY <1>2, <1>3

-----------------------------------------------------------------------------
(* Steps that do not occur. *)

\* The handlers and the users leave undone what the steady state has no use for.
LEMMA NothingElse ==
    ASSUME Steady, SteadyInv, [Next]_vars
    PROVE  \/ RStart \/ RList \/ RStatus \/ RUpdate
           \/ \E d \in DataIds : RDelete(d) \/ RBoth(d)
           \/ \E n \in pending : CStart(n)
           \/ \E n \in proc["C"].job : CStore(n)
           \/ CFlush
           \/ Delivery
           \/ \E d \in DataIds : \/ \E v \in LocalEdits : EditLocal(d, v)
                                 \/ \E c \in ServerEdits : EditServer(d, c)
           \/ UNCHANGED vars
<1>1. ~RFinalize /\ \A d \in DataIds : ~Query("R", d) /\ ~Apply("R", d)
  BY DEF SteadyInv, Shape, Live, PassOfR, RFinalize, Query, Apply
<1>2. ~CreateMissing("C") /\ ~AddFinalizer("C")
  BY DEF SteadyInv, Shape, CreateMissing, AddFinalizer
<1>3. ~DcReconciler
  BY DEF SteadyInv, Shape, DcReconciler, DStart, CreateMissing, AddFinalizer, DFlush, DStatus, Query, Apply
<1>4. ~FuzzyListen
  BY DEF SteadyInv, Shape, FuzzyListen, FPoll, FCheck, FLoad, FWrite, Unknown
<1>5. ~DeleteObject /\ \A o \in InitObjs : ~CreateObject(o)
  BY DEF Steady, DeleteObject, CreateObject
<1>6. ~Crash
  BY DEF Steady, SteadyInv, TypeOK, Crash
<1> QED BY <1>1, <1>2, <1>3, <1>4, <1>5, <1>6 DEF Next, Controller, Reconciler, Callback, User, Rest

-----------------------------------------------------------------------------
(* The ConfigMap/Secret reconciler. *)

SteadyParts == Shape /\ InFlight /\ HeldInv /\ KnownInv

\* R goes on, and nobody else.
LEMMA RGoes ==
    ASSUME SteadyInv, NEW rec, Become("R", rec)
    PROVE  /\ proc'["R"] = rec
           /\ proc'["C"] = proc["C"] /\ proc'["D"] = proc["D"] /\ proc'["F"] = proc["F"]
BY BecomeOthers DEF SteadyInv, Procs

\* The callback in flight is left alone.
LEMMA KeepsInFlight ==
    ASSUME SteadyInv, proc'["C"] = proc["C"], UNCHANGED <<pending, seen>>
    PROVE  InFlight'
BY DEF SteadyInv, InFlight

\* R starts on the cached object: what it was queued for it now has in hand.
LEMMA RStartSteady ==
    ASSUME SteadyInv, RStart
    PROVE  SteadyParts'
<1> DEFINE rec == [Idle EXCEPT !.pc = "list", !.obj = objCache]
<1>1. /\ objHeld' = CacheRead(objHeld, "R") /\ objQueued' = FALSE /\ Become("R", rec)
      /\ UNCHANGED <<obj, objCache, dcVars, nacos, abandoned>> /\ proc["R"].pc = "idle"
  BY DEF SteadyInv, Shape, Live, RStart
<1>2. rec.pc = "list" /\ rec.obj = objCache
  BY DEF Idle
<1>3. /\ proc'["R"] = rec
      /\ proc'["C"] = proc["C"] /\ proc'["D"] = proc["D"] /\ proc'["F"] = proc["F"]
  BY <1>1, RGoes
<1> HIDE DEF rec
<1>4. Shape'
  BY <1>1, <1>2, <1>3 DEF SteadyInv, Shape, PassOfR, dcVars, nacos
<1>5. InFlight'
  BY <1>1, <1>3, KeepsInFlight DEF nacos
<1>6. /\ "cache" \in objHeld' <=> "cache" \in objHeld
      /\ "C" \in objHeld' <=> "C" \in objHeld
      /\ "R" \in objHeld' <=> "cache" \in objHeld
  BY <1>1 DEF CacheRead
<1>7. HeldInv'
  BY <1>1, <1>2, <1>3, <1>6 DEF SteadyInv, HeldInv, Alert, dcVars
<1>8. ASSUME NEW d \in DataIds, Noticed(d)
      PROVE  Noticed(d)'
  <2>1. LastSynced(d)' = LastSynced(d)
    BY <1>1, <1>2, <1>3 DEF LastSynced, dcVars
  <2>2. (Agree(d) => Agree(d)') /\ (Failed(d) => Failed(d)') /\ (Unseen(d) => Unseen(d)')
        /\ (Differs(d) => Differs(d)')
    BY <1>1, <2>1 DEF Agree, Failed, Unseen, Differs, dcVars, nacos
  <2>3. Alert' \/ Working(d)'
    BY <1>1, <1>2, <1>3, <1>6 DEF Alert, Working, SteadyInv, HeldInv
  <2> QED BY <1>8, <2>2, <2>3 DEF Noticed
<1>9. \A d \in DataIds : Arriving(d) => Arriving(d)'
  BY <1>1, <1>3 DEF Arriving, nacos
<1>10. ~Doomed
  BY <1>1 DEF Doomed
<1> QED BY <1>1, <1>4, <1>5, <1>7, <1>8, <1>9, <1>10 DEF SteadyInv, KnownInv, SteadyParts

\* The status R goes on with: what has been listened to again is as it was.
LEMMA RelistFacts ==
    ASSUME NEW s \in Statuses, NEW D \in SUBSET DataIds
    PROVE  /\ RelistenFailed(s, D).listen = s.listen
           /\ \A d \in D : RelistenFailed(s, D).sync[d].state = "failed"
           /\ \A d \in DataIds \ D : RelistenFailed(s, D).sync[d] = s.sync[d]
BY DEF RelistenFailed, UpdateSyncStatus, Statuses

\* R reads the status; an old one dooms its pass, and a listener that could not
\* be registered again is reported.
LEMMA RListSteady ==
    ASSUME SteadyInv, RList
    PROVE  SteadyParts'
<1> DEFINE me == proc["R"]
           s  == dcCache
           t  == CompareDataIds(s.listen, GetAllKeys(me.obj))
<1>1. s \in Statuses /\ s.listen = DataIds /\ me \in ProcStates /\ me.pc = "list" /\ listening = DataIds
      /\ seen \in [DataIds -> Texts]
  BY DEF SteadyInv, TypeOK, Shape, Procs, RList
<1>2. PICK D \in SUBSET DataIds :
         /\ UNCHANGED <<listening, seen>>
         /\ Become("R", Listed(FALSE, s, RelistenFailed(s, D), t, D # {}))
  <2>1. CASE s.listen = {}
    <3>1. GetAllKeys(me.obj) = {} /\ DataIds = {}
      BY <1>1, <2>1 DEF GetAllKeys
    <3>2. t = [NoTodo EXCEPT !.loc = GetAllKeys(me.obj)]
      BY <2>1, <3>1 DEF CompareDataIds, NoTodo
    <3>3. RelistenFailed(s, {}) = s
      BY <1>1, <3>1 DEF RelistenFailed, Statuses
    <3> QED BY <2>1, <3>2, <3>3 DEF RList
  <2>2. CASE s.listen # {}
    <3>1. PICK D \in SUBSET DataIds :
             /\ ListenConfig(DataIds \ D, Empty)
             /\ Become("R", Listed(FALSE, s, RelistenFailed(s, D), t, D # {}))
      BY <1>1, <2>2 DEF RList
    <3>2. listening' = listening /\ seen' = seen
      BY <1>1, <3>1 DEF ListenConfig
    <3> QED BY <3>1, <3>2
  <2> QED BY <2>1, <2>2
<1> DEFINE rec == Listed(FALSE, s, RelistenFailed(s, D), t, D # {})
<1>3. /\ rec.pc = "sync" /\ rec.obj = me.obj /\ rec.dc = RelistenFailed(s, D) /\ rec.todo = t
  BY <1>1 DEF Listed, DynamicConfigurationMatch, ProcStates
<1>4. /\ proc'["R"] = rec
      /\ proc'["C"] = proc["C"] /\ proc'["D"] = proc["D"] /\ proc'["F"] = proc["F"]
  BY <1>2, RGoes
<1>5. /\ t.loc = {} /\ t.both \subseteq GetAllKeys(me.obj) /\ t.del \cap GetAllKeys(me.obj) = {}
      /\ t.del \cup t.both = DataIds
  BY <1>1 DEF CompareDataIds, GetAllKeys
<1>6. /\ UNCHANGED <<objVars, dc, dcCache, dcQueued, server, pending, abandoned>>
      /\ dcHeld' = CacheRead(dcHeld, "R")
  BY DEF RList
<1> HIDE DEF rec, t
<1>7. Shape'
  BY <1>1, <1>2, <1>3, <1>4, <1>5, <1>6, RelistFacts DEF SteadyInv, Shape, PassOfR, objVars
<1>8. InFlight'
  BY <1>2, <1>4, <1>6, KeepsInFlight
<1>9. /\ "cache" \in dcHeld' <=> "cache" \in dcHeld
      /\ "C" \in dcHeld' <=> "C" \in dcHeld
      /\ "R" \in dcHeld' <=> "cache" \in dcHeld
  BY <1>6 DEF CacheRead
<1>10. HeldInv'
  BY <1>1, <1>3, <1>4, <1>6, <1>9 DEF SteadyInv, HeldInv, Alert, objVars
<1>11. ASSUME NEW d \in DataIds, Noticed(d), "cache" \in dcHeld
       PROVE  Noticed(d)'
  <2>1. LastSynced(d) = s.sync[d]
    BY <1>1, <1>11 DEF LastSynced, SteadyInv, HeldInv
  <2>2. LastSynced(d)' = RelistenFailed(s, D).sync[d]
    BY <1>3, <1>4 DEF LastSynced
  <2>3. CASE d \in D
    BY <1>1, <2>2, <2>3, RelistFacts DEF Noticed, Failed
  <2>4. CASE d \notin D
    <3>1. LastSynced(d)' = LastSynced(d)
      BY <1>1, <2>1, <2>2, <2>4, RelistFacts
    <3>2. (Agree(d) => Agree(d)') /\ (Failed(d) => Failed(d)') /\ (Unseen(d) => Unseen(d)')
          /\ (Differs(d) => Differs(d)')
      BY <1>2, <1>6, <3>1 DEF Agree, Failed, Unseen, Differs, objVars
    <3>3. Alert \/ Working(d) => Alert' \/ Working(d)'
      BY <1>3, <1>4, <1>5, <1>6 DEF Alert, Working, objVars
    <3> QED BY <1>11, <3>2, <3>3 DEF Noticed
  <2> QED BY <2>3, <2>4
<1>12. \A d \in DataIds : Arriving(d) => Arriving(d)'
  BY <1>4, <1>6 DEF Arriving, objVars
<1>13. ~Doomed
  BY <1>1 DEF Doomed
<1>14. "cache" \notin dcHeld => Doomed'
  BY <1>3, <1>4, <1>9 DEF Doomed
<1> QED BY <1>6, <1>7, <1>8, <1>10, <1>11, <1>12, <1>13, <1>14 DEF SteadyInv, KnownInv, SteadyParts

\* R has dealt with e and goes on with rest of its pass, its copy of the object
\* and the other data ids as before.
LEMMA DealtWith ==
    ASSUME SteadyInv, proc["R"].pc = "sync", NEW e \in DataIds, NEW rec,
           Become("R", rec),
           rec.pc = "sync", rec.obj = proc["R"].obj, rec.todo.loc = {}, rec.dc.listen = proc["R"].dc.listen,
           rec.todo.del \subseteq proc["R"].todo.del, rec.todo.both \subseteq proc["R"].todo.both,
           proc["R"].todo.del \cup proc["R"].todo.both \subseteq
              rec.todo.del \cup rec.todo.both \cup {e},
           \A d \in DataIds \ {e} : rec.dc.sync[d] = proc["R"].dc.sync[d] /\ server'[d] = server[d],
           UNCHANGED <<objVars, dcVars, listening, seen, pending, abandoned>>,
           Noticed(e) \/ Arriving(e) => Noticed(e)' \/ Arriving(e)'
    PROVE  SteadyParts'
<1>1. /\ proc'["R"] = rec
      /\ proc'["C"] = proc["C"] /\ proc'["D"] = proc["D"] /\ proc'["F"] = proc["F"]
  BY RGoes
<1>2. Shape'
  BY <1>1 DEF SteadyInv, Shape, PassOfR, objVars, dcVars
<1>3. InFlight'
  BY <1>1, KeepsInFlight
<1>4. HeldInv'
  BY <1>1 DEF SteadyInv, HeldInv, Alert, objVars, dcVars
<1>5. ASSUME NEW d \in DataIds, d # e, Noticed(d)
      PROVE  Noticed(d)'
  <2>1. LastSynced(d)' = LastSynced(d)
    BY <1>1, <1>5 DEF LastSynced
  <2>2. (Agree(d) => Agree(d)') /\ (Failed(d) => Failed(d)') /\ (Unseen(d) => Unseen(d)')
        /\ (Differs(d) => Differs(d)')
    BY <1>5, <2>1 DEF Agree, Failed, Unseen, Differs, objVars
  <2>3. Alert \/ Working(d) => Alert' \/ Working(d)'
    BY <1>1, <1>5 DEF Alert, Working, objVars
  <2> QED BY <1>5, <2>2, <2>3 DEF Noticed
<1>6. \A d \in DataIds : Arriving(d) => Arriving(d)'
  BY <1>1 DEF Arriving, objVars
<1>7. Doomed' <=> Doomed
  BY <1>1 DEF Doomed, dcVars
<1> QED BY <1>2, <1>3, <1>4, <1>5, <1>6, <1>7 DEF SteadyInv, KnownInv, SteadyParts

\* What R's copy lacks of the object, R will be told of.
LEMMA OldCopy ==
    ASSUME SteadyInv, proc["R"].pc # "idle", NEW d \in DataIds,
           GetContent(proc["R"].obj, d) # GetContent(obj, d)
    PROVE  Alert
BY DEF SteadyInv, HeldInv

\* R has pushed its content of d, and has recorded it.
LEMMA Pushed ==
    ASSUME SteadyInv, proc["R"].pc = "sync", NEW d \in DataIds, NEW c, c = GetContent(proc["R"].obj, d),
           proc'["R"].pc = "sync", proc'["R"].dc.sync[d].md5 = CalcMd5(c),
           server'[d] = c \/ (c = Empty /\ ~SyncDeletion),
           UNCHANGED objVars
    PROVE  Noticed(d)'
<1>1. CASE c = GetContent(obj, d)
  <2>1. Agree(d)'
    BY <1>1 DEF Agree, objVars
  <2> QED BY <2>1 DEF Noticed
<1>2. CASE c # GetContent(obj, d)
  <2>1. Alert'
    BY <1>2, OldCopy DEF Alert, objVars
  <2>2. CalcMd5(c) # CalcMd5(GetContent(obj, d))
    BY <1>2, Md5Injective
  <2>3. Differs(d)'
    BY <2>2 DEF Differs, LastSynced, objVars
  <2> QED BY <2>1, <2>3 DEF Noticed
<1> QED BY <1>1, <1>2

\* RPush of R's content of d, after which R goes on with the state rest.
LEMMA RPushNotices ==
    ASSUME SteadyInv, proc["R"].pc = "sync", NEW d \in DataIds, NEW c \in Texts,
           c = GetContent(proc["R"].obj, d), NEW rest \in ProcStates, rest.pc = "sync", RPush(d, c, rest),
           UNCHANGED objVars
    PROVE  /\ Noticed(d)'
           /\ \E rec : /\ Become("R", rec)
                       /\ rec.pc = "sync" /\ rec.obj = rest.obj /\ rec.todo = rest.todo
                       /\ rec.dc.listen = rest.dc.listen
                       /\ \A e \in DataIds \ {d} :
                             rec.dc.sync[e] = rest.dc.sync[e] /\ server'[e] = server[e]
<1>1. rest.dc \in Statuses
  BY DEF ProcStates
<1>2. CalcMd5(c) \in Md5s /\ CalcMd5(Empty) \in Md5s
  BY DEF Md5s, Texts
<1>3. server \in [DataIds -> Texts]
  BY DEF SteadyInv, TypeOK
<1>4. CASE server' = [server EXCEPT ![d] = c]
             /\ Become("R", [rest EXCEPT !.dc = UpdateSyncStatus(@, d, CalcMd5(c), TRUE)])
  <2> DEFINE rec == [rest EXCEPT !.dc = UpdateSyncStatus(@, d, CalcMd5(c), TRUE)]
  <2>1. /\ rec.pc = "sync" /\ rec.obj = rest.obj /\ rec.todo = rest.todo
        /\ rec.dc = UpdateSyncStatus(rest.dc, d, CalcMd5(c), TRUE)
    BY DEF ProcStates
  <2> HIDE DEF rec
  <2>2. /\ rec.dc.listen = rest.dc.listen /\ rec.dc.sync[d].md5 = CalcMd5(c)
        /\ \A e \in DataIds \ {d} : rec.dc.sync[e] = rest.dc.sync[e]
    <3>1. /\ UpdateSyncStatus(rest.dc, d, CalcMd5(c), TRUE).listen = rest.dc.listen
          /\ UpdateSyncStatus(rest.dc, d, CalcMd5(c), TRUE).sync[d].md5 = CalcMd5(c)
          /\ \A e \in DataIds \ {d} :
                UpdateSyncStatus(rest.dc, d, CalcMd5(c), TRUE).sync[e] = rest.dc.sync[e]
      BY <1>1 DEF UpdateSyncStatus, Statuses
    <3> QED BY <2>1, <3>1
  <2>3. Become("R", rec)
    BY <1>4 DEF rec
  <2>4. proc'["R"] = rec
    BY <2>3, RGoes
  <2>5. server'[d] = c /\ \A e \in DataIds \ {d} : server'[e] = server[e]
    BY <1>3, <1>4
  <2>6. Noticed(d)'
    BY <2>1, <2>2, <2>4, <2>5, Pushed
  <2> QED BY <2>1, <2>2, <2>3, <2>5, <2>6
<1>5. CASE PushFailed(d, c)
             /\ Become("R", [rest EXCEPT !.dc = UpdateSyncStatus(@, d, CalcMd5(Empty), FALSE),
                                         !.err = TRUE])
  <2> DEFINE rec == [rest EXCEPT !.dc = UpdateSyncStatus(@, d, CalcMd5(Empty), FALSE), !.err = TRUE]
  <2>1. /\ rec.pc = "sync" /\ rec.obj = rest.obj /\ rec.todo = rest.todo
        /\ rec.dc = UpdateSyncStatus(rest.dc, d, CalcMd5(Empty), FALSE)
    BY DEF ProcStates
  <2> HIDE DEF rec
  <2>2. /\ rec.dc.listen = rest.dc.listen /\ rec.dc.sync[d].state = "failed"
        /\ \A e \in DataIds \ {d} : rec.dc.sync[e] = rest.dc.sync[e]
    <3>1. /\ UpdateSyncStatus(rest.dc, d, CalcMd5(Empty), FALSE).listen = rest.dc.listen
          /\ UpdateSyncStatus(rest.dc, d, CalcMd5(Empty), FALSE).sync[d].state = "failed"
          /\ \A e \in DataIds \ {d} :
                UpdateSyncStatus(rest.dc, d, CalcMd5(Empty), FALSE).sync[e] = rest.dc.sync[e]
      BY <1>1 DEF UpdateSyncStatus, Statuses
    <3> QED BY <2>1, <3>1
  <2>3. Become("R", rec)
    BY <1>5 DEF rec
  <2>4. proc'["R"] = rec
    BY <2>3, RGoes
  <2>5. Noticed(d)'
    BY <2>1, <2>2, <2>4 DEF Noticed, Failed, LastSynced
  <2>6. \A e \in DataIds \ {d} : server'[e] = server[e]
    BY <1>3, <1>5 DEF PushFailed
  <2> QED BY <2>1, <2>2, <2>3, <2>5, <2>6
<1> QED BY <1>4, <1>5 DEF RPush

\* A key that has left the object: the config is deleted, or is left as it is.
LEMMA RDeleteSteady ==
    ASSUME SteadyInv, NEW d \in DataIds, RDelete(d)
    PROVE  SteadyParts'
<1> DEFINE me == proc["R"]
           rest == [me EXCEPT !.todo.del = @ \ {d}]
<1>1. me \in ProcStates /\ me.pc = "sync" /\ d \in me.todo.del
      /\ me.todo.loc = {} /\ d \notin GetAllKeys(me.obj)
  BY DEF SteadyInv, TypeOK, Procs, Shape, PassOfR, RDelete
<1>2. rest \in ProcStates /\ rest.pc = "sync" /\ rest.obj = me.obj /\ rest.dc = me.dc
      /\ rest.todo.del = me.todo.del \ {d} /\ rest.todo.loc = {} /\ rest.todo.both = me.todo.both
  BY <1>1 DEF ProcStates, Todos
<1>3. Empty = GetContent(me.obj, d) /\ Empty \in Texts
  BY <1>1 DEF GetContent, GetAllKeys, Texts
<1>4. \/ SyncDeletion /\ RPush(d, Empty, rest)
      \/ /\ ~SyncDeletion
         /\ Become("R", [rest EXCEPT !.dc = UpdateSyncStatus(@, d, CalcMd5(Empty), TRUE)])
         /\ UNCHANGED server
  BY DEF RDelete
<1>5. UNCHANGED <<objVars, dcVars, listening, seen, pending, abandoned>>
  BY DEF RDelete
<1> HIDE DEF rest
<1>6. Noticed(d)' /\ \E rec : /\ Become("R", rec)
                              /\ rec.pc = "sync" /\ rec.obj = rest.obj /\ rec.todo = rest.todo
                              /\ rec.dc.listen = rest.dc.listen
                              /\ \A e \in DataIds \ {d} :
                                    rec.dc.sync[e] = rest.dc.sync[e] /\ server'[e] = server[e]
  <2>1. CASE RPush(d, Empty, rest)
    BY <1>1, <1>2, <1>3, <1>5, <2>1, RPushNotices
  <2>2. CASE /\ ~SyncDeletion /\ UNCHANGED server
             /\ Become("R", [rest EXCEPT !.dc = UpdateSyncStatus(@, d, CalcMd5(Empty), TRUE)])
    <3> DEFINE rec == [rest EXCEPT !.dc = UpdateSyncStatus(@, d, CalcMd5(Empty), TRUE)]
    <3>1. /\ rec.pc = "sync" /\ rec.obj = rest.obj /\ rec.todo = rest.todo
          /\ rec.dc = UpdateSyncStatus(rest.dc, d, CalcMd5(Empty), TRUE)
      BY <1>2 DEF ProcStates
    <3>2. rest.dc \in Statuses
      BY <1>2 DEF ProcStates
    <3>3. /\ UpdateSyncStatus(rest.dc, d, CalcMd5(Empty), TRUE).listen = rest.dc.listen
          /\ UpdateSyncStatus(rest.dc, d, CalcMd5(Empty), TRUE).sync[d].md5 = CalcMd5(Empty)
          /\ \A e \in DataIds \ {d} :
                UpdateSyncStatus(rest.dc, d, CalcMd5(Empty), TRUE).sync[e] = rest.dc.sync[e]
      BY <3>2 DEF UpdateSyncStatus, Statuses
    <3> HIDE DEF rec
    <3>4. Become("R", rec)
      BY <2>2 DEF rec
    <3>5. proc'["R"] = rec
      BY <3>4, RGoes
    <3>6. Noticed(d)'
      BY <1>1, <1>3, <1>5, <2>2, <3>1, <3>3, <3>5, Pushed
    <3> QED BY <2>2, <3>1, <3>3, <3>4, <3>6
  <2> QED BY <1>4, <2>1, <2>2
<1> QED BY <1>1, <1>2, <1>5, <1>6, DealtWith

\* A content that R does not push is one that has been synced, or one whose
\* deletion is not.
LEMMA NotPushed ==
    ASSUME SteadyInv, NEW d \in DataIds, d \in proc["R"].todo.both, proc["R"].pc = "sync",
           Differs(d), Working(d)
    PROVE  \/ LastSynced(d).md5 # CalcMd5(GetContent(proc["R"].obj, d))
              /\ (GetContent(proc["R"].obj, d) = Empty => SyncDeletion)
           \/ Agree(d)
<1>1. d \in GetAllKeys(proc["R"].obj)
  BY DEF SteadyInv, Shape, PassOfR
<1>2. GetContent(proc["R"].obj, d) = GetContent(obj, d) /\ d \in GetAllKeys(obj)
  BY <1>1, SlotsTell DEF Working
<1> QED BY <1>2 DEF Differs, Agree

\* A key on both sides is pushed if the digest tells that it has changed.
LEMMA RBothSteady ==
    ASSUME SteadyInv, NEW d \in DataIds, RBoth(d)
    PROVE  SteadyParts'
<1> DEFINE me == proc["R"]
           rest == [me EXCEPT !.todo.both = @ \ {d}]
           c == GetContent(me.obj, d)
           push == me.dc.sync[d].md5 # CalcMd5(c) /\ (c = Empty => SyncDeletion)
<1>1. me \in ProcStates /\ me.pc = "sync" /\ d \in me.todo.both /\ me.todo.loc = {}
  BY DEF SteadyInv, TypeOK, Procs, RBoth
<1>2. rest \in ProcStates /\ rest.pc = "sync" /\ rest.obj = me.obj /\ rest.dc = me.dc
      /\ rest.todo.del = me.todo.del /\ rest.todo.loc = {} /\ rest.todo.both = me.todo.both \ {d}
  BY <1>1 DEF ProcStates, Todos
<1>3. c \in Texts
  BY <1>1, GetContentType DEF ProcStates
<1>4. \/ push /\ RPush(d, c, rest)
      \/ ~push /\ Become("R", rest) /\ UNCHANGED server
  BY DEF RBoth, GetSyncStatusByDataId
<1>5. UNCHANGED <<objVars, dcVars, listening, seen, pending, abandoned>>
  BY DEF RBoth
<1> HIDE DEF rest
<1>6. CASE RPush(d, c, rest)
  <2>1. Noticed(d)' /\ \E rec : /\ Become("R", rec)
                                /\ rec.pc = "sync" /\ rec.obj = rest.obj /\ rec.todo = rest.todo
                                /\ rec.dc.listen = rest.dc.listen
                                /\ \A e \in DataIds \ {d} :
                                      rec.dc.sync[e] = rest.dc.sync[e] /\ server'[e] = server[e]
    BY <1>1, <1>2, <1>3, <1>5, <1>6, RPushNotices
  <2> QED BY <1>1, <1>2, <1>5, <2>1, DealtWith
<1>7. CASE ~push /\ Become("R", rest) /\ UNCHANGED server
  <2>1. proc'["R"] = rest /\ proc'["C"] = proc["C"]
    BY <1>7, RGoes
  <2>2. LastSynced(d) = me.dc.sync[d] /\ LastSynced(d)' = me.dc.sync[d]
    BY <1>1, <1>2, <2>1 DEF LastSynced
  <2>3. /\ (Agree(d) => Agree(d)') /\ (Failed(d) => Failed(d)') /\ (Unseen(d) => Unseen(d)')
        /\ (Differs(d) => Differs(d)') /\ (Alert => Alert') /\ (Arriving(d) => Arriving(d)')
    BY <1>5, <1>7, <2>1, <2>2 DEF Agree, Failed, Unseen, Differs, Alert, Arriving, objVars
  <2>4. Differs(d) /\ Working(d) => Agree(d)
    BY <1>1, <1>7, <2>2, NotPushed
  <2>5. Noticed(d) \/ Arriving(d) => Noticed(d)' \/ Arriving(d)'
    BY <2>3, <2>4 DEF Noticed
  <2> QED BY <1>1, <1>2, <1>5, <1>7, <2>5, DealtWith
<1> QED BY <1>4, <1>6, <1>7

\* The digests R has gone by become those on record, or its pass is dropped.
LEMMA RStatusSteady ==
    ASSUME SteadyInv, RStatus
    PROVE  SteadyParts'
<1> DEFINE me == proc["R"]
           rest == [me EXCEPT !.pc = "update", !.dc = NewStatus, !.todo = NoTodo,
                              !.known = FALSE, !.err = FALSE]
           s == IF ~me.known THEN me.dc
                ELSE IF me.err THEN FailedStatus(me.dc) ELSE UpdateStatus(me.dc)
<1>1. me \in ProcStates /\ me.pc = "sync" /\ me.todo = NoTodo /\ me.dc \in Statuses /\ me.dc.listen = DataIds
  BY DEF SteadyInv, TypeOK, Procs, ProcStates, Shape, PassOfR, RStatus
<1>2. s.listen = me.dc.listen /\ s.sync = me.dc.sync
  BY <1>1 DEF FailedStatus, UpdateStatus, Statuses
<1>3. rest.pc = "update" /\ rest.obj = me.obj
  BY <1>1 DEF ProcStates
<1>4. \/ "R" \in dcHeld /\ DcUpdate("R", s, Idle) /\ UNCHANGED abandoned
      \/ "R" \notin dcHeld /\ DcKept("R", Idle) /\ abandoned' = TRUE
  BY DEF RStatus
<1>5. UNCHANGED <<objVars, dcCache, dcQueued, nacos>> /\ Become("R", rest)
  BY DEF RStatus
<1>6. /\ proc'["R"] = rest
      /\ proc'["C"] = proc["C"] /\ proc'["D"] = proc["D"] /\ proc'["F"] = proc["F"]
  BY <1>5, RGoes
<1> HIDE DEF rest, s
<1>7. \/ dc' = dc /\ dcHeld' \subseteq dcHeld
      \/ dc' = s /\ dcHeld' = {}
  BY <1>4 DEF DcUpdate, DcKept, Release, Idle
<1>8. Shape'
  BY <1>1, <1>2, <1>3, <1>5, <1>6, <1>7 DEF SteadyInv, Shape, PassOfR, objVars, nacos
<1>9. InFlight'
  BY <1>5, <1>6, KeepsInFlight DEF nacos
<1>10. HeldInv'
  <2>1. UNCHANGED <<objVars, dcCache>>
    BY <1>5
  <2> QED BY <1>1, <1>3, <1>6, <1>7, <2>1 DEF SteadyInv, HeldInv, Alert, objVars
<1>11. ASSUME "R" \in dcHeld, NEW d \in DataIds, Noticed(d) \/ Arriving(d)
       PROVE  Noticed(d)' \/ Arriving(d)'
  <2>1. LastSynced(d)' = LastSynced(d)
    <3>1. dc' = s
      BY <1>4, <1>11 DEF DcUpdate
    <3> QED BY <1>1, <1>2, <1>3, <1>6, <3>1 DEF LastSynced
  <2>2. (Agree(d) => Agree(d)') /\ (Failed(d) => Failed(d)') /\ (Unseen(d) => Unseen(d)')
        /\ (Differs(d) => Differs(d)') /\ (Alert => Alert') /\ (Arriving(d) => Arriving(d)')
    BY <1>5, <1>6, <2>1 DEF Agree, Failed, Unseen, Differs, Alert, Arriving, objVars, nacos
  <2>3. ~Working(d)
    BY <1>1 DEF Working, NoTodo
  <2> QED BY <1>11, <2>2, <2>3 DEF Noticed
<1>12. "R" \in dcHeld => ~Doomed /\ abandoned' = abandoned
  BY <1>4 DEF Doomed
<1>13. "R" \notin dcHeld => abandoned'
  BY <1>4
<1>14. KnownInv'
  BY <1>11, <1>12, <1>13 DEF SteadyInv, KnownInv
<1> QED BY <1>8, <1>9, <1>10, <1>14 DEF SteadyParts

\* An object that is not being deleted is not collected.
LEMMA LiveStays ==
    ASSUME NEW o, ~o.deleting
    PROVE  Collected(o) = o
BY DEF Collected

\* R's last write changes nothing, or is refused and the object is queued.
LEMMA RUpdateSteady ==
    ASSUME SteadyInv, RUpdate
    PROVE  SteadyParts'
<1> DEFINE me == proc["R"]
<1>1. me.pc = "update" /\ Live(me.obj) /\ Live(obj)
  BY DEF SteadyInv, Shape, RUpdate
<1>2. \/ ObjUpdateResult("R", me.obj) = "ok" /\ ObjUpdate("R", me.obj, Idle) /\ UNCHANGED objQueued
      \/ ObjKept("R", Idle) /\ objQueued' = TRUE
  BY <1>1 DEF RUpdate, Live
<1>3. UNCHANGED <<objCache, dc, dcCache, dcQueued, nacos, abandoned>> /\ dcHeld' = dcHeld \ {"R"}
  BY DEF RUpdate
<1>4. obj' = obj /\ objHeld' = objHeld \ {"R"} /\ Become("R", Idle)
  <2>1. CASE ObjUpdateResult("R", me.obj) = "ok" /\ ObjUpdate("R", me.obj, Idle)
    <3>1. me.obj = obj
      BY <1>1, <2>1, UpdateGuard DEF SteadyInv, HeldInv, Procs
    <3>2. Collected(obj) = obj
      BY <1>1, LiveStays DEF Live
    <3> QED BY <2>1, <3>1, <3>2 DEF ObjUpdate, Release, Idle
  <2>2. CASE ObjKept("R", Idle)
    BY <2>2 DEF ObjKept, Release, Idle
  <2> QED BY <1>2, <2>1, <2>2
<1>5. /\ proc'["R"] = Idle
      /\ proc'["C"] = proc["C"] /\ proc'["D"] = proc["D"] /\ proc'["F"] = proc["F"]
  BY <1>4, RGoes
<1>6. Idle.pc = "idle"
  BY DEF Idle
<1>7. Shape'
  BY <1>3, <1>4, <1>5, <1>6 DEF SteadyInv, Shape, PassOfR, nacos
<1>8. InFlight'
  BY <1>3, <1>5, KeepsInFlight DEF nacos
<1>9. Alert => Alert'
  BY <1>2, <1>4 DEF Alert
<1>10. HeldInv'
  BY <1>3, <1>4, <1>5, <1>6 DEF SteadyInv, HeldInv
<1>11. ASSUME NEW d \in DataIds, Noticed(d) \/ Arriving(d)
       PROVE  Noticed(d)' \/ Arriving(d)'
  <2>1. LastSynced(d)' = LastSynced(d)
    BY <1>1, <1>3, <1>5, <1>6 DEF LastSynced
  <2>2. (Agree(d) => Agree(d)') /\ (Failed(d) => Failed(d)') /\ (Unseen(d) => Unseen(d)')
        /\ (Differs(d) => Differs(d)') /\ (Arriving(d) => Arriving(d)')
    BY <1>3, <1>4, <1>5, <2>1 DEF Agree, Failed, Unseen, Differs, Arriving, nacos
  <2>3. ~Working(d)
    BY <1>1 DEF Working
  <2> QED BY <1>9, <1>11, <2>2, <2>3 DEF Noticed
<1>12. ~Doomed
  BY <1>1 DEF Doomed
<1> QED BY <1>3, <1>7, <1>8, <1>10, <1>11, <1>12 DEF SteadyInv, KnownInv, SteadyParts

-----------------------------------------------------------------------------
(* The callback. *)

\* C goes on, and nobody else.
LEMMA CGoes ==
    ASSUME SteadyInv, NEW rec, Become("C", rec)
    PROVE  /\ proc'["C"] = rec
           /\ proc'["R"] = proc["R"] /\ proc'["D"] = proc["D"] /\ proc'["F"] = proc["F"]
BY BecomeOthers DEF SteadyInv, Procs

\* What R and the SDK know of d, they still know.
LEMMA StillNoticed ==
    ASSUME NEW d \in DataIds, Noticed(d), proc'["R"] = proc["R"],
           server'[d] = server[d], seen'[d] = seen[d],
           obj'.data[d] = obj.data[d], obj'.binary[d] = obj.binary[d],
           dc'.sync[d] = dc.sync[d], Alert => Alert'
    PROVE  Noticed(d)'
<1>1. LastSynced(d)' = LastSynced(d)
  BY DEF LastSynced
<1>2. GetContent(obj', d) = GetContent(obj, d) /\ (d \in GetAllKeys(obj') <=> d \in GetAllKeys(obj))
  BY SlotsTell
<1>3. GetContent(obj, d)' = GetContent(obj', d) /\ GetAllKeys(obj)' = GetAllKeys(obj')
  BY DEF GetContent, GetAllKeys
<1>4. (Agree(d) => Agree(d)') /\ (Failed(d) => Failed(d)') /\ (Unseen(d) => Unseen(d)')
      /\ (Differs(d) => Differs(d)') /\ (Working(d) => Working(d)')
  BY <1>1, <1>2, <1>3 DEF Agree, Failed, Unseen, Differs, Working
<1> QED BY <1>4 DEF Noticed

\* The callback in flight is the only one.
LEMMA OneJob ==
    ASSUME SteadyInv, NEW n \in proc["C"].job, proc["C"].pc # "idle"
    PROVE  /\ pending = {} /\ proc["C"].job = {n} /\ n \in Callbacks
           /\ n.content = seen[n.id] /\ n.id \in DataIds /\ n.content \in Texts
<1>1. n \in Callbacks
  BY DEF SteadyInv, TypeOK, Procs, ProcStates
<1> QED BY <1>1 DEF SteadyInv, InFlight, Callbacks

\* The callback takes the object as it is and the status as it is cached.
LEMMA CStartSteady ==
    ASSUME SteadyInv, NEW n \in pending, CStart(n)
    PROVE  SteadyParts'
<1> DEFINE r == [Idle EXCEPT !.dc = dcCache, !.job = {n}]
           rec == [r EXCEPT !.pc = "store", !.obj = obj]
<1>1. Live(obj) /\ proc["C"].pc = "idle" /\ proc["C"].job = {}
  BY DEF SteadyInv, Shape, InFlight, CStart
<1>2. objHeld' = objHeld \cup {"C"} /\ Become("C", rec) /\ obj' = obj
  BY <1>1 DEF CStart, Reload, Loaded, Live
<1>3. pending = {n} /\ pending' = {} /\ dcHeld' = CacheRead(dcHeld, "C")
      /\ UNCHANGED <<objCache, objQueued, dc, dcCache, dcQueued, server, listening, seen, abandoned>>
  BY DEF CStart, SteadyInv, InFlight
<1>4. rec.pc = "store" /\ rec.obj = obj /\ rec.dc = dcCache /\ rec.job = {n}
  BY DEF Idle
<1>5. /\ proc'["C"] = rec
      /\ proc'["R"] = proc["R"] /\ proc'["D"] = proc["D"] /\ proc'["F"] = proc["F"]
  BY <1>2, CGoes
<1> HIDE DEF rec, r
<1>6. Shape'
  BY <1>1, <1>2, <1>3, <1>4, <1>5 DEF SteadyInv, Shape, PassOfR
<1>7. InFlight'
  BY <1>3, <1>4, <1>5 DEF SteadyInv, InFlight
<1>8. /\ \A h : h # "C" => (h \in objHeld' <=> h \in objHeld) /\ (h \in dcHeld' <=> h \in dcHeld)
      /\ "C" \in dcHeld' => "cache" \in dcHeld
  BY <1>2, <1>3 DEF CacheRead
<1>9. HeldInv'
  BY <1>2, <1>3, <1>4, <1>5, <1>8 DEF SteadyInv, HeldInv, Alert
<1>10. \A d \in DataIds : Noticed(d) => Noticed(d)'
  BY <1>2, <1>3, <1>5, <1>8, StillNoticed DEF Alert
<1>11. \A d \in DataIds : Arriving(d) => Arriving(d)'
  BY <1>1, <1>2, <1>3, <1>4, <1>5 DEF Arriving
<1>12. Doomed => Doomed'
  BY <1>5, <1>8 DEF Doomed
<1> QED BY <1>3, <1>6, <1>7, <1>9, <1>10, <1>11, <1>12 DEF SteadyInv, KnownInv, SteadyParts

\* C goes on without touching the object; a new version of the status makes the
\* one R works from an old one.
LEMMA CMoves ==
    ASSUME SteadyInv, NEW rec, ObjKept("C", rec), rec.pc \in {"idle", "flush"},
           rec.pc = "flush" => /\ Live(rec.obj)
                               /\ "C" \in objHeld =>
                                    \A n \in rec.job : rec.obj = StoreContent(obj, n.id, n.content),
           UNCHANGED <<objCache, objQueued, dcCache, dcQueued, server, listening, seen>>,
           dcHeld' \subseteq dcHeld, dc' = dc \/ dcHeld' = {}, dc'.listen = DataIds
    PROVE  /\ Shape' /\ HeldInv' /\ (Doomed => Doomed')
           /\ \A d \in DataIds : Noticed(d) /\ dc'.sync[d] = dc.sync[d] => Noticed(d)'
<1>1. /\ proc'["C"] = rec /\ obj' = obj
      /\ proc'["R"] = proc["R"] /\ proc'["D"] = proc["D"] /\ proc'["F"] = proc["F"]
  BY CGoes DEF ObjKept
<1>2. /\ \A h : h # "C" => (h \in objHeld' <=> h \in objHeld)
      /\ "C" \in objHeld' => "C" \in objHeld
  BY DEF ObjKept, Release
<1>3. Shape'
  BY <1>1 DEF SteadyInv, Shape, PassOfR
<1>4. HeldInv'
  <2>1. (Alert <=> Alert')
    BY <1>2 DEF Alert
  <2> QED BY <1>1, <1>2, <2>1 DEF SteadyInv, HeldInv
<1>5. Doomed => Doomed'
  BY <1>1 DEF Doomed
<1>6. \A d \in DataIds : Noticed(d) /\ dc'.sync[d] = dc.sync[d] => Noticed(d)'
  BY <1>1, <1>2, StillNoticed DEF Alert
<1> QED BY <1>3, <1>4, <1>5, <1>6

\* C's attempt is over: another one follows, or the change is dropped.
LEMMA Retried ==
    ASSUME SteadyInv, NEW n \in proc["C"].job, proc["C"].pc # "idle", Become("C", Idle),
           RetryOnConflict("C"), seen' = seen
    PROVE  /\ InFlight'
           /\ abandoned => abandoned'
           /\ \/ abandoned'
              \/ Arriving(n.id)'
<1>1. pending = {} /\ proc["C"].job = {n} /\ n \in Callbacks /\ n.content = seen[n.id]
  BY OneJob
<1>2. (CHOOSE m \in proc["C"].job : TRUE) = n
  BY <1>1
<1>3. proc'["C"].pc = "idle" /\ proc'["C"].job = {}
  BY CGoes DEF Idle
<1>4. CASE pending' = {[n EXCEPT !.left = @ - 1]} /\ UNCHANGED abandoned
  <2> DEFINE m == [n EXCEPT !.left = @ - 1]
  <2>1. m.id = n.id /\ m.content = n.content
    BY <1>1 DEF Callbacks
  <2>2. pending' = {m}
    BY <1>4
  <2> HIDE DEF m
  <2>3. InFlight'
    BY <1>1, <1>3, <2>1, <2>2 DEF InFlight
  <2>4. Arriving(n.id)'
    BY <2>1, <2>2 DEF Arriving
  <2> QED BY <1>4, <2>3, <2>4
<1>5. CASE abandoned' = TRUE /\ UNCHANGED pending
  BY <1>1, <1>3, <1>5 DEF InFlight
<1> QED BY <1>1, <1>2, <1>4, <1>5 DEF RetryOnConflict

\* C has found, or has brought, what the server had when the SDK last looked.
LEMMA UpToDate ==
    ASSUME NEW d \in DataIds,
           \/ GetContent(obj, d)' = Norm(seen[d])'
           \/ GetContent(obj, d)' = seen[d]'
           \/ seen[d]' = Empty /\ ~SyncDeletion
    PROVE  Noticed(d)'
<1>1. Unseen(d)' \/ server[d]' = seen[d]'
  BY DEF Unseen
<1>2. server[d]' = seen[d]' => Agree(d)'
  BY DEF Agree, Norm
<1> QED BY <1>1, <1>2 DEF Noticed

\* The callback finds its content in the object, leaves it out, or records its
\* digest, with which the status R may be working from becomes an old one.
LEMMA CStoreSteady ==
    ASSUME SteadyInv, NEW n \in proc["C"].job, CStore(n)
    PROVE  SteadyParts'
<1> DEFINE me == proc["C"]
           d == n.id
           ignored == Ignored(n.content)
           same    == CalcMd5(n.content) = CalcMd5(GetContent(me.obj, d))
           s == IF ignored THEN UpdateSyncStatusIfAbsent(me.dc, d, CalcMd5(Empty), TRUE)
                           ELSE UpdateSyncStatus(me.dc, d, CalcMd5(n.content), TRUE)
           toFlush == [me EXCEPT !.pc = "flush", !.dc = NewStatus,
                                 !.obj = StoreContent(@, d, n.content)]
           written == IF ignored THEN Idle ELSE toFlush
<1>1. me \in ProcStates /\ me.pc = "store" /\ me.obj \in Objects /\ me.dc \in Statuses
      /\ Live(me.obj) /\ me.dc.listen = DataIds
  BY DEF SteadyInv, TypeOK, Procs, ProcStates, Shape, CStore
<1>2. /\ pending = {} /\ me.job = {n} /\ n.content = seen[d] /\ d \in DataIds /\ n.content \in Texts
  BY <1>1, OneJob
<1>3. UNCHANGED <<objCache, objQueued, dcCache, dcQueued, server, listening, seen>>
  BY DEF CStore
<1>4. Idle.pc = "idle" /\ Idle.job = {}
  BY DEF Idle
<1>5. \A e \in DataIds : Noticed(e) \/ e = d \/ abandoned \/ Doomed
  BY <1>2 DEF SteadyInv, KnownInv, Arriving
<1>6. CASE /\ ~ignored /\ (same \/ ~CanStore(n.content))
           /\ ObjKept("C", Idle) /\ DcKept("C", Idle)
           /\ abandoned' = (abandoned \/ ~same)
           /\ UNCHANGED pending
  <2>1. dc' = dc /\ dcHeld' \subseteq dcHeld /\ dc'.listen = DataIds
    BY <1>6 DEF DcKept, Release, SteadyInv, Shape
  <2>2. /\ Shape' /\ HeldInv' /\ (Doomed => Doomed')
        /\ \A e \in DataIds : Noticed(e) /\ dc'.sync[e] = dc.sync[e] => Noticed(e)'
    BY <1>3, <1>4, <1>6, <2>1, CMoves
  <2>3. InFlight'
    <3>1. proc'["C"] = Idle
      BY <1>6, CGoes DEF ObjKept
    <3> QED BY <1>2, <1>4, <1>6, <3>1 DEF InFlight
  <2>4. ASSUME Arriving(d), same
        PROVE  Noticed(d)'
    <3>1. GetContent(obj, d) = n.content
      BY <1>1, <1>2, <2>4, Md5Injective DEF Arriving
    <3>2. GetContent(obj, d)' = seen[d]'
      BY <1>2, <1>3, <1>6, <3>1 DEF ObjKept
    <3> QED BY <1>2, <3>2, UpToDate
  <2>5. KnownInv'
    BY <1>5, <1>6, <2>1, <2>2, <2>4 DEF SteadyInv, KnownInv
  <2> QED BY <2>2, <2>3, <2>5 DEF SteadyParts
<1>7. CASE /\ ignored \/ (~same /\ CanStore(n.content))
           /\ "C" \in dcHeld
           /\ ObjKept("C", written) /\ DcUpdate("C", s, Idle)
           /\ UNCHANGED <<pending, abandoned>>
  <2>1. s.listen = DataIds /\ \A e \in DataIds \ {d} : s.sync[e] = dc.sync[e]
    <3>1. me.dc = dc
      BY <1>1, <1>7 DEF SteadyInv, HeldInv
    <3> QED BY <1>1, <1>2, <3>1 DEF UpdateSyncStatusIfAbsent, UpdateSyncStatus, Statuses
  <2>2. /\ toFlush.pc = "flush" /\ toFlush.obj = StoreContent(me.obj, d, n.content)
        /\ toFlush.job = {n}
    BY <1>1, <1>2 DEF ProcStates
  <2> HIDE DEF s, toFlush
  <2>3. dc' = s /\ dcHeld' \subseteq dcHeld /\ (dc' = dc \/ dcHeld' = {})
    BY <1>4, <1>7 DEF DcUpdate, Release
  <2>4. ~ignored => Live(toFlush.obj)
    BY <1>1, <1>2, <2>2 DEF Live, StoreContent, Objects
  <2>5. written.pc \in {"idle", "flush"}
        /\ (written.pc = "flush" => written = toFlush)
        /\ (written.pc = "flush" => ~ignored)
    BY <1>4, <2>2
  <2>6. "C" \in objHeld => me.obj = obj
    BY <1>1 DEF SteadyInv, HeldInv
  <2>7. written.pc = "flush" => /\ Live(written.obj)
                                /\ "C" \in objHeld =>
                                     \A m \in written.job : written.obj = StoreContent(obj, m.id, m.content)
    BY <2>2, <2>4, <2>5, <2>6
  <2>8. /\ Shape' /\ HeldInv' /\ (Doomed => Doomed')
        /\ \A e \in DataIds : Noticed(e) /\ dc'.sync[e] = dc.sync[e] => Noticed(e)'
    <3> HIDE DEF written
    <3> QED BY <1>3, <1>7, <2>1, <2>3, <2>5, <2>7, CMoves
  <2>9. proc'["C"] = written
    BY <1>7, CGoes DEF ObjKept
  <2>10. InFlight'
    BY <1>2, <1>3, <1>4, <1>7, <2>2, <2>5, <2>9 DEF InFlight
  <2>11. Noticed(d)' \/ Arriving(d)'
    <3>1. CASE ignored
      <4>1. seen[d]' = Empty /\ ~SyncDeletion
        BY <1>2, <1>3, <3>1 DEF Ignored
      <4> QED BY <1>2, <4>1, UpToDate
    <3>2. CASE ~ignored
      BY <2>2, <2>9, <3>2 DEF Arriving
    <3> QED BY <3>1, <3>2
  <2>12. KnownInv'
    BY <1>5, <1>7, <2>1, <2>3, <2>8, <2>11 DEF KnownInv
  <2> QED BY <2>8, <2>10, <2>12 DEF SteadyParts
<1>8. CASE /\ ObjKept("C", Idle) /\ DcKept("C", Idle)
           /\ RetryOnConflict("C")
  <2>1. dc' = dc /\ dcHeld' \subseteq dcHeld /\ dc'.listen = DataIds
    BY <1>8 DEF DcKept, Release, SteadyInv, Shape
  <2>2. /\ Shape' /\ HeldInv' /\ (Doomed => Doomed')
        /\ \A e \in DataIds : Noticed(e) /\ dc'.sync[e] = dc.sync[e] => Noticed(e)'
    BY <1>3, <1>4, <1>8, <2>1, CMoves
  <2>3. InFlight' /\ (abandoned => abandoned') /\ (abandoned' \/ Arriving(d)')
    BY <1>1, <1>3, <1>8, Retried DEF ObjKept
  <2> QED BY <1>5, <2>1, <2>2, <2>3 DEF KnownInv, SteadyParts
<1> QED BY <1>6, <1>7, <1>8 DEF CStore

\* The callback's content reaches the object, or the attempt is repeated.
LEMMA CFlushSteady ==
    ASSUME SteadyInv, CFlush
    PROVE  SteadyParts'
<1> DEFINE me == proc["C"]
<1>1. me.pc = "flush" /\ Live(obj) /\ Live(me.obj)
  BY DEF SteadyInv, Shape, CFlush
<1>2. PICK n : n \in me.job
  BY <1>1 DEF SteadyInv, InFlight
<1> DEFINE d == n.id
<1>3. /\ pending = {} /\ me.job = {n} /\ n.content = seen[d] /\ d \in DataIds /\ n.content \in Texts
      /\ CanStore(n.content)
  BY <1>1, <1>2, OneJob DEF SteadyInv, InFlight
<1>4. UNCHANGED <<objCache, objQueued, dcVars, server, listening, seen>>
  BY DEF CFlush
<1>5. Idle.pc = "idle" /\ Idle.job = {}
  BY DEF Idle
<1>6. \A e \in DataIds : Noticed(e) \/ e = d \/ abandoned \/ Doomed
  BY <1>3 DEF SteadyInv, KnownInv, Arriving
<1>7. CASE /\ ObjUpdateResult("C", me.obj) = "ok" /\ ObjUpdate("C", me.obj, Idle)
           /\ UNCHANGED <<pending, abandoned>>
  <2>1. "C" \in objHeld /\ Valid(me.obj)
    BY <1>7 DEF ObjUpdateResult
  <2>2. me.obj = StoreContent(obj, d, n.content)
    BY <1>1, <1>2, <2>1 DEF SteadyInv, HeldInv
  <2>3. obj' = me.obj /\ Become("C", Idle)
    BY <1>1, <1>7, LiveStays DEF ObjUpdate, Live
  <2>4. \/ obj' = obj /\ objHeld' = objHeld \ {"C"}
        \/ objHeld' = {}
    BY <1>5, <1>7, <2>3 DEF ObjUpdate, Release
  <2>5. /\ proc'["C"] = Idle
        /\ proc'["R"] = proc["R"] /\ proc'["D"] = proc["D"] /\ proc'["F"] = proc["F"]
    BY <2>3, CGoes
  <2>6. Shape'
    BY <1>1, <1>4, <1>5, <2>3, <2>5 DEF SteadyInv, Shape, PassOfR, dcVars
  <2>7. InFlight'
    BY <1>3, <1>5, <1>7, <2>5 DEF InFlight
  <2>8. Alert => Alert'
    BY <1>4, <2>4 DEF Alert
  <2>9. HeldInv'
    <3>1. CASE obj' = obj /\ objHeld' = objHeld \ {"C"}
      BY <1>4, <1>5, <2>5, <2>8, <3>1 DEF SteadyInv, HeldInv, dcVars
    <3>2. CASE objHeld' = {}
      BY <1>4, <1>5, <2>5, <3>2 DEF SteadyInv, HeldInv, Alert, dcVars
    <3> QED BY <2>4, <3>1, <3>2
  <2>10. obj \in Objects
    BY DEF SteadyInv, TypeOK
  <2>11. \A e \in DataIds \ {d} : obj'.data[e] = obj.data[e] /\ obj'.binary[e] = obj.binary[e]
    BY <1>3, <2>2, <2>3, <2>10, StoreContentSlots
  <2>12. \A e \in DataIds \ {d} : Noticed(e) => Noticed(e)'
    BY <1>4, <2>5, <2>8, <2>11, StillNoticed DEF dcVars
  <2>13. Noticed(d)'
    <3>1. GetContent(me.obj, d) = Norm(n.content)
      BY <1>3, <2>1, <2>2, <2>10, StoreContentSlots
    <3>2. GetContent(obj, d)' = GetContent(me.obj, d)
      BY <2>3 DEF GetContent
    <3>3. GetContent(obj, d)' = Norm(seen[d])'
      BY <1>3, <1>4, <3>1, <3>2
    <3> QED BY <1>3, <3>3, UpToDate
  <2>14. Doomed => Doomed'
    BY <1>4, <2>5 DEF Doomed, dcVars
  <2> QED BY <1>6, <1>7, <2>6, <2>7, <2>9, <2>12, <2>13, <2>14 DEF KnownInv, SteadyParts
<1>8. CASE ObjKept("C", Idle) /\ (RetryOnConflict("C") \/ (abandoned' = TRUE /\ UNCHANGED pending))
  <2>1. dc' = dc /\ dcHeld' \subseteq dcHeld /\ dc'.listen = DataIds
    BY <1>4 DEF dcVars, SteadyInv, Shape
  <2>2. UNCHANGED <<objCache, objQueued, dcCache, dcQueued, server, listening, seen>>
    BY <1>4 DEF dcVars
  <2>3. /\ Shape' /\ HeldInv' /\ (Doomed => Doomed')
        /\ \A e \in DataIds : Noticed(e) /\ dc'.sync[e] = dc.sync[e] => Noticed(e)'
    BY <1>5, <1>8, <2>1, <2>2, CMoves
  <2>4. InFlight' /\ (abandoned => abandoned') /\ (abandoned' \/ Arriving(d)')
    <3>1. CASE RetryOnConflict("C")
      BY <1>1, <1>2, <1>8, <2>2, <3>1, Retried DEF ObjKept
    <3>2. CASE abandoned' = TRUE /\ UNCHANGED pending
      <4>1. proc'["C"] = Idle
        BY <1>8, CGoes DEF ObjKept
      <4> QED BY <1>3, <1>5, <3>2, <4>1 DEF InFlight
    <3> QED BY <1>8, <3>1, <3>2
  <2> QED BY <1>6, <2>1, <2>3, <2>4 DEF KnownInv, SteadyParts
<1> QED BY <1>7, <1>8 DEF CFlush

-----------------------------------------------------------------------------
(* The environment. *)

\* A cache catches up; that of the objects queues the object.
LEMMA InformersSteady ==
    ASSUME SteadyInv, ObjInformer \/ DcInformer
    PROVE  SteadyParts'
<1>1. UNCHANGED <<obj, dc, dcQueued, nacos, proc, abandoned>>
  BY DEF ObjInformer, DcInformer, objVars, dcVars
<1>2. /\ \A h : h # "cache" => (h \in objHeld' <=> h \in objHeld) /\ (h \in dcHeld' <=> h \in dcHeld)
      /\ objCache' = obj \/ (objCache' = objCache /\ objHeld' = objHeld)
      /\ dcCache' = dc \/ (dcCache' = dcCache /\ dcHeld' = dcHeld)
      /\ objQueued' \/ (objQueued' = objQueued /\ objHeld' = objHeld)
  BY DEF ObjInformer, DcInformer, objVars, dcVars, SteadyInv, TypeOK
<1>3. Alert => Alert'
  BY <1>2 DEF Alert
<1>4. Shape'
  BY <1>1, <1>2 DEF SteadyInv, Shape, PassOfR, nacos
<1>5. InFlight'
  BY <1>1 DEF SteadyInv, InFlight, nacos
<1>6. HeldInv'
  BY <1>1, <1>2, <1>3 DEF SteadyInv, HeldInv
<1>7. \A d \in DataIds : Noticed(d) => Noticed(d)'
  BY <1>1, <1>3, StillNoticed DEF nacos
<1>8. \A d \in DataIds : Arriving(d) => Arriving(d)'
  BY <1>1 DEF Arriving, nacos
<1>9. Doomed => Doomed'
  BY <1>1, <1>2 DEF Doomed
<1> QED BY <1>1, <1>4, <1>5, <1>6, <1>7, <1>8, <1>9 DEF SteadyInv, KnownInv, SteadyParts

\* The SDK starts a callback only when none is in flight.
LEMMA NoneInFlight ==
    ASSUME Steady, SteadyInv, Cardinality(pending) + Cardinality(proc["C"].job) < MaxInFlight
    PROVE  pending = {} /\ proc["C"].job = {}
<1>1. ASSUME NEW S, \A m, n \in S : m = n, S # {}
      PROVE  Cardinality(S) = 1
  <2>1. PICK x : x \in S
    BY <1>1
  <2>2. S = {x}
    BY <1>1, <2>1
  <2> QED BY <2>2, FS_Singleton
<1>2. Cardinality({}) = 0
  BY FS_EmptySet
<1>3. Cardinality(pending) \in {0, 1} /\ Cardinality(proc["C"].job) \in {0, 1}
  BY <1>1, <1>2 DEF SteadyInv, InFlight
<1>4. Cardinality(pending) = 0 /\ Cardinality(proc["C"].job) = 0
  BY <1>3 DEF Steady
<1>5. pending # {} => Cardinality(pending) = 1
  BY <1>1 DEF SteadyInv, InFlight
<1>6. proc["C"].job # {} => Cardinality(proc["C"].job) = 1
  BY <1>1 DEF SteadyInv, InFlight
<1> QED BY <1>4, <1>5, <1>6

\* What the SDK has seen a callback now carries.
LEMMA NotifySteady ==
    ASSUME Steady, SteadyInv, NEW d \in DataIds, Notify(d)
    PROVE  SteadyParts'
<1> DEFINE n == [id |-> d, content |-> server[d], left |-> RetrySteps]
<1>1. pending = {} /\ proc["C"].job = {}
  BY NoneInFlight DEF Notify
<1>2. pending' = {n} /\ seen' = [seen EXCEPT ![d] = server[d]]
      /\ UNCHANGED <<objVars, dcVars, server, listening, proc, abandoned>>
  BY <1>1 DEF Notify
<1>3. n.id = d /\ n.content = server[d]
  OBVIOUS
<1> HIDE DEF n
<1>4. seen'[d] = server[d] /\ \A e \in DataIds \ {d} : seen'[e] = seen[e]
  BY <1>2 DEF SteadyInv, TypeOK
<1>5. Shape'
  BY <1>2 DEF SteadyInv, Shape, PassOfR, objVars, dcVars
<1>6. InFlight'
  BY <1>1, <1>2, <1>3, <1>4 DEF SteadyInv, InFlight
<1>7. HeldInv'
  BY <1>2 DEF SteadyInv, HeldInv, Alert, objVars, dcVars
<1>8. \A e \in DataIds \ {d} : Noticed(e) => Noticed(e)'
  BY <1>2, <1>4, StillNoticed DEF Alert, objVars, dcVars
<1>9. Arriving(d)' /\ \A e \in DataIds : ~Arriving(e)
  BY <1>1, <1>2, <1>3 DEF Arriving
<1>10. Doomed => Doomed'
  BY <1>2 DEF Doomed, dcVars
<1> QED BY <1>2, <1>5, <1>6, <1>7, <1>8, <1>9, <1>10 DEF SteadyInv, KnownInv, SteadyParts

\* A user's edit of the object is noticed by its digest.
LEMMA FreshIsNoticed ==
    ASSUME SteadyInv, NEW d \in DataIds, UNCHANGED <<server, seen, dc, proc>>, Alert', ops' # ops, FreshEdit,
           Noticed(d) \/ Arriving(d), UNCHANGED pending
    PROVE  Noticed(d)' \/ Arriving(d)'
<1>1. LastSynced(d)' = LastSynced(d)
  BY DEF LastSynced
<1>2. GetContent(obj, d)' = GetContent(obj', d) /\ GetAllKeys(obj)' = GetAllKeys(obj')
  BY DEF GetContent, GetAllKeys
<1>3. CASE d \notin GetAllKeys(obj')
  BY <1>2, <1>3 DEF Noticed, Differs
<1>4. CASE d \in GetAllKeys(obj') /\ d \in GetAllKeys(obj) /\ GetContent(obj', d) = GetContent(obj, d)
  <2>1. (Agree(d) => Agree(d)') /\ (Failed(d) => Failed(d)') /\ (Unseen(d) => Unseen(d)')
        /\ (Differs(d) => Differs(d)') /\ (Arriving(d) => Arriving(d)')
    BY <1>1, <1>2, <1>4 DEF Agree, Failed, Unseen, Differs, Arriving
  <2> QED BY <2>1 DEF Noticed
<1>5. CASE d \in GetAllKeys(obj') /\ (d \in GetAllKeys(obj) => GetContent(obj', d) # GetContent(obj, d))
  <2>1. \/ GetContent(obj', d) = server[d]
        \/ LastSynced(d).md5 # CalcMd5(GetContent(obj', d))
        \/ LastSynced(d).state = "failed"
    BY <1>5 DEF FreshEdit
  <2>2. Agree(d)' \/ Differs(d)' \/ Failed(d)'
    BY <1>1, <1>2, <2>1 DEF Agree, Differs, Failed
  <2> QED BY <2>2 DEF Noticed
<1> QED BY <1>3, <1>4, <1>5

\* A user edits the object, and the informer has still to tell.
LEMMA EditLocalSteady ==
    ASSUME SteadyInv, NEW d \in DataIds, NEW v \in LocalEdits, EditLocal(d, v), FreshEdit
    PROVE  SteadyParts'
<1>1. /\ obj' = UserPut(obj, d, v) /\ objHeld' = {}
      /\ UNCHANGED <<objCache, objQueued, dcVars, nacos, proc, abandoned>>
  BY DEF EditLocal
<1>2. ops' # ops
  <2>1. ops \in Nat /\ ops' = ops + 1
    BY DEF EditLocal, UserOp, SteadyInv, TypeOK
  <2> QED BY <2>1
<1>3. obj \in Objects
  BY DEF SteadyInv, TypeOK
<1>4. Live(obj)' /\ Alert'
  BY <1>1, <1>3 DEF SteadyInv, Shape, Live, Alert, UserPut, Objects
<1>5. Shape'
  BY <1>1, <1>4 DEF SteadyInv, Shape, PassOfR, dcVars, nacos
<1>6. InFlight'
  BY <1>1 DEF SteadyInv, InFlight, nacos
<1>7. HeldInv'
  BY <1>1, <1>4 DEF SteadyInv, HeldInv, dcVars
<1>8. \A e \in DataIds : Noticed(e) \/ Arriving(e) => Noticed(e)' \/ Arriving(e)'
  BY <1>1, <1>2, <1>4, FreshIsNoticed DEF dcVars, nacos
<1>9. Doomed => Doomed'
  BY <1>1 DEF Doomed, dcVars
<1> QED BY <1>1, <1>5, <1>6, <1>7, <1>8, <1>9 DEF SteadyInv, KnownInv, SteadyParts

\* A user edits the server, and the SDK has still to see it.
LEMMA EditServerSteady ==
    ASSUME Steady, SteadyInv, NEW d \in DataIds, NEW c \in ServerEdits, EditServer(d, c)
    PROVE  SteadyParts'
<1>1. /\ server' = [server EXCEPT ![d] = c] /\ server[d] # c /\ seen[d] = server[d]
      /\ UNCHANGED <<objVars, dcVars, listening, seen, pending, proc, abandoned>>
  BY DEF EditServer, Steady, SteadyInv, Shape
<1>2. server'[d] = c /\ \A e \in DataIds \ {d} : server'[e] = server[e]
  BY <1>1 DEF SteadyInv, TypeOK
<1>3. Shape'
  BY <1>1 DEF SteadyInv, Shape, PassOfR, objVars, dcVars
<1>4. InFlight'
  BY <1>1 DEF SteadyInv, InFlight
<1>5. HeldInv'
  BY <1>1 DEF SteadyInv, HeldInv, Alert, objVars, dcVars
<1>6. Noticed(d)'
  BY <1>1, <1>2 DEF Noticed, Unseen
<1>7. \A e \in DataIds \ {d} : Noticed(e) => Noticed(e)'
  BY <1>1, <1>2, StillNoticed DEF Alert, objVars, dcVars
<1>8. \A e \in DataIds : Arriving(e) => Arriving(e)'
  BY <1>1 DEF Arriving, objVars
<1>9. Doomed => Doomed'
  BY <1>1 DEF Doomed, dcVars
<1> QED BY <1>1, <1>3, <1>4, <1>5, <1>6, <1>7, <1>8, <1>9 DEF SteadyInv, KnownInv, SteadyParts

-----------------------------------------------------------------------------
(* The inductive invariant. *)

\* After the initial sync the two sides agree and nobody is at work.
LEMMA InitSteady ==
    ASSUME Steady, Init
    PROVE  SteadyInv
<1>1. TypeOK /\ CallbackHasJob /\ FoundStorable
  BY InitType DEF Init, CallbackHasJob, FoundStorable, Idle, Procs
<1>2. /\ Live(obj) /\ GetAllKeys(obj) = DataIds /\ objCache = obj /\ dcCache = dc
      /\ dc = SyncedStatus(obj) /\ server = [d \in DataIds |-> GetContent(obj, d)]
      /\ listening = GetAllKeys(obj) /\ ~dcQueued /\ pending = {}
  BY SyncAssumption DEF Init, Steady, Live
<1>3. dc.listen = DataIds
  BY <1>2 DEF SyncedStatus
<1>4. \A p \in Procs : proc[p].pc = "idle" /\ proc[p].job = {}
  BY DEF Init, Idle
<1>5. Shape
  BY <1>2, <1>3, <1>4 DEF Shape, PassOfR, Procs
<1>6. InFlight
  BY <1>2, <1>4 DEF InFlight, Procs
<1>7. HeldInv
  BY <1>2, <1>4 DEF HeldInv, Procs
<1>8. KnownInv
  BY <1>2 DEF KnownInv, Noticed, Agree
<1> QED BY <1>1, <1>5, <1>6, <1>7, <1>8 DEF SteadyInv

\* A step that changes nothing.
LEMMA StutterSteady ==
    ASSUME SteadyInv, UNCHANGED vars
    PROVE  SteadyParts'
<1>1. UNCHANGED <<obj, objCache, objHeld, objQueued, dc, dcCache, dcHeld, dcQueued,
                  server, listening, seen, pending, proc, abandoned>>
  BY DEF vars, objVars, dcVars, nacos
<1>2. Shape' /\ InFlight' /\ HeldInv'
  BY <1>1 DEF SteadyInv, Shape, PassOfR, InFlight, HeldInv, Alert
<1>3. \A d \in DataIds : Noticed(d) => Noticed(d)'
  BY <1>1, StillNoticed DEF Alert
<1>4. \A d \in DataIds : Arriving(d) => Arriving(d)'
  BY <1>1 DEF Arriving
<1>5. Doomed => Doomed'
  BY <1>1 DEF Doomed
<1> QED BY <1>1, <1>2, <1>3, <1>4, <1>5 DEF SteadyInv, KnownInv, SteadyParts

\* Every step preserves the inductive invariant.
LEMMA SteadyStep ==
    ASSUME Steady, SteadyInv, [Next /\ FreshEdit]_vars
    PROVE  SteadyInv'
<1>1. [Next]_vars
  OBVIOUS
<1>2. TypeOK' /\ CallbackHasJob' /\ FoundStorable'
  BY <1>1, TypeStep, CallbackHasJobStep, FoundStorableStep DEF SteadyInv
<1>3. SteadyParts'
  <2>1. CASE RStart \/ RList \/ RStatus \/ RUpdate \/ \E d \in DataIds : RDelete(d) \/ RBoth(d)
    BY <2>1, RStartSteady, RListSteady, RStatusSteady, RUpdateSteady, RDeleteSteady, RBothSteady
  <2>2. CASE (\E n \in pending : CStart(n)) \/ (\E n \in proc["C"].job : CStore(n)) \/ CFlush
    BY <2>2, CStartSteady, CStoreSteady, CFlushSteady
  <2>3. CASE Delivery
    BY <2>3, InformersSteady, NotifySteady DEF Delivery
  <2>4. CASE \E d \in DataIds : \/ \E v \in LocalEdits : EditLocal(d, v)
                                \/ \E c \in ServerEdits : EditServer(d, c)
    <3>1. PICK d \in DataIds : \/ \E v \in LocalEdits : EditLocal(d, v)
                               \/ \E c \in ServerEdits : EditServer(d, c)
      BY <2>4
    <3>2. CASE UNCHANGED vars
      BY <3>2, StutterSteady
    <3>3. CASE FreshEdit
      BY <3>1, <3>3, EditLocalSteady, EditServerSteady
    <3> QED BY <3>2, <3>3
  <2>5. CASE UNCHANGED vars
    BY <2>5, StutterSteady
  <2> QED BY <1>1, <2>1, <2>2, <2>3, <2>4, <2>5, NothingElse
<1> QED BY <1>2, <1>3 DEF SteadyInv, SteadyParts

\* At rest nobody is left who could know of a disagreement.
LEMMA SteadyAtRest ==
    ASSUME SteadyInv
    PROVE  ConsistentAtRest
<1> SUFFICES ASSUME Quiescent, ~abandoned PROVE Consistent
  BY DEF ConsistentAtRest, Consistent
<1>1. /\ proc["R"].pc = "idle" /\ proc["C"].pc = "idle" /\ ~Alert /\ pending = {}
      /\ \A d \in DataIds : ~Unseen(d)
  BY DEF Quiescent, Procs, Alert, Unseen, SteadyInv, Shape
<1>2. ~Doomed /\ \A d \in DataIds : ~Working(d)
  BY <1>1 DEF Doomed, Working
<1>3. \A d \in DataIds : ~Arriving(d)
  BY <1>1 DEF Arriving, SteadyInv, InFlight
<1>4. \A d \in DataIds : Agree(d) \/ dc.sync[d].state = "failed"
  BY <1>1, <1>2, <1>3 DEF SteadyInv, KnownInv, Noticed, Failed, LastSynced
<1>5. GetAllKeys(obj) \cup listening \subseteq DataIds
  BY DEF GetAllKeys, SteadyInv, TypeOK
<1> QED BY <1>4, <1>5 DEF Consistent

\* Whenever the reconciler, the callbacks, the queues and the informers have come
\* to rest after any edits of either side, failing calls, conflicts and retries,
\* the object and the Nacos server agree on every data id, unless the status
\* reports it as failed or a handler has logged an error and dropped its work.
\* For objects of any size, of either kind and with any contents, with and
\* without syncDeletion, once the initial sync is over, as long as no restart, no
\* deletion of the object and no user who puts an old content back interferes.
THEOREM SteadyIsConsistent == Steady => (FreshSpec => []ConsistentAtRest)
<1>1. Steady /\ Init => SteadyInv
  BY InitSteady
<1>2. Steady /\ SteadyInv /\ [Next /\ FreshEdit]_vars => SteadyInv'
  BY SteadyStep
<1>3. SteadyInv => ConsistentAtRest
  BY SteadyAtRest
<1>4. SUFFICES ASSUME Steady PROVE FreshSpec => []ConsistentAtRest
  OBVIOUS
<1> QED BY <1>1, <1>2, <1>3, <1>4, PTL DEF FreshSpec
=============================================================================
