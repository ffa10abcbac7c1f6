----------------------------- MODULE PolicyProofs -----------------------------
(***************************************************************************)
(* Under preferCluster the initial sync keeps what the cluster has: until  *)
(* a user acts, no content of the object is replaced by another, whatever  *)
(* the four handlers, restarts and failing calls do.                       *)
(*                                                                         *)
(* A data id is in one of two situations, and stays in it.  Either the     *)
(* object has had a content from the start (Owned): then every copy of the *)
(* object has it, and the server has it too before anybody listens.  Or    *)
(* the object had none (Taken): then what the copies, the callbacks and F  *)
(* have is what the server has, as it reads once it has been stored.  With *)
(* syncDeletion a data id of the second kind may be taken for one that the *)
(* user has deleted, and its content is lost and found again: there the    *)
(* policy keeps only what the object had from the start.                   *)
(***************************************************************************)
EXTENDS ContentProofs

\* The stages in which a handler has no copy of the object.
Parked == {"idle", "create", "status", "check", "load"}

\* The content c as the object returns it once it has been stored.
Norm(c) == IF Kind = "Secret" /\ c \in Base64 THEN Canonical[c] ELSE c

\* The object is there to stay, and the handlers know it.
Undisturbed ==
    /\ obj.exists /\ ~obj.deleting /\ objCache.exists /\ ~objCache.deleting
    /\ \A p \in Procs :
          /\ proc[p].pc # "create"
          /\ proc[p].pc \notin Parked => proc[p].obj.exists /\ ~proc[p].obj.deleting
    /\ proc["F"].pc = "write" => proc["F"].known

\* Somebody listens to d, or has a status that says so.
Watched(d) ==
    \/ d \in listening \cup dc.listen \cup dcCache.listen
    \/ \E p \in Procs : d \in proc[p].dc.listen

\* A handler in state r knows of no other content of d than l, unless it is F
\* that has yet to look at what its search has found.
OwnedBy(r, d, l) ==
    /\ r.pc \notin Parked => GetContent(r.obj, d) = l
    /\ \A n \in r.job : n.id = d => r.pc = "check" \/ (n.content = l /\ r.pc # "load")
    /\ d \notin r.todo.del

\* The content of d is the object's own.
Owned(d) ==
    /\ GetContent(obj, d) # Empty
    /\ GetContent(objCache, d) = GetContent(obj, d)
    /\ Watched(d) => server[d] = GetContent(obj, d)
    /\ \A n \in pending : n.id = d => n.content = GetContent(obj, d)
    /\ \A p \in Procs : OwnedBy(proc[p], d, GetContent(obj, d))

\* A handler in state r knows of no other content of d than one that reads v.
TakenBy(r, d, v) ==
    /\ r.pc \notin Parked => GetContent(r.obj, d) \in {Empty, v}
    /\ d \in r.id => Norm(r.read) \in {Empty, v}
    /\ \A n \in r.job : n.id = d => Norm(n.content) \in {Empty, v}

\* The content of d, if there is one, is the server's.
Taken(d) ==
    /\ GetContent(obj, d) \in {Empty, Norm(server[d])}
    /\ GetContent(objCache, d) \in {Empty, Norm(server[d])}
    /\ \A n \in pending : n.id = d => Norm(n.content) \in {Empty, Norm(server[d])}
    /\ \A p \in Procs : TakenBy(proc[p], d, Norm(server[d]))

\* The inductive invariant, until a user acts.
PolicyInv ==
    PreferCluster /\ ops = 0 =>
        Undisturbed /\ \A d \in DataIds : Owned(d) \/ (~SyncDeletion /\ Taken(d))

\* What a step of the controller does for d.
Kept(d) ==
    /\ Owned(d) => Owned(d)' /\ GetContent(obj', d) = GetContent(obj, d)
    /\ ~SyncDeletion /\ Taken(d) => Taken(d)' /\ Norm(server'[d]) = Norm(server[d])

-----------------------------------------------------------------------------
(* Contents. *)

LEMMA NormFacts ==
    /\ Norm(Empty) = Empty
    /\ \A c : Norm(Norm(c)) = Norm(c)
BY ContentAssumption DEF Norm

\* What StoreContent leaves under each key.
LEMMA StoreContentReads ==
    ASSUME NEW o \in Objects, NEW e \in DataIds, NEW c \in Texts, CanStore(c), NEW d \in DataIds
    PROVE  /\ d # e => GetContent(StoreContent(o, e, c), d) = GetContent(o, d)
           /\ GetContent(StoreContent(o, e, c), e) \in {GetContent(o, e), Norm(c)}
<1>1. c # Absent /\ Empty # Absent
  BY ContentAssumption DEF Texts
<1>2. CASE Kind = "Secret"
  <2>1. Norm(c) = IF c = Empty THEN Empty ELSE Canonical[c]
    BY <1>2, ContentAssumption DEF CanStore, Norm
  <2>2. Norm(c) # Absent
    BY <1>1, <1>2, <2>1, ContentAssumption DEF CanStore
  <2>3. StoreContent(o, e, c) = [o EXCEPT !.data[e] = Norm(c)]
    BY <1>2, <2>1 DEF StoreContent
  <2> QED BY <2>2, <2>3 DEF GetContent, Objects
<1>3. CASE Kind # "Secret"
  <2>1. Norm(c) = c
    BY <1>3 DEF Norm
  <2>2. CASE c \in Json
    <3>1. StoreContent(o, e, c) = [o EXCEPT !.binary[e] = c]
      BY <1>3, <2>2 DEF StoreContent
    <3> QED BY <1>1, <2>1, <3>1 DEF GetContent, Objects
  <2>3. CASE c \notin Json
    <3>1. StoreContent(o, e, c) = [o EXCEPT !.data[e] = c]
      BY <1>3, <2>3 DEF StoreContent
    <3> QED BY <1>1, <2>1, <3>1 DEF GetContent, Objects
  <2> QED BY <2>2, <2>3
<1> QED BY <1>2, <1>3

\* The finalizer changes no content.
LEMMA FinReads ==
    ASSUME NEW o \in Objects, NEW b \in BOOLEAN
    PROVE  /\ [o EXCEPT !.fin = b].exists = o.exists
           /\ [o EXCEPT !.fin = b].deleting = o.deleting
           /\ \A d \in DataIds : GetContent([o EXCEPT !.fin = b], d) = GetContent(o, d)
BY DEF Objects, GetContent

\* A key with a content is a key.
LEMMA ContentIsKey ==
    ASSUME NEW o, NEW d \in DataIds, GetContent(o, d) # Empty
    PROVE  d \in GetAllKeys(o)
BY DEF GetContent, GetAllKeys

-----------------------------------------------------------------------------
(* One handler moves. *)

\* c is the content of d in the object, in the cache or in p's copy.
HasCopy(p, d, c) ==
    \/ c = GetContent(obj, d)
    \/ c = GetContent(objCache, d)
    \/ proc[p].pc \notin Parked /\ c = GetContent(proc[p].obj, d)

LEMMA CopiesAgree ==
    ASSUME NEW p \in Procs, NEW d \in DataIds, NEW c, HasCopy(p, d, c)
    PROVE  /\ Owned(d) => c = GetContent(obj, d)
           /\ Taken(d) => c \in {Empty, Norm(server[d])}
BY DEF HasCopy, Owned, OwnedBy, Taken, TakenBy

\* p goes on in state r; what it writes to the object or to the server it has
\* from a copy, and what it puts back into the queue it had.
LEMMA Moves ==
    ASSUME TypeOK, NEW d \in DataIds, NEW p \in Procs, NEW r, Become(p, r),
           UNCHANGED <<objCache, dcCache>>,
           HasCopy(p, d, GetContent(obj', d)),
           \/ server'[d] = server[d]
           \/ HasCopy(p, d, server'[d]) /\ (server'[d] = Empty => SyncDeletion),
           Owned(d) /\ d \in listening' \cup dc'.listen \cup r.dc.listen
             => Watched(d) \/ HasCopy(p, d, server'[d]),
           \A n \in pending' : n.id = d =>
             \E m \in pending \cup proc[p].job : m.id = d /\ m.content = n.content,
           proc[p].pc # "check" \/ pending' \subseteq pending,
           Owned(d) => OwnedBy(r, d, GetContent(obj, d)),
           ~SyncDeletion /\ Taken(d) => TakenBy(r, d, Norm(server[d]))
    PROVE  Kept(d)
<1>1. proc'[p] = r /\ \A q \in Procs : q # p => proc'[q] = proc[q]
  BY BecomeOthers
<1>2. ASSUME Owned(d)
      PROVE  Owned(d)' /\ GetContent(obj', d) = GetContent(obj, d)
  <2>1. GetContent(obj', d) = GetContent(obj, d)
    BY <1>2, CopiesAgree
  <2>2. server'[d] \in {server[d], GetContent(obj, d)}
    BY <1>2, CopiesAgree
  <2>3. GetContent(objCache', d) = GetContent(obj', d) /\ GetContent(obj', d) # Empty
    BY <1>2, <2>1 DEF Owned
  <2>4. Watched(d)' => server'[d] = GetContent(obj', d)
    <3>1. Watched(d) \/ HasCopy(p, d, server'[d]) => server'[d] = GetContent(obj, d)
      BY <1>2, <2>2, CopiesAgree DEF Owned
    <3>2. Watched(d)' => Watched(d) \/ d \in listening' \cup dc'.listen \cup r.dc.listen
      BY <1>1 DEF Watched
    <3> QED BY <1>2, <2>1, <3>1, <3>2
  <2>5. ASSUME NEW n \in pending', n.id = d
        PROVE  n.content = GetContent(obj', d)
    <3>1. CASE n \in pending
      BY <1>2, <2>1, <2>5, <3>1 DEF Owned
    <3>2. CASE n \notin pending
      <4>1. PICK m \in pending \cup proc[p].job : m.id = d /\ m.content = n.content
        BY <2>5
      <4> QED BY <1>2, <2>1, <3>2, <4>1 DEF Owned, OwnedBy
    <3> QED BY <3>1, <3>2
  <2>6. ASSUME NEW q \in Procs
        PROVE  OwnedBy(proc'[q], d, GetContent(obj', d))
    <3>1. OwnedBy(proc[q], d, GetContent(obj, d)) /\ OwnedBy(r, d, GetContent(obj, d))
      BY <1>2 DEF Owned
    <3> QED BY <1>1, <2>1, <3>1
  <2>7. \A q \in Procs : OwnedBy(proc[q], d, GetContent(obj, d))'
    BY <2>6 DEF OwnedBy
  <2> QED BY <2>1, <2>3, <2>4, <2>5, <2>7 DEF Owned
<1>3. ASSUME ~SyncDeletion, Taken(d)
      PROVE  Taken(d)' /\ Norm(server'[d]) = Norm(server[d])
  <2>1. Norm(server'[d]) = Norm(server[d])
    BY <1>3, CopiesAgree, NormFacts
  <2>2. GetContent(obj', d) \in {Empty, Norm(server[d])}
    BY <1>3, CopiesAgree
  <2>3. GetContent(objCache', d) \in {Empty, Norm(server[d])}
    BY <1>3 DEF Taken
  <2>4. ASSUME NEW n \in pending', n.id = d
        PROVE  Norm(n.content) \in {Empty, Norm(server[d])}
    <3>1. PICK m \in pending \cup proc[p].job : m.id = d /\ m.content = n.content
      BY <2>4
    <3> QED BY <1>3, <3>1 DEF Taken, TakenBy
  <2>5. ASSUME NEW q \in Procs
        PROVE  TakenBy(proc'[q], d, Norm(server[d]))
    <3>1. TakenBy(proc[q], d, Norm(server[d])) /\ TakenBy(r, d, Norm(server[d]))
      BY <1>3 DEF Taken
    <3> QED BY <1>1, <3>1
  <2>6. \A q \in Procs : TakenBy(proc[q], d, Norm(server[d]))'
    BY <2>1, <2>5 DEF TakenBy
  <2> QED BY <2>1, <2>2, <2>3, <2>4, <2>6 DEF Taken
<1> QED BY <1>2, <1>3 DEF Kept

\* A handler that goes on with a copy, a job and a result it had before, and
\* with no more data ids to delete, knows of nothing new.
LEMMA Carries ==
    ASSUME NEW d \in DataIds, NEW p \in Procs, NEW r,
           r.pc \notin Parked => HasCopy(p, d, GetContent(r.obj, d)),
           r.pc # "load",
           \/ r.job \subseteq pending
           \/ r.job \subseteq pending \cup proc[p].job /\ proc[p].pc # "check",
           d \in r.id => d \in proc[p].id /\ r.read = proc[p].read,
           r.todo.del \subseteq proc[p].todo.del
    PROVE  /\ Owned(d) => OwnedBy(r, d, GetContent(obj, d))
           /\ Taken(d) => TakenBy(r, d, Norm(server[d]))
<1>1. Owned(d) => OwnedBy(r, d, GetContent(obj, d))
  BY CopiesAgree DEF Owned, OwnedBy
<1>2. Taken(d) => TakenBy(r, d, Norm(server[d]))
  BY CopiesAgree DEF Taken, TakenBy
<1> QED BY <1>1, <1>2

\* An idle handler, or one that has given up its copy, knows of nothing.
LEMMA IdleKnowsNothing ==
    ASSUME NEW d, NEW l, NEW v
    PROVE  OwnedBy(Idle, d, l) /\ TakenBy(Idle, d, v) /\ Idle.dc.listen = {} /\ Idle.pc = "idle"
BY DEF Idle, OwnedBy, TakenBy, Parked, NoTodo, NewStatus

\* p goes on, and nobody marks the object for deletion.
LEMMA StaysUndisturbed ==
    ASSUME TypeOK, Undisturbed, NEW p \in Procs, NEW r, Become(p, r), UNCHANGED objCache,
           obj'.exists, ~obj'.deleting, r.pc # "create",
           r.pc \notin Parked => r.obj.exists /\ ~r.obj.deleting,
           p = "F" /\ r.pc = "write" => r.known
    PROVE  Undisturbed'
<1>1. proc'[p] = r /\ \A q \in Procs : q # p => proc'[q] = proc[q]
  BY BecomeOthers
<1>2. "F" \in Procs
  BY DEF Procs
<1> QED BY <1>1, <1>2 DEF Undisturbed

\* An Update by p to a copy it has, or to the cached object, changes no more of
\* the object than the finalizer and the contents.
LEMMA UpdateKeepsObject ==
    ASSUME NEW p \in Procs, NEW o, NEW r, ObjUpdate(p, o, r), o.exists, ~o.deleting
    PROVE  obj' = o /\ Become(p, r)
BY DEF ObjUpdate, Collected

\* p only goes on in another state.
LEMMA QuietMove ==
    ASSUME TypeOK, Undisturbed, NEW p \in Procs, NEW r, Become(p, r),
           UNCHANGED <<obj, objCache, dcCache, server>>,
           \A n \in pending' \ pending :
              \E m \in proc[p].job : m.id = n.id /\ m.content = n.content,
           \A d \in listening' \cup dc'.listen \cup r.dc.listen : Watched(d),
           proc[p].pc # "check", r.pc \notin {"create", "load"},
           r.pc \notin Parked => proc[p].pc \notin Parked /\ r.obj = proc[p].obj,
           r.pc = "write" => p # "F",
           r.job \subseteq proc[p].job,
           r.id \subseteq proc[p].id, r.id # {} => r.read = proc[p].read,
           r.todo.del \subseteq proc[p].todo.del
    PROVE  Undisturbed' /\ \A d \in DataIds : Kept(d)
<1>1. Undisturbed'
  BY StaysUndisturbed DEF Undisturbed
<1>2. ASSUME NEW d \in DataIds
      PROVE  Kept(d)
  <2>1. HasCopy(p, d, GetContent(obj', d))
    BY DEF HasCopy
  <2>2. r.pc \notin Parked => HasCopy(p, d, GetContent(r.obj, d))
    BY DEF HasCopy
  <2>3. /\ Owned(d) => OwnedBy(r, d, GetContent(obj, d))
        /\ Taken(d) => TakenBy(r, d, Norm(server[d]))
    BY <2>2, Carries
  <2>4. \A n \in pending' : n.id = d =>
           \E m \in pending \cup proc[p].job : m.id = d /\ m.content = n.content
    OBVIOUS
  <2> QED BY <2>1, <2>3, <2>4, Moves
<1> QED BY <1>1, <1>2

\* p becomes idle, which leaves the object as it is or writes p's copy o to it.
LEMMA Finishes ==
    ASSUME TypeOK, Undisturbed, NEW p \in Procs, proc[p].pc \notin Parked,
           NEW o, o = proc[p].obj, NEW r, r.pc \in {"idle", "status"},
           ObjUpdate(p, o, r) \/ ObjKept(p, r),
           UNCHANGED <<objCache, dcCache, server>>,
           \A n \in pending' \ pending :
              \E m \in proc[p].job : m.id = n.id /\ m.content = n.content,
           \A d \in listening' \cup dc'.listen \cup r.dc.listen : Watched(d),
           r.job \subseteq proc[p].job,
           r.id \subseteq proc[p].id, r.id # {} => r.read = proc[p].read,
           r.todo.del \subseteq proc[p].todo.del
    PROVE  Undisturbed' /\ \A d \in DataIds : Kept(d)
<1>1. o.exists /\ ~o.deleting
  BY DEF Undisturbed
<1>2. Become(p, r) /\ (obj' = obj \/ obj' = o)
  BY <1>1, UpdateKeepsObject DEF ObjKept
<1>3. Undisturbed'
  BY <1>1, <1>2, StaysUndisturbed DEF Undisturbed, Parked
<1>4. ASSUME NEW d \in DataIds
      PROVE  Kept(d)
  <2>1. HasCopy(p, d, GetContent(obj', d))
    BY <1>2 DEF HasCopy
  <2>2. r.pc \in Parked /\ r.pc # "load" /\ proc[p].pc # "check"
    BY DEF Parked
  <2>3. /\ Owned(d) => OwnedBy(r, d, GetContent(obj, d))
        /\ Taken(d) => TakenBy(r, d, Norm(server[d]))
    BY <2>2, Carries
  <2>4. \A n \in pending' : n.id = d =>
           \E m \in pending \cup proc[p].job : m.id = d /\ m.content = n.content
    OBVIOUS
  <2> QED BY <1>2, <2>1, <2>2, <2>3, <2>4, Moves
<1> QED BY <1>3, <1>4

-----------------------------------------------------------------------------
(* The ConfigMap/Secret reconciler. *)

LEMMA RStartPolicy ==
    ASSUME TypeOK, Undisturbed, RStart
    PROVE  Undisturbed' /\ \A d \in DataIds : Kept(d)
<1> DEFINE r(o) == [Idle EXCEPT !.pc = "list", !.obj = o]
           new == [objCache EXCEPT !.fin = TRUE]
<1>1. objCache \in Objects /\ objCache.exists /\ ~objCache.deleting /\ "R" \in Procs
  BY DEF TypeOK, Undisturbed, Procs
<1>2. /\ UNCHANGED <<objCache, dc, dcCache, server, listening, pending>>
      /\ new.exists /\ ~new.deleting
      /\ \A d \in DataIds : GetContent(new, d) = GetContent(objCache, d)
  BY <1>1, FinReads DEF RStart, dcVars, nacos
<1>3. \A o : /\ r(o).pc = "list" /\ r(o).obj = o /\ r(o).job = {} /\ r(o).id = {}
             /\ r(o).todo.del = {} /\ r(o).dc.listen = {}
  BY DEF Idle, NoTodo, NewStatus
<1> HIDE DEF r, new
<1>4. \E o \in {objCache, new} : Become("R", r(o)) /\ (obj' = obj \/ obj' = new)
  <2>1. CASE Become("R", r(objCache)) /\ UNCHANGED obj
    BY <2>1
  <2>2. CASE ObjUpdate("R", new, r(new))
    BY <1>1, <1>2, <2>2, UpdateKeepsObject
  <2> QED BY <1>1, <2>1, <2>2 DEF RStart, r, new
<1>5. PICK o \in {objCache, new} : Become("R", r(o)) /\ (obj' = obj \/ obj' = new)
  BY <1>4
<1>6. Undisturbed'
  BY <1>1, <1>2, <1>3, <1>5, StaysUndisturbed DEF Undisturbed
<1>7. ASSUME NEW d \in DataIds
      PROVE  Kept(d)
  <2>1. HasCopy("R", d, GetContent(obj', d)) /\ HasCopy("R", d, GetContent(o, d))
    BY <1>2, <1>5 DEF HasCopy
  <2>2. /\ Owned(d) => OwnedBy(r(o), d, GetContent(obj, d))
        /\ Taken(d) => TakenBy(r(o), d, Norm(server[d]))
    BY <1>1, <1>3, <2>1, Carries
  <2>3. d \in listening' \cup dc'.listen \cup r(o).dc.listen => Watched(d)
    BY <1>2, <1>3 DEF Watched
  <2> QED BY <1>1, <1>2, <1>5, <2>1, <2>2, <2>3, Moves
<1> QED BY <1>6, <1>7

LEMMA RListPolicy ==
    ASSUME TypeOK, Undisturbed, RFinalize \/ RList
    PROVE  Undisturbed' /\ \A d \in DataIds : Kept(d)
<1> DEFINE me == proc["R"]
           s == dcCache
           t == CompareDataIds(s.listen, GetAllKeys(me.obj))
           loc == [NoTodo EXCEPT !.loc = GetAllKeys(me.obj)]
<1>1. /\ me \in ProcStates /\ "R" \in Procs /\ me.pc = "list" /\ ~me.obj.deleting
      /\ me.obj.exists /\ RList
  BY DEF TypeOK, Procs, RFinalize, RList, Undisturbed, Parked
<1>2. s \in Statuses /\ \A F : RelistenFailed(s, F).listen = s.listen
  BY DEF TypeOK, RelistenFailed, Statuses
<1>3. /\ UNCHANGED <<obj, objCache, dc, dcCache, server, pending>>
      /\ listening' \subseteq listening \cup s.listen
  BY <1>1 DEF RList, ListenConfig, objVars
<1>4. \E st, u, bad : /\ Become("R", Listed(FALSE, s, st, u, bad))
                      /\ st.listen = s.listen /\ u \in {t, loc}
  BY <1>1, <1>2 DEF RList
<1>5. PICK st, u, bad : /\ Become("R", Listed(FALSE, s, st, u, bad))
                        /\ st.listen = s.listen /\ u \in {t, loc}
  BY <1>4
<1> DEFINE r == Listed(FALSE, s, st, u, bad)
<1>6. /\ r.pc \in {"sync", "update"} /\ r.obj = me.obj /\ r.job = me.job
      /\ r.id = me.id /\ r.read = me.read /\ r.todo = u /\ r.dc = st
  BY <1>1 DEF Listed, ProcStates
<1> HIDE DEF r
<1>7. Undisturbed'
  BY <1>1, <1>3, <1>5, <1>6, StaysUndisturbed DEF Undisturbed, r
<1>8. ASSUME NEW d \in DataIds
      PROVE  Kept(d)
  <2>1. HasCopy("R", d, GetContent(obj', d)) /\ HasCopy("R", d, GetContent(me.obj, d))
    BY <1>1, <1>3 DEF HasCopy, Parked
  <2>2. Owned(d) => d \notin u.del
    <3>1. Owned(d) => d \in GetAllKeys(me.obj)
      BY <2>1, CopiesAgree, ContentIsKey, <1>1 DEF Owned
    <3>2. u.del \subseteq s.listen \ GetAllKeys(me.obj)
      BY <1>5 DEF CompareDataIds, NoTodo
    <3> QED BY <3>1, <3>2
  <2>3. Owned(d) => OwnedBy(r, d, GetContent(obj, d))
    BY <1>1, <1>6, <2>1, <2>2, CopiesAgree DEF Owned, OwnedBy
  <2>4. Taken(d) => TakenBy(r, d, Norm(server[d]))
    BY <1>1, <1>6, <2>1, CopiesAgree DEF Taken, TakenBy
  <2>5. d \in listening' \cup dc'.listen \cup r.dc.listen => Watched(d)
    BY <1>3, <1>5, <1>6 DEF Watched
  <2> QED BY <1>1, <1>3, <1>5, <2>1, <2>3, <2>4, <2>5, Moves DEF r
<1> QED BY <1>7, <1>8

\* The functions on the status that leave ListenConfigs alone.
LEMMA StatusListens ==
    /\ \A s \in Statuses, d \in DataIds, m \in Md5s, b \in BOOLEAN :
          /\ UpdateSyncStatus(s, d, m, b).listen = s.listen
          /\ UpdateSyncStatusIfAbsent(s, d, m, b).listen = s.listen
    /\ \A s \in Statuses : /\ FailedStatus(s).listen = s.listen
                           /\ UpdateStatus(s).listen = s.listen
                           /\ DropGroup(s).listen = {}
    /\ \A s \in Statuses, d \in DataIds : AddListenConfig(s, d).listen = s.listen \cup {d}
    /\ \A s \in Statuses : UpdateDynamicConfigurationStatus(s, Scope).listen = s.listen
<1>1. \A s \in Statuses, d \in DataIds, m \in Md5s, b \in BOOLEAN : UpdateSyncStatus(s, d, m, b).listen = s.listen
  BY DEF UpdateSyncStatus, Statuses
<1>2. \A s \in Statuses, d \in DataIds, m \in Md5s, b \in BOOLEAN : UpdateSyncStatusIfAbsent(s, d, m, b).listen = s.listen
  BY <1>1 DEF UpdateSyncStatusIfAbsent
<1>3. \A s \in Statuses : /\ FailedStatus(s).listen = s.listen
                          /\ UpdateStatus(s).listen = s.listen
                          /\ DropGroup(s).listen = {}
  BY DEF FailedStatus, UpdateStatus, DropGroup, Statuses
<1>4. /\ \A s \in Statuses, d \in DataIds : AddListenConfig(s, d).listen = s.listen \cup {d}
      /\ \A s \in Statuses : UpdateDynamicConfigurationStatus(s, Scope).listen = s.listen
  BY DEF AddListenConfig, UpdateDynamicConfigurationStatus, Statuses
<1> QED BY <1>1, <1>2, <1>3, <1>4

\* R pushes c for e: the content of its copy, or nothing where e is not owned.
LEMMA RPushPolicy ==
    ASSUME TypeOK, Undisturbed, NEW e \in DataIds, NEW c \in Texts, NEW rec \in ProcStates, RPush(e, c, rec),
           proc["R"].pc = "sync", rec.pc = "sync", rec.obj = proc["R"].obj,
           rec.job = proc["R"].job, rec.id = proc["R"].id, rec.read = proc["R"].read,
           rec.dc = proc["R"].dc, rec.todo.del \subseteq proc["R"].todo.del,
           UNCHANGED <<objVars, dcVars, listening, pending>>,
           c = Empty => SyncDeletion,
           (c = Empty /\ e \in proc["R"].todo.del) \/ HasCopy("R", e, c)
    PROVE  Undisturbed' /\ \A d \in DataIds : Kept(d)
<1> DEFINE me == proc["R"]
<1>1. UNCHANGED <<obj, objCache, dc, dcCache>> /\ "R" \in Procs /\ "sync" \notin Parked
  BY DEF objVars, dcVars, Procs, Parked
<1>2. \E r : /\ Become("R", r)
             /\ r.pc = "sync" /\ r.obj = me.obj /\ r.job = me.job /\ r.id = me.id /\ r.read = me.read
             /\ r.todo = rec.todo /\ r.dc.listen = me.dc.listen
  <2> DEFINE good == [rec EXCEPT !.dc = UpdateSyncStatus(@, e, CalcMd5(c), TRUE)]
             bad == [rec EXCEPT !.dc = UpdateSyncStatus(@, e, CalcMd5(Empty), FALSE), !.err = TRUE]
  <2>1. rec.dc \in Statuses
    BY DEF ProcStates
  <2>a. /\ good.dc = UpdateSyncStatus(rec.dc, e, CalcMd5(c), TRUE)
        /\ bad.dc = UpdateSyncStatus(rec.dc, e, CalcMd5(Empty), FALSE)
    BY DEF ProcStates
  <2>3. \A r \in {good, bad} :
           /\ r.pc = "sync" /\ r.obj = me.obj /\ r.job = me.job /\ r.id = me.id
           /\ r.read = me.read /\ r.todo = rec.todo
    BY DEF ProcStates
  <2>4. Become("R", good) \/ Become("R", bad)
    BY DEF RPush
  <2> HIDE DEF good, bad
  <2>b. CalcMd5(c) \in Md5s /\ CalcMd5(Empty) \in Md5s
    BY StatusTypes DEF Texts
  <2>c. /\ UpdateSyncStatus(rec.dc, e, CalcMd5(c), TRUE).listen = rec.dc.listen
        /\ UpdateSyncStatus(rec.dc, e, CalcMd5(Empty), FALSE).listen = rec.dc.listen
    BY <2>1, <2>b, StatusListens
  <2>2. good.dc.listen = me.dc.listen /\ bad.dc.listen = me.dc.listen
    BY <2>a, <2>c
  <2> QED BY <2>2, <2>3, <2>4
<1>3. PICK r : /\ Become("R", r)
               /\ r.pc = "sync" /\ r.obj = me.obj /\ r.job = me.job /\ r.id = me.id /\ r.read = me.read
               /\ r.todo = rec.todo /\ r.dc.listen = me.dc.listen
  BY <1>2
<1>4. Undisturbed'
  BY <1>1, <1>3, StaysUndisturbed DEF Undisturbed
<1>5. ASSUME NEW d \in DataIds
      PROVE  Kept(d)
  <2>a. server' = server \/ server' = [server EXCEPT ![e] = c]
    BY DEF RPush, PushFailed
  <2>1. server'[d] = server[d] \/ (d = e /\ server'[d] = c)
    BY <2>a DEF TypeOK
  <2>2. HasCopy("R", d, GetContent(obj', d)) /\ HasCopy("R", d, GetContent(r.obj, d))
    BY <1>1, <1>3 DEF HasCopy
  <2>3. /\ Owned(d) => OwnedBy(r, d, GetContent(obj, d))
        /\ Taken(d) => TakenBy(r, d, Norm(server[d]))
    BY <1>1, <1>3, <2>2, Carries
  <2>4. d \in listening' \cup dc'.listen \cup r.dc.listen => Watched(d)
    BY <1>1, <1>3 DEF Watched
  <2>5. CASE \/ server'[d] = server[d]
             \/ HasCopy("R", d, server'[d]) /\ (server'[d] = Empty => SyncDeletion)
    BY <1>1, <1>3, <2>2, <2>3, <2>4, <2>5, Moves
  <2>6. CASE d = e /\ server'[d] = c /\ c = Empty /\ e \in me.todo.del
    <3>1. SyncDeletion /\ ~Owned(d)
      BY <1>1, <2>6 DEF Owned, OwnedBy
    <3> QED BY <3>1 DEF Kept
  <2> QED BY <2>1, <2>5, <2>6
<1> QED BY <1>4, <1>5

LEMMA RDeletePolicy ==
    ASSUME TypeOK, Undisturbed, NEW e \in DataIds, RDelete(e)
    PROVE  Undisturbed' /\ \A d \in DataIds : Kept(d)
<1> DEFINE me == proc["R"]
           rest == [me EXCEPT !.todo.del = @ \ {e}]
           ignored == [rest EXCEPT !.dc = UpdateSyncStatus(@, e, CalcMd5(Empty), TRUE)]
<1>1. /\ me \in ProcStates /\ rest \in ProcStates /\ rest.obj = me.obj /\ rest.pc = me.pc
      /\ rest.job = me.job /\ rest.id = me.id /\ rest.read = me.read /\ rest.dc = me.dc
      /\ rest.todo.del \subseteq me.todo.del
  BY DEF TypeOK, Procs, ProcStates, Todos
<1> HIDE DEF rest
<1>2. /\ ignored.obj = me.obj /\ ignored.pc = me.pc /\ ignored.job = me.job /\ ignored.id = me.id
      /\ ignored.read = me.read /\ ignored.todo = rest.todo
      /\ ignored.dc = UpdateSyncStatus(rest.dc, e, CalcMd5(Empty), TRUE)
  BY <1>1 DEF ProcStates
<1>a. rest.dc \in Statuses /\ Empty \in Texts /\ CalcMd5(Empty) \in Md5s
  BY <1>1, StatusTypes DEF ProcStates, Texts
<1> HIDE DEF ignored
<1>b. \A s \in Statuses : UpdateSyncStatus(s, e, CalcMd5(Empty), TRUE).listen = s.listen
  BY DEF UpdateSyncStatus, Statuses
<1>3. ignored.dc.listen = me.dc.listen
  BY <1>1, <1>2, <1>a, <1>b
<1>4. /\ me.pc = "sync" /\ e \in me.todo.del /\ "R" \in Procs /\ "sync" \notin Parked
      /\ UNCHANGED <<objVars, dcVars, listening, pending>>
  BY DEF RDelete, Procs, Parked
<1>5. CASE SyncDeletion /\ RPush(e, Empty, rest)
  BY <1>1, <1>4, <1>5, <1>a, RPushPolicy
<1>6. CASE Become("R", ignored) /\ UNCHANGED server
  <2>1. UNCHANGED <<obj, objCache, dc, dcCache, server, listening, pending>>
    BY <1>4, <1>6 DEF objVars, dcVars
  <2>2. \A d \in listening' \cup dc'.listen \cup ignored.dc.listen : Watched(d)
    BY <1>3, <1>4, <2>1 DEF Watched
  <2> QED BY <1>1, <1>2, <1>4, <1>6, <2>1, <2>2, QuietMove
<1> QED BY <1>5, <1>6 DEF RDelete, rest, ignored

LEMMA RBothPolicy ==
    ASSUME TypeOK, Undisturbed, NEW e \in DataIds, RBoth(e)
    PROVE  Undisturbed' /\ \A d \in DataIds : Kept(d)
<1> DEFINE me == proc["R"]
           rest == [me EXCEPT !.todo.both = @ \ {e}]
           localContent == GetContent(me.obj, e)
<1>1. /\ me \in ProcStates /\ rest \in ProcStates /\ rest.obj = me.obj /\ rest.pc = me.pc
      /\ rest.job = me.job /\ rest.id = me.id /\ rest.read = me.read /\ rest.dc = me.dc
      /\ rest.todo.del = me.todo.del
  BY DEF TypeOK, Procs, ProcStates, Todos
<1> HIDE DEF rest
<1>2. /\ me.pc = "sync" /\ "R" \in Procs /\ "sync" \notin Parked
      /\ UNCHANGED <<objVars, dcVars, listening, pending>>
  BY DEF RBoth, Procs, Parked
<1>3. HasCopy("R", e, localContent) /\ localContent \in Texts
  BY <1>1, <1>2, GetContentType DEF HasCopy, ProcStates
<1> HIDE DEF localContent
<1>4. CASE (localContent = Empty => SyncDeletion) /\ RPush(e, localContent, rest)
  BY <1>1, <1>2, <1>3, <1>4, RPushPolicy
<1>5. CASE Become("R", rest) /\ UNCHANGED server
  <2>1. UNCHANGED <<obj, objCache, dc, dcCache, server, listening, pending>>
    BY <1>2, <1>5 DEF objVars, dcVars
  <2>2. \A d \in listening' \cup dc'.listen \cup rest.dc.listen : Watched(d)
    BY <1>1, <1>2, <2>1 DEF Watched
  <2> QED BY <1>1, <1>2, <1>5, <2>1, <2>2, QuietMove
<1> QED BY <1>4, <1>5 DEF RBoth, rest, localContent

LEMMA RStatusPolicy ==
    ASSUME TypeOK, Undisturbed, RStatus
    PROVE  Undisturbed' /\ \A d \in DataIds : Kept(d)
<1> DEFINE me == proc["R"]
           rest == [me EXCEPT !.pc = "update", !.dc = NewStatus, !.todo = NoTodo,
                              !.known = FALSE, !.err = FALSE]
           s == IF ~me.known THEN me.dc
                ELSE IF me.err THEN FailedStatus(me.dc) ELSE UpdateStatus(me.dc)
<1>1. /\ me \in ProcStates /\ me.dc \in Statuses /\ me.pc = "sync" /\ "R" \in Procs
      /\ "sync" \notin Parked
  BY DEF TypeOK, Procs, ProcStates, RStatus, Parked
<1>2. s.listen = me.dc.listen
  BY <1>1, StatusListens
<1> HIDE DEF s
<1>3. /\ rest.obj = me.obj /\ rest.pc = "update" /\ rest.job = me.job /\ rest.id = me.id
      /\ rest.read = me.read /\ rest.todo.del = {} /\ rest.dc.listen = {}
  BY <1>1 DEF ProcStates, NoTodo, NewStatus
<1> HIDE DEF rest
<1>4. Become("R", rest) /\ UNCHANGED <<obj, objCache, dcCache, server, listening, pending>>
  BY DEF RStatus, rest, objVars, nacos
<1>5. dc' = s \/ dc' = dc
  BY DEF RStatus, DcUpdate, DcKept, s
<1>6. \A d \in listening' \cup dc'.listen \cup rest.dc.listen : Watched(d)
  BY <1>1, <1>2, <1>3, <1>4, <1>5 DEF Watched
<1> QED BY <1>1, <1>3, <1>4, <1>6, QuietMove

LEMMA RUpdatePolicy ==
    ASSUME TypeOK, Undisturbed, RUpdate
    PROVE  Undisturbed' /\ \A d \in DataIds : Kept(d)
<1> DEFINE me == proc["R"]
<1>1. /\ me.pc = "update" /\ me.pc \notin Parked /\ "R" \in Procs /\ ~me.obj.deleting
      /\ UNCHANGED <<objCache, dc, dcCache, server, listening, pending>>
  BY DEF RUpdate, Parked, Procs, Undisturbed, nacos
<1>2. ObjUpdate("R", me.obj, Idle) \/ ObjKept("R", Idle)
  BY <1>1 DEF RUpdate
<1>3. /\ Idle.pc = "idle" /\ Idle.job = {} /\ Idle.id = {} /\ Idle.todo.del = {}
      /\ Idle.dc.listen = {}
  BY DEF Idle, NoTodo, NewStatus
<1>4. \A d \in listening' \cup dc'.listen \cup Idle.dc.listen : Watched(d)
  BY <1>1, <1>3 DEF Watched
<1> QED BY <1>1, <1>2, <1>3, <1>4, Finishes

-----------------------------------------------------------------------------
(* The steps R and D share. *)

LEMMA QueryPolicy ==
    ASSUME TypeOK, Undisturbed, NEW p \in Procs, NEW e \in DataIds, Query(p, e)
    PROVE  Undisturbed' /\ \A d \in DataIds : Kept(d)
<1> DEFINE me == proc[p]
           r(got) == [me EXCEPT !.pc = "apply", !.id = {e}, !.read = got, !.todo.loc = @ \ {e}]
<1>1. PICK got \in {server[e], Empty} : Become(p, r(got))
  BY DEF Query
<1>2. /\ me \in ProcStates /\ me.pc = "sync" /\ "sync" \notin Parked /\ "apply" \notin Parked
      /\ UNCHANGED <<obj, objCache, dc, dcCache, server, listening, pending>>
  BY DEF TypeOK, Query, objVars, dcVars, nacos, Parked
<1>3. /\ r(got).pc = "apply" /\ r(got).obj = me.obj /\ r(got).job = me.job /\ r(got).id = {e}
      /\ r(got).read = got /\ r(got).todo.del = me.todo.del /\ r(got).dc = me.dc
  BY <1>2 DEF ProcStates, Todos
<1> HIDE DEF r
<1>4. Undisturbed'
  BY <1>1, <1>2, <1>3, StaysUndisturbed DEF Undisturbed
<1>5. ASSUME NEW d \in DataIds
      PROVE  Kept(d)
  <2>1. HasCopy(p, d, GetContent(obj', d)) /\ HasCopy(p, d, GetContent(me.obj, d))
    BY <1>2 DEF HasCopy
  <2>2. Owned(d) => OwnedBy(r(got), d, GetContent(obj, d))
    BY <1>2, <1>3, <2>1, CopiesAgree DEF Owned, OwnedBy
  <2>3. Taken(d) => TakenBy(r(got), d, Norm(server[d]))
    BY <1>2, <1>3, <2>1, CopiesAgree, NormFacts DEF Taken, TakenBy
  <2>4. d \in listening' \cup dc'.listen \cup r(got).dc.listen => Watched(d)
    BY <1>2, <1>3 DEF Watched
  <2> QED BY <1>1, <1>2, <2>1, <2>2, <2>3, <2>4, Moves
<1> QED BY <1>4, <1>5

\* r differs from rec in the sync statuses, and in D at the most in ListenConfigs.
SameBut(r, rec, D) ==
    /\ r.pc = rec.pc /\ r.obj = rec.obj /\ r.job = rec.job /\ r.id = rec.id
    /\ r.read = rec.read /\ r.todo = rec.todo
    /\ r.dc.listen \subseteq rec.dc.listen \cup D

LEMMA FailedDataIdMove ==
    ASSUME NEW p \in Procs, NEW rec \in ProcStates, NEW e \in DataIds, FailedDataId(p, rec, e)
    PROVE  \E r : Become(p, r) /\ SameBut(r, rec, {})
<1> DEFINE s == UpdateSyncStatus(rec.dc, e, CalcMd5(Empty), FALSE)
           r == [rec EXCEPT !.dc = s, !.err = TRUE]
<1>1. s.listen = rec.dc.listen
  BY DEF UpdateSyncStatus, Statuses, ProcStates
<1> HIDE DEF s
<1>2. SameBut(r, rec, {})
  BY <1>1 DEF SameBut, ProcStates
<1>3. Become(p, r)
  BY DEF FailedDataId, s
<1> QED BY <1>2, <1>3

LEMMA ListenMove ==
    ASSUME NEW p \in Procs, NEW rec \in ProcStates, NEW e \in DataIds, Listen(p, rec, e)
    PROVE  \E r : Become(p, r) /\ SameBut(r, rec, {e}) /\ listening' \subseteq listening \cup {e}
<1>1. CASE /\ \E sn \in {Empty, proc[p].read} : ListenConfig({e}, sn)
           /\ Become(p, [rec EXCEPT !.dc = AddListenConfig(@, e)])
  <2> DEFINE s == AddListenConfig(rec.dc, e)
             r == [rec EXCEPT !.dc = s]
  <2>1. s.listen = rec.dc.listen \cup {e}
    BY DEF AddListenConfig, Statuses, ProcStates
  <2> HIDE DEF s
  <2>2. SameBut(r, rec, {e})
    BY <2>1 DEF SameBut, ProcStates
  <2>3. Become(p, r) /\ listening' \subseteq listening \cup {e}
    BY <1>1 DEF ListenConfig, s
  <2> QED BY <2>2, <2>3
<1>2. CASE FailedDataId(p, rec, e) /\ UNCHANGED listening
  <2>1. PICK r : Become(p, r) /\ SameBut(r, rec, {})
    BY <1>2, FailedDataIdMove
  <2>2. SameBut(r, rec, {e})
    BY <2>1 DEF SameBut
  <2> QED BY <1>2, <2>1, <2>2
<1> QED BY <1>1, <1>2 DEF Listen

\* p ends configDataIdSync of e in state r.  A content is stored only where the
\* copy had none; a data id with a content is listened to only once the server
\* has that content.
LEMMA ApplyMove ==
    ASSUME TypeOK, Undisturbed, NEW p \in Procs, NEW e \in DataIds, NEW r, Become(p, r),
           proc[p].pc = "apply", e \in proc[p].id,
           UNCHANGED <<obj, objCache, dc, dcCache, pending>>,
           r.pc = "sync", r.job = proc[p].job, r.id = {}, r.todo = proc[p].todo,
           NEW l, l = GetContent(proc[p].obj, e),
           \/ r.obj = proc[p].obj
           \/ /\ l = Empty /\ CanStore(proc[p].read)
              /\ r.obj = StoreContent(proc[p].obj, e, proc[p].read),
           \/ server' = server
           \/ server' = [server EXCEPT ![e] = l] /\ l # Empty,
           listening' \subseteq listening \cup {e}, r.dc.listen \subseteq proc[p].dc.listen \cup {e},
           \/ l = Empty \/ server'[e] = l
           \/ listening' \subseteq listening /\ r.dc.listen \subseteq proc[p].dc.listen
    PROVE  Undisturbed' /\ \A d \in DataIds : Kept(d)
<1> DEFINE me == proc[p]
<1>1. /\ me.obj \in Objects /\ me.read \in Texts /\ "sync" \notin Parked /\ "apply" \notin Parked
      /\ me.obj.exists /\ ~me.obj.deleting
  BY DEF TypeOK, ProcStates, Parked, Undisturbed
<1>2. r.obj.exists /\ ~r.obj.deleting
  BY <1>1, StoreContentFlags
<1>3. Undisturbed'
  BY <1>2, StaysUndisturbed DEF Undisturbed
<1>4. ASSUME NEW d \in DataIds
      PROVE  Kept(d)
  <2>1. HasCopy(p, d, GetContent(obj', d)) /\ HasCopy(p, d, GetContent(me.obj, d))
    BY <1>1 DEF HasCopy
  <2>2. \/ GetContent(r.obj, d) = GetContent(me.obj, d)
        \/ d = e /\ l = Empty /\ GetContent(r.obj, d) = Norm(me.read)
    BY <1>1, StoreContentReads
  <2>3. Owned(d) /\ d = e => l = GetContent(obj, d) /\ l # Empty
    BY <1>1 DEF Owned, OwnedBy
  <2>4. Owned(d) => OwnedBy(r, d, GetContent(obj, d))
    BY <1>1, <2>1, <2>2, <2>3, CopiesAgree DEF Owned, OwnedBy
  <2>5. Taken(d) => TakenBy(r, d, Norm(server[d]))
    BY <1>1, <2>1, <2>2, CopiesAgree DEF Taken, TakenBy
  <2>6. \/ server'[d] = server[d]
        \/ HasCopy(p, d, server'[d]) /\ server'[d] # Empty
    BY <1>1 DEF HasCopy, TypeOK
  <2>7. Owned(d) /\ d \in listening' \cup dc'.listen \cup r.dc.listen
          => Watched(d) \/ HasCopy(p, d, server'[d])
    <3>1. CASE d # e
      BY <3>1 DEF Watched
    <3>2. CASE d = e
      BY <2>1, <2>3, <3>2 DEF Watched, HasCopy
    <3> QED BY <3>1, <3>2
  <2>8. \A n \in pending' : n.id = d =>
           \E m \in pending \cup proc[p].job : m.id = d /\ m.content = n.content
    OBVIOUS
  <2> QED BY <2>1, <2>4, <2>5, <2>6, <2>7, <2>8, Moves
<1> QED BY <1>3, <1>4

LEMMA ApplyPolicy ==
    ASSUME TypeOK, Undisturbed, PreferCluster, NEW p \in Procs, NEW e \in DataIds, Apply(p, e)
    PROVE  Undisturbed' /\ \A d \in DataIds : Kept(d)
<1> DEFINE me == proc[p]
           rest == [me EXCEPT !.pc = "sync", !.id = {}, !.read = Empty]
           l == GetContent(me.obj, e)
           stored == IF CanStore(me.read) THEN StoreContent(me.obj, e, me.read) ELSE me.obj
           ready(c) == [rest EXCEPT !.dc = UpdateSyncStatus(@, e, RecordedMd5(p, c), TRUE)]
           readyStored == [ready(me.read) EXCEPT !.obj = stored]
<1>1. /\ me \in ProcStates /\ me.obj \in Objects /\ me.read \in Texts /\ me.pc = "apply"
      /\ e \in me.id /\ UNCHANGED <<obj, objCache, dc, dcCache, pending>>
  BY DEF TypeOK, ProcStates, Apply
<1>2. /\ rest \in ProcStates /\ rest.pc = "sync" /\ rest.obj = me.obj /\ rest.job = me.job
      /\ rest.id = {} /\ rest.todo = me.todo /\ rest.dc = me.dc
  BY <1>1 DEF ProcStates, Texts
<1>3. l \in Texts
  BY <1>1, GetContentType
<1>4. stored \in Objects
  BY <1>1, StoreContentType
<1>5. stored = me.obj \/ (CanStore(me.read) /\ stored = StoreContent(me.obj, e, me.read))
  OBVIOUS
<1> HIDE DEF rest, stored, l
<1>6. ASSUME NEW c \in Texts
      PROVE  /\ ready(c) \in ProcStates
             /\ ready(c).pc = "sync" /\ ready(c).obj = me.obj /\ ready(c).job = me.job
             /\ ready(c).id = {} /\ ready(c).todo = me.todo
             /\ ready(c).dc.listen = me.dc.listen
  <2> DEFINE s == UpdateSyncStatus(rest.dc, e, RecordedMd5(p, c), TRUE)
             r == [rest EXCEPT !.dc = s]
  <2>1. RecordedMd5(p, c) \in Md5s
    BY StatusTypes DEF RecordedMd5, Texts
  <2>2. s \in Statuses
    BY <1>2, <2>1, StatusTypes DEF ProcStates
  <2>3. s.listen = rest.dc.listen
    BY <1>2 DEF UpdateSyncStatus, Statuses, ProcStates
  <2>4. ready(c) = r
    OBVIOUS
  <2> HIDE DEF s, ready
  <2>5. /\ r \in ProcStates /\ r.pc = "sync" /\ r.obj = me.obj /\ r.job = me.job
        /\ r.id = {} /\ r.todo = me.todo /\ r.dc = s
    BY <1>2, <2>2 DEF ProcStates
  <2> HIDE DEF r
  <2> QED BY <1>2, <2>3, <2>4, <2>5
<1> HIDE DEF ready
<1>7. /\ readyStored \in ProcStates
      /\ readyStored.pc = "sync" /\ readyStored.obj = stored /\ readyStored.job = me.job
      /\ readyStored.id = {} /\ readyStored.todo = me.todo
      /\ readyStored.dc = ready(me.read).dc
  BY <1>1, <1>4, <1>6 DEF ProcStates
<1> HIDE DEF readyStored
<1>8. CASE ToLocal(l, me.read) /\ Listen(p, readyStored, e) /\ UNCHANGED server
  <2>1. PICK r : Become(p, r) /\ SameBut(r, readyStored, {e}) /\ listening' \subseteq listening \cup {e}
    BY <1>7, <1>8, ListenMove
  <2>2. l = Empty
    BY <1>8 DEF ToLocal
  <2>3. /\ r.pc = "sync" /\ r.obj = stored /\ r.job = me.job /\ r.id = {} /\ r.todo = me.todo
        /\ r.dc.listen \subseteq me.dc.listen \cup {e}
    BY <1>1, <1>6, <1>7, <2>1 DEF SameBut
  <2> QED BY <1>1, <1>5, <1>8, <2>1, <2>2, <2>3, ApplyMove DEF l
<1>9. CASE /\ FailedDataId(p, rest, e) /\ UNCHANGED listening
           /\ server' = server \/ (ToServer(l, me.read) /\ PushFailed(e, l))
  <2>1. PICK r : Become(p, r) /\ SameBut(r, rest, {})
    BY <1>2, <1>9, FailedDataIdMove
  <2>2. /\ r.pc = "sync" /\ r.obj = me.obj /\ r.job = me.job /\ r.id = {} /\ r.todo = me.todo
        /\ r.dc.listen \subseteq me.dc.listen
    BY <1>2, <2>1 DEF SameBut
  <2>3. server' = server \/ (server' = [server EXCEPT ![e] = l] /\ l # Empty)
    BY <1>9 DEF ToServer, PushFailed
  <2> QED BY <1>1, <1>9, <2>1, <2>2, <2>3, ApplyMove DEF l
<1>10. CASE /\ ToServer(l, me.read)
            /\ server' = [server EXCEPT ![e] = l]
            /\ Listen(p, ready(l), e)
  <2>1. PICK r : Become(p, r) /\ SameBut(r, ready(l), {e}) /\ listening' \subseteq listening \cup {e}
    BY <1>3, <1>6, <1>10, ListenMove
  <2>2. l # Empty /\ server'[e] = l
    BY <1>10 DEF ToServer, TypeOK
  <2>3. /\ r.pc = "sync" /\ r.obj = me.obj /\ r.job = me.job /\ r.id = {} /\ r.todo = me.todo
        /\ r.dc.listen \subseteq me.dc.listen \cup {e}
    BY <1>3, <1>6, <2>1 DEF SameBut
  <2> QED BY <1>1, <1>10, <2>1, <2>2, <2>3, ApplyMove DEF l
<1>11. CASE /\ Become(p, Idle) /\ UNCHANGED listening
            /\ ToServer(l, me.read) /\ PushFailed(e, l)
  <2>1. l # Empty /\ \A d \in DataIds : server'[d] = server[d] \/ (d = e /\ server'[d] = l)
    BY <1>11 DEF ToServer, PushFailed, TypeOK
  <2>2. Undisturbed'
    BY <1>1, <1>11, IdleKnowsNothing, StaysUndisturbed DEF Undisturbed, Parked
  <2>3. ASSUME NEW d \in DataIds
        PROVE  Kept(d)
    <3>1. HasCopy(p, d, GetContent(obj', d)) /\ HasCopy(p, d, GetContent(me.obj, d))
      BY <1>1 DEF HasCopy, Parked
    <3>2. server'[d] = server[d] \/ (HasCopy(p, d, server'[d]) /\ server'[d] # Empty)
      BY <2>1, <3>1 DEF l
    <3>3. d \in listening' \cup dc'.listen \cup Idle.dc.listen => Watched(d)
      BY <1>1, <1>11, IdleKnowsNothing DEF Watched
    <3>4. /\ OwnedBy(Idle, d, GetContent(obj, d)) /\ TakenBy(Idle, d, Norm(server[d]))
      BY IdleKnowsNothing
    <3> QED BY <1>1, <1>11, <3>1, <3>2, <3>3, <3>4, Moves
  <2> QED BY <2>2, <2>3
<1>12. CASE ~ToLocal(l, me.read) /\ ~ToServer(l, me.read) /\ Listen(p, rest, e) /\ UNCHANGED server
  <2>1. PICK r : Become(p, r) /\ SameBut(r, rest, {e}) /\ listening' \subseteq listening \cup {e}
    BY <1>2, <1>12, ListenMove
  <2>2. l = Empty
    BY <1>12 DEF ToServer
  <2>3. /\ r.pc = "sync" /\ r.obj = me.obj /\ r.job = me.job /\ r.id = {} /\ r.todo = me.todo
        /\ r.dc.listen \subseteq me.dc.listen \cup {e}
    BY <1>2, <2>1 DEF SameBut
  <2> QED BY <1>1, <1>12, <2>1, <2>2, <2>3, ApplyMove DEF l
<1> QED BY <1>8, <1>9, <1>10, <1>11, <1>12 DEF Apply, rest, stored, ready, readyStored, l

-----------------------------------------------------------------------------
(* Reload and the callback. *)

\* p reads the object: it is there.
LEMMA ReloadPolicy ==
    ASSUME TypeOK, Undisturbed, NEW p \in Procs, NEW rec \in ProcStates, Reload(p, rec),
           UNCHANGED <<objCache, dc, dcCache, server>>, pending' \subseteq pending,
           rec.job \subseteq pending, rec.id = {}, rec.todo.del = {},
           listening' \subseteq listening, \A d \in rec.dc.listen : Watched(d)
    PROVE  Undisturbed' /\ \A d \in DataIds : Kept(d)
<1> DEFINE new == [rec EXCEPT !.pc = "addfin", !.obj = obj]
<1>1. obj \in Objects /\ obj.exists /\ ~obj.deleting
  BY DEF TypeOK, Undisturbed
<1>2. \A r \in {new, Loaded(p, rec, obj)} :
         /\ r.pc \in {"addfin", "store", "sync"} /\ r.obj = obj /\ r.job = rec.job
         /\ r.id = {} /\ r.todo.del = {} /\ r.dc = rec.dc
  <2>1. /\ new.pc = "addfin" /\ new.obj = obj /\ new.job = rec.job
        /\ new.id = {} /\ new.todo.del = {} /\ new.dc = rec.dc
    BY DEF ProcStates
  <2> DEFINE r == Loaded(p, rec, obj)
  <2>2. /\ r.pc \in {"store", "sync"} /\ r.obj = obj /\ r.job = rec.job
        /\ r.id = {} /\ r.todo.del = {} /\ r.dc = rec.dc
    <3>1. CASE p = "C"
      BY <3>1 DEF Loaded, ProcStates
    <3>2. CASE p # "C"
      BY <3>2 DEF Loaded, ProcStates, NoTodo
    <3> QED BY <3>1, <3>2
  <2> HIDE DEF new, r
  <2> QED BY <2>1, <2>2 DEF r
<1>3. Become(p, new) \/ Become(p, Loaded(p, rec, obj))
  BY <1>1 DEF Reload
<1> HIDE DEF new
<1>4. PICK r : /\ Become(p, r) /\ r.pc \in {"addfin", "store", "sync"} /\ r.obj = obj
               /\ r.job = rec.job /\ r.id = {} /\ r.todo.del = {} /\ r.dc = rec.dc
  BY <1>2, <1>3
<1>5. UNCHANGED obj
  BY <1>1 DEF Reload
<1>6. Undisturbed'
  BY <1>1, <1>4, <1>5, StaysUndisturbed
<1>7. ASSUME NEW d \in DataIds
      PROVE  Kept(d)
  <2>1. HasCopy(p, d, GetContent(obj', d)) /\ HasCopy(p, d, GetContent(r.obj, d))
    BY <1>4, <1>5 DEF HasCopy
  <2>2. /\ Owned(d) => OwnedBy(r, d, GetContent(obj, d))
        /\ Taken(d) => TakenBy(r, d, Norm(server[d]))
    BY <1>4, <2>1, Carries
  <2>3. d \in listening' \cup dc'.listen \cup r.dc.listen => Watched(d)
    BY <1>4 DEF Watched
  <2>4. \A n \in pending' : n.id = d =>
           \E m \in pending \cup proc[p].job : m.id = d /\ m.content = n.content
    OBVIOUS
  <2> QED BY <1>4, <2>1, <2>2, <2>3, <2>4, Moves
<1> QED BY <1>6, <1>7

\* The callback that is tried again has the arguments it had.
LEMMA RetryMove ==
    ASSUME TypeOK, NEW p \in Procs, proc[p].job # {}, RetryOnConflict(p)
    PROVE  \A n \in pending' \ pending :
              \E m \in proc[p].job : m.id = n.id /\ m.content = n.content
<1> DEFINE n == CHOOSE m \in proc[p].job : TRUE
<1>1. n \in proc[p].job
  OBVIOUS
<1>2. n \in Callbacks
  BY <1>1 DEF TypeOK, ProcStates
<1> HIDE DEF n
<1> DEFINE again == [n EXCEPT !.left = @ - 1]
<1>3. again.id = n.id /\ again.content = n.content
  BY <1>2 DEF Callbacks
<1>4. pending' \subseteq pending \cup {again}
  BY DEF RetryOnConflict, n
<1> HIDE DEF again
<1> QED BY <1>1, <1>3, <1>4

LEMMA NoWrapperPolicy ==
    ASSUME TypeOK, Undisturbed, NEW p \in Procs, NoWrapper(p), proc[p].pc \notin Parked,
           UNCHANGED <<objCache, dc, dcCache, server, listening>>
    PROVE  Undisturbed' /\ \A d \in DataIds : Kept(d)
<1> DEFINE r == IF p = "D" THEN [proc[p] EXCEPT !.pc = "status", !.obj = NoObject] ELSE Idle
<1>1. proc[p] \in ProcStates
  BY DEF TypeOK
<1>2. /\ r.pc \in {"idle", "status"} /\ r.job \subseteq proc[p].job /\ r.id \subseteq proc[p].id
      /\ r.id # {} => r.read = proc[p].read
      /\ r.todo.del \subseteq proc[p].todo.del /\ r.dc.listen \subseteq proc[p].dc.listen
  <2>1. CASE p = "D"
    BY <1>1, <2>1 DEF ProcStates
  <2>2. CASE p # "D"
    BY <2>2 DEF Idle, NoTodo, NewStatus
  <2> QED BY <2>1, <2>2
<1>3. ObjKept(p, r) /\ UNCHANGED pending
  BY DEF NoWrapper
<1> HIDE DEF r
<1>4. \A d \in listening' \cup dc'.listen \cup r.dc.listen : Watched(d)
  BY <1>2 DEF Watched
<1> QED BY <1>2, <1>3, <1>4, Finishes

LEMMA AddFinalizerPolicy ==
    ASSUME TypeOK, CallbackHasJob, Undisturbed, NEW p \in {"C", "D"}, AddFinalizer(p)
    PROVE  Undisturbed' /\ \A d \in DataIds : Kept(d)
<1> DEFINE me == proc[p]
           o == [me.obj EXCEPT !.fin = TRUE]
           r == Loaded(p, me, o)
<1>1. /\ p \in Procs /\ me \in ProcStates /\ me.obj \in Objects /\ me.pc = "addfin"
      /\ me.pc \notin Parked /\ me.obj.exists /\ ~me.obj.deleting
      /\ UNCHANGED <<objCache, dc, dcCache, server, listening>>
  BY DEF TypeOK, ProcStates, Procs, AddFinalizer, Parked, Undisturbed
<1>2. /\ o.exists /\ ~o.deleting
      /\ \A d \in DataIds : GetContent(o, d) = GetContent(me.obj, d)
  BY <1>1, FinReads
<1> HIDE DEF o
<1>3. /\ r.pc \in {"store", "sync"} /\ r.obj = o /\ r.job = me.job /\ r.id = me.id
      /\ r.read = me.read /\ r.todo.del \subseteq me.todo.del /\ r.dc = me.dc
  BY <1>1 DEF Loaded, ProcStates, NoTodo
<1> HIDE DEF r
<1>4. CASE ObjUpdate(p, o, r) /\ UNCHANGED pending
  <2>1. obj' = o /\ Become(p, r)
    BY <1>1, <1>2, <1>4, UpdateKeepsObject
  <2>2. Undisturbed'
    BY <1>1, <1>2, <1>3, <2>1, StaysUndisturbed
  <2>3. ASSUME NEW d \in DataIds
        PROVE  Kept(d)
    <3>1. HasCopy(p, d, GetContent(obj', d)) /\ HasCopy(p, d, GetContent(r.obj, d))
      BY <1>1, <1>2, <1>3, <2>1 DEF HasCopy
    <3>2. /\ Owned(d) => OwnedBy(r, d, GetContent(obj, d))
          /\ Taken(d) => TakenBy(r, d, Norm(server[d]))
      BY <1>1, <1>3, <3>1, Carries
    <3>3. d \in listening' \cup dc'.listen \cup r.dc.listen => Watched(d)
      BY <1>1, <1>3 DEF Watched
    <3> QED BY <1>1, <1>4, <2>1, <3>1, <3>2, <3>3, Moves
  <2> QED BY <2>2, <2>3
<1>5. CASE NoWrapper(p)
  BY <1>1, <1>5, NoWrapperPolicy
<1>6. CASE p = "C" /\ ObjKept(p, Idle) /\ RetryOnConflict(p)
  <2>1. /\ Idle.pc = "idle" /\ Idle.job = {} /\ Idle.id = {} /\ Idle.todo.del = {}
        /\ Idle.dc.listen = {}
    BY DEF Idle, NoTodo, NewStatus
  <2>2. \A n \in pending' \ pending :
           \E m \in proc[p].job : m.id = n.id /\ m.content = n.content
    BY <1>1, <1>6, RetryMove DEF CallbackHasJob
  <2>3. \A d \in listening' \cup dc'.listen \cup Idle.dc.listen : Watched(d)
    BY <1>1, <2>1 DEF Watched
  <2> QED BY <1>1, <1>6, <2>1, <2>2, <2>3, Finishes
<1> QED BY <1>4, <1>5, <1>6 DEF AddFinalizer, o, r

LEMMA CStartPolicy ==
    ASSUME TypeOK, Undisturbed, NEW n \in pending, CStart(n)
    PROVE  Undisturbed' /\ \A d \in DataIds : Kept(d)
<1> DEFINE rec == [Idle EXCEPT !.dc = dcCache, !.job = {n}]
<1>1. rec \in ProcStates
  BY IdleType DEF TypeOK, ProcStates
<1>2. rec.job = {n} /\ rec.id = {} /\ rec.todo.del = {} /\ rec.dc = dcCache
  BY DEF Idle, NoTodo
<1> HIDE DEF rec
<1>3. /\ Reload("C", rec) /\ UNCHANGED <<objCache, dc, dcCache, server, listening>>
      /\ pending' \subseteq pending /\ "C" \in Procs
  BY DEF CStart, rec, Procs
<1>4. \A d \in rec.dc.listen : Watched(d)
  BY <1>2 DEF Watched
<1> QED BY <1>1, <1>2, <1>3, <1>4, ReloadPolicy

LEMMA CStorePolicy ==
    ASSUME TypeOK, CallbackHasJob, Undisturbed, NEW n \in proc["C"].job, CStore(n)
    PROVE  Undisturbed' /\ \A d \in DataIds : Kept(d)
<1> DEFINE me == proc["C"]
           s == IF Ignored(n.content) THEN UpdateSyncStatusIfAbsent(me.dc, n.id, CalcMd5(Empty), TRUE)
                ELSE UpdateSyncStatus(me.dc, n.id, CalcMd5(n.content), TRUE)
           written == [me EXCEPT !.pc = "flush", !.dc = NewStatus,
                                 !.obj = StoreContent(@, n.id, n.content)]
<1>1. /\ me \in ProcStates /\ me.obj \in Objects /\ me.dc \in Statuses /\ n \in Callbacks
      /\ "C" \in Procs /\ me.pc = "store" /\ me.pc \notin Parked
      /\ me.obj.exists /\ ~me.obj.deleting
      /\ UNCHANGED <<objCache, dcCache, server, listening>>
  BY DEF TypeOK, ProcStates, Procs, CStore, Parked, Undisturbed
<1>2. n.id \in DataIds /\ n.content \in Texts
  BY <1>1 DEF Callbacks
<1>3. s.listen = me.dc.listen
  BY <1>1 DEF UpdateSyncStatus, UpdateSyncStatusIfAbsent, Statuses
<1>4. dc' = dc \/ dc' = s
  BY DEF CStore, DcUpdate, DcKept
<1> HIDE DEF s
<1>5. /\ written.pc = "flush" /\ written.obj = StoreContent(me.obj, n.id, n.content)
      /\ written.job = me.job /\ written.id = me.id /\ written.read = me.read
      /\ written.todo = me.todo /\ written.dc.listen = {}
  BY <1>1 DEF ProcStates, NewStatus
<1> HIDE DEF written
<1>6. CASE ObjKept("C", Idle) /\ (UNCHANGED pending \/ RetryOnConflict("C"))
  <2>1. /\ Idle.pc = "idle" /\ Idle.job = {} /\ Idle.id = {} /\ Idle.todo.del = {}
        /\ Idle.dc.listen = {}
    BY DEF Idle, NoTodo, NewStatus
  <2>2. \A m \in pending' \ pending :
           \E k \in me.job : k.id = m.id /\ k.content = m.content
    BY <1>1, <1>6, RetryMove
  <2>3. \A d \in listening' \cup dc'.listen \cup Idle.dc.listen : Watched(d)
    BY <1>1, <1>3, <1>4, <2>1 DEF Watched
  <2> QED BY <1>1, <1>6, <2>1, <2>2, <2>3, Finishes
<1>7. CASE /\ CalcMd5(n.content) # CalcMd5(GetContent(me.obj, n.id)) /\ CanStore(n.content)
           /\ ObjKept("C", written) /\ UNCHANGED pending
  <2>1. Become("C", written) /\ UNCHANGED obj
    BY <1>7 DEF ObjKept
  <2>2. written.obj.exists /\ ~written.obj.deleting
    BY <1>1, <1>2, <1>5, StoreContentFlags
  <2>3. Undisturbed'
    BY <1>1, <1>5, <2>1, <2>2, StaysUndisturbed DEF Undisturbed
  <2>4. ASSUME NEW d \in DataIds
        PROVE  Kept(d)
    <3>1. HasCopy("C", d, GetContent(obj', d)) /\ HasCopy("C", d, GetContent(me.obj, d))
      BY <1>1, <2>1 DEF HasCopy
    <3>2. \/ GetContent(written.obj, d) = GetContent(me.obj, d)
          \/ d = n.id /\ GetContent(written.obj, d) = Norm(n.content)
      BY <1>1, <1>2, <1>5, <1>7, StoreContentReads
    <3>3. Owned(d) => d # n.id
      BY <1>1, <1>7, <3>1, CopiesAgree DEF Owned, OwnedBy
    <3>4. Owned(d) => OwnedBy(written, d, GetContent(obj, d))
      BY <1>1, <1>5, <3>1, <3>2, <3>3, CopiesAgree DEF Owned, OwnedBy
    <3>5. Taken(d) => TakenBy(written, d, Norm(server[d]))
      BY <1>1, <1>5, <3>1, <3>2, CopiesAgree DEF Taken, TakenBy
    <3>6. d \in listening' \cup dc'.listen \cup written.dc.listen => Watched(d)
      BY <1>1, <1>3, <1>4, <1>5 DEF Watched
    <3> QED BY <1>1, <1>7, <2>1, <3>1, <3>4, <3>5, <3>6, Moves
  <2> QED BY <2>3, <2>4
<1> QED BY <1>6, <1>7 DEF CStore, written

LEMMA CFlushPolicy ==
    ASSUME TypeOK, CallbackHasJob, Undisturbed, CFlush
    PROVE  Undisturbed' /\ \A d \in DataIds : Kept(d)
<1>1. /\ "C" \in Procs /\ proc["C"].pc = "flush" /\ proc["C"].pc \notin Parked
      /\ UNCHANGED <<objCache, dc, dcCache, server, listening>>
  BY DEF Procs, CFlush, Parked, dcVars
<1>2. /\ ObjUpdate("C", proc["C"].obj, Idle) \/ ObjKept("C", Idle)
      /\ UNCHANGED pending \/ RetryOnConflict("C")
  BY DEF CFlush
<1>3. /\ Idle.pc = "idle" /\ Idle.job = {} /\ Idle.id = {} /\ Idle.todo.del = {}
      /\ Idle.dc.listen = {}
  BY DEF Idle, NoTodo, NewStatus
<1>4. \A n \in pending' \ pending :
         \E m \in proc["C"].job : m.id = n.id /\ m.content = n.content
  BY <1>1, <1>2, RetryMove DEF CallbackHasJob
<1>5. \A d \in listening' \cup dc'.listen \cup Idle.dc.listen : Watched(d)
  BY <1>1, <1>3 DEF Watched
<1> QED BY <1>1, <1>2, <1>3, <1>4, <1>5, Finishes

-----------------------------------------------------------------------------
(* The DC reconciler. *)

LEMMA DStartPolicy ==
    ASSUME TypeOK, Undisturbed, DStart
    PROVE  Undisturbed' /\ \A d \in DataIds : Kept(d)
<1> DEFINE s == IF DropsGroup(dcCache) THEN DropGroup(dcCache) ELSE dcCache
           me == [Idle EXCEPT !.dc = s]
           skip == [me EXCEPT !.pc = "status"]
<1>1. s \in Statuses /\ s.listen \subseteq dcCache.listen /\ "D" \in Procs
  BY StatusTypes, StatusListens DEF TypeOK, Procs
<1> HIDE DEF s
<1>2. /\ me \in ProcStates /\ me.job = {} /\ me.id = {} /\ me.todo.del = {} /\ me.dc = s
  BY <1>1, IdleType DEF ProcStates, Idle, NoTodo
<1> HIDE DEF me
<1>3. /\ skip.pc = "status" /\ skip.job = {} /\ skip.id = {} /\ skip.todo.del = {}
      /\ skip.dc = s
  BY <1>2 DEF ProcStates
<1> HIDE DEF skip
<1>4. Reload("D", me) \/ ObjKept("D", skip)
  BY DEF DStart, me, skip, s
<1>5. UNCHANGED <<objCache, dc, dcCache, server, pending>> /\ listening' \subseteq listening
  BY DEF DStart
<1>6. \A d \in listening' \cup dc'.listen \cup s.listen : Watched(d)
  BY <1>1, <1>5 DEF Watched
<1>7. CASE Reload("D", me)
  BY <1>1, <1>2, <1>5, <1>6, <1>7, ReloadPolicy
<1>8. CASE ObjKept("D", skip)
  <2>1. Become("D", skip) /\ UNCHANGED obj /\ proc["D"].pc # "check"
    BY <1>8 DEF ObjKept, DStart
  <2> QED BY <1>1, <1>3, <1>5, <1>6, <2>1, QuietMove DEF Parked
<1> QED BY <1>4, <1>7, <1>8

LEMMA DFlushPolicy ==
    ASSUME TypeOK, Undisturbed, DFlush
    PROVE  Undisturbed' /\ \A d \in DataIds : Kept(d)
<1> DEFINE me == proc["D"]
           rest == [me EXCEPT !.pc = "status", !.obj = NoObject]
<1>1. /\ me \in ProcStates /\ "D" \in Procs /\ me.pc = "sync" /\ me.pc \notin Parked
      /\ UNCHANGED <<objCache, dc, dcCache, server, listening, pending>>
  BY DEF TypeOK, Procs, DFlush, Parked, dcVars, nacos
<1>2. /\ rest.pc = "status" /\ rest.job = me.job /\ rest.id = me.id /\ rest.read = me.read
      /\ rest.todo = me.todo /\ rest.dc = me.dc
  BY <1>1 DEF ProcStates
<1> HIDE DEF rest
<1>3. ObjUpdate("D", me.obj, rest) \/ ObjKept("D", rest)
  BY DEF DFlush, rest
<1>4. \A d \in listening' \cup dc'.listen \cup rest.dc.listen : Watched(d)
  BY <1>1, <1>2 DEF Watched
<1> QED BY <1>1, <1>2, <1>3, <1>4, Finishes

LEMMA DStatusPolicy ==
    ASSUME TypeOK, Undisturbed, DStatus
    PROVE  Undisturbed' /\ \A d \in DataIds : Kept(d)
<1> DEFINE me == proc["D"]
           st == UpdateDynamicConfigurationStatus(me.dc, Scope)
           s  == IF me.err THEN FailedStatus(st) ELSE UpdateStatus(st)
<1>1. /\ me.dc \in Statuses /\ "D" \in Procs
      /\ UNCHANGED <<obj, objCache, dcCache, server, listening, pending>>
  BY DEF TypeOK, ProcStates, Procs, DStatus, ObjKept, nacos
<1>2. st \in Statuses /\ st.listen = me.dc.listen
  BY <1>1, StatusTypes, StatusListens
<1> HIDE DEF st
<1>3. s.listen = me.dc.listen
  BY <1>2, StatusListens
<1>4. dc' = s \/ dc' = dc
  BY DEF DStatus, DcUpdate, DcKept, st
<1> HIDE DEF s
<1>5. /\ Idle.pc = "idle" /\ Idle.job = {} /\ Idle.id = {} /\ Idle.todo.del = {}
      /\ Idle.dc.listen = {}
  BY DEF Idle, NoTodo, NewStatus
<1>6. \A d \in listening' \cup dc'.listen \cup Idle.dc.listen : Watched(d)
  BY <1>1, <1>3, <1>4, <1>5 DEF Watched
<1>7. Become("D", Idle) /\ proc["D"].pc # "check"
  BY DEF DStatus, ObjKept
<1> QED BY <1>1, <1>5, <1>6, <1>7, QuietMove DEF Parked

-----------------------------------------------------------------------------
(* The fuzzy listen task. *)

\* F takes up what the server has.
LEMMA FPollPolicy ==
    ASSUME TypeOK, Undisturbed, NEW e \in DataIds, FPoll(e)
    PROVE  Undisturbed' /\ \A d \in DataIds : Kept(d)
<1> DEFINE n == [id |-> e, content |-> server[e], left |-> 1]
           r == [Idle EXCEPT !.pc = "check", !.job = {n}]
<1>1. /\ r.pc = "check" /\ r.job = {n} /\ r.id = {} /\ r.todo.del = {} /\ r.dc.listen = {}
      /\ n.id = e /\ n.content = server[e]
  BY DEF Idle, NoTodo, NewStatus
<1>2. Become("F", r)
  BY DEF FPoll
<1> HIDE DEF r, n
<1>3. /\ UNCHANGED <<obj, objCache, dc, dcCache, server, listening, pending>>
      /\ "F" \in Procs /\ "check" \in Parked
  BY DEF FPoll, objVars, dcVars, nacos, Procs, Parked
<1>4. Undisturbed'
  BY <1>1, <1>2, <1>3, StaysUndisturbed DEF Undisturbed
<1>5. ASSUME NEW d \in DataIds
      PROVE  Kept(d)
  <2>1. HasCopy("F", d, GetContent(obj', d))
    BY <1>3 DEF HasCopy
  <2>2. Owned(d) => OwnedBy(r, d, GetContent(obj, d))
    BY <1>1, <1>3 DEF Owned, OwnedBy
  <2>3. Taken(d) => TakenBy(r, d, Norm(server[d]))
    BY <1>1, <1>3 DEF TakenBy
  <2>4. d \in listening' \cup dc'.listen \cup r.dc.listen => Watched(d)
    BY <1>1, <1>3 DEF Watched
  <2> QED BY <1>2, <1>3, <2>1, <2>2, <2>3, <2>4, Moves
<1> QED BY <1>4, <1>5

\* F goes on with a content only for a data id under which the object has none.
LEMMA FCheckPolicy ==
    ASSUME TypeOK, Undisturbed, NEW n \in proc["F"].job, FCheck(n)
    PROVE  Undisturbed' /\ \A d \in DataIds : Kept(d)
<1> DEFINE load == [Idle EXCEPT !.pc = "load", !.job = {n}]
<1>1. /\ load.pc = "load" /\ load.job = {n} /\ load.id = {} /\ load.todo.del = {}
      /\ load.dc.listen = {}
  BY DEF Idle, NoTodo, NewStatus
<1>2. (GetContent(obj, n.id) = Empty /\ Become("F", load)) \/ Become("F", Idle)
  BY DEF FCheck
<1> HIDE DEF load
<1>3. PICK r : /\ Become("F", r)
               /\ (r = load /\ GetContent(obj, n.id) = Empty) \/ r = Idle
  BY <1>2
<1>4. /\ UNCHANGED <<obj, objCache, dc, dcCache, server, listening, pending>>
      /\ "F" \in Procs /\ r.pc \in Parked /\ r.pc \notin {"create", "write"}
      /\ r.dc.listen = {}
  BY <1>1, <1>3, IdleKnowsNothing DEF FCheck, objVars, dcVars, nacos, Procs, Parked
<1>5. Undisturbed'
  BY <1>3, <1>4, StaysUndisturbed DEF Undisturbed
<1>6. ASSUME NEW d \in DataIds
      PROVE  Kept(d)
  <2>1. HasCopy("F", d, GetContent(obj', d))
    BY <1>4 DEF HasCopy
  <2>2. Owned(d) => OwnedBy(r, d, GetContent(obj, d))
    <3>1. CASE r = Idle
      BY <3>1, IdleKnowsNothing
    <3>2. CASE r = load /\ GetContent(obj, n.id) = Empty
      BY <1>1, <3>2 DEF Owned, OwnedBy, Parked
    <3> QED BY <1>3, <3>1, <3>2
  <2>3. Taken(d) => TakenBy(r, d, Norm(server[d]))
    <3>1. Taken(d) => TakenBy(proc["F"], d, Norm(server[d]))
      BY <1>4 DEF Taken
    <3>2. TakenBy(proc["F"], d, Norm(server[d])) => TakenBy(load, d, Norm(server[d]))
      BY <1>1 DEF TakenBy, Parked
    <3> QED BY <1>3, <3>1, <3>2, IdleKnowsNothing
  <2>4. d \in listening' \cup dc'.listen \cup r.dc.listen => Watched(d)
    BY <1>4 DEF Watched
  <2> QED BY <1>3, <1>4, <2>1, <2>2, <2>3, <2>4, Moves
<1> QED BY <1>5, <1>6

LEMMA FLoadPolicy ==
    ASSUME TypeOK, FoundStorable, Undisturbed, NEW n \in proc["F"].job, FLoad(n)
    PROVE  Undisturbed' /\ \A d \in DataIds : Kept(d)
<1> DEFINE stored == StoreContent(obj, n.id, n.content)
           o == [stored EXCEPT !.fin = TRUE]
           r == [Idle EXCEPT !.pc = "write", !.known = obj.exists, !.obj = o]
<1>1. /\ obj \in Objects /\ obj.exists /\ ~obj.deleting /\ n \in Callbacks /\ "F" \in Procs
      /\ proc["F"].pc = "load" /\ "write" \notin Parked
  BY DEF TypeOK, Undisturbed, ProcStates, Procs, FLoad, Parked
<1>2. n.id \in DataIds /\ n.content \in Texts /\ CanStore(n.content)
  BY <1>1 DEF Callbacks, FoundStorable
<1>3. stored \in Objects /\ stored.exists /\ ~stored.deleting
  BY <1>1, <1>2, StoreContentType, StoreContentFlags
<1> HIDE DEF stored
<1>4. o.exists /\ ~o.deleting /\ \A d \in DataIds : GetContent(o, d) = GetContent(stored, d)
  BY <1>3, FinReads
<1> HIDE DEF o
<1>5. /\ r.pc = "write" /\ r.known = obj.exists /\ r.obj = o /\ r.job = {} /\ r.id = {}
      /\ r.todo.del = {} /\ r.dc.listen = {}
  BY DEF Idle, NoTodo, NewStatus
<1> HIDE DEF r
<1>6. Become("F", r) /\ UNCHANGED <<obj, objCache, dc, dcCache, server, listening, pending>>
  BY <1>1 DEF FLoad, dcVars, nacos, r, o, stored
<1>7. Undisturbed'
  BY <1>1, <1>4, <1>5, <1>6, StaysUndisturbed DEF Undisturbed
<1>8. ASSUME NEW d \in DataIds
      PROVE  Kept(d)
  <2>1. HasCopy("F", d, GetContent(obj', d))
    BY <1>6 DEF HasCopy
  <2>2. \/ GetContent(o, d) = GetContent(obj, d)
        \/ d = n.id /\ GetContent(o, d) = Norm(n.content)
    BY <1>1, <1>2, <1>4, StoreContentReads DEF stored
  <2>3. Owned(d) => d # n.id
    BY <1>1 DEF Owned, OwnedBy
  <2>4. Owned(d) => OwnedBy(r, d, GetContent(obj, d))
    BY <1>5, <2>2, <2>3 DEF OwnedBy
  <2>5. Taken(d) => TakenBy(r, d, Norm(server[d]))
    BY <1>1, <1>5, <2>2 DEF Taken, TakenBy
  <2>6. d \in listening' \cup dc'.listen \cup r.dc.listen => Watched(d)
    BY <1>5, <1>6 DEF Watched
  <2> QED BY <1>1, <1>6, <2>1, <2>4, <2>5, <2>6, Moves
<1> QED BY <1>7, <1>8

LEMMA FWritePolicy ==
    ASSUME TypeOK, Undisturbed, FWrite
    PROVE  Undisturbed' /\ \A d \in DataIds : Kept(d)
<1>1. /\ proc["F"].pc = "write" /\ proc["F"].pc \notin Parked /\ "F" \in Procs /\ proc["F"].known
      /\ UNCHANGED <<objCache, dc, dcCache, server, listening, pending>>
  BY DEF FWrite, Parked, Procs, Undisturbed, dcVars, nacos
<1>2. ObjUpdate("F", proc["F"].obj, Idle) \/ ObjKept("F", Idle)
  BY <1>1 DEF FWrite
<1>3. /\ Idle.pc = "idle" /\ Idle.job = {} /\ Idle.id = {} /\ Idle.todo.del = {}
      /\ Idle.dc.listen = {}
  BY DEF Idle, NoTodo, NewStatus
<1>4. \A d \in listening' \cup dc'.listen \cup Idle.dc.listen : Watched(d)
  BY <1>1, <1>3 DEF Watched
<1> QED BY <1>1, <1>2, <1>3, <1>4, Finishes

-----------------------------------------------------------------------------
(* The environment. *)

LEMMA ObjInformerPolicy ==
    ASSUME TypeOK, Undisturbed, ObjInformer
    PROVE  Undisturbed' /\ \A d \in DataIds : Kept(d)
<1>1. /\ UNCHANGED <<obj, dc, dcCache, server, listening, pending, proc>>
      /\ objCache' = obj
  BY DEF ObjInformer, dcVars, nacos
<1>2. Undisturbed'
  BY <1>1 DEF Undisturbed
<1>3. ASSUME NEW d \in DataIds PROVE Kept(d)
  <2>1. Owned(d) => Owned(d)'
    BY <1>1 DEF Owned, OwnedBy, Watched
  <2>2. Taken(d) => Taken(d)'
    BY <1>1 DEF Taken, TakenBy
  <2> QED BY <1>1, <2>1, <2>2 DEF Kept
<1> QED BY <1>2, <1>3

LEMMA DcInformerPolicy ==
    ASSUME TypeOK, Undisturbed, DcInformer
    PROVE  Undisturbed' /\ \A d \in DataIds : Kept(d)
<1>1. /\ UNCHANGED <<obj, objCache, dc, server, listening, pending, proc>>
      /\ dcCache' = dc
  BY DEF DcInformer, objVars, nacos
<1>2. Undisturbed'
  BY <1>1 DEF Undisturbed
<1>3. ASSUME NEW d \in DataIds PROVE Kept(d)
  <2>1. Owned(d) => Owned(d)'
    BY <1>1 DEF Owned, OwnedBy, Watched
  <2>2. Taken(d) => Taken(d)'
    BY <1>1 DEF Taken, TakenBy
  <2> QED BY <1>1, <2>1, <2>2 DEF Kept
<1> QED BY <1>2, <1>3

\* A callback for a data id the object owns brings the object's own content.
LEMMA NotifyPolicy ==
    ASSUME TypeOK, Undisturbed, NEW e \in DataIds, Notify(e)
    PROVE  Undisturbed' /\ \A d \in DataIds : Kept(d)
<1> DEFINE n == [id |-> e, content |-> server[e], left |-> RetrySteps]
<1>1. /\ UNCHANGED <<obj, objCache, dc, dcCache, server, listening, proc>>
      /\ pending' = pending \cup {n} /\ e \in listening
  BY DEF Notify, objVars, dcVars
<1>2. n.id = e /\ n.content = server[e]
  OBVIOUS
<1> HIDE DEF n
<1>3. Undisturbed'
  BY <1>1 DEF Undisturbed
<1>4. ASSUME NEW d \in DataIds PROVE Kept(d)
  <2>1. Owned(d) => Owned(d)'
    <3> SUFFICES ASSUME Owned(d) PROVE Owned(d)'
      OBVIOUS
    <3>1. \A m \in pending' : m.id = d => m.content = GetContent(obj, d)
      BY <1>1, <1>2 DEF Owned, Watched
    <3>2. Watched(d)' = Watched(d) /\ \A p \in Procs : OwnedBy(proc[p], d, GetContent(obj, d))'
      BY <1>1 DEF Owned, OwnedBy, Watched
    <3> QED BY <1>1, <3>1, <3>2 DEF Owned
  <2>2. Taken(d) => Taken(d)'
    BY <1>1, <1>2 DEF Taken, TakenBy
  <2> QED BY <1>1, <2>1, <2>2 DEF Kept
<1> QED BY <1>3, <1>4

LEMMA CrashPolicy ==
    ASSUME TypeOK, Undisturbed, Crash
    PROVE  Undisturbed' /\ \A d \in DataIds : Kept(d)
<1>1. /\ UNCHANGED <<obj, dc, server>> /\ listening' = {} /\ pending' = {}
      /\ objCache' = obj /\ dcCache' = dc
      /\ \A p \in Procs : proc'[p] = Idle
  BY DEF Crash
<1>2. Idle.pc = "idle" /\ Idle.dc.listen = {} /\ "idle" \in Parked /\ "F" \in Procs
  BY DEF Idle, NewStatus, Parked, Procs
<1>3. Undisturbed'
  BY <1>1, <1>2 DEF Undisturbed
<1>4. ASSUME NEW d \in DataIds PROVE Kept(d)
  <2>1. Owned(d) => Owned(d)'
    <3> SUFFICES ASSUME Owned(d) PROVE Owned(d)'
      OBVIOUS
    <3>1. \A p \in Procs : OwnedBy(proc[p], d, GetContent(obj, d))'
      BY <1>1, IdleKnowsNothing DEF OwnedBy
    <3>2. Watched(d)' => Watched(d)
      BY <1>1, <1>2 DEF Watched
    <3> QED BY <1>1, <3>1, <3>2 DEF Owned
  <2>2. Taken(d) => Taken(d)'
    <3> SUFFICES ASSUME Taken(d) PROVE Taken(d)'
      OBVIOUS
    <3>1. \A p \in Procs : TakenBy(proc[p], d, Norm(server[d]))'
      BY <1>1, IdleKnowsNothing DEF TakenBy
    <3> QED BY <1>1, <3>1 DEF Taken
  <2> QED BY <1>1, <2>1, <2>2 DEF Kept
<1> QED BY <1>3, <1>4

-----------------------------------------------------------------------------

\* Only the user's steps count in ops.
LEMMA OpsGrow ==
    ASSUME TypeOK, [Next]_vars
    PROVE  (User /\ ops' # 0) \/ ops' = ops
<1>1. CASE User
  <2>1. UserOp
    BY <1>1 DEF User, EditLocal, EditServer, DeleteObject, CreateObject
  <2> QED BY <1>1, <2>1, SyncAssumption DEF UserOp, TypeOK
<1>2. CASE Reconciler
  BY <1>2 DEF Reconciler, RStart, RFinalize, RList, RStatus, RUpdate, RDelete, RBoth, Query,
              Apply, budget
<1>3. CASE Callback
  BY <1>3 DEF Callback, CStart, CreateMissing, AddFinalizer, CStore, CFlush, budget
<1>4. CASE DcReconciler
  BY <1>4 DEF DcReconciler, DStart, CreateMissing, AddFinalizer, DFlush, DStatus, Query, Apply,
              budget
<1>5. CASE FuzzyListen
  BY <1>5 DEF FuzzyListen, FPoll, FCheck, FLoad, FWrite, budget
<1>6. CASE Delivery \/ Crash
  BY <1>6 DEF Delivery, ObjInformer, DcInformer, Notify, Crash, budget
<1>7. CASE Rest \/ UNCHANGED vars
  BY <1>7 DEF Rest, vars, budget
<1> QED BY <1>1, <1>2, <1>3, <1>4, <1>5, <1>6, <1>7 DEF Next, Controller

\* A step that is not the user's leaves every data id in its situation.
LEMMA PolicyStep ==
    ASSUME TypeOK, CallbackHasJob, FoundStorable, Undisturbed, PreferCluster, [Next]_vars, ~User
    PROVE  Undisturbed' /\ \A d \in DataIds : Kept(d)
<1>1. CASE Reconciler
  BY <1>1, RStartPolicy, RListPolicy, RStatusPolicy, RUpdatePolicy, RDeletePolicy, RBothPolicy,
     QueryPolicy, ApplyPolicy DEF Reconciler, Procs
<1>2. ~CreateMissing("C") /\ ~CreateMissing("D")
  BY DEF CreateMissing, Undisturbed, Procs
<1>3. CASE Callback
  BY <1>2, <1>3, CStartPolicy, AddFinalizerPolicy, CStorePolicy, CFlushPolicy DEF Callback
<1>4. CASE DcReconciler
  BY <1>2, <1>4, DStartPolicy, AddFinalizerPolicy, DFlushPolicy, DStatusPolicy, QueryPolicy,
     ApplyPolicy DEF DcReconciler, Procs
<1>5. CASE FuzzyListen
  BY <1>5, FPollPolicy, FCheckPolicy, FLoadPolicy, FWritePolicy DEF FuzzyListen
<1>6. CASE Delivery \/ Crash
  BY <1>6, ObjInformerPolicy, DcInformerPolicy, NotifyPolicy, CrashPolicy DEF Delivery
<1>7. CASE Rest \/ UNCHANGED vars
  <2>1. UNCHANGED <<obj, objCache, dc, dcCache, server, listening, pending, proc>>
    BY <1>7 DEF Rest, vars, objVars, dcVars, nacos
  <2>2. Undisturbed'
    BY <2>1 DEF Undisturbed
  <2>3. \A d \in DataIds : (Owned(d) => Owned(d)') /\ (Taken(d) => Taken(d)')
    BY <2>1 DEF Owned, OwnedBy, Watched, Taken, TakenBy
  <2> QED BY <2>1, <2>2, <2>3 DEF Kept
<1> QED BY <1>1, <1>3, <1>4, <1>5, <1>6, <1>7 DEF Next, Controller

\* With syncDeletion an object has a content under every key that is synced.
NothingMissing == SyncDeletion => \A o \in InitObjs, d \in DataIds : GetContent(o, d) # Empty

LEMMA InitPolicy ==
    ASSUME NothingMissing, Init
    PROVE  PolicyInv
<1>1. /\ obj \in InitObjs /\ obj.exists /\ ~obj.deleting /\ objCache = obj /\ pending = {}
      /\ \A p \in Procs : proc[p] = Idle
  BY SyncAssumption DEF Init
<1>2. Idle.pc = "idle" /\ Idle.dc.listen = {} /\ "idle" \in Parked /\ "F" \in Procs
  BY DEF Idle, NewStatus, Parked, Procs
<1>3. Undisturbed
  BY <1>1, <1>2 DEF Undisturbed
<1>4. ASSUME NEW d \in DataIds, GetContent(obj, d) # Empty
      PROVE  Owned(d)
  <2>1. Watched(d) => server[d] = GetContent(obj, d)
    <3>1. CASE InitSynced
      <4>1. server = [e \in DataIds |-> GetContent(obj, e)]
        BY <3>1 DEF Init
      <4> QED BY <4>1
    <3>2. CASE ~InitSynced
      <4>1. listening = {} /\ dc = NewStatus /\ dcCache = dc
        BY <3>2 DEF Init
      <4>2. NewStatus.listen = {}
        BY DEF NewStatus
      <4> QED BY <1>1, <1>2, <4>1, <4>2 DEF Watched
    <3> QED BY <3>1, <3>2
  <2> QED BY <1>1, <1>4, <2>1, IdleKnowsNothing DEF Owned
<1>5. ASSUME NEW d \in DataIds, GetContent(obj, d) = Empty
      PROVE  ~SyncDeletion /\ Taken(d)
  BY <1>1, <1>5, IdleKnowsNothing DEF Taken, NothingMissing
<1> QED BY <1>3, <1>4, <1>5 DEF PolicyInv

\* The inductive step, and what it says of the contents of the object.
LEMMA PolicyPreserved ==
    ASSUME TypeOK, CallbackHasJob, FoundStorable, CurrentCopies, PolicyInv, [Next]_vars
    PROVE  /\ PolicyInv'
           /\ PreferCluster /\ ops' = 0 =>
                \A d \in DataIds : GetContent(obj, d) # Empty => GetContent(obj', d) = GetContent(obj, d)
<1> SUFFICES ASSUME PreferCluster, ops' = 0
             PROVE  /\ Undisturbed'
                    /\ \A d \in DataIds : Owned(d)' \/ (~SyncDeletion /\ Taken(d)')
                    /\ \A d \in DataIds : GetContent(obj, d) # Empty => GetContent(obj', d) = GetContent(obj, d)
  BY DEF PolicyInv
<1>1. ops' = ops /\ ops = 0 /\ ~User
  BY OpsGrow, UserContent
<1>2. Undisturbed /\ \A d \in DataIds : Owned(d) \/ (~SyncDeletion /\ Taken(d))
  BY <1>1 DEF PolicyInv
<1>3. Undisturbed' /\ \A d \in DataIds : Kept(d)
  BY <1>1, <1>2, PolicyStep
<1>4. ~SyncDeletion => ObjectKept
  BY <1>1, ContentStep
<1>5. ASSUME NEW d \in DataIds
      PROVE  /\ Owned(d)' \/ (~SyncDeletion /\ Taken(d)')
             /\ GetContent(obj, d) # Empty => GetContent(obj', d) = GetContent(obj, d)
  <2>1. CASE Owned(d)
    BY <1>3, <2>1 DEF Kept
  <2>2. CASE ~SyncDeletion /\ Taken(d)
    <3>1. Taken(d)' /\ Norm(server'[d]) = Norm(server[d])
      BY <1>3, <2>2 DEF Kept
    <3>2. GetContent(obj', d) \in {Empty, Norm(server[d])} /\ GetContent(obj, d) \in {Empty, Norm(server[d])}
      BY <2>2, <3>1 DEF Taken
    <3>3. GetContent(obj, d) # Empty => GetContent(obj', d) # Empty
      BY <1>2, <1>4, <2>2 DEF ObjectKept, Undisturbed
    <3> QED BY <2>2, <3>1, <3>2, <3>3
  <2> QED BY <1>2, <2>1, <2>2
<1> QED BY <1>3, <1>5

\* Under preferCluster no handler replaces a content of the object by another
\* until a user acts: the initial sync publishes what the cluster has before it
\* listens, the callbacks it sets off bring the object's own contents, and the
\* fuzzy listen task only fills what is empty.  For any data ids, contents,
\* restarts and failing calls; with syncDeletion, for objects that have a
\* content under every key.
THEOREM ClusterKeepsItsContents == NothingMissing => (Spec => ClusterWins)
<1> SUFFICES ASSUME NothingMissing PROVE Spec => ClusterWins
  OBVIOUS
<1>1. Init => PolicyInv
  BY InitPolicy
<1>2. TypeOK /\ CallbackHasJob /\ FoundStorable /\ CurrentCopies /\ PolicyInv /\ [Next]_vars => PolicyInv'
  BY PolicyPreserved
<1>3. TypeOK /\ CallbackHasJob /\ FoundStorable /\ CurrentCopies /\ PolicyInv /\ [Next]_vars =>
        [PreferCluster /\ ops' = 0 =>
           \A d \in DataIds : GetContent(obj, d) # Empty => GetContent(obj', d) = GetContent(obj, d)]_vars
  BY PolicyPreserved
<1> QED BY <1>1, <1>2, <1>3, TypeCorrect, CopiesAreCurrent, PTL DEF Spec, ClusterWins
=============================================================================
