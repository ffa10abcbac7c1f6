---------------------------- MODULE ContentProofs ----------------------------
(***************************************************************************)
(* Without syncDeletion the controller never makes a content disappear,    *)
(* neither from the object nor from the Nacos server.                      *)
(*                                                                         *)
(* The server side needs no invariant: each publish carries a content the  *)
(* step has just tested.  The object side rests on CurrentCopies: a        *)
(* handler may work on a copy that is out of date, but then it is not in   *)
(* objHeld and its Update is refused.                                      *)
(***************************************************************************)
EXTENDS ConfigSyncProofs

\* What one step does to the contents of the object and of the server.
ObjectKept == \A d \in DataIds :
                 GetContent(obj, d) # Empty /\ ~obj.deleting => GetContent(obj', d) # Empty
ServerKept == \A d \in DataIds : server[d] # Empty => server'[d] # Empty

LEMMA EmptyObjects ==
    \A d \in DataIds : GetContent(NoObject, d) = Empty /\ GetContent(NewObject, d) = Empty
BY DEF NoObject, NewObject, NoKeys, GetContent

\* StoreContent touches nothing but the contents.
LEMMA StoreContentFlags ==
    ASSUME NEW o \in Objects, NEW d \in DataIds, NEW c
    PROVE  /\ StoreContent(o, d, c).exists = o.exists
           /\ StoreContent(o, d, c).deleting = o.deleting
BY DEF StoreContent, Objects

\* A non-empty content can be stored into a covering copy, which stays one.
LEMMA StoreContentCovers ==
    ASSUME TypeOK, NEW o \in Objects, NEW d \in DataIds, NEW c \in Texts, CanStore(c),
           Covers(o), c # Empty \/ SyncDeletion
    PROVE  Covers(StoreContent(o, d, c))
<1>1. CASE c # Empty
  <2>1. c \in Contents
    BY <1>1 DEF Texts
  <2>2. \A e \in DataIds : GetContent(o, e) # Empty => GetContent(StoreContent(o, d, c), e) # Empty
    BY <2>1, StoreContentKeeps
  <2> QED BY <2>2, StoreContentFlags DEF Covers
<1>2. CASE SyncDeletion
  BY <1>2, StoreContentFlags DEF Covers
<1> QED BY <1>1, <1>2

\* The object stays and p goes on with a copy that covers it, or gives it up.
LEMMA PassOn ==
    ASSUME TypeOK, CurrentCopies, NEW p \in Procs, NEW rec, Become(p, rec),
           UNCHANGED <<obj, objCache>>, objHeld' \subseteq objHeld \cup {p},
           p \in objHeld' /\ rec.pc \notin {"idle", "create", "status", "check", "load"} => Covers(rec.obj)
    PROVE  CurrentCopies'
<1>1. "cache" # p
  BY DEF Procs
<1>2. "cache" \in objHeld' => objCache' = obj'
  BY <1>1 DEF CurrentCopies
<1>3. ASSUME NEW q \in Procs, q \in objHeld', proc'[q].pc \notin {"idle", "create", "status", "check", "load"}
      PROVE  Covers(proc'[q].obj)
  <2>1. CASE q = p
    BY <1>3, <2>1, BecomeOthers
  <2>2. CASE q # p
    <3>1. proc'[q] = proc[q] /\ q \in objHeld
      BY <1>3, <2>2, BecomeOthers
    <3> QED BY <1>3, <3>1 DEF CurrentCopies
  <2> QED BY <2>1, <2>2
<1>4. \A q \in Procs : Covers(proc'[q].obj) => Covers(proc[q].obj)'
  BY DEF Covers
<1> QED BY <1>2, <1>3, <1>4 DEF CurrentCopies

\* p's copy covers the object, p holds the current version and writes o.
LEMMA Written ==
    ASSUME TypeOK, CurrentCopies, obj.exists, NEW p \in Procs, NEW o \in Objects, NEW rec,
           ObjUpdate(p, o, rec), UNCHANGED objCache, Covers(o),
           rec.pc \notin {"idle", "create", "status", "check", "load"} => rec.obj = o /\ ~(o.deleting /\ ~o.fin)
    PROVE  CurrentCopies' /\ (~SyncDeletion => ObjectKept)
<1>1. obj' = Collected(o) /\ Become(p, rec)
  BY DEF ObjUpdate
<1>2. ~SyncDeletion => ObjectKept
  <2> SUFFICES ASSUME ~SyncDeletion, ~obj.deleting PROVE ObjectKept
    BY DEF ObjectKept
  <2>1. obj' = o
    BY <1>1 DEF Covers, Collected
  <2> QED BY <2>1 DEF ObjectKept, Covers
<1>3. CASE o = obj
  <2>1. obj' = obj
    BY <1>1, <1>3 DEF Collected, CurrentCopies
  <2>2. objHeld' \subseteq objHeld \cup {p}
    BY <1>3 DEF ObjUpdate, Release
  <2>3. rec.pc \notin {"idle", "create", "status", "check", "load"} => Covers(rec.obj)
    OBVIOUS
  <2> QED BY <1>1, <1>2, <2>1, <2>2, <2>3, PassOn
<1>4. CASE o # obj
  <2>1. objHeld' \subseteq {p} /\ "cache" \notin objHeld'
    BY <1>4 DEF ObjUpdate, Release, Procs
  <2>2. ~obj'.exists => \A d \in DataIds : GetContent(obj', d) = Empty
    BY <1>1, EmptyObjects DEF Collected, Covers
  <2>3. obj'.deleting => obj'.fin
    BY <1>1 DEF Collected, NoObject
  <2>4. ASSUME NEW q \in Procs, q \in objHeld', proc'[q].pc \notin {"idle", "create", "status", "check", "load"}
        PROVE  Covers(proc[q].obj)'
    <3>1. proc'[q] = rec
      BY <1>1, <2>1, <2>4, BecomeOthers
    <3>2. rec.obj = o /\ obj' = o
      BY <1>1, <2>4, <3>1 DEF Collected
    <3> QED BY <3>1, <3>2 DEF Covers
  <2> QED BY <1>2, <2>1, <2>2, <2>3, <2>4 DEF CurrentCopies
<1> QED BY <1>3, <1>4

\* p goes on with the same copy.
LEMMA KeepsCopy ==
    ASSUME TypeOK, CurrentCopies, NEW p \in Procs, NEW rec, Become(p, rec),
           UNCHANGED objVars, proc[p].pc \notin {"idle", "create", "status", "check", "load"}, rec.obj = proc[p].obj
    PROVE  CurrentCopies' /\ ObjectKept
<1>1. UNCHANGED <<obj, objCache>> /\ objHeld' = objHeld
  BY DEF objVars
<1>2. p \in objHeld => Covers(rec.obj)
  BY DEF CurrentCopies
<1> QED BY <1>1, <1>2, PassOn DEF ObjectKept

\* p's Update is refused, or p has nothing to write, and p becomes idle.
LEMMA GivesUp ==
    ASSUME TypeOK, CurrentCopies, NEW p \in Procs, NEW rec, ObjKept(p, rec),
           UNCHANGED objCache, rec.pc \in {"idle", "create", "status", "check", "load"}
    PROVE  CurrentCopies' /\ ObjectKept
<1>1. UNCHANGED <<obj, objCache>> /\ objHeld' \subseteq objHeld /\ Become(p, rec)
  BY DEF ObjKept, Release
<1> QED BY <1>1, PassOn DEF ObjectKept

\* p's Update succeeds only if p holds the current version.
LEMMA UpdateGuard ==
    ASSUME NEW p \in Procs, NEW o, ObjUpdateResult(p, o) = "ok"
    PROVE  obj.exists /\ p \in objHeld
BY DEF ObjUpdateResult

\* The object with or without its finalizer covers what it covered before.
LEMMA FinCovers ==
    ASSUME NEW o \in Objects, NEW b \in BOOLEAN, Covers(o)
    PROVE  Covers([o EXCEPT !.fin = b])
BY DEF Covers, Objects, GetContent

-----------------------------------------------------------------------------
(* The ConfigMap/Secret reconciler. *)

LEMMA RStartContent ==
    ASSUME TypeOK, CurrentCopies, RStart
    PROVE  CurrentCopies' /\ (~SyncDeletion => ObjectKept /\ ServerKept)
<1>1. UNCHANGED objCache /\ ServerKept /\ "R" \in Procs
  BY DEF RStart, ServerKept, nacos, Procs
<1>2. objCache.exists /\ "cache" \in objHeld => objCache = obj /\ Covers(objCache) /\ obj.exists
  BY DEF CurrentCopies, Covers
<1>3. CASE UNCHANGED <<obj, objHeld, proc>>
  BY <1>1, <1>3 DEF CurrentCopies, ObjectKept, Covers
<1>4. CASE /\ objCache.exists
           /\ objHeld' = CacheRead(objHeld, "R")
           /\ Become("R", [Idle EXCEPT !.pc = "list", !.obj = objCache])
           /\ UNCHANGED obj
  <2>1. [Idle EXCEPT !.pc = "list", !.obj = objCache].obj = objCache
    BY DEF Idle
  <2>2. objHeld' \subseteq objHeld \cup {"R"} /\ ("R" \in objHeld' => Covers(objCache))
    BY <1>2, <1>4 DEF CacheRead
  <2> QED BY <1>1, <1>4, <2>1, <2>2, PassOn DEF ObjectKept
<1>5. CASE /\ objCache.exists /\ ~objCache.deleting /\ "cache" \in objHeld
           /\ ObjUpdate("R", [objCache EXCEPT !.fin = TRUE],
                        [Idle EXCEPT !.pc = "list", !.obj = [objCache EXCEPT !.fin = TRUE]])
  <2> DEFINE o == [objCache EXCEPT !.fin = TRUE]
             rec == [Idle EXCEPT !.pc = "list", !.obj = o]
  <2>1. o \in Objects /\ Covers(o)
    BY <1>2, <1>5, ObjectTypes, FinCovers DEF TypeOK
  <2>2. rec.obj = o
    BY DEF Idle
  <2>3. ~o.deleting
    BY <1>5 DEF TypeOK, Objects
  <2> HIDE DEF o, rec
  <2>4. ObjUpdate("R", o, rec)
    BY <1>5 DEF o, rec
  <2> QED BY <1>1, <1>2, <1>5, <2>1, <2>2, <2>3, <2>4, Written
<1> QED BY <1>1, <1>3, <1>4, <1>5 DEF RStart

LEMMA RListContent ==
    ASSUME TypeOK, CurrentCopies, RFinalize \/ RList
    PROVE  CurrentCopies' /\ ObjectKept /\ ServerKept
<1>1. proc["R"] \in ProcStates /\ proc["R"].pc = "list" /\ "R" \in Procs
  BY DEF TypeOK, Procs, RFinalize, RList
<1>2. \E skip, s, st, t, bad : Become("R", Listed(skip, s, st, t, bad))
  BY DEF RFinalize, RList
<1>3. \A skip, s, st, t, bad : Listed(skip, s, st, t, bad).obj = proc["R"].obj
  BY <1>1 DEF Listed, ProcStates
<1>4. UNCHANGED objVars /\ ServerKept
  BY DEF RFinalize, RList, ServerKept, nacos
<1> QED BY <1>1, <1>2, <1>3, <1>4, KeepsCopy

\* RPush publishes c: what is on the server disappears only if c is empty.
LEMMA RPushContent ==
    ASSUME TypeOK, CurrentCopies, NEW d \in DataIds, NEW c, NEW rec \in ProcStates,
           RPush(d, c, rec), UNCHANGED objVars, proc["R"].pc = "sync", rec.obj = proc["R"].obj
    PROVE  CurrentCopies' /\ ObjectKept /\ (c # Empty => ServerKept)
<1>1. c # Empty => ServerKept
  BY DEF RPush, PushFailed, ServerKept, TypeOK
<1>2. \E r : Become("R", r) /\ r.obj = rec.obj
  <2> DEFINE r(s, bad) == [rec EXCEPT !.dc = s, !.err = bad]
             t(s) == [rec EXCEPT !.dc = s]
  <2>1. \A s, bad : r(s, bad).obj = rec.obj /\ t(s).obj = rec.obj
    BY DEF ProcStates
  <2>2. (\E s, bad : Become("R", r(s, bad))) \/ (\E s : Become("R", t(s)))
    BY DEF RPush
  <2> HIDE DEF r, t
  <2> QED BY <2>1, <2>2
<1> QED BY <1>1, <1>2, KeepsCopy DEF Procs

LEMMA RDeleteContent ==
    ASSUME TypeOK, CurrentCopies, NEW d \in DataIds, RDelete(d)
    PROVE  CurrentCopies' /\ ObjectKept /\ (~SyncDeletion => ServerKept)
<1> DEFINE me == proc["R"]
           rest == [me EXCEPT !.todo.del = @ \ {d}]
           ignored == [rest EXCEPT !.dc = UpdateSyncStatus(@, d, CalcMd5(Empty), TRUE)]
<1>1. me \in ProcStates /\ rest \in ProcStates /\ rest.obj = me.obj
  BY DEF TypeOK, Procs, ProcStates, Todos
<1> HIDE DEF rest
<1>2. ignored.obj = me.obj
  BY <1>1 DEF ProcStates
<1> HIDE DEF ignored
<1>3. me.pc = "sync" /\ UNCHANGED objVars
  BY DEF RDelete
<1>4. CASE SyncDeletion /\ RPush(d, Empty, rest)
  BY <1>1, <1>3, <1>4, RPushContent
<1>5. CASE Become("R", ignored) /\ UNCHANGED server
  BY <1>2, <1>3, <1>5, KeepsCopy DEF Procs, ServerKept
<1> QED BY <1>4, <1>5 DEF RDelete, rest, ignored

LEMMA RBothContent ==
    ASSUME TypeOK, CurrentCopies, NEW d \in DataIds, RBoth(d)
    PROVE  CurrentCopies' /\ ObjectKept /\ (~SyncDeletion => ServerKept)
<1> DEFINE me == proc["R"]
           rest == [me EXCEPT !.todo.both = @ \ {d}]
           localContent == GetContent(me.obj, d)
<1>1. me \in ProcStates /\ rest \in ProcStates /\ rest.obj = me.obj
  BY DEF TypeOK, Procs, ProcStates, Todos
<1> HIDE DEF rest, localContent
<1>2. me.pc = "sync" /\ UNCHANGED objVars
  BY DEF RBoth
<1>3. CASE (localContent = Empty => SyncDeletion) /\ RPush(d, localContent, rest)
  BY <1>1, <1>2, <1>3, RPushContent
<1>4. CASE Become("R", rest) /\ UNCHANGED server
  BY <1>1, <1>2, <1>4, KeepsCopy DEF Procs, ServerKept
<1> QED BY <1>3, <1>4 DEF RBoth, rest, localContent

LEMMA RStatusContent ==
    ASSUME TypeOK, CurrentCopies, RStatus
    PROVE  CurrentCopies' /\ ObjectKept /\ ServerKept
<1> DEFINE me == proc["R"]
           rest == [me EXCEPT !.pc = "update", !.dc = NewStatus, !.todo = NoTodo,
                              !.known = FALSE, !.err = FALSE]
<1>1. rest.obj = me.obj
  BY DEF TypeOK, Procs, ProcStates
<1> HIDE DEF rest
<1>2. Become("R", rest) /\ me.pc = "sync" /\ UNCHANGED objVars /\ ServerKept
  BY DEF RStatus, rest, ServerKept, nacos
<1> QED BY <1>1, <1>2, KeepsCopy DEF Procs

LEMMA RUpdateContent ==
    ASSUME TypeOK, CurrentCopies, RUpdate
    PROVE  CurrentCopies' /\ (~SyncDeletion => ObjectKept /\ ServerKept)
<1> DEFINE me == proc["R"]
           o == IF me.obj.deleting THEN [me.obj EXCEPT !.fin = FALSE] ELSE me.obj
<1>1. me.obj \in Objects /\ o \in Objects /\ "R" \in Procs
  BY ObjectTypes DEF TypeOK, Procs, ProcStates
<1>2. "R" \in objHeld => Covers(o)
  <2>1. "R" \in objHeld => Covers(me.obj)
    BY <1>1 DEF CurrentCopies, RUpdate
  <2> QED BY <1>1, <2>1, FinCovers
<1> HIDE DEF o
<1>3. UNCHANGED objCache /\ ServerKept /\ Idle.pc = "idle"
  BY DEF RUpdate, ServerKept, nacos, Idle
<1>4. CASE ObjUpdateResult("R", o) = "ok" /\ ObjUpdate("R", o, Idle)
  <2>1. obj.exists /\ Covers(o)
    BY <1>1, <1>2, <1>4, UpdateGuard
  <2> QED BY <1>1, <1>3, <1>4, <2>1, Written
<1>5. CASE ObjKept("R", Idle)
  BY <1>1, <1>3, <1>5, GivesUp
<1> QED BY <1>4, <1>5 DEF RUpdate, o

-----------------------------------------------------------------------------
(* The steps R and D share. *)

LEMMA QueryContent ==
    ASSUME TypeOK, CurrentCopies, NEW p \in Procs, NEW d \in DataIds, Query(p, d)
    PROVE  CurrentCopies' /\ ObjectKept /\ ServerKept
<1> DEFINE r(got) == [proc[p] EXCEPT !.pc = "apply", !.id = {d}, !.read = got,
                                     !.todo.loc = @ \ {d}]
<1>1. \E got : Become(p, r(got))
  BY DEF Query
<1>2. \A got : r(got).obj = proc[p].obj
  BY DEF TypeOK, ProcStates
<1> HIDE DEF r
<1>3. proc[p].pc = "sync" /\ UNCHANGED objVars /\ ServerKept
  BY DEF Query, ServerKept, nacos
<1> QED BY <1>1, <1>2, <1>3, KeepsCopy

\* After FailedDataId and Listen p has the copy of the record they are given.
LEMMA ListenCopy ==
    ASSUME NEW p \in Procs, NEW rest \in ProcStates, NEW d \in DataIds,
           Listen(p, rest, d) \/ FailedDataId(p, rest, d)
    PROVE  \E r : Become(p, r) /\ r.obj = rest.obj
<1> DEFINE r(s, bad) == [rest EXCEPT !.dc = s, !.err = bad]
           t(s) == [rest EXCEPT !.dc = s]
<1>1. \A s, bad : r(s, bad).obj = rest.obj /\ t(s).obj = rest.obj
  BY DEF ProcStates
<1>2. (\E s, bad : Become(p, r(s, bad))) \/ (\E s : Become(p, t(s)))
  BY DEF Listen, FailedDataId
<1> HIDE DEF r, t
<1> QED BY <1>1, <1>2

LEMMA ApplyContent ==
    ASSUME TypeOK, CurrentCopies, NEW p \in Procs, NEW d \in DataIds, Apply(p, d)
    PROVE  CurrentCopies' /\ ObjectKept /\ ServerKept
<1> DEFINE me == proc[p]
           rest == [me EXCEPT !.pc = "sync", !.id = {}, !.read = Empty]
           localContent == GetContent(me.obj, d)
           stored == IF CanStore(me.read) THEN StoreContent(me.obj, d, me.read) ELSE me.obj
           ready(c) == [rest EXCEPT !.dc = UpdateSyncStatus(@, d, RecordedMd5(p, c), TRUE)]
           readyStored == [ready(me.read) EXCEPT !.obj = stored]
<1>1. me \in ProcStates /\ me.obj \in Objects /\ me.read \in Texts /\ me.pc = "apply"
  BY DEF TypeOK, ProcStates, Apply
<1>2. rest \in ProcStates /\ rest.obj = me.obj
  BY <1>1 DEF ProcStates, Texts
<1>3. localContent \in Texts
  BY <1>1, GetContentType
<1>4. stored \in Objects
  BY <1>1, StoreContentType
<1>5. p \in objHeld => Covers(me.obj)
  BY <1>1 DEF CurrentCopies
<1>6. me.read # Empty /\ p \in objHeld => Covers(stored)
  BY <1>1, <1>5, StoreContentCovers
<1> HIDE DEF rest, stored, localContent
<1>7. ASSUME NEW c \in Texts
      PROVE  ready(c) \in ProcStates /\ ready(c).obj = me.obj
  <2>1. RecordedMd5(p, c) \in Md5s
    BY StatusTypes DEF RecordedMd5, Texts
  <2>2. UpdateSyncStatus(rest.dc, d, RecordedMd5(p, c), TRUE) \in Statuses
    BY <1>2, <2>1, StatusTypes DEF ProcStates
  <2> QED BY <1>2, <2>2 DEF ProcStates
<1>8. /\ ready(me.read) \in ProcStates
      /\ ready(localContent) \in ProcStates /\ ready(localContent).obj = me.obj
  BY <1>1, <1>3, <1>7
<1> HIDE DEF ready
<1>9. readyStored \in ProcStates /\ readyStored.obj = stored
  BY <1>4, <1>8 DEF ProcStates
<1> HIDE DEF readyStored
<1>10. UNCHANGED <<obj, objCache>> /\ objHeld' \subseteq objHeld /\ ObjectKept
  BY DEF Apply, ObjectKept
<1>11. CASE ToLocal(localContent, me.read) /\ Listen(p, readyStored, d) /\ UNCHANGED server
  <2>1. PICK r : Become(p, r) /\ r.obj = stored
    BY <1>9, <1>11, ListenCopy
  <2>2. me.read # Empty
    BY <1>11 DEF ToLocal
  <2> QED BY <1>6, <1>10, <1>11, <2>1, <2>2, PassOn DEF ServerKept
<1>12. CASE (FailedDataId(p, rest, d) \/ Listen(p, rest, d)) /\ UNCHANGED server
  <2>1. PICK r : Become(p, r) /\ r.obj = me.obj
    BY <1>2, <1>12, ListenCopy
  <2> QED BY <1>5, <1>10, <1>12, <2>1, PassOn DEF ServerKept
<1>13. CASE /\ ToServer(localContent, me.read)
            /\ server' = [server EXCEPT ![d] = localContent]
            /\ Listen(p, ready(localContent), d)
  <2>1. PICK r : Become(p, r) /\ r.obj = me.obj
    BY <1>8, <1>13, ListenCopy
  <2>2. ServerKept
    BY <1>13 DEF ToServer, ServerKept, TypeOK
  <2> QED BY <1>5, <1>10, <2>1, <2>2, PassOn
<1>14. CASE /\ ToServer(localContent, me.read) /\ PushFailed(d, localContent)
            /\ Become(p, Idle) \/ FailedDataId(p, rest, d)
  <2>1. ServerKept
    BY <1>14 DEF ToServer, PushFailed, ServerKept, TypeOK
  <2>2. CASE Become(p, Idle)
    <3>1. Idle.pc = "idle"
      BY DEF Idle
    <3> QED BY <1>10, <2>1, <2>2, <3>1, PassOn
  <2>3. CASE FailedDataId(p, rest, d)
    <3>1. PICK r : Become(p, r) /\ r.obj = me.obj
      BY <1>2, <2>3, ListenCopy
    <3> QED BY <1>5, <1>10, <2>1, <3>1, PassOn
  <2> QED BY <1>14, <2>2, <2>3
<1> QED BY <1>11, <1>12, <1>13, <1>14
        DEF Apply, rest, stored, ready, readyStored, localContent

\* A wrapper reads the current object.
LEMMA ReloadContent ==
    ASSUME TypeOK, CurrentCopies, NEW p \in Procs, NEW rec \in ProcStates, Reload(p, rec),
           UNCHANGED objCache
    PROVE  CurrentCopies' /\ ObjectKept
<1> DEFINE new(o) == [rec EXCEPT !.pc = "addfin", !.obj = o]
           create == [rec EXCEPT !.pc = "create"]
<1>1. \A o : Loaded(p, rec, o).obj = o /\ new(o).obj = o
  BY DEF Loaded, ProcStates
<1>2. create.pc = "create"
  BY DEF ProcStates
<1>3. UNCHANGED <<obj, objCache>> /\ objHeld' \subseteq objHeld \cup {p} /\ ObjectKept
  BY DEF Reload, ObjectKept
<1>4. CASE obj.exists
  <2>1. Covers(obj)
    BY <1>4 DEF Covers
  <2>2. Become(p, Loaded(p, rec, obj)) \/ Become(p, new(obj))
    BY <1>4 DEF Reload
  <2> HIDE DEF new
  <2> QED BY <1>1, <1>3, <2>1, <2>2, PassOn
<1>5. CASE ~obj.exists
  <2>1. Become(p, create)
    BY <1>5 DEF Reload
  <2> HIDE DEF create
  <2> QED BY <1>2, <1>3, <2>1, PassOn
<1> QED BY <1>4, <1>5

LEMMA NoWrapperContent ==
    ASSUME TypeOK, CurrentCopies, NEW p \in Procs, NoWrapper(p), UNCHANGED objCache
    PROVE  CurrentCopies' /\ ObjectKept
<1> DEFINE rec == IF p = "D" THEN [proc[p] EXCEPT !.pc = "status", !.obj = NoObject] ELSE Idle
<1>1. rec.pc \in {"idle", "create", "status", "check", "load"}
  BY DEF TypeOK, ProcStates, Idle
<1> HIDE DEF rec
<1>2. ObjKept(p, rec)
  BY DEF NoWrapper, rec
<1> QED BY <1>1, <1>2, GivesUp

\* The object is created where there was none.
LEMMA CreateMissingContent ==
    ASSUME TypeOK, CurrentCopies, NEW p \in Procs, CreateMissing(p)
    PROVE  CurrentCopies' /\ ObjectKept /\ ServerKept
<1> DEFINE new == [proc[p] EXCEPT !.pc = "addfin", !.obj = NewObject]
<1>1. new.obj = NewObject
  BY DEF TypeOK, ProcStates
<1> HIDE DEF new
<1>2. UNCHANGED objCache /\ ServerKept
  BY DEF CreateMissing, ServerKept
<1>3. CASE NoWrapper(p)
  BY <1>2, <1>3, NoWrapperContent
<1>4. CASE ~obj.exists /\ obj' = NewObject /\ objHeld' = {p} /\ Become(p, new)
  <2>1. proc'[p].obj = NewObject
    BY <1>1, <1>4, BecomeOthers
  <2>2. NewObject.exists /\ ~NewObject.deleting
    BY DEF NewObject, NoObject
  <2>3. Covers(proc[p].obj)'
    BY <1>4, <2>1, <2>2 DEF Covers
  <2>4. "cache" \notin objHeld'
    BY <1>4 DEF Procs
  <2>5. ObjectKept
    BY <1>4 DEF ObjectKept, CurrentCopies
  <2> QED BY <1>2, <1>4, <2>2, <2>3, <2>4, <2>5 DEF CurrentCopies
<1> QED BY <1>3, <1>4 DEF CreateMissing, new

LEMMA AddFinalizerContent ==
    ASSUME TypeOK, CurrentCopies, NEW p \in {"C", "D"}, AddFinalizer(p)
    PROVE  CurrentCopies' /\ (~SyncDeletion => ObjectKept) /\ ServerKept
<1> DEFINE me == proc[p]
           o == [me.obj EXCEPT !.fin = TRUE]
<1>1. p \in Procs /\ me \in ProcStates /\ o \in Objects /\ me.obj \in Objects
  BY ObjectTypes DEF TypeOK, ProcStates, Procs
<1>2. Loaded(p, me, o).obj = o /\ o.fin
  BY <1>1 DEF Loaded, ProcStates, Objects
<1>3. Idle.pc = "idle"
  BY DEF Idle
<1>4. p \in objHeld => Covers(o)
  <2>1. p \in objHeld => Covers(me.obj)
    BY <1>1 DEF CurrentCopies, AddFinalizer
  <2> QED BY <1>1, <2>1, FinCovers
<1> HIDE DEF o
<1>5. UNCHANGED objCache /\ ServerKept
  BY DEF AddFinalizer, ServerKept
<1>6. CASE ObjUpdateResult(p, o) = "ok" /\ ObjUpdate(p, o, Loaded(p, me, o))
  <2>1. obj.exists /\ Covers(o)
    BY <1>1, <1>4, <1>6, UpdateGuard
  <2> QED BY <1>1, <1>2, <1>5, <1>6, <2>1, Written
<1>7. CASE NoWrapper(p)
  BY <1>1, <1>5, <1>7, NoWrapperContent
<1>8. CASE ObjKept(p, Idle)
  BY <1>1, <1>3, <1>5, <1>8, GivesUp
<1> QED BY <1>6, <1>7, <1>8 DEF AddFinalizer, o

-----------------------------------------------------------------------------
(* The callback. *)

LEMMA CStartContent ==
    ASSUME TypeOK, CurrentCopies, NEW n \in pending, CStart(n)
    PROVE  CurrentCopies' /\ ObjectKept /\ ServerKept
<1> DEFINE rec == [Idle EXCEPT !.dc = dcCache, !.job = {n}]
<1>1. rec \in ProcStates
  BY IdleType DEF TypeOK, ProcStates
<1> HIDE DEF rec
<1>2. Reload("C", rec) /\ UNCHANGED objCache /\ ServerKept
  BY DEF CStart, rec, ServerKept
<1> QED BY <1>1, <1>2, ReloadContent DEF Procs

LEMMA CStoreContent ==
    ASSUME TypeOK, CurrentCopies, NEW n \in proc["C"].job, CStore(n)
    PROVE  CurrentCopies' /\ ObjectKept /\ ServerKept
<1> DEFINE me == proc["C"]
           written == [me EXCEPT !.pc = "flush", !.dc = NewStatus,
                                 !.obj = StoreContent(@, n.id, n.content)]
<1>1. /\ me \in ProcStates /\ me.obj \in Objects /\ n \in Callbacks
      /\ "C" \in Procs /\ me.pc = "store"
  BY DEF TypeOK, ProcStates, Procs, CStore
<1>2. n.id \in DataIds /\ n.content \in Texts
  BY <1>1 DEF Callbacks
<1>3. written.obj = StoreContent(me.obj, n.id, n.content)
  BY <1>1 DEF ProcStates
<1> HIDE DEF written
<1>4. UNCHANGED objCache /\ ServerKept /\ Idle.pc = "idle"
  BY DEF CStore, ServerKept, Idle
<1>5. CASE ObjKept("C", Idle)
  BY <1>1, <1>4, <1>5, GivesUp
<1>6. CASE ~Ignored(n.content) /\ CanStore(n.content) /\ ObjKept("C", written)
  <2>1. n.content # Empty \/ SyncDeletion
    BY <1>6 DEF Ignored
  <2>2. "C" \in objHeld => Covers(written.obj)
    BY <1>1, <1>2, <1>3, <1>6, <2>1, StoreContentCovers DEF CurrentCopies
  <2>3. UNCHANGED obj /\ objHeld' \subseteq objHeld /\ Become("C", written)
    BY <1>6 DEF ObjKept, Release
  <2> QED BY <1>1, <1>4, <2>2, <2>3, PassOn DEF ObjectKept
<1> QED BY <1>5, <1>6 DEF CStore, written

LEMMA CFlushContent ==
    ASSUME TypeOK, CurrentCopies, CFlush
    PROVE  CurrentCopies' /\ (~SyncDeletion => ObjectKept) /\ ServerKept
<1> DEFINE o == proc["C"].obj
<1>1. o \in Objects /\ "C" \in Procs /\ Idle.pc = "idle"
  BY DEF TypeOK, ProcStates, Procs, Idle
<1>2. "C" \in objHeld => Covers(o)
  BY <1>1 DEF CurrentCopies, CFlush
<1>3. UNCHANGED objCache /\ ServerKept
  BY DEF CFlush, ServerKept
<1>4. CASE ObjUpdateResult("C", o) = "ok" /\ ObjUpdate("C", o, Idle)
  <2>1. obj.exists /\ Covers(o)
    BY <1>1, <1>2, <1>4, UpdateGuard
  <2> QED BY <1>1, <1>3, <1>4, <2>1, Written
<1>5. CASE ObjKept("C", Idle)
  BY <1>1, <1>3, <1>5, GivesUp
<1> QED BY <1>4, <1>5 DEF CFlush

-----------------------------------------------------------------------------
(* The DC reconciler. *)

LEMMA DStartContent ==
    ASSUME TypeOK, CurrentCopies, DStart
    PROVE  CurrentCopies' /\ ObjectKept /\ ServerKept
<1> DEFINE s == dcCache
           me == [Idle EXCEPT !.dc = IF DropsGroup(s) THEN DropGroup(s) ELSE s]
           skip == [me EXCEPT !.pc = "status"]
<1>1. (IF DropsGroup(s) THEN DropGroup(s) ELSE s) \in Statuses /\ "D" \in Procs
  BY StatusTypes DEF TypeOK, Procs
<1>2. me \in ProcStates
  BY <1>1, IdleType DEF ProcStates
<1> HIDE DEF me
<1>3. skip.pc = "status"
  BY <1>2 DEF ProcStates
<1> HIDE DEF skip
<1>4. Reload("D", me) \/ ObjKept("D", skip)
  BY DEF DStart, me, skip
<1>5. UNCHANGED objCache /\ ServerKept
  BY DEF DStart, ServerKept
<1> QED BY <1>1, <1>2, <1>3, <1>4, <1>5, ReloadContent, GivesUp

LEMMA DFlushContent ==
    ASSUME TypeOK, CurrentCopies, DFlush
    PROVE  CurrentCopies' /\ (~SyncDeletion => ObjectKept) /\ ServerKept
<1> DEFINE me == proc["D"]
           rest == [me EXCEPT !.pc = "status", !.obj = NoObject]
<1>1. me \in ProcStates /\ me.obj \in Objects /\ "D" \in Procs
  BY DEF TypeOK, ProcStates, Procs
<1>2. rest.pc = "status"
  BY <1>1 DEF ProcStates
<1> HIDE DEF rest
<1>3. "D" \in objHeld => Covers(me.obj)
  BY <1>1 DEF CurrentCopies, DFlush
<1>4. UNCHANGED objCache /\ ServerKept
  BY DEF DFlush, ServerKept, nacos
<1>5. CASE ObjUpdateResult("D", me.obj) = "ok" /\ ObjUpdate("D", me.obj, rest)
  <2>1. obj.exists /\ Covers(me.obj)
    BY <1>1, <1>3, <1>5, UpdateGuard
  <2> QED BY <1>1, <1>2, <1>4, <1>5, <2>1, Written
<1>6. CASE ObjKept("D", rest)
  BY <1>1, <1>2, <1>4, <1>6, GivesUp
<1> QED BY <1>5, <1>6 DEF DFlush, rest

LEMMA DStatusContent ==
    ASSUME TypeOK, CurrentCopies, DStatus
    PROVE  CurrentCopies' /\ ObjectKept /\ ServerKept
<1>1. ObjKept("D", Idle) /\ UNCHANGED objCache /\ ServerKept
  BY DEF DStatus, ServerKept, nacos
<1> QED BY <1>1, GivesUp DEF Procs, Idle

-----------------------------------------------------------------------------
(* The fuzzy listen task. *)

LEMMA FPollContent ==
    ASSUME TypeOK, CurrentCopies, NEW d \in DataIds, FPoll(d)
    PROVE  CurrentCopies' /\ ObjectKept /\ ServerKept
<1> DEFINE rec == [Idle EXCEPT !.pc = "check",
                               !.job = {[id |-> d, content |-> server[d], left |-> 1]}]
<1>1. rec.pc = "check"
  BY DEF Idle
<1> HIDE DEF rec
<1>2. Become("F", rec) /\ UNCHANGED <<objVars, server>>
  BY DEF FPoll, rec, nacos
<1>3. UNCHANGED <<obj, objCache>> /\ objHeld' = objHeld /\ ObjectKept /\ ServerKept
  BY <1>2 DEF objVars, ObjectKept, ServerKept
<1> QED BY <1>1, <1>2, <1>3, PassOn DEF Procs

LEMMA FCheckContent ==
    ASSUME TypeOK, CurrentCopies, NEW n \in proc["F"].job, FCheck(n)
    PROVE  CurrentCopies' /\ ObjectKept /\ ServerKept
<1> DEFINE rec == [Idle EXCEPT !.pc = "load", !.job = {n}]
<1>1. rec.pc = "load" /\ Idle.pc = "idle"
  BY DEF Idle
<1> HIDE DEF rec
<1>2. (Become("F", rec) \/ Become("F", Idle)) /\ UNCHANGED <<objVars, server>>
  BY DEF FCheck, rec, nacos
<1>3. UNCHANGED <<obj, objCache>> /\ objHeld' = objHeld /\ ObjectKept /\ ServerKept
  BY <1>2 DEF objVars, ObjectKept, ServerKept
<1> QED BY <1>1, <1>2, <1>3, PassOn DEF Procs

\* F reads the current object and adds a content to its copy.
LEMMA FLoadContent ==
    ASSUME TypeOK, CurrentCopies, FoundStorable, NEW n \in proc["F"].job, FLoad(n)
    PROVE  CurrentCopies' /\ ObjectKept /\ ServerKept
<1> DEFINE o == IF obj.exists THEN obj ELSE NewObject
           stored == StoreContent(o, n.id, n.content)
           written == [stored EXCEPT !.fin = TRUE]
           rec == [Idle EXCEPT !.pc = "write", !.known = obj.exists, !.obj = written]
<1>1. n \in Callbacks /\ "F" \in Procs /\ o \in Objects
  BY ObjectTypes DEF TypeOK, ProcStates, Procs
<1>2. n.id \in DataIds /\ n.content \in Texts /\ n.content # Empty /\ CanStore(n.content)
  BY <1>1 DEF Callbacks, FoundStorable, FLoad
<1>3. stored \in Objects
  BY <1>1, <1>2, StoreContentType
<1>4. obj.exists => Covers(written)
  <2> SUFFICES ASSUME obj.exists PROVE Covers(written)
    OBVIOUS
  <2>1. Covers(o)
    BY DEF Covers
  <2>2. Covers(stored)
    BY <1>1, <1>2, <2>1, StoreContentCovers
  <2> QED BY <1>3, <2>2, FinCovers
<1> HIDE DEF written
<1>5. rec.obj = written
  BY DEF Idle
<1> HIDE DEF rec
<1>6. /\ Become("F", rec) /\ UNCHANGED <<obj, objCache>> /\ UNCHANGED server
      /\ objHeld' = IF obj.exists THEN objHeld \cup {"F"} ELSE objHeld \ {"F"}
  BY DEF FLoad, rec, written, nacos
<1>7. objHeld' \subseteq objHeld \cup {"F"} /\ ("F" \in objHeld' => Covers(rec.obj))
  BY <1>4, <1>5, <1>6
<1> QED BY <1>1, <1>6, <1>7, PassOn DEF ObjectKept, ServerKept

LEMMA FWriteContent ==
    ASSUME TypeOK, CurrentCopies, FoundStorable, FWrite
    PROVE  CurrentCopies' /\ (~SyncDeletion => ObjectKept) /\ ServerKept
<1> DEFINE o == proc["F"].obj
<1>1. o \in Objects /\ "F" \in Procs /\ Idle.pc = "idle"
  BY DEF TypeOK, ProcStates, Procs, Idle
<1>2. ("F" \in objHeld => Covers(o)) /\ o.exists /\ o.fin
  BY <1>1 DEF CurrentCopies, FWrite, FoundStorable
<1>3. UNCHANGED objCache /\ ServerKept
  BY DEF FWrite, ServerKept, nacos
<1>4. CASE ObjUpdateResult("F", o) = "ok" /\ ObjUpdate("F", o, Idle)
  <2>1. obj.exists /\ Covers(o)
    BY <1>1, <1>2, <1>4, UpdateGuard
  <2> QED BY <1>1, <1>3, <1>4, <2>1, Written
<1>5. CASE ObjKept("F", Idle)
  BY <1>1, <1>3, <1>5, GivesUp
<1>6. CASE ~obj.exists /\ obj' = o /\ objHeld' = {}
  BY <1>2, <1>3, <1>6 DEF CurrentCopies, ObjectKept
<1> QED BY <1>4, <1>5, <1>6 DEF FWrite

-----------------------------------------------------------------------------
(* The environment. *)

\* The user's steps, which count in ops, need only keep the invariant.
LEMMA UserContent ==
    ASSUME TypeOK, CurrentCopies, User
    PROVE  CurrentCopies' /\ ops' # ops
<1>1. ASSUME objHeld' = {}, obj'.exists \/ obj' = NoObject, obj'.deleting => obj'.fin
      PROVE  CurrentCopies'
  BY <1>1, EmptyObjects DEF CurrentCopies
<1>2. UserOp => ops' # ops
  BY SyncAssumption DEF UserOp, TypeOK
<1>3. ASSUME NEW d \in DataIds, NEW v \in LocalEdits, EditLocal(d, v)
      PROVE  CurrentCopies' /\ ops' # ops
  <2>1. obj'.exists = obj.exists /\ obj'.deleting = obj.deleting /\ obj'.fin = obj.fin
    BY <1>3 DEF EditLocal, UserPut, TypeOK, Objects
  <2>2. CurrentCopies'
    BY <1>1, <1>3, <2>1 DEF EditLocal, CurrentCopies
  <2> QED BY <1>2, <1>3, <2>2 DEF EditLocal
<1>4. ASSUME NEW d \in DataIds, NEW c \in ServerEdits, EditServer(d, c)
      PROVE  CurrentCopies' /\ ops' # ops
  <2>1. UNCHANGED <<objVars, proc>>
    BY <1>4 DEF EditServer
  <2> QED BY <1>2, <1>4, <2>1 DEF EditServer, objVars, CurrentCopies, Covers
<1>5. ASSUME DeleteObject
      PROVE  CurrentCopies' /\ ops' # ops
  <2> DEFINE o == [obj EXCEPT !.deleting = TRUE]
  <2>1. o.exists
    BY <1>5 DEF DeleteObject, TypeOK, Objects
  <2> HIDE DEF o
  <2>2. obj' = Collected(o) /\ objHeld' = {}
    BY <1>5 DEF DeleteObject, o
  <2>3. obj'.exists \/ obj' = NoObject
    BY <2>1, <2>2 DEF Collected
  <2>4. obj'.deleting => obj'.fin
    BY <2>2 DEF Collected, NoObject
  <2>5. CurrentCopies'
    BY <1>1, <2>2, <2>3, <2>4
  <2> QED BY <1>2, <1>5, <2>5 DEF DeleteObject
<1>6. ASSUME NEW o \in InitObjs, CreateObject(o)
      PROVE  CurrentCopies' /\ ops' # ops
  <2>1. obj'.exists /\ ~obj'.deleting
    BY <1>6, SyncAssumption DEF CreateObject, Objects
  <2>2. CurrentCopies'
    BY <1>1, <1>6, <2>1 DEF CreateObject
  <2> QED BY <1>2, <1>6, <2>2 DEF CreateObject
<1> QED BY <1>3, <1>4, <1>5, <1>6 DEF User

LEMMA DeliveryContent ==
    ASSUME TypeOK, CurrentCopies, Delivery \/ Crash
    PROVE  CurrentCopies' /\ ObjectKept /\ ServerKept
<1>1. UNCHANGED <<obj, server>>
  BY DEF Delivery, ObjInformer, DcInformer, Notify, Crash, nacos, objVars
<1>2. ObjectKept /\ ServerKept
  BY <1>1 DEF ObjectKept, ServerKept
<1>3. ASSUME UNCHANGED <<obj, proc>>, objHeld' \subseteq objHeld \cup {"cache"},
             "cache" \in objHeld' => objCache' = obj
      PROVE  CurrentCopies'
  <2>1. \A p \in Procs : p # "cache" /\ (Covers(proc[p].obj) => Covers(proc[p].obj)')
    BY <1>3 DEF Procs, Covers
  <2> QED BY <1>3, <2>1 DEF CurrentCopies
<1>4. CASE ObjInformer
  BY <1>2, <1>3, <1>4 DEF ObjInformer
<1>5. CASE DcInformer \/ \E d \in DataIds : Notify(d)
  BY <1>2, <1>3, <1>5 DEF DcInformer, Notify, objVars, CurrentCopies
<1>6. CASE Crash
  <2>1. \A p \in Procs : proc'[p].pc = "idle"
    BY <1>6 DEF Crash, Idle
  <2> QED BY <1>1, <1>2, <1>6, <2>1 DEF Crash, CurrentCopies
<1> QED BY <1>4, <1>5, <1>6 DEF Delivery

-----------------------------------------------------------------------------

LEMMA ContentStep ==
    ASSUME TypeOK, FoundStorable, CurrentCopies, [Next]_vars
    PROVE  /\ CurrentCopies'
           /\ ops' = ops /\ ~SyncDeletion => ObjectKept /\ ServerKept
<1>1. CASE Reconciler
  BY <1>1, RStartContent, RListContent, RStatusContent, RUpdateContent, RDeleteContent,
     RBothContent, QueryContent, ApplyContent DEF Reconciler, Procs
<1>2. CASE Callback
  BY <1>2, CStartContent, CreateMissingContent, AddFinalizerContent, CStoreContent,
     CFlushContent DEF Callback, Procs
<1>3. CASE DcReconciler
  BY <1>3, DStartContent, CreateMissingContent, AddFinalizerContent, DFlushContent, DStatusContent, QueryContent,
     ApplyContent DEF DcReconciler, Procs
<1>4. CASE Rest \/ UNCHANGED vars
  BY <1>4 DEF Rest, vars, objVars, nacos, CurrentCopies, Covers, ObjectKept, ServerKept
<1>5. CASE FuzzyListen
  BY <1>5, FPollContent, FCheckContent, FLoadContent, FWriteContent DEF FuzzyListen
<1> QED BY <1>1, <1>2, <1>3, <1>4, <1>5, UserContent, DeliveryContent DEF Next, Controller

LEMMA InitContent == Init => CurrentCopies
<1> SUFFICES ASSUME Init PROVE CurrentCopies
  OBVIOUS
<1>1. obj.exists /\ ~obj.deleting /\ objCache = obj
  BY SyncAssumption DEF Init
<1>2. \A p \in Procs : p \notin objHeld
  BY DEF Init, Procs
<1> QED BY <1>1, <1>2 DEF CurrentCopies

\* A handler that holds the current version of the object has a copy that lacks
\* nothing of it, for every value of the constants.
THEOREM CopiesAreCurrent == Spec => []CurrentCopies
<1>1. TypeOK /\ FoundStorable /\ CurrentCopies /\ [Next]_vars => CurrentCopies'
  BY ContentStep
<1> QED BY <1>1, InitContent, TypeCorrect, PTL DEF Spec

\* Without syncDeletion the controller, restarts and failures included, never
\* makes a content of the object or of the Nacos server disappear: for any
\* number of data ids, contents, user operations, crashes and faults.
THEOREM ContentIsSafe == Spec => NoContentLost
<1>1. TypeOK /\ FoundStorable /\ CurrentCopies /\ [Next]_vars =>
        [ops' = ops /\ ~SyncDeletion =>
           \A d \in DataIds :
            /\ server[d] # Empty => server'[d] # Empty
            /\ GetContent(obj, d) # Empty /\ ~obj.deleting => GetContent(obj', d) # Empty]_vars
  BY ContentStep DEF ObjectKept, ServerKept
<1> QED BY <1>1, TypeCorrect, CopiesAreCurrent, PTL DEF Spec, NoContentLost
=============================================================================
