-------------------------- MODULE ConfigSyncProofs --------------------------
(***************************************************************************)
(* Proofs about ConfigSync: type correctness, and that without             *)
(* syncDeletion the controller never makes a content disappear.            *)
(***************************************************************************)
EXTENDS ConfigSync, FiniteSetTheorems, TLAPS

-----------------------------------------------------------------------------
(* The operators on objects. *)

\* GetContent returns a string, whichever of the two maps has the key.
LEMMA GetContentType ==
    ASSUME NEW o \in Objects, NEW d \in DataIds
    PROVE  GetContent(o, d) \in Texts
BY DEF Objects, Slots, GetContent, Texts

\* Storing a content that can be stored yields an object.
LEMMA StoreContentType ==
    ASSUME NEW o \in Objects, NEW d \in DataIds, NEW c \in Texts, CanStore(c)
    PROVE  StoreContent(o, d, c) \in Objects
<1>1. CASE Kind = "Secret"
  <2>1. c # Empty => c \in Base64 /\ Canonical[c] \in Base64
    BY <1>1, ContentAssumption DEF CanStore, Texts
  <2>2. Base64 \subseteq Slots /\ Empty \in Slots
    BY ContentAssumption DEF Slots, Texts
  <2> QED BY <1>1, <2>1, <2>2 DEF StoreContent, Objects
<1>2. CASE Kind # "Secret"
  BY <1>2 DEF StoreContent, Objects, Slots
<1> QED BY <1>1, <1>2

\* After StoreContent no key has lost a content, unless the stored one is empty.
LEMMA StoreContentKeeps ==
    ASSUME NEW o \in Objects, NEW d \in DataIds, NEW c \in Contents, CanStore(c),
           NEW e \in DataIds, GetContent(o, e) # Empty
    PROVE  GetContent(StoreContent(o, d, c), e) # Empty
<1>1. c # Empty /\ c # Absent /\ Empty # Absent
  BY ContentAssumption
<1>2. CASE Kind = "Secret"
  <2>1. c \in Base64 /\ Canonical[c] \in Contents
    BY <1>1, <1>2, ContentAssumption DEF CanStore
  <2>2. Canonical[c] # Empty /\ Canonical[c] # Absent
    BY <2>1, ContentAssumption
  <2> QED BY <1>1, <1>2, <2>1, <2>2 DEF StoreContent, GetContent, Objects
<1>3. CASE Kind # "Secret"
  BY <1>1, <1>3 DEF StoreContent, GetContent, Objects
<1> QED BY <1>2, <1>3

\* The objects the API server and a user make.
LEMMA ObjectTypes ==
    /\ NoObject \in Objects
    /\ NewObject \in Objects
    /\ \A o \in Objects : Collected(o) \in Objects
    /\ \A o \in Objects, d \in DataIds, v \in Slots : UserPut(o, d, v) \in Objects
    /\ \A o \in Objects, b \in BOOLEAN :
          /\ [o EXCEPT !.fin = b] \in Objects
          /\ [o EXCEPT !.deleting = b] \in Objects
<1>1. NoObject \in Objects
  BY DEF NoObject, Objects, NoKeys, Slots
<1>2. NewObject \in Objects
  BY <1>1 DEF NewObject, Objects
<1>3. \A o \in Objects, d \in DataIds, v \in Slots : UserPut(o, d, v) \in Objects
  BY DEF UserPut, Objects, Slots
<1>4. \A o \in Objects : Collected(o) \in Objects
  BY <1>1 DEF Collected
<1>5. \A o \in Objects, b \in BOOLEAN : /\ [o EXCEPT !.fin = b] \in Objects
                                        /\ [o EXCEPT !.deleting = b] \in Objects
  BY DEF Objects
<1> QED BY <1>1, <1>2, <1>3, <1>4, <1>5

-----------------------------------------------------------------------------
(* The operators on the status. *)

\* Every function that writes the status leaves a status.
LEMMA StatusTypes ==
    /\ NewStatus \in Statuses
    /\ \A c \in Texts : CalcMd5(c) \in Md5s
    /\ \A s \in Statuses, d \in DataIds, m \in Md5s, b \in BOOLEAN :
          /\ UpdateSyncStatus(s, d, m, b) \in Statuses
          /\ UpdateSyncStatusIfAbsent(s, d, m, b) \in Statuses
    /\ \A s \in Statuses, d \in DataIds : AddListenConfig(s, d) \in Statuses
    /\ \A s \in Statuses : /\ UpdateDynamicConfigurationStatus(s, Scope) \in Statuses
                           /\ FailedStatus(s) \in Statuses
                           /\ UpdateStatus(s) \in Statuses
                           /\ DropGroup(s) \in Statuses
<1>1. \A c \in Texts : CalcMd5(c) \in Md5s
  BY DEF Md5s
<1>2. NoSyncStatus \in SyncStates
  BY <1>1 DEF NoSyncStatus, SyncStates, Texts
<1>3. NewStatus \in Statuses
  BY <1>2 DEF NewStatus, Statuses
<1>4. ASSUME NEW s \in Statuses, NEW d \in DataIds, NEW m \in Md5s, NEW b \in BOOLEAN
      PROVE  UpdateSyncStatus(s, d, m, b) \in Statuses
  <2>1. [state |-> IF b THEN "ready" ELSE "failed", md5 |-> m] \in SyncStates
    BY DEF SyncStates
  <2> QED BY <2>1 DEF UpdateSyncStatus, Statuses
<1>5. \A s \in Statuses, d \in DataIds, m \in Md5s, b \in BOOLEAN :
          UpdateSyncStatusIfAbsent(s, d, m, b) \in Statuses
  BY <1>4 DEF UpdateSyncStatusIfAbsent
<1>6. \A s \in Statuses, d \in DataIds : AddListenConfig(s, d) \in Statuses
  BY DEF AddListenConfig, Statuses
<1>7. \A s \in Statuses : /\ UpdateDynamicConfigurationStatus(s, Scope) \in Statuses
                          /\ FailedStatus(s) \in Statuses
                          /\ UpdateStatus(s) \in Statuses
  BY SyncAssumption DEF UpdateDynamicConfigurationStatus, FailedStatus, UpdateStatus, Statuses
<1>8. \A s \in Statuses : DropGroup(s) \in Statuses
  BY <1>2 DEF DropGroup, Statuses
<1> QED BY <1>1, <1>3, <1>4, <1>5, <1>6, <1>7, <1>8

-----------------------------------------------------------------------------
(* Type correctness. *)

\* The components of a handler's local state, one EXCEPT at a time.
LEMMA IdleType == Idle \in ProcStates
BY ObjectTypes, StatusTypes DEF Idle, ProcStates, Todos, NoTodo, Texts

LEMMA BecomeType ==
    ASSUME TypeOK, NEW p \in Procs, NEW rec \in ProcStates, Become(p, rec)
    PROVE  proc' \in [Procs -> ProcStates]
BY DEF TypeOK, Become

LEMMA ReleaseType ==
    ASSUME NEW held \in SUBSET Holders, NEW p \in Procs, NEW rec
    PROVE  /\ Release(held, p, rec) \subseteq Holders
           /\ CacheRead(held, p) \subseteq Holders
           /\ {p} \subseteq Holders
BY DEF Release, CacheRead, Holders

\* RetryOnConflict keeps the attempts left positive.
LEMMA RetryType ==
    ASSUME TypeOK, NEW p \in Procs, proc[p].job # {}, RetryOnConflict(p)
    PROVE  pending' \subseteq Callbacks /\ abandoned' \in BOOLEAN
<1> DEFINE n == CHOOSE m \in proc[p].job : TRUE
<1>1. n \in proc[p].job
  OBVIOUS
<1>2. proc[p].job \subseteq Callbacks
  BY DEF TypeOK, ProcStates
<1>3. n \in Callbacks
  BY <1>1, <1>2
<1> HIDE DEF n
<1>4. n.left > 1 => [n EXCEPT !.left = @ - 1] \in Callbacks
  BY <1>3, SyncAssumption DEF Callbacks
<1>5. \/ n.left > 1 /\ pending' = pending \cup {[n EXCEPT !.left = @ - 1]} /\ UNCHANGED abandoned
      \/ abandoned' = TRUE /\ UNCHANGED pending
  BY DEF RetryOnConflict, n
<1> QED BY <1>4, <1>5 DEF TypeOK

LEMMA InitType == Init => TypeOK
<1> SUFFICES ASSUME Init PROVE TypeOK
  OBVIOUS
<1>1. obj \in Objects /\ objCache \in Objects
  BY SyncAssumption DEF Init
<1>2. GetAllKeys(obj) \subseteq DataIds
  BY DEF GetAllKeys
<1>3. \A d \in DataIds : GetContent(obj, d) \in Texts /\ CalcMd5(GetContent(obj, d)) \in Md5s
  BY <1>1, GetContentType, StatusTypes
<1>4. SyncedStatus(obj) \in Statuses
  <2>1. \A d \in DataIds : (IF d \in GetAllKeys(obj)
                 THEN [state |-> "ready", md5 |-> CalcMd5(GetContent(obj, d))]
                 ELSE NoSyncStatus) \in SyncStates
    <3>1. NoSyncStatus \in SyncStates
      BY StatusTypes DEF NoSyncStatus, SyncStates, Texts
    <3> QED BY <1>3, <3>1 DEF SyncStates
  <2> QED BY <1>2, <2>1, SyncAssumption DEF SyncedStatus, Statuses
<1>5. dc \in Statuses /\ dcCache \in Statuses
  BY <1>4, StatusTypes DEF Init
<1>6. server \in [DataIds -> Texts] /\ listening \subseteq DataIds /\ seen \in [DataIds -> Texts]
  BY <1>2, <1>3, SyncAssumption DEF Init, Texts
<1>7. proc \in [Procs -> ProcStates]
  BY IdleType DEF Init
<1>8. ops \in 0..MaxOps /\ crashes \in 0..MaxCrashes /\ faults \in 0..MaxFaults
  BY SyncAssumption DEF Init
<1>9. objQueued \in BOOLEAN /\ dcQueued \in BOOLEAN
  BY SyncAssumption DEF Init
<1> QED BY <1>1, <1>5, <1>6, <1>7, <1>8, <1>9 DEF Init, TypeOK, Holders

\* The steps of the ConfigMap/Secret reconciler.
LEMMA RStartType == TypeOK /\ RStart => TypeOK'
<1> SUFFICES ASSUME TypeOK, RStart PROVE TypeOK'
  OBVIOUS
<1> DEFINE o == [objCache EXCEPT !.fin = TRUE]
<1>1. o \in Objects /\ Collected(o) \in Objects
  BY ObjectTypes DEF TypeOK
<1>2. \A x \in Objects : [Idle EXCEPT !.pc = "list", !.obj = x] \in ProcStates
  BY IdleType DEF ProcStates
<1> HIDE DEF o
<1>3. obj' \in Objects /\ objHeld' \subseteq Holders /\ proc' \in [Procs -> ProcStates]
  <2>1. CASE UNCHANGED <<obj, objHeld, proc>>
    BY <2>1 DEF TypeOK
  <2>2. CASE /\ objHeld' = CacheRead(objHeld, "R")
             /\ Become("R", [Idle EXCEPT !.pc = "list", !.obj = objCache])
             /\ UNCHANGED obj
    BY <1>2, <2>2, ReleaseType DEF TypeOK, Become, Procs
  <2>3. CASE ObjUpdate("R", o, [Idle EXCEPT !.pc = "list", !.obj = o])
    <3>1. PICK rec \in ProcStates : ObjUpdate("R", o, rec)
      BY <1>1, <1>2, <2>3
    <3> QED BY <1>1, <3>1, ReleaseType DEF TypeOK, ObjUpdate, Become, Procs
  <2> QED BY <2>1, <2>2, <2>3 DEF RStart, o
<1> QED BY <1>3 DEF TypeOK, RStart, dcVars, nacos, budget

\* The record with which R goes on after it has read the DC.
LEMMA ListedType ==
    ASSUME TypeOK, NEW skip \in BOOLEAN, NEW s \in Statuses, NEW st \in Statuses,
           NEW t \in Todos, NEW bad \in BOOLEAN
    PROVE  Listed(skip, s, st, t, bad) \in ProcStates
<1> DEFINE pc == IF DynamicConfigurationMatch /\ ~skip THEN "sync" ELSE "update"
           known == s.listen # {}
<1>1. pc \in {"sync", "update"} /\ known \in BOOLEAN /\ proc["R"] \in ProcStates
  BY DEF TypeOK, Procs
<1> HIDE DEF pc, known
<1>2. [proc["R"] EXCEPT !.pc = pc, !.dc = st, !.todo = t, !.known = known, !.err = bad]
        \in ProcStates
  BY <1>1 DEF ProcStates
<1> QED BY <1>2 DEF Listed, pc, known

LEMMA RFinalizeType == TypeOK /\ RFinalize => TypeOK'
<1> SUFFICES ASSUME TypeOK, RFinalize PROVE TypeOK'
  OBVIOUS
<1> DEFINE s == dcCache
           t == [NoTodo EXCEPT !.del = CompareDataIds(s.listen, GetAllKeys(proc["R"].obj)).both]
<1>1. s \in Statuses /\ s.listen \in SUBSET DataIds
  BY DEF TypeOK, Statuses
<1>2. t \in Todos
  BY <1>1 DEF NoTodo, Todos, CompareDataIds
<1> HIDE DEF t
<1>3. Become("R", Listed(s.listen = {}, s, s, t, FALSE))
  BY DEF RFinalize, t
<1>4. proc' \in [Procs -> ProcStates]
  BY <1>1, <1>2, <1>3, ListedType, BecomeType DEF Procs
<1>5. dcHeld' \subseteq Holders
  BY ReleaseType DEF RFinalize, TypeOK, Procs
<1> QED BY <1>4, <1>5 DEF TypeOK, RFinalize, objVars, nacos, budget

LEMMA RListType == TypeOK /\ RList => TypeOK'
<1> SUFFICES ASSUME TypeOK, RList PROVE TypeOK'
  OBVIOUS
<1> DEFINE s == dcCache
           keys == GetAllKeys(proc["R"].obj)
           local == [NoTodo EXCEPT !.loc = keys]
<1>1. s \in Statuses /\ s.listen \in SUBSET DataIds /\ keys \in SUBSET DataIds
  BY DEF TypeOK, Statuses, GetAllKeys
<1>2. local \in Todos /\ CompareDataIds(s.listen, keys) \in Todos
  BY <1>1 DEF NoTodo, Todos, CompareDataIds
<1>3. ASSUME NEW F \in SUBSET s.listen
      PROVE  RelistenFailed(s, F) \in Statuses
  <2>1. \A d \in DataIds : UpdateSyncStatus(s, d, CalcMd5(Empty), FALSE) \in Statuses
    BY <1>1, StatusTypes DEF Texts
  <2> QED BY <1>1, <2>1 DEF Statuses, RelistenFailed
<1> HIDE DEF local, keys
<1>4. /\ proc' \in [Procs -> ProcStates]
      /\ listening' \subseteq DataIds /\ seen' \in [DataIds -> Texts] /\ faults' \in 0..MaxFaults
  <2>1. CASE /\ Become("R", Listed(FALSE, s, s, local, FALSE))
             /\ UNCHANGED <<listening, seen, faults>>
    <3>1. proc' \in [Procs -> ProcStates]
      BY <1>1, <1>2, <2>1, ListedType, BecomeType DEF Procs
    <3> QED BY <2>1, <3>1 DEF TypeOK
  <2>2. ASSUME NEW F \in SUBSET s.listen,
               faults' = faults + Cardinality(F), faults' <= MaxFaults,
               ListenConfig(s.listen \ F, Empty),
               Become("R", Listed(FALSE, s, RelistenFailed(s, F),
                                  CompareDataIds(s.listen, keys), F # {}))
        PROVE  /\ proc' \in [Procs -> ProcStates]
               /\ listening' \subseteq DataIds /\ seen' \in [DataIds -> Texts]
               /\ faults' \in 0..MaxFaults
    <3>1. proc' \in [Procs -> ProcStates]
      BY <1>1, <1>2, <1>3, <2>2, ListedType, BecomeType DEF Procs
    <3>2. Cardinality(F) \in Nat
      BY <1>1, SyncAssumption, FS_Subset, FS_CardinalityType
    <3>3. faults' \in 0..MaxFaults
      BY <2>2, <3>2, SyncAssumption DEF TypeOK
    <3>4. listening' \subseteq DataIds /\ seen' \in [DataIds -> Texts]
      BY <1>1, <2>2 DEF TypeOK, ListenConfig, Texts
    <3> QED BY <3>1, <3>3, <3>4
  <2> QED BY <2>1, <2>2 DEF RList, local, keys
<1>5. dcHeld' \subseteq Holders
  BY ReleaseType DEF RList, TypeOK, Procs
<1> QED BY <1>4, <1>5 DEF TypeOK, RList, objVars

\* A call that fails leaves the server of its type, whether it reached it or not.
LEMMA PushFailedType ==
    ASSUME TypeOK, NEW d \in DataIds, NEW c \in Texts, PushFailed(d, c)
    PROVE  server' \in [DataIds -> Texts]
BY DEF PushFailed, TypeOK

LEMMA RPushType ==
    ASSUME TypeOK, NEW d \in DataIds, NEW c \in Texts, NEW rec \in ProcStates, RPush(d, c, rec)
    PROVE  /\ server' \in [DataIds -> Texts]
           /\ proc' \in [Procs -> ProcStates]
           /\ faults' \in 0..MaxFaults
<1>1. /\ UpdateSyncStatus(rec.dc, d, CalcMd5(c), TRUE) \in Statuses
      /\ UpdateSyncStatus(rec.dc, d, CalcMd5(Empty), FALSE) \in Statuses
  BY StatusTypes DEF ProcStates, Texts
<1>2. CASE /\ server' = [server EXCEPT ![d] = c]
           /\ Become("R", [rec EXCEPT !.dc = UpdateSyncStatus(@, d, CalcMd5(c), TRUE)])
           /\ UNCHANGED faults
  <2>1. [rec EXCEPT !.dc = UpdateSyncStatus(@, d, CalcMd5(c), TRUE)] \in ProcStates
    BY <1>1 DEF ProcStates
  <2> QED BY <1>2, <2>1, BecomeType DEF TypeOK, Procs
<1>3. CASE /\ Fault
           /\ Become("R", [rec EXCEPT !.dc = UpdateSyncStatus(@, d, CalcMd5(Empty), FALSE),
                                      !.err = TRUE])
           /\ PushFailed(d, c)
  <2>1. [rec EXCEPT !.dc = UpdateSyncStatus(@, d, CalcMd5(Empty), FALSE), !.err = TRUE]
           \in ProcStates
    BY <1>1 DEF ProcStates
  <2>2. faults' \in 0..MaxFaults
    BY <1>3, SyncAssumption DEF TypeOK, Fault
  <2> QED BY <1>3, <2>1, <2>2, BecomeType, PushFailedType DEF Procs, TypeOK
<1> QED BY <1>2, <1>3 DEF RPush

LEMMA RDeleteType ==
    ASSUME TypeOK, NEW d \in DataIds, RDelete(d)
    PROVE  TypeOK'
<1> DEFINE me == proc["R"]
           rest == [me EXCEPT !.todo.del = @ \ {d}]
<1>1. me \in ProcStates /\ rest \in ProcStates
  BY DEF TypeOK, Procs, ProcStates, Todos
<1> HIDE DEF rest
<1>2. UpdateSyncStatus(rest.dc, d, CalcMd5(Empty), TRUE) \in Statuses /\ Empty \in Texts
  BY <1>1, StatusTypes DEF ProcStates, Texts
<1>3. /\ server' \in [DataIds -> Texts]
      /\ proc' \in [Procs -> ProcStates]
      /\ faults' \in 0..MaxFaults
  <2>1. CASE RPush(d, Empty, rest)
    BY <1>1, <1>2, <2>1, RPushType
  <2>2. CASE /\ Become("R", [rest EXCEPT !.dc = UpdateSyncStatus(@, d, CalcMd5(Empty), TRUE)])
             /\ UNCHANGED <<server, faults>>
    <3>1. [rest EXCEPT !.dc = UpdateSyncStatus(@, d, CalcMd5(Empty), TRUE)] \in ProcStates
      BY <1>1, <1>2 DEF ProcStates
    <3> QED BY <2>2, <3>1, BecomeType DEF TypeOK, Procs
  <2> QED BY <2>1, <2>2 DEF RDelete, rest
<1> QED BY <1>3 DEF TypeOK, RDelete, objVars, dcVars

LEMMA RBothType ==
    ASSUME TypeOK, NEW d \in DataIds, RBoth(d)
    PROVE  TypeOK'
<1> DEFINE me == proc["R"]
           rest == [me EXCEPT !.todo.both = @ \ {d}]
<1>1. me \in ProcStates /\ rest \in ProcStates
  BY DEF TypeOK, Procs, ProcStates, Todos
<1>2. GetContent(me.obj, d) \in Texts
  BY <1>1, GetContentType DEF ProcStates
<1> HIDE DEF rest
<1>3. /\ server' \in [DataIds -> Texts]
      /\ proc' \in [Procs -> ProcStates]
      /\ faults' \in 0..MaxFaults
  <2>1. CASE RPush(d, GetContent(me.obj, d), rest)
    BY <1>1, <1>2, <2>1, RPushType
  <2>2. CASE Become("R", rest) /\ UNCHANGED <<server, faults>>
    BY <1>1, <2>2, BecomeType DEF TypeOK, Procs
  <2> QED BY <2>1, <2>2 DEF RBoth, rest
<1> QED BY <1>3 DEF TypeOK, RBoth, objVars, dcVars

\* Status().Update and the failed one.
LEMMA DcUpdateType ==
    ASSUME TypeOK, NEW p \in Procs, NEW s \in Statuses, NEW rec,
           DcUpdate(p, s, rec) \/ DcKept(p, rec)
    PROVE  dc' \in Statuses /\ dcHeld' \subseteq Holders
<1>1. CASE DcKept(p, rec)
  BY <1>1, ReleaseType DEF DcKept, TypeOK
<1>2. CASE DcUpdate(p, s, rec)
  <2>1. PICK held \in SUBSET Holders : dcHeld' = Release(held, p, rec)
    BY <1>2, ReleaseType DEF DcUpdate, TypeOK
  <2> QED BY <1>2, <2>1, ReleaseType DEF DcUpdate
<1> QED BY <1>1, <1>2

\* The same for the object.
LEMMA ObjUpdateType ==
    ASSUME TypeOK, NEW p \in Procs, NEW o \in Objects, NEW rec \in ProcStates,
           ObjUpdate(p, o, rec) \/ ObjKept(p, rec)
    PROVE  /\ obj' \in Objects /\ objHeld' \subseteq Holders
           /\ proc' \in [Procs -> ProcStates]
<1>1. CASE ObjUpdate(p, o, rec)
  <2>1. (IF o = obj THEN objHeld ELSE {p}) \in SUBSET Holders
    BY ReleaseType DEF TypeOK
  <2>2. objHeld' \subseteq Holders
    BY <1>1, <2>1, ReleaseType DEF ObjUpdate
  <2> QED BY <1>1, <2>2, ObjectTypes, BecomeType DEF ObjUpdate
<1>2. CASE ObjKept(p, rec)
  BY <1>2, ReleaseType, BecomeType DEF ObjKept, TypeOK
<1> QED BY <1>1, <1>2

LEMMA RStatusType == TypeOK /\ RStatus => TypeOK'
<1> SUFFICES ASSUME TypeOK, RStatus PROVE TypeOK'
  OBVIOUS
<1> DEFINE me == proc["R"]
           rest == [me EXCEPT !.pc = "update", !.dc = NewStatus, !.todo = NoTodo,
                              !.known = FALSE, !.err = FALSE]
           s == IF ~me.known THEN me.dc
                ELSE IF me.err THEN FailedStatus(me.dc) ELSE UpdateStatus(me.dc)
<1>1. me \in ProcStates
  BY DEF TypeOK, Procs
<1>2. rest \in ProcStates
  BY <1>1, StatusTypes DEF ProcStates, NoTodo, Todos
<1>3. s \in Statuses
  BY <1>1, StatusTypes DEF ProcStates
<1> HIDE DEF rest, s
<1>4. Become("R", rest) /\ (DcUpdate("R", s, Idle) \/ DcKept("R", Idle))
  BY DEF RStatus, rest, s
<1>5. dc' \in Statuses /\ dcHeld' \subseteq Holders /\ proc' \in [Procs -> ProcStates]
  BY <1>2, <1>3, <1>4, DcUpdateType, BecomeType DEF Procs
<1>6. abandoned' \in BOOLEAN
  BY DEF RStatus, TypeOK
<1> QED BY <1>5, <1>6 DEF TypeOK, RStatus, objVars, nacos, budget

LEMMA RUpdateType == TypeOK /\ RUpdate => TypeOK'
<1> SUFFICES ASSUME TypeOK, RUpdate PROVE TypeOK'
  OBVIOUS
<1> DEFINE me == proc["R"]
           o == IF me.obj.deleting THEN [me.obj EXCEPT !.fin = FALSE] ELSE me.obj
<1>1. o \in Objects
  BY ObjectTypes DEF TypeOK, Procs, ProcStates
<1> HIDE DEF o
<1>2. ObjUpdate("R", o, Idle) \/ ObjKept("R", Idle)
  BY DEF RUpdate, o
<1>3. obj' \in Objects /\ objHeld' \subseteq Holders /\ proc' \in [Procs -> ProcStates]
  BY <1>1, <1>2, ObjUpdateType, IdleType DEF Procs
<1>4. objQueued' \in BOOLEAN /\ dcHeld' \subseteq Holders
  BY DEF RUpdate, TypeOK
<1> QED BY <1>3, <1>4 DEF TypeOK, RUpdate, nacos, budget

\* The steps R and D share.
LEMMA QueryType ==
    ASSUME TypeOK, NEW p \in Procs, NEW d \in DataIds, Query(p, d)
    PROVE  TypeOK'
<1> DEFINE me == proc[p]
<1>1. me \in ProcStates
  BY DEF TypeOK
<1>2. PICK got \in {server[d], Empty} :
          /\ UNCHANGED faults \/ Fault
          /\ Become(p, [me EXCEPT !.pc = "apply", !.id = {d}, !.read = got,
                                  !.todo.loc = @ \ {d}])
  BY DEF Query
<1>3. got \in Texts
  BY DEF TypeOK, Texts
<1>4. [me EXCEPT !.pc = "apply", !.id = {d}, !.read = got, !.todo.loc = @ \ {d}] \in ProcStates
  BY <1>1, <1>3 DEF ProcStates, Todos
<1>5. proc' \in [Procs -> ProcStates]
  BY <1>2, <1>4, BecomeType
<1>6. faults' \in 0..MaxFaults
  BY <1>2, SyncAssumption DEF TypeOK, Fault
<1> QED BY <1>5, <1>6 DEF TypeOK, Query, objVars, dcVars, nacos

LEMMA FailedDataIdType ==
    ASSUME TypeOK, NEW p \in Procs, NEW rest \in ProcStates, NEW d \in DataIds,
           FailedDataId(p, rest, d)
    PROVE  proc' \in [Procs -> ProcStates]
<1>1. UpdateSyncStatus(rest.dc, d, CalcMd5(Empty), FALSE) \in Statuses
  BY StatusTypes DEF ProcStates, Texts
<1>2. [rest EXCEPT !.dc = UpdateSyncStatus(@, d, CalcMd5(Empty), FALSE), !.err = TRUE] \in ProcStates
  BY <1>1 DEF ProcStates
<1> QED BY <1>2, BecomeType DEF FailedDataId

LEMMA ListenType ==
    ASSUME TypeOK, NEW p \in Procs, NEW rest \in ProcStates, NEW d \in DataIds,
           Listen(p, rest, d)
    PROVE  /\ listening' \subseteq DataIds /\ seen' \in [DataIds -> Texts]
           /\ proc' \in [Procs -> ProcStates] /\ faults' \in 0..MaxFaults
<1>1. CASE /\ \E sn \in {Empty, proc[p].read} : ListenConfig({d}, sn)
           /\ Become(p, [rest EXCEPT !.dc = AddListenConfig(@, d)])
           /\ UNCHANGED faults
  <2>1. PICK sn \in Texts : ListenConfig({d}, sn)
    BY <1>1 DEF TypeOK, ProcStates, Texts
  <2>2. AddListenConfig(rest.dc, d) \in Statuses
    BY StatusTypes DEF ProcStates
  <2>3. [rest EXCEPT !.dc = AddListenConfig(@, d)] \in ProcStates
    BY <2>2 DEF ProcStates
  <2>4. proc' \in [Procs -> ProcStates]
    BY <1>1, <2>3, BecomeType
  <2> QED BY <1>1, <2>1, <2>4 DEF TypeOK, ListenConfig
<1>2. CASE /\ Fault
           /\ FailedDataId(p, rest, d)
           /\ UNCHANGED <<listening, seen>>
  <2>1. faults' \in 0..MaxFaults
    BY <1>2, SyncAssumption DEF TypeOK, Fault
  <2> QED BY <1>2, <2>1, FailedDataIdType DEF TypeOK
<1> QED BY <1>1, <1>2 DEF Listen

LEMMA ApplyType ==
    ASSUME TypeOK, NEW p \in Procs, NEW d \in DataIds, Apply(p, d)
    PROVE  TypeOK'
<1> DEFINE me == proc[p]
           rest == [me EXCEPT !.pc = "sync", !.id = {}, !.read = Empty]
           localContent == GetContent(me.obj, d)
           stored == IF CanStore(me.read) THEN StoreContent(me.obj, d, me.read) ELSE me.obj
           ready(c) == [rest EXCEPT !.dc = UpdateSyncStatus(@, d, RecordedMd5(p, c), TRUE)]
           readyStored == [ready(me.read) EXCEPT !.obj = stored]
<1>1. me \in ProcStates /\ me.obj \in Objects /\ me.read \in Texts
  BY DEF TypeOK, ProcStates
<1>2. rest \in ProcStates
  BY <1>1 DEF ProcStates, Texts
<1>3. localContent \in Texts
  BY <1>1, GetContentType
<1>4. stored \in Objects
  BY <1>1, StoreContentType
<1> HIDE DEF rest, stored
<1>5. ASSUME NEW c \in Texts
      PROVE  ready(c) \in ProcStates
  <2>1. RecordedMd5(p, c) \in Md5s
    BY StatusTypes DEF RecordedMd5, Texts
  <2>2. UpdateSyncStatus(rest.dc, d, RecordedMd5(p, c), TRUE) \in Statuses
    BY <1>2, <2>1, StatusTypes DEF ProcStates
  <2> QED BY <1>2, <2>2 DEF ProcStates
<1>6. ready(me.read) \in ProcStates /\ ready(localContent) \in ProcStates
  BY <1>1, <1>3, <1>5
<1> HIDE DEF ready
<1>7. readyStored \in ProcStates
  BY <1>4, <1>6 DEF ProcStates
<1> HIDE DEF readyStored
<1>8. /\ server' \in [DataIds -> Texts] /\ listening' \subseteq DataIds
      /\ seen' \in [DataIds -> Texts] /\ proc' \in [Procs -> ProcStates]
      /\ faults' \in 0..MaxFaults
  <2>1. CASE Listen(p, readyStored, d) /\ UNCHANGED server
    BY <1>7, <2>1, ListenType DEF TypeOK
  <2>2. CASE FailedDataId(p, rest, d) /\ UNCHANGED <<listening, seen>>
             /\ (UNCHANGED <<server, faults>> \/ (Fault /\ PushFailed(d, localContent)))
    <3>1. faults' \in 0..MaxFaults
      BY <2>2, SyncAssumption DEF TypeOK, Fault
    <3>2. server' \in [DataIds -> Texts]
      BY <1>3, <2>2, PushFailedType DEF TypeOK
    <3> QED BY <1>2, <2>2, <3>1, <3>2, FailedDataIdType DEF TypeOK
  <2>3. CASE server' = [server EXCEPT ![d] = localContent] /\ Listen(p, ready(localContent), d)
    <3>1. server' \in [DataIds -> Texts]
      BY <1>3, <2>3 DEF TypeOK
    <3> QED BY <1>6, <2>3, <3>1, ListenType
  <2>4. CASE Become(p, Idle) /\ Fault /\ PushFailed(d, localContent)
             /\ UNCHANGED <<listening, seen>>
    <3>1. faults' \in 0..MaxFaults
      BY <2>4, SyncAssumption DEF TypeOK, Fault
    <3>2. server' \in [DataIds -> Texts]
      BY <1>3, <2>4, PushFailedType
    <3> QED BY <2>4, <3>1, <3>2, IdleType, BecomeType DEF TypeOK
  <2>5. CASE Listen(p, rest, d) /\ UNCHANGED server
    BY <1>2, <2>5, ListenType DEF TypeOK
  <2> QED BY <2>1, <2>2, <2>3, <2>4, <2>5 DEF Apply, rest, stored, ready, readyStored
<1>9. objHeld' \subseteq Holders /\ dcHeld' \subseteq Holders /\ abandoned' \in BOOLEAN
  BY DEF Apply, TypeOK
<1> QED BY <1>8, <1>9 DEF Apply, TypeOK

LEMMA ReloadType ==
    ASSUME TypeOK, NEW p \in Procs, NEW rec \in ProcStates, Reload(p, rec)
    PROVE  /\ obj' \in Objects /\ objHeld' \subseteq Holders
           /\ proc' \in [Procs -> ProcStates]
<1>1. \A o \in Objects : Loaded(p, rec, o) \in ProcStates
  BY DEF Loaded, ProcStates, NoTodo, Todos, GetAllKeys
<1>2. \A o \in Objects : [rec EXCEPT !.pc = "addfin", !.obj = o] \in ProcStates
  BY DEF ProcStates
<1>3. [rec EXCEPT !.pc = "create"] \in ProcStates /\ obj \in Objects
  BY DEF ProcStates, TypeOK
<1>4. \E r \in ProcStates : Become(p, r)
  BY <1>1, <1>2, <1>3 DEF Reload
<1>5. obj' \in Objects /\ objHeld' \subseteq Holders
  BY ReleaseType DEF Reload, TypeOK, Holders
<1> QED BY <1>4, <1>5, BecomeType

LEMMA NoWrapperType ==
    ASSUME TypeOK, NEW p \in Procs, NoWrapper(p)
    PROVE  /\ obj' \in Objects /\ objHeld' \subseteq Holders
           /\ proc' \in [Procs -> ProcStates]
           /\ dcHeld' \subseteq Holders /\ pending' \subseteq Callbacks
           /\ abandoned' \in BOOLEAN
<1> DEFINE rec == IF p = "D" THEN [proc[p] EXCEPT !.pc = "status", !.obj = NoObject] ELSE Idle
<1>1. rec \in ProcStates
  BY IdleType, ObjectTypes DEF TypeOK, ProcStates
<1> HIDE DEF rec
<1>2. ObjKept(p, rec)
  BY DEF NoWrapper, rec
<1>3. obj' \in Objects /\ objHeld' \subseteq Holders /\ proc' \in [Procs -> ProcStates]
  BY <1>1, <1>2, ObjUpdateType, ObjectTypes
<1> QED BY <1>3 DEF NoWrapper, TypeOK

LEMMA CreateMissingType ==
    ASSUME TypeOK, NEW p \in Procs, CreateMissing(p)
    PROVE  TypeOK'
<1> DEFINE new == [proc[p] EXCEPT !.pc = "addfin", !.obj = NewObject]
<1>1. new \in ProcStates
  BY ObjectTypes DEF TypeOK, ProcStates
<1> HIDE DEF new
<1>2. /\ obj' \in Objects /\ objHeld' \subseteq Holders
      /\ proc' \in [Procs -> ProcStates]
      /\ dcHeld' \subseteq Holders /\ pending' \subseteq Callbacks
      /\ abandoned' \in BOOLEAN
  <2>1. CASE NoWrapper(p)
    BY <2>1, NoWrapperType
  <2>2. CASE /\ obj' = NewObject /\ objHeld' = {p} /\ Become(p, new)
             /\ UNCHANGED <<dcHeld, pending, abandoned>>
    BY <1>1, <2>2, ObjectTypes, BecomeType, ReleaseType DEF TypeOK
  <2> QED BY <2>1, <2>2 DEF CreateMissing, new
<1> QED BY <1>2 DEF CreateMissing, TypeOK, budget

\* While C runs it has a callback, which RetryOnConflict needs: this is what
\* TypeOK lacks to be inductive.
CallbackHasJob == proc["C"].pc # "idle" => proc["C"].job # {}

LEMMA AddFinalizerType ==
    ASSUME TypeOK, CallbackHasJob, NEW p \in {"C", "D"}, AddFinalizer(p)
    PROVE  TypeOK'
<1> DEFINE me == proc[p]
           o == [me.obj EXCEPT !.fin = TRUE]
<1>1. p \in Procs /\ me \in ProcStates /\ o \in Objects
  BY ObjectTypes DEF TypeOK, ProcStates, Procs
<1>2. Loaded(p, me, o) \in ProcStates
  BY <1>1 DEF Loaded, ProcStates, NoTodo, Todos, GetAllKeys
<1> HIDE DEF o
<1>3. /\ obj' \in Objects /\ objHeld' \subseteq Holders
      /\ proc' \in [Procs -> ProcStates]
      /\ dcHeld' \subseteq Holders /\ pending' \subseteq Callbacks
      /\ abandoned' \in BOOLEAN
  <2>1. CASE ObjUpdate(p, o, Loaded(p, me, o)) /\ UNCHANGED <<dcHeld, pending, abandoned>>
    <3>1. obj' \in Objects /\ objHeld' \subseteq Holders /\ proc' \in [Procs -> ProcStates]
      BY <1>1, <1>2, <2>1, ObjUpdateType
    <3> QED BY <2>1, <3>1 DEF TypeOK
  <2>2. CASE p = "C" /\ ObjKept(p, Idle) /\ dcHeld' = dcHeld \ {p} /\ RetryOnConflict(p)
    <3>1. me.job # {}
      BY <2>2 DEF CallbackHasJob, AddFinalizer
    <3>2. obj' \in Objects /\ objHeld' \subseteq Holders /\ proc' \in [Procs -> ProcStates]
      BY <1>1, <2>2, IdleType, ObjUpdateType
    <3>3. pending' \subseteq Callbacks /\ abandoned' \in BOOLEAN
      BY <1>1, <2>2, <3>1, RetryType
    <3> QED BY <2>2, <3>2, <3>3 DEF TypeOK
  <2>3. CASE NoWrapper(p)
    BY <1>1, <2>3, NoWrapperType
  <2> QED BY <2>1, <2>2, <2>3 DEF AddFinalizer, o
<1> QED BY <1>3 DEF AddFinalizer, TypeOK, budget

\* The steps of the callback.
LEMMA CStartType ==
    ASSUME TypeOK, NEW n \in pending, CStart(n)
    PROVE  TypeOK'
<1> DEFINE rec == [Idle EXCEPT !.dc = dcCache, !.job = {n}]
<1>1. rec \in ProcStates
  BY IdleType DEF TypeOK, ProcStates
<1> HIDE DEF rec
<1>2. Reload("C", rec)
  BY DEF CStart, rec
<1>3. obj' \in Objects /\ objHeld' \subseteq Holders /\ proc' \in [Procs -> ProcStates]
  BY <1>1, <1>2, ReloadType DEF Procs
<1>4. dcHeld' \subseteq Holders /\ pending' \subseteq Callbacks
  BY ReleaseType DEF CStart, TypeOK, Procs
<1> QED BY <1>3, <1>4 DEF CStart, TypeOK, budget

LEMMA CStoreType ==
    ASSUME TypeOK, NEW n \in proc["C"].job, CStore(n)
    PROVE  TypeOK'
<1> DEFINE me == proc["C"]
           ignored == Ignored(n.content)
           same    == CalcMd5(n.content) = CalcMd5(GetContent(me.obj, n.id))
           s == IF ignored THEN UpdateSyncStatusIfAbsent(me.dc, n.id, CalcMd5(Empty), TRUE)
                           ELSE UpdateSyncStatus(me.dc, n.id, CalcMd5(n.content), TRUE)
           written == IF ignored THEN Idle
                      ELSE [me EXCEPT !.pc = "flush", !.dc = NewStatus,
                                      !.obj = StoreContent(@, n.id, n.content)]
<1>1. me \in ProcStates /\ n \in Callbacks /\ "C" \in Procs
  BY DEF TypeOK, ProcStates, Procs
<1>2. n.id \in DataIds /\ n.content \in Texts /\ Empty \in Texts /\ me.dc \in Statuses
  BY <1>1 DEF Callbacks, ProcStates, Texts
<1>3. s \in Statuses
  BY <1>2, StatusTypes
<1>4. CanStore(n.content) \/ ignored => written \in ProcStates
  <2>1. CanStore(n.content) => StoreContent(me.obj, n.id, n.content) \in Objects
    BY <1>1, <1>2, StoreContentType DEF ProcStates
  <2> QED BY <1>1, <2>1, IdleType, StatusTypes DEF ProcStates
<1> HIDE DEF s, written, same, ignored
<1>5. \/ /\ ObjKept("C", Idle) /\ DcKept("C", Idle)
         /\ UNCHANGED pending /\ abandoned' = (abandoned \/ ~same)
      \/ /\ ignored \/ CanStore(n.content)
         /\ ObjKept("C", written) /\ DcUpdate("C", s, Idle)
         /\ UNCHANGED <<pending, abandoned>>
      \/ /\ ObjKept("C", Idle) /\ DcKept("C", Idle)
         /\ RetryOnConflict("C")
  BY DEF CStore, s, written, same, ignored
<1>6. \E rec \in ProcStates : ObjKept("C", rec)
  BY <1>4, <1>5, IdleType
<1>7. obj' \in Objects /\ objHeld' \subseteq Holders /\ proc' \in [Procs -> ProcStates]
  BY <1>1, <1>6, ObjUpdateType, ObjectTypes
<1>8. dc' \in Statuses /\ dcHeld' \subseteq Holders
  BY <1>1, <1>3, <1>5, DcUpdateType
<1>9. pending' \subseteq Callbacks /\ abandoned' \in BOOLEAN
  <2>1. CASE RetryOnConflict("C")
    BY <1>1, <2>1, RetryType
  <2>2. CASE UNCHANGED pending /\ (abandoned' = (abandoned \/ ~same) \/ UNCHANGED abandoned)
    BY <2>2 DEF TypeOK
  <2> QED BY <1>5, <2>1, <2>2
<1> QED BY <1>7, <1>8, <1>9 DEF CStore, TypeOK, budget

LEMMA CFlushType == TypeOK /\ CallbackHasJob /\ CFlush => TypeOK'
<1> SUFFICES ASSUME TypeOK, CallbackHasJob, CFlush PROVE TypeOK'
  OBVIOUS
<1>1. proc["C"].obj \in Objects /\ proc["C"].job # {} /\ "C" \in Procs
  BY DEF TypeOK, ProcStates, Procs, CallbackHasJob, CFlush
<1>2. ObjUpdate("C", proc["C"].obj, Idle) \/ ObjKept("C", Idle)
  BY DEF CFlush
<1>3. obj' \in Objects /\ objHeld' \subseteq Holders /\ proc' \in [Procs -> ProcStates]
  BY <1>1, <1>2, ObjUpdateType, IdleType
<1>4. pending' \subseteq Callbacks /\ abandoned' \in BOOLEAN
  <2>1. CASE RetryOnConflict("C")
    BY <1>1, <2>1, RetryType
  <2>2. CASE UNCHANGED pending /\ (abandoned' = TRUE \/ UNCHANGED abandoned)
    BY <2>2 DEF TypeOK
  <2> QED BY <2>1, <2>2 DEF CFlush
<1> QED BY <1>3, <1>4 DEF CFlush, TypeOK, dcVars, budget

\* The steps of the DC reconciler.
LEMMA DStartType == TypeOK /\ DStart => TypeOK'
<1> SUFFICES ASSUME TypeOK, DStart PROVE TypeOK'
  OBVIOUS
<1> DEFINE s == dcCache
           me == [Idle EXCEPT !.dc = IF DropsGroup(s) THEN DropGroup(s) ELSE s]
           skip == [me EXCEPT !.pc = "status"]
<1>1. (IF DropsGroup(s) THEN DropGroup(s) ELSE s) \in Statuses /\ "D" \in Procs
  BY StatusTypes DEF TypeOK, Procs
<1>2. me \in ProcStates
  BY <1>1, IdleType DEF ProcStates
<1> HIDE DEF me
<1>3. skip \in ProcStates
  BY <1>2 DEF ProcStates
<1> HIDE DEF skip
<1>4. Reload("D", me) \/ ObjKept("D", skip)
  BY DEF DStart, me, skip
<1>5. obj' \in Objects /\ objHeld' \subseteq Holders /\ proc' \in [Procs -> ProcStates]
  BY <1>1, <1>2, <1>3, <1>4, ReloadType, ObjUpdateType, ObjectTypes
<1>6. dcHeld' \subseteq Holders /\ listening' \subseteq DataIds
  BY <1>1, ReleaseType DEF DStart, TypeOK
<1> QED BY <1>5, <1>6 DEF DStart, TypeOK, budget

LEMMA DFlushType == TypeOK /\ DFlush => TypeOK'
<1> SUFFICES ASSUME TypeOK, DFlush PROVE TypeOK'
  OBVIOUS
<1> DEFINE me == proc["D"]
           rest == [me EXCEPT !.pc = "status", !.obj = NoObject]
<1>1. me \in ProcStates /\ me.obj \in Objects /\ "D" \in Procs
  BY DEF TypeOK, ProcStates, Procs
<1>2. rest \in ProcStates
  BY <1>1, ObjectTypes DEF ProcStates
<1> HIDE DEF rest
<1>3. ObjUpdate("D", me.obj, rest) \/ ObjKept("D", rest)
  BY DEF DFlush, rest
<1>4. obj' \in Objects /\ objHeld' \subseteq Holders /\ proc' \in [Procs -> ProcStates]
  BY <1>1, <1>2, <1>3, ObjUpdateType
<1>5. abandoned' \in BOOLEAN
  BY DEF DFlush, TypeOK
<1> QED BY <1>4, <1>5 DEF DFlush, TypeOK, dcVars, nacos, budget

LEMMA DStatusType == TypeOK /\ DStatus => TypeOK'
<1> SUFFICES ASSUME TypeOK, DStatus PROVE TypeOK'
  OBVIOUS
<1> DEFINE me == proc["D"]
           st == UpdateDynamicConfigurationStatus(me.dc, Scope)
           s  == IF me.err THEN FailedStatus(st) ELSE UpdateStatus(st)
<1>1. me.dc \in Statuses /\ me.err \in BOOLEAN /\ "D" \in Procs
  BY DEF TypeOK, ProcStates, Procs
<1>2. s \in Statuses
  BY <1>1, StatusTypes
<1> HIDE DEF s
<1>3. ObjKept("D", Idle) /\ (DcUpdate("D", s, Idle) \/ DcKept("D", Idle))
  BY DEF DStatus, s
<1>4. obj' \in Objects /\ objHeld' \subseteq Holders /\ proc' \in [Procs -> ProcStates]
  BY <1>1, <1>3, ObjUpdateType, IdleType, ObjectTypes
<1>5. dc' \in Statuses /\ dcHeld' \subseteq Holders
  BY <1>1, <1>2, <1>3, DcUpdateType
<1>6. dcQueued' \in BOOLEAN
  BY <1>1 DEF DStatus, TypeOK
<1> QED BY <1>4, <1>5, <1>6 DEF DStatus, TypeOK, nacos, budget

\* What F has found is a content the object can store, which StoreContentLatest
\* needs, and what F writes is an object: the other thing TypeOK lacks to be
\* inductive.
FoundStorable ==
    /\ proc["F"].pc \in {"check", "load"} => \A n \in proc["F"].job : n.content # Empty
    /\ proc["F"].pc = "load" => \A n \in proc["F"].job : CanStore(n.content)
    /\ proc["F"].pc = "write" => proc["F"].obj.exists /\ proc["F"].obj.fin

\* The steps of the fuzzy listen task.
LEMMA FPollType ==
    ASSUME TypeOK, NEW d \in DataIds, FPoll(d)
    PROVE  TypeOK'
<1>1. [id |-> d, content |-> server[d], left |-> 1] \in Callbacks
  BY SyncAssumption DEF TypeOK, Callbacks
<1>2. [Idle EXCEPT !.pc = "check", !.job = {[id |-> d, content |-> server[d], left |-> 1]}]
        \in ProcStates
  BY <1>1, IdleType DEF ProcStates
<1>3. proc' \in [Procs -> ProcStates]
  BY <1>2, BecomeType DEF FPoll, Procs
<1> QED BY <1>3 DEF FPoll, TypeOK, objVars, dcVars, nacos, budget

LEMMA FCheckType ==
    ASSUME TypeOK, NEW n \in proc["F"].job, FCheck(n)
    PROVE  TypeOK'
<1>1. n \in Callbacks /\ "F" \in Procs
  BY DEF TypeOK, ProcStates, Procs
<1>2. [Idle EXCEPT !.pc = "load", !.job = {n}] \in ProcStates
  BY <1>1, IdleType DEF ProcStates
<1>3. proc' \in [Procs -> ProcStates]
  BY <1>1, <1>2, IdleType, BecomeType DEF FCheck
<1> QED BY <1>3 DEF FCheck, TypeOK, objVars, dcVars, nacos, budget

LEMMA FLoadType ==
    ASSUME TypeOK, FoundStorable, NEW n \in proc["F"].job, FLoad(n)
    PROVE  TypeOK'
<1> DEFINE o == IF obj.exists THEN obj ELSE NewObject
           stored == [StoreContent(o, n.id, n.content) EXCEPT !.fin = TRUE]
           known == obj.exists
<1>1. n \in Callbacks /\ "F" \in Procs /\ o \in Objects /\ known \in BOOLEAN
  BY ObjectTypes DEF TypeOK, ProcStates, Procs, Objects
<1>2. n.id \in DataIds /\ n.content \in Texts /\ CanStore(n.content)
  BY <1>1 DEF Callbacks, FoundStorable, FLoad
<1>3. stored \in Objects
  BY <1>1, <1>2, StoreContentType, ObjectTypes
<1> HIDE DEF stored, o, known
<1>4. [Idle EXCEPT !.pc = "write", !.known = known, !.obj = stored] \in ProcStates
  BY <1>1, <1>3, IdleType DEF ProcStates
<1>5. proc' \in [Procs -> ProcStates]
  BY <1>1, <1>4, BecomeType DEF FLoad, stored, o, known
<1>6. objHeld' \subseteq Holders
  BY <1>1 DEF FLoad, TypeOK, Holders
<1> QED BY <1>5, <1>6 DEF FLoad, TypeOK, dcVars, nacos, budget

LEMMA FWriteType == TypeOK /\ FWrite => TypeOK'
<1> SUFFICES ASSUME TypeOK, FWrite PROVE TypeOK'
  OBVIOUS
<1> DEFINE o == proc["F"].obj
<1>1. o \in Objects /\ "F" \in Procs
  BY DEF TypeOK, ProcStates, Procs
<1>2. obj' \in Objects /\ objHeld' \subseteq Holders /\ proc' \in [Procs -> ProcStates]
  <2>1. CASE ObjUpdate("F", o, Idle) \/ ObjKept("F", Idle)
    BY <1>1, <2>1, ObjUpdateType, IdleType
  <2>2. CASE obj' = o /\ objHeld' = {} /\ Become("F", Idle)
    BY <1>1, <2>2, BecomeType, IdleType
  <2> QED BY <2>1, <2>2 DEF FWrite
<1> QED BY <1>2 DEF FWrite, TypeOK, dcVars, nacos, budget

\* The steps of the environment.
LEMMA EnvironmentType == TypeOK /\ (Delivery \/ User \/ Crash) => TypeOK'
<1> SUFFICES ASSUME TypeOK, Delivery \/ User \/ Crash PROVE TypeOK'
  OBVIOUS
<1>1. CASE ObjInformer
  BY <1>1 DEF ObjInformer, TypeOK, Holders, dcVars, nacos, budget
<1>2. CASE DcInformer
  BY <1>2 DEF DcInformer, TypeOK, Holders, objVars, nacos, budget
<1>3. ASSUME NEW d \in DataIds, Notify(d)
      PROVE  TypeOK'
  <2>1. [id |-> d, content |-> server[d], left |-> RetrySteps] \in Callbacks
    BY SyncAssumption DEF TypeOK, Callbacks
  <2>2. pending' \subseteq Callbacks /\ seen' \in [DataIds -> Texts]
    BY <1>3, <2>1 DEF Notify, TypeOK
  <2> QED BY <1>3, <2>2 DEF Notify, TypeOK, objVars, dcVars, budget
<1>4. UserOp => ops' \in 0..MaxOps /\ crashes' \in 0..MaxCrashes /\ faults' \in 0..MaxFaults
  BY SyncAssumption DEF UserOp, TypeOK
<1>5. ASSUME NEW d \in DataIds, NEW v \in LocalEdits, EditLocal(d, v)
      PROVE  TypeOK'
  <2>1. obj' \in Objects /\ objHeld' \subseteq Holders
    BY <1>5, ObjectTypes, SyncAssumption DEF EditLocal, TypeOK
  <2> QED BY <1>4, <1>5, <2>1 DEF EditLocal, TypeOK, dcVars, nacos
<1>6. ASSUME NEW d \in DataIds, NEW c \in ServerEdits, EditServer(d, c)
      PROVE  TypeOK'
  <2>1. server' \in [DataIds -> Texts]
    BY <1>6, SyncAssumption DEF EditServer, TypeOK
  <2> QED BY <1>4, <1>6, <2>1 DEF EditServer, TypeOK, objVars, dcVars
<1>7. CASE DeleteObject
  <2>1. obj' \in Objects /\ objHeld' \subseteq Holders
    BY <1>7, ObjectTypes DEF DeleteObject, TypeOK
  <2> QED BY <1>4, <1>7, <2>1 DEF DeleteObject, TypeOK, dcVars, nacos
<1>8. ASSUME NEW o \in InitObjs, CreateObject(o)
      PROVE  TypeOK'
  <2>1. obj' \in Objects /\ objHeld' \subseteq Holders
    BY <1>8, ObjectTypes, SyncAssumption DEF CreateObject, TypeOK
  <2> QED BY <1>4, <1>8, <2>1 DEF CreateObject, TypeOK, dcVars, nacos
<1>9. CASE Crash
  <2>1. crashes' \in 0..MaxCrashes
    BY <1>9, SyncAssumption DEF Crash, TypeOK
  <2>2. proc' \in [Procs -> ProcStates] /\ seen' \in [DataIds -> Texts] /\ pending' \subseteq Callbacks
    BY <1>9, IdleType DEF Crash, Texts
  <2>3. objHeld' \subseteq Holders /\ dcHeld' \subseteq Holders
    BY <1>9 DEF Crash, Holders
  <2> QED BY <1>9, <2>1, <2>2, <2>3 DEF Crash, TypeOK
<1> QED BY <1>1, <1>2, <1>3, <1>5, <1>6, <1>7, <1>8, <1>9 DEF Delivery, User

\* Every other handler keeps its local state when p goes on.
LEMMA BecomeOthers ==
    ASSUME TypeOK, NEW p \in Procs, NEW rec, Become(p, rec)
    PROVE  proc'[p] = rec /\ \A q \in Procs \ {p} : proc'[q] = proc[q]
BY DEF TypeOK, Become

\* Every step of R and D leaves the callback and the fuzzy listen task alone.
LEMMA ReconcilersKeepOthers ==
    ASSUME TypeOK, Reconciler \/ DcReconciler
    PROVE  proc'["C"] = proc["C"] /\ proc'["F"] = proc["F"]
<1>1. \/ UNCHANGED proc
      \/ \E p \in {"R", "D"} : \E rec : Become(p, rec)
  <2>1. ASSUME RStart
        PROVE  UNCHANGED proc \/ \E rec : Become("R", rec)
    BY <2>1 DEF RStart, ObjUpdate
  <2>2. ASSUME NEW d \in DataIds, NEW c, NEW r, RPush(d, c, r)
        PROVE  \E rec : Become("R", rec)
    BY <2>2 DEF RPush
  <2>3. ASSUME RFinalize \/ RList \/ RStatus \/ RUpdate
        PROVE  \E rec : Become("R", rec)
    BY <2>3 DEF RFinalize, RList, RStatus, RUpdate, ObjUpdate, ObjKept
  <2>4. ASSUME NEW d \in DataIds, RDelete(d) \/ RBoth(d)
        PROVE  \E rec : Become("R", rec)
    BY <2>2, <2>4 DEF RDelete, RBoth
  <2>5. ASSUME NEW p \in {"R", "D"}, NEW d \in DataIds, Query(p, d) \/ Apply(p, d)
        PROVE  \E rec : Become(p, rec)
    BY <2>5 DEF Query, Apply, Listen, FailedDataId
  <2>6. ASSUME DStart \/ DFlush \/ DStatus \/ CreateMissing("D") \/ AddFinalizer("D")
        PROVE  \E rec : Become("D", rec)
    BY <2>6 DEF DStart, DFlush, DStatus, CreateMissing, AddFinalizer, NoWrapper, Reload,
                ObjUpdate, ObjKept
  <2> QED BY <2>1, <2>3, <2>4, <2>5, <2>6 DEF Reconciler, DcReconciler
<1> QED BY <1>1, BecomeOthers DEF Procs

\* The callback and the fuzzy listen task leave each other alone.
LEMMA CallbackBecomes == Callback => \E rec : Become("C", rec)
BY DEF Callback, CStart, CreateMissing, AddFinalizer, CStore, CFlush, NoWrapper, Reload,
       ObjUpdate, ObjKept

LEMMA FuzzyListenBecomes == FuzzyListen => \E rec : Become("F", rec)
BY DEF FuzzyListen, FPoll, FCheck, FLoad, FWrite, ObjUpdate, ObjKept

\* No step of the environment but a restart touches a handler.
LEMMA EnvironmentKeepsHandlers == Delivery \/ User \/ Rest \/ UNCHANGED vars => UNCHANGED proc
BY DEF Delivery, ObjInformer, DcInformer, Notify, User, EditLocal, EditServer, DeleteObject,
       CreateObject, Rest, vars

\* FoundStorable is preserved: FPoll takes what the search has found, and FCheck
\* has looked at the content.
LEMMA FoundStorableStep ==
    ASSUME TypeOK, FoundStorable, [Next]_vars
    PROVE  FoundStorable'
<1>1. CASE Reconciler \/ DcReconciler
  BY <1>1, ReconcilersKeepOthers DEF FoundStorable
<1>2. CASE Callback
  BY <1>2, CallbackBecomes, BecomeOthers DEF FoundStorable, Procs
<1>3. CASE FuzzyListen
  <2>1. ASSUME NEW d \in DataIds, FPoll(d)
        PROVE  FoundStorable'
    <3> DEFINE n == [id |-> d, content |-> server[d], left |-> 1]
    <3>1. n.content # Empty
      BY <2>1 DEF FPoll, Unknown
    <3> DEFINE rec == [Idle EXCEPT !.pc = "check", !.job = {n}]
    <3>2. rec.job = {n} /\ rec.pc = "check"
      BY DEF Idle
    <3>3. Become("F", rec)
      BY <2>1 DEF FPoll
    <3> HIDE DEF n, rec
    <3>4. proc'["F"].job = {n} /\ proc'["F"].pc = "check"
      BY <3>2, <3>3, BecomeOthers DEF Procs
    <3> QED BY <3>1, <3>4 DEF FoundStorable
  <2>4. ASSUME NEW n \in proc["F"].job, FCheck(n)
        PROVE  FoundStorable'
    <3> DEFINE rec == [Idle EXCEPT !.pc = "load", !.job = {n}]
    <3>1. n.content # Empty
      BY <2>4 DEF FCheck, FoundStorable
    <3>2. rec.job = {n} /\ rec.pc = "load" /\ Idle.pc = "idle"
      BY DEF Idle
    <3>3. (CanStore(n.content) /\ Become("F", rec)) \/ Become("F", Idle)
      BY <2>4 DEF FCheck
    <3> HIDE DEF rec
    <3>4. CASE CanStore(n.content) /\ Become("F", rec)
      <4>1. proc'["F"] = rec
        BY <3>4, BecomeOthers DEF Procs
      <4> QED BY <3>1, <3>2, <3>4, <4>1 DEF FoundStorable, CanStore
    <3>5. CASE Become("F", Idle)
      BY <3>2, <3>5, BecomeOthers DEF FoundStorable, Procs
    <3> QED BY <3>3, <3>4, <3>5
  <2>2. ASSUME NEW n \in proc["F"].job, FLoad(n)
        PROVE  FoundStorable'
    <3> DEFINE o == IF obj.exists THEN obj ELSE NewObject
               stored == StoreContent(o, n.id, n.content)
               written == [stored EXCEPT !.fin = TRUE]
    <3>1. o \in Objects /\ o.exists /\ n \in Callbacks
      BY ObjectTypes DEF TypeOK, ProcStates, Procs, NewObject, NoObject
    <3>2. stored \in Objects /\ stored.exists
      <4>1. n.id \in DataIds /\ n.content \in Texts /\ CanStore(n.content)
        BY <2>2, <3>1 DEF Callbacks, FoundStorable, FLoad
      <4> QED BY <3>1, <4>1, StoreContentType DEF StoreContent, Objects
    <3> HIDE DEF stored
    <3>3. written.exists /\ written.fin
      BY <3>2 DEF Objects
    <3> HIDE DEF written
    <3> DEFINE rec == [Idle EXCEPT !.pc = "write", !.known = obj.exists, !.obj = written]
    <3>4. Become("F", rec)
      BY <2>2 DEF FLoad, written, stored
    <3>5. rec.pc = "write" /\ rec.obj = written
      BY DEF Idle
    <3> HIDE DEF rec
    <3>6. proc'["F"].pc = "write" /\ proc'["F"].obj = written
      BY <3>4, <3>5, BecomeOthers DEF Procs
    <3> QED BY <3>3, <3>6 DEF FoundStorable
  <2>3. ASSUME FWrite
        PROVE  FoundStorable'
    <3>1. Become("F", Idle)
      BY <2>3 DEF FWrite, ObjUpdate, ObjKept
    <3> QED BY <3>1, BecomeOthers DEF FoundStorable, Procs, Idle
  <2> QED BY <1>3, <2>1, <2>2, <2>3, <2>4 DEF FuzzyListen
<1>4. CASE Crash
  BY <1>4 DEF Crash, FoundStorable, Idle, Procs
<1>5. CASE UNCHANGED proc
  BY <1>5 DEF FoundStorable
<1> QED BY <1>1, <1>2, <1>3, <1>4, <1>5, EnvironmentKeepsHandlers DEF Next, Controller

\* CallbackHasJob is preserved.
LEMMA CallbackHasJobStep ==
    ASSUME TypeOK, CallbackHasJob, [Next]_vars
    PROVE  CallbackHasJob'
<1>1. CASE Reconciler \/ DcReconciler
  BY <1>1, ReconcilersKeepOthers DEF CallbackHasJob
<1>2. CASE Callback
  <2>1. ASSUME NEW n \in pending, CStart(n)
        PROVE  CallbackHasJob'
    <3> DEFINE r == [Idle EXCEPT !.dc = dcCache, !.job = {n}]
    <3>1. r \in ProcStates /\ r.job # {}
      BY IdleType DEF TypeOK, ProcStates
    <3> HIDE DEF r
    <3>2. Reload("C", r)
      BY <2>1 DEF CStart, r
    <3>3. \E o, rec : /\ Become("C", rec)
                      /\ rec \in {Loaded("C", r, o), [r EXCEPT !.pc = "addfin", !.obj = o],
                                 [r EXCEPT !.pc = "create"]}
      BY <3>2 DEF Reload
    <3>4. PICK o, rec : /\ Become("C", rec)
                        /\ rec \in {Loaded("C", r, o), [r EXCEPT !.pc = "addfin", !.obj = o],
                                 [r EXCEPT !.pc = "create"]}
      BY <3>3
    <3>5. rec.job = r.job
      BY <3>1, <3>4 DEF Loaded, ProcStates
    <3>6. proc'["C"] = rec
      BY <3>4, BecomeOthers DEF Procs
    <3> QED BY <3>1, <3>5, <3>6 DEF CallbackHasJob
  <2>2. ASSUME AddFinalizer("C")
        PROVE  CallbackHasJob'
    <3> DEFINE me == proc["C"]
    <3>1. me \in ProcStates /\ me.job # {}
      BY <2>2 DEF TypeOK, Procs, AddFinalizer, CallbackHasJob
    <3>2. (\E o : Become("C", Loaded("C", me, o))) \/ Become("C", Idle)
      BY <2>2 DEF AddFinalizer, NoWrapper, ObjUpdate, ObjKept
    <3>3. \A o : Loaded("C", me, o).job = me.job
      BY <3>1 DEF Loaded, ProcStates
    <3> QED BY <3>1, <3>2, <3>3, BecomeOthers DEF CallbackHasJob, Procs, Idle
  <2>3. ASSUME NEW n \in proc["C"].job, CStore(n)
        PROVE  CallbackHasJob'
    <3> DEFINE me == proc["C"]
    <3>1. me \in ProcStates
      BY DEF TypeOK, Procs
    <3> DEFINE r == [me EXCEPT !.pc = "flush", !.dc = NewStatus,
                               !.obj = StoreContent(@, n.id, n.content)]
    <3>2. r.job = me.job
      BY <3>1 DEF ProcStates
    <3>3. Become("C", Idle) \/ Become("C", r)
      BY <2>3 DEF CStore, ObjKept
    <3> HIDE DEF r
    <3>4. proc'["C"] \in {Idle, r}
      BY <3>3, BecomeOthers DEF Procs
    <3>5. Idle.pc = "idle"
      BY DEF Idle
    <3> QED BY <3>2, <3>4, <3>5 DEF CallbackHasJob
  <2>4. ASSUME CFlush
        PROVE  CallbackHasJob'
    <3>1. Become("C", Idle)
      BY <2>4 DEF CFlush, ObjUpdate, ObjKept
    <3> QED BY <3>1, BecomeOthers DEF CallbackHasJob, Procs, Idle
  <2>5. ASSUME CreateMissing("C")
        PROVE  CallbackHasJob'
    <3> DEFINE me == proc["C"]
               new == [me EXCEPT !.pc = "addfin", !.obj = NewObject]
    <3>1. me \in ProcStates /\ me.job # {}
      BY <2>5 DEF TypeOK, Procs, CreateMissing, CallbackHasJob
    <3>2. new.job = me.job
      BY <3>1 DEF ProcStates
    <3>3. Become("C", new) \/ Become("C", Idle)
      BY <2>5 DEF CreateMissing, NoWrapper, ObjKept
    <3> HIDE DEF new
    <3> QED BY <3>1, <3>2, <3>3, BecomeOthers DEF CallbackHasJob, Procs, Idle
  <2> QED BY <1>2, <2>1, <2>2, <2>3, <2>4, <2>5 DEF Callback
<1>3. CASE UNCHANGED proc
  BY <1>3 DEF CallbackHasJob
<1>4. CASE Crash
  BY <1>4 DEF Crash, CallbackHasJob, Idle, Procs
<1>5. CASE FuzzyListen
  BY <1>5, FuzzyListenBecomes, BecomeOthers DEF CallbackHasJob, Procs
<1> QED BY <1>1, <1>2, <1>3, <1>4, <1>5, EnvironmentKeepsHandlers DEF Next, Controller

\* TypeOK with its strengthening is inductive.
LEMMA TypeStep ==
    ASSUME TypeOK, CallbackHasJob, FoundStorable, [Next]_vars
    PROVE  TypeOK'
<1>1. CASE Reconciler
  BY <1>1, RStartType, RFinalizeType, RListType, RStatusType, RUpdateType, RDeleteType, RBothType, QueryType,
     ApplyType DEF Reconciler, Procs
<1>2. CASE Callback
  BY <1>2, CStartType, CreateMissingType, AddFinalizerType, CStoreType, CFlushType
     DEF Callback, Procs
<1>3. CASE DcReconciler
  BY <1>3, DStartType, CreateMissingType, AddFinalizerType, DFlushType, DStatusType, QueryType, ApplyType
     DEF DcReconciler, Procs
<1>4. CASE Rest \/ UNCHANGED vars
  BY <1>4 DEF Rest, TypeOK, vars, objVars, dcVars, nacos, budget
<1>5. CASE FuzzyListen
  BY <1>5, FPollType, FCheckType, FLoadType, FWriteType DEF FuzzyListen
<1> QED BY <1>1, <1>2, <1>3, <1>4, <1>5, EnvironmentType DEF Next, Controller

\* Type correctness, for every value of the constants: whatever the handlers,
\* the informers, the SDK and the users do, the object, the status and the
\* handlers' copies are of their types, every callback waiting for a retry has
\* an attempt left, and no bound is exceeded.
THEOREM TypeCorrect == Spec => [](TypeOK /\ CallbackHasJob /\ FoundStorable)
<1>1. Init => TypeOK /\ CallbackHasJob /\ FoundStorable
  BY InitType DEF Init, CallbackHasJob, FoundStorable, Idle, Procs
<1>2. TypeOK /\ CallbackHasJob /\ FoundStorable /\ [Next]_vars
        => (TypeOK /\ CallbackHasJob /\ FoundStorable)'
  BY TypeStep, CallbackHasJobStep, FoundStorableStep
<1> QED BY <1>1, <1>2, PTL DEF Spec
=============================================================================
