------------------------------ MODULE SyncStatus ------------------------------
(***************************************************************************)
(* The status of a DynamicConfiguration, restricted to the group of one    *)
(* object, and the functions of pkg/nacos/dynamicconfiguration_util.go     *)
(* and pkg/nacos/util.go that read and write it.  Timestamps, messages and *)
(* the LastSyncFrom label decide nothing and are left out.                 *)
(***************************************************************************)
EXTENDS ObjectContent

\* MD5 is taken to be injective; the empty string has the empty digest.
CalcMd5(c) == IF c = Empty THEN <<>> ELSE <<c>>

Md5s == {CalcMd5(c) : c \in Texts}

SyncStates == [state : {"none", "ready", "failed"}, md5 : Md5s]

NoSyncStatus == [state |-> "none", md5 |-> CalcMd5(Empty)]

(***************************************************************************)
(* listen is ListenConfigs[group]: the group is a key of the map iff it    *)
(* has a data id, as AddListenConfig is the only function to add to it.    *)
(***************************************************************************)
Statuses == [scope : {"", "full", "partial"},
             listen : SUBSET DataIds,
             sync : [DataIds -> SyncStates],
             phase : {"", "succeed", "failed"}]

NewStatus == [scope |-> "", listen |-> {},
              sync |-> [d \in DataIds |-> NoSyncStatus], phase |-> ""]

GetSyncStatusByDataId(s, d) == s.sync[d]

UpdateSyncStatus(s, d, md5, ready) ==
    [s EXCEPT !.sync[d] = [state |-> IF ready THEN "ready" ELSE "failed",
                           md5 |-> md5]]

UpdateSyncStatusIfAbsent(s, d, md5, ready) ==
    IF s.sync[d].state = "none" THEN UpdateSyncStatus(s, d, md5, ready) ELSE s

AddListenConfig(s, d) == [s EXCEPT !.listen = @ \cup {d}]

UpdateDynamicConfigurationStatus(s, scope) == [s EXCEPT !.scope = scope]

FailedStatus(s) == [s EXCEPT !.phase = "failed"]

UpdateStatus(s) ==
    [s EXCEPT !.phase = IF \E d \in DataIds : s.sync[d].state = "failed"
                        THEN "failed" ELSE "succeed"]

\* The status after the group is dropped from SyncStatuses and ListenConfigs.
DropGroup(s) == [s EXCEPT !.listen = {},
                          !.sync = [d \in DataIds |-> NoSyncStatus]]

(***************************************************************************)
(* The work of one reconcile pass.  del: listened to but no longer in the  *)
(* object; loc: in the object but not listened to; both: the rest.         *)
(***************************************************************************)
Todos == [del : SUBSET DataIds, loc : SUBSET DataIds, both : SUBSET DataIds]

NoTodo == [del |-> {}, loc |-> {}, both |-> {}]

\* Mutation: the data ids that left the object are not reported.
CompareDataIdsNoDel(listenDataIds, localDataIds) ==
    [del  |-> {},
     loc  |-> localDataIds \ listenDataIds,
     both |-> listenDataIds \cap localDataIds]

CompareDataIds(listenDataIds, localDataIds) ==
    [del  |-> listenDataIds \ localDataIds,
     loc  |-> localDataIds \ listenDataIds,
     both |-> listenDataIds \cap localDataIds]
=============================================================================
