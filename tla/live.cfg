SPECIFICATION FairSpec
CONSTANTS
    c1 = c1
    c2 = c2
    c3 = c3
    c4 = c4
    k1 = k1
    k2 = k2
    DataIds = {k1, k2}
    Contents = {c1, c2, c3}
    Json = {}
    Base64 = {c1, c2, c3}
    Canonical <- Plain
    Empty = Empty
    Absent = Absent
    Kind = "ConfigMap"
    Scope = "full"
    Referenced = FALSE
    SyncDeletion = TRUE
    PreferCluster = TRUE
    RetrySteps = 3
    InitSynced = TRUE
    InitObjs <- Some
    InitServers <- Nothing
    LocalEdits = {c3, Absent}
    ServerEdits = {c2, Empty}
    DeleteObjects = TRUE
    SettledEdits = TRUE
    MaxOps = 1
    MaxInFlight = 1
    MaxCrashes = 0
    MaxFaults = 1
PROPERTIES Converges DeletionCompletes NewConfigsArrive
