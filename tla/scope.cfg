SPECIFICATION Spec
CONSTANTS
    c1 = c1
    c2 = c2
    c3 = c3
    c4 = c4
    k1 = k1
    k2 = k2
    DataIds = {k1}
    Contents = {c1, c2, c3}
    Json = {}
    Base64 = {c1, c2, c3}
    Canonical <- Plain
    Empty = Empty
    Absent = Absent
    Kind = "ConfigMap"
    Scope = "partial"
    Referenced = FALSE
    SyncDeletion = TRUE
    PreferCluster = TRUE
    RetrySteps = 3
    InitSynced = FALSE
    InitObjs <- Known
    InitServers <- Nothing
    LocalEdits = {c3, Absent}
    ServerEdits = {c2, Empty}
    DeleteObjects = FALSE
    SettledEdits = TRUE
    MaxOps = 0
    MaxInFlight = 1
    MaxCrashes = 0
    MaxFaults = 0
PROPERTY ScopeRespected
