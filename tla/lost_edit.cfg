SPECIFICATION Spec
CONSTANTS
    c1 = c1
    c2 = c2
    c3 = c3
    c4 = c4
    k1 = k1
    k2 = k2
    DataIds = {k1}
    Contents = {c1, c2, c3}
    Json = {}
    Base64 = {c1, c2, c3}
    Canonical <- Plain
    Empty = Empty
    Absent = Absent
    Kind = "ConfigMap"
    Scope = "full"
    Referenced = FALSE
    SyncDeletion = TRUE
    PreferCluster = TRUE
    RetrySteps = 3
    InitSynced = TRUE
    InitObjs <- Known
    InitServers <- Nothing
    LocalEdits = {}
    ServerEdits = {c2, c3}
    DeleteObjects = FALSE
    SettledEdits = TRUE
    MaxOps = 2
    MaxInFlight = 1
    MaxCrashes = 0
    MaxFaults = 0
PROPERTY NacosEditsSurvive
