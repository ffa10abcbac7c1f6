SPECIFICATION FreshSpec
CONSTANTS
    c1 = c1
    c2 = c2
    c3 = c3
    c4 = c4
    k1 = k1
    k2 = k2
    DataIds = {k1}
    Contents = {c1, c2, c3}
    Json = {}
    Base64 = {c1, c2, c3}
    Canonical <- Plain
    Empty = Empty
    Absent = Absent
    Kind = "ConfigMap"
    Scope = "partial"
    Referenced = TRUE
    SyncDeletion = TRUE
    PreferCluster = FALSE
    RetrySteps = 2
    InitSynced = TRUE
    InitObjs <- Known
    InitServers <- Nothing
    LocalEdits = {c1, c2, Absent}
    ServerEdits = {c2, Empty}
    DeleteObjects = FALSE
    SettledEdits = TRUE
    MaxOps = 3
    MaxInFlight = 1
    MaxCrashes = 0
    MaxFaults = 1
INVARIANTS TypeOK ConsistentAtRest
