SPECIFICATION Spec
CONSTANTS
    c1 = c1
    c2 = c2
    c3 = c3
    c4 = c4
    k1 = k1
    k2 = k2
    DataIds = {k1}
    Contents = {c1, c2, c3, c4}
    Json = {}
    Base64 = {c1, c2, c3}
    Canonical <- Wrapped
    Empty = Empty
    Absent = Absent
    Kind = "Secret"
    Scope = "partial"
    Referenced = TRUE
    SyncDeletion = FALSE
    PreferCluster = TRUE
    RetrySteps = 3
    InitSynced = TRUE
    InitObjs <- Known
    InitServers <- Nothing
    LocalEdits = {Empty, Absent}
    ServerEdits = {c2, c4, Empty}
    DeleteObjects = TRUE
    SettledEdits = TRUE
    MaxOps = 2
    MaxInFlight = 1
    MaxCrashes = 1
    MaxFaults = 0
INVARIANTS ConsistentAtRest CurrentCopies
PROPERTY NoContentLost
