SPECIFICATION Spec
CONSTANTS
    s1 = s1
    s2 = s2
    n2 = n2
    a1 = a1
    a2 = a2
    x = x
    Services = {s1, s2}
    Keys = {s1, s2, n2}
    NacosName <- Renamed
    Listed = {}
    ByAddress = TRUE
    Addrs = {a1, a2, x}
    InitServices = {s1, s2}
    InitEps <- Ready
    InitOthers <- Stranger
    ScaleTo = {{a2}}
    Deletable = {}
    DeleteSds = FALSE
    MaxOps = 0
    MaxFaults = 1
INVARIANT InSyncAtRest
