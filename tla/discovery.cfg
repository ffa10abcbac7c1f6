SPECIFICATION FairSpec
CONSTANTS
    s1 = s1
    s2 = s2
    n2 = n2
    a1 = a1
    a2 = a2
    x = x
    Services = {s1, s2}
    Keys = {s1, s2, n2}
    NacosName <- Renamed
    Listed = {s1, s2}
    ByAddress = TRUE
    Addrs = {a1, a2, x}
    InitServices = {s1, s2}
    InitEps <- Either
    InitOthers <- Stranger
    ScaleTo = {{a2}, {}}
    Deletable = {s1}
    DeleteSds = TRUE
    MaxOps = 1
    MaxFaults = 1
INVARIANTS TypeOK ChecksOff
PROPERTIES OthersKept ImplementsRegistry EventuallyInSync SdDeletionCompletes
