SPECIFICATION FairSpec
CONSTANTS
    g1 = g1
    n1 = n1
    n2 = n2
    Groups = {g1}
    Servers = {n1, n2}
    NoServer = NoServer
    Requests <- Moves
    MaxOps = 1
    MaxFaults = 1
INVARIANTS TypeOK NoStrayListeners ListenersAlive TaskFollowsDc
PROPERTY OnlyStrandedStuck
