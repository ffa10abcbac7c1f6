SPECIFICATION FairSpec
CONSTANTS
    g1 = g1
    g2 = g2
    g3 = g3
    Goroutines = {g1, g2, g3}
    NoMutex = NoMutex
INVARIANTS NoNilLock ExclusionWhenSettled
PROPERTIES SettledIsStable EventuallySettled EveryCallbackRuns
