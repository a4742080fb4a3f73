SPECIFICATION FairSpec
CONSTANTS
    a = a
    b = b
    t1 = t1
    r1 = r1
    r2 = r2
    Engines <- MCEngines
    Home = a
    Tasks = {t1}
    Requests = {r1}
    Ops <- AllOps
    MayFail = {"delete"}
    MaxCrashes = 0
CHECK_DEADLOCK FALSE
INVARIANT NeverStranded
PROPERTY TransferEnds
