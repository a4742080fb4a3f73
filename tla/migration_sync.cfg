SPECIFICATION Spec
CONSTANTS
    a = a
    b = b
    t1 = t1
    r1 = r1
    r2 = r2
    Engines <- MCEngines
    Home = a
    Tasks = {t1}
    Requests = {r1, r2}
    Ops = {"migrate", "sync"}
    MayFail = {}
    MaxCrashes = 0
CHECK_DEADLOCK FALSE
PROPERTY MigratingHolds
