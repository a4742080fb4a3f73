SPECIFICATION ApiSpec
CONSTANTS
    k1 = k1
    a1 = a1
    a2 = a2
    q1 = q1
    q2 = q2
    Uploads = {u1, u2}
    Parts = {1}
    Unlucky = {u1}
    UserIds = {1, 2}
    KeyIds = {k1}
    Tokens = {t1, t2}
    Callers = {a1, a2}
    MaxPw = 1
    Engines = {"e1"}
    Static = {}
    Urls = {"a", "b"}
    Home = "a"
    Rates = {0, 5}
    Policies = {0, 1}
    MaxMoves = 2
    MaxSets = 2
    Conns = {1, 2}
    Polled = {"torrent"}
    Pushed = {"migrate"}
    Publishers = {"snapshot"}
    MaxWorld = 2
    MaxToggles = 3
    Nodes = {"e1", "e2"}
    Limits = {0, 1}
    Cap = 1
    MaxSent = 2
    MaxSwitches = 2
    MaxDeaths = 1
    MaxTwice = 0
    MaxPatches = 2
    Deleters = {q1, q2}
    Seeders = {a1}
    MaxTasks = 2
    MaxDeskFaults = 1
    Saved = {s1, s2}
    Keep = 1
    MaxAge = 2
    Dumps = {d1}
    Restores = {q1, q2}
    Outages = {"db_down"}
    Hidden <- mcHidden
    MaxAlertFaults = 2
INVARIANTS ApiTypeOK AccountsSound AccountingSound DeskSound
INVARIANTS EndOnItsWay BackupsSound
PROPERTIES UploadSound RegistryConverges Delivered AllAnnounced AlertsTold
CHECK_DEADLOCK FALSE
