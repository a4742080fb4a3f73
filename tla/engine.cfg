SPECIFICATION EngineSpec
CONSTANTS
    h1 = h1
    h2 = h2
    k1 = k1
    c1 = c1
    c2 = c2
    f1 = f1
    f2 = f2
    Hashed = {h1, h2}
    Observers = {o1}
    Pollers = {p1}
    Savers = {s1}
    Rates = {0, 3}
    Cap = 2
    Spinning = TRUE
    Jobs = {k1, k2}
    Workers = 1
    VolCalls = {c1, c2}
    MaxAdds = 2
    MaxVolCrashes = 2
    Overlap = FALSE
    Copiers = {c1, c2}
    Files = {f1}
    Size <- mcSize
    Modes = {"local", "stream", "direct", "http"}
    SingleFile = FALSE
    Torrents = {h1, h2}
    Passkey = {h1}
    NetCalls = {c1, c2}
    Switchers = {s1}
    NetPolicies <- mcPolicies
    MaxMoves = 1
    Clients = {c1, c2}
    Listing <- mcListing
    Length <- mcLength
    U32 = 3
    U16 = 2
    Parallel = 1
INVARIANTS EngineTypeOK CapSound ThreadsAnswer DownloadSound
INVARIANTS VolumeSound ContentSound StaysPrivate
PROPERTIES CapFollowsHashing CancelHeard ComesBack RetryKeeps PolicyArrives
CHECK_DEADLOCK FALSE
