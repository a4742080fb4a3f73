SPECIFICATION Spec
CONSTANTS
    t1 = t1
    t2 = t2
    t3 = t3
    Torrents <- Two
    Limits = {1}
    Ops <- Requests
    MaxRestarts = 0
CHECK_DEADLOCK FALSE
INVARIANT UserPauseHolds
