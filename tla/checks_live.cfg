SPECIFICATION FairSpec
CONSTANTS
    t1 = t1
    t2 = t2
    t3 = t3
    Torrents <- Two
    Limits = {1}
    Ops = {"pause"}
    MaxRestarts = 1
CHECK_DEADLOCK FALSE
PROPERTY CheckEnds
