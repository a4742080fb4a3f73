SPECIFICATION MCSpec
CONSTANTS
    r1 = r1
    r2 = r2
    q1 = q1
    q2 = q2
    Rows = {r1, r2}
    Strict = {TRUE, FALSE}
    Requests = {q1, q2}
    Restorers = {"startup", "worker", "bulk"}
    MaxRestarts = 1
    MaxFaults = 1
INVARIANTS Catalogued
CHECK_DEADLOCK FALSE
