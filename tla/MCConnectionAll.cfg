SPECIFICATION FairSpec
CONSTANTS
    r1 = r1
    r2 = r2
    r3 = r3
    w1 = w1
    c1 = c1
    Client = {c1}
    Request = {r1, r2}
    Watcher = {w1}
    Loops = {"split_route"}
    Method <- WithFeature
    Faults = {"nm", "route", "bypass", "policy", "agent", "jail", "persist"}
    Modes = {0, 1}
    RECENT_OPERATION_LIMIT = 1
    MaxOperations = 2
    MaxRequests = 2
PROPERTIES
    EveryRequestIsAnswered
CHECK_DEADLOCK FALSE
