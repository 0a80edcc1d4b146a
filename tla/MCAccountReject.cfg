SPECIFICATION FairSpec
CONSTANTS
    r1 = r1
    r2 = r2
    r3 = r3
    Request = {r1}
    Calls = {"account.retry_restore"}
    Faults = {"agent"}
    StartKeyring = {1}
    StartTunnel = {"connected"}
    MaxCalls = 1
    MaxIssued = 2
PROPERTIES
    RestorationEnds
CHECK_DEADLOCK FALSE
