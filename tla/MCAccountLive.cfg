SPECIFICATION FairSpec
CONSTANTS
    r1 = r1
    r2 = r2
    r3 = r3
    Request = {r1, r2}
    Calls <- WithoutGet
    Faults = {"api", "save", "observe", "nm"}
    StartKeyring = {1}
    StartTunnel = {"none", "connecting", "connected"}
    MaxCalls = 2
    MaxIssued = 3
INVARIANTS
    PublishedAccountIsCurrent
PROPERTIES
    RestorationEnds
    EveryRequestIsAnswered
CHECK_DEADLOCK FALSE
