SPECIFICATION Spec
CONSTANTS
    r1 = r1
    r2 = r2
    r3 = r3
    Request = {r1, r2}
    Calls <- AllCalls
    Faults = {"api", "save", "nm", "agent"}
    StartKeyring = {0, 1}
    StartTunnel = {"none", "connected"}
    MaxCalls = 4
    MaxIssued = 5
SYMMETRY Symmetry
INVARIANTS
    SessionMatchesKeyring
    NoSecondFactorWhileSignedIn
    LogoutDisconnects
CHECK_DEADLOCK FALSE
