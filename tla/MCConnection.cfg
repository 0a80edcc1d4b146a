SPECIFICATION Spec
CONSTANTS
    r1 = r1
    r2 = r2
    r3 = r3
    w1 = w1
    c1 = c1
    Client = {c1}
    Request = {r1, r2}
    Watcher = {}
    Loops = {"policy"}
    Method <- Connections
    Faults = {"prepare", "observe", "nm", "bypass", "agent", "drop", "foreign"}
    Modes = {0, 1, 2}
    RECENT_OPERATION_LIMIT = 1
    MaxOperations = 3
    MaxRequests = 3
SYMMETRY Symmetry
INVARIANTS
    OneOwnedTunnel
    CancelLeavesNothingBehind
    OwnTunnelIsKnown
    BypassGoneBeforeTeardown
    KillSwitchSettles
CHECK_DEADLOCK FALSE
