SPECIFICATION Spec
CONSTANTS
    Session = {c1}
    RequestId = {i1, i2}
    Account = {"alice"}
    Network <- MCNetwork
    Emitted <- MCEmitted
    MAX_PENDING_REQUESTS_PER_CLIENT = 1
    IDLE_EXIT_AFTER = 1
    Budget = 4
INVARIANTS
    FramesAreAnsweredOnce
    ClockIsOfLastTunnel
    InsecureWifiIsWarnedOf
PROPERTIES
    ExitsAfterGrace
    ClientsCatchUp
CHECK_DEADLOCK FALSE
