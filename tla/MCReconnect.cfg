SPECIFICATION SequencesSpec
CONSTANTS
    MAX_ATTEMPTS = 2
    RESUME_ATTEMPTS = 2
    RECENT_OPERATION_LIMIT = 2
    UserMethod = {"connection.connect", "connection.cancel", "account.logout",
                  "feature.set"}
    MaxOperations = 3
    Budget = 3
INVARIANTS
    ManualActionStops
PROPERTIES
    AccountReadyConnects
    LostTunnelIsRestored
CHECK_DEADLOCK FALSE
