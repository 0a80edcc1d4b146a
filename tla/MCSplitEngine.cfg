SPECIFICATION Spec
CONSTANTS
    Uid = {1, 2}
    Pid = {1, 2}
    Image = {"app", "agent"}
    AgentImage = "agent"
    Destination = {"lan"}
    ConfigChoice <- Configs
    OfferChoice <- Offers
    Boot <- AgentAndApp
    MAX_CONFIGS = 1
    MAX_STATE_BYTES = 5
    state_bytes <- RuleCount
    PROCESS_EVENT_CAPACITY = 1
    Budget = 5
INVARIANTS
    FileAlwaysLoads
    RoutesAccountedFor
PROPERTIES
    EventuallyEnforced
CHECK_DEADLOCK FALSE
