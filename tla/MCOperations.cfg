SPECIFICATION FairSpec
CONSTANTS
    r1 = r1
    r2 = r2
    r3 = r3
    c1 = c1
    Client = {c1}
    Request = {r1, r2, r3}
    Method <- MethodsAll
    RECENT_OPERATION_LIMIT = 2
    MaxOperations = 3
INVARIANTS
    TypeOK
    NoConflictingOperations
    LeaseDiscipline
    IdsNameOneRecord
PROPERTIES
    FinishedRecordsAreFinal
    ImplementsGate
    EveryOperationEnds
