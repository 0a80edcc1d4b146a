SPECIFICATION Spec
CONSTANTS
    NoFile = NoFile
    k1 = k1
    u1 = u1
    o1 = o1
    s1 = s1
    AccountKey = {k1}
    UserProfile = {u1}
    OfficialProfile = {o1}
    Server = {s1}
    Legacy <- MCLegacy
    MAX_PROFILES = 2
    MAX_UNPINNED_RECENTS = 1
    Epoch = 0
    MaxRevision = 4
    MaxFaults = 2
    MaxWork = 5
INVARIANTS
    TypeOK
    PublishedIsSaved
    LifecycleFollows
    RecentsResolve
PROPERTY DefaultBreaksOnlyByUnpinning
CHECK_DEADLOCK FALSE
