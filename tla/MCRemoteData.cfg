SPECIFICATION FairSpec
CONSTANTS
    n1 = n1
    n2 = n2
    NoSession = NoSession
    NoCatalog = NoCatalog
    NoNetwork = NoNetwork
    Offered <- MCOffered
    Cached <- MCCached
    LookedUp <- MCLookedUp
    Tiers = {0, 1}
    Network = {n1, n2}
    CountryOf <- MCCountryOf
    Exit = "US"
    Targets <- MCTargets
    Exclusions <- MCExclusions
    MaxEvents = 3
INVARIANTS
    ListedCanBeSelected
    LocationIsPhysical
PROPERTY SelectionIsBest
CHECK_DEADLOCK FALSE
