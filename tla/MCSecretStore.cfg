SPECIFICATION Spec
CONSTANTS
    a = a
    b = b
    c = c
    Account = {a, b, c}
    LegacyIndex <- BothLegacy
    MAX_ACCOUNTS = 2
    MaxToken = 4
INVARIANTS
    LoggedOutStaysOut
PROPERTIES
    ImplementsCell
