SPECIFICATION Spec
CONSTANTS
    c1 = c1
    c2 = c2
    p1 = p1
    p2 = p2
    Pairs = {p1}
    Slots = {c1}
    Contract = 2
    Dust = 3
    MaxContracts = 4
    Overfill = 3
    MaxExposure = 17
    MaxPerPair = 100
    Funds = 11
    MaxRetries = 2
    LostReports = FALSE
    MaxOpens = 1
    MaxExits = 0
    MaxTicks = 0
    MaxRefreshes = 0
    MaxMisreads = 0
    MaxLosses = 1
    MaxCrashes = 0
\* The bounds stop the system.
CHECK_DEADLOCK FALSE
INVARIANTS TrackedHedged EntryReconciles
PROPERTIES RecoverySafe
