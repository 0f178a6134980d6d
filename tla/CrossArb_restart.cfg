SPECIFICATION Spec
CONSTANTS
    c1 = c1
    c2 = c2
    p1 = p1
    p2 = p2
    Pairs = {p1}
    Slots = {c1}
    Contract = 2
    Dust = 2
    MaxContracts = 1
    Overfill = 1
    MaxExposure = 12
    MaxPerPair = 100
    Funds = 4
    MaxRetries = 2
    LostReports = TRUE
    MaxOpens = 2
    MaxExits = 0
    MaxTicks = 0
    MaxRefreshes = 1
    MaxMisreads = 0
    MaxLosses = 0
    MaxCrashes = 1
\* The bounds stop the system.
CHECK_DEADLOCK FALSE
INVARIANTS TypeOK
PROPERTY RestoreCovered
