SPECIFICATION FairSpec
CONSTANTS
    c1 = c1
    c2 = c2
    p1 = p1
    p2 = p2
    Pairs = {p1}
    Slots = {c1}
    Contract = 2
    Dust = 2
    MaxContracts = 1
    Overfill = 0
    MaxExposure = 12
    MaxPerPair = 100
    Funds = 2
    MaxRetries = 2
    LostReports = FALSE
    MaxOpens = 1
    MaxExits = 1
    MaxTicks = 2
    MaxRefreshes = 0
    MaxMisreads = 1
    MaxLosses = 0
    MaxCrashes = 0
\* The bounds stop the system.
CHECK_DEADLOCK FALSE
PROPERTIES LockReleased SettlesOnlyGone
