SPECIFICATION Spec
CONSTANTS
    c1 = c1
    c2 = c2
    p1 = p1
    p2 = p2
    Pairs = {p1}
    Slots = {c1, c2}
    Contract = 1
    Dust = 1
    MaxContracts = 1
    Overfill = 0
    MaxExposure = 12
    MaxPerPair = 100
    Funds = 1
    MaxRetries = 1
    LostReports = FALSE
    MaxOpens = 2
    MaxExits = 1
    MaxTicks = 1
    MaxRefreshes = 0
    MaxMisreads = 0
    MaxLosses = 0
    MaxCrashes = 0
\* The bounds stop the system.
CHECK_DEADLOCK FALSE
SYMMETRY SlotSymmetry
INVARIANTS OneOwner EntryFromFlat
PROPERTY PairProtocol
