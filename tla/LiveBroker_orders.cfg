SPECIFICATION Spec
CONSTANTS
    a1 = a1
    o1 = o1
    o2 = o2
    o3 = o3
    NoOrder = NoOrder
    Assets = {a1}
    Orders = {o1, o2}
    MaxShares = 1
    Funds = 2
    Copies = {1}
    MaxSweeps = 1
    MaxCrashes = 1
\* The bounds stop the system.
CHECK_DEADLOCK FALSE
INVARIANTS AccountedOnce LocksSound
SYMMETRY OrderSymmetry
