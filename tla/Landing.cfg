SPECIFICATION Spec
CONSTANTS
    Items = {i1, i2}
    Strategies = {"merge", "squash"}
    Pinning = {TRUE, FALSE}
    Cycles = 1
    RaceCap = 2
    MaxMoves = 2
    MaxPushes = 1
    MaxFaults = 1
INVARIANTS LandedCovered ReportedLanded
PROPERTIES NothingLost
CHECK_DEADLOCK FALSE
