SPECIFICATION Spec
CONSTANTS
    Topics = {t1}
    Raisable <- MCRaisable
    Cycles = 1
    Rescues = 1
    MaxLedger = 2
    MaxFresh = 1
    MaxFaults = 2
CHECK_DEADLOCK FALSE
INVARIANTS
    RedoneAlike
    PassedClean
