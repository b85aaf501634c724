CONSTANTS
    Procs = {p1, p2}
    NoProc = NoProc
    MaxExecs = 2
    MaxFence = 2
    MaxMishaps = 1
SPECIFICATION Spec
INVARIANT OneWriter
INVARIANT OneRunPerKey
CHECK_DEADLOCK FALSE
PROPERTY ClearedEnded
PROPERTY HeldIsWorked
