CONSTANTS
    Instances = {1, 2, 3}
    Elsewhere = Elsewhere
    Refusable = {1}
    MaxEvents = 2
    MaxFence = 3
    MaxCrashes = 2
    MaxFaults = 1
    MaxToEnd = 2
SPECIFICATION FairSpec
INVARIANTS
    AuthorOrder
    Accounted
PROPERTY
    Drains
CHECK_DEADLOCK FALSE
