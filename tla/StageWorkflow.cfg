CONSTANTS
    d1 = d1
    d2 = d2
    d3 = d3
    Drivers = {d1, d2}
    NoDriver = NoDriver
    Worker <- MCWorker
    Program <- MCProgram
    Results = {1}
    MaxReopen = 1
    MaxFaults = 1
    MaxEdits = 2
    MaxClock = 1
SPECIFICATION FairSpec
INVARIANTS
    JournalReplays
    ExecutedAlike
PROPERTIES
    NeverRedone
    Reports
CHECK_DEADLOCK FALSE
