CONSTANTS
    Workers = {w1, w2}
    Items = {i1}
    NoWorker = NoWorker
    NoItem = NoItem
    MaxRuns = 1
    Concurrency = 1
    ReofferMax = 1
    Completions = {"agent", "controller"}
    MaxFaults = 2
SPECIFICATION Spec
PROPERTIES VerdictFrozen ObservedWins OwedSettles
CHECK_DEADLOCK FALSE
