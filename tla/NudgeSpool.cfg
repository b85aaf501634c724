SPECIFICATION Spec
CONSTANTS
    Prompts = {p1, p2}
    Ends = {e1}
    NoOwner = NoOwner
    MaxRuns = 3
    MaxStalls = 1
    MaxFaults = 1
SYMMETRY PromptSymmetry
INVARIANTS FindingKept JobKept OneRedriver
CHECK_DEADLOCK FALSE
