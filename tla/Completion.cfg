SPECIFICATION Spec
CONSTANTS
    None = None
    Execs = {e1, e2}
    Swept = {e1}
    Required = {e1}
    Nodes = {n1}
    Backlog = 8
    MaxActs = 2
    MaxFaults = 1
INVARIANTS CompletionStands WithdrawnLeavesNothing
PROPERTIES AbandonKept HoldEnds
CHECK_DEADLOCK FALSE
