CONSTANTS
    Gates = {}
    Rejudge = {}
    Boundary = "gates"
    Candidates = {c1}
    i1 = i1
    i2 = i2
    i3 = i3
    Instances = {i1, i2, i3}
    Principal <- MCPrincipal
    None = None
    Attempts = {1}
    Vocabulary = {"candidate.pinned", "completion.written"}
    Factories = {f1}
    Takeovers = {TRUE, FALSE}
    Ttl = 1
    MaxAttempts = 2
    MaxRows = 4
SPECIFICATION Spec
SYMMETRY Symmetry
INVARIANTS
    LogReplays
    OneLive
PROPERTIES
    LostStaysOut
    RefinesRecord
CHECK_DEADLOCK FALSE
