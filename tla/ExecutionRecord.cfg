CONSTANTS
    Gates = {g1}
    Rejudge = {g1}
    Boundary = "integration"
    Candidates = {c1, c2}
    i1 = i1
    i2 = i2
    i3 = i3
    Instances = {i1, i2, i3}
    Principal <- MCPrincipal
    None = None
    Attempts = {1}
    Vocabulary = {"candidate.pinned", "candidate.published", "gate.settled", "integration.started", "integration.settled", "completion.written"}
    Ttl = 2
    MaxFence = 2
SPECIFICATION FairSpec
INVARIANTS
    FenceNamesOwner
    CompletedAccepted
PROPERTIES
    DeadOwnerReplaced
    IntegrationOfTip
CHECK_DEADLOCK FALSE
