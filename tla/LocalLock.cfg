CONSTANTS
    Proc = {p1, p2, p3}
    Mortal = {p1, p2}
    NoProc = NoProc
SPECIFICATION FairSpec
INVARIANTS
    MutualExclusion
    FileOfLive
PROPERTY
    DeadLockBroken
