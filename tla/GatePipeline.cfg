SPECIFICATION Spec
CONSTANTS
    Gates <- SuiteAndReview
    RetryCap = 1
    RescueAttempts = 1
    MaxHead = 3
    MaxFaults = 1
CHECK_DEADLOCK FALSE
INVARIANTS
    PassedOfTip
    FixesBounded
    OutagesPaid
