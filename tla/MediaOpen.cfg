SPECIFICATION Spec
CONSTANTS
    MaxVersion = 1
    Profiles = {"vp9"}
    Primary = {"vp9"}
    MaxAttempts = 2
    Workers = {w1}
    MaxRequests = 2
    MaxUnpublish = 1
    MaxFaults = 0
    MaxLinks = 1
    MaxErasures = 0
    MaxUids = 3
    Reaping = FALSE
    StatMayFail = FALSE
INVARIANTS
    CancelledLeavesNothing
PROPERTIES
    NeverDark
    RequestIsServed
CHECK_DEADLOCK FALSE
