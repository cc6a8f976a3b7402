SPECIFICATION Spec
CONSTANTS
    MaxVersion = 1
    Profiles = {"vp9"}
    Primary = {"vp9"}
    MaxAttempts = 2
    Workers = {w1}
    MaxRequests = 2
    MaxUnpublish = 0
    MaxFaults = 1
    MaxLinks = 0
    MaxErasures = 0
    MaxUids = 3
    Reaping = FALSE
    StatMayFail = TRUE
INVARIANTS
    SucceededHasContent
CHECK_DEADLOCK FALSE
