SPECIFICATION Spec
CONSTANTS
    MaxVersion = 2
    Profiles = {"vp9"}
    Primary = {"vp9"}
    MaxAttempts = 2
    Workers = {w1,w2}
    MaxRequests = 2
    MaxUnpublish = 0
    MaxFaults = 0
    MaxLinks = 0
    MaxErasures = 0
    MaxUids = 3
    Reaping = FALSE
    StatMayFail = FALSE
INVARIANTS
    SucceededHasContent
PROPERTIES
    NeverDark
CHECK_DEADLOCK FALSE
