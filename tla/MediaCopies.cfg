SPECIFICATION MixSpec
CONSTANTS
    MaxVersion = 2
    Profiles = {"vp9", "sd"}
    Primary = {"vp9"}
    MaxAttempts = 2
    Workers = {w1}
    MaxRequests = 2
    MaxUnpublish = 1
    MaxFaults = 1
    MaxLinks = 0
    MaxErasures = 1
    MaxUids = 2
    Reaping = TRUE
    StatMayFail = FALSE
    Mixes <- Replaced
INVARIANTS
    SucceededHasContent
PROPERTIES
    NeverDark
CHECK_DEADLOCK FALSE
