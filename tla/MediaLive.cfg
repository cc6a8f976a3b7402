SPECIFICATION MixFairSpec
CONSTANTS
    MaxVersion = 1
    Profiles = {"vp9"}
    Primary = {"vp9"}
    MaxAttempts = 2
    Workers = {w1,w2}
    MaxRequests = 2
    MaxUnpublish = 1
    MaxFaults = 1
    MaxLinks = 1
    MaxErasures = 0
    MaxUids = 3
    Reaping = FALSE
    StatMayFail = TRUE
    Mixes <- Unpublished
PROPERTIES
    ImplementsLifecycle
    EventuallyEnds
CHECK_DEADLOCK FALSE
