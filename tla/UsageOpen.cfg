SPECIFICATION FairSpec
CONSTANTS
    Runs = {r1, r2, r3}
    Limit = 2
    TokenLimit = 2
    MaxCost = 2
    KeyExpires = TRUE
    MaxDays = 0
    MaxLost = 2
    MaxFailed = 1
INVARIANTS
    LimitAlwaysHolds
    SpentIsCounted
PROPERTIES
    CrashedSlotFrees
CHECK_DEADLOCK FALSE
