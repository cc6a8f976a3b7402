SPECIFICATION Spec
CONSTANTS
    MaxSent = 3
    Count = 2
    MaxCrashes = 0
    MaxFlips = 2
    MaxFaults = 1
INVARIANTS
    AlwaysInOrder
CHECK_DEADLOCK FALSE
