SPECIFICATION Spec
CONSTANTS
    Users = {u1}
    Files = {f1}
    Requests = {r1, r2}
    Ttl = 1
    MaxClock = 3
    MaxChanges = 1
    MaxErrors = 0
    MaxMisses = 0
PROPERTIES
    DenyIsNotUpgraded
CHECK_DEADLOCK FALSE
