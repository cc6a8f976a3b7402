SPECIFICATION Spec
CONSTANTS
    EventLoop = loop
    Eraser = eraser
    sweep = sweep
    request = request
    Sweepers = {sweep}
    OnDemand = {request}
    Fmts = {"preview"}
    MaxVersion = 2
    MaxQueue = 3
    Scopes <- HealScopes
PROPERTIES
    SweepsHeal
CHECK_DEADLOCK FALSE
