SPECIFICATION Spec
CONSTANTS
    EventLoop = loop
    Eraser = eraser
    sweep = sweep
    request = request
    Sweepers = {sweep}
    OnDemand = {request}
    Fmts = {"preview"}
    MaxVersion = 2
    MaxQueue = 3
    Scopes <- AllScopes
INVARIANTS
    RowsAreTrue
    ResolvedIsAnnounced
    QuietErasureIsFinal
    ComplianceIsReal
CHECK_DEADLOCK FALSE
