SPECIFICATION Spec
CONSTANTS
    EventLoop = loop
    Eraser = eraser
    sweep = sweep
    request = request
    Sweepers = {sweep}
    OnDemand = {request}
    Fmts = {"preview"}
    MaxVersion = 2
    MaxQueue = 3
    Scopes <- AllScopes
INVARIANTS
    EveryResolutionIsAnnounced
    StaleTextIsSuperseded
    RenditionsAreComplete
PROPERTIES
    FailedMeansNothingProduced
    CurrentRenditionsSurvive
    NewestWins
CHECK_DEADLOCK FALSE
