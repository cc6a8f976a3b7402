SPECIFICATION ServicesSpec
CONSTANTS
    Deployments <- SomeDeployments
    IfcOrders <- SomeOrders
    MaxFiles = 1
    MaxFaults = 1
    Threads = {t1, t2}
    Tenants = {ta, tb}
    Home = ta
    Sessions = {j1, j2}
    Horizon = 2
    SessionLife = 1
    TokenTtl = 0
    CacheTtl = 1
    CacheMax = 1
    MaxMoves = 1
    MaxRequests = 2
    MaxOutages = 1
    Clients = {t1, t2}
    Schemas = {s1}
    Cooldown = 2
    Timeout = 1
    Target = 8
    Overlap = 3
    BatchSize = 3
    MaxChunks = 4
    SplitDepth = 2
    TruncateTo = 1
    LineLengths = {1, 2, 4}
    MaxLines = 2
    MaxBlocks = 2
    Limits <- SomeLimits
    Workers = {w1, w2}
    Tasks <- SomeTasks
    Tables <- SomeTables
    Titles = {1, 2, 3}
    MaxIntegrations = 1
    DiscoveryTtl = 1
    TokenLife = 2
    Skew = 1
    LastTick = 2
    MaxCalls = 1
    MaxWrites = 3
    MaxFlips = 1
    Users = {u1}
    Files = {f1}
    Requests = {t1, t2}
    Ttl = 1
    MaxClock = 3
    MaxChanges = 2
    MaxErrors = 1
    MaxMisses = 1
INVARIANTS
    SweepsStaySmall
    ReadyPromises
    NothingIsLeft
    ReadsFindTables
    RightPasswordIsTaken
    AuthHasItsSecret
    CallIsOfOneVersion
    NobodyGets500
    SystemAdminIsHeld
CHECK_DEADLOCK FALSE
