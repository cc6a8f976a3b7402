SPECIFICATION LoopsSpec
CONSTANTS
    MaxSent = 3
    Count = 2
    MaxCrashes = 2
    MaxFlips = 4
    MaxFaults = 2
    r1 = r1
    u1 = u1
    c1 = c1
    c2 = c2
    Runs = {r1}
    Users = {u1, u2}
    Owner <- Owners
    Tools = {t1, t2}
    Calls = 2
    Clients = {c1, c2}
    Posts = 1
    Mixes <- AllMixes
    Turns = 2
    Tokens = 2
    Rounds = 2
    Buffer = 1
    ChatMixes <- AllChatMixes
INVARIANTS
    OutageDropsNothing
    ApprovalsHold
    TurnsAreWhole
PROPERTIES
    ImplementsConsumer
    EventuallyAcked
    EverybodyEnds
CHECK_DEADLOCK FALSE
