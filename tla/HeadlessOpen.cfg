SPECIFICATION HeadlessSpec
CONSTANTS
    Runs = {r1, r2, r3}
    Limit = 2
    TokenLimit = 2
    MaxCost = 2
    KeyExpires = TRUE
    MaxDays = 1
    MaxLost = 1
    MaxFailed = 1
    Sizes = {0, 1, 3, 10, 11}
    MaxLength = 11
    Fields = {a, b}
    Parts = 2
    e1 = e1
    e2 = e2
    a1 = a1
    a2 = a2
    x1 = x1
    Editors = {e1, e2}
    Apps = {a1, a2}
    Readers = {x1}
    Sets = {s1, s2}
    Texts = {d1, d2}
    Slugs = {x}
    NoSlug = NoSlug
    AppSets = 1
    PerDay = 2
    MaxRevisions = 4
    Bases = {1, 2}
    Mixes <- AllMixes
INVARIANTS
    FoundIsKept
PROPERTIES
    DecisionsStand
    SavesAreKept
CHECK_DEADLOCK FALSE
