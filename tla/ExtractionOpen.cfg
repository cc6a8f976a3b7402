SPECIFICATION ExtractionSpec
CONSTANTS
    t1 = t1
    t2 = t2
    c1 = c1
    c2 = c2
    j1 = j1
    j2 = j2
    w1 = w1
    Threads = {t1, t2}
    Calls = {c1, c2}
    Jobs = {j1, j2}
    Converters = {w1}
    Files = {f1}
    Questions = {q1, q2}
    MaxVersion = 2
    Slots = 1
    Mixes <- OpenMixes
INVARIANTS
    EveryJobHasItsEvent
    ValuesAreOfTheirVersion
    ErasureForgetsValues
    AnnouncedIsThere
CHECK_DEADLOCK FALSE
