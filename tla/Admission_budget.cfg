CONSTANTS
    p1 = p1
    p2 = p2
    p3 = p3
    p4 = p4
    k1 = k1
    k2 = k2
    NoKey = NoKey
    Requests = {p1, p2, p3, p4}
    Presented <- TwinClients
    ApiKeys = {k1, k2}
    Prefix <- Prefixes
    Limit = 1
    Window = 2
    MaxTime = 4
    Limited = TRUE
    Faults = TRUE
SPECIFICATION Spec
SYMMETRY Alike
INVARIANTS
    TypeOK
    CounterIsExact
    MinuteBudget
    RefusedOnlyOverBudget
    BurstBound
    LeakOnlyByFailure
CHECK_DEADLOCK FALSE
