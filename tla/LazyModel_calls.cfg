CONSTANTS
    Threads = {t1, t2, t3}
    MaxCalls = 2
    None = None
SPECIFICATION Spec
INVARIANTS
    EncodesWithAModel
    WarmCallsReuse
CHECK_DEADLOCK FALSE
