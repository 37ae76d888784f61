CONSTANTS
    Threads = {t1, t2}
    MaxCalls = 1
    None = None
SPECIFICATION Spec
INVARIANT
    LoadedOnce
CHECK_DEADLOCK FALSE
