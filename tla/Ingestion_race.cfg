CONSTANTS
    ra = ra
    rb = rb
    ca = ca
    cb = cb
    Requests = {ra, rb}
    Collections = {ca, cb}
    Services = {s1, s2}
    Job <- JobsPair
    AgeLabel <- Labels
    BatchSize = 2
SPECIFICATION Spec
INVARIANT
    OneScreenPerDocument
CHECK_DEADLOCK FALSE
