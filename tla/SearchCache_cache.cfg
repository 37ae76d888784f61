CONSTANTS
    a = a
    ab = ab
    ka = ka
    kb = kb
    kg = kg
    wa = wa
    Collections = {a, ab}
    SearchKeys = {ka, kb}
    GraphKeys = {kg}
    Scope <- MCScope
    Pattern <- MCPattern
    Readers = {r1, r2}
    Regulars = {r1}
    Writers = {wa}
    Upload <- TwoAdded
    Redis = TRUE
    Faults = {"redis", "store"}
SPECIFICATION FairSpec
INVARIANTS
    TypeOK
    StaleOnlyByLateFill
    CachedIsReal
    UncachedSeesAcked
PROPERTIES
    CacheSettles
CHECK_DEADLOCK FALSE
