CONSTANTS
    a = a
    ab = ab
    ka = ka
    kb = kb
    kg = kg
    wa = wa
    Collections = {a, ab}
    SearchKeys = {ka, kb}
    GraphKeys = {kg}
    Scope <- MCScope
    Pattern <- MCPattern
    Readers = {r1}
    Regulars = {}
    Writers = {wa}
    Upload <- OneAdded
    Redis = TRUE
    Faults = {}
SPECIFICATION Spec
INVARIANTS
    InvalidatedWhenStored
CHECK_DEADLOCK FALSE
