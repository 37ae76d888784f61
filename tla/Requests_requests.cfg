CONSTANTS
    Requests <- AllRequests
    Default <- DefaultName
    Digest = "digest"
SPECIFICATION Spec
INVARIANTS
    EveryItemComplete
    NoBorrowedScreen
    NamesApart
    KeysApart
    SweepReach
CHECK_DEADLOCK FALSE
