CONSTANTS
    w1 = w1
    w2 = w2
    w3 = w3
    w4 = w4
    Rows = {w1, w2, w3, w4}
    Asked = {0, 1, 2}
    Grades = {1, 2}
SPECIFICATION Spec
SYMMETRY Alike
INVARIANTS
    AsManyAsAsked
    Dominance
    BothBeatsOne
    HighRanksAnswered
CHECK_DEADLOCK FALSE
