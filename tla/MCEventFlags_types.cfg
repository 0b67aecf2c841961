SPECIFICATION Spec
CONSTANTS
    Tasks = {t1, t2, t3}
    Flags = {f1, f2}
    Options = {"OR_CLEAR"}
    Blocks = {b1, b2, b3}
    Null = null
SYMMETRY MCSymmetry
INVARIANT TypeOK
CHECK_DEADLOCK FALSE
