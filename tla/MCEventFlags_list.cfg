SPECIFICATION Spec
CONSTANTS
    Tasks = {t1, t2}
    Flags = {f1}
    Options = {"OR"}
    Blocks = {b1, b2}
    Null = null
INVARIANT ListHoldsWaiters
CHECK_DEADLOCK FALSE
