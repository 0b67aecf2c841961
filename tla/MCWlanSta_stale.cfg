CONSTANTS
    Networks = {n1, n2}
    Static = {n1}
    Users = {u1, u2}
    None = None
    MaxEvents = 5
    RescanLimit = 2
    MaxCalls = 3
SPECIFICATION Spec
INVARIANT ConnectedIsReal
CHECK_DEADLOCK FALSE
