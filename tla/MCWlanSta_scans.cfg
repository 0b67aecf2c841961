CONSTANTS
    Networks = {n1}
    Static = {n1}
    Users = {u1, u2}
    None = None
    MaxEvents = 4
    RescanLimit = 1
    MaxCalls = 4
SPECIFICATION FairSpec
PROPERTIES ScanLockComesBack ConnectResolves
INVARIANTS ToldTrue ObtainsAwake
CHECK_DEADLOCK FALSE
