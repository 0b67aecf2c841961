CONSTANTS
    Networks = {n1, n2}
    None = none
    MaxEvents = 4
    MaxRequests = 3
    MaxCalls = 3
SPECIFICATION FairSpec
PROPERTY ChangeRetried
CHECK_DEADLOCK FALSE
