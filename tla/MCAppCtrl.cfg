\* Four calls of the application; both queues can fill up.
CONSTANTS
    Networks = {n1, n2}
    None = none
    MaxEvents = 4
    MaxRequests = 3
    MaxCalls = 4
SPECIFICATION FairSpec
INVARIANTS ConnectedAttended AttemptPending
PROPERTY LossRetried
CHECK_DEADLOCK FALSE
