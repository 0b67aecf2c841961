SPECIFICATION FairSpec
CONSTANTS
    Half = 4
    Win = 2
    First = 6
    MaxPackets = 8
    MaxCalls = 1
    None = none
INVARIANTS
    StoreInRange
    SlotsMatch
    HeldIsTimed
PROPERTIES
    NothingLost
    HeldGoesUp
CHECK_DEADLOCK FALSE
