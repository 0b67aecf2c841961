SPECIFICATION Spec
CONSTANTS
    Half = 3
    Win = 3
    First = 6
    MaxPackets = 8
    MaxCalls = 1
    None = none
INVARIANTS
    TypeOK
    StoreInRange
    SlotsMatch
    HeldIsTimed
PROPERTIES
    NothingLost
CHECK_DEADLOCK FALSE
