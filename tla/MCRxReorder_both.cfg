SPECIFICATION Spec
CONSTANTS
    Half = 4
    Win = 2
    First = 7
    MaxPackets = 8
    MaxCalls = 2
    None = none
INVARIANTS
    TypeOK
    StoreInRange
    SlotsMatch
    HeldIsTimed
PROPERTIES
    NothingLost
CHECK_DEADLOCK FALSE
