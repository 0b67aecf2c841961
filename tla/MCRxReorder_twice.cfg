SPECIFICATION Spec
CONSTANTS
    Half = 4
    Win = 2
    First = 6
    MaxPackets = 8
    MaxCalls = 1
    None = none
PROPERTIES
    NeverTwice
CHECK_DEADLOCK FALSE
