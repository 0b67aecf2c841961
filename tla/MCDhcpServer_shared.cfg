\* Two clients more than the server remembers.
CONSTANTS
    Clients = {c1, c2, c3}
    None = none
    Foreign = foreign
    Size = 8
    MyIp = 1
    CacheSize = 1
    Wanted = {3, foreign}
    MaxNet = 1
    MaxLives = 2
    MaxLeaves = 1
SPECIFICATION Spec
INVARIANT NotAssignedToOthers
