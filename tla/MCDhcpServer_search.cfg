\* A subnet with no more addresses than the server remembers.
CONSTANTS
    Clients = {c1, c2}
    None = none
    Foreign = foreign
    Size = 4
    MyIp = 1
    CacheSize = 1
    Wanted = {foreign}
    MaxNet = 1
    MaxLives = 2
    MaxLeaves = 1
SPECIFICATION Spec
INVARIANT SearchEnds
