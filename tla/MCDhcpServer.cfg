\* One client more than the server remembers; it is started twice.
CONSTANTS
    Clients = {c1, c2}
    None = none
    Foreign = foreign
    Size = 8
    MyIp = 1
    CacheSize = 1
    Wanted = {3, foreign}
    MaxNet = 1
    MaxLives = 2
    MaxLeaves = 1
SPECIFICATION FairSpec
INVARIANTS LeaseStands RememberedAlone
PROPERTY AskersServed
