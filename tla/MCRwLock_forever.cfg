SPECIFICATION FairSpec
CONSTANTS
    Readers = {r1}
    Writers = {w1}
    Nobody = nobody
    Waits = {"forever"}
PROPERTY WritersServed
CHECK_DEADLOCK FALSE
