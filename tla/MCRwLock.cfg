SPECIFICATION FairSpec
CONSTANTS
    Readers = {r1, r2}
    Writers = {w1, w2}
    Nobody = nobody
    Waits = {"finite"}
INVARIANTS
    Exclusion
    CountExact
PROPERTIES
    ReadersServed
    WritersServed
