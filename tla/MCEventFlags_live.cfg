SPECIFICATION FairSpec
CONSTANTS
    Tasks = {t1, t2}
    Flags = {f1, f2}
    Options = {"AND_CLEAR"}
    Blocks = {b1, b2}
    Null = null
PROPERTIES
    WaiterServed
    DeletionEmptiesGroup
CHECK_DEADLOCK FALSE
