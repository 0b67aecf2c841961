SPECIFICATION Spec
CONSTANTS
    Tasks = {t1}
    Flags = {f1, f2}
    Options = {"AND_CLEAR", "OR_CLEAR"}
    Blocks = {b1}
    Null = null
PROPERTY ClearsRequested
CHECK_DEADLOCK FALSE
