SPECIFICATION Spec
CONSTANTS
    Xip = FALSE
    MaxErrs = 0
    MaxUpdates = 3
INVARIANT OkTableIsWhole
