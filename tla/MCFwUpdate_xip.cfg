SPECIFICATION Spec
CONSTANTS
    Xip = TRUE
    MaxErrs = 0
    MaxUpdates = 3
INVARIANT AlternateConsidered
