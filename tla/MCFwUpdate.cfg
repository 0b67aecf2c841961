SPECIFICATION Spec
CONSTANTS
    Xip = FALSE
    MaxErrs = 1
    MaxUpdates = 3
INVARIANTS
    BootableUnlessTorn
    UpdateTakesEffect
    RunningImageIntact
PROPERTY
    BootedTableStable
